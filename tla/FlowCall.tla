------------------------------ MODULE FlowCall ------------------------------
(***************************************************************************)
(* A runtime generation (runtime/core/runtime/runtime.go, Run), from the    *)
(* start of its flows to the stop of its connectors, and the calls its      *)
(* flows make of each other: the flow-ref block (blocks/builtin/flowref.go),*)
(* the flow registry (flowregistry.go), the implicit source                 *)
(* (implicitsource.go) and the event bus that brings a caller its result    *)
(* (core/eventbus.go).                                                      *)
(*                                                                          *)
(* A flow is modelled by its input channel, its workers and the flow-ref    *)
(* its chain may have; module BoundFlow models the rest of it.  A message   *)
(* admitted by a source and the messages its flow-refs send on are the      *)
(* invocations <<m, 0>>, <<m, 1>>, ...                                      *)
(***************************************************************************)
EXTENDS Integers, FiniteSets

CONSTANTS
    Flows,          \* the configured flows
    Place,          \* Place[f]: where f is in the configuration
    Implicit,       \* those without a source of their own
    Ref,            \* Ref[f]: the flow f's flow-ref names, or NoFlow
    OneWay,         \* the flows whose flow-ref is one-way
    NoFlow,
    Msgs,           \* the messages the sources produce
    Source,         \* Source[m]: the flow whose source produces m
    Workers,        \* workers of each flow
    Buffer,         \* the capacity of a flow's channel
    Depth,          \* the longest chain of flow-refs
    FlowOf,         \* FlowOf[x]: the flow invocation x runs through
    NoInv

Invs == Msgs \X (0..Depth)

ASSUME FlowsAssumption ==
    /\ Implicit \subseteq Flows /\ OneWay \subseteq Flows /\ NoFlow \notin Flows
    /\ Place \in [Flows -> Nat] /\ \A f, g \in Flows : Place[f] = Place[g] => f = g
    /\ Ref \in [Flows -> Flows \cup {NoFlow}]
    /\ Source \in [Msgs -> Flows \ Implicit]
    /\ {Workers, Buffer} \subseteq Nat \ {0} /\ Depth \in Nat /\ NoInv \notin Invs

\* A message runs through its source's flow, and what a flow-ref sends on through the flow the
\* flow-ref names; Depth is enough for that.
ASSUME CallsAssumption ==
    /\ FlowOf \in [Invs -> Flows \cup {NoFlow}]
    /\ \A m \in Msgs :
          /\ FlowOf[<<m, 0>>] = Source[m]
          /\ \A d \in 0..(Depth - 1) :
                FlowOf[<<m, d + 1>>] =
                    IF FlowOf[<<m, d>>] = NoFlow THEN NoFlow ELSE Ref[FlowOf[<<m, d>>]]
          /\ FlowOf[<<m, Depth>>] = NoFlow \/ Ref[FlowOf[<<m, Depth>>]] = NoFlow

VARIABLES
    phase,      \* Run: "starting", "running", "stopping", "connectors" (stopped), "returned"
    stopping,   \* where boundFlow.stop is: "source", "close", "drain"
    up,         \* the flows started and not stopped
    cancelled,  \* Run's context is done
    open,       \* the flows that take messages: callable by name, or their source runs
    closed,     \* the flows whose channel is closed
    subscribed, \* the registry is on the bus
    st,         \* where each invocation is
    outcome,    \* what its terminal event says
    pending,    \* flowRegistry.pending: the call waiting for each event ID
    target,     \* the call a terminal event was found to belong to
    reply,      \* the reply channel of each call: whose event it has, and what it said
    unresolved  \* the invocations whose flow-ref found no flow of that name

service == <<phase, stopping, up, cancelled, open, closed, subscribed>>
work == <<st, outcome>>
calls == <<pending, target, reply, unresolved>>
vars == <<service, work, calls>>

NoReply == [from |-> NoInv, says |-> "none"]

Init ==
    /\ phase = "starting" /\ stopping = "source" /\ up = {} /\ cancelled = FALSE
    /\ open = {} /\ closed = {} /\ subscribed = TRUE
    /\ st = [x \in Invs |-> "none"] /\ outcome = [x \in Invs |-> "none"]
    /\ pending = [x \in Invs |-> NoInv] /\ target = [x \in Invs |-> NoInv]
    /\ reply = [x \in Invs |-> NoReply]
    /\ unresolved = {}

----------------------------------------------------------------------------
(* Run *)

\* Mutant of Before: the flows start as they are configured.
AsConfigured(f, g) == Place[f] < Place[g]

\* orderForStart, a stable sort: flows that are only called come first.
Before(f, g) ==
    IF f \in Implicit <=> g \in Implicit THEN Place[f] < Place[g] ELSE f \in Implicit

\* The flow startFlows comes to next, and the one stopFlows does.
IsNext(f) == f \in Flows \ up /\ \A g \in Flows \ up : g = f \/ Before(f, g)
IsLast(f) == f \in up /\ \A g \in up : g = f \/ Before(g, f)

\* startFlows: the next flow's workers and source are up; implicitSource.Start registers it.
StartFlow(f) ==
    /\ phase = "starting" /\ IsNext(f)
    /\ up' = up \cup {f}
    /\ open' = open \cup {f}
    /\ UNCHANGED <<phase, stopping, cancelled, closed, subscribed, work, calls>>

\* startFlows fails at the next flow: the ones before it are stopped.
StartFails ==
    /\ phase = "starting" /\ up # Flows
    /\ phase' = "stopping"
    /\ UNCHANGED <<stopping, up, cancelled, open, closed, subscribed, work, calls>>

Ready ==
    /\ phase = "starting" /\ up = Flows
    /\ phase' = "running"
    /\ UNCHANGED <<stopping, up, cancelled, open, closed, subscribed, work, calls>>

\* The context of Run, which is that of the workers too.
Cancel ==
    /\ ~cancelled /\ phase \in {"starting", "running"}
    /\ cancelled' = TRUE
    /\ UNCHANGED <<phase, stopping, up, open, closed, subscribed, work, calls>>

Stop ==
    /\ phase = "running" /\ cancelled
    /\ phase' = "stopping"
    /\ UNCHANGED <<stopping, up, cancelled, open, closed, subscribed, work, calls>>

Busy == {"working", "sending", "waiting", "finishing", "deliver"}
In(f, where) == {x \in Invs : FlowOf[x] = f /\ st[x] \in where}

\* Mutant of StopSource: the implicit source stops and stays in the registry.
StopSourceRegistered(f) ==
    /\ phase = "stopping" /\ stopping = "source" /\ IsLast(f)
    /\ open' = IF f \in Implicit THEN open ELSE open \ {f}
    /\ stopping' = "close"
    /\ UNCHANGED <<phase, up, cancelled, closed, subscribed, work, calls>>

\* stopFlows, in reverse: the source is stopped (implicitSource.Stop deregisters the flow),
StopSource(f) ==
    /\ phase = "stopping" /\ stopping = "source" /\ IsLast(f)
    /\ open' = open \ {f}
    /\ stopping' = "close"
    /\ UNCHANGED <<phase, up, cancelled, closed, subscribed, work, calls>>

\* Mutant of CloseChannel: the workers are waited for, the channel stays open.
LeaveOpen(f) ==
    /\ phase = "stopping" /\ stopping = "close" /\ IsLast(f)
    /\ stopping' = "drain"
    /\ UNCHANGED <<phase, up, cancelled, open, closed, subscribed, work, calls>>

\* the channel closed,
CloseChannel(f) ==
    /\ phase = "stopping" /\ stopping = "close" /\ IsLast(f)
    /\ closed' = closed \cup {f}
    /\ stopping' = "drain"
    /\ UNCHANGED <<phase, up, cancelled, open, subscribed, work, calls>>

\* Mutant of Drained: the workers are not waited for.
Undrained(f) ==
    /\ phase = "stopping" /\ stopping = "drain" /\ IsLast(f)
    /\ up' = up \ {f}
    /\ stopping' = "source"
    /\ UNCHANGED <<phase, cancelled, open, closed, subscribed, work, calls>>

\* and its workers, who go on until it is closed and empty, have done what was in it.
Drained(f) ==
    /\ phase = "stopping" /\ stopping = "drain" /\ IsLast(f) /\ f \in closed
    /\ In(f, Busy \cup {"queued"}) = {}
    /\ up' = up \ {f}
    /\ stopping' = "source"
    /\ UNCHANGED <<phase, cancelled, open, closed, subscribed, work, calls>>

StopConnectors ==
    /\ phase = "stopping" /\ up = {}
    /\ phase' = "connectors"
    /\ UNCHANGED <<stopping, up, cancelled, open, closed, subscribed, work, calls>>

\* Run returns; flowRegistry.close takes the registry off the bus.
Return ==
    /\ phase = "connectors"
    /\ phase' = "returned"
    /\ subscribed' = FALSE
    /\ UNCHANGED <<stopping, up, cancelled, open, closed, work, calls>>

----------------------------------------------------------------------------
(* A flow's channel and its workers *)

Goto(x, l) == st' = [st EXCEPT ![x] = l]
Room(f) == Cardinality(In(f, {"queued"})) < Buffer

\* A source puts a message into its flow.
Emit(m) ==
    /\ st[<<m, 0>>] = "none" /\ Source[m] \in open /\ Room(Source[m])
    /\ Goto(<<m, 0>>, "queued")
    /\ UNCHANGED <<service, outcome, calls>>

\* worker: it runs until the channel is closed and empty.
Take(x) ==
    /\ st[x] = "queued" /\ Cardinality(In(FlowOf[x], Busy)) < Workers
    /\ Goto(x, "working")
    /\ UNCHANGED <<service, outcome, calls>>

\* What a terminal event says; a caller goes on after a dropped message as after a completed
\* one.
Outcomes == {"completed", "failed"}

\* The chain of x comes to its end, or its error path does.
Finish(x, outs) ==
    /\ outcome' \in {[outcome EXCEPT ![x] = o] : o \in outs}
    /\ Goto(x, "finishing")

\* A chain without a flow-ref.
Run(x) ==
    /\ st[x] = "working" /\ Ref[FlowOf[x]] = NoFlow
    /\ Finish(x, Outcomes)
    /\ UNCHANGED <<service, calls>>

----------------------------------------------------------------------------
(* flow-ref *)

Sub(x) == <<x[1], x[2] + 1>>
TwoWay(x) == FlowOf[x] \notin OneWay

\* Mutant of EventID: the message sent on keeps the ID it came with.
SameEventID(x) == <<x[1], 0>>

\* Rekey: the message sent on is an event of its own.
EventID(x) == x

\* track, forget: the call of x, under the ID of its message.
Track(x) == pending' = [pending EXCEPT ![EventID(x)] = x]
Forget(x) == pending' = [pending EXCEPT ![EventID(x)] = NoInv]

\* Process, up to lookup, which knows the implicit flows only: a two-way flow-ref tracks its call first.
Lookup(x) ==
    LET f == Ref[FlowOf[x]] IN
    /\ st[x] = "working" /\ f # NoFlow
    /\ \/ /\ f \in open \cap Implicit
          /\ IF TwoWay(x) THEN Track(Sub(x)) ELSE UNCHANGED pending
          /\ Goto(x, "sending") /\ UNCHANGED <<outcome, unresolved>>
       \/ /\ f \notin open \cap Implicit
          /\ unresolved' = unresolved \cup {x}
          /\ Finish(x, {"failed"}) /\ UNCHANGED pending
    /\ UNCHANGED <<service, target, reply>>

\* Send: the message is in the channel.  One-way, that is all.
Send(x) ==
    LET y == Sub(x) IN
    /\ st[x] = "sending" /\ FlowOf[y] \notin closed /\ Room(FlowOf[y])
    /\ \/ /\ TwoWay(x)
          /\ st' = [st EXCEPT ![x] = "waiting", ![y] = "queued"] /\ UNCHANGED outcome
       \/ /\ ~TwoWay(x)
          /\ st' = [st EXCEPT ![x] = "finishing", ![y] = "queued"]
          /\ outcome' \in {[outcome EXCEPT ![x] = o] : o \in Outcomes}
    /\ UNCHANGED <<service, calls>>

\* Send: the channel was closed after lookup (the panic is recovered), or the context is done.
SendFails(x) ==
    /\ st[x] = "sending"
    /\ FlowOf[Sub(x)] \in closed \/ cancelled
    /\ Finish(x, {"failed"})
    /\ IF TwoWay(x) THEN Forget(Sub(x)) ELSE UNCHANGED pending
    /\ UNCHANGED <<service, target, reply, unresolved>>

\* Call: the reply, after which the rest of the chain may do anything; or an error.
Receive(x) ==
    LET says == reply[Sub(x)].says IN
    /\ st[x] = "waiting"
    /\ \/ says # "none" /\ Finish(x, IF says = "failed" THEN {"failed"} ELSE Outcomes)
       \/ cancelled /\ Finish(x, {"failed"})
    /\ Forget(Sub(x))
    /\ reply' = [reply EXCEPT ![Sub(x)] = NoReply]
    /\ UNCHANGED <<service, target, unresolved>>

----------------------------------------------------------------------------
(* The terminal event *)

\* The worker is done with x.
Over(x) == Goto(x, "done") /\ outcome' = [outcome EXCEPT ![x] = "none"]

\* Publish, on the worker: onFlowEvent looks for the call that waits for the event.
Publish(x) ==
    LET y == IF subscribed THEN pending[EventID(x)] ELSE NoInv IN
    /\ st[x] = "finishing"
    /\ target' = [target EXCEPT ![x] = y]
    /\ \/ y # NoInv /\ Goto(x, "deliver") /\ UNCHANGED outcome
       \/ y = NoInv /\ Over(x)
    /\ UNCHANGED <<service, pending, reply, unresolved>>

\* The reply channel has room for one.
Deliver(x) ==
    /\ st[x] = "deliver"
    /\ reply' = IF reply[target[x]] = NoReply
                THEN [reply EXCEPT ![target[x]] = [from |-> x, says |-> outcome[x]]]
                ELSE reply
    /\ target' = [target EXCEPT ![x] = NoInv]
    /\ Over(x)
    /\ UNCHANGED <<service, pending, unresolved>>

----------------------------------------------------------------------------

Service ==
    \/ \E f \in Flows : StartFlow(f) \/ StopSource(f) \/ CloseChannel(f) \/ Drained(f)
    \/ Ready \/ Stop \/ StopConnectors \/ Return
Work(x) ==
    \/ Take(x) \/ Run(x) \/ Lookup(x) \/ Send(x) \/ SendFails(x) \/ Receive(x)
    \/ Publish(x) \/ Deliver(x)

Returned == phase = "returned" /\ UNCHANGED vars

Next ==
    \/ Service \/ StartFails \/ Cancel
    \/ \E m \in Msgs : Emit(m)
    \/ \E x \in Invs : Work(x)
    \/ Returned

Spec == Init /\ [][Next]_vars

\* As long as some goroutine of the service or of a worker can run, one does: blocks return.
\* Nothing makes a source produce a message or the context end.
Fairness == WF_vars(Service \/ \E x \in Invs : Work(x))

FairSpec == Spec /\ Fairness

----------------------------------------------------------------------------
(* Properties *)

\* The kinds of values; and no flow that can still be found, or whose source runs, has a
\* closed channel (implicitsource.go Stop, boundflow.go stop).
TypeOK ==
    /\ phase \in {"starting", "running", "stopping", "connectors", "returned"}
    /\ stopping \in {"source", "close", "drain"}
    /\ up \subseteq Flows /\ cancelled \in BOOLEAN /\ subscribed \in BOOLEAN
    /\ open \subseteq Flows /\ closed \subseteq Flows /\ open \cap closed = {}
    /\ st \in [Invs -> {"none", "queued", "done"} \cup Busy]
    /\ \A x \in Invs : FlowOf[x] = NoFlow => st[x] = "none"
    /\ outcome \in [Invs -> Outcomes \cup {"none"}]
    /\ pending \in [Invs -> Invs \cup {NoInv}] /\ target \in [Invs -> Invs \cup {NoInv}]
    /\ reply \in [Invs -> [from : Invs \cup {NoInv}, says : Outcomes \cup {"none"}]]
    /\ unresolved \subseteq Invs

\* track before Send, Rekey and the correlation by event ID (flowref.go:62-64), and a channel
\* drained before its flow is gone (flowregistry.go:87-101, boundflow.go worker): a caller that
\* waits has the reply of the message it sent and of no other, or that message is on its way
\* through its flow with the call still known, whatever is being stopped.
NoStrandedCaller ==
    \A x \in Invs : st[x] = "waiting" =>
        LET y == Sub(x) IN
        \/ reply[y].from = y \/ target[y] = y
        \/ /\ pending[EventID(y)] = y /\ st[y] \in Busy \cup {"queued"}
           /\ reply[y] = NoReply

\* startFlows (runtime.go:630-634): a message a source admits finds the implicit flow its
\* flow-ref names, from the first start to the last stop.
RefsResolve ==
    \A x \in unresolved : FlowOf[x] \notin Implicit => Ref[FlowOf[x]] \notin Implicit

\* Run (runtime.go:182-183): "on shutdown flows drain before connectors release their
\* resources", after a start that failed too.
ConnectorsOutliveFlows ==
    phase \in {"connectors", "returned"} => \A x \in Invs : st[x] \in {"none", "done"}

\* Run comes back when its context is done.
RunReturns == cancelled ~> phase = "returned"
============================================================================
