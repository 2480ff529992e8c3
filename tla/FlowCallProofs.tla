--------------------------- MODULE FlowCallProofs ---------------------------
(***************************************************************************)
(* Proofs about FlowCall, for every configuration of flows and flow-refs,   *)
(* any number of messages and workers and any capacity of the channels.     *)
(*                                                                          *)
(* Inv says that the flows that are up are the first ones in the order of   *)
(* start, that whatever is under way is in a flow that is up, and that the  *)
(* event of an invocation has one caller, which has tracked it.             *)
(***************************************************************************)
EXTENDS FlowCall, TLAPS

Underway == Busy \cup {"queued"}

\* The flows that are up are started before the others.  All of them take messages, but for
\* the one boundFlow.stop is at; when the connectors are stopped none is up.
UpInv ==
    /\ \A f \in up, g \in Flows : Before(g, f) => g \in up
    /\ open \subseteq up
    /\ \A f \in up \ open : stopping # "source" /\ IsLast(f)
    /\ stopping # "source" =>
          phase = "stopping" /\ up # {} /\ \A f \in open : ~IsLast(f)
    /\ phase \in {"connectors", "returned"} => up = {}
    /\ ~subscribed => phase = "returned"
    /\ phase = "starting" => closed = {}

\* An invocation under way is in a flow that is up; a flow a message is being sent to is up,
\* or its channel was closed.
PlaceInv ==
    \A x \in Invs :
        /\ st[x] \in Underway => FlowOf[x] \in up
        /\ st[x] = "sending" => FlowOf[Sub(x)] \in up \cup closed

\* A message is sent on once, by an invocation that has come to its flow-ref.
ChainInv ==
    \A x \in Invs :
        /\ st[x] \in {"sending", "waiting"} => Sub(x) \in Invs
        /\ st[x] = "waiting" => TwoWay(x)
        /\ st[x] \in {"none", "queued", "working", "sending"} /\ Sub(x) \in Invs =>
              st[Sub(x)] = "none"

\* The registry knows a call by the event ID of the message it sent, and by no other; a call
\* whose message is about to be sent is known; a reply comes when its message is done.
CallInv ==
    \A x \in Invs :
        /\ pending[x] \in {x, NoInv}
        /\ st[x] = "sending" /\ TwoWay(x) => pending[Sub(x)] = Sub(x)
        /\ target[x] = IF st[x] = "deliver" THEN x ELSE NoInv
        /\ reply[x] # NoReply => reply[x].from = x /\ st[x] = "done"

Inv == TypeOK /\ UpInv /\ PlaceInv /\ ChainInv /\ CallInv /\ NoStrandedCaller /\ RefsResolve

----------------------------------------------------------------------------
(* The order of start, and invocations *)

LEMMA BeforeIsOrder ==
    ASSUME NEW f \in Flows, NEW g \in Flows
    PROVE  /\ ~(Before(f, g) /\ Before(g, f))
           /\ f \in Implicit /\ g \notin Implicit => Before(f, g)
  BY FlowsAssumption DEF Before

\* There is one last flow.
LEMMA OneLast ==
    ASSUME UpInv, TypeOK, NEW f \in up, NEW g \in up, IsLast(f), IsLast(g)
    PROVE  f = g
  BY BeforeIsOrder DEF IsLast, TypeOK

\* Sub gives every invocation a successor of its own, and sources make none of them.
LEMMA SubIsSuccessor ==
    ASSUME NEW x \in Invs
    PROVE  /\ \A y \in Invs : Sub(x) = Sub(y) => x = y
           /\ Sub(x) # x
           /\ \A m \in Msgs : Sub(x) # <<m, 0>>
           /\ Sub(x) \in Invs <=> x[2] < Depth
  BY FlowsAssumption DEF Invs, Sub

\* What a source produces runs through its flow.
LEMMA SourceFlow ==
    ASSUME NEW m \in Msgs
    PROVE  /\ <<m, 0>> \in Invs
           /\ FlowOf[<<m, 0>>] = Source[m] /\ Source[m] \in Flows
<1>1. <<m, 0>> \in Invs
  BY FlowsAssumption DEF Invs
<1>2. FlowOf[<<m, 0>>] = Source[m]
  BY CallsAssumption
<1>3. Source[m] \in Flows
  BY FlowsAssumption
<1> QED BY <1>1, <1>2, <1>3

\* An invocation whose flow has a flow-ref sends on to the flow it names.
LEMMA SubFlow ==
    ASSUME NEW x \in Invs, FlowOf[x] \in Flows
    PROVE  /\ Ref[FlowOf[x]] # NoFlow => Sub(x) \in Invs
           /\ Sub(x) \in Invs => FlowOf[Sub(x)] = Ref[FlowOf[x]]
<1> USE FlowsAssumption
<1>1. PICK m \in Msgs, d \in 0..Depth : x = <<m, d>>
  BY DEF Invs
<1>2. CASE d = Depth
  <2>1. Ref[FlowOf[x]] = NoFlow
    BY <1>1, <1>2, CallsAssumption
  <2> QED BY <1>1, <1>2, <2>1 DEF Invs, Sub
<1>3. CASE d # Depth
  <2>1. d \in 0..(Depth - 1) /\ Sub(x) = <<m, d + 1>> /\ Sub(x) \in Invs
    BY <1>1, <1>3 DEF Invs, Sub
  <2>2. FlowOf[<<m, d + 1>>] = Ref[FlowOf[<<m, d>>]]
    BY <1>1, <2>1, CallsAssumption
  <2> QED BY <1>1, <2>1, <2>2
<1> QED BY <1>2, <1>3

----------------------------------------------------------------------------
LEMMA InitInv == Init => Inv
<1> SUFFICES ASSUME Init PROVE Inv
  OBVIOUS
<1>1. TypeOK
  BY DEF Init, TypeOK, NoReply
<1>2. UpInv
  BY DEF Init, UpInv
<1>3. PlaceInv /\ ChainInv
  BY DEF Init, PlaceInv, ChainInv, Underway, Busy
<1>4. CallInv /\ NoStrandedCaller /\ RefsResolve
  BY DEF Init, CallInv, NoStrandedCaller, RefsResolve
<1> QED BY <1>1, <1>2, <1>3, <1>4 DEF Inv

\* What the service does to invocations: nothing.
LEMMA ServiceFrame ==
    ASSUME Inv, Service \/ StartFails \/ Cancel
    PROVE  UNCHANGED <<work, calls>>
  BY DEF Service, StartFails, Cancel, StartFlow, StopSource, CloseChannel, Drained, Ready,
         Stop, StopConnectors, Return

\* What workers and sources do to the service: nothing.
LEMMA WorkFrame ==
    ASSUME (\E m \in Msgs : Emit(m)) \/ \E x \in Invs : Work(x)
    PROVE  UNCHANGED service
  BY DEF Work, Emit, Take, Run, Lookup, Send, SendFails, Receive, Publish, Deliver

\* The flows that are up, through the steps of Run.
LEMMA UpStep == Inv /\ [Next]_vars => UpInv'
<1> SUFFICES ASSUME Inv, [Next]_vars PROVE UpInv'
  OBVIOUS
<1> USE DEF Inv
<1>1. ASSUME NEW f \in Flows, StartFlow(f) PROVE UpInv'
  <2> USE <1>1 DEF StartFlow
  <2>1. stopping = "source" /\ open = up
    BY DEF UpInv
  <2>2. \A h \in up', g \in Flows : Before(g, h) => g \in up'
    <3> SUFFICES ASSUME NEW h \in up', NEW g \in Flows, Before(g, h), g \notin up' PROVE FALSE
      OBVIOUS
    <3>1. g \in Flows \ up /\ g # f
      OBVIOUS
    <3>2. Before(f, g)
      BY <3>1 DEF IsNext
    <3>3. CASE h = f
      BY <3>2, <3>3, BeforeIsOrder
    <3>4. CASE h \in up
      BY <3>1, <3>4 DEF UpInv
    <3> QED BY <3>3, <3>4
  <2> QED BY <2>1, <2>2 DEF UpInv
<1>2. ASSUME NEW f \in Flows, StopSource(f) PROVE UpInv'
  <2> USE <1>2 DEF StopSource
  <2>1. open = up /\ IsLast(f) /\ f \in up /\ up' = up
    BY DEF UpInv, IsLast
  <2>2. IsLast(f)' /\ \A g \in open' : ~IsLast(g)'
    <3>1. \A g \in Flows : IsLast(g)' <=> IsLast(g)
      BY DEF IsLast
    <3> QED BY <2>1, <3>1, OneLast DEF TypeOK
  <2> QED BY <2>1, <2>2 DEF UpInv
<1>3. ASSUME NEW f \in Flows, CloseChannel(f) PROVE UpInv'
  <2>1. \A g \in Flows : IsLast(g)' <=> IsLast(g)
    BY <1>3 DEF CloseChannel, IsLast
  <2> QED BY <1>3, <2>1 DEF CloseChannel, UpInv, TypeOK
<1>4. ASSUME NEW f \in Flows, Drained(f) PROVE UpInv'
  <2> USE <1>4 DEF Drained
  <2>1. IsLast(f) /\ f \in up /\ f \notin open
    BY DEF UpInv, IsLast
  <2>2. open = up'
    BY <2>1, OneLast DEF UpInv
  <2>3. \A h \in up', g \in Flows : Before(g, h) => g \in up'
    <3> SUFFICES ASSUME NEW h \in up', NEW g \in Flows, Before(g, h) PROVE g # f
      BY DEF UpInv
    <3>1. Before(h, f)
      BY <2>1 DEF IsLast
    <3> QED BY <3>1, BeforeIsOrder DEF TypeOK
  <2> QED BY <2>2, <2>3 DEF UpInv
<1>5. CASE StartFails \/ Ready \/ Stop \/ Cancel \/ StopConnectors \/ Return
  <2>1. /\ UNCHANGED <<up, open, stopping>>
        /\ stopping = "source" \/ UNCHANGED phase
    BY <1>5 DEF StartFails, Ready, Stop, Cancel, StopConnectors, Return, UpInv
  <2>2. /\ phase' \in {"connectors", "returned"} => up = {}
        /\ ~subscribed' => phase' = "returned"
        /\ phase' = "starting" => closed' = {}
    BY <1>5 DEF StartFails, Ready, Stop, Cancel, StopConnectors, Return, UpInv, TypeOK
  <2>3. \A g \in Flows : IsLast(g)' <=> IsLast(g)
    BY <2>1 DEF IsLast
  <2> QED BY <2>1, <2>2, <2>3 DEF UpInv, TypeOK
<1>6. CASE UNCHANGED service
  <2>1. \A g \in Flows : IsLast(g)' <=> IsLast(g)
    BY <1>6 DEF IsLast, service
  <2> QED BY <1>6, <2>1 DEF UpInv, service, TypeOK
<1> QED BY <1>1, <1>2, <1>3, <1>4, <1>5, <1>6, WorkFrame DEF Next, Service, Returned, vars

\* The kinds of values survive every step.
LEMMA TypeStep == Inv /\ [Next]_vars => TypeOK'
<1> SUFFICES ASSUME Inv, [Next]_vars PROVE TypeOK'
  OBVIOUS
<1> USE FlowsAssumption DEF Inv, TypeOK
<1>1. CASE Service \/ StartFails \/ Cancel
  <2>1. UNCHANGED <<st, outcome, pending, target, reply, unresolved>>
    BY <1>1, ServiceFrame DEF work, calls
  <2>2. open' \cap closed' = {}
    <3>1. ASSUME NEW f \in Flows, StartFlow(f) PROVE open' \cap closed' = {}
      BY <3>1 DEF StartFlow, UpInv
    <3>2. ASSUME NEW f \in Flows, CloseChannel(f) PROVE open' \cap closed' = {}
      BY <3>2 DEF CloseChannel, UpInv
    <3>3. CASE open' \subseteq open /\ UNCHANGED closed
      BY <3>3
    <3> QED
      BY <1>1, <3>1, <3>2, <3>3 DEF Service, StartFails, Cancel, StopSource, Drained, Ready,
                                    Stop, StopConnectors, Return
  <2> QED
    BY <1>1, <2>1, <2>2 DEF Service, StartFails, Cancel, StartFlow, StopSource, CloseChannel,
                            Drained, Ready, Stop, StopConnectors, Return
<1>2. ASSUME NEW m \in Msgs, Emit(m) PROVE TypeOK'
  <2>1. <<m, 0>> \in Invs /\ FlowOf[<<m, 0>>] \in Flows
    BY SourceFlow
  <2> QED BY <1>2, <2>1 DEF Emit, Goto, service, calls
<1>3. ASSUME NEW x \in Invs, Work(x) PROVE TypeOK'
  <2> USE DEF Outcomes, Busy, Finish, Goto, Over, service, calls, EventID
  <2>1. st[x] \in Underway => FlowOf[x] \in Flows
    BY DEF PlaceInv
  <2>2. CASE Take(x) \/ Run(x)
    BY <2>2 DEF Take, Run
  <2>3. CASE Lookup(x)
    <3>1. Sub(x) \in Invs
      BY <2>1, <2>3, SubFlow DEF Lookup, Underway
    <3> QED BY <2>3, <3>1 DEF Lookup, Track
  <2>4. CASE Send(x)
    <3>1. Sub(x) \in Invs /\ FlowOf[Sub(x)] \in Flows
      BY <2>4 DEF Send, ChainInv, PlaceInv
    <3> QED BY <2>4, <3>1 DEF Send
  <2>5. CASE SendFails(x)
    <3>1. Sub(x) \in Invs
      BY <2>5 DEF SendFails, ChainInv
    <3> QED BY <2>5, <3>1 DEF SendFails, Forget
  <2>6. CASE Receive(x)
    <3>1. Sub(x) \in Invs
      BY <2>6 DEF Receive, ChainInv
    <3> QED BY <2>6, <3>1 DEF Receive, Forget, NoReply
  <2>7. CASE Publish(x)
    BY <2>7 DEF Publish
  <2>8. CASE Deliver(x)
    BY <2>8 DEF Deliver
  <2> QED BY <1>3, <2>2, <2>3, <2>4, <2>5, <2>6, <2>7, <2>8 DEF Work
<1>4. CASE UNCHANGED vars
  BY <1>4 DEF vars, service, work, calls
<1> QED BY <1>1, <1>2, <1>3, <1>4 DEF Next, Returned

\* Invocations are in flows that are up.
LEMMA PlaceStep == Inv /\ [Next]_vars => PlaceInv'
<1> SUFFICES ASSUME Inv, [Next]_vars PROVE PlaceInv'
  OBVIOUS
<1> USE FlowsAssumption DEF Inv, TypeOK, PlaceInv, Underway
<1>1. ASSUME NEW f \in Flows, Drained(f) PROVE PlaceInv'
  <2>1. UNCHANGED st
    BY <1>1 DEF Drained, work
  <2> QED BY <1>1, <2>1 DEF Drained, In
<1>2. ASSUME up \subseteq up', closed \subseteq closed', UNCHANGED st PROVE PlaceInv'
  BY <1>2
<1>3. CASE Service \/ StartFails \/ Cancel
  BY <1>1, <1>2, <1>3
  DEF Service, StartFails, Cancel, StartFlow, StopSource, CloseChannel, Ready, Stop,
      StopConnectors, Return, work
<1>4. ASSUME NEW m \in Msgs, Emit(m) PROVE PlaceInv'
  <2>1. <<m, 0>> \in Invs /\ FlowOf[<<m, 0>>] = Source[m]
    BY SourceFlow
  <2> QED BY <1>4, <2>1 DEF Emit, Goto, service, UpInv
<1>5. ASSUME NEW x \in Invs, Work(x) PROVE PlaceInv'
  <2> USE DEF Finish, Goto, Over, service, Busy
  <2>1. CASE Take(x) \/ Run(x)
    BY <2>1 DEF Take, Run
  <2>2. CASE Lookup(x)
    <3>1. Sub(x) \in Invs /\ FlowOf[Sub(x)] = Ref[FlowOf[x]]
      BY <2>2, SubFlow DEF Lookup
    <3> QED BY <2>2, <3>1 DEF Lookup, UpInv
  <2>3. CASE Send(x)
    <3>1. Sub(x) \in Invs
      BY <2>3 DEF Send, ChainInv
    <3> QED BY <2>3, <3>1 DEF Send
  <2>4. CASE SendFails(x) \/ Receive(x) \/ Publish(x) \/ Deliver(x)
    BY <2>4 DEF SendFails, Receive, Publish, Deliver
  <2> QED BY <1>5, <2>1, <2>2, <2>3, <2>4 DEF Work
<1>6. CASE UNCHANGED vars
  BY <1>6 DEF vars, service, work
<1> QED BY <1>3, <1>4, <1>5, <1>6 DEF Next, Returned

\* Messages are sent on once.
LEMMA ChainStep == Inv /\ [Next]_vars => ChainInv'
<1> SUFFICES ASSUME Inv, [Next]_vars PROVE ChainInv'
  OBVIOUS
<1> USE DEF Inv, TypeOK, ChainInv
<1>1. CASE UNCHANGED st
  BY <1>1
<1>2. ASSUME NEW m \in Msgs, Emit(m) PROVE ChainInv'
  <2>1. <<m, 0>> \in Invs /\ \A x \in Invs : Sub(x) # <<m, 0>>
    BY SubIsSuccessor, SourceFlow
  <2> QED BY <1>2, <2>1 DEF Emit, Goto
<1>3. ASSUME NEW x \in Invs, Work(x) PROVE ChainInv'
  <2>0. \A y \in Invs : Sub(x) = Sub(y) => x = y
    BY SubIsSuccessor
  <2>1. CASE Take(x) \/ Run(x)
    BY <2>1 DEF Take, Run, Finish, Goto
  <2>2. CASE Lookup(x)
    <3>1. Sub(x) \in Invs
      BY <2>2, SubFlow DEF Lookup, PlaceInv, Underway, Busy
    <3> QED BY <2>2, <3>1 DEF Lookup, Finish, Goto
  <2>3. CASE Send(x)
    <3>1. Sub(x) \in Invs /\ Sub(x) # x
      BY <2>3, SubIsSuccessor DEF Send
    <3>2. /\ st'[x] \in {"waiting", "finishing"} /\ (st'[x] = "waiting" => TwoWay(x))
          /\ st[x] = "sending" /\ st'[Sub(x)] = "queued"
          /\ \A y \in Invs \ {x, Sub(x)} : st'[y] = st[y]
      BY <2>3, <3>1 DEF Send
    <3>3. \A y \in Invs : Sub(y) = x => y # Sub(x) /\ y # x
                           /\ st[y] \notin {"none", "queued", "working", "sending"}
      BY <3>1, <3>2
    <3>4. Sub(Sub(x)) \in Invs => st[Sub(Sub(x))] = "none" /\ Sub(Sub(x)) \notin {x, Sub(x)}
      BY <3>1, <3>2, SubIsSuccessor
    <3> QED BY <2>0, <3>1, <3>2, <3>3, <3>4
  <2>4. CASE SendFails(x) \/ Receive(x) \/ Publish(x) \/ Deliver(x)
    BY <2>4 DEF SendFails, Receive, Publish, Deliver, Finish, Over, Goto
  <2> QED BY <1>3, <2>1, <2>2, <2>3, <2>4 DEF Work
<1> QED BY <1>1, <1>2, <1>3, ServiceFrame DEF Next, Returned, vars, work

\* The calls the registry knows, and their replies.
LEMMA CallStep == Inv /\ [Next]_vars => CallInv'
<1> SUFFICES ASSUME Inv, [Next]_vars PROVE CallInv'
  OBVIOUS
<1> USE FlowsAssumption DEF Inv, TypeOK, CallInv, EventID
<1>1. CASE UNCHANGED <<work, calls>>
  BY <1>1 DEF work, calls
<1>2. ASSUME NEW m \in Msgs, Emit(m) PROVE CallInv'
  <2>1. <<m, 0>> \in Invs
    BY SourceFlow
  <2> QED BY <1>2, <2>1 DEF Emit, Goto, calls
<1>3. ASSUME NEW x \in Invs, Work(x) PROVE CallInv'
  <2>0. /\ \A y \in Invs : Sub(x) = Sub(y) => x = y
        /\ \A y \in Invs : st[y] = "sending" => Sub(y) \in Invs
    BY SubIsSuccessor DEF ChainInv
  <2>1. CASE Take(x) \/ Run(x)
    BY <2>1 DEF Take, Run, Finish, Goto, calls
  <2>2. CASE Lookup(x)
    <3>1. Sub(x) \in Invs
      BY <2>2, SubFlow DEF Lookup, PlaceInv, Underway, Busy
    <3> QED BY <2>0, <2>2, <3>1 DEF Lookup, Track, Finish, Goto
  <2>3. CASE Send(x)
    <3>1. Sub(x) \in Invs /\ Sub(x) # x /\ st[Sub(x)] = "none"
      BY <2>3, SubIsSuccessor DEF Send, ChainInv
    <3> QED BY <2>3, <3>1 DEF Send, calls
  <2>4. CASE SendFails(x)
    <3>1. Sub(x) \in Invs
      BY <2>4 DEF SendFails, ChainInv
    <3> QED BY <2>0, <2>4, <3>1 DEF SendFails, Forget, Finish, Goto
  <2>5. CASE Receive(x)
    <3>1. Sub(x) \in Invs
      BY <2>5 DEF Receive, ChainInv
    <3>2. UNCHANGED target /\ st' = [st EXCEPT ![x] = "finishing"] /\ st[x] = "waiting"
      BY <2>5 DEF Receive, Finish, Goto
    <3>3. /\ \A y \in Invs \ {Sub(x)} : pending'[y] = pending[y] /\ reply'[y] = reply[y]
          /\ pending'[Sub(x)] = NoInv /\ reply'[Sub(x)] = NoReply
      BY <2>5, <3>1 DEF Receive, Forget
    <3> QED BY <2>0, <3>1, <3>2, <3>3
  <2>6. CASE Publish(x)
    BY <2>6 DEF Publish, Over, Goto
  <2>7. CASE Deliver(x)
    <3>1. target[x] = x
      BY <2>7 DEF Deliver
    <3>2. reply' = [reply EXCEPT ![x] = [from |-> x, says |-> outcome[x]]]
      BY <2>7, <3>1 DEF Deliver
    <3> QED BY <2>7, <3>2 DEF Deliver, Over, Goto
  <2> QED BY <1>3, <2>1, <2>2, <2>3, <2>4, <2>5, <2>6, <2>7 DEF Work
<1> QED BY <1>1, <1>2, <1>3, ServiceFrame DEF Next, Returned, vars

\* Waiting callers.
LEMMA CallerStep == Inv /\ [Next]_vars => NoStrandedCaller'
<1> SUFFICES ASSUME Inv, [Next]_vars PROVE NoStrandedCaller'
  OBVIOUS
<1> USE FlowsAssumption DEF Inv, TypeOK, NoStrandedCaller, EventID, Busy
<1>1. CASE UNCHANGED <<work, calls>>
  BY <1>1 DEF work, calls
<1>2. ASSUME NEW m \in Msgs, Emit(m) PROVE NoStrandedCaller'
  <2>1. <<m, 0>> \in Invs
    BY SourceFlow
  <2> QED BY <1>2, <2>1 DEF Emit, Goto, calls
<1>3. ASSUME NEW x \in Invs, Work(x) PROVE NoStrandedCaller'
  <2>0. /\ \A y \in Invs : Sub(x) = Sub(y) => x = y
        /\ \A y \in Invs : st[y] = "waiting" => Sub(y) \in Invs
    BY SubIsSuccessor DEF ChainInv
  <2>1. CASE Take(x) \/ Run(x)
    BY <2>0, <2>1 DEF Take, Run, Finish, Goto, calls
  <2>2. CASE Lookup(x)
    <3>1. Sub(x) \in Invs
      BY <2>2, SubFlow DEF Lookup, PlaceInv, Underway
    <3> QED BY <2>0, <2>2, <3>1 DEF Lookup, Track, Finish, Goto
  <2>3. CASE Send(x)
    <3>1. Sub(x) \in Invs /\ Sub(x) # x /\ st[Sub(x)] = "none" /\ reply[Sub(x)] = NoReply
      BY <2>3, SubIsSuccessor DEF Send, ChainInv, CallInv
    <3>2. TwoWay(x) => pending[Sub(x)] = Sub(x)
      BY <2>3 DEF Send, CallInv
    <3>3. /\ st'[x] = IF TwoWay(x) THEN "waiting" ELSE "finishing"
          /\ st'[Sub(x)] = "queued" /\ \A y \in Invs \ {x, Sub(x)} : st'[y] = st[y]
          /\ UNCHANGED calls /\ st[x] = "sending"
      BY <2>3, <3>1 DEF Send
    <3> QED BY <2>0, <3>1, <3>2, <3>3 DEF calls
  <2>4. CASE SendFails(x)
    <3>1. Sub(x) \in Invs
      BY <2>4 DEF SendFails, ChainInv
    <3> QED BY <2>0, <2>4, <3>1 DEF SendFails, Forget, Finish, Goto
  <2>5. CASE Receive(x)
    <3>1. Sub(x) \in Invs
      BY <2>5 DEF Receive, ChainInv
    <3>2. UNCHANGED target /\ st' = [st EXCEPT ![x] = "finishing"] /\ st[x] = "waiting"
      BY <2>5 DEF Receive, Finish, Goto
    <3>3. \A y \in Invs \ {Sub(x)} : pending'[y] = pending[y] /\ reply'[y] = reply[y]
      BY <2>5, <3>1 DEF Receive, Forget
    <3> QED BY <2>0, <3>1, <3>2, <3>3
  <2>6. CASE Publish(x)
    <3>1. subscribed
      BY <2>6 DEF Publish, PlaceInv, UpInv, Underway
    <3>2. target[x] = NoInv /\ reply[x] = NoReply
      BY <2>6 DEF Publish, CallInv
    <3>3. /\ target' = [target EXCEPT ![x] = pending[x]] /\ UNCHANGED <<pending, reply>>
          /\ st' = [st EXCEPT ![x] = IF pending[x] # NoInv THEN "deliver" ELSE "done"]
          /\ st[x] = "finishing"
      BY <2>6, <3>1 DEF Publish, Over, Goto
    <3> QED BY <2>0, <3>2, <3>3 DEF NoReply
  <2>7. CASE Deliver(x)
    <3>1. target[x] = x /\ reply[x] = NoReply
      BY <2>7 DEF Deliver, CallInv
    <3>2. reply' = [reply EXCEPT ![x] = [from |-> x, says |-> outcome[x]]]
      BY <2>7, <3>1 DEF Deliver
    <3> QED BY <2>0, <2>7, <3>2 DEF Deliver, Over, Goto
  <2> QED BY <1>3, <2>1, <2>2, <2>3, <2>4, <2>5, <2>6, <2>7 DEF Work
<1> QED BY <1>1, <1>2, <1>3, ServiceFrame DEF Next, Returned, vars

\* A flow with a source is started after the implicit flows and stopped before them.
LEMMA RefsStep == Inv /\ [Next]_vars => RefsResolve'
<1> SUFFICES ASSUME Inv, [Next]_vars PROVE RefsResolve'
  OBVIOUS
<1>1. ASSUME NEW x \in Invs, Lookup(x) PROVE RefsResolve'
  <2> DEFINE f == FlowOf[x]
             g == Ref[f]
  <2>1. f \in up /\ f \in Flows
    BY <1>1 DEF Inv, TypeOK, PlaceInv, Underway, Busy, Lookup
  <2>2. CASE f \notin Implicit /\ g \in Implicit
    <3>1. g \in Flows /\ Before(g, f) /\ ~Before(f, g)
      BY <2>1, <2>2, BeforeIsOrder, FlowsAssumption
    <3>2. g \in up /\ ~IsLast(g)
      BY <2>1, <2>2, <3>1 DEF Inv, UpInv, IsLast
    <3>3. g \in open
      BY <3>2 DEF Inv, UpInv
    <3> QED BY <1>1, <2>2, <3>3 DEF Lookup, Inv, RefsResolve
  <2>3. CASE f \notin Implicit => g \notin Implicit
    BY <1>1, <2>3 DEF Lookup, Inv, RefsResolve
  <2> QED BY <2>2, <2>3
<1>2. CASE UNCHANGED unresolved
  BY <1>2 DEF Inv, RefsResolve
<1> QED
  BY <1>1, <1>2, ServiceFrame
  DEF Next, Returned, vars, calls, Emit, Work, Take, Run, Send, SendFails, Receive, Publish,
      Deliver

----------------------------------------------------------------------------
\* The inductive invariant holds of every state of a runtime generation.
THEOREM InvariantHolds == Spec => []Inv
<1>1. Inv /\ [Next]_vars => Inv'
  BY TypeStep, UpStep, PlaceStep, ChainStep, CallStep, CallerStep, RefsStep DEF Inv
<1> QED BY <1>1, InitInv, PTL DEF Spec

\* The service, its flows' invocations and the registry's calls have their types.
THEOREM TypeCorrect == Spec => []TypeOK
  BY InvariantHolds, PTL DEF Inv

\* flow-ref and flowRegistry: a caller that waits has its own reply, or its message is on the
\* way with the call still known, however flows call each other and whatever is being stopped.
THEOREM CallersAnswered == Spec => []NoStrandedCaller
  BY InvariantHolds, PTL DEF Inv

\* startFlows and stopFlows: a message a source admits finds the implicit flow its flow-ref
\* names.
THEOREM ReferencesResolve == Spec => []RefsResolve
  BY InvariantHolds, PTL DEF Inv

\* Run: nothing is under way in any flow when the connectors are stopped.
THEOREM ConnectorsStopLast == Spec => []ConnectorsOutliveFlows
<1>1. Inv => ConnectorsOutliveFlows
  BY DEF Inv, TypeOK, UpInv, PlaceInv, Underway, Busy, ConnectorsOutliveFlows
<1> QED BY <1>1, InvariantHolds, PTL
=============================================================================
