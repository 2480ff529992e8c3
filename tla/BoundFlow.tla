----------------------------- MODULE BoundFlow -----------------------------
(***************************************************************************)
(* One running flow of the octo runtime (runtime/core/runtime/boundflow.go) *)
(* with the shared pool it owns (core/internal/pool/pool.go), the source    *)
(* that feeds it (connectors/cron/source.go) and the blocks that take the   *)
(* flow over and own a background goroutine (the reaper of                  *)
(* blocks/controlflow/aggregate.go).                                        *)
(*                                                                          *)
(* The goroutines are the ticks of the source, the workers that read the    *)
(* bounded channel `in', the workers of the pool that read the bounded      *)
(* queue `tasks', the reapers, and the goroutine that calls stop.  An       *)
(* invocation is one message put through run: either a message off the      *)
(* source or the tail a block resumed.  A goroutine that cannot hand a tail *)
(* to the pool runs it itself, so each has a stack of invocations.          *)
(***************************************************************************)
EXTENDS Naturals, Sequences, FiniteSets

CONSTANTS
    Ticks,          \* the source's concurrent tick goroutines
    Workers,        \* the flow's workers
    PoolWorkers,    \* the pool's workers
    Reapers,        \* the background goroutines of lifecycle blocks
    Msgs,           \* the invocations of a behaviour (bounds how many there are)
    NoOne,          \* no goroutine
    Buffer,         \* capacity of the channel `in'
    Queue,          \* capacity of the pool's task queue
    Takeovers,      \* blocks of the process chain that take the flow over
    ErrorTakeovers, \* the same, of the error chain
    HasErrorPath,   \* whether the flow declares an error chain
    Outcomes        \* the terminal events the flow's blocks can lead to

Goroutines == Ticks \cup Workers \cup PoolWorkers \cup Reapers

\* The goroutines that may have invocations on their stacks.
Runners == Workers \cup PoolWorkers \cup Reapers

\* pool.New and resolveBuffer clamp the capacities to at least one.
ASSUME CapacityAssumption ==
    /\ Buffer \in Nat \ {0}
    /\ Queue \in Nat \ {0}
    /\ Takeovers \in Nat
    /\ ErrorTakeovers \in Nat
    /\ HasErrorPath \in BOOLEAN
    /\ Outcomes \subseteq {"completed", "dropped", "failed"}
    /\ Outcomes \cap {"completed", "dropped"} # {}

ASSUME GoroutineAssumption ==
    /\ Ticks \cap Runners = {}
    /\ Workers \cap PoolWorkers = {}
    /\ Workers \cap Reapers = {}
    /\ PoolWorkers \cap Reapers = {}
    /\ NoOne \notin Goroutines
    /\ Workers # {}     \* resolveWorkers never answers zero

VARIABLES
    phase,      \* how far stop has come
    ctxDone,    \* the run context is cancelled
    asked,      \* the reapers stopProcessors has told to stop
    exited,     \* the goroutines that have returned
    sweeping,   \* the reapers inside a sweep
    st,         \* where each invocation is in its life
    owner,      \* the goroutine that holds it, while one does
    left,       \* the takeover blocks still ahead of it in its chain
    chain,      \* the chain it is in: "process" (or a tail), or "error"
    tail,       \* whether a block resumed it
    events,     \* the flow events published for it
    in,         \* the channel the source sends on
    tasks,      \* the pool's task queue
    stack,      \* the invocations each goroutine is inside, innermost last
    inflight    \* the count of resumed tails that have not finished

flowVars == <<phase, ctxDone, asked, exited, sweeping>>
invVars == <<st, owner, left, chain, tail, events>>
chanVars == <<in, tasks, stack, inflight>>
vars == <<flowVars, invVars, chanVars>>

Phases == {"up", "done", "source", "drain", "blocks", "inflight", "pool", "stopped"}
Statuses == {"fresh", "sending", "abandoned", "queued", "resumed", "task",
             "running", "ended"}

Init ==
    /\ phase = "up" /\ ctxDone = FALSE
    /\ asked = {} /\ exited = {} /\ sweeping = {}
    /\ st = [m \in Msgs |-> "fresh"]
    /\ owner = [m \in Msgs |-> NoOne]
    /\ left = [m \in Msgs |-> 0]
    /\ chain = [m \in Msgs |-> "process"]
    /\ tail = [m \in Msgs |-> FALSE]
    /\ events = [m \in Msgs |-> <<>>]
    /\ in = <<>> /\ tasks = <<>>
    /\ stack = [g \in Runners |-> <<>>]
    /\ inflight = 0

\* cron.Stop has run: the scheduler starts no new tick.
TicksOver == phase \notin {"up", "done"}
InClosed == phase \notin {"up", "done", "source"}
PoolClosed == phase \in {"pool", "stopped"}

Top(s) == s[Len(s)]
Pop(s) == SubSeq(s, 1, Len(s) - 1)

\* The messages goroutine g holds in status s.
Holds(g, s) == {m \in Msgs : st[m] = s /\ owner[m] = g}

----------------------------------------------------------------------------
(* The source *)

\* The scheduler fires: emit builds a message and reaches its select.
Emit(t, m) ==
    /\ ~TicksOver
    /\ Holds(t, "sending") = {}
    /\ st[m] = "fresh"
    /\ st' = [st EXCEPT ![m] = "sending"]
    /\ owner' = [owner EXCEPT ![m] = t]
    /\ left' = [left EXCEPT ![m] = Takeovers]
    /\ UNCHANGED <<flowVars, chain, tail, events, chanVars>>

\* The select picks the channel.  A send on the closed channel would panic:
\* NoSendOnClosed says it cannot get here.
Send(t, m) ==
    /\ m \in Holds(t, "sending")
    /\ Len(in) < Buffer
    /\ in' = Append(in, m)
    /\ st' = [st EXCEPT ![m] = "queued"]
    /\ owner' = [owner EXCEPT ![m] = NoOne]
    /\ UNCHANGED <<flowVars, left, chain, tail, events, tasks, stack, inflight>>

\* The select picks ctx.Done() or the closed done channel.
Abandon(t, m) ==
    /\ m \in Holds(t, "sending")
    /\ ctxDone \/ phase # "up"
    /\ st' = [st EXCEPT ![m] = "abandoned"]
    /\ owner' = [owner EXCEPT ![m] = NoOne]
    /\ UNCHANGED <<flowVars, left, chain, tail, events, chanVars>>

----------------------------------------------------------------------------
(* run: the life of one invocation on goroutine g *)

\* run's first statements: the started event, then Process.
Begin(g, m) ==
    /\ st' = [st EXCEPT ![m] = "running"]
    /\ owner' = [owner EXCEPT ![m] = g]
    /\ events' = [events EXCEPT ![m] = Append(@, "started")]
    /\ stack' = [stack EXCEPT ![g] = Append(@, m)]

Busy(g) == stack[g] # <<>> /\ Holds(g, "resumed") = {}

\* The process chain (or the tail) failed and the flow has an error chain: run
\* puts the same message through that chain.
Fail(g) ==
    /\ Busy(g)
    /\ LET m == Top(stack[g]) IN
        /\ chain[m] = "process" /\ HasErrorPath
        /\ chain' = [chain EXCEPT ![m] = "error"]
        /\ left' = [left EXCEPT ![m] = ErrorTakeovers]
    /\ UNCHANGED <<flowVars, st, owner, tail, events, chanVars>>

\* Mutant of Finish: Done runs for every invocation, a source message's too.
FinishAlwaysDone(g, kind) ==
    /\ Busy(g)
    /\ LET m == Top(stack[g]) IN
        /\ kind = "failed" => chain[m] = "error" \/ ~HasErrorPath
        /\ events' = [events EXCEPT ![m] = Append(@, kind)]
        /\ st' = [st EXCEPT ![m] = "ended"]
        /\ owner' = [owner EXCEPT ![m] = NoOne]
    /\ inflight' = inflight - 1
    /\ stack' = [stack EXCEPT ![g] = Pop(@)]
    /\ UNCHANGED <<flowVars, left, chain, tail, in, tasks>>

\* Process returned: run publishes the terminal event and returns, and for a tail
\* the deferred inflight.Done() runs.  Only an error nothing handled fails it.
Finish(g, kind) ==
    /\ Busy(g)
    /\ LET m == Top(stack[g]) IN
        /\ kind = "failed" => chain[m] = "error" \/ ~HasErrorPath
        /\ events' = [events EXCEPT ![m] = Append(@, kind)]
        /\ st' = [st EXCEPT ![m] = "ended"]
        /\ owner' = [owner EXCEPT ![m] = NoOne]
        /\ inflight' = IF tail[m] THEN inflight - 1 ELSE inflight
    /\ stack' = [stack EXCEPT ![g] = Pop(@)]
    /\ UNCHANGED <<flowVars, left, chain, tail, in, tasks>>

\* The first half of resume: the tail c, with n takeover blocks ahead of it, is
\* counted before anything can run it.
Count(g, c, n) ==
    /\ st[c] = "fresh"
    /\ st' = [st EXCEPT ![c] = "resumed"]
    /\ owner' = [owner EXCEPT ![c] = g]
    /\ left' = [left EXCEPT ![c] = n]
    /\ tail' = [tail EXCEPT ![c] = TRUE]
    /\ inflight' = inflight + 1
    /\ UNCHANGED <<flowVars, chain, events, in, tasks, stack>>

\* The block in front of the innermost invocation takes the flow over and resumes
\* the chain after it.
Resume(g, c) ==
    /\ Busy(g)
    /\ left[Top(stack[g])] > 0
    /\ Count(g, c, left[Top(stack[g])] - 1)

\* TrySubmit under the pool's read lock: refused when the pool is closed or full.
TrySubmit(g, c) ==
    /\ ~PoolClosed /\ Len(tasks) < Queue
    /\ tasks' = Append(tasks, c)
    /\ st' = [st EXCEPT ![c] = "task"]
    /\ owner' = [owner EXCEPT ![c] = NoOne]
    /\ UNCHANGED <<events, stack>>

\* Mutant of Schedule: the tail runs here although the pool took it.
ScheduleTwice(g, c) ==
    /\ c \in Holds(g, "resumed")
    /\ Begin(g, c)
    /\ tasks' = IF PoolClosed \/ Len(tasks) >= Queue THEN tasks ELSE Append(tasks, c)
    /\ UNCHANGED <<flowVars, left, chain, tail, in, inflight>>

\* The second half of resume: onto the pool when it takes the tail, otherwise run
\* here (caller-runs).
Schedule(g, c) ==
    /\ c \in Holds(g, "resumed")
    /\ \/ TrySubmit(g, c)
       \/ /\ PoolClosed \/ Len(tasks) >= Queue
          /\ Begin(g, c)
          /\ UNCHANGED tasks
    /\ UNCHANGED <<flowVars, left, chain, tail, in, inflight>>

----------------------------------------------------------------------------
(* The goroutines that start invocations *)

WorkerTake(w) ==
    /\ w \notin exited /\ stack[w] = <<>>
    /\ in # <<>>
    /\ Begin(w, Head(in))
    /\ in' = Tail(in)
    /\ UNCHANGED <<flowVars, left, chain, tail, tasks, inflight>>

\* Mutant of WorkerExit: the worker returns on close, before the channel is drained.
WorkerExitUndrained(w) ==
    /\ w \notin exited /\ stack[w] = <<>>
    /\ InClosed
    /\ exited' = exited \cup {w}
    /\ UNCHANGED <<phase, ctxDone, asked, sweeping, invVars, chanVars>>

\* range over the closed, drained channel ends, and wg.Done() runs.
WorkerExit(w) ==
    /\ w \notin exited /\ stack[w] = <<>>
    /\ in = <<>> /\ InClosed
    /\ exited' = exited \cup {w}
    /\ UNCHANGED <<phase, ctxDone, asked, sweeping, invVars, chanVars>>

PoolTake(p) ==
    /\ p \notin exited /\ stack[p] = <<>>
    /\ tasks # <<>>
    /\ Begin(p, Head(tasks))
    /\ tasks' = Tail(tasks)
    /\ UNCHANGED <<flowVars, left, chain, tail, in, inflight>>

PoolExit(p) ==
    /\ p \notin exited /\ stack[p] = <<>>
    /\ tasks = <<>> /\ PoolClosed
    /\ exited' = exited \cup {p}
    /\ UNCHANGED <<phase, ctxDone, asked, sweeping, invVars, chanVars>>

\* reap's select picks the ticker, even when it could pick a done channel.
Sweep(r) ==
    /\ r \notin exited /\ r \notin sweeping
    /\ sweeping' = sweeping \cup {r}
    /\ UNCHANGED <<phase, ctxDone, asked, exited, invVars, chanVars>>

\* The sweep releases one more group: the chain after the block at any position.
Release(r, c) ==
    /\ r \in sweeping /\ stack[r] = <<>> /\ Holds(r, "resumed") = {}
    /\ \E n \in 0 .. Takeovers - 1 : Count(r, c, n)

SweepEnd(r) ==
    /\ r \in sweeping /\ stack[r] = <<>> /\ Holds(r, "resumed") = {}
    /\ sweeping' = sweeping \ {r}
    /\ UNCHANGED <<phase, ctxDone, asked, exited, invVars, chanVars>>

\* Mutant of ReaperExit: the reaper listens to the context only.
ReaperExitOnContext(r) ==
    /\ r \notin exited /\ r \notin sweeping
    /\ ctxDone
    /\ exited' = exited \cup {r}
    /\ UNCHANGED <<phase, ctxDone, asked, sweeping, invVars, chanVars>>

\* reap's select picks ctx.Done() or the block's done channel.
ReaperExit(r) ==
    /\ r \notin exited /\ r \notin sweeping
    /\ ctxDone \/ r \in asked
    /\ exited' = exited \cup {r}
    /\ UNCHANGED <<phase, ctxDone, asked, sweeping, invVars, chanVars>>

----------------------------------------------------------------------------
(* stop.  It is called when the context is done, and also when a later flow's *)
(* start fails, with the context still live.                                  *)

Cancel ==
    /\ ~ctxDone
    /\ ctxDone' = TRUE
    /\ UNCHANGED <<phase, asked, exited, sweeping, invVars, chanVars>>

To(p) ==
    /\ phase' = p
    /\ UNCHANGED <<ctxDone, asked, exited, sweeping, invVars, chanVars>>

\* source.Stop: close(done), which wakes every tick parked in its select ...
StopSource == phase = "up" /\ To("done")

\* ... then cron.Stop, after which no tick starts ...
StopTicks == phase = "done" /\ To("source")

\* Mutant of CloseIn: stop does not wait for the ticks in flight.
CloseInEarly == phase = "source" /\ To("drain")

\* ... and the wait for the ticks in flight.  Then stop closes `in'.
CloseIn ==
    /\ phase = "source"
    /\ \A t \in Ticks : Holds(t, "sending") = {}
    /\ To("drain")

\* wg.Wait() returns: every worker has drained the channel and returned.
WorkersDone ==
    /\ phase = "drain"
    /\ Workers \subseteq exited
    /\ To("blocks")

\* stopProcessors, one block at a time: close its done channel ...
StopBlock(r) ==
    /\ phase = "blocks"
    /\ asked \subseteq exited /\ r \notin asked
    /\ asked' = asked \cup {r}
    /\ UNCHANGED <<phase, ctxDone, exited, sweeping, invVars, chanVars>>

\* Mutant of BlocksDone: stop does not wait for the sweep in flight.
BlocksDoneEarly == phase = "blocks" /\ asked = Reapers /\ To("inflight")

\* ... and wait for its goroutine, before the next.  Then inflight.Wait() begins.
BlocksDone ==
    /\ phase = "blocks"
    /\ asked = Reapers /\ Reapers \subseteq exited
    /\ To("inflight")

\* Mutant of StopPool: the pool is torn down once the workers are drained.
StopPoolEarly == phase = "inflight" /\ To("pool")

\* inflight.Wait() returns and pool.Stop closes the queue.
StopPool ==
    /\ phase = "inflight"
    /\ inflight = 0
    /\ To("pool")

\* The pool's wg.Wait() returns, and with it stop.
PoolDone ==
    /\ phase = "pool"
    /\ PoolWorkers \subseteq exited
    /\ To("stopped")

Stop ==
    \/ StopSource \/ StopTicks \/ CloseIn \/ WorkersDone
    \/ \E r \in Reapers : StopBlock(r)
    \/ BlocksDone \/ StopPool \/ PoolDone

\* The process may stay stopped for ever.
Stopped == phase = "stopped" /\ UNCHANGED vars

----------------------------------------------------------------------------
Source(t) == \E m \in Msgs : Emit(t, m) \/ Send(t, m) \/ Abandon(t, m)

Run(g) ==
    \/ Fail(g)
    \/ \E k \in Outcomes : Finish(g, k)
    \/ \E c \in Msgs : Resume(g, c) \/ Schedule(g, c)

Reap(r) ==
    \/ Sweep(r) \/ SweepEnd(r) \/ ReaperExit(r)
    \/ \E c \in Msgs : Release(r, c)

Next ==
    \/ \E t \in Ticks : Source(t)
    \/ \E g \in Runners : Run(g)
    \/ \E w \in Workers : WorkerTake(w) \/ WorkerExit(w)
    \/ \E p \in PoolWorkers : PoolTake(p) \/ PoolExit(p)
    \/ \E r \in Reapers : Reap(r)
    \/ Cancel
    \/ Stop
    \/ Stopped

Spec == Init /\ [][Next]_vars

\* Every goroutine that can take a step takes one, and every block's Process
\* returns.  A tick parked in its select is woken once a case is ready.  reap's
\* select picks at random among ready cases, so a done channel that stays closed is
\* picked in the end however often the ticker wins.  Nothing makes the source fire,
\* a block fail or resume, a sweep start, or the flow be stopped.
Fairness ==
    /\ \A t \in Ticks : WF_vars(\E m \in Msgs : Send(t, m) \/ Abandon(t, m))
    /\ \A g \in Runners :
        /\ WF_vars(\E k \in Outcomes : Finish(g, k))
        /\ WF_vars(\E c \in Msgs : Schedule(g, c))
    /\ \A w \in Workers : WF_vars(WorkerTake(w) \/ WorkerExit(w))
    /\ \A p \in PoolWorkers : WF_vars(PoolTake(p) \/ PoolExit(p))
    /\ \A r \in Reapers : WF_vars(SweepEnd(r)) /\ SF_vars(ReaperExit(r))
    /\ WF_vars(Stop /\ phase # "up")

FairSpec == Spec /\ Fairness

----------------------------------------------------------------------------
(* Properties *)

\* The kinds of values the flow's state takes; the in-flight counter never goes negative,
\* which would panic (an inflight.Done() without its Add).
TypeOK ==
    /\ phase \in Phases /\ ctxDone \in BOOLEAN
    /\ asked \subseteq Reapers /\ exited \subseteq Runners /\ sweeping \subseteq Reapers
    /\ st \in [Msgs -> Statuses]
    /\ owner \in [Msgs -> Goroutines \cup {NoOne}]
    /\ left \in [Msgs -> Nat]
    /\ chain \in [Msgs -> {"process", "error"}]
    /\ tail \in [Msgs -> BOOLEAN]
    /\ events \in [Msgs -> Seq(Outcomes \cup {"started"})]
    /\ in \in Seq(Msgs) /\ tasks \in Seq(Msgs)
    /\ stack \in [Runners -> Seq(Msgs)]
    /\ inflight \in Nat

\* stop closes the channel `in' only once no tick can still send on it, which
\* would panic: source.Stop waits for the ticks in flight.
NoSendOnClosed ==
    InClosed => \A m \in Msgs : st[m] # "sending"

\* pool.Stop "must be called only after every submitter has stopped": once the
\* pool is closed no tail is counted, queued or running, on any goroutine.
PoolOutlivesTails ==
    PoolClosed =>
        /\ inflight = 0 /\ tasks = <<>>
        /\ \A g \in Runners : stack[g] = <<>> /\ Holds(g, "resumed") = {}

\* The count stop waits on is exactly the number of resumed tails that have not
\* finished: no path through resume and run leaks a count or releases one early.
InflightCountsTails ==
    inflight = Cardinality({m \in Msgs : tail[m] /\ st[m] # "ended"})

\* Each invocation publishes one started event and then exactly one terminal event,
\* and when stop has returned every message the flow accepted has published both.
OneTerminalEach ==
    \A m \in Msgs :
        /\ Len(events[m]) =
            CASE st[m] = "running" -> 1 [] st[m] = "ended" -> 2 [] OTHER -> 0
        /\ phase = "stopped" => st[m] \in {"fresh", "abandoned", "ended"}

\* inflight is a sync.WaitGroup: a positive Add that finds the counter at zero must
\* happen before Wait is called.  Once stop is in inflight.Wait(), the count never
\* leaves zero again.
NoAddAfterWait ==
    [][phase = "inflight" /\ inflight = 0 => inflight' = 0]_vars

\* A stop that has begun runs to its end: no wait of stop (ticks, workers, reapers,
\* tails, pool) is for something that waits for stop.
StopCompletes == phase # "up" ~> phase = "stopped"

\* Caller-runs cannot deadlock: whatever the pool's size, every message the channel
\* accepts and every tail a block resumes reaches its terminal event.
AcceptedEnds ==
    \A m \in Msgs : st[m] \in {"queued", "resumed"} ~> st[m] = "ended"
=============================================================================
