-------------------------- MODULE BoundFlowProofs --------------------------
(***************************************************************************)
(* Proofs about BoundFlow, for every number of ticks, workers, pool workers *)
(* and reapers, every capacity and every set of invocations.                *)
(*                                                                          *)
(* The inductive invariant Inv says where each invocation is: its status    *)
(* names the one channel, queue or stack that holds it.                     *)
(***************************************************************************)
EXTENDS BoundFlow, FiniteSetTheorems, SequenceTheorems, TLAPS

InSeq(s, m) == \E i \in 1 .. Len(s) : s[i] = m
NoDup(s) == \A i, j \in 1 .. Len(s) : s[i] = s[j] => i = j

\* The resumed tails that have not finished: what inflight counts.
Tails == {m \in Msgs : tail[m] /\ st[m] # "ended"}

\* The channel and the task queue hold exactly the invocations whose status says so.
ChannelInv ==
    /\ NoDup(in) /\ \A m \in Msgs : InSeq(in, m) <=> st[m] = "queued"
    /\ NoDup(tasks) /\ \A m \in Msgs : InSeq(tasks, m) <=> st[m] = "task"

\* A goroutine's stack holds exactly the invocations it is running.
StackInv ==
    \A g \in Runners :
        /\ NoDup(stack[g])
        /\ \A m \in Msgs : InSeq(stack[g], m) <=> (st[m] = "running" /\ owner[m] = g)

\* Who can own a message, by its status, and which of them are tails.
OwnerInv ==
    \A m \in Msgs :
        /\ st[m] = "sending" => owner[m] \in Ticks
        /\ st[m] \in {"running", "resumed"} => owner[m] \in Runners
        /\ st[m] \in {"resumed", "task"} => tail[m]
        /\ st[m] \in {"fresh", "sending", "abandoned", "queued"} => ~tail[m]
        /\ st[m] = "running" /\ owner[m] \in PoolWorkers \cup Reapers => tail[m]

CountInv == IsFiniteSet(Tails) /\ inflight = Cardinality(Tails)

\* A goroutine outside any invocation is not in the middle of a resume, and one that
\* has returned is outside every invocation.
IdleInv ==
    /\ \A g \in Workers \cup PoolWorkers : stack[g] = <<>> => Holds(g, "resumed") = {}
    /\ \A r \in Reapers \ sweeping : stack[r] = <<>> /\ Holds(r, "resumed") = {}
    /\ \A g \in exited : stack[g] = <<>> /\ Holds(g, "resumed") = {}
    /\ exited \cap sweeping = {}

\* What each wait of stop has established.
PhaseInv ==
    /\ InClosed => \A m \in Msgs : st[m] # "sending"
    /\ exited \cap Workers # {} => InClosed /\ in = <<>>
    /\ phase \in {"blocks", "inflight", "pool", "stopped"} => Workers \subseteq exited
    /\ phase \in {"inflight", "pool", "stopped"} => Reapers \subseteq exited
    /\ PoolClosed => inflight = 0

EventInv ==
    \A m \in Msgs : Len(events[m]) =
        CASE st[m] = "running" -> 1 [] st[m] = "ended" -> 2 [] OTHER -> 0

Inv ==
    /\ TypeOK /\ ChannelInv /\ StackInv /\ OwnerInv
    /\ CountInv /\ IdleInv /\ PhaseInv /\ EventInv

----------------------------------------------------------------------------
(* Sequences *)

\* Appending to a channel, queue or stack adds just the new element, and keeps the
\* elements distinct when it was not there: what a send, a submit and a call do.
LEMMA AppendLemma ==
    ASSUME NEW S, NEW s \in Seq(S), NEW e \in S
    PROVE  /\ Append(s, e) \in Seq(S) /\ Append(s, e) # <<>>
           /\ \A m : InSeq(Append(s, e), m) <=> InSeq(s, m) \/ m = e
           /\ NoDup(s) /\ ~InSeq(s, e) => NoDup(Append(s, e))
<1> DEFINE t == Append(s, e)
<1>1. t \in Seq(S) /\ t # <<>> /\ Len(t) = Len(s) + 1 /\ Len(s) \in Nat
  OBVIOUS
<1>2. \A i \in 1 .. Len(s) : t[i] = s[i]
  OBVIOUS
<1>3. t[Len(s) + 1] = e
  OBVIOUS
<1>4. ASSUME NEW m PROVE InSeq(t, m) <=> InSeq(s, m) \/ m = e
  <2> HIDE DEF t
  <2>1. ASSUME InSeq(t, m) PROVE InSeq(s, m) \/ m = e
    BY <1>1, <1>2, <1>3, <2>1 DEF InSeq
  <2>2. ASSUME InSeq(s, m) PROVE InSeq(t, m)
    BY <1>1, <1>2, <2>2 DEF InSeq
  <2>3. ASSUME m = e PROVE InSeq(t, m)
    BY <1>1, <1>3, <2>3 DEF InSeq
  <2> QED BY <2>1, <2>2, <2>3
<1>5. NoDup(s) /\ ~InSeq(s, e) => NoDup(t)
  <2> HIDE DEF t
  <2> QED BY <1>1, <1>2, <1>3 DEF InSeq, NoDup
<1> QED BY <1>1, <1>4, <1>5

\* Receiving from a channel or queue takes its head, and nothing else, off it.
LEMMA TailLemma ==
    ASSUME NEW S, NEW s \in Seq(S), s # <<>>, NoDup(s)
    PROVE  /\ Head(s) \in S /\ InSeq(s, Head(s)) /\ Tail(s) \in Seq(S)
           /\ NoDup(Tail(s))
           /\ \A m : InSeq(Tail(s), m) <=> InSeq(s, m) /\ m # Head(s)
<1> DEFINE t == Tail(s)
<1>1. t \in Seq(S) /\ Len(t) = Len(s) - 1 /\ Len(s) \in Nat \ {0}
  OBVIOUS
<1>2. Head(s) = s[1] /\ s[1] \in S
  OBVIOUS
<1>3. \A i \in 1 .. Len(t) : t[i] = s[i + 1]
  OBVIOUS
<1> HIDE DEF t
<1>4. NoDup(t)
  BY <1>1, <1>3 DEF NoDup
<1>5. ASSUME NEW m PROVE InSeq(t, m) <=> InSeq(s, m) /\ m # Head(s)
  <2>1. ASSUME InSeq(t, m) PROVE InSeq(s, m) /\ m # s[1]
    BY <1>1, <1>3, <2>1 DEF InSeq, NoDup
  <2>2. ASSUME InSeq(s, m), m # s[1] PROVE InSeq(t, m)
    <3>1. PICK i \in 1 .. Len(s) : s[i] = m
      BY <2>2 DEF InSeq
    <3>2. i - 1 \in 1 .. Len(t) /\ (i - 1) + 1 = i
      BY <1>1, <2>2, <3>1
    <3>3. t[i - 1] = m
      BY <1>3, <3>1, <3>2
    <3> QED BY <3>2, <3>3 DEF InSeq
  <2> QED BY <1>2, <2>1, <2>2
<1>6. InSeq(s, Head(s))
  BY <1>1, <1>2 DEF InSeq
<1> QED BY <1>1, <1>2, <1>4, <1>5, <1>6 DEF t

\* Returning from an invocation takes the top, and nothing else, off the stack.
LEMMA PopLemma ==
    ASSUME NEW S, NEW s \in Seq(S), s # <<>>, NoDup(s)
    PROVE  /\ Top(s) \in S /\ InSeq(s, Top(s)) /\ Pop(s) \in Seq(S)
           /\ NoDup(Pop(s))
           /\ \A m : InSeq(Pop(s), m) <=> InSeq(s, m) /\ m # Top(s)
<1> DEFINE n == Len(s) - 1
           t == SubSeq(s, 1, n)
<1>1. Len(s) \in Nat \ {0} /\ \A i \in 1 .. Len(s) : s[i] \in S
  OBVIOUS
<1>2. n \in Nat /\ Len(s) = n + 1
  BY <1>1
<1>3. /\ t \in Seq(S)
      /\ Len(t) = IF 1 <= n THEN n - 1 + 1 ELSE 0
      /\ \A i \in 1 .. n - 1 + 1 : t[i] = s[1 + i - 1]
  <2>1. 1 \in Int /\ n \in Int /\ \A i \in 1 .. n : s[i] \in S
    BY <1>1, <1>2
  <2> HIDE DEF n
  <2> QED BY ONLY <2>1, SubSeqProperties
<1>4. Top(s) = s[n + 1] /\ Pop(s) = t
  BY <1>2 DEF Top, Pop
<1> HIDE DEF n, t
<1>5. Len(t) = n
  BY <1>2, <1>3
<1>6. \A i \in 1 .. n : t[i] = s[i]
  BY <1>2, <1>3
<1>7. NoDup(t)
  BY <1>2, <1>5, <1>6 DEF NoDup
<1>8. ASSUME NEW m PROVE InSeq(t, m) <=> InSeq(s, m) /\ m # s[n + 1]
  BY <1>2, <1>5, <1>6 DEF InSeq, NoDup
<1>9. InSeq(s, s[n + 1]) /\ s[n + 1] \in S
  BY <1>1, <1>2 DEF InSeq
<1> QED BY <1>3, <1>4, <1>7, <1>8, <1>9

\* An empty sequence holds nothing.
LEMMA EmptyLemma == NoDup(<<>>) /\ \A m : ~InSeq(<<>>, m)
BY DEF NoDup, InSeq

\* A sequence without elements is empty.
LEMMA NonEmptyLemma ==
    ASSUME NEW S, NEW s \in Seq(S), s # <<>>
    PROVE  \E m \in S : InSeq(s, m)
<1>1. Len(s) \in Nat \ {0} /\ s[1] \in S
  OBVIOUS
<1> QED BY <1>1 DEF InSeq

----------------------------------------------------------------------------
(* Each action preserves Inv *)

\* A flow that has just started satisfies Inv.
LEMMA InitInv == Init => Inv
<1> SUFFICES ASSUME Init PROVE Inv
  OBVIOUS
<1>1. TypeOK
  <2>1. <<>> \in Seq(Msgs) /\ <<>> \in Seq(Outcomes \cup {"started"})
    OBVIOUS
  <2>2. /\ in \in Seq(Msgs) /\ tasks \in Seq(Msgs) /\ stack \in [Runners -> Seq(Msgs)]
        /\ events \in [Msgs -> Seq(Outcomes \cup {"started"})]
    BY <2>1 DEF Init
  <2> QED BY <2>2 DEF Init, TypeOK, Phases, Statuses
<1>2. ChannelInv /\ StackInv
  BY EmptyLemma DEF Init, ChannelInv, StackInv
<1>3. OwnerInv /\ EventInv
  BY DEF Init, OwnerInv, EventInv
<1>6. IdleInv
  BY DEF Init, IdleInv, Holds, Runners
<1>4. CountInv
  <2>1. Tails = {}
    BY DEF Init, Tails
  <2> QED BY <2>1, FS_EmptySet DEF Init, CountInv
<1>5. PhaseInv
  BY DEF Init, PhaseInv, InClosed, PoolClosed
<1> QED BY <1>1, <1>2, <1>3, <1>4, <1>5, <1>6 DEF Inv

\* A step that moves no invocation keeps the parts of Inv that are about them.
LEMMA FrameLemma ==
    ASSUME Inv, UNCHANGED <<invVars, chanVars>>
    PROVE  /\ ChannelInv' /\ StackInv' /\ OwnerInv' /\ CountInv' /\ EventInv'
           /\ Tails' = Tails
           /\ \A g, s : Holds(g, s)' = Holds(g, s)
<1>0. /\ st' = st /\ owner' = owner /\ tail' = tail /\ events' = events
      /\ in' = in /\ tasks' = tasks /\ stack' = stack /\ inflight' = inflight
  BY DEF invVars, chanVars
<1>1. ChannelInv'
  BY <1>0 DEF Inv, ChannelInv
<1>2. StackInv'
  BY <1>0 DEF Inv, StackInv
<1>3. OwnerInv'
  BY <1>0 DEF Inv, OwnerInv
<1>4. Tails' = Tails
  BY <1>0 DEF Tails
<1>5. CountInv'
  BY <1>0, <1>4 DEF Inv, CountInv
<1>6. EventInv'
  BY <1>0 DEF Inv, EventInv
<1>7. \A g, s : Holds(g, s)' = Holds(g, s)
  BY <1>0 DEF Holds
<1> QED BY <1>1, <1>2, <1>3, <1>4, <1>5, <1>6, <1>7

\* A step of another part of the runtime keeps Inv.
LEMMA StutterInv == ASSUME Inv, UNCHANGED vars PROVE Inv'
<1>1. UNCHANGED <<invVars, chanVars>> /\ UNCHANGED flowVars
  BY DEF vars
<1>2. TypeOK'
  BY DEF Inv, TypeOK, vars, flowVars, invVars, chanVars
<1>3. IdleInv'
  BY <1>1, FrameLemma DEF Inv, IdleInv, flowVars, chanVars
<1>4. PhaseInv'
  BY <1>1 DEF Inv, PhaseInv, InClosed, PoolClosed, flowVars, invVars, chanVars
<1> QED BY <1>1, <1>2, <1>3, <1>4, FrameLemma DEF Inv

\* Cancelling the run context moves nothing.
LEMMA CancelInv == ASSUME Inv, Cancel PROVE Inv'
<1>1. UNCHANGED <<invVars, chanVars>>
  BY DEF Cancel
<1>2. TypeOK'
  BY DEF Inv, TypeOK, Cancel, invVars, chanVars
<1>3. IdleInv'
  BY <1>1, FrameLemma DEF Inv, IdleInv, Cancel, chanVars
<1>4. PhaseInv'
  BY DEF Inv, PhaseInv, InClosed, PoolClosed, Cancel, invVars, chanVars
<1> QED BY <1>1, <1>2, <1>3, <1>4, FrameLemma DEF Inv

\* The phases stop goes through, in order: each wait has established its part.
LEMMA StopInv == ASSUME Inv, Stop PROVE Inv'
<1>1. UNCHANGED <<invVars, chanVars>>
  BY DEF Stop, StopSource, StopTicks, CloseIn, WorkersDone, StopBlock, BlocksDone,
         StopPool, PoolDone, To
<1>2. exited' = exited /\ sweeping' = sweeping /\ asked' \subseteq Reapers
  BY DEF Inv, TypeOK, Stop, StopSource, StopTicks, CloseIn, WorkersDone, StopBlock,
         BlocksDone, StopPool, PoolDone, To
<1>3. phase' \in Phases /\ ctxDone' = ctxDone
  BY DEF Inv, TypeOK, Phases, Stop, StopSource, StopTicks, CloseIn, WorkersDone,
         StopBlock, BlocksDone, StopPool, PoolDone, To
<1>4. TypeOK'
  BY <1>1, <1>2, <1>3 DEF Inv, TypeOK, invVars, chanVars
<1>5. IdleInv'
  BY <1>1, <1>2, FrameLemma DEF Inv, IdleInv, chanVars
<1>6. PhaseInv'
  <2>0. st' = st /\ in' = in /\ inflight' = inflight
    BY <1>1 DEF invVars, chanVars
  <2>1. InClosed' => \A m \in Msgs : st'[m] # "sending"
    <3>1. CASE InClosed
      BY <2>0, <3>1 DEF Inv, PhaseInv
    <3>2. CASE CloseIn
      <4>1. SUFFICES ASSUME NEW m \in Msgs, st[m] = "sending" PROVE FALSE
        BY <2>0
      <4>2. owner[m] \in Ticks /\ m \in Holds(owner[m], "sending")
        BY <4>1 DEF Inv, OwnerInv, Holds
      <4> QED BY <3>2, <4>2 DEF CloseIn
    <3> QED BY <3>1, <3>2 DEF InClosed, Stop, StopSource, StopTicks, CloseIn,
         WorkersDone, StopBlock, BlocksDone, StopPool, PoolDone, To
  <2>2. InClosed => InClosed'
    BY DEF InClosed, Stop, StopSource, StopTicks, CloseIn, WorkersDone, StopBlock,
           BlocksDone, StopPool, PoolDone, To
  <2>3. phase' \in {"blocks", "inflight", "pool", "stopped"} => Workers \subseteq exited
    BY DEF Inv, PhaseInv, Stop, StopSource, StopTicks, CloseIn, WorkersDone, StopBlock,
           BlocksDone, StopPool, PoolDone, To
  <2>4. phase' \in {"inflight", "pool", "stopped"} => Reapers \subseteq exited
    BY DEF Inv, PhaseInv, Stop, StopSource, StopTicks, CloseIn, WorkersDone, StopBlock,
           BlocksDone, StopPool, PoolDone, To
  <2>5. PoolClosed' => inflight = 0
    BY DEF Inv, PhaseInv, PoolClosed, Stop, StopSource, StopTicks, CloseIn, WorkersDone,
           StopBlock, BlocksDone, StopPool, PoolDone, To
  <2> QED BY <1>2, <2>0, <2>1, <2>2, <2>3, <2>4, <2>5 DEF Inv, PhaseInv
<1> QED BY <1>1, <1>4, <1>5, <1>6, FrameLemma DEF Inv

\* A goroutine that returns, or a reaper that enters or leaves a sweep.
LEMMA ExitInv ==
    ASSUME Inv, UNCHANGED <<invVars, chanVars, phase, ctxDone, asked>>,
           exited' \subseteq Runners, sweeping' \subseteq Reapers,
           exited \subseteq exited', exited' \cap sweeping' = {},
           \A g \in exited' : stack[g] = <<>> /\ Holds(g, "resumed") = {},
           \A r \in Reapers \ sweeping' : stack[r] = <<>> /\ Holds(r, "resumed") = {},
           exited' \cap Workers # {} => InClosed /\ in = <<>>
    PROVE  Inv'
<1>1. UNCHANGED <<invVars, chanVars>>
  OBVIOUS
<1>2. TypeOK'
  BY DEF Inv, TypeOK, invVars, chanVars
<1>3. IdleInv'
  BY <1>1, FrameLemma DEF Inv, IdleInv, chanVars
<1>4. PhaseInv'
  BY DEF Inv, PhaseInv, InClosed, PoolClosed, invVars, chanVars
<1> QED BY <1>1, <1>2, <1>3, <1>4, FrameLemma DEF Inv

\* A worker returns with the channel drained and nothing on its stack.
LEMMA WorkerExitInv == ASSUME Inv, NEW w \in Workers, WorkerExit(w) PROVE Inv'
<1>1. exited' = exited \cup {w} /\ sweeping' = sweeping /\ w \notin sweeping
  BY GoroutineAssumption DEF WorkerExit, Inv, TypeOK
<1>2. stack[w] = <<>> /\ Holds(w, "resumed") = {} /\ InClosed /\ in = <<>>
  BY DEF WorkerExit, Inv, IdleInv
<1>3. UNCHANGED <<invVars, chanVars, phase, ctxDone, asked>>
  BY DEF WorkerExit
<1> QED BY <1>1, <1>2, <1>3, ExitInv DEF Inv, TypeOK, IdleInv, Runners

\* A pool worker returns with the queue drained and nothing on its stack.
LEMMA PoolExitInv == ASSUME Inv, NEW p \in PoolWorkers, PoolExit(p) PROVE Inv'
<1>1. exited' = exited \cup {p} /\ sweeping' = sweeping /\ p \notin sweeping
  BY GoroutineAssumption DEF PoolExit, Inv, TypeOK
<1>2. stack[p] = <<>> /\ Holds(p, "resumed") = {} /\ p \notin Workers
  BY GoroutineAssumption DEF PoolExit, Inv, IdleInv
<1>3. UNCHANGED <<invVars, chanVars, phase, ctxDone, asked>>
  BY DEF PoolExit
<1>4. exited' \cap Workers # {} => InClosed /\ in = <<>>
  BY <1>1, <1>2 DEF Inv, PhaseInv
<1> QED BY <1>1, <1>2, <1>3, <1>4, ExitInv DEF Inv, TypeOK, IdleInv, Runners

\* A reaper returns only between sweeps.
LEMMA ReaperExitInv == ASSUME Inv, NEW r \in Reapers, ReaperExit(r) PROVE Inv'
<1>1. exited' = exited \cup {r} /\ sweeping' = sweeping /\ r \notin sweeping
  BY DEF ReaperExit
<1>2. stack[r] = <<>> /\ Holds(r, "resumed") = {} /\ r \notin Workers
  BY <1>1, GoroutineAssumption DEF Inv, IdleInv
<1>3. UNCHANGED <<invVars, chanVars, phase, ctxDone, asked>>
  BY DEF ReaperExit
<1>4. exited' \cap Workers # {} => InClosed /\ in = <<>>
  BY <1>1, <1>2 DEF Inv, PhaseInv
<1> QED BY <1>1, <1>2, <1>3, <1>4, ExitInv DEF Inv, TypeOK, IdleInv, Runners

\* A reaper enters and leaves a sweep holding nothing.
LEMMA SweepInv == ASSUME Inv, NEW r \in Reapers, Sweep(r) \/ SweepEnd(r) PROVE Inv'
<1>1. /\ exited' = exited /\ r \notin exited /\ sweeping' \subseteq Reapers
      /\ sweeping' \subseteq sweeping \cup {r} /\ sweeping \subseteq sweeping' \cup {r}
  BY DEF Sweep, SweepEnd, Inv, TypeOK, IdleInv
<1>2. r \notin sweeping' => stack[r] = <<>> /\ Holds(r, "resumed") = {}
  BY DEF Sweep, SweepEnd
<1>3. UNCHANGED <<invVars, chanVars, phase, ctxDone, asked>>
  BY DEF Sweep, SweepEnd
<1> QED BY <1>1, <1>2, <1>3, ExitInv DEF Inv, TypeOK, IdleInv, PhaseInv

\* run enters the error chain: no invocation moves.
LEMMA FailInv == ASSUME Inv, NEW g \in Runners, Fail(g) PROVE Inv'
<1> DEFINE m == Top(stack[g])
<1>0. /\ UNCHANGED <<flowVars, st, owner, tail, events, chanVars>>
      /\ chain' = [chain EXCEPT ![m] = "error"] /\ left' = [left EXCEPT ![m] = ErrorTakeovers]
  BY DEF Fail
<1> HIDE DEF m
<1>1. TypeOK'
  BY <1>0, CapacityAssumption DEF Inv, TypeOK, flowVars, chanVars
<1>2. ChannelInv' /\ StackInv' /\ OwnerInv' /\ EventInv'
  BY <1>0 DEF Inv, ChannelInv, StackInv, OwnerInv, EventInv, chanVars
<1>3. CountInv'
  <2>1. Tails' = Tails
    BY <1>0 DEF Tails
  <2> QED BY <1>0, <2>1 DEF Inv, CountInv, chanVars
<1>4. IdleInv' /\ PhaseInv'
  <2>1. \A h, s : Holds(h, s)' = Holds(h, s)
    BY <1>0 DEF Holds
  <2> QED BY <1>0, <2>1 DEF Inv, IdleInv, PhaseInv, InClosed, PoolClosed, flowVars, chanVars
<1> QED BY <1>1, <1>2, <1>3, <1>4 DEF Inv

\* A tick that fires holds a fresh message, and stop has not waited for it yet.
LEMMA EmitInv == ASSUME Inv, NEW t \in Ticks, NEW m \in Msgs, Emit(t, m) PROVE Inv'
<1>0. /\ UNCHANGED <<flowVars, chain, tail, events, chanVars>>
      /\ st[m] = "fresh" /\ ~TicksOver
      /\ st' = [st EXCEPT ![m] = "sending"] /\ owner' = [owner EXCEPT ![m] = t]
      /\ left' = [left EXCEPT ![m] = Takeovers]
  BY DEF Emit
<1>1. TypeOK'
  BY <1>0, CapacityAssumption
  DEF Inv, TypeOK, flowVars, chanVars, Statuses, Goroutines
<1>2. ChannelInv' /\ StackInv'
  BY <1>0 DEF Inv, TypeOK, ChannelInv, StackInv, chanVars
<1>3. OwnerInv' /\ EventInv'
  BY <1>0 DEF Inv, TypeOK, OwnerInv, EventInv
<1>4. CountInv'
  <2>1. Tails' = Tails
    BY <1>0 DEF Inv, TypeOK, Tails
  <2> QED BY <1>0, <2>1 DEF Inv, CountInv, chanVars
<1>5. IdleInv'
  <2>1. \A h : Holds(h, "resumed")' = Holds(h, "resumed")
    BY <1>0 DEF Inv, TypeOK, Holds
  <2> QED BY <1>0, <2>1 DEF Inv, IdleInv, flowVars, chanVars
<1>6. PhaseInv'
  <2>1. ~InClosed'
    BY <1>0 DEF TicksOver, InClosed, flowVars
  <2> QED BY <1>0, <2>1 DEF Inv, PhaseInv, InClosed, PoolClosed, flowVars, chanVars
<1> QED BY <1>1, <1>2, <1>3, <1>4, <1>5, <1>6 DEF Inv

\* The select sends: the message moves from the tick to the channel.
LEMMA SendInv == ASSUME Inv, NEW t \in Ticks, NEW m \in Msgs, Send(t, m) PROVE Inv'
<1>0. /\ UNCHANGED <<flowVars, left, chain, tail, events, tasks, stack, inflight>>
      /\ st[m] = "sending" /\ in' = Append(in, m)
      /\ st' = [st EXCEPT ![m] = "queued"] /\ owner' = [owner EXCEPT ![m] = NoOne]
  BY DEF Send, Holds
<1>a. /\ Append(in, m) \in Seq(Msgs)
      /\ \A k : InSeq(Append(in, m), k) <=> InSeq(in, k) \/ k = m
      /\ NoDup(in) /\ ~InSeq(in, m) => NoDup(Append(in, m))
  BY AppendLemma DEF Inv, TypeOK
<1>1. TypeOK'
  BY <1>0, <1>a DEF Inv, TypeOK, flowVars, Statuses
<1>2. ChannelInv'
  BY <1>0, <1>a DEF Inv, TypeOK, ChannelInv
<1>3. StackInv'
  BY <1>0 DEF Inv, TypeOK, StackInv
<1>4. OwnerInv' /\ EventInv'
  BY <1>0 DEF Inv, TypeOK, OwnerInv, EventInv
<1>5. CountInv'
  <2>1. Tails' = Tails
    BY <1>0 DEF Inv, TypeOK, Tails
  <2> QED BY <1>0, <2>1 DEF Inv, CountInv
<1>6. IdleInv'
  <2>1. \A h : Holds(h, "resumed")' = Holds(h, "resumed")
    BY <1>0 DEF Inv, TypeOK, Holds
  <2> QED BY <1>0, <2>1 DEF Inv, IdleInv, flowVars
<1>7. PhaseInv'
  <2>1. ~InClosed /\ ~InClosed'
    BY <1>0 DEF Inv, PhaseInv, InClosed, flowVars
  <2> QED BY <1>0, <2>1 DEF Inv, PhaseInv, InClosed, PoolClosed, flowVars
<1> QED BY <1>1, <1>2, <1>3, <1>4, <1>5, <1>6, <1>7 DEF Inv

\* The select gives up: the message leaves the system.
LEMMA AbandonInv == ASSUME Inv, NEW t \in Ticks, NEW m \in Msgs, Abandon(t, m) PROVE Inv'
<1>0. /\ UNCHANGED <<flowVars, left, chain, tail, events, chanVars>>
      /\ st[m] = "sending"
      /\ st' = [st EXCEPT ![m] = "abandoned"] /\ owner' = [owner EXCEPT ![m] = NoOne]
  BY DEF Abandon, Holds
<1>1. TypeOK'
  BY <1>0 DEF Inv, TypeOK, flowVars, chanVars, Statuses
<1>2. ChannelInv' /\ StackInv'
  BY <1>0 DEF Inv, TypeOK, ChannelInv, StackInv, chanVars
<1>3. OwnerInv' /\ EventInv'
  BY <1>0 DEF Inv, TypeOK, OwnerInv, EventInv
<1>4. CountInv'
  <2>1. Tails' = Tails
    BY <1>0 DEF Inv, TypeOK, Tails
  <2> QED BY <1>0, <2>1 DEF Inv, CountInv, chanVars
<1>5. IdleInv'
  <2>1. \A h : Holds(h, "resumed")' = Holds(h, "resumed")
    BY <1>0 DEF Inv, TypeOK, Holds
  <2> QED BY <1>0, <2>1 DEF Inv, IdleInv, flowVars, chanVars
<1>6. PhaseInv'
  BY <1>0 DEF Inv, TypeOK, PhaseInv, InClosed, PoolClosed, flowVars, chanVars
<1> QED BY <1>1, <1>2, <1>3, <1>4, <1>5, <1>6 DEF Inv

\* What run's first statements do, whoever calls it: the invocation moves to the
\* top of g's stack, with its started event published.
LEMMA BeginLemma ==
    ASSUME Inv, NEW g \in Runners, NEW m \in Msgs,
           st[m] \in {"queued", "task", "resumed"}, Begin(g, m)
    PROVE  /\ st' = [st EXCEPT ![m] = "running"] /\ st' \in [Msgs -> Statuses]
           /\ owner' = [owner EXCEPT ![m] = g]
           /\ owner' \in [Msgs -> Goroutines \cup {NoOne}]
           /\ events' \in [Msgs -> Seq(Outcomes \cup {"started"})]
           /\ stack' \in [Runners -> Seq(Msgs)] /\ stack'[g] # <<>>
           /\ \A h \in Runners \ {g} : stack'[h] = stack[h]
           /\ StackInv' /\ EventInv'
           /\ tail' = tail => Tails' = Tails
<1>0. /\ st' = [st EXCEPT ![m] = "running"] /\ owner' = [owner EXCEPT ![m] = g]
      /\ events' = [events EXCEPT ![m] = Append(events[m], "started")]
      /\ stack' = [stack EXCEPT ![g] = Append(stack[g], m)]
  BY DEF Begin
<1>1. /\ Append(stack[g], m) \in Seq(Msgs) /\ Append(stack[g], m) # <<>>
      /\ \A k : InSeq(Append(stack[g], m), k) <=> InSeq(stack[g], k) \/ k = m
      /\ NoDup(stack[g]) /\ ~InSeq(stack[g], m) => NoDup(Append(stack[g], m))
  <2>1. stack[g] \in Seq(Msgs)
    BY DEF Inv, TypeOK
  <2> QED BY <2>1, AppendLemma
<1>2. /\ st' \in [Msgs -> Statuses] /\ owner' \in [Msgs -> Goroutines \cup {NoOne}]
      /\ stack' \in [Runners -> Seq(Msgs)] /\ stack'[g] # <<>>
      /\ \A h \in Runners \ {g} : stack'[h] = stack[h]
  BY <1>0, <1>1 DEF Inv, TypeOK, Statuses, Goroutines, Runners
<1>3. events' \in [Msgs -> Seq(Outcomes \cup {"started"})] /\ EventInv'
  <2>1. /\ Append(events[m], "started") \in Seq(Outcomes \cup {"started"})
        /\ Len(Append(events[m], "started")) = Len(events[m]) + 1
    BY DEF Inv, TypeOK
  <2>2. Len(events[m]) = 0
    BY DEF Inv, EventInv
  <2>3. events' \in [Msgs -> Seq(Outcomes \cup {"started"})]
    BY <1>0, <2>1 DEF Inv, TypeOK
  <2>4. ASSUME NEW k \in Msgs
        PROVE  Len(events'[k]) =
                 CASE st'[k] = "running" -> 1 [] st'[k] = "ended" -> 2 [] OTHER -> 0
    <3>1. CASE k = m
      <4>1. st'[m] = "running" /\ events'[m] = Append(events[m], "started")
        BY <1>0 DEF Inv, TypeOK
      <4>2. Len(events'[m]) = 1
        BY <2>1, <2>2, <4>1
      <4> QED BY <3>1, <4>1, <4>2
    <3>2. CASE k # m
      <4>1. st'[k] = st[k] /\ events'[k] = events[k]
        BY <1>0, <3>2 DEF Inv, TypeOK
      <4> QED BY <4>1 DEF Inv, EventInv
    <3> QED BY <3>1, <3>2
  <2> QED BY <2>3, <2>4 DEF EventInv
<1>4. StackInv'
  <2>1. stack[g] \in Seq(Msgs) /\ stack'[g] = Append(stack[g], m)
    BY <1>0 DEF Inv, TypeOK
  <2>2. /\ NoDup(stack'[g])
        /\ \A k \in Msgs : InSeq(stack'[g], k) <=> (st'[k] = "running" /\ owner'[k] = g)
    BY <1>0, <1>1, <2>1 DEF Inv, TypeOK, StackInv
  <2>3. ASSUME NEW h \in Runners \ {g}
        PROVE  /\ NoDup(stack'[h])
               /\ \A k \in Msgs :
                    InSeq(stack'[h], k) <=> (st'[k] = "running" /\ owner'[k] = h)
    BY <1>0, <1>2, <2>3 DEF Inv, TypeOK, StackInv
  <2> QED BY <2>2, <2>3 DEF StackInv
<1>5. tail' = tail => Tails' = Tails
  BY <1>0 DEF Inv, TypeOK, Tails
<1> QED BY <1>0, <1>2, <1>3, <1>4, <1>5

\* A worker takes a message off the channel and begins it.
LEMMA WorkerTakeInv == ASSUME Inv, NEW w \in Workers, WorkerTake(w) PROVE Inv'
<1> DEFINE m == Head(in)
<1>0. /\ UNCHANGED <<flowVars, left, chain, tail, tasks, inflight>>
      /\ in' = Tail(in) /\ Begin(w, m) /\ w \notin exited /\ in # <<>>
  BY DEF WorkerTake
<1>1. /\ m \in Msgs /\ InSeq(in, m) /\ in' \in Seq(Msgs) /\ NoDup(in')
      /\ \A k : InSeq(in', k) <=> InSeq(in, k) /\ k # m
  BY <1>0, TailLemma DEF Inv, TypeOK, ChannelInv
<1> HIDE DEF m
<1>2. st[m] = "queued" /\ w \in Runners
  BY <1>1 DEF Inv, ChannelInv, Runners
<1>3. /\ st' = [st EXCEPT ![m] = "running"] /\ st' \in [Msgs -> Statuses]
      /\ owner' = [owner EXCEPT ![m] = w]
      /\ owner' \in [Msgs -> Goroutines \cup {NoOne}]
      /\ events' \in [Msgs -> Seq(Outcomes \cup {"started"})]
      /\ stack' \in [Runners -> Seq(Msgs)] /\ stack'[w] # <<>>
      /\ \A h \in Runners \ {w} : stack'[h] = stack[h]
      /\ StackInv' /\ EventInv' /\ Tails' = Tails
  BY <1>0, <1>1, <1>2, BeginLemma
<1>4. TypeOK'
  BY <1>0, <1>1, <1>3 DEF Inv, TypeOK, flowVars
<1>5. ChannelInv'
  BY <1>0, <1>1, <1>2, <1>3 DEF Inv, TypeOK, ChannelInv
<1>6. OwnerInv'
  BY <1>0, <1>2, <1>3, GoroutineAssumption DEF Inv, TypeOK, OwnerInv
<1>7. CountInv'
  BY <1>0, <1>3 DEF Inv, CountInv
<1>8. IdleInv'
  <2>1. \A h : Holds(h, "resumed")' = Holds(h, "resumed")
    BY <1>2, <1>3 DEF Inv, TypeOK, Holds
  <2> QED BY <1>0, <1>2, <1>3, <2>1, GoroutineAssumption
          DEF Inv, TypeOK, IdleInv, flowVars, Runners
<1>9. PhaseInv'
  BY <1>0, <1>2, <1>3 DEF Inv, TypeOK, PhaseInv, InClosed, PoolClosed, flowVars
<1> QED BY <1>3, <1>4, <1>5, <1>6, <1>7, <1>8, <1>9 DEF Inv

\* A pool worker takes a tail off the queue and begins it.
LEMMA PoolTakeInv == ASSUME Inv, NEW p \in PoolWorkers, PoolTake(p) PROVE Inv'
<1> DEFINE m == Head(tasks)
<1>0. /\ UNCHANGED <<flowVars, left, chain, tail, in, inflight>>
      /\ tasks' = Tail(tasks) /\ Begin(p, m) /\ p \notin exited /\ tasks # <<>>
  BY DEF PoolTake
<1>1. /\ m \in Msgs /\ InSeq(tasks, m) /\ tasks' \in Seq(Msgs) /\ NoDup(tasks')
      /\ \A k : InSeq(tasks', k) <=> InSeq(tasks, k) /\ k # m
  BY <1>0, TailLemma DEF Inv, TypeOK, ChannelInv
<1> HIDE DEF m
<1>2. st[m] = "task" /\ tail[m] /\ p \in Runners
  BY <1>1 DEF Inv, ChannelInv, OwnerInv, Runners
<1>3. /\ st' = [st EXCEPT ![m] = "running"] /\ st' \in [Msgs -> Statuses]
      /\ owner' = [owner EXCEPT ![m] = p]
      /\ owner' \in [Msgs -> Goroutines \cup {NoOne}]
      /\ events' \in [Msgs -> Seq(Outcomes \cup {"started"})]
      /\ stack' \in [Runners -> Seq(Msgs)] /\ stack'[p] # <<>>
      /\ \A h \in Runners \ {p} : stack'[h] = stack[h]
      /\ StackInv' /\ EventInv' /\ Tails' = Tails
  BY <1>0, <1>1, <1>2, BeginLemma
<1>4. TypeOK'
  BY <1>0, <1>1, <1>3 DEF Inv, TypeOK, flowVars
<1>5. ChannelInv'
  BY <1>0, <1>1, <1>2, <1>3 DEF Inv, TypeOK, ChannelInv
<1>6. OwnerInv'
  BY <1>0, <1>2, <1>3 DEF Inv, TypeOK, OwnerInv
<1>7. CountInv'
  BY <1>0, <1>3 DEF Inv, CountInv
<1>8. IdleInv'
  <2>1. \A h : Holds(h, "resumed")' = Holds(h, "resumed")
    BY <1>2, <1>3 DEF Inv, TypeOK, Holds
  <2> QED BY <1>0, <1>2, <1>3, <2>1, GoroutineAssumption
          DEF Inv, TypeOK, IdleInv, flowVars, Runners
<1>9. PhaseInv'
  BY <1>0, <1>2, <1>3 DEF Inv, TypeOK, PhaseInv, InClosed, PoolClosed, flowVars
<1> QED BY <1>3, <1>4, <1>5, <1>6, <1>7, <1>8, <1>9 DEF Inv

\* resume counts the tail before anything can run it; g is inside an invocation or
\* a sweep, so it has not returned.
LEMMA CountInvLemma ==
    ASSUME Inv, NEW g \in Runners, NEW c \in Msgs, NEW n \in Nat, Count(g, c, n),
           g \notin exited, g \in Reapers => g \in sweeping,
           g \in Workers \cup PoolWorkers => stack[g] # <<>>
    PROVE  Inv'
<1>0. /\ UNCHANGED <<flowVars, chain, events, in, tasks, stack>>
      /\ st[c] = "fresh" /\ st' = [st EXCEPT ![c] = "resumed"]
      /\ owner' = [owner EXCEPT ![c] = g] /\ left' = [left EXCEPT ![c] = n]
      /\ tail' = [tail EXCEPT ![c] = TRUE] /\ inflight' = inflight + 1
  BY DEF Count
<1>1. TypeOK'
  BY <1>0 DEF Inv, TypeOK, flowVars, Statuses, Goroutines, Runners
<1>2. ChannelInv' /\ StackInv'
  BY <1>0 DEF Inv, TypeOK, ChannelInv, StackInv
<1>3. OwnerInv' /\ EventInv'
  BY <1>0 DEF Inv, TypeOK, OwnerInv, EventInv
<1>4. CountInv'
  <2>1. Tails' = Tails \cup {c} /\ c \notin Tails
    BY <1>0 DEF Inv, TypeOK, OwnerInv, Tails
  <2>2. IsFiniteSet(Tails') /\ Cardinality(Tails') = Cardinality(Tails) + 1
    BY <2>1, FS_AddElement DEF Inv, CountInv
  <2> QED BY <1>0, <2>2 DEF Inv, CountInv
<1>5. IdleInv'
  <2>1. \A h \in Runners \ {g} : Holds(h, "resumed")' = Holds(h, "resumed")
    BY <1>0 DEF Inv, TypeOK, Holds
  <2> QED BY <1>0, <2>1 DEF Inv, TypeOK, IdleInv, flowVars, Runners
<1>6. PhaseInv'
  <2>1. ~PoolClosed
    <3>1. SUFFICES ASSUME PoolClosed PROVE FALSE
      OBVIOUS
    <3>2. g \in PoolWorkers /\ stack[g] # <<>>
      BY <3>1 DEF Inv, PhaseInv, PoolClosed, Runners
    <3>3. PICK m \in Msgs : InSeq(stack[g], m)
      BY <3>2, NonEmptyLemma DEF Inv, TypeOK
    <3>4. m \in Tails
      BY <3>2, <3>3 DEF Inv, StackInv, OwnerInv, Tails
    <3>5. inflight = 0
      BY <3>1 DEF Inv, PhaseInv
    <3> QED BY <3>4, <3>5, FS_EmptySet DEF Inv, CountInv
  <2> QED BY <1>0, <2>1 DEF Inv, TypeOK, PhaseInv, InClosed, PoolClosed, flowVars
<1> QED BY <1>1, <1>2, <1>3, <1>4, <1>5, <1>6 DEF Inv

\* A block that resumes a tail does so inside an invocation of its goroutine.
LEMMA ResumeInv == ASSUME Inv, NEW g \in Runners, NEW c \in Msgs, Resume(g, c) PROVE Inv'
<1>1. stack[g] # <<>> /\ g \notin exited /\ (g \in Reapers => g \in sweeping)
  BY DEF Resume, Busy, Inv, IdleInv
<1>2. left[Top(stack[g])] - 1 \in Nat
  <2>1. Top(stack[g]) \in Msgs
    BY <1>1, PopLemma DEF Inv, TypeOK, StackInv
  <2> QED BY <2>1 DEF Inv, TypeOK, Resume
<1> QED BY <1>1, <1>2, CountInvLemma DEF Resume

\* A sweep that resumes a tail does so on a reaper that has not returned.
LEMMA ReleaseInv == ASSUME Inv, NEW r \in Reapers, NEW c \in Msgs, Release(r, c) PROVE Inv'
<1>1. r \in sweeping /\ r \notin exited /\ r \notin Workers \cup PoolWorkers /\ r \in Runners
  BY GoroutineAssumption DEF Release, Inv, IdleInv, Runners
<1>2. PICK n \in 0 .. Takeovers - 1 : Count(r, c, n)
  BY DEF Release
<1>3. n \in Nat
  OBVIOUS
<1> QED BY <1>1, <1>2, <1>3, CountInvLemma

\* resume hands the tail to the pool, or begins it on the caller.
LEMMA ScheduleInv ==
    ASSUME Inv, NEW g \in Runners, NEW c \in Msgs, Schedule(g, c) PROVE Inv'
<1>0. /\ UNCHANGED <<flowVars, left, chain, tail, in, inflight>>
      /\ st[c] = "resumed" /\ owner[c] = g
  BY DEF Schedule, Holds
<1>1. tail[c] /\ g \notin exited /\ (g \in Reapers => g \in sweeping)
  BY <1>0 DEF Inv, OwnerInv, IdleInv, Holds
<1>2. g \in Workers \cup PoolWorkers => stack[g] # <<>>
  BY <1>0 DEF Inv, IdleInv, Holds
<1>3. CASE TrySubmit(g, c)
  <2>0. /\ tasks' = Append(tasks, c) /\ UNCHANGED <<events, stack>>
        /\ st' = [st EXCEPT ![c] = "task"] /\ owner' = [owner EXCEPT ![c] = NoOne]
    BY <1>3 DEF TrySubmit
  <2>a. /\ Append(tasks, c) \in Seq(Msgs)
        /\ \A k : InSeq(Append(tasks, c), k) <=> InSeq(tasks, k) \/ k = c
        /\ NoDup(tasks) /\ ~InSeq(tasks, c) => NoDup(Append(tasks, c))
    BY AppendLemma DEF Inv, TypeOK
  <2>1. TypeOK'
    BY <1>0, <2>0, <2>a DEF Inv, TypeOK, flowVars, Statuses
  <2>2. ChannelInv'
    BY <1>0, <2>0, <2>a DEF Inv, TypeOK, ChannelInv
  <2>3. StackInv'
    BY <1>0, <2>0 DEF Inv, TypeOK, StackInv
  <2>4. OwnerInv' /\ EventInv'
    BY <1>0, <1>1, <2>0 DEF Inv, TypeOK, OwnerInv, EventInv
  <2>5. CountInv'
    <3>1. Tails' = Tails
      BY <1>0, <2>0 DEF Inv, TypeOK, Tails
    <3> QED BY <1>0, <3>1 DEF Inv, CountInv
  <2>6. IdleInv'
    <3>1. \A h : Holds(h, "resumed")' \subseteq Holds(h, "resumed")
      BY <1>0, <2>0 DEF Inv, TypeOK, Holds
    <3> QED BY <1>0, <2>0, <3>1 DEF Inv, IdleInv, flowVars
  <2>7. PhaseInv'
    BY <1>0, <2>0 DEF Inv, TypeOK, PhaseInv, InClosed, PoolClosed, flowVars
  <2> QED BY <2>1, <2>2, <2>3, <2>4, <2>5, <2>6, <2>7 DEF Inv
<1>4. CASE Begin(g, c) /\ UNCHANGED tasks
  <2>1. /\ st' = [st EXCEPT ![c] = "running"] /\ st' \in [Msgs -> Statuses]
        /\ owner' = [owner EXCEPT ![c] = g]
        /\ owner' \in [Msgs -> Goroutines \cup {NoOne}]
        /\ events' \in [Msgs -> Seq(Outcomes \cup {"started"})]
        /\ stack' \in [Runners -> Seq(Msgs)] /\ stack'[g] # <<>>
        /\ \A h \in Runners \ {g} : stack'[h] = stack[h]
        /\ StackInv' /\ EventInv' /\ Tails' = Tails
    BY <1>0, <1>4, BeginLemma
  <2>2. TypeOK'
    BY <1>0, <1>4, <2>1 DEF Inv, TypeOK, flowVars
  <2>3. ChannelInv'
    BY <1>0, <1>4, <2>1 DEF Inv, TypeOK, ChannelInv
  <2>4. OwnerInv'
    BY <1>0, <1>1, <2>1 DEF Inv, TypeOK, OwnerInv
  <2>5. CountInv'
    BY <1>0, <2>1 DEF Inv, CountInv
  <2>6. IdleInv'
    <3>1. \A h : Holds(h, "resumed")' \subseteq Holds(h, "resumed")
      BY <1>0, <2>1 DEF Inv, TypeOK, Holds
    <3>2. \A h \in Runners \ {g} : stack'[h] = <<>> <=> stack[h] = <<>>
      BY <2>1
    <3>3. exited' = exited /\ sweeping' = sweeping
      BY <1>0 DEF flowVars
    <3>4. \A h \in Workers \cup PoolWorkers : stack'[h] = <<>> => Holds(h, "resumed")' = {}
      BY <2>1, <3>1, <3>2 DEF Inv, IdleInv, Runners
    <3>5. \A r \in Reapers \ sweeping : stack'[r] = <<>> /\ Holds(r, "resumed")' = {}
      BY <1>1, <3>1, <3>2 DEF Inv, IdleInv, Runners
    <3>6. \A h \in exited : stack'[h] = <<>> /\ Holds(h, "resumed")' = {}
      BY <1>1, <3>1, <3>2 DEF Inv, TypeOK, IdleInv
    <3> QED BY <3>3, <3>4, <3>5, <3>6 DEF Inv, IdleInv
  <2>7. PhaseInv'
    BY <1>0, <2>1 DEF Inv, TypeOK, PhaseInv, InClosed, PoolClosed, flowVars
  <2> QED BY <2>1, <2>2, <2>3, <2>4, <2>5, <2>6, <2>7 DEF Inv
<1> QED BY <1>3, <1>4 DEF Schedule

\* run returns: the invocation leaves the stack and, if a tail, the count.
LEMMA FinishInv ==
    ASSUME Inv, NEW g \in Runners, NEW kind \in Outcomes, Finish(g, kind) PROVE Inv'
<1> DEFINE m == Top(stack[g])
<1>0. /\ UNCHANGED <<flowVars, left, chain, tail, in, tasks>>
      /\ stack[g] # <<>> /\ Holds(g, "resumed") = {}
      /\ events' = [events EXCEPT ![m] = Append(events[m], kind)]
      /\ st' = [st EXCEPT ![m] = "ended"] /\ owner' = [owner EXCEPT ![m] = NoOne]
      /\ inflight' = IF tail[m] THEN inflight - 1 ELSE inflight
      /\ stack' = [stack EXCEPT ![g] = Pop(stack[g])]
  BY DEF Finish, Busy
<1>1. /\ m \in Msgs /\ InSeq(stack[g], m) /\ Pop(stack[g]) \in Seq(Msgs)
      /\ NoDup(Pop(stack[g]))
      /\ \A k : InSeq(Pop(stack[g]), k) <=> InSeq(stack[g], k) /\ k # m
  <2>1. stack[g] \in Seq(Msgs) /\ NoDup(stack[g])
    BY DEF Inv, TypeOK, StackInv
  <2> QED BY <1>0, <2>1, PopLemma
<1> HIDE DEF m
<1>2. st[m] = "running" /\ owner[m] = g
  BY <1>1 DEF Inv, StackInv
<1>3. CountInv' /\ inflight' \in Nat
  <2>1. CASE tail[m]
    <3>1. Tails' = Tails \ {m} /\ m \in Tails
      BY <1>0, <1>1, <1>2, <2>1 DEF Inv, TypeOK, Tails
    <3>2. /\ IsFiniteSet(Tails') /\ Cardinality(Tails') = Cardinality(Tails) - 1
          /\ Cardinality(Tails') \in Nat
      BY <3>1, FS_RemoveElement, FS_CardinalityType DEF Inv, CountInv
    <3> QED BY <1>0, <2>1, <3>2 DEF Inv, CountInv
  <2>2. CASE ~tail[m]
    <3>1. Tails' = Tails
      BY <1>0, <1>1, <2>2 DEF Inv, TypeOK, Tails
    <3> QED BY <1>0, <2>2, <3>1 DEF Inv, TypeOK, CountInv
  <2> QED BY <2>1, <2>2
<1>4. events' \in [Msgs -> Seq(Outcomes \cup {"started"})] /\ EventInv'
  <2>1. /\ Append(events[m], kind) \in Seq(Outcomes \cup {"started"})
        /\ Len(Append(events[m], kind)) = Len(events[m]) + 1
    BY <1>1 DEF Inv, TypeOK
  <2>2. Len(events[m]) = 1
    BY <1>1, <1>2 DEF Inv, EventInv
  <2>3. events' \in [Msgs -> Seq(Outcomes \cup {"started"})]
    BY <1>0, <2>1 DEF Inv, TypeOK
  <2>4. ASSUME NEW k \in Msgs
        PROVE  Len(events'[k]) =
                 CASE st'[k] = "running" -> 1 [] st'[k] = "ended" -> 2 [] OTHER -> 0
    <3>1. CASE k = m
      <4>1. st'[m] = "ended" /\ events'[m] = Append(events[m], kind)
        BY <1>0, <1>1 DEF Inv, TypeOK
      <4>2. Len(events'[m]) = 2
        BY <2>1, <2>2, <4>1
      <4> QED BY <3>1, <4>1, <4>2
    <3>2. CASE k # m
      <4>1. st'[k] = st[k] /\ events'[k] = events[k]
        BY <1>0, <3>2 DEF Inv, TypeOK
      <4> QED BY <4>1 DEF Inv, EventInv
    <3> QED BY <3>1, <3>2
  <2> QED BY <2>3, <2>4 DEF EventInv
<1>5. TypeOK'
  BY <1>0, <1>1, <1>3, <1>4 DEF Inv, TypeOK, flowVars, Statuses
<1>6. ChannelInv'
  BY <1>0, <1>1, <1>2 DEF Inv, TypeOK, ChannelInv
<1>7. StackInv'
  <2>1. stack'[g] = Pop(stack[g]) /\ \A h \in Runners \ {g} : stack'[h] = stack[h]
    BY <1>0 DEF Inv, TypeOK
  <2>2. /\ NoDup(stack'[g])
        /\ \A k \in Msgs : InSeq(stack'[g], k) <=> (st'[k] = "running" /\ owner'[k] = g)
    BY <1>0, <1>1, <1>2, <2>1 DEF Inv, TypeOK, StackInv
  <2>3. ASSUME NEW h \in Runners \ {g}
        PROVE  /\ NoDup(stack'[h])
               /\ \A k \in Msgs :
                    InSeq(stack'[h], k) <=> (st'[k] = "running" /\ owner'[k] = h)
    BY <1>0, <1>1, <1>2, <2>1, <2>3 DEF Inv, TypeOK, StackInv
  <2> QED BY <2>2, <2>3 DEF StackInv
<1>8. OwnerInv'
  BY <1>0, <1>1, <1>2 DEF Inv, TypeOK, OwnerInv
<1>9. IdleInv'
  <2>1. \A h : Holds(h, "resumed")' = Holds(h, "resumed")
    BY <1>0, <1>1, <1>2 DEF Inv, TypeOK, Holds
  <2>2. g \notin exited /\ (g \in Reapers => g \in sweeping)
    BY <1>0 DEF Inv, IdleInv
  <2>3. \A h \in Runners \ {g} : stack'[h] = stack[h]
    BY <1>0 DEF Inv, TypeOK
  <2> QED BY <1>0, <2>1, <2>2, <2>3 DEF Inv, TypeOK, IdleInv, flowVars, Runners
<1>10. PhaseInv'
  <2>1. inflight = 0 => inflight' = 0
    <3>1. inflight = 0 => ~tail[m]
      <4>1. SUFFICES ASSUME inflight = 0, tail[m] PROVE FALSE
        OBVIOUS
      <4>2. m \in Tails
        BY <1>1, <1>2, <4>1 DEF Tails
      <4> QED BY <4>1, <4>2, FS_EmptySet DEF Inv, CountInv
    <3> QED BY <1>0, <3>1
  <2> QED BY <1>0, <1>1, <2>1 DEF Inv, TypeOK, PhaseInv, InClosed, PoolClosed, flowVars
<1> QED BY <1>3, <1>4, <1>5, <1>6, <1>7, <1>8, <1>9, <1>10 DEF Inv

----------------------------------------------------------------------------
(* The theorems *)

\* Every step of the flow preserves Inv.
LEMMA NextInv == ASSUME Inv, [Next]_vars PROVE Inv'
<1>1. ASSUME NEW t \in Ticks, Source(t) PROVE Inv'
  BY <1>1, EmitInv, SendInv, AbandonInv DEF Source
<1>2. ASSUME NEW g \in Runners, Run(g) PROVE Inv'
  BY <1>2, FailInv, FinishInv, ResumeInv, ScheduleInv DEF Run
<1>3. ASSUME NEW w \in Workers, WorkerTake(w) \/ WorkerExit(w) PROVE Inv'
  BY <1>3, WorkerTakeInv, WorkerExitInv
<1>4. ASSUME NEW p \in PoolWorkers, PoolTake(p) \/ PoolExit(p) PROVE Inv'
  BY <1>4, PoolTakeInv, PoolExitInv
<1>5. ASSUME NEW r \in Reapers, Reap(r) PROVE Inv'
  BY <1>5, SweepInv, ReaperExitInv, ReleaseInv DEF Reap
<1>6. CASE Cancel
  BY <1>6, CancelInv
<1>7. CASE Stop
  BY <1>7, StopInv
<1>8. CASE Stopped \/ UNCHANGED vars
  BY <1>8, StutterInv DEF Stopped
<1> QED BY <1>1, <1>2, <1>3, <1>4, <1>5, <1>6, <1>7, <1>8 DEF Next

\* Inv is an invariant of the flow: every message and every tail the runtime has
\* taken is in exactly one place, through start, traffic and shutdown.
THEOREM InvariantHolds == Spec => []Inv
<1>1. Inv /\ [Next]_vars => Inv'
  BY NextInv
<1> QED BY <1>1, InitInv, PTL DEF Spec

\* Type correctness of the flow's state.
THEOREM TypeCorrect == Spec => []TypeOK
<1>1. Inv => TypeOK
  BY DEF Inv
<1> QED BY <1>1, InvariantHolds, PTL

\* boundFlow.stop closes `in' only when no tick of the source can still send on it.
THEOREM NeverSendsOnClosed == Spec => []NoSendOnClosed
<1>1. Inv => NoSendOnClosed
  BY DEF Inv, PhaseInv, NoSendOnClosed
<1> QED BY <1>1, InvariantHolds, PTL

\* boundFlow.inflight counts exactly the resumed tails that have not finished.
THEOREM InflightExact == Spec => []InflightCountsTails
<1>1. Inv => InflightCountsTails
  BY DEF Inv, CountInv, Tails, InflightCountsTails
<1> QED BY <1>1, InvariantHolds, PTL

\* With no tail outstanding, the pool's queue and its workers' stacks are empty.
LEMMA NoTails ==
    ASSUME Inv, inflight = 0
    PROVE  /\ tasks = <<>>
           /\ \A p \in PoolWorkers : stack[p] = <<>> /\ Holds(p, "resumed") = {}
           /\ \A m \in Msgs : st[m] \notin {"task", "resumed"}
<1>1. Tails = {}
  BY FS_EmptySet DEF Inv, CountInv
<1>2. \A m \in Msgs : st[m] \notin {"task", "resumed"}
  BY <1>1 DEF Inv, OwnerInv, Tails
<1>3. tasks = <<>>
  BY <1>2, NonEmptyLemma DEF Inv, TypeOK, ChannelInv
<1>4. ASSUME NEW p \in PoolWorkers PROVE stack[p] = <<>>
  <2>1. stack[p] \in Seq(Msgs) /\ p \in Runners
    BY DEF Inv, TypeOK, Runners
  <2>2. ASSUME NEW m \in Msgs, InSeq(stack[p], m) PROVE FALSE
    BY <1>1, <2>1, <2>2 DEF Inv, StackInv, OwnerInv, Tails
  <2> QED BY <2>1, <2>2, NonEmptyLemma
<1>5. \A p \in PoolWorkers : Holds(p, "resumed") = {}
  BY <1>2 DEF Holds
<1> QED BY <1>2, <1>3, <1>4, <1>5

\* pool.Stop runs only after every submitter has stopped: with the pool closed no
\* tail is counted, queued or running on any goroutine.
THEOREM PoolStopsLast == Spec => []PoolOutlivesTails
<1>1. Inv => PoolOutlivesTails
  <2> SUFFICES ASSUME Inv, PoolClosed
               PROVE  /\ inflight = 0 /\ tasks = <<>>
                      /\ \A g \in Runners : stack[g] = <<>> /\ Holds(g, "resumed") = {}
    BY DEF PoolOutlivesTails
  <2>1. inflight = 0 /\ Workers \subseteq exited /\ Reapers \subseteq exited
    BY DEF Inv, PhaseInv, PoolClosed
  <2> QED BY <2>1, NoTails DEF Inv, IdleInv, Runners
<1> QED BY <1>1, InvariantHolds, PTL

\* Every invocation publishes one started and one terminal event, and none is still
\* on its way when stop has returned.
THEOREM OneTerminal == Spec => []OneTerminalEach
<1>1. Inv => OneTerminalEach
  <2> SUFFICES ASSUME Inv, NEW m \in Msgs, phase = "stopped"
               PROVE  st[m] \in {"fresh", "abandoned", "ended"}
    BY DEF Inv, EventInv, OneTerminalEach
  <2>1. inflight = 0 /\ Workers \subseteq exited /\ Reapers \subseteq exited
    BY DEF Inv, PhaseInv, PoolClosed
  <2>2. st[m] # "sending" /\ in = <<>>
    BY <2>1, GoroutineAssumption DEF Inv, PhaseInv, InClosed
  <2>3. st[m] # "queued"
    BY <2>2, EmptyLemma DEF Inv, ChannelInv
  <2>4. st[m] \notin {"task", "resumed"}
    BY <2>1, NoTails
  <2>5. st[m] # "running"
    <3>1. SUFFICES ASSUME st[m] = "running" PROVE FALSE
      OBVIOUS
    <3>2. owner[m] \in Runners /\ InSeq(stack[owner[m]], m)
      BY <3>1 DEF Inv, OwnerInv, StackInv
    <3>3. stack[owner[m]] = <<>>
      BY <2>1, <3>2, NoTails DEF Inv, IdleInv, Runners
    <3> QED BY <3>2, <3>3, EmptyLemma
  <2> QED BY <2>2, <2>3, <2>4, <2>5 DEF Inv, TypeOK, Statuses
<1> QED BY <1>1, InvariantHolds, PTL

\* Once stop waits on inflight, a count of zero stays zero: sync.WaitGroup is never
\* raised from zero under a waiter.
THEOREM WaitGroupSafe == Spec => NoAddAfterWait
<1>1. Inv /\ [Next]_vars => (phase = "inflight" /\ inflight = 0 => inflight' = 0)
  <2> SUFFICES ASSUME Inv, [Next]_vars, phase = "inflight", inflight = 0
               PROVE  inflight' = 0
    OBVIOUS
  <2>1. \A g \in Runners : stack[g] = <<>> /\ g \notin sweeping
    <3>1. Workers \subseteq exited /\ Reapers \subseteq exited
      BY DEF Inv, PhaseInv
    <3> QED BY <3>1, NoTails, GoroutineAssumption DEF Inv, TypeOK, IdleInv, Runners
  <2>2. ASSUME NEW t \in Ticks, Source(t) PROVE inflight' = 0
    BY <2>2 DEF Source, Emit, Send, Abandon, chanVars
  <2>3. ASSUME NEW g \in Runners, Run(g) PROVE inflight' = 0
    BY <2>1, <2>3 DEF Run, Fail, Finish, Resume, Schedule, Busy, chanVars
  <2>4. ASSUME NEW w \in Workers, WorkerTake(w) \/ WorkerExit(w) PROVE inflight' = 0
    BY <2>4 DEF WorkerTake, WorkerExit, chanVars
  <2>5. ASSUME NEW p \in PoolWorkers, PoolTake(p) \/ PoolExit(p) PROVE inflight' = 0
    BY <2>5 DEF PoolTake, PoolExit, chanVars
  <2>6. ASSUME NEW r \in Reapers, Reap(r) PROVE inflight' = 0
    BY <2>1, <2>6 DEF Reap, Sweep, SweepEnd, ReaperExit, Release, chanVars, Runners
  <2>7. CASE Cancel
    BY <2>7 DEF Cancel, chanVars
  <2>8. CASE Stop
    BY <2>8 DEF Stop, StopSource, StopTicks, CloseIn, WorkersDone, StopBlock, BlocksDone,
                StopPool, PoolDone, To, chanVars
  <2>9. CASE Stopped \/ UNCHANGED vars
    BY <2>9 DEF Stopped, vars, chanVars
  <2> QED BY <2>2, <2>3, <2>4, <2>5, <2>6, <2>7, <2>8, <2>9 DEF Next
<1>2. Inv /\ [Next]_vars => [phase = "inflight" /\ inflight = 0 => inflight' = 0]_vars
  BY <1>1
<1> QED BY <1>2, InvariantHolds, PTL DEF Spec, NoAddAfterWait
=============================================================================
