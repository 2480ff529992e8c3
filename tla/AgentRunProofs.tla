--------------------------- MODULE AgentRunProofs ---------------------------
(***************************************************************************)
(* Proofs about AgentRun, for every set of messages, stops and replicas,    *)
(* any number of attempts and turns and any number of faults.               *)
(*                                                                          *)
(* Inv says which invocations may be at which step, which of them hold the  *)
(* claim, and in which single place a message is on its way to its turn.    *)
(***************************************************************************)
EXTENDS AgentRun, TLAPS

\* Where a message is before it is a run, and where a run is in its turn loop.
Joining == {"local", "acquire", "subscribe", "deliver", "await", "pause"}
Looping == {"turn", "model", "tools", "check", "write", "rewrite"}

\* A stop is never a run; a run begins a turn while it has one left; a write has somewhere to
\* go on to; an invocation that could not subscribe only gives its claim back.
StepInv ==
    /\ \A i \in Stops : pc[i] \in {"local", "deliver", "await", "pause"} \cup Over
    /\ \A i \in Msgs : pc[i] \in Joining \cup {"take", "load"} => iter[i] = 0
    /\ \A i \in Msgs : pc[i] = "turn" => iter[i] < MaxIterations
    /\ \A i \in Msgs : pc[i] \in {"write", "rewrite"} => then[i] # "none"
    /\ \A i \in Msgs : how[i] = "unreachable" => pc[i] \in {"release", "failed", "crashed"}

\* A run holds the claim up to the end of its work, or was superseded.
HeldInv ==
    \A i \in Msgs : pc[i] \in Working \cup {"subscribe"} => holder = i \/ i \in superseded

\* What a replica's registry has is a run of that replica, closed before it unwinds.
RegistryInv ==
    \A r \in Replicas : runs[r] # NoRun =>
        /\ Home[runs[r]] = r /\ how[runs[r]] # "unreachable"
        /\ pc[runs[r]] \in Working \cup Unwinding
        /\ pc[runs[r]] \in Unwinding => runs[r] \in done

\* From the moment a run has its answer, or has reported what it will not answer, it takes
\* nothing more.
HandledInv ==
    \A j \in Msgs : how[j] \in {"answered", "outOfTurns"} =>
        /\ j \in done /\ pending[j] = {}
        /\ pc[j] \in {"write", "rewrite", "closing"} \cup Unwinding \cup {"ended", "crashed"}
        /\ pc[j] \in {"write", "rewrite"} => then[j] = "closing"

\* A message whose invocation never gave up is in one place at most: on its way with its
\* invocation, in one delivery, pending in one run, or a turn.
OnceInv ==
    \A m \in Msgs \ gaveUp :
        /\ taken[m] < 2
        /\ \A j, k \in Msgs : m \in pending[j] /\ m \in pending[k] => j = k
        /\ \A j \in Msgs : m \in pending[j] => taken[m] = 0
        /\ \A d, e \in mail : d.from = m /\ e.from = m => d = e
        /\ \A d \in mail : d.from = m =>
              /\ taken[m] = 0 /\ \A j \in Msgs : m \notin pending[j]
              /\ pc[m] = "crashed" \/ Awaits(m, d)
        /\ pc[m] \in (Joining \ {"await"}) \cup {"take", "load"} =>
              taken[m] = 0 /\ \A j \in Msgs : m \notin pending[j]

\* A run that was not superseded, and lacks nothing, carries all of the working memory.
KeptInv ==
    /\ \A i \in Msgs : pc[i] = "rewrite" => i \notin blind
    /\ \A i \in Msgs : pc[i] \in Looping /\ i \notin blind \cup superseded \cup lacking =>
          mem \subseteq turns[i]

\* A step of run i out of its write keeps what is stored, or i need not: see TurnsKept.
KeepsTurns ==
    \A i \in Msgs : /\ pc[i] \in {"write", "rewrite"} /\ pc'[i] # pc[i]
                    /\ i \notin superseded \cup lacking
                    => mem \subseteq mem'

Inv == TypeOK /\ StepInv /\ HeldInv /\ RegistryInv /\ HandledInv /\ OnceInv /\ KeptInv

----------------------------------------------------------------------------
LEMMA InitInv == Init => Inv
<1> SUFFICES ASSUME Init PROVE Inv
  OBVIOUS
<1> USE AgentRunAssumption DEF Init, Conversation!Init, Invs
<1>1. TypeOK
  <2>1. pc \in [Invs -> {"local"}] /\ mail = {} /\ attempt \in [Invs -> 1..Attempts]
    OBVIOUS
  <2>2. iter \in [Msgs -> 0..MaxIterations] /\ taken \in [Msgs -> 0..2] /\ faults \in 0..MaxFaults
    OBVIOUS
  <2> QED BY <2>1, <2>2 DEF TypeOK
<1>2. StepInv
  BY DEF StepInv, Over
<1>3. HeldInv /\ RegistryInv /\ HandledInv
  BY DEF HeldInv, RegistryInv, HandledInv, Working
<1>4. OnceInv /\ KeptInv
  BY DEF OnceInv, KeptInv, Looping
<1> QED BY <1>1, <1>2, <1>3, <1>4 DEF Inv

\* The kinds of values survive every step.
LEMMA TypeStep == TypeOK /\ StepInv /\ [Next]_vars => TypeOK'
<1> SUFFICES ASSUME TypeOK, StepInv, [Next]_vars PROVE TypeOK'
  OBVIOUS
<1> USE AgentRunAssumption
    DEF TypeOK, Invs, Over, Working, Unwinding, Goto, Fault, NoFault, claim, queue, caller, run,
        memory, history
<1>1. ASSUME NEW i \in Invs, Join(i) PROVE TypeOK'
  <2>1. CASE Local(i)
    BY <2>1 DEF Local, Accepts, Offer, RequestStop, Settled
  <2>2. CASE Acquire(i)
    <3>1. lapsed' \in BOOLEAN
      BY <2>2 DEF Acquire, Conversation!Grant
    <3>2. holder' \in Invs \cup {NoRun} /\ handle' \in [Invs -> {"none", "held", "ended"}]
      BY <2>2 DEF Acquire, Conversation!Grant
    <3>3. /\ pc' \in {[pc EXCEPT ![i] = l] : l \in {"subscribe", "deliver", "failed"}}
          /\ superseded' \subseteq Invs /\ faults' \in 0..MaxFaults
          /\ UNCHANGED <<runs, queue, caller, run, iter, memory, how, taken, lacking>>
      BY <2>2 DEF Acquire
    <3> QED BY <3>1, <3>2, <3>3
  <2>3. CASE Subscribe(i) \/ Take(i)
    BY <2>3 DEF Subscribe, Take, StepInv
  <2>4. CASE Deliver(i)
    BY <2>4 DEF Deliver
  <2>5. CASE TimeOut(i)
    BY <2>5 DEF TimeOut
  <2>6. CASE Pause(i)
    BY <2>6 DEF Pause, Settled
  <2> QED BY <1>1, <2>1, <2>2, <2>3, <2>4, <2>5, <2>6 DEF Join
<1>2. ASSUME NEW i \in Msgs, Loop(i) PROVE TypeOK'
  <2>1. CASE Load(i)
    BY <2>1 DEF Load, TakeTurns
  <2>2. CASE Turn(i)
    BY <2>2 DEF Turn, TakeTurns, StepInv
  <2>3. CASE Model(i)
    BY <2>3 DEF Model, Finish, NextTurn, ReportUnanswered, Leave
  <2>4. CASE Tools(i) \/ Check(i)
    BY <2>4 DEF Tools, Check, AfterTools, NextTurn, ReportUnanswered, Leave
  <2>5. CASE Write(i) \/ Rewrite(i)
    BY <2>5 DEF Write, Rewrite, Save, StepInv
  <2> QED BY <1>2, <2>1, <2>2, <2>3, <2>4, <2>5 DEF Loop
<1>3. ASSUME NEW i \in Msgs, Unwind(i) PROVE TypeOK'
  <2>1. CASE CloseRun(i)
    BY <2>1 DEF CloseRun
  <2>2. CASE Unsubscribe(i)
    BY <2>2 DEF Unsubscribe
  <2>3. CASE Release(i)
    <3>1. lapsed' \in BOOLEAN
      BY <2>3 DEF Release
    <3>2. /\ holder' \in Invs \cup {NoRun} /\ handle' \in [Invs -> {"none", "held", "ended"}]
          /\ faults' \in 0..MaxFaults
      BY <2>3 DEF Release
    <3>3. /\ pc' = [pc EXCEPT ![i] = IF how[i] = "unreachable" THEN "failed" ELSE "deregister"]
          /\ UNCHANGED <<runs, queue, caller, run, iter, memory, how, history>>
      BY <2>3 DEF Release
    <3> QED BY <3>1, <3>2, <3>3
  <2>4. CASE Deregister(i)
    BY <2>4 DEF Deregister
  <2> QED BY <1>3, <2>1, <2>2, <2>3, <2>4 DEF Unwind
<1>4. ASSUME NEW j \in Msgs, NEW d \in mail, HandleDelivery(j, d) PROVE TypeOK'
  BY <1>4 DEF HandleDelivery, Accepts, Offer, RequestStop, Answer, Settled
<1>5. ASSUME NEW i \in Msgs, Lose(i) \/ Watch(i) PROVE TypeOK'
  BY <1>5 DEF Lose, Watch, RequestStop, Conversation!End
<1>6. CASE Renew \/ Lapse
  <2>1. lapsed' \in BOOLEAN
    BY <1>6 DEF Renew, Lapse, Conversation!Renew, Conversation!Lapse
  <2>2. /\ faults' \in 0..MaxFaults
        /\ UNCHANGED <<holder, handle, runs, queue, pc, caller, run, iter, memory, how, history>>
    BY <1>6 DEF Renew, Lapse, Conversation!Renew, Conversation!Lapse
  <2> QED BY <2>1, <2>2
<1>7. ASSUME NEW r \in Replicas, Crash(r) PROVE TypeOK'
  <2>1. mail' \subseteq mail
    BY <1>7 DEF Crash
  <2>2. /\ runs' \in [Replicas -> Msgs \cup {NoRun}] /\ subs' \subseteq Msgs
        /\ handle' \in [Invs -> {"none", "held", "ended"}]
        /\ faults' \in 0..MaxFaults
    BY <1>7 DEF Crash
  <2>3. pc' \in [Invs -> {"local", "acquire", "subscribe", "deliver", "await", "pause"}
                        \cup Working \cup Unwinding \cup Over]
    BY <1>7 DEF Crash
  <2>4. UNCHANGED <<holder, lapsed, caller, run, iter, memory, how, history>>
    BY <1>7 DEF Crash
  <2> QED BY <2>1, <2>2, <2>3, <2>4
<1>8. CASE UNCHANGED vars
  BY <1>8 DEF vars
<1> QED BY <1>1, <1>2, <1>3, <1>4, <1>5, <1>6, <1>7, <1>8 DEF Next, Finished, Listen

\* Which invocations may be at which step.
LEMMA StepStep == TypeOK /\ StepInv /\ [Next]_vars => StepInv'
<1> SUFFICES ASSUME TypeOK, StepInv, [Next]_vars PROVE StepInv'
  OBVIOUS
<1> USE AgentRunAssumption DEF TypeOK, StepInv, Invs, Over, Goto, Joining
<1>1. ASSUME NEW i \in Invs, Join(i) PROVE StepInv'
  <2>1. UNCHANGED <<iter, then>>
    BY <1>1 DEF Join, Local, Acquire, Subscribe, Take, Deliver, TimeOut, Pause, memory
  <2>2. CASE i \in Stops
    <3>1. /\ pc' \in {[pc EXCEPT ![i] = l] : l \in {"deliver", "await", "pause", "stopSent"}}
          /\ UNCHANGED how
      BY <1>1, <2>2 DEF Join, Local, Acquire, Subscribe, Take, Deliver, TimeOut, Pause, Settled
    <3> QED BY <2>1, <2>2, <3>1
  <2>3. CASE i \in Msgs
    <3>1. /\ pc[i] \in Joining \cup {"take"}
          /\ pc' \in {[pc EXCEPT ![i] = l] : l \in {"acquire", "subscribe", "deliver", "await",
                       "pause", "take", "load", "release", "handed", "failed"}}
      BY <1>1, <2>3 DEF Join, Local, Acquire, Subscribe, Take, Deliver, TimeOut, Pause, Settled
    <3>2. \/ UNCHANGED how
          \/ how' = [how EXCEPT ![i] = "unreachable"] /\ pc' = [pc EXCEPT ![i] = "release"]
      BY <1>1, <2>3 DEF Join, Local, Acquire, Subscribe, Take, Deliver, TimeOut, Pause
    <3> QED BY <2>1, <2>3, <3>1, <3>2
  <2> QED BY <2>2, <2>3
<1>2. ASSUME NEW i \in Msgs, Loop(i) PROVE StepInv'
  <2>1. CASE Load(i)
    BY <2>1 DEF Load, memory
  <2>2. CASE Turn(i)
    BY <2>2 DEF Turn
  <2>3. ASSUME UNCHANGED iter, pc[i] \in {"model", "tools", "check"},
               \A j \in Invs \ {i} : pc'[j] = pc[j],
               \A j \in Msgs \ {i} : how'[j] = how[j] /\ then'[j] = then[j],
               how'[i] # "unreachable",
               \/ pc'[i] = "turn" /\ iter[i] < MaxIterations
               \/ pc'[i] = "write" /\ then'[i] # "none"
               \/ pc'[i] \in {"tools", "closing"}
        PROVE  StepInv'
    BY <2>3
  <2>4. CASE Model(i)
    <3>1. /\ UNCHANGED iter /\ pc[i] = "model"
          /\ \A j \in Invs \ {i} : pc'[j] = pc[j]
          /\ \A j \in Msgs \ {i} : how'[j] = how[j] /\ then'[j] = then[j]
      BY <2>4 DEF Model, Finish, NextTurn, Leave
    <3>2. /\ how'[i] # "unreachable"
          /\ \/ pc'[i] = "turn" /\ iter[i] < MaxIterations
             \/ pc'[i] = "write" /\ then'[i] # "none"
             \/ pc'[i] \in {"tools", "closing"}
      BY <2>4 DEF Model, Finish, NextTurn, Leave
    <3> QED BY <2>3, <3>1, <3>2
  <2>5. CASE Tools(i) \/ Check(i)
    <3>1. /\ UNCHANGED iter /\ pc[i] \in {"tools", "check"}
          /\ \A j \in Invs \ {i} : pc'[j] = pc[j]
          /\ \A j \in Msgs \ {i} : how'[j] = how[j] /\ then'[j] = then[j]
      BY <2>5 DEF Tools, Check, AfterTools, NextTurn, Leave
    <3>2. /\ how'[i] # "unreachable"
          /\ \/ pc'[i] = "turn" /\ iter[i] < MaxIterations
             \/ pc'[i] = "write" /\ then'[i] # "none"
      BY <2>5 DEF Tools, Check, AfterTools, NextTurn, Leave
    <3> QED BY <2>3, <3>1, <3>2
  <2>6. CASE Write(i) \/ Rewrite(i)
    <3>1. /\ pc' = [pc EXCEPT ![i] = pc'[i]] /\ pc'[i] \in {then[i], "rewrite"}
          /\ pc[i] \in {"write", "rewrite"} /\ then[i] \in {"check", "closing"}
          /\ UNCHANGED <<iter, then, how>>
      BY <2>6 DEF Write, Rewrite
    <3> QED BY <3>1
  <2> QED BY <1>2, <2>1, <2>2, <2>4, <2>5, <2>6 DEF Loop
<1>3. ASSUME NEW i \in Msgs, Unwind(i) PROVE StepInv'
  BY <1>3 DEF Unwind, CloseRun, Unsubscribe, Release, Deregister, memory
<1>4. ASSUME NEW j \in Msgs, NEW d \in mail, HandleDelivery(j, d) PROVE StepInv'
  BY <1>4 DEF HandleDelivery, Awaits, Answer, Settled, memory
<1>5. CASE UNCHANGED <<pc, iter, memory, how>>
  BY <1>5 DEF memory
<1>6. ASSUME NEW r \in Replicas, Crash(r) PROVE StepInv'
  BY <1>6 DEF Crash, memory
<1> QED
  BY <1>1, <1>2, <1>3, <1>4, <1>5, <1>6
  DEF Next, Finished, Listen, vars, Lose, Watch, Renew, Lapse

\* Who holds the claim.
LEMMA HeldStep == Inv /\ [Next]_vars => HeldInv'
<1> SUFFICES ASSUME Inv, [Next]_vars PROVE HeldInv'
  OBVIOUS
<1> USE AgentRunAssumption
    DEF Inv, TypeOK, HeldInv, Invs, Over, Working, Goto, claim, history
<1>1. ASSUME NEW i \in Invs, Join(i) PROVE HeldInv'
  <2>1. CASE Acquire(i)
    BY <2>1 DEF Acquire, Conversation!Grant
  <2>2. CASE ~Acquire(i)
    BY <1>1, <2>2 DEF Join, Local, Subscribe, Take, Deliver, TimeOut, Pause, Settled
  <2> QED BY <2>1, <2>2
<1>2. ASSUME NEW i \in Msgs, Loop(i) PROVE HeldInv'
  <2>1. pc[i] \in Working /\ (\A j \in Msgs \ {i} : pc'[j] = pc[j]) /\ UNCHANGED <<holder, superseded>>
    BY <1>2 DEF Loop, Load, Turn, Model, Tools, Check, Write, Rewrite, Finish, NextTurn, Leave,
                AfterTools
  <2> QED BY <2>1
<1>3. ASSUME NEW i \in Msgs, Unwind(i) PROVE HeldInv'
  BY <1>3 DEF Unwind, CloseRun, Unsubscribe, Release, Deregister
<1>4. ASSUME NEW j \in Msgs, NEW d \in mail, HandleDelivery(j, d) PROVE HeldInv'
  BY <1>4 DEF HandleDelivery, Answer, Settled
<1>5. CASE (\E i \in Msgs : Lose(i) \/ Watch(i)) \/ Renew \/ Lapse
  BY <1>5 DEF Lose, Watch, Renew, Lapse, Conversation!End, Conversation!Renew, Conversation!Lapse
<1>6. ASSUME NEW r \in Replicas, Crash(r) PROVE HeldInv'
  BY <1>6 DEF Crash
<1>7. CASE UNCHANGED vars
  BY <1>7 DEF vars
<1> QED BY <1>1, <1>2, <1>3, <1>4, <1>5, <1>6, <1>7 DEF Next, Finished, Listen

\* A run that is over stays over.
LEMMA DoneStays == [Next]_vars => done \subseteq done'
<1> SUFFICES ASSUME [Next]_vars PROVE done \subseteq done'
  OBVIOUS
<1> USE DEF run
<1>1. ASSUME NEW i \in Invs, Join(i) PROVE done \subseteq done'
  BY <1>1 DEF Join, Local, Acquire, Subscribe, Take, Deliver, TimeOut, Pause, Accepts, Offer,
              RequestStop
<1>2. ASSUME NEW i \in Msgs, Loop(i) PROVE done \subseteq done'
  BY <1>2 DEF Loop, Load, Turn, Model, Tools, Check, Write, Rewrite, Finish, NextTurn,
              ReportUnanswered, AfterTools
<1>3. ASSUME NEW i \in Msgs, Unwind(i) PROVE done \subseteq done'
  BY <1>3 DEF Unwind, CloseRun, Unsubscribe, Release, Deregister
<1>4. ASSUME NEW j \in Msgs, NEW d \in mail, HandleDelivery(j, d) PROVE done \subseteq done'
  BY <1>4 DEF HandleDelivery, Accepts, Offer, RequestStop
<1>5. CASE UNCHANGED done
  BY <1>5
<1> QED
  BY <1>1, <1>2, <1>3, <1>4, <1>5
  DEF Next, Finished, Listen, vars, Lose, Watch, Renew, Lapse, Crash, RequestStop

\* What the registries have.
LEMMA RegistryStep == Inv /\ [Next]_vars => RegistryInv'
<1> SUFFICES ASSUME Inv, [Next]_vars PROVE RegistryInv'
  OBVIOUS
<1>0. done \subseteq done'
  BY DoneStays
<1> USE <1>0, AgentRunAssumption
    DEF Inv, TypeOK, RegistryInv, Invs, Working, Unwinding, Goto
<1>1. ASSUME NEW i \in Invs, Join(i) PROVE RegistryInv'
  <2>1. CASE Take(i)
    <3>1. i \in Msgs
      BY <2>1 DEF Take, StepInv, Over
    <3> QED BY <2>1, <3>1 DEF Take, StepInv
  <2>2. CASE ~Take(i)
    <3>1. /\ UNCHANGED runs /\ pc[i] \notin Working \cup Unwinding
          /\ \A j \in Msgs \ {i} : how'[j] = how[j]
          /\ \A j \in Invs \ {i} : pc'[j] = pc[j]
      BY <1>1, <2>2 DEF Join, Local, Acquire, Subscribe, Deliver, TimeOut, Pause
    <3>2. \A r \in Replicas : runs[r] # NoRun => runs[r] \in Msgs /\ runs[r] # i
      BY <3>1
    <3> QED BY <3>1, <3>2
  <2> QED BY <2>1, <2>2
<1>2. ASSUME NEW i \in Msgs, Loop(i) PROVE RegistryInv'
  <2>1. /\ UNCHANGED runs /\ pc'[i] \in Working
        /\ how' = [how EXCEPT ![i] = how'[i]] /\ how'[i] \in {how[i], "failed", "halted", "refused", "answered", "outOfTurns"}
        /\ \A j \in Invs \ {i} : pc'[j] = pc[j]
    BY <1>2 DEF Loop, Load, Turn, Model, Tools, Check, Write, Rewrite, Finish, NextTurn, Leave,
                AfterTools, StepInv
  <2>2. \A r \in Replicas : runs[r] # NoRun => runs[r] \in Invs
    OBVIOUS
  <2> QED BY <2>1, <2>2
<1>3. ASSUME NEW i \in Msgs, Unwind(i) PROVE RegistryInv'
  <2>1. CASE CloseRun(i)
    BY <2>1 DEF CloseRun
  <2>2. CASE Unsubscribe(i)
    BY <2>2 DEF Unsubscribe
  <2>3. CASE Release(i)
    BY <2>3 DEF Release
  <2>4. CASE Deregister(i)
    BY <2>4 DEF Deregister
  <2> QED BY <1>3, <2>1, <2>2, <2>3, <2>4 DEF Unwind
<1>4. ASSUME NEW j \in Msgs, NEW d \in mail, HandleDelivery(j, d) PROVE RegistryInv'
  <2>1. /\ UNCHANGED <<runs, how>>
        /\ UNCHANGED pc \/ /\ d.from \in Invs /\ pc[d.from] = "await"
                           /\ \A k \in Invs \ {d.from} : pc'[k] = pc[k]
    BY <1>4 DEF HandleDelivery, Awaits, Answer
  <2> QED BY <2>1
<1>5. CASE UNCHANGED <<pc, runs, how>>
  BY <1>5
<1>6. ASSUME NEW r \in Replicas, Crash(r) PROVE RegistryInv'
  BY <1>6 DEF Crash
<1> QED
  BY <1>1, <1>2, <1>3, <1>4, <1>5, <1>6
  DEF Next, Finished, Listen, vars, Lose, Watch, Renew, Lapse

\* What a run that has its answer has left.
LEMMA HandledStep == Inv /\ [Next]_vars => HandledInv'
<1> SUFFICES ASSUME Inv, [Next]_vars PROVE HandledInv'
  OBVIOUS
<1> USE AgentRunAssumption DEF Inv, TypeOK, HandledInv, Invs, Unwinding, Goto, run, memory
<1>1. ASSUME NEW i \in Invs, Join(i) PROVE HandledInv'
  <2>1. CASE Local(i)
    BY <2>1 DEF Local, Accepts, Offer, RequestStop
  <2>2. CASE ~Local(i)
    <3>1. /\ pc[i] \in {"acquire", "subscribe", "take", "deliver", "await", "pause"}
          /\ \A j \in Invs \ {i} : pc'[j] = pc[j]
          /\ UNCHANGED <<pending, done, then>>
      BY <1>1, <2>2 DEF Join, Acquire, Subscribe, Take, Deliver, TimeOut, Pause
    <3>2. \/ UNCHANGED how
          \/ i \in Invs /\ how' = [how EXCEPT ![i] = "unreachable"]
      BY <1>1, <2>2 DEF Join, Acquire, Subscribe, Take, Deliver, TimeOut, Pause
    <3> QED BY <3>1, <3>2
  <2> QED BY <2>1, <2>2
<1>2. ASSUME NEW i \in Msgs, Loop(i) PROVE HandledInv'
  <2>1. CASE Load(i)
    BY <2>1 DEF Load
  <2>2. CASE Turn(i)
    BY <2>2 DEF Turn
  <2>3. CASE Model(i)
    BY <2>3 DEF Model, Finish, NextTurn, ReportUnanswered, Leave
  <2>4. CASE Tools(i) \/ Check(i)
    BY <2>4 DEF Tools, Check, AfterTools, NextTurn, ReportUnanswered, Leave
  <2>5. CASE Write(i) \/ Rewrite(i)
    BY <2>5 DEF Write, Rewrite
  <2> QED BY <1>2, <2>1, <2>2, <2>3, <2>4, <2>5 DEF Loop
<1>3. ASSUME NEW i \in Msgs, Unwind(i) PROVE HandledInv'
  BY <1>3 DEF Unwind, CloseRun, Unsubscribe, Release, Deregister, StepInv
<1>4. ASSUME NEW j \in Msgs, NEW d \in mail, HandleDelivery(j, d) PROVE HandledInv'
  BY <1>4 DEF HandleDelivery, Awaits, Answer, Accepts, Offer, RequestStop
<1>5. CASE UNCHANGED <<pc, pending, done, how, then>>
  BY <1>5
<1>6. ASSUME NEW r \in Replicas, Crash(r) PROVE HandledInv'
  BY <1>6 DEF Crash, Over
<1> QED
  BY <1>1, <1>2, <1>3, <1>4, <1>5, <1>6
  DEF Next, Finished, Listen, vars, Lose, Watch, Renew, Lapse, RequestStop

\* The working memory a run carries.
LEMMA KeptStep == Inv /\ [Next]_vars => KeptInv' /\ KeepsTurns
<1> SUFFICES ASSUME Inv, [Next]_vars PROVE KeptInv' /\ KeepsTurns
  OBVIOUS
<1> USE AgentRunAssumption DEF Inv, TypeOK, KeptInv, Looping, Invs, Goto, memory, history
<1>0. UNCHANGED mem => KeepsTurns
  BY DEF KeepsTurns
<1>1. ASSUME NEW i \in Invs, Join(i) PROVE KeptInv' /\ UNCHANGED mem
  <2>1. /\ superseded \subseteq superseded' /\ UNCHANGED <<mem, turns, blind, lacking>>
        /\ pc'[i] \notin Looping /\ \A j \in Invs \ {i} : pc'[j] = pc[j]
    BY <1>1 DEF Join, Local, Acquire, Subscribe, Take, Deliver, TimeOut, Pause, Settled
  <2> QED BY <2>1
<1>2. ASSUME NEW i \in Msgs, Loop(i) PROVE KeptInv' /\ KeepsTurns
  <2>0. UNCHANGED superseded
    BY <1>2 DEF Loop, Load, Turn, Model, Tools, Check, Write, Rewrite
  <2>1. CASE Load(i)
    <3>1. /\ pc[i] = "load" /\ pc'[i] \in {"turn", "closing"}
          /\ \A j \in Invs \ {i} : pc'[j] = pc[j]
          /\ UNCHANGED mem
      BY <2>1 DEF Load
    <3>2. \A j \in Msgs \ {i} : /\ turns'[j] = turns[j]
                                /\ j \in lacking' <=> j \in lacking
                                /\ j \in blind' <=> j \in blind
      BY <2>1 DEF Load, TakeTurns
    <3>3. pc'[i] = "turn" /\ i \notin blind' \cup lacking' => mem \subseteq turns'[i]
      BY <2>1 DEF Load, TakeTurns
    <3> QED BY <1>0, <2>0, <3>1, <3>2, <3>3
  <2>2. CASE Turn(i)
    BY <1>0, <2>2 DEF Turn, TakeTurns
  <2>3. CASE Model(i)
    BY <1>0, <2>3 DEF Model, Finish, NextTurn, Leave
  <2>4. CASE Tools(i) \/ Check(i)
    BY <1>0, <2>4 DEF Tools, Check, AfterTools, NextTurn, Leave
  <2>5. CASE Write(i) \/ Rewrite(i)
    <3>1. /\ pc[i] \in {"write", "rewrite"} /\ \A j \in Invs \ {i} : pc'[j] = pc[j]
          /\ UNCHANGED <<turns, blind>>
          /\ pc'[i] = "rewrite" => i \notin blind
      BY <2>5 DEF Write, Rewrite, StepInv
    <3>2. \/ UNCHANGED <<mem, lacking>>
          \/ /\ mem' = turns[i] /\ i \notin blind
             /\ lacking' = IF i \in superseded THEN lacking \cup (Msgs \ {i}) ELSE lacking
      BY <2>5 DEF Write, Rewrite, Save
    <3>3. i \notin superseded => \A j \in Msgs \ ({i} \cup superseded) : pc[j] \notin Looping
      BY <3>1 DEF HeldInv, Working
    <3>4. CASE UNCHANGED <<mem, lacking>>
      BY <1>0, <2>0, <3>1, <3>4
    <3>5. CASE /\ mem' = turns[i] /\ i \notin blind
               /\ lacking' = IF i \in superseded THEN lacking \cup (Msgs \ {i}) ELSE lacking
      <4>1. KeptInv'
        BY <2>0, <3>1, <3>3, <3>5
      <4>2. KeepsTurns
        BY <3>1, <3>5 DEF KeepsTurns
      <4> QED BY <4>1, <4>2
    <3> QED BY <3>2, <3>4, <3>5
  <2> QED BY <1>2, <2>1, <2>2, <2>3, <2>4, <2>5 DEF Loop
<1>3. ASSUME NEW i \in Msgs, Unwind(i) PROVE KeptInv' /\ UNCHANGED mem
  BY <1>3 DEF Unwind, CloseRun, Unsubscribe, Release, Deregister
<1>4. ASSUME NEW j \in Msgs, NEW d \in mail, HandleDelivery(j, d) PROVE KeptInv' /\ UNCHANGED mem
  BY <1>4 DEF HandleDelivery, Answer, Settled
<1>5. CASE UNCHANGED <<pc, memory, history>>
  BY <1>0, <1>5
<1>6. ASSUME NEW r \in Replicas, Crash(r) PROVE KeptInv' /\ UNCHANGED mem
  BY <1>6 DEF Crash
<1> QED
  BY <1>0, <1>1, <1>2, <1>3, <1>4, <1>5, <1>6
  DEF Next, Finished, Listen, vars, Lose, Watch, Renew, Lapse

\* The one place a message is in.
LEMMA OnceStep == Inv /\ [Next]_vars => OnceInv'
<1> SUFFICES ASSUME Inv, [Next]_vars PROVE OnceInv'
  OBVIOUS
<1> USE AgentRunAssumption
    DEF Inv, TypeOK, OnceInv, Awaits, Joining, Invs, Goto, queue, caller, run, history
<1>1. ASSUME NEW i \in Invs, Join(i) PROVE OnceInv'
  <2>1. CASE Local(i)
    <3>1. /\ pc[i] = "local" /\ \A k \in Invs \ {i} : pc'[k] = pc[k]
          /\ UNCHANGED <<queue, caller, taken>>
      BY <2>1 DEF Local
    <3>2. \/ UNCHANGED pending /\ pc'[i] \in {"acquire", "deliver", "stopSent"}
          \/ \E j \in Msgs : /\ i \in Msgs /\ pc'[i] = "handed"
                             /\ pending' = [pending EXCEPT ![j] = @ \cup {i}]
      BY <2>1 DEF Local, Accepts, Offer, RequestStop, Settled
    <3> QED BY <3>1, <3>2
  <2>2. CASE Acquire(i)
    <3>1. /\ pc[i] = "acquire" /\ pc'[i] \in {"subscribe", "deliver", "failed"}
          /\ \A j \in Invs \ {i} : pc'[j] = pc[j]
          /\ UNCHANGED <<queue, caller, pending, taken>>
      BY <2>2 DEF Acquire
    <3> QED BY <3>1
  <2>3. CASE Subscribe(i) \/ Take(i)
    BY <2>3 DEF Subscribe, Take
  <2>4. CASE Deliver(i)
    BY <2>4 DEF Deliver
  <2>5. CASE TimeOut(i)
    BY <2>5 DEF TimeOut
  <2>6. CASE Pause(i)
    <3>1. /\ pc[i] = "pause" /\ pc'[i] \in {"handed", "stopSent", "failed", "acquire"}
          /\ \A j \in Invs \ {i} : pc'[j] = pc[j] /\ attempt'[j] = attempt[j]
          /\ UNCHANGED <<queue, gaveUp, pending, taken>>
      BY <2>6 DEF Pause, Settled
    <3> QED BY <3>1
  <2> QED BY <1>1, <2>1, <2>2, <2>3, <2>4, <2>5, <2>6 DEF Join
<1>2. ASSUME NEW i \in Msgs, Loop(i) PROVE OnceInv'
  <2>1. CASE Load(i)
    <3>1. \/ taken' = [m \in Msgs |-> IF m \in {i} /\ taken[m] < 2 THEN taken[m] + 1 ELSE taken[m]]
          \/ UNCHANGED taken
      BY <2>1 DEF Load, TakeTurns
    <3>2. /\ UNCHANGED <<mail, attempt, gaveUp, pending>> /\ pc[i] = "load"
          /\ pc' \in {[pc EXCEPT ![i] = l] : l \in {"turn", "closing"}}
      BY <2>1 DEF Load
    <3> QED BY <3>1, <3>2
  <2>2. CASE Turn(i)
    <3>1. /\ taken' = [m \in Msgs |-> IF m \in pending[i] /\ taken[m] < 2 THEN taken[m] + 1 ELSE taken[m]]
          /\ pending' = [pending EXCEPT ![i] = {}]
          /\ pc[i] = "turn" /\ pc' = [pc EXCEPT ![i] = "model"]
          /\ UNCHANGED <<mail, attempt, gaveUp>>
      BY <2>2 DEF Turn, TakeTurns
    <3> QED BY <3>1
  <2>3. ASSUME UNCHANGED <<queue, caller, taken>>,
               pc[i] \in Working \ {"take", "load"}, pc'[i] \in Working \ {"take", "load"},
               \A j \in Invs \ {i} : pc'[j] = pc[j],
               UNCHANGED pending \/ pending' = [pending EXCEPT ![i] = {}]
        PROVE  OnceInv'
    BY <2>3 DEF Working
  <2>4. CASE Model(i)
    <3>1. /\ pc[i] = "model" /\ pc'[i] \in {"write", "turn", "tools", "closing"}
          /\ \A j \in Invs \ {i} : pc'[j] = pc[j]
          /\ UNCHANGED <<queue, caller, taken>>
          /\ UNCHANGED pending \/ pending' = [pending EXCEPT ![i] = {}]
      BY <2>4 DEF Model, Finish, NextTurn, ReportUnanswered, Leave
    <3> QED BY <2>3, <3>1 DEF Working
  <2>5. CASE Tools(i) \/ Check(i)
    <3>1. /\ pc[i] \in {"tools", "check"} /\ pc'[i] \in {"write", "turn"}
          /\ \A j \in Invs \ {i} : pc'[j] = pc[j]
          /\ UNCHANGED <<queue, caller, taken>>
          /\ UNCHANGED pending \/ pending' = [pending EXCEPT ![i] = {}]
      BY <2>5 DEF Tools, Check, AfterTools, NextTurn, ReportUnanswered, Leave
    <3> QED BY <2>3, <3>1 DEF Working
  <2>6. CASE Write(i) \/ Rewrite(i)
    <3>1. /\ pc[i] \in {"write", "rewrite"} /\ pc'[i] \in {"check", "closing", "rewrite"}
          /\ \A j \in Invs \ {i} : pc'[j] = pc[j]
          /\ UNCHANGED <<queue, caller, taken, pending>>
      BY <2>6 DEF Write, Rewrite, StepInv
    <3> QED BY <2>3, <3>1 DEF Working
  <2> QED BY <1>2, <2>1, <2>2, <2>4, <2>5, <2>6 DEF Loop
<1>3. ASSUME NEW i \in Msgs, Unwind(i) PROVE OnceInv'
  <2>1. /\ mail' \subseteq mail /\ UNCHANGED <<caller, pending, taken>>
        /\ pc[i] \in {"closing", "unsubscribe", "release", "deregister"}
        /\ pc'[i] \in {"unsubscribe", "release", "deregister", "failed", "ended"}
        /\ \A j \in Invs \ {i} : pc'[j] = pc[j]
    BY <1>3 DEF Unwind, CloseRun, Unsubscribe, Release, Deregister
  <2> QED BY <2>1
<1>4. ASSUME NEW j \in Msgs, NEW d \in mail, HandleDelivery(j, d) PROVE OnceInv'
  <2>1. CASE d.from \in Stops
    <3>1. /\ mail' \subseteq mail /\ UNCHANGED <<caller, pending, taken>>
          /\ \A m \in Msgs : pc'[m] = pc[m]
      BY <1>4, <2>1 DEF HandleDelivery, Accepts, RequestStop, Answer
    <3> QED BY <3>1
  <2>2. CASE d.from \in Msgs
    <3> DEFINE m == d.from
    <3>1. /\ mail' = mail \ {d} /\ UNCHANGED <<caller, taken>>
          /\ \/ j \notin done /\ pending' = [pending EXCEPT ![j] = @ \cup {m}]
             \/ j \in done /\ UNCHANGED pending
          /\ \/ UNCHANGED pc
             \/ /\ pc[m] = "await"
                /\ pc' = [pc EXCEPT ![m] = IF j \notin done THEN "handed" ELSE "pause"]
      BY <1>4, <2>2 DEF HandleDelivery, Accepts, Offer, Answer, Settled
    <3>2. ASSUME m \notin gaveUp
          PROVE  /\ taken[m] = 0 /\ \A k \in Msgs : m \notin pending[k]
                 /\ pc[m] \in {"crashed", "await"}
                 /\ \A e \in mail' : e.from # m
      BY <2>2, <3>1, <3>2
    <3> HIDE DEF m
    <3>3. m \in Msgs
      BY <2>2 DEF m
    <3> QED BY <3>1, <3>2, <3>3
  <2> QED BY <2>1, <2>2
<1>5. CASE UNCHANGED <<pc, queue, caller, pending, taken>>
  BY <1>5
<1>6. ASSUME NEW r \in Replicas, Crash(r) PROVE OnceInv'
  <2>1. /\ mail' \subseteq mail /\ UNCHANGED <<caller, pending, taken>>
        /\ \A m \in Msgs : pc'[m] \in {pc[m], "crashed"}
    BY <1>6 DEF Crash
  <2> QED BY <2>1
<1> QED
  BY <1>1, <1>2, <1>3, <1>4, <1>5, <1>6
  DEF Next, Finished, Listen, vars, Lose, Watch, Renew, Lapse, RequestStop

----------------------------------------------------------------------------
\* The inductive invariant holds of every state of a conversation.
THEOREM InvariantHolds == Spec => []Inv
<1>1. Inv /\ [Next]_vars => Inv'
  BY TypeStep, StepStep, HeldStep, RegistryStep, HandledStep, OnceStep, KeptStep DEF Inv
<1> QED BY <1>1, InitInv, PTL DEF Spec

\* The claim, the registries, the deliveries and the runs have their types.
THEOREM TypeCorrect == Spec => []TypeOK
  BY InvariantHolds, PTL DEF Inv

\* joinOrClaim: a run a replica would still give a message to holds the claim, or lost it to
\* a run that found it lapsed.
THEOREM LiveRunsHoldClaim == Spec => []LiveRunHoldsClaim
<1>1. Inv => LiveRunHoldsClaim
  BY DEF Inv, TypeOK, HeldInv, RegistryInv, LiveRunHoldsClaim
<1> QED BY <1>1, InvariantHolds, PTL

\* finish and reportUnanswered: a run that ends with its answer, or out of turns, leaves no
\* message it accepted.
THEOREM AcceptedAreHandled == Spec => []AcceptedIsHandled
<1>1. Inv => AcceptedIsHandled
  BY DEF Inv, HandledInv, AcceptedIsHandled
<1> QED BY <1>1, InvariantHolds, PTL

\* deliver: a message whose invocation waited for its answer is in the conversation once.
THEOREM TakenAtMostOnce == Spec => []TakenOnce
<1>1. Inv => TakenOnce
  BY DEF Inv, TypeOK, OnceInv, TakenOnce
<1> QED BY <1>1, InvariantHolds, PTL

\* writeWorking: the save of a run that holds its claim drops no stored turn, unless what the
\* run had read did not decode or a superseded run saved since.
THEOREM SavesKeepTurns == Spec => TurnsKept
<1>1. Inv /\ [Next]_vars => [KeepsTurns]_vars
  BY KeptStep
<1> QED BY <1>1, InvariantHolds, PTL DEF Spec, TurnsKept, KeepsTurns
=============================================================================
