------------------------------ MODULE AgentRun ------------------------------
(***************************************************************************)
(* The runs of an ai-agent block on one conversation                        *)
(* (runtime/blocks/ai/agent.go, agentsignals.go, agentclaim.go and the      *)
(* working memory of agentstore.go), over the replicas of a deployment.     *)
(*                                                                          *)
(* Each message that reaches the block is an invocation, on a goroutine of  *)
(* the replica it lands on.  It hands its text to the run in flight, found  *)
(* in the replica's registry or through the conversation's subject, or      *)
(* claims the conversation and is the run itself: a run has the name of the *)
(* invocation that started it.  The claim is what module Claim promises of  *)
(* core.Leases; K8sLease shows what implements it.                          *)
(*                                                                          *)
(* A transcript is the set of the messages it has as user turns.  What the  *)
(* model and the tools answer is a choice; the tool gates and the           *)
(* compaction of a long transcript are left out.                            *)
(***************************************************************************)
EXTENDS Naturals, FiniteSets

CONSTANTS
    Msgs,           \* the invocations that carry a text
    Stops,          \* the invocations whose stopWhen holds
    NoRun,
    Replicas,
    Home,           \* Home[i]: the replica invocation i lands on
    Attempts,       \* claimAttempts
    MaxIterations,  \* the setting maxIterations
    MaxFaults       \* how many times something goes wrong: see Fault

Invs == Msgs \cup Stops

ASSUME AgentRunAssumption ==
    /\ Msgs \cap Stops = {} /\ NoRun \notin Invs
    /\ Home \in [Invs -> Replicas]
    /\ {Attempts, MaxIterations} \subseteq Nat \ {0}
    /\ MaxFaults \in Nat

VARIABLES
    holder, lapsed, handle,     \* the claim on the conversation: see module Claim
    runs,       \* liveRuns: the run each replica's registry has for the conversation
    subs,       \* the runs subscribed to the conversation's subject
    mail,       \* the deliveries nobody has handled: from whom, which attempt, to which run
    pc,         \* where each invocation is
    attempt,    \* the attempts of its loop in offerOrClaim
    pending,    \* agentRun.pending
    stopped,    \* agentRun.stopped; the run's context is cancelled with it
    done,       \* agentRun.done
    iter,       \* the turns a run has begun
    turns,      \* the transcript a run carries
    current,    \* the runs that know the version of the stored memory (memorySession.version)
    blind,      \* the runs that could not read the working memory
    mem,        \* the turns of the stored working memory
    then,       \* where a run goes after a write of it
    how,        \* how a run ended
    taken,      \* how many times each message became a user turn (two is enough)
    gaveUp,     \* the invocations that stopped waiting for an answer to a delivery
    superseded, \* the runs whose lapsed claim another run took over
    lacking,    \* the runs without what is stored: it did not decode, or a superseded run
                \* saved after they had read it
    faults

claim == <<holder, lapsed, handle>>
queue == <<subs, mail>>
caller == <<attempt, gaveUp>>
run == <<pending, stopped, done>>
memory == <<turns, current, blind, mem, then>>
history == <<taken, superseded, lacking>>
vars == <<claim, runs, queue, pc, caller, run, iter, memory, how, history, faults>>

Conversation == INSTANCE Claim WITH Handles <- Invs, NoHandle <- NoRun

\* What an invocation can come to.
Over == {"handed", "failed", "stopSent", "ended", "crashed"}
\* A run from its claim to the close of its acceptance, and on to the end of it.
Working == {"take", "load", "turn", "model", "tools", "check", "write", "rewrite", "closing"}
Unwinding == {"unsubscribe", "release", "deregister"}

Init ==
    /\ Conversation!Init
    /\ runs = [r \in Replicas |-> NoRun]
    /\ subs = {} /\ mail = {}
    /\ pc = [i \in Invs |-> "local"]
    /\ attempt = [i \in Invs |-> 1] /\ gaveUp = {}
    /\ pending = [i \in Msgs |-> {}] /\ stopped = {} /\ done = {}
    /\ iter = [i \in Msgs |-> 0]
    /\ turns = [i \in Msgs |-> {}] /\ current = {} /\ blind = {}
    /\ mem = {}
    /\ then = [i \in Msgs |-> "none"]
    /\ how = [i \in Msgs |-> "none"]
    /\ taken = [m \in Msgs |-> 0] /\ superseded = {} /\ lacking = {}
    /\ faults = 0

Goto(i, l) == pc' = [pc EXCEPT ![i] = l]

\* A call that fails, a reply or a renewal that is late, a run that grows too old, a replica
\* that dies.
Fault == faults < MaxFaults /\ faults' = faults + 1
NoFault == UNCHANGED faults

----------------------------------------------------------------------------
(* agentRun, as everything outside it sees it *)

\* offer: the run takes responsibility for the text of m unless it is over.
Offer(j, m) ==
    /\ j \notin done
    /\ pending' = [pending EXCEPT ![j] = @ \cup {m}]
    /\ UNCHANGED <<stopped, done>>

\* requestStop: the run is to end, unless it is over.
RequestStop(j) ==
    /\ j \notin done
    /\ stopped' = stopped \cup {j}
    /\ UNCHANGED <<pending, done>>

\* What the registry and the listener ask of a run for invocation i.
Accepts(j, i) == IF i \in Msgs THEN Offer(j, i) ELSE RequestStop(j)

----------------------------------------------------------------------------
(* joinOrClaim *)

\* An invocation with nothing left to do: its message is in hand, or its stop was sent.
Settled(i) == IF i \in Msgs THEN "handed" ELSE "stopSent"

\* offerLocal and stopLocal: the registry first, in one critical section.
Local(i) ==
    LET j == runs[Home[i]] IN
    /\ pc[i] = "local"
    /\ \/ /\ j # NoRun /\ Accepts(j, i)
          /\ Goto(i, Settled(i))
       \/ /\ j = NoRun \/ j \in done
          /\ Goto(i, IF i \in Msgs THEN "acquire" ELSE "deliver")
          /\ UNCHANGED run
    /\ UNCHANGED <<claim, runs, queue, caller, iter, memory, how, history, faults>>

\* claimAcross: the lease.  It is granted, refused, or cannot be decided.
Acquire(i) ==
    /\ pc[i] = "acquire"
    /\ \/ /\ Conversation!Grant(i)
          /\ Goto(i, "subscribe")
          /\ superseded' = superseded \cup ({holder} \ {NoRun}) /\ NoFault
       \/ /\ holder # NoRun /\ ~lapsed
          /\ Goto(i, "deliver") /\ UNCHANGED <<claim, superseded>> /\ NoFault
       \/ Goto(i, "failed") /\ UNCHANGED <<claim, superseded>> /\ Fault
    /\ UNCHANGED <<runs, queue, caller, run, iter, memory, how, taken, lacking>>

\* claimAcross: the subscription, or the lease is closed again.
Subscribe(i) ==
    /\ pc[i] = "subscribe"
    /\ \/ subs' = subs \cup {i} /\ Goto(i, "take") /\ UNCHANGED how /\ NoFault
       \/ /\ how' = [how EXCEPT ![i] = "unreachable"]
          /\ Goto(i, "release") /\ UNCHANGED subs /\ Fault
    /\ UNCHANGED <<claim, runs, mail, caller, run, iter, memory, history>>

\* take: the registry entry, whatever was there.
Take(i) ==
    /\ pc[i] = "take"
    /\ runs' = [runs EXCEPT ![Home[i]] = i]
    /\ Goto(i, "load")
    /\ UNCHANGED <<claim, queue, caller, run, iter, memory, how, history, faults>>

\* deliver: Request puts the text on the subject.  NATS gives it to one of the subscribers,
\* and says so when there is none.
Deliver(i) ==
    /\ pc[i] = "deliver"
    /\ \/ subs = {} /\ Goto(i, "pause") /\ UNCHANGED mail
       \/ \E j \in subs :
             /\ mail' = mail \cup {[from |-> i, n |-> attempt[i], to |-> j]}
             /\ Goto(i, "await")
    /\ UNCHANGED <<claim, runs, subs, caller, run, iter, memory, how, history, faults>>

Awaits(i, d) == pc[i] = "await" /\ d.from = i /\ d.n = attempt[i]

\* Mutant of Answer: a reply that says the message was taken is not understood.
AnswerUnread(i, accepted) == Goto(i, "pause")

\* acceptedBy: the message was taken, or the caller goes on.
Answer(i, accepted) == Goto(i, IF accepted THEN Settled(i) ELSE "pause")

\* handleDelivery, on the listener of a subscribed run; the reply may be lost, or late.
HandleDelivery(j, d) ==
    /\ d.to = j
    /\ mail' = mail \ {d}
    /\ \/ Accepts(j, d.from)
       \/ j \in done /\ UNCHANGED run
    /\ \/ Awaits(d.from, d) /\ Answer(d.from, j \notin done) /\ NoFault
       \/ Awaits(d.from, d) /\ UNCHANGED pc /\ Fault
       \/ ~Awaits(d.from, d) /\ UNCHANGED pc /\ NoFault
    /\ UNCHANGED <<claim, runs, subs, caller, iter, memory, how, history>>

\* deliveryTimeout passes before a reply that could come, or because none can.
TimeOut(i) ==
    /\ pc[i] = "await"
    /\ IF \E d \in mail : Awaits(i, d) THEN Fault ELSE NoFault
    /\ gaveUp' = gaveUp \cup {i}
    /\ Goto(i, "pause")
    /\ UNCHANGED <<claim, runs, queue, attempt, run, iter, memory, how, history>>

\* Mutant of Pause: one attempt too many.
PauseOnceMore(i) ==
    /\ pc[i] = "pause"
    /\ IF i \in Stops \/ attempt[i] > Attempts
       THEN Goto(i, IF i \in Stops THEN Settled(i) ELSE "failed") /\ UNCHANGED attempt
       ELSE Goto(i, "acquire") /\ attempt' = [attempt EXCEPT ![i] = @ + 1]
    /\ UNCHANGED <<claim, runs, queue, gaveUp, run, iter, memory, how, history, faults>>

\* pause, and the next attempt; after the last one the message fails.
Pause(i) ==
    /\ pc[i] = "pause"
    /\ IF i \in Stops \/ attempt[i] = Attempts
       THEN Goto(i, IF i \in Stops THEN Settled(i) ELSE "failed") /\ UNCHANGED attempt
       ELSE Goto(i, "acquire") /\ attempt' = [attempt EXCEPT ![i] = @ + 1]
    /\ UNCHANGED <<claim, runs, queue, gaveUp, run, iter, memory, how, history, faults>>

----------------------------------------------------------------------------
(* Process: the turn loop *)

\* The messages ms become user turns of run i.
TakeTurns(i, base, ms) ==
    /\ turns' = [turns EXCEPT ![i] = base \cup ms]
    /\ taken' = [m \in Msgs |-> IF m \in ms /\ taken[m] < 2 THEN taken[m] + 1 ELSE taken[m]]

\* initConversation: the working memory is read; is there and does not decode, which counts
\* as none; cannot be read (the run goes on blind); or the run fails.
Load(i) ==
    /\ pc[i] = "load"
    /\ \/ /\ TakeTurns(i, mem, {i}) /\ lacking' = lacking \ {i}
          /\ current' = current \cup {i}
          /\ Goto(i, "turn") /\ UNCHANGED <<blind, how>> /\ NoFault
       \/ /\ mem # {}
          /\ TakeTurns(i, {}, {i}) /\ lacking' = lacking \cup {i}
          /\ current' = current \cup {i}
          /\ Goto(i, "turn") /\ UNCHANGED <<blind, how>> /\ Fault
       \/ /\ TakeTurns(i, {}, {i}) /\ UNCHANGED lacking
          /\ blind' = blind \cup {i}
          /\ Goto(i, "turn") /\ UNCHANGED <<current, how>> /\ Fault
       \/ /\ how' = [how EXCEPT ![i] = "failed"]
          /\ Goto(i, "closing") /\ UNCHANGED <<turns, taken, lacking, current, blind>> /\ Fault
    /\ UNCHANGED <<claim, runs, queue, caller, run, iter, mem, then, superseded>>

\* The top of an iteration: injectPending, and the model is called.
Turn(i) ==
    /\ pc[i] = "turn"
    /\ iter' = [iter EXCEPT ![i] = @ + 1]
    /\ TakeTurns(i, turns[i], pending[i])
    /\ pending' = [pending EXCEPT ![i] = {}]
    /\ Goto(i, "model")
    /\ UNCHANGED <<claim, runs, queue, caller, stopped, done, current, blind, mem, then, how,
                   superseded, lacking, faults>>

\* The end of run i is settled: its memory is written on the way out.
Leave(i, why) ==
    /\ how' = [how EXCEPT ![i] = why]
    /\ then' = [then EXCEPT ![i] = "closing"]
    /\ Goto(i, "write")

\* reportUnanswered: the run takes nothing more, and what it has is reported.
ReportUnanswered(i) ==
    /\ done' = done \cup {i}
    /\ pending' = [pending EXCEPT ![i] = {}]
    /\ UNCHANGED stopped

\* The next iteration, or outOfTurns.
NextTurn(i) ==
    \/ /\ iter[i] < MaxIterations
       /\ Goto(i, "turn") /\ UNCHANGED <<run, how, then>>
    \/ /\ iter[i] = MaxIterations
       /\ ReportUnanswered(i) /\ Leave(i, "outOfTurns")

\* Mutant of Finish: the answer is the end, whatever arrived meanwhile.
FinishAnyway(i) == done' = done \cup {i} /\ UNCHANGED <<pending, stopped>> /\ Leave(i, "answered")

\* tryFinish: done, unless a message arrived while the answer was produced.
Finish(i) ==
    \/ /\ pending[i] = {}
       /\ done' = done \cup {i} /\ UNCHANGED <<pending, stopped>> /\ Leave(i, "answered")
    \/ pending[i] # {} /\ NextTurn(i)

\* callModel comes back with an error (callFailed), a refusal, an answer or tool calls; a
\* stop may find the answer on its way.
Model(i) ==
    /\ pc[i] = "model"
    /\ \/ Leave(i, "halted") /\ UNCHANGED run /\ NoFault   \* by a stop, or by the events path
       \/ /\ i \notin stopped                            \* the call fails: nothing is saved
          /\ how' = [how EXCEPT ![i] = "failed"]
          /\ Goto(i, "closing") /\ UNCHANGED <<run, then>> /\ Fault
       \/ Leave(i, "refused") /\ UNCHANGED run /\ NoFault
       \/ Finish(i) /\ NoFault
       \/ Goto(i, "tools") /\ UNCHANGED <<run, how, then>> /\ NoFault
    /\ UNCHANGED <<claim, runs, queue, caller, iter, turns, current, blind, mem, history>>

\* The end of takeToolTurn: a stop request or a branch that stopped halts the run.
AfterTools(i) ==
    \/ Leave(i, "halted") /\ UNCHANGED run
    \/ i \notin stopped /\ NextTurn(i)

\* runTools, and offerCheckpoint when a write is due.
Tools(i) ==
    /\ pc[i] = "tools"
    /\ \/ AfterTools(i)
       \/ Goto(i, "write") /\ then' = [then EXCEPT ![i] = "check"] /\ UNCHANGED <<run, how>>
    /\ UNCHANGED <<claim, runs, queue, caller, iter, turns, current, blind, mem, history, faults>>

Check(i) ==
    /\ pc[i] = "check" /\ AfterTools(i)
    /\ UNCHANGED <<claim, runs, queue, caller, iter, turns, current, blind, mem, history, faults>>

----------------------------------------------------------------------------
(* writeWorking *)

\* A save that lands, which the run may not hear of.
Save(i) ==
    /\ mem' = turns[i]
    /\ lacking' = IF i \in superseded THEN lacking \cup (Msgs \ {i}) ELSE lacking
    /\ \/ current' = {i} /\ NoFault
       \/ current' = {} /\ Fault

\* Mutant of Write: a run that could not read the working memory writes it all the same.
WriteBlindly(i) ==
    /\ pc[i] = "write"
    /\ Save(i) /\ Goto(i, then[i])
    /\ UNCHANGED <<claim, runs, queue, caller, run, iter, turns, blind, then, how, taken, superseded>>

\* SaveWorking at the version the run knows.  A blind run does not write, a failure is only
\* logged, and on a conflict the present version is read for another attempt.
Write(i) ==
    /\ pc[i] = "write"
    /\ \/ i \notin blind /\ i \in current /\ Save(i) /\ Goto(i, then[i])
       \/ /\ i \notin blind /\ i \notin current
          /\ current' = current \cup {i}
          /\ Goto(i, "rewrite") /\ UNCHANGED <<mem, lacking>> /\ NoFault
       \/ /\ IF i \in blind THEN NoFault ELSE Fault
          /\ Goto(i, then[i]) /\ UNCHANGED <<mem, current, lacking>>
    /\ UNCHANGED <<claim, runs, queue, caller, run, iter, turns, blind, then, how, taken, superseded>>

\* The second attempt is the last; the session's version changes only with a save.
Rewrite(i) ==
    /\ pc[i] = "rewrite"
    /\ \/ i \in current /\ Save(i)
       \/ /\ IF i \in current THEN Fault ELSE NoFault
          /\ current' = current \ {i} /\ UNCHANGED <<mem, lacking>>
    /\ Goto(i, then[i])
    /\ UNCHANGED <<claim, runs, queue, caller, run, iter, turns, blind, then, how, taken, superseded>>

----------------------------------------------------------------------------
(* The deferred calls of Process, in their order *)

\* Mutant of CloseRun: the run is not closed on its way out.
LeaveOpen(i) ==
    /\ pc[i] = "closing"
    /\ Goto(i, "unsubscribe")
    /\ UNCHANGED <<claim, runs, queue, caller, run, iter, memory, how, history, faults>>

\* claim.run.close()
CloseRun(i) ==
    /\ pc[i] = "closing"
    /\ done' = done \cup {i}
    /\ Goto(i, "unsubscribe")
    /\ UNCHANGED <<claim, runs, queue, caller, pending, stopped, iter, memory, how, history,
                   faults>>

\* claim.held.close(): the subscription, with what NATS had for it.
Unsubscribe(i) ==
    /\ pc[i] = "unsubscribe"
    /\ subs' = subs \ {i}
    /\ mail' = {d \in mail : d.to # i}
    /\ Goto(i, "release")
    /\ UNCHANGED <<claim, runs, caller, run, iter, memory, how, history, faults>>

\* claim.held.close(): the lease.  Done is closed and the name given back, unless it is gone
\* already, somebody took it over, or the request fails.  A run that could not subscribe was
\* never registered: its message fails.
Release(i) ==
    /\ pc[i] = "release"
    /\ handle' = [handle EXCEPT ![i] = "ended"]
    /\ \/ handle[i] = "held" /\ holder = i /\ holder' = NoRun /\ lapsed' = FALSE /\ NoFault
       \/ handle[i] = "held" /\ holder = i /\ UNCHANGED <<holder, lapsed>> /\ Fault
       \/ (handle[i] = "ended" \/ holder # i) /\ UNCHANGED <<holder, lapsed>> /\ NoFault
    /\ Goto(i, IF how[i] = "unreachable" THEN "failed" ELSE "deregister")
    /\ UNCHANGED <<runs, queue, caller, run, iter, memory, how, history>>

\* liveRuns.release: the entry goes, if it is still this run's, and the run's own state with it.
Deregister(i) ==
    /\ pc[i] = "deregister"
    /\ runs' = [runs EXCEPT ![Home[i]] = IF @ = i THEN NoRun ELSE @]
    /\ Goto(i, "ended")
    /\ iter' = [iter EXCEPT ![i] = 0]
    /\ turns' = [turns EXCEPT ![i] = {}]
    /\ then' = [then EXCEPT ![i] = "none"]
    /\ current' = current \ {i} /\ blind' = blind \ {i} /\ stopped' = stopped \ {i}
    /\ UNCHANGED <<claim, queue, caller, pending, done, mem, how, history, faults>>

----------------------------------------------------------------------------
(* What happens to a run from outside its goroutine *)

\* The renewals of the claim land, are late, or find that the claim is gone.
Renew ==
    /\ lapsed /\ holder # NoRun /\ handle[holder] = "held"
    /\ Conversation!Renew(holder)
    /\ UNCHANGED <<runs, queue, pc, caller, run, iter, memory, how, history, faults>>

Lapse ==
    /\ Conversation!Lapse
    /\ IF handle[holder] = "held" THEN Fault ELSE NoFault
    /\ UNCHANGED <<runs, queue, pc, caller, run, iter, memory, how, history>>

Lose(i) ==
    /\ handle[i] = "held" /\ Conversation!End({i})
    /\ IF holder = i THEN Fault ELSE NoFault
    /\ UNCHANGED <<runs, queue, pc, caller, run, iter, memory, how, history>>

\* watchClaim stops a run whose claim is lost, boundRunAge one that is too old.
Watch(i) ==
    /\ pc[i] \in Working \ {"take"} /\ i \notin stopped
    /\ RequestStop(i)
    /\ IF handle[i] = "ended" THEN NoFault ELSE Fault
    /\ UNCHANGED <<claim, runs, queue, pc, caller, iter, memory, how, history>>

\* Replica r dies.
Crash(r) ==
    LET here == {i \in Invs : Home[i] = r /\ pc[i] \notin Over \cup {"local"}} IN
    /\ Fault /\ here # {}
    /\ pc' = [i \in Invs |-> IF i \in here THEN "crashed" ELSE pc[i]]
    /\ runs' = [runs EXCEPT ![r] = NoRun]
    /\ subs' = subs \ here
    /\ mail' = {d \in mail : d.to \notin here}
    /\ handle' = [i \in Invs |-> IF i \in here /\ handle[i] = "held" THEN "ended" ELSE handle[i]]
    /\ UNCHANGED <<holder, lapsed, caller, run, iter, memory, how, history>>

----------------------------------------------------------------------------

Join(i) == Local(i) \/ Acquire(i) \/ Subscribe(i) \/ Take(i) \/ Deliver(i) \/ TimeOut(i) \/ Pause(i)
Loop(i) == Load(i) \/ Turn(i) \/ Model(i) \/ Tools(i) \/ Check(i) \/ Write(i) \/ Rewrite(i)
Unwind(i) == CloseRun(i) \/ Unsubscribe(i) \/ Release(i) \/ Deregister(i)

Finished == (\A i \in Invs : pc[i] \in Over) /\ UNCHANGED vars

Listen(j) == \E d \in mail : HandleDelivery(j, d)

Next ==
    \/ \E i \in Invs : Join(i)
    \/ \E i \in Msgs : Loop(i) \/ Unwind(i) \/ Listen(i) \/ Lose(i) \/ Watch(i)
    \/ Renew \/ Lapse
    \/ \E r \in Replicas : Crash(r)
    \/ Finished

Spec == Init /\ [][Next]_vars

----------------------------------------------------------------------------
(* Properties *)

TypeOK ==
    /\ holder \in Invs \cup {NoRun} /\ lapsed \in BOOLEAN
    /\ handle \in [Invs -> {"none", "held", "ended"}]
    /\ runs \in [Replicas -> Msgs \cup {NoRun}]
    /\ subs \subseteq Msgs
    /\ mail \subseteq [from : Invs, n : 1..Attempts, to : Msgs]
    /\ pc \in [Invs -> {"local", "acquire", "subscribe", "deliver", "await", "pause"}
                       \cup Working \cup Unwinding \cup Over]
    /\ attempt \in [Invs -> 1..Attempts]
    /\ gaveUp \subseteq Invs
    /\ pending \in [Msgs -> SUBSET Msgs] /\ stopped \subseteq Msgs /\ done \subseteq Msgs
    /\ iter \in [Msgs -> 0..MaxIterations]
    /\ turns \in [Msgs -> SUBSET Msgs] /\ mem \subseteq Msgs
    /\ current \subseteq Msgs /\ blind \subseteq Msgs
    /\ then \in [Msgs -> {"none", "check", "closing"}]
    /\ how \in [Msgs -> {"none", "answered", "refused", "halted", "failed", "outOfTurns",
                         "unreachable"}]
    /\ taken \in [Msgs -> 0..2] /\ superseded \subseteq Invs
    /\ lacking \subseteq Msgs /\ faults \in 0..MaxFaults

\* finish and reportUnanswered: a run that comes to its answer or to the end of its turns
\* has taken or reported every message it accepted, however late it arrived.  A run that
\* is stopped, refused or fails may leave some.
AcceptedIsHandled ==
    \A j \in Msgs : pc[j] = "ended" /\ how[j] \in {"answered", "outOfTurns"} => pending[j] = {}

\* claimAcross and the order of the deferred calls: a run that a replica's registry would
\* still give a message to holds the claim, or lost it to a run that found it lapsed.
LiveRunHoldsClaim ==
    \A r \in Replicas :
        runs[r] # NoRun /\ runs[r] \notin done => holder = runs[r] \/ runs[r] \in superseded

\* deliver and acceptedBy: a message is in the conversation twice only when its invocation
\* gave up waiting for an answer that was on its way.
TakenOnce == \A m \in Msgs : taken[m] > 1 => m \in gaveUp

\* persistMemory before the claim is given back, and blind in writeWorking: the save of a run
\* drops a turn that was stored only when the run was superseded, when a superseded run saved
\* after it had read, or when what it read did not decode.  The runs that come after a
\* takeover are bound by it like those before.
TurnsKept ==
    [][\A i \in Msgs : /\ pc[i] \in {"write", "rewrite"} /\ pc'[i] # pc[i]
                       /\ i \notin superseded \cup lacking
                       => mem \subseteq mem']_vars
============================================================================
