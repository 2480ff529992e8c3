------------------------------ MODULE ForkPool ------------------------------
(***************************************************************************)
(* The fork block (runtime/blocks/controlflow/composites.go) on the flow's  *)
(* shared pool (core/internal/pool/pool.go).  A fork submits one task per   *)
(* branch to the pool and waits for all of them on its own goroutine.  A    *)
(* branch may hold a fork in turn, and then a worker of the pool waits for  *)
(* tasks of the pool.                                                       *)
(*                                                                          *)
(* A chain is named by its path: <<m>> is the process chain of message m,   *)
(* <<m, i>> the i-th branch of its fork, <<m, i, j>> the j-th branch of the *)
(* fork in that branch.                                                     *)
(***************************************************************************)
EXTENDS Naturals, Sequences

CONSTANTS
    Workers,        \* the flow's own workers, which run the process chains
    PoolWorkers,    \* the pool's workers, which run the branches
    Idle,           \* what an idle goroutine runs
    Messages,       \* how many messages the source sends
    Queue,          \* capacity of the pool's task queue
    Branches,       \* branches of every fork
    Nesting         \* how deep forks nest: 1 is a fork whose branches hold none

ASSUME ForkAssumption ==
    /\ {Messages, Queue, Branches, Nesting} \subseteq Nat \ {0}
    /\ Workers \cap PoolWorkers = {}

Goroutines == Workers \cup PoolWorkers

\* The chains of message m that are n forks deep, and all of them.
ChainsOf(m, n) == {<<m>> \o p : p \in [1 .. n -> 1 .. Branches]}
Chains == UNION {UNION {ChainsOf(m, n) : n \in 0 .. Nesting} : m \in 1 .. Messages}

HasFork(c) == Len(c) <= Nesting
Branch(c, i) == Append(c, i)
Parent(c) == SubSeq(c, 1, Len(c) - 1)

VARIABLES
    st,         \* "new", "queued" on the pool, "running", "joining", "ended"
    err,        \* the chain returned an error
    stop,       \* the chain's message carries the stop flag
    firstErr,   \* the chain's fork: some branch has failed
    forkStop,   \* the chain's fork: some branch requested stop
    runs,       \* the chain each goroutine is in
    tasks,      \* the pool's task queue
    panicked    \* Submit found the queue full: the process is gone

results == <<err, stop, firstErr, forkStop>>
vars == <<st, results, runs, tasks, panicked>>

Init ==
    /\ st = [c \in Chains |-> "new"]
    /\ err = [c \in Chains |-> FALSE]
    /\ stop = [c \in Chains |-> FALSE]
    /\ firstErr = [c \in Chains |-> FALSE]
    /\ forkStop = [c \in Chains |-> FALSE]
    /\ runs = [g \in Goroutines |-> Idle]
    /\ tasks = <<>>
    /\ panicked = FALSE

----------------------------------------------------------------------------
\* A worker of the flow takes a message and runs it up to the chain's fork.
Take(w, m) ==
    /\ runs[w] = Idle /\ st[<<m>>] = "new"
    /\ st' = [st EXCEPT ![<<m>>] = "running"]
    /\ runs' = [runs EXCEPT ![w] = <<m>>]
    /\ UNCHANGED <<results, tasks, panicked>>

\* A worker of the pool takes the next branch.
PoolTake(p) ==
    /\ runs[p] = Idle /\ tasks # <<>>
    /\ st' = [st EXCEPT ![Head(tasks)] = "running"]
    /\ runs' = [runs EXCEPT ![p] = Head(tasks)]
    /\ tasks' = Tail(tasks)
    /\ UNCHANGED <<results, panicked>>

Forking(g) == runs[g] # Idle /\ st[runs[g]] = "running" /\ HasFork(runs[g])

\* Mutant of Submit: the queue drops a branch it has no room for.
SubmitOrDrop(g, i) ==
    LET c == runs[g] IN
    /\ Forking(g)
    /\ st[Branch(c, i)] = "new" /\ \A j \in 1 .. i - 1 : st[Branch(c, j)] # "new"
    /\ tasks' = IF Len(tasks) < Queue THEN Append(tasks, Branch(c, i)) ELSE tasks
    /\ st' = [st EXCEPT ![Branch(c, i)] = "queued",
                        ![c] = IF i = Branches THEN "joining" ELSE @]
    /\ UNCHANGED <<results, runs, panicked>>

\* Mutant of Submit: the queue's capacity is not looked at.
SubmitOverfull(g, i) ==
    LET c == runs[g] IN
    /\ Forking(g)
    /\ st[Branch(c, i)] = "new" /\ \A j \in 1 .. i - 1 : st[Branch(c, j)] # "new"
    /\ tasks' = Append(tasks, Branch(c, i))
    /\ st' = [st EXCEPT ![Branch(c, i)] = "queued",
                        ![c] = IF i = Branches THEN "joining" ELSE @]
    /\ UNCHANGED <<results, runs, panicked>>

\* The fork submits its branches in order, each with a clone of the message, and
\* after the last one waits on its goroutine.
Submit(g, i) ==
    LET c == runs[g] IN
    /\ Forking(g)
    /\ st[Branch(c, i)] = "new" /\ \A j \in 1 .. i - 1 : st[Branch(c, j)] # "new"
    /\ Len(tasks) < Queue
    /\ tasks' = Append(tasks, Branch(c, i))
    /\ st' = [st EXCEPT ![Branch(c, i)] = "queued",
                        ![c] = IF i = Branches THEN "joining" ELSE @]
    /\ UNCHANGED <<results, runs, panicked>>

\* Submit on a full queue panics, and nothing recovers the panic.
Panic(g) ==
    /\ Forking(g) /\ Len(tasks) >= Queue
    /\ panicked' = TRUE
    /\ UNCHANGED <<st, results, runs, tasks>>

\* The end of chain c on goroutine g with error e and stop flag s: a branch reports
\* both to its fork under the fork's mutex.
End(g, c, e, s) ==
    /\ st' = [st EXCEPT ![c] = "ended"]
    /\ err' = [err EXCEPT ![c] = e]
    /\ stop' = [stop EXCEPT ![c] = s]
    /\ runs' = [runs EXCEPT ![g] = Idle]
    /\ IF Len(c) = 1
       THEN UNCHANGED <<firstErr, forkStop>>
       ELSE /\ firstErr' = [firstErr EXCEPT ![Parent(c)] = @ \/ e]
            /\ forkStop' = [forkStop EXCEPT ![Parent(c)] = @ \/ s]
    /\ UNCHANGED <<tasks, panicked>>

\* A chain that fails or stops before its fork, or has none: any result.
Leaf(g, e, s) ==
    /\ runs[g] # Idle /\ st[runs[g]] = "running"
    /\ HasFork(runs[g]) => (e \/ s) /\ st[Branch(runs[g], 1)] = "new"
    /\ End(g, runs[g], e, s)

\* Mutant of Join: the first failure ends the fork without the other branches.
JoinOnFirstErr(g, e, s) ==
    LET c == runs[g] IN
    /\ c # Idle /\ st[c] = "joining"
    /\ firstErr[c] \/ \A i \in 1 .. Branches : st[Branch(c, i)] = "ended"
    /\ firstErr[c] => e /\ ~s
    /\ ~firstErr[c] /\ forkStop[c] => ~e /\ s
    /\ End(g, c, e, s)

\* wg.Wait() returns.  A failed branch fails the chain; a stop requested in one ends
\* it with the flag on its message; otherwise the blocks after the fork decide.
Join(g, e, s) ==
    LET c == runs[g] IN
    /\ c # Idle /\ st[c] = "joining"
    /\ \A i \in 1 .. Branches : st[Branch(c, i)] = "ended"
    /\ firstErr[c] => e /\ ~s
    /\ ~firstErr[c] /\ forkStop[c] => ~e /\ s
    /\ End(g, c, e, s)

Finished == panicked \/ \A m \in 1 .. Messages : st[<<m>>] = "ended"

Step(g) ==
    \/ \E i \in 1 .. Branches : Submit(g, i)
    \/ Panic(g)
    \/ \E e, s \in BOOLEAN : Leaf(g, e, s) \/ Join(g, e, s)

Next ==
    \/ /\ ~panicked
       /\ \/ \E w \in Workers, m \in 1 .. Messages : Take(w, m)
          \/ \E p \in PoolWorkers : PoolTake(p)
          \/ \E g \in Goroutines : Step(g)
    \/ Finished /\ UNCHANGED vars

\* Every goroutine that can take a step takes one: blocks return.
Fairness ==
    /\ \A w \in Workers : WF_vars(~panicked /\ \E m \in 1 .. Messages : Take(w, m))
    /\ \A p \in PoolWorkers : WF_vars(~panicked /\ PoolTake(p))
    /\ \A g \in Goroutines : WF_vars(~panicked /\ Step(g))

Spec == Init /\ [][Next]_vars /\ Fairness

----------------------------------------------------------------------------
(* Properties *)

\* The kinds of values; the pool's queue never holds more than its capacity.
TypeOK ==
    /\ st \in [Chains -> {"new", "queued", "running", "joining", "ended"}]
    /\ err \in [Chains -> BOOLEAN] /\ stop \in [Chains -> BOOLEAN]
    /\ firstErr \in [Chains -> BOOLEAN] /\ forkStop \in [Chains -> BOOLEAN]
    /\ runs \in [Goroutines -> Chains \cup {Idle}]
    /\ tasks \in Seq(Chains) /\ Len(tasks) <= Queue
    /\ panicked \in BOOLEAN

\* fork.Process joins: a chain whose fork began has no branch still queued or running
\* on the pool once it has ended, even when a branch failed first.
NoOrphanBranch ==
    \A c \in Chains : HasFork(c) /\ st[c] = "ended" =>
        \A i \in 1 .. Branches : st[Branch(c, i)] \in {"new", "ended"}

\* A fork's result is its branches' whatever order they end in: it fails when one of
\* them failed, and otherwise carries the stop flag when one of them requested stop.
ForkResult ==
    \A c \in Chains : HasFork(c) /\ st[c] = "ended" =>
        LET bs == {Branch(c, i) : i \in 1 .. Branches} IN
        /\ (\E b \in bs : err[b]) => err[c]
        /\ (\E b \in bs : stop[b]) /\ ~err[c] => stop[c]

\* "rather than risk a silent deadlock (a caller waiting on a task that can never be
\* scheduled), Submit panics": every message ends, or the pool has panicked.
NoSilentDeadlock == <>Finished
=============================================================================
