--------------------------- MODULE ForkPoolProofs ---------------------------
(***************************************************************************)
(* Proofs about ForkPool, for every number of messages, branches, workers   *)
(* and pool workers, every capacity of the queue and every depth to which   *)
(* forks nest.                                                              *)
(*                                                                          *)
(* The inductive invariant relates each fork to its branches: how far the   *)
(* fork is bounds how far they may be, and its error and stop flags hold    *)
(* what the branches that ended reported.                                   *)
(***************************************************************************)
EXTENDS ForkPool, SequenceTheorems, TLAPS

----------------------------------------------------------------------------
(* Paths *)

IsPath(c) ==
    /\ c \in Seq(Nat) /\ Len(c) \in 1 .. Nesting + 1
    /\ c[1] \in 1 .. Messages
    /\ \A k \in 2 .. Len(c) : c[k] \in 1 .. Branches

\* A chain is a message followed by at most Nesting branches.
LEMMA ChainIsPath == ASSUME NEW c PROVE c \in Chains <=> IsPath(c)
<1>0. Nesting \in Nat
  BY ForkAssumption
<1>1. ASSUME c \in Chains PROVE IsPath(c)
  <2>0. PICK m \in 1 .. Messages, n \in 0 .. Nesting : c \in ChainsOf(m, n)
    BY <1>1 DEF Chains
  <2>1. PICK p \in [1 .. n -> 1 .. Branches] : c = <<m>> \o p
    BY <2>0 DEF ChainsOf
  <2>2. n \in Nat /\ p \in Seq(Nat) /\ Len(p) = n
    BY <1>0
  <2>3. <<m>> \in Seq(Nat) /\ Len(<<m>>) = 1 /\ <<m>>[1] = m
    OBVIOUS
  <2>4. /\ c \in Seq(Nat) /\ Len(c) = 1 + n
        /\ \A i \in 1 .. 1 + n : c[i] = IF i <= 1 THEN m ELSE p[i - 1]
    BY <2>1, <2>2, <2>3, ConcatProperties
  <2>5. c[1] = m
    BY <2>2, <2>4
  <2>6. ASSUME NEW k \in 2 .. Len(c) PROVE c[k] \in 1 .. Branches
    <3>1. k - 1 \in 1 .. n /\ c[k] = p[k - 1]
      BY <2>2, <2>4
    <3> QED BY <3>1
  <2> QED BY <1>0, <2>2, <2>4, <2>5, <2>6 DEF IsPath
<1>2. ASSUME IsPath(c) PROVE c \in Chains
  <2> DEFINE n == Len(c) - 1
             p == [k \in 1 .. n |-> c[k + 1]]
  <2>1. n \in 0 .. Nesting
    BY <1>0, <1>2 DEF IsPath
  <2>2. p \in [1 .. n -> 1 .. Branches]
    <3>1. ASSUME NEW k \in 1 .. n PROVE c[k + 1] \in 1 .. Branches
      BY <1>2, <2>1 DEF IsPath
    <3> QED BY <3>1
  <2>3. p \in Seq(Nat) /\ Len(p) = n
    <3>1. n \in Nat
      BY <2>1
    <3> HIDE DEF p, n
    <3> QED BY <2>2, <3>1
  <2>4. <<c[1]>> \in Seq(Nat) /\ Len(<<c[1]>>) = 1 /\ <<c[1]>>[1] = c[1]
    BY <1>2 DEF IsPath
  <2>5. /\ <<c[1]>> \o p \in Seq(Nat) /\ Len(<<c[1]>> \o p) = 1 + n
        /\ \A i \in 1 .. 1 + n : (<<c[1]>> \o p)[i] = IF i <= 1 THEN c[1] ELSE p[i - 1]
    <3> HIDE DEF p
    <3> QED BY <2>3, <2>4, ConcatProperties
  <2>6. \A i \in 1 .. 1 + n : (<<c[1]>> \o p)[i] = c[i]
    <3>1. ASSUME NEW i \in 1 .. 1 + n PROVE (<<c[1]>> \o p)[i] = c[i]
      <4>1. CASE i = 1
        BY <2>5, <4>1
      <4>2. CASE i # 1
        <5>1. i - 1 \in 1 .. n /\ ~(i <= 1) /\ (i - 1) + 1 = i
          BY <2>1, <4>2
        <5>2. p[i - 1] = c[i]
          BY <5>1
        <5> HIDE DEF p
        <5> QED BY <2>5, <5>1, <5>2
      <4> QED BY <4>1, <4>2
    <3> QED BY <3>1
  <2>7. <<c[1]>> \o p = c
    <3>1. Len(c) = 1 + n /\ 1 + n \in Nat
      BY <1>2, <2>1 DEF IsPath
    <3> HIDE DEF p, n
    <3> QED BY <1>2, <2>5, <2>6, <3>1, SeqEqual DEF IsPath
  <2>8. c[1] \in 1 .. Messages
    BY <1>2 DEF IsPath
  <2> HIDE DEF p, n
  <2>9. c \in ChainsOf(c[1], n)
    BY <2>2, <2>7 DEF ChainsOf
  <2> QED BY <2>1, <2>8, <2>9 DEF Chains
<1> QED BY <1>1, <1>2

\* The branches of a fork are chains of their own, below it and no other's.
LEMMA BranchIsChain ==
    ASSUME NEW c \in Chains, HasFork(c), NEW i \in 1 .. Branches
    PROVE  /\ Branch(c, i) \in Chains /\ Len(Branch(c, i)) = Len(c) + 1
           /\ Branch(c, i) # c /\ Parent(Branch(c, i)) = c
<1>0. Nesting \in Nat /\ i \in Nat
  BY ForkAssumption
<1>1. /\ c \in Seq(Nat) /\ Len(c) \in 1 .. Nesting + 1 /\ Len(c) <= Nesting
      /\ c[1] \in 1 .. Messages /\ \A k \in 2 .. Len(c) : c[k] \in 1 .. Branches
  BY ChainIsPath DEF HasFork, IsPath
<1> DEFINE b == Branch(c, i)
<1>2. /\ b \in Seq(Nat) /\ Len(b) = Len(c) + 1 /\ b[Len(c) + 1] = i
      /\ \A k \in 1 .. Len(c) : b[k] = c[k]
  BY <1>0, <1>1, AppendProperties DEF Branch
<1> HIDE DEF b
<1>3. b[1] \in 1 .. Messages /\ Len(b) \in 1 .. Nesting + 1
  <2>1. 1 \in 1 .. Len(c) /\ Len(c) + 1 \in 1 .. Nesting + 1
    BY <1>0, <1>1
  <2> QED BY <1>1, <1>2, <2>1
<1>3a. ASSUME NEW k \in 2 .. Len(b) PROVE b[k] \in 1 .. Branches
  <2>1. k \in 2 .. Len(c) \/ k = Len(c) + 1
    BY <1>1, <1>2
  <2>2. CASE k \in 2 .. Len(c)
    <3>1. k \in 1 .. Len(c)
      BY <2>2
    <3> QED BY <1>1, <1>2, <2>2, <3>1
  <2>3. CASE k = Len(c) + 1
    BY <1>2, <2>3
  <2> QED BY <2>1, <2>2, <2>3
<1>4. b \in Chains
  BY <1>2, <1>3, <1>3a, ChainIsPath DEF IsPath
<1>5. b # c
  BY <1>1, <1>2
<1>6. Parent(b) = c
  <2>1. /\ SubSeq(b, 1, Len(b) - 1) \in Seq(Nat) /\ Len(SubSeq(b, 1, Len(b) - 1)) = Len(c)
        /\ \A k \in 1 .. Len(c) : SubSeq(b, 1, Len(b) - 1)[k] = c[k]
    <3>1. Len(b) - 1 = Len(c) /\ Len(c) \in Int /\ 1 <= Len(c) /\ 1 \in Int
      BY <1>1, <1>2
    <3>2. \A k \in 1 .. Len(c) : b[k] \in Nat
      BY <1>2, ElementOfSeq
    <3>3. /\ SubSeq(b, 1, Len(c)) \in Seq(Nat) /\ Len(SubSeq(b, 1, Len(c))) = Len(c) - 1 + 1
          /\ \A k \in 1 .. Len(c) - 1 + 1 : SubSeq(b, 1, Len(c))[k] = b[1 + k - 1]
      BY <3>1, <3>2, SubSeqProperties
    <3> QED BY <1>2, <3>1, <3>3
  <2> QED BY <1>1, <2>1, SeqEqual DEF Parent
<1> QED BY <1>2, <1>4, <1>5, <1>6 DEF b

\* A chain that is no message's own is a branch of its parent's fork.
LEMMA ChainIsBranch ==
    ASSUME NEW c \in Chains, Len(c) # 1
    PROVE  /\ Parent(c) \in Chains /\ HasFork(Parent(c))
           /\ \E i \in 1 .. Branches : c = Branch(Parent(c), i)
<1>0. Nesting \in Nat /\ Messages \in Nat /\ Branches \in Nat
  BY ForkAssumption
<1>1. /\ c \in Seq(Nat) /\ Len(c) \in 2 .. Nesting + 1
      /\ c[1] \in 1 .. Messages /\ \A k \in 2 .. Len(c) : c[k] \in 1 .. Branches
  <2>1. IsPath(c)
    BY ChainIsPath
  <2>2. Len(c) \in 1 .. Nesting + 1 /\ Len(c) # 1
    BY <2>1 DEF IsPath
  <2>3. \A l \in 1 .. Nesting + 1 : l # 1 => l \in 2 .. Nesting + 1
    BY <1>0
  <2> QED BY <2>1, <2>2, <2>3 DEF IsPath
<1> DEFINE n == Len(c) - 1
           p == Parent(c)
<1>2. n \in Nat /\ n \in Int /\ 1 \in Int /\ 1 <= n /\ n <= Nesting /\ Len(c) = n + 1
  BY <1>0, <1>1
<1>3. /\ p \in Seq(Nat) /\ Len(p) = n
      /\ \A k \in 1 .. n : p[k] = c[k]
  <2>1. \A k \in 1 .. n : c[k] \in Nat
    BY <1>1, <1>2, ElementOfSeq
  <2>2. /\ SubSeq(c, 1, n) \in Seq(Nat) /\ Len(SubSeq(c, 1, n)) = n - 1 + 1
        /\ \A k \in 1 .. n - 1 + 1 : SubSeq(c, 1, n)[k] = c[1 + k - 1]
    <3> HIDE DEF n
    <3> QED BY <1>2, <2>1, SubSeqProperties
  <2>3. n - 1 + 1 = n /\ \A k \in 1 .. n : 1 + k - 1 = k
    BY <1>2
  <2> QED BY <2>2, <2>3 DEF Parent
<1> HIDE DEF n, p
<1>4. /\ p[1] \in 1 .. Messages /\ Len(p) \in 1 .. Nesting + 1
      /\ \A k \in 2 .. Len(p) : p[k] \in 1 .. Branches
  BY <1>0, <1>1, <1>2, <1>3
<1>5. p \in Chains /\ HasFork(p)
  BY <1>2, <1>3, <1>4, ChainIsPath DEF HasFork, IsPath
<1>6. c = Branch(p, c[n + 1])
  <2>1. c[n + 1] \in Nat
    BY <1>0, <1>1, <1>2
  <2>2. /\ Append(p, c[n + 1]) \in Seq(Nat) /\ Len(Append(p, c[n + 1])) = n + 1
        /\ \A k \in 1 .. n : Append(p, c[n + 1])[k] = p[k]
        /\ Append(p, c[n + 1])[n + 1] = c[n + 1]
    BY <1>3, <2>1, AppendProperties
  <2>3. \A k \in 1 .. n + 1 : Append(p, c[n + 1])[k] = c[k]
    BY <1>2, <1>3, <2>2
  <2> QED BY <1>1, <1>2, <2>2, <2>3, SeqEqual DEF Branch
<1>7. c[n + 1] \in 1 .. Branches
  BY <1>1, <1>2
<1> QED BY <1>5, <1>6, <1>7 DEF p

\* Two branches of a fork are two chains.
LEMMA BranchesDiffer ==
    ASSUME NEW c \in Chains, NEW i \in 1 .. Branches, NEW j \in 1 .. Branches,
           Branch(c, i) = Branch(c, j)
    PROVE  i = j
<1>1. c \in Seq(Nat) /\ i \in Nat /\ j \in Nat
  BY ChainIsPath, ForkAssumption DEF IsPath
<1>2. Append(c, i)[Len(c) + 1] = i /\ Append(c, j)[Len(c) + 1] = j
  BY <1>1, AppendProperties
<1> QED BY <1>2 DEF Branch

\* The process chain of a message is the branch of no fork.
LEMMA MessageIsChain ==
    ASSUME NEW m \in 1 .. Messages
    PROVE  <<m>> \in Chains /\ Len(<<m>>) = 1
<1>1. m \in Nat /\ Nesting \in Nat
  BY ForkAssumption
<1>2. <<m>> \in Seq(Nat) /\ Len(<<m>>) = 1 /\ <<m>>[1] = m
  BY <1>1
<1>3. IsPath(<<m>>)
  BY <1>1, <1>2 DEF IsPath
<1> QED BY <1>2, <1>3, ChainIsPath

\* What the steps need of paths: forks and branches make a forest.
Forest ==
    /\ \A c \in Chains, i \in 1 .. Branches : HasFork(c) =>
          Branch(c, i) \in Chains /\ Branch(c, i) # c /\ Len(Branch(c, i)) # 1
             /\ Parent(Branch(c, i)) = c
    /\ \A c \in Chains : Len(c) # 1 => Parent(c) \in Chains /\ HasFork(Parent(c))
    /\ \A c \in Chains, i, j \in 1 .. Branches : Branch(c, i) = Branch(c, j) => i = j
    /\ \A m \in 1 .. Messages : <<m>> \in Chains /\ Len(<<m>>) = 1

LEMMA ChainsAreForest == Forest
<1>1. ASSUME NEW c \in Chains, NEW i \in 1 .. Branches, HasFork(c)
      PROVE  Branch(c, i) \in Chains /\ Branch(c, i) # c /\ Len(Branch(c, i)) # 1
                /\ Parent(Branch(c, i)) = c
  <2>1. Len(c) \in Nat \ {0} /\ Len(Branch(c, i)) = Len(c) + 1
    BY <1>1, ChainIsPath, BranchIsChain, ForkAssumption DEF IsPath
  <2> QED BY <1>1, <2>1, BranchIsChain
<1> QED BY <1>1, ChainIsBranch, BranchesDiffer, MessageIsChain DEF Forest

----------------------------------------------------------------------------
(* The inductive invariant *)

\* A goroutine is in a chain that has begun and not ended, and alone in it.
RunInv ==
    \A g \in Goroutines : runs[g] # Idle =>
        /\ st[runs[g]] \in {"running", "joining"}
        /\ \A h \in Goroutines : runs[h] = runs[g] => h = g

\* The pool's queue holds queued branches, each once.
QueueInv ==
    /\ \A k \in 1 .. Len(tasks) : st[tasks[k]] = "queued"
    /\ \A k, l \in 1 .. Len(tasks) : tasks[k] = tasks[l] => k = l

\* A chain has a result only when it has ended.
EndInv == \A c \in Chains : err[c] \/ stop[c] => st[c] = "ended"

\* How far fork c is bounds how far its branches are.
Phase(c) ==
    /\ st[c] \in {"new", "queued"} => \A i \in 1 .. Branches : st[Branch(c, i)] = "new"
    /\ st[c] = "running" => \A i \in 1 .. Branches, j \in 1 .. Branches :
          j < i /\ st[Branch(c, i)] # "new" => st[Branch(c, j)] # "new"
    /\ st[c] = "joining" => \A i \in 1 .. Branches : st[Branch(c, i)] # "new"
    /\ st[c] = "ended" => \A i \in 1 .. Branches : st[Branch(c, i)] \in {"new", "ended"}

\* The fork knows what its branches reported, and its result follows from theirs.
Report(c) ==
    \A i \in 1 .. Branches :
        /\ err[Branch(c, i)] => firstErr[c]
        /\ stop[Branch(c, i)] => forkStop[c]
        /\ st[c] = "ended" /\ err[Branch(c, i)] => err[c]
        /\ st[c] = "ended" /\ stop[Branch(c, i)] => err[c] \/ stop[c]

ForkInv == \A c \in Chains : HasFork(c) => Phase(c) /\ Report(c)

Inv == TypeOK /\ RunInv /\ QueueInv /\ EndInv /\ ForkInv

LEMMA InitInv == Init => Inv
<1> SUFFICES ASSUME Init PROVE Inv
  OBVIOUS
<1> USE DEF Init
<1>1. TypeOK
  <2>1. tasks \in Seq(Chains) /\ Len(tasks) = 0 /\ Queue \in Nat
    BY EmptySeq, ForkAssumption
  <2>2. Len(tasks) <= Queue
    BY <2>1
  <2> QED BY <2>1, <2>2 DEF TypeOK
<1>2. RunInv /\ EndInv
  BY DEF RunInv, EndInv
<1>3. QueueInv
  BY DEF QueueInv
<1>4. ForkInv
  <2> SUFFICES ASSUME NEW c \in Chains, HasFork(c) PROVE Phase(c) /\ Report(c)
    BY DEF ForkInv
  <2>1. \A i \in 1 .. Branches : Branch(c, i) \in Chains
    BY ChainsAreForest DEF Forest
  <2> QED BY <2>1 DEF Phase, Report
<1> QED BY <1>1, <1>2, <1>3, <1>4 DEF Inv

----------------------------------------------------------------------------
(* Steps that begin a chain *)

\* Chain c begins: nothing of its fork has begun and nothing else changes.
Begins(c) ==
    /\ c \in Chains /\ st[c] \in {"new", "queued"}
    /\ st[c] = "new" => Len(c) = 1
    /\ st' = [st EXCEPT ![c] = "running"]
    /\ UNCHANGED results

LEMMA BeginStep == ASSUME Inv, NEW c, Begins(c) PROVE EndInv' /\ ForkInv'
<1>0. /\ st \in [Chains -> {"new", "queued", "running", "joining", "ended"}]
      /\ c \in Chains /\ Forest
  BY ChainsAreForest DEF Inv, TypeOK, Begins
<1>1. EndInv'
  BY <1>0 DEF Inv, EndInv, Begins, results
<1>2. ASSUME NEW d \in Chains, HasFork(d) PROVE Phase(d)' /\ Report(d)'
  <2>0. Phase(d) /\ Report(d)
    BY <1>2 DEF Inv, ForkInv
  <2>1. \A i \in 1 .. Branches : Branch(d, i) \in Chains /\ Branch(d, i) # d
    BY <1>0, <1>2 DEF Forest
  <2>2. \A i \in 1 .. Branches : Branch(d, i) = c => st[c] = "queued"
    BY <1>0, <1>2 DEF Forest, Begins
  <2>3. Phase(d)'
    BY <1>0, <2>0, <2>1, <2>2 DEF Phase, Begins
  <2>4. Report(d)'
    BY <1>0, <2>0, <2>1 DEF Report, Begins, results
  <2> QED BY <2>3, <2>4
<1> QED BY <1>1, <1>2 DEF ForkInv

LEMMA TakeStep ==
    ASSUME Inv, NEW w \in Workers, NEW m \in 1 .. Messages, Take(w, m) PROVE Inv'
<1>0. <<m>> \in Chains /\ w \in Goroutines
  BY ChainsAreForest DEF Forest, Goroutines
<1>1. Begins(<<m>>)
  BY <1>0, ChainsAreForest DEF Take, Begins, Forest
<1>2. TypeOK'
  BY <1>0 DEF Inv, TypeOK, Take, results
<1>3. RunInv'
  BY <1>0 DEF Inv, TypeOK, RunInv, Take
<1>4. QueueInv'
  BY <1>0 DEF Inv, TypeOK, QueueInv, Take
<1> QED BY <1>1, <1>2, <1>3, <1>4, BeginStep DEF Inv

LEMMA PoolTakeStep == ASSUME Inv, NEW p \in PoolWorkers, PoolTake(p) PROVE Inv'
<1> DEFINE c == Head(tasks)
<1>0. /\ c \in Chains /\ p \in Goroutines /\ tasks \in Seq(Chains) /\ Len(tasks) \in Nat \ {0}
      /\ Queue \in Nat /\ Len(tasks) <= Queue
      /\ Tail(tasks) \in Seq(Chains) /\ Len(Tail(tasks)) = Len(tasks) - 1
      /\ \A k \in 1 .. Len(Tail(tasks)) : Tail(tasks)[k] = tasks[k + 1]
      /\ c = tasks[1]
  <2>1. tasks \in Seq(Chains) /\ tasks # <<>> /\ Queue \in Nat /\ Len(tasks) <= Queue
    BY ForkAssumption DEF Inv, TypeOK, PoolTake
  <2> QED BY <2>1, HeadTailProperties, EmptySeq DEF Goroutines
<1>1. /\ runs[p] = Idle /\ tasks' = Tail(tasks) /\ UNCHANGED <<results, panicked>>
      /\ st' = [st EXCEPT ![c] = "running"] /\ runs' = [runs EXCEPT ![p] = c]
  BY DEF PoolTake
<1> HIDE DEF c
<1>2. st[c] = "queued"
  <2>1. 1 \in 1 .. Len(tasks)
    BY <1>0
  <2> QED BY <1>0, <2>1 DEF Inv, QueueInv
<1>3. Begins(c)
  BY <1>0, <1>1, <1>2 DEF Begins
<1>4. TypeOK'
  <2>1. Len(tasks') <= Queue /\ tasks' \in Seq(Chains)
    BY <1>0, <1>1
  <2> QED BY <1>0, <1>1, <2>1 DEF Inv, TypeOK, results
<1>5. RunInv'
  BY <1>0, <1>1, <1>2 DEF Inv, TypeOK, RunInv
<1>6. QueueInv'
  <2>1. ASSUME NEW k \in 1 .. Len(tasks')
        PROVE  k + 1 \in 1 .. Len(tasks) /\ tasks'[k] = tasks[k + 1] /\ tasks'[k] # c
    <3>1. k + 1 \in 1 .. Len(tasks) /\ 1 \in 1 .. Len(tasks) /\ k + 1 # 1
      BY <1>0, <1>1
    <3>2. tasks'[k] = tasks[k + 1]
      BY <1>0, <1>1
    <3> QED BY <1>0, <3>1, <3>2 DEF Inv, QueueInv
  <2>2. \A k \in 1 .. Len(tasks') : st'[tasks'[k]] = "queued"
    <3>1. ASSUME NEW k \in 1 .. Len(tasks') PROVE st'[tasks'[k]] = "queued"
      <4>1. st[tasks[k + 1]] = "queued" /\ tasks[k + 1] \in Chains
        BY <1>0, <2>1, ElementOfSeq DEF Inv, QueueInv
      <4> QED BY <1>1, <2>1, <4>1 DEF Inv, TypeOK
    <3> QED BY <3>1
  <2>3. \A k, l \in 1 .. Len(tasks') : tasks'[k] = tasks'[l] => k = l
    <3>1. ASSUME NEW k \in 1 .. Len(tasks'), NEW l \in 1 .. Len(tasks'), tasks'[k] = tasks'[l]
          PROVE  k = l
      <4>1. k + 1 = l + 1
        BY <2>1, <3>1 DEF Inv, QueueInv
      <4> QED BY <4>1
    <3> QED BY <3>1
  <2> QED BY <2>2, <2>3 DEF QueueInv
<1> QED BY <1>3, <1>4, <1>5, <1>6, BeginStep DEF Inv

----------------------------------------------------------------------------
(* Steps of a chain that runs *)

LEMMA SubmitStep ==
    ASSUME Inv, NEW g \in Goroutines, NEW i \in 1 .. Branches, Submit(g, i) PROVE Inv'
<1> DEFINE c == runs[g]
           b == Branch(c, i)
           to == IF i = Branches THEN "joining" ELSE "running"
<1>0. /\ c \in Chains /\ c # Idle /\ HasFork(c) /\ st[c] = "running"
      /\ st[b] = "new" /\ \A j \in 1 .. i - 1 : st[Branch(c, j)] # "new"
      /\ tasks' = Append(tasks, b) /\ Len(tasks) < Queue
      /\ st' = [st EXCEPT ![b] = "queued", ![c] = IF i = Branches THEN "joining" ELSE @]
      /\ UNCHANGED <<results, runs, panicked>>
  BY DEF Submit, Forking, Inv, TypeOK
<1>1. b \in Chains /\ b # c /\ Forest
  BY <1>0, ChainsAreForest DEF Forest
<1> HIDE DEF b, c
<1>2. /\ \A d \in Chains : st'[d] = IF d = b THEN "queued" ELSE IF d = c THEN to ELSE st[d]
      /\ st' \in [Chains -> {"new", "queued", "running", "joining", "ended"}]
  BY <1>0, <1>1 DEF Inv, TypeOK
<1>3. TypeOK'
  <2>1. /\ tasks \in Seq(Chains) /\ Len(tasks) \in Nat /\ Queue \in Nat
    BY ForkAssumption DEF Inv, TypeOK
  <2>2. tasks' \in Seq(Chains) /\ Len(tasks') = Len(tasks) + 1
    BY <1>0, <1>1, <2>1, AppendProperties
  <2>3. Len(tasks') <= Queue
    BY <1>0, <2>1, <2>2
  <2> QED BY <1>0, <1>2, <2>2, <2>3 DEF Inv, TypeOK, results
<1>4. RunInv'
  BY <1>0, <1>2 DEF Inv, TypeOK, RunInv
<1>5. EndInv'
  BY <1>0, <1>2 DEF Inv, EndInv, results
<1>6. QueueInv'
  <2>1. /\ tasks \in Seq(Chains) /\ Len(tasks) \in Nat
    BY DEF Inv, TypeOK
  <2>2. /\ Len(tasks') = Len(tasks) + 1 /\ tasks'[Len(tasks) + 1] = b
        /\ \A k \in 1 .. Len(tasks) : tasks'[k] = tasks[k]
    BY <1>0, <1>1, <2>1, AppendProperties
  <2>3. ASSUME NEW k \in 1 .. Len(tasks)
        PROVE  tasks[k] \in Chains /\ st[tasks[k]] = "queued" /\ tasks[k] # b /\ tasks[k] # c
    BY <1>0, <2>1, ElementOfSeq DEF Inv, QueueInv
  <2>4. \A k \in 1 .. Len(tasks') : k \in 1 .. Len(tasks) \/ k = Len(tasks) + 1
    BY <2>1, <2>2
  <2>5. \A k \in 1 .. Len(tasks') : st'[tasks'[k]] = "queued"
    BY <1>1, <1>2, <2>2, <2>3, <2>4
  <2>6. \A k, l \in 1 .. Len(tasks') : tasks'[k] = tasks'[l] => k = l
    BY <2>2, <2>3, <2>4 DEF Inv, QueueInv
  <2> QED BY <2>5, <2>6 DEF QueueInv
<1>7. ASSUME NEW d \in Chains, HasFork(d) PROVE Phase(d)' /\ Report(d)'
  <2>0. Phase(d) /\ Report(d)
    BY <1>7 DEF Inv, ForkInv
  <2>1. \A j \in 1 .. Branches : Branch(d, j) \in Chains /\ Branch(d, j) # d
    BY <1>1, <1>7 DEF Forest
  <2>2. CASE d = c
    <3>1. \A j \in 1 .. Branches : st'[Branch(c, j)] = IF j = i THEN "queued" ELSE st[Branch(c, j)]
      BY <1>1, <1>2, <2>1, <2>2 DEF Forest, b
    <3>2. st'[c] = to
      BY <1>0, <1>1, <1>2
    <3>2a. i \in Nat /\ Branches \in Nat
      BY ForkAssumption
    <3>3. ASSUME NEW j \in 1 .. Branches, j < i PROVE st'[Branch(c, j)] # "new"
      <4>1. j \in 1 .. i - 1 /\ j # i
        BY <3>2a, <3>3
      <4>2. st[Branch(c, j)] # "new"
        BY <1>0, <4>1
      <4> QED BY <3>1, <4>1, <4>2
    <3>4. Phase(d)'
      <4>1. CASE i = Branches
        <5>1. \A j \in 1 .. Branches : j = i \/ j < i
          BY <3>2a, <4>1
        <5>2. st'[c] = "joining" /\ \A j \in 1 .. Branches : st'[Branch(c, j)] # "new"
          BY <3>1, <3>2, <3>3, <4>1, <5>1
        <5> QED BY <2>2, <5>2 DEF Phase
      <4>2. CASE i # Branches
        <5>1. st'[c] = "running"
          BY <3>2, <4>2
        <5>2. ASSUME NEW k \in 1 .. Branches, NEW j \in 1 .. Branches, j < k,
                     st'[Branch(c, k)] # "new"
              PROVE  st'[Branch(c, j)] # "new"
          <6>1. CASE k = i
            BY <3>3, <5>2, <6>1
          <6>2. CASE k # i
            <7>1. st[Branch(c, k)] # "new" /\ st[c] = "running" /\ Phase(c)
              BY <1>0, <2>0, <2>2, <3>1, <5>2, <6>2
            <7>2. st[Branch(c, j)] # "new"
              BY <5>2, <7>1 DEF Phase
            <7> QED BY <3>1, <7>2
          <6> QED BY <6>1, <6>2
        <5> QED BY <2>2, <5>1, <5>2 DEF Phase
      <4> QED BY <4>1, <4>2
    <3>5. Report(d)'
      BY <1>0, <2>0, <2>2, <3>2 DEF Report, results
    <3> QED BY <3>4, <3>5
  <2>3. CASE d = b
    <3>1. \A j \in 1 .. Branches : st[Branch(d, j)] = "new" /\ Branch(d, j) # c /\ Branch(d, j) # b
      BY <1>0, <2>0, <2>1, <2>3 DEF Phase
    <3>2. st'[d] = "queued" /\ \A j \in 1 .. Branches : st'[Branch(d, j)] = "new"
      BY <1>1, <1>2, <2>1, <2>3, <3>1
    <3>3. Phase(d)'
      BY <3>2 DEF Phase
    <3>4. Report(d)'
      BY <1>0, <2>0, <3>2 DEF Report, results
    <3> QED BY <3>3, <3>4
  <2>4. CASE d # c /\ d # b
    <3>1. st'[d] = st[d] /\ \A j \in 1 .. Branches : Branch(d, j) # b
      BY <1>0, <1>1, <1>2, <1>7, <2>4 DEF Forest, b
    <3>2. \A j \in 1 .. Branches :
            st'[Branch(d, j)] = IF Branch(d, j) = c THEN to ELSE st[Branch(d, j)]
      BY <1>2, <2>1, <3>1
    <3>3. \A j \in 1 .. Branches :
            /\ st'[Branch(d, j)] = "new" <=> st[Branch(d, j)] = "new"
            /\ st'[Branch(d, j)] = "ended" <=> st[Branch(d, j)] = "ended"
      <4>1. to \in {"running", "joining"} /\ st[c] = "running"
        BY <1>0
      <4> HIDE DEF to
      <4> QED BY <3>2, <4>1
    <3>4. Phase(d)'
      BY <2>0, <3>1, <3>3 DEF Phase
    <3>5. Report(d)'
      BY <1>0, <2>0, <3>1 DEF Report, results
    <3> QED BY <3>4, <3>5
  <2> QED BY <2>2, <2>3, <2>4
<1> QED BY <1>3, <1>4, <1>5, <1>6, <1>7 DEF Inv, ForkInv

\* A chain ends with a result its branches allow, none of them queued or running.
Settled(c, e, s) ==
    HasFork(c) => \A i \in 1 .. Branches :
        /\ st[Branch(c, i)] \in {"new", "ended"}
        /\ err[Branch(c, i)] => e
        /\ stop[Branch(c, i)] => e \/ s

LEMMA EndStep ==
    ASSUME Inv, NEW g \in Goroutines, NEW e \in BOOLEAN, NEW s \in BOOLEAN,
           runs[g] # Idle, Settled(runs[g], e, s), End(g, runs[g], e, s)
    PROVE  Inv'
<1> DEFINE c == runs[g]
<1>0. /\ c \in Chains /\ st[c] \in {"running", "joining"} /\ Forest
  BY ChainsAreForest DEF Inv, TypeOK, RunInv
<1>1. /\ st' = [st EXCEPT ![c] = "ended"] /\ err' = [err EXCEPT ![c] = e]
      /\ stop' = [stop EXCEPT ![c] = s] /\ runs' = [runs EXCEPT ![g] = Idle]
      /\ UNCHANGED <<tasks, panicked>>
  BY DEF End
<1>2. /\ firstErr' \in [Chains -> BOOLEAN] /\ forkStop' \in [Chains -> BOOLEAN]
      /\ \A d \in Chains : (firstErr[d] => firstErr'[d]) /\ (forkStop[d] => forkStop'[d])
      /\ Len(c) # 1 => (e => firstErr'[Parent(c)]) /\ (s => forkStop'[Parent(c)])
  <2>0. firstErr \in [Chains -> BOOLEAN] /\ forkStop \in [Chains -> BOOLEAN]
    BY DEF Inv, TypeOK
  <2>1. CASE Len(c) = 1
    BY <2>0, <2>1 DEF End
  <2>2. CASE Len(c) # 1
    <3>1. /\ Parent(c) \in Chains
          /\ firstErr' = [firstErr EXCEPT ![Parent(c)] = @ \/ e]
          /\ forkStop' = [forkStop EXCEPT ![Parent(c)] = @ \/ s]
      BY <1>0, <2>2 DEF End, Forest
    <3> HIDE DEF c
    <3> QED BY <2>0, <3>1
  <2> QED BY <2>1, <2>2
<1> HIDE DEF c
<1>3. TypeOK'
  BY <1>0, <1>1, <1>2 DEF Inv, TypeOK
<1>4. RunInv'
  BY <1>0, <1>1 DEF Inv, TypeOK, RunInv, c
<1>5. EndInv'
  BY <1>0, <1>1 DEF Inv, TypeOK, EndInv
<1>6. QueueInv'
  BY <1>0, <1>1 DEF Inv, TypeOK, QueueInv
<1>7. ASSUME NEW d \in Chains, HasFork(d) PROVE Phase(d)' /\ Report(d)'
  <2>0. Phase(d) /\ Report(d)
    BY <1>7 DEF Inv, ForkInv
  <2>1. \A j \in 1 .. Branches : Branch(d, j) \in Chains /\ Branch(d, j) # d
    BY <1>0, <1>7 DEF Forest
  <2>2. /\ \A x \in Chains : x # c => st'[x] = st[x] /\ err'[x] = err[x] /\ stop'[x] = stop[x]
        /\ st'[c] = "ended" /\ err'[c] = e /\ stop'[c] = s
    BY <1>0, <1>1 DEF Inv, TypeOK
  <2>3. CASE d = c
    <3>1. /\ st'[d] = "ended" /\ err'[d] = e /\ stop'[d] = s
          /\ \A j \in 1 .. Branches :
                /\ st'[Branch(d, j)] = st[Branch(d, j)]
                /\ err'[Branch(d, j)] = err[Branch(d, j)]
                /\ stop'[Branch(d, j)] = stop[Branch(d, j)]
      BY <2>1, <2>2, <2>3
    <3>2. Settled(d, e, s)
      BY <2>3 DEF c
    <3>3. Phase(d)'
      BY <1>7, <3>1, <3>2 DEF Phase, Settled
    <3>4. Report(d)'
      BY <1>2, <1>7, <2>0, <3>1, <3>2 DEF Report, Settled
    <3> QED BY <3>3, <3>4
  <2>4. CASE d # c
    <3>1. st'[d] = st[d] /\ err'[d] = err[d] /\ stop'[d] = stop[d]
      BY <2>2, <2>4
    <3>2. \A j \in 1 .. Branches : Branch(d, j) = c => Len(c) # 1 /\ Parent(c) = d /\ st[d] # "ended"
      BY <1>0, <1>7, <2>0 DEF Forest, Phase
    <3>3. Phase(d)'
      BY <1>0, <2>0, <2>1, <2>2, <3>1, <3>2 DEF Phase
    <3>4. Report(d)'
      BY <1>2, <2>0, <2>1, <2>2, <3>1, <3>2 DEF Report
    <3> QED BY <3>3, <3>4
  <2> QED BY <2>3, <2>4
<1> QED BY <1>3, <1>4, <1>5, <1>6, <1>7 DEF Inv, ForkInv

LEMMA LeafStep ==
    ASSUME Inv, NEW g \in Goroutines, NEW e \in BOOLEAN, NEW s \in BOOLEAN, Leaf(g, e, s)
    PROVE  Inv'
<1> DEFINE c == runs[g]
<1>1. c \in Chains /\ c # Idle /\ st[c] = "running"
  BY DEF Leaf, Inv, TypeOK
<1>2. Settled(c, e, s)
  <2> SUFFICES ASSUME HasFork(c), NEW i \in 1 .. Branches
               PROVE  st[Branch(c, i)] = "new" /\ ~err[Branch(c, i)] /\ ~stop[Branch(c, i)]
    BY DEF Settled
  <2>1. Branch(c, i) \in Chains /\ Phase(c) /\ st[Branch(c, 1)] = "new"
    BY <1>1, ChainsAreForest DEF Forest, Inv, ForkInv, Leaf
  <2>2. i = 1 \/ (1 < i /\ 1 \in 1 .. Branches)
    BY ForkAssumption
  <2>3. st[Branch(c, i)] = "new"
    BY <1>1, <2>1, <2>2 DEF Phase
  <2> QED BY <2>1, <2>3 DEF Inv, EndInv
<1> QED BY <1>1, <1>2, EndStep DEF Leaf

LEMMA JoinStep ==
    ASSUME Inv, NEW g \in Goroutines, NEW e \in BOOLEAN, NEW s \in BOOLEAN, Join(g, e, s)
    PROVE  Inv'
<1> DEFINE c == runs[g]
<1>1. c \in Chains /\ c # Idle
  BY DEF Join, Inv, TypeOK
<1>2. Settled(c, e, s)
  BY <1>1 DEF Settled, Join, Inv, ForkInv, Report
<1> QED BY <1>1, <1>2, EndStep DEF Join

LEMMA InvStep == Inv /\ [Next]_vars => Inv'
<1> SUFFICES ASSUME Inv, [Next]_vars PROVE Inv'
  OBVIOUS
<1>1. CASE UNCHANGED vars
  BY <1>1 DEF vars, results, Inv, TypeOK, RunInv, QueueInv, EndInv, ForkInv, Phase, Report
<1>2. ASSUME NEW g \in Goroutines, Panic(g) PROVE Inv'
  BY <1>2 DEF Panic, results, Inv, TypeOK, RunInv, QueueInv, EndInv, ForkInv, Phase, Report
<1> QED
  BY <1>1, <1>2, TakeStep, PoolTakeStep, SubmitStep, LeafStep, JoinStep DEF Next, Step

----------------------------------------------------------------------------
(* Theorems *)

\* A fork and its branches keep to composites.go's Process, on every pool (pool.go) and at
\* every depth: how far the fork is bounds how far its branches are.
THEOREM InvariantHolds == Spec => []Inv
<1> QED BY InitInv, InvStep, PTL DEF Spec

\* The kinds of values; the pool's queue never outgrows the capacity New gave it.
THEOREM TypeCorrect == Spec => []TypeOK
<1>1. Inv => TypeOK
  BY DEF Inv
<1> QED BY <1>1, InvariantHolds, PTL

\* fork.Process never returns over a branch that is still queued or running.
THEOREM ForksJoin == Spec => []NoOrphanBranch
<1>1. Inv => NoOrphanBranch
  BY DEF Inv, ForkInv, Phase, NoOrphanBranch
<1> QED BY <1>1, InvariantHolds, PTL

\* Whatever order its branches end in, a fork fails when one of them failed and otherwise
\* carries the stop flag one of them set.
THEOREM ForksReport == Spec => []ForkResult
<1>1. Inv => ForkResult
  BY DEF Inv, ForkInv, Report, ForkResult
<1> QED BY <1>1, InvariantHolds, PTL
=============================================================================
