--------------------------- MODULE AggregateProofs ---------------------------
(***************************************************************************)
(* Proofs about Aggregate, for every set of messages, groups and reapers,   *)
(* any way of hashing groups to stripes, any size of group and index and    *)
(* any number of refused deliveries and failed calls of the store.          *)
(*                                                                          *)
(* Inv holds however many replicas there are: what a goroutine has in hand  *)
(* at each step, and that no two of a replica hold one stripe.  Alone is    *)
(* about one replica: there the stripe keeps what a goroutine read true,    *)
(* and with it the store, the index and the deliveries agree.               *)
(***************************************************************************)
EXTENDS Aggregate, FiniteSetTheorems, TLAPS

\* What goroutine t has in hand at each step.
HandInv(t) ==
    /\ pc[t] \in {"read", "commit", "forget"} => op[t] # "restore"
    /\ pc[t] = "reread" => op[t] = "fold"
    /\ pc[t] = "track" => op[t] \in {"fold", "restore"}
    /\ pc[t] = "restore" => op[t] = "restore"
    /\ pc[t] = "deliver" => op[t] \in {"fold", "take"}
    /\ pc[t] \in {"deliver", "restore"} => carry[t] # {}
    /\ pc[t] = "forget" /\ op[t] = "fold" => carry[t] # {}
    /\ pc[t] = "forget" /\ op[t] = "reclaim" => carry[t] = {}
    /\ carry[t] # {} => pc[t] \in {"forget", "deliver", "restore"}

\* A message folds into the group of its key, within its attempts, and once.
MessageInv(m) ==
    /\ pc[m] \notin {"idle", "sweep"}
    /\ pc[m] = "reserve" => tries[m] < Attempts
    /\ op[m] = "fold" /\ pc[m] \in {"read", "reread", "commit"} => tries[m] < Attempts
    /\ op[m] = "fold" /\ pc[m] \notin Ended => grp[m] = Key[m]
    /\ pc[m] \in {"reserve", "evict", "giveback"} => op[m] = "fold"
    /\ pc[m] = "giveback" => m \in claimed
    /\ m \in absorbed =>
          /\ pc[m] \in {"track", "forget", "deliver", "restore"} \cup Ended
          /\ pc[m] \in {"forget", "deliver"} => op[m] = "fold"

\* A reaper never folds.
ReaperInv(r) ==
    /\ pc[r] \in {"idle", "sweep", "read", "commit", "track", "forget", "deliver", "restore"}
    /\ pc[r] \in {"idle", "sweep"} \/ op[r] # "fold"

StepInv ==
    /\ \A t \in Threads : HandInv(t)
    /\ \A m \in Msgs : MessageInv(m)
    /\ \A r \in Reapers : ReaperInv(r)

\* A stripe of a replica is held by one goroutine at a time.
LockInv ==
    \A t, u \in Threads :
        Holding(t) /\ Holding(u) /\ Home[t] = Home[u] /\ Stripe[grp[t]] = Stripe[grp[u]] => t = u

Inv == TypeOK /\ StepInv /\ LockInv

----------------------------------------------------------------------------
LEMMA InitInv == Init => Inv
<1> SUFFICES ASSUME Init PROVE Inv
  OBVIOUS
<1> USE AggregateAssumption DEF Init, Threads, Absent
<1>1. AnyGroup \in Groups
  BY DEF AnyGroup
<1>2. TypeOK
  BY <1>1 DEF TypeOK, Pcs, Ended, Entry, Stored
<1>3. StepInv
  BY <1>1 DEF StepInv, HandInv, MessageInv, ReaperInv, Ended
<1>4. LockInv
  BY DEF LockInv, Holding
<1> QED BY <1>2, <1>3, <1>4 DEF Inv

LEMMA BackIsGroup == ASSUME NEW t \in Threads PROVE Back(t) \in Groups
<1>1. AnyGroup \in Groups
  BY AggregateAssumption DEF AnyGroup
<1> QED BY <1>1, AggregateAssumption DEF Back

LEMMA ResumedIsPc ==
    ASSUME NEW t \in Threads
    PROVE  /\ t \in Reapers => Resumed(t) \in {"idle", "sweep"}
           /\ t \in Msgs => Resumed(t) \in {"failed", "reserve"}
           /\ t \in Msgs /\ Resumed(t) = "reserve" => tries[t] # Attempts /\ op[t] # "restore"
  BY AggregateAssumption DEF Resumed, Threads

\* The store's kind: an entry that is there has messages.
KvKind(f) == f \in [Groups -> Entry] /\ \A g \in Groups : f[g].ver > 0 <=> f[g].msgs # {}

LEMMA WriteEntry ==
    ASSUME NEW f, KvKind(f), NEW g \in Groups, NEW v \in Nat, NEW ms \in SUBSET Msgs,
           v > 0 <=> ms # {}
    PROVE  KvKind([f EXCEPT ![g] = [ver |-> v, msgs |-> ms]])
<1> DEFINE e == [ver |-> v, msgs |-> ms]
           h == [f EXCEPT ![g] = e]
<1>1. e \in Entry /\ (e.ver > 0 <=> e.msgs # {})
  BY DEF Entry
<1> HIDE DEF e
<1>2. h \in [Groups -> Entry] /\ \A k \in Groups : h[k] = IF k = g THEN e ELSE f[k]
  BY <1>1 DEF KvKind
<1> HIDE DEF h
<1>3. KvKind(h)
  BY <1>1, <1>2 DEF KvKind
<1> QED BY <1>3 DEF h, e

LEMMA DeleteEntry ==
    ASSUME NEW f, KvKind(f), NEW g \in Groups
    PROVE  KvKind([f EXCEPT ![g] = [ver |-> 0, msgs |-> {}]])
<1>1. 0 \in Nat /\ {} \in SUBSET Msgs /\ (0 > 0 <=> {} # {})
  OBVIOUS
<1> QED BY <1>1, WriteEntry

\* The kinds of values survive every step.
LEMMA TypeStep == TypeOK /\ StepInv /\ [Next]_vars => TypeOK'
<1> SUFFICES ASSUME TypeOK, StepInv, [Next]_vars PROVE TypeOK'
  OBVIOUS
<1>0. /\ Msgs \subseteq Threads /\ Reapers \subseteq Threads
      /\ \A t \in Threads : Back(t) \in Groups /\ Resumed(t) \in Pcs
      /\ Absent \in Entry /\ Absent.ver = 0 /\ Absent.msgs = {}
  BY BackIsGroup, ResumedIsPc DEF Threads, Pcs, Ended, Absent, Entry
<1>0a. KvKind(kv)
  BY DEF TypeOK, KvKind, Stored
<1> USE <1>0, AggregateAssumption DEF TypeOK, Stored, Goto, thread, history, failures
<1>1. ASSUME NEW m \in Msgs, Claim(m) \/ Refuse(m) PROVE TypeOK'
  <2>1. CASE Refuse(m)
    BY <2>1 DEF Refuse, Full, Pcs, Ended
  <2>2. CASE Claim(m)
    <3>1. index' \in [Groups -> {"none", "claim", "open", "due"}] /\ claimed' \subseteq Msgs
      BY <2>2 DEF Claim
    <3>2. pc' \in [Threads -> Pcs] /\ tries' \in [Threads -> 0..Attempts]
      BY <2>2 DEF Claim, Pcs
    <3> QED BY <2>2, <3>1, <3>2 DEF Claim
  <2> QED BY <1>1, <2>1, <2>2
<1>1a. ASSUME NEW m \in Msgs, GiveBack(m) PROVE TypeOK'
  <2>1. index' \in [Groups -> {"none", "claim", "open", "due"}] /\ faults' \in 0..MaxFaults
    BY <1>1a DEF GiveBack, UpdateIndex
  <2>2. missing' \subseteq Groups /\ leftover' \subseteq Groups
    BY <1>1a DEF GiveBack
  <2> QED BY <1>1a, <2>1, <2>2 DEF GiveBack, Pcs, Ended
<1>2. ASSUME NEW m \in Msgs, Overflow(m) \/ Evict(m) PROVE TypeOK'
  BY <1>2 DEF Overflow, Evict, Full, Indexed, Pcs, StepInv, MessageInv
<1>3. ASSUME NEW m \in Msgs, FailFold(m) PROVE TypeOK'
  BY <1>3 DEF FailFold, Failed, Pcs, Ended
<1>4. ASSUME NEW m \in Msgs, CommitFold(m) PROVE TypeOK'
  <2>1. tries[m] < Attempts /\ grp[m] \in Groups
    BY <1>4 DEF CommitFold, StepInv, MessageInv
  <2>2. seen[m].ver \in Nat /\ seen[m].msgs \cup {m} \in SUBSET Msgs
    BY DEF Entry
  <2>3. carry' \in [Threads -> SUBSET Msgs] /\ absorbed' \subseteq Msgs
    BY <1>4, <2>2 DEF CommitFold
  <2>4. pc' \in [Threads -> Pcs] /\ tries' \in [Threads -> 0..Attempts]
    BY <1>4, <2>1 DEF CommitFold, Failed, Pcs, Ended
  <2>5. \/ UNCHANGED kv
        \/ kv' = [kv EXCEPT ![grp[m]] = [ver |-> 0, msgs |-> {}]]
        \/ kv' = [kv EXCEPT ![grp[m]] = [ver |-> seen[m].ver + 1, msgs |-> seen[m].msgs \cup {m}]]
    BY <1>4 DEF CommitFold, Absent
  <2>6. KvKind(kv')
    <3>1. CASE UNCHANGED kv
      BY <1>0a, <3>1
    <3>2. CASE kv' = [kv EXCEPT ![grp[m]] = [ver |-> 0, msgs |-> {}]]
      BY <2>1, <3>2, <1>0a, DeleteEntry
    <3>3. CASE kv' = [kv EXCEPT ![grp[m]] = [ver |-> seen[m].ver + 1, msgs |-> seen[m].msgs \cup {m}]]
      <4>1. seen[m].ver + 1 \in Nat /\ (seen[m].ver + 1 > 0 <=> seen[m].msgs \cup {m} # {})
        BY <2>2
      <4> QED BY <2>1, <2>2, <3>3, <4>1, <1>0a, WriteEntry
    <3> QED BY <2>5, <3>1, <3>2, <3>3
  <2> QED BY <1>4, <2>3, <2>4, <2>6 DEF CommitFold, KvKind
<1>5. ASSUME NEW r \in Reapers, Sweep(r) \/ Visit(r) PROVE TypeOK'
  <2>1. CASE Sweep(r)
    BY <2>1 DEF Sweep, Pcs
  <2>2. CASE Visit(r)
    <3>1. PICK e \in todo[r] : todo' = [todo EXCEPT ![r] = @ \ {e}]
                              /\ grp' = [grp EXCEPT ![r] = e[1]]
                              /\ op' = [op EXCEPT ![r] = IF e[2] = "claim" THEN "reclaim" ELSE "take"]
      BY <2>2 DEF Visit
    <3>2. e \in Groups \X {"claim", "due"}
      OBVIOUS
    <3>3. e[1] \in Groups
      BY <3>2
    <3> QED BY <2>2, <3>1, <3>3 DEF Visit, Pcs
  <2> QED BY <1>5, <2>1, <2>2
<1>6. ASSUME NEW t \in Threads, Read(t) PROVE TypeOK'
  BY <1>6 DEF Read, Pcs
<1>7. ASSUME NEW t \in Threads, CommitTake(t) PROVE TypeOK'
  <2>1. grp[t] \in Groups /\ seen[t].msgs \subseteq Msgs
    BY DEF Entry
  <2>2. /\ pc' \in [Threads -> Pcs] /\ op' \in [Threads -> {"fold", "take", "reclaim", "restore"}]
        /\ grp' \in [Threads -> Groups]
    <3>1. CASE pc' = [pc EXCEPT ![t] = "forget"] /\ UNCHANGED <<op, grp>>
      BY <3>1 DEF Pcs
    <3>2. CASE /\ pc' = [pc EXCEPT ![t] = Resumed(t)] /\ grp' = [grp EXCEPT ![t] = Back(t)]
               /\ op' = [op EXCEPT ![t] = "fold"]
      BY <3>2 DEF Pcs
    <3> QED BY <1>7, <3>1, <3>2 DEF CommitTake
  <2>3. carry' \in [Threads -> SUBSET Msgs] /\ seen' \in [Threads -> Entry]
    BY <1>7, <2>1 DEF CommitTake
  <2>4. KvKind(kv')
    <3>1. CASE UNCHANGED kv
      BY <1>0a, <3>1
    <3>2. CASE kv' = [kv EXCEPT ![grp[t]] = [ver |-> 0, msgs |-> {}]]
      BY <2>1, <3>2, <1>0a, DeleteEntry
    <3> QED BY <1>7, <3>1, <3>2 DEF CommitTake, Absent
  <2> QED BY <1>7, <2>2, <2>3, <2>4 DEF CommitTake, KvKind
<1>8. ASSUME NEW t \in Threads, Track(t) \/ Forget(t) PROVE TypeOK'
  <2>1. index' \in [Groups -> {"none", "claim", "open", "due"}] /\ faults' \in 0..MaxFaults
    BY <1>8 DEF Track, Forget, UpdateIndex
  <2>1a. missing' \subseteq Groups /\ leftover' \subseteq Groups
    BY <1>8 DEF Track, Forget
  <2>2. \E l \in Pcs : pc' = [pc EXCEPT ![t] = l]
    BY <1>8 DEF Track, Forget, Pcs, Ended
  <2>3. /\ op' \in [Threads -> {"fold", "take", "reclaim", "restore"}]
        /\ grp' \in [Threads -> Groups]
    BY <1>8 DEF Track, Forget
  <2>4. pc' \in [Threads -> Pcs]
    BY <2>2
  <2>5. UNCHANGED <<onOverflow, kv, seen, carry, tries, claimed, todo, absorbed, out, lost>>
    BY <1>8 DEF Track, Forget
  <2> QED BY <2>1, <2>1a, <2>3, <2>4, <2>5
<1>9. ASSUME NEW t \in Threads, Deliver(t) \/ RefuseDelivery(t) PROVE TypeOK'
  BY <1>9 DEF Deliver, RefuseDelivery, Pcs, Ended
<1>10. ASSUME NEW t \in Threads, Restore(t) PROVE TypeOK'
  <2>1. carry[t] # {} /\ carry[t] \in SUBSET Msgs /\ grp[t] \in Groups
    BY <1>10 DEF Restore, StepInv, HandInv
  <2>2. KvKind(kv')
    <3>1. CASE UNCHANGED kv
      BY <1>0a, <3>1
    <3>2. CASE kv' = [kv EXCEPT ![grp[t]] = [ver |-> 1, msgs |-> carry[t]]]
      <4>1. 1 \in Nat /\ (1 > 0 <=> carry[t] # {})
        BY <2>1
      <4> QED BY <2>1, <3>2, <4>1, <1>0a, WriteEntry
    <3> QED BY <1>10, <3>1, <3>2 DEF Restore
  <2>3. /\ pc' \in [Threads -> Pcs] /\ op' \in [Threads -> {"fold", "take", "reclaim", "restore"}]
        /\ grp' \in [Threads -> Groups]
    BY <1>10 DEF Restore, Pcs
  <2>4. carry' \in [Threads -> SUBSET Msgs] /\ lost' \subseteq Msgs
    BY <1>10, <2>1 DEF Restore
  <2> QED BY <1>10, <2>2, <2>3, <2>4 DEF Restore, KvKind
<1>10a. ASSUME NEW t \in Threads, StoreError(t) PROVE TypeOK'
  BY <1>10a DEF StoreError, Pcs, Ended
<1>11. ASSUME NEW g \in Groups, Expire(g) PROVE TypeOK'
  BY <1>11 DEF Expire
<1>12. CASE UNCHANGED vars
  BY <1>12 DEF vars
<1> QED
  BY <1>1, <1>1a, <1>2, <1>3, <1>4, <1>5, <1>6, <1>7, <1>8, <1>9, <1>10, <1>10a, <1>11, <1>12
  DEF Next, MessageStep, ReaperStep, GroupStep, LockStep

\* The other goroutines are where they were.
OnlyMoves(t) ==
    /\ \A u \in Threads \ {t} : /\ pc'[u] = pc[u] /\ op'[u] = op[u] /\ grp'[u] = grp[u]
                                /\ carry'[u] = carry[u] /\ tries'[u] = tries[u]
    /\ claimed \ {t} \subseteq claimed' /\ absorbed \subseteq absorbed'
    /\ absorbed' \subseteq absorbed \cup {t}

LEMMA StepOfOne ==
    ASSUME TypeOK, StepInv, NEW t \in Threads, OnlyMoves(t), HandInv(t)',
           t \in Msgs => MessageInv(t)', t \in Reapers => ReaperInv(t)'
    PROVE  StepInv'
<1> USE AggregateAssumption DEF TypeOK, StepInv, OnlyMoves, Threads
<1>1. ASSUME NEW u \in Threads PROVE HandInv(u)'
  BY <1>1 DEF HandInv
<1>2. ASSUME NEW m \in Msgs PROVE MessageInv(m)'
  BY <1>2 DEF MessageInv
<1>3. ASSUME NEW r \in Reapers PROVE ReaperInv(r)'
  BY <1>3 DEF ReaperInv
<1> QED BY <1>1, <1>2, <1>3

\* What the goroutines have in hand.
LEMMA StepStep == TypeOK /\ StepInv /\ [Next]_vars => StepInv'
<1> SUFFICES ASSUME TypeOK, StepInv, [Next]_vars PROVE StepInv'
  OBVIOUS
<1> USE AggregateAssumption DEF TypeOK, Threads, Goto, thread, history, failures, Ended
<1>1. ASSUME NEW m \in Msgs,
             Claim(m) \/ Refuse(m) \/ GiveBack(m) \/ Overflow(m) \/ Evict(m) \/ FailFold(m)
      PROVE  StepInv'
  <2>0. m \in Threads /\ HandInv(m) /\ MessageInv(m) /\ m \notin Reapers
    BY DEF StepInv
  <2>1. CASE Claim(m) \/ Refuse(m) \/ GiveBack(m) \/ Overflow(m)
    <3>1. OnlyMoves(m) /\ HandInv(m)' /\ MessageInv(m)'
      BY <2>0, <2>1 DEF Claim, Refuse, GiveBack, Overflow, Full, OnlyMoves, HandInv, MessageInv
    <3> QED BY <2>0, <3>1, StepOfOne
  <2>2. CASE Evict(m)
    <3>1. OnlyMoves(m) /\ HandInv(m)' /\ MessageInv(m)'
      <4>1. OnlyMoves(m)
        BY <2>0, <2>2 DEF Evict, OnlyMoves
      <4>2. HandInv(m)'
        BY <2>0, <2>2, ResumedIsPc DEF Evict, HandInv, Indexed
      <4>3. MessageInv(m)'
        BY <2>0, <2>2, ResumedIsPc DEF Evict, MessageInv, Indexed
      <4> QED BY <4>1, <4>2, <4>3
    <3> QED BY <2>0, <3>1, StepOfOne
  <2>3. CASE FailFold(m)
    <3>1. OnlyMoves(m) /\ HandInv(m)' /\ MessageInv(m)'
      BY <2>0, <2>3 DEF FailFold, Failed, OnlyMoves, HandInv, MessageInv
    <3> QED BY <2>0, <3>1, StepOfOne
  <2> QED BY <1>1, <2>1, <2>2, <2>3
<1>2. ASSUME NEW m \in Msgs, CommitFold(m) PROVE StepInv'
  <2>0. m \in Threads /\ HandInv(m) /\ MessageInv(m) /\ m \notin Reapers
    BY DEF StepInv
  <2>1. /\ pc[m] = "commit" /\ op[m] = "fold" /\ UNCHANGED <<op, grp>>
        /\ pc' = [pc EXCEPT ![m] = pc'[m]]
        /\ \/ /\ pc'[m] \in {"track", "forget"} /\ absorbed' = absorbed \cup {m} /\ UNCHANGED tries
              /\ claimed' = claimed \ {m}
              /\ carry' = [carry EXCEPT ![m] = IF pc'[m] = "forget" THEN seen[m].msgs \cup {m}
                                               ELSE {}]
           \/ /\ tries' = [tries EXCEPT ![m] = @ + 1] /\ UNCHANGED <<carry, absorbed, claimed>>
              /\ \/ pc'[m] = "reread" /\ tries[m] + 1 < Attempts
                 \/ pc'[m] = "giveback" /\ m \in claimed
                 \/ pc'[m] = "failed"
    BY <1>2, <2>0 DEF CommitFold, Failed
  <2>2. OnlyMoves(m)
    BY <2>0, <2>1 DEF OnlyMoves
  <2>3. HandInv(m)'
    <3>1. carry[m] = {} /\ op'[m] = "fold"
      BY <2>0, <2>1 DEF HandInv
    <3>2. /\ pc'[m] \in {"track", "forget", "reread", "giveback", "failed"}
          /\ pc'[m] = "forget" => carry'[m] # {}
          /\ pc'[m] # "forget" => carry'[m] = {}
      <4>1. seen[m].msgs \cup {m} # {}
        OBVIOUS
      <4>2. m \in DOMAIN carry
        BY <2>0
      <4> HIDE AggregateAssumption DEF TypeOK
      <4> QED BY <2>1, <3>1, <4>1, <4>2
    <3> QED BY <3>1, <3>2 DEF HandInv
  <2>4. MessageInv(m)'
    BY <2>0, <2>1 DEF MessageInv
  <2> QED BY <2>0, <2>2, <2>3, <2>4, StepOfOne
<1>3. ASSUME NEW r \in Reapers, Sweep(r) \/ Visit(r) PROVE StepInv'
  <2>0. r \in Threads /\ HandInv(r) /\ ReaperInv(r) /\ r \notin Msgs
    BY DEF StepInv
  <2>1. OnlyMoves(r) /\ HandInv(r)' /\ ReaperInv(r)'
    BY <1>3, <2>0 DEF Sweep, Visit, OnlyMoves, HandInv, ReaperInv
  <2> QED BY <2>0, <2>1, StepOfOne
<1>4. ASSUME NEW t \in Threads,
             \/ Read(t) \/ CommitTake(t) \/ Track(t) \/ Forget(t) \/ Deliver(t)
             \/ RefuseDelivery(t) \/ Restore(t) \/ StoreError(t)
      PROVE  StepInv'
  <2>0. /\ HandInv(t) /\ (t \in Msgs => MessageInv(t)) /\ (t \in Reapers => ReaperInv(t))
        /\ t \in Msgs => Back(t) = Key[t]
    BY DEF StepInv, Back
  <2>1. CASE Read(t) \/ RefuseDelivery(t)
    <3>1. OnlyMoves(t) /\ HandInv(t)'
      BY <2>0, <2>1 DEF Read, RefuseDelivery, OnlyMoves, HandInv
    <3>2. (t \in Msgs => MessageInv(t)') /\ (t \in Reapers => ReaperInv(t)')
      BY <2>0, <2>1 DEF Read, RefuseDelivery, HandInv, MessageInv, ReaperInv
    <3> QED BY <3>1, <3>2, StepOfOne
  <2>2. CASE CommitTake(t)
    <3>1. OnlyMoves(t) /\ HandInv(t)'
      BY <2>0, <2>2, ResumedIsPc DEF CommitTake, OnlyMoves, HandInv
    <3>2. /\ pc[t] = "commit" /\ op[t] # "fold" /\ UNCHANGED <<tries, claimed, absorbed>>
          /\ \/ pc'[t] = "forget" /\ op'[t] = op[t] /\ grp'[t] = grp[t]
             \/ pc'[t] = Resumed(t) /\ op'[t] = "fold" /\ grp'[t] = Back(t)
      BY <2>2 DEF CommitTake
    <3>3. ASSUME t \in Msgs PROVE MessageInv(t)'
      <4>1. Back(t) = Key[t] /\ MessageInv(t) /\ HandInv(t) /\ tries[t] \in 0..Attempts
        BY <2>0, <3>3
      <4>2. Resumed(t) \in {"failed", "reserve"} /\ (Resumed(t) = "reserve" => tries[t] # Attempts)
        BY <3>3, ResumedIsPc
      <4>3. Attempts \in Nat
        OBVIOUS
      <4> HIDE AggregateAssumption DEF TypeOK
      <4> QED BY <3>2, <4>1, <4>2, <4>3 DEF HandInv, MessageInv
    <3>4. t \in Reapers => ReaperInv(t)'
      BY <2>0, <3>2, ResumedIsPc DEF ReaperInv
    <3> QED BY <3>1, <3>3, <3>4, StepOfOne
  <2>3. CASE Track(t)
    <3>1. OnlyMoves(t) /\ HandInv(t)'
      BY <2>0, <2>3, ResumedIsPc DEF Track, OnlyMoves, HandInv
    <3>2. (t \in Msgs => MessageInv(t)') /\ (t \in Reapers => ReaperInv(t)')
      BY <2>0, <2>3, ResumedIsPc DEF Track, HandInv, MessageInv, ReaperInv
    <3> QED BY <3>1, <3>2, StepOfOne
  <2>4. CASE Forget(t)
    <3>1. OnlyMoves(t) /\ HandInv(t)'
      BY <2>0, <2>4, ResumedIsPc DEF Forget, OnlyMoves, HandInv
    <3>2. /\ pc[t] = "forget" /\ UNCHANGED <<tries, claimed, absorbed>>
          /\ \/ pc'[t] = "deliver" /\ op'[t] = op[t] /\ grp'[t] = grp[t]
             \/ pc'[t] = Resumed(t) /\ op'[t] = "fold" /\ grp'[t] = Back(t) /\ carry[t] = {}
      BY <2>4 DEF Forget
    <3>3. ASSUME t \in Msgs PROVE MessageInv(t)'
      <4>1. Back(t) = Key[t] /\ MessageInv(t) /\ HandInv(t) /\ tries[t] \in 0..Attempts
        BY <2>0, <3>3
      <4>2. Resumed(t) \in {"failed", "reserve"} /\ (Resumed(t) = "reserve" => tries[t] # Attempts)
        BY <3>3, ResumedIsPc
      <4>3. Attempts \in Nat
        OBVIOUS
      <4> HIDE AggregateAssumption DEF TypeOK
      <4> QED BY <3>2, <4>1, <4>2, <4>3 DEF HandInv, MessageInv
    <3>4. t \in Reapers => ReaperInv(t)'
      BY <2>0, <3>2, ResumedIsPc DEF ReaperInv
    <3> QED BY <3>1, <3>3, <3>4, StepOfOne
  <2>5. CASE Deliver(t)
    <3>1. OnlyMoves(t) /\ HandInv(t)'
      BY <2>0, <2>5, ResumedIsPc DEF Deliver, OnlyMoves, HandInv
    <3>2. (t \in Msgs => MessageInv(t)') /\ (t \in Reapers => ReaperInv(t)')
      BY <2>0, <2>5, ResumedIsPc DEF Deliver, HandInv, MessageInv, ReaperInv
    <3> QED BY <3>1, <3>2, StepOfOne
  <2>6. CASE Restore(t)
    <3>1. OnlyMoves(t) /\ HandInv(t)'
      BY <2>0, <2>6, ResumedIsPc DEF Restore, OnlyMoves, HandInv
    <3>2. (t \in Msgs => MessageInv(t)') /\ (t \in Reapers => ReaperInv(t)')
      BY <2>0, <2>6, ResumedIsPc DEF Restore, HandInv, MessageInv, ReaperInv
    <3> QED BY <3>1, <3>2, StepOfOne
  <2>7. CASE StoreError(t)
    <3>1. OnlyMoves(t) /\ HandInv(t)'
      BY <2>0, <2>7, ResumedIsPc DEF StoreError, OnlyMoves, HandInv
    <3>2. (t \in Msgs => MessageInv(t)') /\ (t \in Reapers => ReaperInv(t)')
      BY <2>0, <2>7, ResumedIsPc DEF StoreError, HandInv, MessageInv, ReaperInv
    <3> QED BY <3>1, <3>2, StepOfOne
  <2> QED BY <1>4, <2>1, <2>2, <2>3, <2>4, <2>5, <2>6, <2>7
<1>5. CASE UNCHANGED <<thread, absorbed>>
  BY <1>5 DEF StepInv, HandInv, MessageInv, ReaperInv
<1> QED
  BY <1>1, <1>2, <1>3, <1>4, <1>5
  DEF Next, MessageStep, ReaperStep, GroupStep, LockStep, Expire, vars

\* Whoever holds a stripe held it, or found it free.
LEMMA LockOfOne ==
    ASSUME LockInv, NEW t \in Threads,
           \A u \in Threads \ {t} : pc'[u] = pc[u] /\ grp'[u] = grp[u],
           Holding(t)' => grp'[t] = grp[t] /\ (Holding(t) \/ StripeFree(t))
    PROVE  LockInv'
  BY DEF LockInv, Holding, StripeFree

\* The stripes.
LEMMA LockInvStep == Inv /\ [Next]_vars => LockInv'
<1> SUFFICES ASSUME Inv, [Next]_vars PROVE LockInv'
  OBVIOUS
<1> USE AggregateAssumption DEF Inv, TypeOK, Goto
<1>0. Msgs \subseteq Threads /\ Reapers \subseteq Threads
  BY DEF Threads
<1>1. ASSUME NEW m \in Msgs, MessageStep(m) \/ FailFold(m) PROVE LockInv'
  <2>1. \A u \in Threads \ {m} : pc'[u] = pc[u] /\ grp'[u] = grp[u]
    BY <1>0, <1>1 DEF MessageStep, Claim, Refuse, Overflow, Evict, CommitFold, GiveBack, FailFold
  <2>2. Holding(m)' => grp'[m] = grp[m] /\ Holding(m)
    BY <1>0, <1>1, ResumedIsPc
    DEF MessageStep, Claim, Refuse, Overflow, Evict, CommitFold, GiveBack, FailFold, Failed, Holding
  <2> QED BY <1>0, <2>1, <2>2, LockOfOne
<1>2. ASSUME NEW r \in Reapers, ReaperStep(r) PROVE LockInv'
  <2>1. \A u \in Threads \ {r} : pc'[u] = pc[u] /\ grp'[u] = grp[u]
    BY <1>0, <1>2 DEF ReaperStep, Sweep, Visit
  <2>2. ~Holding(r)'
    BY <1>0, <1>2 DEF ReaperStep, Sweep, Visit, Holding
  <2> QED BY <1>0, <2>1, <2>2, LockOfOne
<1>3. ASSUME NEW t \in Threads, GroupStep(t) \/ LockStep(t) \/ RefuseDelivery(t) \/ StoreError(t)
      PROVE  LockInv'
  <2>1. \A u \in Threads \ {t} : pc'[u] = pc[u] /\ grp'[u] = grp[u]
    BY <1>3 DEF GroupStep, LockStep, CommitTake, Track, Forget, Deliver, Read, Restore, RefuseDelivery,
            StoreError
  <2>2. Resumed(t) \in {"idle", "sweep", "failed", "reserve"}
    BY ResumedIsPc DEF Threads
  <2>3. Holding(t)' => grp'[t] = grp[t] /\ (Holding(t) \/ StripeFree(t))
    <3>1. CASE CommitTake(t) \/ Track(t) \/ Forget(t)
      BY <2>2, <3>1 DEF CommitTake, Track, Forget, Holding
    <3>2. CASE Deliver(t) \/ RefuseDelivery(t) \/ Read(t) \/ Restore(t) \/ StoreError(t)
      BY <2>2, <3>2 DEF Deliver, RefuseDelivery, Read, Restore, StoreError, Holding
    <3> QED BY <1>3, <3>1, <3>2 DEF GroupStep, LockStep
  <2> QED BY <2>1, <2>3, LockOfOne
<1>4. CASE UNCHANGED thread
  BY <1>4 DEF LockInv, Holding, thread
<1> QED BY <1>1, <1>2, <1>3, <1>4 DEF Next, Expire, vars

\* The invariant of any number of replicas.
LEMMA InvStep == Inv /\ [Next]_vars => Inv'
  BY TypeStep, StepStep, LockInvStep DEF Inv

----------------------------------------------------------------------------
(* One replica *)

OneReplica == \A t, u \in Threads : Home[t] = Home[u]

\* While a goroutine holds a stripe, what it read, stored or took out stays so.
Held(t) ==
    /\ pc[t] = "commit" => seen[t] = kv[grp[t]]
    /\ pc[t] = "track" => Stored(grp[t])
    /\ pc[t] = "forget" => ~Stored(grp[t])

HeldInv == \A t \in Threads : Held(t)

LEMMA HeldOfOne ==
    ASSUME OneReplica, Inv, HeldInv, NEW t \in Threads,
           \A u \in Threads \ {t} : pc'[u] = pc[u] /\ grp'[u] = grp[u] /\ seen'[u] = seen[u],
           \/ UNCHANGED kv
           \/ /\ Holding(t) \/ StripeFree(t)
              /\ \A g \in Groups \ {grp[t]} : kv'[g] = kv[g],
           Held(t)'
    PROVE  HeldInv'
<1> SUFFICES ASSUME NEW u \in Threads \ {t} PROVE Held(u)'
  BY DEF HeldInv
<1>1. CASE UNCHANGED kv
  BY <1>1 DEF HeldInv, Held, Stored
<1>2. CASE Holding(u) /\ (Holding(t) \/ StripeFree(t)) /\ \A g \in Groups \ {grp[t]} : kv'[g] = kv[g]
  <2>1. Stripe[grp[u]] # Stripe[grp[t]]
    BY <1>2 DEF OneReplica, Inv, LockInv, StripeFree
  <2>2. grp[u] \in Groups /\ kv'[grp[u]] = kv[grp[u]]
    BY <1>2, <2>1 DEF Inv, TypeOK
  <2> QED BY <2>2 DEF HeldInv, Held, Stored
<1>3. CASE ~Holding(u)
  BY <1>3 DEF Held, Holding
<1> QED BY <1>1, <1>2, <1>3

LEMMA HeldStep == OneReplica /\ Inv /\ HeldInv /\ [Next]_vars => HeldInv'
<1> SUFFICES ASSUME OneReplica, Inv, HeldInv, [Next]_vars PROVE HeldInv'
  OBVIOUS
<1>0. /\ Msgs \subseteq Threads /\ Reapers \subseteq Threads
      /\ \A t \in Threads : Resumed(t) \in {"idle", "sweep", "failed", "reserve"}
  BY ResumedIsPc DEF Threads
<1> USE AggregateAssumption DEF Goto
<1>1. ASSUME NEW t \in Threads, UNCHANGED kv, pc'[t] \notin {"commit", "track", "forget"},
             \A u \in Threads \ {t} : pc'[u] = pc[u] /\ grp'[u] = grp[u] /\ seen'[u] = seen[u]
      PROVE  HeldInv'
  BY <1>1, HeldOfOne DEF Held
<1>2. ASSUME NEW m \in Msgs,
             \/ Claim(m) \/ Refuse(m) \/ Overflow(m) \/ Evict(m) \/ GiveBack(m) \/ FailFold(m)
      PROVE  HeldInv'
  <2>1. /\ UNCHANGED kv /\ pc'[m] \notin {"commit", "track", "forget"}
        /\ \A u \in Threads \ {m} : pc'[u] = pc[u] /\ grp'[u] = grp[u] /\ seen'[u] = seen[u]
    BY <1>0, <1>2
    DEF Claim, Refuse, Overflow, Evict, GiveBack, FailFold, Failed, Inv, TypeOK
  <2> QED BY <1>0, <1>1, <2>1
<1>3. ASSUME NEW r \in Reapers, ReaperStep(r) PROVE HeldInv'
  <2>1. /\ UNCHANGED kv /\ pc'[r] \notin {"commit", "track", "forget"}
        /\ \A u \in Threads \ {r} : pc'[u] = pc[u] /\ grp'[u] = grp[u] /\ seen'[u] = seen[u]
    BY <1>0, <1>3 DEF ReaperStep, Sweep, Visit, Inv, TypeOK
  <2> QED BY <1>0, <1>1, <2>1
<1>4. ASSUME NEW t \in Threads,
             Track(t) \/ Forget(t) \/ Deliver(t) \/ RefuseDelivery(t) \/ StoreError(t)
      PROVE  HeldInv'
  <2>1. /\ UNCHANGED kv /\ pc'[t] \notin {"commit", "track", "forget"}
        /\ \A u \in Threads \ {t} : pc'[u] = pc[u] /\ grp'[u] = grp[u] /\ seen'[u] = seen[u]
    BY <1>0, <1>4 DEF Track, Forget, Deliver, RefuseDelivery, StoreError, Inv, TypeOK
  <2> QED BY <1>1, <2>1
<1>5. ASSUME NEW t \in Threads, Read(t) PROVE HeldInv'
  <2>1. /\ UNCHANGED kv /\ Held(t)'
        /\ \A u \in Threads \ {t} : pc'[u] = pc[u] /\ grp'[u] = grp[u] /\ seen'[u] = seen[u]
    BY <1>5 DEF Read, Held, Inv, TypeOK
  <2> QED BY <2>1, HeldOfOne
<1>6. ASSUME NEW m \in Msgs, CommitFold(m) PROVE HeldInv'
  <2>1. /\ Holding(m) /\ m \in Threads /\ seen[m] = kv[grp[m]] /\ grp[m] \in Groups
        /\ seen[m].ver \in Nat
    BY <1>0, <1>6 DEF CommitFold, Holding, HeldInv, Held, Inv, TypeOK, Entry
  <2>2. /\ \A u \in Threads \ {m} : pc'[u] = pc[u] /\ grp'[u] = grp[u] /\ seen'[u] = seen[u]
        /\ \A g \in Groups \ {grp[m]} : kv'[g] = kv[g]
    BY <1>6, <2>1 DEF CommitFold, Inv, TypeOK
  <2>3. /\ UNCHANGED grp /\ pc'[m] # "commit"
        /\ pc'[m] = "track" => kv'[grp[m]].ver = seen[m].ver + 1
        /\ pc'[m] = "forget" => kv'[grp[m]].ver = 0
    BY <1>6, <2>1 DEF CommitFold, Failed, Absent, Inv, TypeOK
  <2>4. Held(m)'
    BY <2>1, <2>3 DEF Held, Stored
  <2> QED BY <2>1, <2>2, <2>4, HeldOfOne
<1>7. ASSUME NEW t \in Threads, CommitTake(t) PROVE HeldInv'
  <2>1. /\ Holding(t) /\ seen[t] = kv[grp[t]] /\ grp[t] \in Groups /\ seen[t].ver \in Nat
    BY <1>7 DEF CommitTake, Holding, HeldInv, Held, Inv, TypeOK, Entry
  <2>2. /\ \A u \in Threads \ {t} : pc'[u] = pc[u] /\ grp'[u] = grp[u] /\ seen'[u] = seen[u]
        /\ \A g \in Groups \ {grp[t]} : kv'[g] = kv[g]
    BY <1>7, <2>1 DEF CommitTake, Inv, TypeOK
  <2>3. /\ pc'[t] \notin {"commit", "track"}
        /\ pc'[t] = "forget" => grp'[t] = grp[t] /\ kv'[grp[t]].ver = 0
    BY <1>0, <1>7, <2>1 DEF CommitTake, Absent, Inv, TypeOK
  <2>4. Held(t)'
    BY <2>1, <2>3 DEF Held, Stored
  <2> QED BY <2>1, <2>2, <2>4, HeldOfOne
<1>8. ASSUME NEW t \in Threads, Restore(t) PROVE HeldInv'
  <2>1. /\ \A u \in Threads \ {t} : pc'[u] = pc[u] /\ grp'[u] = grp[u] /\ seen'[u] = seen[u]
        /\ \A g \in Groups \ {grp[t]} : kv'[g] = kv[g]
        /\ StripeFree(t)
    BY <1>8 DEF Restore, Inv, TypeOK
  <2>2. /\ pc'[t] \notin {"commit", "forget"}
        /\ pc'[t] = "track" => grp'[t] = grp[t] /\ kv'[grp[t]].ver = 1
    <3>1. CASE SetWins(grp[t], 0)
      BY <1>8, <3>1 DEF Restore, Inv, TypeOK
    <3>2. CASE ~SetWins(grp[t], 0)
      <4>1. pc' = [pc EXCEPT ![t] = Resumed(t)]
        BY <1>8, <3>2 DEF Restore
      <4> QED BY <1>0, <4>1 DEF Inv, TypeOK
    <3> QED BY <3>1, <3>2
  <2>3. Held(t)'
    BY <2>2 DEF Held, Stored
  <2> QED BY <2>1, <2>3, HeldOfOne
<1>9. CASE UNCHANGED <<kv, thread>>
  BY <1>9 DEF HeldInv, Held, Stored, thread
<1> QED
  BY <1>2, <1>3, <1>4, <1>5, <1>6, <1>7, <1>8, <1>9
  DEF Next, MessageStep, GroupStep, LockStep, Expire, vars

\* The index follows the store, as far as its updates land.
IndexInv == StoredHasDeadline /\ NoLeakedSlot

LEMMA IndexStep == OneReplica /\ Inv /\ HeldInv /\ IndexInv /\ [Next]_vars => IndexInv'
<1> SUFFICES ASSUME OneReplica, Inv, HeldInv, IndexInv, [Next]_vars PROVE IndexInv'
  OBVIOUS
<1>0. /\ Msgs \subseteq Threads /\ Reapers \subseteq Threads
      /\ \A t \in Threads : Resumed(t) \in {"idle", "sweep", "failed", "reserve"}
  BY ResumedIsPc DEF Threads
<1>0a. /\ claimed \subseteq Msgs /\ claimed \subseteq Threads
       /\ index \in [Groups -> {"none", "claim", "open", "due"}]
       /\ \A u \in Threads : grp[u] \in Groups
  BY DEF Inv, TypeOK, Threads
<1>0b. Key \in [Msgs -> Groups]
  BY AggregateAssumption
<1> USE DEF Goto, IndexInv, history, failures
<1>1. ASSUME NEW m \in Msgs, Claim(m) \/ Refuse(m) \/ Overflow(m) \/ Evict(m) PROVE IndexInv'
  <2>1. /\ UNCHANGED <<kv, missing, leftover>> /\ pc[m] \in {"reserve", "evict"}
        /\ \A u \in Threads \ {m} : pc'[u] = pc[u] /\ grp'[u] = grp[u] /\ op'[u] = op[u]
        /\ claimed \subseteq claimed'
    BY <1>0, <1>1 DEF Claim, Refuse, Full, Overflow, Evict, Inv, TypeOK
  <2>2. \/ UNCHANGED index
        \/ /\ index' = [index EXCEPT ![grp[m]] = "claim"] /\ m \in claimed' /\ pc'[m] = "read"
           /\ op'[m] = "fold" /\ grp[m] = Key[m] /\ index[grp[m]] = "none"
    BY <1>0, <1>1
    DEF Claim, Refuse, Full, Overflow, Evict, Indexed, Inv, TypeOK, StepInv, MessageInv, Ended
  <2>3. StoredHasDeadline'
    BY <1>0, <2>1, <2>2, <1>0a, <1>0b
    DEF StoredHasDeadline, Stored, Indexed
  <2>4. NoLeakedSlot'
    BY <1>0, <2>1, <2>2, <1>0a, <1>0b
    DEF NoLeakedSlot, Stored, Indexed
  <2> QED BY <2>3, <2>4
<1>2. ASSUME NEW m \in Msgs, FailFold(m) PROVE IndexInv'
  <2>1. /\ UNCHANGED <<kv, index, claimed, op, grp, missing, leftover>>
        /\ pc[m] = "commit" /\ op[m] = "fold"
        /\ pc' = [pc EXCEPT ![m] = IF m \in claimed THEN "giveback" ELSE "failed"]
    BY <1>2 DEF FailFold, Failed
  <2>2. StoredHasDeadline'
    BY <1>0, <2>1, <1>0a, <1>0b
    DEF StoredHasDeadline, Stored, Indexed
  <2>3. NoLeakedSlot'
    BY <1>0, <2>1, <1>0a, <1>0b
    DEF NoLeakedSlot, Stored, Indexed
  <2> QED BY <2>2, <2>3
<1>3. ASSUME NEW m \in Msgs, GiveBack(m) PROVE IndexInv'
  <2>1. /\ UNCHANGED <<kv, op, grp>> /\ pc[m] = "giveback" /\ grp[m] = Key[m]
        /\ \A u \in Threads \ {m} : pc'[u] = pc[u]
        /\ claimed' = claimed \ {m}
    BY <1>0, <1>3 DEF GiveBack, Inv, TypeOK, StepInv, MessageInv, Ended
  <2>2. \/ /\ index' = [index EXCEPT ![grp[m]] = "none"]
           /\ missing' = IF Stored(grp[m]) THEN missing \cup {grp[m]} ELSE missing
           /\ leftover' = leftover \ {grp[m]}
        \/ /\ UNCHANGED <<index, missing>>
           /\ leftover' = IF Stored(grp[m]) THEN leftover
                          ELSE leftover \cup ({grp[m]} \cap Indexed)
    BY <1>3 DEF GiveBack, UpdateIndex
  <2>3. StoredHasDeadline'
    BY <1>0, <2>1, <2>2, <1>0a DEF StoredHasDeadline, Stored
  <2>4. NoLeakedSlot'
    BY <1>0, <2>1, <2>2, <1>0a, <1>0b DEF NoLeakedSlot, Stored, Indexed
  <2> QED BY <2>3, <2>4
<1>4. ASSUME NEW m \in Msgs, CommitFold(m) PROVE IndexInv'
  <2>0. /\ m \in Threads /\ seen[m] = kv[grp[m]] /\ grp[m] \in Groups /\ seen[m].ver \in Nat
        /\ pc[m] = "commit"
    BY <1>0, <1>4 DEF CommitFold, HeldInv, Held, Inv, TypeOK, Entry
  <2>1. /\ UNCHANGED <<index, op, grp, missing, leftover>> /\ claimed \ {m} \subseteq claimed'
        /\ \A u \in Threads \ {m} : pc'[u] = pc[u]
        /\ \A g \in Groups \ {grp[m]} : kv'[g] = kv[g]
    BY <1>4 DEF CommitFold, Inv, TypeOK
  <2>2. \/ pc'[m] = "forget" /\ kv'[grp[m]].ver = 0
        \/ pc'[m] = "track" /\ kv'[grp[m]].ver = seen[m].ver + 1
    BY <1>4, <2>0 DEF CommitFold, SetWins, DeleteWins, Absent, Inv, TypeOK
  <2>3. StoredHasDeadline'
    BY <1>0, <2>0, <2>1, <2>2, <1>0a, <1>0b
    DEF StoredHasDeadline, Stored, Indexed
  <2>4. NoLeakedSlot'
    BY <1>0, <2>0, <2>1, <2>2, <1>0a, <1>0b
    DEF NoLeakedSlot, Stored, Indexed, Inv, StepInv, MessageInv, Ended
  <2> QED BY <2>3, <2>4
<1>5. ASSUME NEW t \in Threads, CommitTake(t) PROVE IndexInv'
  <2>0. grp[t] \in Groups /\ pc[t] = "commit" /\ op[t] # "fold"
    BY <1>5 DEF CommitTake, Inv, TypeOK
  <2>1. /\ UNCHANGED <<index, claimed, missing, leftover>>
        /\ \A u \in Threads \ {t} : pc'[u] = pc[u] /\ op'[u] = op[u] /\ grp'[u] = grp[u]
        /\ \A g \in Groups \ {grp[t]} : kv'[g] = kv[g]
    BY <1>5 DEF CommitTake, Inv, TypeOK
  <2>2. \/ pc'[t] = "forget" /\ grp'[t] = grp[t] /\ (UNCHANGED kv \/ kv'[grp[t]].ver = 0)
        \/ UNCHANGED kv
    BY <1>5, <2>0 DEF CommitTake, Absent, Inv, TypeOK
  <2>3. StoredHasDeadline'
    BY <1>0, <2>0, <2>1, <2>2, <1>0a, <1>0b
    DEF StoredHasDeadline, Stored, Indexed
  <2>4. NoLeakedSlot'
    BY <1>0, <2>0, <2>1, <2>2, <1>0a, <1>0b
    DEF NoLeakedSlot, Stored, Indexed
  <2> QED BY <2>3, <2>4
<1>6. ASSUME NEW t \in Threads, Track(t) PROVE IndexInv'
  <2>0. grp[t] \in Groups /\ pc[t] = "track" /\ Stored(grp[t])
    BY <1>6 DEF Track, Inv, TypeOK, HeldInv, Held
  <2>1. /\ UNCHANGED <<kv, claimed>> /\ leftover' = leftover \ {grp[t]}
        /\ \/ index' = [index EXCEPT ![grp[t]] = "open"] /\ missing' = missing \ {grp[t]}
           \/ UNCHANGED index /\ missing' = missing \cup {grp[t]}
        /\ \A u \in Threads \ {t} : pc'[u] = pc[u] /\ op'[u] = op[u] /\ grp'[u] = grp[u]
    BY <1>0, <1>6 DEF Track, UpdateIndex, Inv, TypeOK
  <2>2. StoredHasDeadline'
    BY <1>0, <2>0, <2>1, <1>0a, <1>0b
    DEF StoredHasDeadline, Stored, Indexed
  <2>3. NoLeakedSlot'
    BY <1>0, <2>0, <2>1, <1>0a, <1>0b
    DEF NoLeakedSlot, Stored, Indexed
  <2> QED BY <2>2, <2>3
<1>7. ASSUME NEW t \in Threads, Forget(t) PROVE IndexInv'
  <2>0. grp[t] \in Groups /\ pc[t] = "forget" /\ ~Stored(grp[t])
    BY <1>7 DEF Forget, Inv, TypeOK, HeldInv, Held
  <2>1. /\ UNCHANGED <<kv, claimed>> /\ missing' = missing \ {grp[t]}
        /\ \/ index' = [index EXCEPT ![grp[t]] = "none"] /\ leftover' = leftover \ {grp[t]}
           \/ UNCHANGED index /\ leftover' = leftover \cup ({grp[t]} \cap Indexed)
        /\ \A u \in Threads \ {t} : pc'[u] = pc[u] /\ op'[u] = op[u] /\ grp'[u] = grp[u]
    BY <1>0, <1>7 DEF Forget, UpdateIndex, Inv, TypeOK
  <2>2. StoredHasDeadline'
    BY <1>0, <2>0, <2>1, <1>0a, <1>0b
    DEF StoredHasDeadline, Stored, Indexed
  <2>3. NoLeakedSlot'
    BY <1>0, <2>0, <2>1, <1>0a, <1>0b
    DEF NoLeakedSlot, Stored, Indexed
  <2> QED BY <2>2, <2>3
<1>8. ASSUME NEW t \in Threads, Restore(t) PROVE IndexInv'
  <2>0. grp[t] \in Groups /\ pc[t] = "restore"
    BY <1>8 DEF Restore, Inv, TypeOK
  <2>1. /\ UNCHANGED <<index, claimed, missing, leftover>>
        /\ \A u \in Threads \ {t} : pc'[u] = pc[u] /\ op'[u] = op[u] /\ grp'[u] = grp[u]
    BY <1>8 DEF Restore, Inv, TypeOK
  <2>2. \/ UNCHANGED kv
        \/ /\ pc'[t] = "track" /\ grp'[t] = grp[t] /\ kv'[grp[t]].ver = 1
           /\ \A g \in Groups \ {grp[t]} : kv'[g] = kv[g]
    BY <1>8, <2>0 DEF Restore, Inv, TypeOK
  <2>3. StoredHasDeadline'
    BY <1>0, <2>0, <2>1, <2>2, <1>0a, <1>0b
    DEF StoredHasDeadline, Stored, Indexed
  <2>4. NoLeakedSlot'
    BY <1>0, <2>0, <2>1, <2>2, <1>0a, <1>0b
    DEF NoLeakedSlot, Stored, Indexed
  <2> QED BY <2>3, <2>4
<1>9. ASSUME NEW t \in Threads,
             Read(t) \/ Deliver(t) \/ RefuseDelivery(t) \/ StoreError(t) \/ ReaperStep(t)
      PROVE  IndexInv'
  <2>1. /\ UNCHANGED <<kv, index, claimed, missing, leftover>>
        /\ \A u \in Threads \ {t} : pc'[u] = pc[u] /\ op'[u] = op[u] /\ grp'[u] = grp[u]
        /\ \/ /\ pc[t] \in {"read", "reread"} /\ pc'[t] = "commit"
              /\ op'[t] = op[t] /\ grp'[t] = grp[t]
           \/ pc[t] \in {"deliver", "idle", "sweep", "reserve", "evict", "restore"}
           \/ pc[t] = "commit" /\ op[t] # "fold"
    BY <1>9 DEF Read, Deliver, RefuseDelivery, StoreError, ReaperStep, Sweep, Visit, Inv, TypeOK
  <2>2. StoredHasDeadline'
    BY <1>0, <2>1, <1>0a, <1>0b
    DEF StoredHasDeadline, Stored, Indexed
  <2>3. NoLeakedSlot'
    BY <1>0, <2>1, <1>0a, <1>0b
    DEF NoLeakedSlot, Stored, Indexed
  <2> QED BY <2>2, <2>3
<1>10. ASSUME NEW g \in Groups, Expire(g) PROVE IndexInv'
  <2>1. UNCHANGED <<kv, pc, op, grp, claimed, missing, leftover>>
    BY <1>10 DEF Expire, thread
  <2>2. index[g] = "open" /\ index' = [index EXCEPT ![g] = "due"]
    BY <1>10 DEF Expire
  <2>3. \A h \in Groups : index'[h] = index[h] \/ (index[h] = "open" /\ index'[h] = "due")
    BY <1>0a, <2>2
  <2> QED BY <2>1, <2>3 DEF StoredHasDeadline, NoLeakedSlot, Stored, Indexed
<1>11. CASE UNCHANGED vars
  BY <1>11 DEF vars, thread, StoredHasDeadline, NoLeakedSlot, Stored, Indexed
<1> QED
  BY <1>0, <1>1, <1>2, <1>3, <1>4, <1>5, <1>6, <1>7, <1>8, <1>9, <1>10, <1>11
  DEF Next, MessageStep, GroupStep, LockStep

----------------------------------------------------------------------------
(* Where a message is *)

Somewhere(m) ==
    \/ \E g \in Groups : m \in kv[g].msgs
    \/ \E t \in Threads : m \in carry[t]
    \/ out[m] = 1
    \/ m \in lost

\* An absorbed message is in one place: one stored group, one group on its way out, one
\* delivery or the groups given up.
Once(m) ==
    /\ m \in absorbed <=> Somewhere(m)
    /\ out[m] \in {0, 1}
    /\ \A g, h \in Groups : m \in kv[g].msgs /\ m \in kv[h].msgs => g = h
    /\ \A t, u \in Threads : m \in carry[t] /\ m \in carry[u] => t = u
    /\ \A g \in Groups, t \in Threads : m \notin kv[g].msgs \/ m \notin carry[t]
    /\ out[m] = 1 \/ m \in lost =>
          /\ \A g \in Groups : m \notin kv[g].msgs
          /\ \A t \in Threads : m \notin carry[t]
    /\ out[m] = 0 \/ m \notin lost

OnceInv == \A m \in Msgs : Once(m)

LEMMA OnceStep == OneReplica /\ Inv /\ HeldInv /\ OnceInv /\ [Next]_vars => OnceInv'
<1> SUFFICES ASSUME OneReplica, Inv, HeldInv, OnceInv, [Next]_vars, NEW m \in Msgs PROVE Once(m)'
  BY DEF OnceInv
<1>0. /\ Msgs \subseteq Threads /\ Reapers \subseteq Threads /\ Once(m)
      /\ kv \in [Groups -> Entry] /\ carry \in [Threads -> SUBSET Msgs]
      /\ \A t \in Threads : grp[t] \in Groups
      /\ out \in [Msgs -> Nat]
  BY DEF Threads, OnceInv, Inv, TypeOK
<1>1. CASE UNCHANGED <<kv, carry, out, lost, absorbed>>
  BY <1>0, <1>1 DEF Once, Somewhere
<1>2. ASSUME NEW n \in Msgs, CommitFold(n) PROVE Once(m)'
  <2>0. /\ n \in Threads /\ n \notin absorbed /\ carry[n] = {} /\ grp[n] \in Groups
        /\ seen[n] = kv[grp[n]] /\ seen[n].ver \in Nat
        /\ seen[n].ver = 0 => seen[n].msgs = {}
    <3>1. n \in Threads /\ pc[n] = "commit" /\ op[n] = "fold"
      BY <1>0, <1>2 DEF CommitFold
    <3>2. seen[n] = kv[grp[n]] /\ HandInv(n) /\ MessageInv(n)
      BY <3>1 DEF HeldInv, Held, Inv, StepInv
    <3>3. n \notin absorbed /\ carry[n] = {}
      BY <3>1, <3>2 DEF HandInv, MessageInv, Ended
    <3>4. seen[n] \in Entry /\ (seen[n].ver > 0 <=> seen[n].msgs # {})
      BY <1>0, <3>1, <3>2 DEF Inv, TypeOK, Stored
    <3>5. seen[n].ver \in Nat /\ (seen[n].ver = 0 => seen[n].msgs = {})
      BY <3>4 DEF Entry
    <3> QED BY <1>0, <3>1, <3>2, <3>3, <3>5
  <2>1. /\ UNCHANGED <<out, lost>> /\ absorbed' = absorbed \cup {n}
        /\ carry' = [carry EXCEPT ![n] = IF Completes(n) THEN seen[n].msgs \cup {n} ELSE {}]
        /\ kv' = IF ~Completes(n)
                 THEN [kv EXCEPT ![grp[n]] = [ver |-> seen[n].ver + 1, msgs |-> seen[n].msgs \cup {n}]]
                 ELSE IF seen[n].ver = 0 THEN kv ELSE [kv EXCEPT ![grp[n]] = Absent]
    BY <1>2, <2>0 DEF CommitFold, SetWins, DeleteWins
  <2>2. CASE Completes(n)
    <3>1. /\ kv'[grp[n]].msgs = {} /\ \A g \in Groups \ {grp[n]} : kv'[g] = kv[g]
          /\ carry'[n] = kv[grp[n]].msgs \cup {n} /\ \A t \in Threads \ {n} : carry'[t] = carry[t]
      BY <1>0, <2>0, <2>1, <2>2 DEF Absent
    <3> QED BY <1>0, <2>0, <2>1, <3>1 DEF Once, Somewhere
  <2>3. CASE ~Completes(n)
    <3>1. /\ kv'[grp[n]].msgs = kv[grp[n]].msgs \cup {n}
          /\ \A g \in Groups \ {grp[n]} : kv'[g] = kv[g]
          /\ \A t \in Threads : carry'[t] = carry[t]
      BY <1>0, <2>0, <2>1, <2>3
    <3> QED BY <1>0, <2>0, <2>1, <3>1 DEF Once, Somewhere
  <2> QED BY <2>2, <2>3
<1>3. ASSUME NEW t \in Threads, CommitTake(t) PROVE Once(m)'
  <2>0. /\ carry[t] = {} /\ grp[t] \in Groups /\ seen[t] = kv[grp[t]]
    BY <1>3 DEF CommitTake, Inv, TypeOK, StepInv, HandInv, HeldInv, Held
  <2>1. /\ UNCHANGED <<out, lost, absorbed>>
        /\ \/ UNCHANGED kv /\ carry' = [carry EXCEPT ![t] = {}]
           \/ kv' = [kv EXCEPT ![grp[t]] = Absent] /\ carry' = [carry EXCEPT ![t] = seen[t].msgs]
    BY <1>3 DEF CommitTake, history
  <2>2. \/ UNCHANGED kv /\ \A u \in Threads : carry'[u] = carry[u]
        \/ /\ kv'[grp[t]].msgs = {} /\ \A g \in Groups \ {grp[t]} : kv'[g] = kv[g]
           /\ carry'[t] = kv[grp[t]].msgs /\ \A u \in Threads \ {t} : carry'[u] = carry[u]
    <3>1. CASE UNCHANGED kv /\ carry' = [carry EXCEPT ![t] = {}]
      BY <1>0, <2>0, <3>1
    <3>2. CASE kv' = [kv EXCEPT ![grp[t]] = Absent] /\ carry' = [carry EXCEPT ![t] = seen[t].msgs]
      BY <1>0, <2>0, <3>2 DEF Absent
    <3> QED BY <2>1, <3>1, <3>2
  <2> QED BY <1>0, <2>0, <2>1, <2>2 DEF Once, Somewhere
<1>4. ASSUME NEW t \in Threads, Deliver(t) PROVE Once(m)'
  <2>1. /\ UNCHANGED <<kv, lost, absorbed>>
        /\ carry'[t] = {} /\ \A u \in Threads \ {t} : carry'[u] = carry[u]
        /\ out'[m] = IF m \in carry[t] THEN out[m] + 1 ELSE out[m]
    BY <1>0, <1>4 DEF Deliver
  <2> QED BY <1>0, <2>1 DEF Once, Somewhere
<1>5. ASSUME NEW t \in Threads, Restore(t) PROVE Once(m)'
  <2>0. grp[t] \in Groups /\ (kv[grp[t]].ver = 0 => kv[grp[t]].msgs = {})
    BY DEF Inv, TypeOK, Stored
  <2>1. /\ UNCHANGED <<out, absorbed>>
        /\ carry'[t] = {} /\ \A u \in Threads \ {t} : carry'[u] = carry[u]
        /\ \/ UNCHANGED kv /\ lost' = lost \cup carry[t]
           \/ /\ kv[grp[t]].msgs = {} /\ kv'[grp[t]].msgs = carry[t] /\ lost' = lost
              /\ \A g \in Groups \ {grp[t]} : kv'[g] = kv[g]
    BY <1>0, <1>5, <2>0 DEF Restore, SetWins
  <2> QED BY <1>0, <2>0, <2>1 DEF Once, Somewhere
<1>6. ASSUME NEW n \in Msgs,
             Claim(n) \/ Refuse(n) \/ Overflow(n) \/ Evict(n) \/ GiveBack(n) \/ FailFold(n)
      PROVE  Once(m)'
  BY <1>1, <1>6 DEF Claim, Refuse, Overflow, Evict, GiveBack, FailFold, history
<1>6a. ASSUME NEW t \in Threads, StoreError(t) PROVE Once(m)'
  <2>1. /\ UNCHANGED <<kv, out, absorbed>> /\ lost' = lost \cup carry[t]
        /\ carry'[t] = {} /\ \A u \in Threads \ {t} : carry'[u] = carry[u]
    BY <1>0, <1>6a DEF StoreError
  <2> QED BY <1>0, <2>1 DEF Once, Somewhere
<1>7. ASSUME NEW t \in Threads,
             Read(t) \/ Track(t) \/ Forget(t) \/ RefuseDelivery(t) \/ ReaperStep(t)
      PROVE  Once(m)'
  BY <1>1, <1>7 DEF Read, Track, Forget, RefuseDelivery, ReaperStep, Sweep, Visit, history
<1>8. CASE UNCHANGED <<kv, thread, history>>
  BY <1>1, <1>8 DEF thread, history
<1> QED
  BY <1>0, <1>2, <1>3, <1>4, <1>5, <1>6, <1>6a, <1>7, <1>8
  DEF Next, MessageStep, GroupStep, LockStep, Expire, vars

\* A set with at most one member counts that member.
LEMMA CountOfOne ==
    ASSUME NEW S, \A x, y \in S : x = y
    PROVE  Cardinality(S) = IF S = {} THEN 0 ELSE 1
<1>1. CASE S = {}
  BY <1>1, FS_EmptySet
<1>2. ASSUME NEW x \in S PROVE Cardinality(S) = 1
  <2>1. S = {x}
    BY <1>2
  <2> QED BY <2>1, FS_Singleton
<1> QED BY <1>1, <1>2

\* Being in one place and being counted once are the same.
LEMMA OnceCounts == TypeOK /\ OnceInv => ExactlyOnce
<1> SUFFICES ASSUME TypeOK, OnceInv, NEW m \in Msgs
             PROVE  Copies(m) = IF m \in absorbed THEN 1 ELSE 0
  BY DEF ExactlyOnce
<1> DEFINE Kept == {g \in Groups : m \in kv[g].msgs}
           Taken == {t \in Threads : m \in carry[t]}
           Given == {m} \cap lost
<1>1. Once(m)
  BY DEF OnceInv
<1>2. /\ \A x, y \in Kept : x = y
      /\ \A x, y \in Taken : x = y
      /\ \A x, y \in Given : x = y
  BY <1>1 DEF Once
<1>3. /\ (Kept # {}) <=> \E g \in Groups : m \in kv[g].msgs
      /\ (Taken # {}) <=> \E t \in Threads : m \in carry[t]
      /\ (Given # {}) <=> m \in lost
  OBVIOUS
<1>4. Copies(m) = Cardinality(Kept) + Cardinality(Taken) + out[m] + Cardinality(Given)
  BY DEF Copies
<1> HIDE DEF Kept, Taken, Given
<1>5. /\ Cardinality(Kept) = IF Kept = {} THEN 0 ELSE 1
      /\ Cardinality(Taken) = IF Taken = {} THEN 0 ELSE 1
      /\ Cardinality(Given) = IF Given = {} THEN 0 ELSE 1
  BY <1>2, CountOfOne
<1>6. /\ out[m] \in {0, 1}
      /\ m \in absorbed <=> (Kept # {} \/ Taken # {} \/ out[m] = 1 \/ Given # {})
      /\ Kept = {} \/ Taken = {}
      /\ out[m] = 1 \/ Given # {} => Kept = {} /\ Taken = {}
      /\ out[m] = 0 \/ Given = {}
  BY <1>1, <1>3 DEF Once, Somewhere
<1> QED BY <1>4, <1>5, <1>6

----------------------------------------------------------------------------
(* Theorems *)

Alone == HeldInv /\ IndexInv /\ OnceInv

LEMMA InitAlone == Init => Alone
<1> SUFFICES ASSUME Init PROVE Alone
  OBVIOUS
<1> USE AggregateAssumption DEF Init, Threads, Absent
<1>1. HeldInv
  BY DEF HeldInv, Held
<1>2. IndexInv
  BY DEF IndexInv, StoredHasDeadline, NoLeakedSlot, Stored, Indexed
<1>3. OnceInv
  BY DEF OnceInv, Once, Somewhere
<1> QED BY <1>1, <1>2, <1>3 DEF Alone

LEMMA AloneStep == OneReplica /\ Inv /\ Alone /\ [Next]_vars => Alone'
  BY HeldStep, IndexStep, OnceStep DEF Alone

\* The goroutines of the block keep to the steps of foldMessage, release, deliver and sweep,
\* each holding its stripe alone on its replica, however many replicas share the store.
THEOREM InvariantHolds == Spec => []Inv
<1> QED BY InitInv, InvStep, PTL DEF Spec

\* The kinds of values, and that a stored group is never empty (aggregate.go, foldMessage and
\* restore), for every number of messages, groups and replicas.
THEOREM TypeCorrect == Spec => []TypeOK
<1>1. Inv => TypeOK
  BY DEF Inv
<1> QED BY <1>1, InvariantHolds, PTL

\* With one replica, what a goroutine read under the stripe stays true until it lets go, the
\* index follows the store as far as updateIndex lands, and each absorbed message is in one
\* place.
THEOREM AloneHolds == ASSUME OneReplica PROVE Spec => []Alone
<1>1. Alone /\ Inv /\ [Next]_vars => Alone'
  BY AloneStep
<1> QED BY <1>1, InitAlone, InvariantHolds, PTL DEF Spec

\* foldMessage, takeStored and deliver lose no message and put none into two groups: with one
\* replica every absorbed message is in exactly one place, in every state.
THEOREM FoldedOnce == ASSUME OneReplica PROVE Spec => []ExactlyOnce
<1>1. Inv /\ Alone => ExactlyOnce
  BY OnceCounts DEF Inv, Alone
<1> QED BY <1>1, InvariantHolds, AloneHolds, PTL

\* Within one replica the stripe (lockFor) makes the store's version checks certain, so the
\* optimistic loop of foldMessage never retries there.
THEOREM StripeSettlesConflicts == Spec => []NoSelfConflict
<1>1. CASE OneReplica
  <2>1. Alone => NoSelfConflict
    BY DEF Alone, HeldInv, Held, NoSelfConflict
  <2> QED BY <1>1, <2>1, AloneHolds, PTL
<1>2. CASE ~OneReplica
  <2>1. NoSelfConflict
    BY <1>2 DEF OneReplica, NoSelfConflict
  <2> QED BY <2>1, PTL
<1> QED BY <1>1, <1>2

\* With one replica every stored group has an entry with its deadline, save while an update
\* of its entry was given up or its slot was given back (updateIndex, foldMessage), however
\* many calls of the store fail.
THEOREM StoredGroupsHaveDeadlines == ASSUME OneReplica PROVE Spec => []StoredHasDeadline
<1>1. Alone => StoredHasDeadline
  BY DEF Alone, IndexInv
<1> QED BY <1>1, AloneHolds, PTL

\* With one replica no slot of the index leaks, save while its removal was given up: behind
\* every other entry is a stored group, a claim that will be folded or given back, or a
\* goroutine about to clear it (reserve, commitComplete, reclaimStale).
THEOREM SlotsDoNotLeak == ASSUME OneReplica PROVE Spec => []NoLeakedSlot
<1>1. Alone => NoLeakedSlot
  BY DEF Alone, IndexInv
<1> QED BY <1>1, AloneHolds, PTL
=============================================================================
