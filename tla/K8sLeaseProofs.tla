--------------------------- MODULE K8sLeaseProofs ---------------------------
(***************************************************************************)
(* Proofs about K8sLease, for every set of handles and replicas, every      *)
(* offset of their clocks below the TTL and every TTL: the Lease object     *)
(* implements the claim that core.Leases promises, as long as no replica    *)
(* has a renewal under way for one handle while another of its own has the  *)
(* name.  The run K8sLeaseRejoin shows what happens otherwise.              *)
(***************************************************************************)
EXTENDS K8sLease, TLAPS

\* The handle whose renewal goroutine is at work is the one the name is claimed for, when it
\* is claimed for one of its replica's.
OneRenewsPerReplica ==
    \A g, h \in Handles :
        renew[g] # "off" /\ owner = h /\ Identity[g] = Identity[h] => g = h

\* What a handle has done, by where its goroutines are.
HandleInv ==
    \A h \in Handles :
        /\ renew[h] # "off" => acquire[h] = "held"
        /\ h \in lost => acquire[h] = "held"

\* What a present version says of the object: a challenger's, that it has expired; a
\* renewal's, that it is the renewing handle's own; a handle's field, the same.
VersionInv ==
    \A h \in Handles :
        /\ acquire[h] = "update" /\ h \in got => Exists /\ Expired(Identity[h])
        /\ renew[h] \in {"update", "note"} /\ h \in got => owner = h
        /\ h \in holds => owner = h

Inv == TypeOK /\ HandleInv /\ VersionInv

----------------------------------------------------------------------------
\* The constants, in the form the steps use them.
LEMMA Constants ==
    /\ NoHandle \notin Handles
    /\ MaxOffset \in Nat /\ TTL \in Nat /\ MaxAge \in Nat /\ MaxAge = TTL + MaxOffset + 1
    /\ \A h \in Handles : Identity[h] \in Replicas
    /\ \A r \in Replicas : Offset[r] \in Nat /\ Offset[r] < TTL
  BY K8sLeaseAssumption DEF MaxAge

LEMMA InitInv == Init => Inv
  BY Constants DEF Init, Inv, TypeOK, HandleInv, VersionInv

\* The object's state and everybody's has its type in every step.
LEMMA TypeStep == TypeOK /\ [Next]_vars => TypeOK'
<1> SUFFICES ASSUME TypeOK, [Next]_vars PROVE TypeOK'
  OBVIOUS
<1> USE DEF TypeOK, object
<1>1. ASSUME NEW h \in Handles, Create(h) PROVE TypeOK'
  BY <1>1, Constants DEF Create, Admit, Hold
<1>2. ASSUME NEW h \in Handles, ReadHolder(h) PROVE TypeOK'
  BY <1>2 DEF ReadHolder
<1>3. ASSUME NEW h \in Handles, TakeOver(h) PROVE TypeOK'
  BY <1>3, Constants DEF TakeOver, Admit, Hold
<1>4. ASSUME NEW h \in Handles, AcquireFails(h) PROVE TypeOK'
  BY <1>4 DEF AcquireFails
<1>5. ASSUME NEW h \in Handles, ExtendRead(h) PROVE TypeOK'
  BY <1>5 DEF ExtendRead, Lose
<1>6. ASSUME NEW h \in Handles, ExtendWrite(h) PROVE TypeOK'
  BY <1>6, Constants DEF ExtendWrite
<1>7. ASSUME NEW h \in Handles, ExtendNote(h) PROVE TypeOK'
  BY <1>7 DEF ExtendNote
<1>8. ASSUME NEW h \in Handles, ExtendFails(h) PROVE TypeOK'
  BY <1>8 DEF ExtendFails, Lose
<1>9. ASSUME NEW h \in Handles, Close(h) PROVE TypeOK'
  BY <1>9 DEF Close
<1>10. ASSUME NEW h \in Handles, Delete(h) PROVE TypeOK'
  BY <1>10, Constants DEF Delete
<1>11. ASSUME NEW r \in Replicas, Crash(r) PROVE TypeOK'
  BY <1>11 DEF Crash
<1>12. CASE Tick
  BY <1>12, Constants DEF Tick
<1>13. CASE UNCHANGED vars
  BY <1>13 DEF vars
<1> QED
  BY <1>1, <1>2, <1>3, <1>4, <1>5, <1>6, <1>7, <1>8, <1>9, <1>10, <1>11, <1>12, <1>13
  DEF Next, AcquireStep, RenewStep

LEMMA InvStep == Inv /\ OneRenewsPerReplica /\ [Next]_vars => Inv'
<1> SUFFICES ASSUME Inv, OneRenewsPerReplica, [Next]_vars PROVE HandleInv' /\ VersionInv'
  BY TypeStep DEF Inv
<1> USE DEF Inv, TypeOK, HandleInv, VersionInv, object, Exists
<1>1. ASSUME NEW h \in Handles, Create(h) PROVE HandleInv' /\ VersionInv'
  BY <1>1 DEF Create, Admit, Hold, Expired, HolderOf
<1>2. ASSUME NEW h \in Handles, ReadHolder(h) PROVE HandleInv' /\ VersionInv'
  BY <1>2 DEF ReadHolder, Expired, HolderOf
<1>3. ASSUME NEW h \in Handles, TakeOver(h) PROVE HandleInv' /\ VersionInv'
  BY <1>3 DEF TakeOver, Admit, Hold, Expired, HolderOf
<1>4. ASSUME NEW h \in Handles, AcquireFails(h) PROVE HandleInv' /\ VersionInv'
  BY <1>4 DEF AcquireFails, Expired, HolderOf
<1>5. ASSUME NEW h \in Handles, ExtendRead(h) PROVE HandleInv' /\ VersionInv'
  BY <1>5 DEF ExtendRead, Lose, Held, Expired, HolderOf, OneRenewsPerReplica
<1>6. ASSUME NEW h \in Handles, ExtendWrite(h) PROVE HandleInv' /\ VersionInv'
  BY <1>6 DEF ExtendWrite, Expired, HolderOf
<1>7. ASSUME NEW h \in Handles, ExtendNote(h) PROVE HandleInv' /\ VersionInv'
  BY <1>7 DEF ExtendNote, Expired, HolderOf
<1>8. ASSUME NEW h \in Handles, ExtendFails(h) PROVE HandleInv' /\ VersionInv'
  BY <1>8 DEF ExtendFails, Lose, Expired, HolderOf
<1>9. ASSUME NEW h \in Handles, Close(h) PROVE HandleInv' /\ VersionInv'
  BY <1>9 DEF Close, Held, Expired, HolderOf
<1>10. ASSUME NEW h \in Handles, Delete(h) PROVE HandleInv' /\ VersionInv'
  BY <1>10 DEF Delete, Expired, HolderOf
<1>11. ASSUME NEW r \in Replicas, Crash(r) PROVE HandleInv' /\ VersionInv'
  BY <1>11 DEF Crash, Expired, HolderOf
<1>12. CASE Tick
  BY <1>12, Constants DEF Tick, Expired, HolderOf
<1>13. CASE UNCHANGED vars
  BY <1>13 DEF vars, Expired, HolderOf
<1> QED
  BY <1>1, <1>2, <1>3, <1>4, <1>5, <1>6, <1>7, <1>8, <1>9, <1>10, <1>11, <1>12, <1>13
  DEF Next, AcquireStep, RenewStep

----------------------------------------------------------------------------
(* The refinement *)

LEMMA InitMaps == Init => Promised!Init
  BY Constants DEF Init, Promised!Init, Lapsed, Exists, HandleState

\* An object just written has lapsed for nobody, however far apart the clocks are.
LEMMA JustWritten ==
    ASSUME NEW h \in Handles, owner' = h, age' = 0
    PROVE  ~Lapsed'
  BY Constants DEF Lapsed, Exists, Expired, HolderOf

\* A step that leaves the object alone leaves the claim as it was.
LEMMA SameObject == ASSUME owner' = owner, age' = age PROVE Lapsed' = Lapsed
  BY DEF Lapsed, Exists, Expired, HolderOf

\* Only the handle that takes the step may be seen to change.
LEMMA OneHandle ==
    ASSUME NEW h \in Handles,
           \A g \in Handles \ {h} : acquire'[g] = acquire[g] /\ (g \in lost' <=> g \in lost)
    PROVE  HandleState' = [HandleState EXCEPT ![h] = HandleState'[h]]
  BY DEF HandleState, Held

LEMMA StepMaps == Inv /\ [Next]_vars => [Promised!Next]_Promised!vars
<1> SUFFICES ASSUME Inv, [Next]_vars
             PROVE  Promised!Next \/ UNCHANGED <<owner, Lapsed, HandleState>>
  BY DEF Promised!vars
<1> USE DEF Inv
\* A claim granted, or granted and not heard of.
<1>1. ASSUME NEW h \in Handles, acquire[h] \in {"idle", "update"},
             ~Exists \/ Lapsed, owner' = h, age' = 0, lost' = lost,
             acquire' = [acquire EXCEPT ![h] = "held"] \/ acquire' = [acquire EXCEPT ![h] = "refused"]
      PROVE  Promised!Next
  <2>1. ~Lapsed' /\ h \notin lost
    BY <1>1, JustWritten DEF HandleInv
  <2>2. HandleState' = [HandleState EXCEPT ![h] = HandleState'[h]]
    BY <1>1, OneHandle DEF TypeOK
  <2>3. HandleState[h] = "none" /\ HandleState'[h] \in {"held", "ended"}
    BY <1>1, <2>1 DEF HandleState, Held, TypeOK
  <2>4. Promised!Grant(h) \/ Promised!Orphan(h)
    BY <1>1, <2>1, <2>2, <2>3 DEF Promised!Grant, Promised!Orphan, Promised!Free, Exists
  <2> QED BY <2>4 DEF Promised!Next
\* An Acquire that is told no.
<1>2. ASSUME NEW h \in Handles, acquire[h] \in {"idle", "get", "update"},
             acquire' = [acquire EXCEPT ![h] = "refused"], UNCHANGED <<owner, age, lost>>
      PROVE  Promised!Next
  <2>1. HandleState' = [HandleState EXCEPT ![h] = HandleState'[h]]
    BY <1>2, OneHandle DEF TypeOK
  <2>2. HandleState[h] = "none" /\ HandleState'[h] = "ended"
    BY <1>2 DEF HandleState, Held, TypeOK
  <2>3. Promised!Refuse(h)
    BY <1>2, <2>1, <2>2, SameObject DEF Promised!Refuse
  <2> QED BY <2>3 DEF Promised!Next
\* Handles that end.
<1>3. ASSUME UNCHANGED <<owner, age>>,
             \A h \in Handles : HandleState'[h] \in {HandleState[h], "ended"}
      PROVE  Promised!Next \/ UNCHANGED <<owner, Lapsed, HandleState>>
  <2> DEFINE hs == {h \in Handles : HandleState[h] # "ended" /\ HandleState'[h] = "ended"}
  <2>1. HandleState' = [h \in Handles |-> IF h \in hs THEN "ended" ELSE HandleState[h]]
    BY <1>3 DEF HandleState
  <2>2. CASE hs = {}
    BY <1>3, <2>1, <2>2, SameObject DEF HandleState
  <2>3. CASE hs # {}
    BY <1>3, <2>1, <2>3, SameObject DEF Promised!End, Promised!Next
  <2> QED BY <2>2, <2>3
\* Nothing that a caller sees.
<1>4. ASSUME UNCHANGED <<owner, age, acquire, lost>>
      PROVE  UNCHANGED <<owner, Lapsed, HandleState>>
  BY <1>4, SameObject DEF HandleState, Held
<1>5. ASSUME NEW h \in Handles, Create(h)
      PROVE  Promised!Next \/ UNCHANGED <<owner, Lapsed, HandleState>>
  <2>1. CASE Exists
    BY <1>3, <1>5, <2>1 DEF Create, object, HandleState, Held, TypeOK
  <2>2. CASE ~Exists
    BY <1>1, <1>5, <2>2 DEF Create, Admit, Hold
  <2> QED BY <2>1, <2>2
<1>6. ASSUME NEW h \in Handles, ReadHolder(h)
      PROVE  Promised!Next \/ UNCHANGED <<owner, Lapsed, HandleState>>
  <2>1. CASE acquire' = [acquire EXCEPT ![h] = "refused"]
    BY <1>2, <1>6, <2>1 DEF ReadHolder, object
  <2>2. CASE acquire' = [acquire EXCEPT ![h] = "update"]
    BY <1>3, <1>6, <2>2 DEF ReadHolder, object, HandleState, Held, TypeOK
  <2> QED BY <1>6, <2>1, <2>2 DEF ReadHolder
<1>7. ASSUME NEW h \in Handles, TakeOver(h) PROVE Promised!Next
  <2>1. CASE Exists /\ h \in got
    <3>1. Lapsed
      BY <1>7, <2>1, Constants DEF TakeOver, VersionInv, Lapsed
    <3> QED BY <1>1, <1>7, <2>1, <3>1 DEF TakeOver, Admit, Hold
  <2>2. CASE ~(Exists /\ h \in got)
    BY <1>2, <1>7, <2>2 DEF TakeOver, object
  <2> QED BY <2>1, <2>2
<1>8. ASSUME NEW h \in Handles, AcquireFails(h) PROVE Promised!Next
  BY <1>2, <1>8 DEF AcquireFails, object
<1>9. ASSUME NEW h \in Handles, Lose(h), acquire[h] = "held"
      PROVE  Promised!Next \/ UNCHANGED <<owner, Lapsed, HandleState>>
  BY <1>3, <1>9 DEF Lose, object, HandleState, Held, TypeOK
<1>10. ASSUME NEW h \in Handles, ExtendRead(h) \/ ExtendFails(h) \/ ExtendNote(h)
       PROVE  Promised!Next \/ UNCHANGED <<owner, Lapsed, HandleState>>
  BY <1>4, <1>9, <1>10 DEF ExtendRead, ExtendFails, ExtendNote, Held, HandleInv, object
<1>11. ASSUME NEW h \in Handles, ExtendWrite(h) PROVE Promised!Next
  <2>1. owner = h /\ owner' = h /\ ~Lapsed' /\ HandleState' = HandleState
    BY <1>11, JustWritten DEF ExtendWrite, VersionInv, HandleState, Held
  <2>2. Promised!Renew(h)
    BY <2>1 DEF Promised!Renew
  <2> QED BY <2>2 DEF Promised!Next
<1>12. ASSUME NEW h \in Handles, Close(h)
       PROVE  Promised!Next \/ UNCHANGED <<owner, Lapsed, HandleState>>
  BY <1>3, <1>12 DEF Close, object, HandleState, Held, TypeOK
<1>13. ASSUME NEW h \in Handles, Delete(h)
       PROVE  Promised!Next \/ UNCHANGED <<owner, Lapsed, HandleState>>
  <2>1. CASE UNCHANGED object
    BY <1>4, <1>13, <2>1 DEF Delete, object
  <2>2. CASE Exists /\ h \in holds /\ owner' = NoHandle
    <3>1. owner = h /\ HandleState[h] = "ended" /\ ~Lapsed' /\ HandleState' = HandleState
      BY <1>13, <2>2 DEF Delete, TypeOK, VersionInv, HandleInv, HandleState, Held, Lapsed, Exists
    <3>2. Promised!Vacate(h)
      BY <2>2, <3>1 DEF Promised!Vacate
    <3> QED BY <3>2 DEF Promised!Next
  <2> QED BY <1>13, <2>1, <2>2 DEF Delete
<1>14. ASSUME NEW r \in Replicas, Crash(r)
       PROVE  Promised!Next \/ UNCHANGED <<owner, Lapsed, HandleState>>
  BY <1>3, <1>14 DEF Crash, object, HandleState, Held, TypeOK
<1>15. CASE Tick
  <2>1. owner # NoHandle /\ owner' = owner /\ HandleState' = HandleState
    BY <1>15 DEF Tick, Exists, HandleState, Held
  <2>2. Lapsed => Lapsed'
    BY <1>15, Constants DEF Tick, Lapsed, Exists, Expired, HolderOf, TypeOK
  <2>3. CASE Lapsed \/ ~Lapsed'
    BY <2>1, <2>2, <2>3 DEF Lapsed
  <2>4. CASE ~Lapsed /\ Lapsed'
    BY <2>1, <2>4 DEF Promised!Lapse, Promised!Next
  <2> QED BY <2>3, <2>4
<1>16. CASE UNCHANGED vars
  BY <1>4, <1>16 DEF vars
<1> QED
  BY <1>5, <1>6, <1>7, <1>8, <1>10, <1>11, <1>12, <1>13, <1>14, <1>15, <1>16
  DEF Next, AcquireStep, RenewStep

----------------------------------------------------------------------------
\* The object, the goroutines of every handle and what they were told have their types.
THEOREM TypeCorrect == Spec => []TypeOK
<1>1. Init => TypeOK
  BY InitInv DEF Inv
<1> QED BY <1>1, TypeStep, PTL DEF Spec

\* leases.go implements core.Leases, on every behaviour in which a replica has no renewal
\* under way for one handle while another of its own has the name: through crashes, failed
\* requests, lost answers and clocks that differ by less than the TTL, the name changes hands
\* only when it is free or has lapsed, and a superseded handle neither renews nor deletes.
THEOREM ImplementsClaimUnlessRejoined ==
    Spec /\ []OneRenewsPerReplica => ImplementsClaim
  BY InitInv, InvStep, InitMaps, StepMaps, PTL DEF Spec, ImplementsClaim, Promised!Spec

\* In particular when every replica claims the name at most once.
THEOREM ImplementsClaimOnce ==
    ASSUME \A g, h \in Handles : Identity[g] = Identity[h] => g = h
    PROVE  Spec => ImplementsClaim
<1>1. OneRenewsPerReplica
  BY DEF OneRenewsPerReplica
<1>2. []OneRenewsPerReplica
  BY <1>1, PTL
<1> QED BY <1>2, ImplementsClaimUnlessRejoined, PTL

\* Under the same condition a renewal writes over no object but its own handle's
\* (the comment on heldLease.version, leases.go:190-191).
THEOREM RenewalsSpareSuccessors ==
    Spec /\ []OneRenewsPerReplica => RenewalSparesSuccessor
<1>1. Inv /\ [Next]_vars =>
        \A h \in Handles : renew[h] = "update" /\ renew'[h] = "note" => owner = h
  <2> SUFFICES ASSUME Inv, [Next]_vars, NEW h \in Handles,
                      renew[h] = "update", renew'[h] = "note"
               PROVE  owner = h
    OBVIOUS
  <2>1. h \in got
    BY DEF Inv, TypeOK, Next, vars, AcquireStep, RenewStep, Create, Admit, Hold, ReadHolder,
           TakeOver, AcquireFails, ExtendRead, ExtendWrite, ExtendNote, ExtendFails, Lose,
           Close, Delete, Crash, Tick
  <2> QED BY <2>1 DEF Inv, VersionInv
<1> QED BY <1>1, InitInv, InvStep, PTL DEF Spec, RenewalSparesSuccessor
=============================================================================
