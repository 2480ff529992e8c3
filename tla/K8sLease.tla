------------------------------ MODULE K8sLease ------------------------------
(***************************************************************************)
(* The Kubernetes implementation of core.Leases on one name                 *)
(* (runtime/services/k8s/leases.go).                                        *)
(*                                                                          *)
(* The name is a Lease object of the API server.  Each call of Acquire is a *)
(* handle on some replica; a granted handle has a goroutine that renews it  *)
(* (read, then write) and a Close that deletes the object.  Every request   *)
(* is a step of its own at the server; it may fail, and a write may land    *)
(* and its answer be lost.                                                  *)
(*                                                                          *)
(* Only whether a resourceVersion is the object's present one matters, so   *)
(* holds is the set of handles whose field version is present, and got the  *)
(* set of those whose last answer from the server is.  A write leaves       *)
(* nobody but the writer with a present one.  Time is the object's age in   *)
(* ticks since its renewTime, read with the replica's own clock.            *)
(***************************************************************************)
EXTENDS Integers

CONSTANTS
    Handles,        \* the calls of Acquire
    NoHandle,
    Replicas,       \* the identities
    Identity,       \* Identity[h]: the replica that calls Acquire
    Offset,         \* Offset[r]: how far ahead of the server's the clock of r is
    MaxOffset,      \* the bound on Offset
    TTL             \* LeaseDurationSeconds, in ticks

ASSUME K8sLeaseAssumption ==
    /\ NoHandle \notin Handles
    /\ Identity \in [Handles -> Replicas]
    /\ MaxOffset \in Nat /\ TTL \in Nat \ {0}
    /\ MaxOffset < TTL
    /\ Offset \in [Replicas -> 0..MaxOffset]

VARIABLES
    owner,      \* the handle whose write the object is; NoHandle: there is no object
    age,        \* the ticks since that write
    holds,      \* the handles whose version is the object's resourceVersion
    got,        \* the handles whose last answer has the object's resourceVersion
    acquire,    \* Acquire: "idle", "get", "update", "held", "refused"
    renew,      \* the renewal goroutine: "off", "wait", "update", "note"
    lost,       \* the handles whose Done is closed
    close       \* Close: "open", "delete", "closed"

vars == <<owner, age, holds, got, acquire, renew, lost, close>>
object == <<owner, age, holds>>

\* The oldest age that makes a difference to anybody.
MaxAge == TTL + MaxOffset + 1

\* The kinds of values; and a handle whose Close has begun is lost to its caller (Close,
\* leases.go:205-217): Done is closed before the object is deleted.
TypeOK ==
    /\ owner \in Handles \cup {NoHandle}
    /\ age \in 0..MaxAge
    /\ holds \subseteq Handles /\ got \subseteq Handles /\ lost \subseteq Handles
    /\ acquire \in [Handles -> {"idle", "get", "update", "held", "refused"}]
    /\ renew \in [Handles -> {"off", "wait", "update", "note"}]
    /\ close \in [Handles -> {"open", "delete", "closed"}]
    /\ \A h \in Handles : close[h] # "open" => h \in lost

Init ==
    /\ owner = NoHandle /\ age = 0
    /\ holds = {} /\ got = {} /\ lost = {}
    /\ acquire = [h \in Handles |-> "idle"]
    /\ renew = [h \in Handles |-> "off"]
    /\ close = [h \in Handles |-> "open"]

Exists == owner # NoHandle
HolderOf == Identity[owner]

\* Mutant of Expired: a claim lapses no sooner than its holder is gone for good.
NeverExpired(r) == FALSE /\ r \in Replicas

\* The claim as replica r's clock judges the stamp of the holder's.
Expired(r) == age + Offset[r] - Offset[HolderOf] > TTL

Held(h) == acquire[h] = "held" /\ h \notin lost

----------------------------------------------------------------------------
(* Acquire *)

\* The server admits h's write: spec() as the object, h's the only present version.
Admit(h) == owner' = h /\ age' = 0 /\ holds' = {h} /\ got' = {}

\* hold: a handle and the goroutine that renews it.
Hold(h) ==
    /\ acquire' = [acquire EXCEPT ![h] = "held"]
    /\ renew' = [renew EXCEPT ![h] = "wait"]

\* Create: the claim when there is no object.  Its answer may be lost.
Create(h) ==
    /\ acquire[h] = "idle"
    /\ UNCHANGED <<lost, close>>
    /\ \/ /\ ~Exists
          /\ Admit(h)
          /\ Hold(h)
       \/ /\ ~Exists
          /\ owner' = h /\ age' = 0 /\ holds' = {} /\ got' = {}
          /\ acquire' = [acquire EXCEPT ![h] = "refused"] /\ UNCHANGED renew
       \/ /\ Exists
          /\ acquire' = [acquire EXCEPT ![h] = "get"]
          /\ UNCHANGED <<object, got, renew>>

\* takeOverExpired's read: the object is gone, not expired, or worth a write.
ReadHolder(h) ==
    /\ acquire[h] = "get"
    /\ \/ /\ Exists /\ Expired(Identity[h])
          /\ got' = got \cup {h}
          /\ acquire' = [acquire EXCEPT ![h] = "update"]
       \/ /\ ~(Exists /\ Expired(Identity[h]))
          /\ acquire' = [acquire EXCEPT ![h] = "refused"] /\ UNCHANGED got
    /\ UNCHANGED <<object, renew, lost, close>>

\* Mutant of TakeOver: the write does not name the version that was read.
TakeOverBlindly(h) ==
    /\ acquire[h] = "update" /\ Exists
    /\ Admit(h) /\ Hold(h)
    /\ UNCHANGED <<lost, close>>

\* takeOverExpired's write, admitted if nobody wrote since the read; or its answer lost.
TakeOver(h) ==
    /\ acquire[h] = "update"
    /\ UNCHANGED <<lost, close>>
    /\ \/ /\ Exists /\ h \in got
          /\ Admit(h) /\ Hold(h)
       \/ /\ Exists /\ h \in got
          /\ owner' = h /\ age' = 0 /\ holds' = {} /\ got' = {}
          /\ acquire' = [acquire EXCEPT ![h] = "refused"] /\ UNCHANGED renew
       \/ /\ ~(Exists /\ h \in got)
          /\ acquire' = [acquire EXCEPT ![h] = "refused"]
          /\ UNCHANGED <<object, got, renew>>

\* A request of Acquire fails before it lands.
AcquireFails(h) ==
    /\ acquire[h] \in {"idle", "get", "update"}
    /\ acquire' = [acquire EXCEPT ![h] = "refused"]
    /\ UNCHANGED <<object, got, renew, lost, close>>

----------------------------------------------------------------------------
(* Renewal *)

\* Mutant of Lose: the goroutine goes home and tells nobody.
LoseSilently(h) ==
    /\ renew' = [renew EXCEPT ![h] = "off"]
    /\ UNCHANGED <<object, got, acquire, lost, close>>

\* lose: Done is closed, the goroutine goes home, the server is not told.
Lose(h) ==
    /\ lost' = lost \cup {h}
    /\ renew' = [renew EXCEPT ![h] = "off"]
    /\ UNCHANGED <<object, got, acquire, close>>

\* extend's read.  An object that names another identity, none at all or a failed request
\* is a lost claim.
ExtendRead(h) ==
    /\ renew[h] = "wait" /\ Held(h)
    /\ \/ /\ Exists /\ HolderOf = Identity[h]
          /\ got' = got \cup {h}
          /\ renew' = [renew EXCEPT ![h] = "update"]
          /\ UNCHANGED <<object, acquire, lost, close>>
       \/ Lose(h)

\* extend's write lands.  It names the version extend read, not the handle's own.
ExtendWrite(h) ==
    /\ renew[h] = "update" /\ Exists /\ h \in got
    /\ owner' = h /\ age' = 0 /\ holds' = {} /\ got' = {h}
    /\ renew' = [renew EXCEPT ![h] = "note"]
    /\ UNCHANGED <<acquire, lost, close>>

\* The answer arrives: version follows.  Close has taken its copy of it by then, if it was
\* called meanwhile.
ExtendNote(h) ==
    /\ renew[h] = "note"
    /\ holds' = IF h \in got \ lost THEN holds \cup {h} ELSE holds
    /\ renew' = [renew EXCEPT ![h] = IF h \in lost THEN "off" ELSE "wait"]
    /\ UNCHANGED <<owner, age, got, acquire, lost, close>>

\* The write conflicts, fails, or its answer is lost.  After Close there is nothing to lose.
ExtendFails(h) ==
    /\ renew[h] \in {"update", "note"}
    /\ Lose(h)

----------------------------------------------------------------------------
(* Close *)

\* Mutant of Close: the renewals are stopped and the object deleted, and Done stays open.
CloseQuietly(h) ==
    /\ Held(h) /\ close[h] = "open"
    /\ close' = [close EXCEPT ![h] = "delete"]
    /\ renew' = [renew EXCEPT ![h] = IF @ = "wait" THEN "off" ELSE @]
    /\ UNCHANGED <<object, got, acquire, lost>>

\* Close marks the handle lost and stops the renewal; one in flight may still land.
Close(h) ==
    /\ Held(h)
    /\ lost' = lost \cup {h}
    /\ close' = [close EXCEPT ![h] = "delete"]
    /\ renew' = [renew EXCEPT ![h] = IF @ = "wait" THEN "off" ELSE @]
    /\ UNCHANGED <<object, got, acquire>>

\* The delete, on condition that the object still has the version Close read: a conflict
\* and a failure are let be.
Delete(h) ==
    /\ close[h] = "delete"
    /\ close' = [close EXCEPT ![h] = "closed"]
    /\ \/ /\ Exists /\ h \in holds
          /\ owner' = NoHandle /\ age' = 0 /\ holds' = {} /\ got' = {}
       \/ UNCHANGED <<object, got>>
    /\ UNCHANGED <<acquire, renew, lost>>

----------------------------------------------------------------------------
(* The world *)

\* Replica r dies with everything it has under way.
Crash(r) ==
    LET hs == {h \in Handles : Identity[h] = r} IN
    /\ \E h \in hs : acquire[h] \notin {"idle", "refused"} /\ close[h] # "closed"
    /\ acquire' = [h \in Handles |->
                     IF h \in hs /\ acquire[h] # "held" THEN "refused" ELSE acquire[h]]
    /\ lost' = lost \cup {h \in hs : acquire[h] = "held"}
    /\ renew' = [h \in Handles |-> IF h \in hs THEN "off" ELSE renew[h]]
    /\ close' = [h \in Handles |->
                     IF h \in hs /\ acquire[h] = "held" THEN "closed" ELSE close[h]]
    /\ UNCHANGED <<object, got>>

Tick ==
    /\ Exists /\ age < MaxAge
    /\ age' = age + 1
    /\ UNCHANGED <<owner, holds, got, acquire, renew, lost, close>>

----------------------------------------------------------------------------

AcquireStep(h) == Create(h) \/ ReadHolder(h) \/ TakeOver(h)
RenewStep(h) == ExtendRead(h) \/ ExtendWrite(h) \/ ExtendNote(h) \/ ExtendFails(h)

Next ==
    \/ \E h \in Handles :
          AcquireStep(h) \/ AcquireFails(h) \/ RenewStep(h) \/ Close(h) \/ Delete(h)
    \/ \E r \in Replicas : Crash(r)
    \/ Tick

Spec == Init /\ [][Next]_vars

\* Time passes, and a goroutine that can take a step takes it.  Nobody has to call Acquire
\* or Close.
Fairness ==
    /\ WF_vars(Tick)
    /\ \A h \in Handles :
          WF_vars((ReadHolder(h) \/ TakeOver(h))) /\ WF_vars(RenewStep(h)) /\ WF_vars(Delete(h))

FairSpec == Spec /\ Fairness

----------------------------------------------------------------------------
(* Properties *)

\* The claim has lapsed when some replica would find it expired.
Lapsed == Exists /\ \E r \in Replicas : Expired(r)

\* What the caller of Acquire knows of its handle.
HandleState == [h \in Handles |->
    IF acquire[h] \in {"idle", "get", "update"} THEN "none"
    ELSE IF Held(h) THEN "held" ELSE "ended"]

\* The name as core.Leases promises it: the object is the claim of the handle that wrote it.
Promised == INSTANCE Claim WITH holder <- owner, lapsed <- Lapsed, handle <- HandleState

\* The object implements the claim (leases.go:65-71, 94-97, 202-205): two challengers of one
\* dead holder do not both win, a claim does not change hands while its holder renews it, and
\* a handle that was superseded neither renews nor deletes its successor's object.
ImplementsClaim == Promised!Spec

\* A renewal never overwrites a successor's object: the comment on heldLease.version
\* (leases.go:190-191).
RenewalSparesSuccessor ==
    [][\A h \in Handles : renew[h] = "update" /\ renew'[h] = "note" => owner = h]_vars

\* A holder whose claim is gone, taken over or deleted, hears of it: its Done is closed by
\* the renewal loop (leases.go:242-260, 270-272), which is what ends the run that works
\* under the claim.
SupersededLearns == \A h \in Handles : Held(h) /\ owner # h ~> h \in lost

\* A name whose holder is gone can be claimed again (leases.go:69-71, 204-205): a crash, a
\* lost answer and a delete that met a renewal in flight leave an object that expires.
NameComesBack ==
    \A h \in Handles :
        owner = h /\ ~Held(h) ~> owner # h \/ \A r \in Replicas : Expired(r)
============================================================================
