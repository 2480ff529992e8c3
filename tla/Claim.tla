------------------------------- MODULE Claim -------------------------------
(***************************************************************************)
(* What core.Leases and core.Lease (runtime/core/lease.go) promise about    *)
(* one name: an exclusive claim that a caller can fail to take, that a      *)
(* holder keeps for as long as it renews it, and that it can lose.          *)
(*                                                                          *)
(* The name belongs to at most one handle.  It changes hands only when it   *)
(* is free or its holder stopped renewing, and a handle that has been       *)
(* granted once is never granted again.  holder may name a handle that has  *)
(* ended: a claim outlives a holder that died until it lapses.              *)
(***************************************************************************)
CONSTANTS
    Handles,    \* the claims ever asked for, one per call of Acquire
    NoHandle    \* not a handle

VARIABLES
    holder,     \* the handle the name is claimed for
    lapsed,     \* somebody may find the claim expired
    handle      \* each handle: "none" (not granted), "held" or "ended" (Done is closed)

vars == <<holder, lapsed, handle>>

Init ==
    /\ holder = NoHandle
    /\ lapsed = FALSE
    /\ handle = [h \in Handles |-> "none"]

Free == holder = NoHandle \/ lapsed

\* Acquire claims the name.
Grant(h) ==
    /\ Free /\ handle[h] = "none"
    /\ holder' = h
    /\ lapsed' = FALSE
    /\ handle' = [handle EXCEPT ![h] = "held"]

\* Acquire claims the name and fails to hear of it: the claim is nobody's.
Orphan(h) ==
    /\ Free /\ handle[h] = "none"
    /\ holder' = h
    /\ lapsed' = FALSE
    /\ handle' = [handle EXCEPT ![h] = "ended"]

\* Acquire reports that somebody else holds the name, or fails.
Refuse(h) ==
    /\ handle[h] = "none"
    /\ handle' = [handle EXCEPT ![h] = "ended"]
    /\ UNCHANGED <<holder, lapsed>>

\* The holder's renewal lands.
Renew(h) ==
    /\ holder = h
    /\ lapsed' = FALSE
    /\ UNCHANGED <<holder, handle>>

\* Too long without a renewal.
Lapse ==
    /\ holder # NoHandle /\ ~lapsed
    /\ lapsed' = TRUE
    /\ UNCHANGED <<holder, handle>>

\* Done is closed: the handle is closed or finds its claim gone; its process may die too.
End(hs) ==
    /\ hs # {} /\ \A h \in hs : handle[h] # "ended"
    /\ handle' = [h \in Handles |-> IF h \in hs THEN "ended" ELSE handle[h]]
    /\ UNCHANGED <<holder, lapsed>>

\* A closed handle gives back the name, if it is still its own.
Vacate(h) ==
    /\ holder = h /\ handle[h] = "ended"
    /\ holder' = NoHandle
    /\ lapsed' = FALSE
    /\ UNCHANGED handle

Next ==
    \/ \E h \in Handles : Grant(h) \/ Orphan(h) \/ Refuse(h) \/ Renew(h) \/ Vacate(h)
    \/ Lapse
    \/ \E hs \in SUBSET Handles : End(hs)

Spec == Init /\ [][Next]_vars
============================================================================
