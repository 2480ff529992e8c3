----------------------------- MODULE Aggregate -----------------------------
(***************************************************************************)
(* The aggregate block (runtime/blocks/controlflow/aggregate.go) on the     *)
(* versioned store it keeps its groups in (core.KV: services/standalone/    *)
(* kv.go, orchestrator/internal/kv/repo.go).                                *)
(*                                                                          *)
(* Every message is a goroutine that reserves a slot of the group index for *)
(* its group, folds itself into the stored group under the group's stripe   *)
(* lock and delivers the group when it completes it.  A replica's reaper    *)
(* sweeps the index for groups past their deadline.  A group is the set of  *)
(* messages folded into it; the clock is the action Expire.                 *)
(*                                                                          *)
(* Leadership is not a variable: sweep asks IsLeader once and the lease may *)
(* move while it runs, so the sweeps of two replicas may overlap.           *)
(***************************************************************************)
EXTENDS Naturals, FiniteSets

CONSTANTS
    Msgs,           \* the messages, each on a goroutine of its own
    Reapers,        \* the goroutines of reap: none without completionTimeout
    Groups,         \* the correlation keys
    Key,            \* Key[m]: the key the correlation expression gives message m
    Home,           \* Home[t]: the replica goroutine t runs on
    Stripe,         \* Stripe[g]: the lock of foldLocks group g hashes to
    GroupSize,      \* how many messages complete a group
    MaxGroups,      \* the setting maxGroups
    Policies,       \* the settings of onOverflow looked at
    Attempts,       \* aggregateWriteAttempts
    Failing,        \* the messages whose fold may return an error
    MaxFaults       \* how many other calls of the store and deliveries may fail

Threads == Msgs \cup Reapers

ASSUME AggregateAssumption ==
    /\ Msgs \cap Reapers = {} /\ Groups # {}
    /\ Key \in [Msgs -> Groups]
    /\ DOMAIN Home = Threads /\ DOMAIN Stripe = Groups
    /\ {GroupSize, MaxGroups, Attempts} \subseteq Nat \ {0}
    /\ Policies \subseteq {"fail", "complete", "drop"}
    /\ Failing \subseteq Msgs
    /\ MaxFaults \in Nat

VARIABLES
    onOverflow, \* the configured policy
    kv,         \* the group stored under each key: its version (0: absent), its messages
    index,      \* the group index: "none", "claim" (no deadline), "open" or "due"
    pc,         \* where each goroutine is
    op,         \* what it does with it: "fold", "take", "reclaim", "restore"
    grp,        \* the group it works on
    seen,       \* the entry it last read
    carry,      \* the messages of a group it took out of the store
    tries,      \* the attempts of its current loop
    claimed,    \* the messages that put their group in the index and have not folded yet
    todo,       \* the entries a sweep has yet to visit
    absorbed,   \* the messages whose fold was committed
    out,        \* how many deliveries each message was part of
    lost,       \* the messages of groups restore could not put back
    faults,     \* how many calls of the store and deliveries failed
    missing,    \* the stored groups the index was last left without an entry up to date
    leftover    \* the groups whose entry was last left in the index without them

thread == <<pc, op, grp, seen, carry, tries, claimed, todo>>
failures == <<faults, missing, leftover>>
history == <<absorbed, out, lost, failures>>
vars == <<onOverflow, kv, index, thread, history>>

AnyGroup == CHOOSE g \in Groups : TRUE
Absent == [ver |-> 0, msgs |-> {}]
Ended == {"done", "failed", "dropped"}

Init ==
    /\ onOverflow \in Policies
    /\ kv = [g \in Groups |-> Absent]
    /\ index = [g \in Groups |-> "none"]
    /\ pc = [t \in Threads |-> IF t \in Msgs THEN "reserve" ELSE "idle"]
    /\ op = [t \in Threads |-> "fold"]
    /\ grp = [t \in Threads |-> IF t \in Msgs THEN Key[t] ELSE AnyGroup]
    /\ seen = [t \in Threads |-> Absent]
    /\ carry = [t \in Threads |-> {}]
    /\ tries = [t \in Threads |-> 0]
    /\ claimed = {}
    /\ todo = [r \in Reapers |-> {}]
    /\ absorbed = {} /\ lost = {}
    /\ out = [m \in Msgs |-> 0]
    /\ faults = 0 /\ missing = {} /\ leftover = {}

Goto(t, l) == pc' = [pc EXCEPT ![t] = l]
Stored(g) == kv[g].ver > 0
Indexed == {g \in Groups : index[g] # "none"}

\* Mutant of Holding: the group is delivered, and restored, with its stripe held.
HoldingAcrossDelivery(t) ==
    pc[t] \in {"reread", "commit", "track", "forget", "deliver", "restore"}

\* Mutant of Holding: the stripe is released before the index follows the store.
HoldingToCommit(t) == pc[t] \in {"reread", "commit"}

\* A goroutine holds the stripe of its group from its first read to its last write of
\* the index.
Holding(t) == pc[t] \in {"reread", "commit", "track", "forget"}

\* Mutant of StripeFree: the reaper takes no stripe.
StripeFreeToReaper(t) ==
    \A u \in Threads :
        Holding(u) => t \in Reapers \/ Home[u] # Home[t] \/ Stripe[grp[u]] # Stripe[grp[t]]

\* The stripe of t's group is free on t's replica.  The mutex is not reentrant.
StripeFree(t) ==
    \A u \in Threads :
        Holding(u) => Home[u] # Home[t] \/ Stripe[grp[u]] # Stripe[grp[t]]

\* kv.Set and kv.Delete compare versions; deleting an absent key succeeds.
SetWins(g, ver) == kv[g].ver = ver
DeleteWins(g, ver) == kv[g].ver \in {0, ver}

\* updateIndex: one compare-and-swap loop under a mutex of the replica.  It is given up,
\* with a line in the log, when the store returns an error or when its attempts run out
\* against another replica; the caller goes on either way.
UpdateIndex(g, entry, lands) ==
    /\ lands \/ faults < MaxFaults
    /\ index' = IF lands THEN [index EXCEPT ![g] = entry] ELSE index
    /\ faults' = IF lands THEN faults ELSE faults + 1

----------------------------------------------------------------------------
(* reserve: admission, outside the stripe *)

\* claimSlot: the group already has an entry, or gets one when there is room.
Claim(m) ==
    /\ pc[m] = "reserve"
    /\ grp[m] \in Indexed \/ Cardinality(Indexed) < MaxGroups
    /\ IF grp[m] \in Indexed
       THEN UNCHANGED <<index, claimed>>
       ELSE /\ index' = [index EXCEPT ![grp[m]] = "claim"]
            /\ claimed' = claimed \cup {m}
    /\ Goto(m, "read")
    /\ tries' = [tries EXCEPT ![m] = 0]
    /\ UNCHANGED <<onOverflow, kv, op, grp, seen, carry, todo, history>>

Full(m) ==
    /\ pc[m] = "reserve"
    /\ grp[m] \notin Indexed /\ Cardinality(Indexed) >= MaxGroups

\* The policies fail and drop end the message.
Refuse(m) ==
    /\ Full(m) /\ onOverflow # "complete"
    /\ Goto(m, IF onOverflow = "drop" THEN "dropped" ELSE "failed")
    /\ UNCHANGED <<onOverflow, kv, index, op, grp, seen, carry, tries, claimed, todo,
                   history>>

\* The policy complete first reads the index again, with the index lock released...
Overflow(m) ==
    /\ Full(m) /\ onOverflow = "complete"
    /\ Goto(m, "evict")
    /\ tries' = [tries EXCEPT ![m] = @ + 1]
    /\ UNCHANGED <<onOverflow, kv, index, op, grp, seen, carry, claimed, todo, history>>

\* Mutant of Resumed: reserve has no bound.
ResumedForever(t) ==
    IF t \in Reapers THEN IF todo[t] = {} THEN "idle" ELSE "sweep"
    ELSE IF op[t] = "restore" THEN "failed" ELSE "reserve"

\* Where a goroutine goes on once it has dealt with a group that was not a fold's.
Resumed(t) ==
    IF t \in Reapers THEN IF todo[t] = {} THEN "idle" ELSE "sweep"
    ELSE IF op[t] = "restore" \/ tries[t] = Attempts THEN "failed" ELSE "reserve"

\* The group goroutine t turns back to.
Back(t) == IF t \in Msgs THEN Key[t] ELSE AnyGroup

\* ...and releases a group of it.  Which one is the oldest is left open.
Evict(m) ==
    /\ pc[m] = "evict"
    /\ IF Indexed = {}
       THEN /\ Goto(m, Resumed(m))
            /\ UNCHANGED <<op, grp>>
       ELSE \E g \in Indexed :
            /\ Goto(m, "read")
            /\ op' = [op EXCEPT ![m] = "take"]
            /\ grp' = [grp EXCEPT ![m] = g]
    /\ UNCHANGED <<onOverflow, kv, index, seen, carry, tries, claimed, todo, history>>

----------------------------------------------------------------------------
(* Under the stripe *)

\* Mutant of Failed: the slot is kept.
FailedKeepsSlot(m) == "failed"

\* A fold that fails gives its slot back, if it was the one that claimed it.
Failed(m) == IF m \in claimed THEN "giveback" ELSE "failed"

\* Lock the stripe and read the group; a fold that met a conflict reads again.
Read(t) ==
    /\ pc[t] \in {"read", "reread"}
    /\ pc[t] = "read" => StripeFree(t)
    /\ Goto(t, "commit")
    /\ seen' = [seen EXCEPT ![t] = kv[grp[t]]]
    /\ UNCHANGED <<onOverflow, kv, index, op, grp, carry, tries, claimed, todo, history>>

\* The fold returns an error before it has committed: an expression failed, or the store
\* did.
FailFold(m) ==
    /\ pc[m] = "commit" /\ op[m] = "fold" /\ m \in Failing
    /\ Goto(m, Failed(m))
    /\ seen' = [seen EXCEPT ![m] = Absent]
    /\ UNCHANGED <<onOverflow, kv, index, op, grp, carry, tries, claimed, todo, history>>

Completes(m) == Cardinality(seen[m].msgs) + 1 >= GroupSize

\* commitOpen writes the group back, commitComplete takes it out (a group that its first
\* message completes was never stored); a conflict reads again.
CommitFold(m) ==
    LET g == grp[m]
        group == seen[m].msgs \cup {m}
        won == IF Completes(m) THEN seen[m].ver = 0 \/ DeleteWins(g, seen[m].ver)
                               ELSE SetWins(g, seen[m].ver)
    IN
    /\ pc[m] = "commit" /\ op[m] = "fold"
    /\ IF won
       THEN /\ Goto(m, IF Completes(m) THEN "forget" ELSE "track")
            /\ kv' = IF ~Completes(m)
                     THEN [kv EXCEPT ![g] = [ver |-> seen[m].ver + 1, msgs |-> group]]
                     ELSE IF seen[m].ver = 0 THEN kv ELSE [kv EXCEPT ![g] = Absent]
            /\ carry' = [carry EXCEPT ![m] = IF Completes(m) THEN group ELSE {}]
            /\ absorbed' = absorbed \cup {m}
            /\ claimed' = claimed \ {m}
            /\ UNCHANGED tries
       ELSE /\ tries' = [tries EXCEPT ![m] = @ + 1]
            /\ Goto(m, IF tries[m] + 1 < Attempts THEN "reread" ELSE Failed(m))
            /\ UNCHANGED <<kv, carry, absorbed, claimed>>
    /\ seen' = [seen EXCEPT ![m] = Absent]
    /\ UNCHANGED <<onOverflow, index, op, grp, todo, out, lost, failures>>

\* takeStored lifts the group out of the store; on a conflict it does nothing.
\* reclaimStale only looks.  Both clear the entry of a group that is not stored.
CommitTake(t) ==
    LET g == grp[t]
        takes == op[t] = "take" /\ seen[t].ver > 0 /\ DeleteWins(g, seen[t].ver)
    IN
    /\ pc[t] = "commit" /\ op[t] # "fold"
    /\ IF takes \/ seen[t].ver = 0
       THEN /\ Goto(t, "forget")
            /\ UNCHANGED <<op, grp>>
       ELSE /\ Goto(t, Resumed(t))
            /\ grp' = [grp EXCEPT ![t] = Back(t)]
            /\ op' = [op EXCEPT ![t] = "fold"]
    /\ kv' = IF takes THEN [kv EXCEPT ![g] = Absent] ELSE kv
    /\ carry' = [carry EXCEPT ![t] = IF takes THEN seen[t].msgs ELSE {}]
    /\ seen' = [seen EXCEPT ![t] = Absent]
    /\ UNCHANGED <<onOverflow, index, tries, claimed, todo, history>>

\* Mutant of Track: the entry gets no deadline.
TrackNoDeadline(t) ==
    /\ pc[t] = "track"
    /\ UpdateIndex(grp[t], "claim", TRUE)
    /\ missing' = missing \ {grp[t]} /\ leftover' = leftover \ {grp[t]}
    /\ Goto(t, IF op[t] = "fold" THEN "done" ELSE Resumed(t))
    /\ op' = [op EXCEPT ![t] = "fold"]
    /\ grp' = [grp EXCEPT ![t] = Back(t)]
    /\ UNCHANGED <<onOverflow, kv, seen, carry, tries, claimed, todo, absorbed, out, lost>>

\* trackGroup, then the stripe is released.
Track(t) ==
    /\ pc[t] = "track"
    /\ \E lands \in BOOLEAN :
        /\ UpdateIndex(grp[t], "open", lands)
        /\ missing' = IF lands THEN missing \ {grp[t]} ELSE missing \cup {grp[t]}
    /\ leftover' = leftover \ {grp[t]}
    /\ Goto(t, IF op[t] = "fold" THEN "done" ELSE Resumed(t))
    /\ op' = [op EXCEPT ![t] = "fold"]
    /\ grp' = [grp EXCEPT ![t] = Back(t)]
    /\ UNCHANGED <<onOverflow, kv, seen, carry, tries, claimed, todo, absorbed, out, lost>>

\* forgetGroup, then the stripe is released; a group taken out goes to deliver.
Forget(t) ==
    /\ pc[t] = "forget"
    /\ \E lands \in BOOLEAN :
        /\ UpdateIndex(grp[t], "none", lands)
        /\ leftover' = IF lands THEN leftover \ {grp[t]} ELSE leftover \cup ({grp[t]} \cap Indexed)
    /\ missing' = missing \ {grp[t]}
    /\ IF carry[t] # {}
       THEN /\ Goto(t, "deliver")
            /\ UNCHANGED <<op, grp>>
       ELSE /\ Goto(t, Resumed(t))
            /\ grp' = [grp EXCEPT ![t] = Back(t)]
            /\ op' = [op EXCEPT ![t] = "fold"]
    /\ UNCHANGED <<onOverflow, kv, seen, carry, tries, claimed, todo, absorbed, out, lost>>

\* The slot of a failed fold goes back, with the stripe already released: another message
\* may have stored the group meanwhile.
GiveBack(m) ==
    LET g == grp[m]
    IN
    /\ pc[m] = "giveback"
    /\ \E lands \in BOOLEAN :
        /\ UpdateIndex(g, "none", lands)
        /\ missing' = IF lands /\ Stored(g) THEN missing \cup {g} ELSE missing
        /\ leftover' = IF lands THEN leftover \ {g}
                       ELSE IF Stored(g) THEN leftover ELSE leftover \cup ({g} \cap Indexed)
    /\ claimed' = claimed \ {m}
    /\ Goto(m, "failed")
    /\ UNCHANGED <<onOverflow, kv, op, grp, seen, carry, tries, todo, absorbed, out, lost>>

----------------------------------------------------------------------------
(* deliver, outside the stripe *)

\* The continuation takes the group.
Deliver(t) ==
    /\ pc[t] = "deliver"
    /\ out' = [m \in Msgs |-> IF m \in carry[t] THEN out[m] + 1 ELSE out[m]]
    /\ carry' = [carry EXCEPT ![t] = {}]
    /\ Goto(t, IF op[t] = "fold" THEN "done" ELSE Resumed(t))
    /\ op' = [op EXCEPT ![t] = "fold"]
    /\ grp' = [grp EXCEPT ![t] = Back(t)]
    /\ UNCHANGED <<onOverflow, kv, index, seen, tries, claimed, todo, absorbed, lost, failures>>

\* release returns an error.
RefuseDelivery(t) ==
    /\ pc[t] = "deliver" /\ faults < MaxFaults
    /\ faults' = faults + 1
    /\ op' = [op EXCEPT ![t] = "restore"]
    /\ Goto(t, "restore")
    /\ UNCHANGED <<onOverflow, kv, index, grp, seen, carry, tries, claimed, todo,
                   absorbed, out, lost, missing, leftover>>

\* Mutant of Restore: an unconditional write.
RestoreOverwrites(t) ==
    /\ pc[t] = "restore" /\ StripeFree(t)
    /\ kv' = [kv EXCEPT ![grp[t]] = [ver |-> @.ver + 1, msgs |-> carry[t]]]
    /\ Goto(t, "track")
    /\ carry' = [carry EXCEPT ![t] = {}]
    /\ UNCHANGED <<onOverflow, index, op, grp, seen, tries, claimed, todo, history>>

\* restore puts the group back unless a new one was opened meanwhile.
Restore(t) ==
    LET g == grp[t] IN
    /\ pc[t] = "restore" /\ StripeFree(t)
    /\ IF SetWins(g, 0)
       THEN /\ kv' = [kv EXCEPT ![g] = [ver |-> 1, msgs |-> carry[t]]]
            /\ Goto(t, "track")
            /\ UNCHANGED <<op, grp, lost>>
       ELSE /\ lost' = lost \cup carry[t]
            /\ Goto(t, Resumed(t))
            /\ op' = [op EXCEPT ![t] = "fold"]
            /\ grp' = [grp EXCEPT ![t] = Back(t)]
            /\ UNCHANGED kv
    /\ carry' = [carry EXCEPT ![t] = {}]
    /\ UNCHANGED <<onOverflow, index, seen, tries, claimed, todo, absorbed, out,
                   failures>>

----------------------------------------------------------------------------
(* The store *)

\* A call of the store that reserve, takeStored, reclaimStale or restore makes returns an
\* error (claimSlot also fails when its attempts run out against another replica).  It ends
\* the message; a reaper logs it and goes on to its next entry.  What restore could not put
\* back is lost.
StoreError(t) ==
    /\ \/ pc[t] \in {"reserve", "evict"}
       \/ pc[t] = "commit" /\ op[t] # "fold"
       \/ pc[t] = "restore" /\ StripeFree(t)
    /\ faults < MaxFaults /\ faults' = faults + 1
    /\ lost' = lost \cup carry[t]
    /\ carry' = [carry EXCEPT ![t] = {}]
    /\ seen' = [seen EXCEPT ![t] = Absent]
    /\ op' = [op EXCEPT ![t] = "fold"]
    /\ grp' = [grp EXCEPT ![t] = Back(t)]
    /\ Goto(t, IF t \in Reapers THEN Resumed(t) ELSE "failed")
    /\ UNCHANGED <<onOverflow, kv, index, tries, claimed, todo, absorbed, out,
                   missing, leftover>>

----------------------------------------------------------------------------
(* The reaper *)

\* A group passes the deadline its entry holds.
Expire(g) ==
    /\ index[g] = "open" /\ Reapers # {}
    /\ index' = [index EXCEPT ![g] = "due"]
    /\ UNCHANGED <<onOverflow, kv, thread, history>>

\* Mutant of Sweep: an entry without a deadline is passed over.
SweepDueOnly(r) ==
    /\ pc[r] = "idle"
    /\ todo' = [todo EXCEPT ![r] = {<<g, index[g]>> : g \in Indexed} \cap (Groups \X {"due"})]
    /\ todo'[r] # {}
    /\ Goto(r, "sweep")
    /\ UNCHANGED <<onOverflow, kv, index, op, grp, seen, carry, tries, claimed, history>>

\* A tick: sweep reads the index.
Sweep(r) ==
    /\ pc[r] = "idle"
    /\ todo' = [todo EXCEPT ![r] = {<<g, index[g]>> : g \in Indexed} \cap
                                   (Groups \X {"claim", "due"})]
    /\ todo'[r] # {}
    /\ Goto(r, "sweep")
    /\ UNCHANGED <<onOverflow, kv, index, op, grp, seen, carry, tries, claimed, history>>

\* An entry of what it read: a claim is checked, a group past its deadline released.
Visit(r) ==
    /\ pc[r] = "sweep"
    /\ \E e \in todo[r] :
        /\ todo' = [todo EXCEPT ![r] = @ \ {e}]
        /\ grp' = [grp EXCEPT ![r] = e[1]]
        /\ op' = [op EXCEPT ![r] = IF e[2] = "claim" THEN "reclaim" ELSE "take"]
    /\ Goto(r, "read")
    /\ UNCHANGED <<onOverflow, kv, index, seen, carry, tries, claimed, history>>

----------------------------------------------------------------------------
MessageStep(m) ==
    Claim(m) \/ Refuse(m) \/ Overflow(m) \/ Evict(m) \/ CommitFold(m) \/ GiveBack(m)
ReaperStep(r) == Sweep(r) \/ Visit(r)
GroupStep(t) == CommitTake(t) \/ Track(t) \/ Forget(t) \/ Deliver(t)
LockStep(t) == Read(t) \/ Restore(t)

\* Every message is answered and no goroutine of the block is at work.
Quiet == \A t \in Threads : pc[t] \in Ended \cup {"idle"}

Next ==
    \/ \E m \in Msgs : MessageStep(m) \/ FailFold(m)
    \/ \E r \in Reapers : ReaperStep(r)
    \/ \E t \in Threads : GroupStep(t) \/ LockStep(t) \/ RefuseDelivery(t) \/ StoreError(t)
    \/ \E g \in Groups : Expire(g)
    \/ Quiet /\ UNCHANGED vars

Spec == Init /\ [][Next]_vars

\* Goroutines run, a sync.Mutex starves no waiter, the ticker ticks and time passes.
FairSpec ==
    /\ Spec
    /\ \A m \in Msgs : WF_vars(MessageStep(m) \/ GroupStep(m)) /\ SF_vars(LockStep(m))
    /\ \A r \in Reapers : WF_vars(ReaperStep(r) \/ GroupStep(r)) /\ SF_vars(LockStep(r))
    /\ \A g \in Groups : WF_vars(Expire(g))

----------------------------------------------------------------------------
(* Properties *)

Pcs == Ended \cup {"reserve", "evict", "read", "reread", "commit", "track", "forget",
                   "giveback", "deliver", "restore", "idle", "sweep"}
Entry == [ver : Nat, msgs : SUBSET Msgs]

\* The kinds of values.  An entry that is there has messages: foldMessage adds one before it
\* writes, and restore puts back a group that had some.
TypeOK ==
    /\ onOverflow \in Policies
    /\ kv \in [Groups -> Entry]
    /\ \A g \in Groups : Stored(g) <=> kv[g].msgs # {}
    /\ index \in [Groups -> {"none", "claim", "open", "due"}]
    /\ pc \in [Threads -> Pcs]
    /\ op \in [Threads -> {"fold", "take", "reclaim", "restore"}]
    /\ grp \in [Threads -> Groups]
    /\ seen \in [Threads -> Entry]
    /\ carry \in [Threads -> SUBSET Msgs]
    /\ tries \in [Threads -> 0 .. Attempts]
    /\ claimed \subseteq Msgs
    /\ todo \in [Reapers -> SUBSET (Groups \X {"claim", "due"})]
    /\ absorbed \subseteq Msgs /\ lost \subseteq Msgs
    /\ out \in [Msgs -> Nat]
    /\ faults \in 0 .. MaxFaults
    /\ missing \subseteq Groups /\ leftover \subseteq Groups

\* How many places hold message m: a stored group, a group on its way out, a delivered
\* group, or a group restore had to give up (which it logs).
Copies(m) ==
    Cardinality({g \in Groups : m \in kv[g].msgs}) + Cardinality({t \in Threads : m \in carry[t]})
        + out[m] + Cardinality({m} \cap lost)

\* A message is in exactly one place from the moment its fold commits, and in none
\* before: foldMessage, takeStored and deliver neither lose a message nor put one into
\* two groups ("a group another replica completed first is simply gone and this call
\* does nothing").
ExactlyOnce == \A m \in Msgs : Copies(m) = IF m \in absorbed THEN 1 ELSE 0

\* The stripe makes the store's version checks certain within one replica: no goroutine
\* meets a conflict there ("so the optimistic loop only has to resolve genuine
\* cross-replica races").
NoSelfConflict ==
    \A t \in Threads :
        pc[t] = "commit" /\ (\A u \in Threads : Home[u] = Home[t]) => seen[t] = kv[grp[t]]

\* A stored group has an entry with its deadline, so the reaper finds it (completionTimeout:
\* "How long a group may stay open"), or the goroutine that stored it is about to write one.
\* The exceptions are the code's own: a trackGroup that was given up, and the slot a failed
\* fold gave back under a group another message had stored meanwhile.  Either lasts only
\* "until the group is written again".
StoredHasDeadline ==
    \A g \in Groups : Stored(g) =>
        \/ index[g] \in {"open", "due"}
        \/ \E t \in Threads : pc[t] = "track" /\ grp[t] = g
        \/ g \in missing

\* No slot leaks: an entry has a stored group behind it, or it is the claim of a message
\* whose fold will store the group or give the slot back, or a goroutine is about to clear it
\* (foldMessage's return of a claimed slot, commitComplete clearing the index for a group
\* that was never stored).  The exception is a forgetGroup that was given up.
NoLeakedSlot ==
    \A g \in Indexed :
        \/ Stored(g)
        \/ \E m \in claimed : /\ Key[m] = g /\ op[m] = "fold"
                              /\ pc[m] \in {"read", "reread", "commit", "giveback"}
        \/ \E t \in Threads : pc[t] = "forget" /\ grp[t] = g
        \/ g \in leftover

\* Every message is answered: no eviction, stripe or refused delivery parks it for good.
EveryMessageAnswered == <>(\A m \in Msgs : pc[m] \in Ended)

\* With a reaper, the messages absorbed into groups go out with them, sooner or later all of
\* them (none comes back from there), but for those of groups restore lost and of groups whose
\* entry stays missing for good, because they are never written again.
AbsorbedGoesOut ==
    <>[](\A m \in absorbed : out[m] > 0 \/ m \in lost \/ Key[m] \in missing)

\* With a reaper, an entry that was left over is cleared or gets its group back: it "resolves
\* on the next sweep", so it does not count against maxGroups for good.
LeftoverResolves == leftover # {} ~> leftover = {}
============================================================================
