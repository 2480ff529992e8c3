\* One replica with a reaper.  Two messages of one group of two and one of another compete for
\* one slot, under each overflow policy; the fold of one may fail, and one call of the store or
\* delivery.  EveryMessageAnswered is the deadlock check: a goroutine that waits for good leaves
\* the others running.
CONSTANTS
    a1 = a1
    a2 = a2
    a3 = a3
    b1 = b1
    r1 = r1
    ga = ga
    gb = gb
    Msgs = {a1, a2, b1}
    Reapers = {r1}
    Groups = {ga, gb}
    Key <- MCKey
    Home <- OneHome
    Stripe <- OwnStripe
    GroupSize = 2
    MaxGroups = 1
    Policies = {"fail", "complete", "drop"}
    Attempts = 2
    Failing = {a2}
    MaxFaults = 1
SPECIFICATION FairSpec
INVARIANTS
    TypeOK
    ExactlyOnce
    NoSelfConflict
    StoredHasDeadline
    NoLeakedSlot
PROPERTIES
    EveryMessageAnswered
    AbsorbedGoesOut
    LeftoverResolves
CHECK_DEADLOCK FALSE
