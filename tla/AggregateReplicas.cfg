\* Three messages of one group of two, each on a replica of its own; nothing fails and
\* there is no reaper.
CONSTANTS
    a1 = a1
    a2 = a2
    a3 = a3
    b1 = b1
    r1 = r1
    ga = ga
    gb = gb
    Msgs = {a1, a2, a3}
    Reapers = {}
    Groups = {ga, gb}
    Key <- MCKey
    Home <- OwnHome
    Stripe <- OwnStripe
    GroupSize = 2
    MaxGroups = 2
    Policies = {"fail"}
    Attempts = 2
    Failing = {}
    MaxFaults = 0
SPECIFICATION Spec
INVARIANTS
    ExactlyOnce
