\* Three replicas, one of them with a clock ahead of the others, claim one name; any of them
\* may crash, and any request may fail.
CONSTANTS
    h1 = h1
    h2 = h2
    h3 = h3
    r1 = r1
    r2 = r2
    r3 = r3
    Handles = {h1, h2, h3}
    NoHandle = NoHandle
    Replicas = {r1, r2, r3}
    Identity <- Apart
    Offset <- Ahead
    MaxOffset = 1
    TTL = 2
SPECIFICATION FairSpec
INVARIANTS
    TypeOK
PROPERTIES
    ImplementsClaim
    SupersededLearns
    NameComesBack
CHECK_DEADLOCK FALSE
