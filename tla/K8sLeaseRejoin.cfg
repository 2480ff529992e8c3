\* One replica claims the name again while its first claim, not renewed in time, is still
\* in its hands; another replica looks on.
CONSTANTS
    h1 = h1
    h2 = h2
    h3 = h3
    r1 = r1
    r2 = r2
    r3 = r3
    Handles = {h1, h2, h3}
    NoHandle = NoHandle
    Replicas = {r1, r2}
    Identity <- Together
    Offset <- Agree
    MaxOffset = 0
    TTL = 1
SPECIFICATION Spec
PROPERTIES
    RenewalSparesSuccessor
CHECK_DEADLOCK FALSE
