\* Two messages and a stop of one conversation, on two replicas; one thing goes wrong.
CONSTANTS
    m1 = m1
    m2 = m2
    s1 = s1
    r1 = r1
    r2 = r2
    Msgs = {m1, m2}
    Stops = {s1}
    NoRun = NoRun
    Replicas = {r1, r2}
    Home <- WithStop
    Attempts = 2
    MaxIterations = 2
    MaxFaults = 1
SPECIFICATION Spec
INVARIANTS
    TypeOK
    AcceptedIsHandled
    LiveRunHoldsClaim
    TakenOnce
PROPERTIES
    TurnsKept
