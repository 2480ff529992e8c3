\* A tick, a worker, a pool worker and a reaper, each with a channel or a queue of one.  A
\* takeover block in the chain and one in the error chain: a tail that fails resumes a tail.
CONSTANTS
    Ticks = {t1}
    Workers = {w1}
    PoolWorkers = {p1}
    Reapers = {r1}
    Msgs = {m1, m2, m3}
    NoOne = NoOne
    Buffer = 1
    Queue = 1
    Takeovers = 1
    ErrorTakeovers = 1
    HasErrorPath = TRUE
    Outcomes = {"completed", "failed"}
SPECIFICATION FairSpec
INVARIANTS
    TypeOK
    NoSendOnClosed
    PoolOutlivesTails
    OneTerminalEach
PROPERTIES
    NoAddAfterWait
    StopCompletes
    AcceptedEnds
