\* Forks whose branches hold no fork: two workers fork at once on a pool of two with
\* a queue of three, so the queue fills and Submit can panic.  NoSilentDeadlock is the
\* deadlock check: the process's other goroutines keep running.
CONSTANTS
    Workers = {w1, w2}
    PoolWorkers = {p1, p2}
    Idle = Idle
    Messages = 2
    Queue = 3
    Branches = 2
    Nesting = 1
SPECIFICATION Spec
INVARIANTS
    TypeOK
    NoOrphanBranch
PROPERTIES
    NoSilentDeadlock
CHECK_DEADLOCK FALSE
