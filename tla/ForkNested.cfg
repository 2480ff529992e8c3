\* A fork inside a branch of a fork, one pool worker, and a queue with room for all
\* the branches there are.  The deadlock is what the property is about.
CONSTANTS
    Workers = {w1}
    PoolWorkers = {p1}
    Idle = Idle
    Messages = 1
    Queue = 4
    Branches = 2
    Nesting = 2
SPECIFICATION Spec
PROPERTIES
    NoSilentDeadlock
CHECK_DEADLOCK FALSE
