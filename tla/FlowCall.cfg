\* Two sources; a chain of three flows whose calls wait, and a one-way flow-ref that competes
\* for the last of them.  One worker and one place in the channel each.
CONSTANTS
    m1 = m1
    m2 = m2
    m3 = m3
    s1 = s1
    s2 = s2
    callee = callee
    last = last
    Flows = {s1, callee, s2, last}
    Place <- Configured
    Implicit = {callee, last}
    Ref <- Chain
    OneWay = {s2}
    NoFlow = NoFlow
    Msgs = {m1, m2, m3}
    Source <- From
    Workers = 1
    Buffer = 1
    Depth = 2
    FlowOf <- Through
    NoInv = NoInv
SPECIFICATION FairSpec
INVARIANTS
    TypeOK
    NoStrandedCaller
    RefsResolve
    ConnectorsOutliveFlows
PROPERTIES
    RunReturns
