\* Two namespaces that persist and one that does not, on a file system that syncs directories or
\* does not; a file operation and a load fail, and the process or the machine dies once.
CONSTANTS
    Namespaces = {p1, p2, q}
    Persistent = {p1, p2}
    NoNamespace = NoNamespace
    MaxChanges = 3
    MaxFailures = 2
    MaxCrashes = 1
SPECIFICATION FairSpec
INVARIANTS
    TypeOK
    NothingForgotten
    FlushedSurvives
PROPERTIES
    ReachesDisk
