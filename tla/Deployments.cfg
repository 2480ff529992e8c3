\* Two deployments, the second of which may take the slug of the first, and the sweeps of one
\* replica; one thing goes wrong.
CONSTANTS
    Deploys = {d1, d2}
    NoDeploy = NoDeploy
    Slugs = {s1}
    NoSlug = NoSlug
    Sweepers = {w1}
    MaxFaults = 1
SPECIFICATION FairSpec
INVARIANTS
    TypeOK
    SweepSparesDeployments
    AddressIsOwn
PROPERTIES
    ComesToAgree
