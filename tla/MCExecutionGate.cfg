SPECIFICATION Spec
CONSTANTS
    c1 = c1
    c2 = c2
    r1 = r1
    r2 = r2
    n1 = n1
    Calls = {c1, c2}
    Requests = {r1, r2}
    Nodes = {n1}
    NodeOf <- MCNodeOf
    MayAsk <- MCMayAsk
    PostCheckHolds = TRUE
    MayCrash = {c1}
    MaxDisturbances = 2
    None = None
INVARIANTS
    TypeOK
    OneActivePerNode
    OneProcessPerNode
    SpawnRecorded
    ProvenMeansGone
    FailedHasNoLease
PROPERTIES
    StartsUnderLease
    EveryGateCallEnds
CHECK_DEADLOCK FALSE
