SPECIFICATION Spec
CONSTANTS
    c1 = c1
    c2 = c2
    r1 = r1
    r2 = r2
    n1 = n1
    Calls = {c1, c2}
    Requests = {r1, r2}
    Nodes = {n1}
    NodeOf <- MCNodeOf
    MayAsk <- MCMayAsk
    PostCheckHolds = FALSE
    MayCrash = {}
    MaxDisturbances = 0
    None = None
INVARIANT
    StrandedLease
CHECK_DEADLOCK FALSE
