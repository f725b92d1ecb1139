SPECIFICATION Spec
CONSTANTS
    n1 = n1
    n2 = n2
    r1 = r1
    r2 = r2
    b1 = b1
    d1 = d1
    d2 = d2
    Nonces = {n1, n2}
    Requests = {r1, r2}
    Bindings = {b1}
    Dims = {d1, d2}
    Amounts <- MCAmounts
    Limits <- MCLimits
    Ask <- MCAsk
    MaxTime = 2
    None = None
INVARIANTS
    TypeOK
    NonceOnce
    PaidRows
    AdmittedWithinLimit
PROPERTIES
    EndedRowsRest
SYMMETRY Symmetry
CHECK_DEADLOCK FALSE
