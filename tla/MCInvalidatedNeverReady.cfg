SPECIFICATION MCSpec
CONSTANTS
    o1 = o1
    o2 = o2
    e1 = e1
    e2 = e2
    a1 = a1
    a2 = a2
    t1 = t1
    t2 = t2
    k1 = k1
    k2 = k2
    ann = ann
    ann2 = ann2
    bob = bob
    eve = eve
    Worked = {o1}
    Waived = {o2}
    EvidenceIds = {e1}
    AssessmentIds = {a1, a2}
    Targets = {t1, t2}
    Rows = {k1, k2}
    Contracts <- MCContracts
    ReceiptSets <- MCReceiptSets
    Waivers <- MCWaivers
    ApprovalSets <- MCApprovalSets
    FirstApprovals <- MCFirstApprovals
    AssessmentLists <- MCAssessmentLists
    DependencySets = {"LISTED", "LOOSE"}
    Directory <- MCDirectory
    AuthorityOf <- MCAuthorityOf
    Approvers = {ann}
    Quorum = 2
    WaiverRules <- MCWaiverRules
    MaxWaiverTtl = 1
    MaxClock = 1
    FirstTarget = t1
    Invalidations <- MCInvalidations
    MaxRevisions = 1
    MaxPolicy = 1
    MaxEvents = 5
    None = None
PROPERTIES
    InvalidatedNeverReady
SYMMETRY MCSymmetry
CHECK_DEADLOCK FALSE
