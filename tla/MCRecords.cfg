SPECIFICATION MCSpec
CONSTANTS
  Keys = {k1, k2}
  Roots = {r1, r2}
  Materials = {m1, m2}
  Workers = {w1}
  Windows <- MCWindows
  MaxTime = 2
  NoKey = NoKey
  NoBlob = NoBlob
  NoAttestor = NoAttestor
  None = None
  Nodes = {n1, n2}
  Effects = {e1, e2}
  Budgets = {b1}
  Authorities = {a1}
  Fingerprints = {f1, f2}
  MaxRetries = 2
  MaxSame = 1
  MaxUses = 2
  MaxEvents = 3
  Absent = Absent
  ann = ann
  bob = bob
  mail = mail
  disk = disk
  host1 = host1
  host2 = host2
  Policies <- MCPolicies
  Asks <- MCAsks
  Principals = {ann, bob}
  Governors = {ann, bob}
  GovernanceQuorum = 2
  Capability <- MCCapability
  Scopes <- MCScopes
  Requests <- MCRequests
  Hosts = {host1, host2}
  BoundaryIps <- MCBoundaryIps
  MaxActivations = 2
  MaxGrants = 1
  NoDecision = NoDecision
INVARIANTS
  TablesFollowHistory
  NoSilentRelaxation
  GrantedByEveryScope
PROPERTY DistrustIsForGood
SYMMETRY MCSymmetry
CHECK_DEADLOCK FALSE
