SPECIFICATION Spec
CONSTANTS
  n1 = n1
  n2 = n2
  w1 = w1
  w2 = w2
  l1 = l1
  l2 = l2
  o1 = o1
  Nodes = {n1, n2}
  Workers = {w1}
  LeaseIds = {}
  Obligations = {o1}
  Serves <- MCServes
  GraphStatuses = {"READY"}
  Funded = {}
  MaxRevision = 2
  MaxPolicy = 2
  MaxSnapshot = 1
  MaxToken = 1
  NoWorker = NoWorker
  NoLease = NoLease
INVARIANTS
  TypeOK
PROPERTIES
  RevisionReopens
