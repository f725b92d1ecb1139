SPECIFICATION Spec
CONSTANTS
  n1 = n1
  n2 = n2
  w1 = w1
  w2 = w2
  l1 = l1
  l2 = l2
  o1 = o1
  Nodes = {n1}
  Workers = {w1}
  LeaseIds = {l1, l2}
  Obligations = {}
  Serves <- MCServes
  GraphStatuses = {"PENDING"}
  Funded = {n1}
  MaxRevision = 1
  MaxPolicy = 2
  MaxSnapshot = 2
  MaxToken = 2
  NoWorker = NoWorker
  NoLease = NoLease
SYMMETRY MCSymmetry
INVARIANTS
  PolicyBound
  LeaseBacked
PROPERTIES
  KeepsTheBook
