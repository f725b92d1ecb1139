SPECIFICATION FairSpec
CONSTANTS
  plan = plan
  receipt = receipt
  p1 = p1
  p2 = p2
  i1 = i1
  i2 = i2
  v = v
  w = w
  Procs = {p1, p2}
  CmdIds = {i1}
  Idents = {receipt}
  EffectIdents = {receipt}
  Values = {v}
  Batches <- MCBatches
  MaxLog = 2
  MaxIssued = 2
  NoProc = NoProc
  NoCmd = NoCmd
  NoRow = NoRow
  NoValue = NoValue
  NoJob = NoJob
PROPERTIES
  EveryCallEnds
  LockIsReleased
