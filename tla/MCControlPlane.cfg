SPECIFICATION Spec
CONSTANTS
  plan = plan
  receipt = receipt
  p1 = p1
  p2 = p2
  i1 = i1
  i2 = i2
  v = v
  w = w
  Procs = {p1, p2}
  CmdIds = {i1, i2}
  Idents = {receipt}
  EffectIdents = {receipt}
  Values = {v, w}
  Batches <- MCPairs
  MaxLog = 2
  MaxIssued = 2
  NoProc = NoProc
  NoCmd = NoCmd
  NoRow = NoRow
  NoValue = NoValue
  NoJob = NoJob
SYMMETRY MCSymmetry
INVARIANTS
  TypeOK
  LedgerMatchesHistory
  AppliedAtNamedHead
  RefusedForGood
  CommittedLoadable
  OneContentPerIdentity
  EffectsFollowHistory
  AnswersHold
PROPERTIES
  CommittedForever
  ImplementsCommandLog
