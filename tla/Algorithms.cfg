CONSTANTS
  Pages = {p1, p2}
  MaxTx = 2
  MaxRecords = 5
  Txs = {1, 2, 3, 4}
  HeaderSize = 2
  Sizes = {4, 5}
  AppendsPastTear = FALSE
  MaxFrames = 4
  Keys = {1, 2, 3, 4, 5, 6}
  Rids = {1}
  LeafCap = 2
  SepCap = 2
  MinLeaf = 1
  MinChildren = 2
  MaxCalls = 11
  HeaderBytes = 6
  LenBytes = 4
  MaxFrameLen = 3
  Payloads = {0, 3, 4}
  MaxSent = 3
  Callers = {t1, t2, t3}
  NoGuard = NoGuard
  MaxDepth = 3
  FirstGuards = {NoGuard, t1}
SPECIFICATION Spec
INVARIANTS ReplayRight VictimIsYoungestOnCycle LogReadsBack TreeSound FramesReadWhole SectionsHeld
CHECK_DEADLOCK FALSE
