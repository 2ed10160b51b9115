CONSTANTS
  Flows = {f1, f2}
  NoKey = NoKey
  Lens <- OneByte
  Word = 16
  Cap = 1
  Iterates = TRUE
  MaxTraffic = 3
  MaxEvictions = 1
  MaxPolls = 3
SPECIFICATION FairSpec
CHECK_DEADLOCK FALSE
INVARIANT TypeOK
INVARIANT SnapshotSandwich
PROPERTY RenderedDeltas
PROPERTY ShutsDown
