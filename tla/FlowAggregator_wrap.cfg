CONSTANTS
  Flows = {f1}
  NoKey = NoKey
  Lens <- OneByte
  Word = 16
  Cap = 1
  Iterates = TRUE
  MaxTraffic = 3
  MaxEvictions = 1
  MaxPolls = 2
SPECIFICATION Spec
CHECK_DEADLOCK FALSE
INVARIANT RateWithinCounter
