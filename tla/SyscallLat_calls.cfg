CONSTANTS
  HistBuckets = 2
  Tids = {t1, t2}
  Nrs = {exit, read}
  BadNr = bad
  ExitNr = exit
  StartNodes = {s1, s2}
  LatNodes = {l1, l2}
  NoNode = NoNode
  TickLengths <- NearPowers
  May <- Everything
  MaxCalls = 3
  MaxClock = 2
  MaxLosses = 2
SYMMETRY Symmetry
SPECIFICATION Spec
CHECK_DEADLOCK FALSE
INVARIANT TypeOK
INVARIANT EveryCallCounted
INVARIANT NothingCountedTwice
INVARIANT Log2Covers
PROPERTY Counters
