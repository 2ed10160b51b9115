CONSTANTS
  p1 = p1
  p2 = p2
  Procs = {p1, p2}
  Programs <- AllPrograms
  Online <- FirstTwo
  Nobody = Nobody
  NoObject = NoObject
  MaxHandles = 2
  MaxOps = 5
  MaxLeaks = 1
SPECIFICATION FairSpec
INVARIANT NoOrphans
INVARIANT StatusTruthful
INVARIANT RegisteredOpen
INVARIANT ClosedOnce
PROPERTY CallsReturn
