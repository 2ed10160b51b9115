CONSTANTS
  p1 = p1
  p2 = p2
  Procs = {p1, p2}
  Programs <- FlowsOnly
  Online <- FirstTwo
  Nobody = Nobody
  NoObject = NoObject
  MaxHandles = 1
  MaxOps = 3
  MaxLeaks = 1
SPECIFICATION Spec
INVARIANT NoPanic
