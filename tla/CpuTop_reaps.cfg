CONSTANTS
  Cpus = {c1, c2}
  Pids = {p1, p2}
  Nodes = {n1}
  NoNode = NoNode
  NoPid = NoPid
  Idle = Idle
  MaxSamples = 2
  MaxSwitches = 1
  MaxForks = 2
SPECIFICATION Spec
CHECK_DEADLOCK FALSE
INVARIANT TypeOK
INVARIANT TimeAccounted
INVARIANT LivingKeepTime
INVARIANT CacheFollowsMap
