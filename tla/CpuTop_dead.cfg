CONSTANTS
  Cpus = {c1}
  Pids = {p1, p2}
  Nodes = {n1}
  NoNode = NoNode
  NoPid = NoPid
  Idle = Idle
  MaxSamples = 3
  MaxSwitches = 1
  MaxForks = 2
SPECIFICATION FairSpec
CHECK_DEADLOCK FALSE
PROPERTY DeadReaped
