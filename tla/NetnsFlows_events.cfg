CONSTANTS
  Ns = {root, n1, n2}
  Root = root
  Paths = {pid1, pid2, web}
  RootPath = pid1
  Names = {web}
  Inodes = {i1, i2, i3}
  RootInode = i1
  NoNs = NoNs
  NoInode = NoInode
  Cap = 1
  Environments <- AllEnvironments
  MaxChanges = 3
SPECIFICATION FairSpec
CHECK_DEADLOCK FALSE
INVARIANT EventsReplay
INVARIANT MarkedIsAttached
INVARIANT SteadyNotRemoved
PROPERTY EveryNsAttached
PROPERTY GoroutinesStop
