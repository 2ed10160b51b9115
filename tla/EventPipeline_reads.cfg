CONSTANTS
  NSources = 2
  NSinks = 2
  Rings = {1}
  Capacity = 2
  Sizes = {1, 2}
  MinSize = 2
  MaxBatch = 2
  MaxEvents = 3
  MaxFailures = 1
SPECIFICATION FairSpec
CHECK_DEADLOCK FALSE
INVARIANT CountsAddUp
INVARIANT DataOfOwnRead
INVARIANT SendsToOpenSinks
INVARIANT CleanStop
PROPERTY RunReturns
PROPERTY BatchReturns
