CONSTANTS
  NoFlow = NoFlow
  Sockets <- AllSockets
  Estimates <- SomeEstimates
  MaxSegments = 4
SPECIFICATION RttSpec
INVARIANT JoinBothDirections
INVARIANT SamplesExact
