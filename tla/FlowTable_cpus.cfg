CONSTANTS
  NoFlow = NoFlow
  NoNode = NoNode
  Cpus = {c1, c2}
  Nodes = {n1, n2}
  Frames <- AllFrames
  MaxPackets = 4
  MaxEvictions = 1
SPECIFICATION Spec
SYMMETRY Symmetry
INVARIANT TypeOK
INVARIANT CountWithinCpus
INVARIANT BytesFitPackets
INVARIANT SerialExact
PROPERTY Counters
