CONSTANTS
  HistBuckets = 3
  Keys = {k1, k2}
  MaxSamples = 3
  MaxEvicted = 1
  MaxPolls = 3
SPECIFICATION ReportSpec
CHECK_DEADLOCK FALSE
SYMMETRY Symmetry
INVARIANT RowsOrdered
INVARIANT DeltasAddUp
