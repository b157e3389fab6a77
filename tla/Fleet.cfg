CONSTANTS
  cp = cp
  dp = dp
  Procs = {cp, dp}
  Cp = {cp}
  Flags <- TwoFlags
  Names = {n1, n2}
  NULL = NULL
  Asked = {10, 16}
  Granule = 16
  SizeEdges <- Edges
  LifeEdges <- Lives
  Milli = 1
  Second = 2
  OldLines <- LogBefore
  MaxCalls = 3
  MaxEnds = 1
  MaxClock = 1
SPECIFICATION Spec
INVARIANTS LiveAgrees PeakIsLargest DistinctCovers CrossMatches FileOrder RowsCountOnce
CHECK_DEADLOCK FALSE
SYMMETRY AnyName
