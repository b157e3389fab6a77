CONSTANTS
  Threads = {t1, t2}
  Main = t1
  Addrs = {a1, a2}
  NULL = NULL
  Sizes = {1}
  NoEntry = NoEntry
  NoLine = NoLine
  Sharing = FALSE
  UnmapMayFail = FALSE
  OpenMayFail = TRUE
  MaxCalls = 3
  MaxFaults = 2
SPECIFICATION FairSpec
INVARIANTS TornCostsTwo
PROPERTIES CallsReturn ExitEnds
CHECK_DEADLOCK FALSE
