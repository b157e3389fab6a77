CONSTANTS
  Threads = {t1, t2}
  Main = t1
  Addrs = {a1}
  NULL = NULL
  Sizes = {1}
  NoEntry = NoEntry
  NoLine = NoLine
  Sharing = FALSE
  UnmapMayFail = FALSE
  OpenMayFail = FALSE
  MaxCalls = 4
  MaxFaults = 0
SPECIFICATION Spec
INVARIANTS EverythingSeen
CHECK_DEADLOCK FALSE
