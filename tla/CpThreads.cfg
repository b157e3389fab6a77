CONSTANTS
  Threads = {t1, t2}
  Main = t1
  Addrs = {a1, a2}
  NULL = NULL
  Sizes = {1, 3}
  NoEntry = NoEntry
  NoLine = NoLine
  Sharing = TRUE
  UnmapMayFail = TRUE
  OpenMayFail = FALSE
  MaxCalls = 4
  MaxFaults = 0
SPECIFICATION Spec
INVARIANTS NoPhantoms BytesCoverLive LogReplays LinesTell BytesTell ReturnedIsLogged SummaryAgrees ExitLinesAgree LiveIsMapped
CHECK_DEADLOCK FALSE
SYMMETRY AnyAddr
