CONSTANTS
  a = a b = b c = c d = d e = e
  Addrs <- FiveAddrs
  Vals = {v1, v2}
  Home <- Homes
  SHARD_CAP = 4
  EMPTY = EMPTY
  TOMB = TOMB
  NoVal = NoVal
  CallocFails = TRUE
SPECIFICATION Spec
INVARIANTS EnoughSlots
PROPERTIES IsLossyMap
