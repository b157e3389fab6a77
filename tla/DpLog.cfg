CONSTANTS
  Contexts = {t1, t2}
  Names <- NamesAll Addrs <- AddrsAll Sizes <- SizesAll Rets <- RetsAll
  Foreign <- ForeignAll
  MAP_CAP = 24
  UNMAP_CAP = 20
  LogMaps = TRUE
  MaxCalls = 2
  MaxDepth = 3
SPECIFICATION FairSpec
INVARIANTS SeesAll ReadBack
PROPERTIES CallsReturn
CHECK_DEADLOCK FALSE
