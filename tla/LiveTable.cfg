CONSTANTS
  a = a b = b c = c d = d e = e f = f
  Keys <- Keys4
  Vals = {v1, v2}
  Hash <- HashWrap
  InitCap = 4
  EMPTY = EMPTY
  TOMB = TOMB
  NoVal = NoVal
  NoReq = NoReq
SPECIFICATION FairSpec
INVARIANTS CountInv ProbeEnds UniqueInv PathInv CapBounded
PROPERTIES IsLiveSet PutReturns
