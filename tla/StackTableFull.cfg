CONSTANTS
  a = a b = b c = c d = d e = e
  Stacks <- Stacks5
  Hash <- HashWrap5
  STK_CAP = 4
  CallocFails = FALSE
  NoStack = NoStack
SPECIFICATION FairSpec
PROPERTIES InternReturns
