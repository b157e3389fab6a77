CONSTANTS
  a = a b = b c = c d = d e = e
  Stacks <- Stacks4
  Hash <- HashWrap4
  STK_CAP = 4
  CallocFails = TRUE
  NoStack = NoStack
SPECIFICATION FairSpec
INVARIANTS OneNumber AnswerStands
PROPERTIES InternReturns
CHECK_DEADLOCK FALSE
