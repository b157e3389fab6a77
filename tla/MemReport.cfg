CONSTANTS
  f = f
  g = g
  h = h
  NPages = 5
  PageSize = 2
  HeapPages = {0}
  Window = 2
  SampleBytes = 2
  Lengths = {2, 3, 6}
  Blocks = {1, 2}
  Stacks <- TwoStacks
  Depth = 2
  Scale = 2520
  Far = 2
  MaxCalls = 3
SPECIFICATION Spec
INVARIANTS AttributedExact CoverageBounded
CHECK_DEADLOCK FALSE
