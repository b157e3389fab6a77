CONSTANTS
  Threads = {t1, t2}
  Main = t1
  Interval = 5
  Sizes = {0, 1, 3, 4, 5, 7}
  MaxAsked = 18
SPECIFICATION Spec
INVARIANTS SampleError
