CONSTANTS
  h1 = h1 h2 = h2 m1 = m1 m2 = m2
  Threads = {t1, t2}
  Heap = {h1, h2}
  Maps = {m1, m2}
  NULL = NULL
  Shard <- TwoShards
  NSHARD = 2
  MayDrop = TRUE
  MayFail = {"realloc", "munmap"}
  MayMove = TRUE
  MaxAllocs = 3
SPECIFICATION Spec
INVARIANTS TableExact HeapHeld DumpNetOfFrees DumpCovers
SYMMETRY AnyThread
