\* Three threads get, put and hand on; the program stops when memory runs out.
CONSTANTS
  t1 = t1
  t2 = t2
  t3 = t3
  b1 = b1
  b2 = b2
  b3 = b3
  Threads = {t1, t2, t3}
  Blocks = {b1, b2, b3}
  NULL = NULL
SPECIFICATION Spec
SYMMETRY PoolSymmetry
INVARIANTS TypeOK ListsOK OnePlace
PROPERTY ImplementsAllocator
CHECK_DEADLOCK FALSE
