\* As threads: does the dispatcher drain the queue before it returns?
CONSTANTS
  p1 = p1
  p2 = p2
  d = d
  c = c
  b1 = b1
  b2 = b2
  b3 = b3
  Producers = {p1, p2}
  Destroyer = d
  Dispatcher = c
  Reentrant = {}
  Blocks = {b1, b2, b3}
  Empty = Empty
  NULL = NULL
  MaxEnqueues = 2
SPECIFICATION Spec
INVARIANT AllDispatched
CHECK_DEADLOCK FALSE
