\* Two producers and a third thread that destroys the queue, all concurrent.
CONSTANTS
  p1 = p1
  p2 = p2
  d = d
  c = c
  b1 = b1
  b2 = b2
  b3 = b3
  Producers = {p1, p2}
  Destroyer = d
  Dispatcher = c
  Reentrant = {}
  Blocks = {b1, b2, b3}
  Empty = Empty
  NULL = NULL
  MaxEnqueues = 2
SPECIFICATION Spec
SYMMETRY BlockSymmetry
INVARIANTS TypeOK ChainOK NoLostWakeup FreedLast
PROPERTY ImplementsLossyMailbox
CHECK_DEADLOCK FALSE
