\* One producer and the destroyer make their calls in callbacks.
CONSTANTS
  p1 = p1
  p2 = p2
  d = d
  c = c
  b1 = b1
  b2 = b2
  b3 = b3
  Producers = {p1, p2}
  Destroyer = d
  Dispatcher = c
  Reentrant = {p2, d}
  Blocks = {b1, b2, b3}
  Empty = Empty
  NULL = NULL
  MaxEnqueues = 2
SPECIFICATION FairSpec
PROPERTIES ImplementsMailbox EveryMessageDispatched Released
CHECK_DEADLOCK FALSE
