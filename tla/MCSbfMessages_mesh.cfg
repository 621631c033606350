\* A connection: does a message wait for the next one?
CONSTANTS
  p1 = p1
  p2 = p2
  b1 = b1
  b2 = b2
  s1 = s1
  s2 = s2
  Pubs = {p1}
  Batches = {b1}
  Subs = {s1}
  HeaderSize = 1
  PacketSize = 4
  Sizes = {1, 4}
  MaxMessages = 3
  Handlers = {"tcpmesh"}
  MaxLost = 0
  NULL = NULL
SPECIFICATION FairSpec
PROPERTY Handled
CHECK_DEADLOCK FALSE
