\* Two publishers and a batch, packets for one fragment or two messages, a loss.
CONSTANTS
  p1 = p1
  p2 = p2
  b1 = b1
  b2 = b2
  s1 = s1
  s2 = s2
  Pubs = {p1, p2}
  Batches = {b1}
  Subs = {s1, s2}
  HeaderSize = 1
  PacketSize = 4
  Sizes = {1, 4}
  MaxMessages = 3
  Handlers = {"udp", "tcpmesh"}
  MaxLost = 1
  NULL = NULL
SPECIFICATION FairSpec
INVARIANTS TypeOK Recovers IntactUnlessLost InOrder EachOnce
SYMMETRY Symmetry
CHECK_DEADLOCK FALSE
