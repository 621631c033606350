\* Two publishers share a stream, a subscription has its own; two event threads.
CONSTANTS
  p1 = p1
  p2 = p2
  s1 = s1
  Pubs = {p1, p2}
  Subs = {s1}
  NumThreads = 2
  Topics <- PubTopics
  Key <- UdpKey
  Notified = {s1}
  Weight <- UnitWeight
  KeepsHandle = FALSE
  MayFail = TRUE
  NULL = NULL
  MaxCallbacks = 2
SPECIFICATION FairSpec
INVARIANTS TypeOK StreamHeld StreamsOK ClientsHeld CallbackOrder TportFreedLast
PROPERTY Ended
CHECK_DEADLOCK FALSE
