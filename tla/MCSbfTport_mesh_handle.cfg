\* tcpmesh, whose RemoveStream does nothing: does a client hold a live stream?
CONSTANTS
  p1 = p1
  p2 = p2
  s1 = s1
  Pubs = {p1, p2}
  Subs = {}
  NumThreads = 1
  Topics <- OneTopic
  Key <- MeshKey
  Notified = {}
  Weight <- UnitWeight
  KeepsHandle = TRUE
  MayFail = FALSE
  NULL = NULL
  MaxCallbacks = 2
SPECIFICATION Spec
INVARIANT StreamHeld
CHECK_DEADLOCK FALSE
