\* Two high-resolution timers.
CONSTANTS
  t = t
  h1 = h1
  h2 = h2
  Timers = {}
  HiRes = {h1, h2}
  Ticks <- OneAndTwo
  Marker = Marker
  NULL = NULL
  MaxQueued = 1
SPECIFICATION FairSpec
PROPERTIES Expires
CHECK_DEADLOCK FALSE
