\* A timer or event, and two high-resolution timers.
CONSTANTS
  t = t
  h1 = h1
  h2 = h2
  Timers = {t}
  HiRes = {h1, h2}
  Ticks <- OneAndTwo
  Marker = Marker
  NULL = NULL
  MaxQueued = 1
SPECIFICATION FairSpec
INVARIANTS TypeOK SourceHeld NoLostWakeup
PROPERTIES Freed Fires
CHECK_DEADLOCK FALSE
