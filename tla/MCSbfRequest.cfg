\* Two requesters, a request of each, and a replier; a copy may be lost.
CONSTANTS
  r1 = r1
  r2 = r2
  e1 = e1
  e2 = e2
  Requesters = {r1, r2}
  Repliers = {e1}
  Starts = {{e1, r1}, {r1, r2}}
  MaxRequests = 1
  MaxLost = 1
  Overlap = FALSE
  NULL = NULL
SPECIFICATION FairSpec
INVARIANTS TypeOK ReplyMatches ReceivedOK ReadyOnce
PROPERTY Answered
CHECK_DEADLOCK FALSE
