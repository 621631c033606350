\* A connection that is made, one that arrives, and their reads.
CONSTANTS
  o1 = o1
  i1 = i1
  Outgoing = {o1}
  Incoming = {i1}
  MaxConns = 1
  MaxBytes = 3
  NULL = NULL
SPECIFICATION FairSpec
INVARIANTS TypeOK RefsOK ReadArmed CallbackOrder
PROPERTIES Offered Freed
CHECK_DEADLOCK FALSE
