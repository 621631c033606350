---------------------------- MODULE SbfAllocator ----------------------------
(***************************************************************************)
(* What sbfPool.h promises: sbfPool_get returns memory that no one holds,  *)
(* and only the holder gives it back.                                      *)
(***************************************************************************)
CONSTANTS Threads, Blocks

VARIABLES held  \* the blocks each thread got and has not put back

Init == held = [t \in Threads |-> {}]

Get(t, b) ==
  /\ \A u \in Threads : b \notin held[u]
  /\ held' = [held EXCEPT ![t] = @ \cup {b}]

Put(t, b) ==
  /\ b \in held[t]
  /\ held' = [held EXCEPT ![t] = @ \ {b}]

\* An item is handed to another thread, as queue items are.
Hand(t, u, b) ==
  /\ t # u
  /\ b \in held[t]
  /\ held' = [held EXCEPT ![t] = @ \ {b}, ![u] = @ \cup {b}]

Next == \E t \in Threads, b \in Blocks :
          Get(t, b) \/ Put(t, b) \/ \E u \in Threads : Hand(t, u, b)

Spec == Init /\ [][Next]_held
=============================================================================
