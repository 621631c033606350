----------------------------- MODULE SbfMailbox -----------------------------
(***************************************************************************)
(* What a queue promises its users (sbfQueue.h): items come out in the     *)
(* order they went in, each one once, and sbfQueue_dispatch returns only   *)
(* after the item that sbfQueue_destroy added, when everything in front of *)
(* that item has been handed to its callback.                              *)
(***************************************************************************)
EXTENDS Naturals, Sequences

CONSTANTS
  Message,  \* what a producer enqueues: a callback and its closure
  Marker    \* the NULL callback that sbfQueue_destroy enqueues; no message

VARIABLES
  box,        \* what was enqueued and not yet handed out, oldest first
  delivered,  \* the messages handed out, in order
  phase,      \* "open", "closing" in sbfQueue_destroy, "sealed" by the marker
  stopped     \* sbfQueue_dispatch leaves its loop

mailboxVars == <<box, delivered, phase, stopped>>

Init ==
  /\ box = << >>
  /\ delivered = << >>
  /\ phase = "open"
  /\ stopped = FALSE

Send(m) ==
  /\ phase = "open"
  /\ box' = Append(box, m)
  /\ UNCHANGED <<delivered, phase, stopped>>

Close ==
  /\ phase = "open"
  /\ phase' = "closing"
  /\ UNCHANGED <<box, delivered, stopped>>

Seal ==
  /\ phase = "closing"
  /\ phase' = "sealed"
  /\ box' = Append(box, Marker)
  /\ UNCHANGED <<delivered, stopped>>

Receive ==
  /\ ~stopped
  /\ box # << >>
  /\ box' = Tail(box)
  /\ delivered' = IF Head(box) = Marker
                    THEN delivered
                    ELSE Append(delivered, Head(box))
  /\ UNCHANGED <<phase, stopped>>

Stop ==
  /\ ~stopped
  /\ phase = "sealed" /\ box = << >>
  /\ stopped' = TRUE
  /\ UNCHANGED <<box, delivered, phase>>

\* Gives up while the queue is being destroyed, whatever is in the box.
Abandon ==
  /\ ~stopped
  /\ phase # "open"
  /\ stopped' = TRUE
  /\ UNCHANGED <<box, delivered, phase>>

Next == (\E m \in Message : Send(m)) \/ Close \/ Seal \/ Receive \/ Stop

\* The mailbox a queue is meant to be.
Spec == Init /\ [][Next]_mailboxVars

\* A mailbox that may drop what it holds once it is being destroyed, and at no
\* other time.
LossySpec == Init /\ [][Next \/ Abandon]_mailboxVars
=============================================================================
