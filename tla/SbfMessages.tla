---------------------------- MODULE SbfMessages ----------------------------
(***************************************************************************)
(* The messages of one topic, from the publishers of a process to the      *)
(* subscriptions of another: fragments (sbfTportFragments.c), batches      *)
(* (sbfBatch.c), packets and dispatch (sbfHandler.c).                      *)
(*                                                                         *)
(* Publishers send a message whole or in fragments under mSendLock; a      *)
(* batch fills packets with messages and fragments and takes mSendLock     *)
(* packet by packet.  The receiver has one event thread: it puts fragments *)
(* together, with nothing in them that names their message, and gives a    *)
(* message to the subscriptions of the topic.                              *)
(*                                                                         *)
(* Contents are abstracted to where each piece comes from.  Messages over  *)
(* SBF_MESSAGE_SIZE_LIMIT, which are not sent, are not in Sizes.           *)
(***************************************************************************)
EXTENDS Integers, Sequences, SequencesExt, FiniteSetsExt, Functions

CONSTANTS
  Pubs,         \* the publishers, each used by a thread of its own
  Batches,      \* the batches, each with a publisher whose messages it takes
  Subs,         \* bound: the subscriptions, each created at most once
  HeaderSize, PacketSize,
  Sizes,        \* of the messages that are sent
  MaxMessages,  \* bound: messages sent
  Handlers,     \* of "udp", datagrams, and "tcpmesh", a stream of bytes
  MaxLost,      \* bound: packets the network loses (udp)
  NULL

Senders == Pubs \cup Batches

ASSUME MessagesAssumption ==
  /\ Pubs \cap Batches = {} /\ NULL \notin Senders \cup Subs
  /\ HeaderSize \in Nat /\ PacketSize \in Nat /\ HeaderSize < PacketSize
  /\ Sizes \subseteq Nat \ {0}
  /\ MaxMessages \in Nat /\ MaxLost \in Nat
  /\ Handlers \subseteq {"udp", "tcpmesh"}

VARIABLES
  handler,    \* the transport's, one of Handlers from the start
  begun,      \* the messages each publisher has been given
  job,        \* of sbfTport_fragment: the fragments a publisher has to send
  mSendLock,  \* the publisher that holds it, or NULL
  mBuffers,   \* of each batch: its packets, mCurrent the last one
  sending,    \* the batches whose mutex sbfBatch_send holds
  wire,       \* the packets sent, not yet received
  lost,       \* the number of packets lost
  input,      \* the messages received, not yet handled
  reading,    \* the event thread is in the read callback
  mSubs,      \* of the topic
  mNext,
  mFragNum, mFragData,
  mDestroyed, \* the subscriptions whose flag is set
  got,        \* what each subscription was given
  handled,    \* history: the fragments sbfTport_assemble has seen for the topic
  dispatched, \* history: what sbfHandlerDispatchMessage was called with
  since,      \* history: Len (dispatched) when the subscription was added
  until       \* history: Len (dispatched) when it was destroyed

sendVars == <<handler, begun, job, mSendLock, mBuffers, sending>>
readVars == <<input, reading>>
topicVars == <<mSubs, mNext, mFragNum, mFragData>>
subVars == <<mDestroyed, got, since, until>>
historyVars == <<handled, dispatched>>
vars == <<sendVars, wire, lost, readVars, topicVars, subVars, historyVars>>

Messages == [pub : Senders, num : Nat, size : Sizes]

\* sbfTportHeader with what follows it: size bytes of msg from offset from.
Headers == [msg : Messages, from : Nat, size : Nat, fragNum : Nat,
            lastInPacket : BOOLEAN, lastFragment : BOOLEAN]

\* A piece of a message that has been received.
Piece(h) == [msg |-> h.msg, from |-> h.from, size |-> h.size]
Pieces == [msg : Messages, from : Nat, size : Nat]

TypeOK ==
  /\ handler \in Handlers
  /\ begun \in [Senders -> Nat]
  /\ job \in [Pubs -> Seq(Headers)]
  /\ mSendLock \in Pubs \cup {NULL}
  /\ mBuffers \in [Batches -> Seq(Seq(Headers))]
  /\ sending \subseteq Batches
  /\ wire \in Seq(Seq(Headers))
  /\ lost \in Nat
  /\ input \in Seq(Headers)
  /\ reading \in BOOLEAN
  /\ mSubs \in Seq(Subs)
  /\ mNext \in Subs \cup {NULL}
  /\ mFragNum \in Nat
  /\ mFragData \in Seq(Pieces)
  /\ mDestroyed \subseteq Subs
  /\ got \in [Subs -> Seq(Seq(Pieces))]
  /\ handled \in Seq(Headers)
  /\ dispatched \in Seq(Seq(Pieces))
  /\ since \in [Subs -> Nat \cup {-1}] /\ until \in [Subs -> Nat \cup {-1}]
-----------------------------------------------------------------------------
Init ==
  /\ handler \in Handlers
  /\ begun = [p \in Senders |-> 0]
  /\ job = [p \in Pubs |-> << >>]
  /\ mSendLock = NULL
  /\ mBuffers = [b \in Batches |-> << >>] /\ sending = {}
  /\ wire = << >> /\ lost = 0
  /\ input = << >> /\ reading = FALSE
  /\ mSubs = << >> /\ mNext = NULL
  /\ mFragNum = 0 /\ mFragData = << >>
  /\ mDestroyed = {}
  /\ got = [s \in Subs |-> << >>]
  /\ handled = << >> /\ dispatched = << >>
  /\ since = [s \in Subs |-> -1] /\ until = [s \in Subs |-> -1]

\* The next message of publisher p.
Message(p, size) == [pub |-> p, num |-> begun[p] + 1, size |-> size]

Begin(p) == /\ FoldFunction(+, 0, begun) < MaxMessages
            /\ begun' = [begun EXCEPT ![p] = @ + 1]

Room == PacketSize - HeaderSize

\* A message that is not fragmented, in a packet of its own or one of several.
Unfragmented(m, last) ==
  [msg |-> m, from |-> 0, size |-> m.size, fragNum |-> 0,
   lastInPacket |-> last, lastFragment |-> FALSE]

\* m in fragments, the first of at most first bytes, the others of Room.
Fragments(m, first, last) ==
  LET one == Min({first, m.size})
      n == 1 + (m.size - one + Room - 1) \div Room
      From(k) == IF k = 1 THEN 0 ELSE one + (k - 2) * Room
  IN [k \in 1..n |->
        [msg |-> m, from |-> From(k),
         size |-> IF k = 1 THEN one ELSE Min({Room, m.size - From(k)}),
         fragNum |-> k, lastInPacket |-> last, lastFragment |-> k = n]]

\* The handler takes a packet.  A stream keeps no packet boundaries.
Send(packet) ==
  wire' = IF handler = "tcpmesh" THEN wire \o [i \in DOMAIN packet |-> <<packet[i]>>]
          ELSE Append(wire, packet)

\* sbfPub_sendBuffer of a message that fits into a packet, sbfTport_sendBuffer.
PubSend(p, size) ==
  /\ job[p] = << >> /\ mSendLock = NULL
  /\ size + HeaderSize <= PacketSize
  /\ Begin(p)
  /\ Send(<<Unfragmented(Message(p, size), TRUE)>>)
  /\ UNCHANGED <<handler, job, mSendLock, mBuffers, sending, lost, readVars,
                 topicVars, subVars, historyVars>>

\* Mutant: no lock is taken.
FragmentUnlocked(p, size) ==
  /\ job[p] = << >>
  /\ size + HeaderSize > PacketSize
  /\ Begin(p)
  /\ mSendLock' = mSendLock
  /\ job' = [job EXCEPT ![p] = Fragments(Message(p, size), Room, TRUE)]
  /\ UNCHANGED <<handler, mBuffers, sending, wire, lost, readVars, topicVars,
                 subVars, historyVars>>

\* sbfPub_sendBuffer of one that does not: sbfTport_fragment takes the lock.
FragmentLock(p, size) ==
  /\ job[p] = << >> /\ mSendLock = NULL
  /\ size + HeaderSize > PacketSize
  /\ Begin(p)
  /\ mSendLock' = p
  /\ job' = [job EXCEPT ![p] = Fragments(Message(p, size), Room, TRUE)]
  /\ UNCHANGED <<handler, mBuffers, sending, wire, lost, readVars, topicVars,
                 subVars, historyVars>>

\* The loop of sbfTport_fragment; the lock is released after the last one.
FragmentSend(p) ==
  /\ job[p] # << >>
  /\ Send(<<Head(job[p])>>)
  /\ job' = [job EXCEPT ![p] = Tail(@)]
  /\ mSendLock' = IF Len(job[p]) = 1 THEN NULL ELSE mSendLock
  /\ UNCHANGED <<handler, begun, mBuffers, sending, lost, readVars, topicVars,
                 subVars, historyVars>>
-----------------------------------------------------------------------------
\* The batch.

\* The bytes in a packet.
Used(packet) ==
  FoldLeft(LAMBDA sum, h : sum + HeaderSize + h.size, 0, packet)

\* SBF_MESSAGE_FLAG_LAST_IN_PACKET on the last header of a packet (mLast).
Closed(packet) == [packet EXCEPT ![Len(packet)].lastInPacket = TRUE]

\* Mutant: the room that is left is not looked at.
NextBufferFull(buffers) == IF buffers # << >> THEN buffers ELSE Append(buffers, << >>)

\* sbfBatchNextBuffer: mBuffers and mCurrent, a new one if it has no room.
NextBuffer(buffers) ==
  IF buffers # << >> /\ PacketSize - Used(Last(buffers)) > HeaderSize
  THEN buffers ELSE Append(buffers, << >>)

\* sbfBatchUpdateBuffer for each of headers, the first into the last of
\* buffers and each of the others into a new one that NextBuffer adds.
UpdateBuffers(buffers, headers) ==
  LET filled == Front(buffers) \o <<Append(Last(buffers), Head(headers))>>
                \o [k \in 1..Len(headers) - 1 |-> <<headers[k + 1]>>]
  IN [i \in DOMAIN filled |->
        IF i < Len(filled) THEN Closed(filled[i]) ELSE filled[i]]

\* What sbfBatch_add makes of message m when left bytes are free: the test is
\* "more than enough", so one that fits exactly is a fragment.
BatchHeaders(m, left) ==
  IF left > HeaderSize + m.size THEN <<Unfragmented(m, FALSE)>>
  ELSE Fragments(m, left - HeaderSize, FALSE)

\* sbfBatch_add.
BatchAdd(b, size) ==
  LET buffers == NextBuffer(mBuffers[b])
      left == PacketSize - Used(Last(buffers))
  IN /\ b \notin sending
     /\ Begin(b)
     /\ mBuffers' = [mBuffers EXCEPT ![b] =
                       UpdateBuffers(buffers, BatchHeaders(Message(b, size), left))]
     /\ UNCHANGED <<handler, job, mSendLock, sending, wire, lost, readVars,
                    topicVars, subVars, historyVars>>

\* sbfBatch_send takes the mutex of the batch and ends the last packet.
BatchSend(b) ==
  /\ b \notin sending /\ mBuffers[b] # << >>
  /\ sending' = sending \cup {b}
  /\ mBuffers' = [mBuffers EXCEPT ![b] = Front(@) \o <<Closed(Last(@))>>]
  /\ UNCHANGED <<handler, begun, job, mSendLock, wire, lost, readVars,
                 topicVars, subVars, historyVars>>

\* Mutant: the packets are sent from the back.
BatchSendLast(b) ==
  /\ b \in sending /\ mSendLock = NULL
  /\ Send(Last(mBuffers[b]))
  /\ mBuffers' = [mBuffers EXCEPT ![b] = Front(@)]
  /\ sending' = IF Len(mBuffers[b]) > 1 THEN sending ELSE sending \ {b}
  /\ UNCHANGED <<handler, begun, job, mSendLock, lost, readVars, topicVars,
                 subVars, historyVars>>

\* Its loop sends one packet under mSendLock.
BatchSendPacket(b) ==
  /\ b \in sending /\ mSendLock = NULL
  /\ Send(Head(mBuffers[b]))
  /\ mBuffers' = [mBuffers EXCEPT ![b] = Tail(@)]
  /\ sending' = IF Len(mBuffers[b]) > 1 THEN sending ELSE sending \ {b}
  /\ UNCHANGED <<handler, begun, job, mSendLock, lost, readVars, topicVars,
                 subVars, historyVars>>

\* sbfBatch_destroy drops what was not sent; another batch may be created.
BatchDestroy(b) ==
  /\ b \notin sending /\ mBuffers[b] # << >>
  /\ mBuffers' = [mBuffers EXCEPT ![b] = << >>]
  /\ UNCHANGED <<handler, begun, job, mSendLock, sending, wire, lost, readVars,
                 topicVars, subVars, historyVars>>
-----------------------------------------------------------------------------
\* The network.

\* A datagram is lost; a connection loses nothing.
Lose ==
  /\ handler = "udp" /\ lost < MaxLost
  /\ \E i \in DOMAIN wire : wire' = RemoveAt(wire, i)
  /\ lost' = lost + 1
  /\ UNCHANGED <<sendVars, readVars, topicVars, subVars, historyVars>>

\* The datagram callback of the udp handler: sbfHandler_packet of one packet.
\* Its loop ends at SBF_MESSAGE_FLAG_LAST_IN_PACKET.
ReadPacket ==
  /\ handler = "udp" /\ ~reading /\ wire # << >>
  /\ LET packet == Head(wire)
         ends == {i \in DOMAIN packet : packet[i].lastInPacket}
     IN input' = IF ends = {} THEN packet ELSE SubSeq(packet, 1, Min(ends))
  /\ wire' = Tail(wire)
  /\ reading' = TRUE
  /\ UNCHANGED <<sendVars, lost, topicVars, subVars, historyVars>>

\* Data arrives on a connection, any number of messages and perhaps a piece of
\* one more, and libevent calls sbfTcpMeshHandlerConnectionReadCb once.
ReadStream ==
  /\ handler = "tcpmesh" /\ ~reading
  /\ \E k \in 0..Len(wire) :
       /\ k < Len(wire) \/ wire # << >>
       /\ input' = input \o [i \in 1..k |-> Head(wire[i])]
       /\ wire' = SubSeq(wire, k + 1, Len(wire))
       /\ reading' = (input' # << >>)
  /\ UNCHANGED <<sendVars, lost, topicVars, subVars, historyVars>>
-----------------------------------------------------------------------------
\* The event thread: sbfHandler_packet, one message at a time.

\* Mutant: those before mNext are forgotten.
TurnToEnd ==
  LET i == SelectInSeq(mSubs, LAMBDA s : s = mNext)
  IN IF mNext = NULL THEN mSubs ELSE SubSeq(mSubs, i, Len(mSubs))

\* sbfHandlerDispatchMessage: the subscriptions in turn, from mNext.
Turn ==
  LET i == SelectInSeq(mSubs, LAMBDA s : s = mNext)
  IN IF mNext = NULL THEN mSubs
     ELSE SubSeq(mSubs, i, Len(mSubs)) \o SubSeq(mSubs, 1, i - 1)

Dispatch(message) ==
  /\ got' = [s \in Subs |-> IF s \in ToSet(Turn) \ mDestroyed
                            THEN Append(got[s], message) ELSE got[s]]
  /\ mNext' = IF Len(Turn) > 1 /\ Head(Turn) # Last(mSubs) THEN Turn[2] ELSE NULL
  /\ dispatched' = Append(dispatched, message)

\* The condition at the head of sbfTport_assemble.
Expected(h) ==
  /\ h.fragNum = mFragNum + 1
  /\ mFragData = << >> => h.fragNum = 1

\* Mutant: mFragNum is not reset when a message is complete.
AssembleOn(h) ==
  /\ handled' = Append(handled, h)
  /\ IF Expected(h)
     THEN /\ mFragNum' = h.fragNum
          /\ mFragData' = IF h.lastFragment THEN << >> ELSE Append(mFragData, Piece(h))
     ELSE mFragNum' = 0 /\ mFragData' = << >>
  /\ IF Expected(h) /\ h.lastFragment
     THEN Dispatch(Append(mFragData, Piece(h)))
     ELSE UNCHANGED <<got, mNext, dispatched>>

\* sbfTport_assemble, and the dispatch of the message a fragment ends.
Assemble(h) ==
  /\ handled' = Append(handled, h)
  /\ IF Expected(h) /\ ~h.lastFragment
     THEN /\ mFragNum' = h.fragNum
          /\ mFragData' = Append(mFragData, Piece(h))
     ELSE /\ mFragNum' = 0
          /\ mFragData' = << >>
  /\ IF Expected(h) /\ h.lastFragment
     THEN Dispatch(Append(mFragData, Piece(h)))
     ELSE UNCHANGED <<got, mNext, dispatched>>

\* One round of the loop in sbfHandler_packet, or its first branch.  No topic
\* is found for a message nobody subscribes to (sbfHandlerFindTopic).
HandleMessage ==
  LET h == Head(input)
  IN /\ reading
     /\ input' = Tail(input)
     /\ reading' = (handler = "udp" /\ Len(input) > 1)
     /\ IF mSubs = << >> THEN UNCHANGED <<topicVars, got, historyVars>>
        ELSE /\ mSubs' = mSubs
             /\ IF h.fragNum # 0 THEN Assemble(h)
                ELSE /\ Dispatch(<<Piece(h)>>)
                     /\ UNCHANGED <<mFragNum, mFragData, handled>>
     /\ UNCHANGED <<sendVars, wire, lost, mDestroyed, since, until>>

\* sbfSubAddEventCb: the first subscription finds no topic and adds it.
SubAdd(s) ==
  /\ ~reading
  /\ since[s] = -1
  /\ mSubs' = Append(mSubs, s)
  /\ IF mSubs = << >>
     THEN mNext' = NULL /\ mFragNum' = 0 /\ mFragData' = << >> /\ handled' = << >>
     ELSE UNCHANGED <<mNext, mFragNum, mFragData, handled>>
  /\ since' = [since EXCEPT ![s] = Len(dispatched)]
  /\ UNCHANGED <<sendVars, wire, lost, readVars, mDestroyed, got, until, dispatched>>

\* sbfSub_destroy, from any thread at any time.
SubDestroy(s) ==
  /\ since[s] # -1 /\ s \notin mDestroyed
  /\ mDestroyed' = mDestroyed \cup {s}
  /\ until' = [until EXCEPT ![s] = Len(dispatched)]
  /\ UNCHANGED <<sendVars, wire, lost, readVars, topicVars, got, since, historyVars>>

\* The subscription after s in the list.
After(s) == LET i == SelectInSeq(mSubs, LAMBDA sub : sub = s)
            IN IF i < Len(mSubs) THEN mSubs[i + 1] ELSE NULL

\* sbfSubRemoveEventCb; the topic goes with the last subscription.
SubRemove(s) ==
  /\ ~reading
  /\ s \in mDestroyed /\ s \in ToSet(mSubs)
  /\ mNext' = IF mNext = s THEN After(s) ELSE mNext
  /\ mSubs' = RemoveFirst(mSubs, s)
  /\ UNCHANGED <<sendVars, wire, lost, readVars, mFragNum, mFragData, subVars,
                 historyVars>>
-----------------------------------------------------------------------------
Next ==
  \/ \E p \in Pubs, size \in Sizes : PubSend(p, size) \/ FragmentLock(p, size)
  \/ \E p \in Pubs : FragmentSend(p)
  \/ \E b \in Batches, size \in Sizes : BatchAdd(b, size)
  \/ \E b \in Batches : BatchSend(b) \/ BatchSendPacket(b) \/ BatchDestroy(b)
  \/ Lose \/ ReadPacket \/ ReadStream \/ HandleMessage
  \/ \E s \in Subs : SubAdd(s) \/ SubDestroy(s) \/ SubRemove(s)

Spec == Init /\ [][Next]_vars

\* The event thread runs its callbacks, and the loops of the senders go on.
Fairness ==
  /\ \A p \in Pubs : WF_vars(FragmentSend(p))
  /\ \A b \in Batches : WF_vars(BatchSendPacket(b))
  /\ WF_vars(ReadPacket) /\ WF_vars(ReadStream /\ wire' # wire)
  /\ WF_vars(HandleMessage)

FairSpec == Spec /\ Fairness
-----------------------------------------------------------------------------
\* A message that is one message, all of it, in order.
Intact(message) ==
  LET m == message[1].msg
  IN /\ \A i \in DOMAIN message : message[i].msg = m
     /\ message[1].from = 0
     /\ \A i \in 1..Len(message) - 1 :
          message[i + 1].from = message[i].from + message[i].size
     /\ Last(message).from + Last(message).size = m.size

\* What assembles m from fragments handled[i + 1] .. handled[j].
Whole(i, j) ==
  /\ i < j
  /\ \A k \in (i + 1)..j : /\ handled[k].msg = handled[j].msg
                           /\ handled[k].fragNum = k - i
                           /\ handled[k].lastFragment <=> k = j

\* What fragments are for: when all of the fragments of a message are handled
\* one after the other, and the one before them was the last of its message, the
\* message is dispatched in one piece - whatever was lost, interleaved or left
\* half done before.  A lost fragment costs at most the message it was in and the
\* one whose fragments come next.
Recovers ==
  \A i \in 0..Len(handled), j \in DOMAIN handled :
    Whole(i, j) /\ (i > 0 => handled[i].lastFragment)
      => \E d \in DOMAIN dispatched :
           dispatched[d] = [k \in 1..(j - i) |-> Piece(handled[i + k])]

\* Nothing but a loss mixes messages up: when no packet was lost, what the
\* subscriptions are given is intact, however fragments of the publishers (held
\* together by mSendLock), packets of the batch and the coming and going of
\* subscriptions interleave.
IntactUnlessLost ==
  lost = 0 => \A d \in DOMAIN dispatched : Intact(dispatched[d])

\* A message is dispatched at most once and those of a publisher in the order
\* it sent them.
InOrder ==
  \A d, e \in DOMAIN dispatched :
    LET m == Last(dispatched[d]).msg
        n == Last(dispatched[e]).msg
    IN d < e /\ m.pub = n.pub => m.num < n.num

\* From when it was added until it was destroyed a subscription is given each
\* message that is dispatched, once, wherever mNext stood and whichever other
\* subscriptions came and went.
EachOnce ==
  \A s \in Subs :
    got[s] = IF since[s] = -1 THEN << >>
             ELSE SubSeq(dispatched, since[s] + 1,
                         IF until[s] = -1 THEN Len(dispatched) ELSE until[s])

\* What has been received is handled: a message does not wait for the next one.
Handled == input # << >> ~> input = << >>
=============================================================================
