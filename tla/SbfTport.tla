------------------------------ MODULE SbfTport ------------------------------
(***************************************************************************)
(* A transport with its publishers and subscriptions (sbfTport.c,          *)
(* sbfTportPrivate.h, sbfPub.c, sbfSub.c) over a handler (sbfHandler.h).   *)
(*                                                                         *)
(* Publishers and subscriptions, clients here, share streams.  Any thread  *)
(* creates and destroys clients; the lists of a stream belong to one event *)
(* thread, which runs the callbacks of sbfMw_enqueueThread in order.  A    *)
(* stream is freed when the last of its topics is.                         *)
(*                                                                         *)
(* One action is one access to what threads share with the thread-local    *)
(* work around it, or all that happens under mStreamsLock when no one looks *)
(* without it.  A stream and a topic are named for the client whose        *)
(* creation or add event allocates them.                                   *)
(***************************************************************************)
EXTENDS Integers, Sequences, FiniteSets, SequencesExt, FiniteSetsExt

CONSTANTS
  Pubs, Subs,   \* bound: the clients the application may create, once each
  NumThreads,   \* event threads, numbered from 1
  Topics,       \* the topics each client may be created with
  Key,          \* what the handler finds a client's stream by
  Notified,     \* the clients created with a ready callback
  Weight,       \* of each subscription (sbfTport_topicWeight)
  KeepsHandle,  \* RemoveStream leaves what FindStream returns (tcpmesh)
  MayFail,      \* adding a stream may fail (udp)
  NULL,
  MaxCallbacks  \* bound: callbacks of one client in the user's queue

Clients == Pubs \cup Subs
Threads == 1..NumThreads
Keys == {Key[c] : c \in Clients}

ASSUME TportAssumption ==
  /\ Pubs \cap Subs = {}
  /\ IsFiniteSet(Clients)
  /\ NumThreads \in Nat \ {0}
  /\ \A topics \in Topics : DOMAIN topics = Clients
  /\ DOMAIN Key = Clients
  /\ Notified \subseteq Clients
  /\ Weight \in [Subs -> Nat]
  /\ KeepsHandle \in BOOLEAN /\ MayFail \in BOOLEAN
  /\ NULL \notin Clients
  /\ MaxCallbacks \in Nat

VARIABLES
  \* struct sbfTportImpl
  mStreams,         \* the list of streams
  mStreamsLock,     \* the client whose creation holds it, or NULL
  mStreamsWaiting,
  mWeights,
  tpc,              \* of sbfTport_destroy: "open", "waiting" or "freed"
  \* the handler
  handle,           \* the stream FindStream returns
  \* struct sbfTportStreamImpl
  mThread, mRefCount,
  mStreamReady,     \* the streams whose mReady is set
  mTopics,          \* the topics in the tree
  failed,           \* the streams whose AddStreamComplete had an error
  freedStreams,
  \* struct sbfPubImpl and sbfSubImpl
  mTopic, mTportStream, mTportTopic,
  mReady, mDestroyed, mRemoved,  \* the clients whose flag is set
  listed,           \* the clients in mPubs or mSubs of their mTportTopic
  clientRefs,       \* mRefCount of the client
  freedClients,
  pc,               \* of sbfPub_create and sbfSub_create
  \* the event threads
  events,           \* the callbacks a thread has to run, the current one first
  at,               \* where in that callback the thread is
  cursor,           \* the stream the walk in the first destroy callback is at
  \* the user's queue
  userQueue,        \* the callbacks enqueued for each client
  called            \* history: those the application has seen

tportVars == <<mStreams, mStreamsLock, mStreamsWaiting, mWeights, tpc, handle>>
streamVars == <<mThread, mRefCount, mStreamReady, mTopics, failed, freedStreams>>
clientVars == <<mTopic, mTportStream, mTportTopic, mReady, mDestroyed, mRemoved,
                listed, clientRefs, freedClients, pc>>
threadVars == <<events, at, cursor>>
queueVars == <<userQueue, called>>
vars == <<tportVars, streamVars, clientVars, threadVars, queueVars>>

EventKinds == {"complete", "add", "remove", "first", "second"}

TypeOK ==
  /\ mStreams \in Seq(Clients)
  /\ mStreamsLock \in Clients \cup {NULL}
  /\ mStreamsWaiting \in Nat
  /\ mWeights \in [Threads -> Nat]
  /\ tpc \in {"open", "waiting", "freed"}
  /\ handle \in [Keys -> Clients \cup {NULL}]
  /\ mThread \in [Clients -> Threads]
  /\ mRefCount \in [Clients -> Nat]
  /\ mTopics \in [Clients -> SUBSET Clients]
  /\ mStreamReady \subseteq Clients /\ failed \subseteq Clients
  /\ freedStreams \subseteq Clients
  /\ mTopic \in Topics
  /\ mTportStream \in [Clients -> Clients \cup {NULL}]
  /\ mTportTopic \in [Clients -> Clients \cup {NULL}]
  /\ mReady \subseteq Clients /\ mDestroyed \subseteq Clients
  /\ mRemoved \subseteq Clients /\ listed \subseteq Clients
  /\ clientRefs \in [Clients -> Nat]
  /\ freedClients \subseteq Clients
  /\ pc \in [Clients -> {"none", "placed", "set", "created"}]
  /\ events \in [Threads -> Seq(EventKinds \X Clients)]
  /\ at \in [Threads -> {"loop", "empty", "walk"}]
  /\ cursor \in [Threads -> Clients \cup {NULL}]
  /\ userQueue \in [Clients -> Seq({"ready", "message"})]
  /\ called \in [Clients -> SUBSET {"ready", "message"}]
-----------------------------------------------------------------------------
\* sbfTport_create.
Init ==
  /\ mStreams = << >> /\ mStreamsLock = NULL /\ mStreamsWaiting = 0
  /\ mWeights = [t \in Threads |-> 0]
  /\ tpc = "open"
  /\ handle = [k \in Keys |-> NULL]
  /\ mThread = [s \in Clients |-> 1]
  /\ mRefCount = [s \in Clients |-> 0]
  /\ mTopics = [s \in Clients |-> {}]
  /\ mStreamReady = {} /\ failed = {} /\ freedStreams = {}
  /\ mTopic \in Topics
  /\ mTportStream = [c \in Clients |-> NULL]
  /\ mTportTopic = [c \in Clients |-> NULL]
  /\ mReady = {} /\ mDestroyed = {} /\ mRemoved = {}
  /\ listed = {}
  /\ clientRefs = [c \in Clients |-> 1]
  /\ freedClients = {}
  /\ pc = [c \in Clients |-> "none"]
  /\ events = [t \in Threads |-> << >>]
  /\ at = [t \in Threads |-> "loop"]
  /\ cursor = [t \in Threads |-> NULL]
  /\ userQueue = [c \in Clients |-> << >>]
  /\ called = [c \in Clients |-> {}]

SameKind(c) == IF c \in Pubs THEN Pubs ELSE Subs

\* What a client adds to the weight of its thread.
WeightOf(c) == IF c \in Subs THEN Weight[c] ELSE 0

AdjustWeight(t, change) == mWeights' = [mWeights EXCEPT ![t] = @ + change]

LockFree == mStreamsLock = NULL
-----------------------------------------------------------------------------
(* sbfPub_create and sbfSub_create, by any thread, under mStreamsLock. *)

\* sbfTport_nextThread: the first of the threads with the least weight.
NextThread ==
  CHOOSE t \in Threads :
    \A u \in Threads : \/ mWeights[t] < mWeights[u]
                       \/ mWeights[t] = mWeights[u] /\ t <= u

\* The handler's FindStream.
FindStream(c) == handle[Key[c]]

\* The handler knows the stream: queue the add event.
JoinStream(c, s) ==
  /\ events' = [events EXCEPT ![mThread[s]] = Append(@, <<"add", c>>)]
  /\ UNCHANGED <<mStreams, handle, mThread>>

\* The handler's AddStream: the stream is found from now on, and its thread is to
\* complete it.
HandlerAddStream(c, t) ==
  /\ handle' = [handle EXCEPT ![Key[c]] = c]
  /\ events' = [events EXCEPT ![t] = Append(@, <<"complete", c>>)]

\* sbfTport_addStream.
AddStream(c) ==
  /\ mThread' = [mThread EXCEPT ![c] = NextThread]
  /\ HandlerAddStream(c, NextThread)
  /\ mStreams' = Append(mStreams, c)

\* Take the lock and find or add the stream.  No client is created once
\* sbfTport_destroy is called.
SetStream(c) ==
  /\ pc[c] = "none" /\ tpc = "open"
  /\ LockFree
  /\ mStreamsLock' = c
  /\ pc' = [pc EXCEPT ![c] = "placed"]
  /\ IF FindStream(c) # NULL THEN JoinStream(c, FindStream(c)) ELSE AddStream(c)
  /\ UNCHANGED <<mTopic, mStreamsWaiting, mWeights, tpc, mRefCount, mStreamReady,
                 mTopics, failed, freedStreams, mTportStream, mTportTopic,
                 mReady, mDestroyed, mRemoved, listed, clientRefs,
                 freedClients, at, cursor, queueVars>>

\* pub->mTportStream = tstream, the stream that was found or added.
StoreStream(c) ==
  /\ pc[c] = "placed"
  /\ mTportStream' = [mTportStream EXCEPT ![c] = FindStream(c)]
  /\ pc' = [pc EXCEPT ![c] = "set"]
  /\ UNCHANGED <<mTopic, tportVars, streamVars, mTportTopic, mReady, mDestroyed,
                 mRemoved, listed, clientRefs, freedClients, threadVars,
                 queueVars>>

\* Mutant: no reference is taken on the stream.
HoldNothing(s) == UNCHANGED mRefCount

IncrementStream(s) == mRefCount' = [mRefCount EXCEPT ![s] = @ + 1]

\* Count the reference and, for a subscription, the weight; release the lock.
HoldStream(c) ==
  /\ pc[c] = "set"
  /\ IncrementStream(mTportStream[c])
  /\ AdjustWeight(mThread[mTportStream[c]], WeightOf(c))
  /\ mStreamsLock' = NULL
  /\ pc' = [pc EXCEPT ![c] = "created"]
  /\ UNCHANGED <<mTopic, mStreams, mStreamsWaiting, tpc, handle, mThread,
                 mStreamReady, mTopics, failed, freedStreams, mTportStream,
                 mTportTopic, mReady, mDestroyed, mRemoved, listed,
                 clientRefs, freedClients, threadVars, queueVars>>

\* sbfPub_destroy and sbfSub_destroy, by the application.
Destroy(c) ==
  /\ pc[c] = "created" /\ tpc = "open"
  /\ c \notin mDestroyed
  /\ mDestroyed' = mDestroyed \cup {c}
  /\ events' = [events EXCEPT ![mThread[mTportStream[c]]] =
                                 Append(@, <<"remove", c>>)]
  /\ UNCHANGED <<mTopic, tportVars, streamVars, mTportStream, mTportTopic, mReady,
                 mRemoved, listed, clientRefs, freedClients, pc, at, cursor,
                 queueVars>>
-----------------------------------------------------------------------------
(* The callbacks of the event threads. *)

Fired(t, kind) == events[t] # << >> /\ at[t] = "loop" /\ Head(events[t])[1] = kind
Of(t) == Head(events[t])[2]

Return(t) ==
  /\ events' = [events EXCEPT ![t] = Tail(@)]
  /\ at' = [at EXCEPT ![t] = "loop"]
  /\ cursor' = [cursor EXCEPT ![t] = NULL]

\* sbfPubEnsureStream: without a stream, wait for the lock to be released.
EnsureStream(c) == mTportStream[c] # NULL \/ LockFree

\* Mutant: no reference for the queued callback.
EnqueueUncounted(who, callback) ==
  /\ userQueue' = [c \in Clients |-> IF c \in who THEN Append(userQueue[c], callback)
                                                  ELSE userQueue[c]]
  /\ UNCHANGED clientRefs

\* Queue a callback for the clients that are not destroyed, with a reference.
Enqueue(who, callback) ==
  /\ userQueue' = [c \in Clients |-> IF c \in who THEN Append(userQueue[c], callback)
                                                  ELSE userQueue[c]]
  /\ clientRefs' = [c \in Clients |-> IF c \in who THEN clientRefs[c] + 1
                                                   ELSE clientRefs[c]]

\* Mutant: the application is not told.
ReadyUntold(who) ==
  /\ mReady' = mReady \cup who
  /\ UNCHANGED <<userQueue, clientRefs>>

\* sbfPub_ready and sbfSub_ready.
BecomeReady(who) ==
  /\ mReady' = mReady \cup who
  /\ Enqueue((who \cap Notified) \ mDestroyed, "ready")

\* sbfTport_findTopic.
FoundTopics(s, c) == {o \in mTopics[s] : mTopic[o] = mTopic[c]}

\* Mutant: the reference held while waiting for the event is not given back.
DroppedNothing == 0

Dropped == 1

\* sbfPubAddEventCb: find or add the topic, whose reference on the stream takes
\* the place of the one the client held.
AddToTopic(c, s) ==
  LET found == FoundTopics(s, c)
      topic == IF found = {} THEN c ELSE CHOOSE o \in found : TRUE
  IN /\ mTopics' = [mTopics EXCEPT ![s] = @ \cup {topic}]
     /\ mRefCount' = [mRefCount EXCEPT ![s] =
                        @ + (IF found = {} THEN 1 ELSE 0) - Dropped]
     /\ mTportTopic' = [mTportTopic EXCEPT ![c] = topic]
     /\ listed' = listed \cup {c}

AddEvent(t) ==
  LET c == Of(t)
      s == mTportStream[c]
  IN /\ Fired(t, "add")
     /\ EnsureStream(c)
     /\ AddToTopic(c, s)
     /\ BecomeReady(IF s \in mStreamReady THEN {c} ELSE {})
     /\ Return(t)
     /\ UNCHANGED <<mTopic, tportVars, mThread, mStreamReady, failed, freedStreams,
                    mTportStream, mDestroyed, mRemoved, freedClients, pc,
                    called>>

\* sbfPubAddStreamCompleteCb, with an error: no client becomes ready.
AddStreamFails(t) ==
  LET c == Of(t)
  IN /\ Fired(t, "complete")
     /\ MayFail
     /\ EnsureStream(c)
     /\ failed' = failed \cup {mTportStream[c]}
     /\ Return(t)
     /\ UNCHANGED <<tportVars, mThread, mRefCount, mStreamReady, mTopics,
                    freedStreams, clientVars, queueVars>>

\* sbfPubAddStreamCompleteCb: the clients on the lists become ready, and the one
\* that created the stream is added.  Deferred removes there are none, see
\* CompleteFirst.
AddStreamComplete(t) ==
  LET c == Of(t)
      s == mTportStream[c]
  IN /\ Fired(t, "complete")
     /\ EnsureStream(c)
     /\ mStreamReady' = mStreamReady \cup {s}
     /\ AddToTopic(c, s)
     /\ BecomeReady({c} \cup {x \in listed \cap SameKind(c) : mTportStream[x] = s})
     /\ Return(t)
     /\ UNCHANGED <<mTopic, tportVars, mThread, failed, freedStreams, mTportStream,
                    mDestroyed, mRemoved, freedClients, pc, called>>

\* Give back a client's reference; the last one frees it.
DropClient(c) ==
  /\ clientRefs' = [clientRefs EXCEPT ![c] = @ - 1]
  /\ freedClients' = freedClients \cup {x \in {c} : clientRefs[c] = 1}

\* The remove event of a client that is not ready is put off.
DeferRemove(t) ==
  LET c == Of(t)
  IN /\ Fired(t, "remove")
     /\ c \notin mReady
     /\ mRemoved' = mRemoved \cup {c}
     /\ Return(t)
     /\ UNCHANGED <<mTopic, tportVars, streamVars, mTportStream, mTportTopic, mReady,
                    mDestroyed, listed, clientRefs, freedClients, pc,
                    queueVars>>

\* The list of c's kind in its topic is empty without c.
LastOnList(c) ==
  ~\E x \in (listed \cap SameKind(c)) \ {c} : mTportTopic[x] = mTportTopic[c]

\* sbfTport_removeTopic.  The model goes on where its assertion fails, as a build
\* with NDEBUG does.
RemoveTopic(s, topic) ==
  /\ mRefCount' = [mRefCount EXCEPT ![s] = @ - 1]
  /\ mTopics' = [mTopics EXCEPT ![s] = @ \ {topic}]

GiveBackWeight(t, c) == AdjustWeight(t, -WeightOf(c))

\* sbfPubRemoveEventCb, up to the lock: take the client off its list, and the
\* topic off the stream when that leaves the list empty.
RemoveEvent(t) ==
  LET c == Of(t)
      s == mTportStream[c]
  IN /\ Fired(t, "remove")
     /\ c \in mReady
     /\ GiveBackWeight(mThread[s], c)
     /\ listed' = listed \ {c}
     /\ IF LastOnList(c)
          THEN RemoveTopic(s, mTportTopic[c])
          ELSE UNCHANGED <<mRefCount, mTopics>>
     /\ IF LastOnList(c) /\ mRefCount[s] = 1
          THEN /\ at' = [at EXCEPT ![t] = "empty"]
               /\ UNCHANGED <<clientRefs, freedClients, events, cursor>>
          ELSE DropClient(c) /\ Return(t)
     /\ UNCHANGED <<mTopic, mStreams, mStreamsLock, mStreamsWaiting, tpc, handle,
                    mThread, mStreamReady, failed, freedStreams,
                    mTportStream, mTportTopic, mReady, mDestroyed, mRemoved,
                    pc, queueVars>>

\* Mutant: the count is not read again under the lock.
StillFree(s) == TRUE

Unreferenced(s) == mRefCount[s] = 0

\* The handler's RemoveStream, as far as FindStream shows.
Forget(s) == IF KeepsHandle THEN handle
             ELSE [k \in Keys |-> IF handle[k] = s THEN NULL ELSE handle[k]]

\* sbfPubRemoveEventCb, under the lock: a client may have been created on the
\* stream since; if not, sbfTport_removeStream frees it.
RemoveStream(t) ==
  LET c == Of(t)
      s == mTportStream[c]
  IN /\ at[t] = "empty"
     /\ LockFree
     /\ IF Unreferenced(s)
          THEN /\ mStreams' = RemoveFirst(mStreams, s)
               /\ handle' = Forget(s)
               /\ freedStreams' = freedStreams \cup {s}
          ELSE UNCHANGED <<mStreams, handle, freedStreams>>
     /\ DropClient(c)
     /\ Return(t)
     /\ UNCHANGED <<mTopic, mStreamsLock, mStreamsWaiting, mWeights, tpc, mThread,
                    mRefCount, mStreamReady, mTopics, failed, mTportStream,
                    mTportTopic, mReady, mDestroyed, mRemoved, listed, pc,
                    queueVars>>

\* The handler reads a packet and passes it to sbfHandler_packet: a message for
\* each subscription on the list of the topic.
Packet(t, topic) ==
  LET s == mTportStream[topic]
      who == {x \in listed \cap Subs : mTportTopic[x] = topic} \ mDestroyed
  IN /\ at[t] = "loop"
     /\ s \in mStreamReady \ freedStreams /\ mThread[s] = t
     /\ who # {}
     /\ \A x \in who : Len(userQueue[x]) < MaxCallbacks
     /\ Enqueue(who, "message")
     /\ UNCHANGED <<mTopic, tportVars, streamVars, mTportStream, mTportTopic, mReady,
                    mDestroyed, mRemoved, listed, freedClients, pc,
                    threadVars, called>>

\* sbfPubReadyQueueCb, sbfSubReadyQueueCb and sbfSubMessageQueueCb, by the
\* thread that dispatches the user's queue.
QueueCallback(c) ==
  /\ userQueue[c] # << >>
  /\ userQueue' = [userQueue EXCEPT ![c] = Tail(@)]
  /\ called' = [called EXCEPT ![c] =
                  IF c \in mDestroyed THEN @ ELSE @ \cup {Head(userQueue[c])}]
  /\ DropClient(c)
  /\ UNCHANGED <<mTopic, tportVars, streamVars, mTportStream, mTportTopic, mReady,
                 mDestroyed, mRemoved, listed, pc, threadVars>>
-----------------------------------------------------------------------------
(* sbfTport_destroy. *)

\* Queue the first destroy callback of every stream, and wait.
TportDestroy ==
  /\ tpc = "open"
  /\ \A c \in Clients : pc[c] \in {"none", "created"}
  /\ LockFree
  /\ tpc' = "waiting"
  /\ mStreamsWaiting' = Len(mStreams)
  /\ LET queued[k \in 0..Len(mStreams)] ==
           IF k = 0 THEN events
           ELSE [queued[k - 1] EXCEPT ![mThread[mStreams[k]]] =
                                        Append(@, <<"first", mStreams[k]>>)]
     IN events' = queued[Len(mStreams)]
  /\ UNCHANGED <<mStreams, mStreamsLock, mWeights, handle, streamVars,
                 clientVars, at, cursor, queueVars>>

\* Mutant: the wait ends with the first stream.
SomeGone == mStreamsWaiting < Len(mStreams) \/ mStreamsWaiting = 0

AllGone == mStreamsWaiting = 0

\* The wait is over: destroy the handler and free the transport.
TportFree ==
  /\ tpc = "waiting"
  /\ AllGone /\ LockFree
  /\ tpc' = "freed"
  /\ UNCHANGED <<mStreams, mStreamsLock, mStreamsWaiting, mWeights, handle,
                 streamVars, clientVars, threadVars, queueVars>>

FirstOrNull(list) == IF list = << >> THEN NULL ELSE Head(list)

\* TAILQ_NEXT in mStreams.
NextStream(s) ==
  LET k == CHOOSE i \in 1..Len(mStreams) : mStreams[i] = s
  IN IF k = Len(mStreams) THEN NULL ELSE mStreams[k + 1]

\* sbfTportFirstDestroyStreamCb starts its walk of mStreams, without the lock.
FirstDestroy(t) ==
  /\ Fired(t, "first")
  /\ at' = [at EXCEPT ![t] = "walk"]
  /\ cursor' = [cursor EXCEPT ![t] = FirstOrNull(mStreams)]
  /\ UNCHANGED <<tportVars, streamVars, clientVars, events, queueVars>>

\* On to the next stream.  A thread that would read a stream freed meanwhile is
\* followed no further; see WalkOK.
Walk(t) ==
  /\ at[t] = "walk"
  /\ cursor[t] \notin {NULL, Of(t)} \cup freedStreams
  /\ cursor' = [cursor EXCEPT ![t] = NextStream(cursor[t])]
  /\ UNCHANGED <<tportVars, streamVars, clientVars, events, at, queueVars>>

\* The stream is on the list: destroy the clients on its topics and queue the
\* second callback behind their remove events.
DestroyClients(t) ==
  LET s == Of(t)
      who == {c \in listed : mTportTopic[c] \in mTopics[s]} \ mDestroyed
  IN /\ at[t] = "walk"
     /\ cursor[t] = s
     /\ mDestroyed' = mDestroyed \cup who
     /\ \E order \in SetToSeqs(who) :
          events' = [events EXCEPT ![t] =
                       Tail(@) \o [k \in 1..Len(order) |-> <<"remove", order[k]>>]
                               \o << <<"second", s>> >>]
     /\ at' = [at EXCEPT ![t] = "loop"]
     /\ cursor' = [cursor EXCEPT ![t] = NULL]
     /\ UNCHANGED <<mTopic, tportVars, streamVars, mTportStream, mTportTopic, mReady,
                    mRemoved, listed, clientRefs, freedClients, pc,
                    queueVars>>

\* Mutant: a stream that was gone already is not counted down.
CountWalkedOnly(t) == mStreamsWaiting' = mStreamsWaiting - (IF at[t] = "walk" THEN 0 ELSE 1)

CountDown(t) == mStreamsWaiting' = mStreamsWaiting - 1

\* sbfTportSecondDestroyStreamCb, from the event thread or from the first
\* callback when the stream is no longer on the list.
SecondDestroy(t) ==
  /\ Fired(t, "second") \/ (at[t] = "walk" /\ cursor[t] = NULL)
  /\ LockFree
  /\ CountDown(t)
  /\ Return(t)
  /\ UNCHANGED <<mStreams, mStreamsLock, mWeights, tpc, handle, streamVars,
                 clientVars, queueVars>>
-----------------------------------------------------------------------------
Create(c) == SetStream(c) \/ StoreStream(c) \/ HoldStream(c)

EventStep(t) ==
  \/ AddEvent(t) \/ AddStreamFails(t) \/ AddStreamComplete(t)
  \/ DeferRemove(t) \/ RemoveEvent(t) \/ RemoveStream(t)
  \/ FirstDestroy(t) \/ Walk(t) \/ DestroyClients(t) \/ SecondDestroy(t)

Next ==
  \/ \E c \in Clients : Create(c) \/ Destroy(c) \/ QueueCallback(c)
  \/ \E t \in Threads : EventStep(t) \/ \E o \in Clients : Packet(t, o)
  \/ TportDestroy \/ TportFree

Spec == Init /\ [][Next]_vars

\* The call that holds the lock goes on, the event threads run their callbacks,
\* the application dispatches its queue, and sbfTport_destroy goes on.
Fairness ==
  /\ WF_vars(\E c \in Clients : StoreStream(c) \/ HoldStream(c))
  /\ \A c \in Clients : WF_vars(QueueCallback(c))
  /\ \A t \in Threads : WF_vars(EventStep(t))
  /\ WF_vars(TportFree)

FairSpec == Spec /\ Fairness
-----------------------------------------------------------------------------
(* Properties. *)

Live(s) == s # NULL /\ s \notin freedStreams

\* A client has its stream from the time sbfPub_create stored it until its
\* remove event took it off the list.
Holds(c, s) == /\ pc[c] \in {"set", "created"}
               /\ mTportStream[c] = s
               /\ mTportTopic[c] = NULL \/ c \in listed

\* "Take a reference to the stream to prevent it going away even if the number
\* of topics hits zero" (sbfPub.c): no client holds a stream that was freed.
StreamHeld == \A c \in Clients : \A s \in freedStreams : ~Holds(c, s)

\* Part of StreamsOK.  FindStream and mStreams know the same streams, and none that was freed.
StreamsKnown ==
  \A s \in Clients :
    /\ handle[Key[s]] = s => Live(s)
    /\ (\E k \in 1..Len(mStreams) : mStreams[k] = s) <=> handle[Key[s]] = s

\* Part of ClientsHeld.  The topic of a listed client is in the tree of its stream, where the
\* reference "added in sbfTport_addTopic" keeps the stream.
TopicHeld ==
  \A c \in listed : mTportTopic[c] \in mTopics[mTportStream[c]]

\* Part of StreamsOK.  The count of a stream is that of its topics, and of the clients counted whose
\* add event has not run, less those whose add event ran before the count.
RefsOK ==
  \A s \in Clients : s \notin freedStreams =>
    mRefCount[s] = Cardinality(mTopics[s])
      + Cardinality({c \in Clients : /\ mTportStream[c] = s /\ pc[c] = "created"
                                     /\ mTportTopic[c] = NULL})
      - Cardinality({c \in Clients : /\ mTportStream[c] = s /\ pc[c] = "set"
                                     /\ mTportTopic[c] # NULL})

\* The events and callbacks that have a client for their closure.
InEvents(c) == \E t \in Threads : \E k \in 1..Len(events[t]) :
                 events[t][k][1] \in {"complete", "add", "remove"} /\ events[t][k][2] = c

\* Part of ClientsHeld.  A freed client is on no list and the closure of no event or callback.
ClientHeld ==
  \A c \in freedClients : c \notin listed /\ ~InEvents(c) /\ userQueue[c] = << >>

\* A client and its topic live as long as a list, an event or a callback has them,
\* whichever of the event thread, the user's queue and the owner comes last.
ClientsHeld == TopicHeld /\ ClientHeld

\* Part of StreamsOK.  What sbfTport_nextThread compares is the weight of the subscriptions that are
\* on each thread, nothing counted twice or left behind.
WeightsOK ==
  \A t \in Threads :
    mWeights[t] = MapThenSumSet(WeightOf, {c \in Subs : /\ pc[c] = "created"
                                                        /\ mThread[mTportStream[c]] = t
                                                        /\ Holds(c, mTportStream[c])})

\* What a stream counts and is found by is true of the clients and topics it has:
\* nothing is counted twice or left behind by creators and event threads, which
\* change the counts outside the lock.
StreamsOK == StreamsKnown /\ RefsOK /\ WeightsOK

\* Part of CallbackOrder.  The callback that completes a stream runs before the events of any other
\* client on it, so it finds no client on the lists and no deferred remove.
CompleteFirst ==
  \A t \in Threads : \A k \in 1..Len(events[t]) :
    events[t][k][1] = "complete" =>
      LET s == events[t][k][2] IN
        /\ s \notin mRemoved
        /\ \A c \in listed \cup mRemoved : mTportStream[c] # s

\* Part of CallbackOrder.  The application sees no message of a subscription before it is told that the
\* subscription is ready.
ReadyFirst == \A c \in Subs \cap Notified : "message" \in called[c] => "ready" \in called[c]

\* What is queued in several places for one client happens in the order the code
\* relies on: completion of the stream, add, remove; ready, then messages.
CallbackOrder == CompleteFirst /\ ReadyFirst

\* When the transport is freed no event thread has a callback to run for it, and
\* every stream is gone but those that could not be added.
TportFreedLast ==
  tpc = "freed" =>
    /\ \A t \in Threads : events[t] = << >>
    /\ \A k \in 1..Len(mStreams) : mStreams[k] \in failed

WalksFreed(t) == cursor[t] \in freedStreams

\* "Removing pubs or subs may already have disposed of the stream so check if
\* it's still on the transport's list" (sbfTport.c): the walk that checks meets
\* no stream that was freed.
WalkOK == \A t \in Threads : ~WalksFreed(t)

\* Part of Ended.  Destroyed clients are freed in the end, all of them, unless their stream could
\* not be added (their remove is deferred for good) or a walk has read freed
\* memory.
DestroyedFreed ==
  []<>(~WalkOK \/ \A c \in mDestroyed \ freedClients : mTportStream[c] \in failed)

\* Part of Ended.  sbfTport_destroy returns: every stream it waits for is accounted for.
TportDestroyed == (tpc = "waiting") ~> (tpc = "freed" \/ ~WalkOK)

\* All that is destroyed comes to its end.
Ended == DestroyedFreed /\ TportDestroyed
=============================================================================
