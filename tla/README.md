# sbf in TLA+

Specifications of sbf, a C middleware of queues, timers and publish/subscribe
transports, checked with TLC; the invariants of the passing runs are also proved
with TLAPS, for every value of the constants that meets their
assumptions (the theorems about the transport, batches and identifiers name one more).
Paths below are relative to `src/` of the repository; every definition that stands
for code is listed with its lines in `PROJECT.json` under `map`.

To check: `tlc -config X.cfg M` for the runs of the table below, `tlapm M.tla` for
`SbfQueueProofs`, `SbfPoolProofs`, `SbfTportProofs`, `SbfTimersProofs`,
`SbfMessagesProofs`, `SbfTcpProofs` and `SbfRequestProofs`.

## The system

| Component | State | Operations | Talks to |
| --- | --- | --- | --- |
| Queue (`core/sbfQueue*`) | an intrusive list `mHead`/`mTail` with a stub `mEmpty`, `mWaiting` (a futex), `mExited`, `mRefCount` | create, enqueue, dispatch, destroy | any thread enqueues, one dispatches; items come from a pool |
| Pool (`common/sbfPool*`) | `mFree` (pushed by CAS), `mAvailable` (popped under a spin lock) | get, put, create, destroy | queues, buffers, batches |
| Event threads (`core/sbfMw.c`) | one libevent loop each | enqueueThread, start, stop | run every callback of transports, handlers, timers |
| High-resolution timers (`core/sbfHiResTimer.c`) | a tree in the queue | create, destroy, fire in dispatch | change whether the queue blocks |
| Timers, file events (`core/sbfTimer.c`, `sbfEvent.c`) | `mDestroyed`, `mRefCount`, a libevent event | create, destroy, fire | event thread to queue |
| Transport (`transport/sbfTport*`) | `mStreams` under `mStreamsLock`, `mWeights`, `mStreamsWaiting`; per stream a count, a thread, a tree of topics | create, destroy, stream and topic life | handler below, clients above |
| Publishers, subscriptions (`sbfPub.c`, `sbfSub.c`) | `mReady`, `mDestroyed`, `mRemoved`, `mRefCount`, stream, topic | create, add, ready, message, destroy, remove | created by any thread; their lists belong to the stream's event thread; call back on the user's queue |
| Handlers (`handlers/udp`, `handlers/tcpmesh`) | the streams by address (udp), one stream and its connections (tcpmesh) | find, add, remove stream, send, receive | sockets, transport |
| Message dispatch (`sbfHandler.c`) | `mNext` of a topic | check header, find topic, deliver in turn | handler to subscriptions |
| Fragments, batches (`sbfTportFragments.c`, `sbfBatch.c`) | the message being assembled; the buffers being filled | fragment, assemble, add, send | publishers, dispatch |
| Request/reply (`requestreply/`) | requests by identifier | send, reply, detach, destroy | a publisher and a subscription on each side |
| TCP connections, listeners (`network/`) | `mQueued`, `mDestroyed`, `mRefCount` | read, error, accept, destroy | event thread to queue |
| Buffers, logs, caches, properties, small libraries (`common/`) | | | everything |

What is hard here is concurrency without locks: the queue and the pool rely on
single atomic instructions; clients are created by any thread while event threads
run their callbacks; reference counts are dropped outside the lock that protects
what they count; callbacks wait in queues while their closures are destroyed.
Streams may fail to be added, messages may be lost, and a transport waits in
`sbfTport_destroy` for what its event threads have yet to do.

What makes each component correct:

- queue: messages come out once, in order, all of them before dispatch returns; no
  lost wakeup; freed by the last user and with nothing left behind;
- pool: memory is in one place at a time, lists survive any interleaving;
- transport: streams, topics and clients outlive every use and are freed once
  unused; each client is told it is ready, first; weights balance; destroy returns;
- timers, connections, requests: no callback after destroy, no use after free,
  nothing fires never or twice for want of a flag;
- fragments and batches: what is assembled is a message that was sent.

## The modules

| Module | Models | Extends or uses |
| --- | --- | --- |
| `SbfMailbox` | what a queue promises: abstract, first in first out, closed by a marker | |
| `SbfQueue` | the Linux queue, one action per shared access | instance of `SbfMailbox` |
| `SbfQueueProofs` | theorems about `SbfQueue` | `SbfQueue` |
| `SbfAllocator` | what a pool promises: abstract | |
| `SbfPool` | the pool, one action per shared access | instance of `SbfAllocator` |
| `SbfPoolProofs` | theorems about `SbfPool` | `SbfPool` |
| `SbfTport` | transport, publishers, subscriptions, over a handler | |
| `SbfTportProofs` | theorems about `SbfTport` | `SbfTport` |
| `SbfTimers` | timers, file events and high-resolution timers over a queue | |
| `SbfTimersProofs` | theorems about `SbfTimers` | `SbfTimers` |
| `SbfMessages` | fragments, batches, packets and dispatch of one topic's messages | |
| `SbfMessagesProofs` | theorems about `SbfMessages` | `SbfMessages` |
| `SbfTcp` | connections and a listener between an event thread and a queue | |
| `SbfTcpProofs` | theorems about `SbfTcp` | `SbfTcp` |
| `SbfRequest` | requests, replies and their identifiers | |
| `SbfRequestProofs` | theorems about `SbfRequest` | `SbfRequest` |
| `MCSbfQueue`, `MCSbfPool`, `MCSbfTport`, `MCSbfTimers`, `MCSbfMessages`, `MCSbfTcp`, `MCSbfRequest` | the instances TLC checks | |

The modules meet at what one takes from the other: `SbfQueue` shows that a queue is
first in, first out and wakes its dispatcher, so the others have a sequence for it;
`SbfPool` shows that a pool gives out memory no one holds, so `SbfQueue` has a set;
`SbfTport` shows when clients are ready and how long they live, which `SbfMessages`
and `SbfRequest` start from.

An operator under a comment `Mutant:` is a broken form of the definition after it.
It is never used by the specification; the property listed with it in
`PROJECT.json` fails when it takes that definition's place, which shows that the
property depends on the code it is about.

### SbfQueue

`mHead`, `mTail`, `mWaiting`, `mNext`, `mCb`, `mExited`, `mRefCount` are the fields
of the code. `pc` is where each thread is. A producer goes through `Enqueue` (get
an item), `Swap` (exchange `mHead`), `Link` (write the link), `CheckWaiting` (the
compare-and-swap of `mWaiting`) and `FutexWake`. The dispatcher runs the `Next...`
actions of `sbfQueueNext`, then `Arm`, the same again, and `FutexWait`; or `Invoke`,
`CallbackReturns`, `PutItem`, `TestItem`. `sbfQueue_destroy` adds a reference,
enqueues the item whose callback is NULL, sets `mExited` and drops its reference.
`chain` and `dispatched` are history.

The threads in `Reentrant` call only inside a callback, as a program with one
queue does; the others call at any time.

Assumptions. Memory is sequentially consistent (the code uses full barriers at the
exchanges; plain loads and stores are ordered as on x86 for the accesses involved).
Allocation succeeds (`xmalloc` ends the program). The caller does not enqueue once
`sbfQueue_destroy` has been called: `SBF_ASSERT (!queue->mExited)` at
`core/sbfQueue.c:132` states half of that. There are no high-resolution timers (`SbfTimers` has them).
FUTEX_WAIT may return without a wakeup (`Disturbed`).

### SbfPool

The two halves of a push (`Push`, `CompareAndSwap`) and the parts of a get (`Lock`,
`Exchange`, `Take`, `UnlockAndReturn`) are separate actions, so that a block can
be taken and put back by others in between. `freeList` and `availList` are the
history of what the linked lists should hold. `Hand` is external: a queue item is
got by a producer and put by the dispatcher.

### SbfTport

A client is a publisher or a subscription. A stream, and a topic of a stream, is
named for the client whose call allocated it; since each client is created once,
a name is not used twice, and an address that is reused after `free` is not
distinguished from one that is not. `events[t]` is what `sbfMw_enqueueThread` gave
to event thread `t`: libevent runs such callbacks in the order of activation.
`userQueue` is what waits in the user's queue for each client (`SbfQueue` shows
that it is in order); subscriptions with the queue bypass are not modelled.

Creating a client is three actions under `mStreamsLock`, because the event thread
looks at two results without that lock: `SetStream` (find or add the stream, queue
the event), `StoreStream` (`mTportStream`) and `HoldStream` (the increment, the
weight, unlock). A remove event is two: what it does without the lock, and, when
the count fell to zero, the second look under it. The handler is a parameter:
`Key` says which clients share a stream, `MayFail` that adding may fail (udp opens
a socket in its complete event), `KeepsHandle` that RemoveStream leaves the handle
to be found (tcpmesh). `Topics` are the topic choices, of which one is taken at
the start.

It is the caller's duty to make no call on a client during or after
`sbfTport_destroy`, nor on a client before its create call has returned. Where the
assertion of `sbfTport_removeTopic` fails the model goes on, as a build with NDEBUG
does. A thread that reads a freed stream in the unlocked walk goes no further.

Four properties are conjunctions of parts that one run checks together: `StreamsOK`
(`StreamsKnown`, `RefsOK`, `WeightsOK`: the list, the counts and the weights of the
streams), `ClientsHeld` (topics and clients outlive their uses), `CallbackOrder`
(ready before messages, complete before ready) and `Ended` (what is destroyed is
freed, and `sbfTport_destroy` returns).

### SbfTimers

A timer and a file event are the same machine and are both in `Timers`: an event
thread fires it (`Fire`, `TestFired`: the reference for the queued callback), enqueues
(`Swap`, `Link`, `Check`, `CompareAndSwap`, `FutexWake`), and the queue's thread reads
`mDestroyed`, calls back and gives the reference back (`TestQueued`, `Invoke`, `Drop`).
Its owner, on the queue's thread or another, sets the flag, deletes the event and
gives back its own reference (`Destroy`, `Delete`, `Release`). `event_del` is
external: with `evthread_use_pthreads` (`core/sbfMw.c:78`) it waits for a callback of
the event that is running (`NotRunning`).

High-resolution timers are fired by `sbfHiResTimer_queueDispatch` between the items of the
queue (`HiResFire`, `HiResRemove`, `HiResNone`). Their tree is a sequence in the
order of `mNext`, of which only the time that is left is kept. `Insert` and `Arm` keep
what `RB_INSERT` does with equals: it does not insert. `dropped` is the history
of that.

What is special in the queue is `Blocking` (`SBF_QUEUE_BLOCKING`), read by whoever
enqueues and by the dispatcher at different times. The list of the queue is a
sequence whose items may lack their link, which `SbfQueue` justifies.

It is the caller's duty to create and destroy high-resolution timers on the queue's
thread, since nothing guards their tree, and to destroy timers and events before
the queue. Intervals are at least one tick: with none,
`sbfHiResTimer_queueDispatch` would not return. `onQueue` is the history of what the
queue's thread destroyed. No callback follows such a destroy. After one by
another thread, a callback may: the dispatcher may have read `mDestroyed` before.

### SbfMessages

One topic, one sending process, one receiver. A publisher sends a small message at
once (`PubSend`); for a large one `FragmentLock` takes `mSendLock` and `FragmentSend`
is one turn of the loop of `sbfTport_fragment`: `job` holds what is left of it.
`BatchAdd` is `sbfBatch_add`, with `UpdateBuffers` for the splitting of a message over
`mBuffers`; `BatchSendPacket` takes `mSendLock` for one packet, as the code does, so that
other packets may come in between. `wire` is what the network has, `Lose` a lost
datagram, `input` what the receiver has read of it. `ReadPacket` (udp) handles all of a
packet before it returns; `ReadStream` (tcpmesh) appends what a connection brings, of
which one call of the read callback handles one message. `Assemble` is
`sbfTport_assemble` on `mFragNum` and `mFragData`, `Dispatch` gives a message to
`mSubs` from `mNext` on, and `SubRemove` keeps `mNext` where it must be.

The content of a message is abstracted to pieces (message, first byte, size).
`handled`, `dispatched`, `since` and `until` are history. Messages over
`SBF_MESSAGE_SIZE_LIMIT` are refused by the code and not in `Sizes`. `mFragNum` is not
wrapped: with the packets of both handlers the largest message has fewer than 255
fragments. Datagrams that overtake each other are not modelled: the network loses, it
does not reorder.

It is the caller's duty to have one batch on a topic at a time. Fragments carry no
name of their message and a batch does not hold `mSendLock` from packet to packet, so
two batches, or two processes that publish on one topic, mix what they send;
`IntactUnlessLost` then fails with nothing lost.

### SbfTcp

`mRefCount`, `mQueued`, `mDestroyed`, `mEvent`, `mSocket` are the fields of a connection,
`reading` its EV_READ. The event thread connects, fails, reads and sees the end of the
stream (`EventThread`), each time with what the callback of libevent does; the
thread of the queue takes a callback (`Dispatch`), returns from the application
(`Return`), clears `mQueued` and enables reading again (`ResetQueued`, `EnableRead`, which
the event thread may come between) and gives back the reference (`Finish`). Destroying
a connection is two actions: the flag, and the rest.

A connection arrives in two steps. `Arrive` is libevent, which takes it and calls
`sbfTcpListenerEventCb`; `accepting` is the connection it was called with.
`ListenerEventCb` is what the callback does. libevent calls a listener back without its
lock and `evconnlistener_free` does not wait for the callback, so `ListenerDestroy` may
come between the two, and with the last reference, if no callback of the listener is
queued, it frees the listener. `ListenerEventCb` then goes no further: what the code
does with freed memory is not modelled. `RefsOK` counts the references there are, of the
owner and of the queued callbacks; it says nothing of `sbfTcpListenerEventCb`, which has
none until it ends. `ListenerHeld`, which does, is false (see Findings).

libevent is external. It calls a connection back with the lock of the bufferevent held, and
`bufferevent_free` takes that lock. The application makes its calls on the queue's
thread: `mDestroyed` is tested there without a lock. `sent`, `read` and `offered`
count bytes; what is sent by the application changes nothing but that it may fail.

### SbfRequest

`Requesters` are `sbfRequestPub`, `Repliers` `sbfRequestSub`; each has a queue and its
thread. `ReadSeed` and `StoreSeed` are the two halves of `gSbfGuidSeed++` in
`sbfGuid_new`. `Send` puts a request in the tree and on the network, `RequestCb`,
`ReplyCb` and `ReadyCb` are the callbacks, `Return` what follows when the application
comes back, `Detach`, `DestroyDetached`, `DestroyRequest` and `Destroy` its other calls. The
transport is external: an inner client becomes ready at any time after it is
created (`BecomeReady`), and `Broadcast` gives a message to every client that has joined,
or loses that copy. A reply sent while the replier's inner publisher is not ready is
not sent, as in the code.

It is the caller's duty to make its calls on the queue's thread, not to reply through a
replier that is destroyed, and not to detach a request it has sent: that request would
keep a pointer to a publisher that may be freed first. `Overlap` says whether
requesters may be created by several threads at once. Then two may get one
identifier and `ReplyMatches` fails; the run and the proof have it FALSE.

## The runs

| Run | Distinct states | Shows |
| --- | --- | --- |
| `queue_threads` | 621,770 | list intact, no lost wakeup, freed last, order kept, with everything concurrent |
| `queue_callbacks` | 55,882 | destroyed inside a callback: everything dispatched, nothing leaked, freed in the end |
| `queue_drains` | violation | destroyed by another thread: messages may be left (finding 1) |
| `pool` | 3,891 | lists intact, every block in one place, implements the allocator |
| `tport_udp` | 153,052 | lifetimes, counts, weights, order and termination of the transport over udp |
| `tport_mesh_handle` | violation | tcpmesh returns a freed stream (finding 2) |
| `timers` | 57,473 | no use after free, no callback after destroy, no lost wakeup, all freed, armed timers keep firing |
| `timers_expire` | violation | a timer equal to another in the tree is lost (finding 3) |
| `messages` | 1,413,232 | what is dispatched was sent, whole and in order; a loss costs no more than two messages; each subscription gets each once |
| `messages_mesh` | violation | a message waits for the next one (finding 4) |
| `tcp` | 19,523 | counts right, reading never left off, order of callbacks, everything shown, everything freed |
| `request` | 177,614 | replies match requests, counts right, ready once, requests answered |

Bounds. Queue: two producers with two messages each and three blocks. Two producers
give every order of two exchanges and two links; three blocks let one be reused
while another is queued and a third is on its way, which is what the reuse hazards
need; the producers leave a block for `sbfQueue_destroy` (`BlockToSpare`), where
malloc would give one. Pool: three threads, three blocks: one thread in the middle
of a push while a second takes what it read and a third puts it back. Transport: two publishers with one
or two topics on one stream, one subscription on another, two event threads, two
callbacks of one client waiting at a time. That gives a stream shared, left by one
and joined again by the other, a stream alone on the other thread, and both threads
at work in `sbfTport_destroy`. Timers: one timer or event, two high-resolution timers of
one and two ticks, and one callback of each in the queue while another of it may be
running, so that owner, queue and dispatcher hold references at once; the two
intervals make the timers come due apart, together, and with equal `mNext`. A timer
that fires more often than it is dispatched is not in the run. Messages: two
publishers, a batch and two subscriptions, three messages of one or four bytes in
packets of four with headers of one: a message takes one fragment or two, a
packet holds a fragment or two small messages, and the batch has fragments and whole
messages in one packet; one packet may be lost, any of them, and a third message
then shows the recovery. Tcp: one connection, made or accepted, and three bytes: a
read of several, one that waits while another is being shown, and one after that. With two
connections and one byte the properties hold as well (418,560 states). Request: two
requesters and a replier with one request each and one lost copy; `Starts` has one
side ready at the start so that the run is of the interesting part (from nothing, the
invariants hold too). Symmetry is used only over threads and blocks that
the specification does not tell apart, and only without liveness.

Deadlock is not checked: the programs stop when every call has been made and, in
the pool, when memory runs out.

Fairness. Queue: each thread inside a call goes on, and the application dispatches
(weak fairness of each thread's steps). Nothing forces an application to call
enqueue or destroy. Transport: the thread that holds `mStreamsLock` goes on, every
event loop runs what was given to it, the application dispatches its queue and the
waiter in `sbfTport_destroy` wakes once the condition holds. Timers: both threads go on,
time passes, and `event_del`, which may have to wait for one firing after another, gets
its turn (strong fairness of `Delete`: it waits for one run of the callback, and
the next is an interval away). Messages: a
sender inside its loop goes on, and the event thread reads what has arrived and handles
what it has read. Tcp: the event thread reads what has arrived and sees the end; the thread
of the queue goes on. Nothing forces a peer to send or the application to destroy.
Request: inner clients become ready and the queues are dispatched. The code's scheduling
is that of ordinary threads, which justifies weak fairness and, but for `event_del`, no more.

The liveness properties of the transport leave out two cases that the code does not
handle: clients of a stream that could not be added are never removed
(`sbfPub.c:61` defers their remove to a completion that will not come; the comment
at `sbfPub.c:144` says they never become ready), and a walk that has read freed
memory (below).

## Findings

Each is a run that TLC must find violated; its trace is the schedule.

1. `core/sbfQueue.c:104-105`: the item is put back in the pool before its callback is
   compared with NULL. `sbfQueue_destroy` on another thread may reuse it and
   dispatch then returns early, with messages left and blocks never put back.
2. `handlers/tcpmesh/sbfTcpMeshHandler.c:361`: RemoveStream leaves the handle of a
   stream that is then freed.
3. `core/sbfHiResTimer.c:96`, `:41`: a timer whose `mNext` equals that of one in the tree
   is not inserted; it never calls back and is never freed. `Freed` leaves these
   timers out.
4. `handlers/tcpmesh/sbfTcpMeshHandler.c:54`: the read callback handles one message;
   what was read with it waits until more arrives.

Seen while modelling, without a run of their own. The models have the first six,
and the properties are stated so that they hold beside them:

- `transport/sbfTportPrivate.h:197`: the assertion that the tree is empty when the
  count reaches zero can fail, because `sbfPub.c:204` queues the add event before `:227`
  counts its reference. The second look under the lock makes it harmless otherwise,
  which `StreamHeld` and `StreamsOK` show.
- `transport/sbfTport.c:50`: the list of streams is walked without its lock (`WalkOK`
  states it; `Ended` leaves such walks out).
- `transport/sbfSub.c:63`, `sbfPub.c:78`: a topic is removed when the list of one
  kind is empty, whatever is on the other, which tcpmesh can have.
- `network/sbfTcpListener.c:28`: a connection that is refused because the listener is
  destroyed is freed with its socket open; one the application never accepts goes from a
  count of 0 to -1 and is not freed (`Freed` leaves it out). `readyCb` is not called for
  an accepted connection.
- `network/sbfTcpListener.c:149`: libevent calls a listener back without its lock, so
  that `sbfTcpListener_destroy` may free it under `sbfTcpListenerEventCb`, which goes on
  to read `mLog` and to count on freed memory (:53-60). `ListenerHeld` says that this does
  not happen; given to TLC as an invariant it fails after `ListenerCreate`, `Arrive`,
  `ListenerDestroy`, `Dispatch`, `Finish`.
- `common/sbfGuid.c:22`: `gSbfGuidSeed++` is not atomic (`Overlap`).
- `transport/sbfTportFragments.c:53`: the buffers of fragments are not destroyed.
- `network/sbfTcpConnection.c:293`: a connection's socket is closed before
  `bufferevent_free`, while libevent may still use it.

## The proofs

`SbfQueueProofs` proves, for any number of producers, messages and blocks, any set
of reentrant threads and both blocking modes, that `Spec` implies always `TypeOK`,
`ChainOK`, `NoStaleLink`, `NoLostWakeup` and `FreedLast`. None of these is
inductive alone. `IInv` adds:

- about the list: an item being enqueued or dispatched is in no other place, no item of the list
  is in the pool, each link about to be written joins two neighbours and is one
  agent's, and where the stub is while the dispatcher puts it back;
- about the life of the queue: who holds each reference, and that before the
  destroyer has its item no item in use has a NULL callback, so that the
  dispatcher cannot leave before destroy has begun. That is what finding 1 leaves true;
- about waking: `WakeOK`, that once the dispatcher has set the flag and found
  nothing, either the flag is still set and whoever extends the list has yet to test
  it, or a thread is about to wake it.

There is one lemma per action, and `NextInv` puts them together.

`SbfPoolProofs` proves `TypeOK`, `ListsOK`, `OnePlace` and that the pool implements
`SbfAllocator`, for any threads and blocks. The invariant adds that the lock is
held by a thread that is in it, what each thread's block is at each point, and that
no list repeats a block. The comparison of a pointer in `CompareAndSwap` suffices,
because what a successful swap relies on is only that `mFree` is the block's link,
not that nothing happened in between; the proof shows this for every schedule.

`SbfTportProofs` proves `TypeOK`, `StreamHeld`, `StreamsOK`, `ClientsHeld`, `CallbackOrder`
and `TportFreedLast`, for any clients, topics and threads. `IInv` has these parts:

- where each client's creation is, and that the one between `SetStream` and `HoldStream`
  has `mStreamsLock`;
- that a stream is in `mStreams`, once, exactly when `FindStream` returns it (`ListOK`,
  `StreamOK`), and which clients have a topic, are on its lists and are ready;
- that a client's callbacks are on the thread of its stream, none is queued twice, the
  completion of a stream comes before all other callbacks of its clients, and all of these
  before those of `sbfTport_destroy` that make the stream go (`ThreadOK`, `OrderOK`);
- what holds a stream (`HolderOK`): a client, or a thread that has dropped the last
  reference and is about to look again under the lock (`Emptying`). So a stream is not
  freed while a client is between `StoreStream` and `HoldStream`, and one that could be
  added is freed in the end;
- the counts as numbers of things: references of a stream are its topics, plus the
  clients counted but without a topic yet, minus those with one and not counted yet;
  those of a client its queued callbacks and the application's; a weight is that of the
  subscriptions on the thread, `mStreamsWaiting` the number of streams that
  `sbfTport_destroy` has a callback queued for;
- how far in the list the walk of each thread can have come (`AtOK`).

Two hypotheses, which the module names. `~KeepsHandle`: the handler forgets a removed
stream, as udp does and tcpmesh does not (finding 2). `OneKind`: publishers and
subscriptions have streams of their own, since udp finds a stream by its type and
address (`handlers/udp/sbfUdpHandler.c:115`); with tcpmesh the topic of one kind may
be freed under the other (below). For tcpmesh nothing is claimed.

`SbfTimersProofs` proves `TypeOK`, `SourceHeld` and `NoLostWakeup`, for any timers, events,
high-resolution timers and intervals. `IInv` says what each reference count is made
of (`RefOK`: the callbacks in the queue, the owner or the tree, the dispatcher, and the
event thread between its test of `mDestroyed` and the queue); that `event_del` has not
returned while the event is added or its callback runs (`TimersOK`), so that the event
thread never holds a freed timer; that the tree has no timer twice and none that
it has lost (`TreeOK`), so that `sbfHiResTimer_queueDestroy` gives one reference back for
each; and why no wakeup is lost (`WakeOK`): once `sbfQueueDequeue` has found that the
queue blocks, it does until an item is taken, because only the queue's thread changes
the tree, so whoever enqueues meanwhile goes on to test `mWaiting`.

`SbfMessagesProofs` proves all five safety properties of `SbfMessages`, for any publishers,
batches, subscriptions, sizes of packets and messages, and any losses:

- `TypeOK` needs what senders have in hand (`SendOK`), what the network and the receiver
  have (`WireOK`) and the topic (`TopicOK`);
- `EachOnce` follows from `SubsOK`: each subscription that is not destroyed is in the
  list, which the turn from `mNext` on goes through once, and has had what was dispatched
  since it was added;
- `Recovers` follows from `Collected`: when the last headers handled are the first
  fragments of one message, after the end of another, `mFragNum` and `mFragData` are
  those fragments and nothing else, whatever came before;
- `InOrder` follows from `OrderInv`: of each sender, the headers on their way are in the
  order of its messages, those it has yet to send come after them, and what was dispatched
  before;
- `IntactUnlessLost`, with one batch (`OneBatch`, the caller's duty above): if nothing
  was lost, the headers of the connection form one line, `LineOf`: what is on the wire, the
  fragments that the holder of `mSendLock` has yet to send, and what the batch has yet to
  send. Each header of it starts a message, with the one before it ending one, or
  continues the one before (`Link`); and the line continues what the receiver has in
  `mFragData` (`Current`, `Begun`).

`ReadStream` and `ReadPacket` cut the same headers at different places; `Stream` is what
they have in common, and every action either appends to it or moves its front
to the receiver.

`SbfTcpProofs` proves `TypeOK`, `RefsOK`, `ReadArmed` and `CallbackOrder`, for any connections and any
number of bytes. `RefsOK` counts callbacks in a queue, so the first lemmas are about
how such counts change when one is queued, taken or done. `IInv` adds, per connection:
where it is in its life (`LifeOK`: not there, arrived once and not yet accepted, with
the application, destroyed), without which a destroy could find a count that
does not have the owner's reference in it; that nothing is read before the connection is
established (`QuietOK`), without which `Connected` could start from an armed read; and
for `ReadArmed`, that reading on, a read callback queued and a read callback about to
rearm exclude each other and one of them is there (`ArmedOK`). For `CallbackOrder` it adds
`OrderInv`: nothing is queued before the connection is established, bytes that were read
have been shown or a read callback waits to show them, in the queue ready comes before
reads and reads before the end, and after the end nothing is read. `Arriving` says that the
connection `sbfTcpListenerEventCb` runs with is in nobody else's hands yet, and that
there was a listener. There is one lemma per action. Of the listener `RefsOK` says
that it is freed with its last reference, not that libevent is done with it.

`SbfRequestProofs` proves `TypeOK`, `ReceivedOK` and `ReadyOnce`, for any requesters,
repliers, requests and losses, from `LifeInv`: what is queued has not come before (a
ready callback only for a client that was not ready, a request only once and only
before it has a reference). It proves `ReplyMatches`, where requesters are created one
at a time (`~Overlap`), from `GuidInv`: the seeds of created requesters differ and are used up, and
each identifier, on the network, in a tree or in a received request, is the seed and the
number of its request.

The assumptions are those on the constants: `QueueAssumption`, `PoolAssumption`,
`TportAssumption`, `TimersAssumption`, `MessagesAssumption`, `TcpAssumption`,
`RequestAssumption` and `NullAssumption`, which TLC evaluates in every run of their
modules. Where numbers of clients are counted they are finitely many, as in a program.

Only model-checked: all liveness (TLAPS does not handle fairness and ENABLED here) and
the refinement of the mailbox by the queue. The induction theorems of TLAPS that take a predicate as a
parameter cannot be used with the provers at hand. Where a proof goes over numbers or
finite sets, it takes a least counterexample instead (`NatSets`). No module has a RECURSIVE operator.

## Plan

Done: queue, pool, transport over its handlers, timers and events, messages, TCP
connections, request and reply, and the proofs of all seven. What could follow:

1. the refinement of the mailbox by the queue as a theorem;
2. the connections of tcpmesh (listening, connecting again, `mMutex`), over `SbfTcp`;
3. default pools, start and stop of the event threads, the file cache, the address
   resolver against its range.

## Not modelled, and why

Parsing of properties, logging, interfaces, the udp socket and the loading of handlers
are input and output without a protocol of their own. The topic splits and compares
names and the address resolver computes a number from one: both are sequential. The
file cache and the log file are used by one thread and recover nothing. A buffer's own
count and its pool are left out: a message is its content. The queues of Windows and
Darwin wrap the lists of their platform. Relaxed memory orders are outside the
language's reach at this level. Vendored trees and lists are sets and sequences;
libevent is a list of callbacks. The C++ classes are wrappers. `PROJECT.json` lists
every component with its state, and every hazard with the properties that cover it or
the reason none does.
