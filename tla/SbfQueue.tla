------------------------------ MODULE SbfQueue ------------------------------
(***************************************************************************)
(* The Linux queue of sbfQueue.c and sbfQueueLinux.h: an intrusive,        *)
(* lock-free list that any thread appends to and one thread, inside        *)
(* sbfQueue_dispatch, takes from.  A futex puts the dispatcher to sleep    *)
(* when the list is empty.  sbfQueue_destroy ends the dispatcher with an   *)
(* item whose callback is NULL; the last reference frees the queue.        *)
(*                                                                         *)
(* One action is one atomic access to shared memory, with the thread-local *)
(* work around it.  Memory is sequentially consistent.  The pool is any    *)
(* allocator over Blocks (SbfPool models it), and the queue has no         *)
(* high-resolution timers, so SBF_QUEUE_BLOCKING is its flag.              *)
(***************************************************************************)
EXTENDS Integers, Sequences

CONSTANTS
  Producers,   \* threads that call sbfQueue_enqueue
  Destroyer,   \* the thread that calls sbfQueue_destroy
  Dispatcher,  \* the thread that calls sbfQueue_dispatch
  Reentrant,   \* the threads above whose calls are made inside a callback
  Blocks,      \* bound: the memory the pool hands out, one item each
  Empty,       \* the stub item mEmpty inside the queue
  NULL,
  MaxEnqueues  \* bound: calls of sbfQueue_enqueue by each producer

Threads == Producers \cup {Destroyer}
Agents == Threads \cup {Dispatcher}
Items == Blocks \cup {Empty}
Message == Producers \X (1..MaxEnqueues)

ASSUME QueueAssumption ==
  /\ Destroyer \notin Producers
  /\ Dispatcher \notin Threads
  /\ Reentrant \subseteq Threads
  /\ Empty \notin Blocks
  /\ NULL \notin Items
  /\ NULL \notin Message
  /\ MaxEnqueues \in Nat

VARIABLES
  \* struct sbfQueueImpl and the items
  mHead, mTail, mWaiting, mNext, mCb,
  mBlocking,   \* SBF_QUEUE_NONBLOCK is not set in mFlags
  mExited, mRefCount,
  mFree,       \* the blocks in the pool, or not yet allocated
  freed,       \* sbfQueue_removeRef has freed the queue
  \* the threads
  pc,
  item,        \* the item an agent enqueues, or has dequeued
  last,        \* "last" in sbfQueueEnqueue1
  rearmed,     \* the dispatcher is in the second sbfQueueNext of a dequeue
  calls,       \* how many messages a producer has enqueued
  \* history
  chain,       \* the items from mTail to mHead in the order of the exchanges
  dispatched   \* the messages whose callback has been called

listVars == <<mHead, mTail, mNext, chain>>
poolVars == <<mFree, mCb>>
lifeVars == <<mBlocking, mExited, mRefCount, freed>>
localVars == <<item, last, rearmed, calls>>
vars == <<listVars, poolVars, lifeVars, localVars, mWaiting, pc, dispatched>>

ThreadPC == {"idle", "get", "swap", "link", "wake", "futex", "exit", "unref",
             "done"}
DispatcherPC == {"idle", "next", "head", "swap", "link", "reread", "arm",
                 "disarm", "wait", "asleep", "taken", "callback", "put",
                 "test", "unref", "done"}

TypeOK ==
  /\ mHead \in Items /\ mTail \in Items
  /\ mWaiting \in {0, 1}
  /\ mNext \in [Items -> Items \cup {NULL}]
  /\ mCb \in [Blocks -> Message \cup {NULL}]
  /\ mBlocking \in BOOLEAN
  /\ mExited \in BOOLEAN
  /\ mRefCount \in Int
  /\ mFree \in SUBSET Blocks
  /\ freed \in BOOLEAN
  /\ pc \in [Agents -> ThreadPC \cup DispatcherPC]
  /\ pc[Dispatcher] \in DispatcherPC
  /\ \A t \in Threads : pc[t] \in ThreadPC
  /\ item \in [Agents -> Items \cup {NULL}]
  /\ last \in [Agents -> Items \cup {NULL}]
  /\ rearmed \in BOOLEAN
  /\ calls \in [Producers -> 0..MaxEnqueues]
  /\ chain \in Seq(Items)
  /\ dispatched \in Seq(Message)
-----------------------------------------------------------------------------
\* sbfQueue_create.
Init ==
  /\ mHead = Empty /\ mTail = Empty
  /\ mWaiting = 0
  /\ mNext = [i \in Items |-> NULL]
  /\ mCb = [b \in Blocks |-> NULL]
  /\ mBlocking \in BOOLEAN
  /\ mExited = FALSE
  /\ mRefCount = 1
  /\ mFree = Blocks
  /\ freed = FALSE
  /\ pc = [a \in Agents |-> "idle"]
  /\ item = [a \in Agents |-> NULL]
  /\ last = [a \in Agents |-> NULL]
  /\ rearmed = FALSE
  /\ calls = [p \in Producers |-> 0]
  /\ chain = <<Empty>>
  /\ dispatched = << >>

Goto(a, label) == pc' = [pc EXCEPT ![a] = label]

\* A call made inside a callback can only start while a callback runs.
MayCall(t) == t \in Reentrant => pc[Dispatcher] = "callback"

\* A callback returns when the calls made inside it have.
CallsReturned == \A t \in Reentrant : pc[t] \in {"idle", "done"}

\* What sbfQueueDestroy puts back: it follows mNext from mHead up to the stub
\* or to NULL, the least set of items closed under that walk.
Walked ==
  {b \in Blocks :
     \A S \in SUBSET Items :
       (/\ mHead \in S
        /\ \A i \in S \ {Empty} : mNext[i] # NULL => mNext[i] \in S) => b \in S}

\* Mutant: sbfQueue_addRef left out.
AddNoRef == UNCHANGED mRefCount

AddRef == mRefCount' = mRefCount + 1

RemoveRef ==
  /\ mRefCount' = mRefCount - 1
  /\ freed' = (freed \/ mRefCount = 1)
  /\ mFree' = IF mRefCount = 1 /\ mHead # Empty
                THEN mFree \cup Walked
                ELSE mFree
-----------------------------------------------------------------------------
(* Enqueueing. *)

\* sbfQueue_getItem, and the private first line of sbfQueueEnqueue1.
GetItem(t, cb) ==
  \E b \in mFree :
    /\ mFree' = mFree \ {b}
    /\ mCb' = [mCb EXCEPT ![b] = cb]
    /\ mNext' = [mNext EXCEPT ![b] = NULL]
    /\ item' = [item EXCEPT ![t] = b]

\* Bound: Blocks are few where malloc is not, so the producers leave one for
\* sbfQueue_destroy.
BlockToSpare == \E b, spare \in mFree : b # spare

\* sbfQueue_enqueue up to the exchange.  The assertion in sbfQueue_enqueueItem
\* makes it the caller's duty not to enqueue once sbfQueue_destroy is called.
Enqueue(p) ==
  /\ pc[p] = "idle"
  /\ calls[p] < MaxEnqueues
  /\ MayCall(p)
  /\ pc[Destroyer] = "idle" /\ ~mExited
  /\ BlockToSpare
  /\ GetItem(p, <<p, calls[p] + 1>>)
  /\ calls' = [calls EXCEPT ![p] = @ + 1]
  /\ Goto(p, "swap")
  /\ UNCHANGED <<lifeVars, mHead, mTail, chain, mWaiting, last, rearmed,
                 dispatched>>

\* sbfQueueEnqueue1: the exchange of mHead, by a thread or by the dispatcher
\* that puts the stub back.
Swap(a) ==
  /\ pc[a] = "swap"
  /\ last' = [last EXCEPT ![a] = mHead]
  /\ mHead' = item[a]
  /\ chain' = Append(chain, item[a])
  /\ Goto(a, "link")
  /\ UNCHANGED <<poolVars, lifeVars, mTail, mNext, mWaiting, item, rearmed,
                 calls, dispatched>>

\* sbfQueueEnqueue1: last->mNext = item.
Link(a) ==
  /\ pc[a] = "link"
  /\ mNext' = [mNext EXCEPT ![last[a]] = item[a]]
  /\ Goto(a, IF a = Dispatcher THEN "reread" ELSE "wake")
  /\ UNCHANGED <<poolVars, lifeVars, localVars, mHead, mTail, chain, mWaiting,
                 dispatched>>

\* Where a thread is when sbfQueueEnqueue returns.
Returned(t) == IF t = Destroyer THEN "exit" ELSE "idle"

\* sbfQueueEnqueue: if the queue blocks, change mWaiting from 1 to 0; the
\* thread that does is the one to call futex.
Elected == mBlocking /\ mWaiting = 1

CheckWaiting(t) ==
  /\ pc[t] = "wake"
  /\ mWaiting' = IF Elected THEN 0 ELSE mWaiting
  /\ Goto(t, IF Elected THEN "futex" ELSE Returned(t))
  /\ UNCHANGED <<listVars, poolVars, lifeVars, localVars, dispatched>>

\* FUTEX_WAKE.  The dispatcher returns from FUTEX_WAIT to the top of the loop.
FutexWake(t) ==
  /\ pc[t] = "futex"
  /\ pc' = [pc EXCEPT ![t] = Returned(t),
                      ![Dispatcher] = IF @ = "asleep" THEN "next" ELSE @]
  /\ UNCHANGED <<listVars, poolVars, lifeVars, localVars, mWaiting,
                 dispatched>>
-----------------------------------------------------------------------------
(* sbfQueueNext, by the dispatcher.  Only it reads or writes mTail. *)

AtDispatcher(label) == pc[Dispatcher] = label

\* tail->mNext.
Following == mNext[mTail]

\* Mutant: the link is not tested.
NotTested == TRUE

Linked == Following # NULL

\* Mutant: mHead is not compared.
NotCompared == TRUE

\* tail == head.
Alone == mTail = mHead

\* sbfQueueNext returns an item: mTail moves to the one after it.
ReturnItem ==
  /\ mTail' = Following
  /\ chain' = Tail(chain)
  /\ item' = [item EXCEPT ![Dispatcher] = mTail]
  /\ rearmed' = FALSE
  /\ Goto(Dispatcher, IF rearmed THEN "disarm" ELSE "taken")
  /\ UNCHANGED <<poolVars, lifeVars, mHead, mNext, mWaiting, last, calls,
                 dispatched>>

\* sbfQueueNext returns NULL.  A queue that does not block polls again.
ReturnNull ==
  /\ Goto(Dispatcher,
          IF ~mBlocking THEN "next" ELSE IF rearmed THEN "wait" ELSE "arm")
  /\ rearmed' = FALSE
  /\ UNCHANGED <<listVars, poolVars, lifeVars, mWaiting, item, last, calls,
                 dispatched>>

\* The stub is first and nothing is linked behind it.
NextEmpty ==
  /\ AtDispatcher("next")
  /\ mTail = Empty /\ ~Linked
  /\ ReturnNull

\* The stub is first: step over it.
NextSkipStub ==
  /\ AtDispatcher("next")
  /\ mTail = Empty /\ Linked
  /\ mTail' = Following
  /\ chain' = Tail(chain)
  /\ UNCHANGED <<poolVars, lifeVars, localVars, mHead, mNext, mWaiting, pc,
                 dispatched>>

NextItem ==
  /\ AtDispatcher("next")
  /\ mTail # Empty /\ Linked
  /\ ReturnItem

\* Nothing is linked behind the first item.
NextNoLink ==
  /\ AtDispatcher("next")
  /\ mTail # Empty /\ ~Linked
  /\ Goto(Dispatcher, "head")
  /\ UNCHANGED <<listVars, poolVars, lifeVars, localVars, mWaiting,
                 dispatched>>

\* Mutant: hand out the first item and leap the gap behind it.
NextLeap ==
  /\ AtDispatcher("head")
  /\ ~Alone
  /\ mTail' = mHead
  /\ chain' = Tail(chain)
  /\ item' = [item EXCEPT ![Dispatcher] = mTail]
  /\ rearmed' = FALSE
  /\ Goto(Dispatcher, IF rearmed THEN "disarm" ELSE "taken")
  /\ UNCHANGED <<poolVars, lifeVars, mHead, mNext, mWaiting, last, calls,
                 dispatched>>

\* A producer has exchanged mHead and not written its link yet.
NextBusy ==
  /\ AtDispatcher("head")
  /\ ~Alone
  /\ ReturnNull

\* The first item is the only one: put the stub behind it, so that it can be
\* handed out.  This is sbfQueueEnqueue1 (queue, &queue->mEmpty).
NextPutStub ==
  /\ AtDispatcher("head")
  /\ Alone
  /\ mNext' = [mNext EXCEPT ![Empty] = NULL]
  /\ item' = [item EXCEPT ![Dispatcher] = Empty]
  /\ Goto(Dispatcher, "swap")
  /\ UNCHANGED <<poolVars, lifeVars, mHead, mTail, chain, mWaiting, last,
                 rearmed, calls, dispatched>>

\* Another item may have got in before the stub.
NextReread ==
  /\ AtDispatcher("reread")
  /\ IF Linked THEN ReturnItem ELSE ReturnNull
-----------------------------------------------------------------------------
(* sbfQueueDequeue and sbfQueue_dispatch. *)

Dispatch ==
  /\ AtDispatcher("idle")
  /\ AddRef
  /\ Goto(Dispatcher, "next")
  /\ UNCHANGED <<listVars, poolVars, localVars, mWaiting, mBlocking, mExited,
                 freed, dispatched>>

\* Mutant: no second look.
ArmAndWait ==
  /\ AtDispatcher("arm")
  /\ mWaiting' = 1
  /\ Goto(Dispatcher, "wait")
  /\ UNCHANGED <<listVars, poolVars, lifeVars, localVars, dispatched>>

\* Set the waiting flag, then look again before sleeping.
Arm ==
  /\ AtDispatcher("arm")
  /\ mWaiting' = 1
  /\ rearmed' = TRUE
  /\ Goto(Dispatcher, "next")
  /\ UNCHANGED <<listVars, poolVars, lifeVars, item, last, calls, dispatched>>

Disarm ==
  /\ AtDispatcher("disarm")
  /\ mWaiting' = 0
  /\ Goto(Dispatcher, "taken")
  /\ UNCHANGED <<listVars, poolVars, lifeVars, localVars, dispatched>>

\* FUTEX_WAIT sleeps if the flag is still 1, else fails with EWOULDBLOCK.
FutexWait ==
  /\ AtDispatcher("wait")
  /\ Goto(Dispatcher, IF mWaiting = 1 THEN "asleep" ELSE "next")
  /\ UNCHANGED <<listVars, poolVars, lifeVars, localVars, mWaiting,
                 dispatched>>

\* FUTEX_WAIT returns without a FUTEX_WAKE: with EINTR, and the loop around it
\* calls it again, or with 0, and the dequeue starts again.
Disturbed ==
  /\ AtDispatcher("asleep")
  /\ \E label \in {"wait", "next"} : Goto(Dispatcher, label)
  /\ UNCHANGED <<listVars, poolVars, lifeVars, localVars, mWaiting,
                 dispatched>>

Invoke ==
  /\ AtDispatcher("taken")
  /\ LET cb == mCb[item[Dispatcher]] IN
       IF cb # NULL
         THEN /\ dispatched' = Append(dispatched, cb)
              /\ Goto(Dispatcher, "callback")
         ELSE /\ UNCHANGED dispatched
              /\ Goto(Dispatcher, "put")
  /\ UNCHANGED <<listVars, poolVars, lifeVars, localVars, mWaiting>>

CallbackReturns ==
  /\ AtDispatcher("callback")
  /\ CallsReturned
  /\ Goto(Dispatcher, "put")
  /\ UNCHANGED <<listVars, poolVars, lifeVars, localVars, mWaiting,
                 dispatched>>

\* Mutant: the marker is not put back.
MessagesOnly == {b \in {item[Dispatcher]} : mCb[b] # NULL}

\* sbfPool_put (item).
ItemToPut == {item[Dispatcher]}

PutItem ==
  /\ AtDispatcher("put")
  /\ mFree' = mFree \cup ItemToPut
  /\ Goto(Dispatcher, "test")
  /\ UNCHANGED <<listVars, lifeVars, localVars, mCb, mWaiting, dispatched>>

\* Mutant: the test is inverted.
IsMessage == mCb[item[Dispatcher]] # NULL

\* if (item->mCb == NULL), read from the block that is back in the pool.
IsMarker == mCb[item[Dispatcher]] = NULL

TestItem ==
  /\ AtDispatcher("test")
  /\ IF IsMarker
       THEN RemoveRef /\ Goto(Dispatcher, "unref")
       ELSE Goto(Dispatcher, "next") /\ UNCHANGED <<mRefCount, mFree, freed>>
  /\ UNCHANGED <<listVars, localVars, mCb, mWaiting, mBlocking, mExited,
                 dispatched>>

DispatchReturns ==
  /\ AtDispatcher("unref")
  /\ RemoveRef
  /\ Goto(Dispatcher, "done")
  /\ UNCHANGED <<listVars, localVars, mCb, mWaiting, mBlocking, mExited,
                 dispatched>>
-----------------------------------------------------------------------------
(* sbfQueue_destroy. *)

\* sbfQueue_addRef.  The enqueues of other threads have returned, see Enqueue.
Destroy ==
  /\ pc[Destroyer] = "idle"
  /\ MayCall(Destroyer)
  /\ \A p \in Producers : pc[p] = "idle"
  /\ AddRef
  /\ Goto(Destroyer, "get")
  /\ UNCHANGED <<listVars, poolVars, localVars, mWaiting, mBlocking, mExited,
                 freed, dispatched>>

DestroyGetItem ==
  /\ pc[Destroyer] = "get"
  /\ GetItem(Destroyer, NULL)
  /\ Goto(Destroyer, "swap")
  /\ UNCHANGED <<lifeVars, mHead, mTail, chain, mWaiting, last, rearmed,
                 calls, dispatched>>

DestroyExit ==
  /\ pc[Destroyer] = "exit"
  /\ mExited' = TRUE
  /\ Goto(Destroyer, "unref")
  /\ UNCHANGED <<listVars, poolVars, localVars, mWaiting, mBlocking,
                 mRefCount, freed, dispatched>>

DestroyReturns ==
  /\ pc[Destroyer] = "unref"
  /\ RemoveRef
  /\ Goto(Destroyer, "done")
  /\ UNCHANGED <<listVars, localVars, mCb, mWaiting, mBlocking, mExited,
                 dispatched>>
-----------------------------------------------------------------------------
EnqueueStep(t) == Swap(t) \/ Link(t) \/ CheckWaiting(t) \/ FutexWake(t)

DestroyStep == DestroyGetItem \/ DestroyExit \/ DestroyReturns

NextStep == NextEmpty \/ NextSkipStub \/ NextItem \/ NextNoLink \/ NextBusy
              \/ NextPutStub \/ Swap(Dispatcher) \/ Link(Dispatcher)
              \/ NextReread

DispatchStep == Dispatch \/ NextStep \/ Arm \/ Disarm \/ FutexWait \/ Invoke
                  \/ CallbackReturns \/ PutItem \/ TestItem \/ DispatchReturns

Next == \/ \E p \in Producers : Enqueue(p)
        \/ \E t \in Threads : EnqueueStep(t)
        \/ Destroy \/ DestroyStep
        \/ DispatchStep \/ Disturbed

Spec == Init /\ [][Next]_vars

\* The threads are scheduled: a call that has begun goes on, and the
\* application runs sbfQueue_dispatch.  No call has to be made.
Fairness == /\ \A t \in Threads : WF_vars(EnqueueStep(t))
            /\ WF_vars(DestroyStep)
            /\ WF_vars(DispatchStep)

FairSpec == Spec /\ Fairness
-----------------------------------------------------------------------------
(* Properties. *)

InChain(i) == \E k \in 1..Len(chain) : chain[k] = i

\* The item at k has been exchanged for the one at k+1 by an agent that has not
\* written the link yet.
Unlinked(k) == \E a \in Agents : /\ pc[a] = "link"
                                 /\ last[a] = chain[k]
                                 /\ item[a] = chain[k + 1]

\* The list is what the exchanges on mHead say: it runs from mTail to mHead
\* without repetition, the last item has no successor, and each other item
\* either has the next one as its mNext or has no mNext because the agent that
\* took its place in mHead is about to write it.  (sbfQueueEnqueue1 and
\* sbfQueueNext; a test would have to stop a thread between two instructions.)
ChainOK ==
  /\ Len(chain) > 0
  /\ chain[1] = mTail
  /\ chain[Len(chain)] = mHead
  /\ mNext[mHead] = NULL
  /\ \A j, k \in 1..Len(chain) : chain[j] = chain[k] => j = k
  /\ \A k \in 1..(Len(chain) - 1) :
       IF mNext[chain[k]] = NULL THEN Unlinked(k) ELSE mNext[chain[k]] = chain[k + 1]

\* A producer writes its link into an item that is still in the queue, never
\* into one that was handed out and is back in the pool or in use again.
NoStaleLink ==
  \A a \in Agents : pc[a] = "link" => InChain(last[a]) /\ last[a] \notin mFree

\* No lost wakeup: if the dispatcher sleeps while something is in the queue, a
\* thread is on its way to wake it.  (mWaiting in sbfQueueEnqueue and
\* sbfQueueDequeue.)
NoLostWakeup ==
  AtDispatcher("asleep") /\ (mTail # Empty \/ mHead # Empty) =>
    \E t \in Threads : \/ pc[t] = "futex"
                       \/ pc[t] \in {"link", "wake"} /\ mWaiting = 1

\* The last reference goes last: once the queue is freed no thread is inside a
\* call on it.  (sbfQueue_addRef and removeRef in destroy and dispatch.)
FreedLast == freed => \A a \in Agents : pc[a] \in {"idle", "done"}

\* sbfQueue_dispatch leaves its loop only when all the items enqueued before
\* sbfQueue_destroy have been dispatched.  ("Dispatch all of the items that
\* belongs to the given queue handler", sbfQueue.h.)
AllDispatched ==
  pc[Dispatcher] \in {"unref", "done"} =>
    \A p \in Producers : \A n \in 1..calls[p] :
      \E k \in 1..Len(dispatched) : dispatched[k] = <<p, n>>

\* The list without the stub, as callbacks.
Queued == LET items == SelectSeq(chain, LAMBDA i : i # Empty)
          IN [k \in 1..Len(items) |-> mCb[items[k]]]

Held == IF pc[Dispatcher] \in {"disarm", "taken"}
          THEN <<mCb[item[Dispatcher]]>>
          ELSE << >>

Phase == IF pc[Destroyer] = "idle" THEN "open"
         ELSE IF pc[Destroyer] \in {"get", "swap"} THEN "closing" ELSE "sealed"

Mailbox == INSTANCE SbfMailbox
  WITH Marker <- NULL, box <- Held \o Queued, delivered <- dispatched,
       phase <- Phase, stopped <- pc[Dispatcher] \in {"unref", "done"}

\* The queue implements the mailbox: first in first out over all producers, in
\* the order of the exchanges, nothing lost or repeated, and the dispatcher
\* stops at the marker and nowhere else.  (sbfQueue.h)
ImplementsMailbox == Mailbox!Spec

\* As above, except that items may be dropped once sbfQueue_destroy is called.
ImplementsLossyMailbox == Mailbox!LossySpec

\* Every message is dispatched in the end, even if the queue is destroyed.
EveryMessageDispatched ==
  \A p \in Producers : \A n \in 1..MaxEnqueues :
    (calls[p] >= n) ~> (\E k \in 1..Len(dispatched) : dispatched[k] = <<p, n>>)

\* A destroyed queue is freed in the end, by which time every block it took from its
\* pool is back: sbfPool_destroy, called then, frees no other.
Released == (pc[Destroyer] # "idle") ~> (freed /\ mFree = Blocks)
=============================================================================
