----------------------------- MODULE SbfTimers ------------------------------
(***************************************************************************)
(* What calls back on a queue: timers and file events (sbfTimer.c,         *)
(* sbfEvent.c), fired by an event thread, and the high-resolution timers   *)
(* of the queue itself (sbfHiResTimer.c), fired by sbfQueue_dispatch.      *)
(*                                                                         *)
(* An sbfEvent is an sbfTimer that fires for its descriptor and not for    *)
(* the time: both are Timers here.  While the queue has high-resolution    *)
(* timers it does not block, so what enqueues does not wake the dispatcher *)
(* and the dispatcher does not sleep (SBF_QUEUE_BLOCKING).                 *)
(*                                                                         *)
(* The list of the queue is a sequence, of which the last link may still   *)
(* be missing; SbfQueue shows that this is what the list is.  Time is      *)
(* counted down: left is mNext less the time that sbfPerfCounter_get       *)
(* returns, and 0 when that is past.                                       *)
(***************************************************************************)
EXTENDS Integers, Sequences, FiniteSets

CONSTANTS
  Timers,     \* the timers and events that may be created, once each
  HiRes,      \* the high-resolution timers that may be created, once each
  Ticks,      \* mTicks of each high-resolution timer
  Marker,     \* the item with no callback that sbfQueue_destroy enqueues
  NULL,
  MaxQueued   \* bound: a source does not fire with so many callbacks in the queue

Sources == Timers \cup HiRes

ASSUME TimersAssumption ==
  /\ Timers \cap HiRes = {}
  /\ Ticks \in [HiRes -> Nat \ {0}]
  /\ Marker \notin Sources /\ NULL \notin Sources \cup {Marker}
  /\ MaxQueued \in Nat \ {0}

VARIABLES
  \* the queue and its dispatcher
  box,         \* the items: a source or Marker, and whether its link is written
  mWaiting, dpc,
  current,     \* the item the dispatcher has taken
  mExited,
  \* the timers and their owners
  life,        \* where the owner is in the calls on each source
  mDestroyed, mRefCount, freed,
  onQueue,     \* history: the sources that the queue's thread destroyed
  \* libevent and the event thread
  pending,     \* the timers that are added
  running,     \* the timer whose callback the event thread is in
  epc,
  \* the tree of high-resolution timers
  mHiResTimers, left,
  dropped      \* history: the timers RB_INSERT found an equal of

queueVars == <<box, mWaiting, dpc, current, mExited>>
ownerVars == <<life, mDestroyed, mRefCount, freed, onQueue>>
eventVars == <<pending, running, epc>>
treeVars == <<mHiResTimers, left, dropped>>
vars == <<queueVars, ownerVars, eventVars, treeVars>>

TypeOK ==
  /\ box \in Seq((Sources \cup {Marker}) \X BOOLEAN)
  /\ mWaiting \in {0, 1}
  /\ dpc \in {"idle", "enter", "poll", "look", "arm", "relook", "disarm", "wait",
              "asleep", "taken", "calling", "callback", "drop", "timers", "done"}
  /\ current \in Sources \cup {Marker, NULL}
  /\ mExited \in BOOLEAN
  /\ life \in [Sources -> {"none", "created", "deleting", "releasing", "destroyed"}]
  /\ mDestroyed \subseteq Sources /\ freed \subseteq Sources /\ onQueue \subseteq Sources
  /\ mRefCount \in [Sources -> Nat]
  /\ pending \subseteq Timers
  /\ running \in Timers \cup {NULL}
  /\ epc \in {"loop", "test", "swap", "link", "check", "cas", "futex"}
  /\ mHiResTimers \in Seq(HiRes)
  /\ left \in [HiRes -> Nat]
  /\ dropped \subseteq HiRes
-----------------------------------------------------------------------------
Init ==
  /\ box = << >> /\ mWaiting = 0 /\ dpc = "idle" /\ current = NULL
  /\ mExited = FALSE
  /\ life = [x \in Sources |-> "none"]
  /\ mDestroyed = {} /\ freed = {} /\ onQueue = {}
  /\ mRefCount = [x \in Sources |-> 0]
  /\ pending = {} /\ running = NULL /\ epc = "loop"
  /\ mHiResTimers = << >> /\ left = [h \in HiRes |-> 0] /\ dropped = {}

\* The callbacks of a source that are in the queue.
Queued(x) == Cardinality({k \in 1..Len(box) : box[k][1] = x})

\* The queue's thread is in the application's code: before sbfQueue_dispatch or in
\* a callback.
InApplication == dpc \in {"idle", "callback"}

\* The calls the application began on the queue's thread have returned.
CallsReturned == \A x \in onQueue : life[x] = "destroyed"

\* SBF_QUEUE_BLOCKING.
Blocking == mHiResTimers = << >>

\* Mutant: no reference for the queued callback.
NoReference(x) == UNCHANGED mRefCount

AddReference(x) == mRefCount' = [mRefCount EXCEPT ![x] = @ + 1]

\* Give back references; the last one frees.
Unreference(who) ==
  /\ mRefCount' = [x \in Sources |-> IF x \in who THEN mRefCount[x] - 1 ELSE mRefCount[x]]
  /\ freed' = freed \cup {x \in who : mRefCount[x] = 1}
-----------------------------------------------------------------------------
(* The owner of a timer or event, on any thread. *)

\* sbfTimer_create, sbfTimer_create_disabled and sbfEvent_create.
Create(x) ==
  /\ life[x] = "none" /\ ~mExited
  /\ life' = [life EXCEPT ![x] = "created"]
  /\ mRefCount' = [mRefCount EXCEPT ![x] = 1]
  /\ pending' \in {pending, pending \cup {x}}
  /\ UNCHANGED <<queueVars, mDestroyed, freed, onQueue, running, epc, treeVars>>

\* sbfTimer_enable.
Enable(x) ==
  /\ life[x] = "created"
  /\ pending' = pending \cup {x}
  /\ UNCHANGED <<queueVars, ownerVars, running, epc, treeVars>>

\* sbfTimer_destroy and sbfEvent_destroy, by the queue's thread or another: set the
\* flag.
Destroy(x) ==
  /\ life[x] = "created"
  /\ \/ InApplication /\ CallsReturned /\ onQueue' = onQueue \cup {x}
     \/ UNCHANGED onQueue
  /\ mDestroyed' = mDestroyed \cup {x}
  /\ life' = [life EXCEPT ![x] = "deleting"]
  /\ UNCHANGED <<queueVars, mRefCount, freed, eventVars, treeVars>>

\* Mutant: the event is deleted while its callback runs.
DeleteAnyway(x) == TRUE

\* event_del waits while the event thread is in the callback of the event.
NotRunning(x) == running # x

Delete(x) ==
  /\ life[x] = "deleting"
  /\ NotRunning(x)
  /\ pending' = pending \ {x}
  /\ life' = [life EXCEPT ![x] = "releasing"]
  /\ UNCHANGED <<queueVars, mDestroyed, mRefCount, freed, onQueue, running, epc, treeVars>>

\* Give back the reference of the owner.
Release(x) ==
  /\ life[x] = "releasing"
  /\ Unreference({x})
  /\ life' = [life EXCEPT ![x] = "destroyed"]
  /\ UNCHANGED <<queueVars, mDestroyed, onQueue, eventVars, treeVars>>
-----------------------------------------------------------------------------
(* The event thread. *)

\* libevent calls sbfTimerEventCb or sbfEventEventCb, which first of all adds the
\* event again.
Fire(x) ==
  /\ epc = "loop"
  /\ x \in pending
  /\ Queued(x) < MaxQueued
  /\ running' = x
  /\ epc' = "test"
  /\ UNCHANGED <<queueVars, ownerVars, pending, treeVars>>

FireReturns == epc' = "loop" /\ running' = NULL

\* If the timer is not destroyed, take a reference for the queued callback.
TestFired ==
  /\ epc = "test"
  /\ IF running \in mDestroyed
       THEN FireReturns /\ UNCHANGED mRefCount
       ELSE AddReference(running) /\ epc' = "swap" /\ UNCHANGED running
  /\ UNCHANGED <<queueVars, life, mDestroyed, freed, onQueue, pending, treeVars>>

\* sbfQueueEnqueue1, in its two halves.
Swap ==
  /\ epc = "swap"
  /\ box' = Append(box, <<running, FALSE>>)
  /\ epc' = "link"
  /\ UNCHANGED <<mWaiting, dpc, current, mExited, ownerVars, pending, running, treeVars>>

Link ==
  /\ epc = "link"
  /\ box' = [k \in 1..Len(box) |-> <<box[k][1], TRUE>>]
  /\ epc' = "check"
  /\ UNCHANGED <<mWaiting, dpc, current, mExited, ownerVars, pending, running, treeVars>>

\* sbfQueueEnqueue: does the queue block?  The tree may look empty while its last
\* timer is out of it to be armed again.
Check ==
  /\ epc = "check"
  /\ \/ /\ Blocking \/ (dpc = "timers" /\ Len(mHiResTimers) = 1)
        /\ epc' = "cas"
        /\ UNCHANGED running
     \/ ~Blocking /\ FireReturns
  /\ UNCHANGED <<queueVars, ownerVars, pending, treeVars>>

\* Is the dispatcher waiting?
CompareAndSwap ==
  /\ epc = "cas"
  /\ mWaiting' = 0
  /\ IF mWaiting = 1 THEN epc' = "futex" /\ UNCHANGED running ELSE FireReturns
  /\ UNCHANGED <<box, dpc, current, mExited, ownerVars, pending, treeVars>>

FutexWake ==
  /\ epc = "futex"
  /\ dpc' = IF dpc = "asleep" THEN "look" ELSE dpc
  /\ FireReturns
  /\ UNCHANGED <<box, mWaiting, current, mExited, ownerVars, pending, treeVars>>
-----------------------------------------------------------------------------
(* The high-resolution timers: the queue's thread creates and destroys them, as    *)
(* nothing guards their tree.                                                      *)

\* RB_INSERT in the order of mNext.  A timer whose mNext is in the tree already is
\* not inserted.
Insert(tree, time, h) ==
  LET k == Cardinality({i \in 1..Len(tree) : time[tree[i]] <= Ticks[h]})
  IN SubSeq(tree, 1, k) \o <<h>> \o SubSeq(tree, k + 1, Len(tree))

InTree(h) == \E k \in 1..Len(mHiResTimers) : mHiResTimers[k] = h

Arm(h, tree) ==
  LET equal == \E k \in 1..Len(tree) : left[tree[k]] = Ticks[h]
  IN /\ mHiResTimers' = IF equal THEN tree ELSE Insert(tree, left, h)
     /\ dropped' = IF equal THEN dropped \cup {h} ELSE dropped
     /\ left' = [left EXCEPT ![h] = Ticks[h]]

\* sbfHiResTimer_create.
HiResCreate(h) ==
  /\ life[h] = "none" /\ InApplication /\ CallsReturned /\ ~mExited
  /\ life' = [life EXCEPT ![h] = "created"]
  /\ mRefCount' = [mRefCount EXCEPT ![h] = 1]
  /\ Arm(h, mHiResTimers)
  /\ UNCHANGED <<queueVars, mDestroyed, freed, onQueue, eventVars>>

\* sbfHiResTimer_destroy: the timer stays in the tree until it is due.
HiResDestroy(h) ==
  /\ life[h] = "created" /\ InApplication /\ CallsReturned /\ ~mExited
  /\ mDestroyed' = mDestroyed \cup {h} /\ onQueue' = onQueue \cup {h}
  /\ life' = [life EXCEPT ![h] = "destroyed"]
  /\ UNCHANGED <<queueVars, mRefCount, freed, eventVars, treeVars>>

\* sbfPerfCounter_get moves on.
Tick ==
  /\ \E h \in HiRes : left[h] # 0
  /\ \A h \in HiRes : Queued(h) < MaxQueued
  /\ left' = [h \in HiRes |-> IF left[h] = 0 THEN 0 ELSE left[h] - 1]
  /\ UNCHANGED <<queueVars, ownerVars, eventVars, mHiResTimers, dropped>>

\* The first timer of the tree is due.
Due == ~Blocking /\ left[Head(mHiResTimers)] = 0

\* sbfHiResTimer_queueDispatch: the first timer, if it is due, is put in the queue
\* and armed again.
HiResFire ==
  /\ dpc = "timers"
  /\ Due
  /\ LET h == Head(mHiResTimers)
     IN /\ h \notin mDestroyed
        /\ AddReference(h)
        /\ box' = Append(box, <<h, TRUE>>)
        /\ Arm(h, Tail(mHiResTimers))
  /\ UNCHANGED <<mWaiting, dpc, current, mExited, life, mDestroyed, freed, onQueue, eventVars>>

\* Mutant: the reference of the tree is kept.
KeepInTree(h) == UNCHANGED <<mRefCount, freed>>

LeaveTree(h) == Unreference({h})

\* It leaves the tree if it is destroyed.
HiResRemove ==
  /\ dpc = "timers"
  /\ Due
  /\ LET h == Head(mHiResTimers) IN h \in mDestroyed /\ LeaveTree(h)
  /\ mHiResTimers' = Tail(mHiResTimers)
  /\ UNCHANGED <<queueVars, life, mDestroyed, onQueue, eventVars, left, dropped>>

\* None is due.
HiResNone ==
  /\ dpc = "timers"
  /\ ~Due
  /\ dpc' = "enter"
  /\ UNCHANGED <<box, mWaiting, current, mExited, ownerVars, eventVars, treeVars>>
-----------------------------------------------------------------------------
(* sbfQueue_dispatch and sbfQueueDequeue. *)

Goto(label) ==
  /\ dpc' = label
  /\ UNCHANGED <<box, mWaiting, current, mExited, ownerVars, eventVars, treeVars>>

Dispatch == dpc = "idle" /\ CallsReturned /\ Goto("enter")

\* Mutant: it does not ask.
EnterToBlock == dpc = "enter" /\ Goto("look")

\* sbfQueueDequeue asks once whether the queue blocks.
Enter == dpc = "enter" /\ Goto(IF Blocking THEN "look" ELSE "poll")

\* sbfQueueNext has an item: the first one and the one behind it are linked.
Takeable == box # << >> /\ \A k \in 1..Len(box) : k <= 2 => box[k][2]

TakeItem ==
  /\ dpc \in {"poll", "look", "relook"}
  /\ Takeable
  /\ current' = Head(box)[1]
  /\ box' = Tail(box)
  /\ dpc' = IF dpc = "relook" THEN "disarm" ELSE "taken"
  /\ UNCHANGED <<mWaiting, mExited, ownerVars, eventVars, treeVars>>

FindNothing ==
  /\ dpc \in {"poll", "look", "relook"}
  /\ ~Takeable
  /\ Goto(CASE dpc = "poll" -> "timers" [] dpc = "look" -> "arm" [] dpc = "relook" -> "wait")

\* Mutant: no second look.
WaitAtOnce ==
  /\ dpc = "arm"
  /\ mWaiting' = 1
  /\ dpc' = "wait"
  /\ UNCHANGED <<box, current, mExited, ownerVars, eventVars, treeVars>>

SetWaiting ==
  /\ dpc = "arm"
  /\ mWaiting' = 1
  /\ dpc' = "relook"
  /\ UNCHANGED <<box, current, mExited, ownerVars, eventVars, treeVars>>

ClearWaiting ==
  /\ dpc = "disarm"
  /\ mWaiting' = 0
  /\ dpc' = "taken"
  /\ UNCHANGED <<box, current, mExited, ownerVars, eventVars, treeVars>>

FutexWait == dpc = "wait" /\ Goto(IF mWaiting = 1 THEN "asleep" ELSE "look")

IsDestroyed(x) == x \in mDestroyed

\* sbfTimerQueueCb, sbfEventQueueCb and sbfHiResTimerQueueCb read mDestroyed.
TestQueued ==
  /\ dpc = "taken"
  /\ current # Marker
  /\ Goto(IF IsDestroyed(current) THEN "drop" ELSE "calling")

\* They call the application.
Invoke == dpc = "calling" /\ Goto("callback")

CallbackReturns == dpc = "callback" /\ CallsReturned /\ Goto("drop")

\* They give back the reference of the queued callback.
Drop ==
  /\ dpc = "drop"
  /\ Unreference({current})
  /\ current' = NULL
  /\ dpc' = "timers"
  /\ UNCHANGED <<box, mWaiting, mExited, life, mDestroyed, onQueue, eventVars, treeVars>>

\* The marker ends sbfQueue_dispatch.
DispatchReturns ==
  /\ dpc = "taken"
  /\ current = Marker
  /\ current' = NULL
  /\ dpc' = "done"
  /\ UNCHANGED <<box, mWaiting, mExited, ownerVars, eventVars, treeVars>>

\* sbfHiResTimer_queueDestroy.
DestroyTree ==
  LET who == {h \in HiRes : InTree(h)}
  IN /\ mHiResTimers' = << >>
     /\ mDestroyed' = mDestroyed \cup who /\ onQueue' = onQueue \cup who
     /\ Unreference(who)
     /\ life' = [x \in Sources |-> IF x \in who THEN "destroyed" ELSE life[x]]
     /\ UNCHANGED <<left, dropped>>

\* sbfQueue_destroy in a callback, when the timers and events are destroyed.
QueueDestroy ==
  /\ dpc = "callback" /\ CallsReturned /\ ~mExited
  /\ \A x \in Timers : life[x] \in {"none", "destroyed"}
  /\ DestroyTree
  /\ box' = Append(box, <<Marker, TRUE>>)
  /\ mExited' = TRUE
  /\ UNCHANGED <<mWaiting, dpc, current, eventVars>>
-----------------------------------------------------------------------------
EventStep == TestFired \/ Swap \/ Link \/ Check \/ CompareAndSwap \/ FutexWake
DispatchStep ==
  \/ Dispatch \/ Enter \/ TakeItem \/ FindNothing \/ SetWaiting \/ ClearWaiting
  \/ FutexWait \/ TestQueued \/ Invoke \/ CallbackReturns \/ Drop \/ DispatchReturns
  \/ HiResFire \/ HiResRemove \/ HiResNone

Next ==
  \/ \E x \in Timers : Create(x) \/ Enable(x) \/ Destroy(x) \/ Delete(x) \/ Release(x) \/ Fire(x)
  \/ \E h \in HiRes : HiResCreate(h) \/ HiResDestroy(h)
  \/ EventStep \/ DispatchStep \/ QueueDestroy \/ Tick

Spec == Init /\ [][Next]_vars

\* Every thread goes on with what it has begun, the application dispatches, and
\* time passes.  No timer has to fire and no call has to be made.
Fairness == /\ \A x \in Timers : SF_vars(Delete(x)) /\ WF_vars(Release(x))
            /\ WF_vars(EventStep) /\ WF_vars(DispatchStep) /\ WF_vars(Tick)

FairSpec == Spec /\ Fairness
-----------------------------------------------------------------------------
(* Properties. *)

\* Memory that was freed is not in use: not by libevent, the event thread, the
\* queue, the dispatcher or the tree.  And "This also stops the timer so no callback
\* will be raised" (sbfTimer.h, sbfHiResTimer.h) holds when it is the queue's thread
\* that destroys, of what is in the queue by then, too.  Another thread can come
\* between TestQueued and Invoke.
SourceHeld ==
  /\ dpc = "calling" => current \notin onQueue
  /\ \A x \in freed : /\ x \notin pending /\ running # x
                      /\ Queued(x) = 0 /\ current # x
                      /\ x \in HiRes => ~InTree(x)

\* The dispatcher does not sleep while high-resolution timers are armed, nor while
\* something is queued that no one is about to wake it for, though what enqueues
\* and what dispatches decide for themselves, at different times, whether the
\* queue blocks.
NoLostWakeup ==
  dpc = "asleep" =>
    /\ mHiResTimers = << >>
    /\ box # << >> => (epc = "futex" \/ (epc \in {"link", "check", "cas"} /\ mWaiting = 1))

\* What is destroyed is freed in the end, but for what the tree has lost.
Freed == \A x \in Sources : (life[x] = "destroyed") ~> (x \in freed \cup dropped)

\* A high-resolution timer in the tree goes on calling back until it is destroyed,
\* every queued callback is dispatched, and sbfQueue_dispatch returns once the queue
\* is destroyed.
Fires ==
  /\ \A h \in HiRes : []<>(~InTree(h) \/ h \in mDestroyed
                           \/ (dpc = "callback" /\ current = h))
  /\ box # << >> ~> (box = << >> \/ current # NULL)
  /\ mExited ~> dpc = "done"

\* "Callback invoked when timer expires" (sbfHiResTimer.h): a timer calls back, if
\* it is not destroyed first.
Expires ==
  \A h \in HiRes :
    (life[h] = "created") ~> (h \in mDestroyed \/ (dpc = "callback" /\ current = h))
=============================================================================
