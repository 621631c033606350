-------------------------- MODULE SbfTimersProofs ---------------------------
(***************************************************************************)
(* Theorems about SbfTimers, for any number of timers, events and          *)
(* high-resolution timers, and any intervals: types, that nothing is used  *)
(* after it is freed, and that no wakeup is lost.                          *)
(***************************************************************************)
EXTENDS SbfTimers, FiniteSetTheorems, SequenceTheorems, TLAPS

-----------------------------------------------------------------------------
(* The callbacks in the queue. *)

Items == (Sources \cup {Marker}) \X BOOLEAN

\* The positions of x in a queue.
At(q, x) == {k \in 1..Len(q) : q[k][1] = x}

\* What is counted in a queue is finite.
LEMMA AtFinite ==
  ASSUME NEW q \in Seq(Items), NEW x
  PROVE  IsFiniteSet(At(q, x)) /\ Cardinality(At(q, x)) \in Nat
<1>1. Len(q) \in Int
  OBVIOUS
<1>2. IsFiniteSet(1..Len(q))
  BY <1>1, FS_Interval
<1>3. At(q, x) \subseteq 1..Len(q)
  BY DEF At
<1> QED BY <1>2, <1>3, FS_Subset, FS_CardinalityType

\* A callback is put at the end of the queue.
LEMMA QueuedAppend ==
  ASSUME TypeOK, NEW i \in Items, box' = Append(box, i)
  PROVE  /\ box' \in Seq(Items)
         /\ \A x : Queued(x)' = Queued(x) + IF i[1] = x THEN 1 ELSE 0
<1> DEFINE n == Len(box) + 1
<1>1. box \in Seq(Items) /\ Len(box) \in Nat /\ box' \in Seq(Items) /\ Len(box') = n
      /\ box'[n] = i /\ \A k \in 1..Len(box) : box'[k] = box[k]
  BY DEF TypeOK, Items
<1>2. SUFFICES ASSUME NEW x PROVE Queued(x)' = Queued(x) + IF i[1] = x THEN 1 ELSE 0
  BY <1>1
<1>3. IsFiniteSet(At(box, x)) /\ Cardinality(At(box, x)) \in Nat
  BY <1>1, AtFinite
<1>4. n \notin At(box, x) /\ At(box', x) = IF i[1] = x THEN At(box, x) \cup {n} ELSE At(box, x)
  BY <1>1 DEF At
<1>5. Cardinality(At(box', x)) = Cardinality(At(box, x)) + IF i[1] = x THEN 1 ELSE 0
  <2> HIDE DEF n
  <2>1. Cardinality(At(box, x) \cup {n}) = Cardinality(At(box, x)) + 1
    BY <1>3, <1>4, FS_AddElement
  <2> QED BY <2>1, <1>3, <1>4
<1> QED BY <1>5 DEF Queued, At

\* The first callback is taken from the queue.
LEMMA QueuedTail ==
  ASSUME TypeOK, box # << >>, box' = Tail(box)
  PROVE  /\ box' \in Seq(Items) /\ Head(box) \in Items
         /\ \A x : /\ Queued(x)' = Queued(x) - IF Head(box)[1] = x THEN 1 ELSE 0
                   /\ Queued(x)' \in Nat
<1>1. box \in Seq(Items) /\ box' \in Seq(Items) /\ Len(box) \in Nat /\ Len(box) > 0
      /\ Head(box) = box[1] /\ Head(box) \in Items
      /\ Len(box') = Len(box) - 1 /\ \A k \in 1..Len(box') : box'[k] = box[k + 1]
  BY DEF TypeOK, Items
<1>2. SUFFICES ASSUME NEW x
               PROVE  /\ Queued(x)' = Queued(x) - IF Head(box)[1] = x THEN 1 ELSE 0
                      /\ Queued(x)' \in Nat
  BY <1>1
<1> DEFINE A == At(box, x)
<1> DEFINE B == At(box', x)
<1> DEFINE C == A \ {1}
<1>3. /\ IsFiniteSet(A) /\ Cardinality(A) \in Nat
      /\ IsFiniteSet(B) /\ Cardinality(B) \in Nat
  BY <1>1, AtFinite
<1>4. Cardinality(C) = Cardinality(B)
  <2> DEFINE f == [k \in B |-> k + 1]
  <2>1. /\ \A k \in B : k \in Nat /\ k + 1 \in C
        /\ \A k \in C : k - 1 \in B /\ k \in Nat
    BY <1>1 DEF At
  <2> HIDE DEF A, B, C
  <2>2. f \in [B -> C] /\ (\A a, b \in B : f[a] = f[b] => a = b)
        /\ \A c \in C : \E b \in B : f[b] = c
    BY <2>1
  <2> HIDE DEF f
  <2>3. f \in Bijection(B, C)
    BY <2>2 DEF Bijection, Injection, Surjection, IsInjective
  <2>4. ExistsBijection(B, C)
    BY <2>3 DEF ExistsBijection
  <2> QED BY <2>4, <1>3, FS_Bijection
<1>5. 1 \in A <=> Head(box)[1] = x
  BY <1>1 DEF At
<1>6. Cardinality(C) = IF 1 \in A THEN Cardinality(A) - 1 ELSE Cardinality(A)
  <2>1. 1 \notin A => C = A
    OBVIOUS
  <2> HIDE DEF A
  <2> QED BY <2>1, <1>3, FS_RemoveElement
<1>7. Cardinality(B) = Cardinality(A) - IF Head(box)[1] = x THEN 1 ELSE 0
  <2> HIDE DEF A, B, C
  <2> QED BY <1>3, <1>4, <1>5, <1>6
<1> QED BY <1>3, <1>7 DEF Queued, At

\* The links are written.
LEMMA QueuedLink ==
  ASSUME TypeOK, box' = [k \in 1..Len(box) |-> <<box[k][1], TRUE>>]
  PROVE  /\ box' \in Seq(Items) /\ Len(box') = Len(box)
         /\ \A x : Queued(x)' = Queued(x)
<1>1. box \in Seq(Items) /\ Len(box) \in Nat
  BY DEF TypeOK, Items
<1>2. ASSUME NEW k \in 1..Len(box)
      PROVE  <<box[k][1], TRUE>> \in Items /\ box'[k] = <<box[k][1], TRUE>>
  <2>1. box[k] \in Items
    BY <1>1
  <2>2. box[k][1] \in Sources \cup {Marker}
    BY <2>1 DEF Items
  <2> QED BY <2>2 DEF Items
<1>3. box' \in Seq(Items) /\ Len(box') = Len(box)
  <2>1. box' \in [1..Len(box) -> Items]
    BY <1>2
  <2>2. box' \in Seq(Items)
    BY <2>1, <1>1, SeqDef
  <2>3. 1..Len(box') = 1..Len(box) /\ Len(box') \in Nat
    BY <2>1, <2>2, LenProperties
  <2>4. \A m, n \in Nat : 1..m = 1..n => m = n
    <3> SUFFICES ASSUME NEW m \in Nat, NEW n \in Nat, 1..m = 1..n PROVE m = n
      OBVIOUS
    <3>1. (m \in 1..m <=> m \in 1..n) /\ (n \in 1..m <=> n \in 1..n)
      OBVIOUS
    <3> QED BY <3>1
  <2> QED BY <2>2, <2>3, <2>4, <1>1
<1>4. \A x : At(box', x) = At(box, x)
  BY <1>2, <1>3 DEF At
<1> QED BY <1>3, <1>4 DEF Queued, At

\* The queue is left alone.
LEMMA QueuedSame ==
  ASSUME box' = box
  PROVE  \A x : Queued(x)' = Queued(x)
BY DEF Queued

\* Counts are natural numbers.
LEMMA QueuedType == TypeOK => \A x : Queued(x) \in Nat
BY AtFinite DEF Queued, At, TypeOK, Items

-----------------------------------------------------------------------------
(* The inductive invariant. *)

\* One reference, if someone holds it.
One(holds) == IF holds THEN 1 ELSE 0

\* The reference that a source has from its creation: of the owner of a timer or
\* event, or of the tree, be it that the tree has lost the timer.
Own(x) ==
  IF x \in Timers THEN life[x] \in {"created", "deleting", "releasing"}
  ELSE InTree(x) \/ x \in dropped

\* Between its test of mDestroyed and the queue the event thread has one.
Carried(x) == running = x /\ epc = "swap"

RefOK(x) ==
  /\ mRefCount[x] = Queued(x) + One(Own(x)) + One(current = x) + One(Carried(x))
  /\ x \in freed <=> life[x] # "none" /\ mRefCount[x] = 0
  /\ life[x] = "none" => mRefCount[x] = 0

RefsOK == \A x \in Sources : RefOK(x)

\* event_del has not returned while the event is added or its callback runs.
TimersOK ==
  \A x \in Timers : x \in pending \/ running = x => life[x] \in {"created", "deleting"}

TreeOK ==
  /\ \A k, l \in 1..Len(mHiResTimers) : mHiResTimers[k] = mHiResTimers[l] => k = l
  /\ \A k \in 1..Len(mHiResTimers) : mHiResTimers[k] \notin dropped

ThreadsOK ==
  /\ running = NULL <=> epc = "loop"
  /\ current = NULL <=> dpc \notin {"taken", "disarm", "calling", "callback", "drop"}
  /\ current = Marker => dpc \in {"disarm", "taken"}
  /\ dpc = "calling" => current \notin onQueue
  /\ onQueue \subseteq mDestroyed

\* Once sbfQueueDequeue has found that the queue blocks, it does until an item is
\* taken.  When the dispatcher has found nothing with mWaiting set, whoever
\* extends the list has mWaiting yet to test, or is about to wake it.
WakeOK ==
  /\ dpc \in {"look", "arm", "relook", "disarm", "wait", "asleep"} => mHiResTimers = << >>
  /\ \A k \in 1..Len(box) : box[k][2] \/ epc = "link"
  /\ dpc = "wait" /\ mWaiting = 1 /\ box # << >> => epc \in {"link", "check", "cas"}
  /\ dpc = "asleep" =>
       \/ epc = "futex"
       \/ mWaiting = 1 /\ (box # << >> => epc \in {"link", "check", "cas"})

IInv == TypeOK /\ RefsOK /\ TimersOK /\ TreeOK /\ ThreadsOK /\ WakeOK

\* The parts of the invariant, as the lemmas below use them.
LEMMA Unpack ==
  ASSUME IInv
  PROVE  /\ TypeOK /\ RefsOK /\ TimersOK /\ TreeOK /\ ThreadsOK /\ WakeOK
         /\ box \in Seq(Items) /\ \A x : Queued(x) \in Nat
         /\ mRefCount \in [Sources -> Nat]
         /\ \A x \in Sources : x # NULL /\ x # Marker
         /\ NULL # Marker
         /\ \A x \in HiRes : x \notin Timers /\ x \in Sources
         /\ \A x \in Timers : x \in Sources
BY QueuedType, TimersAssumption DEF IInv, TypeOK, Items, Sources

\* What a step does not touch of source x.
Same(x) ==
  /\ mRefCount'[x] = mRefCount[x] /\ Queued(x)' = Queued(x)
  /\ Own(x)' <=> Own(x)
  /\ current' = x <=> current = x
  /\ Carried(x)' <=> Carried(x)
  /\ life'[x] = "none" <=> life[x] = "none"
  /\ x \in freed' <=> x \in freed

\* What a step leaves alone stays as it was.
LEMMA SameOK ==
  ASSUME NEW x \in Sources, RefOK(x), Same(x)
  PROVE  RefOK(x)'
BY DEF RefOK, Same, One

\* Steps that move nothing but the dispatcher.
LEMMA DispatcherMoves ==
  ASSUME IInv,
         dpc' \in {"idle", "enter", "poll", "look", "arm", "relook", "disarm", "wait",
                   "asleep", "taken", "calling", "callback", "drop", "timers", "done"},
         UNCHANGED <<box, mWaiting, current, mExited, ownerVars, eventVars, treeVars>>
  PROVE  TypeOK' /\ RefsOK' /\ TimersOK' /\ TreeOK'
<1>1. UNCHANGED <<box, mWaiting, current, mExited, life, mDestroyed, mRefCount, freed, onQueue,
                  pending, running, epc, mHiResTimers, left, dropped>>
  BY DEF ownerVars, eventVars, treeVars
<1>2. TypeOK'
  BY <1>1, Unpack DEF TypeOK
<1>3. \A x \in Sources : Same(x)
  BY <1>1, QueuedSame DEF Same, Own, Carried, InTree
<1>4. RefsOK'
  BY <1>3, Unpack, SameOK DEF RefsOK
<1>5. TimersOK' /\ TreeOK'
  BY <1>1, Unpack DEF TimersOK, TreeOK
<1> QED BY <1>2, <1>4, <1>5

-----------------------------------------------------------------------------
(* The dispatcher, action by action: each keeps the invariant. *)

LEMMA DispatchInv == ASSUME IInv, Dispatch PROVE IInv'
<1>1. TypeOK' /\ RefsOK' /\ TimersOK' /\ TreeOK'
  BY DispatcherMoves DEF Dispatch, Goto
<1>2. ThreadsOK' /\ WakeOK'
  BY Unpack DEF Dispatch, Goto, ThreadsOK, WakeOK, ownerVars, eventVars, treeVars
<1> QED BY <1>1, <1>2 DEF IInv

LEMMA EnterInv == ASSUME IInv, Enter PROVE IInv'
<1>1. TypeOK' /\ RefsOK' /\ TimersOK' /\ TreeOK'
  BY DispatcherMoves DEF Enter, Goto
<1>2. ThreadsOK' /\ WakeOK'
  BY Unpack DEF Enter, Goto, ThreadsOK, WakeOK, Blocking, ownerVars, eventVars, treeVars
<1> QED BY <1>1, <1>2 DEF IInv

LEMMA FindNothingInv == ASSUME IInv, FindNothing PROVE IInv'
<1>1. TypeOK' /\ RefsOK' /\ TimersOK' /\ TreeOK'
  BY DispatcherMoves DEF FindNothing, Goto
<1>2. dpc = "relook" => box = << >> \/ epc = "link"
  BY Unpack DEF FindNothing, Takeable, WakeOK
<1>3. /\ UNCHANGED <<box, mWaiting, current, onQueue, mDestroyed, running, epc, mHiResTimers>>
      /\ dpc \in {"poll", "look", "relook"}
      /\ dpc' = CASE dpc = "poll" -> "timers" [] dpc = "look" -> "arm" [] dpc = "relook" -> "wait"
  BY DEF FindNothing, Goto, ownerVars, eventVars, treeVars
<1>4. ThreadsOK' /\ WakeOK'
  BY <1>2, <1>3, Unpack DEF ThreadsOK, WakeOK
<1> QED BY <1>1, <1>4 DEF IInv

LEMMA FutexWaitInv == ASSUME IInv, FutexWait PROVE IInv'
<1>1. TypeOK' /\ RefsOK' /\ TimersOK' /\ TreeOK'
  BY DispatcherMoves DEF FutexWait, Goto
<1>2. ThreadsOK' /\ WakeOK'
  BY Unpack DEF FutexWait, Goto, ThreadsOK, WakeOK, ownerVars, eventVars, treeVars
<1> QED BY <1>1, <1>2 DEF IInv

LEMMA TestQueuedInv == ASSUME IInv, TestQueued PROVE IInv'
<1>1. TypeOK' /\ RefsOK' /\ TimersOK' /\ TreeOK'
  BY DispatcherMoves DEF TestQueued, Goto
<1>2. ThreadsOK' /\ WakeOK'
  BY Unpack DEF TestQueued, Goto, IsDestroyed, ThreadsOK, WakeOK, ownerVars, eventVars, treeVars
<1> QED BY <1>1, <1>2 DEF IInv

LEMMA InvokeInv == ASSUME IInv, Invoke \/ CallbackReturns PROVE IInv'
<1>1. TypeOK' /\ RefsOK' /\ TimersOK' /\ TreeOK'
  BY DispatcherMoves DEF Invoke, CallbackReturns, Goto
<1>2. ThreadsOK' /\ WakeOK'
  BY Unpack DEF Invoke, CallbackReturns, Goto, ThreadsOK, WakeOK, ownerVars, eventVars, treeVars
<1> QED BY <1>1, <1>2 DEF IInv

LEMMA HiResNoneInv == ASSUME IInv, HiResNone PROVE IInv'
<1>1. TypeOK' /\ RefsOK' /\ TimersOK' /\ TreeOK'
  BY DispatcherMoves DEF HiResNone
<1>2. ThreadsOK' /\ WakeOK'
  BY Unpack DEF HiResNone, ThreadsOK, WakeOK, ownerVars, eventVars, treeVars
<1> QED BY <1>1, <1>2 DEF IInv

LEMMA WaitingInv == ASSUME IInv, SetWaiting \/ ClearWaiting PROVE IInv'
<1>1. UNCHANGED <<box, current, mExited, life, mDestroyed, mRefCount, freed, onQueue,
                  pending, running, epc, mHiResTimers, left, dropped>>
      /\ mWaiting' \in {0, 1} /\ dpc' \in {"relook", "taken"}
  BY DEF SetWaiting, ClearWaiting, ownerVars, eventVars, treeVars
<1>2. TypeOK'
  BY <1>1, Unpack DEF TypeOK
<1>3. \A x \in Sources : Same(x)
  BY <1>1, QueuedSame DEF Same, Own, Carried, InTree
<1>4. RefsOK'
  BY <1>3, Unpack, SameOK DEF RefsOK
<1>5. TimersOK' /\ TreeOK'
  BY <1>1, Unpack DEF TimersOK, TreeOK
<1>6. ThreadsOK' /\ WakeOK'
  BY <1>1, Unpack DEF SetWaiting, ClearWaiting, ThreadsOK, WakeOK
<1> QED BY <1>2, <1>4, <1>5, <1>6 DEF IInv

LEMMA TakeItemInv == ASSUME IInv, TakeItem PROVE IInv'
<1>1. /\ box # << >> /\ box' = Tail(box) /\ current' = Head(box)[1]
      /\ dpc \in {"poll", "look", "relook"}
      /\ dpc' = IF dpc = "relook" THEN "disarm" ELSE "taken"
      /\ UNCHANGED <<mWaiting, mExited, life, mDestroyed, mRefCount, freed, onQueue,
                     pending, running, epc, mHiResTimers, left, dropped>>
  BY DEF TakeItem, Takeable, ownerVars, eventVars, treeVars
<1>2. /\ box' \in Seq(Items) /\ Head(box) \in Items
      /\ \A x : /\ Queued(x)' = Queued(x) - IF current' = x THEN 1 ELSE 0
                /\ Queued(x)' \in Nat
  BY <1>1, Unpack, QueuedTail
<1>3. current = NULL /\ current' # NULL /\ current' \in Sources \cup {Marker}
  BY <1>1, <1>2, Unpack, TimersAssumption DEF ThreadsOK, Items
<1>4. TypeOK'
  BY <1>1, <1>2, <1>3, Unpack DEF TypeOK, Items
<1>5. ASSUME NEW x \in Sources PROVE RefOK(x)'
  <2>1. RefOK(x) /\ current # x /\ Queued(x) \in Nat
    BY <1>3, Unpack DEF RefsOK
  <2>2. (Own(x)' <=> Own(x)) /\ (Carried(x)' <=> Carried(x))
    BY <1>1 DEF Own, Carried, InTree
  <2>3. Queued(x)' = Queued(x) - (IF current' = x THEN 1 ELSE 0) /\ Queued(x)' \in Nat
    BY <1>2
  <2>4. UNCHANGED <<mRefCount, life, freed>>
    BY <1>1
  <2>5. mRefCount[x] = Queued(x)' + One(Own(x))' + One(current' = x) + One(Carried(x))'
    BY <2>1, <2>2, <2>3 DEF RefOK, One
  <2> QED BY <2>1, <2>4, <2>5 DEF RefOK
<1>6. TimersOK' /\ TreeOK'
  BY <1>1, Unpack DEF TimersOK, TreeOK
<1>7. ThreadsOK'
  BY <1>1, <1>3, Unpack DEF ThreadsOK
<1>8. WakeOK'
  <2>1. Len(box) \in Nat /\ Len(box') = Len(box) - 1 /\ \A k \in 1..Len(box') : box'[k] = box[k + 1]
    BY <1>1, Unpack
  <2>2. \A k \in 1..Len(box') : box'[k][2] \/ epc' = "link"
    BY <2>1, <1>1, Unpack DEF WakeOK
  <2> QED BY <1>1, <2>2, Unpack DEF WakeOK
<1> QED BY <1>4, <1>5, <1>6, <1>7, <1>8 DEF IInv, RefsOK

-----------------------------------------------------------------------------
(* The event thread. *)

LEMMA FireInv == ASSUME IInv, NEW x \in Timers, Fire(x) PROVE IInv'
<1>1. /\ epc = "loop" /\ x \in pending /\ running' = x /\ epc' = "test" /\ running = NULL
      /\ UNCHANGED <<box, mWaiting, dpc, current, mExited, life, mDestroyed, mRefCount, freed,
                     onQueue, pending, mHiResTimers, left, dropped>>
  BY Unpack DEF Fire, ThreadsOK, queueVars, ownerVars, treeVars
<1>2. TypeOK'
  BY <1>1, Unpack DEF TypeOK
<1>3. \A y \in Sources : Same(y)
  BY <1>1, QueuedSame DEF Same, Own, Carried, InTree
<1>4. RefsOK'
  BY <1>3, Unpack, SameOK DEF RefsOK
<1>5. TimersOK' /\ TreeOK'
  BY <1>1, Unpack DEF TimersOK, TreeOK
<1>6. ThreadsOK' /\ WakeOK'
  BY <1>1, Unpack DEF ThreadsOK, WakeOK
<1> QED BY <1>2, <1>4, <1>5, <1>6 DEF IInv

LEMMA TestFiredInv == ASSUME IInv, TestFired PROVE IInv'
<1>1. /\ epc = "test" /\ running \in Timers /\ running \in Sources
      /\ UNCHANGED <<box, mWaiting, dpc, current, mExited, life, mDestroyed, freed,
                     onQueue, pending, mHiResTimers, left, dropped>>
  BY Unpack DEF TestFired, ThreadsOK, TypeOK, queueVars, treeVars
<1>2. TimersOK' /\ TreeOK' /\ ThreadsOK' /\ WakeOK'
  <2>1. \/ epc' = "loop" /\ running' = NULL
        \/ epc' = "swap" /\ running' = running
    BY DEF TestFired, FireReturns
  <2> QED BY <1>1, <2>1, Unpack DEF TimersOK, TreeOK, ThreadsOK, WakeOK
<1>3. CASE running \in mDestroyed
  <2>1. epc' = "loop" /\ running' = NULL /\ mRefCount' = mRefCount
    BY <1>3, <1>1 DEF TestFired, FireReturns
  <2>2. TypeOK'
    BY <2>1, <1>1, Unpack DEF TypeOK
  <2>3. \A y \in Sources : Same(y)
    BY <2>1, <1>1, QueuedSame DEF Same, Own, Carried, InTree
  <2>4. RefsOK'
    BY <2>3, Unpack, SameOK DEF RefsOK
  <2> QED BY <1>2, <2>2, <2>4 DEF IInv
<1>4. CASE running \notin mDestroyed
  <2>1. /\ epc' = "swap" /\ running' = running
        /\ mRefCount' = [mRefCount EXCEPT ![running] = @ + 1]
    BY <1>4, <1>1 DEF TestFired, AddReference
  <2>2. TypeOK'
    BY <2>1, <1>1, Unpack DEF TypeOK
  <2>3. ASSUME NEW y \in Sources PROVE RefOK(y)'
    <3>1. CASE y # running
      <4>1. Same(y)
        BY <3>1, <2>1, <1>1, Unpack, QueuedSame DEF Same, Own, Carried, InTree
      <4> QED BY <4>1, Unpack, SameOK DEF RefsOK
    <3>2. CASE y = running
      <4>1. RefOK(y) /\ Own(y) /\ Queued(y) \in Nat /\ y \in Timers /\ mRefCount[y] \in Nat
        BY <3>2, <1>1, Unpack DEF RefsOK, TimersOK, Own
      <4>2. Own(y)' /\ Carried(y)' /\ ~Carried(y) /\ Queued(y)' = Queued(y)
            /\ mRefCount'[y] = mRefCount[y] + 1
        BY <4>1, <3>2, <2>1, <1>1, Unpack, QueuedSame DEF Own, Carried, InTree
      <4> QED BY <4>1, <4>2, <1>1 DEF RefOK, One
    <3> QED BY <3>1, <3>2
  <2> QED BY <1>2, <2>2, <2>3 DEF IInv, RefsOK
<1> QED BY <1>3, <1>4

LEMMA SwapInv == ASSUME IInv, Swap PROVE IInv'
<1>1. /\ epc = "swap" /\ epc' = "link" /\ box' = Append(box, <<running, FALSE>>)
      /\ running \in Timers /\ running \in Sources
      /\ UNCHANGED <<mWaiting, dpc, current, mExited, life, mDestroyed, mRefCount, freed,
                     onQueue, pending, running, mHiResTimers, left, dropped>>
  BY Unpack DEF Swap, ThreadsOK, TypeOK, ownerVars, treeVars
<1>2. /\ box' \in Seq(Items)
      /\ \A x : Queued(x)' = Queued(x) + IF running = x THEN 1 ELSE 0
  <2> DEFINE i == <<running, FALSE>>
  <2>1. i \in Items /\ i[1] = running
    BY <1>1 DEF Items
  <2> HIDE DEF i
  <2>2. box' = Append(box, i)
    BY <1>1 DEF i
  <2> QED BY <2>1, <2>2, Unpack, QueuedAppend
<1>3. TypeOK'
  BY <1>1, <1>2, Unpack DEF TypeOK, Items
<1>4. ASSUME NEW x \in Sources PROVE RefOK(x)'
  <2>1. RefOK(x) /\ Queued(x) \in Nat
    BY Unpack DEF RefsOK
  <2>2. (Own(x)' <=> Own(x)) /\ (Carried(x) <=> running = x) /\ ~Carried(x)'
    BY <1>1 DEF Own, Carried, InTree
  <2>3. Queued(x)' = Queued(x) + IF running = x THEN 1 ELSE 0
    BY <1>2
  <2> QED BY <2>1, <2>2, <2>3, <1>1 DEF RefOK, One
<1>5. TimersOK' /\ TreeOK' /\ ThreadsOK' /\ WakeOK'
  BY <1>1, Unpack DEF TimersOK, TreeOK, ThreadsOK, WakeOK
<1> QED BY <1>3, <1>4, <1>5 DEF IInv, RefsOK

LEMMA LinkInv == ASSUME IInv, Link PROVE IInv'
<1>1. /\ epc = "link" /\ epc' = "check"
      /\ box' = [k \in 1..Len(box) |-> <<box[k][1], TRUE>>]
      /\ UNCHANGED <<mWaiting, dpc, current, mExited, life, mDestroyed, mRefCount, freed,
                     onQueue, pending, running, mHiResTimers, left, dropped>>
  BY DEF Link, ownerVars, treeVars
<1>2. /\ box' \in Seq(Items) /\ Len(box') = Len(box) /\ \A x : Queued(x)' = Queued(x)
  BY <1>1, Unpack, QueuedLink
<1>3. TypeOK'
  BY <1>1, <1>2, Unpack DEF TypeOK, Items
<1>4. \A x \in Sources : Same(x)
  BY <1>1, <1>2 DEF Same, Own, Carried, InTree
<1>5. RefsOK'
  BY <1>4, Unpack, SameOK DEF RefsOK
<1>6. \A k \in 1..Len(box') : box'[k][2]
  BY <1>1, <1>2
<1>7. box' = << >> <=> box = << >>
  BY <1>2, Unpack
<1>8. TimersOK' /\ TreeOK' /\ ThreadsOK'
  BY <1>1, Unpack DEF TimersOK, TreeOK, ThreadsOK
<1>9. WakeOK'
  BY <1>1, <1>6, <1>7, Unpack DEF WakeOK
<1> QED BY <1>3, <1>5, <1>8, <1>9 DEF IInv

\* The event thread finds that the queue does not block only while the dispatcher
\* is not about to sleep.
LEMMA WakingInv ==
  ASSUME IInv, Check \/ CompareAndSwap \/ FutexWake
  PROVE  IInv'
<1>1. /\ epc \in {"check", "cas", "futex"}
      /\ \/ epc' = "loop" /\ running' = NULL
         \/ epc' \in {"cas", "futex"} /\ running' = running
      /\ UNCHANGED <<box, current, mExited, life, mDestroyed, mRefCount, freed,
                     onQueue, pending, mHiResTimers, left, dropped>>
  BY DEF Check, CompareAndSwap, FutexWake, FireReturns, queueVars, ownerVars, treeVars
<1>2. mWaiting' \in {0, 1} /\ (dpc' = dpc \/ (dpc = "asleep" /\ dpc' = "look"))
  <2>1. mWaiting \in {0, 1}
    BY Unpack DEF TypeOK
  <2>2. Check => UNCHANGED <<mWaiting, dpc>>
    BY DEF Check, queueVars
  <2>3. CompareAndSwap => mWaiting' = 0 /\ UNCHANGED dpc
    BY DEF CompareAndSwap
  <2>4. FutexWake => mWaiting' = mWaiting /\ (dpc' = dpc \/ (dpc = "asleep" /\ dpc' = "look"))
    BY DEF FutexWake
  <2> QED BY <2>1, <2>2, <2>3, <2>4
<1>3. TypeOK'
  BY <1>1, <1>2, Unpack DEF TypeOK
<1>4. \A x \in Sources : Same(x)
  BY <1>1, QueuedSame DEF Same, Own, Carried, InTree
<1>5. RefsOK'
  BY <1>4, Unpack, SameOK DEF RefsOK
<1>6. TimersOK' /\ TreeOK' /\ ThreadsOK'
  BY <1>1, <1>2, Unpack, TimersAssumption DEF TimersOK, TreeOK, ThreadsOK
<1>7. WakeOK'
  <2>1. CASE Check
    BY <2>1, Unpack DEF Check, Blocking, FireReturns, WakeOK, queueVars, treeVars
  <2>2. CASE CompareAndSwap
    BY <2>2, Unpack DEF CompareAndSwap, FireReturns, WakeOK, treeVars, TypeOK
  <2>3. CASE FutexWake
    BY <2>3, Unpack DEF FutexWake, FireReturns, WakeOK, treeVars
  <2> QED BY <2>1, <2>2, <2>3
<1> QED BY <1>3, <1>5, <1>6, <1>7 DEF IInv

-----------------------------------------------------------------------------
(* References that are given back. *)

\* The source has at least one reference, which is given back.
LEMMA Released ==
  ASSUME IInv, NEW who \in SUBSET Sources, Unreference(who),
         \A x \in who : mRefCount[x] > 0
  PROVE  /\ mRefCount' \in [Sources -> Nat] /\ freed' \subseteq Sources
         /\ \A x \in Sources :
              /\ mRefCount'[x] = IF x \in who THEN mRefCount[x] - 1 ELSE mRefCount[x]
              /\ x \in freed' <=> x \in freed \/ (x \in who /\ mRefCount[x] = 1)
<1>1. mRefCount \in [Sources -> Nat] /\ freed \subseteq Sources
  BY Unpack DEF TypeOK
<1>2. mRefCount' = [x \in Sources |-> IF x \in who THEN mRefCount[x] - 1 ELSE mRefCount[x]]
      /\ freed' = freed \cup {x \in who : mRefCount[x] = 1}
  BY DEF Unreference
<1> QED BY <1>1, <1>2

LEMMA ReleaseInv == ASSUME IInv, NEW x \in Timers, Release(x) PROVE IInv'
<1>1. /\ life[x] = "releasing" /\ Unreference({x})
      /\ life' = [life EXCEPT ![x] = "destroyed"]
      /\ x \in Sources
      /\ UNCHANGED <<box, mWaiting, dpc, current, mExited, mDestroyed, onQueue,
                     pending, running, epc, mHiResTimers, left, dropped>>
  BY Unpack DEF Release, queueVars, eventVars, treeVars
<1>2. /\ RefOK(x) /\ Own(x) /\ Queued(x) \in Nat /\ mRefCount[x] \in Nat
      /\ life \in [Sources -> {"none", "created", "deleting", "releasing", "destroyed"}]
  BY <1>1, Unpack DEF RefsOK, Own, TypeOK
<1>3. mRefCount[x] > 0
  BY <1>2 DEF RefOK, One
<1>4. /\ mRefCount' \in [Sources -> Nat] /\ freed' \subseteq Sources
      /\ \A y \in Sources :
           /\ mRefCount'[y] = IF y = x THEN mRefCount[y] - 1 ELSE mRefCount[y]
           /\ y \in freed' <=> y \in freed \/ (y = x /\ mRefCount[y] = 1)
  BY <1>1, <1>3, Released
<1>5. TypeOK'
  BY <1>1, <1>2, <1>4, Unpack DEF TypeOK
<1>6. ASSUME NEW y \in Sources PROVE RefOK(y)'
  <2>1. CASE y # x
    <3>1. Same(y)
      BY <2>1, <1>1, <1>2, <1>4, QueuedSame DEF Same, Own, Carried, InTree
    <3> QED BY <3>1, Unpack, SameOK DEF RefsOK
  <2>2. CASE y = x
    <3>1. ~Own(x)' /\ (Carried(x)' <=> Carried(x)) /\ Queued(x)' = Queued(x)
          /\ mRefCount'[x] = mRefCount[x] - 1 /\ current' = current
          /\ (x \in freed' <=> x \in freed \/ mRefCount[x] = 1)
          /\ life'[x] = "destroyed"
      BY <1>1, <1>2, <1>4, QueuedSame DEF Own, Carried, InTree
    <3> QED BY <2>2, <3>1, <1>1, <1>2, <1>3 DEF RefOK, One
  <2> QED BY <2>1, <2>2
<1>7. TimersOK'
  BY <1>1, <1>2, Unpack DEF TimersOK
<1>8. TreeOK' /\ ThreadsOK' /\ WakeOK'
  BY <1>1, Unpack DEF TreeOK, ThreadsOK, WakeOK
<1> QED BY <1>5, <1>6, <1>7, <1>8 DEF IInv, RefsOK

LEMMA DropInv == ASSUME IInv, Drop PROVE IInv'
<1> DEFINE x == current
<1>1. /\ dpc = "drop" /\ dpc' = "timers" /\ current' = NULL /\ Unreference({x})
      /\ x \in Sources
      /\ UNCHANGED <<box, mWaiting, mExited, life, mDestroyed, onQueue,
                     pending, running, epc, mHiResTimers, left, dropped>>
  BY Unpack DEF Drop, ThreadsOK, TypeOK, eventVars, treeVars
<1>2. RefOK(x) /\ Queued(x) \in Nat /\ mRefCount[x] \in Nat
  BY <1>1, Unpack DEF RefsOK
<1>3. mRefCount[x] > 0
  BY <1>2 DEF RefOK, One
<1>4. /\ mRefCount' \in [Sources -> Nat] /\ freed' \subseteq Sources
      /\ \A y \in Sources :
           /\ mRefCount'[y] = IF y = x THEN mRefCount[y] - 1 ELSE mRefCount[y]
           /\ y \in freed' <=> y \in freed \/ (y = x /\ mRefCount[y] = 1)
  BY <1>1, <1>3, Released
<1>5. TypeOK'
  BY <1>1, <1>4, Unpack DEF TypeOK
<1>6. ASSUME NEW y \in Sources PROVE RefOK(y)'
  <2>1. (Own(y)' <=> Own(y)) /\ (Carried(y)' <=> Carried(y)) /\ Queued(y)' = Queued(y)
    BY <1>1, QueuedSame DEF Own, Carried, InTree
  <2>2. RefOK(y) /\ Queued(y) \in Nat /\ mRefCount[y] \in Nat /\ current' # y
    BY <1>1, Unpack DEF RefsOK
  <2>3. /\ mRefCount'[y] = IF y = current THEN mRefCount[y] - 1 ELSE mRefCount[y]
        /\ y \in freed' <=> y \in freed \/ (y = current /\ mRefCount[y] = 1)
        /\ life' = life
    BY <1>1, <1>4
  <2>4. y = current => mRefCount[y] > 0
    BY <1>3
  <2> QED BY <2>1, <2>2, <2>3, <2>4 DEF RefOK, One
<1>7. TimersOK' /\ TreeOK' /\ ThreadsOK' /\ WakeOK'
  BY <1>1, Unpack DEF TimersOK, TreeOK, ThreadsOK, WakeOK
<1> QED BY <1>5, <1>6, <1>7 DEF IInv, RefsOK

LEMMA DispatchReturnsInv == ASSUME IInv, DispatchReturns PROVE IInv'
<1>1. /\ dpc = "taken" /\ dpc' = "done" /\ current = Marker /\ current' = NULL
      /\ UNCHANGED <<box, mWaiting, mExited, life, mDestroyed, mRefCount, freed, onQueue,
                     pending, running, epc, mHiResTimers, left, dropped>>
  BY DEF DispatchReturns, ownerVars, eventVars, treeVars
<1>2. TypeOK'
  BY <1>1, Unpack DEF TypeOK
<1>3. \A x \in Sources : Same(x)
  BY <1>1, Unpack, QueuedSame DEF Same, Own, Carried, InTree
<1>4. RefsOK'
  BY <1>3, Unpack, SameOK DEF RefsOK
<1>5. TimersOK' /\ TreeOK' /\ ThreadsOK' /\ WakeOK'
  BY <1>1, Unpack DEF TimersOK, TreeOK, ThreadsOK, WakeOK
<1> QED BY <1>2, <1>4, <1>5 DEF IInv

-----------------------------------------------------------------------------
(* The owner of a timer or event. *)

LEMMA CreateInv == ASSUME IInv, NEW x \in Timers, Create(x) PROVE IInv'
<1>1. /\ life[x] = "none" /\ x \in Sources
      /\ life' = [life EXCEPT ![x] = "created"]
      /\ mRefCount' = [mRefCount EXCEPT ![x] = 1]
      /\ pending' \subseteq pending \cup {x}
      /\ UNCHANGED <<box, mWaiting, dpc, current, mExited, mDestroyed, freed, onQueue,
                     running, epc, mHiResTimers, left, dropped>>
  BY Unpack DEF Create, queueVars, treeVars
<1>2. TypeOK'
  BY <1>1, Unpack DEF TypeOK
<1>3. life \in [Sources -> {"none", "created", "deleting", "releasing", "destroyed"}]
  BY Unpack DEF TypeOK
<1>4. ASSUME NEW y \in Sources PROVE RefOK(y)'
  <2>1. CASE y # x
    <3>1. Same(y)
      BY <2>1, <1>1, <1>3, Unpack, QueuedSame DEF Same, Own, Carried, InTree
    <3> QED BY <3>1, Unpack, SameOK DEF RefsOK
  <2>2. CASE y = x
    <3>1. RefOK(x) /\ mRefCount[x] = 0 /\ Queued(x) \in Nat
      BY <1>1, Unpack DEF RefsOK, RefOK
    <3>2. Own(x)' /\ (Carried(x)' <=> Carried(x)) /\ Queued(x)' = Queued(x)
          /\ mRefCount'[x] = 1 /\ life'[x] = "created"
      BY <1>1, <1>3, Unpack, QueuedSame DEF Own, Carried, InTree
    <3> QED BY <2>2, <3>1, <3>2, <1>1 DEF RefOK, One
  <2> QED BY <2>1, <2>2
<1>5. TimersOK'
  BY <1>1, <1>3, Unpack DEF TimersOK
<1>6. TreeOK' /\ ThreadsOK' /\ WakeOK'
  BY <1>1, Unpack DEF TreeOK, ThreadsOK, WakeOK
<1> QED BY <1>2, <1>4, <1>5, <1>6 DEF IInv, RefsOK

LEMMA EnableInv == ASSUME IInv, NEW x \in Timers, Enable(x) PROVE IInv'
<1>1. /\ life[x] = "created" /\ pending' = pending \cup {x}
      /\ UNCHANGED <<box, mWaiting, dpc, current, mExited, life, mDestroyed, mRefCount, freed,
                     onQueue, running, epc, mHiResTimers, left, dropped>>
  BY DEF Enable, queueVars, ownerVars, treeVars
<1>2. TypeOK'
  BY <1>1, Unpack DEF TypeOK
<1>3. \A y \in Sources : Same(y)
  BY <1>1, QueuedSame DEF Same, Own, Carried, InTree
<1>4. RefsOK'
  BY <1>3, Unpack, SameOK DEF RefsOK
<1>5. TimersOK' /\ TreeOK' /\ ThreadsOK' /\ WakeOK'
  BY <1>1, Unpack DEF TimersOK, TreeOK, ThreadsOK, WakeOK
<1> QED BY <1>2, <1>4, <1>5 DEF IInv

LEMMA DestroyInv == ASSUME IInv, NEW x \in Timers, Destroy(x) PROVE IInv'
<1>1. /\ life[x] = "created" /\ x \in Sources
      /\ life' = [life EXCEPT ![x] = "deleting"]
      /\ mDestroyed' = mDestroyed \cup {x}
      /\ \/ onQueue' = onQueue
         \/ dpc \in {"idle", "callback"} /\ onQueue' = onQueue \cup {x}
      /\ UNCHANGED <<box, mWaiting, dpc, current, mExited, mRefCount, freed,
                     pending, running, epc, mHiResTimers, left, dropped>>
  BY Unpack DEF Destroy, InApplication, queueVars, eventVars, treeVars
<1>2. life \in [Sources -> {"none", "created", "deleting", "releasing", "destroyed"}]
  BY Unpack DEF TypeOK
<1>3. TypeOK'
  BY <1>1, Unpack DEF TypeOK
<1>4. \A y \in Sources : Same(y)
  BY <1>1, <1>2, QueuedSame DEF Same, Own, Carried, InTree
<1>5. RefsOK'
  BY <1>4, Unpack, SameOK DEF RefsOK
<1>6. TimersOK' /\ TreeOK' /\ ThreadsOK' /\ WakeOK'
  BY <1>1, <1>2, Unpack DEF TimersOK, TreeOK, ThreadsOK, WakeOK
<1> QED BY <1>3, <1>5, <1>6 DEF IInv

\* event_del waits for the callback: afterwards the event thread has nothing to do
\* with the timer.
LEMMA DeleteInv == ASSUME IInv, NEW x \in Timers, Delete(x) PROVE IInv'
<1>1. /\ life[x] = "deleting" /\ x \in Sources /\ running # x
      /\ life' = [life EXCEPT ![x] = "releasing"]
      /\ pending' = pending \ {x}
      /\ UNCHANGED <<box, mWaiting, dpc, current, mExited, mDestroyed, mRefCount, freed,
                     onQueue, running, epc, mHiResTimers, left, dropped>>
  BY Unpack DEF Delete, NotRunning, queueVars, treeVars
<1>2. life \in [Sources -> {"none", "created", "deleting", "releasing", "destroyed"}]
  BY Unpack DEF TypeOK
<1>3. TypeOK'
  BY <1>1, Unpack DEF TypeOK
<1>4. \A y \in Sources : Same(y)
  BY <1>1, <1>2, QueuedSame DEF Same, Own, Carried, InTree
<1>5. RefsOK'
  BY <1>4, Unpack, SameOK DEF RefsOK
<1>6. TimersOK'
  BY <1>1, <1>2, Unpack DEF TimersOK
<1>7. TreeOK' /\ ThreadsOK' /\ WakeOK'
  BY <1>1, Unpack DEF TreeOK, ThreadsOK, WakeOK
<1> QED BY <1>3, <1>5, <1>6, <1>7 DEF IInv

-----------------------------------------------------------------------------
(* The tree of high-resolution timers. *)

Members(tree) == {tree[k] : k \in 1..Len(tree)}

Distinct(tree) == \A k, l \in 1..Len(tree) : tree[k] = tree[l] => k = l

\* One timer more, at any place.
LEMMA InsertAnywhere ==
  ASSUME NEW tree \in Seq(HiRes), NEW h \in HiRes \ Members(tree), Distinct(tree),
         NEW k \in 0..Len(tree)
  PROVE  LET t == SubSeq(tree, 1, k) \o <<h>> \o SubSeq(tree, k + 1, Len(tree))
         IN t \in Seq(HiRes) /\ Distinct(t) /\ Members(t) = Members(tree) \cup {h}
<1> DEFINE n == Len(tree)
<1> DEFINE a == SubSeq(tree, 1, k)
<1> DEFINE b == SubSeq(tree, k + 1, n)
<1> DEFINE t == a \o <<h>> \o b
<1>1. n \in Nat /\ k \in Int /\ \A i \in 1..n : tree[i] \in HiRes
  OBVIOUS
<1>2. /\ a \in Seq(HiRes) /\ Len(a) = k /\ \A i \in 1..k : a[i] = tree[i]
      /\ b \in Seq(HiRes) /\ Len(b) = n - k /\ \A i \in 1..(n - k) : b[i] = tree[k + i]
  OBVIOUS
<1> HIDE DEF a, b, n
<1>3. /\ t \in Seq(HiRes) /\ Len(t) = n + 1
      /\ \A i \in 1..(n + 1) : t[i] = IF i <= k THEN tree[i]
                                      ELSE IF i = k + 1 THEN h ELSE tree[i - 1]
  <2> DEFINE c == a \o <<h>>
  <2>1. /\ c \in Seq(HiRes) /\ Len(c) = k + 1
        /\ \A i \in 1..(k + 1) : c[i] = IF i <= k THEN tree[i] ELSE h
    BY <1>1, <1>2
  <2> HIDE DEF c
  <2>2. /\ c \o b \in Seq(HiRes) /\ Len(c \o b) = n + 1
        /\ \A i \in 1..(n + 1) : (c \o b)[i] = IF i <= k + 1 THEN c[i] ELSE b[i - (k + 1)]
    BY <1>1, <1>2, <2>1
  <2>3. \A i \in 1..(n + 1) : (c \o b)[i] = IF i <= k THEN tree[i]
                                            ELSE IF i = k + 1 THEN h ELSE tree[i - 1]
    BY <1>1, <1>2, <2>1, <2>2
  <2> QED BY <2>2, <2>3 DEF c
<1> HIDE DEF t
<1>4. k \in 0..n /\ \A i \in 1..n : tree[i] # h
  BY DEF n, Members
<1>5. Distinct(t)
  <2> SUFFICES ASSUME NEW i \in 1..(n + 1), NEW j \in 1..(n + 1), t[i] = t[j] PROVE i = j
    BY <1>3 DEF Distinct
  <2>1. \A l, m \in 1..n : tree[l] = tree[m] => l = m
    BY DEF Distinct, n
  <2> DEFINE from(m) == IF m <= k THEN m ELSE m - 1
  <2>2. ASSUME NEW m \in 1..(n + 1), m # k + 1
        PROVE  from(m) \in 1..n /\ t[m] = tree[from(m)] /\ t[m] # h
    BY <2>2, <1>1, <1>3, <1>4
  <2>3. t[k + 1] = h
    BY <1>1, <1>3, <1>4
  <2>4. CASE i = k + 1 \/ j = k + 1
    BY <2>2, <2>3, <2>4
  <2>5. CASE i # k + 1 /\ j # k + 1
    <3>1. from(i) = from(j)
      BY <2>1, <2>2, <2>5
    <3> QED BY <3>1, <2>5, <1>1, <1>4
  <2> QED BY <2>4, <2>5
<1>6. Members(t) = Members(tree) \cup {h}
  <2>1. ASSUME NEW i \in 1..(n + 1) PROVE t[i] \in Members(tree) \cup {h}
    BY <1>1, <1>3, <1>4 DEF Members, n
  <2>2. ASSUME NEW i \in 1..n PROVE tree[i] \in Members(t)
    <3>1. tree[i] = t[i] \/ tree[i] = t[i + 1]
      BY <1>1, <1>3, <1>4
    <3> QED BY <3>1, <1>1, <1>3 DEF Members
  <2>3. h \in Members(t)
    <3>1. k + 1 \in 1..Len(t) /\ t[k + 1] = h
      BY <1>1, <1>3, <1>4
    <3> QED BY <3>1 DEF Members
  <2> QED BY <2>1, <2>2, <2>3, <1>3 DEF Members, n
<1> QED BY <1>3, <1>5, <1>6 DEF t, a, b, n

\* A timer is armed: it is in the tree or dropped, and the others are where they
\* were.
LEMMA ArmTree ==
  ASSUME IInv, NEW tree \in Seq(HiRes), Distinct(tree), Members(tree) \cap dropped = {},
         NEW h \in HiRes, h \notin Members(tree), h \notin dropped, Arm(h, tree)
  PROVE  /\ mHiResTimers' \in Seq(HiRes) /\ left' \in [HiRes -> Nat] /\ dropped' \subseteq HiRes
         /\ TreeOK'
         /\ \A g : InTree(g)' \/ g \in dropped' <=> g \in Members(tree) \/ g \in dropped \/ g = h
<1>1. left \in [HiRes -> Nat] /\ dropped \subseteq HiRes /\ Ticks[h] \in Nat
  BY Unpack, TimersAssumption DEF TypeOK
<1>2. left' = [left EXCEPT ![h] = Ticks[h]]
  BY DEF Arm
<1>3. \A g : InTree(g)' <=> g \in Members(mHiResTimers')
  BY DEF InTree, Members
<1>4. CASE mHiResTimers' = tree /\ dropped' = dropped \cup {h}
  <2>1. TreeOK'
    BY <1>4 DEF TreeOK, Distinct, Members
  <2> QED BY <1>1, <1>2, <1>3, <1>4, <2>1
<1>5. CASE mHiResTimers' = Insert(tree, left, h) /\ dropped' = dropped
  <2> DEFINE S == {i \in 1..Len(tree) : left[tree[i]] <= Ticks[h]}
  <2>1. Cardinality(S) \in 0..Len(tree)
    <3>1. Len(tree) \in Nat /\ 1 \in Int /\ Len(tree) \in Int
      OBVIOUS
    <3>2. IsFiniteSet(1..Len(tree)) /\ Cardinality(1..Len(tree)) = Len(tree)
      BY <3>1, FS_Interval
    <3>3. S \subseteq 1..Len(tree)
      OBVIOUS
    <3> HIDE DEF S
    <3>4. /\ Cardinality(S) \in Nat /\ Cardinality(S) <= Cardinality(1..Len(tree))
      BY <3>2, <3>3, FS_Subset, FS_CardinalityType
    <3> QED BY <3>1, <3>2, <3>4
  <2>2. mHiResTimers' = SubSeq(tree, 1, Cardinality(S)) \o <<h>>
                          \o SubSeq(tree, Cardinality(S) + 1, Len(tree))
    BY <1>5 DEF Insert
  <2> HIDE DEF S
  <2>3. /\ mHiResTimers' \in Seq(HiRes) /\ Distinct(mHiResTimers')
        /\ Members(mHiResTimers') = Members(tree) \cup {h}
    BY <2>1, <2>2, InsertAnywhere
  <2>4. TreeOK'
    <3>1. \A k \in 1..Len(mHiResTimers') : mHiResTimers'[k] \in Members(tree) \cup {h}
      BY <2>3 DEF Members
    <3>2. \A k \in 1..Len(mHiResTimers') : mHiResTimers'[k] \notin dropped'
      BY <3>1, <1>5
    <3> QED BY <2>3, <3>2 DEF TreeOK, Distinct
  <2> QED BY <1>1, <1>2, <1>3, <1>5, <2>3, <2>4
<1> QED BY <1>4, <1>5 DEF Arm

\* The tree without its first timer.
LEMMA TailTree ==
  ASSUME IInv, mHiResTimers # << >>
  PROVE  LET h == Head(mHiResTimers)
             tree == Tail(mHiResTimers)
         IN /\ h \in HiRes /\ InTree(h) /\ h \notin dropped
            /\ tree \in Seq(HiRes) /\ Distinct(tree) /\ Members(tree) \cap dropped = {}
            /\ h \notin Members(tree)
            /\ \A g : InTree(g) <=> g \in Members(tree) \/ g = h
<1> DEFINE h == Head(mHiResTimers)
<1> DEFINE tree == Tail(mHiResTimers)
<1>1. mHiResTimers \in Seq(HiRes)
  BY Unpack DEF TypeOK
<1>2. /\ Len(mHiResTimers) \in Nat /\ Len(mHiResTimers) > 0 /\ h = mHiResTimers[1] /\ h \in HiRes
      /\ tree \in Seq(HiRes) /\ Len(tree) = Len(mHiResTimers) - 1
      /\ \A k \in 1..Len(tree) : tree[k] = mHiResTimers[k + 1]
  BY <1>1
<1> HIDE DEF h, tree
<1>3. /\ \A k, l \in 1..Len(mHiResTimers) : mHiResTimers[k] = mHiResTimers[l] => k = l
      /\ \A k \in 1..Len(mHiResTimers) : mHiResTimers[k] \notin dropped
  BY Unpack DEF TreeOK
<1>4. Distinct(tree)
  BY <1>2, <1>3 DEF Distinct
<1>5. Members(tree) \cap dropped = {} /\ h \notin Members(tree)
  BY <1>2, <1>3 DEF Members
<1>6. InTree(h) /\ h \notin dropped
  BY <1>2, <1>3 DEF InTree
<1>7. ASSUME NEW g, InTree(g), g # h PROVE g \in Members(tree)
  <2>1. PICK k \in 1..Len(mHiResTimers) : mHiResTimers[k] = g
    BY <1>7 DEF InTree
  <2>2. k - 1 \in 1..Len(tree) /\ tree[k - 1] = g
    BY <2>1, <1>2, <1>7
  <2> QED BY <2>2 DEF Members
<1>8. ASSUME NEW g \in Members(tree) PROVE InTree(g)
  <2>1. PICK k \in 1..Len(tree) : tree[k] = g
    BY DEF Members
  <2>2. k + 1 \in 1..Len(mHiResTimers) /\ mHiResTimers[k + 1] = g
    BY <2>1, <1>2
  <2> QED BY <2>2 DEF InTree
<1> QED BY <1>2, <1>4, <1>5, <1>6, <1>7, <1>8 DEF h, tree

LEMMA HiResCreateInv == ASSUME IInv, NEW h \in HiRes, HiResCreate(h) PROVE IInv'
<1>1. /\ life[h] = "none" /\ dpc \in {"idle", "callback"}
      /\ life' = [life EXCEPT ![h] = "created"]
      /\ mRefCount' = [mRefCount EXCEPT ![h] = 1]
      /\ Arm(h, mHiResTimers)
      /\ UNCHANGED <<box, mWaiting, dpc, current, mExited, mDestroyed, freed, onQueue,
                     pending, running, epc>>
  BY DEF HiResCreate, InApplication, queueVars, eventVars
<1>2. /\ life \in [Sources -> {"none", "created", "deleting", "releasing", "destroyed"}]
      /\ mHiResTimers \in Seq(HiRes) /\ h \in Sources /\ h \notin Timers
  BY Unpack DEF TypeOK
<1>3. RefOK(h) /\ mRefCount[h] = 0 /\ Queued(h) \in Nat
  BY <1>1, <1>2, Unpack DEF RefsOK, RefOK
<1>4. ~Own(h)
  BY <1>3 DEF RefOK, One
<1>5. \A g : InTree(g) <=> g \in Members(mHiResTimers)
  BY DEF InTree, Members
<1>6. Distinct(mHiResTimers) /\ Members(mHiResTimers) \cap dropped = {}
  BY Unpack DEF TreeOK, Distinct, Members
<1>7. h \notin Members(mHiResTimers) /\ h \notin dropped
  BY <1>2, <1>4, <1>5 DEF Own
<1>8. /\ mHiResTimers' \in Seq(HiRes) /\ left' \in [HiRes -> Nat] /\ dropped' \subseteq HiRes
      /\ TreeOK'
      /\ \A g : InTree(g)' \/ g \in dropped'
                  <=> g \in Members(mHiResTimers) \/ g \in dropped \/ g = h
  BY <1>1, <1>2, <1>6, <1>7, ArmTree
<1>9. TypeOK'
  BY <1>1, <1>8, Unpack DEF TypeOK
<1>10. ASSUME NEW y \in Sources PROVE RefOK(y)'
  <2>1. CASE y # h
    <3>1. Own(y)' <=> Own(y)
      BY <2>1, <1>1, <1>2, <1>5, <1>8 DEF Own
    <3>2. Same(y)
      BY <3>1, <2>1, <1>1, <1>2, Unpack, QueuedSame DEF Same, Carried
    <3> QED BY <3>2, Unpack, SameOK DEF RefsOK
  <2>2. CASE y = h
    <3>1. Own(h)' /\ (Carried(h)' <=> Carried(h)) /\ Queued(h)' = Queued(h)
          /\ mRefCount'[h] = 1 /\ life'[h] = "created"
      BY <1>1, <1>2, <1>8, Unpack, QueuedSame DEF Own, Carried
    <3> QED BY <2>2, <3>1, <1>1, <1>3, <1>4 DEF RefOK, One
  <2> QED BY <2>1, <2>2
<1>11. TimersOK' /\ ThreadsOK'
  BY <1>1, <1>2, Unpack DEF TimersOK, ThreadsOK
<1>12. WakeOK'
  BY <1>1, Unpack DEF WakeOK
<1> QED BY <1>8, <1>9, <1>10, <1>11, <1>12 DEF IInv, RefsOK

LEMMA HiResDestroyInv == ASSUME IInv, NEW h \in HiRes, HiResDestroy(h) PROVE IInv'
<1>1. /\ life[h] = "created" /\ dpc \in {"idle", "callback"}
      /\ life' = [life EXCEPT ![h] = "destroyed"]
      /\ mDestroyed' = mDestroyed \cup {h} /\ onQueue' = onQueue \cup {h}
      /\ UNCHANGED <<box, mWaiting, dpc, current, mExited, mRefCount, freed,
                     pending, running, epc, mHiResTimers, left, dropped>>
  BY DEF HiResDestroy, InApplication, queueVars, eventVars, treeVars
<1>2. /\ life \in [Sources -> {"none", "created", "deleting", "releasing", "destroyed"}]
      /\ h \in Sources /\ h \notin Timers
  BY Unpack DEF TypeOK
<1>3. TypeOK'
  BY <1>1, <1>2, Unpack DEF TypeOK
<1>4. \A y \in Sources : Same(y)
  BY <1>1, <1>2, QueuedSame DEF Same, Own, Carried, InTree
<1>5. RefsOK'
  BY <1>4, Unpack, SameOK DEF RefsOK
<1>6. TimersOK' /\ TreeOK' /\ ThreadsOK' /\ WakeOK'
  BY <1>1, <1>2, Unpack DEF TimersOK, TreeOK, ThreadsOK, WakeOK
<1> QED BY <1>3, <1>5, <1>6 DEF IInv

LEMMA TickInv == ASSUME IInv, Tick PROVE IInv'
<1>1. /\ left' = [h \in HiRes |-> IF left[h] = 0 THEN 0 ELSE left[h] - 1]
      /\ UNCHANGED <<box, mWaiting, dpc, current, mExited, life, mDestroyed, mRefCount, freed,
                     onQueue, pending, running, epc, mHiResTimers, dropped>>
  BY DEF Tick, queueVars, ownerVars, eventVars
<1>2. left' \in [HiRes -> Nat]
  <2>1. left \in [HiRes -> Nat]
    BY Unpack DEF TypeOK
  <2> QED BY <1>1, <2>1
<1>3. TypeOK'
  BY <1>1, <1>2, Unpack DEF TypeOK
<1>4. \A y \in Sources : Same(y)
  BY <1>1, QueuedSame DEF Same, Own, Carried, InTree
<1>5. RefsOK'
  BY <1>4, Unpack, SameOK DEF RefsOK
<1>6. TimersOK' /\ TreeOK' /\ ThreadsOK' /\ WakeOK'
  BY <1>1, Unpack DEF TimersOK, TreeOK, ThreadsOK, WakeOK
<1> QED BY <1>3, <1>5, <1>6 DEF IInv

\* The timer that is due has one reference more, for its queued callback, and
\* keeps that of the tree, whether RB_INSERT puts it back or loses it.
LEMMA HiResFireInv == ASSUME IInv, HiResFire PROVE IInv'
<1> DEFINE h == Head(mHiResTimers)
<1> DEFINE tree == Tail(mHiResTimers)
<1>1. /\ dpc = "timers" /\ mHiResTimers # << >> /\ h \notin mDestroyed
      /\ mRefCount' = [mRefCount EXCEPT ![h] = @ + 1]
      /\ box' = Append(box, <<h, TRUE>>)
      /\ Arm(h, tree)
      /\ UNCHANGED <<mWaiting, dpc, current, mExited, life, mDestroyed, freed, onQueue,
                     pending, running, epc>>
  BY DEF HiResFire, Due, Blocking, AddReference, eventVars
<1>2. /\ h \in HiRes /\ InTree(h) /\ h \notin dropped
      /\ tree \in Seq(HiRes) /\ Distinct(tree) /\ Members(tree) \cap dropped = {}
      /\ h \notin Members(tree)
      /\ \A g : InTree(g) <=> g \in Members(tree) \/ g = h
  BY <1>1, TailTree
<1> HIDE DEF tree
<1>3. /\ mHiResTimers' \in Seq(HiRes) /\ left' \in [HiRes -> Nat] /\ dropped' \subseteq HiRes
      /\ TreeOK'
      /\ \A g : InTree(g)' \/ g \in dropped' <=> g \in Members(tree) \/ g \in dropped \/ g = h
  BY <1>1, <1>2, ArmTree
<1>4. PICK c : c = h
  OBVIOUS
<1>5. c \in HiRes /\ c \in Sources /\ c \notin Timers
  BY <1>2, <1>4, Unpack
<1>6. \A y : (InTree(y)' \/ y \in dropped') <=> (InTree(y) \/ y \in dropped)
  BY <1>2, <1>3
<1>7. InTree(c) /\ mRefCount' = [mRefCount EXCEPT ![c] = @ + 1] /\ box' = Append(box, <<c, TRUE>>)
  BY <1>1, <1>2, <1>4
<1> HIDE DEF h
<1>8. /\ box' \in Seq(Items)
      /\ \A x : Queued(x)' = Queued(x) + IF c = x THEN 1 ELSE 0
  <2> DEFINE i == <<c, TRUE>>
  <2>1. i \in Items /\ i[1] = c
    BY <1>5 DEF Items
  <2> HIDE DEF i
  <2>2. box' = Append(box, i)
    BY <1>7 DEF i
  <2> QED BY <2>1, <2>2, Unpack, QueuedAppend
<1>9. TypeOK'
  <2>1. mRefCount' \in [Sources -> Nat]
    BY <1>5, <1>7, Unpack
  <2>2. /\ box' \in Seq((Sources \cup {Marker}) \X BOOLEAN)
        /\ mHiResTimers' \in Seq(HiRes) /\ left' \in [HiRes -> Nat] /\ dropped' \subseteq HiRes
    BY <1>3, <1>8 DEF Items
  <2>3. UNCHANGED <<mWaiting, dpc, current, mExited, life, mDestroyed, freed, onQueue,
                    pending, running, epc>>
    BY <1>1
  <2> QED BY <2>1, <2>2, <2>3, Unpack DEF TypeOK
<1>10. ASSUME NEW y \in Sources PROVE RefOK(y)'
  <2>1. (Own(y)' <=> Own(y)) /\ (Carried(y)' <=> Carried(y))
    BY <1>1, <1>6 DEF Own, Carried
  <2>2. Queued(y)' = Queued(y) + IF c = y THEN 1 ELSE 0
    BY <1>8
  <2>3. mRefCount'[y] = mRefCount[y] + IF c = y THEN 1 ELSE 0
    BY <1>7, <1>5, Unpack
  <2>4. RefOK(y) /\ Queued(y) \in Nat /\ mRefCount[y] \in Nat
    BY Unpack DEF RefsOK
  <2>5. c = y => Own(y)
    BY <1>5, <1>7 DEF Own
  <2> QED BY <2>1, <2>2, <2>3, <2>4, <2>5, <1>1 DEF RefOK, One
<1>11. TimersOK' /\ ThreadsOK'
  BY <1>1, Unpack DEF TimersOK, ThreadsOK
<1>12. WakeOK'
  <2>1. \A k \in 1..Len(box') : box'[k][2] \/ epc' = "link"
    BY <1>1, <1>7, Unpack DEF WakeOK
  <2> QED BY <1>1, <2>1, Unpack DEF WakeOK
<1> QED BY <1>3, <1>9, <1>10, <1>11, <1>12 DEF IInv, RefsOK

LEMMA HiResRemoveInv == ASSUME IInv, HiResRemove PROVE IInv'
<1> DEFINE h == Head(mHiResTimers)
<1>1. /\ dpc = "timers" /\ mHiResTimers # << >> /\ Unreference({h})
      /\ mHiResTimers' = Tail(mHiResTimers)
      /\ UNCHANGED <<box, mWaiting, dpc, current, mExited, life, mDestroyed, onQueue,
                     pending, running, epc, left, dropped>>
  BY DEF HiResRemove, Due, Blocking, LeaveTree, queueVars, eventVars
<1>2. /\ h \in HiRes /\ InTree(h) /\ h \notin dropped
      /\ mHiResTimers' \in Seq(HiRes) /\ Distinct(mHiResTimers')
      /\ Members(mHiResTimers') \cap dropped = {}
      /\ h \notin Members(mHiResTimers')
      /\ \A g : InTree(g) <=> g \in Members(mHiResTimers') \/ g = h
  BY <1>1, TailTree
<1>3. PICK c : c = h
  OBVIOUS
<1>4. /\ c \in HiRes /\ c \in Sources /\ c \notin Timers
      /\ InTree(c) /\ c \notin dropped /\ c \notin Members(mHiResTimers')
      /\ Unreference({c})
      /\ \A g : InTree(g) <=> g \in Members(mHiResTimers') \/ g = c
  BY <1>1, <1>2, <1>3, Unpack
<1> HIDE DEF h
<1>5. \A g : InTree(g)' <=> g \in Members(mHiResTimers')
  BY DEF InTree, Members
<1>6. RefOK(c) /\ Own(c) /\ Queued(c) \in Nat /\ mRefCount[c] \in Nat
  BY <1>4, Unpack DEF RefsOK, Own
<1>7. mRefCount[c] > 0
  BY <1>6 DEF RefOK, One
<1>8. /\ mRefCount' \in [Sources -> Nat] /\ freed' \subseteq Sources
      /\ \A y \in Sources :
           /\ mRefCount'[y] = IF y = c THEN mRefCount[y] - 1 ELSE mRefCount[y]
           /\ y \in freed' <=> y \in freed \/ (y = c /\ mRefCount[y] = 1)
  BY <1>4, <1>7, Released
<1>9. TypeOK'
  BY <1>1, <1>2, <1>8, Unpack DEF TypeOK
<1>10. ASSUME NEW y \in Sources PROVE RefOK(y)'
  <2>1. CASE y # c
    <3>1. Own(y)' <=> Own(y)
      BY <2>1, <1>1, <1>4, <1>5 DEF Own
    <3>2. Same(y)
      BY <3>1, <2>1, <1>1, <1>8, QueuedSame DEF Same, Carried
    <3> QED BY <3>2, Unpack, SameOK DEF RefsOK
  <2>2. CASE y = c
    <3>1. ~Own(c)' /\ (Carried(c)' <=> Carried(c)) /\ Queued(c)' = Queued(c)
          /\ mRefCount'[c] = mRefCount[c] - 1 /\ current' = current /\ life' = life
          /\ (c \in freed' <=> c \in freed \/ mRefCount[c] = 1)
      BY <1>1, <1>4, <1>5, <1>8, QueuedSame DEF Own, Carried
    <3> QED BY <2>2, <3>1, <1>6, <1>7 DEF RefOK, One
  <2> QED BY <2>1, <2>2
<1>11. TreeOK'
  <2>1. \A k \in 1..Len(mHiResTimers') : mHiResTimers'[k] \in Members(mHiResTimers')
    BY DEF Members
  <2>2. \A k \in 1..Len(mHiResTimers') : mHiResTimers'[k] \notin dropped'
    BY <2>1, <1>1, <1>2
  <2> QED BY <1>2, <2>2 DEF TreeOK, Distinct
<1>12. TimersOK' /\ ThreadsOK' /\ WakeOK'
  BY <1>1, Unpack DEF TimersOK, ThreadsOK, WakeOK
<1> QED BY <1>9, <1>10, <1>11, <1>12 DEF IInv, RefsOK

LEMMA QueueDestroyInv == ASSUME IInv, QueueDestroy PROVE IInv'
<1>1. PICK who \in SUBSET HiRes : who = {h \in HiRes : InTree(h)}
  OBVIOUS
<1>2. /\ dpc = "callback" /\ box' = Append(box, <<Marker, TRUE>>) /\ mExited' = TRUE
      /\ mHiResTimers' = << >> /\ Unreference(who)
      /\ mDestroyed' = mDestroyed \cup who /\ onQueue' = onQueue \cup who
      /\ life' = [x \in Sources |-> IF x \in who THEN "destroyed" ELSE life[x]]
      /\ UNCHANGED <<mWaiting, dpc, current, pending, running, epc, left, dropped>>
  BY <1>1 DEF QueueDestroy, DestroyTree, eventVars
<1>3. /\ who \subseteq Sources /\ \A h \in who : h \notin Timers /\ InTree(h) /\ h \notin dropped
  BY <1>1, Unpack DEF TreeOK, InTree
<1>4. life \in [Sources -> {"none", "created", "deleting", "releasing", "destroyed"}]
      /\ mDestroyed \subseteq Sources /\ onQueue \subseteq Sources
  BY Unpack DEF TypeOK
<1>5. \A x \in Sources : RefOK(x) /\ Queued(x) \in Nat /\ mRefCount[x] \in Nat
  BY Unpack DEF RefsOK
<1>6. ASSUME NEW x \in who PROVE mRefCount[x] > 0
  BY <1>3, <1>5 DEF RefOK, One, Own
<1>7. /\ mRefCount' \in [Sources -> Nat] /\ freed' \subseteq Sources
      /\ \A y \in Sources :
           /\ mRefCount'[y] = IF y \in who THEN mRefCount[y] - 1 ELSE mRefCount[y]
           /\ y \in freed' <=> y \in freed \/ (y \in who /\ mRefCount[y] = 1)
  BY <1>2, <1>3, <1>6, Released
<1>8. /\ box' \in Seq(Items)
      /\ \A x \in Sources : Queued(x)' = Queued(x)
  <2> DEFINE i == <<Marker, TRUE>>
  <2>1. i \in Items /\ i[1] = Marker
    BY DEF Items
  <2> HIDE DEF i
  <2>2. box' = Append(box, i)
    BY <1>2 DEF i
  <2>3. /\ box' \in Seq(Items) /\ \A x : Queued(x)' = Queued(x) + IF i[1] = x THEN 1 ELSE 0
    BY <2>1, <2>2, Unpack, QueuedAppend
  <2> QED BY <2>1, <2>3, <1>5, TimersAssumption
<1>9. TypeOK'
  <2>1. life' \in [Sources -> {"none", "created", "deleting", "releasing", "destroyed"}]
    BY <1>2, <1>4
  <2>2. mDestroyed' \subseteq Sources /\ onQueue' \subseteq Sources
    BY <1>2, <1>3, <1>4
  <2> QED BY <1>2, <1>7, <1>8, <2>1, <2>2, Unpack DEF TypeOK, Items
<1>10. ASSUME NEW y \in Sources PROVE RefOK(y)'
  <2>1. (Carried(y)' <=> Carried(y)) /\ Queued(y)' = Queued(y) /\ current' = current /\ ~InTree(y)'
    BY <1>2, <1>8 DEF Carried, InTree
  <2>2. CASE y \in who
    <3>1. ~Own(y)' /\ Own(y) /\ life'[y] = "destroyed"
      BY <2>1, <2>2, <1>2, <1>3 DEF Own
    <3> QED BY <2>1, <2>2, <3>1, <1>5, <1>6, <1>7 DEF RefOK, One
  <2>3. CASE y \notin who
    <3>1. y \in Timers \/ ~InTree(y)
      BY <2>3, <1>1 DEF Sources
    <3>2. life'[y] = life[y] /\ (Own(y)' <=> Own(y))
      BY <3>1, <2>1, <2>3, <1>2 DEF Own
    <3> QED BY <2>1, <2>3, <3>2, <1>5, <1>7 DEF RefOK, One
  <2> QED BY <2>2, <2>3
<1>11. TimersOK'
  BY <1>2, <1>3, Unpack DEF TimersOK
<1>12. TreeOK' /\ ThreadsOK'
  BY <1>2, Unpack DEF TreeOK, ThreadsOK
<1>13. WakeOK'
  <2>1. \A k \in 1..Len(box') : box'[k][2] \/ epc' = "link"
    BY <1>2, Unpack DEF WakeOK
  <2> QED BY <1>2, <2>1, Unpack DEF WakeOK
<1> QED BY <1>9, <1>10, <1>11, <1>12, <1>13 DEF IInv, RefsOK

-----------------------------------------------------------------------------
(* The invariant, and what it implies. *)

\* Nothing is created or queued.
LEMMA InitInv == Init => IInv
<1> SUFFICES ASSUME Init PROVE IInv
  OBVIOUS
<1>1. TypeOK
  <2>1. /\ life \in [Sources -> {"none", "created", "deleting", "releasing", "destroyed"}]
        /\ mRefCount \in [Sources -> Nat] /\ left \in [HiRes -> Nat]
    BY DEF Init
  <2>2. box \in Seq((Sources \cup {Marker}) \X BOOLEAN) /\ mHiResTimers \in Seq(HiRes)
    BY DEF Init
  <2>3. /\ mWaiting = 0 /\ dpc = "idle" /\ current = NULL /\ mExited = FALSE
        /\ mDestroyed = {} /\ freed = {} /\ onQueue = {} /\ pending = {}
        /\ running = NULL /\ epc = "loop" /\ dropped = {}
    BY DEF Init
  <2> QED BY <2>1, <2>2, <2>3 DEF TypeOK
<1>2. \A x : Queued(x) = 0
  <2>1. \A x : At(box, x) = {}
    BY DEF Init, At
  <2> QED BY <2>1, FS_EmptySet DEF Queued, At
<1>3. \A x \in Sources : RefOK(x)
  <2> SUFFICES ASSUME NEW x \in Sources PROVE RefOK(x)
    OBVIOUS
  <2>1. mRefCount[x] = 0 /\ life[x] = "none" /\ freed = {} /\ x # NULL
    BY TimersAssumption DEF Init
  <2>2. ~Own(x) /\ ~Carried(x) /\ current # x
    BY <2>1 DEF Init, Own, Carried, InTree
  <2> QED BY <1>2, <2>1, <2>2 DEF RefOK, One
<1>4. TimersOK /\ TreeOK /\ ThreadsOK /\ WakeOK
  BY TimersAssumption DEF Init, TimersOK, TreeOK, ThreadsOK, WakeOK, Sources
<1> QED BY <1>1, <1>3, <1>4 DEF IInv, RefsOK

\* Steps of others change nothing.
LEMMA StutterInv == ASSUME IInv, UNCHANGED vars PROVE IInv'
<1>1. TypeOK' /\ RefsOK' /\ TimersOK' /\ TreeOK'
  <2>1. dpc' = dpc /\ UNCHANGED <<box, mWaiting, current, mExited, ownerVars, eventVars, treeVars>>
    BY DEF vars, queueVars
  <2> QED BY <2>1, Unpack, DispatcherMoves DEF TypeOK
<1>2. ThreadsOK' /\ WakeOK'
  BY Unpack DEF vars, queueVars, ownerVars, eventVars, treeVars, ThreadsOK, WakeOK
<1> QED BY <1>1, <1>2 DEF IInv

\* Every step of the owners, the event thread and the dispatcher keeps the invariant.
LEMMA NextInv == ASSUME IInv, Next PROVE IInv'
<1>1. ASSUME NEW x \in Timers,
             Create(x) \/ Enable(x) \/ Destroy(x) \/ Delete(x) \/ Release(x) \/ Fire(x)
      PROVE  IInv'
  BY <1>1, CreateInv, EnableInv, DestroyInv, DeleteInv, ReleaseInv, FireInv
<1>2. ASSUME NEW h \in HiRes, HiResCreate(h) \/ HiResDestroy(h) PROVE IInv'
  BY <1>2, HiResCreateInv, HiResDestroyInv
<1>3. ASSUME EventStep PROVE IInv'
  BY <1>3, TestFiredInv, SwapInv, LinkInv, WakingInv DEF EventStep
<1>4. ASSUME DispatchStep PROVE IInv'
  BY <1>4, DispatchInv, EnterInv, TakeItemInv, FindNothingInv, WaitingInv, FutexWaitInv,
     TestQueuedInv, InvokeInv, DropInv, DispatchReturnsInv, HiResFireInv, HiResRemoveInv,
     HiResNoneInv DEF DispatchStep
<1> QED BY <1>1, <1>2, <1>3, <1>4, QueueDestroyInv, TickInv DEF Next

\* The invariant holds always.
LEMMA Invariance == Spec => []IInv
<1>1. IInv /\ [Next]_vars => IInv'
  BY NextInv, StutterInv
<1> QED BY InitInv, <1>1, PTL DEF Spec

\* The state of timers, events, high-resolution timers and the queue keeps its type,
\* and no reference count of sbfTimer.c, sbfEvent.c and sbfHiResTimer.c is ever
\* negative.
THEOREM TypeCorrect == Spec => []TypeOK
<1>1. IInv => TypeOK
  BY DEF IInv
<1> QED BY Invariance, <1>1, PTL

\* Whatever order event thread, dispatcher and owners run in, a timer or event is
\* freed only when libevent, the event thread, the queue, the dispatcher and the
\* tree are done with it; and after a destroy on the queue's thread there is no
\* callback.
THEOREM SourcesHeld == Spec => []SourceHeld
<1>1. IInv => SourceHeld
  <2> SUFFICES ASSUME IInv PROVE SourceHeld
    OBVIOUS
  <2>1. dpc = "calling" => current \notin onQueue
    BY Unpack DEF ThreadsOK
  <2>2. ASSUME NEW x \in freed
        PROVE  /\ x \notin pending /\ running # x /\ Queued(x) = 0 /\ current # x
               /\ x \in HiRes => ~InTree(x)
    <3>1. x \in Sources /\ pending \subseteq Timers /\ running \in Timers \cup {NULL}
      BY Unpack DEF TypeOK
    <3>2. RefOK(x) /\ Queued(x) \in Nat /\ mRefCount[x] = 0
      BY <3>1, Unpack DEF RefsOK, RefOK
    <3>3. Queued(x) = 0 /\ ~Own(x) /\ current # x
      BY <3>2 DEF RefOK, One
    <3>4. x \notin pending /\ running # x
      BY <3>1, <3>3, Unpack DEF TimersOK, Own
    <3>5. x \in HiRes => ~InTree(x)
      BY <3>1, <3>3, Unpack DEF Own
    <3> QED BY <3>3, <3>4, <3>5
  <2> QED BY <2>1, <2>2 DEF SourceHeld
<1> QED BY Invariance, <1>1, PTL

\* Though SBF_QUEUE_BLOCKING is read at different times by who enqueues and by who
\* dispatches, the dispatcher does not sleep with timers in the tree, nor with
\* something in the queue and no one about to wake it.
THEOREM NoLostWakeups == Spec => []NoLostWakeup
<1>1. IInv => NoLostWakeup
  BY DEF IInv, WakeOK, NoLostWakeup
<1> QED BY Invariance, <1>1, PTL
=============================================================================
