------------------------------ MODULE SbfPool -------------------------------
(***************************************************************************)
(* The pool of sbfPoolInline.h.  sbfPool_put pushes a block on mFree with  *)
(* a compare-and-swap.  sbfPool_get, under a spin lock, pops mAvailable;   *)
(* when that is empty it takes all of mFree in one exchange, and when that *)
(* is empty too it allocates.  A block may be put by a thread other than   *)
(* the one that got it.                                                    *)
(*                                                                         *)
(* One action is one access to mFree, or to mLock with what it protects.   *)
(* sbfPool_getZero differs from sbfPool_get in the contents of the memory, *)
(* and the counters of sbfPool_showSummary are left out.                   *)
(***************************************************************************)
EXTENDS Integers, Sequences

CONSTANTS
  Threads,  \* threads that use the pool
  Blocks,   \* bound: the memory that can be allocated
  NULL

ASSUME PoolAssumption == NULL \notin Blocks /\ NULL \notin Threads

VARIABLES
  mLock,       \* the thread in the spin lock, or NULL
  mAvailable,  \* the list popped under the lock
  mFree,       \* the list of the blocks put back
  mNext,       \* the link in each block's header
  fresh,       \* the blocks not allocated yet
  held,        \* the blocks a thread has from sbfPool_get
  pc,
  item,        \* the block a thread is getting or putting
  freeList,    \* history: the blocks pushed on mFree, last first
  availList    \* history: the blocks behind mAvailable

listVars == <<mAvailable, mFree, mNext, freeList, availList>>
vars == <<mLock, listVars, fresh, held, pc, item>>

PC == {"idle", "lock", "exchange", "take", "unlock", "push", "cas"}

TypeOK ==
  /\ mLock \in Threads \cup {NULL}
  /\ mAvailable \in Blocks \cup {NULL}
  /\ mFree \in Blocks \cup {NULL}
  /\ mNext \in [Blocks -> Blocks \cup {NULL}]
  /\ fresh \in SUBSET Blocks
  /\ held \in [Threads -> SUBSET Blocks]
  /\ pc \in [Threads -> PC]
  /\ item \in [Threads -> Blocks \cup {NULL}]
  /\ freeList \in Seq(Blocks)
  /\ availList \in Seq(Blocks)
-----------------------------------------------------------------------------
\* sbfPool_create1.
Init ==
  /\ mLock = NULL
  /\ mAvailable = NULL /\ mFree = NULL
  /\ mNext = [b \in Blocks |-> NULL]
  /\ fresh = Blocks
  /\ held = [t \in Threads |-> {}]
  /\ pc = [t \in Threads |-> "idle"]
  /\ item = [t \in Threads |-> NULL]
  /\ freeList = << >> /\ availList = << >>

Behind(list) == IF list = << >> THEN << >> ELSE Tail(list)

Goto(t, label) == pc' = [pc EXCEPT ![t] = label]

-----------------------------------------------------------------------------
(* sbfPool_get. *)

BeginGet(t) ==
  /\ pc[t] = "idle"
  /\ Goto(t, "lock")
  /\ UNCHANGED <<mLock, listVars, fresh, held, item>>

\* Mutant: the lock is not waited for.
LockUntested == TRUE

LockFree == mLock = NULL

\* sbfPoolNextItem takes the lock and reads mAvailable.
Lock(t) ==
  /\ pc[t] = "lock"
  /\ LockFree
  /\ mLock' = t
  /\ item' = [item EXCEPT ![t] = mAvailable]
  /\ IF mAvailable = NULL
       THEN Goto(t, "exchange") /\ UNCHANGED availList
       ELSE Goto(t, "take") /\ availList' = Behind(availList)
  /\ UNCHANGED <<mAvailable, mFree, mNext, freeList, fresh, held>>

\* sbfPoolNextItem: mAvailable is empty, exchange mFree for NULL.
Exchange(t) ==
  /\ pc[t] = "exchange"
  /\ item' = [item EXCEPT ![t] = mFree]
  /\ mFree' = NULL /\ freeList' = << >>
  /\ IF mFree = NULL
       THEN Goto(t, "unlock") /\ UNCHANGED availList
       ELSE Goto(t, "take") /\ availList' = Behind(freeList)
  /\ UNCHANGED <<mLock, mAvailable, mNext, fresh, held>>

\* sbfPoolNextItem: leave the blocks behind the first in mAvailable.
Take(t) ==
  /\ pc[t] = "take"
  /\ mAvailable' = mNext[item[t]]
  /\ Goto(t, "unlock")
  /\ UNCHANGED <<mLock, mFree, mNext, freeList, availList, fresh, held, item>>

\* Mutant: what sbfPoolNextItem found is not tested.
FoundAnyway(t) == TRUE

Found(t) == item[t] # NULL

\* sbfPool_get returns the block, or a new one from sbfPoolNew; xmalloc ends the
\* program when the memory is exhausted.
UnlockAndReturn(t) ==
  /\ pc[t] = "unlock"
  /\ mLock' = NULL
  /\ IF Found(t)
       THEN /\ held' = [held EXCEPT ![t] = @ \cup {item[t]}]
            /\ UNCHANGED <<mNext, fresh>>
       ELSE \E b \in fresh :
              /\ fresh' = fresh \ {b}
              /\ mNext' = [mNext EXCEPT ![b] = NULL]
              /\ held' = [held EXCEPT ![t] = @ \cup {b}]
  /\ item' = [item EXCEPT ![t] = NULL]
  /\ Goto(t, "idle")
  /\ UNCHANGED <<mAvailable, mFree, freeList, availList>>
-----------------------------------------------------------------------------
(* sbfPool_put. *)

BeginPut(t, b) ==
  /\ pc[t] = "idle"
  /\ b \in held[t]
  /\ held' = [held EXCEPT ![t] = @ \ {b}]
  /\ item' = [item EXCEPT ![t] = b]
  /\ Goto(t, "push")
  /\ UNCHANGED <<mLock, listVars, fresh>>

\* item->mNext = pool->mFree.
Push(t) ==
  /\ pc[t] = "push"
  /\ mNext' = [mNext EXCEPT ![item[t]] = mFree]
  /\ Goto(t, "cas")
  /\ UNCHANGED <<mLock, mAvailable, mFree, freeList, availList, fresh, held, item>>

\* Mutant: a plain store in place of the compare-and-swap.
StoreAnyway(t) == TRUE

FreeUnchanged(t) == mFree = mNext[item[t]]

\* Compare-and-swap mFree; when another thread changed it, try again.
CompareAndSwap(t) ==
  /\ pc[t] = "cas"
  /\ IF FreeUnchanged(t)
       THEN /\ mFree' = item[t]
            /\ freeList' = <<item[t]>> \o freeList
            /\ item' = [item EXCEPT ![t] = NULL]
            /\ Goto(t, "idle")
       ELSE /\ Goto(t, "push")
            /\ UNCHANGED <<mFree, freeList, item>>
  /\ UNCHANGED <<mLock, mAvailable, mNext, availList, fresh, held>>

\* The holder passes the block to another thread, inside what it holds.
Hand(t, u, b) ==
  /\ t # u
  /\ b \in held[t]
  /\ held' = [held EXCEPT ![t] = @ \ {b}, ![u] = @ \cup {b}]
  /\ UNCHANGED <<mLock, listVars, fresh, pc, item>>
-----------------------------------------------------------------------------
Next == \E t \in Threads :
          \/ BeginGet(t) \/ Lock(t) \/ Exchange(t) \/ Take(t) \/ UnlockAndReturn(t)
          \/ Push(t) \/ CompareAndSwap(t)
          \/ \E b \in Blocks : \/ BeginPut(t, b)
                               \/ \E u \in Threads : Hand(t, u, b)

Spec == Init /\ [][Next]_vars

-----------------------------------------------------------------------------
(* Properties. *)

\* The links from head lead through the sequence and end there: none was lost
\* or written over.
IsList(next, head, list) ==
  IF list = << >>
    THEN head = NULL
    ELSE /\ head = list[1]
         /\ \A k \in 1..Len(list) :
              next[list[k]] = IF k = Len(list) THEN NULL ELSE list[k + 1]

\* mAvailable, or what it becomes when the thread in the lock has taken its block.
Available ==
  IF mLock # NULL /\ pc[mLock] = "take" THEN mNext[item[mLock]] ELSE mAvailable

\* The lists are what was pushed on mFree and what was left in mAvailable,
\* whatever the order in which puts and gets interleave, a block that is pushed
\* again between the two halves of another thread's push included.
ListsOK == IsList(mNext, mFree, freeList) /\ IsList(mNext, Available, availList)

InList(b, list) == \E k \in 1..Len(list) : list[k] = b

With(t, b) == item[t] = b \/ b \in held[t]

InOnePlace(b) ==
  /\ \/ b \in fresh \/ InList(b, freeList) \/ InList(b, availList)
     \/ \E t \in Threads : With(t, b)
  /\ b \in fresh => ~InList(b, freeList) /\ ~InList(b, availList)
  /\ ~(InList(b, freeList) /\ InList(b, availList))
  /\ \A t \in Threads : With(t, b) =>
       /\ b \notin fresh /\ ~InList(b, freeList) /\ ~InList(b, availList)
       /\ ~(item[t] = b /\ b \in held[t])
       /\ \A u \in Threads \ {t} : ~With(u, b)

\* Every block is in exactly one place: not allocated, in a list, with a thread
\* that is getting or putting it, or held.  None is lost, none is given out
\* twice.
OnePlace == \A b \in Blocks : InOnePlace(b)

Allocator == INSTANCE SbfAllocator

\* The pool implements the allocator: a block that sbfPool_get returns is held
\* by no other thread.
ImplementsAllocator == Allocator!Spec
=============================================================================
