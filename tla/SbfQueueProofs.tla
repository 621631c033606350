--------------------------- MODULE SbfQueueProofs ---------------------------
(***************************************************************************)
(* Theorems about SbfQueue, for any number of producers, messages and      *)
(* blocks, any set of reentrant threads, and both blocking modes.          *)
(***************************************************************************)
EXTENDS SbfQueue, SequenceTheorems, TLAPS

-----------------------------------------------------------------------------
(* The inductive invariant. *)

\* The agents that have an item to themselves, neither in the list nor in the
\* pool.
Holds(a) == pc[a] \in {"swap", "disarm", "taken", "callback", "put"}

\* What the steps of an agent have established about its item.
ItemOK ==
  /\ \A t \in Threads : pc[t] \in {"swap", "link"} => item[t] \in Blocks
  /\ pc[Dispatcher] \in {"disarm", "taken", "callback", "put", "test"} =>
       item[Dispatcher] \in Blocks
  /\ pc[Dispatcher] \in {"swap", "link"} => item[Dispatcher] = Empty
  /\ \A a \in Agents : pc[a] = "swap" => mNext[item[a]] = NULL

\* A held item is in no other place.
HoldOK ==
  /\ \A a \in Agents : Holds(a) => ~InChain(item[a])
  /\ \A a \in Agents : Holds(a) => item[a] \notin mFree
  /\ \A a, b \in Agents : Holds(a) /\ Holds(b) /\ item[a] = item[b] => a = b

\* Until the queue is freed, no item of the list is in the pool.
PoolOK == freed \/ \A k \in 1..Len(chain) : chain[k] \notin mFree

\* A link about to be written joins two neighbours of the list, and only one
\* agent is to write it.
LinkOK ==
  /\ \A a \in Agents : pc[a] = "link" =>
       \E k \in 1..(Len(chain) - 1) : /\ last[a] = chain[k]
                                      /\ item[a] = chain[k + 1]
                                      /\ mNext[chain[k]] = NULL
  /\ \A a, b \in Agents :
       pc[a] = "link" /\ pc[b] = "link" /\ last[a] = last[b] => a = b

\* Where the stub is while the dispatcher puts it back.
StubOK ==
  /\ pc[Dispatcher] \in {"head", "swap", "link", "reread"} => mTail # Empty
  /\ pc[Dispatcher] \in {"link", "reread"} => InChain(Empty)

\* Before the destroyer has its item, no item in use has a NULL callback.
CbOK ==
  pc[Destroyer] \in {"idle", "get"} =>
    /\ \A k \in 1..Len(chain) : chain[k] # Empty => mCb[chain[k]] # NULL
    /\ \A t \in Threads : pc[t] = "swap" => mCb[item[t]] # NULL
    /\ pc[Dispatcher] \in {"disarm", "taken", "callback", "put", "test"} =>
         mCb[item[Dispatcher]] # NULL
    /\ pc[Dispatcher] \notin {"unref", "done"}

\* Who holds the references.
RefOK ==
  /\ mRefCount = (IF pc[Dispatcher] \in {"unref", "done"} THEN 0 ELSE 1)
                 + (IF pc[Dispatcher] \in {"idle", "done"} THEN 0 ELSE 1)
                 + (IF pc[Destroyer] \in {"idle", "done"} THEN 0 ELSE 1)
  /\ freed <=> mRefCount = 0
  /\ pc[Destroyer] # "idle" => \A p \in Producers : pc[p] = "idle"

\* The dispatcher arms only a queue that blocks.  What it saw while armed, and
\* who will wake it.
WakeOK ==
  /\ pc[Dispatcher] \in {"arm", "wait", "asleep"} \/ rearmed => mBlocking
  /\ pc[Dispatcher] = "head" /\ rearmed /\ mWaiting = 1 /\ Linked =>
       \E t \in Threads : pc[t] = "wake"
  /\ pc[Dispatcher] \in {"wait", "asleep"} /\ mWaiting = 1
       /\ (mTail # Empty \/ mHead # Empty) =>
       \E t \in Threads : pc[t] \in {"link", "wake"}
  /\ pc[Dispatcher] = "asleep" /\ mWaiting = 0 =>
       \E t \in Threads : pc[t] = "futex"

ListInv == TypeOK /\ ChainOK /\ ItemOK /\ HoldOK /\ PoolOK /\ LinkOK /\ StubOK

LifeInv == CbOK /\ RefOK

IInv == ListInv /\ LifeInv /\ WakeOK
-----------------------------------------------------------------------------
(* Sequences, and the shape of the list. *)

LEMMA AppendFacts ==
  ASSUME NEW S, NEW s \in Seq(S), NEW x \in S
  PROVE  /\ Append(s, x) \in Seq(S)
         /\ Len(Append(s, x)) = Len(s) + 1
         /\ \A k \in 1..Len(s) : Append(s, x)[k] = s[k]
         /\ Append(s, x)[Len(s) + 1] = x
  OBVIOUS

LEMMA TailFacts ==
  ASSUME NEW S, NEW s \in Seq(S), Len(s) > 0
  PROVE  /\ Tail(s) \in Seq(S)
         /\ Len(Tail(s)) = Len(s) - 1
         /\ \A k \in 1..(Len(s) - 1) : Tail(s)[k] = s[k + 1]
  OBVIOUS

\* An item with a successor is not the last, and the successor is its
\* neighbour.
LEMMA LinkedFirst ==
  ASSUME TypeOK, ChainOK, Linked
  PROVE  Len(chain) > 1 /\ Following = chain[2] /\ Following \in Items
  BY DEF TypeOK, ChainOK, Linked, Following

\* A step that touches neither the list nor an agent about to link.
LEMMA ListUnchanged ==
  ASSUME ChainOK, LinkOK,
         UNCHANGED <<mHead, mTail, mNext, chain, item, last>>,
         \A a \in Agents : pc'[a] = "link" <=> pc[a] = "link"
  PROVE  ChainOK' /\ LinkOK'
<1>1. ChainOK'
  BY DEF ChainOK, Unlinked
<1>2. LinkOK'
  BY DEF LinkOK
<1> QED BY <1>1, <1>2

-----------------------------------------------------------------------------
(* Each action preserves the invariant. *)

USE QueueAssumption DEF IInv, ListInv, LifeInv, TypeOK, ThreadPC, DispatcherPC,
  Agents, AtDispatcher, Goto, listVars, poolVars, lifeVars, localVars

LEMMA GetItemInv ==
  ASSUME IInv, ~freed, NEW t \in Threads, NEW cb, GetItem(t, cb), Goto(t, "swap"),
         UNCHANGED <<lifeVars, mHead, mTail, chain, mWaiting, last, rearmed>>,
         pc[t] \in {"idle", "get"}
  PROVE  /\ ChainOK' /\ ItemOK' /\ HoldOK' /\ PoolOK' /\ LinkOK' /\ StubOK'
         /\ WakeOK'
<1>1. PICK b \in mFree : /\ mFree' = mFree \ {b}
                         /\ mNext' = [mNext EXCEPT ![b] = NULL]
                         /\ item' = [item EXCEPT ![t] = b]
  BY DEF GetItem
<1>2. t \in Agents /\ t # Dispatcher /\ b \in Blocks /\ b \in Items
  BY DEF Items
<1>3. ~InChain(b)
  BY DEF PoolOK, InChain
<1>4. Len(chain) \in Nat /\ \A k \in 1..Len(chain) : chain[k] \in Items
  OBVIOUS
<1>5. \A k \in 1..Len(chain) : mNext'[chain[k]] = mNext[chain[k]]
  BY <1>1, <1>3, <1>4 DEF InChain
<1>6. ASSUME NEW a \in Agents
      PROVE  /\ pc'[a] = (IF a = t THEN "swap" ELSE pc[a])
             /\ item'[a] = (IF a = t THEN b ELSE item[a])
  BY <1>1, <1>2
<1>7. ChainOK'
  <2>1. mNext'[mHead'] = NULL
    <3>1. Len(chain) \in 1..Len(chain)
      BY <1>4 DEF ChainOK
    <3> QED BY <3>1, <1>5 DEF ChainOK
  <2>2. ASSUME NEW k \in 1..(Len(chain) - 1), mNext[chain[k]] = NULL
        PROVE  Unlinked(k)'
    BY <2>2, <1>6 DEF ChainOK, Unlinked
  <2> QED BY <2>1, <2>2, <1>4, <1>5 DEF ChainOK
<1>8. LinkOK'
  <2>1. \A a \in Agents : pc'[a] = "link" => pc[a] = "link" /\ item'[a] = item[a]
    BY <1>6
  <2>2. ASSUME NEW k \in 1..(Len(chain) - 1)
        PROVE  mNext'[chain[k]] = mNext[chain[k]]
    <3>1. k \in 1..Len(chain)
      BY <1>4
    <3> QED BY <3>1, <1>5
  <2>3. ASSUME NEW a \in Agents, pc'[a] = "link"
        PROVE  \E k \in 1..(Len(chain) - 1) : /\ last[a] = chain[k]
                                              /\ item'[a] = chain[k + 1]
                                              /\ mNext'[chain[k]] = NULL
    <3>1. PICK k \in 1..(Len(chain) - 1) : /\ last[a] = chain[k]
                                           /\ item[a] = chain[k + 1]
                                           /\ mNext[chain[k]] = NULL
      BY <2>1, <2>3 DEF LinkOK
    <3> QED BY <3>1, <2>1, <2>2, <2>3
  <2>4. \A x, y \in Agents :
          pc'[x] = "link" /\ pc'[y] = "link" /\ last[x] = last[y] => x = y
    BY <2>1 DEF LinkOK
  <2> QED BY <2>3, <2>4 DEF LinkOK
<1>9. ItemOK'
  BY <1>1, <1>2, <1>6 DEF ItemOK, Items
<1>10. HoldOK' /\ PoolOK'
  BY <1>1, <1>2, <1>3, <1>6 DEF HoldOK, Holds, PoolOK, InChain
<1>11. StubOK'
  BY <1>6, <1>2 DEF StubOK, InChain
<1>12. mNext'[mTail'] = mNext[mTail]
  BY <1>5, <1>4 DEF ChainOK
<1>13. WakeOK'
  BY <1>6, <1>2, <1>12 DEF WakeOK, Linked, Following
<1> QED BY <1>7, <1>8, <1>9, <1>10, <1>11, <1>13

LEMMA EnqueueInv ==
  ASSUME IInv, NEW p \in Producers, Enqueue(p)
  PROVE  IInv'
<1> USE DEF Enqueue
<1>1. p \in Threads /\ p # Destroyer
  BY DEF Threads
<1>2. ~freed
  BY DEF CbOK, RefOK
<1>3. <<p, calls[p] + 1>> \in Message /\ <<p, calls[p] + 1>> # NULL
  BY DEF Message
<1>4. PICK b \in mFree : /\ mFree' = mFree \ {b}
                         /\ mCb' = [mCb EXCEPT ![b] = <<p, calls[p] + 1>>]
                         /\ mNext' = [mNext EXCEPT ![b] = NULL]
                         /\ item' = [item EXCEPT ![p] = b]
  BY DEF GetItem
<1>5. TypeOK'
  BY <1>1, <1>3, <1>4 DEF Items
<1>6. /\ ChainOK' /\ ItemOK' /\ HoldOK' /\ PoolOK' /\ LinkOK' /\ StubOK'
      /\ WakeOK'
  BY <1>1, <1>2, GetItemInv
<1>7. \A i \in Blocks : mCb[i] # NULL => mCb'[i] # NULL
  BY <1>3, <1>4
<1>8. CbOK'
  <2>1. mCb'[item'[p]] # NULL
    BY <1>1, <1>3, <1>4
  <2>2. \A a \in Agents : a # p => item'[a] = item[a] /\ pc'[a] = pc[a]
    BY <1>4
  <2> QED BY <2>1, <2>2, <1>1, <1>7 DEF CbOK, ItemOK, Items, Threads
<1>9. RefOK'
  BY <1>1 DEF RefOK, Threads
<1> QED BY <1>5, <1>6, <1>8, <1>9

LEMMA SwapInv ==
  ASSUME IInv, NEW a \in Agents, Swap(a)
  PROVE  IInv'
<1> USE DEF Swap
<1>1. item[a] \in Items /\ (a = Dispatcher \/ item[a] \in Blocks)
  BY DEF ItemOK, Items
<1>2. /\ chain' \in Seq(Items)
      /\ Len(chain') = Len(chain) + 1
      /\ \A k \in 1..Len(chain) : chain'[k] = chain[k]
      /\ chain'[Len(chain) + 1] = item[a]
  BY <1>1, AppendFacts
<1>3. Len(chain) \in Nat
  OBVIOUS
<1>4. TypeOK'
  BY <1>1, <1>2 DEF Threads
<1>5. ~InChain(item[a]) /\ mNext[item[a]] = NULL
  BY DEF HoldOK, Holds, ItemOK
<1>6. ASSUME NEW b \in Agents, pc[b] = "link"
      PROVE  b # a /\ pc'[b] = "link" /\ last'[b] = last[b] /\ item'[b] = item[b]
  BY <1>6
<1>7. ChainOK'
  <2>1. chain'[1] = mTail' /\ chain'[Len(chain')] = mHead' /\ mNext'[mHead'] = NULL
    BY <1>2, <1>3, <1>5 DEF ChainOK
  <2>2. \A j, k \in 1..Len(chain') : chain'[j] = chain'[k] => j = k
    BY <1>2, <1>3, <1>5 DEF ChainOK, InChain
  <2>3. ASSUME NEW k \in 1..(Len(chain') - 1), mNext'[chain'[k]] = NULL
        PROVE  Unlinked(k)'
    <3>1. CASE k = Len(chain)
      BY <3>1, <1>2, <1>3 DEF ChainOK, Unlinked
    <3>2. CASE k # Len(chain)
      BY <3>2, <2>3, <1>2, <1>3, <1>6 DEF ChainOK, Unlinked
    <3> QED BY <3>1, <3>2
  <2>4. ASSUME NEW k \in 1..(Len(chain') - 1), mNext'[chain'[k]] # NULL
        PROVE  mNext'[chain'[k]] = chain'[k + 1]
    BY <2>4, <1>2, <1>3 DEF ChainOK
  <2> QED BY <2>1, <2>2, <2>3, <2>4, <1>2, <1>3 DEF ChainOK
<1>8. LinkOK'
  <2>1. ASSUME NEW b \in Agents, pc'[b] = "link", b # a
        PROVE  \E k \in 1..(Len(chain') - 1) : /\ last'[b] = chain'[k]
                                               /\ item'[b] = chain'[k + 1]
                                               /\ mNext'[chain'[k]] = NULL
                                               /\ last'[b] # mHead
    <3>1. PICK k \in 1..(Len(chain) - 1) : /\ last[b] = chain[k]
                                           /\ item[b] = chain[k + 1]
                                           /\ mNext[chain[k]] = NULL
      BY <2>1 DEF LinkOK
    <3>2. k \in 1..Len(chain) /\ k + 1 \in 1..Len(chain) /\ k # Len(chain)
      BY <1>3
    <3>3. chain[k] # mHead
      BY <3>2, <1>3 DEF ChainOK
    <3>4. k \in 1..(Len(chain') - 1)
      BY <1>2, <1>3
    <3> QED BY <3>1, <3>2, <3>3, <3>4, <1>2, <2>1
  <2>2. \E k \in 1..(Len(chain') - 1) : /\ last'[a] = chain'[k]
                                        /\ item'[a] = chain'[k + 1]
                                        /\ mNext'[chain'[k]] = NULL
                                        /\ last'[a] = mHead
    BY <1>2, <1>3 DEF ChainOK
  <2>3. ASSUME NEW x \in Agents, NEW y \in Agents,
               pc'[x] = "link", pc'[y] = "link", last'[x] = last'[y]
        PROVE  x = y
    BY <2>1, <2>2, <2>3 DEF LinkOK
  <2>4. ASSUME NEW b \in Agents, pc'[b] = "link"
        PROVE  \E k \in 1..(Len(chain') - 1) : /\ last'[b] = chain'[k]
                                               /\ item'[b] = chain'[k + 1]
                                               /\ mNext'[chain'[k]] = NULL
    <3> HIDE DEF Swap, IInv
    <3> QED BY <2>1, <2>2, <2>4
  <2> HIDE DEF Swap, IInv
  <2> QED BY <2>3, <2>4 DEF LinkOK
<1>9. StubOK'
  BY <1>2, <1>3 DEF StubOK, InChain, ItemOK
<1>10. ItemOK' /\ HoldOK' /\ PoolOK'
  BY <1>2, <1>3 DEF ItemOK, HoldOK, Holds, InChain, PoolOK
<1>11. CbOK'
  BY <1>1, <1>2, <1>3 DEF CbOK, ItemOK, Threads
<1>12. RefOK'
  BY DEF RefOK, Threads
<1>13. WakeOK'
  BY DEF WakeOK, Linked, Following
<1> QED BY <1>4, <1>7, <1>8, <1>9, <1>10, <1>11, <1>12, <1>13

LEMMA LinkInv ==
  ASSUME IInv, NEW a \in Agents, Link(a)
  PROVE  IInv'
<1> USE DEF Link
<1>1. PICK n \in 1..(Len(chain) - 1) : /\ last[a] = chain[n]
                                       /\ item[a] = chain[n + 1]
                                       /\ mNext[chain[n]] = NULL
  BY DEF LinkOK
<1>2. Len(chain) \in Nat /\ \A k \in 1..Len(chain) : chain[k] \in Items
  OBVIOUS
<1>3. /\ mNext'[chain[n]] = chain[n + 1]
      /\ \A i \in Items : i # chain[n] => mNext'[i] = mNext[i]
  BY <1>1, <1>2
<1>4. chain[n + 1] # NULL
  BY <1>1, <1>2
<1>5. TypeOK'
  BY <1>1, <1>2 DEF Threads
<1>6. ASSUME NEW k \in 1..Len(chain), k # n
      PROVE  mNext'[chain[k]] = mNext[chain[k]]
  <2>1. n \in 1..Len(chain)
    BY <1>2
  <2>2. chain[k] # chain[n]
    BY <1>6, <2>1 DEF ChainOK
  <2> QED BY <2>2, <1>2, <1>3
<1>7. ChainOK'
  <2>1. mNext'[mHead'] = NULL
    <3>1. Len(chain) \in 1..Len(chain) /\ Len(chain) # n
      BY <1>2 DEF ChainOK
    <3> QED BY <3>1, <1>6 DEF ChainOK
  <2>2. ASSUME NEW k \in 1..(Len(chain) - 1), k # n
        PROVE  IF mNext'[chain'[k]] = NULL THEN Unlinked(k)'
                                           ELSE mNext'[chain'[k]] = chain'[k + 1]
    <3>1. mNext'[chain[k]] = mNext[chain[k]]
      <4>1. k \in 1..Len(chain)
        BY <1>2
      <4> QED BY <4>1, <2>2, <1>6
    <3>2. ASSUME NEW b \in Agents, pc[b] = "link", last[b] = chain[k]
          PROVE  b # a
      <4>1. k \in 1..Len(chain) /\ n \in 1..Len(chain)
        BY <1>2
      <4>2. chain[k] # chain[n]
        BY <4>1, <2>2 DEF ChainOK
      <4> QED BY <4>2, <3>2, <1>1
    <3> QED BY <3>1, <3>2 DEF ChainOK, Unlinked
  <2>3. mNext'[chain'[n]] = chain'[n + 1] /\ mNext'[chain'[n]] # NULL
    BY <1>3, <1>4
  <2> QED BY <2>1, <2>2, <2>3 DEF ChainOK
<1>8. LinkOK'
  <2> SUFFICES ASSUME NEW b \in Agents, pc'[b] = "link"
               PROVE  \E k \in 1..(Len(chain') - 1) :
                         /\ last'[b] = chain'[k]
                         /\ item'[b] = chain'[k + 1]
                         /\ mNext'[chain'[k]] = NULL
    BY Zenon DEF LinkOK
  <2>1. b # a /\ pc[b] = "link"
    OBVIOUS
  <2>2. PICK k \in 1..(Len(chain) - 1) : /\ last[b] = chain[k]
                                         /\ item[b] = chain[k + 1]
                                         /\ mNext[chain[k]] = NULL
    BY <2>1 DEF LinkOK
  <2>3. k # n
    BY <2>1, <2>2, <1>1 DEF LinkOK
  <2>4. mNext'[chain[k]] = NULL
    <3>1. k \in 1..Len(chain)
      BY <1>2
    <3> QED BY <3>1, <2>2, <2>3, <1>6
  <2> QED BY <2>2, <2>4
<1>9. StubOK'
  BY DEF StubOK, InChain
<1>10. ItemOK'
  BY <1>1, <1>2, <1>3 DEF ItemOK, HoldOK, Holds, InChain, Items
<1>11. HoldOK' /\ PoolOK'
  BY DEF HoldOK, Holds, InChain, PoolOK
<1>12. LifeInv'
  BY DEF CbOK, RefOK, Threads
<1>13. WakeOK'
  BY <1>1, <1>3 DEF WakeOK, Linked, Following
<1> QED BY <1>5, <1>7, <1>8, <1>9, <1>10, <1>11, <1>12, <1>13

LEMMA CheckWaitingInv ==
  ASSUME IInv, NEW t \in Threads, CheckWaiting(t)
  PROVE  IInv'
<1> USE DEF CheckWaiting, Elected, Returned
<1>1. TypeOK'
  BY DEF Items, Threads, Message
<1>2. ChainOK' /\ LinkOK' /\ StubOK'
  BY DEF ChainOK, Unlinked, LinkOK, StubOK, InChain
<1>3. ItemOK' /\ HoldOK' /\ PoolOK'
  BY DEF ItemOK, HoldOK, Holds, InChain, PoolOK
<1>4. LifeInv'
  BY DEF CbOK, RefOK
<1>5. WakeOK'
  BY DEF WakeOK, Linked, Following
<1> QED BY <1>1, <1>2, <1>3, <1>4, <1>5

LEMMA FutexWakeInv ==
  ASSUME IInv, NEW t \in Threads, FutexWake(t)
  PROVE  IInv'
<1>1. t \in Agents /\ Dispatcher \in Agents /\ t # Dispatcher /\ pc[t] = "futex"
  BY DEF FutexWake
<1>2. /\ pc'[t] \in {"idle", "exit"} /\ (t # Destroyer => pc'[t] = "idle")
      /\ t = Destroyer => pc'[t] = "exit"
      /\ pc'[Dispatcher] = IF pc[Dispatcher] = "asleep" THEN "next" ELSE pc[Dispatcher]
      /\ \A a \in Agents : a # t /\ a # Dispatcher => pc'[a] = pc[a]
      /\ pc' \in [Agents -> ThreadPC \cup DispatcherPC]
  BY <1>1 DEF FutexWake, Returned
<1>3. UNCHANGED <<listVars, poolVars, lifeVars, localVars, mWaiting, dispatched>>
  BY DEF FutexWake
<1>4. TypeOK'
  BY <1>1, <1>2, <1>3
<1>5. \A a \in Agents : pc'[a] = "link" <=> pc[a] = "link"
  BY <1>1, <1>2
<1>6. ChainOK' /\ LinkOK' /\ StubOK'
  BY <1>1, <1>2, <1>3, <1>5 DEF ChainOK, Unlinked, LinkOK, StubOK, InChain
<1>7. ItemOK' /\ HoldOK' /\ PoolOK'
  <2>1. ItemOK' /\ PoolOK'
    BY <1>1, <1>2, <1>3 DEF ItemOK, PoolOK
  <2>2. \A a \in Agents : Holds(a)' <=> Holds(a)
    BY <1>1, <1>2 DEF Holds
  <2>3. HoldOK'
    BY <2>2, <1>3 DEF HoldOK, InChain
  <2> QED BY <2>1, <2>3
<1>8. LifeInv'
  BY <1>1, <1>2, <1>3 DEF CbOK, RefOK, Threads
<1>9. WakeOK'
  BY <1>1, <1>2, <1>3 DEF WakeOK, Linked, Following
<1> QED BY <1>4, <1>6, <1>7, <1>8, <1>9

\* sbfQueueNext has seen nothing to take.
LEMMA ReturnNullInv ==
  ASSUME IInv, ReturnNull, pc[Dispatcher] \in {"next", "head", "reread"},
         rearmed /\ mWaiting = 1 /\ (mTail # Empty \/ mHead # Empty) =>
           \E t \in Threads : pc[t] \in {"link", "wake"}
  PROVE  IInv'
<1> USE DEF ReturnNull
<1>1. /\ pc'[Dispatcher] \in {"next", "wait", "arm"}
      /\ \A t \in Threads : pc'[t] = pc[t]
      /\ rearmed' = FALSE
      /\ pc'[Dispatcher] \in {"wait", "arm"} => mBlocking
      /\ pc'[Dispatcher] = "wait" => rearmed
  OBVIOUS
<1>2. TypeOK'
  OBVIOUS
<1>3. ChainOK' /\ LinkOK' /\ StubOK'
  <2>1. /\ \A a \in Agents : pc'[a] = "link" <=> pc[a] = "link"
        /\ UNCHANGED <<mHead, mTail, mNext, chain, item, last>>
    OBVIOUS
  <2>2. StubOK'
    BY <1>1 DEF StubOK
  <2> QED BY <2>1, <2>2, ListUnchanged
<1>4. ItemOK' /\ HoldOK' /\ PoolOK'
  BY DEF ItemOK, HoldOK, Holds, InChain, PoolOK
<1>5. LifeInv'
  BY DEF CbOK, RefOK, Threads
<1>6. WakeOK'
  BY <1>1 DEF WakeOK, Linked, Following
<1> QED BY <1>2, <1>3, <1>4, <1>5, <1>6

\* The second item of the list becomes the first.
LEMMA PopFirst ==
  ASSUME TypeOK, ChainOK, LinkOK, Linked,
         mTail' = Following, chain' = Tail(chain), UNCHANGED <<mHead, mNext, last>>,
         \A t \in Threads : pc'[t] = pc[t] /\ item'[t] = item[t],
         pc[Dispatcher] # "link", pc'[Dispatcher] # "link"
  PROVE  /\ ChainOK' /\ LinkOK'
         /\ chain' \in Seq(Items)
         /\ \A k \in 1..Len(chain') : \E j \in 1..Len(chain) : chain'[k] = chain[j]
         /\ \A k \in 1..Len(chain') : chain'[k] # mTail
<1>1. Len(chain) \in Nat /\ Len(chain) > 1 /\ Following = chain[2]
  BY LinkedFirst
<1>2. /\ chain' \in Seq(Items)
      /\ Len(chain') = Len(chain) - 1
      /\ \A k \in 1..(Len(chain) - 1) : chain'[k] = chain[k + 1]
  BY <1>1, TailFacts
<1>3. ASSUME NEW a \in Agents, pc'[a] = "link"
      PROVE  pc[a] = "link" /\ item'[a] = item[a] /\ last'[a] = last[a]
  BY <1>3
<1>4. ChainOK'
  <2>1. Len(chain') > 0 /\ chain'[1] = mTail' /\ chain'[Len(chain')] = mHead'
        /\ mNext'[mHead'] = NULL
    BY <1>1, <1>2 DEF ChainOK
  <2>2. \A j, k \in 1..Len(chain') : chain'[j] = chain'[k] => j = k
    BY <1>1, <1>2 DEF ChainOK
  <2>3. ASSUME NEW k \in 1..(Len(chain') - 1)
        PROVE  IF mNext'[chain'[k]] = NULL THEN Unlinked(k)'
                                           ELSE mNext'[chain'[k]] = chain'[k + 1]
    <3>1. k + 1 \in 1..(Len(chain) - 1) /\ chain'[k] = chain[k + 1]
          /\ chain'[k + 1] = chain[(k + 1) + 1]
      BY <1>1, <1>2
    <3>2. CASE mNext[chain[k + 1]] = NULL
      <4>1. PICK a \in Agents : /\ pc[a] = "link"
                                /\ last[a] = chain[k + 1]
                                /\ item[a] = chain[(k + 1) + 1]
        BY <3>1, <3>2 DEF ChainOK, Unlinked
      <4>2. a \in Threads
        BY <4>1
      <4> QED BY <4>1, <4>2, <3>1, <3>2 DEF Unlinked
    <3>3. CASE mNext[chain[k + 1]] # NULL
      <4>1. mNext[chain[k + 1]] = chain[(k + 1) + 1]
        BY <3>1, <3>3 DEF ChainOK
      <4> QED BY <4>1, <3>1, <3>3
    <3> QED BY <3>2, <3>3
  <2> QED BY <2>1, <2>2, <2>3 DEF ChainOK
<1>5. LinkOK'
  <2>1. ASSUME NEW a \in Agents, pc'[a] = "link"
        PROVE  \E k \in 1..(Len(chain') - 1) : /\ last'[a] = chain'[k]
                                               /\ item'[a] = chain'[k + 1]
                                               /\ mNext'[chain'[k]] = NULL
    <3>1. PICK k \in 1..(Len(chain) - 1) : /\ last[a] = chain[k]
                                           /\ item[a] = chain[k + 1]
                                           /\ mNext[chain[k]] = NULL
      BY <2>1, <1>3 DEF LinkOK
    <3>2. k # 1
      BY <3>1 DEF Linked, Following, ChainOK
    <3>3. k - 1 \in 1..(Len(chain') - 1) /\ chain'[k - 1] = chain[k]
          /\ chain'[(k - 1) + 1] = chain[k + 1]
      BY <3>2, <1>1, <1>2
    <3> QED BY <3>1, <3>3, <2>1, <1>3
  <2>2. \A x, y \in Agents :
          pc'[x] = "link" /\ pc'[y] = "link" /\ last'[x] = last'[y] => x = y
    BY <1>3 DEF LinkOK
  <2> QED BY <2>1, <2>2 DEF LinkOK
<1>6. ASSUME NEW k \in 1..Len(chain')
      PROVE  chain'[k] # mTail
  <2>1. k + 1 \in 1..Len(chain) /\ 1 \in 1..Len(chain) /\ k + 1 # 1
        /\ chain'[k] = chain[k + 1]
    BY <1>1, <1>2
  <2> QED BY <2>1 DEF ChainOK
<1>7. \A k \in 1..Len(chain') : \E j \in 1..Len(chain) : chain'[k] = chain[j]
  BY <1>1, <1>2
<1> QED BY <1>2, <1>4, <1>5, <1>6, <1>7

\* sbfQueueNext takes the first item.
LEMMA ReturnItemInv ==
  ASSUME IInv, Linked, ReturnItem, mTail # Empty,
         pc[Dispatcher] \in {"next", "reread"}
  PROVE  IInv'
<1> USE DEF ReturnItem
<1>1. /\ pc'[Dispatcher] \in {"disarm", "taken"}
      /\ \A t \in Threads : pc'[t] = pc[t] /\ item'[t] = item[t]
      /\ item'[Dispatcher] = mTail
  OBVIOUS
<1>2. /\ ChainOK' /\ LinkOK'
      /\ chain' \in Seq(Items)
      /\ \A k \in 1..Len(chain') : \E j \in 1..Len(chain) : chain'[k] = chain[j]
      /\ ~InChain(item[Dispatcher])'
  BY <1>1, PopFirst DEF InChain
<1>3. TypeOK'
  BY <1>2, LinkedFirst
<1>4. mTail \in Blocks /\ Len(chain) > 0 /\ chain[1] = mTail /\ 1 \in 1..Len(chain)
  BY DEF ChainOK, Items
<1>5. StubOK'
  BY <1>1 DEF StubOK
<1>6. ItemOK' /\ PoolOK'
  BY <1>1, <1>2, <1>4 DEF ItemOK, PoolOK
<1>7. HoldOK'
  <2>1. ~freed
    BY DEF RefOK
  <2>2. item'[Dispatcher] = chain[1] /\ chain[1] \notin mFree
    BY <1>1, <1>4, <2>1 DEF PoolOK
  <2>3. \A t \in Threads : Holds(t)' = Holds(t)
    BY <1>1 DEF Holds
  <2>4. \A t \in Threads : Holds(t) => item[t] # chain[1]
    BY <1>4 DEF HoldOK, InChain
  <2>5. \A t \in Threads : Holds(t) => ~InChain(item[t])'
    BY <1>1, <1>2 DEF HoldOK, InChain
  <2> QED BY <1>1, <1>2, <2>2, <2>3, <2>4, <2>5 DEF HoldOK
<1>8. CbOK'
  BY <1>1, <1>2, <1>4 DEF CbOK, Threads
<1>9. RefOK'
  BY <1>1 DEF RefOK, Threads
<1>10. WakeOK'
  BY <1>1 DEF WakeOK
<1> QED BY <1>2, <1>3, <1>5, <1>6, <1>7, <1>8, <1>9, <1>10

LEMMA NextEmptyInv ==
  ASSUME IInv, NextEmpty
  PROVE  IInv'
<1> USE DEF NextEmpty
<1>1. ASSUME mHead # Empty
      PROVE  \E t \in Threads : pc[t] = "link"
  <2>1. Len(chain) \in Nat /\ Len(chain) > 1 /\ mNext[chain[1]] = NULL
    BY <1>1 DEF ChainOK, Linked, Following
  <2> QED BY <2>1 DEF ChainOK, Unlinked
<1> QED BY <1>1, ReturnNullInv

LEMMA NextSkipStubInv ==
  ASSUME IInv, NextSkipStub
  PROVE  IInv'
<1> USE DEF NextSkipStub
<1>1. /\ ChainOK' /\ LinkOK'
      /\ chain' \in Seq(Items)
      /\ \A k \in 1..Len(chain') : \E j \in 1..Len(chain) : chain'[k] = chain[j]
  BY PopFirst
<1>2. TypeOK'
  BY <1>1, LinkedFirst
<1>3. StubOK' /\ ItemOK' /\ PoolOK'
  BY <1>1 DEF StubOK, ItemOK, PoolOK
<1>4. HoldOK'
  BY <1>1 DEF HoldOK, Holds, InChain
<1>5. LifeInv'
  BY <1>1 DEF CbOK, RefOK
<1>6. WakeOK'
  BY DEF WakeOK
<1> QED BY <1>1, <1>2, <1>3, <1>4, <1>5, <1>6

LEMMA NextItemInv ==
  ASSUME IInv, NextItem
  PROVE  IInv'
  BY ReturnItemInv DEF NextItem

LEMMA NextNoLinkInv ==
  ASSUME IInv, NextNoLink
  PROVE  IInv'
<1> USE DEF NextNoLink
<1>1. TypeOK'
  BY DEF Items, Threads, Message
<1>2. ChainOK' /\ LinkOK' /\ StubOK'
  BY ListUnchanged DEF StubOK
<1>3. ItemOK' /\ HoldOK' /\ PoolOK'
  BY DEF ItemOK, HoldOK, Holds, InChain, PoolOK
<1>4. LifeInv'
  BY DEF CbOK, RefOK
<1>5. WakeOK'
  BY DEF WakeOK, Linked, Following
<1> QED BY <1>1, <1>2, <1>3, <1>4, <1>5

LEMMA NextBusyInv ==
  ASSUME IInv, NextBusy
  PROVE  IInv'
<1> USE DEF NextBusy, Alone
<1>1. Len(chain) \in Nat /\ Len(chain) > 1 /\ chain[1] = mTail
  BY DEF ChainOK
<1>2. ASSUME ~Linked
      PROVE  \E t \in Threads : pc[t] = "link"
  BY <1>1, <1>2 DEF ChainOK, Unlinked, Linked, Following
<1>3. ASSUME Linked, rearmed, mWaiting = 1
      PROVE  \E t \in Threads : pc[t] = "wake"
  BY <1>3 DEF WakeOK
<1> QED BY <1>2, <1>3, ReturnNullInv

LEMMA NextPutStubInv ==
  ASSUME IInv, NextPutStub
  PROVE  IInv'
<1> USE DEF NextPutStub
<1>1. mTail # Empty /\ Len(chain) = 1 /\ chain[1] = mTail /\ mHead = mTail
  <2>1. Len(chain) \in 1..Len(chain) /\ 1 \in 1..Len(chain)
    BY DEF ChainOK
  <2>2. mHead = mTail
    BY DEF Alone
  <2>3. mTail # Empty
    BY DEF StubOK
  <2> QED BY <2>1, <2>2, <2>3 DEF ChainOK
<1>2. /\ ~InChain(Empty)
      /\ mNext'[mTail] = mNext[mTail]
      /\ \A i \in Items : i # Empty => mNext'[i] = mNext[i]
      /\ mNext'[Empty] = NULL
  BY <1>1 DEF InChain, Items
<1>3. TypeOK'
  BY DEF Items
<1>4. ChainOK' /\ LinkOK' /\ StubOK'
  BY <1>1, <1>2 DEF ChainOK, LinkOK, StubOK
<1>5. ItemOK' /\ PoolOK'
  BY <1>2 DEF ItemOK, PoolOK, Items
<1>6. HoldOK'
  <2>1. /\ pc'[Dispatcher] = "swap" /\ item'[Dispatcher] = Empty
        /\ \A t \in Threads : pc'[t] = pc[t] /\ item'[t] = item[t]
    OBVIOUS
  <2>2. \A t \in Threads : Holds(t) => item[t] # Empty
    BY DEF Holds, ItemOK
  <2>3. Empty \notin mFree /\ ~InChain(Empty)'
    BY <1>2 DEF InChain
  <2>4. \A t \in Threads : Holds(t)' = Holds(t) /\ InChain(item[t])' = InChain(item[t])
    BY <2>1 DEF Holds, InChain
  <2> QED BY <2>1, <2>2, <2>3, <2>4 DEF HoldOK
<1>7. LifeInv'
  BY DEF CbOK, RefOK, Threads
<1>8. WakeOK'
  BY DEF WakeOK
<1> QED BY <1>3, <1>4, <1>5, <1>6, <1>7, <1>8

LEMMA NextRereadInv ==
  ASSUME IInv, NextReread
  PROVE  IInv'
<1> USE DEF NextReread
<1>1. mTail # Empty /\ InChain(Empty)
  BY DEF StubOK
<1>2. CASE Linked
  BY <1>1, <1>2, ReturnItemInv
<1>3. CASE ~Linked
  <2>1. Len(chain) \in Nat /\ Len(chain) > 1 /\ mNext[chain[1]] = NULL
    BY <1>1, <1>3 DEF ChainOK, InChain, Linked, Following
  <2>2. \E t \in Threads : pc[t] = "link"
    BY <2>1 DEF ChainOK, Unlinked
  <2> QED BY <2>2, <1>3, ReturnNullInv
<1> QED BY <1>2, <1>3

LEMMA DispatchInv ==
  ASSUME IInv, Dispatch
  PROVE  IInv'
<1> USE DEF Dispatch, AddRef
<1>1. TypeOK'
  BY DEF Items, Threads, Message
<1>2. ChainOK' /\ LinkOK' /\ StubOK'
  BY DEF ChainOK, Unlinked, LinkOK, StubOK, InChain
<1>3. ItemOK' /\ HoldOK' /\ PoolOK'
  BY DEF ItemOK, HoldOK, Holds, InChain, PoolOK
<1>4. LifeInv'
  BY DEF CbOK, RefOK, Threads
<1>5. WakeOK'
  BY DEF WakeOK, Linked, Following
<1> QED BY <1>1, <1>2, <1>3, <1>4, <1>5

LEMMA ArmInv ==
  ASSUME IInv, Arm
  PROVE  IInv'
<1> USE DEF Arm
<1>1. TypeOK'
  BY DEF Items, Threads, Message
<1>2. ChainOK' /\ LinkOK' /\ StubOK'
  BY DEF ChainOK, Unlinked, LinkOK, StubOK, InChain
<1>3. ItemOK' /\ HoldOK' /\ PoolOK'
  BY DEF ItemOK, HoldOK, Holds, InChain, PoolOK
<1>4. LifeInv'
  BY DEF CbOK, RefOK
<1>5. WakeOK'
  BY DEF WakeOK, Linked, Following
<1> QED BY <1>1, <1>2, <1>3, <1>4, <1>5

LEMMA DisarmInv ==
  ASSUME IInv, Disarm
  PROVE  IInv'
<1> USE DEF Disarm
<1>1. TypeOK'
  BY DEF Items, Threads, Message
<1>2. ChainOK' /\ LinkOK' /\ StubOK'
  BY DEF ChainOK, Unlinked, LinkOK, StubOK, InChain
<1>3. ItemOK' /\ HoldOK' /\ PoolOK'
  BY DEF ItemOK, HoldOK, Holds, InChain, PoolOK
<1>4. LifeInv'
  BY DEF CbOK, RefOK
<1>5. WakeOK'
  BY DEF WakeOK, Linked, Following
<1> QED BY <1>1, <1>2, <1>3, <1>4, <1>5

LEMMA FutexWaitInv ==
  ASSUME IInv, FutexWait
  PROVE  IInv'
<1> USE DEF FutexWait
<1>1. TypeOK'
  BY DEF Items, Threads, Message
<1>2. ChainOK' /\ LinkOK' /\ StubOK'
  BY DEF ChainOK, Unlinked, LinkOK, StubOK, InChain
<1>3. ItemOK' /\ HoldOK' /\ PoolOK'
  BY DEF ItemOK, HoldOK, Holds, InChain, PoolOK
<1>4. LifeInv'
  BY DEF CbOK, RefOK
<1>5. WakeOK'
  BY DEF WakeOK, Linked, Following
<1> QED BY <1>1, <1>2, <1>3, <1>4, <1>5

LEMMA DisturbedInv ==
  ASSUME IInv, Disturbed
  PROVE  IInv'
<1> USE DEF Disturbed
<1>1. TypeOK'
  BY DEF Items, Threads, Message
<1>2. ChainOK' /\ LinkOK' /\ StubOK'
  BY DEF ChainOK, Unlinked, LinkOK, StubOK, InChain
<1>3. ItemOK' /\ HoldOK' /\ PoolOK'
  BY DEF ItemOK, HoldOK, Holds, InChain, PoolOK
<1>4. LifeInv'
  BY DEF CbOK, RefOK
<1>5. WakeOK'
  BY DEF WakeOK, Linked, Following
<1> QED BY <1>1, <1>2, <1>3, <1>4, <1>5

LEMMA InvokeInv ==
  ASSUME IInv, Invoke
  PROVE  IInv'
<1> USE DEF Invoke
<1>1. TypeOK'
  <2>1. item[Dispatcher] \in Blocks
    BY DEF ItemOK
  <2>2. ASSUME mCb[item[Dispatcher]] # NULL
        PROVE  /\ dispatched' \in Seq(Message)
               /\ pc' = [pc EXCEPT ![Dispatcher] = "callback"]
    <3>1. mCb[item[Dispatcher]] \in Message
      BY <2>1, <2>2
    <3>2. /\ dispatched' = Append(dispatched, mCb[item[Dispatcher]])
          /\ pc' = [pc EXCEPT ![Dispatcher] = "callback"]
      BY <2>2
    <3> QED BY <3>1, <3>2, AppendFacts
  <2>3. mCb[item[Dispatcher]] = NULL =>
          dispatched' = dispatched /\ pc' = [pc EXCEPT ![Dispatcher] = "put"]
    OBVIOUS
  <2> QED BY <2>2, <2>3
<1>2. ChainOK' /\ LinkOK' /\ StubOK'
  BY DEF ChainOK, Unlinked, LinkOK, StubOK, InChain
<1>3. ItemOK' /\ HoldOK' /\ PoolOK'
  BY DEF ItemOK, HoldOK, Holds, InChain, PoolOK
<1>4. LifeInv'
  BY DEF CbOK, RefOK, Threads
<1>5. WakeOK'
  BY DEF WakeOK, Linked, Following
<1> QED BY <1>1, <1>2, <1>3, <1>4, <1>5

LEMMA CallbackReturnsInv ==
  ASSUME IInv, CallbackReturns
  PROVE  IInv'
<1> USE DEF CallbackReturns
<1>1. TypeOK'
  BY DEF Items, Threads, Message
<1>2. ChainOK' /\ LinkOK' /\ StubOK'
  BY DEF ChainOK, Unlinked, LinkOK, StubOK, InChain
<1>3. ItemOK' /\ HoldOK' /\ PoolOK'
  BY DEF ItemOK, HoldOK, Holds, InChain, PoolOK
<1>4. LifeInv'
  BY DEF CbOK, RefOK
<1>5. WakeOK'
  BY DEF WakeOK, Linked, Following
<1> QED BY <1>1, <1>2, <1>3, <1>4, <1>5

LEMMA PutItemInv ==
  ASSUME IInv, PutItem
  PROVE  IInv'
<1> USE DEF PutItem, ItemToPut
<1>1. TypeOK'
  BY DEF ItemOK
<1>2. ChainOK' /\ LinkOK' /\ StubOK'
  BY DEF ChainOK, Unlinked, LinkOK, StubOK, InChain
<1>3. ItemOK' /\ HoldOK' /\ PoolOK'
  BY DEF ItemOK, HoldOK, Holds, InChain, PoolOK
<1>4. LifeInv'
  BY DEF CbOK, RefOK
<1>5. WakeOK'
  BY DEF WakeOK, Linked, Following
<1> QED BY <1>1, <1>2, <1>3, <1>4, <1>5

\* Giving a reference back, and freeing the queue with the last.
LEMMA RemoveRefFacts ==
  ASSUME TypeOK, RemoveRef
  PROVE  /\ mRefCount' = mRefCount - 1
         /\ freed' \in BOOLEAN /\ (freed' <=> freed \/ mRefCount = 1)
         /\ mFree' \in SUBSET Blocks
         /\ mRefCount # 1 => mFree' = mFree
  BY DEF RemoveRef, Walked

LEMMA TestItemInv ==
  ASSUME IInv, TestItem
  PROVE  IInv'
<1> USE DEF TestItem, IsMarker
<1>1. pc[Dispatcher] = "test" /\ item[Dispatcher] \in Blocks /\ Dispatcher # Destroyer
  BY DEF ItemOK, Threads
<1>2. mRefCount > 1 /\ ~freed
  BY <1>1 DEF RefOK
<1>3. CASE ~IsMarker
  <2>1. TypeOK'
    BY <1>3
  <2>2. ChainOK' /\ LinkOK' /\ StubOK'
    BY <1>3, ListUnchanged DEF StubOK
  <2>3. ItemOK' /\ HoldOK' /\ PoolOK'
    BY <1>3 DEF ItemOK, HoldOK, Holds, InChain, PoolOK
  <2>4. LifeInv'
    BY <1>3 DEF CbOK, RefOK, Threads
  <2>5. WakeOK'
    BY <1>3 DEF WakeOK
  <2> QED BY <2>1, <2>2, <2>3, <2>4, <2>5
<1>4. CASE IsMarker
  <2>1. /\ mRefCount' = mRefCount - 1 /\ freed' = freed /\ mFree' = mFree
        /\ pc' = [pc EXCEPT ![Dispatcher] = "unref"]
        /\ UNCHANGED <<listVars, localVars, mCb, mWaiting, mBlocking, mExited,
                       dispatched>>
    BY <1>2, <1>4, RemoveRefFacts
  <2> HIDE DEF TestItem
  <2>2. TypeOK'
    BY <2>1
  <2>3. ChainOK' /\ LinkOK' /\ StubOK'
    <3>1. \A a \in Agents : pc'[a] = "link" <=> pc[a] = "link"
      BY <1>1, <2>1
    <3>2. StubOK'
      BY <2>1 DEF StubOK
    <3> QED BY <3>1, <3>2, <2>1, ListUnchanged
  <2>4. ItemOK' /\ HoldOK' /\ PoolOK'
    BY <2>1 DEF ItemOK, HoldOK, Holds, InChain, PoolOK
  <2>5. pc[Destroyer] \notin {"idle", "get"}
    BY <1>1, <1>4 DEF CbOK
  <2>6. CbOK'
    BY <1>4, <2>1, <2>5, <1>1 DEF CbOK
  <2>7. RefOK'
    BY <2>1, <1>1, <1>2 DEF RefOK, Threads
  <2>8. WakeOK'
    BY <2>1 DEF WakeOK
  <2> QED BY <2>2, <2>3, <2>4, <2>6, <2>7, <2>8
<1> QED BY <1>3, <1>4

LEMMA DispatchReturnsInv ==
  ASSUME IInv, DispatchReturns
  PROVE  IInv'
<1> USE DEF DispatchReturns
<1>1. Dispatcher \in Agents /\ pc[Dispatcher] = "unref" /\ Dispatcher # Destroyer
  BY DEF Threads
<1>2. /\ mRefCount' = mRefCount - 1
      /\ freed' \in BOOLEAN /\ (freed' <=> freed \/ mRefCount = 1)
      /\ mFree' \in SUBSET Blocks
      /\ mRefCount # 1 => mFree' = mFree
      /\ UNCHANGED <<listVars, localVars, mCb, mWaiting, mBlocking, mExited,
                     dispatched>>
      /\ pc' = [pc EXCEPT ![Dispatcher] = "done"]
  BY RemoveRefFacts
<1> HIDE DEF DispatchReturns
<1>3. TypeOK'
  BY <1>2 DEF Threads
<1>4. ChainOK' /\ LinkOK' /\ StubOK'
  <2>1. \A a \in Agents : pc'[a] = "link" <=> pc[a] = "link"
    BY <1>1, <1>2
  <2>2. StubOK'
    BY <1>1, <1>2 DEF StubOK, InChain
  <2> QED BY <2>1, <2>2, <1>2, ListUnchanged
<1>5. mRefCount = 1 => \A a \in Agents : ~Holds(a)'
  BY <1>1, <1>2 DEF CbOK, RefOK, Holds, Threads
<1>6. mRefCount = 1 => freed'
  BY <1>2
<1>7. ItemOK'
  BY <1>1, <1>2 DEF ItemOK
<1>8. HoldOK' /\ PoolOK'
  <2>1. \A a \in Agents : Holds(a)' => Holds(a)
    BY <1>2 DEF Holds
  <2> QED BY <2>1, <1>2, <1>5, <1>6 DEF HoldOK, PoolOK, InChain
<1>9. CbOK'
  BY <1>1, <1>2 DEF CbOK, Threads
<1>10. RefOK'
  BY <1>1, <1>2 DEF RefOK, Threads
<1>11. WakeOK'
  BY <1>1, <1>2 DEF WakeOK, Linked, Following
<1> QED BY <1>3, <1>4, <1>7, <1>8, <1>9, <1>10, <1>11

LEMMA DestroyInv ==
  ASSUME IInv, Destroy
  PROVE  IInv'
<1> USE DEF Destroy, AddRef, MayCall
<1>1. TypeOK'
  BY DEF Items, Threads, Message
<1>2. ChainOK' /\ LinkOK' /\ StubOK'
  BY DEF ChainOK, Unlinked, LinkOK, StubOK, InChain
<1>3. ItemOK' /\ HoldOK' /\ PoolOK'
  BY DEF ItemOK, HoldOK, Holds, InChain, PoolOK
<1>4. LifeInv'
  BY DEF CbOK, RefOK, Threads
<1>5. WakeOK'
  BY DEF WakeOK, Linked, Following
<1> QED BY <1>1, <1>2, <1>3, <1>4, <1>5

LEMMA DestroyGetItemInv ==
  ASSUME IInv, DestroyGetItem
  PROVE  IInv'
<1> USE DEF DestroyGetItem
<1>1. Destroyer \in Threads /\ Destroyer \notin Producers /\ ~freed
  BY DEF Threads, RefOK
<1>2. TypeOK'
  BY <1>1 DEF GetItem, Items
<1>3. /\ ChainOK' /\ ItemOK' /\ HoldOK' /\ PoolOK' /\ LinkOK' /\ StubOK'
      /\ WakeOK'
  BY <1>1, GetItemInv
<1>4. LifeInv'
  BY <1>1 DEF CbOK, RefOK
<1> QED BY <1>2, <1>3, <1>4

LEMMA DestroyExitInv ==
  ASSUME IInv, DestroyExit
  PROVE  IInv'
<1> USE DEF DestroyExit
<1>1. TypeOK'
  BY DEF Items, Threads, Message
<1>2. ChainOK' /\ LinkOK' /\ StubOK'
  BY DEF ChainOK, Unlinked, LinkOK, StubOK, InChain
<1>3. ItemOK' /\ HoldOK' /\ PoolOK'
  BY DEF ItemOK, HoldOK, Holds, InChain, PoolOK
<1>4. LifeInv'
  BY DEF CbOK, RefOK
<1>5. WakeOK'
  BY DEF WakeOK, Linked, Following
<1> QED BY <1>1, <1>2, <1>3, <1>4, <1>5

LEMMA DestroyReturnsInv ==
  ASSUME IInv, DestroyReturns
  PROVE  IInv'
<1> USE DEF DestroyReturns
<1>1. Destroyer \in Agents /\ pc[Destroyer] = "unref" /\ Dispatcher # Destroyer
  BY DEF Threads
<1>2. /\ mRefCount' = mRefCount - 1
      /\ freed' \in BOOLEAN /\ (freed' <=> freed \/ mRefCount = 1)
      /\ mFree' \in SUBSET Blocks
      /\ mRefCount # 1 => mFree' = mFree
      /\ UNCHANGED <<listVars, localVars, mCb, mWaiting, mBlocking, mExited,
                     dispatched>>
      /\ pc' = [pc EXCEPT ![Destroyer] = "done"]
  BY RemoveRefFacts
<1> HIDE DEF DestroyReturns
<1>3. TypeOK'
  BY <1>2 DEF Threads
<1>4. ChainOK' /\ LinkOK' /\ StubOK'
  <2>1. \A a \in Agents : pc'[a] = "link" <=> pc[a] = "link"
    BY <1>1, <1>2
  <2>2. StubOK'
    BY <1>1, <1>2 DEF StubOK, InChain
  <2> QED BY <2>1, <2>2, <1>2, ListUnchanged
<1>5. mRefCount = 1 => \A a \in Agents : ~Holds(a)'
  BY <1>1, <1>2 DEF RefOK, Holds, Threads
<1>6. mRefCount = 1 => freed'
  BY <1>2
<1>7. ItemOK'
  BY <1>1, <1>2 DEF ItemOK
<1>8. HoldOK' /\ PoolOK'
  <2>1. \A a \in Agents : Holds(a)' => Holds(a)
    BY <1>2 DEF Holds
  <2> QED BY <2>1, <1>2, <1>5, <1>6 DEF HoldOK, PoolOK, InChain
<1>9. CbOK'
  BY <1>1, <1>2 DEF CbOK, Threads
<1>10. RefOK'
  BY <1>1, <1>2 DEF RefOK, Threads
<1>11. WakeOK'
  BY <1>1, <1>2 DEF WakeOK, Linked, Following
<1> QED BY <1>3, <1>4, <1>7, <1>8, <1>9, <1>10, <1>11

-----------------------------------------------------------------------------
(* The theorems. *)

LEMMA InitInv == Init => IInv
<1> SUFFICES ASSUME Init
             PROVE  IInv
  OBVIOUS
<1> USE DEF Init
<1>1. TypeOK
  <2>1. Empty \in Items /\ 0 \in 0..MaxEnqueues
    BY DEF Items
  <2>2. chain \in Seq(Items) /\ dispatched \in Seq(Message)
    BY <2>1
  <2>3. mNext \in [Items -> Items \cup {NULL}] /\ mCb \in [Blocks -> Message \cup {NULL}]
    OBVIOUS
  <2>4. calls \in [Producers -> 0..MaxEnqueues]
    BY <2>1
  <2>5. pc \in [Agents -> ThreadPC \cup DispatcherPC]
    OBVIOUS
  <2>6. mBlocking \in BOOLEAN /\ mExited \in BOOLEAN /\ freed \in BOOLEAN
        /\ rearmed \in BOOLEAN
    BY Zenon
  <2>7. mHead \in Items /\ mTail \in Items /\ mWaiting \in {0, 1} /\ mRefCount \in Int
        /\ mFree \in SUBSET Blocks
    BY <2>1
  <2>8. item \in [Agents -> Items \cup {NULL}] /\ last \in [Agents -> Items \cup {NULL}]
    OBVIOUS
  <2>9. pc[Dispatcher] \in DispatcherPC /\ \A t \in Threads : pc[t] \in ThreadPC
    OBVIOUS
  <2> HIDE DEF Init
  <2> QED BY <2>2, <2>3, <2>4, <2>5, <2>6, <2>7, <2>8, <2>9
<1>2. ListInv
  BY <1>1 DEF ChainOK, ItemOK, HoldOK, Holds, PoolOK, LinkOK, StubOK, Items
<1>3. LifeInv
  BY DEF CbOK, RefOK, Threads
<1>4. WakeOK
  BY DEF WakeOK
<1> QED BY <1>2, <1>3, <1>4

LEMMA NextInv == IInv /\ [Next]_vars => IInv'
<1> SUFFICES ASSUME IInv, [Next]_vars
             PROVE  IInv'
  OBVIOUS
<1> HIDE DEF IInv
<1>1. CASE \E p \in Producers : Enqueue(p)
  BY <1>1, EnqueueInv
<1>2. CASE \E t \in Threads : EnqueueStep(t)
  BY <1>2, SwapInv, LinkInv, CheckWaitingInv, FutexWakeInv DEF EnqueueStep
<1>3. CASE NextStep
  BY <1>3, NextEmptyInv, NextSkipStubInv, NextItemInv, NextNoLinkInv, NextBusyInv,
     NextPutStubInv, SwapInv, LinkInv, NextRereadInv DEF NextStep
<1>4. CASE DispatchStep
  BY <1>3, <1>4, DispatchInv, ArmInv, DisarmInv, FutexWaitInv, InvokeInv,
     CallbackReturnsInv, PutItemInv, TestItemInv, DispatchReturnsInv
     DEF DispatchStep
<1>5. CASE Destroy \/ DestroyStep \/ Disturbed
  BY <1>5, DestroyInv, DestroyGetItemInv, DestroyExitInv, DestroyReturnsInv,
     DisturbedInv DEF DestroyStep
<1>6. CASE UNCHANGED vars
  <2>1. UNCHANGED <<listVars, poolVars, lifeVars, localVars, mWaiting, pc, dispatched>>
    BY <1>6 DEF vars
  <2> QED BY <2>1 DEF IInv, ChainOK, Unlinked, LinkOK, StubOK, InChain, ItemOK,
        HoldOK, Holds, PoolOK, CbOK, RefOK, WakeOK, Linked, Following
<1> QED BY <1>1, <1>2, <1>4, <1>5, <1>6 DEF Next

LEMMA Invariant == Spec => []IInv
  BY InitInv, NextInv, PTL DEF Spec

\* The variables keep their types.
THEOREM TypeCorrect == Spec => []TypeOK
<1>1. IInv => TypeOK
  OBVIOUS
<1> QED BY <1>1, Invariant, PTL

\* The list is the sequence of the exchanges on mHead, link by link
\* (sbfQueueEnqueue1 against sbfQueueNext).
THEOREM ChainCorrect == Spec => []ChainOK
<1>1. IInv => ChainOK
  OBVIOUS
<1> QED BY <1>1, Invariant, PTL

\* No producer writes its link into an item that has left the queue.
THEOREM NoStaleLinks == Spec => []NoStaleLink
<1>1. ASSUME IInv, NEW a \in Agents, pc[a] = "link"
      PROVE  InChain(last[a]) /\ last[a] \notin mFree
  <2>1. PICK k \in 1..Len(chain) : last[a] = chain[k]
    BY <1>1 DEF LinkOK
  <2>2. ~freed
    BY <1>1 DEF CbOK, RefOK, Threads
  <2> QED BY <1>1, <2>1, <2>2 DEF InChain, PoolOK
<1>2. IInv => NoStaleLink
  BY <1>1 DEF NoStaleLink
<1> QED BY <1>2, Invariant, PTL

\* The dispatcher never sleeps on an item with nobody about to wake it.
THEOREM NoLostWakeups == Spec => []NoLostWakeup
<1>1. IInv => NoLostWakeup
  BY DEF WakeOK, NoLostWakeup
<1> QED BY <1>1, Invariant, PTL

\* No thread is inside the queue when its last reference frees it.
THEOREM FreedByLast == Spec => []FreedLast
<1>1. IInv => FreedLast
  BY DEF CbOK, RefOK, FreedLast, Threads
<1> QED BY <1>1, Invariant, PTL
=============================================================================
