--------------------------- MODULE SbfPoolProofs ----------------------------
(***************************************************************************)
(* Theorems about SbfPool, for any number of threads and blocks: the lists *)
(* are intact, every block is in one place, and the pool implements the    *)
(* allocator.                                                              *)
(***************************************************************************)
EXTENDS SbfPool, SequenceTheorems, TLAPS

-----------------------------------------------------------------------------
(* The inductive invariant. *)

\* The lock is held exactly in the middle of sbfPoolNextItem, and mFree is taken
\* only when mAvailable is empty.
LockOK ==
  /\ \A t \in Threads : pc[t] \in {"exchange", "take", "unlock"} <=> mLock = t
  /\ \A t \in Threads : pc[t] = "exchange" => mAvailable = NULL

\* What a thread has established about its item.
ItemOK ==
  \A t \in Threads :
    /\ pc[t] \in {"idle", "lock", "exchange"} => item[t] = NULL
    /\ pc[t] \in {"take", "push", "cas"} => item[t] # NULL

Once(list) == \A i, j \in 1..Len(list) : list[i] = list[j] => i = j

OnceOK == Once(freeList) /\ Once(availList)

Shape == TypeOK /\ LockOK /\ ItemOK

IInv == Shape /\ ListsOK /\ OnceOK /\ OnePlace
-----------------------------------------------------------------------------
(* Lists. *)

\* Unlinking the first block leaves a list of the others.
LEMMA Popped ==
  ASSUME NEW next, NEW head, NEW list \in Seq(Blocks), list # << >>,
         IsList(next, head, list), Once(list)
  PROVE  /\ Behind(list) \in Seq(Blocks)
         /\ head \in Blocks
         /\ InList(head, list)
         /\ IsList(next, next[head], Behind(list))
         /\ Once(Behind(list))
         /\ \A b : InList(b, Behind(list)) <=> InList(b, list) /\ b # head
<1> DEFINE rest == Tail(list)
<1>1. /\ rest \in Seq(Blocks) /\ Len(list) \in Nat \ {0}
      /\ Len(rest) = Len(list) - 1
      /\ \A k \in 1..Len(rest) : rest[k] = list[k + 1]
  OBVIOUS
<1>2. Behind(list) = rest
  BY DEF Behind
<1> HIDE DEF rest
<1>3. head = list[1] /\ head \in Blocks /\ InList(head, list)
  <2>1. 1 \in 1..Len(list) /\ list[1] \in Blocks
    BY <1>1
  <2> QED BY <2>1 DEF IsList, InList
<1>link. \A k \in 1..Len(list) :
           next[list[k]] = IF k = Len(list) THEN NULL ELSE list[k + 1]
  BY DEF IsList
<1>4. IsList(next, next[head], rest)
  <2>1. CASE rest = << >>
    <3>1. 1 \in 1..Len(list) /\ 1 = Len(list)
      BY <1>1, <2>1
    <3>2. next[list[1]] = NULL
      BY <1>link, <3>1
    <3> QED BY <1>3, <2>1, <3>2 DEF IsList
  <2>2. CASE rest # << >>
    <3>1. 1 \in 1..Len(rest) /\ 1 \in 1..Len(list) /\ 1 # Len(list)
      BY <1>1, <2>2
    <3>2. next[head] = rest[1]
      <4>1. next[list[1]] = list[1 + 1] /\ rest[1] = list[1 + 1]
        BY <1>1, <1>link, <3>1
      <4> QED BY <4>1, <1>3
    <3>3. ASSUME NEW k \in 1..Len(rest)
          PROVE  next[rest[k]] = IF k = Len(rest) THEN NULL ELSE rest[k + 1]
      <4>1. k + 1 \in 1..Len(list) /\ rest[k] = list[k + 1]
        BY <1>1
      <4>2. next[list[k + 1]] = IF k + 1 = Len(list) THEN NULL ELSE list[k + 2]
        <5>1. k + 1 + 1 = k + 2
          BY <1>1
        <5> QED BY <4>1, <5>1, <1>link
      <4>3. k # Len(rest) => rest[k + 1] = list[k + 2]
        <5>1. ASSUME k # Len(rest)
              PROVE  k + 1 \in 1..Len(rest) /\ k + 1 + 1 = k + 2
          BY <1>1, <5>1
        <5> QED BY <5>1, <1>1
      <4> QED BY <4>1, <4>2, <4>3, <1>1
    <3> QED BY <2>2, <3>2, <3>3 DEF IsList
  <2> QED BY <2>1, <2>2
<1>5. Once(rest)
  BY <1>1 DEF Once
<1>6. ASSUME NEW b
      PROVE  InList(b, rest) <=> InList(b, list) /\ b # head
  <2>1. ASSUME NEW k \in 1..Len(rest), rest[k] = b
        PROVE  InList(b, list) /\ b # head
    <3>1. k + 1 \in 1..Len(list) /\ list[k + 1] = b /\ 1 \in 1..Len(list)
      BY <2>1, <1>1
    <3> QED BY <3>1, <1>3 DEF InList, Once
  <2>2. ASSUME NEW k \in 1..Len(list), list[k] = b, b # head
        PROVE  InList(b, rest)
    <3>1. k - 1 \in 1..Len(rest) /\ rest[k - 1] = b
      BY <2>2, <1>1, <1>3
    <3> QED BY <3>1 DEF InList
  <2> QED BY <2>1, <2>2 DEF InList
<1> QED BY <1>1, <1>2, <1>3, <1>4, <1>5, <1>6

\* A block that links to the first one makes a longer list.
LEMMA Pushed ==
  ASSUME NEW next, NEW list \in Seq(Blocks), NEW b \in Blocks,
         IsList(next, next[b], list), Once(list), ~InList(b, list)
  PROVE  /\ <<b>> \o list \in Seq(Blocks)
         /\ IsList(next, b, <<b>> \o list)
         /\ Once(<<b>> \o list)
         /\ \A x : InList(x, <<b>> \o list) <=> InList(x, list) \/ x = b
<1> DEFINE more == <<b>> \o list
<1>1. /\ more \in Seq(Blocks) /\ Len(list) \in Nat
      /\ Len(more) = Len(list) + 1
      /\ more[1] = b
      /\ \A k \in 1..Len(list) : more[k + 1] = list[k]
  OBVIOUS
<1>2. \A k \in 2..Len(more) : k - 1 \in 1..Len(list) /\ more[k] = list[k - 1]
  BY <1>1
<1> HIDE DEF more
<1>3. IsList(next, b, more)
  <2>1. more # << >>
    BY <1>1
  <2>2. ASSUME NEW k \in 1..Len(more)
        PROVE  next[more[k]] = IF k = Len(more) THEN NULL ELSE more[k + 1]
    <3>1. CASE k = 1
      BY <1>1, <3>1 DEF IsList
    <3>2. CASE k # 1
      <4>1. k - 1 \in 1..Len(list) /\ more[k] = list[k - 1]
        BY <1>1, <1>2, <3>2
      <4>2. list # << >>
        BY <4>1
      <4>3. next[list[k - 1]] = IF k - 1 = Len(list) THEN NULL ELSE list[k]
        BY <4>1, <4>2, <1>1 DEF IsList
      <4>4. k # Len(more) => more[k + 1] = list[k]
        BY <1>1, <4>1
      <4> QED BY <4>1, <4>3, <4>4, <1>1
    <3> QED BY <3>1, <3>2
  <2> QED BY <2>1, <2>2, <1>1 DEF IsList
<1>4. Once(more)
  <2>1. ASSUME NEW i \in 2..Len(more)
        PROVE  more[i] # more[1]
    BY <2>1, <1>1, <1>2 DEF InList
  <2>2. ASSUME NEW i \in 2..Len(more), NEW j \in 2..Len(more), more[i] = more[j]
        PROVE  i = j
    <3>1. i - 1 \in 1..Len(list) /\ j - 1 \in 1..Len(list)
      BY <1>2
    <3>2. list[i - 1] = list[j - 1]
      BY <1>2, <2>2
    <3>3. i - 1 = j - 1
      BY <3>1, <3>2 DEF Once
    <3> QED BY <3>3, <1>1
  <2>3. \A i \in 1..Len(more) : i = 1 \/ i \in 2..Len(more)
    BY <1>1
  <2> QED BY <2>1, <2>2, <2>3 DEF Once
<1>5. ASSUME NEW x
      PROVE  InList(x, more) <=> InList(x, list) \/ x = b
  <2>1. ASSUME NEW k \in 1..Len(more), more[k] = x, x # b
        PROVE  InList(x, list)
    BY <2>1, <1>1, <1>2 DEF InList
  <2>2. ASSUME NEW k \in 1..Len(list), list[k] = x
        PROVE  InList(x, more)
    <3>1. k + 1 \in 1..Len(more) /\ more[k + 1] = x
      BY <2>2, <1>1
    <3> QED BY <3>1 DEF InList
  <2>3. InList(b, more)
    BY <1>1 DEF InList
  <2> QED BY <2>1, <2>2, <2>3 DEF InList
<1> QED BY <1>1, <1>3, <1>4, <1>5 DEF more

\* Writing the link of a block outside it leaves a list as it is.
LEMMA Untouched ==
  ASSUME NEW next \in [Blocks -> Blocks \cup {NULL}], NEW head,
         NEW list \in Seq(Blocks), NEW b \in Blocks, NEW v,
         IsList(next, head, list), ~InList(b, list)
  PROVE  IsList([next EXCEPT ![b] = v], head, list)
<1>1. \A k \in 1..Len(list) : list[k] \in Blocks /\ list[k] # b
  BY DEF InList
<1> QED BY <1>1 DEF IsList

\* The empty list.
LEMMA Emptied ==
  ASSUME NEW next
  PROVE  /\ << >> \in Seq(Blocks)
         /\ IsList(next, NULL, << >>)
         /\ Once(<< >>)
         /\ \A b : ~InList(b, << >>)
         /\ Behind(<< >>) = << >>
BY DEF IsList, Once, InList, Behind

\* A list from NULL is empty.
LEMMA NullList ==
  ASSUME NEW next, NEW head, NEW list \in Seq(Blocks), IsList(next, head, list)
  PROVE  head = NULL <=> list = << >>
<1>1. list # << >> => list[1] \in Blocks
  OBVIOUS
<1> QED BY <1>1, PoolAssumption DEF IsList

-----------------------------------------------------------------------------
(* The initial state and each action. *)

\* Where the links of mAvailable start, for each state of the lock.
LEMMA AvailableIs ==
  ASSUME Shape
  PROVE  /\ \A t \in Threads : pc[t] = "take" => Available = mNext[item[t]]
         /\ (\A t \in Threads : pc[t] # "take") => Available = mAvailable
         /\ mLock = NULL => Available = mAvailable
BY PoolAssumption DEF Shape, TypeOK, LockOK, Available

LEMMA InitInv == Init => IInv
<1> SUFFICES ASSUME Init PROVE IInv
  OBVIOUS
<1>1. Shape
  BY PoolAssumption DEF Init, Shape, TypeOK, LockOK, ItemOK, PC
<1>2. Available = NULL
  BY DEF Init, Available
<1>3. ListsOK /\ OnceOK
  BY <1>2, Emptied DEF Init, ListsOK, OnceOK
<1>4. OnePlace
  BY PoolAssumption, Emptied DEF Init, OnePlace, InOnePlace, With
<1> QED BY <1>1, <1>3, <1>4 DEF IInv

LEMMA BeginGetInv ==
  ASSUME IInv, NEW t \in Threads, BeginGet(t)
  PROVE  IInv'
<1> USE DEF BeginGet, Goto, listVars
<1>1. Shape'
  BY DEF IInv, Shape, TypeOK, LockOK, ItemOK, PC
<1>2. Available' = Available
  BY PoolAssumption DEF IInv, Shape, TypeOK, Available
<1>3. ListsOK' /\ OnceOK'
  BY <1>2 DEF IInv, ListsOK, OnceOK
<1>4. OnePlace'
  BY DEF IInv, OnePlace, InOnePlace, With
<1> QED BY <1>1, <1>3, <1>4 DEF IInv

LEMMA LockInv ==
  ASSUME IInv, NEW t \in Threads, Lock(t)
  PROVE  IInv'
<1> USE DEF Lock, LockFree, Goto
<1>1. Shape'
  <2>1. Behind(availList) \in Seq(Blocks)
    BY DEF IInv, Shape, TypeOK, Behind
  <2>2. TypeOK'
    BY <2>1 DEF IInv, Shape, TypeOK, PC
  <2>3. LockOK' /\ ItemOK'
    BY PoolAssumption DEF IInv, Shape, TypeOK, LockOK, ItemOK, PC
  <2> QED BY <2>2, <2>3 DEF Shape
<1>2. Available = mAvailable
  BY AvailableIs DEF IInv
<1>3. CASE mAvailable = NULL
  <2>1. Available' = Available
    BY <1>1, <1>2, <1>3, PoolAssumption DEF IInv, Shape, TypeOK, Available
  <2>2. ListsOK' /\ OnceOK'
    BY <1>3, <2>1 DEF IInv, ListsOK, OnceOK
  <2>3. OnePlace'
    <3>1. item' = item
      BY <1>3 DEF IInv, Shape, TypeOK, ItemOK
    <3> QED BY <1>3, <3>1 DEF IInv, OnePlace, InOnePlace, With
  <2> QED BY <1>1, <2>2, <2>3 DEF IInv
<1>4. CASE mAvailable # NULL
  <2>1. availList # << >>
    BY <1>2, <1>4, NullList DEF IInv, Shape, TypeOK, ListsOK
  <2>2. /\ InList(mAvailable, availList)
        /\ IsList(mNext, mNext[mAvailable], availList')
        /\ Once(availList')
        /\ \A b : InList(b, availList') <=> InList(b, availList) /\ b # mAvailable
    BY <1>2, <1>4, <2>1, Popped DEF IInv, Shape, TypeOK, ListsOK, OnceOK
  <2>3. Available' = mNext[mAvailable]
    BY <1>1, <1>4, PoolAssumption DEF IInv, Shape, TypeOK, Available
  <2>4. ListsOK' /\ OnceOK'
    BY <2>2, <2>3 DEF IInv, ListsOK, OnceOK
  <2>5. OnePlace'
    <3>1. item[t] = NULL /\ mAvailable \in Blocks
      BY <1>4 DEF IInv, Shape, TypeOK, ItemOK
    <3>2. \A u \in Threads : item'[u] = IF u = t THEN mAvailable ELSE item[u]
      BY DEF IInv, Shape, TypeOK
    <3>3. ASSUME NEW b \in Blocks, b # mAvailable
          PROVE  InOnePlace(b)'
      <4>1. \A u \in Threads : item'[u] = b <=> item[u] = b
        BY <3>1, <3>2, <3>3, PoolAssumption
      <4> QED BY <2>2, <3>3, <4>1 DEF IInv, OnePlace, InOnePlace, With
    <3>4. ASSUME NEW b \in Blocks, b = mAvailable
          PROVE  InOnePlace(b)'
      <4>1. InOnePlace(b)
        BY DEF IInv, OnePlace
      <4> QED BY <2>2, <3>1, <3>2, <3>4, <4>1 DEF InOnePlace, With
    <3> QED BY <3>3, <3>4 DEF OnePlace
  <2> QED BY <1>1, <2>4, <2>5 DEF IInv
<1> QED BY <1>3, <1>4

LEMMA ExchangeInv ==
  ASSUME IInv, NEW t \in Threads, Exchange(t)
  PROVE  IInv'
<1> USE DEF Exchange, Goto
<1>1. mLock = t /\ mAvailable = NULL /\ item[t] = NULL
  BY DEF IInv, Shape, LockOK, ItemOK
<1>2. availList = << >>
  <2>1. Available = mAvailable
    BY <1>1, PoolAssumption DEF Available
  <2> QED BY <1>1, <2>1, NullList DEF IInv, Shape, TypeOK, ListsOK
<1>3. Behind(freeList) \in Seq(Blocks) /\ << >> \in Seq(Blocks)
  BY DEF IInv, Shape, TypeOK, Behind
<1>4. Shape'
  <2>1. TypeOK'
    BY <1>3 DEF IInv, Shape, TypeOK, PC
  <2>2. LockOK' /\ ItemOK'
    BY PoolAssumption DEF IInv, Shape, TypeOK, LockOK, ItemOK, PC
  <2> QED BY <2>1, <2>2 DEF Shape
<1>5. CASE mFree = NULL
  <2>1. Available' = mAvailable /\ item' = item
    BY <1>1, <1>4, <1>5, PoolAssumption DEF IInv, Shape, TypeOK, Available
  <2>2. freeList = << >>
    BY <1>5, NullList DEF IInv, Shape, TypeOK, ListsOK
  <2>3. ListsOK' /\ OnceOK'
    BY <1>1, <1>2, <1>5, <2>1, Emptied DEF ListsOK, OnceOK
  <2>4. OnePlace'
    BY <1>5, <2>1, <2>2 DEF IInv, OnePlace, InOnePlace, With
  <2> QED BY <1>4, <2>3, <2>4 DEF IInv
<1>6. CASE mFree # NULL
  <2>1. freeList # << >>
    BY <1>6, NullList DEF IInv, Shape, TypeOK, ListsOK
  <2>2. /\ mFree \in Blocks
        /\ InList(mFree, freeList)
        /\ IsList(mNext, mNext[mFree], availList')
        /\ Once(availList')
        /\ \A b : InList(b, availList') <=> InList(b, freeList) /\ b # mFree
    BY <1>6, <2>1, Popped DEF IInv, Shape, TypeOK, ListsOK, OnceOK
  <2>3. Available' = mNext[mFree]
    BY <1>1, <1>4, <1>6, PoolAssumption DEF IInv, Shape, TypeOK, Available
  <2>4. ListsOK' /\ OnceOK'
    BY <2>2, <2>3, Emptied DEF ListsOK, OnceOK
  <2>5. OnePlace'
    <3>1. \A u \in Threads : item'[u] = IF u = t THEN mFree ELSE item[u]
      BY DEF IInv, Shape, TypeOK
    <3>2. \A b : ~InList(b, availList) /\ ~InList(b, freeList')
      BY <1>2, Emptied
    <3>3. ASSUME NEW b \in Blocks, b # mFree
          PROVE  InOnePlace(b)'
      <4>1. \A u \in Threads : item'[u] = b <=> item[u] = b
        BY <1>1, <3>1, <3>3, PoolAssumption
      <4> QED BY <2>2, <3>2, <3>3, <4>1 DEF IInv, OnePlace, InOnePlace, With
    <3>4. ASSUME NEW b \in Blocks, b = mFree
          PROVE  InOnePlace(b)'
      <4>1. InOnePlace(b)
        BY DEF IInv, OnePlace
      <4> QED BY <2>2, <3>1, <3>2, <3>4, <4>1 DEF InOnePlace, With
    <3> QED BY <3>3, <3>4 DEF OnePlace
  <2> QED BY <1>4, <2>4, <2>5 DEF IInv
<1> QED BY <1>5, <1>6

LEMMA TakeInv ==
  ASSUME IInv, NEW t \in Threads, Take(t)
  PROVE  IInv'
<1> USE DEF Take, Goto
<1>1. mLock = t /\ item[t] \in Blocks
  BY DEF IInv, Shape, TypeOK, LockOK, ItemOK
<1>2. Shape'
  BY <1>1 DEF IInv, Shape, TypeOK, LockOK, ItemOK, PC
<1>3. Available' = Available
  BY <1>1, PoolAssumption DEF IInv, Shape, TypeOK, Available
<1>4. ListsOK' /\ OnceOK'
  BY <1>3 DEF IInv, ListsOK, OnceOK
<1>5. OnePlace'
  BY DEF IInv, OnePlace, InOnePlace, With
<1> QED BY <1>2, <1>4, <1>5 DEF IInv

LEMMA UnlockAndReturnInv ==
  ASSUME IInv, NEW t \in Threads, UnlockAndReturn(t)
  PROVE  IInv'
<1> USE DEF UnlockAndReturn, Goto
<1>1. mLock = t /\ \A u \in Threads : pc[u] # "take"
  BY DEF IInv, Shape, LockOK
<1>2. Available = mAvailable /\ Available' = mAvailable
  BY <1>1, AvailableIs, PoolAssumption DEF IInv, Available
<1>3. ASSUME NEW b \in Blocks,
             b = item[t] \/ b \in fresh,
             \A u \in Threads :
               held'[u] = IF u = t THEN held[u] \cup {b} ELSE held[u],
             mNext' \in [Blocks -> Blocks \cup {NULL}],
             mNext' = mNext \/ (b \in fresh /\ mNext' = [mNext EXCEPT ![b] = NULL]),
             fresh' = fresh \ {b},
             held' \in [Threads -> SUBSET Blocks],
             item[t] = NULL \/ item[t] = b
      PROVE  IInv'
  <2>1. Shape'
    <3>1. TypeOK'
      BY <1>3 DEF IInv, Shape, TypeOK, PC
    <3>2. LockOK' /\ ItemOK'
      BY <1>1, PoolAssumption DEF IInv, Shape, TypeOK, LockOK, ItemOK
    <3> QED BY <3>1, <3>2 DEF Shape
  <2>2. ListsOK'
    <3>1. CASE mNext' = mNext
      BY <1>2, <3>1 DEF IInv, ListsOK
    <3>2. CASE b \in fresh /\ mNext' = [mNext EXCEPT ![b] = NULL]
      <4>1. ~InList(b, freeList) /\ ~InList(b, availList)
        BY <1>3, <3>2 DEF IInv, OnePlace, InOnePlace
      <4> QED BY <1>2, <3>2, <4>1, Untouched DEF IInv, Shape, TypeOK, ListsOK
    <3> QED BY <1>3, <3>1, <3>2
  <2>3. OnceOK'
    BY DEF IInv, OnceOK
  <2>4. OnePlace'
    <3>1. \A u \in Threads : item'[u] = IF u = t THEN NULL ELSE item[u]
      BY DEF IInv, Shape, TypeOK
    <3>2. InOnePlace(b)'
      <4>1. InOnePlace(b)
        BY DEF IInv, OnePlace
      <4>2. \A u \in Threads \ {t} : item[u] # b /\ b \notin held[u]
        BY <1>3, <4>1 DEF InOnePlace, With
      <4>3. \A u \in Threads : With(u, b)' <=> u = t
        BY <1>3, <3>1, <4>2, PoolAssumption DEF With
      <4>4. item'[t] # b
        BY <3>1, PoolAssumption
      <4> QED BY <1>3, <4>1, <4>3, <4>4 DEF InOnePlace, With
    <3>3. ASSUME NEW x \in Blocks, x # b
          PROVE  InOnePlace(x)'
      <4>1. \A u \in Threads : item'[u] = x <=> item[u] = x
        BY <1>3, <3>1, <3>3, PoolAssumption
      <4>2. \A u \in Threads : x \in held'[u] <=> x \in held[u]
        BY <1>3, <3>3
      <4>3. x \in fresh' <=> x \in fresh
        BY <1>3, <3>3
      <4>4. InOnePlace(x)
        BY DEF IInv, OnePlace
      <4> QED BY <4>1, <4>2, <4>3, <4>4 DEF InOnePlace, With
    <3> QED BY <3>2, <3>3 DEF OnePlace
  <2> QED BY <2>1, <2>2, <2>3, <2>4 DEF IInv
<1>4. CASE Found(t)
  <2>1. item[t] \in Blocks /\ item[t] \notin fresh
    BY <1>4 DEF IInv, Shape, TypeOK, OnePlace, InOnePlace, With, Found
  <2>2. \A u \in Threads :
          held'[u] = IF u = t THEN held[u] \cup {item[t]} ELSE held[u]
    BY <1>4 DEF IInv, Shape, TypeOK
  <2>3. held' \in [Threads -> SUBSET Blocks]
    BY <1>4, <2>1 DEF IInv, Shape, TypeOK
  <2>4. mNext' \in [Blocks -> Blocks \cup {NULL}] /\ mNext' = mNext
    BY <1>4 DEF IInv, Shape, TypeOK
  <2>5. fresh' = fresh \ {item[t]}
    BY <1>4, <2>1
  <2> QED BY <1>3, <2>1, <2>2, <2>3, <2>4, <2>5
<1>5. CASE ~Found(t)
  <2>1. PICK b \in fresh : /\ fresh' = fresh \ {b}
                           /\ mNext' = [mNext EXCEPT ![b] = NULL]
                           /\ held' = [held EXCEPT ![t] = @ \cup {b}]
    BY <1>5
  <2>2. b \in Blocks /\ item[t] = NULL
    BY <1>5 DEF IInv, Shape, TypeOK, Found
  <2>3. \A u \in Threads :
          held'[u] = IF u = t THEN held[u] \cup {b} ELSE held[u]
    BY <2>1 DEF IInv, Shape, TypeOK
  <2>4. held' \in [Threads -> SUBSET Blocks]
    BY <2>1, <2>2 DEF IInv, Shape, TypeOK
  <2>5. mNext' \in [Blocks -> Blocks \cup {NULL}]
    BY <2>1 DEF IInv, Shape, TypeOK
  <2> QED BY <1>3, <2>1, <2>2, <2>3, <2>4, <2>5
<1> QED BY <1>4, <1>5

LEMMA BeginPutInv ==
  ASSUME IInv, NEW t \in Threads, NEW b \in Blocks, BeginPut(t, b)
  PROVE  IInv'
<1> USE DEF BeginPut, Goto, listVars
<1>1. Shape'
  <2>1. TypeOK'
    BY DEF IInv, Shape, TypeOK, PC
  <2>2. LockOK' /\ ItemOK'
    BY PoolAssumption DEF IInv, Shape, TypeOK, LockOK, ItemOK
  <2> QED BY <2>1, <2>2 DEF Shape
<1>2. Available' = Available
  BY PoolAssumption DEF IInv, Shape, TypeOK, LockOK, Available
<1>3. ListsOK' /\ OnceOK'
  BY <1>2 DEF IInv, ListsOK, OnceOK
<1>4. OnePlace'
  <2>1. item[t] = NULL
    BY DEF IInv, Shape, ItemOK
  <2>2. \A u \in Threads : /\ item'[u] = IF u = t THEN b ELSE item[u]
                           /\ held'[u] = IF u = t THEN held[u] \ {b} ELSE held[u]
    BY DEF IInv, Shape, TypeOK
  <2>3. ASSUME NEW x \in Blocks
        PROVE  InOnePlace(x)'
    <3>1. InOnePlace(x)
      BY DEF IInv, OnePlace
    <3>2. \A u \in Threads : With(u, x)' <=> With(u, x)
      BY <2>1, <2>2, PoolAssumption DEF With
    <3>3. ~(item'[t] = x /\ x \in held'[t])
      BY <2>2
    <3>4. \A u \in Threads \ {t} : item'[u] = item[u] /\ held'[u] = held[u]
      BY <2>2
    <3> QED BY <3>1, <3>2, <3>3, <3>4 DEF InOnePlace
  <2> QED BY <2>3 DEF OnePlace
<1> QED BY <1>1, <1>3, <1>4 DEF IInv

LEMMA PushInv ==
  ASSUME IInv, NEW t \in Threads, Push(t)
  PROVE  IInv'
<1> USE DEF Push, Goto
<1>1. /\ item[t] \in Blocks
      /\ ~InList(item[t], freeList) /\ ~InList(item[t], availList)
      /\ \A u \in Threads \ {t} : item[u] # item[t]
  BY DEF IInv, Shape, TypeOK, ItemOK, OnePlace, InOnePlace, With
<1>2. Shape'
  <2>1. TypeOK'
    BY DEF IInv, Shape, TypeOK, PC
  <2>2. LockOK' /\ ItemOK'
    BY DEF IInv, Shape, TypeOK, LockOK, ItemOK
  <2> QED BY <2>1, <2>2 DEF Shape
<1>3. Available' = Available
  BY <1>1, PoolAssumption DEF IInv, Shape, TypeOK, LockOK, ItemOK, Available
<1>4. ListsOK' /\ OnceOK'
  <2>1. IsList(mNext', mFree, freeList) /\ IsList(mNext', Available, availList)
    BY <1>1, Untouched DEF IInv, Shape, TypeOK, ListsOK
  <2> QED BY <1>3, <2>1 DEF IInv, ListsOK, OnceOK
<1>5. OnePlace'
  BY DEF IInv, OnePlace, InOnePlace, With
<1> QED BY <1>2, <1>4, <1>5 DEF IInv

LEMMA CompareAndSwapInv ==
  ASSUME IInv, NEW t \in Threads, CompareAndSwap(t)
  PROVE  IInv'
<1> USE DEF CompareAndSwap, FreeUnchanged, Goto
<1>1. /\ item[t] \in Blocks
      /\ item[t] \notin fresh
      /\ ~InList(item[t], freeList) /\ ~InList(item[t], availList)
      /\ \A u \in Threads \ {t} : ~With(u, item[t])
      /\ item[t] \notin held[t]
  BY DEF IInv, Shape, TypeOK, ItemOK, OnePlace, InOnePlace, With
<1>2. CASE mFree = mNext[item[t]]
  <2>1. /\ freeList' \in Seq(Blocks)
        /\ IsList(mNext, item[t], freeList')
        /\ Once(freeList')
        /\ \A x : InList(x, freeList') <=> InList(x, freeList) \/ x = item[t]
    <3>1. IsList(mNext, mNext[item[t]], freeList)
      BY <1>2 DEF IInv, ListsOK
    <3>2. freeList \in Seq(Blocks) /\ Once(freeList)
      BY DEF IInv, Shape, TypeOK, OnceOK
    <3>3. freeList' = <<item[t]>> \o freeList
      BY <1>2
    <3> QED BY <1>1, <3>1, <3>2, <3>3, Pushed
  <2>2. Shape'
    <3>1. TypeOK'
      BY <1>1, <1>2, <2>1 DEF IInv, Shape, TypeOK, PC
    <3>2. LockOK' /\ ItemOK'
      BY <1>2, PoolAssumption DEF IInv, Shape, TypeOK, LockOK, ItemOK
    <3> QED BY <3>1, <3>2 DEF Shape
  <2>3. Available' = Available
    BY <1>2, PoolAssumption DEF IInv, Shape, TypeOK, LockOK, Available
  <2>4. ListsOK' /\ OnceOK'
    BY <1>2, <2>1, <2>3 DEF IInv, ListsOK, OnceOK
  <2>5. OnePlace'
    <3>1. \A u \in Threads : item'[u] = IF u = t THEN NULL ELSE item[u]
      BY <1>2 DEF IInv, Shape, TypeOK
    <3>2. ASSUME NEW b \in Blocks, b = item[t]
          PROVE  InOnePlace(b)'
      <4>1. \A u \in Threads : ~With(u, b)'
        BY <1>1, <3>1, <3>2, PoolAssumption DEF With
      <4> QED BY <1>1, <2>1, <3>2, <4>1 DEF InOnePlace
    <3>3. ASSUME NEW b \in Blocks, b # item[t]
          PROVE  InOnePlace(b)'
      <4>1. \A u \in Threads : item'[u] = b <=> item[u] = b
        BY <3>1, <3>3, PoolAssumption
      <4>2. InOnePlace(b)
        BY DEF IInv, OnePlace
      <4> QED BY <2>1, <3>3, <4>1, <4>2 DEF InOnePlace, With
    <3> QED BY <3>2, <3>3 DEF OnePlace
  <2> QED BY <2>2, <2>4, <2>5 DEF IInv
<1>3. CASE mFree # mNext[item[t]]
  <2>1. Shape'
    BY <1>3 DEF IInv, Shape, TypeOK, LockOK, ItemOK, PC
  <2>2. Available' = Available
    BY <1>3, PoolAssumption DEF IInv, Shape, TypeOK, LockOK, Available
  <2>3. ListsOK' /\ OnceOK'
    BY <1>3, <2>2 DEF IInv, ListsOK, OnceOK
  <2>4. OnePlace'
    BY <1>3 DEF IInv, OnePlace, InOnePlace, With
  <2> QED BY <2>1, <2>3, <2>4 DEF IInv
<1> QED BY <1>2, <1>3

LEMMA HandInv ==
  ASSUME IInv, NEW t \in Threads, NEW u \in Threads, NEW b \in Blocks,
         Hand(t, u, b)
  PROVE  IInv'
<1> USE DEF Hand, listVars
<1>1. Shape'
  BY DEF IInv, Shape, TypeOK, LockOK, ItemOK
<1>2. Available' = Available
  BY DEF Available
<1>3. ListsOK' /\ OnceOK'
  BY <1>2 DEF IInv, ListsOK, OnceOK
<1>4. OnePlace'
  <2>1. /\ t # u /\ b \in held[t]
        /\ held'[t] = held[t] \ {b}
        /\ held'[u] = held[u] \cup {b}
        /\ \A v \in Threads \ {t, u} : held'[v] = held[v]
        /\ item' = item /\ fresh' = fresh
        /\ freeList' = freeList /\ availList' = availList
    BY DEF IInv, Shape, TypeOK
  <2> HIDE DEF Hand
  <2>2. InOnePlace(b)'
    <3>1. InOnePlace(b)
      BY DEF IInv, OnePlace
    <3>2. \A v \in Threads : item[v] # b /\ (b \in held[v] <=> v = t)
      BY <2>1, <3>1 DEF InOnePlace, With
    <3>3. \A v \in Threads : With(v, b)' <=> v = u
      <4>1. \A v \in Threads : item'[v] # b
        BY <2>1, <3>2
      <4>2. \A v \in Threads : b \in held'[v] <=> v = u
        BY <2>1, <3>2
      <4> QED BY <4>1, <4>2 DEF With
    <3> QED BY <2>1, <3>1, <3>2, <3>3 DEF InOnePlace, With
  <2>3. ASSUME NEW x \in Blocks, x # b
        PROVE  InOnePlace(x)'
    <3>1. ASSUME NEW v \in Threads
          PROVE  x \in held'[v] <=> x \in held[v]
      <4>1. CASE v = t
        BY <2>1, <2>3, <4>1
      <4>2. CASE v = u /\ v # t
        BY <2>1, <2>3, <4>2
      <4>3. CASE v # u /\ v # t
        BY <2>1, <4>3
      <4> QED BY <4>1, <4>2, <4>3
    <3>2. InOnePlace(x)
      BY DEF IInv, OnePlace
    <3> QED BY <2>1, <3>1, <3>2 DEF InOnePlace, With
  <2> QED BY <2>2, <2>3 DEF OnePlace
<1> QED BY <1>1, <1>3, <1>4 DEF IInv

LEMMA StutterInv ==
  ASSUME IInv, UNCHANGED vars
  PROVE  IInv'
BY DEF vars, listVars, IInv, Shape, TypeOK, LockOK, ItemOK, ListsOK, Available,
       OnceOK, OnePlace, InOnePlace, With

LEMMA NextInv == IInv /\ [Next]_vars => IInv'
BY BeginGetInv, LockInv, ExchangeInv, TakeInv, UnlockAndReturnInv, BeginPutInv,
   PushInv, CompareAndSwapInv, HandInv, StutterInv DEF Next

LEMMA Invariant == Spec => []IInv
BY InitInv, NextInv, PTL DEF Spec
-----------------------------------------------------------------------------
(* Theorems. *)

\* The variables keep their types.
THEOREM TypeCorrect == Spec => []TypeOK
<1>1. IInv => TypeOK
  BY DEF IInv, Shape
<1> QED BY <1>1, Invariant, PTL

\* Racing calls of sbfPool_get and sbfPool_put never break a link of mFree or
\* mAvailable: they hold the blocks put back, in order.
THEOREM ListsCorrect == Spec => []ListsOK
<1>1. IInv => ListsOK
  BY DEF IInv
<1> QED BY <1>1, Invariant, PTL

\* No block is lost by sbfPool_put or given out twice by sbfPool_get.
THEOREM OnePlaceEach == Spec => []OnePlace
<1>1. IInv => OnePlace
  BY DEF IInv
<1> QED BY <1>1, Invariant, PTL

\* The pool implements the allocator of SbfAllocator: sbfPool_get returns a
\* block that nobody holds.
THEOREM PoolImplementsAllocator == Spec => ImplementsAllocator
<1>1. Init => Allocator!Init
  BY DEF Init, Allocator!Init
<1>2. IInv /\ [Next]_vars => [Allocator!Next]_held
  <2> SUFFICES ASSUME IInv, [Next]_vars, held' # held
               PROVE  Allocator!Next
    BY DEF Allocator!Next
  <2>1. ASSUME NEW t \in Threads, UnlockAndReturn(t)
        PROVE  Allocator!Next
    <3>1. PICK b \in Blocks : /\ held' = [held EXCEPT ![t] = @ \cup {b}]
                              /\ b = item[t] \/ b \in fresh
      BY <2>1 DEF UnlockAndReturn, Found, IInv, Shape, TypeOK
    <3>2. \A u \in Threads : b \notin held[u]
      BY <3>1 DEF IInv, OnePlace, InOnePlace, With
    <3> QED BY <3>1, <3>2 DEF Allocator!Next, Allocator!Get
  <2>2. ASSUME NEW t \in Threads, NEW b \in Blocks, BeginPut(t, b)
        PROVE  Allocator!Next
    BY <2>2 DEF BeginPut, Allocator!Next, Allocator!Put
  <2>3. ASSUME NEW t \in Threads, NEW u \in Threads, NEW b \in Blocks,
               Hand(t, u, b)
        PROVE  Allocator!Next
    BY <2>3 DEF Hand, Allocator!Next, Allocator!Hand
  <2> QED BY <2>1, <2>2, <2>3
          DEF Next, BeginGet, Lock, Exchange, Take, Push, CompareAndSwap, vars
<1> QED BY <1>1, <1>2, Invariant, PTL DEF Spec, ImplementsAllocator, Allocator!Spec
=============================================================================
