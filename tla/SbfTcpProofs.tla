---------------------------- MODULE SbfTcpProofs ----------------------------
(***************************************************************************)
(* Theorems about SbfTcp, for any number of connections and bytes: types,  *)
(* reference counts, that reading is never left switched off, and the      *)
(* order of the callbacks.                                                 *)
(***************************************************************************)
EXTENDS SbfTcp, FiniteSetTheorems, TLAPS

\* The thread is idle when no callback runs: << >> is not a callback.
LEMMA NoItem == << >> \notin Items
BY DEF Items, ConnKinds

\* What is counted in a queue is finite.
LEMMA MatchesFinite ==
  ASSUME NEW q \in Seq(Items), NEW S
  PROVE  IsFiniteSet({k \in DOMAIN q : q[k] \in S})
<1>1. DOMAIN q = 1..Len(q) /\ Len(q) \in Int
  OBVIOUS
<1>2. IsFiniteSet(DOMAIN q)
  BY <1>1, FS_Interval
<1>3. {k \in DOMAIN q : q[k] \in S} \subseteq DOMAIN q
  OBVIOUS
<1> QED BY <1>2, <1>3, FS_Subset

\* One more at the end of a queue counts once if it is in S.
LEMMA MatchesAppend ==
  ASSUME NEW q \in Seq(Items), NEW i \in Items, NEW S
  PROVE  Cardinality({k \in DOMAIN Append(q, i) : Append(q, i)[k] \in S})
         = Cardinality({k \in DOMAIN q : q[k] \in S}) + IF i \in S THEN 1 ELSE 0
<1> DEFINE A == {k \in DOMAIN q : q[k] \in S}
<1> DEFINE B == {k \in DOMAIN Append(q, i) : Append(q, i)[k] \in S}
<1> DEFINE n == Len(q) + 1
<1>1. IsFiniteSet(A) /\ Cardinality(A) \in Nat
  BY MatchesFinite, FS_CardinalityType
<1>2. n \notin A
  OBVIOUS
<1>3. CASE i \in S
  <2>1. B = A \cup {n}
    BY <1>3
  <2> HIDE DEF A, B, n
  <2>2. Cardinality(B) = Cardinality(A) + 1
    BY <2>1, <1>1, <1>2, FS_AddElement
  <2> QED BY <2>2, <1>3 DEF A, B
<1>4. CASE i \notin S
  <2>1. B = A
    BY <1>4
  <2> HIDE DEF A, B
  <2>2. Cardinality(B) = Cardinality(A) + 0
    BY <2>1, <1>1
  <2> QED BY <2>2, <1>4 DEF A, B
<1> QED BY <1>3, <1>4

\* One less at the front of a queue counted once if it was in S.
LEMMA MatchesTail ==
  ASSUME NEW q \in Seq(Items), q # << >>, NEW S
  PROVE  Cardinality({k \in DOMAIN q : q[k] \in S})
         = Cardinality({k \in DOMAIN Tail(q) : Tail(q)[k] \in S})
           + IF Head(q) \in S THEN 1 ELSE 0
<1> DEFINE A == {k \in DOMAIN q : q[k] \in S}
<1> DEFINE B == {k \in DOMAIN Tail(q) : Tail(q)[k] \in S}
<1> DEFINE C == A \ {1}
<1>1. IsFiniteSet(A) /\ Cardinality(A) \in Nat /\ IsFiniteSet(B) /\ Cardinality(B) \in Nat
  <2>1. Tail(q) \in Seq(Items)
    OBVIOUS
  <2> QED BY <2>1, MatchesFinite, FS_CardinalityType
<1>2. Cardinality(C) = Cardinality(B)
  <2> DEFINE f == [k \in B |-> k + 1]
  <2>1. /\ \A k \in B : k \in Nat /\ k + 1 \in C
        /\ \A k \in C : k - 1 \in B /\ k \in Nat
    OBVIOUS
  <2> HIDE DEF B, C
  <2>2. f \in Bijection(B, C)
    <3>1. f \in [B -> C]
      BY <2>1
    <3>2. \A a, b \in B : f[a] = f[b] => a = b
      BY <2>1
    <3>3. \A c \in C : \E b \in B : f[b] = c
      BY <2>1
    <3> HIDE DEF f
    <3> QED BY <3>1, <3>2, <3>3 DEF Bijection, Injection, Surjection, IsInjective
  <2>3. ExistsBijection(B, C)
    BY <2>2 DEF ExistsBijection
  <2> QED BY <2>3, <1>1, FS_Bijection
<1>3. CASE Head(q) \in S
  <2>1. 1 \in A
    BY <1>3
  <2> HIDE DEF A, B
  <2>2. Cardinality(C) = Cardinality(A) - 1
    BY <2>1, <1>1, FS_RemoveElement
  <2>3. Cardinality(A) = Cardinality(B) + 1
    BY <2>2, <1>2, <1>1
  <2> QED BY <2>3, <1>3 DEF A, B
<1>4. CASE Head(q) \notin S
  <2>1. C = A
    BY <1>4
  <2> HIDE DEF A, B, C
  <2>2. Cardinality(A) = Cardinality(B) + 0
    BY <2>1, <1>2, <1>1
  <2> QED BY <2>2, <1>4 DEF A, B
<1> QED BY <1>3, <1>4

-----------------------------------------------------------------------------
(* What is counted, by connection. *)

Calls(c) == Pending(Callbacks(c))
Listens == Pending(ListenerCallbacks)
Reads(c) == Queued({<<"read", c>>})
Arrivals(c) == Queued({<<"accept", c>>})

\* The callback that runs and will switch reading on.
Rearming(c) == item = <<"read", c>> /\ at \in {"callback", "queued", "enable"}

\* A callback counts for its own connection, or for the listener.
LEMMA ItemKinds ==
  /\ \A c \in Conns : \A i \in Items :
       /\ i \in Callbacks(c) <=> i[1] \notin {"accept", "listening"} /\ i[2] = c
       /\ i \in {<<"read", c>>} <=> i[1] = "read" /\ i[2] = c
       /\ i \in {<<"accept", c>>} <=> i[1] = "accept" /\ i[2] = c
  /\ \A i \in Items :
       /\ i \in ListenerCallbacks <=> i[1] \in {"accept", "listening"}
       /\ i[1] # "listening" => i[2] \in Conns
       /\ i[1] \in ConnKinds \cup {"listening"}
  /\ \A k \in ConnKinds, c \in Conns :
       <<k, c>> \in Items /\ <<k, c>>[1] = k /\ <<k, c>>[2] = c
  /\ <<"listening", NULL>> \in Items
  /\ << >> \notin Items
BY NoItem, TcpAssumption DEF Items, ConnKinds, Callbacks, ListenerCallbacks

\* A callback is queued.
LEMMA CountEnqueue ==
  ASSUME TypeOK, NEW i \in Items, queue' = Append(queue, i), item' = item
  PROVE  /\ Listens' = Listens + IF i[1] \in {"accept", "listening"} THEN 1 ELSE 0
         /\ \A c \in Conns :
              /\ Calls(c)' = Calls(c) + IF i[1] \notin {"accept", "listening"} /\ i[2] = c
                                        THEN 1 ELSE 0
              /\ Reads(c)' = Reads(c) + IF i[1] = "read" /\ i[2] = c THEN 1 ELSE 0
              /\ Arrivals(c)' = Arrivals(c) + IF i[1] = "accept" /\ i[2] = c THEN 1 ELSE 0
         /\ queue' \in Seq(Items)
<1>1. queue \in Seq(Items)
  BY DEF TypeOK
<1>2. \A S : Queued(S)' = Queued(S) + IF i \in S THEN 1 ELSE 0
  BY <1>1, MatchesAppend DEF Queued
<1>3. \A S : Queued(S) \in Nat
  BY <1>1, MatchesFinite, FS_CardinalityType DEF Queued
<1>4. \A S : Pending(S)' = Pending(S) + IF i \in S THEN 1 ELSE 0
  BY <1>2, <1>3 DEF Pending
<1> QED BY <1>1, <1>2, <1>4, ItemKinds DEF Calls, Listens, Reads, Arrivals

\* The first callback is taken from the queue and runs.
LEMMA CountTake ==
  ASSUME TypeOK, queue # << >>, item = << >>, item' = Head(queue), queue' = Tail(queue)
  PROVE  /\ Listens' = Listens
         /\ \A c \in Conns :
              /\ Calls(c)' = Calls(c)
              /\ Reads(c) = Reads(c)' + IF item' = <<"read", c>> THEN 1 ELSE 0
              /\ Arrivals(c) = Arrivals(c)' + IF item' = <<"accept", c>> THEN 1 ELSE 0
              /\ Reads(c)' \in Nat /\ Arrivals(c)' \in Nat
         /\ queue' \in Seq(Items) /\ item' \in Items
<1>1. queue \in Seq(Items) /\ queue' \in Seq(Items) /\ item' \in Items
  BY DEF TypeOK
<1>2. \A S : Queued(S) = Queued(S)' + IF item' \in S THEN 1 ELSE 0
  <2> TAKE S
  <2>1. Cardinality({k \in DOMAIN queue : queue[k] \in S})
        = Cardinality({k \in DOMAIN Tail(queue) : Tail(queue)[k] \in S})
          + IF Head(queue) \in S THEN 1 ELSE 0
    BY <1>1, MatchesTail
  <2> QED BY <2>1 DEF Queued
<1>3. \A S : Queued(S) \in Nat /\ Queued(S)' \in Nat
  BY <1>1, MatchesFinite, FS_CardinalityType DEF Queued
<1>4. item' # << >>
  BY <1>1, NoItem
<1>5. \A S : Pending(S)' = Pending(S)
  BY <1>2, <1>3, <1>4 DEF Pending
<1> QED BY <1>1, <1>2, <1>3, <1>5 DEF Calls, Listens, Reads, Arrivals

\* The callback that runs is done.
LEMMA CountFinish ==
  ASSUME TypeOK, item \in Items, item' = << >>, queue' = queue
  PROVE  /\ Listens' = Listens - IF item[1] \in {"accept", "listening"} THEN 1 ELSE 0
         /\ \A c \in Conns :
              /\ Calls(c)' = Calls(c) - IF item[1] \notin {"accept", "listening"} /\ item[2] = c
                                        THEN 1 ELSE 0
              /\ Reads(c)' = Reads(c)
              /\ Arrivals(c)' = Arrivals(c)
              /\ Calls(c)' \in Nat
         /\ Listens' \in Nat
<1>1. queue \in Seq(Items) /\ item # << >>
  BY NoItem DEF TypeOK
<1>2. \A S : Queued(S)' = Queued(S)
  BY DEF Queued
<1>3. \A S : Queued(S) \in Nat
  BY <1>1, MatchesFinite, FS_CardinalityType DEF Queued
<1>4. \A S : /\ Pending(S)' = Pending(S) - IF item \in S THEN 1 ELSE 0
             /\ Pending(S)' \in Nat
  BY <1>1, <1>2, <1>3 DEF Pending
<1> QED BY <1>1, <1>2, <1>4, ItemKinds DEF Calls, Listens, Reads, Arrivals

\* The queue and what runs are left alone.
LEMMA CountSame ==
  ASSUME item' = item, queue' = queue
  PROVE  /\ Listens' = Listens
         /\ \A c \in Conns : /\ Calls(c)' = Calls(c)
                             /\ Reads(c)' = Reads(c)
                             /\ Arrivals(c)' = Arrivals(c)
BY DEF Listens, Calls, Reads, Arrivals, Pending, Queued

\* Counts are natural numbers.
LEMMA CountType ==
  ASSUME TypeOK
  PROVE  /\ Listens \in Nat
         /\ \A c \in Conns : Calls(c) \in Nat /\ Reads(c) \in Nat /\ Arrivals(c) \in Nat
<1>1. \A S : Queued(S) \in Nat
  BY MatchesFinite, FS_CardinalityType DEF Queued, TypeOK
<1> QED BY <1>1 DEF Listens, Calls, Reads, Arrivals, Pending

\* The callbacks of a connection, by name.
LEMMA ConnKindsOK == {"ready", "error", "eof", "read", "accept"} \subseteq ConnKinds
BY DEF ConnKinds


-----------------------------------------------------------------------------
(* The type invariant, in three parts. *)

ConnType ==
  /\ memory \in [Conns -> {"none", "held", "freed"}]
  /\ mSocket \in [Conns -> {"none", "open", "closed"}]
  /\ mRefCount \in [Conns -> Int]
  /\ mQueued \subseteq Conns /\ mDestroyed \subseteq Conns
  /\ mEvent \in [Conns -> {"none", "null", "connecting", "open", "broken", "failed", "freed"}]
  /\ reading \subseteq Conns
  /\ owned \subseteq Conns

BytesType ==
  /\ sent \in [Conns -> Nat] /\ read \in [Conns -> Nat]
  /\ offered \in [Conns -> Nat]
  /\ \A c \in Conns : offered[c] <= read[c] /\ read[c] <= sent[c]
  /\ ended \subseteq Conns

RestType ==
  /\ listener \in {"none", "open", "destroyed", "freed"}
  /\ listenerRefs \in Nat /\ accepting \in Incoming \cup {NULL}
  /\ queue \in Seq(Items)
  /\ item \in Items \cup {<< >>}
  /\ at \in {"idle", "callback", "queued", "enable", "release"}
  /\ destroying \in Conns \cup {NULL}

\* The type invariant is its three parts ...
LEMMA TypeParts == TypeOK <=> ConnType /\ BytesType /\ RestType
BY DEF TypeOK, ConnType, BytesType, RestType

\* ... also after a step.
LEMMA TypePartsNext ==
  ASSUME ConnType', BytesType', RestType'
  PROVE  TypeOK'
BY DEF TypeOK, ConnType, BytesType, RestType

\* A step that moves no byte keeps the type of what is counted in bytes.
LEMMA BytesSame ==
  ASSUME TypeOK, UNCHANGED byteVars
  PROVE  BytesType'
BY TypeParts DEF BytesType, byteVars

-----------------------------------------------------------------------------
(* The inductive invariant. *)

\* RefsOK for connection c and for the listener, in these terms.
CountOK(c) ==
  mEvent[c] # "none" =>
    /\ mRefCount[c] = Calls(c) + IF c \in owned \/ c = destroying THEN 1 ELSE 0
    /\ memory[c] = "held" <=> mRefCount[c] > 0

ListenerOK ==
  /\ listenerRefs = Listens + IF listener = "open" THEN 1 ELSE 0
  /\ listener \in {"open", "destroyed"} <=> listenerRefs > 0

\* How far a connection has come: not there, arrived, with the application,
\* destroyed.
LifeOK(c) ==
  /\ memory[c] = "none" => /\ mEvent[c] = "none" /\ mRefCount[c] = 0
                           /\ Arrivals(c) = 0 /\ c \notin owned /\ c \notin mDestroyed
  /\ c \in owned => c \notin mDestroyed /\ memory[c] = "held"
  /\ c = destroying => c \in mDestroyed /\ c \notin owned
  /\ mEvent[c] = "none" => Calls(c) = 0
  /\ mEvent[c] # "none" => c \in owned \/ c \in mDestroyed
  /\ c \in reading \/ mEvent[c] \in {"connecting", "open", "broken"} =>
       mEvent[c] # "none" /\ (c \in owned \/ c = destroying)
  /\ Arrivals(c) > 0 =>
       /\ Arrivals(c) = 1 /\ memory[c] = "held" /\ mEvent[c] = "none"
       /\ mRefCount[c] = 0 /\ c \notin owned /\ c \notin mDestroyed

\* Nothing is read before the connection is established.
QuietOK(c) ==
  mEvent[c] \in {"none", "null", "connecting"} =>
    Reads(c) = 0 /\ c \notin mQueued /\ c \notin reading /\ ~Rearming(c)

\* ReadArmed for connection c, in these terms.
ArmedOK(c) ==
  mEvent[c] \in {"open", "broken"} /\ c \notin mDestroyed =>
    /\ c \in reading => Reads(c) = 0 /\ ~Rearming(c) /\ c \notin mQueued
    /\ c \notin reading => /\ Reads(c) = IF Rearming(c) THEN 0 ELSE 1
                           /\ c \in mQueued <=> ~(Rearming(c) /\ at = "enable")

ConnOK(c) == CountOK(c) /\ LifeOK(c) /\ QuietOK(c) /\ ArmedOK(c)

\* Where the thread of the queue is.
ThreadOK ==
  /\ at = "idle" <=> item = << >>
  /\ at \in {"queued", "enable"} => item[1] = "read" /\ item[2] \notin mDestroyed
  /\ destroying # NULL => at \in {"idle", "callback"}

\* A connection that sbfTcpListenerEventCb has been called with is not there yet.
Arriving == accepting # NULL => memory[accepting] = "none" /\ listener # "none"

IInv == TypeOK /\ ListenerOK /\ ThreadOK /\ \A c \in Conns : ConnOK(c)

\* A step that leaves connection d alone.
SameConn(d) ==
  /\ memory'[d] = memory[d] /\ mRefCount'[d] = mRefCount[d] /\ mEvent'[d] = mEvent[d]
  /\ d \in mQueued' <=> d \in mQueued
  /\ d \in mDestroyed' <=> d \in mDestroyed
  /\ d \in reading' <=> d \in reading
  /\ d \in owned' <=> d \in owned
  /\ d = destroying' <=> d = destroying
  /\ Rearming(d)' <=> Rearming(d)
  /\ Rearming(d) => at' = at
  /\ Calls(d)' = Calls(d) /\ Reads(d)' = Reads(d) /\ Arrivals(d)' = Arrivals(d)

\* What a step leaves alone stays as it was.
LEMMA SameConnOK ==
  ASSUME NEW d \in Conns, ConnOK(d), SameConn(d)
  PROVE  ConnOK(d)'
BY DEF ConnOK, SameConn, CountOK, LifeOK, QuietOK, ArmedOK

\* The parts of the invariant, as the lemmas below use them.
LEMMA Unpack ==
  ASSUME IInv
  PROVE  /\ TypeOK /\ ConnType /\ BytesType /\ RestType
         /\ ListenerOK /\ ThreadOK /\ \A d \in Conns : ConnOK(d)
         /\ Listens \in Nat /\ listenerRefs \in Nat
         /\ \A d \in Conns : /\ Calls(d) \in Nat /\ Reads(d) \in Nat /\ Arrivals(d) \in Nat
                             /\ mRefCount[d] \in Int
<1>1. TypeOK /\ ConnType /\ BytesType /\ RestType
  BY TypeParts DEF IInv
<1>2. \A d \in Conns : mRefCount[d] \in Int
  BY <1>1 DEF ConnType
<1> QED BY <1>1, <1>2, CountType DEF IInv, RestType

-----------------------------------------------------------------------------
(* The actions, one by one: each keeps the invariant. *)

LEMMA CreateInv ==
  ASSUME IInv, NEW c \in Conns, Create(c)
  PROVE  IInv'
<1>1. /\ Listens' = Listens
      /\ \A d \in Conns :
           Calls(d)' = Calls(d) /\ Reads(d)' = Reads(d) /\ Arrivals(d)' = Arrivals(d)
      /\ queue' \in Seq(Items)
  BY CountSame, Unpack
     DEF Create, New, connVars, eventVars, byteVars, listenerVars, threadVars, RestType
<1>2. TypeOK'
  <2>1. ConnType'
    BY Unpack
       DEF Create, New, connVars, eventVars, byteVars, listenerVars, threadVars, ConnType
  <2>2. BytesType'
    BY Unpack, BytesSame DEF Create
  <2>3. RestType'
    BY Unpack, <1>1
       DEF Create, New, connVars, eventVars, byteVars, listenerVars, threadVars, RestType,
           ListenerOK
  <2> QED BY <2>1, <2>2, <2>3, TypePartsNext
<1>3. \A d \in Conns \ {c} : SameConn(d)
  <2> SUFFICES ASSUME NEW d \in Conns, d # c PROVE SameConn(d)
    OBVIOUS
  <2>1. /\ memory'[d] = memory[d] /\ mRefCount'[d] = mRefCount[d] /\ mEvent'[d] = mEvent[d]
    BY Unpack
       DEF Create, New, connVars, eventVars, byteVars, listenerVars, threadVars, ConnType
  <2>2. /\ d \in mQueued' <=> d \in mQueued
        /\ d \in mDestroyed' <=> d \in mDestroyed
        /\ d \in reading' <=> d \in reading
        /\ d \in owned' <=> d \in owned
        /\ d = destroying' <=> d = destroying
    BY TcpAssumption
       DEF Create, New, connVars, eventVars, byteVars, listenerVars, threadVars, Calling
  <2>3. item' = item /\ at' = at
    BY DEF Create, threadVars
  <2>4. /\ Rearming(d)' <=> Rearming(d)
        /\ Rearming(d) => at' = at
    BY <2>3 DEF Rearming
  <2> QED BY Unpack, <1>1, <2>1, <2>2, <2>4 DEF SameConn
<1>4. ConnOK(c)'
  <2>1. /\ memory'[c] = "held"
        /\ mRefCount'[c] = 1
        /\ mEvent'[c] = "connecting"
        /\ c \in owned'
        /\ UNCHANGED <<mQueued, mDestroyed, reading, destroying, item, at>>
    BY Unpack, TcpAssumption
       DEF Create, New, connVars, eventVars, byteVars, listenerVars, threadVars, ConnType,
           Calling, ThreadOK
  <2>2. ConnOK(c)
    BY Unpack
  <2>3. CountOK(c)'
    BY Unpack, <1>1, <2>1, <2>2
       DEF Create, New, Calling, ConnOK, CountOK, LifeOK, QuietOK, ArmedOK, Rearming,
           ThreadOK
  <2>4. LifeOK(c)'
    BY Unpack, <1>1, <2>1, <2>2
       DEF Create, New, Calling, ConnOK, CountOK, LifeOK, QuietOK, ArmedOK, Rearming,
           ThreadOK
  <2>5. QuietOK(c)'
    BY Unpack, <1>1, <2>1, <2>2
       DEF Create, New, Calling, ConnOK, CountOK, LifeOK, QuietOK, ArmedOK, Rearming,
           ThreadOK
  <2>6. ArmedOK(c)'
    BY Unpack, <1>1, <2>1, <2>2
       DEF Create, New, Calling, ConnOK, CountOK, LifeOK, QuietOK, ArmedOK, Rearming,
           ThreadOK
  <2> QED BY <2>3, <2>4, <2>5, <2>6 DEF ConnOK
<1>5. ListenerOK' /\ ThreadOK'
  BY Unpack, <1>1
     DEF Create, New, connVars, eventVars, byteVars, listenerVars, threadVars, ConnType,
         RestType, ListenerOK, ThreadOK, Calling, ConnOK, LifeOK
<1>6. \A d \in Conns : ConnOK(d)'
  <2> SUFFICES ASSUME NEW d \in Conns, d # c PROVE ConnOK(d)'
    BY <1>4
  <2> QED BY Unpack, <1>3, SameConnOK
<1> QED BY <1>2, <1>5, <1>6 DEF IInv

LEMMA CreateFailsInv ==
  ASSUME IInv, NEW c \in Conns, CreateFails(c)
  PROVE  IInv'
<1>1. /\ Listens' = Listens
      /\ \A d \in Conns :
           Calls(d)' = Calls(d) /\ Reads(d)' = Reads(d) /\ Arrivals(d)' = Arrivals(d)
      /\ queue' \in Seq(Items)
  BY CountSame, Unpack
     DEF CreateFails, New, connVars, eventVars, byteVars, listenerVars, threadVars, RestType
<1>2. TypeOK'
  <2>1. ConnType'
    BY Unpack
       DEF CreateFails, New, connVars, eventVars, byteVars, listenerVars, threadVars,
           ConnType
  <2>2. BytesType'
    BY Unpack, BytesSame DEF CreateFails
  <2>3. RestType'
    BY Unpack, <1>1
       DEF CreateFails, New, connVars, eventVars, byteVars, listenerVars, threadVars,
           RestType, ListenerOK
  <2> QED BY <2>1, <2>2, <2>3, TypePartsNext
<1>3. \A d \in Conns \ {c} : SameConn(d)
  <2> SUFFICES ASSUME NEW d \in Conns, d # c PROVE SameConn(d)
    OBVIOUS
  <2>1. /\ memory'[d] = memory[d] /\ mRefCount'[d] = mRefCount[d] /\ mEvent'[d] = mEvent[d]
    BY Unpack
       DEF CreateFails, New, connVars, eventVars, byteVars, listenerVars, threadVars,
           ConnType
  <2>2. /\ d \in mQueued' <=> d \in mQueued
        /\ d \in mDestroyed' <=> d \in mDestroyed
        /\ d \in reading' <=> d \in reading
        /\ d \in owned' <=> d \in owned
        /\ d = destroying' <=> d = destroying
    BY TcpAssumption
       DEF CreateFails, New, connVars, eventVars, byteVars, listenerVars, threadVars,
           Calling
  <2>3. item' = item /\ at' = at
    BY DEF CreateFails, threadVars
  <2>4. /\ Rearming(d)' <=> Rearming(d)
        /\ Rearming(d) => at' = at
    BY <2>3 DEF Rearming
  <2> QED BY Unpack, <1>1, <2>1, <2>2, <2>4 DEF SameConn
<1>4. ConnOK(c)'
  <2>1. /\ memory'[c] = "freed"
        /\ mEvent'[c] = "freed"
        /\ c \in mDestroyed'
        /\ UNCHANGED <<mRefCount, mQueued, reading, owned, destroying, item, at>>
    BY Unpack, TcpAssumption
       DEF CreateFails, New, connVars, eventVars, byteVars, listenerVars, threadVars,
           ConnType, Calling, ThreadOK
  <2>2. ConnOK(c)
    BY Unpack
  <2>3. CountOK(c)'
    BY Unpack, <1>1, <2>1, <2>2
       DEF CreateFails, New, Calling, ConnOK, CountOK, LifeOK, QuietOK, ArmedOK, Rearming,
           ThreadOK
  <2>4. LifeOK(c)'
    BY Unpack, <1>1, <2>1, <2>2
       DEF CreateFails, New, Calling, ConnOK, CountOK, LifeOK, QuietOK, ArmedOK, Rearming,
           ThreadOK
  <2>5. QuietOK(c)'
    BY Unpack, <1>1, <2>1, <2>2
       DEF CreateFails, New, Calling, ConnOK, CountOK, LifeOK, QuietOK, ArmedOK, Rearming,
           ThreadOK
  <2>6. ArmedOK(c)'
    BY Unpack, <1>1, <2>1, <2>2
       DEF CreateFails, New, Calling, ConnOK, CountOK, LifeOK, QuietOK, ArmedOK, Rearming,
           ThreadOK
  <2> QED BY <2>3, <2>4, <2>5, <2>6 DEF ConnOK
<1>5. ListenerOK' /\ ThreadOK'
  BY Unpack, <1>1
     DEF CreateFails, New, connVars, eventVars, byteVars, listenerVars, threadVars,
         ConnType, RestType, ListenerOK, ThreadOK, Calling, ConnOK, LifeOK
<1>6. \A d \in Conns : ConnOK(d)'
  <2> SUFFICES ASSUME NEW d \in Conns, d # c PROVE ConnOK(d)'
    BY <1>4
  <2> QED BY Unpack, <1>3, SameConnOK
<1> QED BY <1>2, <1>5, <1>6 DEF IInv

LEMMA AcceptInv ==
  ASSUME IInv, NEW c \in Conns, Accept(c)
  PROVE  IInv'
<1>1. /\ Listens' = Listens
      /\ \A d \in Conns :
           Calls(d)' = Calls(d) /\ Reads(d)' = Reads(d) /\ Arrivals(d)' = Arrivals(d)
      /\ queue' \in Seq(Items)
  BY CountSame, Unpack
     DEF Accept, connVars, eventVars, byteVars, listenerVars, threadVars, RestType
<1>2. TypeOK'
  <2>1. ConnType'
    BY Unpack DEF Accept, connVars, eventVars, byteVars, listenerVars, threadVars, ConnType
  <2>2. BytesType'
    BY Unpack, BytesSame DEF Accept
  <2>3. RestType'
    BY Unpack, <1>1
       DEF Accept, connVars, eventVars, byteVars, listenerVars, threadVars, RestType,
           ListenerOK
  <2> QED BY <2>1, <2>2, <2>3, TypePartsNext
<1>3. \A d \in Conns \ {c} : SameConn(d)
  <2> SUFFICES ASSUME NEW d \in Conns, d # c PROVE SameConn(d)
    OBVIOUS
  <2>1. /\ memory'[d] = memory[d] /\ mRefCount'[d] = mRefCount[d] /\ mEvent'[d] = mEvent[d]
    BY Unpack DEF Accept, connVars, eventVars, byteVars, listenerVars, threadVars, ConnType
  <2>2. /\ d \in mQueued' <=> d \in mQueued
        /\ d \in mDestroyed' <=> d \in mDestroyed
        /\ d \in reading' <=> d \in reading
        /\ d \in owned' <=> d \in owned
        /\ d = destroying' <=> d = destroying
    BY TcpAssumption
       DEF Accept, connVars, eventVars, byteVars, listenerVars, threadVars, Calling
  <2>3. item' = item /\ at' = at
    BY DEF Accept, threadVars
  <2>4. /\ Rearming(d)' <=> Rearming(d)
        /\ Rearming(d) => at' = at
    BY <2>3 DEF Rearming
  <2> QED BY Unpack, <1>1, <2>1, <2>2, <2>4 DEF SameConn
<1>4. ConnOK(c)'
  <2>1. /\ mRefCount'[c] = 1 /\ mRefCount[c] = 0
        /\ UNCHANGED <<memory, mQueued, mDestroyed, owned, destroying, item, at>>
    BY Unpack DEF Accept, connVars, threadVars, ConnType
  <2>2. \/ mEvent'[c] = "open" /\ c \in reading'
        \/ mEvent'[c] = "null" /\ reading' = reading
    BY Unpack DEF Accept, ConnType
  <2>3. /\ mEvent[c] = "none" /\ memory[c] = "held" /\ c \in owned /\ c \notin mDestroyed
        /\ Reads(c) = 0 /\ c \notin mQueued /\ ~Rearming(c) /\ Calls(c) = 0
    BY Unpack, <2>1 DEF Accept, ConnOK, CountOK, LifeOK, QuietOK
  <2>4. ConnOK(c)
    BY Unpack
  <2>5. CountOK(c)'
    BY Unpack, <1>1, <2>1, <2>2, <2>3, <2>4
       DEF Accept, Calling, ConnOK, CountOK, LifeOK, QuietOK, ArmedOK, Rearming, ThreadOK
  <2>6. LifeOK(c)'
    BY Unpack, <1>1, <2>1, <2>2, <2>3, <2>4
       DEF Accept, Calling, ConnOK, CountOK, LifeOK, QuietOK, ArmedOK, Rearming, ThreadOK
  <2>7. QuietOK(c)'
    BY Unpack, <1>1, <2>1, <2>2, <2>3, <2>4
       DEF Accept, Calling, ConnOK, CountOK, LifeOK, QuietOK, ArmedOK, Rearming, ThreadOK
  <2>8. ArmedOK(c)'
    BY Unpack, <1>1, <2>1, <2>2, <2>3, <2>4
       DEF Accept, Calling, ConnOK, CountOK, LifeOK, QuietOK, ArmedOK, Rearming, ThreadOK
  <2> QED BY <2>5, <2>6, <2>7, <2>8 DEF ConnOK
<1>5. ListenerOK' /\ ThreadOK'
  BY Unpack, <1>1
     DEF Accept, connVars, eventVars, byteVars, listenerVars, threadVars, ConnType,
         RestType, ListenerOK, ThreadOK, Calling, ConnOK, LifeOK
<1>6. \A d \in Conns : ConnOK(d)'
  <2> SUFFICES ASSUME NEW d \in Conns, d # c PROVE ConnOK(d)'
    BY <1>4
  <2> QED BY Unpack, <1>3, SameConnOK
<1> QED BY <1>2, <1>5, <1>6 DEF IInv

LEMMA DestroyMarkInv ==
  ASSUME IInv, NEW c \in Conns, DestroyMark(c)
  PROVE  IInv'
<1>1. /\ Listens' = Listens
      /\ \A d \in Conns :
           Calls(d)' = Calls(d) /\ Reads(d)' = Reads(d) /\ Arrivals(d)' = Arrivals(d)
      /\ queue' \in Seq(Items)
  BY CountSame, Unpack
     DEF DestroyMark, connVars, eventVars, byteVars, listenerVars, threadVars, RestType
<1>2. TypeOK'
  <2>1. ConnType'
    BY Unpack
       DEF DestroyMark, connVars, eventVars, byteVars, listenerVars, threadVars, ConnType
  <2>2. BytesType'
    BY Unpack, BytesSame DEF DestroyMark
  <2>3. RestType'
    BY Unpack, <1>1
       DEF DestroyMark, connVars, eventVars, byteVars, listenerVars, threadVars, RestType,
           ListenerOK
  <2> QED BY <2>1, <2>2, <2>3, TypePartsNext
<1>3. \A d \in Conns \ {c} : SameConn(d)
  <2> SUFFICES ASSUME NEW d \in Conns, d # c PROVE SameConn(d)
    OBVIOUS
  <2>1. /\ memory'[d] = memory[d] /\ mRefCount'[d] = mRefCount[d] /\ mEvent'[d] = mEvent[d]
    BY Unpack
       DEF DestroyMark, connVars, eventVars, byteVars, listenerVars, threadVars, ConnType
  <2>2. /\ d \in mQueued' <=> d \in mQueued
        /\ d \in mDestroyed' <=> d \in mDestroyed
        /\ d \in reading' <=> d \in reading
        /\ d \in owned' <=> d \in owned
        /\ d = destroying' <=> d = destroying
    BY TcpAssumption
       DEF DestroyMark, connVars, eventVars, byteVars, listenerVars, threadVars, Calling
  <2>3. item' = item /\ at' = at
    BY DEF DestroyMark, threadVars
  <2>4. /\ Rearming(d)' <=> Rearming(d)
        /\ Rearming(d) => at' = at
    BY <2>3 DEF Rearming
  <2> QED BY Unpack, <1>1, <2>1, <2>2, <2>4 DEF SameConn
<1>4. ConnOK(c)'
  <2>1. /\ c \in mDestroyed'
        /\ c \in owned /\ c \notin owned'
        /\ destroying' = c
        /\ UNCHANGED <<memory, mRefCount, mQueued, mEvent, reading, item, at>>
    BY Unpack, TcpAssumption
       DEF DestroyMark, connVars, eventVars, byteVars, listenerVars, threadVars, ConnType,
           Calling, ThreadOK
  <2>2. ConnOK(c)
    BY Unpack
  <2>3. CountOK(c)'
    BY Unpack, <1>1, <2>1, <2>2
       DEF DestroyMark, Calling, ConnOK, CountOK, LifeOK, QuietOK, ArmedOK, Rearming,
           ThreadOK
  <2>4. LifeOK(c)'
    BY Unpack, <1>1, <2>1, <2>2
       DEF DestroyMark, Calling, ConnOK, CountOK, LifeOK, QuietOK, ArmedOK, Rearming,
           ThreadOK
  <2>5. QuietOK(c)'
    BY Unpack, <1>1, <2>1, <2>2
       DEF DestroyMark, Calling, ConnOK, CountOK, LifeOK, QuietOK, ArmedOK, Rearming,
           ThreadOK
  <2>6. ArmedOK(c)'
    BY Unpack, <1>1, <2>1, <2>2
       DEF DestroyMark, Calling, ConnOK, CountOK, LifeOK, QuietOK, ArmedOK, Rearming,
           ThreadOK
  <2> QED BY <2>3, <2>4, <2>5, <2>6 DEF ConnOK
<1>5. ListenerOK' /\ ThreadOK'
  BY Unpack, <1>1
     DEF DestroyMark, connVars, eventVars, byteVars, listenerVars, threadVars, ConnType,
         RestType, ListenerOK, ThreadOK, Calling, ConnOK, LifeOK
<1>6. \A d \in Conns : ConnOK(d)'
  <2> SUFFICES ASSUME NEW d \in Conns, d # c PROVE ConnOK(d)'
    BY <1>4
  <2> QED BY Unpack, <1>3, SameConnOK
<1> QED BY <1>2, <1>5, <1>6 DEF IInv

LEMMA DestroyFreeInv ==
  ASSUME IInv, NEW c \in Conns, c = destroying, DestroyFree
  PROVE  IInv'
<1>1. /\ Listens' = Listens
      /\ \A d \in Conns :
           Calls(d)' = Calls(d) /\ Reads(d)' = Reads(d) /\ Arrivals(d)' = Arrivals(d)
      /\ queue' \in Seq(Items)
  BY CountSame, Unpack
     DEF DestroyFree, Release, connVars, eventVars, byteVars, listenerVars, threadVars,
         RestType
<1>2. TypeOK'
  <2>1. ConnType'
    BY Unpack
       DEF DestroyFree, Release, connVars, eventVars, byteVars, listenerVars, threadVars,
           ConnType
  <2>2. BytesType'
    BY Unpack, BytesSame DEF DestroyFree
  <2>3. RestType'
    BY Unpack, <1>1
       DEF DestroyFree, Release, connVars, eventVars, byteVars, listenerVars, threadVars,
           RestType, ListenerOK
  <2> QED BY <2>1, <2>2, <2>3, TypePartsNext
<1>3. \A d \in Conns \ {c} : SameConn(d)
  <2> SUFFICES ASSUME NEW d \in Conns, d # c PROVE SameConn(d)
    OBVIOUS
  <2>1. /\ memory'[d] = memory[d] /\ mRefCount'[d] = mRefCount[d] /\ mEvent'[d] = mEvent[d]
    BY Unpack
       DEF DestroyFree, Release, connVars, eventVars, byteVars, listenerVars, threadVars,
           ConnType
  <2>2. /\ d \in mQueued' <=> d \in mQueued
        /\ d \in mDestroyed' <=> d \in mDestroyed
        /\ d \in reading' <=> d \in reading
        /\ d \in owned' <=> d \in owned
        /\ d = destroying' <=> d = destroying
    BY TcpAssumption
       DEF DestroyFree, Release, connVars, eventVars, byteVars, listenerVars, threadVars,
           Calling
  <2>3. item' = item /\ at' = at
    BY DEF DestroyFree, threadVars
  <2>4. /\ Rearming(d)' <=> Rearming(d)
        /\ Rearming(d) => at' = at
    BY <2>3 DEF Rearming
  <2> QED BY Unpack, <1>1, <2>1, <2>2, <2>4 DEF SameConn
<1>4. ConnOK(c)'
  <2>1. /\ mEvent'[c] = IF mEvent[c] \in {"none", "null"} THEN mEvent[c] ELSE "freed"
        /\ c \notin reading'
        /\ mRefCount'[c] = mRefCount[c] - 1
        /\ memory'[c] = IF mRefCount[c] = 1 THEN "freed" ELSE memory[c]
        /\ destroying = c /\ destroying' # c
        /\ UNCHANGED <<mQueued, mDestroyed, owned, item, at>>
    BY Unpack, TcpAssumption
       DEF DestroyFree, Release, connVars, eventVars, byteVars, listenerVars, threadVars,
           ConnType, Calling, ThreadOK
  <2>2. ConnOK(c)
    BY Unpack
  <2>3. CountOK(c)'
    BY Unpack, <1>1, <2>1, <2>2
       DEF DestroyFree, Calling, ConnOK, CountOK, LifeOK, QuietOK, ArmedOK, Rearming,
           ThreadOK
  <2>4. LifeOK(c)'
    BY Unpack, <1>1, <2>1, <2>2
       DEF DestroyFree, Calling, ConnOK, CountOK, LifeOK, QuietOK, ArmedOK, Rearming,
           ThreadOK
  <2>5. QuietOK(c)'
    BY Unpack, <1>1, <2>1, <2>2
       DEF DestroyFree, Calling, ConnOK, CountOK, LifeOK, QuietOK, ArmedOK, Rearming,
           ThreadOK
  <2>6. ArmedOK(c)'
    BY Unpack, <1>1, <2>1, <2>2
       DEF DestroyFree, Calling, ConnOK, CountOK, LifeOK, QuietOK, ArmedOK, Rearming,
           ThreadOK
  <2> QED BY <2>3, <2>4, <2>5, <2>6 DEF ConnOK
<1>5. ListenerOK' /\ ThreadOK'
  BY Unpack, <1>1
     DEF DestroyFree, Release, connVars, eventVars, byteVars, listenerVars, threadVars,
         ConnType, RestType, ListenerOK, ThreadOK, Calling, ConnOK, LifeOK
<1>6. \A d \in Conns : ConnOK(d)'
  <2> SUFFICES ASSUME NEW d \in Conns, d # c PROVE ConnOK(d)'
    BY <1>4
  <2> QED BY Unpack, <1>3, SameConnOK
<1> QED BY <1>2, <1>5, <1>6 DEF IInv

LEMMA ListenerCreateInv ==
  ASSUME IInv, ListenerCreate
  PROVE  IInv'
<1>1. /\ Listens' = Listens + 1
      /\ \A d \in Conns :
           /\ Calls(d)' = Calls(d) + 0
           /\ Reads(d)' = Reads(d) + 0
           /\ Arrivals(d)' = Arrivals(d) + 0
      /\ queue' \in Seq(Items)
  <2> DEFINE i == <<"listening", NULL>>
  <2>1. i \in Items /\ i[1] = "listening" /\ i[2] = NULL
    BY ItemKinds, ConnKindsOK
  <2>2. queue' = Append(queue, i) /\ item' = item
    BY DEF ListenerCreate, connVars, eventVars, byteVars, listenerVars, threadVars
  <2> HIDE DEF i
  <2> QED BY Unpack, <2>1, <2>2, CountEnqueue
<1>2. TypeOK'
  <2>1. ConnType'
    BY Unpack
       DEF ListenerCreate, connVars, eventVars, byteVars, listenerVars, threadVars, ConnType
  <2>2. BytesType'
    BY Unpack, BytesSame DEF ListenerCreate
  <2>3. RestType'
    BY Unpack, <1>1
       DEF ListenerCreate, connVars, eventVars, byteVars, listenerVars, threadVars,
           RestType, ListenerOK
  <2> QED BY <2>1, <2>2, <2>3, TypePartsNext
<1>3. \A d \in Conns : SameConn(d)
  BY Unpack, <1>1
     DEF ListenerCreate, connVars, eventVars, byteVars, listenerVars, threadVars, SameConn,
         ConnType, Rearming, Calling, ThreadOK
<1>4. \A d \in Conns : ConnOK(d)'
  BY Unpack, <1>3, SameConnOK
<1>5. ListenerOK' /\ ThreadOK'
  BY Unpack, <1>1
     DEF ListenerCreate, connVars, eventVars, byteVars, listenerVars, threadVars, ConnType,
         RestType, ListenerOK, ThreadOK, Calling, ConnOK, LifeOK
<1> QED BY <1>2, <1>4, <1>5 DEF IInv

LEMMA ListenerDestroyInv ==
  ASSUME IInv, ListenerDestroy
  PROVE  IInv'
<1>1. /\ Listens' = Listens
      /\ \A d \in Conns :
           Calls(d)' = Calls(d) /\ Reads(d)' = Reads(d) /\ Arrivals(d)' = Arrivals(d)
      /\ queue' \in Seq(Items)
  BY CountSame, Unpack
     DEF ListenerDestroy, connVars, eventVars, byteVars, listenerVars, threadVars, RestType
<1>2. TypeOK'
  <2>1. ConnType'
    BY Unpack
       DEF ListenerDestroy, connVars, eventVars, byteVars, listenerVars, threadVars,
           ConnType
  <2>2. BytesType'
    BY Unpack, BytesSame DEF ListenerDestroy
  <2>3. RestType'
    BY Unpack, <1>1
       DEF ListenerDestroy, connVars, eventVars, byteVars, listenerVars, threadVars,
           RestType, ListenerOK
  <2> QED BY <2>1, <2>2, <2>3, TypePartsNext
<1>3. \A d \in Conns : SameConn(d)
  BY Unpack, <1>1
     DEF ListenerDestroy, connVars, eventVars, byteVars, listenerVars, threadVars, SameConn,
         ConnType, Rearming, Calling, ThreadOK
<1>4. \A d \in Conns : ConnOK(d)'
  BY Unpack, <1>3, SameConnOK
<1>5. ListenerOK' /\ ThreadOK'
  BY Unpack, <1>1
     DEF ListenerDestroy, connVars, eventVars, byteVars, listenerVars, threadVars, ConnType,
         RestType, ListenerOK, ThreadOK, Calling, ConnOK, LifeOK
<1> QED BY <1>2, <1>4, <1>5 DEF IInv

LEMMA PeerSendInv ==
  ASSUME IInv, NEW c \in Conns, PeerSend(c)
  PROVE  IInv'
<1>1. /\ Listens' = Listens
      /\ \A d \in Conns :
           Calls(d)' = Calls(d) /\ Reads(d)' = Reads(d) /\ Arrivals(d)' = Arrivals(d)
      /\ queue' \in Seq(Items)
  BY CountSame, Unpack
     DEF PeerSend, Established, connVars, eventVars, byteVars, listenerVars, threadVars,
         RestType
<1>2. TypeOK'
  <2>1. ConnType'
    BY Unpack
       DEF PeerSend, Established, connVars, eventVars, byteVars, listenerVars, threadVars,
           ConnType
  <2>2. BytesType'
    BY Unpack
       DEF PeerSend, Established, connVars, eventVars, byteVars, listenerVars, threadVars,
           BytesType
  <2>3. RestType'
    BY Unpack, <1>1
       DEF PeerSend, Established, connVars, eventVars, byteVars, listenerVars, threadVars,
           RestType, ListenerOK
  <2> QED BY <2>1, <2>2, <2>3, TypePartsNext
<1>3. \A d \in Conns : SameConn(d)
  BY Unpack, <1>1
     DEF PeerSend, Established, connVars, eventVars, byteVars, listenerVars, threadVars,
         SameConn, ConnType, Rearming, Calling, ThreadOK
<1>4. \A d \in Conns : ConnOK(d)'
  BY Unpack, <1>3, SameConnOK
<1>5. ListenerOK' /\ ThreadOK'
  BY Unpack, <1>1
     DEF PeerSend, Established, connVars, eventVars, byteVars, listenerVars, threadVars,
         ConnType, RestType, ListenerOK, ThreadOK, Calling, ConnOK, LifeOK
<1> QED BY <1>2, <1>4, <1>5 DEF IInv

LEMMA PeerCloseInv ==
  ASSUME IInv, NEW c \in Conns, PeerClose(c)
  PROVE  IInv'
<1>1. /\ Listens' = Listens
      /\ \A d \in Conns :
           Calls(d)' = Calls(d) /\ Reads(d)' = Reads(d) /\ Arrivals(d)' = Arrivals(d)
      /\ queue' \in Seq(Items)
  BY CountSame, Unpack
     DEF PeerClose, Established, connVars, eventVars, byteVars, listenerVars, threadVars,
         RestType
<1>2. TypeOK'
  <2>1. ConnType'
    BY Unpack
       DEF PeerClose, Established, connVars, eventVars, byteVars, listenerVars, threadVars,
           ConnType
  <2>2. BytesType'
    BY Unpack
       DEF PeerClose, Established, connVars, eventVars, byteVars, listenerVars, threadVars,
           BytesType
  <2>3. RestType'
    BY Unpack, <1>1
       DEF PeerClose, Established, connVars, eventVars, byteVars, listenerVars, threadVars,
           RestType, ListenerOK
  <2> QED BY <2>1, <2>2, <2>3, TypePartsNext
<1>3. \A d \in Conns : SameConn(d)
  BY Unpack, <1>1
     DEF PeerClose, Established, connVars, eventVars, byteVars, listenerVars, threadVars,
         SameConn, ConnType, Rearming, Calling, ThreadOK
<1>4. \A d \in Conns : ConnOK(d)'
  BY Unpack, <1>3, SameConnOK
<1>5. ListenerOK' /\ ThreadOK'
  BY Unpack, <1>1
     DEF PeerClose, Established, connVars, eventVars, byteVars, listenerVars, threadVars,
         ConnType, RestType, ListenerOK, ThreadOK, Calling, ConnOK, LifeOK
<1> QED BY <1>2, <1>4, <1>5 DEF IInv

LEMMA ConnectedInv ==
  ASSUME IInv, NEW c \in Conns, Connected(c)
  PROVE  IInv'
<1>1. /\ Listens' = Listens + 0
      /\ \A d \in Conns :
           /\ Calls(d)' = Calls(d) + IF d = c THEN 1 ELSE 0
           /\ Reads(d)' = Reads(d) + 0
           /\ Arrivals(d)' = Arrivals(d) + 0
      /\ queue' \in Seq(Items)
  <2> DEFINE i == <<"ready", c>>
  <2>1. i \in Items /\ i[1] = "ready" /\ i[2] = c
    BY ItemKinds, ConnKindsOK
  <2>2. queue' = Append(queue, i) /\ item' = item
    BY DEF Connected, Enqueue, connVars, eventVars, byteVars, listenerVars, threadVars
  <2> HIDE DEF i
  <2> QED BY Unpack, <2>1, <2>2, CountEnqueue
<1>2. TypeOK'
  <2>1. ConnType'
    BY Unpack
       DEF Connected, Enqueue, connVars, eventVars, byteVars, listenerVars, threadVars,
           ConnType
  <2>2. BytesType'
    BY Unpack, BytesSame DEF Connected
  <2>3. RestType'
    BY Unpack, <1>1
       DEF Connected, Enqueue, connVars, eventVars, byteVars, listenerVars, threadVars,
           RestType, ListenerOK
  <2> QED BY <2>1, <2>2, <2>3, TypePartsNext
<1>3. \A d \in Conns \ {c} : SameConn(d)
  <2> SUFFICES ASSUME NEW d \in Conns, d # c PROVE SameConn(d)
    OBVIOUS
  <2>1. /\ memory'[d] = memory[d] /\ mRefCount'[d] = mRefCount[d] /\ mEvent'[d] = mEvent[d]
    BY Unpack
       DEF Connected, Enqueue, connVars, eventVars, byteVars, listenerVars, threadVars,
           ConnType
  <2>2. /\ d \in mQueued' <=> d \in mQueued
        /\ d \in mDestroyed' <=> d \in mDestroyed
        /\ d \in reading' <=> d \in reading
        /\ d \in owned' <=> d \in owned
        /\ d = destroying' <=> d = destroying
    BY TcpAssumption
       DEF Connected, Enqueue, connVars, eventVars, byteVars, listenerVars, threadVars,
           Calling
  <2>3. item' = item /\ at' = at
    BY DEF Connected, threadVars
  <2>4. /\ Rearming(d)' <=> Rearming(d)
        /\ Rearming(d) => at' = at
    BY <2>3 DEF Rearming
  <2> QED BY Unpack, <1>1, <2>1, <2>2, <2>4 DEF SameConn
<1>4. ConnOK(c)'
  <2>1. /\ mRefCount'[c] = mRefCount[c] + 1
        /\ mEvent'[c] = "open"
        /\ c \in reading'
        /\ UNCHANGED <<memory, mQueued, mDestroyed, owned, destroying, item, at>>
    BY Unpack, TcpAssumption
       DEF Connected, Enqueue, connVars, eventVars, byteVars, listenerVars, threadVars,
           ConnType, Calling, ThreadOK
  <2>2. ConnOK(c)
    BY Unpack
  <2>3. /\ c \in owned \/ c = destroying
        /\ mRefCount[c] = Calls(c) + 1 /\ memory[c] = "held"
    BY Unpack, <2>2 DEF Connected, ConnOK, CountOK, LifeOK
  <2>4. CountOK(c)'
    BY Unpack, <1>1, <2>1, <2>3 DEF CountOK
  <2>5. LifeOK(c)'
    BY Unpack, <1>1, <2>1, <2>2
       DEF Connected, Calling, ConnOK, CountOK, LifeOK, QuietOK, ArmedOK, Rearming, ThreadOK
  <2>6. QuietOK(c)'
    BY Unpack, <1>1, <2>1, <2>2
       DEF Connected, Calling, ConnOK, CountOK, LifeOK, QuietOK, ArmedOK, Rearming, ThreadOK
  <2>7. ArmedOK(c)'
    BY Unpack, <1>1, <2>1, <2>2
       DEF Connected, Calling, ConnOK, CountOK, LifeOK, QuietOK, ArmedOK, Rearming, ThreadOK
  <2> QED BY <2>4, <2>5, <2>6, <2>7 DEF ConnOK
<1>5. ListenerOK' /\ ThreadOK'
  BY Unpack, <1>1
     DEF Connected, Enqueue, connVars, eventVars, byteVars, listenerVars, threadVars,
         ConnType, RestType, ListenerOK, ThreadOK, Calling, ConnOK, LifeOK
<1>6. \A d \in Conns : ConnOK(d)'
  <2> SUFFICES ASSUME NEW d \in Conns, d # c PROVE ConnOK(d)'
    BY <1>4
  <2> QED BY Unpack, <1>3, SameConnOK
<1> QED BY <1>2, <1>5, <1>6 DEF IInv

LEMMA FailedInv ==
  ASSUME IInv, NEW c \in Conns, Failed(c)
  PROVE  IInv'
<1>1. /\ Listens' = Listens + 0
      /\ \A d \in Conns :
           /\ Calls(d)' = Calls(d) + IF d = c THEN 1 ELSE 0
           /\ Reads(d)' = Reads(d) + 0
           /\ Arrivals(d)' = Arrivals(d) + 0
      /\ queue' \in Seq(Items)
  <2> DEFINE i == <<"error", c>>
  <2>1. i \in Items /\ i[1] = "error" /\ i[2] = c
    BY ItemKinds, ConnKindsOK
  <2>2. queue' = Append(queue, i) /\ item' = item
    BY
       DEF Failed, Enqueue, Established, connVars, eventVars, byteVars, listenerVars,
           threadVars
  <2> HIDE DEF i
  <2> QED BY Unpack, <2>1, <2>2, CountEnqueue
<1>2. TypeOK'
  <2>1. ConnType'
    BY Unpack
       DEF Failed, Enqueue, Established, connVars, eventVars, byteVars, listenerVars,
           threadVars, ConnType
  <2>2. BytesType'
    BY Unpack, BytesSame DEF Failed
  <2>3. RestType'
    BY Unpack, <1>1
       DEF Failed, Enqueue, Established, connVars, eventVars, byteVars, listenerVars,
           threadVars, RestType, ListenerOK
  <2> QED BY <2>1, <2>2, <2>3, TypePartsNext
<1>3. \A d \in Conns \ {c} : SameConn(d)
  <2> SUFFICES ASSUME NEW d \in Conns, d # c PROVE SameConn(d)
    OBVIOUS
  <2>1. /\ memory'[d] = memory[d] /\ mRefCount'[d] = mRefCount[d] /\ mEvent'[d] = mEvent[d]
    BY Unpack
       DEF Failed, Enqueue, Established, connVars, eventVars, byteVars, listenerVars,
           threadVars, ConnType
  <2>2. /\ d \in mQueued' <=> d \in mQueued
        /\ d \in mDestroyed' <=> d \in mDestroyed
        /\ d \in reading' <=> d \in reading
        /\ d \in owned' <=> d \in owned
        /\ d = destroying' <=> d = destroying
    BY TcpAssumption
       DEF Failed, Enqueue, Established, connVars, eventVars, byteVars, listenerVars,
           threadVars, Calling
  <2>3. item' = item /\ at' = at
    BY DEF Failed, threadVars
  <2>4. /\ Rearming(d)' <=> Rearming(d)
        /\ Rearming(d) => at' = at
    BY <2>3 DEF Rearming
  <2> QED BY Unpack, <1>1, <2>1, <2>2, <2>4 DEF SameConn
<1>4. ConnOK(c)'
  <2>1. /\ mRefCount'[c] = mRefCount[c] + 1
        /\ mEvent'[c] = "failed"
        /\ c \notin reading'
        /\ UNCHANGED <<memory, mQueued, mDestroyed, owned, destroying, item, at>>
    BY Unpack, TcpAssumption
       DEF Failed, Enqueue, Established, connVars, eventVars, byteVars, listenerVars,
           threadVars, ConnType, Calling, ThreadOK
  <2>2. ConnOK(c)
    BY Unpack
  <2>3. CountOK(c)'
    BY Unpack, <1>1, <2>1, <2>2
       DEF Failed, Established, Calling, ConnOK, CountOK, LifeOK, QuietOK, ArmedOK,
           Rearming, ThreadOK
  <2>4. LifeOK(c)'
    BY Unpack, <1>1, <2>1, <2>2
       DEF Failed, Established, Calling, ConnOK, CountOK, LifeOK, QuietOK, ArmedOK,
           Rearming, ThreadOK
  <2>5. QuietOK(c)'
    BY Unpack, <1>1, <2>1, <2>2
       DEF Failed, Established, Calling, ConnOK, CountOK, LifeOK, QuietOK, ArmedOK,
           Rearming, ThreadOK
  <2>6. ArmedOK(c)'
    BY Unpack, <1>1, <2>1, <2>2
       DEF Failed, Established, Calling, ConnOK, CountOK, LifeOK, QuietOK, ArmedOK,
           Rearming, ThreadOK
  <2> QED BY <2>3, <2>4, <2>5, <2>6 DEF ConnOK
<1>5. ListenerOK' /\ ThreadOK'
  BY Unpack, <1>1
     DEF Failed, Enqueue, Established, connVars, eventVars, byteVars, listenerVars,
         threadVars, ConnType, RestType, ListenerOK, ThreadOK, Calling, ConnOK, LifeOK
<1>6. \A d \in Conns : ConnOK(d)'
  <2> SUFFICES ASSUME NEW d \in Conns, d # c PROVE ConnOK(d)'
    BY <1>4
  <2> QED BY Unpack, <1>3, SameConnOK
<1> QED BY <1>2, <1>5, <1>6 DEF IInv

LEMMA WriteFailsInv ==
  ASSUME IInv, NEW c \in Conns, WriteFails(c)
  PROVE  IInv'
<1>1. /\ Listens' = Listens + 0
      /\ \A d \in Conns :
           /\ Calls(d)' = Calls(d) + IF d = c THEN 1 ELSE 0
           /\ Reads(d)' = Reads(d) + 0
           /\ Arrivals(d)' = Arrivals(d) + 0
      /\ queue' \in Seq(Items)
  <2> DEFINE i == <<"error", c>>
  <2>1. i \in Items /\ i[1] = "error" /\ i[2] = c
    BY ItemKinds, ConnKindsOK
  <2>2. queue' = Append(queue, i) /\ item' = item
    BY DEF WriteFails, Enqueue, connVars, eventVars, byteVars, listenerVars, threadVars
  <2> HIDE DEF i
  <2> QED BY Unpack, <2>1, <2>2, CountEnqueue
<1>2. TypeOK'
  <2>1. ConnType'
    BY Unpack
       DEF WriteFails, Enqueue, connVars, eventVars, byteVars, listenerVars, threadVars,
           ConnType
  <2>2. BytesType'
    BY Unpack, BytesSame DEF WriteFails
  <2>3. RestType'
    BY Unpack, <1>1
       DEF WriteFails, Enqueue, connVars, eventVars, byteVars, listenerVars, threadVars,
           RestType, ListenerOK
  <2> QED BY <2>1, <2>2, <2>3, TypePartsNext
<1>3. \A d \in Conns \ {c} : SameConn(d)
  <2> SUFFICES ASSUME NEW d \in Conns, d # c PROVE SameConn(d)
    OBVIOUS
  <2>1. /\ memory'[d] = memory[d] /\ mRefCount'[d] = mRefCount[d] /\ mEvent'[d] = mEvent[d]
    BY Unpack
       DEF WriteFails, Enqueue, connVars, eventVars, byteVars, listenerVars, threadVars,
           ConnType
  <2>2. /\ d \in mQueued' <=> d \in mQueued
        /\ d \in mDestroyed' <=> d \in mDestroyed
        /\ d \in reading' <=> d \in reading
        /\ d \in owned' <=> d \in owned
        /\ d = destroying' <=> d = destroying
    BY TcpAssumption
       DEF WriteFails, Enqueue, connVars, eventVars, byteVars, listenerVars, threadVars,
           Calling
  <2>3. item' = item /\ at' = at
    BY DEF WriteFails, threadVars
  <2>4. /\ Rearming(d)' <=> Rearming(d)
        /\ Rearming(d) => at' = at
    BY <2>3 DEF Rearming
  <2> QED BY Unpack, <1>1, <2>1, <2>2, <2>4 DEF SameConn
<1>4. ConnOK(c)'
  <2>1. /\ mRefCount'[c] = mRefCount[c] + 1
        /\ mEvent'[c] = "broken"
        /\ UNCHANGED <<memory, mQueued, mDestroyed, reading, owned, destroying, item, at>>
    BY Unpack, TcpAssumption
       DEF WriteFails, Enqueue, connVars, eventVars, byteVars, listenerVars, threadVars,
           ConnType, Calling, ThreadOK
  <2>2. ConnOK(c)
    BY Unpack
  <2>3. CountOK(c)'
    BY Unpack, <1>1, <2>1, <2>2
       DEF WriteFails, Calling, ConnOK, CountOK, LifeOK, QuietOK, ArmedOK, Rearming,
           ThreadOK
  <2>4. LifeOK(c)'
    BY Unpack, <1>1, <2>1, <2>2
       DEF WriteFails, Calling, ConnOK, CountOK, LifeOK, QuietOK, ArmedOK, Rearming,
           ThreadOK
  <2>5. QuietOK(c)'
    BY Unpack, <1>1, <2>1, <2>2
       DEF WriteFails, Calling, ConnOK, CountOK, LifeOK, QuietOK, ArmedOK, Rearming,
           ThreadOK
  <2>6. ArmedOK(c)'
    BY Unpack, <1>1, <2>1, <2>2
       DEF WriteFails, Calling, ConnOK, CountOK, LifeOK, QuietOK, ArmedOK, Rearming,
           ThreadOK
  <2> QED BY <2>3, <2>4, <2>5, <2>6 DEF ConnOK
<1>5. ListenerOK' /\ ThreadOK'
  BY Unpack, <1>1
     DEF WriteFails, Enqueue, connVars, eventVars, byteVars, listenerVars, threadVars,
         ConnType, RestType, ListenerOK, ThreadOK, Calling, ConnOK, LifeOK
<1>6. \A d \in Conns : ConnOK(d)'
  <2> SUFFICES ASSUME NEW d \in Conns, d # c PROVE ConnOK(d)'
    BY <1>4
  <2> QED BY Unpack, <1>3, SameConnOK
<1> QED BY <1>2, <1>5, <1>6 DEF IInv

LEMMA EndOfFileInv ==
  ASSUME IInv, NEW c \in Conns, EndOfFile(c)
  PROVE  IInv'
<1>1. /\ Listens' = Listens + 0
      /\ \A d \in Conns :
           /\ Calls(d)' = Calls(d) + IF d = c THEN 1 ELSE 0
           /\ Reads(d)' = Reads(d) + 0
           /\ Arrivals(d)' = Arrivals(d) + 0
      /\ queue' \in Seq(Items)
  <2> DEFINE i == <<"eof", c>>
  <2>1. i \in Items /\ i[1] = "eof" /\ i[2] = c
    BY ItemKinds, ConnKindsOK
  <2>2. queue' = Append(queue, i) /\ item' = item
    BY
       DEF EndOfFile, Enqueue, Established, connVars, eventVars, byteVars, listenerVars,
           threadVars
  <2> HIDE DEF i
  <2> QED BY Unpack, <2>1, <2>2, CountEnqueue
<1>2. TypeOK'
  <2>1. ConnType'
    BY Unpack
       DEF EndOfFile, Enqueue, Established, connVars, eventVars, byteVars, listenerVars,
           threadVars, ConnType
  <2>2. BytesType'
    BY Unpack, BytesSame DEF EndOfFile
  <2>3. RestType'
    BY Unpack, <1>1
       DEF EndOfFile, Enqueue, Established, connVars, eventVars, byteVars, listenerVars,
           threadVars, RestType, ListenerOK
  <2> QED BY <2>1, <2>2, <2>3, TypePartsNext
<1>3. \A d \in Conns \ {c} : SameConn(d)
  <2> SUFFICES ASSUME NEW d \in Conns, d # c PROVE SameConn(d)
    OBVIOUS
  <2>1. /\ memory'[d] = memory[d] /\ mRefCount'[d] = mRefCount[d] /\ mEvent'[d] = mEvent[d]
    BY Unpack
       DEF EndOfFile, Enqueue, Established, connVars, eventVars, byteVars, listenerVars,
           threadVars, ConnType
  <2>2. /\ d \in mQueued' <=> d \in mQueued
        /\ d \in mDestroyed' <=> d \in mDestroyed
        /\ d \in reading' <=> d \in reading
        /\ d \in owned' <=> d \in owned
        /\ d = destroying' <=> d = destroying
    BY TcpAssumption
       DEF EndOfFile, Enqueue, Established, connVars, eventVars, byteVars, listenerVars,
           threadVars, Calling
  <2>3. item' = item /\ at' = at
    BY DEF EndOfFile, threadVars
  <2>4. /\ Rearming(d)' <=> Rearming(d)
        /\ Rearming(d) => at' = at
    BY <2>3 DEF Rearming
  <2> QED BY Unpack, <1>1, <2>1, <2>2, <2>4 DEF SameConn
<1>4. ConnOK(c)'
  <2>1. /\ mRefCount'[c] = mRefCount[c] + 1
        /\ mEvent'[c] = "failed"
        /\ c \notin reading'
        /\ UNCHANGED <<memory, mQueued, mDestroyed, owned, destroying, item, at>>
    BY Unpack, TcpAssumption
       DEF EndOfFile, Enqueue, Established, connVars, eventVars, byteVars, listenerVars,
           threadVars, ConnType, Calling, ThreadOK
  <2>2. ConnOK(c)
    BY Unpack
  <2>3. CountOK(c)'
    BY Unpack, <1>1, <2>1, <2>2
       DEF EndOfFile, Established, Calling, ConnOK, CountOK, LifeOK, QuietOK, ArmedOK,
           Rearming, ThreadOK
  <2>4. LifeOK(c)'
    BY Unpack, <1>1, <2>1, <2>2
       DEF EndOfFile, Established, Calling, ConnOK, CountOK, LifeOK, QuietOK, ArmedOK,
           Rearming, ThreadOK
  <2>5. QuietOK(c)'
    BY Unpack, <1>1, <2>1, <2>2
       DEF EndOfFile, Established, Calling, ConnOK, CountOK, LifeOK, QuietOK, ArmedOK,
           Rearming, ThreadOK
  <2>6. ArmedOK(c)'
    BY Unpack, <1>1, <2>1, <2>2
       DEF EndOfFile, Established, Calling, ConnOK, CountOK, LifeOK, QuietOK, ArmedOK,
           Rearming, ThreadOK
  <2> QED BY <2>3, <2>4, <2>5, <2>6 DEF ConnOK
<1>5. ListenerOK' /\ ThreadOK'
  BY Unpack, <1>1
     DEF EndOfFile, Enqueue, Established, connVars, eventVars, byteVars, listenerVars,
         threadVars, ConnType, RestType, ListenerOK, ThreadOK, Calling, ConnOK, LifeOK
<1>6. \A d \in Conns : ConnOK(d)'
  <2> SUFFICES ASSUME NEW d \in Conns, d # c PROVE ConnOK(d)'
    BY <1>4
  <2> QED BY Unpack, <1>3, SameConnOK
<1> QED BY <1>2, <1>5, <1>6 DEF IInv

LEMMA ArriveInv ==
  ASSUME IInv, NEW c \in Conns, Arrive(c)
  PROVE  IInv'
<1>1. /\ Listens' = Listens
      /\ \A d \in Conns :
           Calls(d)' = Calls(d) /\ Reads(d)' = Reads(d) /\ Arrivals(d)' = Arrivals(d)
  BY CountSame DEF Arrive, threadVars
<1>2. TypeOK'
  <2>1. ConnType'
    BY Unpack DEF Arrive, eventVars, ConnType
  <2>2. BytesType'
    BY Unpack, BytesSame DEF Arrive
  <2>3. RestType'
    BY Unpack DEF Arrive, threadVars, RestType
  <2> QED BY <2>1, <2>2, <2>3, TypePartsNext
<1>3. \A d \in Conns : SameConn(d)
  BY Unpack, <1>1 DEF Arrive, eventVars, threadVars, SameConn, Rearming
<1>4. \A d \in Conns : ConnOK(d)'
  BY Unpack, <1>3, SameConnOK
<1>5. ListenerOK' /\ ThreadOK'
  BY Unpack, <1>1 DEF Arrive, threadVars, ListenerOK, ThreadOK
<1> QED BY <1>2, <1>4, <1>5 DEF IInv

LEMMA ListenerEventInv ==
  ASSUME IInv, NEW c \in Conns, c = accepting, memory[c] = "none",
         listener # "none", ListenerEventCb
  PROVE  IInv'
<1>1. /\ Listens' = Listens + 1
      /\ \A d \in Conns :
           /\ Calls(d)' = Calls(d) + 0
           /\ Reads(d)' = Reads(d) + 0
           /\ Arrivals(d)' = Arrivals(d) + IF d = c THEN 1 ELSE 0
      /\ queue' \in Seq(Items)
  <2> DEFINE i == <<"accept", c>>
  <2>1. i \in Items /\ i[1] = "accept" /\ i[2] = c
    BY ItemKinds, ConnKindsOK
  <2>2. queue' = Append(queue, i) /\ item' = item
    BY DEF ListenerEventCb, connVars, eventVars, byteVars, threadVars
  <2> HIDE DEF i
  <2> QED BY Unpack, <2>1, <2>2, CountEnqueue
<1>2. TypeOK'
  <2>1. ConnType'
    BY Unpack
       DEF ListenerEventCb, connVars, eventVars, byteVars, threadVars, ConnType
  <2>2. BytesType'
    BY Unpack, BytesSame DEF ListenerEventCb
  <2>3. RestType'
    BY Unpack, <1>1
       DEF ListenerEventCb, connVars, eventVars, byteVars, threadVars, RestType,
           ListenerOK
  <2> QED BY <2>1, <2>2, <2>3, TypePartsNext
<1>3. \A d \in Conns \ {c} : SameConn(d)
  <2> SUFFICES ASSUME NEW d \in Conns, d # c PROVE SameConn(d)
    OBVIOUS
  <2>1. /\ memory'[d] = memory[d] /\ mRefCount'[d] = mRefCount[d] /\ mEvent'[d] = mEvent[d]
    BY Unpack
       DEF ListenerEventCb, connVars, eventVars, byteVars, threadVars, ConnType
  <2>2. /\ d \in mQueued' <=> d \in mQueued
        /\ d \in mDestroyed' <=> d \in mDestroyed
        /\ d \in reading' <=> d \in reading
        /\ d \in owned' <=> d \in owned
        /\ d = destroying' <=> d = destroying
    BY TcpAssumption
       DEF ListenerEventCb, connVars, eventVars, byteVars, threadVars, Calling
  <2>3. item' = item /\ at' = at
    BY DEF ListenerEventCb, threadVars
  <2>4. /\ Rearming(d)' <=> Rearming(d)
        /\ Rearming(d) => at' = at
    BY <2>3 DEF Rearming
  <2> QED BY Unpack, <1>1, <2>1, <2>2, <2>4 DEF SameConn
<1>4. ConnOK(c)'
  <2>1. /\ memory'[c] = "held"
        /\ UNCHANGED <<mRefCount, mQueued, mDestroyed, mEvent, reading, owned, destroying, item, at>>
    BY Unpack, TcpAssumption
       DEF ListenerEventCb, connVars, eventVars, byteVars, threadVars, ConnType,
           Calling, ThreadOK
  <2>2. ConnOK(c)
    BY Unpack
  <2>3. CountOK(c)'
    BY Unpack, <1>1, <2>1, <2>2
       DEF ListenerEventCb, Calling, ConnOK, CountOK, LifeOK, QuietOK, ArmedOK, Rearming,
           ThreadOK
  <2>4. LifeOK(c)'
    BY Unpack, <1>1, <2>1, <2>2
       DEF ListenerEventCb, Calling, ConnOK, CountOK, LifeOK, QuietOK, ArmedOK, Rearming,
           ThreadOK
  <2>5. QuietOK(c)'
    BY Unpack, <1>1, <2>1, <2>2
       DEF ListenerEventCb, Calling, ConnOK, CountOK, LifeOK, QuietOK, ArmedOK, Rearming,
           ThreadOK
  <2>6. ArmedOK(c)'
    BY Unpack, <1>1, <2>1, <2>2
       DEF ListenerEventCb, Calling, ConnOK, CountOK, LifeOK, QuietOK, ArmedOK, Rearming,
           ThreadOK
  <2> QED BY <2>3, <2>4, <2>5, <2>6 DEF ConnOK
<1>5. ListenerOK' /\ ThreadOK'
  <2>1. listener' = listener /\ listenerRefs' = listenerRefs + 1
        /\ UNCHANGED <<item, at, mDestroyed, destroying>>
    BY DEF ListenerEventCb, threadVars
  <2>2. listener \in {"open", "destroyed"} /\ listenerRefs \in Nat
    BY Unpack DEF ListenerEventCb, RestType
  <2>3. ListenerOK'
    BY Unpack, <1>1, <2>1, <2>2 DEF ListenerOK
  <2>4. ThreadOK'
    BY Unpack, <2>1 DEF ThreadOK
  <2> QED BY <2>3, <2>4
<1>6. \A d \in Conns : ConnOK(d)'
  <2> SUFFICES ASSUME NEW d \in Conns, d # c PROVE ConnOK(d)'
    BY <1>4
  <2> QED BY Unpack, <1>3, SameConnOK
<1> QED BY <1>2, <1>5, <1>6 DEF IInv

LEMMA ReturnInv ==
  ASSUME IInv, Return
  PROVE  IInv'
<1>1. /\ Listens' = Listens
      /\ \A d \in Conns :
           Calls(d)' = Calls(d) /\ Reads(d)' = Reads(d) /\ Arrivals(d)' = Arrivals(d)
      /\ queue' \in Seq(Items)
  BY CountSame, Unpack
     DEF Return, connVars, eventVars, byteVars, listenerVars, threadVars, RestType
<1>2. TypeOK'
  <2>1. ConnType'
    BY Unpack DEF Return, connVars, eventVars, byteVars, listenerVars, threadVars, ConnType
  <2>2. BytesType'
    BY Unpack, BytesSame DEF Return
  <2>3. RestType'
    BY Unpack, <1>1
       DEF Return, connVars, eventVars, byteVars, listenerVars, threadVars, RestType,
           ListenerOK
  <2> QED BY <2>1, <2>2, <2>3, TypePartsNext
<1>3. /\ at = "callback" /\ UNCHANGED <<memory, mRefCount, mQueued, mDestroyed, mEvent,
                                        reading, owned, destroying, item>>
      /\ at' = IF item[1] = "read" /\ item[2] \notin mDestroyed
               THEN "queued" ELSE "release"
  BY DEF Return, connVars, eventVars, threadVars
<1>4. ASSUME NEW d \in Conns PROVE ConnOK(d)'
  <2>1. CASE item = <<"read", d>>
    <3>1. item[1] = "read" /\ item[2] = d
      BY <2>1
    <3>2. ConnOK(d)
      BY Unpack
    <3>3. CountOK(d)' /\ LifeOK(d)'
      BY <1>1, <1>3, <3>2 DEF ConnOK, CountOK, LifeOK
    <3>4. QuietOK(d)'
      BY <1>1, <1>3, <2>1, <3>2 DEF ConnOK, QuietOK, Rearming
    <3>5. ArmedOK(d)'
      BY <1>1, <1>3, <2>1, <3>1, <3>2 DEF ConnOK, ArmedOK, Rearming
    <3> QED BY <3>3, <3>4, <3>5 DEF ConnOK
  <2>2. CASE item # <<"read", d>>
    <3>1. SameConn(d)
      BY <1>1, <1>3, <2>2 DEF SameConn, Rearming
    <3> QED BY Unpack, <3>1, SameConnOK
  <2> QED BY <2>1, <2>2
<1>5. ListenerOK' /\ ThreadOK'
  BY Unpack, <1>1
     DEF Return, connVars, eventVars, byteVars, listenerVars, threadVars, ConnType,
         RestType, ListenerOK, ThreadOK, Calling, ConnOK, LifeOK
<1> QED BY <1>2, <1>4, <1>5 DEF IInv

LEMMA ResetQueuedInv ==
  ASSUME IInv, NEW c \in Conns, item = <<"read", c>>, ResetQueued
  PROVE  IInv'
<1>1. /\ Listens' = Listens
      /\ \A d \in Conns :
           Calls(d)' = Calls(d) /\ Reads(d)' = Reads(d) /\ Arrivals(d)' = Arrivals(d)
      /\ queue' \in Seq(Items)
  BY CountSame, Unpack
     DEF ResetQueued, connVars, eventVars, byteVars, listenerVars, threadVars, RestType
<1>2. TypeOK'
  <2>1. ConnType'
    BY Unpack
       DEF ResetQueued, connVars, eventVars, byteVars, listenerVars, threadVars, ConnType
  <2>2. BytesType'
    BY Unpack, BytesSame DEF ResetQueued
  <2>3. RestType'
    BY Unpack, <1>1
       DEF ResetQueued, connVars, eventVars, byteVars, listenerVars, threadVars, RestType,
           ListenerOK
  <2> QED BY <2>1, <2>2, <2>3, TypePartsNext
<1>3. \A d \in Conns \ {c} : SameConn(d)
  <2> SUFFICES ASSUME NEW d \in Conns, d # c PROVE SameConn(d)
    OBVIOUS
  <2>1. /\ memory'[d] = memory[d] /\ mRefCount'[d] = mRefCount[d] /\ mEvent'[d] = mEvent[d]
    BY Unpack
       DEF ResetQueued, connVars, eventVars, byteVars, listenerVars, threadVars, ConnType
  <2>2. /\ d \in mQueued' <=> d \in mQueued
        /\ d \in mDestroyed' <=> d \in mDestroyed
        /\ d \in reading' <=> d \in reading
        /\ d \in owned' <=> d \in owned
        /\ d = destroying' <=> d = destroying
    BY TcpAssumption
       DEF ResetQueued, connVars, eventVars, byteVars, listenerVars, threadVars, Calling
  <2>3. item' = item
    BY DEF ResetQueued, threadVars
  <2>4. /\ Rearming(d)' <=> Rearming(d)
        /\ Rearming(d) => at' = at
    BY <2>3 DEF Rearming
  <2> QED BY Unpack, <1>1, <2>1, <2>2, <2>4 DEF SameConn
<1>4. ConnOK(c)'
  <2>1. /\ c \notin mQueued'
        /\ at = "queued" /\ at' = "enable" /\ item = <<"read", c>>
        /\ UNCHANGED <<memory, mRefCount, mDestroyed, mEvent, reading, owned, destroying, item>>
    BY Unpack, TcpAssumption
       DEF ResetQueued, connVars, eventVars, byteVars, listenerVars, threadVars, ConnType,
           Calling, ThreadOK
  <2>2. ConnOK(c)
    BY Unpack
  <2>3. CountOK(c)'
    BY Unpack, <1>1, <2>1, <2>2
       DEF ResetQueued, Calling, ConnOK, CountOK, LifeOK, QuietOK, ArmedOK, Rearming,
           ThreadOK
  <2>4. LifeOK(c)'
    BY Unpack, <1>1, <2>1, <2>2
       DEF ResetQueued, Calling, ConnOK, CountOK, LifeOK, QuietOK, ArmedOK, Rearming,
           ThreadOK
  <2>5. QuietOK(c)'
    BY Unpack, <1>1, <2>1, <2>2
       DEF ResetQueued, Calling, ConnOK, CountOK, LifeOK, QuietOK, ArmedOK, Rearming,
           ThreadOK
  <2>6. ArmedOK(c)'
    BY Unpack, <1>1, <2>1, <2>2
       DEF ResetQueued, Calling, ConnOK, CountOK, LifeOK, QuietOK, ArmedOK, Rearming,
           ThreadOK
  <2> QED BY <2>3, <2>4, <2>5, <2>6 DEF ConnOK
<1>5. ListenerOK' /\ ThreadOK'
  BY Unpack, <1>1
     DEF ResetQueued, connVars, eventVars, byteVars, listenerVars, threadVars, ConnType,
         RestType, ListenerOK, ThreadOK, Calling, ConnOK, LifeOK
<1>6. \A d \in Conns : ConnOK(d)'
  <2> SUFFICES ASSUME NEW d \in Conns, d # c PROVE ConnOK(d)'
    BY <1>4
  <2> QED BY Unpack, <1>3, SameConnOK
<1> QED BY <1>2, <1>5, <1>6 DEF IInv

LEMMA EnableReadInv ==
  ASSUME IInv, NEW c \in Conns, item = <<"read", c>>, EnableRead
  PROVE  IInv'
<1>1. /\ Listens' = Listens
      /\ \A d \in Conns :
           Calls(d)' = Calls(d) /\ Reads(d)' = Reads(d) /\ Arrivals(d)' = Arrivals(d)
      /\ queue' \in Seq(Items)
  BY CountSame, Unpack
     DEF EnableRead, connVars, eventVars, byteVars, listenerVars, threadVars, RestType
<1>2. TypeOK'
  <2>1. ConnType'
    BY Unpack
       DEF EnableRead, connVars, eventVars, byteVars, listenerVars, threadVars, ConnType
  <2>2. BytesType'
    BY Unpack, BytesSame DEF EnableRead
  <2>3. RestType'
    BY Unpack, <1>1
       DEF EnableRead, connVars, eventVars, byteVars, listenerVars, threadVars, RestType,
           ListenerOK
  <2> QED BY <2>1, <2>2, <2>3, TypePartsNext
<1>3. \A d \in Conns \ {c} : SameConn(d)
  <2> SUFFICES ASSUME NEW d \in Conns, d # c PROVE SameConn(d)
    OBVIOUS
  <2>1. /\ memory'[d] = memory[d] /\ mRefCount'[d] = mRefCount[d] /\ mEvent'[d] = mEvent[d]
    BY Unpack
       DEF EnableRead, connVars, eventVars, byteVars, listenerVars, threadVars, ConnType
  <2>2. /\ d \in mQueued' <=> d \in mQueued
        /\ d \in mDestroyed' <=> d \in mDestroyed
        /\ d \in reading' <=> d \in reading
        /\ d \in owned' <=> d \in owned
        /\ d = destroying' <=> d = destroying
    BY TcpAssumption
       DEF EnableRead, connVars, eventVars, byteVars, listenerVars, threadVars, Calling
  <2>3. item' = item
    BY DEF EnableRead, threadVars
  <2>4. /\ Rearming(d)' <=> Rearming(d)
        /\ Rearming(d) => at' = at
    BY <2>3 DEF Rearming
  <2> QED BY Unpack, <1>1, <2>1, <2>2, <2>4 DEF SameConn
<1>4. ConnOK(c)'
  <2>1. /\ c \in reading'
        /\ at = "enable" /\ at' = "release" /\ item = <<"read", c>>
        /\ UNCHANGED <<memory, mRefCount, mQueued, mDestroyed, mEvent, owned, destroying, item>>
    BY Unpack, TcpAssumption
       DEF EnableRead, connVars, eventVars, byteVars, listenerVars, threadVars, ConnType,
           Calling, ThreadOK
  <2>2. ConnOK(c)
    BY Unpack
  <2>3. CountOK(c)'
    BY Unpack, <1>1, <2>1, <2>2
       DEF EnableRead, Calling, ConnOK, CountOK, LifeOK, QuietOK, ArmedOK, Rearming,
           ThreadOK
  <2>4. LifeOK(c)'
    BY Unpack, <1>1, <2>1, <2>2
       DEF EnableRead, Calling, ConnOK, CountOK, LifeOK, QuietOK, ArmedOK, Rearming,
           ThreadOK
  <2>5. QuietOK(c)'
    BY Unpack, <1>1, <2>1, <2>2
       DEF EnableRead, Calling, ConnOK, CountOK, LifeOK, QuietOK, ArmedOK, Rearming,
           ThreadOK
  <2>6. ArmedOK(c)'
    BY Unpack, <1>1, <2>1, <2>2
       DEF EnableRead, Calling, ConnOK, CountOK, LifeOK, QuietOK, ArmedOK, Rearming,
           ThreadOK
  <2> QED BY <2>3, <2>4, <2>5, <2>6 DEF ConnOK
<1>5. ListenerOK' /\ ThreadOK'
  BY Unpack, <1>1
     DEF EnableRead, connVars, eventVars, byteVars, listenerVars, threadVars, ConnType,
         RestType, ListenerOK, ThreadOK, Calling, ConnOK, LifeOK
<1>6. \A d \in Conns : ConnOK(d)'
  <2> SUFFICES ASSUME NEW d \in Conns, d # c PROVE ConnOK(d)'
    BY <1>4
  <2> QED BY Unpack, <1>3, SameConnOK
<1> QED BY <1>2, <1>5, <1>6 DEF IInv

LEMMA EventReadInv ==
  ASSUME IInv, NEW c \in Conns, EventRead(c)
  PROVE  IInv'
<1>1. BytesType'
  <2>1. PICK n \in (read[c] + 1)..sent[c] : read' = [read EXCEPT ![c] = n]
    BY DEF EventRead
  <2>2. read[c] \in Nat /\ sent[c] \in Nat
    BY Unpack DEF BytesType
  <2>3. n \in Nat /\ read[c] <= n /\ n <= sent[c]
    BY <2>1, <2>2
  <2>4. UNCHANGED <<sent, offered, ended>>
    BY DEF EventRead
  <2>5. ASSUME NEW d \in Conns PROVE offered'[d] <= read'[d] /\ read'[d] <= sent'[d]
    BY Unpack, <2>1, <2>3, <2>4 DEF BytesType
  <2>6. read' \in [Conns -> Nat]
    BY Unpack, <2>1, <2>3 DEF BytesType
  <2> QED BY Unpack, <2>4, <2>5, <2>6 DEF BytesType
<1>2. /\ c \in reading /\ mEvent[c] \in {"open", "broken"}
      /\ UNCHANGED <<memory, mSocket, mDestroyed, mEvent, listener, listenerRefs, accepting,
                     item, at, destroying, owned>>
  BY DEF EventRead, Established, listenerVars, threadVars
<1>3. CASE c \in mQueued
  <2>1. UNCHANGED <<mQueued, reading, mRefCount, queue>>
    BY <1>3 DEF EventRead
  <2>2. /\ Listens' = Listens
        /\ \A d \in Conns : Calls(d)' = Calls(d) /\ Reads(d)' = Reads(d) /\ Arrivals(d)' = Arrivals(d)
    BY <1>2, <2>1, CountSame
  <2>3. TypeOK'
    BY Unpack, <1>1, <1>2, <2>1, TypePartsNext DEF ConnType, RestType
  <2>4. \A d \in Conns : SameConn(d)
    BY <1>2, <2>1, <2>2 DEF SameConn, Rearming
  <2>5. ListenerOK' /\ ThreadOK'
    BY Unpack, <1>2, <2>2 DEF ListenerOK, ThreadOK
  <2> QED BY Unpack, <2>3, <2>4, <2>5, SameConnOK DEF IInv
<1>4. CASE c \notin mQueued
  <2>1. /\ mQueued' = mQueued \cup {c} /\ reading' = reading \ {c}
        /\ mRefCount' = [mRefCount EXCEPT ![c] = @ + 1]
        /\ queue' = Append(queue, <<"read", c>>)
    BY <1>4 DEF EventRead, Enqueue
  <2>2. /\ Listens' = Listens
        /\ \A d \in Conns : /\ Calls(d)' = Calls(d) + IF d = c THEN 1 ELSE 0
                            /\ Reads(d)' = Reads(d) + IF d = c THEN 1 ELSE 0
                            /\ Arrivals(d)' = Arrivals(d)
        /\ queue' \in Seq(Items)
    <3> DEFINE i == <<"read", c>>
    <3>1. i \in Items /\ i[1] = "read" /\ i[2] = c
      BY ItemKinds, ConnKindsOK
    <3>2. queue' = Append(queue, i) /\ item' = item
      BY <1>2, <2>1
    <3> HIDE DEF i
    <3> QED BY Unpack, <3>1, <3>2, CountEnqueue
  <2>3. TypeOK'
    <3>1. ConnType'
      BY Unpack, <1>2, <2>1 DEF ConnType
    <3>2. RestType'
      BY Unpack, <1>2, <2>2 DEF RestType
    <3> QED BY <1>1, <3>1, <3>2, TypePartsNext
  <2>4. ASSUME NEW d \in Conns, d # c PROVE ConnOK(d)'
    <3>1. mRefCount'[d] = mRefCount[d]
      BY Unpack, <2>1, <2>4 DEF ConnType
    <3>2. SameConn(d)
      BY Unpack, <1>2, <2>1, <2>2, <2>4, <3>1 DEF SameConn, Rearming
    <3> QED BY Unpack, <3>2, SameConnOK
  <2>5. ConnOK(c)'
    <3>1. mRefCount'[c] = mRefCount[c] + 1
      BY Unpack, <2>1 DEF ConnType
    <3>2. c \in mQueued' /\ c \notin reading'
      BY <2>1
    <3>3. ConnOK(c)
      BY Unpack
    <3>4. CountOK(c)'
      BY Unpack, <1>2, <2>2, <3>1, <3>3 DEF ConnOK, CountOK, LifeOK
    <3>5. LifeOK(c)'
      BY Unpack, <1>2, <2>2, <3>2, <3>3 DEF ConnOK, LifeOK
    <3>6. QuietOK(c)'
      BY <1>2 DEF QuietOK
    <3>7. ArmedOK(c)'
      BY Unpack, <1>2, <2>2, <3>2, <3>3 DEF ConnOK, ArmedOK, Rearming
    <3> QED BY <3>4, <3>5, <3>6, <3>7 DEF ConnOK
  <2>6. ListenerOK' /\ ThreadOK'
    BY Unpack, <1>2, <2>1, <2>2 DEF ListenerOK, ThreadOK
  <2> QED BY <2>3, <2>4, <2>5, <2>6 DEF IInv
<1> QED BY <1>3, <1>4

LEMMA DispatchInv ==
  ASSUME IInv, Dispatch
  PROVE  IInv'
<1>1. /\ at = "idle" /\ destroying = NULL /\ item = << >>
      /\ queue # << >> /\ item' = Head(queue) /\ queue' = Tail(queue)
      /\ UNCHANGED <<mSocket, mRefCount, mQueued, mDestroyed, mEvent, reading, sent,
                     read, ended, listener, listenerRefs, accepting, destroying>>
  BY Unpack DEF Dispatch, ThreadOK, eventVars, listenerVars
<1>2. /\ Listens' = Listens
      /\ \A d \in Conns :
           /\ Calls(d)' = Calls(d)
           /\ Reads(d) = Reads(d)' + IF item' = <<"read", d>> THEN 1 ELSE 0
           /\ Arrivals(d) = Arrivals(d)' + IF item' = <<"accept", d>> THEN 1 ELSE 0
           /\ Reads(d)' \in Nat /\ Arrivals(d)' \in Nat
      /\ queue' \in Seq(Items) /\ item' \in Items
  BY Unpack, <1>1, CountTake
<1> DEFINE k == item'[1]
           c == item'[2]
<1>3. /\ at' = IF Refused(item') THEN "release" ELSE "callback"
      /\ offered' = IF k = "read" /\ ~Refused(item')
                    THEN [offered EXCEPT ![c] = read[c]] ELSE offered
      /\ owned' = IF k = "accept" /\ ~Refused(item') THEN owned \cup {c} ELSE owned
      /\ memory' = IF k = "accept" /\ Refused(item')
                   THEN [memory EXCEPT ![c] = "freed"] ELSE memory
  BY <1>1 DEF Dispatch
<1>4. /\ k # "listening" => c \in Conns
      /\ \A d \in Conns : /\ item' = <<"read", d>> <=> k = "read" /\ c = d
                          /\ item' = <<"accept", d>> <=> k = "accept" /\ c = d
      /\ item' # << >>
  BY <1>2, ItemKinds
<1>5. k = "read" => (Refused(item') <=> c \in mDestroyed)
  BY DEF Refused
<1>6. TypeOK'
  <2>1. ConnType'
    BY Unpack, <1>1, <1>3, <1>4 DEF ConnType
  <2>2. BytesType'
    <3>1. CASE k = "read" /\ ~Refused(item')
      <4>1. c \in Conns /\ offered' = [offered EXCEPT ![c] = read[c]]
        BY <1>3, <1>4, <3>1
      <4> HIDE DEF c
      <4>2. offered' \in [Conns -> Nat]
        BY Unpack, <4>1 DEF BytesType
      <4>3. ASSUME NEW d \in Conns PROVE offered'[d] <= read'[d] /\ read'[d] <= sent'[d]
        BY Unpack, <1>1, <4>1 DEF BytesType
      <4> QED BY Unpack, <1>1, <4>2, <4>3 DEF BytesType
    <3>2. CASE ~(k = "read" /\ ~Refused(item'))
      BY Unpack, <1>1, <1>3, <3>2 DEF BytesType
    <3> QED BY <3>1, <3>2
  <2>3. RestType'
    BY Unpack, <1>1, <1>2, <1>3 DEF RestType
  <2> QED BY <2>1, <2>2, <2>3, TypePartsNext
<1>7. ListenerOK' /\ ThreadOK'
  BY Unpack, <1>1, <1>2, <1>3, <1>4, TcpAssumption DEF ListenerOK, ThreadOK, RestType
<1>8. ASSUME NEW d \in Conns PROVE ConnOK(d)'
  <2>0. ConnOK(d) /\ ~Rearming(d) /\ d # destroying
    <3>1. << >> # <<"read", d>>
      OBVIOUS
    <3> QED BY Unpack, <1>1, <3>1, TcpAssumption DEF Rearming
  <2>1. CASE item' = <<"read", d>>
    <3>1. k = "read" /\ c = d
      BY <1>4, <2>1
    <3>2. /\ UNCHANGED <<owned, memory>>
          /\ at' = IF d \in mDestroyed THEN "release" ELSE "callback"
      BY <1>3, <1>5, <3>1
    <3>3. /\ Reads(d) = Reads(d)' + 1 /\ Arrivals(d)' = Arrivals(d) /\ Calls(d)' = Calls(d)
          /\ Reads(d)' \in Nat
      BY Unpack, <1>2, <2>1, <1>4, <3>1
    <3>4. CountOK(d)' /\ LifeOK(d)'
      BY <1>1, <2>0, <3>2, <3>3 DEF ConnOK, CountOK, LifeOK
    <3>5. QuietOK(d)'
      BY <1>1, <2>0, <3>3 DEF ConnOK, QuietOK
    <3>6. Rearming(d)' <=> d \notin mDestroyed
      BY <2>1, <3>2 DEF Rearming
    <3>7. ArmedOK(d)'
      BY Unpack, <1>1, <2>0, <3>2, <3>3, <3>6 DEF ConnOK, ArmedOK
    <3> QED BY <3>4, <3>5, <3>7 DEF ConnOK
  <2>2. CASE item' = <<"accept", d>>
    <3>1. k = "accept" /\ c = d
      BY <1>4, <2>2
    <3>2. item' # <<"read", d>> /\ ~Rearming(d)'
      BY <2>2, <1>4, <3>1 DEF Rearming
    <3>3. /\ Arrivals(d) = 1 /\ Arrivals(d)' = 0 /\ Reads(d)' = Reads(d) /\ Calls(d)' = Calls(d)
          /\ memory[d] = "held" /\ mEvent[d] = "none" /\ mRefCount[d] = 0
          /\ d \notin owned /\ d \notin mDestroyed
      BY Unpack, <1>2, <2>0, <2>2, <3>2 DEF ConnOK, LifeOK
    <3>4. \/ memory'[d] = "freed" /\ owned' = owned
          \/ memory'[d] = "held" /\ d \in owned'
      BY Unpack, <1>3, <3>1, <3>3 DEF ConnType
    <3>5. CountOK(d)' /\ LifeOK(d)'
      BY <1>1, <2>0, <3>3, <3>4, TcpAssumption DEF ConnOK, CountOK, LifeOK
    <3>6. QuietOK(d)' /\ ArmedOK(d)'
      BY <1>1, <2>0, <3>2, <3>3 DEF ConnOK, QuietOK, ArmedOK
    <3> QED BY <3>5, <3>6 DEF ConnOK
  <2>3. CASE item' \notin {<<"read", d>>, <<"accept", d>>}
    <3>1. /\ Reads(d)' = Reads(d) /\ Arrivals(d)' = Arrivals(d) /\ Calls(d)' = Calls(d)
          /\ ~Rearming(d)'
      BY Unpack, <1>2, <2>3 DEF Rearming
    <3>2. ~(k = "accept" /\ c = d)
      BY <1>4, <2>3
    <3>3. d \in owned' <=> d \in owned
      BY <1>3, <3>2
    <3>4. memory'[d] = memory[d]
      <4> HIDE DEF c, k
      <4> QED BY Unpack, <1>3, <3>2 DEF ConnType
    <3> HIDE DEF c, k
    <3>5. SameConn(d)
      BY <1>1, <2>0, <3>1, <3>3, <3>4 DEF SameConn
    <3> QED BY <2>0, <3>5, SameConnOK
  <2> QED BY <2>1, <2>2, <2>3
<1> QED BY <1>6, <1>7, <1>8 DEF IInv

LEMMA FinishInv ==
  ASSUME IInv, Finish
  PROVE  IInv'
<1>1. /\ at = "release" /\ at' = "idle" /\ item \in Items /\ item' = << >>
      /\ destroying = NULL
      /\ UNCHANGED <<mSocket, mQueued, mDestroyed, mEvent, reading, queue,
                     destroying, owned>>
  BY Unpack DEF Finish, ThreadOK, RestType, eventVars
<1>2. /\ Listens' = Listens - IF item[1] \in {"accept", "listening"} THEN 1 ELSE 0
      /\ \A d \in Conns :
           /\ Calls(d)' = Calls(d) - IF item[1] \notin {"accept", "listening"} /\ item[2] = d
                                     THEN 1 ELSE 0
           /\ Reads(d)' = Reads(d) /\ Arrivals(d)' = Arrivals(d) /\ Calls(d)' \in Nat
      /\ Listens' \in Nat
  BY Unpack, <1>1, CountFinish
<1>3. \A d \in Conns : ~Rearming(d) /\ ~Rearming(d)'
  BY <1>1 DEF Rearming
<1>4. BytesType' /\ ThreadOK'
  BY Unpack, <1>1, BytesSame DEF Finish, ThreadOK
<1>5. CASE item[1] \in {"accept", "listening"}
  <2>1. /\ UNCHANGED <<memory, mRefCount>>
        /\ listenerRefs' = listenerRefs - 1
        /\ listener' = IF listenerRefs = 1 THEN "freed" ELSE listener
        /\ accepting' = accepting
    BY <1>5 DEF Finish, ReleaseListener
  <2>2. Listens' = Listens - 1 /\ \A d \in Conns : Calls(d)' = Calls(d)
    BY Unpack, <1>2, <1>5
  <2>3. ListenerOK' /\ listenerRefs' \in Nat
    BY Unpack, <1>2, <2>1, <2>2 DEF ListenerOK
  <2>4. TypeOK'
    <3>1. ConnType'
      BY Unpack, <1>1, <2>1 DEF ConnType
    <3>2. RestType'
      BY Unpack, <1>1, <2>1, <2>3 DEF RestType
    <3> QED BY <1>4, <3>1, <3>2, TypePartsNext
  <2>5. \A d \in Conns : SameConn(d)
    BY <1>1, <1>2, <1>3, <2>1, <2>2 DEF SameConn
  <2> QED BY Unpack, <1>4, <2>3, <2>4, <2>5, SameConnOK DEF IInv
<1>6. CASE item[1] \notin {"accept", "listening"}
  <2>1. PICK c \in Conns : c = item[2]
    BY <1>1, <1>6, ItemKinds
  <2>2. /\ mRefCount' = [mRefCount EXCEPT ![c] = @ - 1]
        /\ memory' = IF mRefCount[c] = 1 THEN [memory EXCEPT ![c] = "freed"] ELSE memory
        /\ UNCHANGED <<listener, listenerRefs, accepting>>
    BY <1>6, <2>1 DEF Finish, Release, listenerVars
  <2>3. /\ Listens' = Listens /\ Calls(c)' = Calls(c) - 1
        /\ \A d \in Conns \ {c} : Calls(d)' = Calls(d)
    BY Unpack, <1>2, <1>6, <2>1
  <2>4. TypeOK'
    <3>1. ConnType'
      BY Unpack, <1>1, <2>2 DEF ConnType
    <3>2. RestType'
      BY Unpack, <1>1, <2>2 DEF RestType
    <3> QED BY <1>4, <3>1, <3>2, TypePartsNext
  <2>5. ASSUME NEW d \in Conns, d # c PROVE ConnOK(d)'
    <3>1. memory'[d] = memory[d] /\ mRefCount'[d] = mRefCount[d]
      BY Unpack, <2>2, <2>5 DEF ConnType
    <3>2. SameConn(d)
      BY <1>1, <1>2, <1>3, <2>3, <2>5, <3>1 DEF SameConn
    <3> QED BY Unpack, <3>2, SameConnOK
  <2>6. ConnOK(c)'
    <3>1. /\ memory'[c] = IF mRefCount[c] = 1 THEN "freed" ELSE memory[c]
          /\ mRefCount'[c] = mRefCount[c] - 1
      BY Unpack, <2>2 DEF ConnType
    <3>2. ConnOK(c) /\ Calls(c) > 0 /\ Calls(c)' \in Nat /\ Reads(c)' = Reads(c)
          /\ Arrivals(c)' = Arrivals(c)
      BY Unpack, <1>2, <2>3
    <3>3. /\ mEvent[c] # "none" /\ memory[c] = "held" /\ mRefCount[c] > 0
          /\ mRefCount[c] = Calls(c)' + 1 + IF c \in owned \/ c = destroying THEN 1 ELSE 0
      BY Unpack, <2>3, <3>2 DEF ConnOK, CountOK, LifeOK
    <3>4. CountOK(c)'
      BY Unpack, <1>1, <3>1, <3>2, <3>3 DEF CountOK
    <3>5. LifeOK(c)'
      BY Unpack, <1>1, <3>1, <3>2, <3>3 DEF ConnOK, LifeOK
    <3>6. QuietOK(c)' /\ ArmedOK(c)'
      BY <1>1, <1>3, <3>2 DEF ConnOK, QuietOK, ArmedOK
    <3> QED BY <3>4, <3>5, <3>6 DEF ConnOK
  <2>7. ListenerOK'
    BY Unpack, <2>2, <2>3 DEF ListenerOK
  <2> QED BY <1>4, <2>4, <2>5, <2>6, <2>7 DEF IInv
<1> QED BY <1>5, <1>6

-----------------------------------------------------------------------------
(* The invariant, and what it implies. *)

\* Nothing is created, nothing is queued.
LEMMA InitInv == Init => IInv
<1> SUFFICES ASSUME Init PROVE IInv
  OBVIOUS
<1>1. TypeOK
  BY DEF Init, TypeOK
<1>2. item = << >> /\ queue = << >>
  BY DEF Init
<1>3. \A S : Queued(S) = 0 /\ Pending(S) = 0
  <2> TAKE S
  <2>1. {k \in DOMAIN queue : queue[k] \in S} = {}
    BY <1>2
  <2> QED BY <1>2, <2>1, FS_EmptySet DEF Queued, Pending
<1>4. /\ Listens = 0
      /\ \A c \in Conns : Calls(c) = 0 /\ Reads(c) = 0 /\ Arrivals(c) = 0 /\ ~Rearming(c)
  BY <1>3 DEF Listens, Calls, Reads, Arrivals, Rearming, Init
<1>5. ListenerOK /\ ThreadOK
  BY <1>4 DEF Init, ListenerOK, ThreadOK
<1>6. ASSUME NEW c \in Conns PROVE ConnOK(c)
  <2>1. memory[c] = "none" /\ mRefCount[c] = 0 /\ mEvent[c] = "none"
    BY DEF Init
  <2>2. /\ c \notin owned /\ c # destroying /\ c \notin mDestroyed
        /\ c \notin mQueued /\ c \notin reading
    BY TcpAssumption DEF Init
  <2> QED BY <1>4, <2>1, <2>2 DEF ConnOK, CountOK, LifeOK, QuietOK, ArmedOK
<1> QED BY <1>1, <1>5, <1>6 DEF IInv

\* A step of others changes nothing.
LEMMA StutterInv ==
  ASSUME IInv, UNCHANGED vars
  PROVE  IInv'
<1>1. /\ TypeOK /\ ListenerOK /\ ThreadOK /\ \A d \in Conns : ConnOK(d)
  BY Unpack
<1>2. UNCHANGED <<memory, mSocket, mRefCount, mQueued, mDestroyed, mEvent, reading, sent,
                  read, offered, ended, listener, listenerRefs, accepting, queue, item, at,
                  destroying, owned>>
  BY DEF vars, connVars, eventVars, byteVars, listenerVars, threadVars
<1>3. /\ Listens' = Listens
      /\ \A d \in Conns :
           Calls(d)' = Calls(d) /\ Reads(d)' = Reads(d) /\ Arrivals(d)' = Arrivals(d)
  BY <1>2, CountSame
<1>4. TypeOK' /\ ListenerOK' /\ ThreadOK'
  BY <1>1, <1>2, <1>3 DEF TypeOK, ListenerOK, ThreadOK
<1>5. \A d \in Conns : SameConn(d)
  BY <1>2, <1>3 DEF SameConn, Rearming
<1> QED BY <1>1, <1>4, <1>5, SameConnOK DEF IInv

\* The connection being accepted stays what it is until sbfTcpListenerEventCb is done.
LEMMA NextArriving ==
  ASSUME IInv, Arriving, Next
  PROVE  Arriving'
<1> SUFFICES ASSUME NEW a \in Conns, accepting' = a
             PROVE  memory'[a] = "none" /\ listener' # "none"
  <2>1. accepting' \in Incoming \cup {NULL} \/ UNCHANGED accepting
    BY DEF Next, QueueThread, EventThread, Create, CreateFails, Accept, DestroyMark, PeerSend,
           PeerClose, Connected, Failed, WriteFails, EndOfFile, EventRead, Arrive,
           ListenerCreate, ListenerDestroy, ListenerEventCb, DestroyFree, Dispatch, Return,
           Rearm, ResetQueued, EnableRead, Finish, listenerVars
  <2>2. accepting' \in Conns \cup {NULL}
    BY <2>1, Unpack DEF RestType, Conns
  <2> QED BY <2>2 DEF Arriving
<1>1. memory \in [Conns -> {"none", "held", "freed"}]
  BY Unpack DEF ConnType
<1>2. ~ListenerEventCb
  BY TcpAssumption DEF ListenerEventCb
<1>3. CASE \E c \in Conns : Arrive(c)
  BY <1>3 DEF Arrive, New
<1>4. ASSUME memory[a] = "none", listener # "none", a = accepting,
             NEW c \in Conns, Create(c) \/ CreateFails(c)
      PROVE  memory'[a] = "none" /\ listener' # "none"
  BY <1>1, <1>4 DEF Create, CreateFails, New, listenerVars
<1>5. ASSUME memory[a] = "none", listener # "none", NEW c \in Conns,
             Accept(c) \/ DestroyMark(c) \/ PeerSend(c) \/ PeerClose(c) \/ EventThread(c)
      PROVE  memory'[a] = "none" /\ listener' # "none"
  BY <1>5
     DEF EventThread, Accept, DestroyMark, PeerSend, PeerClose, Connected, Failed, WriteFails,
         EndOfFile, EventRead, Enqueue, connVars, listenerVars
<1>6. ASSUME memory[a] = "none", listener # "none",
             ListenerCreate \/ ListenerDestroy \/ Return \/ Rearm
      PROVE  memory'[a] = "none" /\ listener' # "none"
  BY <1>6
     DEF ListenerCreate, ListenerDestroy, Return, Rearm, ResetQueued, EnableRead, connVars,
         listenerVars
<1>7. ASSUME memory[a] = "none", NEW c \in Conns, Arrivals(c) > 0 \/ mRefCount[c] = 1
      PROVE  [memory EXCEPT ![c] = "freed"][a] = "none"
  <2>1. c # a
    BY Unpack, <1>7 DEF ConnOK, LifeOK
  <2> QED BY <1>1, <1>7, <2>1
<1>8. ASSUME memory[a] = "none", listener # "none", DestroyFree
      PROVE  memory'[a] = "none" /\ listener' # "none"
  <2>1. PICK c \in Conns : c = destroying
    BY <1>8, Unpack DEF DestroyFree, RestType
  <2> QED BY <1>7, <1>8, <2>1 DEF DestroyFree, Release, listenerVars
<1>9. ASSUME memory[a] = "none", listener # "none", Dispatch
      PROVE  memory'[a] = "none" /\ listener' # "none"
  <2>1. queue # << >> /\ item = << >> /\ item' = Head(queue) /\ queue' = Tail(queue)
        /\ queue \in Seq(Items)
    BY <1>9, Unpack DEF Dispatch, ThreadOK, RestType
  <2>2. listener' = listener /\ (\/ memory' = memory
                                 \/ /\ item'[1] = "accept"
                                    /\ memory' = [memory EXCEPT ![item'[2]] = "freed"])
    BY <1>9, <2>1 DEF Dispatch, listenerVars
  <2>3. CASE memory' # memory
    <3>1. item' \in Items
      BY <2>1
    <3>2. PICK c \in Conns : c = item'[2] /\ item' = <<"accept", c>>
      BY <2>2, <2>3, <3>1, ItemKinds
    <3>3. Arrivals(c) = Arrivals(c)' + (IF item' = <<"accept", c>> THEN 1 ELSE 0)
          /\ Arrivals(c)' \in Nat
      BY Unpack, <2>1, CountTake
    <3>4. Arrivals(c) > 0
      <4>1. Arrivals(c) = Arrivals(c)' + 1
        BY <3>2, <3>3
      <4> QED BY <3>3, <4>1
    <3> QED BY <1>7, <1>9, <2>2, <2>3, <3>2, <3>4
  <2> QED BY <1>9, <2>2, <2>3
<1>10. ASSUME memory[a] = "none", listener # "none", Finish
       PROVE  memory'[a] = "none" /\ listener' # "none"
  <2>1. item \in Items
    BY <1>10, Unpack DEF Finish, ThreadOK, RestType
  <2>2. CASE item[1] \in {"accept", "listening"}
    BY <1>10, <2>2 DEF Finish, ReleaseListener
  <2>3. CASE item[1] \notin {"accept", "listening"}
    <3>1. PICK c \in Conns : c = item[2]
      BY <2>1, <2>3, ItemKinds
    <3> QED BY <1>7, <1>10, <2>3, <3>1 DEF Finish, Release, listenerVars
  <2> QED BY <2>2, <2>3
<1>11. CASE ~\E c \in Conns : Arrive(c)
  <2>1. accepting = a
    BY <1>2, <1>11
       DEF Next, QueueThread, EventThread, Create, CreateFails, Accept, DestroyMark, PeerSend,
           PeerClose, Connected, Failed, WriteFails, EndOfFile, EventRead, ListenerCreate,
           ListenerDestroy, DestroyFree, Dispatch, Return, Rearm, ResetQueued, EnableRead,
           Finish, listenerVars
  <2>2. memory[a] = "none" /\ listener # "none" /\ a = accepting
    BY <2>1, TcpAssumption DEF Arriving, Conns
  <2> QED BY <1>2, <1>4, <1>5, <1>6, <1>8, <1>9, <1>10, <1>11, <2>2 DEF Next, QueueThread
<1> QED BY <1>3, <1>11

\* Every step of event thread, application and queue keeps the invariant.
LEMMA NextInv ==
  ASSUME IInv, Arriving, Next
  PROVE  IInv'
<1>1. ASSUME NEW c \in Conns,
             \/ Create(c) \/ CreateFails(c) \/ Accept(c) \/ DestroyMark(c)
             \/ PeerSend(c) \/ PeerClose(c)
             \/ EventThread(c) \/ Arrive(c)
      PROVE  IInv'
  BY <1>1, CreateInv, CreateFailsInv, AcceptInv, DestroyMarkInv, PeerSendInv, PeerCloseInv,
     ConnectedInv, FailedInv, WriteFailsInv, EndOfFileInv, EventReadInv, ArriveInv
     DEF EventThread
<1>2. CASE ListenerCreate \/ ListenerDestroy
  BY <1>2, ListenerCreateInv, ListenerDestroyInv
<1>3. CASE ListenerEventCb
  <2>1. PICK c \in Conns : c = accepting
    BY <1>3, Unpack DEF ListenerEventCb, RestType, Conns
  <2>2. memory[c] = "none" /\ listener # "none"
    BY <1>3, <2>1 DEF Arriving, ListenerEventCb
  <2> QED BY <1>3, <2>1, <2>2, ListenerEventInv
<1>4. CASE DestroyFree
  <2>1. PICK c \in Conns : c = destroying
    BY <1>4, Unpack DEF DestroyFree, TypeOK
  <2> QED BY <1>4, <2>1, DestroyFreeInv
<1>5. CASE Rearm
  <2>1. item[1] = "read" /\ item \in Items
    BY <1>5, Unpack DEF Rearm, ResetQueued, EnableRead, ThreadOK, TypeOK
  <2>2. PICK c \in Conns : item = <<"read", c>>
    BY <2>1, ItemKinds
  <2> QED BY <1>5, <2>2, ResetQueuedInv, EnableReadInv DEF Rearm
<1>6. CASE Dispatch \/ Return \/ Finish
  BY <1>6, DispatchInv, ReturnInv, FinishInv
<1> QED BY <1>1, <1>2, <1>3, <1>4, <1>5, <1>6 DEF Next, QueueThread

\* The invariant holds always.
LEMMA Invariance == Spec => []IInv
<1>1. Init => IInv /\ Arriving
  BY InitInv DEF Init, Arriving
<1>2. IInv /\ Arriving /\ [Next]_vars => IInv' /\ Arriving'
  <2>1. ASSUME Arriving, UNCHANGED vars PROVE Arriving'
    BY <2>1 DEF Arriving, vars, connVars, listenerVars
  <2> QED BY <2>1, NextInv, NextArriving, StutterInv
<1> QED BY <1>1, <1>2, PTL DEF Spec

\* The state of every connection, of the listener and of the thread of the queue
\* keeps its type, whatever sbfTcpConnection.c and sbfTcpListener.c do; and no
\* byte is shown to the application before it is read, or read before it is sent.
THEOREM TypeCorrect == Spec => []TypeOK
<1>1. IInv => TypeOK
  BY DEF IInv
<1> QED BY Invariance, <1>1, PTL

\* The counts of sbfTcpConnection.c and sbfTcpListener.c are right at every step:
\* a connection, and the listener, is freed with its last reference and not
\* before, for any number of connections.  So a connection is not freed under a
\* callback, of the queue or of libevent, and the listener not under one of the
\* queue; sbfTcpListenerEventCb has no reference, and a step of it may find the
\* listener freed (ListenerHeld).
THEOREM RefsCorrect == Spec => []RefsOK
<1>1. IInv => RefsOK
  <2> SUFFICES ASSUME IInv PROVE RefsOK
    OBVIOUS
  <2>1. ListenerOK /\ \A c \in Conns : ConnOK(c)
    BY Unpack
  <2>2. ASSUME NEW c \in Conns
        PROVE  /\ mEvent[c] # "none" =>
                    mRefCount[c] = Pending(Callbacks(c))
                                   + IF c \in owned \/ c = destroying THEN 1 ELSE 0
               /\ mEvent[c] # "none" => (memory[c] = "held" <=> mRefCount[c] > 0)
               /\ c \in reading \/ Established(c) \/ mEvent[c] = "connecting" =>
                    memory[c] = "held"
    <3>1. CountOK(c) /\ LifeOK(c)
      BY <2>1 DEF ConnOK
    <3>2. Calls(c) \in Nat
      BY Unpack
    <3> QED BY <3>1, <3>2 DEF CountOK, LifeOK, Calls, Established
  <2> QED BY <2>1, <2>2 DEF RefsOK, ListenerOK, Listens
<1> QED BY Invariance, <1>1, PTL

\* sbfTcpConnectionEventReadCb and sbfTcpConnectionReadQueueCb lose no wakeup:
\* an established connection reads, or has exactly one callback that will make it
\* read, in every order of the event thread and the queue.
THEOREM ReadsArmed == Spec => []ReadArmed
<1>1. IInv => ReadArmed
  <2> SUFFICES ASSUME IInv, NEW c \in Conns, Established(c), c \notin mDestroyed
               PROVE  /\ ReadsQueued(c) = IF c \in reading THEN 0 ELSE 1
                      /\ c \in mQueued => c \notin reading
                      /\ c \notin mQueued /\ c \notin reading =>
                           item = <<"read", c>> /\ at = "enable"
    BY DEF ReadArmed
  <2>1. ArmedOK(c)
    BY Unpack DEF ConnOK
  <2>2. ReadsQueued(c) = Reads(c) + IF Rearming(c) THEN 1 ELSE 0
    BY DEF ReadsQueued, Reads, Rearming
  <2>3. Reads(c) \in Nat
    BY Unpack
  <2> QED BY <2>1, <2>2, <2>3 DEF ArmedOK, Established, Rearming
<1> QED BY Invariance, <1>1, PTL

-----------------------------------------------------------------------------
(* The order of the callbacks. *)

\* Whether one of S waits in the queue.
Waits(i) == \E k \in DOMAIN queue : queue[k] = i

\* All of the one kind wait before any of the other.
Before(i, j) ==
  \A k, l \in DOMAIN queue : queue[k] = i /\ queue[l] = j => k < l

\* Nothing is queued for a connection before it is established or has failed.
FreshOK(c) == mEvent[c] \in {"none", "null", "connecting"} => Calls(c) = 0

\* What has been read has been shown or a read callback waits.
ShownOK(c) == c \notin mDestroyed /\ Reads(c) = 0 => offered[c] = read[c]

\* Ready comes before the reads, and the reads before the end of file.
SequenceOK(c) ==
  /\ Before(<<"ready", c>>, <<"read", c>>) /\ Before(<<"read", c>>, <<"eof", c>>)
  /\ item = <<"read", c>> => ~Waits(<<"ready", c>>)
  /\ item = <<"eof", c>> => ~Waits(<<"read", c>>)

\* After the end of file nothing is sent or read.
EndOK(c) ==
  /\ Waits(<<"eof", c>>) \/ item = <<"eof", c>> =>
       mEvent[c] \in {"failed", "freed"} /\ read[c] = sent[c]
  /\ item = <<"eof", c>> /\ at = "callback" => offered[c] = sent[c]

OrderOK(c) == FreshOK(c) /\ ShownOK(c) /\ SequenceOK(c) /\ EndOK(c)

OrderInv == \A c \in Conns : OrderOK(c)

\* A step that takes nothing from the queue and puts nothing in it keeps the order.
LEMMA OrderSame ==
  ASSUME NEW c \in Conns, OrderOK(c), queue' = queue, item' = item,
         at' = at \/ at' # "callback",
         offered'[c] = offered[c], read'[c] = read[c],
         sent'[c] = sent[c] \/ mEvent[c] \notin {"failed", "freed"},
         c \in mDestroyed => c \in mDestroyed',
         mEvent'[c] \in {"none", "null", "connecting"} =>
           mEvent[c] \in {"none", "null", "connecting"},
         mEvent[c] \in {"failed", "freed"} => mEvent'[c] \in {"failed", "freed"}
  PROVE  OrderOK(c)'
<1>1. Calls(c)' = Calls(c) /\ Reads(c)' = Reads(c)
  BY CountSame
<1>2. FreshOK(c)' /\ ShownOK(c)'
  BY <1>1 DEF OrderOK, FreshOK, ShownOK
<1>3. SequenceOK(c)'
  BY DEF OrderOK, SequenceOK, Before, Waits
<1>4. EndOK(c)'
  BY DEF OrderOK, EndOK, Waits
<1> QED BY <1>2, <1>3, <1>4 DEF OrderOK

\* A callback that is queued waits behind the others.
LEMMA WaitsAppend ==
  ASSUME queue \in Seq(Items), NEW i \in Items, queue' = Append(queue, i)
  PROVE  /\ \A j : Waits(j)' <=> Waits(j) \/ j = i
         /\ \A j, k : Before(j, k) /\ (i = j => ~Waits(k) /\ k # i) => Before(j, k)'
<1>1. /\ Len(queue) \in Nat /\ DOMAIN queue = 1..Len(queue)
      /\ DOMAIN queue' = 1..(Len(queue) + 1)
      /\ queue'[Len(queue) + 1] = i
      /\ \A k \in 1..Len(queue) : queue'[k] = queue[k]
  OBVIOUS
<1>2. ASSUME NEW j PROVE Waits(j)' <=> Waits(j) \/ j = i
  <2>1. ASSUME Waits(j)' PROVE Waits(j) \/ j = i
    <3>1. PICK k \in 1..(Len(queue) + 1) : queue'[k] = j
      BY <1>1, <2>1 DEF Waits
    <3> QED BY <1>1, <3>1 DEF Waits
  <2>2. ASSUME Waits(j) PROVE Waits(j)'
    <3>1. PICK k \in 1..Len(queue) : queue[k] = j
      BY <1>1, <2>2 DEF Waits
    <3>2. k \in DOMAIN queue' /\ queue'[k] = j
      BY <1>1, <3>1
    <3> QED BY <3>2 DEF Waits
  <2>3. ASSUME j = i PROVE Waits(j)'
    <3>1. Len(queue) + 1 \in DOMAIN queue' /\ queue'[Len(queue) + 1] = j
      BY <1>1, <2>3
    <3> QED BY <3>1 DEF Waits
  <2> QED BY <2>1, <2>2, <2>3
<1>3. ASSUME NEW j, NEW k, Before(j, k), i = j => ~Waits(k) /\ k # i
      PROVE  Before(j, k)'
  <2> SUFFICES ASSUME NEW m \in 1..(Len(queue) + 1), NEW n \in 1..(Len(queue) + 1),
                      queue'[m] = j, queue'[n] = k
               PROVE  m < n
    BY <1>1 DEF Before
  <2>1. CASE m \in 1..Len(queue) /\ n \in 1..Len(queue)
    BY <1>1, <1>3, <2>1 DEF Before
  <2>2. CASE m = Len(queue) + 1
    <3>1. i = j
      BY <1>1, <2>2
    <3>2. n # Len(queue) + 1
      BY <1>1, <1>3, <3>1
    <3>3. n \in DOMAIN queue /\ queue[n] = k
      BY <1>1, <3>2
    <3> QED BY <1>3, <3>1, <3>3 DEF Waits
  <2>3. CASE m \in 1..Len(queue) /\ n = Len(queue) + 1
    BY <1>1, <2>3
  <2> QED BY <1>1, <2>1, <2>2, <2>3
<1> QED BY <1>2, <1>3

\* The first in the queue is taken: what was not behind it does not wait.
LEMMA WaitsTail ==
  ASSUME queue \in Seq(Items), queue # << >>, queue' = Tail(queue)
  PROVE  /\ \A j : Waits(j)' => Waits(j)
         /\ \A j, k : Before(j, k) => Before(j, k)'
         /\ \A j : Before(j, Head(queue)) /\ j # Head(queue) => ~Waits(j)'
<1>1. /\ Len(queue) \in Nat /\ Len(queue) > 0 /\ DOMAIN queue = 1..Len(queue)
      /\ DOMAIN queue' = 1..(Len(queue) - 1)
      /\ Head(queue) = queue[1]
      /\ \A k \in 1..(Len(queue) - 1) : queue'[k] = queue[k + 1]
  OBVIOUS
<1>2. ASSUME NEW j, Waits(j)' PROVE \E k \in DOMAIN queue : k > 1 /\ queue[k] = j
  <2>1. PICK k \in 1..(Len(queue) - 1) : queue'[k] = j
    BY <1>1, <1>2 DEF Waits
  <2>2. k + 1 \in DOMAIN queue /\ k + 1 > 1 /\ queue[k + 1] = j
    BY <1>1, <2>1
  <2> QED BY <2>2
<1>3. ASSUME NEW j, NEW k, Before(j, k) PROVE Before(j, k)'
  <2> SUFFICES ASSUME NEW m \in 1..(Len(queue) - 1), NEW n \in 1..(Len(queue) - 1),
                      queue'[m] = j, queue'[n] = k
               PROVE  m < n
    BY <1>1 DEF Before
  <2>1. m + 1 \in DOMAIN queue /\ n + 1 \in DOMAIN queue /\ queue[m + 1] = j /\ queue[n + 1] = k
    BY <1>1
  <2>2. m + 1 < n + 1
    BY <1>3, <2>1 DEF Before
  <2> QED BY <2>2
<1>4. ASSUME NEW j, Before(j, Head(queue)), Waits(j)' PROVE FALSE
  <2>1. PICK k \in DOMAIN queue : k > 1 /\ queue[k] = j
    BY <1>2, <1>4
  <2>2. k < 1
    BY <1>1, <1>4, <2>1 DEF Before
  <2> QED BY <1>1, <2>1, <2>2
<1> QED BY <1>2, <1>3, <1>4 DEF Waits

\* What is counted as waiting waits.
LEMMA WaitsCount ==
  ASSUME IInv, NEW c \in Conns
  PROVE  /\ Reads(c) = 0 <=> ~Waits(<<"read", c>>)
         /\ Calls(c) = 0 =>
              \A i \in Callbacks(c) : ~Waits(i) /\ item # i
<1>1. queue \in Seq(Items)
  BY Unpack DEF RestType
<1>2. ASSUME NEW S PROVE /\ Queued(S) \in Nat
                         /\ Queued(S) = 0 <=> \A i \in S : ~Waits(i)
  <2>1. PICK A : A = {k \in DOMAIN queue : queue[k] \in S}
    OBVIOUS
  <2>2. IsFiniteSet(A) /\ Cardinality(A) \in Nat
    BY <1>1, <2>1, MatchesFinite, FS_CardinalityType
  <2>3. A = {} <=> \A i \in S : ~Waits(i)
    BY <2>1 DEF Waits
  <2>4. Cardinality(A) = 0 <=> A = {}
    BY <2>2, FS_EmptySet
  <2> QED BY <2>1, <2>2, <2>3, <2>4 DEF Queued
<1>3. Reads(c) = 0 <=> ~Waits(<<"read", c>>)
  BY <1>2 DEF Reads
<1>4. ASSUME Calls(c) = 0, NEW i \in Callbacks(c) PROVE ~Waits(i) /\ item # i
  <2>1. Queued(Callbacks(c)) = 0 /\ ~(item # << >> /\ item \in Callbacks(c))
    BY <1>2, <1>4 DEF Calls, Pending
  <2>2. i # << >>
    BY NoItem DEF Callbacks, Items
  <2> QED BY <1>2, <1>4, <2>1, <2>2
<1> QED BY <1>3, <1>4

\* A callback of another connection or of the listener is queued.
LEMMA OrderOther ==
  ASSUME IInv, NEW c \in Conns, OrderOK(c), NEW i \in Items, queue' = Append(queue, i),
         i[2] # c \/ i[1] = "accept", item' = item, at' = at,
         offered'[c] = offered[c], read'[c] = read[c], sent'[c] = sent[c],
         mDestroyed' = mDestroyed, mEvent'[c] = mEvent[c]
  PROVE  OrderOK(c)'
<1>1. queue \in Seq(Items) /\ TypeOK
  BY Unpack DEF RestType
<1>2. Calls(c)' = Calls(c) /\ Reads(c)' = Reads(c)
  <2>1. /\ Calls(c)' = Calls(c) + IF i[1] \notin {"accept", "listening"} /\ i[2] = c
                                  THEN 1 ELSE 0
        /\ Reads(c)' = Reads(c) + IF i[1] = "read" /\ i[2] = c THEN 1 ELSE 0
    BY <1>1, CountEnqueue
  <2>2. Calls(c) \in Nat /\ Reads(c) \in Nat
    BY Unpack
  <2> QED BY <2>1, <2>2
<1>3. FreshOK(c)' /\ ShownOK(c)'
  BY <1>2 DEF OrderOK, FreshOK, ShownOK
<1>4. i \notin {<<"ready", c>>, <<"read", c>>, <<"eof", c>>}
  OBVIOUS
<1>5. \A j \in {<<"ready", c>>, <<"read", c>>, <<"eof", c>>} : Waits(j)' <=> Waits(j)
  BY <1>1, <1>4, WaitsAppend
<1>6. \A j, k : Before(j, k) /\ i # j => Before(j, k)'
  BY <1>1, WaitsAppend
<1>7. SequenceOK(c)'
  BY <1>4, <1>5, <1>6 DEF OrderOK, SequenceOK
<1>8. EndOK(c)'
  BY <1>5 DEF OrderOK, EndOK
<1> QED BY <1>3, <1>7, <1>8 DEF OrderOK

\* Connected, Failed, WriteFails, EndOfFile and EventRead queue a callback of c.
LEMMA OrderEnqueue ==
  ASSUME IInv, NEW c \in Conns, OrderOK(c), NEW kind \in ConnKinds \ {"accept"},
         queue' = Append(queue, <<kind, c>>), item' = item, at' = at,
         mDestroyed' = mDestroyed, sent' = sent, offered' = offered,
         mEvent'[c] \notin {"none", "null", "connecting"},
         mEvent[c] \notin {"failed", "freed"},
         kind = "ready" => mEvent[c] = "connecting",
         kind = "eof" => /\ mEvent'[c] = "failed" /\ read[c] = sent[c],
         kind # "read" => read' = read
  PROVE  OrderOK(c)'
<1>1. queue \in Seq(Items) /\ TypeOK
  BY Unpack DEF RestType
<1>2. PICK i \in Items : i = <<kind, c>>
  BY ItemKinds
<1>3. /\ Reads(c)' = Reads(c) + IF kind = "read" THEN 1 ELSE 0
      /\ Reads(c) \in Nat
  <2>1. Reads(c)' = Reads(c) + IF i[1] = "read" /\ i[2] = c THEN 1 ELSE 0
    BY <1>1, <1>2, CountEnqueue
  <2> QED BY <2>1, <1>2, Unpack
<1>4. FreshOK(c)'
  BY DEF FreshOK
<1>5. ShownOK(c)'
  BY <1>3 DEF OrderOK, ShownOK
<1>6. ~Waits(<<"eof", c>>) /\ item # <<"eof", c>>
  BY DEF OrderOK, EndOK
<1>7. kind = "ready" => ~Waits(<<"read", c>>) /\ item # <<"read", c>>
  <2> SUFFICES ASSUME kind = "ready" PROVE ~Waits(<<"read", c>>) /\ item # <<"read", c>>
    OBVIOUS
  <2>1. Calls(c) = 0
    BY DEF OrderOK, FreshOK
  <2>2. <<"read", c>> \in Callbacks(c)
    BY DEF Callbacks, ConnKinds
  <2> QED BY <2>1, <2>2, WaitsCount
<1>8. /\ \A j : Waits(j)' <=> Waits(j) \/ j = i
      /\ \A j, k : Before(j, k) /\ (i = j => ~Waits(k) /\ k # i) => Before(j, k)'
  BY <1>1, <1>2, WaitsAppend
<1>9. SequenceOK(c)'
  <2>1. Before(<<"ready", c>>, <<"read", c>>)'
    <3>1. i = <<"ready", c>> => ~Waits(<<"read", c>>) /\ <<"read", c>> # i
      BY <1>2, <1>7
    <3> QED BY <1>8, <3>1 DEF OrderOK, SequenceOK
  <2>2. Before(<<"read", c>>, <<"eof", c>>)'
    <3>1. i = <<"read", c>> => ~Waits(<<"eof", c>>) /\ <<"eof", c>> # i
      BY <1>2, <1>6
    <3> QED BY <1>8, <3>1 DEF OrderOK, SequenceOK
  <2>3. item = <<"read", c>> => ~Waits(<<"ready", c>>)'
    <3>1. item = <<"read", c>> => i # <<"ready", c>>
      BY <1>2, <1>7
    <3> QED BY <1>8, <3>1 DEF OrderOK, SequenceOK
  <2> QED BY <1>6, <2>1, <2>2, <2>3 DEF SequenceOK
<1>10. EndOK(c)'
  <2>1. Waits(<<"eof", c>>)' => kind = "eof"
    BY <1>2, <1>6, <1>8
  <2> QED BY <1>6, <2>1 DEF EndOK
<1> QED BY <1>4, <1>5, <1>9, <1>10 DEF OrderOK

\* The thread of the queue takes a callback.
LEMMA OrderDispatch ==
  ASSUME IInv, OrderInv, Dispatch
  PROVE  OrderInv'
<1> SUFFICES ASSUME NEW c \in Conns PROVE OrderOK(c)'
  BY DEF OrderInv
<1>1. TypeOK /\ queue \in Seq(Items) /\ queue # << >> /\ item = << >> /\ OrderOK(c)
      /\ item \in Items \cup {<< >>}
  BY Unpack DEF RestType, ThreadOK, Dispatch, OrderInv
<1>2. PICK i \in Items : i = Head(queue) /\ item' = i /\ queue' = Tail(queue)
  <2>1. Head(queue) \in Items
    BY <1>1
  <2> QED BY <2>1 DEF Dispatch
<1>3. /\ Calls(c)' = Calls(c)
      /\ Reads(c) = Reads(c)' + IF i = <<"read", c>> THEN 1 ELSE 0
      /\ Reads(c)' \in Nat
  <2>1. /\ Calls(c)' = Calls(c)
        /\ Reads(c) = Reads(c)' + IF item' = <<"read", c>> THEN 1 ELSE 0
        /\ Reads(c)' \in Nat
    BY <1>1, <1>2, CountTake
  <2> QED BY <2>1, <1>2
<1>4. mEvent' = mEvent /\ mDestroyed' = mDestroyed /\ read' = read /\ sent' = sent
  BY DEF Dispatch, eventVars
<1>5. FreshOK(c)'
  BY <1>1, <1>3, <1>4 DEF OrderOK, FreshOK
<1>6. offered'[c] = IF i = <<"read", c>> /\ c \notin mDestroyed THEN read[c] ELSE offered[c]
  <2>1. offered' = IF i[1] = "read" /\ ~Refused(i)
                   THEN [offered EXCEPT ![i[2]] = read[i[2]]] ELSE offered
    BY <1>2 DEF Dispatch
  <2>2. offered \in [Conns -> Nat]
    BY <1>1 DEF TypeOK
  <2>3. i[1] = "read" => (Refused(i) <=> i[2] \in mDestroyed)
    BY DEF Refused
  <2>4. i = <<"read", c>> <=> i[1] = "read" /\ i[2] = c
    BY ItemKinds
  <2> QED BY <2>1, <2>2, <2>3, <2>4
<1>7. ShownOK(c)'
  BY <1>1, <1>3, <1>4, <1>6 DEF OrderOK, ShownOK
<1>8. /\ \A j : Waits(j)' => Waits(j)
      /\ \A j, k : Before(j, k) => Before(j, k)'
      /\ \A j : Before(j, i) /\ j # i => ~Waits(j)'
      /\ Waits(i)
  <2>1. 1 \in DOMAIN queue /\ queue[1] = i
    BY <1>1, <1>2
  <2> QED BY <1>1, <1>2, <2>1, WaitsTail DEF Waits
<1>9. SequenceOK(c)'
  <2>1. Before(<<"ready", c>>, <<"read", c>>) /\ Before(<<"read", c>>, <<"eof", c>>)
    BY <1>1 DEF OrderOK, SequenceOK
  <2>2. <<"ready", c>> # <<"read", c>> /\ <<"read", c>> # <<"eof", c>>
    OBVIOUS
  <2>3. i = <<"read", c>> => ~Waits(<<"ready", c>>)'
    BY <1>8, <2>1, <2>2
  <2>4. i = <<"eof", c>> => ~Waits(<<"read", c>>)'
    BY <1>8, <2>1, <2>2
  <2> QED BY <1>2, <1>8, <2>1, <2>3, <2>4 DEF SequenceOK
<1>10. EndOK(c)'
  <2>1. Waits(<<"eof", c>>)' \/ i = <<"eof", c>> => Waits(<<"eof", c>>)
    BY <1>8
  <2>2. Waits(<<"eof", c>>)' \/ i = <<"eof", c>> =>
          mEvent[c] \in {"failed", "freed"} /\ read[c] = sent[c]
    BY <1>1, <2>1 DEF OrderOK, EndOK
  <2>3. ASSUME i = <<"eof", c>>, at' = "callback" PROVE offered'[c] = sent'[c]
    <3>1. c \notin mDestroyed
      BY <1>2, <2>3 DEF Dispatch, Refused
    <3>2. ~Waits(<<"read", c>>)'
      BY <1>2, <1>9, <2>3 DEF SequenceOK
    <3>3. i # <<"read", c>>
      BY <2>3
    <3>4. ~Waits(<<"read", c>>)
      <4>1. SUFFICES ASSUME NEW k \in DOMAIN queue, queue[k] = <<"read", c>> PROVE FALSE
        BY DEF Waits
      <4>2. k < 1
        <5>1. 1 \in DOMAIN queue /\ queue[1] = <<"eof", c>>
          BY <1>1, <1>2, <2>3
        <5> QED BY <1>1, <4>1, <5>1 DEF OrderOK, SequenceOK, Before
      <4> QED BY <1>1, <4>2
    <3>5. offered[c] = read[c]
      BY <1>1, <3>1, <3>4, WaitsCount DEF OrderOK, ShownOK
    <3> QED BY <1>4, <1>6, <2>2, <2>3, <3>3, <3>5
  <2> QED BY <1>2, <1>4, <2>2, <2>3 DEF EndOK
<1> QED BY <1>5, <1>7, <1>9, <1>10 DEF OrderOK

\* A callback is done.
LEMMA OrderFinish ==
  ASSUME IInv, OrderInv, Finish
  PROVE  OrderInv'
<1> SUFFICES ASSUME NEW c \in Conns PROVE OrderOK(c)'
  BY DEF OrderInv
<1>1. TypeOK /\ OrderOK(c) /\ item \in Items /\ ThreadOK
  BY Unpack DEF RestType, ThreadOK, Finish, OrderInv
<1>2. /\ queue' = queue /\ item' = << >> /\ mEvent' = mEvent /\ mDestroyed' = mDestroyed
      /\ UNCHANGED <<read, sent, offered>>
  BY DEF Finish, eventVars, byteVars
<1>3. \A k : item' # <<k, c>>
  BY <1>2
<1>4. Reads(c)' = Reads(c)
  BY <1>1, <1>2, CountFinish
<1>5. Calls(c) = 0 => Calls(c)' = 0
  <2>1. /\ Calls(c)' = Calls(c) - IF item[1] \notin {"accept", "listening"} /\ item[2] = c
                                  THEN 1 ELSE 0
        /\ Calls(c)' \in Nat /\ Calls(c) \in Nat
    BY <1>1, <1>2, CountFinish, Unpack
  <2>2. Calls(c)' = Calls(c) \/ Calls(c)' = Calls(c) - 1
    BY <2>1
  <2>3. Calls(c) = 0 => Calls(c)' # Calls(c) - 1
    BY <2>1
  <2> QED BY <2>2, <2>3
<1>6. FreshOK(c)' /\ ShownOK(c)'
  BY <1>1, <1>2, <1>4, <1>5 DEF OrderOK, FreshOK, ShownOK
<1>7. SequenceOK(c)'
  BY <1>1, <1>2, <1>3 DEF OrderOK, SequenceOK, Before, Waits
<1>8. EndOK(c)'
  BY <1>1, <1>2, <1>3 DEF OrderOK, EndOK, Waits
<1> QED BY <1>6, <1>7, <1>8 DEF OrderOK

\* Every step keeps the order.
LEMMA OrderNext ==
  ASSUME IInv, OrderInv, Next
  PROVE  OrderInv'
<1>1. TypeOK /\ mEvent \in [Conns -> {"none", "null", "connecting", "open", "broken",
                                      "failed", "freed"}]
      /\ sent \in [Conns -> Nat] /\ read \in [Conns -> Nat]
  BY Unpack DEF ConnType, TypeOK
<1>2. ASSUME NEW c \in Conns, NEW d \in Conns,
             \/ Create(c) \/ CreateFails(c) \/ Accept(c) \/ DestroyMark(c)
             \/ PeerSend(c) \/ PeerClose(c) \/ Arrive(c)
      PROVE  OrderOK(d)'
  <2>1. OrderOK(d)
    BY DEF OrderInv
  <2>2. queue' = queue /\ item' = item /\ at' = at /\ offered' = offered /\ read' = read
    BY <1>2
       DEF Create, CreateFails, Accept, DestroyMark, PeerSend, PeerClose, Arrive, connVars,
           eventVars, byteVars, threadVars
  <2>3. d \in mDestroyed => d \in mDestroyed'
    BY <1>2
       DEF Create, CreateFails, Accept, DestroyMark, PeerSend, PeerClose, Arrive, connVars
  <2>4. sent'[d] = sent[d] \/ mEvent[d] \notin {"failed", "freed"}
    <3>1. CASE PeerSend(c)
      BY <1>1, <3>1 DEF PeerSend, Established
    <3>2. CASE ~PeerSend(c)
      BY <1>2, <3>2
         DEF Create, CreateFails, Accept, DestroyMark, PeerClose, Arrive, byteVars
    <3> QED BY <3>1, <3>2
  <2>5. /\ mEvent'[d] \in {"none", "null", "connecting"} =>
             mEvent[d] \in {"none", "null", "connecting"}
        /\ mEvent[d] \in {"failed", "freed"} => mEvent'[d] \in {"failed", "freed"}
    <3>1. CASE Create(c) \/ CreateFails(c) \/ Accept(c)
      <4>1. mEvent[c] = "none"
        <5>1. ConnOK(c)
          BY Unpack
        <5> QED BY <3>1, <5>1
               DEF Create, CreateFails, Accept, New, ConnOK, LifeOK, CountOK
      <4>2. \E e : mEvent' = [mEvent EXCEPT ![c] = e]
        BY <3>1 DEF Create, CreateFails, Accept
      <4> QED BY <1>1, <4>1, <4>2
    <3>2. CASE DestroyMark(c) \/ PeerSend(c) \/ PeerClose(c) \/ Arrive(c)
      BY <3>2 DEF DestroyMark, PeerSend, PeerClose, Arrive, eventVars
    <3> QED BY <1>2, <3>1, <3>2
  <2> QED BY <2>1, <2>2, <2>3, <2>4, <2>5, OrderSame
<1>3. ASSUME NEW d \in Conns, DestroyFree \/ ListenerDestroy \/ Return \/ Rearm
      PROVE  OrderOK(d)'
  <2>1. OrderOK(d)
    BY DEF OrderInv
  <2>2. queue' = queue /\ item' = item /\ (at' = at \/ at' # "callback")
        /\ UNCHANGED <<sent, read, offered, mDestroyed>>
    BY <1>3
       DEF DestroyFree, ListenerDestroy, Return, Rearm, ResetQueued, EnableRead, connVars,
           byteVars, threadVars
  <2>3. /\ mEvent'[d] \in {"none", "null", "connecting"} =>
             mEvent[d] \in {"none", "null", "connecting"}
        /\ mEvent[d] \in {"failed", "freed"} => mEvent'[d] \in {"failed", "freed"}
    BY <1>1, <1>3
       DEF DestroyFree, ListenerDestroy, Return, Rearm, ResetQueued, EnableRead, eventVars
  <2> QED BY <2>1, <2>2, <2>3, OrderSame
<1>4. ASSUME NEW d \in Conns, ListenerEventCb \/ ListenerCreate
      PROVE  OrderOK(d)'
  <2>1. OrderOK(d)
    BY DEF OrderInv
  <2>2. PICK i \in Items : /\ queue' = Append(queue, i)
                           /\ i[1] = "accept" \/ i = <<"listening", NULL>>
    <3>1. CASE ListenerEventCb
      <4>1. accepting \in Conns
        BY <3>1, <1>1 DEF ListenerEventCb, TypeOK, Conns
      <4>2. <<"accept", accepting>> \in Items /\ <<"accept", accepting>>[1] = "accept"
        BY <4>1, ItemKinds, ConnKindsOK
      <4> QED BY <3>1, <4>2 DEF ListenerEventCb
    <3>2. CASE ListenerCreate
      BY <3>2, ItemKinds DEF ListenerCreate
    <3> QED BY <1>4, <3>1, <3>2
  <2>3. i[2] # d \/ i[1] = "accept"
    BY <2>2, TcpAssumption
  <2>4. item' = item /\ at' = at /\ UNCHANGED <<sent, read, offered, mDestroyed, mEvent>>
    BY <1>4 DEF ListenerEventCb, ListenerCreate, connVars, eventVars, byteVars, threadVars
  <2> QED BY <2>1, <2>2, <2>3, <2>4, OrderOther
<1>5. ASSUME NEW c \in Conns, NEW d \in Conns, EventThread(c)
      PROVE  OrderOK(d)'
  <2>1. OrderOK(c) /\ OrderOK(d)
    BY DEF OrderInv
  <2>2. item' = item /\ at' = at /\ UNCHANGED <<sent, offered, mDestroyed>>
    BY <1>5
       DEF EventThread, Connected, Failed, WriteFails, EndOfFile, EventRead, byteVars,
           threadVars
  <2>3. /\ mEvent'[c] \notin {"none", "null", "connecting"}
        /\ mEvent[c] \notin {"failed", "freed"}
        /\ d # c => mEvent'[d] = mEvent[d] /\ read'[d] = read[d]
    BY <1>1, <1>5
       DEF EventThread, Connected, Failed, WriteFails, EndOfFile, EventRead, Established,
           byteVars
  <2>4. CASE EventRead(c) /\ c \in mQueued
    <3>1. queue' = queue
      BY <2>4 DEF EventRead
    <3>2. c \in mDestroyed
      <4>1. ArmedOK(c)
        BY Unpack DEF ConnOK
      <4> QED BY <2>4, <4>1 DEF EventRead, Established, ArmedOK
    <3>3. mEvent' = mEvent
      BY <2>4 DEF EventRead
    <3>4. CASE d # c
      BY <2>1, <2>2, <2>3, <3>1, <3>3, <3>4, OrderSame
    <3>5. CASE d = c
      <4>1. Calls(c)' = Calls(c)
        BY <2>2, <3>1, CountSame
      <4>2. ~(Waits(<<"eof", c>>) \/ item = <<"eof", c>>)
        BY <2>1, <2>3 DEF OrderOK, EndOK
      <4>3. FreshOK(c)' /\ ShownOK(c)'
        BY <2>1, <2>2, <3>2, <3>3, <4>1 DEF OrderOK, FreshOK, ShownOK
      <4>4. SequenceOK(c)'
        BY <2>1, <2>2, <3>1 DEF OrderOK, SequenceOK, Before, Waits
      <4>5. EndOK(c)'
        BY <2>2, <3>1, <4>2 DEF EndOK, Waits
      <4> QED BY <3>5, <4>3, <4>4, <4>5 DEF OrderOK
    <3> QED BY <3>4, <3>5
  <2>5. CASE ~(EventRead(c) /\ c \in mQueued)
    <3>1. PICK kind \in ConnKinds \ {"accept"} :
            /\ queue' = Append(queue, <<kind, c>>)
            /\ kind = "ready" => mEvent[c] = "connecting"
            /\ kind = "eof" => mEvent'[c] = "failed" /\ read[c] = sent[c]
            /\ kind # "read" => read' = read
      <4> DEFINE P(kind) == /\ queue' = Append(queue, <<kind, c>>)
                            /\ kind = "ready" => mEvent[c] = "connecting"
                            /\ kind = "eof" => mEvent'[c] = "failed" /\ read[c] = sent[c]
                            /\ kind # "read" => read' = read
      <4>1. CASE Connected(c)
        <5>1. P("ready")
          BY <4>1 DEF Connected, Enqueue, byteVars
        <5> QED BY <5>1 DEF ConnKinds
      <4>2. CASE Failed(c) \/ WriteFails(c)
        <5>1. P("error")
          BY <4>2 DEF Failed, WriteFails, Enqueue, byteVars
        <5> QED BY <5>1 DEF ConnKinds
      <4>3. CASE EndOfFile(c)
        <5>1. P("eof")
          BY <1>1, <4>3 DEF EndOfFile, Enqueue, byteVars
        <5> QED BY <5>1 DEF ConnKinds
      <4>4. CASE EventRead(c)
        <5>1. P("read")
          BY <2>5, <4>4 DEF EventRead, Enqueue
        <5> QED BY <5>1 DEF ConnKinds
      <4> QED BY <1>5, <4>1, <4>2, <4>3, <4>4 DEF EventThread
    <3>2. CASE d = c
      BY <2>1, <2>2, <2>3, <3>1, <3>2, OrderEnqueue
    <3>3. CASE d # c
      <4>1. PICK i \in Items : i = <<kind, c>>
        BY ItemKinds
      <4> QED BY <2>1, <2>2, <2>3, <3>1, <3>3, <4>1, OrderOther
    <3> QED BY <3>2, <3>3
  <2> QED BY <2>4, <2>5
<1>6. CASE Dispatch \/ Finish
  BY <1>6, OrderDispatch, OrderFinish
<1>7. CASE Conns = {}
  BY <1>7 DEF OrderInv
<1>8. CASE Conns # {}
  BY <1>2, <1>3, <1>4, <1>5, <1>6, <1>8 DEF Next, QueueThread, OrderInv
<1> QED BY <1>7, <1>8

\* Nothing is queued in the beginning.
LEMMA OrderInit == Init => OrderInv
<1> SUFFICES ASSUME Init, NEW c \in Conns PROVE OrderOK(c)
  BY DEF OrderInv
<1>1. \A S : Pending(S) = 0
  <2> TAKE S
  <2>1. {k \in DOMAIN queue : queue[k] \in S} = {}
    BY DEF Init
  <2> QED BY <2>1, FS_EmptySet DEF Queued, Pending, Init
<1>2. queue = << >> /\ \A k : item # <<k, c>>
  BY DEF Init
<1>3. \A i : ~Waits(i)
  BY <1>2 DEF Waits
<1>4. FreshOK(c) /\ ShownOK(c)
  BY <1>1 DEF Init, FreshOK, ShownOK, Calls
<1>5. SequenceOK(c) /\ EndOK(c)
  BY <1>2, <1>3 DEF SequenceOK, EndOK, Before, Waits
<1> QED BY <1>4, <1>5 DEF OrderOK

\* A step of others changes no order.
LEMMA OrderStutter ==
  ASSUME OrderInv, UNCHANGED vars
  PROVE  OrderInv'
<1> SUFFICES ASSUME NEW c \in Conns PROVE OrderOK(c)'
  BY DEF OrderInv
<1>1. OrderOK(c)
  BY DEF OrderInv
<1>2. UNCHANGED <<queue, item, at, offered, read, sent, mDestroyed, mEvent>>
  BY DEF vars, connVars, eventVars, byteVars, threadVars
<1> QED BY <1>1, <1>2, OrderSame

\* A connection made by sbfTcpConnection_create is ready before the application
\* is shown its bytes, and all the peer has sent was shown before the end of the
\* stream is reported, for any number of connections and bytes: the event thread
\* queues in that order, and reads no more than the one callback that waits shows.
THEOREM CallbacksOrdered == Spec => []CallbackOrder
<1>1. IInv /\ OrderInv => CallbackOrder
  <2> SUFFICES ASSUME IInv, OrderInv, NEW c \in Conns,
                      at = "callback", item # << >>, item[2] = c
               PROVE  /\ item[1] = "read" => \A k \in DOMAIN queue : queue[k] # <<"ready", c>>
                      /\ item[1] = "eof" => offered[c] = sent[c]
    BY DEF CallbackOrder
  <2>1. item \in Items /\ OrderOK(c)
    BY Unpack DEF RestType, OrderInv
  <2>2. item = <<item[1], c>>
    BY <2>1 DEF Items
  <2> QED BY <2>1, <2>2 DEF OrderOK, SequenceOK, EndOK, Waits
<1>2. (IInv /\ OrderInv) /\ [Next]_vars => OrderInv'
  BY OrderNext, OrderStutter
<1> QED BY Invariance, OrderInit, <1>1, <1>2, PTL DEF Spec
=============================================================================
