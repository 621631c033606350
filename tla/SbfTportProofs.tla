--------------------------- MODULE SbfTportProofs ---------------------------
(***************************************************************************)
(* Theorems about SbfTport, for any number of publishers, subscriptions,   *)
(* streams, topics and event threads: what is held and counted, the order  *)
(* of the callbacks, and the end of sbfTport_destroy.                      *)
(*                                                                         *)
(* They are about handlers that forget a stream when it is removed         *)
(* (~KeepsHandle) and have no stream for both publishers and subscriptions *)
(* (OneKind), as the udp handler, which finds a stream by type and         *)
(* address.  The tcpmesh handler does neither, and breaks StreamHeld.      *)
(***************************************************************************)
EXTENDS SbfTport, FiniteSetTheorems, SequenceTheorems, WellFoundedInduction, TLAPS

-----------------------------------------------------------------------------
(* What is queued for the event threads, whatever the queues E are. *)

\* The callbacks that may be queued, by the client or stream they are for.
Callbacks == EventKinds \X Clients
Event(kind, c) == <<kind, c>>
Queues == [Threads -> Seq(Callbacks)]

\* Callback e is queued for thread t; e is queued before f; e is the current one.
OnIn(E, t, e) == \E k \in 1..Len(E[t]) : E[t][k] = e
BeforeIn(E, e, f) ==
  \E t \in Threads : \E j, k \in 1..Len(E[t]) : j < k /\ E[t][j] = e /\ E[t][k] = f
HeadIn(E, t, e) == Len(E[t]) > 0 /\ E[t][1] = e

\* No callback is queued twice.
OnceIn(E) ==
  \A t, u \in Threads : \A j \in 1..Len(E[t]), k \in 1..Len(E[u]) :
    E[t][j] = E[u][k] => t = u /\ j = k

On(t, e) == OnIn(events, t, e)
Before(e, f) == BeforeIn(events, e, f)
IsHead(t, e) == HeadIn(events, t, e)
Pending(e) == \E t \in Threads : On(t, e)

\* No element is on the list twice.
Distinct(list) == \A j, k \in 1..Len(list) : list[j] = list[k] => j = k
Has(list, x) == \E k \in 1..Len(list) : list[k] = x

\* On the list a is at b, or before it.
UpTo(list, a, b) == \E j, k \in 1..Len(list) : j <= k /\ list[j] = a /\ list[k] = b

\* The events of a client, and the callbacks of sbfTport_destroy for a stream.
ClientKinds == {"complete", "add", "remove"}
DestroyKinds == {"first", "second"}

-----------------------------------------------------------------------------
(* The inductive invariant. *)

\* The type invariant, but for the signs of what is counted.
Types ==
  /\ mStreams \in Seq(Clients)
  /\ mStreamsLock \in Clients \cup {NULL}
  /\ mStreamsWaiting \in Int
  /\ mWeights \in [Threads -> Int]
  /\ tpc \in {"open", "waiting", "freed"}
  /\ handle \in [Keys -> Clients \cup {NULL}]
  /\ mThread \in [Clients -> Threads]
  /\ mRefCount \in [Clients -> Int]
  /\ mTopics \in [Clients -> SUBSET Clients]
  /\ mStreamReady \subseteq Clients /\ failed \subseteq Clients
  /\ freedStreams \subseteq Clients
  /\ mTopic \in Topics
  /\ mTportStream \in [Clients -> Clients \cup {NULL}]
  /\ mTportTopic \in [Clients -> Clients \cup {NULL}]
  /\ mReady \subseteq Clients /\ mDestroyed \subseteq Clients
  /\ mRemoved \subseteq Clients /\ listed \subseteq Clients
  /\ clientRefs \in [Clients -> Int]
  /\ freedClients \subseteq Clients
  /\ pc \in [Clients -> {"none", "placed", "set", "created"}]
  /\ events \in Queues
  /\ at \in [Threads -> {"loop", "empty", "walk"}]
  /\ cursor \in [Threads -> Clients \cup {NULL}]
  /\ userQueue \in [Clients -> Seq({"ready", "message"})]
  /\ called \in [Clients -> SUBSET {"ready", "message"}]

\* The stream of a client, from the time SetStream finds or adds it.
StreamOf(c) == IF mTportStream[c] = NULL THEN handle[Key[c]] ELSE mTportStream[c]

\* How far the creation of a client is.
CreationOK(c) ==
  /\ pc[c] \in {"none", "placed"} <=> mTportStream[c] = NULL
  /\ mStreamsLock = c <=> pc[c] \in {"placed", "set"}
  /\ pc[c] = "placed" => handle[Key[c]] # NULL
  /\ pc[c] = "set" => handle[Key[c]] = mTportStream[c]
  /\ pc[c] \in {"placed", "set"} => tpc = "open"

\* Streams have the keys of their clients, and what is not freed is found.
StreamOK(c) ==
  /\ mTportStream[c] # NULL =>
       /\ Key[mTportStream[c]] = Key[c]
       /\ mTportStream[mTportStream[c]] = mTportStream[c]
  /\ handle[Key[c]] # NULL =>
       LET s == handle[Key[c]]
       IN /\ Key[s] = Key[c] /\ s \notin freedStreams
          /\ pc[s] = "placed" \/ mTportStream[s] = s
  /\ c \in freedStreams => mTportStream[c] = c
  /\ mTportStream[c] = c => c \in freedStreams \/ handle[Key[c]] = c

\* mStreams has each stream that FindStream knows, once.
ListOK ==
  /\ Distinct(mStreams)
  /\ \A s \in Clients : Has(mStreams, s) <=> handle[Key[s]] = s

\* Topics and lists.
TopicOK(c) ==
  /\ mTportTopic[c] = NULL => c \notin listed
  /\ mTportTopic[c] # NULL =>
       mTportStream[c] # NULL /\ mTportStream[mTportTopic[c]] = mTportStream[c]
  /\ c \in listed => mTportTopic[c] \in mTopics[mTportStream[c]]
  /\ \A s \in Clients : c \in mTopics[s] =>
       /\ mTportStream[c] = s /\ mTportTopic[c] # NULL
       /\ \E d \in listed : mTportTopic[d] = c

\* What is ready.
ReadyOK(c) ==
  /\ c \in mStreamReady <=> mTportTopic[c] # NULL /\ mTportStream[c] = c
  /\ c \in mReady <=> mTportTopic[c] # NULL /\ mTportStream[c] \in mStreamReady
  /\ c \in failed => mTportTopic[c] = NULL /\ mTportStream[c] = c /\ ~Pending(Event("complete", c))
  /\ mTportTopic[c] # NULL => mTportStream[c] \in mStreamReady \cup failed

\* The events of a client.
EventOK(c) ==
  /\ Pending(Event("complete", c)) => pc[c] # "none" /\ StreamOf(c) = c /\ mTportTopic[c] = NULL
  /\ Pending(Event("add", c)) => pc[c] # "none" /\ StreamOf(c) # c /\ mTportTopic[c] = NULL
  /\ pc[c] # "none" /\ mTportTopic[c] = NULL =>
       Pending(Event("add", c)) \/ Pending(Event("complete", c)) \/ c \in failed
  /\ Pending(Event("remove", c)) => c \in mDestroyed /\ c \notin mRemoved
  /\ c \in mDestroyed => pc[c] = "created"
  /\ c \in mDestroyed =>
       \/ Pending(Event("remove", c)) \/ c \in mRemoved
       \/ mTportTopic[c] # NULL /\ c \notin listed
  /\ c \in mRemoved => c \in mDestroyed /\ mTportStream[c] \in failed
  /\ mTportTopic[c] # NULL /\ c \notin listed =>
       /\ c \in mDestroyed /\ c \notin mRemoved /\ c \in mReady
       /\ Pending(Event("remove", c)) =>
            \E t \in Threads : at[t] = "empty" /\ IsHead(t, Event("remove", c))

\* The thread of each callback.
ThreadOK ==
  \A t \in Threads, c \in Clients :
    /\ \A kind \in ClientKinds : On(t, Event(kind, c)) =>
         pc[c] # "none" /\ StreamOf(c) # NULL /\ t = mThread[StreamOf(c)]
    /\ \A kind \in DestroyKinds : On(t, Event(kind, c)) =>
         mTportStream[c] = c /\ t = mThread[c] /\ tpc # "open"

\* The order of the callbacks of a stream.
OrderOK(s) ==
  /\ Pending(Event("complete", s)) =>
       /\ \A c \in Clients : mTportStream[c] = s => mTportTopic[c] = NULL /\ c \notin mRemoved
       /\ \A c \in Clients, kind \in ClientKinds :
            Pending(Event(kind, c)) /\ StreamOf(c) = s /\ Event(kind, c) # Event("complete", s) =>
              Before(Event("complete", s), Event(kind, c))
  /\ Pending(Event("add", s)) /\ Pending(Event("remove", s)) => Before(Event("add", s), Event("remove", s))
  /\ tpc # "open" =>
       \A c \in Clients, kind \in ClientKinds :
         Pending(Event(kind, c)) /\ StreamOf(c) = s =>
           Before(Event(kind, c), Event("first", s)) \/ Before(Event(kind, c), Event("second", s))

\* Where each thread is, and how far its walk of mStreams.
AtOK(t) ==
  /\ cursor[t] # NULL =>
       cursor[t] \in freedStreams \/ Has(mStreams, cursor[t])
  /\ at[t] = "empty" =>
       \E c \in Clients : IsHead(t, Event("remove", c)) /\ c \in mReady /\ c \notin listed
  /\ at[t] = "walk" =>
       \E s \in Clients :
         /\ IsHead(t, Event("first", s))
         /\ handle[Key[s]] = s =>
              cursor[t] \in freedStreams \/ UpTo(mStreams, cursor[t], s)

\* A thread is about to see whether stream s can go.
Emptying(s) ==
  \E t \in Threads, c \in Clients :
    at[t] = "empty" /\ IsHead(t, Event("remove", c)) /\ mTportStream[c] = s

\* What holds a stream, and how sbfTport_destroy makes it go.
HolderOK(s) ==
  /\ mTportStream[s] = s /\ s \notin freedStreams =>
       Emptying(s) \/ \E c \in Clients : Holds(c, s)
  /\ Emptying(s) => s \notin freedStreams
  /\ \A c \in Clients : Holds(c, s) => s \notin freedStreams
  /\ ~(Pending(Event("first", s)) /\ Pending(Event("second", s)))
  /\ tpc # "open" /\ handle[Key[s]] = s =>
       s \in failed \/ Pending(Event("first", s)) \/ Pending(Event("second", s))
  /\ Pending(Event("second", s)) /\ s \notin failed =>
       \A c \in Clients : Holds(c, s) => Pending(Event("remove", c))

\* What is counted on a stream, before and after HoldStream.
Waiting(s) == {c \in Clients : mTportStream[c] = s /\ pc[c] = "created" /\ mTportTopic[c] = NULL}
Early(s) == {c \in Clients : mTportStream[c] = s /\ pc[c] = "set" /\ mTportTopic[c] # NULL}

RefCountOK(s) ==
  mRefCount[s] = Cardinality(mTopics[s]) + Cardinality(Waiting(s)) - Cardinality(Early(s))

\* The references of a client: its callbacks, and the application's until the
\* remove event is done.
RemoveDone(c) == mTportTopic[c] # NULL /\ c \notin listed /\ ~Pending(Event("remove", c))

ClientRefsOK(c) ==
  /\ clientRefs[c] = Len(userQueue[c]) + IF RemoveDone(c) THEN 0 ELSE 1
  /\ c \in freedClients <=> clientRefs[c] = 0

\* The callbacks of a client that is told when it is ready.
UserQueueOK(c) ==
  /\ c \notin mReady => userQueue[c] = << >> /\ called[c] = {}
  /\ c \in Notified => ("message" \in called[c] => "ready" \in called[c])
  /\ c \in (Notified \cap mReady) \ mDestroyed /\ "ready" \notin called[c] =>
       userQueue[c] # << >> /\ Head(userQueue[c]) = "ready"

\* The streams that sbfTport_destroy waits for.
Awaited == {s \in Clients : Pending(Event("first", s)) \/ Pending(Event("second", s))}

WaitingOK ==
  /\ mStreamsWaiting = Cardinality(Awaited)
  /\ tpc = "freed" => mStreamsWaiting = 0

\* The subscriptions whose weight is on thread t.
Weighed(t) == {c \in Subs : pc[c] = "created" /\ mThread[mTportStream[c]] = t
                            /\ Holds(c, mTportStream[c])}

\* All of it, for one client.
ClientOK(c) ==
  /\ CreationOK(c) /\ StreamOK(c) /\ TopicOK(c) /\ ReadyOK(c) /\ EventOK(c) /\ OrderOK(c)
  /\ HolderOK(c) /\ RefCountOK(c) /\ ClientRefsOK(c) /\ UserQueueOK(c)

\* All of it.
IInv ==
  /\ Types /\ OnceIn(events) /\ ListOK /\ ThreadOK /\ WaitingOK /\ WeightsOK
  /\ \A c \in Clients : ClientOK(c)
  /\ \A t \in Threads : AtOK(t)

-----------------------------------------------------------------------------
(* How the queues change: E before, F after. *)

\* Thread u has one callback more, several more, or one less; or the clients of a
\* stream to destroy and its second callback.
Appended(E, u, e, F) == F = [E EXCEPT ![u] = Append(@, e)]
Concatenated(E, u, q, F) == F = [E EXCEPT ![u] = @ \o q]
Returned(E, u, F) == F = [E EXCEPT ![u] = Tail(@)]

Destroying(E, u, s, order, F) ==
  F = [E EXCEPT ![u] = Tail(@) \o [k \in 1..Len(order) |-> <<"remove", order[k]>>]
                               \o << <<"second", s>> >>]

\* Callback e is last on thread u; those of q are; e was current on u and is gone.
WithOne(E, u, e, F) ==
  /\ F \in Queues /\ OnceIn(F)
  /\ \A t \in Threads : \A f : OnIn(F, t, f) <=> OnIn(E, t, f) \/ (t = u /\ f = e)
  /\ \A f, g : BeforeIn(F, f, g) <=> BeforeIn(E, f, g) \/ (g = e /\ OnIn(E, u, f))
  /\ \A t \in Threads : \A f : HeadIn(E, t, f) => HeadIn(F, t, f)

WithAll(E, u, q, F) ==
  /\ F \in Queues /\ OnceIn(F)
  /\ \A t \in Threads : \A f :
       OnIn(F, t, f) <=> OnIn(E, t, f) \/ (t = u /\ \E k \in 1..Len(q) : f = q[k])
  /\ \A f, g : BeforeIn(E, f, g) => BeforeIn(F, f, g)
  /\ \A f : \A k \in 1..Len(q) : OnIn(E, u, f) => BeforeIn(F, f, q[k])
  /\ \A j, k \in 1..Len(q) : j < k => BeforeIn(F, q[j], q[k])
  /\ \A t \in Threads : \A f : HeadIn(E, t, f) => HeadIn(F, t, f)

Without(E, u, e, F) ==
  /\ F \in Queues /\ OnceIn(F)
  /\ \A t \in Threads : \A f : OnIn(F, t, f) <=> OnIn(E, t, f) /\ f # e
  /\ \A f, g : BeforeIn(F, f, g) <=> BeforeIn(E, f, g) /\ f # e
  /\ \A t \in Threads : \A f : t # u /\ HeadIn(E, t, f) => HeadIn(F, t, f)

\* Some clients and the second callback of s take the place of the first.
WithDestroys(E, u, s, who, F) ==
  /\ F \in Queues /\ OnceIn(F)
  /\ \A t \in Threads : \A f :
       OnIn(F, t, f) <=> \/ OnIn(E, t, f) /\ f # Event("first", s)
                         \/ t = u /\ \E c \in who : f = Event("remove", c)
                         \/ t = u /\ f = Event("second", s)
  /\ \A f, g : BeforeIn(E, f, g) /\ f # Event("first", s) => BeforeIn(F, f, g)
  /\ \A f : \A c \in who : OnIn(E, u, f) /\ f # Event("first", s) =>
       BeforeIn(F, f, Event("remove", c))
  /\ \A f : OnIn(E, u, f) /\ f # Event("first", s) => BeforeIn(F, f, Event("second", s))
  /\ \A c \in who : BeforeIn(F, Event("remove", c), Event("second", s))
  /\ \A t \in Threads : \A f : t # u /\ HeadIn(E, t, f) => HeadIn(F, t, f)

\* Callbacks are told apart by their kind and their client.
LEMMA EventFacts ==
  /\ \A kind \in EventKinds, c \in Clients : Event(kind, c) \in Callbacks
  /\ \A e \in Callbacks : \E kind \in EventKinds, c \in Clients : e = Event(kind, c)
  /\ \A k, l, c, d : Event(k, c) = Event(l, d) => k = l /\ c = d
BY DEF Event, Callbacks

\* Whatever is queued once: the first callback is before all others of its thread.
LEMMA QueueFacts ==
  ASSUME NEW E \in Queues, OnceIn(E)
  PROVE  /\ \A t, u \in Threads : \A e : OnIn(E, t, e) /\ OnIn(E, u, e) => t = u
         /\ \A t \in Threads : \A e : HeadIn(E, t, e) => OnIn(E, t, e)
         /\ \A t \in Threads : \A e, f : HeadIn(E, t, e) /\ HeadIn(E, t, f) => e = f
         /\ \A t \in Threads : \A e, f : HeadIn(E, t, e) => ~BeforeIn(E, f, e)
         /\ \A t \in Threads : \A e, f : OnIn(E, t, e) /\ OnIn(E, t, f) =>
              e = f \/ BeforeIn(E, e, f) \/ BeforeIn(E, f, e)
         /\ \A e, f : BeforeIn(E, e, f) =>
              ~BeforeIn(E, f, e) /\ \E t \in Threads : OnIn(E, t, e) /\ OnIn(E, t, f)
         /\ \A t \in Threads : \A e : OnIn(E, t, e) => e \in Callbacks
<1>1. \A t \in Threads : E[t] \in Seq(Callbacks) /\ Len(E[t]) \in Nat
  BY DEF Queues
<1>2. \A t, u \in Threads : \A e : OnIn(E, t, e) /\ OnIn(E, u, e) => t = u
  BY DEF OnIn, OnceIn
<1>3. \A t \in Threads : \A e : HeadIn(E, t, e) => OnIn(E, t, e)
  BY <1>1 DEF OnIn, HeadIn
<1>4. \A t \in Threads : \A e, f : HeadIn(E, t, e) => ~BeforeIn(E, f, e)
  BY <1>1 DEF HeadIn, BeforeIn, OnceIn
<1>5. \A t \in Threads : \A e, f : OnIn(E, t, e) /\ OnIn(E, t, f) =>
              e = f \/ BeforeIn(E, e, f) \/ BeforeIn(E, f, e)
  BY <1>1 DEF OnIn, BeforeIn
<1>6. \A e, f : BeforeIn(E, e, f) => ~BeforeIn(E, f, e)
  BY <1>1 DEF BeforeIn, OnceIn
<1>7. \A e, f : BeforeIn(E, e, f) => \E t \in Threads : OnIn(E, t, e) /\ OnIn(E, t, f)
  BY <1>1 DEF BeforeIn, OnIn
<1>8. \A t \in Threads : \A e, f : HeadIn(E, t, e) /\ HeadIn(E, t, f) => e = f
  BY DEF HeadIn
<1>9. \A t \in Threads : \A e : OnIn(E, t, e) => e \in Callbacks
  BY <1>1 DEF OnIn
<1> QED BY <1>2, <1>3, <1>4, <1>5, <1>6, <1>7, <1>8, <1>9

\* A callback is queued last.
LEMMA AppendIn ==
  ASSUME NEW E \in Queues, OnceIn(E), NEW u \in Threads, NEW e \in Callbacks,
         \A t \in Threads : ~OnIn(E, t, e),
         NEW F, Appended(E, u, e, F)
  PROVE  WithOne(E, u, e, F)
<1>0. F = [E EXCEPT ![u] = Append(@, e)]
  BY DEF Appended
<1>1. \A t \in Threads : E[t] \in Seq(Callbacks) /\ Len(E[t]) \in Nat
  BY DEF Queues
<1>2. /\ F[u] = Append(E[u], e) /\ \A t \in Threads : t # u => F[t] = E[t]
      /\ F \in Queues
  BY <1>0, <1>1 DEF Queues
<1>3. /\ Len(F[u]) = Len(E[u]) + 1 /\ F[u][Len(E[u]) + 1] = e
      /\ \A k \in 1..Len(E[u]) : F[u][k] = E[u][k]
  BY <1>1, <1>2
<1>3a. /\ \A k \in 1..Len(F[u]) :
            (k \in 1..Len(E[u]) /\ F[u][k] = E[u][k]) \/ (k = Len(E[u]) + 1 /\ F[u][k] = e)
       /\ \A k \in 1..Len(E[u]) : k \in 1..Len(F[u])
       /\ Len(E[u]) + 1 \in 1..Len(F[u])
  BY <1>1, <1>3
<1> HIDE <1>2
<1>4. \A t \in Threads : t # u => F[t] = E[t]
  BY <1>2
<1>5. F \in Queues
  BY <1>2
<1>6. \A t \in Threads : \A f : OnIn(F, t, f) <=> OnIn(E, t, f) \/ (t = u /\ f = e)
  <2> SUFFICES ASSUME NEW t \in Threads, NEW f
               PROVE  OnIn(F, t, f) <=> OnIn(E, t, f) \/ (t = u /\ f = e)
    OBVIOUS
  <2>1. CASE t # u
    BY <1>4, <2>1 DEF OnIn
  <2>2. CASE t = u
    BY <1>3, <1>3a, <2>2 DEF OnIn
  <2> QED BY <2>1, <2>2
<1>7. \A t \in Threads : \A f : HeadIn(E, t, f) => HeadIn(F, t, f)
  BY <1>1, <1>3, <1>3a, <1>4 DEF HeadIn
<1>8. OnceIn(F)
  <2> SUFFICES ASSUME NEW t \in Threads, NEW v \in Threads,
                      NEW j \in 1..Len(F[t]), NEW k \in 1..Len(F[v]), F[t][j] = F[v][k]
               PROVE  t = v /\ j = k
    BY DEF OnceIn
  <2>1. \/ j \in 1..Len(E[t]) /\ F[t][j] = E[t][j]
        \/ t = u /\ j = Len(E[u]) + 1 /\ F[t][j] = e
    BY <1>3a, <1>4
  <2>2. \/ k \in 1..Len(E[v]) /\ F[v][k] = E[v][k]
        \/ v = u /\ k = Len(E[u]) + 1 /\ F[v][k] = e
    BY <1>3a, <1>4
  <2> QED BY <2>1, <2>2 DEF OnceIn, OnIn
<1>9. \A f, g : BeforeIn(F, f, g) => BeforeIn(E, f, g) \/ (g = e /\ OnIn(E, u, f))
  <2> SUFFICES ASSUME NEW f, NEW g, BeforeIn(F, f, g)
               PROVE  BeforeIn(E, f, g) \/ (g = e /\ OnIn(E, u, f))
    OBVIOUS
  <2>1. PICK t \in Threads : \E j, k \in 1..Len(F[t]) : j < k /\ F[t][j] = f /\ F[t][k] = g
    BY DEF BeforeIn
  <2>2. CASE t # u
    BY <1>4, <2>1, <2>2 DEF BeforeIn
  <2>3. CASE t = u
    <3>1. PICK j, k \in 1..Len(F[u]) : j < k /\ F[u][j] = f /\ F[u][k] = g
      BY <2>1, <2>3
    <3>2. j \in 1..Len(E[u]) /\ F[u][j] = E[u][j]
      BY <1>1, <1>3, <3>1
    <3> QED BY <1>3a, <3>1, <3>2 DEF BeforeIn, OnIn
  <2> QED BY <2>2, <2>3
<1>10. \A f, g : BeforeIn(E, f, g) \/ (g = e /\ OnIn(E, u, f)) => BeforeIn(F, f, g)
  <2> SUFFICES ASSUME NEW f, NEW g, BeforeIn(E, f, g) \/ (g = e /\ OnIn(E, u, f))
               PROVE  BeforeIn(F, f, g)
    OBVIOUS
  <2>1. CASE g = e /\ OnIn(E, u, f)
    <3>1. PICK j \in 1..Len(E[u]) : E[u][j] = f
      BY <2>1 DEF OnIn
    <3>2. j \in 1..Len(F[u]) /\ j < Len(E[u]) + 1 /\ F[u][j] = f
      BY <1>1, <1>3, <1>3a, <3>1
    <3> QED BY <1>3, <1>3a, <2>1, <3>2 DEF BeforeIn
  <2>2. CASE BeforeIn(E, f, g)
    <3>0. PICK t \in Threads : \E j, k \in 1..Len(E[t]) :
             j < k /\ E[t][j] = f /\ E[t][k] = g
      BY <2>2 DEF BeforeIn
    <3>1. PICK j, k \in 1..Len(E[t]) : j < k /\ E[t][j] = f /\ E[t][k] = g
      BY <3>0
    <3>2. Len(F[t]) >= Len(E[t]) /\ Len(F[t]) \in Nat /\ F[t][j] = f /\ F[t][k] = g
      BY <1>1, <1>3, <1>4, <3>1
    <3> QED BY <1>1, <3>1, <3>2 DEF BeforeIn
  <2> QED BY <2>1, <2>2
<1> QED BY <1>5, <1>6, <1>7, <1>8, <1>9, <1>10 DEF WithOne

\* The tail of a sequence, by position.
LEMMA TailFacts ==
  ASSUME NEW q \in Seq(Callbacks), Len(q) > 0
  PROVE  /\ Tail(q) \in Seq(Callbacks) /\ Len(Tail(q)) \in Nat /\ Len(Tail(q)) = Len(q) - 1
         /\ \A k \in 1..Len(Tail(q)) : Tail(q)[k] = q[k + 1]
         /\ \A k \in 2..Len(q) : k - 1 \in 1..Len(Tail(q)) /\ Tail(q)[k - 1] = q[k]
OBVIOUS

\* The current callback of a thread returns.
LEMMA TailIn ==
  ASSUME NEW E \in Queues, OnceIn(E), NEW u \in Threads, NEW e, HeadIn(E, u, e),
         NEW F, Returned(E, u, F)
  PROVE  Without(E, u, e, F)
<1>0. F = [E EXCEPT ![u] = Tail(@)]
  BY DEF Returned
<1>1. \A t \in Threads : E[t] \in Seq(Callbacks) /\ Len(E[t]) \in Nat
  BY DEF Queues
<1>2. Len(E[u]) > 0 /\ E[u][1] = e
  BY DEF HeadIn
<1>3. /\ F[u] = Tail(E[u]) /\ F \in Queues
      /\ \A t \in Threads : t # u => F[t] = E[t]
  BY <1>0, <1>1, <1>2 DEF Queues
<1>4. /\ Len(F[u]) = Len(E[u]) - 1 /\ Len(F[u]) \in Nat
      /\ \A k \in 1..Len(F[u]) : F[u][k] = E[u][k + 1]
      /\ \A k \in 2..Len(E[u]) : k - 1 \in 1..Len(F[u]) /\ F[u][k - 1] = E[u][k]
  <2>1. E[u] \in Seq(Callbacks) /\ Len(E[u]) > 0 /\ F[u] = Tail(E[u])
    BY <1>1, <1>2, <1>3
  <2> DEFINE q == E[u]
  <2>2. q \in Seq(Callbacks) /\ Len(q) > 0
    BY <2>1
  <2> HIDE DEF q
  <2>3. /\ Len(Tail(q)) \in Nat /\ Len(Tail(q)) = Len(q) - 1
        /\ \A k \in 1..Len(Tail(q)) : Tail(q)[k] = q[k + 1]
        /\ \A k \in 2..Len(q) : k - 1 \in 1..Len(Tail(q)) /\ Tail(q)[k - 1] = q[k]
    BY <2>2, TailFacts
  <2> QED BY <2>1, <2>3 DEF q
<1>5. \A t \in Threads : t # u => F[t] = E[t]
  BY <1>3
<1>6. \A t \in Threads : \A f : OnIn(F, t, f) <=> OnIn(E, t, f) /\ f # e
  <2> SUFFICES ASSUME NEW t \in Threads, NEW f
               PROVE  OnIn(F, t, f) <=> OnIn(E, t, f) /\ f # e
    OBVIOUS
  <2>1. CASE t # u
    BY <1>1, <1>2, <1>5, <2>1 DEF OnIn, OnceIn
  <2>2. CASE t = u
    <3>1. ASSUME OnIn(F, u, f) PROVE OnIn(E, u, f) /\ f # e
      <4>1. PICK k \in 1..Len(F[u]) : F[u][k] = f
        BY <3>1 DEF OnIn
      <4>2. k + 1 \in 1..Len(E[u]) /\ k + 1 # 1 /\ E[u][k + 1] = f /\ 1 \in 1..Len(E[u])
        BY <1>1, <1>2, <1>4, <4>1
      <4> QED BY <1>2, <4>2 DEF OnIn, OnceIn
    <3>2. ASSUME OnIn(E, u, f), f # e PROVE OnIn(F, u, f)
      <4>1. PICK k \in 1..Len(E[u]) : E[u][k] = f
        BY <3>2 DEF OnIn
      <4>2. k - 1 \in 1..Len(F[u]) /\ F[u][k - 1] = f
        BY <1>1, <1>2, <1>4, <3>2, <4>1
      <4> QED BY <4>2 DEF OnIn
    <3> QED BY <2>2, <3>1, <3>2
  <2> QED BY <2>1, <2>2
<1>7. OnceIn(F)
  <2> SUFFICES ASSUME NEW t \in Threads, NEW v \in Threads,
                      NEW j \in 1..Len(F[t]), NEW k \in 1..Len(F[v]), F[t][j] = F[v][k]
               PROVE  t = v /\ j = k
    BY DEF OnceIn
  <2>1. PICK jj \in 1..Len(E[t]) : E[t][jj] = F[t][j] /\ jj = IF t = u THEN j + 1 ELSE j
    BY <1>1, <1>4, <1>5
  <2>2. PICK kk \in 1..Len(E[v]) : E[v][kk] = F[v][k] /\ kk = IF v = u THEN k + 1 ELSE k
    BY <1>1, <1>4, <1>5
  <2>3. t = v /\ jj = kk
    BY <2>1, <2>2 DEF OnceIn
  <2> QED BY <1>1, <1>4, <1>5, <2>1, <2>2, <2>3
<1>8. \A f, g : BeforeIn(F, f, g) => BeforeIn(E, f, g) /\ f # e
  <2> SUFFICES ASSUME NEW f, NEW g, BeforeIn(F, f, g) PROVE BeforeIn(E, f, g) /\ f # e
    OBVIOUS
  <2>0. PICK t \in Threads : \E j, k \in 1..Len(F[t]) :
           j < k /\ F[t][j] = f /\ F[t][k] = g
    BY DEF BeforeIn
  <2>1. PICK j, k \in 1..Len(F[t]) : j < k /\ F[t][j] = f /\ F[t][k] = g
    BY <2>0
  <2>2. f # e
    BY <1>6, <2>1 DEF OnIn
  <2>3. CASE t = u
    <3>1. j + 1 \in 1..Len(E[u]) /\ E[u][j + 1] = f
      BY <1>1, <1>4, <2>1, <2>3
    <3>2. k + 1 \in 1..Len(E[u]) /\ E[u][k + 1] = g /\ j + 1 < k + 1
      BY <1>1, <1>4, <2>1, <2>3
    <3> QED BY <2>2, <3>1, <3>2 DEF BeforeIn
  <2>4. CASE t # u
    BY <1>5, <2>1, <2>2, <2>4 DEF BeforeIn
  <2> QED BY <2>3, <2>4
<1>9. \A f, g : BeforeIn(E, f, g) /\ f # e => BeforeIn(F, f, g)
  <2> SUFFICES ASSUME NEW f, NEW g, BeforeIn(E, f, g), f # e PROVE BeforeIn(F, f, g)
    OBVIOUS
  <2>0. PICK t \in Threads : \E j, k \in 1..Len(E[t]) :
           j < k /\ E[t][j] = f /\ E[t][k] = g
    BY DEF BeforeIn
  <2>1. PICK j, k \in 1..Len(E[t]) : j < k /\ E[t][j] = f /\ E[t][k] = g
    BY <2>0
  <2>3. CASE t = u
    <3>1. j \in 2..Len(E[u]) /\ k \in 2..Len(E[u]) /\ j - 1 < k - 1
      BY <1>1, <1>2, <2>1, <2>3
    <3>2. /\ j - 1 \in 1..Len(F[u]) /\ k - 1 \in 1..Len(F[u])
          /\ F[u][j - 1] = f /\ F[u][k - 1] = g
      BY <1>4, <2>1, <2>3, <3>1
    <3> QED BY <3>1, <3>2 DEF BeforeIn
  <2>4. CASE t # u
    BY <1>5, <2>1, <2>4 DEF BeforeIn
  <2> QED BY <2>3, <2>4
<1>10. \A t \in Threads : \A f : t # u /\ HeadIn(E, t, f) => HeadIn(F, t, f)
  BY <1>5 DEF HeadIn
<1> QED BY <1>3, <1>6, <1>7, <1>8, <1>9, <1>10 DEF Without

\* Several callbacks are queued last.
LEMMA ConcatIn ==
  ASSUME NEW E \in Queues, OnceIn(E), NEW u \in Threads, NEW q \in Seq(Callbacks),
         \A j, k \in 1..Len(q) : q[j] = q[k] => j = k,
         \A t \in Threads : \A k \in 1..Len(q) : ~OnIn(E, t, q[k]),
         NEW F, Concatenated(E, u, q, F)
  PROVE  WithAll(E, u, q, F)
<1>0. F = [E EXCEPT ![u] = @ \o q]
  BY DEF Concatenated
<1>1. \A t \in Threads : E[t] \in Seq(Callbacks) /\ Len(E[t]) \in Nat
  BY DEF Queues
<1>2. Len(q) \in Nat
  OBVIOUS
<1>3. F[u] = E[u] \o q /\ \A t \in Threads : t # u => F[t] = E[t]
  BY <1>0 DEF Queues
<1>4. F \in Queues
  <2>1. E[u] \o q \in Seq(Callbacks)
    BY <1>1
  <2> QED BY <1>0, <2>1 DEF Queues
<1>5. /\ Len(F[u]) = Len(E[u]) + Len(q)
      /\ \A k \in 1..Len(E[u]) : k \in 1..Len(F[u]) /\ F[u][k] = E[u][k]
      /\ \A k \in 1..Len(q) : Len(E[u]) + k \in 1..Len(F[u]) /\ F[u][Len(E[u]) + k] = q[k]
      /\ \A k \in 1..Len(F[u]) : \/ k \in 1..Len(E[u])
                                 \/ k - Len(E[u]) \in 1..Len(q) /\ F[u][k] = q[k - Len(E[u])]
  <2>1. E[u] \in Seq(Callbacks)
    BY <1>1
  <2> DEFINE p == E[u]
  <2> HIDE DEF p
  <2>2. /\ Len(p \o q) = Len(p) + Len(q)
        /\ \A k \in 1..Len(p) : k \in 1..Len(p \o q) /\ (p \o q)[k] = p[k]
        /\ \A k \in 1..Len(q) : Len(p) + k \in 1..Len(p \o q) /\ (p \o q)[Len(p) + k] = q[k]
        /\ \A k \in 1..Len(p \o q) : \/ k \in 1..Len(p)
                                     \/ k - Len(p) \in 1..Len(q) /\ (p \o q)[k] = q[k - Len(p)]
    BY <2>1 DEF p
  <2> QED BY <1>3, <2>2 DEF p
<1>6. \A t \in Threads : t # u => F[t] = E[t]
  BY <1>3
<1>7. \A t \in Threads : \A f :
        OnIn(F, t, f) <=> OnIn(E, t, f) \/ (t = u /\ \E k \in 1..Len(q) : f = q[k])
  <2> SUFFICES ASSUME NEW t \in Threads, NEW f
               PROVE  OnIn(F, t, f) <=> OnIn(E, t, f) \/ (t = u /\ \E k \in 1..Len(q) : f = q[k])
    OBVIOUS
  <2>1. CASE t # u
    BY <1>6, <2>1 DEF OnIn
  <2>2. CASE t = u
    <3>1. ASSUME OnIn(F, u, f) PROVE OnIn(E, u, f) \/ \E k \in 1..Len(q) : f = q[k]
      <4>1. PICK k \in 1..Len(F[u]) : F[u][k] = f
        BY <3>1 DEF OnIn
      <4>2. \/ k \in 1..Len(E[u])
            \/ k - Len(E[u]) \in 1..Len(q) /\ F[u][k] = q[k - Len(E[u])]
        BY <1>5
      <4>3. CASE k \in 1..Len(E[u])
        BY <1>5, <4>1, <4>3 DEF OnIn
      <4> QED BY <4>1, <4>2, <4>3
    <3>2. OnIn(E, u, f) => OnIn(F, u, f)
      BY <1>5 DEF OnIn
    <3>3. ASSUME NEW k \in 1..Len(q), f = q[k] PROVE OnIn(F, u, f)
      <4>1. Len(E[u]) + k \in 1..Len(F[u]) /\ F[u][Len(E[u]) + k] = q[k]
        BY <1>5
      <4> QED BY <3>3, <4>1 DEF OnIn
    <3> QED BY <2>2, <3>1, <3>2, <3>3
  <2> QED BY <2>1, <2>2
<1>8. OnceIn(F)
  <2> SUFFICES ASSUME NEW t \in Threads, NEW v \in Threads,
                      NEW j \in 1..Len(F[t]), NEW k \in 1..Len(F[v]), F[t][j] = F[v][k]
               PROVE  t = v /\ j = k
    BY DEF OnceIn
  <2>1. \/ j \in 1..Len(E[t]) /\ F[t][j] = E[t][j]
        \/ t = u /\ j - Len(E[u]) \in 1..Len(q) /\ F[t][j] = q[j - Len(E[u])]
    BY <1>5, <1>6
  <2>2. \/ k \in 1..Len(E[v]) /\ F[v][k] = E[v][k]
        \/ v = u /\ k - Len(E[u]) \in 1..Len(q) /\ F[v][k] = q[k - Len(E[u])]
    BY <1>5, <1>6
  <2>3. CASE j \in 1..Len(E[t]) /\ F[t][j] = E[t][j] /\ k \in 1..Len(E[v]) /\ F[v][k] = E[v][k]
    <3>1. E[t][j] = E[v][k]
      BY <2>3
    <3> QED BY <2>3, <3>1 DEF OnceIn
  <2>4. CASE /\ t = u /\ j - Len(E[u]) \in 1..Len(q) /\ F[t][j] = q[j - Len(E[u])]
             /\ v = u /\ k - Len(E[u]) \in 1..Len(q) /\ F[v][k] = q[k - Len(E[u])]
    <3>1. j - Len(E[u]) = k - Len(E[u])
      BY <2>4
    <3> QED BY <1>1, <2>4, <3>1
  <2>5. CASE /\ j \in 1..Len(E[t]) /\ F[t][j] = E[t][j]
             /\ v = u /\ k - Len(E[u]) \in 1..Len(q) /\ F[v][k] = q[k - Len(E[u])]
    BY <2>5 DEF OnIn
  <2>6. CASE /\ k \in 1..Len(E[v]) /\ F[v][k] = E[v][k]
             /\ t = u /\ j - Len(E[u]) \in 1..Len(q) /\ F[t][j] = q[j - Len(E[u])]
    BY <2>6 DEF OnIn
  <2> QED BY <2>1, <2>2, <2>3, <2>4, <2>5, <2>6
<1>9. \A f, g : BeforeIn(E, f, g) => BeforeIn(F, f, g)
  <2> SUFFICES ASSUME NEW f, NEW g, BeforeIn(E, f, g) PROVE BeforeIn(F, f, g)
    OBVIOUS
  <2>1. PICK t \in Threads : \E j, k \in 1..Len(E[t]) : j < k /\ E[t][j] = f /\ E[t][k] = g
    BY DEF BeforeIn
  <2>2. PICK j, k \in 1..Len(E[t]) : j < k /\ E[t][j] = f /\ E[t][k] = g
    BY <2>1
  <2>3. j \in 1..Len(F[t]) /\ k \in 1..Len(F[t]) /\ F[t][j] = f /\ F[t][k] = g
    BY <1>5, <1>6, <2>2
  <2> QED BY <2>2, <2>3 DEF BeforeIn
<1>10. \A f : \A k \in 1..Len(q) : OnIn(E, u, f) => BeforeIn(F, f, q[k])
  <2> SUFFICES ASSUME NEW f, NEW k \in 1..Len(q), OnIn(E, u, f) PROVE BeforeIn(F, f, q[k])
    OBVIOUS
  <2>1. PICK j \in 1..Len(E[u]) : E[u][j] = f
    BY DEF OnIn
  <2>2. j < Len(E[u]) + k
    BY <1>1, <1>2
  <2> QED BY <1>5, <2>1, <2>2 DEF BeforeIn
<1>11. \A j, k \in 1..Len(q) : j < k => BeforeIn(F, q[j], q[k])
  <2> SUFFICES ASSUME NEW j \in 1..Len(q), NEW k \in 1..Len(q), j < k
               PROVE  BeforeIn(F, q[j], q[k])
    OBVIOUS
  <2>1. Len(E[u]) + j < Len(E[u]) + k
    BY <1>1, <1>2
  <2> QED BY <1>5, <2>1 DEF BeforeIn
<1>12. \A t \in Threads : \A f : HeadIn(E, t, f) => HeadIn(F, t, f)
  BY <1>1, <1>2, <1>5, <1>6 DEF HeadIn
<1> QED BY <1>4, <1>7, <1>8, <1>9, <1>10, <1>11, <1>12 DEF WithAll

\* A sequence of a set's elements has each once.
LEMMA SetToSeqsFacts ==
  ASSUME NEW S, IsFiniteSet(S), NEW order \in SetToSeqs(S)
  PROVE  /\ order \in Seq(S) /\ Len(order) \in Nat
         /\ \A j, k \in 1..Len(order) : order[j] = order[k] => j = k
         /\ \A x \in S : \E k \in 1..Len(order) : order[k] = x
<1>1. Cardinality(S) \in Nat
  BY FS_CardinalityType
<1>2. /\ order \in [1..Cardinality(S) -> S]
      /\ \A j, k \in 1..Cardinality(S) : order[j] = order[k] => j = k
  BY DEF SetToSeqs
<1>3. order \in Seq(S) /\ Len(order) = Cardinality(S)
  BY <1>1, <1>2
<1>4. order \in Injection(1..Cardinality(S), S)
  BY <1>2 DEF Injection, IsInjective
<1>5. Cardinality(1..Cardinality(S)) = Cardinality(S)
  BY <1>1, FS_Interval
<1>6. order \in Surjection(1..Cardinality(S), S)
  BY <1>4, <1>5, FS_Injection
<1>7. \A x \in S : \E k \in 1..Cardinality(S) : order[k] = x
  BY <1>6 DEF Surjection
<1> QED BY <1>1, <1>2, <1>3, <1>7

\* The first destroy callback of stream s is replaced by the remove events of some
\* clients and the second callback.
LEMMA DestroyIn ==
  ASSUME NEW E \in Queues, OnceIn(E), NEW u \in Threads, NEW s \in Clients,
         HeadIn(E, u, Event("first", s)),
         NEW who \in SUBSET Clients, IsFiniteSet(who), NEW order \in SetToSeqs(who),
         \A t \in Threads : ~OnIn(E, t, Event("second", s)),
         \A t \in Threads : \A c \in who : ~OnIn(E, t, Event("remove", c)),
         NEW F, Destroying(E, u, s, order, F)
  PROVE  WithDestroys(E, u, s, who, F)
<1>1. PICK e, z, D : /\ e = Event("first", s) /\ z = Event("second", s)
                     /\ D = [E EXCEPT ![u] = Tail(@)]
  OBVIOUS
<1>0. F = [E EXCEPT ![u] = Tail(@) \o [k \in 1..Len(order) |-> <<"remove", order[k]>>]
                                   \o << <<"second", s>> >>]
  BY DEF Destroying
<1>2. PICK rm : rm = [c \in Clients |-> Event("remove", c)]
  OBVIOUS
<1>3. /\ \A c \in Clients : rm[c] = Event("remove", c) /\ rm[c] \in Callbacks /\ rm[c] # z
      /\ \A c, d \in Clients : rm[c] = rm[d] => c = d
      /\ z \in Callbacks
  BY <1>1, <1>2, EventFacts DEF EventKinds
<1>4. /\ D \in Queues /\ OnceIn(D)
      /\ \A t \in Threads : \A f : OnIn(D, t, f) <=> OnIn(E, t, f) /\ f # e
      /\ \A f, g : BeforeIn(D, f, g) <=> BeforeIn(E, f, g) /\ f # e
      /\ \A t \in Threads : \A f : t # u /\ HeadIn(E, t, f) => HeadIn(D, t, f)
  <2>1. HeadIn(E, u, e) /\ Returned(E, u, D)
    BY <1>1 DEF Returned
  <2>2. Without(E, u, e, D)
    BY <2>1, TailIn
  <2> QED BY <2>2 DEF Without
<1>5. PICK m : m = Len(order)
  OBVIOUS
<1>6. /\ order \in Seq(who) /\ m \in Nat
      /\ \A j, k \in 1..m : order[j] = order[k] => j = k
      /\ \A c \in who : \E k \in 1..m : order[k] = c
      /\ \A k \in 1..m : order[k] \in who /\ order[k] \in Clients
  BY <1>5, SetToSeqsFacts
<1>7. PICK r : r = [k \in 1..m |-> rm[order[k]]]
  OBVIOUS
<1>8. r \in Seq(Callbacks) /\ Len(r) = m /\ \A k \in 1..m : r[k] = rm[order[k]]
  <2>1. r \in [1..m -> Callbacks]
    BY <1>3, <1>6, <1>7
  <2>2. \A k \in 1..m : r[k] = rm[order[k]]
    BY <1>7
  <2>3. DOMAIN r = 1..m
    BY <1>7
  <2>4. r \in Seq(Callbacks)
    BY <1>6, <2>1, SeqDef
  <2>5. Len(r) = m
    BY <1>6, <2>3, <2>4, LenProperties
  <2> QED BY <2>2, <2>4, <2>5
<1>9. PICK q : q = Append(r, z)
  OBVIOUS
<1>10. /\ q \in Seq(Callbacks) /\ Len(q) = m + 1 /\ q[m + 1] = z
       /\ \A k \in 1..m : q[k] = rm[order[k]]
       /\ \A k \in 1..Len(q) : k = m + 1 \/ k \in 1..m
  BY <1>3, <1>6, <1>8, <1>9
<1>11. F = [D EXCEPT ![u] = @ \o q]
  <2>1. E[u] \in Seq(Callbacks) /\ Len(E[u]) > 0 /\ DOMAIN E = Threads
    BY DEF Queues, HeadIn
  <2>2. PICK p, T : p = E[u] /\ T = Tail(p)
    OBVIOUS
  <2>3. T \in Seq(Callbacks)
    BY <2>1, <2>2, TailFacts
  <2>4. (T \o r) \o <<z>> = T \o q
    <3>1. r \in Seq(Callbacks) /\ z \in Callbacks
      BY <1>3, <1>8
    <3>2. q = r \o <<z>> /\ <<z>> \in Seq(Callbacks)
      BY <1>9, <3>1, AppendIsConcat
    <3> QED BY <2>3, <3>1, <3>2, ConcatAssociative
  <2>5. r = [k \in 1..Len(order) |-> <<"remove", order[k]>>] /\ z = <<"second", s>>
    BY <1>1, <1>3, <1>5, <1>6, <1>7 DEF Event
  <2>6. F = [E EXCEPT ![u] = (T \o r) \o <<z>>]
    BY <1>0, <2>2, <2>5
  <2>7. F = [E EXCEPT ![u] = T \o q]
    BY <2>4, <2>6
  <2>8. D = [E EXCEPT ![u] = T]
    BY <1>1, <2>2
  <2> QED BY <2>1, <2>7, <2>8
<1>12. \A t \in Threads : \A c \in who : ~OnIn(D, t, rm[c])
  BY <1>3, <1>4
<1>13. \A t \in Threads : \A k \in 1..Len(q) : ~OnIn(D, t, q[k])
  <2> SUFFICES ASSUME NEW t \in Threads, NEW k \in 1..Len(q) PROVE ~OnIn(D, t, q[k])
    OBVIOUS
  <2>1. CASE k = m + 1
    <3>1. ~OnIn(E, t, z)
      BY <1>1
    <3>2. ~OnIn(D, t, z)
      BY <1>4, <3>1
    <3> QED BY <1>10, <2>1, <3>2
  <2>2. CASE k \in 1..m
    <3>1. q[k] = rm[order[k]] /\ order[k] \in who
      BY <1>6, <1>10, <2>2
    <3> QED BY <1>12, <3>1
  <2> QED BY <1>10, <2>1, <2>2
<1>14. \A j, k \in 1..Len(q) : q[j] = q[k] => j = k
  <2> SUFFICES ASSUME NEW j \in 1..Len(q), NEW k \in 1..Len(q), q[j] = q[k] PROVE j = k
    OBVIOUS
  <2>1. CASE j = m + 1 /\ k = m + 1
    BY <2>1
  <2>2. CASE j \in 1..m /\ k \in 1..m
    <3>1. rm[order[j]] = rm[order[k]] /\ order[j] \in Clients /\ order[k] \in Clients
      BY <1>6, <1>10, <2>2
    <3>2. order[j] = order[k]
      BY <1>3, <3>1
    <3>3. \A i, l \in 1..m : order[i] = order[l] => i = l
      BY <1>6
    <3>4. j \in 1..m /\ k \in 1..m
      BY <2>2
    <3> HIDE <1>6
    <3> QED BY Zenon, <3>2, <3>3, <3>4
  <2>3. CASE j \in 1..m /\ k = m + 1
    <3>1. q[j] = rm[order[j]] /\ order[j] \in Clients /\ q[k] = z
      BY <1>6, <1>10, <2>3
    <3> QED BY <1>3, <3>1
  <2>4. CASE k \in 1..m /\ j = m + 1
    <3>1. q[k] = rm[order[k]] /\ order[k] \in Clients /\ q[j] = z
      BY <1>6, <1>10, <2>4
    <3> QED BY <1>3, <3>1
  <2> QED BY <1>10, <2>1, <2>2, <2>3, <2>4
<1>15. /\ F \in Queues /\ OnceIn(F)
       /\ \A t \in Threads : \A f :
            OnIn(F, t, f) <=> OnIn(D, t, f) \/ (t = u /\ \E k \in 1..Len(q) : f = q[k])
       /\ \A f, g : BeforeIn(D, f, g) => BeforeIn(F, f, g)
       /\ \A f : \A k \in 1..Len(q) : OnIn(D, u, f) => BeforeIn(F, f, q[k])
       /\ \A j, k \in 1..Len(q) : j < k => BeforeIn(F, q[j], q[k])
       /\ \A t \in Threads : \A f : HeadIn(D, t, f) => HeadIn(F, t, f)
  <2>1. Concatenated(D, u, q, F)
    BY <1>11 DEF Concatenated
  <2>2. WithAll(D, u, q, F)
    BY <1>4, <1>10, <1>13, <1>14, <2>1, ConcatIn
  <2> QED BY <2>2 DEF WithAll
<1>16. /\ m + 1 \in 1..Len(q) /\ q[m + 1] = z
       /\ \A c \in who : \E k \in 1..Len(q) : q[k] = rm[c] /\ k < m + 1
       /\ \A k \in 1..Len(q) : q[k] = z \/ \E c \in who : q[k] = rm[c]
  <2>1. m + 1 \in 1..Len(q)
    BY <1>6, <1>10
  <2>2. ASSUME NEW c \in who PROVE \E k \in 1..Len(q) : q[k] = rm[c] /\ k < m + 1
    <3>1. PICK k \in 1..m : order[k] = c
      BY <1>6
    <3>2. k \in 1..Len(q) /\ q[k] = rm[c] /\ k < m + 1
      BY <1>6, <1>10, <3>1
    <3> QED BY <3>2
  <2>3. ASSUME NEW k \in 1..Len(q) PROVE q[k] = z \/ \E c \in who : q[k] = rm[c]
    <3>1. CASE k \in 1..m
      BY <1>6, <1>10, <3>1
    <3> QED BY <1>10, <3>1
  <2> QED BY <1>10, <2>1, <2>2, <2>3
<1>17. \A f : (\E k \in 1..Len(q) : f = q[k]) <=> (\E c \in who : f = rm[c]) \/ f = z
  BY <1>16
<1>18. \A t \in Threads : \A f :
              OnIn(F, t, f) <=> \/ OnIn(E, t, f) /\ f # e
                                \/ t = u /\ \E c \in who : f = rm[c]
                                \/ t = u /\ f = z
  BY <1>4, <1>15, <1>17
<1>19. \A f : \A c \in who : OnIn(E, u, f) /\ f # e => BeforeIn(F, f, rm[c])
  BY <1>4, <1>15, <1>16
<1>20. \A f : OnIn(E, u, f) /\ f # e => BeforeIn(F, f, z)
  BY <1>4, <1>15, <1>16
<1>21. \A c \in who : BeforeIn(F, rm[c], z)
  BY <1>15, <1>16
<1>22. \A c \in who : rm[c] = Event("remove", c)
  BY <1>3
<1>23. \A f, g : BeforeIn(E, f, g) /\ f # Event("first", s) => BeforeIn(F, f, g)
  BY <1>1, <1>4, <1>15
<1>24. \A t \in Threads : \A f : t # u /\ HeadIn(E, t, f) => HeadIn(F, t, f)
  BY <1>4, <1>15
<1>25. \A t \in Threads : \A f :
              OnIn(F, t, f) <=> \/ OnIn(E, t, f) /\ f # Event("first", s)
                                \/ t = u /\ \E c \in who : f = Event("remove", c)
                                \/ t = u /\ f = Event("second", s)
  BY <1>1, <1>18, <1>22
<1>26. \A f : \A c \in who : OnIn(E, u, f) /\ f # Event("first", s) =>
              BeforeIn(F, f, Event("remove", c))
  BY <1>1, <1>19, <1>22
<1>27. \A f : OnIn(E, u, f) /\ f # Event("first", s) => BeforeIn(F, f, Event("second", s))
  BY <1>1, <1>20
<1>28. \A c \in who : BeforeIn(F, Event("remove", c), Event("second", s))
  BY <1>1, <1>21, <1>22
<1> QED BY <1>15, <1>23, <1>24, <1>25, <1>26, <1>27, <1>28 DEF WithDestroys

-----------------------------------------------------------------------------
(* Induction, by the least counterexample. *)

\* A set of natural numbers that has 0 and successors is all of them.
LEMMA NatSets ==
  ASSUME NEW T \in SUBSET Nat, 0 \in T, \A n \in T : n + 1 \in T
  PROVE  T = Nat
<1> DEFINE S == Nat \ T
<1>1. SUFFICES ASSUME S # {} PROVE FALSE
  OBVIOUS
<1>2. IsWellFoundedOn(OpToRel(<, Nat), Nat)
  BY NatLessThanWellFounded
<1> DEFINE R == OpToRel(<, Nat)
<1>3. \A m, n \in Nat : <<m, n>> \in R <=> m < n
  BY DEF OpToRel
<1> HIDE DEF R
<1>4. PICK x \in S : \A y \in S : <<y, x>> \notin R
  BY <1>1, <1>2, WFMin DEF R
<1>5. x # 0 /\ x \in Nat
  BY <1>4
<1>6. x - 1 \in Nat /\ <<x - 1, x>> \in R
  BY <1>3, <1>5
<1>7. x - 1 \in T
  BY <1>4, <1>6
<1> QED BY <1>4, <1>5, <1>7

\* What sbfTport_destroy queues, given the queues, the threads of the streams and
\* the list of the streams.
Firsts(E, thread, list) ==
  LET queued[k \in 0..Len(list)] ==
        IF k = 0 THEN E
        ELSE [queued[k - 1] EXCEPT ![thread[list[k]]] = Append(@, <<"first", list[k]>>)]
  IN queued[Len(list)]

\* g is what is queued after each stream.
FirstsBy(E, thread, list, g) ==
  g = [k \in 0..Len(list) |->
         IF k = 0 THEN E
         ELSE [g[k - 1] EXCEPT ![thread[list[k]]] = Append(@, <<"first", list[k]>>)]]

\* The recursion has a solution.
LEMMA FirstsDefined ==
  ASSUME NEW E, NEW thread, NEW list \in Seq(Clients)
  PROVE  \E g : FirstsBy(E, thread, list, g) /\ Firsts(E, thread, list) = g[Len(list)]
<1> DEFINE Step(x, k) == [x EXCEPT ![thread[list[k]]] = Append(@, <<"first", list[k]>>)]
<1> DEFINE Sol(g, n) == g = [k \in 0..n |-> IF k = 0 THEN E ELSE Step(g[k - 1], k)]
<1> DEFINE T == {n \in Nat : \E g : Sol(g, n)}
<1>1. 0 \in T
  <2>1. Sol([k \in 0..0 |-> E], 0)
    OBVIOUS
  <2> QED BY <2>1
<1>2. ASSUME NEW n \in T PROVE n + 1 \in T
  <2>1. PICK g : Sol(g, n)
    BY <1>2
  <2> DEFINE h == [k \in 0..(n + 1) |-> IF k = 0 THEN E ELSE Step(g[k - 1], k)]
  <2>2. \A k \in 0..n : h[k] = g[k]
    <3>1. \A k \in 0..n : g[k] = IF k = 0 THEN E ELSE Step(g[k - 1], k)
      <4> HIDE DEF Step
      <4> QED BY <2>1
    <3> HIDE DEF Step
    <3> QED BY <3>1
  <2>3. Sol(h, n + 1)
    <3>1. \A k \in 0..(n + 1) : k # 0 => k - 1 \in 0..n
      OBVIOUS
    <3> HIDE DEF Step
    <3>2. \A k \in 0..(n + 1) : h[k] = IF k = 0 THEN E ELSE Step(h[k - 1], k)
      BY <2>2, <3>1
    <3>3. h = [k \in 0..(n + 1) |-> h[k]]
      OBVIOUS
    <3> HIDE DEF h
    <3> QED BY <3>2, <3>3
  <2> HIDE DEF Sol
  <2> QED BY <2>3
<1>3. T = Nat
  <2> HIDE DEF T
  <2>1. T \in SUBSET Nat
    BY DEF T
  <2> QED BY <1>1, <1>2, <2>1, NatSets
<1>4. \E g : Sol(g, Len(list))
  <2>1. Len(list) \in T
    <3> HIDE DEF T
    <3> QED BY <1>3
  <2> HIDE DEF Sol
  <2> QED BY <2>1
<1> DEFINE G == CHOOSE g : Sol(g, Len(list))
<1>5. Sol(G, Len(list))
  <2> HIDE DEF Sol
  <2> QED BY <1>4
<1>6. Firsts(E, thread, list) = G[Len(list)]
  BY Zenon DEF Firsts
<1>7. FirstsBy(E, thread, list, G)
  <2> HIDE DEF G
  <2> QED BY <1>5 DEF FirstsBy
<1> HIDE DEF G
<1> QED BY <1>6, <1>7

\* The first destroy callbacks of the first n streams of a list are queued.
WithFirsts(E, thread, list, n, F) ==
  /\ F \in Queues /\ OnceIn(F)
  /\ \A t \in Threads : \A f :
       OnIn(F, t, f) <=> \/ OnIn(E, t, f)
                         \/ \E k \in 1..n : t = thread[list[k]] /\ f = Event("first", list[k])
  /\ \A f, g : BeforeIn(E, f, g) => BeforeIn(F, f, g)
  /\ \A k \in 1..n : \A f :
       OnIn(E, thread[list[k]], f) => BeforeIn(F, f, Event("first", list[k]))
  /\ \A t \in Threads : \A f : HeadIn(E, t, f) => HeadIn(F, t, f)

\* One more of them.
LEMMA FirstsStep ==
  ASSUME NEW E \in Queues, NEW thread \in [Clients -> Threads], NEW list \in Seq(Clients),
         \A j, k \in 1..Len(list) : list[j] = list[k] => j = k,
         \A t \in Threads : \A k \in 1..Len(list) : ~OnIn(E, t, Event("first", list[k])),
         NEW n \in Nat, n + 1 <= Len(list), NEW F, WithFirsts(E, thread, list, n, F),
         NEW G, Appended(F, thread[list[n + 1]], Event("first", list[n + 1]), G)
  PROVE  WithFirsts(E, thread, list, n + 1, G)
<1>1. PICK fe : fe = [k \in 1..Len(list) |-> Event("first", list[k])]
  OBVIOUS
<1>2. /\ \A k \in 1..Len(list) : list[k] \in Clients /\ thread[list[k]] \in Threads
      /\ \A k \in 1..Len(list) : fe[k] = Event("first", list[k]) /\ fe[k] \in Callbacks
      /\ \A k \in 1..n : k \in 1..Len(list) /\ k # n + 1 /\ k \in 1..(n + 1)
      /\ n + 1 \in 1..Len(list) /\ n + 1 \in 1..(n + 1)
      /\ \A k \in 1..(n + 1) : k \in 1..n \/ k = n + 1
  BY <1>1, EventFacts DEF EventKinds
<1>3. \A j, k \in 1..Len(list) : fe[j] = fe[k] => j = k
  BY <1>2, EventFacts
<1>4. PICK e, u : e = fe[n + 1] /\ u = thread[list[n + 1]]
  OBVIOUS
<1>5. /\ e \in Callbacks /\ u \in Threads /\ e = Event("first", list[n + 1])
      /\ \A t \in Threads : ~OnIn(E, t, e)
  BY <1>2, <1>4
<1>6. /\ F \in Queues /\ OnceIn(F)
      /\ \A t \in Threads : \A f :
           OnIn(F, t, f) <=> \/ OnIn(E, t, f)
                             \/ \E k \in 1..n : t = thread[list[k]] /\ f = fe[k]
      /\ \A f, g : BeforeIn(E, f, g) => BeforeIn(F, f, g)
      /\ \A k \in 1..n : \A f : OnIn(E, thread[list[k]], f) => BeforeIn(F, f, fe[k])
      /\ \A t \in Threads : \A f : HeadIn(E, t, f) => HeadIn(F, t, f)
  <2>2. \A k \in 1..n : fe[k] = Event("first", list[k])
    BY <1>2
  <2>3. \A t \in Threads : \A f :
          OnIn(F, t, f) <=>
            OnIn(E, t, f) \/ (\E k \in 1..n : t = thread[list[k]] /\ f = Event("first", list[k]))
    BY DEF WithFirsts
  <2>4. \A k \in 1..n : \A f : OnIn(E, thread[list[k]], f) => BeforeIn(F, f, fe[k])
    BY <2>2 DEF WithFirsts
  <2>5. /\ F \in Queues /\ OnceIn(F)
        /\ \A f, g : BeforeIn(E, f, g) => BeforeIn(F, f, g)
        /\ \A t \in Threads : \A f : HeadIn(E, t, f) => HeadIn(F, t, f)
    BY DEF WithFirsts
  <2>6. \A t \in Threads : \A f :
          OnIn(F, t, f) <=>
            OnIn(E, t, f) \/ (\E k \in 1..n : t = thread[list[k]] /\ f = fe[k])
    <3> SUFFICES ASSUME NEW t \in Threads, NEW f
                 PROVE  OnIn(F, t, f) <=>
                          OnIn(E, t, f) \/ (\E k \in 1..n : t = thread[list[k]] /\ f = fe[k])
      OBVIOUS
    <3>1. (\E k \in 1..n : t = thread[list[k]] /\ f = fe[k]) <=>
          (\E k \in 1..n : t = thread[list[k]] /\ f = Event("first", list[k]))
      BY <2>2
    <3>2. OnIn(F, t, f) <=>
            OnIn(E, t, f) \/ (\E k \in 1..n : t = thread[list[k]] /\ f = Event("first", list[k]))
      BY <2>3
    <3> QED BY <3>1, <3>2
  <2> QED BY <2>4, <2>5, <2>6
<1>7. \A t \in Threads : ~OnIn(F, t, e)
  <2>1. \A k \in 1..n : e # fe[k]
    BY <1>2, <1>3, <1>4
  <2> QED BY <1>5, <1>6, <2>1
<1>8. WithOne(F, u, e, G)
  <2>1. Appended(F, u, e, G)
    BY <1>4, <1>5
  <2> QED BY <1>5, <1>6, <1>7, <2>1, AppendIn
<1>9. /\ G \in Queues /\ OnceIn(G)
      /\ \A t \in Threads : \A f : OnIn(G, t, f) <=> OnIn(F, t, f) \/ (t = u /\ f = e)
      /\ \A f, g : BeforeIn(G, f, g) <=> BeforeIn(F, f, g) \/ (g = e /\ OnIn(F, u, f))
      /\ \A t \in Threads : \A f : HeadIn(F, t, f) => HeadIn(G, t, f)
  BY <1>8 DEF WithOne
<1>10. \A t \in Threads : \A f :
           OnIn(G, t, f) <=> \/ OnIn(E, t, f)
                             \/ \E k \in 1..(n + 1) : t = thread[list[k]] /\ f = fe[k]
  <2> SUFFICES ASSUME NEW t \in Threads, NEW f
               PROVE  OnIn(G, t, f) <=> \/ OnIn(E, t, f)
                        \/ \E k \in 1..(n + 1) : t = thread[list[k]] /\ f = fe[k]
    OBVIOUS
  <2>1. (\E k \in 1..(n + 1) : t = thread[list[k]] /\ f = fe[k])
           <=> (\E k \in 1..n : t = thread[list[k]] /\ f = fe[k]) \/ (t = u /\ f = e)
    BY <1>2, <1>4
  <2> QED BY <1>6, <1>9, <2>1
<1>11. \A k \in 1..(n + 1) : \A f : OnIn(E, thread[list[k]], f) => BeforeIn(G, f, fe[k])
  <2> SUFFICES ASSUME NEW k \in 1..(n + 1), NEW f, OnIn(E, thread[list[k]], f)
               PROVE  BeforeIn(G, f, fe[k])
    OBVIOUS
  <2>1. CASE k = n + 1
    BY <1>4, <1>5, <1>6, <1>9, <2>1
  <2>2. CASE k \in 1..n
    BY <1>6, <1>9, <2>2
  <2> QED BY <1>2, <2>1, <2>2
<1>12. \A k \in 1..(n + 1) : fe[k] = Event("first", list[k])
  BY <1>2
<1>13. \A t \in Threads : \A f :
           OnIn(G, t, f) <=> \/ OnIn(E, t, f)
                             \/ \E k \in 1..(n + 1) : t = thread[list[k]] /\ f = Event("first", list[k])
  BY <1>10, <1>12
<1>14. \A k \in 1..(n + 1) : \A f : OnIn(E, thread[list[k]], f) => BeforeIn(G, f, Event("first", list[k]))
  BY <1>11, <1>12
<1> QED BY <1>6, <1>9, <1>13, <1>14 DEF WithFirsts

\* What sbfTport_destroy queues is last on each thread, one callback for each stream.
FirstsQueued(E, thread, list, F) == F = Firsts(E, thread, list)

\* After the last stream of the list, the first destroy callback of each is queued.
LEMMA FirstsIn ==
  ASSUME NEW E \in Queues, OnceIn(E), NEW thread \in [Clients -> Threads],
         NEW list \in Seq(Clients),
         \A j, k \in 1..Len(list) : list[j] = list[k] => j = k,
         \A t \in Threads : \A k \in 1..Len(list) : ~OnIn(E, t, Event("first", list[k])),
         NEW F, FirstsQueued(E, thread, list, F)
  PROVE  WithFirsts(E, thread, list, Len(list), F)
<1>1. Len(list) \in Nat
  OBVIOUS
<1>0. PICK g : FirstsBy(E, thread, list, g) /\ Firsts(E, thread, list) = g[Len(list)]
  BY FirstsDefined
<1>2. g = [k \in 0..Len(list) |->
             IF k = 0 THEN E
             ELSE [g[k - 1] EXCEPT ![thread[list[k]]] = Append(@, <<"first", list[k]>>)]]
  BY <1>0 DEF FirstsBy
<1>3. F = g[Len(list)]
  BY <1>0 DEF FirstsQueued
<1>4. g[0] = E
  BY <1>1, <1>2
<1>5. ASSUME NEW n \in Nat, n + 1 <= Len(list)
      PROVE  Appended(g[n], thread[list[n + 1]], Event("first", list[n + 1]), g[n + 1])
  <2>1. n + 1 \in 0..Len(list) /\ n + 1 # 0 /\ (n + 1) - 1 = n
    BY <1>1, <1>5
  <2>2. g[n + 1] = [g[(n + 1) - 1] EXCEPT ![thread[list[n + 1]]] =
                                            Append(@, <<"first", list[n + 1]>>)]
    BY <1>2, <2>1
  <2> QED BY <2>1, <2>2 DEF Appended, Event
<1>6. PICK T : T = {n \in Nat : n <= Len(list) => WithFirsts(E, thread, list, n, g[n])}
  OBVIOUS
<1>7. 0 \in T
  <2>1. WithFirsts(E, thread, list, 0, E)
    BY DEF WithFirsts
  <2> QED BY <1>4, <1>6, <2>1
<1>8. ASSUME NEW n \in T PROVE n + 1 \in T
  <2>0. n \in Nat /\ (n <= Len(list) => WithFirsts(E, thread, list, n, g[n]))
    BY <1>6
  <2>1. SUFFICES ASSUME n + 1 <= Len(list)
                 PROVE  WithFirsts(E, thread, list, n + 1, g[n + 1])
    BY <1>6, <2>0
  <2>2. n <= Len(list)
    BY <1>1, <2>0, <2>1
  <2>3. WithFirsts(E, thread, list, n, g[n])
    BY <2>0, <2>2
  <2>4. Appended(g[n], thread[list[n + 1]], Event("first", list[n + 1]), g[n + 1])
    BY <1>5, <2>0, <2>1
  <2>5. PICK G, H : G = g[n] /\ H = g[n + 1]
    OBVIOUS
  <2>6. WithFirsts(E, thread, list, n, G)
    BY <2>3, <2>5
  <2>7. Appended(G, thread[list[n + 1]], Event("first", list[n + 1]), H)
    BY <2>4, <2>5
  <2>8. WithFirsts(E, thread, list, n + 1, H)
    BY <2>0, <2>1, <2>6, <2>7, FirstsStep
  <2> QED BY <2>5, <2>8
<1>9. T = Nat
  BY <1>6, <1>7, <1>8, NatSets
<1> QED BY <1>1, <1>3, <1>6, <1>9

-----------------------------------------------------------------------------
(* Sums of weights, lists without duplicates, and the choice of a thread. *)

Sum(S) == MapThenSumSet(WeightOf, S)

\* g has the sums of the subsets of U.
Additive(g, U) ==
  /\ g[{}] = 0
  /\ \A s \in SUBSET U : g[s] \in Nat
  /\ \A s \in SUBSET U : \A x \in U \ s : g[s \cup {x}] = g[s] + WeightOf(x)

\* h is a solution of the recursion that computes the sum of U.
Sums(h, U) ==
  h = [s \in SUBSET U |->
         IF s = {} THEN 0
         ELSE WeightOf(CHOOSE x \in s : TRUE) + h[s \ {CHOOSE x \in s : TRUE}]]

\* No client weighs less than nothing.
LEMMA WeightNat == ASSUME NEW c \in Clients PROVE WeightOf(c) \in Nat
BY TportAssumption DEF WeightOf

\* The sums of all subsets are a function.
LEMMA AdditiveExists ==
  ASSUME NEW U \in SUBSET Clients
  PROVE  \E g : Additive(g, U)
<1>1. PICK T : T = {n \in Nat : \A V \in SUBSET Clients :
                      IsFiniteSet(V) /\ Cardinality(V) = n => \E g : Additive(g, V)}
  OBVIOUS
<1>2. 0 \in T
  <2> SUFFICES ASSUME NEW V \in SUBSET Clients, IsFiniteSet(V), Cardinality(V) = 0
               PROVE  \E g : Additive(g, V)
    BY <1>1
  <2>1. V = {}
    BY FS_EmptySet
  <2>2. PICK g : g = [s \in {{}} |-> 0]
    OBVIOUS
  <2>3. Additive(g, V)
    BY <2>1, <2>2 DEF Additive
  <2> QED BY <2>3
<1>3. ASSUME NEW n \in T PROVE n + 1 \in T
  <2>0. n \in Nat
    BY <1>1
  <2> SUFFICES ASSUME NEW W \in SUBSET Clients, IsFiniteSet(W), Cardinality(W) = n + 1
               PROVE  \E g : Additive(g, W)
    BY <1>1, <2>0
  <2>1. PICK y : y \in W
    <3>1. W # {}
      BY <2>0, FS_EmptySet
    <3> QED BY <3>1
  <2>2. PICK V : V = W \ {y}
    OBVIOUS
  <2>3. IsFiniteSet(V) /\ Cardinality(V) = n
    BY <2>0, <2>1, <2>2, FS_RemoveElement
  <2>4. PICK g : Additive(g, V)
    BY <1>1, <2>2, <2>3
  <2>5. WeightOf(y) \in Nat /\ \A x \in W : WeightOf(x) \in Nat
    BY <2>1, WeightNat
  <2>6. PICK h : h = [s \in SUBSET W |-> IF y \in s THEN g[s \ {y}] + WeightOf(y) ELSE g[s]]
    OBVIOUS
  <2>7. \A s \in SUBSET W : /\ y \in s => h[s] = g[s \ {y}] + WeightOf(y) /\ s \ {y} \in SUBSET V
                            /\ y \notin s => h[s] = g[s] /\ s \in SUBSET V
    BY <2>2, <2>6
  <2>8. h[{}] = 0
    BY <2>4, <2>7 DEF Additive
  <2>9. \A s \in SUBSET W : h[s] \in Nat
    <3> SUFFICES ASSUME NEW s \in SUBSET W PROVE h[s] \in Nat
      OBVIOUS
    <3>1. CASE y \in s
      <4>1. PICK r : r = s \ {y}
        OBVIOUS
      <4>2. r \in SUBSET V /\ h[s] = g[r] + WeightOf(y)
        BY <2>7, <3>1, <4>1
      <4>3. g[r] \in Nat
        BY <2>4, <4>2 DEF Additive
      <4> QED BY <2>5, <4>2, <4>3
    <3>2. CASE y \notin s
      BY <2>4, <2>7, <3>2 DEF Additive
    <3> QED BY <3>1, <3>2
  <2>10. ASSUME NEW s \in SUBSET W, NEW x \in W \ s
         PROVE  h[s \cup {x}] = h[s] + WeightOf(x)
    <3>0. s \cup {x} \in SUBSET W
      OBVIOUS
    <3>1. CASE x = y
      <4>1. y \notin s /\ (s \cup {x}) \ {y} = s
        BY <3>1
      <4> QED BY <2>7, <3>0, <3>1, <4>1
    <3>2. CASE x # y /\ y \in s
      <4>1. PICK r : r = s \ {y}
        OBVIOUS
      <4>2. (s \cup {x}) \ {y} = r \cup {x} /\ r \in SUBSET V /\ x \in V \ r
        BY <2>2, <3>2, <4>1
      <4>3. g[r \cup {x}] = g[r] + WeightOf(x) /\ g[r] \in Nat
        BY <2>4, <4>2 DEF Additive
      <4>4. h[s \cup {x}] = g[r \cup {x}] + WeightOf(y)
        BY <2>7, <3>0, <3>2, <4>2
      <4>5. h[s] = g[r] + WeightOf(y)
        BY <2>7, <3>2, <4>1
      <4> QED BY <2>5, <4>3, <4>4, <4>5
    <3>3. CASE x # y /\ y \notin s
      <4>1. y \notin s \cup {x} /\ s \in SUBSET V /\ x \in V \ s
        BY <2>2, <3>3
      <4>2. g[s \cup {x}] = g[s] + WeightOf(x)
        BY <2>4, <4>1 DEF Additive
      <4> QED BY <2>7, <3>0, <4>1, <4>2
    <3> QED BY <3>1, <3>2, <3>3
  <2>11. Additive(h, W)
    BY <2>8, <2>9, <2>10 DEF Additive
  <2> QED BY <2>11
<1>4. T = Nat
  BY <1>1, <1>2, <1>3, NatSets
<1>5. IsFiniteSet(U) /\ Cardinality(U) \in Nat
  BY TportAssumption, FS_Subset, FS_CardinalityType
<1> QED BY <1>1, <1>4, <1>5

\* The recursion of MapThenSumSet has a solution.
LEMMA SumDefined ==
  ASSUME NEW U \in SUBSET Clients
  PROVE  \E h : Sums(h, U) /\ Sum(U) = h[U]
<1>1. PICK g : Additive(g, U)
  BY AdditiveExists
<1>2. PICK h : h = [s \in SUBSET U |-> g[s]]
  OBVIOUS
<1>3. ASSUME NEW s \in SUBSET U, s # {}, NEW x \in s PROVE h[s] = WeightOf(x) + h[s \ {x}]
  <2>1. PICK r : r = s \ {x}
    OBVIOUS
  <2>2. r \in SUBSET U /\ x \in U \ r /\ s = r \cup {x}
    BY <1>3, <2>1
  <2>3. g[s] = g[r] + WeightOf(x) /\ g[r] \in Nat
    BY <1>1, <2>2 DEF Additive
  <2>4. WeightOf(x) \in Nat
    BY WeightNat
  <2> QED BY <1>2, <2>1, <2>2, <2>3, <2>4
<1>4. h[{}] = 0
  BY <1>1, <1>2 DEF Additive
<1>5. Sums(h, U)
  <2>1. \A s \in SUBSET U : s # {} => (CHOOSE x \in s : TRUE) \in s
    OBVIOUS
  <2>2. \A s \in SUBSET U :
          h[s] = IF s = {} THEN 0
                 ELSE WeightOf(CHOOSE x \in s : TRUE) + h[s \ {CHOOSE x \in s : TRUE}]
    BY <1>3, <1>4, <2>1
  <2>3. h = [s \in SUBSET U |-> h[s]]
    BY <1>2
  <2> QED BY <2>2, <2>3 DEF Sums
<1> DEFINE G == CHOOSE f : Sums(f, U)
<1>6. Sums(G, U)
  BY <1>5
<1>7. Sum(U) = G[U]
  BY DEF Sum, MapThenSumSet, MapThenFoldSet, Sums
<1> HIDE DEF G
<1> QED BY <1>6, <1>7

\* Any function that has the sums has the sum of U.
LEMMA SumIs ==
  ASSUME NEW U \in SUBSET Clients, NEW g, Additive(g, U)
  PROVE  Sum(U) = g[U]
<1>1. PICK h : Sums(h, U) /\ Sum(U) = h[U]
  BY SumDefined
<1>2. PICK T : T = {n \in Nat : \A s \in SUBSET U : Cardinality(s) = n => h[s] = g[s]}
  OBVIOUS
<1>3. \A s \in SUBSET U : IsFiniteSet(s) /\ Cardinality(s) \in Nat
  <2>1. IsFiniteSet(U)
    BY TportAssumption, FS_Subset
  <2> QED BY <2>1, FS_Subset, FS_CardinalityType
<1>4. h[{}] = 0
  BY <1>1 DEF Sums
<1>5. 0 \in T
  <2>1. \A s \in SUBSET U : Cardinality(s) = 0 => s = {}
    BY <1>3, FS_EmptySet
  <2> QED BY <1>2, <1>4, <2>1 DEF Additive
<1>6. ASSUME NEW n \in T PROVE n + 1 \in T
  <2>0. n \in Nat
    BY <1>2
  <2> SUFFICES ASSUME NEW s \in SUBSET U, Cardinality(s) = n + 1 PROVE h[s] = g[s]
    BY <1>2, <2>0
  <2>1. s # {}
    BY <2>0, FS_EmptySet
  <2>2. PICK x : x = CHOOSE y \in s : TRUE
    OBVIOUS
  <2>3. x \in s
    BY <2>1, <2>2
  <2>4. h[s] = WeightOf(x) + h[s \ {x}]
    BY <1>1, <2>1, <2>2 DEF Sums
  <2>5. PICK r : r = s \ {x}
    OBVIOUS
  <2>6. r \in SUBSET U /\ x \in U \ r /\ s = r \cup {x}
    BY <2>3, <2>5
  <2>7. Cardinality(r) = n
    <3>1. IsFiniteSet(s)
      BY <1>3
    <3>2. Cardinality(r) = Cardinality(s) - 1
      BY <2>3, <2>5, <3>1, FS_RemoveElement
    <3> QED BY <2>0, <3>2
  <2>8. h[r] = g[r]
    BY <1>2, <2>6, <2>7
  <2>9. g[s] = g[r] + WeightOf(x) /\ g[r] \in Nat
    BY <2>6 DEF Additive
  <2>10. WeightOf(x) \in Nat
    BY <2>6, WeightNat
  <2> QED BY <2>4, <2>5, <2>8, <2>9, <2>10
<1>7. T = Nat
  BY <1>2, <1>5, <1>6, NatSets
<1>8. U \in SUBSET U /\ Cardinality(U) \in Nat
  BY <1>3
<1> QED BY <1>1, <1>2, <1>7, <1>8

\* The sum is a natural number, 0 for no one, and grows by the weight of who is added.
LEMMA SumFacts ==
  /\ Sum({}) = 0
  /\ \A S \in SUBSET Clients : Sum(S) \in Nat
  /\ \A S \in SUBSET Clients : \A x \in Clients \ S : Sum(S \cup {x}) = Sum(S) + WeightOf(x)
<1>1. ASSUME NEW S \in SUBSET Clients PROVE Sum(S) \in Nat /\ (S = {} => Sum(S) = 0)
  <2>1. PICK g : Additive(g, S)
    BY AdditiveExists
  <2>2. Sum(S) = g[S]
    BY <2>1, SumIs
  <2>3. S \in SUBSET S
    OBVIOUS
  <2> QED BY <2>1, <2>2, <2>3 DEF Additive
<1>2. ASSUME NEW S \in SUBSET Clients, NEW x \in Clients \ S
      PROVE  Sum(S \cup {x}) = Sum(S) + WeightOf(x)
  <2>1. PICK U : U = S \cup {x}
    OBVIOUS
  <2>2. U \in SUBSET Clients /\ S \in SUBSET U /\ x \in U \ S
    BY <2>1
  <2>3. PICK g : Additive(g, U)
    BY <2>2, AdditiveExists
  <2>4. Additive(g, S)
    BY <2>2, <2>3 DEF Additive
  <2>5. Sum(U) = g[U] /\ Sum(S) = g[S]
    BY <2>2, <2>3, <2>4, SumIs
  <2>6. g[U] = g[S] + WeightOf(x)
    BY <2>1, <2>2, <2>3 DEF Additive
  <2> QED BY <2>1, <2>5, <2>6
<1>3. {} \in SUBSET Clients
  OBVIOUS
<1> QED BY <1>1, <1>2, <1>3

\* A set that gains or loses one element.
LEMMA SumRemove ==
  ASSUME NEW S \in SUBSET Clients, NEW x \in S
  PROVE  Sum(S \ {x}) = Sum(S) - WeightOf(x)
<1>1. PICK r : r = S \ {x}
  OBVIOUS
<1>2. r \in SUBSET Clients /\ x \in Clients \ r /\ S = r \cup {x}
  BY <1>1
<1>3. Sum(S) = Sum(r) + WeightOf(x) /\ Sum(r) \in Nat /\ WeightOf(x) \in Nat
  BY <1>2, SumFacts, WeightNat
<1> QED BY <1>1, <1>3

\* sbfTport_nextThread finds a thread.
LEMMA NextThreadIn ==
  ASSUME mWeights \in [Threads -> Int]
  PROVE  NextThread \in Threads
<1>1. PICK Least : Least = [n \in Nat |-> {t \in 1..n : \A u \in 1..n :
           mWeights[t] < mWeights[u] \/ (mWeights[t] = mWeights[u] /\ t <= u)}]
  OBVIOUS
<1>2. \A t \in Threads : mWeights[t] \in Int
  OBVIOUS
<1>3. NumThreads \in Nat \ {0}
  BY TportAssumption
<1>4. PICK T : T = {n \in Nat : n + 1 <= NumThreads => Least[n + 1] # {}}
  OBVIOUS
<1>5. \A n \in Nat : \A t : t \in Least[n] <=> t \in 1..n /\ \A u \in 1..n :
           mWeights[t] < mWeights[u] \/ (mWeights[t] = mWeights[u] /\ t <= u)
  BY <1>1
<1>6. 0 \in T
  <2>1. 1 \in Least[0 + 1]
    BY <1>5
  <2> QED BY <1>4, <2>1
<1>7. ASSUME NEW n \in T PROVE n + 1 \in T
  <2>0. n \in Nat /\ n + 1 \in Nat
    BY <1>4
  <2> SUFFICES ASSUME (n + 1) + 1 <= NumThreads PROVE Least[(n + 1) + 1] # {}
    BY <1>4, <2>0
  <2>1. PICK m : m = n + 1
    OBVIOUS
  <2>2. PICK t : t \in Least[m]
    BY <1>3, <1>4, <2>0, <2>1
  <2>3. t \in 1..m /\ \A u \in 1..m :
           mWeights[t] < mWeights[u] \/ (mWeights[t] = mWeights[u] /\ t <= u)
    BY <1>5, <2>0, <2>1, <2>2
  <2>4. /\ m \in Nat /\ m + 1 \in Threads /\ t \in Threads /\ t \in 1..(m + 1) /\ t < m + 1
        /\ \A u \in 1..m : u \in Threads /\ u < m + 1
        /\ \A u \in 1..(m + 1) : u \in 1..m \/ u = m + 1
    BY <1>3, <2>0, <2>1, <2>3 DEF Threads
  <2>5. CASE mWeights[t] <= mWeights[m + 1]
    <3>1. t \in Least[m + 1]
      BY <1>2, <1>5, <2>0, <2>1, <2>3, <2>4, <2>5
    <3> QED BY <2>1, <3>1
  <2>6. CASE mWeights[m + 1] < mWeights[t]
    <3>1. \A u \in 1..m : mWeights[m + 1] < mWeights[u]
      BY <1>2, <2>3, <2>4, <2>6
    <3>2. m + 1 \in Least[m + 1]
      BY <1>2, <1>5, <2>0, <2>1, <2>4, <3>1
    <3> QED BY <2>1, <3>2
  <2> QED BY <1>2, <2>4, <2>5, <2>6
<1>8. T = Nat
  BY <1>4, <1>6, <1>7, NatSets
<1>9. Least[NumThreads] # {}
  <2>1. NumThreads - 1 \in T /\ (NumThreads - 1) + 1 = NumThreads
    BY <1>3, <1>8
  <2> QED BY <1>3, <1>4, <2>1
<1>10. \E t \in Threads : \A u \in Threads :
         mWeights[t] < mWeights[u] \/ (mWeights[t] = mWeights[u] /\ t <= u)
  BY <1>3, <1>5, <1>9 DEF Threads
<1> QED BY <1>10 DEF NextThread

\* What is left of a list when s is removed.
Removed(list, s, rest) == rest = RemoveFirst(list, s)

\* It has no stream but s less, and keeps their order.
LEMMA RemoveFirstFacts ==
  ASSUME NEW list \in Seq(Clients), Distinct(list), NEW s \in Clients,
         NEW rest, Removed(list, s, rest)
  PROVE  /\ rest \in Seq(Clients) /\ Distinct(rest)
         /\ \A x : Has(rest, x) <=> Has(list, x) /\ x # s
         /\ \A a, b : UpTo(list, a, b) /\ a # s /\ b # s => UpTo(rest, a, b)
<1>0. rest = RemoveFirst(list, s) /\ Len(list) \in Nat
  BY DEF Removed
<1>1. CASE ~Has(list, s)
  <2>1. rest = list
    BY <1>0, <1>1 DEF RemoveFirst, Has
  <2> QED BY <1>1, <2>1
<1>2. CASE Has(list, s)
  <2>1. PICK i \in 1..Len(list) : list[i] = s
    BY <1>2 DEF Has
  <2>2. \A k \in 1..Len(list) : list[k] = s <=> k = i
    BY <2>1 DEF Distinct
  <2>3. SelectInSeq(list, LAMBDA v : v = s) = i
    <3>1. {k \in 1..Len(list) : list[k] = s} = {i}
      BY <2>1, <2>2
    <3>2. Min({i}) = i
      BY <1>0, <2>1 DEF Min
    <3> QED BY <3>1, <3>2 DEF SelectInSeq
  <2>4. rest = SubSeq(list, 1, i - 1) \o SubSeq(list, i + 1, Len(list))
    BY <1>0, <1>2, <2>3 DEF RemoveFirst, RemoveAt, Has
  <2>5. PICK n : n = Len(list)
    OBVIOUS
  <2>6. n \in Nat /\ i \in 1..n /\ list \in [1..n -> Clients]
    BY <1>0, <2>1, <2>5
  <2>7. PICK p, q : p = SubSeq(list, 1, i - 1) /\ q = SubSeq(list, i + 1, n)
    OBVIOUS
  <2>8. /\ p \in Seq(Clients) /\ Len(p) = i - 1
        /\ \A k \in 1..(i - 1) : p[k] = list[k]
    BY <2>5, <2>6, <2>7
  <2>9. /\ q \in Seq(Clients) /\ Len(q) = n - i
        /\ \A k \in 1..(n - i) : q[k] = list[i + k]
    BY <2>5, <2>6, <2>7
  <2>10. /\ rest \in Seq(Clients) /\ Len(rest) = n - 1
         /\ \A k \in 1..(n - 1) : rest[k] = IF k < i THEN list[k] ELSE list[k + 1]
    <3>1. rest = p \o q
      BY <2>4, <2>5, <2>7
    <3>2. rest \in Seq(Clients) /\ Len(rest) = n - 1
      <4>1. p \in Seq(Clients) /\ q \in Seq(Clients) /\ Len(p) = i - 1 /\ Len(q) = n - i
        BY <2>8, <2>9
      <4>2. rest \in Seq(Clients) /\ Len(rest) = Len(p) + Len(q)
        BY <3>1, <4>1, ConcatProperties
      <4> QED BY <2>6, <4>1, <4>2
    <3>3. ASSUME NEW k \in 1..(n - 1) PROVE rest[k] = IF k < i THEN list[k] ELSE list[k + 1]
      <4>1. rest[k] = IF k <= i - 1 THEN p[k] ELSE q[k - (i - 1)]
        BY <2>6, <2>8, <2>9, <3>1
      <4>2. CASE k < i
        BY <2>6, <2>8, <4>1, <4>2
      <4>3. CASE ~(k < i)
        <5>1. k - (i - 1) \in 1..(n - i) /\ i + (k - (i - 1)) = k + 1
          BY <2>6, <4>3
        <5> QED BY <2>6, <2>9, <4>1, <4>3, <5>1
      <4> QED BY <4>2, <4>3
    <3> QED BY <3>2, <3>3
  <2>11. Distinct(rest)
    <3>1. \A k \in 1..(n - 1) : (IF k < i THEN k ELSE k + 1) \in 1..n
                                /\ rest[k] = list[IF k < i THEN k ELSE k + 1]
      BY <2>6, <2>10
    <3>2. ASSUME NEW j \in 1..(n - 1), NEW k \in 1..(n - 1), rest[j] = rest[k] PROVE j = k
      <4>1. PICK jj, kk \in 1..n :
              /\ rest[j] = list[jj] /\ jj = IF j < i THEN j ELSE j + 1
              /\ rest[k] = list[kk] /\ kk = IF k < i THEN k ELSE k + 1
        BY <3>1
      <4>2. jj = kk
        BY <2>5, <3>2, <4>1 DEF Distinct
      <4> QED BY <2>6, <4>1, <4>2
    <3> QED BY <2>10, <3>2 DEF Distinct
  <2>12. ASSUME NEW j \in 1..n, j # i
         PROVE  /\ (IF j < i THEN j ELSE j - 1) \in 1..(n - 1)
                /\ rest[IF j < i THEN j ELSE j - 1] = list[j]
    BY <2>6, <2>10, <2>12
  <2>13. ASSUME NEW x PROVE Has(rest, x) <=> Has(list, x) /\ x # s
    <3>1. ASSUME Has(rest, x) PROVE Has(list, x) /\ x # s
      <4>1. PICK k \in 1..(n - 1) : rest[k] = x
        BY <2>10, <3>1 DEF Has
      <4>2. PICK j \in 1..n : j # i /\ list[j] = x
        BY <2>6, <2>10, <4>1
      <4> QED BY <2>2, <2>5, <4>2 DEF Has
    <3>2. ASSUME Has(list, x), x # s PROVE Has(rest, x)
      <4>1. PICK j \in 1..n : list[j] = x
        BY <2>5, <3>2 DEF Has
      <4>2. j # i
        BY <2>1, <3>2, <4>1
      <4> QED BY <2>10, <2>12, <4>1, <4>2 DEF Has
    <3> QED BY <3>1, <3>2
  <2>14. ASSUME NEW a, NEW b, UpTo(list, a, b), a # s, b # s PROVE UpTo(rest, a, b)
    <3>1. PICK j, k \in 1..n : j <= k /\ list[j] = a /\ list[k] = b
      BY <2>5, <2>14 DEF UpTo
    <3>2. j # i /\ k # i
      BY <2>1, <2>14, <3>1
    <3>3. PICK jj, kk : jj = (IF j < i THEN j ELSE j - 1) /\ kk = (IF k < i THEN k ELSE k - 1)
      OBVIOUS
    <3>4. jj \in 1..(n - 1) /\ kk \in 1..(n - 1) /\ rest[jj] = a /\ rest[kk] = b
      BY <2>12, <3>1, <3>2, <3>3
    <3>5. jj <= kk
      BY <2>6, <3>1, <3>2, <3>3
    <3> QED BY <2>10, <3>4, <3>5 DEF UpTo
  <2> QED BY <2>10, <2>11, <2>13, <2>14
<1> QED BY <1>1, <1>2

\* A list without duplicates has as many elements as its length.
LEMMA ListCardinality ==
  ASSUME NEW list \in Seq(Clients), Distinct(list)
  PROVE  Cardinality({s \in Clients : Has(list, s)}) = Len(list)
<1>1. PICK S, n : S = {s \in Clients : Has(list, s)} /\ n = Len(list)
  OBVIOUS
<1>2. n \in Nat /\ list \in [1..n -> S] /\ Len(list) = n /\ \A s \in S : \E k \in 1..n : list[k] = s
  BY <1>1 DEF Has
<1>3. list \in Bijection(1..n, S)
  BY <1>1, <1>2 DEF Bijection, Injection, Surjection, IsInjective, Distinct
<1>4. IsFiniteSet(1..n) /\ Cardinality(1..n) = n
  BY <1>2, FS_Interval
<1>5. Cardinality(S) = Cardinality(1..n)
  BY <1>3, <1>4, FS_Bijection DEF ExistsBijection
<1> QED BY <1>1, <1>4, <1>5

-----------------------------------------------------------------------------
(* The invariant, part by part. *)

Parts ==
  /\ Types /\ OnceIn(events) /\ ListOK /\ ThreadOK /\ WaitingOK /\ WeightsOK
  /\ \A c \in Clients : CreationOK(c)
  /\ \A c \in Clients : StreamOK(c)
  /\ \A c \in Clients : TopicOK(c)
  /\ \A c \in Clients : ReadyOK(c)
  /\ \A c \in Clients : EventOK(c)
  /\ \A c \in Clients : OrderOK(c)
  /\ \A c \in Clients : HolderOK(c)
  /\ \A c \in Clients : RefCountOK(c)
  /\ \A c \in Clients : ClientRefsOK(c)
  /\ \A c \in Clients : UserQueueOK(c)
  /\ \A t \in Threads : AtOK(t)

\* The invariant is its parts.
LEMMA Unpack == IInv => Parts
BY DEF IInv, Parts, ClientOK

\* The callbacks that are queued: each for one thread, the current one before all others.
LEMMA Queued ==
  ASSUME events \in Queues, OnceIn(events)
  PROVE  /\ \A t, u \in Threads : \A e : On(t, e) /\ On(u, e) => t = u
         /\ \A t \in Threads : \A e : IsHead(t, e) => On(t, e)
         /\ \A t \in Threads : \A e, f : IsHead(t, e) /\ IsHead(t, f) => e = f
         /\ \A t \in Threads : \A e, f : IsHead(t, e) => ~Before(f, e)
         /\ \A t \in Threads : \A e : On(t, e) => Pending(e)
BY QueueFacts DEF On, IsHead, Before, Pending

\* What the callback that a thread runs returns leaves.
LEMMA Returns ==
  ASSUME events \in Queues, OnceIn(events), NEW t \in Threads, NEW e, IsHead(t, e), Return(t)
  PROVE  /\ events' \in Queues /\ OnceIn(events)'
         /\ \A u \in Threads : \A f : On(u, f)' <=> On(u, f) /\ f # e
         /\ \A f : Pending(f)' <=> Pending(f) /\ f # e
         /\ \A f, g : Before(f, g)' <=> Before(f, g) /\ f # e
         /\ \A u \in Threads : \A f : u # t /\ IsHead(u, f) => IsHead(u, f)'
<1>1. Returned(events, t, events')
  BY DEF Return, Returned
<1>2. Without(events, t, e, events')
  BY <1>1, TailIn DEF IsHead
<1>3. \A u \in Threads : \A f : On(u, f)' <=> On(u, f) /\ f # e
  BY <1>2 DEF Without, On
<1>4. \A f : Pending(f)' <=> Pending(f) /\ f # e
  BY <1>3 DEF Pending
<1> QED BY <1>2, <1>3, <1>4 DEF Without, Before, IsHead

\* A callback that is queued for thread t is last there.
LEMMA Queues1 ==
  ASSUME events \in Queues, OnceIn(events), NEW t \in Threads, NEW e \in Callbacks, ~Pending(e),
         events' = [events EXCEPT ![t] = Append(@, e)]
  PROVE  /\ events' \in Queues /\ OnceIn(events)'
         /\ \A u \in Threads : \A f : On(u, f)' <=> On(u, f) \/ (u = t /\ f = e)
         /\ \A f : Pending(f)' <=> Pending(f) \/ f = e
         /\ \A f, g : Before(f, g)' <=> Before(f, g) \/ (g = e /\ On(t, f))
         /\ \A u \in Threads : \A f : IsHead(u, f) => IsHead(u, f)'
<1>1. Appended(events, t, e, events')
  BY DEF Appended
<1>2. WithOne(events, t, e, events')
  BY <1>1, AppendIn DEF Pending, On
<1>3. \A u \in Threads : \A f : On(u, f)' <=> On(u, f) \/ (u = t /\ f = e)
  BY <1>2 DEF WithOne, On
<1>4. \A f : Pending(f)' <=> Pending(f) \/ f = e
  BY <1>3 DEF Pending
<1> QED BY <1>2, <1>3, <1>4 DEF WithOne, Before, IsHead, On

\* The callback that a thread runs, and the client it is for.
LEMMA Running ==
  ASSUME events \in Queues, NEW t \in Threads
  PROVE  /\ \A kind : Fired(t, kind) =>
              Of(t) \in Clients /\ kind \in EventKinds /\ IsHead(t, Event(kind, Of(t)))
         /\ \A kind, c : IsHead(t, Event(kind, c)) => Of(t) = c
<1>1. events[t] \in Seq(Callbacks)
  BY DEF Queues
<1>2. events[t] # << >> => Len(events[t]) > 0 /\ events[t][1] \in Callbacks
                           /\ events[t][1] = Head(events[t])
  BY <1>1
<1>3. ASSUME NEW kind, Fired(t, kind)
      PROVE  Of(t) \in Clients /\ kind \in EventKinds /\ IsHead(t, Event(kind, Of(t)))
  <2>1. PICK e : e = events[t][1]
    OBVIOUS
  <2>2. e \in EventKinds \X Clients /\ e[1] = kind /\ e[2] = Of(t)
    BY <1>2, <1>3, <2>1 DEF Fired, Of, Callbacks
  <2>3. e = <<e[1], e[2]>>
    BY <2>2
  <2> QED BY <1>2, <1>3, <2>1, <2>2, <2>3 DEF Event, IsHead, HeadIn, Fired
<1>4. ASSUME NEW kind, NEW c, IsHead(t, Event(kind, c)) PROVE Of(t) = c
  BY <1>1, <1>4 DEF IsHead, HeadIn, Event, Of
<1> QED BY <1>3, <1>4

\* What holds of the client whose event a thread runs.
LEMMA Running2 ==
  ASSUME Parts, NEW t \in Threads, NEW kind \in ClientKinds, NEW c \in Clients,
         IsHead(t, Event(kind, c))
  PROVE  /\ On(t, Event(kind, c)) /\ Pending(Event(kind, c))
         /\ pc[c] # "none" /\ StreamOf(c) # NULL /\ t = mThread[StreamOf(c)]
         /\ kind = "add" => StreamOf(c) # c /\ mTportTopic[c] = NULL
         /\ kind = "complete" => StreamOf(c) = c /\ mTportTopic[c] = NULL
         /\ kind = "remove" => pc[c] = "created" /\ c \in mDestroyed /\ c \notin mRemoved
         /\ EnsureStream(c) => mTportStream[c] \in Clients /\ mTportStream[c] = StreamOf(c)
<1>1. events \in Queues /\ OnceIn(events) /\ Types
  BY DEF Parts, Types
<1>2. On(t, Event(kind, c)) /\ Pending(Event(kind, c))
  BY <1>1, Queued
<1>3. pc[c] # "none" /\ StreamOf(c) # NULL /\ t = mThread[StreamOf(c)]
  BY <1>2 DEF Parts, ThreadOK
<1>4. EventOK(c) /\ CreationOK(c)
  BY DEF Parts
<1>5. EnsureStream(c) => mTportStream[c] \in Clients /\ mTportStream[c] = StreamOf(c)
  <2>1. EnsureStream(c) => mTportStream[c] # NULL
    BY <1>1, <1>3, <1>4, TportAssumption DEF EnsureStream, LockFree, CreationOK, Types
  <2> QED BY <1>1, <2>1 DEF StreamOf, Types
<1> QED BY <1>2, <1>3, <1>4, <1>5 DEF EventOK

\* Which threads are about to see whether a stream can go is not changed.
LEMMA SameEmptying ==
  ASSUME Parts, \A u \in Threads : at'[u] = "empty" <=> at[u] = "empty",
         \A u \in Threads : \A f : at[u] = "empty" /\ IsHead(u, f) => IsHead(u, f)',
         \A c \in Clients : mTportStream[c] # NULL => mTportStream'[c] = mTportStream[c]
  PROVE  \A s \in Clients : Emptying(s)' <=> Emptying(s)
<1>1. \A u \in Threads : at[u] = "empty" =>
        \E c \in Clients : IsHead(u, Event("remove", c)) /\ mTportStream[c] # NULL
  <2> SUFFICES ASSUME NEW u \in Threads, at[u] = "empty"
               PROVE \E c \in Clients : IsHead(u, Event("remove", c)) /\ mTportStream[c] # NULL
    OBVIOUS
  <2>1. PICK c \in Clients : IsHead(u, Event("remove", c))
    BY DEF Parts, AtOK
  <2>2. "remove" \in ClientKinds
    BY DEF ClientKinds
  <2>3. pc[c] = "created"
    BY <2>1, <2>2, Running2
  <2> QED BY <2>1, <2>3 DEF Parts, CreationOK
<1>2. ASSUME NEW s \in Clients, Emptying(s) PROVE Emptying(s)'
  <2>1. PICK u \in Threads, c \in Clients :
          at[u] = "empty" /\ IsHead(u, Event("remove", c)) /\ mTportStream[c] = s
    BY <1>2 DEF Emptying
  <2>2. s # NULL
    BY TportAssumption
  <2> QED BY <2>1, <2>2 DEF Emptying
<1>3. ASSUME NEW s \in Clients, Emptying(s)' PROVE Emptying(s)
  <2>1. PICK u \in Threads, c \in Clients :
          at'[u] = "empty" /\ IsHead(u, Event("remove", c))' /\ mTportStream'[c] = s
    BY <1>3 DEF Emptying
  <2>2. PICK d \in Clients : IsHead(u, Event("remove", d)) /\ mTportStream[d] # NULL
    BY <1>1, <2>1
  <2>3. IsHead(u, Event("remove", d))' /\ mTportStream'[d] = mTportStream[d]
    BY <2>1, <2>2
  <2>4. Event("remove", d) = Event("remove", c)
    BY <2>1, <2>3 DEF IsHead, HeadIn
  <2>5. d = c
    BY <2>4, EventFacts
  <2> QED BY <2>1, <2>2, <2>3, <2>5 DEF Emptying
<1> QED BY <1>2, <1>3

\* The clients are finitely many, and counted one by one.
LEMMA Cards ==
  /\ Cardinality({}) = 0
  /\ \A S \in SUBSET Clients : IsFiniteSet(S) /\ Cardinality(S) \in Nat
                               /\ (Cardinality(S) = 0 => S = {})
  /\ \A S \in SUBSET Clients : \A x \in Clients \ S : Cardinality(S \cup {x}) = Cardinality(S) + 1
  /\ \A S \in SUBSET Clients : \A x \in S : Cardinality(S \ {x}) = Cardinality(S) - 1
<1>1. ASSUME NEW S \in SUBSET Clients
      PROVE  IsFiniteSet(S) /\ Cardinality(S) \in Nat /\ (Cardinality(S) = 0 => S = {})
  <2>1. IsFiniteSet(S)
    BY FS_Subset, TportAssumption
  <2> QED BY <2>1, FS_CardinalityType, FS_EmptySet
<1>2. ASSUME NEW S \in SUBSET Clients, NEW x \in Clients \ S
      PROVE  Cardinality(S \cup {x}) = Cardinality(S) + 1
  BY <1>1, FS_AddElement
<1>3. ASSUME NEW S \in SUBSET Clients, NEW x \in S PROVE Cardinality(S \ {x}) = Cardinality(S) - 1
  BY <1>1, FS_RemoveElement
<1> QED BY <1>1, <1>2, <1>3, FS_EmptySet

\* The parts are the invariant.
LEMMA Pack == Parts => IInv
BY DEF IInv, Parts, ClientOK

\* A stream that is counted is held: the waiting clients and the topics count.
LEMMA CountedHeld ==
  ASSUME Types, \A c \in Clients : TopicOK(c),
         NEW s \in Clients, RefCountOK(s), mRefCount[s] # 0,
         \A c \in Clients : pc[c] = "set" /\ mTportTopic[c] # NULL => c \in listed,
         \A c \in Clients : mTportStream[c] # NULL => pc[c] \in {"set", "created"}
  PROVE  \E c \in Clients : Holds(c, s)
<1>1. PICK T, W, E : T = mTopics[s] /\ W = Waiting(s) /\ E = Early(s)
  OBVIOUS
<1>2. T \in SUBSET Clients /\ W \in SUBSET Clients /\ E \in SUBSET Clients
  BY <1>1 DEF Types, Waiting, Early
<1>3. T # {} \/ W # {} \/ E # {}
  <2>1. mRefCount[s] = Cardinality(T) + Cardinality(W) - Cardinality(E)
    BY <1>1 DEF RefCountOK
  <2>2. SUFFICES ASSUME T = {}, W = {}, E = {} PROVE FALSE
    OBVIOUS
  <2>3. Cardinality(T) = 0 /\ Cardinality(W) = 0 /\ Cardinality(E) = 0
    BY <2>2, Cards
  <2> QED BY <2>1, <2>3
<1>4. CASE \E x : x \in T
  <2>1. PICK x \in Clients : x \in mTopics[s]
    BY <1>1, <1>2, <1>4
  <2>2. TopicOK(x)
    OBVIOUS
  <2>3. PICK d \in listed : mTportTopic[d] = x
    BY <2>1, <2>2 DEF TopicOK
  <2>4. d \in Clients
    BY DEF Types
  <2>5. TopicOK(d)
    BY <2>4
  <2>6. mTportStream[x] = s
    BY <2>1, <2>2 DEF TopicOK
  <2>7. x # NULL
    BY TportAssumption
  <2>8. mTportStream[d] # NULL /\ mTportStream[x] = mTportStream[d]
    BY <2>3, <2>5, <2>7 DEF TopicOK
  <2> QED BY <2>3, <2>4, <2>6, <2>8 DEF Holds
<1>5. CASE \E x : x \in W
  <2>1. PICK x \in Clients : x \in Waiting(s)
    BY <1>1, <1>2, <1>5
  <2> QED BY <2>1 DEF Waiting, Holds
<1>6. CASE \E x : x \in E
  <2>1. PICK x \in Clients : x \in Early(s)
    BY <1>1, <1>2, <1>6
  <2> QED BY <2>1 DEF Early, Holds
<1> QED BY <1>3, <1>4, <1>5, <1>6

\* With the lock free, no client holds a stream that is not counted.
LEMMA UncountedFree ==
  ASSUME Parts, LockFree, NEW s \in Clients, mRefCount[s] = 0, NEW c \in Clients
  PROVE  ~Holds(c, s)
<1>1. PICK T, W, E : T = mTopics[s] /\ W = Waiting(s) /\ E = Early(s)
  OBVIOUS
<1>2. T \in SUBSET Clients /\ W \in SUBSET Clients /\ E = {}
  BY <1>1, TportAssumption DEF Types, Waiting, Early, Parts, CreationOK, LockFree
<1>3. mRefCount[s] = Cardinality(T) + Cardinality(W) - Cardinality(E)
  BY <1>1 DEF Parts, RefCountOK
<1>4. T = {} /\ W = {}
  BY <1>2, <1>3, Cards
<1>5. TopicOK(c) /\ CreationOK(c)
  BY DEF Parts
<1>6. SUFFICES ASSUME Holds(c, s) PROVE FALSE
  OBVIOUS
<1>7. pc[c] = "created"
  BY <1>5, <1>6, TportAssumption DEF Holds, CreationOK, LockFree
<1>8. mTportTopic[c] # NULL
  BY <1>1, <1>4, <1>6, <1>7 DEF Holds, Waiting
<1> QED BY <1>1, <1>4, <1>5, <1>6, <1>8 DEF Holds, TopicOK

\* A stream is for publishers or for subscriptions.
OneKind == \A p \in Pubs, q \in Subs : Key[p] # Key[q]

-----------------------------------------------------------------------------
(* The steps. *)

\* A client is added to a topic of its stream, and becomes ready if the stream is.
LEMMA Adds ==
  ASSUME Parts, NEW t \in Threads, NEW c \in Clients, NEW s \in Clients,
         NEW kind \in {"add", "complete"}, IsHead(t, Event(kind, c)), at[t] = "loop",
         EnsureStream(c), s = mTportStream[c], AddToTopic(c, s), Return(t),
         mStreamReady' = mStreamReady \cup (IF kind = "complete" THEN {s} ELSE {}),
         BecomeReady(IF s \in mStreamReady' THEN {c} ELSE {}),
         UNCHANGED <<mTopic, tportVars, mThread, failed, freedStreams,
                     mTportStream, mDestroyed, mRemoved, freedClients, pc,
                     called>>
  PROVE  Parts'
<1> DEFINE e == Event(kind, c)
<1>1. Types /\ events \in Queues /\ OnceIn(events)
  BY DEF Parts, Types
<1>2. /\ mTopic' = mTopic /\ mStreams' = mStreams /\ mStreamsLock' = mStreamsLock
      /\ mStreamsWaiting' = mStreamsWaiting /\ mWeights' = mWeights /\ tpc' = tpc
      /\ handle' = handle /\ mThread' = mThread /\ failed' = failed
      /\ freedStreams' = freedStreams /\ mTportStream' = mTportStream
      /\ mDestroyed' = mDestroyed /\ mRemoved' = mRemoved
      /\ freedClients' = freedClients /\ pc' = pc /\ called' = called
  BY DEF tportVars
<1>3. /\ On(t, e) /\ Pending(e) /\ StreamOf(c) = s /\ pc[c] # "none" /\ t = mThread[s]
      /\ kind = "add" => s # c
      /\ kind = "complete" => s = c
      /\ mTportTopic[c] = NULL /\ c \notin listed /\ c \notin mReady
  <2>1. kind \in ClientKinds
    BY DEF ClientKinds
  <2>2. TopicOK(c) /\ ReadyOK(c)
    BY DEF Parts
  <2> QED BY <2>1, <2>2, Running2 DEF TopicOK, ReadyOK
<1>4. /\ events' \in Queues /\ OnceIn(events)'
      /\ \A u \in Threads : \A f : On(u, f)' <=> On(u, f) /\ f # e
      /\ \A f : Pending(f)' <=> Pending(f) /\ f # e
      /\ \A f, g : Before(f, g)' <=> Before(f, g) /\ f # e
      /\ \A u \in Threads : \A f : u # t /\ IsHead(u, f) => IsHead(u, f)'
  BY <1>1, Returns
<1>5. /\ at'[t] = "loop" /\ \A u \in Threads : u # t => at'[u] = at[u] /\ cursor'[u] = cursor[u]
      /\ cursor'[t] = NULL
  BY <1>1 DEF Return, Types
<1>6. \A f : ~Before(f, e)
  BY <1>1, Queued
<1>7. ~Pending(Event("complete", s))'
  <2>1. CASE kind = "complete"
    BY <1>3, <1>4, <2>1
  <2>2. CASE kind = "add"
    <3>1. OrderOK(s)
      BY DEF Parts
    <3>2. Event("add", c) # Event("complete", s)
      BY EventFacts
    <3>3. Pending(Event("complete", s)) => Before(Event("complete", s), Event("add", c))
      BY <1>3, <2>2, <3>1, <3>2 DEF OrderOK, ClientKinds
    <3> QED BY <1>4, <1>6, <2>2, <3>3
  <2> QED BY <2>1, <2>2
<1>8. s \notin mStreamReady => s \in failed \/ kind = "complete"
  <2>1. SUFFICES ASSUME kind = "add", s \notin mStreamReady PROVE s \in failed
    OBVIOUS
  <2>2. ReadyOK(s) /\ EventOK(s) /\ StreamOK(c) /\ CreationOK(s)
    BY DEF Parts
  <2>3. mTportStream[s] = s /\ pc[s] # "none"
    BY <2>2, TportAssumption DEF StreamOK, CreationOK
  <2>4. StreamOf(s) = s
    BY <2>3, TportAssumption DEF StreamOf
  <2>5. mTportTopic[s] = NULL
    BY <2>1, <2>2, <2>3 DEF ReadyOK
  <2>6. ~Pending(Event("complete", s))
    <3>1. Event("complete", s) # Event("add", c)
      BY EventFacts
    <3> QED BY <1>4, <1>7, <2>1, <3>1
  <2> QED BY <2>2, <2>3, <2>4, <2>5, <2>6 DEF EventOK
<1>9. kind = "complete" => s \notin failed
  <2>1. ReadyOK(s)
    BY DEF Parts
  <2> QED BY <1>3, <2>1 DEF ReadyOK
<1>10. PICK topic \in Clients :
         /\ c \notin mTopics[s]
         /\ topic = c \/ topic \in mTopics[s]
         /\ mTopics' = [mTopics EXCEPT ![s] = @ \cup {topic}]
         /\ mRefCount' = [mRefCount EXCEPT ![s] = @ + (IF topic = c THEN 1 ELSE 0) - 1]
         /\ mTportTopic' = [mTportTopic EXCEPT ![c] = topic]
         /\ listed' = listed \cup {c}
  <2>1. c \notin mTopics[s]
    <3>1. TopicOK(c)
      BY DEF Parts
    <3> QED BY <1>3, <3>1 DEF TopicOK
  <2>2. mTopics[s] \in SUBSET Clients
    BY <1>1 DEF Types
  <2>3. CASE FoundTopics(s, c) = {}
    BY <2>1, <2>3 DEF AddToTopic, Dropped
  <2>4. CASE FoundTopics(s, c) # {}
    <3>1. PICK topic : topic = CHOOSE o \in FoundTopics(s, c) : TRUE
      OBVIOUS
    <3>2. topic \in mTopics[s] /\ topic \in Clients /\ topic # c
      BY <2>1, <2>2, <2>4, <3>1 DEF FoundTopics
    <3> QED BY <2>1, <2>4, <3>1, <3>2 DEF AddToTopic, Dropped
  <2> QED BY <2>3, <2>4
<1>11. /\ mTportTopic'[c] = topic
       /\ \A x \in Clients : x # c => mTportTopic'[x] = mTportTopic[x]
       /\ mTopics'[s] = mTopics[s] \cup {topic}
       /\ \A x \in Clients : x # s => mTopics'[x] = mTopics[x]
       /\ mRefCount'[s] = mRefCount[s] + (IF topic = c THEN 1 ELSE 0) - 1
       /\ \A x \in Clients : x # s => mRefCount'[x] = mRefCount[x]
       /\ mTportStream[topic] = s
  <2>1. mTportStream[topic] = s
    <3>1. TopicOK(topic)
      BY DEF Parts
    <3> QED BY <1>10, <3>1 DEF TopicOK
  <2> QED BY <1>1, <1>10, <2>1 DEF Types
<1> HIDE DEF e
<1>12. /\ mReady' = mReady \cup (IF s \in mStreamReady' THEN {c} ELSE {})
       /\ \A x \in Clients : x # c => userQueue'[x] = userQueue[x] /\ clientRefs'[x] = clientRefs[x]
       /\ \/ userQueue'[c] = userQueue[c] /\ clientRefs'[c] = clientRefs[c]
             /\ (s \in mStreamReady' /\ c \in Notified => c \in mDestroyed)
          \/ s \in mStreamReady' /\ c \in Notified \ mDestroyed
             /\ userQueue'[c] = Append(userQueue[c], "ready") /\ clientRefs'[c] = clientRefs[c] + 1
       /\ userQueue' \in [Clients -> Seq({"ready", "message"})]
       /\ clientRefs' \in [Clients -> Int]
  <2>1. /\ \A x \in Clients : userQueue[x] \in Seq({"ready", "message"})
        /\ \A x \in Clients : clientRefs[x] \in Int
    BY <1>1 DEF Types
  <2>2. PICK who : who = IF s \in mStreamReady' THEN {c} ELSE {}
    OBVIOUS
  <2>3. /\ mReady' = mReady \cup who
        /\ userQueue' = [x \in Clients |-> IF x \in (who \cap Notified) \ mDestroyed
                                            THEN Append(userQueue[x], "ready") ELSE userQueue[x]]
        /\ clientRefs' = [x \in Clients |-> IF x \in (who \cap Notified) \ mDestroyed
                                             THEN clientRefs[x] + 1 ELSE clientRefs[x]]
    BY <2>2 DEF BecomeReady, Enqueue
  <2>4. userQueue' \in [Clients -> Seq({"ready", "message"})]
    BY <2>1, <2>3
  <2>5. clientRefs' \in [Clients -> Int]
    BY <2>1, <2>3
  <2>6. \A x \in Clients : x # c => userQueue'[x] = userQueue[x] /\ clientRefs'[x] = clientRefs[x]
    BY <2>2, <2>3
  <2>7. CASE s \in mStreamReady' /\ c \in Notified \ mDestroyed
    <3>1. userQueue'[c] = Append(userQueue[c], "ready") /\ clientRefs'[c] = clientRefs[c] + 1
      BY <2>2, <2>3, <2>7
    <3> QED BY <2>2, <2>3, <2>4, <2>5, <2>6, <2>7, <3>1
  <2>8. CASE ~(s \in mStreamReady' /\ c \in Notified \ mDestroyed)
    <3>1. userQueue'[c] = userQueue[c] /\ clientRefs'[c] = clientRefs[c]
      BY <2>2, <2>3, <2>8
    <3>2. mReady' = mReady \cup (IF s \in mStreamReady' THEN {c} ELSE {})
      BY <2>2, <2>3
    <3> QED BY <2>4, <2>5, <2>6, <2>8, <3>1, <3>2
  <2> QED BY <2>7, <2>8
<1>13. Types'
  <2>0. mRefCount' \in [Clients -> Int]
    <3>1. PICK n \in Int : n = mRefCount[s] + (IF topic = c THEN 1 ELSE 0) - 1
      <4>1. mRefCount[s] \in Int
        BY <1>1 DEF Types
      <4> QED BY <4>1
    <3>2. mRefCount' = [mRefCount EXCEPT ![s] = n]
      BY <1>10, <3>1
    <3> QED BY <1>1, <3>2 DEF Types
  <2>1. mTopics' \in [Clients -> SUBSET Clients]
    BY <1>1, <1>10 DEF Types
  <2>2. mTportTopic' \in [Clients -> Clients \cup {NULL}]
    BY <1>1, <1>10 DEF Types
  <2>3. listed' \subseteq Clients /\ mReady' \subseteq Clients /\ mStreamReady' \subseteq Clients
    BY <1>1, <1>10, <1>12 DEF Types
  <2>4. at' \in [Threads -> {"loop", "empty", "walk"}]
    BY <1>1 DEF Types, Return
  <2>5. cursor' \in [Threads -> Clients \cup {NULL}]
    BY <1>1 DEF Types, Return
  <2> QED BY <1>1, <1>2, <1>4, <1>12, <2>0, <2>1, <2>2, <2>3, <2>4, <2>5 DEF Types
<1>14. ListOK'
  BY <1>2 DEF Parts, ListOK
<1>15. ThreadOK'
  BY <1>2, <1>4 DEF Parts, ThreadOK, StreamOf
<1>16. WaitingOK'
  <2>1. Awaited' = Awaited
    BY <1>3, <1>4, EventFacts DEF Awaited, e
  <2> QED BY <1>2, <2>1 DEF Parts, WaitingOK
<1>17. WeightsOK'
  BY <1>2, <1>3, <1>10, <1>11, TportAssumption DEF Parts, WeightsOK, Holds
<1>18. ASSUME NEW x \in Clients PROVE CreationOK(x)'
  BY <1>2 DEF Parts, CreationOK
<1>19. ASSUME NEW x \in Clients PROVE StreamOK(x)'
  BY <1>2 DEF Parts, StreamOK
<1>20. ASSUME NEW x \in Clients PROVE TopicOK(x)'
  <2>1. TopicOK(x) /\ TopicOK(c)
    BY DEF Parts
  <2> QED BY <1>2, <1>3, <1>10, <1>11, <2>1, TportAssumption DEF TopicOK
<1>21. ASSUME NEW x \in Clients PROVE ReadyOK(x)'
  <2>1. ReadyOK(x)
    BY DEF Parts
  <2> QED BY <1>2, <1>3, <1>4, <1>7, <1>8, <1>9, <1>10, <1>11, <1>12, <2>1, TportAssumption DEF ReadyOK
<1>22. ASSUME NEW x \in Clients PROVE EventOK(x)'
  <2>1. EventOK(x) /\ CreationOK(x)
    BY DEF Parts
  <2>2. StreamOf(x)' = StreamOf(x)
    BY <1>2 DEF StreamOf
  <2>3. CASE x = c
    BY <1>2, <1>3, <1>4, <1>10, <1>11, <2>1, <2>3, EventFacts, TportAssumption DEF EventOK, e
  <2>4. CASE x # c
    <3>1. \A k : Pending(Event(k, x))' <=> Pending(Event(k, x))
      BY <1>4, <2>4, EventFacts DEF e
    <3>2. \A u \in Threads : at[u] = "empty" /\ IsHead(u, Event("remove", x)) =>
             at'[u] = "empty" /\ IsHead(u, Event("remove", x))'
      BY <1>4, <1>5
    <3> QED BY <1>2, <1>10, <1>11, <1>12, <2>1, <2>2, <2>4, <3>1, <3>2 DEF EventOK
  <2> QED BY <2>3, <2>4
<1>23. ASSUME NEW x \in Clients PROVE OrderOK(x)'
  <2>1. OrderOK(x)
    BY DEF Parts
  <2>2. \A d \in Clients : StreamOf(d)' = StreamOf(d)
    BY <1>2 DEF StreamOf
  <2> QED BY <1>2, <1>3, <1>4, <1>7, <1>10, <1>11, <2>1, <2>2, EventFacts, TportAssumption DEF OrderOK, e
<1>24. ASSUME NEW x \in Clients PROVE HolderOK(x)'
  <2>1. HolderOK(x)
    BY DEF Parts
  <2>2. Emptying(x)' <=> Emptying(x)
    BY <1>2, <1>4, <1>5, SameEmptying
  <2>3. \A y, z \in Clients : Holds(y, z)' <=> Holds(y, z)
    BY <1>2, <1>3, <1>10, <1>11, TportAssumption DEF Holds
  <2>4. \A k \in {"first", "second"} : Pending(Event(k, x))' <=> Pending(Event(k, x))
    BY <1>4, EventFacts DEF e
  <2>5. \A y \in Clients : Pending(Event("remove", y))' <=> Pending(Event("remove", y))
    BY <1>4, EventFacts DEF e
  <2> QED BY <1>2, <2>1, <2>2, <2>3, <2>4, <2>5 DEF HolderOK
<1>25. ASSUME NEW x \in Clients PROVE RefCountOK(x)'
  <2>1. RefCountOK(x)
    BY DEF Parts
  <2>2. CASE x # s
    <3>1. Waiting(x)' = Waiting(x) /\ Early(x)' = Early(x)
      BY <1>2, <1>11, <2>2 DEF Waiting, Early
    <3> QED BY <1>2, <1>11, <2>1, <2>2, <3>1 DEF RefCountOK
  <2>3. CASE x = s
    <3>1. PICK T, W, E, n : T = mTopics[s] /\ W = Waiting(s) /\ E = Early(s)
                            /\ n = (IF topic = c THEN 1 ELSE 0)
      OBVIOUS
    <3>2. T \in SUBSET Clients /\ W \in SUBSET Clients /\ E \in SUBSET Clients
      BY <1>1, <3>1 DEF Types, Waiting, Early
    <3>3. Cardinality(T \cup {topic}) = Cardinality(T) + n
      <4>1. CASE topic = c
        BY <1>10, <3>1, <3>2, <4>1, Cards
      <4>2. CASE topic # c
        <5>1. T \cup {topic} = T
          BY <1>10, <3>1, <4>2
        <5>2. PICK card \in Nat : card = Cardinality(T)
          BY <3>2, Cards
        <5>3. card = card + n
          BY <3>1, <4>2
        <5> QED BY <5>1, <5>2, <5>3
      <4> QED BY <4>1, <4>2
    <3>4. pc[c] \in {"set", "created"}
      BY <1>1, <1>3, TportAssumption DEF Parts, CreationOK, Types
    <3>5. mRefCount[s] = Cardinality(T) + Cardinality(W) - Cardinality(E)
      BY <2>1, <2>3, <3>1 DEF RefCountOK
    <3>6. mTopics'[s] = T \cup {topic} /\ mRefCount'[s] = mRefCount[s] + n - 1
      BY <1>11, <3>1
    <3>7. n \in Int /\ Cardinality(T) \in Int /\ Cardinality(W) \in Int /\ Cardinality(E) \in Int
      BY <3>1, <3>2, Cards
    <3>8. CASE pc[c] = "created"
      <4>1. Waiting(s)' = W \ {c} /\ c \in W /\ Early(s)' = E
        BY <1>2, <1>3, <1>10, <1>11, <3>1, <3>8, TportAssumption DEF Waiting, Early
      <4>2. Cardinality(W \ {c}) = Cardinality(W) - 1
        BY <3>2, <4>1, Cards
      <4>3. mRefCount'[s] = Cardinality(T \cup {topic}) + Cardinality(W \ {c}) - Cardinality(E)
        BY <3>3, <3>5, <3>6, <3>7, <4>2
      <4> QED BY <2>3, <3>6, <4>1, <4>3 DEF RefCountOK
    <3>9. CASE pc[c] = "set"
      <4>1. Early(s)' = E \cup {c} /\ c \notin E /\ Waiting(s)' = W
        BY <1>2, <1>3, <1>10, <1>11, <3>1, <3>9, TportAssumption DEF Waiting, Early
      <4>2. Cardinality(E \cup {c}) = Cardinality(E) + 1
        BY <3>2, <4>1, Cards
      <4>3. mRefCount'[s] = Cardinality(T \cup {topic}) + Cardinality(W) - Cardinality(E \cup {c})
        BY <3>3, <3>5, <3>6, <3>7, <4>2
      <4> QED BY <2>3, <3>6, <4>1, <4>3 DEF RefCountOK
    <3> QED BY <3>4, <3>8, <3>9
  <2> QED BY <2>2, <2>3
<1>26. ASSUME NEW x \in Clients PROVE ClientRefsOK(x)'
  <2>1. ClientRefsOK(x)
    BY DEF Parts
  <2>2. RemoveDone(x)' <=> RemoveDone(x)
    BY <1>3, <1>4, <1>10, <1>11, EventFacts, TportAssumption DEF RemoveDone, e
  <2>3. CASE clientRefs'[x] = clientRefs[x] /\ userQueue'[x] = userQueue[x]
    BY <1>2, <2>1, <2>2, <2>3 DEF ClientRefsOK
  <2>4. CASE clientRefs'[x] = clientRefs[x] + 1 /\ userQueue'[x] = Append(userQueue[x], "ready")
    <3>1. userQueue[x] \in Seq({"ready", "message"})
      BY <1>1 DEF Types
    <3>2. Len(userQueue'[x]) = Len(userQueue[x]) + 1 /\ Len(userQueue[x]) \in Nat
      BY <2>4, <3>1
    <3>3. x = c
      BY <1>1, <1>12, <2>4 DEF Types
    <3>4. ~RemoveDone(x)
      BY <1>3, <3>3 DEF RemoveDone
    <3>5. clientRefs[x] = Len(userQueue[x]) + 1
      BY <2>1, <3>4 DEF ClientRefsOK
    <3>6. clientRefs'[x] = Len(userQueue'[x]) + 1 /\ clientRefs'[x] # 0 /\ clientRefs[x] # 0
      BY <2>4, <3>2, <3>5
    <3> QED BY <1>2, <2>1, <2>2, <3>4, <3>6 DEF ClientRefsOK
  <2> QED BY <1>12, <2>3, <2>4
<1>27. ASSUME NEW x \in Clients PROVE UserQueueOK(x)'
  <2>1. UserQueueOK(x) /\ ReadyOK(x)
    BY DEF Parts
  <2>2. CASE x # c
    BY <1>2, <1>12, <2>1, <2>2 DEF UserQueueOK
  <2>3. CASE x = c
    <3>1. userQueue[c] = << >> /\ called[c] = {}
      BY <1>3, <2>1, <2>3 DEF UserQueueOK
    <3>2. \/ userQueue'[c] = << >> /\ (c \in Notified /\ c \in mReady' => c \in mDestroyed)
          \/ c \in mReady' /\ userQueue'[c] # << >> /\ Head(userQueue'[c]) = "ready"
      BY <1>3, <1>12, <3>1
    <3> QED BY <1>2, <2>3, <3>1, <3>2 DEF UserQueueOK
  <2> QED BY <2>2, <2>3
<1>28. ASSUME NEW u \in Threads PROVE AtOK(u)'
  <2>1. AtOK(u)
    BY DEF Parts
  <2>2. CASE u = t
    BY <1>5, <2>2 DEF AtOK
  <2>3. CASE u # t
    BY <1>2, <1>3, <1>4, <1>5, <1>10, <1>12, <2>1, <2>3 DEF AtOK
  <2> QED BY <2>2, <2>3
<1> QED BY <1>4, <1>13, <1>14, <1>15, <1>16, <1>17, <1>18, <1>19, <1>20, <1>21, <1>22, <1>23,
           <1>24, <1>25, <1>26, <1>27, <1>28 DEF Parts

\* sbfPubAddEventCb and sbfSubAddEventCb put a client on the list of its topic.
LEMMA AddEventStep ==
  ASSUME Parts, NEW t \in Threads, AddEvent(t)
  PROVE  Parts'
<1>1. PICK c, s : c = Of(t) /\ s = mTportStream[c]
  OBVIOUS
<1>2. c \in Clients /\ IsHead(t, Event("add", c)) /\ EnsureStream(c)
  BY <1>1, Running DEF AddEvent, Parts, Types
<1>3. s \in Clients
  BY <1>1, <1>2, Running2 DEF ClientKinds
<1>4. mStreamReady' = mStreamReady \cup (IF "add" = "complete" THEN {s} ELSE {})
  BY DEF AddEvent
<1>5. BecomeReady(IF s \in mStreamReady' THEN {c} ELSE {})
  BY <1>1 DEF AddEvent
<1>6. at[t] = "loop" /\ AddToTopic(c, s) /\ Return(t)
  BY <1>1 DEF AddEvent, Fired
<1>7. UNCHANGED <<mTopic, tportVars, mThread, failed, freedStreams,
                  mTportStream, mDestroyed, mRemoved, freedClients, pc, called>>
  BY DEF AddEvent
<1> QED BY <1>1, <1>2, <1>3, <1>4, <1>5, <1>6, <1>7, Adds

\* sbfPubAddStreamCompleteCb makes the stream ready, and the client that added it.
LEMMA AddStreamCompleteStep ==
  ASSUME Parts, NEW t \in Threads, AddStreamComplete(t)
  PROVE  Parts'
<1>1. PICK c, s : c = Of(t) /\ s = mTportStream[c]
  OBVIOUS
<1>2. c \in Clients /\ IsHead(t, Event("complete", c)) /\ EnsureStream(c)
  BY <1>1, Running DEF AddStreamComplete, Parts, Types
<1>3. s \in Clients /\ s = c /\ Pending(Event("complete", c))
  BY <1>1, <1>2, Running2 DEF ClientKinds
<1>4. mStreamReady' = mStreamReady \cup (IF "complete" = "complete" THEN {s} ELSE {})
  BY <1>1 DEF AddStreamComplete
<1>5. \A x \in listed : mTportStream[x] # s
  <2>1. \A x \in Clients : mTportStream[x] = s => mTportTopic[x] = NULL
    BY <1>2, <1>3 DEF Parts, OrderOK
  <2> QED BY <2>1 DEF Parts, Types, TopicOK
<1>6. {c} \cup {x \in listed \cap SameKind(c) : mTportStream[x] = s}
        = IF s \in mStreamReady' THEN {c} ELSE {}
  BY <1>4, <1>5
<1>7. BecomeReady(IF s \in mStreamReady' THEN {c} ELSE {})
  BY <1>1, <1>6 DEF AddStreamComplete
<1>8. at[t] = "loop" /\ AddToTopic(c, s) /\ Return(t)
  BY <1>1 DEF AddStreamComplete, Fired
<1>9. UNCHANGED <<mTopic, tportVars, mThread, failed, freedStreams,
                  mTportStream, mDestroyed, mRemoved, freedClients, pc, called>>
  BY DEF AddStreamComplete
<1> QED BY <1>1, <1>2, <1>3, <1>4, <1>7, <1>8, <1>9, Adds

\* ... or finds that the stream could not be added.
LEMMA AddStreamFailsStep ==
  ASSUME Parts, NEW t \in Threads, AddStreamFails(t)
  PROVE  Parts'
<1>1. PICK c : c = Of(t)
  OBVIOUS
<1>2. c \in Clients /\ IsHead(t, Event("complete", c)) /\ EnsureStream(c) /\ Types
      /\ events \in Queues /\ OnceIn(events) /\ at[t] = "loop" /\ Return(t)
  BY <1>1, Running DEF AddStreamFails, Fired, Parts, Types
<1>3. mTportStream[c] = c /\ StreamOf(c) = c /\ pc[c] # "none" /\ Pending(Event("complete", c))
      /\ mTportTopic[c] = NULL
  BY <1>2, Running2 DEF ClientKinds
<1>4. /\ failed' = failed \cup {c}
      /\ mStreams' = mStreams /\ mStreamsLock' = mStreamsLock /\ mWeights' = mWeights
      /\ mStreamsWaiting' = mStreamsWaiting /\ tpc' = tpc /\ handle' = handle
      /\ mThread' = mThread /\ mRefCount' = mRefCount /\ mStreamReady' = mStreamReady
      /\ mTopics' = mTopics /\ freedStreams' = freedStreams
      /\ mTopic' = mTopic /\ mTportStream' = mTportStream /\ mTportTopic' = mTportTopic
      /\ mReady' = mReady /\ mDestroyed' = mDestroyed /\ mRemoved' = mRemoved
      /\ listed' = listed /\ clientRefs' = clientRefs /\ freedClients' = freedClients /\ pc' = pc
      /\ userQueue' = userQueue /\ called' = called
  BY <1>1, <1>3 DEF AddStreamFails, tportVars, clientVars, queueVars
<1> DEFINE e == Event("complete", c)
<1>5. /\ events' \in Queues /\ OnceIn(events)'
      /\ \A u \in Threads : \A f : On(u, f)' <=> On(u, f) /\ f # e
      /\ \A f : Pending(f)' <=> Pending(f) /\ f # e
      /\ \A f, g : Before(f, g)' <=> Before(f, g) /\ f # e
      /\ \A u \in Threads : \A f : u # t /\ IsHead(u, f) => IsHead(u, f)'
  BY <1>2, Returns
<1>6. /\ at'[t] = "loop" /\ \A u \in Threads : u # t => at'[u] = at[u] /\ cursor'[u] = cursor[u]
      /\ cursor'[t] = NULL
  BY <1>2 DEF Return, Types
<1> HIDE DEF e
<1>7. \A x \in Clients : StreamOf(x)' = StreamOf(x)
  BY <1>4 DEF StreamOf
<1>8. \A y, z \in Clients : Holds(y, z)' <=> Holds(y, z)
  BY <1>4 DEF Holds
<1>9. \A x \in Clients, k \in EventKinds : k # "complete" =>
        (Pending(Event(k, x))' <=> Pending(Event(k, x)))
  BY <1>5, EventFacts DEF e
<1>10. \A x \in Clients : Emptying(x)' <=> Emptying(x)
  BY <1>2, <1>4, <1>5, <1>6, SameEmptying
<1>13. Types'
  <2>4. at' \in [Threads -> {"loop", "empty", "walk"}]
    BY <1>2 DEF Types, Return
  <2>5. cursor' \in [Threads -> Clients \cup {NULL}]
    BY <1>2 DEF Types, Return
  <2> QED BY <1>2, <1>4, <1>5, <2>4, <2>5 DEF Types
<1>14. ListOK'
  BY <1>4 DEF Parts, ListOK
<1>15. ThreadOK'
  BY <1>4, <1>5, <1>7 DEF Parts, ThreadOK
<1>16. WaitingOK'
  <2>1. Awaited' = Awaited
    BY <1>9 DEF Awaited, EventKinds
  <2> QED BY <1>4, <2>1 DEF Parts, WaitingOK
<1>17. WeightsOK'
  BY <1>4 DEF Parts, WeightsOK, Holds
<1>18. ASSUME NEW x \in Clients PROVE CreationOK(x)'
  BY <1>4 DEF Parts, CreationOK
<1>19. ASSUME NEW x \in Clients PROVE StreamOK(x)'
  BY <1>4 DEF Parts, StreamOK
<1>20. ASSUME NEW x \in Clients PROVE TopicOK(x)'
  BY <1>4 DEF Parts, TopicOK
<1>21. ASSUME NEW x \in Clients PROVE ReadyOK(x)'
  BY <1>3, <1>4, <1>5 DEF Parts, ReadyOK, e
<1>22. ASSUME NEW x \in Clients PROVE EventOK(x)'
  <2>1. EventOK(x)
    BY DEF Parts
  <2>2. \A u \in Threads : at[u] = "empty" /\ IsHead(u, Event("remove", x)) =>
           at'[u] = "empty" /\ IsHead(u, Event("remove", x))'
    BY <1>2, <1>5, <1>6
  <2>3. /\ Pending(Event("add", x))' <=> Pending(Event("add", x))
        /\ Pending(Event("remove", x))' <=> Pending(Event("remove", x))
        /\ Pending(Event("complete", x))' <=> Pending(Event("complete", x)) /\ x # c
    BY <1>5, EventFacts DEF e
  <2> QED BY <1>4, <1>7, <2>1, <2>2, <2>3 DEF EventOK
<1>23. ASSUME NEW x \in Clients PROVE OrderOK(x)'
  <2>1. OrderOK(x)
    BY DEF Parts
  <2> QED BY <1>2, <1>4, <1>5, <1>7, <2>1, EventFacts DEF OrderOK, e
<1>24. ASSUME NEW x \in Clients PROVE HolderOK(x)'
  <2>1. HolderOK(x)
    BY DEF Parts
  <2> QED BY <1>4, <1>8, <1>9, <1>10, <2>1 DEF HolderOK, EventKinds
<1>25. ASSUME NEW x \in Clients PROVE RefCountOK(x)'
  BY <1>4 DEF Parts, RefCountOK, Waiting, Early
<1>26. ASSUME NEW x \in Clients PROVE ClientRefsOK(x)'
  <2>1. RemoveDone(x)' <=> RemoveDone(x)
    BY <1>4, <1>9 DEF RemoveDone, EventKinds
  <2> QED BY <1>4, <2>1 DEF Parts, ClientRefsOK
<1>27. ASSUME NEW x \in Clients PROVE UserQueueOK(x)'
  BY <1>4 DEF Parts, UserQueueOK
<1>28. ASSUME NEW u \in Threads PROVE AtOK(u)'
  <2>1. AtOK(u)
    BY DEF Parts
  <2>2. CASE u = t
    BY <1>6, <2>2 DEF AtOK
  <2>3. CASE u # t
    BY <1>4, <1>5, <1>6, <2>1, <2>3 DEF AtOK
  <2> QED BY <2>2, <2>3
<1> QED BY <1>5, <1>13, <1>14, <1>15, <1>16, <1>17, <1>18, <1>19, <1>20, <1>21, <1>22, <1>23,
           <1>24, <1>25, <1>26, <1>27, <1>28 DEF Parts

\* A stream is added at the end of the list.
LEMMA AppendList ==
  ASSUME NEW list \in Seq(Clients), Distinct(list), NEW c \in Clients, ~Has(list, c)
  PROVE  /\ Append(list, c) \in Seq(Clients) /\ Distinct(Append(list, c))
         /\ \A x : Has(Append(list, c), x) <=> Has(list, x) \/ x = c
         /\ \A a, b : UpTo(list, a, b) => UpTo(Append(list, c), a, b)
<1>1. PICK n, more : n = Len(list) /\ more = Append(list, c)
  OBVIOUS
<1>2. /\ n \in Nat /\ more \in Seq(Clients) /\ Len(more) = n + 1 /\ more[n + 1] = c
      /\ \A k \in 1..n : more[k] = list[k] /\ k \in 1..Len(more)
      /\ \A k \in 1..Len(more) : k \in 1..n \/ k = n + 1
      /\ n + 1 \in 1..Len(more)
  BY <1>1
<1>3. Distinct(more)
  BY <1>1, <1>2 DEF Distinct, Has
<1>4. \A x : Has(more, x) <=> Has(list, x) \/ x = c
  BY <1>1, <1>2 DEF Has
<1>5. ASSUME NEW a, NEW b, UpTo(list, a, b) PROVE UpTo(more, a, b)
  BY <1>1, <1>2, <1>5 DEF UpTo
<1> QED BY <1>1, <1>2, <1>3, <1>4, <1>5

\* sbfPub_destroy queues the remove event of a client.
LEMMA DestroyStep ==
  ASSUME Parts, NEW c \in Clients, Destroy(c)
  PROVE  Parts'
<1>1. Types /\ events \in Queues /\ OnceIn(events)
  BY DEF Parts, Types
<1>2. CreationOK(c) /\ EventOK(c) /\ StreamOK(c) /\ TopicOK(c)
  BY DEF Parts
<1>3. PICK s, u : s = mTportStream[c] /\ u = mThread[s]
  OBVIOUS
<1>4. /\ s \in Clients /\ u \in Threads /\ StreamOf(c) = s /\ pc[c] = "created" /\ tpc = "open"
      /\ c \notin mDestroyed /\ c \notin mRemoved /\ ~Pending(Event("remove", c))
      /\ mTportTopic[c] # NULL => c \in listed
  BY <1>1, <1>2, <1>3 DEF Destroy, CreationOK, EventOK, Types, StreamOf
<1>5. /\ mDestroyed' = mDestroyed \cup {c}
      /\ failed' = failed
      /\ mStreams' = mStreams /\ mStreamsLock' = mStreamsLock /\ mWeights' = mWeights
      /\ mStreamsWaiting' = mStreamsWaiting /\ tpc' = tpc /\ handle' = handle
      /\ mThread' = mThread /\ mRefCount' = mRefCount /\ mStreamReady' = mStreamReady
      /\ mTopics' = mTopics /\ freedStreams' = freedStreams
      /\ mTopic' = mTopic /\ mTportStream' = mTportStream /\ mTportTopic' = mTportTopic
      /\ mReady' = mReady /\ mRemoved' = mRemoved
      /\ listed' = listed /\ clientRefs' = clientRefs /\ freedClients' = freedClients /\ pc' = pc
      /\ userQueue' = userQueue /\ called' = called /\ at' = at /\ cursor' = cursor
  BY DEF Destroy, tportVars, streamVars, queueVars
<1> DEFINE e == Event("remove", c)
<1>6. e \in Callbacks /\ events' = [events EXCEPT ![u] = Append(@, e)]
  BY <1>3, EventFacts DEF Destroy, Event, EventKinds
<1>7. /\ events' \in Queues /\ OnceIn(events)'
      /\ \A v \in Threads : \A f : On(v, f)' <=> On(v, f) \/ (v = u /\ f = e)
      /\ \A f : Pending(f)' <=> Pending(f) \/ f = e
      /\ \A f, g : Before(f, g)' <=> Before(f, g) \/ (g = e /\ On(u, f))
      /\ \A v \in Threads : \A f : IsHead(v, f) => IsHead(v, f)'
  BY <1>1, <1>4, <1>6, Queues1
<1> HIDE DEF e
<1>8. \A x \in Clients : StreamOf(x)' = StreamOf(x)
  BY <1>5 DEF StreamOf
<1>9. \A y, z \in Clients : Holds(y, z)' <=> Holds(y, z)
  BY <1>5 DEF Holds
<1>10. /\ \A x \in Clients, k \in EventKinds : k # "remove" =>
             (Pending(Event(k, x))' <=> Pending(Event(k, x)))
       /\ \A x \in Clients : Pending(Event("remove", x))' <=> Pending(Event("remove", x)) \/ x = c
  BY <1>7, EventFacts DEF e
<1>11. \A x \in Clients : Emptying(x)' <=> Emptying(x)
  BY <1>5, <1>7, SameEmptying
<1>13. Types'
  BY <1>1, <1>5, <1>7 DEF Types
<1>14. ListOK'
  BY <1>5 DEF Parts, ListOK
<1>15. ThreadOK'
  BY <1>3, <1>4, <1>5, <1>7, <1>8, EventFacts, TportAssumption
     DEF Parts, ThreadOK, e, ClientKinds, DestroyKinds
<1>16. WaitingOK'
  <2>1. Awaited' = Awaited
    BY <1>10 DEF Awaited, EventKinds
  <2> QED BY <1>5, <2>1 DEF Parts, WaitingOK
<1>17. WeightsOK'
  BY <1>5 DEF Parts, WeightsOK, Holds
<1>18. ASSUME NEW x \in Clients PROVE CreationOK(x)'
  BY <1>5 DEF Parts, CreationOK
<1>19. ASSUME NEW x \in Clients PROVE StreamOK(x)'
  BY <1>5 DEF Parts, StreamOK
<1>20. ASSUME NEW x \in Clients PROVE TopicOK(x)'
  BY <1>5 DEF Parts, TopicOK
<1>21. ASSUME NEW x \in Clients PROVE ReadyOK(x)'
  BY <1>5, <1>10 DEF Parts, ReadyOK, EventKinds
<1>22. ASSUME NEW x \in Clients PROVE EventOK(x)'
  <2>1. EventOK(x)
    BY DEF Parts
  <2> QED BY <1>4, <1>5, <1>7, <1>8, <1>10, <2>1 DEF EventOK, EventKinds
<1>23. ASSUME NEW x \in Clients PROVE OrderOK(x)'
  <2>1. OrderOK(x) /\ EventOK(x)
    BY DEF Parts
  <2>2. StreamOf(c) = x /\ Pending(Event("complete", x)) => On(u, Event("complete", x))
    BY <1>3, <1>4, <2>1 DEF Parts, ThreadOK, EventOK, Pending, ClientKinds
  <2>3. Pending(Event("add", c)) => On(u, Event("add", c))
    BY <1>3, <1>4 DEF Parts, ThreadOK, Pending, ClientKinds
  <2> QED BY <1>4, <1>5, <1>7, <1>8, <1>10, <2>1, <2>2, <2>3, EventFacts DEF OrderOK, e, EventKinds
<1>24. ASSUME NEW x \in Clients PROVE HolderOK(x)'
  <2>1. HolderOK(x)
    BY DEF Parts
  <2> QED BY <1>5, <1>9, <1>10, <1>11, <2>1 DEF HolderOK, EventKinds
<1>25. ASSUME NEW x \in Clients PROVE RefCountOK(x)'
  BY <1>5 DEF Parts, RefCountOK, Waiting, Early
<1>26. ASSUME NEW x \in Clients PROVE ClientRefsOK(x)'
  <2>1. RemoveDone(x)' <=> RemoveDone(x)
    BY <1>4, <1>5, <1>10 DEF RemoveDone, EventKinds
  <2> QED BY <1>5, <2>1 DEF Parts, ClientRefsOK
<1>27. ASSUME NEW x \in Clients PROVE UserQueueOK(x)'
  BY <1>5 DEF Parts, UserQueueOK
<1>28. ASSUME NEW v \in Threads PROVE AtOK(v)'
  <2>1. AtOK(v)
    BY DEF Parts
  <2> QED BY <1>5, <1>7, <2>1 DEF AtOK
<1> QED BY <1>7, <1>13, <1>14, <1>15, <1>16, <1>17, <1>18, <1>19, <1>20, <1>21, <1>22, <1>23,
           <1>24, <1>25, <1>26, <1>27, <1>28 DEF Parts

\* The creation of a client stores its stream.
LEMMA StoreStreamStep ==
  ASSUME Parts, NEW c \in Clients, StoreStream(c)
  PROVE  Parts'
<1>1. Types /\ events \in Queues /\ OnceIn(events)
  BY DEF Parts, Types
<1>2. CreationOK(c) /\ EventOK(c) /\ StreamOK(c) /\ TopicOK(c) /\ ReadyOK(c)
  BY DEF Parts
<1>3. PICK s : s = handle[Key[c]]
  OBVIOUS
<1>4. /\ pc[c] = "placed" /\ mTportStream[c] = NULL /\ mStreamsLock = c /\ tpc = "open"
      /\ s \in Clients /\ s # NULL /\ mTportTopic[c] = NULL /\ c \notin listed
      /\ c \notin mDestroyed /\ c \notin mRemoved /\ c \notin freedStreams /\ c \notin failed
      /\ \A y \in Clients : mTportStream[y] # c
  <2>1. \A y \in Clients : mTportStream[y] # c
    BY <1>2, TportAssumption DEF Parts, StreamOK, StoreStream, CreationOK
  <2>2. Key[c] \in Keys
    BY DEF Keys
  <2>3. s \in Clients /\ s # NULL
    BY <1>1, <1>2, <1>3, <2>2 DEF CreationOK, StoreStream, Types
  <2>4. pc[c] = "placed" /\ mTportStream[c] = NULL /\ mStreamsLock = c /\ tpc = "open"
    BY <1>2 DEF StoreStream, CreationOK
  <2>5. mTportTopic[c] = NULL /\ c \notin listed
    BY <1>2, <2>4 DEF TopicOK
  <2>6. c \notin mDestroyed /\ c \notin mRemoved
    BY <1>2, <2>4 DEF EventOK
  <2>7. c \notin freedStreams /\ c \notin failed
    BY <1>2, <2>1 DEF StreamOK, ReadyOK
  <2> QED BY <2>1, <2>3, <2>4, <2>5, <2>6, <2>7
<1>5. /\ mDestroyed' = mDestroyed
      /\ failed' = failed
      /\ mStreams' = mStreams /\ mStreamsLock' = mStreamsLock /\ mWeights' = mWeights
      /\ mStreamsWaiting' = mStreamsWaiting /\ tpc' = tpc /\ handle' = handle
      /\ mThread' = mThread /\ mRefCount' = mRefCount /\ mStreamReady' = mStreamReady
      /\ mTopics' = mTopics /\ freedStreams' = freedStreams
      /\ mTopic' = mTopic /\ mTportTopic' = mTportTopic
      /\ mReady' = mReady /\ mRemoved' = mRemoved /\ events' = events
      /\ listed' = listed /\ clientRefs' = clientRefs /\ freedClients' = freedClients
      /\ userQueue' = userQueue /\ called' = called /\ at' = at /\ cursor' = cursor
  BY DEF StoreStream, tportVars, streamVars, queueVars, threadVars
<1>6. /\ mTportStream'[c] = s /\ pc'[c] = "set"
      /\ \A x \in Clients : x # c => mTportStream'[x] = mTportStream[x] /\ pc'[x] = pc[x]
      /\ mTportStream' \in [Clients -> Clients \cup {NULL}]
      /\ pc' \in [Clients -> {"none", "placed", "set", "created"}]
  BY <1>1, <1>3, <1>4 DEF StoreStream, FindStream, Types
<1>7. \A x \in Clients : StreamOf(x)' = StreamOf(x)
  BY <1>3, <1>4, <1>5, <1>6 DEF StreamOf
<1>8. /\ \A t \in Threads : \A f : On(t, f)' <=> On(t, f)
      /\ \A f : Pending(f)' <=> Pending(f)
      /\ \A f, g : Before(f, g)' <=> Before(f, g)
      /\ \A t \in Threads : \A f : IsHead(t, f)' <=> IsHead(t, f)
  BY <1>5 DEF On, Pending, Before, IsHead
<1>9. /\ \A y, z \in Clients : Holds(y, z)' <=> Holds(y, z) \/ (y = c /\ z = s)
      /\ s \notin freedStreams
  <2>1. \A y, z \in Clients : Holds(y, z)' <=> Holds(y, z) \/ (y = c /\ z = s)
    BY <1>4, <1>5, <1>6 DEF Holds
  <2> QED BY <1>2, <1>3, <1>4, <2>1 DEF StreamOK
<1>10. \A x \in Clients : Emptying(x)' <=> Emptying(x)
  <2>1. \A x \in Clients : mTportStream[x] # NULL => mTportStream'[x] = mTportStream[x]
    BY <1>4, <1>6
  <2> QED BY <1>5, <1>8, <2>1, SameEmptying
<1>11. \A x \in Clients : pc[x] \in {"placed", "set"} => x = c
  BY <1>4 DEF Parts, CreationOK
<1>13. Types'
  BY <1>1, <1>5, <1>6 DEF Types
<1>14. ListOK'
  BY <1>5 DEF Parts, ListOK
<1>15. ThreadOK'
  BY <1>4, <1>5, <1>6, <1>7, <1>8 DEF Parts, ThreadOK
<1>16. WaitingOK'
  <2>1. Awaited' = Awaited
    BY <1>8 DEF Awaited
  <2> QED BY <1>5, <2>1 DEF Parts, WaitingOK
<1>17. WeightsOK'
  <2>1. \A t \in Threads : Weighed(t)' = Weighed(t)
    BY <1>4, <1>5, <1>6 DEF Weighed, Holds, Clients
  <2> QED BY <1>5, <2>1 DEF Parts, WeightsOK, Weighed
<1>18. ASSUME NEW x \in Clients PROVE CreationOK(x)'
  BY <1>2, <1>3, <1>4, <1>5, <1>6, <1>11 DEF Parts, CreationOK
<1>19. ASSUME NEW x \in Clients PROVE StreamOK(x)'
  <2>1. StreamOK(x) /\ StreamOK(c)
    BY DEF Parts
  <2>2. mTportStream'[s] = s
    BY <1>3, <1>4, <1>6, <1>11, <2>1 DEF StreamOK
  <2>3. CASE x = c
    BY <1>3, <1>4, <1>5, <1>6, <2>1, <2>2, <2>3 DEF StreamOK
  <2>4. CASE x # c
    <3>1. PICK z : z = handle[Key[x]]
      OBVIOUS
    <3>2. z # NULL => z \in Clients
      BY <1>1, <3>1 DEF Types, Keys
    <3>3. z # NULL => Key[z] = Key[x] /\ z \notin freedStreams /\ (pc'[z] = "placed" \/ mTportStream'[z] = z)
      BY <1>3, <1>4, <1>6, <1>11, <2>1, <2>2, <3>1, <3>2 DEF StreamOK
    <3>4. PICK y : y = mTportStream[x]
      OBVIOUS
    <3>5. y # NULL => Key[y] = Key[x] /\ mTportStream[y] = y /\ mTportStream'[y] = y
      BY <1>1, <1>4, <1>6, <2>1, <3>4 DEF StreamOK, Types
    <3> QED BY <1>5, <1>6, <2>1, <2>4, <3>1, <3>3, <3>4, <3>5 DEF StreamOK
  <2> QED BY <2>3, <2>4
<1>20. ASSUME NEW x \in Clients PROVE TopicOK(x)'
  <2>1. TopicOK(x)
    BY DEF Parts
  <2>2. mTportTopic[x] # NULL => mTportTopic[x] \in Clients
    BY <1>1 DEF Types
  <2>3. CASE x = c
    BY <1>4, <1>5, <1>6, <2>1, <2>3, TportAssumption DEF TopicOK
  <2>4. CASE x # c
    BY <1>4, <1>5, <1>6, <2>1, <2>2, <2>4 DEF TopicOK
  <2> QED BY <2>3, <2>4
<1>21. ASSUME NEW x \in Clients PROVE ReadyOK(x)'
  <2>1. ReadyOK(x)
    BY DEF Parts
  <2> QED BY <1>4, <1>5, <1>6, <1>8, <2>1 DEF ReadyOK
<1>22. ASSUME NEW x \in Clients PROVE EventOK(x)'
  <2>1. EventOK(x)
    BY DEF Parts
  <2> QED BY <1>4, <1>5, <1>6, <1>7, <1>8, <2>1 DEF EventOK
<1>23. ASSUME NEW x \in Clients PROVE OrderOK(x)'
  <2>1. OrderOK(x)
    BY DEF Parts
  <2> QED BY <1>4, <1>5, <1>6, <1>7, <1>8, <2>1 DEF OrderOK
<1>24. ASSUME NEW x \in Clients PROVE HolderOK(x)'
  <2>1. HolderOK(x)
    BY DEF Parts
  <2>2. ~Pending(Event("second", x))
    BY <1>4 DEF Parts, ThreadOK, Pending, DestroyKinds
  <2> QED BY <1>4, <1>5, <1>6, <1>8, <1>9, <1>10, <2>1, <2>2 DEF HolderOK
<1>25. ASSUME NEW x \in Clients PROVE RefCountOK(x)'
  <2>1. Waiting(x)' = Waiting(x) /\ Early(x)' = Early(x)
    BY <1>4, <1>5, <1>6 DEF Waiting, Early
  <2> QED BY <1>5, <2>1 DEF Parts, RefCountOK
<1>26. ASSUME NEW x \in Clients PROVE ClientRefsOK(x)'
  BY <1>5, <1>8 DEF Parts, ClientRefsOK, RemoveDone
<1>27. ASSUME NEW x \in Clients PROVE UserQueueOK(x)'
  BY <1>5 DEF Parts, UserQueueOK
<1>28. ASSUME NEW v \in Threads PROVE AtOK(v)'
  BY <1>5, <1>8 DEF Parts, AtOK
<1> QED BY <1>1, <1>5, <1>13, <1>14, <1>15, <1>16, <1>17, <1>18, <1>19, <1>20, <1>21, <1>22, <1>23,
           <1>24, <1>25, <1>26, <1>27, <1>28 DEF Parts

\* The creation of a client counts it on its stream and releases the lock.
LEMMA HoldStreamStep ==
  ASSUME Parts, NEW c \in Clients, HoldStream(c)
  PROVE  Parts'
<1>1. Types /\ events \in Queues /\ OnceIn(events)
  BY DEF Parts, Types
<1>2. CreationOK(c) /\ EventOK(c) /\ StreamOK(c) /\ TopicOK(c)
  BY DEF Parts
<1>3. PICK s, t : s = mTportStream[c] /\ t = mThread[s]
  OBVIOUS
<1>4. /\ pc[c] = "set" /\ s \in Clients /\ t \in Threads /\ mStreamsLock = c
      /\ c \notin mDestroyed
      /\ mTportTopic[c] # NULL => c \in listed
  BY <1>1, <1>2, <1>3 DEF HoldStream, CreationOK, EventOK, Types
<1>5. /\ mDestroyed' = mDestroyed
      /\ failed' = failed /\ mTportStream' = mTportStream
      /\ mStreams' = mStreams /\ mStreamsLock' = NULL
      /\ mStreamsWaiting' = mStreamsWaiting /\ tpc' = tpc /\ handle' = handle
      /\ mThread' = mThread /\ mStreamReady' = mStreamReady
      /\ mTopics' = mTopics /\ freedStreams' = freedStreams
      /\ mTopic' = mTopic /\ mTportTopic' = mTportTopic
      /\ mReady' = mReady /\ mRemoved' = mRemoved /\ events' = events
      /\ listed' = listed /\ clientRefs' = clientRefs /\ freedClients' = freedClients
      /\ userQueue' = userQueue /\ called' = called /\ at' = at /\ cursor' = cursor
  BY DEF HoldStream, queueVars, threadVars
<1>6. /\ pc'[c] = "created"
      /\ \A x \in Clients : x # c => pc'[x] = pc[x]
      /\ pc' \in [Clients -> {"none", "placed", "set", "created"}]
  BY <1>1 DEF HoldStream, Types
<1>7. /\ mRefCount'[s] = mRefCount[s] + 1
      /\ \A x \in Clients : x # s => mRefCount'[x] = mRefCount[x]
      /\ mRefCount' \in [Clients -> Int]
  BY <1>1, <1>3, <1>4 DEF HoldStream, IncrementStream, Types
<1>8. /\ mWeights'[t] = mWeights[t] + WeightOf(c)
      /\ \A u \in Threads : u # t => mWeights'[u] = mWeights[u]
      /\ mWeights' \in [Threads -> Int]
  BY <1>1, <1>3, <1>4, WeightNat DEF HoldStream, AdjustWeight, Types
<1>9. \A x \in Clients : StreamOf(x)' = StreamOf(x)
  BY <1>5 DEF StreamOf
<1>10. /\ \A u \in Threads : \A f : On(u, f)' <=> On(u, f)
       /\ \A f : Pending(f)' <=> Pending(f)
       /\ \A f, g : Before(f, g)' <=> Before(f, g)
       /\ \A u \in Threads : \A f : IsHead(u, f)' <=> IsHead(u, f)
  BY <1>5 DEF On, Pending, Before, IsHead
<1>11. \A y, z \in Clients : Holds(y, z)' <=> Holds(y, z)
  BY <1>4, <1>5, <1>6 DEF Holds
<1>12. \A x \in Clients : Emptying(x)' <=> Emptying(x)
  BY <1>5, <1>10, SameEmptying
<1>13. Types'
  BY <1>1, <1>5, <1>6, <1>7, <1>8 DEF Types
<1>14. ListOK'
  BY <1>5 DEF Parts, ListOK
<1>15. ThreadOK'
  BY <1>4, <1>5, <1>6, <1>9, <1>10 DEF Parts, ThreadOK
<1>16. WaitingOK'
  <2>1. Awaited' = Awaited
    BY <1>10 DEF Awaited
  <2> QED BY <1>5, <2>1 DEF Parts, WaitingOK
<1>17. ASSUME NEW u \in Threads PROVE mWeights'[u] = Sum(Weighed(u)')
  <2>1. mWeights[u] = Sum(Weighed(u))
    BY DEF Parts, WeightsOK, Weighed, Sum
  <2>2. PICK W : W = Weighed(u)
    OBVIOUS
  <2>3. W \in SUBSET Clients
    BY <2>2 DEF Weighed, Clients
  <2>4. CASE u = t /\ c \in Subs
    <3>1. Weighed(u)' = W \cup {c} /\ c \notin W
      BY <1>3, <1>4, <1>5, <1>6, <2>2, <2>4 DEF Weighed, Holds, Clients
    <3> QED BY <1>8, <2>1, <2>2, <2>3, <2>4, <3>1, SumFacts
  <2>5. CASE u # t \/ c \notin Subs
    <3>1. Weighed(u)' = W
      BY <1>3, <1>4, <1>5, <1>6, <2>2, <2>5 DEF Weighed, Holds, Clients
    <3>2. mWeights[u] \in Int /\ (u = t => WeightOf(c) = 0)
      BY <1>1, <2>5 DEF Types, WeightOf
    <3> QED BY <1>8, <2>1, <2>2, <3>1, <3>2
  <2> QED BY <2>4, <2>5
<1>18. ASSUME NEW x \in Clients PROVE CreationOK(x)'
  <2>1. CreationOK(x)
    BY DEF Parts
  <2> QED BY <1>4, <1>5, <1>6, <2>1, TportAssumption DEF CreationOK
<1>19. ASSUME NEW x \in Clients PROVE StreamOK(x)'
  <2>1. StreamOK(x)
    BY DEF Parts
  <2>2. handle[Key[x]] # NULL => handle[Key[x]] \in Clients
    BY <1>1 DEF Types, Keys
  <2> QED BY <1>4, <1>5, <1>6, <2>1, <2>2 DEF StreamOK
<1>20. ASSUME NEW x \in Clients PROVE TopicOK(x)'
  BY <1>5 DEF Parts, TopicOK
<1>21. ASSUME NEW x \in Clients PROVE ReadyOK(x)'
  BY <1>5, <1>10 DEF Parts, ReadyOK
<1>22. ASSUME NEW x \in Clients PROVE EventOK(x)'
  <2>1. EventOK(x)
    BY DEF Parts
  <2> QED BY <1>4, <1>5, <1>6, <1>9, <1>10, <2>1 DEF EventOK
<1>23. ASSUME NEW x \in Clients PROVE OrderOK(x)'
  <2>1. OrderOK(x)
    BY DEF Parts
  <2> QED BY <1>5, <1>9, <1>10, <2>1 DEF OrderOK
<1>24. ASSUME NEW x \in Clients PROVE HolderOK(x)'
  <2>1. HolderOK(x)
    BY DEF Parts
  <2> QED BY <1>5, <1>10, <1>11, <1>12, <2>1 DEF HolderOK
<1>25. ASSUME NEW x \in Clients PROVE RefCountOK(x)'
  <2>1. RefCountOK(x)
    BY DEF Parts
  <2>2. PICK T, W, E : T = mTopics[x] /\ W = Waiting(x) /\ E = Early(x)
    OBVIOUS
  <2>3. T \in SUBSET Clients /\ W \in SUBSET Clients /\ E \in SUBSET Clients
    BY <1>1, <2>2 DEF Types, Waiting, Early
  <2>4. Cardinality(T) \in Int /\ Cardinality(W) \in Int /\ Cardinality(E) \in Int
    BY <2>3, Cards
  <2>5. mRefCount[x] = Cardinality(T) + Cardinality(W) - Cardinality(E)
    BY <2>1, <2>2 DEF RefCountOK
  <2>6. CASE x # s
    <3>1. Waiting(x)' = W /\ Early(x)' = E
      BY <1>3, <1>4, <1>5, <1>6, <2>2, <2>6 DEF Waiting, Early
    <3> QED BY <1>5, <1>7, <2>2, <2>5, <2>6, <3>1 DEF RefCountOK
  <2>7. CASE x = s /\ mTportTopic[c] = NULL
    <3>1. Waiting(x)' = W \cup {c} /\ c \notin W /\ Early(x)' = E
      BY <1>3, <1>4, <1>5, <1>6, <2>2, <2>7 DEF Waiting, Early
    <3>2. Cardinality(W \cup {c}) = Cardinality(W) + 1
      BY <2>3, <3>1, Cards
    <3>3. mRefCount'[x] = Cardinality(T) + Cardinality(W \cup {c}) - Cardinality(E)
      BY <1>7, <2>4, <2>5, <2>7, <3>2
    <3> QED BY <1>5, <2>2, <3>1, <3>3 DEF RefCountOK
  <2>8. CASE x = s /\ mTportTopic[c] # NULL
    <3>1. Waiting(x)' = W /\ c \in E /\ Early(x)' = E \ {c}
      BY <1>3, <1>4, <1>5, <1>6, <2>2, <2>8 DEF Waiting, Early
    <3>2. Cardinality(E \ {c}) = Cardinality(E) - 1
      BY <2>3, <3>1, Cards
    <3>3. mRefCount'[x] = Cardinality(T) + Cardinality(W) - Cardinality(E \ {c})
      BY <1>7, <2>4, <2>5, <2>8, <3>2
    <3> QED BY <1>5, <2>2, <3>1, <3>3 DEF RefCountOK
  <2> QED BY <2>6, <2>7, <2>8
<1>26. ASSUME NEW x \in Clients PROVE ClientRefsOK(x)'
  BY <1>5, <1>10 DEF Parts, ClientRefsOK, RemoveDone
<1>27. ASSUME NEW x \in Clients PROVE UserQueueOK(x)'
  BY <1>5 DEF Parts, UserQueueOK
<1>28. ASSUME NEW v \in Threads PROVE AtOK(v)'
  BY <1>5, <1>10 DEF Parts, AtOK
<1>29. WeightsOK'
  BY <1>17 DEF WeightsOK, Weighed, Sum
<1> QED BY <1>1, <1>5, <1>13, <1>14, <1>15, <1>16, <1>18, <1>19, <1>20, <1>21, <1>22, <1>23,
           <1>24, <1>25, <1>26, <1>27, <1>28, <1>29 DEF Parts

\* Client c is placed on stream s, whose thread is u, and its first event queued.
Placing(c, s, u, kind) ==
  /\ s \in Clients /\ u \in Threads /\ kind \in {"add", "complete"}
  /\ events' = [events EXCEPT ![u] = Append(@, Event(kind, c))]
  /\ mThread' \in [Clients -> Threads] /\ mThread'[s] = u
  /\ handle' \in [Keys -> Clients \cup {NULL}]
  /\ handle'[Key[c]] = s
  /\ \A k \in Keys : k # Key[c] => handle'[k] = handle[k]
  /\ \A x \in Clients : x # c => mThread'[x] = mThread[x]
  /\ kind = "add" => s # c /\ handle[Key[c]] = s /\ mStreams' = mStreams
                     /\ mThread'[c] = mThread[c]
  /\ kind = "complete" => s = c /\ handle[Key[c]] = NULL /\ mStreams' = Append(mStreams, c)

\* A client is placed on the stream that is found, or adds one.
LEMMA SetStreamStep ==
  ASSUME Parts, NEW c \in Clients, SetStream(c)
  PROVE  Parts'
<1>1. Types /\ events \in Queues /\ OnceIn(events)
  BY DEF Parts, Types
<1>2. CreationOK(c) /\ EventOK(c) /\ StreamOK(c) /\ TopicOK(c) /\ ReadyOK(c)
  BY DEF Parts
<1>3. /\ pc[c] = "none" /\ tpc = "open" /\ mStreamsLock = NULL /\ mTportStream[c] = NULL
      /\ mTportTopic[c] = NULL /\ c \notin listed
      /\ c \notin mDestroyed /\ c \notin mRemoved /\ c \notin freedStreams /\ c \notin failed
      /\ \A k \in ClientKinds : ~Pending(Event(k, c))
      /\ \A y \in Clients : pc[y] \notin {"placed", "set"} /\ mTportStream[y] # c
  <2>1. pc[c] = "none" /\ tpc = "open" /\ mStreamsLock = NULL
    BY DEF SetStream, LockFree
  <2>2. mTportStream[c] = NULL
    BY <1>2, <2>1 DEF CreationOK
  <2>3. mTportTopic[c] = NULL /\ c \notin listed
    BY <1>2, <2>2 DEF TopicOK
  <2>4. c \notin mDestroyed /\ c \notin mRemoved /\ \A k \in ClientKinds : ~Pending(Event(k, c))
    BY <1>2, <2>1 DEF EventOK, ClientKinds
  <2>5. c \notin freedStreams /\ c \notin failed
    BY <1>2, <2>2, TportAssumption DEF StreamOK, ReadyOK
  <2>6. \A y \in Clients : pc[y] \notin {"placed", "set"} /\ mTportStream[y] # c
    BY <2>1, <2>2, TportAssumption DEF Parts, CreationOK, StreamOK
  <2> QED BY <2>1, <2>2, <2>3, <2>4, <2>5, <2>6
<1>4. /\ mStreamsLock' = c /\ mWeights' = mWeights
      /\ mStreamsWaiting' = mStreamsWaiting /\ tpc' = tpc
      /\ mRefCount' = mRefCount /\ mStreamReady' = mStreamReady
      /\ mTopics' = mTopics /\ freedStreams' = freedStreams /\ failed' = failed
      /\ mTopic' = mTopic /\ mTportStream' = mTportStream /\ mTportTopic' = mTportTopic
      /\ mReady' = mReady /\ mRemoved' = mRemoved /\ mDestroyed' = mDestroyed
      /\ listed' = listed /\ clientRefs' = clientRefs /\ freedClients' = freedClients
      /\ userQueue' = userQueue /\ called' = called /\ at' = at /\ cursor' = cursor
  BY DEF SetStream, queueVars
<1>5. /\ pc'[c] = "placed"
      /\ \A x \in Clients : x # c => pc'[x] = pc[x]
      /\ pc' \in [Clients -> {"none", "placed", "set", "created"}]
  BY <1>1 DEF SetStream, Types
<1>60. PICK s, u, kind : Placing(c, s, u, kind)
  <2>1. Key[c] \in Keys
    BY DEF Keys
  <2>2. CASE handle[Key[c]] # NULL
    <3>1. PICK s : s = handle[Key[c]]
      OBVIOUS
    <3>2. s \in Clients /\ s # NULL
      BY <1>1, <2>1, <2>2, <3>1 DEF Types
    <3>3. s # c
      BY <1>2, <1>3, <3>1, <3>2 DEF StreamOK
    <3>4. UNCHANGED <<mStreams, handle, mThread>>
          /\ events' = [events EXCEPT ![mThread[s]] = Append(@, Event("add", c))]
      BY <2>2, <3>1 DEF SetStream, FindStream, JoinStream, Event
    <3>5. PICK u : u = mThread[s]
      OBVIOUS
    <3>6. u \in Threads /\ mThread \in [Clients -> Threads] /\ handle \in [Keys -> Clients \cup {NULL}]
      BY <1>1, <3>2, <3>5 DEF Types
    <3>7. mThread' = mThread /\ handle' = handle /\ mStreams' = mStreams
      BY <3>4
    <3>8. events' = [events EXCEPT ![u] = Append(@, Event("add", c))]
      BY <3>4, <3>5
    <3>9. /\ mThread' \in [Clients -> Threads] /\ mThread'[s] = u
          /\ handle' \in [Keys -> Clients \cup {NULL}]
          /\ handle'[Key[c]] = s
          /\ \A k \in Keys : k # Key[c] => handle'[k] = handle[k]
          /\ \A x \in Clients : x # c => mThread'[x] = mThread[x]
      BY <3>1, <3>5, <3>6, <3>7
    <3>10. Placing(c, s, u, "add")
      BY <3>1, <3>2, <3>3, <3>6, <3>7, <3>8, <3>9 DEF Placing
    <3> QED BY <3>10
  <2>3. CASE handle[Key[c]] = NULL
    <3>1. PICK u : u = NextThread
      OBVIOUS
    <3>2. u \in Threads
      BY <1>1, <3>1, NextThreadIn DEF Types
    <3>3. /\ mThread' = [mThread EXCEPT ![c] = u]
          /\ handle' = [handle EXCEPT ![Key[c]] = c]
          /\ events' = [events EXCEPT ![u] = Append(@, Event("complete", c))]
          /\ mStreams' = Append(mStreams, c)
      BY <2>3, <3>1 DEF SetStream, FindStream, AddStream, HandlerAddStream, Event
    <3>4. Placing(c, c, u, "complete")
      BY <1>1, <2>1, <2>3, <3>2, <3>3 DEF Types, Placing
    <3> QED BY <3>4
  <2> QED BY <2>2, <2>3
<1>6. /\ s \in Clients /\ u \in Threads /\ kind \in {"add", "complete"}
      /\ events' = [events EXCEPT ![u] = Append(@, Event(kind, c))]
      /\ mThread' \in [Clients -> Threads] /\ mThread'[s] = u
      /\ handle' \in [Keys -> Clients \cup {NULL}]
      /\ handle'[Key[c]] = s
      /\ \A k \in Keys : k # Key[c] => handle'[k] = handle[k]
      /\ \A x \in Clients : x # c => mThread'[x] = mThread[x]
      /\ kind = "add" => s # c /\ handle[Key[c]] = s /\ mStreams' = mStreams
                         /\ mThread'[c] = mThread[c]
      /\ kind = "complete" => s = c /\ handle[Key[c]] = NULL /\ mStreams' = Append(mStreams, c)
  BY <1>60 DEF Placing
<1> DEFINE e == Event(kind, c)
<1>7. e \in Callbacks /\ ~Pending(e)
  BY <1>3, <1>6, EventFacts DEF EventKinds, ClientKinds
<1>8. /\ events' \in Queues /\ OnceIn(events)'
      /\ \A v \in Threads : \A f : On(v, f)' <=> On(v, f) \/ (v = u /\ f = e)
      /\ \A f : Pending(f)' <=> Pending(f) \/ f = e
      /\ \A f, g : Before(f, g)' <=> Before(f, g) \/ (g = e /\ On(u, f))
      /\ \A v \in Threads : \A f : IsHead(v, f) => IsHead(v, f)'
  BY <1>1, <1>6, <1>7, Queues1
<1> HIDE DEF e
<1>9. /\ \A x \in Clients, k \in EventKinds : k # kind \/ x # c =>
             (Pending(Event(k, x))' <=> Pending(Event(k, x)))
      /\ Pending(Event(kind, c))'
      /\ \A k \in ClientKinds : k # kind => ~Pending(Event(k, c))'
  BY <1>3, <1>8, EventFacts DEF e, EventKinds, ClientKinds
<1>10. \A y, z \in Clients : Holds(y, z)' <=> Holds(y, z)
  BY <1>3, <1>4, <1>5 DEF Holds
<1>11. \A x \in Clients : Emptying(x)' <=> Emptying(x)
  BY <1>4, <1>8, SameEmptying
<1>12. /\ \A x \in Clients : pc[x] # "none" => StreamOf(x)' = StreamOf(x) /\ (StreamOf(x) = s => kind = "add")
       /\ StreamOf(c)' = s
  <2>1. ASSUME NEW x \in Clients, pc[x] # "none"
        PROVE  StreamOf(x)' = StreamOf(x) /\ (StreamOf(x) = s => kind = "add")
    <3>1. mTportStream[x] # NULL
      BY <1>1, <1>3, <2>1 DEF Parts, CreationOK, Types
    <3>2. StreamOf(x) = mTportStream[x] /\ StreamOf(x)' = mTportStream[x]
      BY <1>4, <3>1 DEF StreamOf
    <3> QED BY <1>3, <1>6, <2>1, <3>2
  <2> QED BY <1>3, <1>4, <1>6, <2>1 DEF StreamOf
<1>13. Types'
  <2>1. mStreams' \in Seq(Clients)
    <3>1. mStreams \in Seq(Clients)
      BY <1>1 DEF Types
    <3>2. mStreams' = mStreams \/ mStreams' = Append(mStreams, c)
      BY <1>6
    <3> QED BY <3>1, <3>2
  <2> QED BY <1>1, <1>4, <1>5, <1>6, <1>8, <2>1 DEF Types
<1>14. ListOK' /\ \A x : Has(mStreams, x) => Has(mStreams', x)
  <2>1. Distinct(mStreams) /\ mStreams \in Seq(Clients) /\ (kind = "complete" => ~Has(mStreams, c))
    BY <1>1, <1>6, TportAssumption DEF Types, Parts, ListOK
  <2>2. \A x \in Clients : Key[x] \in Keys
    BY DEF Keys
  <2>3. CASE kind = "add"
    <3>1. \A x \in Clients : handle'[Key[x]] = handle[Key[x]]
      BY <1>6, <2>2, <2>3
    <3> QED BY <1>6, <2>3, <3>1 DEF Parts, ListOK
  <2>4. CASE kind = "complete"
    <3>1. ASSUME NEW x \in Clients PROVE handle'[Key[x]] = x <=> handle[Key[x]] = x \/ x = c
      <4>1. x # NULL
        BY TportAssumption
      <4>2. CASE Key[x] = Key[c]
        BY <1>6, <2>4, <4>1, <4>2
      <4>3. CASE Key[x] # Key[c]
        BY <1>6, <2>2, <4>3
      <4> QED BY <4>2, <4>3
    <3>2. Distinct(mStreams') /\ (\A x : Has(mStreams', x) <=> Has(mStreams, x) \/ x = c)
      <4>1. PICK more : more = Append(mStreams, c)
        OBVIOUS
      <4>2. Distinct(more) /\ (\A x : Has(more, x) <=> Has(mStreams, x) \/ x = c)
        BY <2>1, <2>4, <4>1, AppendList
      <4>3. mStreams' = more
        BY <1>6, <2>4, <4>1
      <4> QED BY <4>2, <4>3
    <3> QED BY <3>1, <3>2 DEF Parts, ListOK
  <2> QED BY <1>6, <2>3, <2>4
<1>15. ThreadOK'
  <2>1. ASSUME NEW v \in Threads, NEW x \in Clients, NEW k \in ClientKinds, On(v, Event(k, x))'
        PROVE  pc'[x] # "none" /\ StreamOf(x)' # NULL /\ v = mThread'[StreamOf(x)']
    <3>1. CASE Event(k, x) = e
      <4>1. x = c /\ v = u
        BY <1>8, <1>7, <2>1, <3>1, EventFacts DEF e, Pending
      <4> QED BY <1>5, <1>6, <1>12, <4>1, TportAssumption
    <3>2. CASE Event(k, x) # e
      <4>1. On(v, Event(k, x)) /\ pc[x] # "none" /\ StreamOf(x) # NULL /\ v = mThread[StreamOf(x)]
        BY <1>8, <2>1, <3>2 DEF Parts, ThreadOK
      <4>2. StreamOf(x) \in Clients
        <5>1. mTportStream[x] \in Clients \cup {NULL} /\ handle[Key[x]] \in Clients \cup {NULL}
          BY <1>1 DEF Types, Keys
        <5> QED BY <4>1, <5>1 DEF StreamOf
      <4>3. x # c
        BY <1>3, <4>1
      <4>4. StreamOf(x) = c => kind = "add"
        BY <1>3, <1>6, <1>12, <4>1
      <4> QED BY <1>5, <1>6, <1>12, <4>1, <4>2, <4>3, <4>4
    <3> QED BY <3>1, <3>2
  <2>2. ASSUME NEW v \in Threads, NEW x \in Clients, NEW k \in DestroyKinds
        PROVE  ~On(v, Event(k, x))'
    <3>1. ~On(v, Event(k, x))
      BY <1>3 DEF Parts, ThreadOK
    <3>2. Event(k, x) # e
      BY <1>6, EventFacts DEF e, DestroyKinds
    <3> QED BY <1>8, <3>1, <3>2
  <2> QED BY <2>1, <2>2 DEF ThreadOK
<1>16. WaitingOK'
  <2>1. Awaited' = Awaited
    BY <1>6, <1>9 DEF Awaited, EventKinds
  <2> QED BY <1>4, <2>1 DEF Parts, WaitingOK
<1>17. WeightsOK'
  <2>1. ASSUME NEW v \in Threads PROVE Weighed(v)' = Weighed(v)
    <3>1. \A x \in Subs : pc'[x] = "created" <=> pc[x] = "created"
      BY <1>3, <1>5 DEF Clients
    <3>2. ASSUME NEW x \in Subs, pc[x] = "created"
          PROVE  mThread'[mTportStream[x]] = mThread[mTportStream[x]]
                 /\ (Holds(x, mTportStream[x])' <=> Holds(x, mTportStream[x]))
      <4>1. x \in Clients /\ mTportStream[x] \in Clients /\ mTportStream[x] # c
        BY <1>1, <1>3, <3>2 DEF Clients, Types, Parts, CreationOK
      <4> QED BY <1>4, <1>6, <1>10, <4>1
    <3> QED BY <1>4, <3>1, <3>2 DEF Weighed
  <2> QED BY <1>4, <2>1 DEF Parts, WeightsOK, Weighed
<1>18. ASSUME NEW x \in Clients PROVE CreationOK(x)'
  <2>1. CreationOK(x)
    BY DEF Parts
  <2> QED BY <1>3, <1>4, <1>5, <1>6, <2>1, TportAssumption DEF CreationOK
<1>19. ASSUME NEW x \in Clients PROVE StreamOK(x)'
  <2>1. StreamOK(x) /\ StreamOK(c)
    BY DEF Parts
  <2>2. Key[x] \in Keys
    BY DEF Keys
  <2>3. PICK z : z = handle'[Key[x]]
    OBVIOUS
  <2>4. z # NULL => z \in Clients /\ Key[z] = Key[x] /\ z \notin freedStreams /\ (pc'[z] = "placed" \/ mTportStream[z] = z)
    <3>1. CASE Key[x] = Key[c]
      BY SMTT(20), <1>3, <1>5, <1>6, <2>1, <2>3, <3>1 DEF StreamOK
    <3>2. CASE Key[x] # Key[c]
      <4>1. z = handle[Key[x]] /\ (z # NULL => z \in Clients)
        BY <1>1, <1>6, <2>2, <2>3, <3>2 DEF Types
      <4> QED BY SMTT(20), <1>5, <1>3, <2>1, <4>1 DEF StreamOK
    <3> QED BY <3>1, <3>2
  <2>5. mTportStream[x] = x => x \in freedStreams \/ z = x
    BY <1>3, <1>6, <2>1, <2>2, <2>3, TportAssumption DEF StreamOK
  <2> QED BY <1>4, <2>1, <2>3, <2>4, <2>5 DEF StreamOK
<1>20. ASSUME NEW x \in Clients PROVE TopicOK(x)'
  BY <1>4 DEF Parts, TopicOK
<1>21. ASSUME NEW x \in Clients PROVE ReadyOK(x)'
  <2>1. ReadyOK(x)
    BY DEF Parts
  <2>2. x # c => (Pending(Event("complete", x))' <=> Pending(Event("complete", x)))
    BY <1>9 DEF EventKinds
  <2> QED BY <1>3, <1>4, <2>1, <2>2 DEF ReadyOK
<1>22. ASSUME NEW x \in Clients PROVE EventOK(x)'
  <2>1. EventOK(x)
    BY DEF Parts
  <2>2. CASE x = c
    <3>1. (kind = "add" => ~Pending(Event("complete", c))')
          /\ (kind = "complete" => ~Pending(Event("add", c))') /\ ~Pending(Event("remove", c))'
      BY <1>6, <1>9 DEF ClientKinds
    <3>2. \/ kind = "add" /\ Pending(Event("add", c))' /\ s # c
          \/ kind = "complete" /\ Pending(Event("complete", c))' /\ s = c
      BY <1>6, <1>9
    <3> QED BY <1>3, <1>4, <1>5, <1>12, <2>2, <3>1, <3>2 DEF EventOK
  <2>3. CASE x # c
    <3>1. \A k \in ClientKinds : Pending(Event(k, x))' <=> Pending(Event(k, x))
      BY <1>9, <2>3 DEF ClientKinds, EventKinds
    <3> QED BY <1>4, <1>5, <1>8, <1>12, <2>1, <2>3, <3>1 DEF EventOK, ClientKinds
  <2> QED BY <2>2, <2>3
<1>23. ASSUME NEW x \in Clients PROVE OrderOK(x)'
  <2>1. OrderOK(x) /\ EventOK(x)
    BY DEF Parts
  <2>2. ASSUME Pending(Event("complete", x))', NEW y \in Clients, mTportStream[y] = x
        PROVE  mTportTopic[y] = NULL /\ y \notin mRemoved
    <3>1. x # c
      BY <1>3, <2>2
    <3>2. Pending(Event("complete", x))
      BY <1>9, <2>2, <3>1 DEF EventKinds
    <3> QED BY <2>1, <2>2, <3>2 DEF OrderOK
  <2>3. ASSUME Pending(Event("complete", x))', NEW y \in Clients, NEW k \in ClientKinds,
               Pending(Event(k, y))', StreamOf(y)' = x, Event(k, y) # Event("complete", x)
        PROVE  Before(Event("complete", x), Event(k, y))'
    <3>1. CASE Event("complete", x) = e
      <4>1. x = c /\ kind = "complete" /\ s = c
        BY <1>6, <3>1, EventFacts DEF e
      <4>2. Pending(Event(k, y)) /\ pc[y] # "none"
        BY <1>8, <2>3, <3>1 DEF Parts, ThreadOK, Pending
      <4> QED BY <1>12, <2>3, <4>1, <4>2
    <3>2. CASE Event("complete", x) # e
      <4>1. Pending(Event("complete", x)) /\ StreamOf(x) = x /\ pc[x] # "none"
        BY <1>8, <2>1, <2>3, <3>2 DEF EventOK
      <4>2. CASE Event(k, y) = e
        <5>1. y = c /\ s = x
          BY <1>12, <2>3, <4>2, EventFacts DEF e
        <5>2. kind = "add"
          BY <1>12, <4>1, <5>1
        <5>3. PICK v \in Threads : On(v, Event("complete", x))
          BY <4>1 DEF Pending
        <5>4. v = mThread[x]
          BY <4>1, <5>3 DEF Parts, ThreadOK, ClientKinds
        <5>5. mThread[x] = u
          BY <1>6, <5>1, <5>2
        <5> QED BY <1>8, <4>2, <5>3, <5>4, <5>5
      <4>3. CASE Event(k, y) # e
        <5>1. Pending(Event(k, y)) /\ pc[y] # "none"
          BY <1>8, <2>3, <4>3 DEF Parts, ThreadOK, Pending
        <5>2. StreamOf(y) = x
          BY <1>12, <2>3, <5>1
        <5> QED BY <1>8, <2>1, <2>3, <4>1, <5>1, <5>2 DEF OrderOK
      <4> QED BY <4>2, <4>3
    <3> QED BY <3>1, <3>2
  <2>4. Pending(Event("add", x))' /\ Pending(Event("remove", x))' => Before(Event("add", x), Event("remove", x))'
    <3>1. CASE x = c
      BY <1>6, <1>9, <3>1 DEF ClientKinds
    <3>2. CASE x # c
      BY <1>8, <1>9, <2>1, <3>2 DEF OrderOK, EventKinds
    <3> QED BY <3>1, <3>2
  <2> QED BY <1>3, <1>4, <2>2, <2>3, <2>4 DEF OrderOK
<1>24. ASSUME NEW x \in Clients PROVE HolderOK(x)'
  <2>1. HolderOK(x)
    BY DEF Parts
  <2>2. ~Pending(Event("second", x))
    BY <1>3 DEF Parts, ThreadOK, Pending, DestroyKinds
  <2>3. ~Pending(Event("second", x))'
    BY <1>6, <1>9, <2>2 DEF EventKinds
  <2> QED BY <1>3, <1>4, <1>10, <1>11, <2>1, <2>3 DEF HolderOK
<1>25. ASSUME NEW x \in Clients PROVE RefCountOK(x)'
  <2>1. Waiting(x)' = Waiting(x) /\ Early(x)' = Early(x)
    BY <1>3, <1>4, <1>5 DEF Waiting, Early
  <2> QED BY <1>4, <2>1 DEF Parts, RefCountOK
<1>26. ASSUME NEW x \in Clients PROVE ClientRefsOK(x)'
  <2>1. Pending(Event("remove", x))' <=> Pending(Event("remove", x))
    BY <1>6, <1>9 DEF EventKinds
  <2> QED BY <1>4, <2>1 DEF Parts, ClientRefsOK, RemoveDone
<1>27. ASSUME NEW x \in Clients PROVE UserQueueOK(x)'
  BY <1>4 DEF Parts, UserQueueOK
<1>28. ASSUME NEW v \in Threads PROVE AtOK(v)'
  <2>1. AtOK(v)
    BY DEF Parts
  <2>2. at[v] # "walk"
    <3>1. SUFFICES ASSUME at[v] = "walk" PROVE FALSE
      OBVIOUS
    <3>2. PICK x \in Clients : IsHead(v, Event("first", x))
      BY <2>1, <3>1 DEF AtOK
    <3>3. On(v, Event("first", x))
      BY <1>1, <3>2, Queued
    <3> QED BY <1>3, <3>3 DEF Parts, ThreadOK, DestroyKinds
  <2> QED BY <1>4, <1>8, <1>14, <2>1, <2>2 DEF AtOK
<1> QED BY <1>8, <1>13, <1>14, <1>15, <1>16, <1>17, <1>18, <1>19, <1>20, <1>21, <1>22, <1>23,
           <1>24, <1>25, <1>26, <1>27, <1>28 DEF Parts

\* The remove event of a client that is not ready is put off: its stream has failed.
LEMMA DeferRemoveStep ==
  ASSUME Parts, NEW t \in Threads, DeferRemove(t)
  PROVE  Parts'
<1>1. PICK c, s : c = Of(t) /\ s = mTportStream[c]
  OBVIOUS
<1>2. c \in Clients /\ IsHead(t, Event("remove", c)) /\ Types
      /\ events \in Queues /\ OnceIn(events) /\ at[t] = "loop" /\ Return(t) /\ c \notin mReady
  BY <1>1, Running DEF DeferRemove, Fired, Parts, Types
<1>3. EventOK(c) /\ ReadyOK(c) /\ OrderOK(c) /\ CreationOK(c) /\ TopicOK(c)
  BY <1>2 DEF Parts
<1>4. pc[c] = "created" /\ Pending(Event("remove", c)) /\ c \in mDestroyed /\ s # NULL
      /\ StreamOf(c) = s /\ s \in Clients /\ t = mThread[s]
  <2>1. pc[c] = "created" /\ Pending(Event("remove", c)) /\ c \in mDestroyed /\ t = mThread[StreamOf(c)]
    BY <1>2, Running2 DEF ClientKinds
  <2> QED BY <1>1, <1>2, <1>3, <2>1 DEF CreationOK, StreamOf, Types
<1>5. s \in failed
  <2>1. CASE mTportTopic[c] # NULL
    BY <1>1, <1>2, <1>3, <2>1 DEF ReadyOK
  <2>2. CASE mTportTopic[c] = NULL
    <3>1. \A f : ~Before(f, Event("remove", c))
      BY <1>2, Queued
    <3>2. ~Pending(Event("add", c))
      BY <1>3, <1>4, <3>1 DEF OrderOK
    <3>3. Event("remove", c) # Event("complete", c)
      BY EventFacts
    <3>4. ~Pending(Event("complete", c))
      BY <1>2, <1>3, <1>4, <3>1, <3>3 DEF OrderOK, EventOK, ClientKinds
    <3>5. c \in failed
      BY <1>3, <1>4, <2>2, <3>2, <3>4 DEF EventOK
    <3> QED BY <1>1, <1>3, <3>5 DEF ReadyOK
  <2> QED BY <2>1, <2>2
<1>6. ~Pending(Event("complete", s)) /\ (mTportTopic[c] # NULL => c \in listed)
  BY <1>2, <1>3, <1>4, <1>5 DEF Parts, ReadyOK, EventOK
<1>7. /\ mRemoved' = mRemoved \cup {c}
      /\ mStreams' = mStreams /\ mStreamsLock' = mStreamsLock /\ mWeights' = mWeights
      /\ mStreamsWaiting' = mStreamsWaiting /\ tpc' = tpc /\ handle' = handle
      /\ mThread' = mThread /\ mRefCount' = mRefCount /\ mStreamReady' = mStreamReady
      /\ mTopics' = mTopics /\ freedStreams' = freedStreams /\ failed' = failed
      /\ mTopic' = mTopic /\ mTportStream' = mTportStream /\ mTportTopic' = mTportTopic
      /\ mReady' = mReady /\ mDestroyed' = mDestroyed
      /\ listed' = listed /\ clientRefs' = clientRefs /\ freedClients' = freedClients /\ pc' = pc
      /\ userQueue' = userQueue /\ called' = called
  BY <1>1 DEF DeferRemove, tportVars, streamVars, queueVars
<1> DEFINE e == Event("remove", c)
<1>8. /\ events' \in Queues /\ OnceIn(events)'
      /\ \A u \in Threads : \A f : On(u, f)' <=> On(u, f) /\ f # e
      /\ \A f : Pending(f)' <=> Pending(f) /\ f # e
      /\ \A f, g : Before(f, g)' <=> Before(f, g) /\ f # e
      /\ \A u \in Threads : \A f : u # t /\ IsHead(u, f) => IsHead(u, f)'
  BY <1>2, Returns
<1>9. /\ at'[t] = "loop" /\ \A u \in Threads : u # t => at'[u] = at[u] /\ cursor'[u] = cursor[u]
      /\ cursor'[t] = NULL
  BY <1>2 DEF Return, Types
<1> HIDE DEF e
<1>10. /\ \A x \in Clients : StreamOf(x)' = StreamOf(x)
       /\ \A y, z \in Clients : Holds(y, z)' <=> Holds(y, z)
  BY <1>7 DEF StreamOf, Holds
<1>11. /\ \A x \in Clients, k \in EventKinds : k # "remove" =>
             (Pending(Event(k, x))' <=> Pending(Event(k, x)))
       /\ \A x \in Clients : Pending(Event("remove", x))' <=> Pending(Event("remove", x)) /\ x # c
  BY <1>8, EventFacts DEF e
<1>12. \A x \in Clients : Emptying(x)' <=> Emptying(x)
  BY <1>2, <1>7, <1>8, <1>9, SameEmptying
<1>13. Types'
  <2>1. at' \in [Threads -> {"loop", "empty", "walk"}]
    BY <1>2 DEF Types, Return
  <2>2. cursor' \in [Threads -> Clients \cup {NULL}]
    BY <1>2 DEF Types, Return
  <2> QED BY <1>2, <1>7, <1>8, <2>1, <2>2 DEF Types
<1>14. ListOK'
  BY <1>7 DEF Parts, ListOK
<1>15. ThreadOK'
  BY <1>7, <1>8, <1>10 DEF Parts, ThreadOK
<1>16. WaitingOK'
  <2>1. Awaited' = Awaited
    BY <1>11 DEF Awaited, EventKinds
  <2> QED BY <1>7, <2>1 DEF Parts, WaitingOK
<1>17. WeightsOK'
  BY <1>7 DEF Parts, WeightsOK, Holds
<1>18. ASSUME NEW x \in Clients PROVE CreationOK(x)'
  BY <1>7 DEF Parts, CreationOK
<1>19. ASSUME NEW x \in Clients PROVE StreamOK(x)'
  BY <1>7 DEF Parts, StreamOK
<1>20. ASSUME NEW x \in Clients PROVE TopicOK(x)'
  BY <1>7 DEF Parts, TopicOK
<1>21. ASSUME NEW x \in Clients PROVE ReadyOK(x)'
  BY <1>7, <1>11 DEF Parts, ReadyOK, EventKinds
<1>22. ASSUME NEW x \in Clients PROVE EventOK(x)'
  <2>1. EventOK(x)
    BY DEF Parts
  <2>2. \A u \in Threads : at[u] = "empty" /\ IsHead(u, Event("remove", x)) =>
           at'[u] = "empty" /\ IsHead(u, Event("remove", x))'
    BY <1>2, <1>8, <1>9
  <2> QED BY <1>1, <1>4, <1>5, <1>6, <1>7, <1>10, <1>11, <2>1, <2>2 DEF EventOK, EventKinds
<1>23. ASSUME NEW x \in Clients PROVE OrderOK(x)'
  <2>1. OrderOK(x)
    BY DEF Parts
  <2> QED BY <1>1, <1>6, <1>7, <1>8, <1>10, <2>1, EventFacts DEF OrderOK, e
<1>24. ASSUME NEW x \in Clients PROVE HolderOK(x)'
  <2>1. HolderOK(x)
    BY DEF Parts
  <2>2. Holds(c, x) => x = s
    BY <1>1 DEF Holds
  <2> QED BY <1>5, <1>7, <1>10, <1>11, <1>12, <2>1, <2>2 DEF HolderOK, EventKinds
<1>25. ASSUME NEW x \in Clients PROVE RefCountOK(x)'
  BY <1>7 DEF Parts, RefCountOK, Waiting, Early
<1>26. ASSUME NEW x \in Clients PROVE ClientRefsOK(x)'
  <2>1. RemoveDone(x)' <=> RemoveDone(x)
    BY <1>6, <1>7, <1>11 DEF RemoveDone, EventKinds
  <2> QED BY <1>7, <2>1 DEF Parts, ClientRefsOK
<1>27. ASSUME NEW x \in Clients PROVE UserQueueOK(x)'
  BY <1>7 DEF Parts, UserQueueOK
<1>28. ASSUME NEW u \in Threads PROVE AtOK(u)'
  <2>1. AtOK(u)
    BY DEF Parts
  <2>2. CASE u = t
    BY <1>9, <2>2 DEF AtOK
  <2>3. CASE u # t
    BY <1>7, <1>8, <1>9, <2>1, <2>3 DEF AtOK
  <2> QED BY <2>2, <2>3
<1> QED BY <1>8, <1>13, <1>14, <1>15, <1>16, <1>17, <1>18, <1>19, <1>20, <1>21, <1>22, <1>23,
           <1>24, <1>25, <1>26, <1>27, <1>28 DEF Parts

\* A stream whose count is not that of one last topic is held by another client.
LEMMA OtherHolder ==
  ASSUME Parts, NEW c \in listed, NEW s \in Clients, s = mTportStream[c], pc[c] = "created",
         mRefCount[s] # 1 \/ \E d \in listed : d # c /\ mTportTopic[d] = mTportTopic[c]
  PROVE  \E d \in Clients : d # c /\ Holds(d, s)
<1>1. c \in Clients /\ \A d \in listed : d \in Clients
  BY DEF Parts, Types
<1>2. PICK topic : topic = mTportTopic[c]
  OBVIOUS
<1>3. TopicOK(c) /\ topic # NULL /\ topic \in mTopics[s] /\ topic \in Clients /\ mTportStream[topic] = s
  <2>1. TopicOK(c)
    BY <1>1 DEF Parts
  <2> QED BY <1>1, <1>2, <2>1 DEF TopicOK, Parts, Types
<1>4. ASSUME NEW d \in listed, d # c, NEW o \in mTopics[s], mTportTopic[d] = o
      PROVE  Holds(d, s)
  <2>1. o \in Clients /\ d \in Clients
    BY <1>1, <1>4 DEF Parts, Types
  <2>2. mTportStream[o] = s
    BY <1>4, <2>1 DEF Parts, TopicOK
  <2>3. mTportStream[d] = s
    BY <1>4, <2>1, <2>2, TportAssumption DEF Parts, TopicOK
  <2>4. pc[d] \in {"set", "created"}
    BY <2>1, <2>3, TportAssumption DEF Parts, CreationOK, Types
  <2> QED BY <2>3, <2>4 DEF Holds
<1>5. CASE \E d \in listed : d # c /\ mTportTopic[d] = mTportTopic[c]
  BY <1>1, <1>2, <1>3, <1>4, <1>5
<1>6. CASE \E o \in mTopics[s] : o # topic
  <2>1. PICK o \in mTopics[s] : o # topic
    BY <1>6
  <2>2. o \in Clients
    BY <2>1 DEF Parts, Types
  <2>3. PICK d \in listed : mTportTopic[d] = o
    BY <2>1, <2>2 DEF Parts, TopicOK
  <2> QED BY <1>1, <1>2, <1>4, <2>1, <2>3
<1>7. CASE mTopics[s] = {topic} /\ mRefCount[s] # 1
  <2>1. PICK W, E : W = Waiting(s) /\ E = Early(s)
    OBVIOUS
  <2>2. mRefCount[s] = Cardinality({topic}) + Cardinality(W) - Cardinality(E)
    BY <1>7, <2>1 DEF Parts, RefCountOK
  <2>3. Cardinality({topic}) = 1
    <3>1. {topic} = {} \cup {topic}
      OBVIOUS
    <3> QED BY <1>3, <3>1, Cards
  <2>4. W # {} \/ E # {}
    <3>1. SUFFICES ASSUME W = {}, E = {} PROVE FALSE
      OBVIOUS
    <3>2. Cardinality(W) = 0 /\ Cardinality(E) = 0
      BY <3>1, Cards
    <3> QED BY <1>7, <2>2, <2>3, <3>2
  <2>5. CASE W # {}
    <3>1. PICK d \in Clients : d \in Waiting(s)
      BY <2>1, <2>5 DEF Waiting
    <3> QED BY <1>2, <1>3, <3>1 DEF Waiting, Holds
  <2>6. CASE E # {}
    <3>1. PICK d \in Clients : d \in Early(s)
      BY <2>1, <2>6 DEF Early
    <3>2. d \in listed
      BY <3>1 DEF Parts, EventOK, Early
    <3> QED BY <3>1, <3>2 DEF Early, Holds
  <2> QED BY <2>4, <2>5, <2>6
<1> QED BY <1>3, <1>5, <1>6, <1>7

\* The remove event takes a client off its list; the thread goes on to the lock
\* when that leaves the count of the stream zero.
LEMMA RemoveEventStep ==
  ASSUME Parts, OneKind, NEW t \in Threads, RemoveEvent(t)
  PROVE  Parts'
<1>1. PICK c, s, topic : c = Of(t) /\ s = mTportStream[c] /\ topic = mTportTopic[c]
  OBVIOUS
<1>2. c \in Clients /\ IsHead(t, Event("remove", c)) /\ Types
      /\ events \in Queues /\ OnceIn(events) /\ at[t] = "loop" /\ c \in mReady
  BY <1>1, Running DEF RemoveEvent, Fired, Parts, Types
<1>3. EventOK(c) /\ ReadyOK(c) /\ CreationOK(c) /\ TopicOK(c) /\ StreamOK(c) /\ HolderOK(c)
  BY <1>2 DEF Parts
<1>4. /\ pc[c] = "created" /\ Pending(Event("remove", c)) /\ c \in mDestroyed /\ c \notin mRemoved
      /\ s # NULL /\ s \in Clients /\ t = mThread[s] /\ StreamOf(c) = s
      /\ topic # NULL /\ topic \in Clients /\ c \in listed
  <2>1. pc[c] = "created" /\ Pending(Event("remove", c)) /\ c \in mDestroyed /\ c \notin mRemoved
        /\ t = mThread[StreamOf(c)] /\ On(t, Event("remove", c))
    BY <1>2, Running2 DEF ClientKinds
  <2>2. s # NULL /\ s \in Clients /\ StreamOf(c) = s
    BY <1>1, <1>2, <1>3, <2>1 DEF CreationOK, StreamOf, Types
  <2>3. topic # NULL /\ topic \in Clients
    BY <1>1, <1>2, <1>3 DEF ReadyOK, Types
  <2>4. c \in listed
    <3>1. SUFFICES ASSUME c \notin listed PROVE FALSE
      OBVIOUS
    <3>2. PICK u \in Threads : at[u] = "empty" /\ IsHead(u, Event("remove", c))
      BY <1>1, <1>3, <2>1, <2>3, <3>1 DEF EventOK
    <3>3. On(u, Event("remove", c))
      BY <1>2, <3>2, Queued
    <3>4. u = t
      BY <1>2, <2>1, <3>3, Queued
    <3> QED BY <1>2, <3>2, <3>4
  <2> QED BY <2>1, <2>2, <2>3, <2>4
<1>5. topic \in mTopics[s] /\ mTportStream[topic] = s /\ Holds(c, s) /\ s \notin freedStreams
  <2>1. Holds(c, s)
    BY <1>1, <1>4 DEF Holds
  <2> QED BY <1>1, <1>2, <1>3, <1>4, <2>1 DEF TopicOK, Parts, HolderOK
<1>6. PICK last, done :
        /\ last \in BOOLEAN /\ done \in BOOLEAN
        /\ last <=> LastOnList(c)
        /\ done <=> ~(LastOnList(c) /\ mRefCount[s] = 1)
  OBVIOUS
<1>7. last <=> ~\E d \in listed : d # c /\ mTportTopic[d] = topic
  <2>1. ASSUME NEW d \in listed, mTportTopic[d] = topic PROVE d \in SameKind(c)
    <3>1. d \in Clients /\ TopicOK(d) /\ StreamOK(d)
      BY <1>2, <2>1 DEF Types, Parts
    <3>2. mTportStream[d] = s
      BY <1>4, <1>5, <2>1, <3>1 DEF TopicOK
    <3>3. Key[d] = Key[c]
      BY <1>1, <1>3, <1>4, <3>1, <3>2 DEF StreamOK
    <3> QED BY <1>2, <3>1, <3>3 DEF OneKind, SameKind, Clients
  <2> QED BY <1>1, <1>6, <2>1 DEF LastOnList
<1>8. /\ mStreams' = mStreams /\ mStreamsLock' = mStreamsLock /\ mRemoved' = mRemoved
      /\ mStreamsWaiting' = mStreamsWaiting /\ tpc' = tpc /\ handle' = handle
      /\ mThread' = mThread /\ mStreamReady' = mStreamReady
      /\ freedStreams' = freedStreams /\ failed' = failed
      /\ mTopic' = mTopic /\ mTportStream' = mTportStream /\ mTportTopic' = mTportTopic
      /\ mReady' = mReady /\ mDestroyed' = mDestroyed /\ pc' = pc
      /\ listed' = listed \ {c}
      /\ userQueue' = userQueue /\ called' = called
  BY <1>1 DEF RemoveEvent, queueVars
<1>9. /\ mWeights'[t] = mWeights[t] - WeightOf(c)
      /\ \A u \in Threads : u # t => mWeights'[u] = mWeights[u]
      /\ mWeights' \in [Threads -> Int]
  <2>1. mWeights' = [mWeights EXCEPT ![t] = @ + -WeightOf(c)]
    BY <1>1, <1>4 DEF RemoveEvent, GiveBackWeight, AdjustWeight
  <2>2. WeightOf(c) \in Int
    BY <1>2, WeightNat
  <2> QED BY <1>2, <2>1, <2>2 DEF Types
<1>10. /\ mTopics'[s] = mTopics[s] \ (IF last THEN {topic} ELSE {})
       /\ mRefCount'[s] = mRefCount[s] - (IF last THEN 1 ELSE 0)
       /\ \A x \in Clients : x # s => mTopics'[x] = mTopics[x] /\ mRefCount'[x] = mRefCount[x]
       /\ mTopics' \in [Clients -> SUBSET Clients] /\ mRefCount' \in [Clients -> Int]
  <2>1. mTopics \in [Clients -> SUBSET Clients] /\ mRefCount \in [Clients -> Int]
    BY <1>2 DEF Types
  <2>2. CASE last
    <3>1. /\ mRefCount' = [mRefCount EXCEPT ![s] = @ - 1]
          /\ mTopics' = [mTopics EXCEPT ![s] = @ \ {topic}]
      BY <1>1, <1>6, <2>2 DEF RemoveEvent, RemoveTopic
    <3> QED BY <1>4, <2>1, <2>2, <3>1
  <2>3. CASE ~last
    <3>1. mRefCount' = mRefCount /\ mTopics' = mTopics
      BY <1>1, <1>6, <2>3 DEF RemoveEvent
    <3> QED BY <1>4, <2>1, <2>3, <3>1
  <2> QED BY <2>2, <2>3
<1> DEFINE e == Event("remove", c)
<1>11. /\ done => Return(t) /\ DropClient(c)
       /\ ~done => clientRefs' = clientRefs /\ freedClients' = freedClients /\ events' = events
                   /\ cursor' = cursor /\ at' = [at EXCEPT ![t] = "empty"]
  BY <1>1, <1>6 DEF RemoveEvent
<1>12. /\ events' \in Queues /\ OnceIn(events)'
       /\ \A u \in Threads : \A f : On(u, f)' <=> On(u, f) /\ (done => f # e)
       /\ \A f : Pending(f)' <=> Pending(f) /\ (done => f # e)
       /\ \A f, g : Before(f, g)' <=> Before(f, g) /\ (done => f # e)
       /\ \A u \in Threads : \A f : (u # t \/ ~done) /\ IsHead(u, f) => IsHead(u, f)'
  <2>1. CASE done
    BY <1>2, <1>11, <2>1, Returns
  <2>2. CASE ~done
    BY <1>2, <1>11, <2>2 DEF On, Pending, Before, IsHead
  <2> QED BY <2>1, <2>2
<1>13. /\ \A u \in Threads : u # t => at'[u] = at[u] /\ cursor'[u] = cursor[u]
       /\ at'[t] = (IF done THEN "loop" ELSE "empty")
       /\ cursor'[t] = (IF done THEN NULL ELSE cursor[t])
       /\ at' \in [Threads -> {"loop", "empty", "walk"}]
       /\ cursor' \in [Threads -> Clients \cup {NULL}]
  <2>1. at \in [Threads -> {"loop", "empty", "walk"}] /\ cursor \in [Threads -> Clients \cup {NULL}]
    BY <1>2 DEF Types
  <2>2. CASE done
    BY <1>11, <2>1, <2>2 DEF Return
  <2>3. CASE ~done
    BY <1>11, <2>1, <2>3
  <2> QED BY <2>2, <2>3
<1>14. /\ \A x \in Clients : x # c => clientRefs'[x] = clientRefs[x] /\ (x \in freedClients' <=> x \in freedClients)
       /\ ~done => clientRefs'[c] = clientRefs[c] /\ (c \in freedClients' <=> c \in freedClients)
       /\ done => clientRefs'[c] = clientRefs[c] - 1
                  /\ (c \in freedClients' <=> c \in freedClients \/ clientRefs[c] = 1)
       /\ clientRefs' \in [Clients -> Int] /\ freedClients' \subseteq Clients
  <2>1. clientRefs \in [Clients -> Int] /\ freedClients \subseteq Clients
    BY <1>2 DEF Types
  <2>2. CASE done
    BY <1>2, <1>11, <2>1, <2>2 DEF DropClient
  <2>3. CASE ~done
    BY <1>11, <2>1, <2>3
  <2> QED BY <2>2, <2>3
<1> HIDE DEF e
<1>15. /\ \A x \in Clients : StreamOf(x)' = StreamOf(x)
       /\ \A y, z \in Clients : Holds(y, z)' <=> Holds(y, z) /\ y # c
  BY <1>1, <1>4, <1>8 DEF StreamOf, Holds
<1>16. /\ \A x \in Clients, k \in EventKinds : k # "remove" =>
             (Pending(Event(k, x))' <=> Pending(Event(k, x)))
       /\ \A x \in Clients : Pending(Event("remove", x))' <=> Pending(Event("remove", x)) /\ (done => x # c)
  BY <1>12, EventFacts DEF e
<1>17. \A x \in Clients : Emptying(x)' <=> Emptying(x) \/ (~done /\ x = s)
  <2>1. CASE done
    <3>1. \A u \in Threads : \A f : at[u] = "empty" /\ IsHead(u, f) => IsHead(u, f)'
      BY <1>2, <1>12
    <3>2. \A u \in Threads : at'[u] = "empty" <=> at[u] = "empty"
      BY <1>2, <1>13, <2>1
    <3> QED BY <1>8, <2>1, <3>1, <3>2, SameEmptying
  <2>2. CASE ~done
    <3>1. \A u \in Threads : \A f : IsHead(u, f)' <=> IsHead(u, f)
      BY <1>11, <2>2 DEF IsHead
    <3>2. \A x \in Clients : IsHead(t, Event("remove", x)) => x = c
      BY <1>2, Queued, EventFacts
    <3>3. \A u \in Threads : at'[u] = "empty" <=> at[u] = "empty" \/ u = t
      BY <1>13, <2>2
    <3> QED BY <1>1, <1>2, <1>8, <2>2, <3>1, <3>2, <3>3 DEF Emptying
  <2> QED BY <2>1, <2>2
<1>18. Types'
  BY <1>2, <1>8, <1>9, <1>10, <1>12, <1>13, <1>14 DEF Types
<1>19. ListOK'
  BY <1>8 DEF Parts, ListOK
<1>20. ThreadOK'
  BY <1>8, <1>12, <1>15 DEF Parts, ThreadOK
<1>21. WaitingOK'
  <2>1. Awaited' = Awaited
    BY <1>16 DEF Awaited, EventKinds
  <2> QED BY <1>8, <2>1 DEF Parts, WaitingOK
<1>22. ASSUME NEW u \in Threads PROVE mWeights'[u] = Sum(Weighed(u)')
  <2>1. mWeights[u] = Sum(Weighed(u))
    BY DEF Parts, WeightsOK, Weighed, Sum
  <2>2. PICK W : W = Weighed(u)
    OBVIOUS
  <2>3. W \in SUBSET Clients
    BY <2>2 DEF Weighed, Clients
  <2>4. CASE u = t /\ c \in Subs
    <3>1. Weighed(u)' = W \ {c} /\ c \in W
      BY <1>1, <1>4, <1>5, <1>8, <2>2, <2>4 DEF Weighed, Holds, Clients
    <3>2. Sum(W \ {c}) = Sum(W) - WeightOf(c)
      BY <2>3, <3>1, SumRemove
    <3> QED BY <1>9, <2>1, <2>2, <2>4, <3>1, <3>2
  <2>5. CASE u # t \/ c \notin Subs
    <3>1. Weighed(u)' = W
      BY <1>1, <1>4, <1>5, <1>8, <2>2, <2>5 DEF Weighed, Holds, Clients
    <3>2. mWeights[u] \in Int /\ (u = t => WeightOf(c) = 0)
      BY <1>2, <2>5 DEF Types, WeightOf
    <3> QED BY <1>9, <2>1, <2>2, <3>1, <3>2
  <2> QED BY <2>4, <2>5
<1>23. ASSUME NEW x \in Clients PROVE CreationOK(x)'
  BY <1>8 DEF Parts, CreationOK
<1>24. ASSUME NEW x \in Clients PROVE StreamOK(x)'
  BY <1>8 DEF Parts, StreamOK
<1>25. ASSUME NEW x \in Clients PROVE TopicOK(x)'
  <2>1. TopicOK(x)
    BY DEF Parts
  <2>2. x \in listed' => mTportTopic[x] \in mTopics'[mTportStream[x]]
    <3>1. SUFFICES ASSUME x \in listed, x # c PROVE mTportTopic[x] \in mTopics'[mTportStream[x]]
      BY <1>8
    <3>2. mTportTopic[x] \in mTopics[mTportStream[x]] /\ mTportStream[x] \in Clients
      BY <1>2, <2>1, <3>1 DEF TopicOK, Types
    <3>3. last => mTportTopic[x] # topic
      BY <1>7, <3>1
    <3> QED BY <1>10, <3>2, <3>3
  <2>3. ASSUME NEW z \in Clients, x \in mTopics'[z]
        PROVE  /\ mTportStream[x] = z /\ mTportTopic[x] # NULL
               /\ \E d \in listed' : mTportTopic[d] = x
    <3>1. x \in mTopics[z] /\ ~(last /\ x = topic /\ z = s)
      BY <1>10, <2>3
    <3>2. mTportStream[x] = z /\ mTportTopic[x] # NULL
      BY <2>1, <3>1 DEF TopicOK
    <3>3. PICK d \in listed : mTportTopic[d] = x
      BY <2>1, <3>1 DEF TopicOK
    <3>4. CASE d # c
      BY <1>8, <3>2, <3>3, <3>4
    <3>5. CASE d = c
      <4>1. x = topic /\ z = s /\ ~last
        BY <1>1, <1>5, <3>1, <3>2, <3>3, <3>5
      <4>2. PICK y \in listed : y # c /\ mTportTopic[y] = topic
        BY <1>7, <4>1
      <4> QED BY <1>8, <3>2, <4>1, <4>2
    <3> QED BY <3>4, <3>5
  <2> QED BY <1>8, <2>1, <2>2, <2>3 DEF TopicOK
<1>26. ASSUME NEW x \in Clients PROVE ReadyOK(x)'
  BY <1>8, <1>16 DEF Parts, ReadyOK, EventKinds
<1>27. ASSUME NEW x \in Clients PROVE EventOK(x)'
  <2>1. EventOK(x)
    BY DEF Parts
  <2>2. CASE x = c
    <3>1. Pending(Event("remove", c))' => at'[t] = "empty" /\ IsHead(t, Event("remove", c))'
      BY <1>2, <1>12, <1>13, <1>16
    <3> QED BY <1>1, <1>2, <1>4, <1>8, <1>15, <1>16, <2>1, <2>2, <3>1 DEF EventOK, EventKinds
  <2>3. CASE x # c
    <3>1. \A u \in Threads : at[u] = "empty" /\ IsHead(u, Event("remove", x)) =>
             at'[u] = "empty" /\ IsHead(u, Event("remove", x))'
      BY <1>2, <1>12, <1>13
    <3> QED BY <1>8, <1>15, <1>16, <2>1, <2>3, <3>1 DEF EventOK, EventKinds
  <2> QED BY <2>2, <2>3
<1>28. ASSUME NEW x \in Clients PROVE OrderOK(x)'
  <2>1. OrderOK(x)
    BY DEF Parts
  <2> QED BY <1>8, <1>12, <1>15, <2>1, EventFacts DEF OrderOK, e
<1>29. ASSUME NEW x \in Clients PROVE HolderOK(x)'
  <2>1. HolderOK(x)
    BY DEF Parts
  <2>2. mTportStream[x] = x /\ x \notin freedStreams =>
          Emptying(x)' \/ \E y \in Clients : Holds(y, x)'
    <3>1. SUFFICES ASSUME mTportStream[x] = x, x \notin freedStreams, ~Emptying(x)'
                   PROVE  \E y \in Clients : Holds(y, x)'
      OBVIOUS
    <3>2. PICK y \in Clients : Holds(y, x)
      BY <1>17, <2>1, <3>1 DEF HolderOK
    <3>3. CASE y # c
      BY <1>15, <3>2, <3>3
    <3>4. CASE y = c
      <4>1. x = s /\ done
        BY <1>1, <1>17, <3>1, <3>2, <3>4 DEF Holds
      <4>2. mRefCount[s] # 1 \/ \E d \in listed : d # c /\ mTportTopic[d] = mTportTopic[c]
        BY <1>1, <1>6, <1>7, <4>1
      <4>3. PICK d \in Clients : d # c /\ Holds(d, s)
        BY <1>1, <1>4, <4>2, OtherHolder
      <4> QED BY <1>15, <4>1, <4>3
    <3> QED BY <3>3, <3>4
  <2> QED BY <1>5, <1>8, <1>15, <1>16, <1>17, <2>1, <2>2 DEF HolderOK, EventKinds
<1>30. ASSUME NEW x \in Clients PROVE RefCountOK(x)'
  <2>1. RefCountOK(x)
    BY DEF Parts
  <2>2. PICK T, W, E : T = mTopics[x] /\ W = Waiting(x) /\ E = Early(x)
    OBVIOUS
  <2>3. T \in SUBSET Clients /\ W \in SUBSET Clients /\ E \in SUBSET Clients
    BY <1>2, <2>2 DEF Types, Waiting, Early
  <2>4. Cardinality(T) \in Int /\ Cardinality(W) \in Int /\ Cardinality(E) \in Int
    BY <2>3, Cards
  <2>5. mRefCount[x] = Cardinality(T) + Cardinality(W) - Cardinality(E)
    BY <2>1, <2>2 DEF RefCountOK
  <2>6. Waiting(x)' = W /\ Early(x)' = E
    BY <1>8, <2>2 DEF Waiting, Early
  <2>7. CASE x = s /\ last
    <3>1. mTopics'[x] = T \ {topic} /\ mRefCount'[x] = mRefCount[x] - 1
      BY <1>10, <2>2, <2>7
    <3>2. Cardinality(T \ {topic}) = Cardinality(T) - 1
      BY <1>5, <2>2, <2>3, <2>7, Cards
    <3>3. mRefCount'[x] = Cardinality(T \ {topic}) + Cardinality(W) - Cardinality(E)
      BY <2>4, <2>5, <3>1, <3>2
    <3> QED BY <2>6, <3>1, <3>3 DEF RefCountOK
  <2>8. CASE ~(x = s /\ last)
    <3>0. mRefCount[x] \in Int
      BY <1>2 DEF Types
    <3>1. mTopics'[x] = T /\ mRefCount'[x] = mRefCount[x]
      <4>1. CASE x # s
        BY <1>10, <2>2, <4>1
      <4>2. CASE x = s
        <5>1. ~last
          BY <2>8, <4>2
        <5>2. mTopics'[s] = mTopics[s] \ {} /\ mRefCount'[s] = mRefCount[s] - 0
          BY <1>10, <5>1
        <5>3. T \ {} = T
          OBVIOUS
        <5> QED BY <2>2, <3>0, <4>2, <5>2, <5>3
      <4> QED BY <4>1, <4>2
    <3> QED BY <2>5, <2>6, <3>1 DEF RefCountOK
  <2> QED BY <2>7, <2>8
<1>31. ASSUME NEW x \in Clients PROVE ClientRefsOK(x)'
  <2>1. ClientRefsOK(x)
    BY DEF Parts
  <2>2. userQueue[x] \in Seq({"ready", "message"}) /\ Len(userQueue[x]) \in Nat
    BY <1>2 DEF Types
  <2>3. CASE x # c
    <3>1. RemoveDone(x)' <=> RemoveDone(x)
      BY <1>8, <1>16, <2>3 DEF RemoveDone, EventKinds
    <3> QED BY <1>8, <1>14, <2>1, <2>3, <3>1 DEF ClientRefsOK
  <2>4. CASE x = c
    <3>1. ~RemoveDone(x) /\ (RemoveDone(x)' <=> done)
      BY <1>1, <1>4, <1>8, <1>16, <2>4 DEF RemoveDone, EventKinds
    <3>2. clientRefs[x] = Len(userQueue[x]) + 1 /\ x \notin freedClients
      BY <2>1, <2>2, <3>1 DEF ClientRefsOK
    <3>3. CASE done
      <4>1. clientRefs'[x] = Len(userQueue'[x]) + 0
        BY <1>8, <1>14, <2>2, <2>4, <3>2, <3>3
      <4>2. x \in freedClients' <=> clientRefs'[x] = 0
        BY <1>14, <2>2, <2>4, <3>2, <3>3
      <4> QED BY <3>1, <3>3, <4>1, <4>2 DEF ClientRefsOK
    <3>4. CASE ~done
      BY <1>8, <1>14, <2>1, <2>4, <3>1, <3>4 DEF ClientRefsOK
    <3> QED BY <3>3, <3>4
  <2> QED BY <2>3, <2>4
<1>32. ASSUME NEW x \in Clients PROVE UserQueueOK(x)'
  BY <1>8 DEF Parts, UserQueueOK
<1>33. ASSUME NEW u \in Threads PROVE AtOK(u)'
  <2>1. AtOK(u)
    BY DEF Parts
  <2>2. CASE u = t
    <3>1. CASE done
      BY <1>13, <2>2, <3>1 DEF AtOK
    <3>2. CASE ~done
      <4>1. IsHead(t, Event("remove", c))' /\ c \in mReady' /\ c \notin listed'
        BY <1>2, <1>8, <1>12, <3>2
      <4> QED BY <1>2, <1>8, <1>13, <2>1, <2>2, <3>2, <4>1 DEF AtOK
    <3> QED BY <3>1, <3>2
  <2>3. CASE u # t
    BY <1>8, <1>12, <1>13, <2>1, <2>3 DEF AtOK
  <2> QED BY <2>2, <2>3
<1>34. WeightsOK'
  BY <1>22 DEF WeightsOK, Weighed, Sum
<1> QED BY <1>12, <1>18, <1>19, <1>20, <1>21, <1>23, <1>24, <1>25, <1>26, <1>27, <1>28,
           <1>29, <1>30, <1>31, <1>32, <1>33, <1>34 DEF Parts

\* Under the lock, the stream is freed unless a client was created on it meanwhile.
LEMMA RemoveStreamStep ==
  ASSUME Parts, ~KeepsHandle, NEW t \in Threads, RemoveStream(t)
  PROVE  Parts'
<1>1. PICK c, s : c = Of(t) /\ s = mTportStream[c]
  OBVIOUS
<1>2. Types /\ events \in Queues /\ OnceIn(events) /\ at[t] = "empty" /\ LockFree
  BY DEF RemoveStream, Parts, Types
<1>3. c \in Clients /\ IsHead(t, Event("remove", c)) /\ c \in mReady /\ c \notin listed
  <2>1. PICK d \in Clients : IsHead(t, Event("remove", d)) /\ d \in mReady /\ d \notin listed
    BY <1>2 DEF Parts, AtOK
  <2>2. Of(t) = d
    BY <1>2, <2>1, Running
  <2> QED BY <1>1, <2>1, <2>2
<1>4. EventOK(c) /\ ReadyOK(c) /\ CreationOK(c) /\ StreamOK(c)
  BY <1>3 DEF Parts
<1>5. /\ pc[c] = "created" /\ Pending(Event("remove", c)) /\ c \in mDestroyed
      /\ s # NULL /\ s \in Clients /\ t = mThread[s] /\ StreamOf(c) = s
      /\ mTportTopic[c] # NULL /\ mTportStream[s] = s
  <2>1. pc[c] = "created" /\ Pending(Event("remove", c)) /\ c \in mDestroyed
        /\ t = mThread[StreamOf(c)]
    BY <1>3, Running2 DEF ClientKinds
  <2>2. s # NULL /\ s \in Clients /\ StreamOf(c) = s
    BY <1>1, <1>2, <1>3, <1>4, <2>1 DEF CreationOK, StreamOf, Types
  <2> QED BY <1>1, <1>3, <1>4, <2>1, <2>2 DEF ReadyOK, StreamOK
<1>6. Emptying(s) /\ s \notin freedStreams /\ handle[Key[s]] = s
  <2>1. Emptying(s)
    BY <1>1, <1>2, <1>3 DEF Emptying
  <2>2. HolderOK(s) /\ StreamOK(s)
    BY <1>5 DEF Parts
  <2> QED BY <1>5, <2>1, <2>2 DEF HolderOK, StreamOK
<1>7. PICK gone : gone \in BOOLEAN /\ (gone <=> mRefCount[s] = 0)
  OBVIOUS
<1>8. gone => \A y \in Clients : ~Holds(y, s)
  BY <1>2, <1>5, <1>7, UncountedFree
<1>9. ~gone => \E y \in Clients : Holds(y, s)
  <2>1. \A y \in Clients : pc[y] = "set" /\ mTportTopic[y] # NULL => y \in listed
    BY DEF Parts, EventOK
  <2>2. \A y \in Clients : mTportStream[y] # NULL => pc[y] \in {"set", "created"}
    BY <1>2 DEF Parts, CreationOK, Types
  <2>3. RefCountOK(s) /\ \A y \in Clients : TopicOK(y)
    BY <1>5 DEF Parts
  <2> QED BY <1>2, <1>5, <1>7, <2>1, <2>2, <2>3, CountedHeld
<1>10. /\ mStreamsLock' = mStreamsLock /\ mRemoved' = mRemoved /\ mWeights' = mWeights
       /\ mStreamsWaiting' = mStreamsWaiting /\ tpc' = tpc
       /\ mThread' = mThread /\ mStreamReady' = mStreamReady
       /\ failed' = failed /\ mRefCount' = mRefCount /\ mTopics' = mTopics
       /\ mTopic' = mTopic /\ mTportStream' = mTportStream /\ mTportTopic' = mTportTopic
       /\ mReady' = mReady /\ mDestroyed' = mDestroyed /\ pc' = pc
       /\ listed' = listed
       /\ userQueue' = userQueue /\ called' = called
       /\ Return(t) /\ DropClient(c)
  BY <1>1 DEF RemoveStream, queueVars
<1>11. /\ mStreams' \in Seq(Clients) /\ Distinct(mStreams')
       /\ \A x : Has(mStreams', x) <=> Has(mStreams, x) /\ (gone => x # s)
       /\ \A a, b : UpTo(mStreams, a, b) /\ (gone => a # s /\ b # s) => UpTo(mStreams', a, b)
  <2>1. mStreams \in Seq(Clients) /\ Distinct(mStreams)
    BY <1>2 DEF Parts, Types, ListOK
  <2>2. CASE gone
    <3>1. Removed(mStreams, s, mStreams')
      BY <1>1, <1>7, <2>2 DEF RemoveStream, Unreferenced, Removed
    <3>2. PICK rest : rest = mStreams'
      OBVIOUS
    <3>3. Removed(mStreams, s, rest)
      BY <3>1, <3>2
    <3> QED BY <1>5, <2>1, <2>2, <3>2, <3>3, RemoveFirstFacts
  <2>3. CASE ~gone
    <3>1. mStreams' = mStreams
      BY <1>1, <1>7, <2>3 DEF RemoveStream, Unreferenced
    <3> QED BY <2>1, <2>3, <3>1
  <2> QED BY <2>2, <2>3
<1>12. /\ handle' \in [Keys -> Clients \cup {NULL}]
       /\ \A k \in Keys : handle'[k] = IF gone /\ handle[k] = s THEN NULL ELSE handle[k]
       /\ freedStreams' = freedStreams \cup (IF gone THEN {s} ELSE {})
  <2>1. handle \in [Keys -> Clients \cup {NULL}]
    BY <1>2 DEF Types
  <2>2. CASE gone
    BY <1>1, <1>7, <2>1, <2>2 DEF RemoveStream, Unreferenced, Forget
  <2>3. CASE ~gone
    BY <1>1, <1>7, <2>1, <2>3 DEF RemoveStream, Unreferenced
  <2> QED BY <2>2, <2>3
<1>13. \A x \in Clients : handle'[Key[x]] = IF gone /\ handle[Key[x]] = s THEN NULL ELSE handle[Key[x]]
  <2>1. \A x \in Clients : Key[x] \in Keys
    BY DEF Keys
  <2> QED BY <1>12, <2>1
<1> DEFINE e == Event("remove", c)
<1>14. /\ events' \in Queues /\ OnceIn(events)'
       /\ \A u \in Threads : \A f : On(u, f)' <=> On(u, f) /\ f # e
       /\ \A f : Pending(f)' <=> Pending(f) /\ f # e
       /\ \A f, g : Before(f, g)' <=> Before(f, g) /\ f # e
       /\ \A u \in Threads : \A f : u # t /\ IsHead(u, f) => IsHead(u, f)'
  BY <1>2, <1>3, <1>10, Returns
<1>15. /\ at'[t] = "loop" /\ \A u \in Threads : u # t => at'[u] = at[u] /\ cursor'[u] = cursor[u]
       /\ cursor'[t] = NULL
       /\ at' \in [Threads -> {"loop", "empty", "walk"}]
       /\ cursor' \in [Threads -> Clients \cup {NULL}]
  BY <1>2, <1>10 DEF Return, Types
<1>16. /\ \A x \in Clients : x # c => clientRefs'[x] = clientRefs[x] /\ (x \in freedClients' <=> x \in freedClients)
       /\ clientRefs'[c] = clientRefs[c] - 1
       /\ (c \in freedClients' <=> c \in freedClients \/ clientRefs[c] = 1)
       /\ clientRefs' \in [Clients -> Int] /\ freedClients' \subseteq Clients
  BY <1>2, <1>3, <1>10 DEF DropClient, Types
<1> HIDE DEF e
<1>17. /\ \A x \in Clients : pc[x] # "none" => mTportStream[x] # NULL
       /\ \A x \in Clients : pc[x] # "none" => StreamOf(x)' = StreamOf(x)
       /\ \A y, z \in Clients : Holds(y, z)' <=> Holds(y, z)
  <2>1. \A x \in Clients : pc[x] # "none" => mTportStream[x] # NULL
    BY <1>2, TportAssumption DEF Parts, CreationOK, LockFree
  <2> QED BY <1>10, <2>1 DEF StreamOf, Holds
<1>18. /\ \A x \in Clients, k \in EventKinds : k # "remove" =>
             (Pending(Event(k, x))' <=> Pending(Event(k, x)))
       /\ \A x \in Clients : Pending(Event("remove", x))' <=> Pending(Event("remove", x)) /\ x # c
  BY <1>14, EventFacts DEF e
<1>19. \A x \in Clients, k \in ClientKinds : Pending(Event(k, x)) => StreamOf(x)' = StreamOf(x) /\ pc[x] # "none"
  BY <1>17 DEF Parts, ThreadOK, Pending
<1>20. \A x \in Clients : Emptying(x)' => Emptying(x) /\ x # s
  <2>1. SUFFICES ASSUME NEW x \in Clients, Emptying(x)' PROVE Emptying(x) /\ x # s
    OBVIOUS
  <2>2. PICK u \in Threads, d \in Clients :
          at'[u] = "empty" /\ IsHead(u, Event("remove", d))' /\ mTportStream[d] = x
    BY <1>10, <2>1 DEF Emptying
  <2>3. u # t /\ at[u] = "empty"
    BY <1>15, <2>2
  <2>4. PICK y \in Clients : IsHead(u, Event("remove", y))
    BY <2>3 DEF Parts, AtOK
  <2>5. IsHead(u, Event("remove", y))'
    BY <1>14, <2>3, <2>4
  <2>6. y = d
    <3>1. Event("remove", y) = Event("remove", d)
      BY <2>2, <2>5 DEF IsHead, HeadIn
    <3> QED BY <3>1, EventFacts
  <2>7. pc[d] = "created" /\ u = mThread[StreamOf(d)] /\ StreamOf(d) = mTportStream[d]
    <3>1. pc[d] = "created" /\ u = mThread[StreamOf(d)]
      BY <2>4, <2>6, Running2 DEF ClientKinds
    <3> QED BY <1>17, <3>1 DEF StreamOf
  <2> QED BY <1>5, <2>2, <2>3, <2>4, <2>6, <2>7 DEF Emptying
<1>21. \A x \in Clients : x # s /\ Emptying(x) => Emptying(x)'
  <2>1. SUFFICES ASSUME NEW x \in Clients, x # s, Emptying(x) PROVE Emptying(x)'
    OBVIOUS
  <2>2. PICK u \in Threads, d \in Clients :
          at[u] = "empty" /\ IsHead(u, Event("remove", d)) /\ mTportStream[d] = x
    BY <2>1 DEF Emptying
  <2>3. u # t
    <3>1. SUFFICES ASSUME u = t PROVE FALSE
      OBVIOUS
    <3>2. Event("remove", d) = Event("remove", c)
      BY <1>2, <1>3, <2>2, <3>1, Queued
    <3> QED BY <1>1, <2>1, <2>2, <3>2, EventFacts
  <2> QED BY <1>10, <1>14, <1>15, <2>2, <2>3 DEF Emptying
<1>22. Types'
  BY <1>2, <1>5, <1>10, <1>11, <1>12, <1>14, <1>15, <1>16 DEF Types
<1>23. ListOK'
  <2>1. ASSUME NEW x \in Clients PROVE Has(mStreams', x) <=> handle'[Key[x]] = x
    <3>1. Has(mStreams, x) <=> handle[Key[x]] = x
      BY DEF Parts, ListOK
    <3>2. x # NULL
      BY TportAssumption
    <3> QED BY <1>11, <1>13, <3>1, <3>2
  <2> QED BY <1>11, <2>1 DEF ListOK
<1>24. ThreadOK'
  BY <1>10, <1>14, <1>17 DEF Parts, ThreadOK
<1>25. WaitingOK'
  <2>1. Awaited' = Awaited
    BY <1>18 DEF Awaited, EventKinds
  <2> QED BY <1>10, <2>1 DEF Parts, WaitingOK
<1>26. WeightsOK'
  BY <1>10 DEF Parts, WeightsOK, Holds
<1>27. ASSUME NEW x \in Clients PROVE CreationOK(x)'
  <2>1. CreationOK(x) /\ (pc[x] # "none" => mTportStream[x] # NULL)
    BY <1>17 DEF Parts
  <2>2. pc[x] \notin {"placed", "set"}
    BY <1>2, <2>1, TportAssumption DEF CreationOK, LockFree
  <2> QED BY <1>10, <2>1, <2>2 DEF CreationOK
<1>28. ASSUME NEW x \in Clients PROVE StreamOK(x)'
  <2>1. StreamOK(x)
    BY DEF Parts
  <2>2. handle'[Key[x]] # NULL => handle'[Key[x]] = handle[Key[x]] /\ (gone => handle[Key[x]] # s)
    BY <1>13
  <2>3. mTportStream[x] = x => x \in freedStreams' \/ handle'[Key[x]] = x
    BY <1>12, <1>13, <2>1 DEF StreamOK
  <2>4. x \in freedStreams' => mTportStream[x] = x
    BY <1>5, <1>12, <2>1 DEF StreamOK
  <2>5. PICK z : z = handle'[Key[x]]
    OBVIOUS
  <2>6. z # NULL => Key[z] = Key[x] /\ z \notin freedStreams' /\ (pc[z] = "placed" \/ mTportStream[z] = z)
    BY <1>12, <2>1, <2>2, <2>5 DEF StreamOK
  <2> QED BY <1>10, <2>1, <2>3, <2>4, <2>5, <2>6 DEF StreamOK
<1>29. ASSUME NEW x \in Clients PROVE TopicOK(x)'
  BY <1>10 DEF Parts, TopicOK
<1>30. ASSUME NEW x \in Clients PROVE ReadyOK(x)'
  BY <1>10, <1>18 DEF Parts, ReadyOK, EventKinds
<1>31. ASSUME NEW x \in Clients PROVE EventOK(x)'
  <2>1. EventOK(x)
    BY DEF Parts
  <2>2. CASE x = c
    BY <1>3, <1>5, <1>10, <1>17, <1>18, <2>1, <2>2 DEF EventOK, EventKinds
  <2>3. CASE x # c
    <3>1. \A u \in Threads : at[u] = "empty" /\ IsHead(u, Event("remove", x)) =>
             at'[u] = "empty" /\ IsHead(u, Event("remove", x))'
      BY <1>2, <1>3, <1>14, <1>15, <2>3, Queued, EventFacts
    <3> QED BY <1>10, <1>17, <1>18, <2>1, <2>3, <3>1 DEF EventOK, EventKinds
  <2> QED BY <2>2, <2>3
<1>32. ASSUME NEW x \in Clients PROVE OrderOK(x)'
  <2>1. OrderOK(x)
    BY DEF Parts
  <2>2. \A y \in Clients, k \in ClientKinds :
          Pending(Event(k, y))' => Pending(Event(k, y)) /\ StreamOf(y)' = StreamOf(y) /\ Event(k, y) # e
    BY <1>14, <1>19
  <2>3. /\ Pending(Event("complete", x))' => Pending(Event("complete", x)) /\ Event("complete", x) # e
        /\ Pending(Event("add", x))' => Pending(Event("add", x)) /\ Event("add", x) # e
        /\ Pending(Event("remove", x))' => Pending(Event("remove", x))
    BY <1>14
  <2> QED BY <1>10, <1>14, <2>1, <2>2, <2>3 DEF OrderOK
<1>33. ASSUME NEW x \in Clients PROVE HolderOK(x)'
  <2>1. HolderOK(x)
    BY DEF Parts
  <2>2. mTportStream[x] = x /\ x \notin freedStreams' => Emptying(x)' \/ \E y \in Clients : Holds(y, x)'
    BY <1>9, <1>12, <1>17, <1>21, <2>1 DEF HolderOK
  <2>3. /\ Emptying(x)' => x \notin freedStreams'
        /\ \A y \in Clients : Holds(y, x) => x \notin freedStreams'
    BY <1>8, <1>12, <1>20, <2>1 DEF HolderOK
  <2>4. handle'[Key[x]] = x => handle[Key[x]] = x
    BY <1>13, TportAssumption
  <2>5. ~Holds(c, x)
    BY <1>3, <1>5 DEF Holds
  <2> QED BY <1>10, <1>17, <1>18, <2>1, <2>2, <2>3, <2>4, <2>5 DEF HolderOK, EventKinds
<1>34. ASSUME NEW x \in Clients PROVE RefCountOK(x)'
  BY <1>10 DEF Parts, RefCountOK, Waiting, Early
<1>35. ASSUME NEW x \in Clients PROVE ClientRefsOK(x)'
  <2>1. ClientRefsOK(x)
    BY DEF Parts
  <2>2. userQueue[x] \in Seq({"ready", "message"}) /\ Len(userQueue[x]) \in Nat
    BY <1>2 DEF Types
  <2>3. CASE x # c
    <3>1. RemoveDone(x)' <=> RemoveDone(x)
      BY <1>10, <1>18, <2>3 DEF RemoveDone, EventKinds
    <3> QED BY <1>10, <1>16, <2>1, <2>3, <3>1 DEF ClientRefsOK
  <2>4. CASE x = c
    <3>1. ~RemoveDone(x) /\ RemoveDone(x)'
      BY <1>3, <1>5, <1>10, <1>18, <2>4 DEF RemoveDone, EventKinds
    <3>2. clientRefs[x] = Len(userQueue[x]) + 1 /\ x \notin freedClients
      BY <2>1, <2>2, <3>1 DEF ClientRefsOK
    <3>3. clientRefs'[x] = Len(userQueue'[x]) + 0
      BY <1>10, <1>16, <2>2, <2>4, <3>2
    <3>4. x \in freedClients' <=> clientRefs'[x] = 0
      BY <1>16, <2>2, <2>4, <3>2
    <3> QED BY <3>1, <3>3, <3>4 DEF ClientRefsOK
  <2> QED BY <2>3, <2>4
<1>36. ASSUME NEW x \in Clients PROVE UserQueueOK(x)'
  BY <1>10 DEF Parts, UserQueueOK
<1>37. ASSUME NEW u \in Threads PROVE AtOK(u)'
  <2>1. AtOK(u)
    BY DEF Parts
  <2>2. CASE u = t
    BY <1>15, <2>2 DEF AtOK
  <2>3. CASE u # t
    <3>1. cursor[u] # NULL => cursor[u] \in freedStreams' \/ Has(mStreams', cursor[u])
      BY <1>11, <1>12, <2>1 DEF AtOK
    <3>2. ASSUME at[u] = "walk"
          PROVE  \E x \in Clients :
                   /\ IsHead(u, Event("first", x))'
                   /\ handle'[Key[x]] = x => cursor[u] \in freedStreams' \/ UpTo(mStreams', cursor[u], x)
      <4>1. PICK x \in Clients :
              /\ IsHead(u, Event("first", x))
              /\ handle[Key[x]] = x => cursor[u] \in freedStreams \/ UpTo(mStreams, cursor[u], x)
        BY <2>1, <3>2 DEF AtOK
      <4>2. handle'[Key[x]] = x => handle[Key[x]] = x /\ (gone => x # s)
        BY <1>13, TportAssumption
      <4>3. handle'[Key[x]] = x => cursor[u] \in freedStreams' \/ UpTo(mStreams', cursor[u], x)
        BY <1>11, <1>12, <4>1, <4>2
      <4> QED BY <1>14, <2>3, <4>1, <4>3
    <3>3. ASSUME at[u] = "empty"
          PROVE  \E d \in Clients : IsHead(u, Event("remove", d))' /\ d \in mReady /\ d \notin listed
      BY <1>14, <2>1, <2>3, <3>3 DEF AtOK
    <3> QED BY <1>10, <1>15, <2>3, <3>1, <3>2, <3>3 DEF AtOK
  <2> QED BY <2>2, <2>3
<1> QED BY <1>14, <1>22, <1>23, <1>24, <1>25, <1>26, <1>27, <1>28, <1>29, <1>30, <1>31, <1>32,
           <1>33, <1>34, <1>35, <1>36, <1>37 DEF Parts

\* What a step leaves alone when it changes neither streams, clients nor events.
LEMMA SameParts ==
  ASSUME Parts,
         mStreams' = mStreams, mStreamsLock' = mStreamsLock, mRemoved' = mRemoved, mWeights' = mWeights,
         handle' = handle, mThread' = mThread, mStreamReady' = mStreamReady,
         freedStreams' = freedStreams, failed' = failed, mRefCount' = mRefCount, mTopics' = mTopics,
         mTopic' = mTopic, mTportStream' = mTportStream, mTportTopic' = mTportTopic,
         mReady' = mReady, mDestroyed' = mDestroyed, pc' = pc, listed' = listed
  PROVE  /\ ListOK' /\ WeightsOK'
         /\ \A c \in Clients : StreamOK(c)' /\ TopicOK(c)' /\ RefCountOK(c)' /\ StreamOf(c)' = StreamOf(c)
         /\ \A c, s \in Clients : Holds(c, s)' <=> Holds(c, s)
<1>1. ListOK'
  BY DEF Parts, ListOK
<1>2. WeightsOK'
  BY DEF Parts, WeightsOK, Holds
<1>3. ASSUME NEW c \in Clients
      PROVE  StreamOK(c)' /\ TopicOK(c)' /\ RefCountOK(c)' /\ StreamOf(c)' = StreamOf(c)
  <2>1. StreamOK(c)'
    BY DEF Parts, StreamOK
  <2>2. TopicOK(c)'
    BY DEF Parts, TopicOK
  <2>3. RefCountOK(c)'
    BY DEF Parts, RefCountOK, Waiting, Early
  <2> QED BY <2>1, <2>2, <2>3 DEF StreamOf
<1> QED BY <1>1, <1>2, <1>3 DEF Holds

\* ... and no events.
LEMMA SameEvents ==
  ASSUME Parts, events' = events, mStreamsLock' = mStreamsLock, pc' = pc,
         mRemoved' = mRemoved, mStreamReady' = mStreamReady, handle' = handle, mThread' = mThread,
         freedStreams' = freedStreams, failed' = failed, listed' = listed, mReady' = mReady,
         mDestroyed' = mDestroyed, mTportStream' = mTportStream, mTportTopic' = mTportTopic,
         \A t \in Threads : at'[t] = "empty" <=> at[t] = "empty",
         tpc' # "open" <=> tpc # "open"
  PROVE  /\ OnceIn(events)' /\ ThreadOK'
         /\ \A c \in Clients : CreationOK(c)' /\ ReadyOK(c)' /\ EventOK(c)' /\ OrderOK(c)' /\ HolderOK(c)'
         /\ \A t \in Threads : \A f : IsHead(t, f)' <=> IsHead(t, f)
         /\ \A f : Pending(f)' <=> Pending(f)
<1>1. /\ \A u \in Threads : \A f : On(u, f)' <=> On(u, f)
      /\ \A f : Pending(f)' <=> Pending(f)
      /\ \A f, g : Before(f, g)' <=> Before(f, g)
      /\ \A u \in Threads : \A f : IsHead(u, f)' <=> IsHead(u, f)
  BY DEF On, Pending, Before, IsHead
<1>2. /\ \A c \in Clients : StreamOf(c)' = StreamOf(c)
      /\ \A c, s \in Clients : Holds(c, s)' <=> Holds(c, s)
  BY DEF StreamOf, Holds
<1>3. ThreadOK'
  BY <1>1, <1>2 DEF Parts, ThreadOK
<1>4. ASSUME NEW c \in Clients
      PROVE  CreationOK(c)' /\ ReadyOK(c)' /\ EventOK(c)' /\ OrderOK(c)' /\ HolderOK(c)'
  <2>0. CreationOK(c) /\ ReadyOK(c) /\ EventOK(c) /\ OrderOK(c) /\ HolderOK(c)
    BY DEF Parts
  <2>1. CreationOK(c)'
    BY <2>0 DEF CreationOK
  <2>2. ReadyOK(c)'
    BY <1>1, <2>0 DEF ReadyOK
  <2>3. EventOK(c)'
    BY <1>1, <1>2, <2>0 DEF EventOK
  <2>4. OrderOK(c)'
    BY <1>1, <1>2, <2>0 DEF OrderOK
  <2>5. Emptying(c)' <=> Emptying(c)
    BY <1>1 DEF Emptying
  <2>6. HolderOK(c)'
    BY <1>1, <1>2, <2>0, <2>5 DEF HolderOK
  <2> QED BY <2>1, <2>2, <2>3, <2>4, <2>6
<1> QED BY <1>1, <1>3, <1>4 DEF Parts

\* The handler passes a packet to the subscriptions on a topic.
LEMMA PacketStep ==
  ASSUME Parts, NEW t \in Threads, NEW topic \in Clients, Packet(t, topic)
  PROVE  Parts'
<1>1. PICK who : who = {x \in listed \cap Subs : mTportTopic[x] = topic} \ mDestroyed
  OBVIOUS
<1>2. Types
  BY DEF Parts
<1>3. /\ mStreams' = mStreams /\ mStreamsLock' = mStreamsLock /\ mRemoved' = mRemoved /\ mWeights' = mWeights
      /\ handle' = handle /\ mThread' = mThread /\ mStreamReady' = mStreamReady
      /\ freedStreams' = freedStreams /\ failed' = failed /\ mRefCount' = mRefCount /\ mTopics' = mTopics
      /\ mTopic' = mTopic /\ mTportStream' = mTportStream /\ mTportTopic' = mTportTopic
      /\ mReady' = mReady /\ mDestroyed' = mDestroyed /\ pc' = pc /\ listed' = listed
      /\ events' = events /\ at' = at /\ cursor' = cursor /\ tpc' = tpc
      /\ mStreamsWaiting' = mStreamsWaiting /\ freedClients' = freedClients /\ called' = called
      /\ Enqueue(who, "message") /\ mTportStream[topic] \in mStreamReady
  BY <1>1 DEF Packet, tportVars, streamVars, threadVars
<1>4. /\ \A x \in Clients : userQueue'[x] = (IF x \in who THEN Append(userQueue[x], "message") ELSE userQueue[x])
      /\ \A x \in Clients : clientRefs'[x] = (IF x \in who THEN clientRefs[x] + 1 ELSE clientRefs[x])
      /\ userQueue' \in [Clients -> Seq({"ready", "message"})]
      /\ clientRefs' \in [Clients -> Int]
  <2>1. /\ \A x \in Clients : userQueue[x] \in Seq({"ready", "message"})
        /\ \A x \in Clients : clientRefs[x] \in Int
    BY <1>2 DEF Types
  <2>2. /\ userQueue' = [x \in Clients |-> IF x \in who THEN Append(userQueue[x], "message") ELSE userQueue[x]]
        /\ clientRefs' = [x \in Clients |-> IF x \in who THEN clientRefs[x] + 1 ELSE clientRefs[x]]
    BY <1>3 DEF Enqueue
  <2>3. \A x \in Clients : Append(userQueue[x], "message") \in Seq({"ready", "message"})
    BY <2>1
  <2> QED BY <2>1, <2>2, <2>3
<1>5. \A x \in who : x \in Clients /\ x \in listed /\ x \in mReady
  <2>1. SUFFICES ASSUME NEW x \in who PROVE x \in Clients /\ x \in listed /\ x \in mReady
    OBVIOUS
  <2>2. x \in Clients /\ x \in listed /\ mTportTopic[x] = topic
    BY <1>1, <1>2 DEF Types
  <2>3. TopicOK(x) /\ ReadyOK(x)
    BY <2>2 DEF Parts
  <2>4. mTportTopic[x] # NULL /\ mTportStream[topic] = mTportStream[x]
    BY <2>2, <2>3, TportAssumption DEF TopicOK
  <2> QED BY <1>3, <2>2, <2>3, <2>4 DEF ReadyOK
<1>6. /\ ListOK' /\ WeightsOK'
      /\ \A c \in Clients : StreamOK(c)' /\ TopicOK(c)' /\ RefCountOK(c)'
  BY <1>3, SameParts
<1>7. /\ OnceIn(events)' /\ ThreadOK'
      /\ \A c \in Clients : CreationOK(c)' /\ ReadyOK(c)' /\ EventOK(c)' /\ OrderOK(c)' /\ HolderOK(c)'
      /\ \A u \in Threads : \A f : IsHead(u, f)' <=> IsHead(u, f)
      /\ \A f : Pending(f)' <=> Pending(f)
  BY <1>3, SameEvents
<1>8. Types'
  BY <1>2, <1>3, <1>4 DEF Types
<1>9. WaitingOK'
  BY <1>3, <1>7 DEF Parts, WaitingOK, Awaited
<1>10. ASSUME NEW x \in Clients PROVE ClientRefsOK(x)'
  <2>1. ClientRefsOK(x)
    BY DEF Parts
  <2>2. RemoveDone(x)' <=> RemoveDone(x)
    BY <1>3, <1>7 DEF RemoveDone
  <2>3. CASE x \notin who
    BY <1>3, <1>4, <2>1, <2>2, <2>3 DEF ClientRefsOK
  <2>4. CASE x \in who
    <3>1. userQueue[x] \in Seq({"ready", "message"})
      BY <1>2 DEF Types
    <3>2. Len(userQueue'[x]) = Len(userQueue[x]) + 1 /\ Len(userQueue[x]) \in Nat
      BY <1>4, <2>4, <3>1
    <3>3. ~RemoveDone(x)
      BY <1>5, <2>4 DEF RemoveDone
    <3>4. clientRefs[x] = Len(userQueue[x]) + 1
      BY <2>1, <3>3 DEF ClientRefsOK
    <3>5. clientRefs'[x] = Len(userQueue'[x]) + 1 /\ clientRefs'[x] # 0 /\ clientRefs[x] # 0
      BY <1>4, <2>4, <3>2, <3>4
    <3> QED BY <1>3, <2>1, <2>2, <3>3, <3>5 DEF ClientRefsOK
  <2> QED BY <2>3, <2>4
<1>11. ASSUME NEW x \in Clients PROVE UserQueueOK(x)'
  <2>1. UserQueueOK(x)
    BY DEF Parts
  <2>2. CASE x \notin who
    BY <1>3, <1>4, <2>1, <2>2 DEF UserQueueOK
  <2>3. CASE x \in who
    <3>1. userQueue[x] \in Seq({"ready", "message"})
      BY <1>2 DEF Types
    <3>2. PICK q : q = userQueue[x]
      OBVIOUS
    <3>3. q # << >> => Head(Append(q, "message")) = Head(q) /\ Append(q, "message") # << >>
      BY <3>1, <3>2
    <3> QED BY <1>3, <1>4, <1>5, <2>1, <2>3, <3>2, <3>3 DEF UserQueueOK
  <2> QED BY <2>2, <2>3
<1>12. ASSUME NEW u \in Threads PROVE AtOK(u)'
  BY <1>3, <1>7 DEF Parts, AtOK
<1> QED BY <1>6, <1>7, <1>8, <1>9, <1>10, <1>11, <1>12 DEF Parts

\* A callback of a client is called.
LEMMA QueueCallbackStep ==
  ASSUME Parts, NEW c \in Clients, QueueCallback(c)
  PROVE  Parts'
<1>2. Types
  BY DEF Parts
<1>3. /\ mStreams' = mStreams /\ mStreamsLock' = mStreamsLock /\ mRemoved' = mRemoved /\ mWeights' = mWeights
      /\ handle' = handle /\ mThread' = mThread /\ mStreamReady' = mStreamReady
      /\ freedStreams' = freedStreams /\ failed' = failed /\ mRefCount' = mRefCount /\ mTopics' = mTopics
      /\ mTopic' = mTopic /\ mTportStream' = mTportStream /\ mTportTopic' = mTportTopic
      /\ mReady' = mReady /\ mDestroyed' = mDestroyed /\ pc' = pc /\ listed' = listed
      /\ events' = events /\ at' = at /\ cursor' = cursor /\ tpc' = tpc
      /\ mStreamsWaiting' = mStreamsWaiting
  BY DEF QueueCallback, tportVars, streamVars, threadVars
<1>4. PICK q, d : q = userQueue[c] /\ d = (IF c \in mDestroyed THEN {} ELSE {Head(q)})
  OBVIOUS
<1>5. /\ q \in Seq({"ready", "message"}) /\ q # << >> /\ Len(q) \in Nat
      /\ Tail(q) \in Seq({"ready", "message"}) /\ Len(Tail(q)) = Len(q) - 1
      /\ Head(q) \in {"ready", "message"} /\ Len(q) >= 1
  <2>1. q \in Seq({"ready", "message"}) /\ q # << >>
    BY <1>2, <1>4 DEF QueueCallback, Types
  <2> QED BY <2>1
<1>6. /\ userQueue'[c] = Tail(q) /\ called'[c] = called[c] \cup d
      /\ \A x \in Clients : x # c => userQueue'[x] = userQueue[x] /\ called'[x] = called[x]
      /\ userQueue' \in [Clients -> Seq({"ready", "message"})]
      /\ called' \in [Clients -> SUBSET {"ready", "message"}]
  <2>1. called' = [called EXCEPT ![c] = @ \cup d]
    BY <1>4 DEF QueueCallback
  <2>2. userQueue' = [userQueue EXCEPT ![c] = Tail(@)]
    BY DEF QueueCallback
  <2>3. d \subseteq {"ready", "message"}
    BY <1>4, <1>5
  <2> QED BY <1>2, <1>4, <1>5, <2>1, <2>2, <2>3 DEF Types
<1>7. /\ \A x \in Clients : x # c => clientRefs'[x] = clientRefs[x] /\ (x \in freedClients' <=> x \in freedClients)
      /\ clientRefs'[c] = clientRefs[c] - 1
      /\ (c \in freedClients' <=> c \in freedClients \/ clientRefs[c] = 1)
      /\ clientRefs' \in [Clients -> Int] /\ freedClients' \subseteq Clients
  BY <1>2 DEF QueueCallback, DropClient, Types
<1>8. /\ ListOK' /\ WeightsOK'
      /\ \A x \in Clients : StreamOK(x)' /\ TopicOK(x)' /\ RefCountOK(x)'
  BY <1>3, SameParts
<1>9. /\ OnceIn(events)' /\ ThreadOK'
      /\ \A x \in Clients : CreationOK(x)' /\ ReadyOK(x)' /\ EventOK(x)' /\ OrderOK(x)' /\ HolderOK(x)'
      /\ \A u \in Threads : \A f : IsHead(u, f)' <=> IsHead(u, f)
      /\ \A f : Pending(f)' <=> Pending(f)
  BY <1>3, SameEvents
<1>10. Types'
  BY <1>2, <1>3, <1>6, <1>7 DEF Types
<1>11. WaitingOK'
  BY <1>3, <1>9 DEF Parts, WaitingOK, Awaited
<1>12. ASSUME NEW x \in Clients PROVE ClientRefsOK(x)'
  <2>1. ClientRefsOK(x)
    BY DEF Parts
  <2>2. RemoveDone(x)' <=> RemoveDone(x)
    BY <1>3, <1>9 DEF RemoveDone
  <2>3. CASE x # c
    BY <1>6, <1>7, <2>1, <2>2, <2>3 DEF ClientRefsOK
  <2>4. CASE x = c
    <3>1. PICK n : n = IF RemoveDone(x) THEN 0 ELSE 1
      OBVIOUS
    <3>2. n \in Nat /\ clientRefs[x] = Len(q) + n /\ (x \in freedClients <=> clientRefs[x] = 0)
      BY <1>4, <2>1, <2>4, <3>1 DEF ClientRefsOK
    <3>3. x \notin freedClients /\ clientRefs[x] - 1 = Len(Tail(q)) + n
          /\ (clientRefs[x] = 1 <=> clientRefs[x] - 1 = 0)
      BY <1>5, <3>2
    <3>4. clientRefs'[x] = Len(userQueue'[x]) + n /\ (x \in freedClients' <=> clientRefs'[x] = 0)
      BY <1>6, <1>7, <2>4, <3>3
    <3> QED BY <2>2, <3>1, <3>4 DEF ClientRefsOK
  <2> QED BY <2>3, <2>4
<1>13. ASSUME NEW x \in Clients PROVE UserQueueOK(x)'
  <2>1. UserQueueOK(x)
    BY DEF Parts
  <2>2. CASE x # c
    BY <1>3, <1>6, <2>1, <2>2 DEF UserQueueOK
  <2>3. CASE x = c
    <3>1. c \in mReady
      BY <1>4, <1>5, <2>1, <2>3 DEF UserQueueOK
    <3>2. c \in Notified \ mDestroyed => "ready" \in called'[c]
      <4>1. CASE "ready" \in called[c]
        BY <1>6, <4>1
      <4>2. CASE "ready" \notin called[c]
        BY <1>4, <1>6, <2>1, <2>3, <3>1, <4>2 DEF UserQueueOK
      <4> QED BY <4>1, <4>2
    <3>3. c \in mDestroyed => called'[c] = called[c]
      BY <1>4, <1>6
    <3>4. c \in Notified => ("message" \in called'[c] => "ready" \in called'[c])
      BY <2>1, <2>3, <3>2, <3>3 DEF UserQueueOK
    <3> QED BY <1>3, <2>3, <3>1, <3>2, <3>4 DEF UserQueueOK
  <2> QED BY <2>2, <2>3
<1>14. ASSUME NEW u \in Threads PROVE AtOK(u)'
  BY <1>3, <1>9 DEF Parts, AtOK
<1> QED BY <1>8, <1>9, <1>10, <1>11, <1>12, <1>13, <1>14 DEF Parts

\* The transport is freed.
LEMMA TportFreeStep ==
  ASSUME Parts, TportFree
  PROVE  Parts'
<1>2. Types
  BY DEF Parts
<1>3. /\ mStreams' = mStreams /\ mStreamsLock' = mStreamsLock /\ mRemoved' = mRemoved /\ mWeights' = mWeights
      /\ handle' = handle /\ mThread' = mThread /\ mStreamReady' = mStreamReady
      /\ freedStreams' = freedStreams /\ failed' = failed /\ mRefCount' = mRefCount /\ mTopics' = mTopics
      /\ mTopic' = mTopic /\ mTportStream' = mTportStream /\ mTportTopic' = mTportTopic
      /\ mReady' = mReady /\ mDestroyed' = mDestroyed /\ pc' = pc /\ listed' = listed
      /\ events' = events /\ at' = at /\ cursor' = cursor /\ tpc = "waiting" /\ tpc' = "freed"
      /\ mStreamsWaiting' = mStreamsWaiting /\ mStreamsWaiting = 0
      /\ userQueue' = userQueue /\ called' = called /\ clientRefs' = clientRefs
      /\ freedClients' = freedClients
  BY DEF TportFree, AllGone, streamVars, clientVars, threadVars, queueVars
<1>8. /\ ListOK' /\ WeightsOK'
      /\ \A x \in Clients : StreamOK(x)' /\ TopicOK(x)' /\ RefCountOK(x)'
  BY <1>3, SameParts
<1>9. /\ OnceIn(events)' /\ ThreadOK'
      /\ \A x \in Clients : CreationOK(x)' /\ ReadyOK(x)' /\ EventOK(x)' /\ OrderOK(x)' /\ HolderOK(x)'
      /\ \A u \in Threads : \A f : IsHead(u, f)' <=> IsHead(u, f)
      /\ \A f : Pending(f)' <=> Pending(f)
  BY <1>3, SameEvents
<1>10. Types'
  BY <1>2, <1>3 DEF Types
<1>11. WaitingOK'
  BY <1>3, <1>9 DEF Parts, WaitingOK, Awaited
<1>12. ASSUME NEW x \in Clients PROVE ClientRefsOK(x)' /\ UserQueueOK(x)'
  BY <1>3, <1>9 DEF Parts, ClientRefsOK, UserQueueOK, RemoveDone
<1>14. ASSUME NEW u \in Threads PROVE AtOK(u)'
  BY <1>3, <1>9 DEF Parts, AtOK
<1> QED BY <1>8, <1>9, <1>10, <1>11, <1>12, <1>14 DEF Parts

\* A thread starts its walk of mStreams, or goes on: it leaves out no stream.
LEMMA WalkStep ==
  ASSUME Parts, NEW t \in Threads, FirstDestroy(t) \/ Walk(t)
  PROVE  Parts'
<1>2. Types /\ events \in Queues /\ OnceIn(events)
  BY DEF Parts, Types
<1>3. /\ mStreams' = mStreams /\ mStreamsLock' = mStreamsLock /\ mRemoved' = mRemoved /\ mWeights' = mWeights
      /\ handle' = handle /\ mThread' = mThread /\ mStreamReady' = mStreamReady
      /\ freedStreams' = freedStreams /\ failed' = failed /\ mRefCount' = mRefCount /\ mTopics' = mTopics
      /\ mTopic' = mTopic /\ mTportStream' = mTportStream /\ mTportTopic' = mTportTopic
      /\ mReady' = mReady /\ mDestroyed' = mDestroyed /\ pc' = pc /\ listed' = listed
      /\ events' = events /\ tpc' = tpc
      /\ mStreamsWaiting' = mStreamsWaiting
      /\ userQueue' = userQueue /\ called' = called /\ clientRefs' = clientRefs
      /\ freedClients' = freedClients
  BY DEF FirstDestroy, Walk, tportVars, streamVars, clientVars, queueVars
<1>4. mStreams \in Seq(Clients) /\ Len(mStreams) \in Nat
      /\ \A k \in 1..Len(mStreams) : mStreams[k] \in Clients
  BY <1>2 DEF Types
<1>5. PICK s, next :
        /\ s \in Clients /\ IsHead(t, Event("first", s)) /\ at[t] # "empty"
        /\ at' = [at EXCEPT ![t] = "walk"] /\ cursor' = [cursor EXCEPT ![t] = next]
        /\ next # NULL => Has(mStreams, next) /\ next \in Clients
        /\ handle[Key[s]] = s => next \in freedStreams \/ UpTo(mStreams, next, s)
        /\ next \in Clients \cup {NULL}
  <2>1. CASE FirstDestroy(t)
    <3>1. PICK s, next : s = Of(t) /\ next = FirstOrNull(mStreams)
      OBVIOUS
    <3>2. s \in Clients /\ IsHead(t, Event("first", s)) /\ at[t] = "loop"
      BY <1>2, <2>1, <3>1, Running DEF FirstDestroy, Fired
    <3>3. at' = [at EXCEPT ![t] = "walk"] /\ cursor' = [cursor EXCEPT ![t] = next]
      BY <2>1, <3>1 DEF FirstDestroy
    <3>4. /\ mStreams # << >> => 1 \in 1..Len(mStreams) /\ next = mStreams[1]
          /\ mStreams = << >> => next = NULL
      BY <1>4, <3>1 DEF FirstOrNull
    <3>5. (next # NULL => Has(mStreams, next) /\ next \in Clients) /\ next \in Clients \cup {NULL}
      BY <1>4, <3>4 DEF Has
    <3>6. ASSUME handle[Key[s]] = s PROVE UpTo(mStreams, next, s)
      <4>1. Has(mStreams, s)
        BY <3>2, <3>6 DEF Parts, ListOK
      <4>2. PICK k \in 1..Len(mStreams) : mStreams[k] = s
        BY <4>1 DEF Has
      <4>3. mStreams # << >> /\ 1 <= k
        BY <1>4, <4>2
      <4> QED BY <3>4, <4>2, <4>3 DEF UpTo
    <3> QED BY <3>2, <3>3, <3>5, <3>6
  <2>2. CASE Walk(t)
    <3>1. PICK s, z, next : s = Of(t) /\ z = cursor[t] /\ next = NextStream(z)
      OBVIOUS
    <3>2. at[t] = "walk" /\ z # NULL /\ z # s /\ z \notin freedStreams
      BY <2>2, <3>1 DEF Walk
    <3>3. PICK x \in Clients :
            /\ IsHead(t, Event("first", x))
            /\ handle[Key[x]] = x => z \in freedStreams \/ UpTo(mStreams, z, x)
      BY <3>1, <3>2 DEF Parts, AtOK
    <3>4. x = s
      BY <1>2, <3>1, <3>3, Running
    <3>5. Has(mStreams, z)
      BY <3>1, <3>2 DEF Parts, AtOK
    <3>6. at' = [at EXCEPT ![t] = "walk"] /\ cursor' = [cursor EXCEPT ![t] = next]
      BY <1>2, <2>2, <3>1, <3>2 DEF Walk, Types
    <3>7. PICK k : k = CHOOSE i \in 1..Len(mStreams) : mStreams[i] = z
      OBVIOUS
    <3>8. k \in 1..Len(mStreams) /\ mStreams[k] = z
      BY <3>5, <3>7 DEF Has
    <3>9. next = IF k = Len(mStreams) THEN NULL ELSE mStreams[k + 1]
      BY <3>1, <3>7 DEF NextStream
    <3>10. k # Len(mStreams) => k + 1 \in 1..Len(mStreams)
      BY <1>4, <3>8
    <3>11. (next # NULL => Has(mStreams, next) /\ next \in Clients) /\ next \in Clients \cup {NULL}
      BY <1>4, <3>9, <3>10 DEF Has
    <3>12. ASSUME handle[Key[s]] = s PROVE UpTo(mStreams, next, s)
      <4>1. UpTo(mStreams, z, s)
        BY <3>2, <3>3, <3>4, <3>12
      <4>2. PICK i, j \in 1..Len(mStreams) : i <= j /\ mStreams[i] = z /\ mStreams[j] = s
        BY <4>1 DEF UpTo
      <4>3. i = k
        BY <3>8, <4>2 DEF Parts, ListOK, Distinct
      <4>4. i # j
        BY <3>2, <4>2
      <4>5. k # Len(mStreams) /\ k + 1 <= j
        BY <1>4, <3>8, <4>2, <4>3, <4>4
      <4> QED BY <3>9, <3>10, <4>2, <4>5 DEF UpTo
    <3> QED BY <3>2, <3>3, <3>4, <3>6, <3>11, <3>12
  <2> QED BY <2>1, <2>2
<1>6. /\ at'[t] = "walk" /\ \A u \in Threads : u # t => at'[u] = at[u] /\ cursor'[u] = cursor[u]
      /\ cursor'[t] = next
      /\ at' \in [Threads -> {"loop", "empty", "walk"}]
      /\ cursor' \in [Threads -> Clients \cup {NULL}]
  BY <1>2, <1>5 DEF Types
<1>7. \A u \in Threads : at'[u] = "empty" <=> at[u] = "empty"
  BY <1>5, <1>6
<1>8. /\ ListOK' /\ WeightsOK'
      /\ \A x \in Clients : StreamOK(x)' /\ TopicOK(x)' /\ RefCountOK(x)'
  BY <1>3, SameParts
<1>9. /\ OnceIn(events)' /\ ThreadOK'
      /\ \A x \in Clients : CreationOK(x)' /\ ReadyOK(x)' /\ EventOK(x)' /\ OrderOK(x)' /\ HolderOK(x)'
      /\ \A u \in Threads : \A f : IsHead(u, f)' <=> IsHead(u, f)
      /\ \A f : Pending(f)' <=> Pending(f)
  BY <1>3, <1>7, SameEvents
<1>10. Types'
  BY <1>2, <1>3, <1>6 DEF Types
<1>11. WaitingOK'
  BY <1>3, <1>9 DEF Parts, WaitingOK, Awaited
<1>12. ASSUME NEW x \in Clients PROVE ClientRefsOK(x)' /\ UserQueueOK(x)'
  BY <1>3, <1>9 DEF Parts, ClientRefsOK, UserQueueOK, RemoveDone
<1>13. ASSUME NEW u \in Threads PROVE AtOK(u)'
  <2>1. AtOK(u)
    BY DEF Parts
  <2>2. CASE u = t
    BY <1>3, <1>5, <1>6, <1>9, <2>2 DEF AtOK
  <2>3. CASE u # t
    BY <1>3, <1>6, <1>9, <2>1, <2>3 DEF AtOK
  <2> QED BY <2>2, <2>3
<1> QED BY <1>8, <1>9, <1>10, <1>11, <1>12, <1>13 DEF Parts

\* sbfTport_destroy queues the first callback of every stream on the list.
LEMMA TportDestroyStep ==
  ASSUME Parts, TportDestroy
  PROVE  Parts'
<1>1. Types /\ events \in Queues /\ OnceIn(events) /\ tpc = "open" /\ tpc' = "waiting"
      /\ mStreamsWaiting' = Len(mStreams) /\ \A c \in Clients : pc[c] \in {"none", "created"}
  BY DEF TportDestroy, Parts, Types
<1>2. mStreams \in Seq(Clients) /\ Distinct(mStreams) /\ mThread \in [Clients -> Threads]
      /\ \A s \in Clients : Has(mStreams, s) <=> handle[Key[s]] = s
      /\ \A k \in 1..Len(mStreams) : mStreams[k] \in Clients
  BY <1>1 DEF Parts, ListOK, Types
<1>3. /\ mStreams' = mStreams /\ mStreamsLock' = mStreamsLock /\ mRemoved' = mRemoved /\ mWeights' = mWeights
      /\ handle' = handle /\ mThread' = mThread /\ mStreamReady' = mStreamReady
      /\ freedStreams' = freedStreams /\ failed' = failed /\ mRefCount' = mRefCount /\ mTopics' = mTopics
      /\ mTopic' = mTopic /\ mTportStream' = mTportStream /\ mTportTopic' = mTportTopic
      /\ mReady' = mReady /\ mDestroyed' = mDestroyed /\ pc' = pc /\ listed' = listed
      /\ at' = at /\ cursor' = cursor
      /\ userQueue' = userQueue /\ called' = called /\ clientRefs' = clientRefs
      /\ freedClients' = freedClients
  BY DEF TportDestroy, streamVars, clientVars, queueVars
<1>4. \A u \in Threads : \A x \in Clients, k \in DestroyKinds : ~On(u, Event(k, x))
  BY <1>1 DEF Parts, ThreadOK
<1>5. WithFirsts(events, mThread, mStreams, Len(mStreams), events')
  <2>1. PICK F : F = events'
    OBVIOUS
  <2>2. FirstsQueued(events, mThread, mStreams, events')
    BY DEF TportDestroy, FirstsQueued, Firsts
  <2>3. FirstsQueued(events, mThread, mStreams, F)
    BY <2>1, <2>2
  <2>4. \A u \in Threads : \A k \in 1..Len(mStreams) : ~OnIn(events, u, Event("first", mStreams[k]))
    BY <1>2, <1>4 DEF On, DestroyKinds
  <2>5. \A j, k \in 1..Len(mStreams) : mStreams[j] = mStreams[k] => j = k
    BY <1>2 DEF Distinct
  <2>6. WithFirsts(events, mThread, mStreams, Len(mStreams), F)
    BY <1>1, <1>2, <2>3, <2>4, <2>5, FirstsIn
  <2> QED BY <2>1, <2>6
<1>6. /\ events' \in Queues /\ OnceIn(events)'
      /\ \A u \in Threads : \A f : On(u, f)' <=> \/ On(u, f)
                                                  \/ \E s \in Clients : /\ handle[Key[s]] = s
                                                                        /\ u = mThread[s] /\ f = Event("first", s)
      /\ \A f, g : Before(f, g) => Before(f, g)'
      /\ \A s \in Clients : handle[Key[s]] = s =>
           \A f : On(mThread[s], f) => Before(f, Event("first", s))'
      /\ \A u \in Threads : \A f : IsHead(u, f) => IsHead(u, f)'
  <2>1. events' \in Queues /\ OnceIn(events)'
    BY <1>5 DEF WithFirsts
  <2>2. ASSUME NEW u \in Threads, NEW f
        PROVE  On(u, f)' <=> \/ On(u, f)
                             \/ \E s \in Clients : /\ handle[Key[s]] = s
                                                   /\ u = mThread[s] /\ f = Event("first", s)
    <3>1. On(u, f)' <=> \/ On(u, f)
                        \/ \E k \in 1..Len(mStreams) : u = mThread[mStreams[k]] /\ f = Event("first", mStreams[k])
      BY <1>5 DEF WithFirsts, On
    <3>2. ASSUME NEW k \in 1..Len(mStreams), u = mThread[mStreams[k]], f = Event("first", mStreams[k])
          PROVE  \E s \in Clients : /\ handle[Key[s]] = s
                                    /\ u = mThread[s] /\ f = Event("first", s)
      <4>1. PICK s : s = mStreams[k]
        OBVIOUS
      <4>2. s \in Clients /\ Has(mStreams, s)
        BY <1>2, <4>1 DEF Has
      <4> QED BY <1>2, <3>2, <4>1, <4>2
    <3>3. ASSUME NEW s \in Clients, handle[Key[s]] = s, u = mThread[s], f = Event("first", s)
          PROVE  \E k \in 1..Len(mStreams) : u = mThread[mStreams[k]] /\ f = Event("first", mStreams[k])
      <4>1. Has(mStreams, s)
        BY <1>2, <3>3
      <4>2. PICK k \in 1..Len(mStreams) : mStreams[k] = s
        BY <4>1 DEF Has
      <4> QED BY <3>3, <4>2
    <3> QED BY <3>1, <3>2, <3>3
  <2>3. \A f, g : Before(f, g) => Before(f, g)'
    BY <1>5 DEF WithFirsts, Before
  <2>4. ASSUME NEW s \in Clients, handle[Key[s]] = s, NEW f, On(mThread[s], f)
        PROVE  Before(f, Event("first", s))'
    <3>1. Has(mStreams, s)
      BY <1>2, <2>4
    <3>2. PICK k \in 1..Len(mStreams) : mStreams[k] = s
      BY <3>1 DEF Has
    <3> QED BY <1>5, <2>4, <3>2 DEF WithFirsts, Before, On
  <2>5. \A u \in Threads : \A f : IsHead(u, f) => IsHead(u, f)'
    BY <1>5 DEF WithFirsts, IsHead
  <2> QED BY <2>1, <2>2, <2>3, <2>4, <2>5
<1>7. /\ \A x \in Clients, k \in ClientKinds : Pending(Event(k, x))' <=> Pending(Event(k, x))
      /\ \A u \in Threads : \A x \in Clients, k \in ClientKinds : On(u, Event(k, x))' <=> On(u, Event(k, x))
      /\ \A x \in Clients : Pending(Event("first", x))' <=> handle[Key[x]] = x
      /\ \A x \in Clients : ~Pending(Event("second", x))'
  <2>1. \A u \in Threads : \A x \in Clients, k \in ClientKinds : On(u, Event(k, x))' <=> On(u, Event(k, x))
    BY <1>6, EventFacts DEF ClientKinds
  <2>2. \A u \in Threads : \A x \in Clients : On(u, Event("first", x))' <=> handle[Key[x]] = x /\ u = mThread[x]
    BY <1>4, <1>6, EventFacts DEF DestroyKinds
  <2>3. \A u \in Threads : \A x \in Clients : ~On(u, Event("second", x))'
    BY <1>4, <1>6, EventFacts DEF DestroyKinds
  <2>4. \A x \in Clients : Pending(Event("first", x))' <=> handle[Key[x]] = x
    BY <1>2, <2>2 DEF Pending
  <2> QED BY <2>1, <2>3, <2>4 DEF Pending
<1>8. /\ ListOK' /\ WeightsOK'
      /\ \A x \in Clients : StreamOK(x)' /\ TopicOK(x)' /\ RefCountOK(x)' /\ StreamOf(x)' = StreamOf(x)
      /\ \A x, s \in Clients : Holds(x, s)' <=> Holds(x, s)
  BY <1>3, SameParts
<1>9. \A x \in Clients : Emptying(x)' <=> Emptying(x)
  BY <1>3, <1>6, SameEmptying
<1>10. Types'
  BY <1>1, <1>2, <1>3, <1>6 DEF Types
<1>11. ThreadOK'
  <2>1. ASSUME NEW u \in Threads, NEW x \in Clients, NEW k \in ClientKinds, On(u, Event(k, x))'
        PROVE  pc'[x] # "none" /\ StreamOf(x)' # NULL /\ u = mThread'[StreamOf(x)']
    BY <1>3, <1>7, <1>8, <2>1 DEF Parts, ThreadOK
  <2>2. ASSUME NEW u \in Threads, NEW x \in Clients, NEW k \in DestroyKinds, On(u, Event(k, x))'
        PROVE  mTportStream[x] = x /\ u = mThread[x]
    <3>1. handle[Key[x]] = x /\ u = mThread[x]
      BY <1>4, <1>6, <2>2, EventFacts
    <3>2. StreamOK(x) /\ x # NULL
      BY TportAssumption DEF Parts
    <3> QED BY <1>1, <3>1, <3>2 DEF StreamOK
  <2> QED BY <1>1, <1>3, <2>1, <2>2 DEF ThreadOK
<1>12. WaitingOK'
  <2>1. Awaited' = {s \in Clients : Has(mStreams, s)}
    BY <1>2, <1>7 DEF Awaited
  <2>2. Cardinality({s \in Clients : Has(mStreams, s)}) = Len(mStreams)
    BY <1>2, ListCardinality
  <2> QED BY <1>1, <2>1, <2>2 DEF WaitingOK
<1>13. ASSUME NEW x \in Clients PROVE CreationOK(x)' /\ ReadyOK(x)' /\ EventOK(x)'
  <2>0. CreationOK(x) /\ ReadyOK(x) /\ EventOK(x)
    BY DEF Parts
  <2>1. CreationOK(x)'
    BY <1>1, <1>3, <2>0 DEF CreationOK
  <2>2. ReadyOK(x)'
    BY <1>3, <1>7, <2>0 DEF ReadyOK, ClientKinds
  <2>3. EventOK(x)'
    BY <1>3, <1>6, <1>7, <1>8, <2>0 DEF EventOK, ClientKinds
  <2> QED BY <2>1, <2>2, <2>3
<1>14. ASSUME NEW x \in Clients PROVE OrderOK(x)'
  <2>1. OrderOK(x)
    BY DEF Parts
  <2>2. ASSUME NEW c \in Clients, NEW k \in ClientKinds, Pending(Event(k, c)), StreamOf(c) = x
        PROVE  Before(Event(k, c), Event("first", x))'
    <3>1. PICK u \in Threads : On(u, Event(k, c))
      BY <2>2 DEF Pending
    <3>2. pc[c] = "created" /\ u = mThread[x]
      BY <1>1, <2>2, <3>1 DEF Parts, ThreadOK
    <3>3. CreationOK(c) /\ StreamOK(c) /\ EventOK(c) /\ StreamOK(x) /\ HolderOK(x)
      BY DEF Parts
    <3>4. mTportStream[c] = x /\ mTportStream[x] = x
      BY <2>2, <3>2, <3>3 DEF CreationOK, StreamOf, StreamOK
    <3>5. Holds(c, x) \/ Emptying(x)
      <4>1. CASE mTportTopic[c] = NULL \/ c \in listed
        BY <3>2, <3>4, <4>1 DEF Holds
      <4>2. CASE mTportTopic[c] # NULL /\ c \notin listed
        <5>1. k = "remove"
          BY <2>2, <3>3, <4>2 DEF EventOK, ClientKinds
        <5> QED BY <2>2, <3>3, <3>4, <4>2, <5>1 DEF EventOK, Emptying
      <4> QED BY <4>1, <4>2
    <3>6. x \notin freedStreams
      BY <3>3, <3>5 DEF HolderOK
    <3>7. handle[Key[x]] = x
      BY <3>3, <3>4, <3>6 DEF StreamOK
    <3> QED BY <1>6, <3>1, <3>2, <3>7
  <2> QED BY <1>3, <1>6, <1>7, <1>8, <2>1, <2>2 DEF OrderOK, ClientKinds
<1>15. ASSUME NEW x \in Clients PROVE HolderOK(x)'
  <2>1. HolderOK(x)
    BY DEF Parts
  <2> QED BY <1>3, <1>7, <1>8, <1>9, <2>1 DEF HolderOK
<1>16. ASSUME NEW x \in Clients PROVE ClientRefsOK(x)' /\ UserQueueOK(x)'
  BY <1>3, <1>7 DEF Parts, ClientRefsOK, UserQueueOK, RemoveDone, ClientKinds
<1>17. ASSUME NEW u \in Threads PROVE AtOK(u)'
  BY <1>3, <1>6 DEF Parts, AtOK
<1> QED BY <1>6, <1>8, <1>10, <1>11, <1>12, <1>13, <1>14, <1>15, <1>16, <1>17 DEF Parts

\* The walk finds the stream: its clients are destroyed, the second callback is
\* behind the events of all.
LEMMA DestroyClientsStep ==
  ASSUME Parts, NEW t \in Threads, DestroyClients(t)
  PROVE  Parts'
<1>1. PICK s, who : s = Of(t) /\ who = {c \in listed : mTportTopic[c] \in mTopics[s]} \ mDestroyed
  OBVIOUS
<1>2. Types /\ events \in Queues /\ OnceIn(events) /\ at[t] = "walk"
  BY DEF DestroyClients, Parts, Types
<1>3. s \in Clients /\ IsHead(t, Event("first", s)) /\ On(t, Event("first", s))
      /\ Pending(Event("first", s))
  <2>1. PICK x \in Clients : IsHead(t, Event("first", x))
    BY <1>2 DEF Parts, AtOK
  <2>2. Of(t) = x
    BY <1>2, <2>1, Running
  <2> QED BY <1>1, <1>2, <2>1, <2>2, Queued
<1>4. mTportStream[s] = s /\ t = mThread[s] /\ tpc # "open" /\ ~Pending(Event("second", s))
      /\ \A x \in Clients : pc[x] \notin {"placed", "set"}
  <2>1. mTportStream[s] = s /\ t = mThread[s] /\ tpc # "open"
    BY <1>3 DEF Parts, ThreadOK, DestroyKinds
  <2> QED BY <1>3, <2>1 DEF Parts, HolderOK, CreationOK
<1>5. \A c \in who : /\ c \in Clients /\ c \in listed /\ c \notin mDestroyed
                     /\ mTportStream[c] = s /\ mTportTopic[c] # NULL /\ pc[c] = "created"
                     /\ StreamOf(c) = s /\ ~Pending(Event("remove", c)) /\ ~Pending(Event("add", c))
                     /\ c \notin mRemoved
  <2>1. SUFFICES ASSUME NEW c \in who
        PROVE  /\ c \in Clients /\ c \in listed /\ c \notin mDestroyed
               /\ mTportStream[c] = s /\ mTportTopic[c] # NULL /\ pc[c] = "created"
               /\ StreamOf(c) = s /\ ~Pending(Event("remove", c)) /\ ~Pending(Event("add", c))
               /\ c \notin mRemoved
    OBVIOUS
  <2>2. c \in Clients /\ c \in listed /\ c \notin mDestroyed /\ mTportTopic[c] \in mTopics[s]
    BY <1>1, <1>2 DEF Types
  <2>3. PICK o \in Clients : o = mTportTopic[c]
    BY <1>2, <1>3, <2>2 DEF Types
  <2>4. TopicOK(c) /\ TopicOK(o) /\ CreationOK(c) /\ EventOK(c)
    BY <2>2 DEF Parts
  <2>5. o # NULL /\ s # NULL
    BY <1>3, TportAssumption
  <2>6. mTportStream[o] = s
    BY <1>3, <2>2, <2>3, <2>4 DEF TopicOK
  <2>7. mTportStream[c] = s
    BY <2>3, <2>4, <2>5, <2>6 DEF TopicOK
  <2>8. pc[c] = "created"
    BY <1>2, <1>4, <2>2, <2>4, <2>5, <2>7 DEF CreationOK, Types
  <2>9. StreamOf(c) = s
    BY <2>5, <2>7 DEF StreamOf
  <2> QED BY <2>2, <2>3, <2>4, <2>5, <2>7, <2>8, <2>9 DEF EventOK
<1>6. /\ mStreams' = mStreams /\ mStreamsLock' = mStreamsLock /\ mRemoved' = mRemoved /\ mWeights' = mWeights
      /\ handle' = handle /\ mThread' = mThread /\ mStreamReady' = mStreamReady
      /\ freedStreams' = freedStreams /\ failed' = failed /\ mRefCount' = mRefCount /\ mTopics' = mTopics
      /\ mTopic' = mTopic /\ mTportStream' = mTportStream /\ mTportTopic' = mTportTopic
      /\ mReady' = mReady /\ pc' = pc /\ listed' = listed
      /\ tpc' = tpc /\ mStreamsWaiting' = mStreamsWaiting
      /\ userQueue' = userQueue /\ called' = called /\ clientRefs' = clientRefs
      /\ freedClients' = freedClients
      /\ mDestroyed' = mDestroyed \cup who
      /\ at' = [at EXCEPT ![t] = "loop"] /\ cursor' = [cursor EXCEPT ![t] = NULL]
  BY <1>1 DEF DestroyClients, tportVars, streamVars, queueVars
<1>7. WithDestroys(events, t, s, who, events')
  <2>1. PICK F : F = events'
    OBVIOUS
  <2>2. PICK order \in SetToSeqs(who) : Destroying(events, t, s, order, events')
    BY <1>1 DEF DestroyClients, Destroying
  <2>3. Destroying(events, t, s, order, F)
    BY <2>1, <2>2
  <2>4. who \in SUBSET Clients /\ IsFiniteSet(who)
    BY <1>5, Cards
  <2>5. HeadIn(events, t, Event("first", s)) /\ \A u \in Threads : ~OnIn(events, u, Event("second", s))
    BY <1>3, <1>4 DEF IsHead, Pending, On
  <2>6. \A u \in Threads : \A c \in who : ~OnIn(events, u, Event("remove", c))
    BY <1>5 DEF Pending, On
  <2>7. WithDestroys(events, t, s, who, F)
    BY <1>2, <1>3, <2>3, <2>4, <2>5, <2>6, DestroyIn
  <2> QED BY <2>1, <2>7
<1>8. /\ events' \in Queues /\ OnceIn(events)'
      /\ \A u \in Threads : \A f :
           On(u, f)' <=> \/ On(u, f) /\ f # Event("first", s)
                         \/ u = t /\ \E c \in who : f = Event("remove", c)
                         \/ u = t /\ f = Event("second", s)
      /\ \A f, g : Before(f, g) /\ f # Event("first", s) => Before(f, g)'
      /\ \A f : On(t, f) /\ f # Event("first", s) => Before(f, Event("second", s))'
      /\ \A c \in who : Before(Event("remove", c), Event("second", s))'
      /\ \A u \in Threads : \A f : u # t /\ IsHead(u, f) => IsHead(u, f)'
  BY <1>7 DEF WithDestroys, On, Before, IsHead
<1>9. /\ \A x \in Clients, k \in {"complete", "add"} : Pending(Event(k, x))' <=> Pending(Event(k, x))
      /\ \A x \in Clients : Pending(Event("remove", x))' <=> Pending(Event("remove", x)) \/ x \in who
      /\ \A x \in Clients : Pending(Event("first", x))' <=> Pending(Event("first", x)) /\ x # s
      /\ \A x \in Clients : Pending(Event("second", x))' <=> Pending(Event("second", x)) \/ x = s
  <2>1. \A f : Pending(f)' <=> \/ Pending(f) /\ f # Event("first", s)
                               \/ \E c \in who : f = Event("remove", c)
                               \/ f = Event("second", s)
    BY <1>8 DEF Pending
  <2> QED BY <2>1, EventFacts
<1>10. /\ at'[t] = "loop" /\ \A u \in Threads : u # t => at'[u] = at[u] /\ cursor'[u] = cursor[u]
       /\ cursor'[t] = NULL
       /\ at' \in [Threads -> {"loop", "empty", "walk"}]
       /\ cursor' \in [Threads -> Clients \cup {NULL}]
  BY <1>2, <1>6 DEF Types
<1>11. /\ \A x \in Clients : StreamOf(x)' = StreamOf(x)
       /\ \A x, y \in Clients : Holds(x, y)' <=> Holds(x, y)
  BY <1>6 DEF StreamOf, Holds
<1>12. \A x \in Clients : Emptying(x)' <=> Emptying(x)
  <2>1. /\ \A u \in Threads : at'[u] = "empty" <=> at[u] = "empty"
        /\ \A u \in Threads : \A f : at[u] = "empty" /\ IsHead(u, f) => IsHead(u, f)'
    BY <1>2, <1>8, <1>10
  <2> QED BY <1>6, <2>1, SameEmptying
<1>13. Types'
  <2>1. mDestroyed' \subseteq Clients
    BY <1>2, <1>5, <1>6 DEF Types
  <2> QED BY <1>2, <1>6, <1>8, <1>10, <2>1 DEF Types
<1>14. ListOK'
  BY <1>6 DEF Parts, ListOK
<1>15. ThreadOK'
  <2>1. ASSUME NEW u \in Threads, NEW x \in Clients, NEW k \in ClientKinds, On(u, Event(k, x))'
        PROVE  pc'[x] # "none" /\ StreamOf(x)' # NULL /\ u = mThread'[StreamOf(x)']
    <3>1. On(u, Event(k, x)) \/ (u = t /\ x \in who)
      BY <1>8, <2>1, EventFacts DEF ClientKinds
    <3>2. CASE On(u, Event(k, x))
      BY <1>6, <1>11, <3>2 DEF Parts, ThreadOK
    <3>3. CASE u = t /\ x \in who
      <4>1. pc[x] = "created" /\ StreamOf(x) = s /\ s # NULL
        BY <1>3, <1>5, <3>3, TportAssumption
      <4> QED BY <1>4, <1>6, <1>11, <3>3, <4>1
    <3> QED BY <3>1, <3>2, <3>3
  <2>2. ASSUME NEW u \in Threads, NEW x \in Clients, NEW k \in DestroyKinds, On(u, Event(k, x))'
        PROVE  mTportStream[x] = x /\ u = mThread[x] /\ tpc # "open"
    <3>1. On(u, Event(k, x)) \/ (u = t /\ x = s)
      BY <1>8, <2>2, EventFacts DEF DestroyKinds
    <3> QED BY <1>4, <3>1 DEF Parts, ThreadOK
  <2> QED BY <1>6, <2>1, <2>2 DEF ThreadOK
<1>16. WaitingOK'
  <2>1. Awaited' = Awaited
    BY <1>3, <1>9 DEF Awaited
  <2> QED BY <1>6, <2>1 DEF Parts, WaitingOK
<1>17. WeightsOK'
  BY <1>6 DEF Parts, WeightsOK, Holds
<1>18. ASSUME NEW x \in Clients PROVE CreationOK(x)' /\ StreamOK(x)' /\ TopicOK(x)' /\ RefCountOK(x)'
  <2>1. CreationOK(x)' /\ StreamOK(x)'
    BY <1>6 DEF Parts, CreationOK, StreamOK
  <2>2. TopicOK(x)' /\ RefCountOK(x)'
    BY <1>6 DEF Parts, TopicOK, RefCountOK, Waiting, Early
  <2> QED BY <2>1, <2>2
<1>19. ASSUME NEW x \in Clients PROVE ReadyOK(x)'
  BY <1>6, <1>9 DEF Parts, ReadyOK
<1>20. ASSUME NEW x \in Clients PROVE EventOK(x)'
  <2>1. EventOK(x)
    BY DEF Parts
  <2>2. \A u \in Threads : at[u] = "empty" /\ IsHead(u, Event("remove", x)) =>
           at'[u] = "empty" /\ IsHead(u, Event("remove", x))'
    BY <1>2, <1>8, <1>10
  <2> QED BY <1>5, <1>6, <1>9, <1>11, <2>1, <2>2 DEF EventOK
<1>21. ASSUME NEW x \in Clients PROVE OrderOK(x)'
  <2>1. OrderOK(x)
    BY DEF Parts
  <2>2. ASSUME Pending(Event("complete", x))
        PROVE  \A c \in who : StreamOf(c) # x
    BY <1>5, <2>1, <2>2 DEF OrderOK
  <2>3. Event("complete", x) # Event("first", s) /\ Event("add", x) # Event("first", s)
        /\ \A c \in Clients, k \in ClientKinds : Event(k, c) # Event("first", s)
    BY EventFacts DEF ClientKinds
  <2>4. \A c \in Clients, k \in ClientKinds :
          Pending(Event(k, c))' => Pending(Event(k, c)) \/ (k = "remove" /\ c \in who)
    BY <1>9 DEF ClientKinds
  <2>5. Pending(Event("complete", x))' =>
       /\ \A c \in Clients : mTportStream'[c] = x => mTportTopic'[c] = NULL /\ c \notin mRemoved'
       /\ \A c \in Clients, kind \in ClientKinds :
            Pending(Event(kind, c))' /\ StreamOf(c)' = x /\ Event(kind, c) # Event("complete", x) =>
              Before(Event("complete", x), Event(kind, c))'
    BY <1>6, <1>8, <1>9, <1>11, <2>1, <2>2, <2>3, <2>4 DEF OrderOK
  <2>6. Pending(Event("add", x))' /\ Pending(Event("remove", x))' => Before(Event("add", x), Event("remove", x))'
    BY <1>5, <1>8, <1>9, <2>1, <2>3 DEF OrderOK
  <2>7. ASSUME NEW c \in Clients, NEW kind \in ClientKinds, Pending(Event(kind, c))', StreamOf(c) = x
        PROVE  Before(Event(kind, c), Event("first", x))' \/ Before(Event(kind, c), Event("second", x))'
    <3>1. CASE kind = "remove" /\ c \in who
      BY <1>5, <1>8, <2>7, <3>1
    <3>2. CASE Pending(Event(kind, c)) /\ x = s
      <4>1. PICK u \in Threads : On(u, Event(kind, c))
        BY <3>2 DEF Pending
      <4>2. u = t
        BY <1>4, <2>7, <3>2, <4>1 DEF Parts, ThreadOK
      <4> QED BY <1>8, <2>3, <3>2, <4>1, <4>2
    <3>3. CASE Pending(Event(kind, c)) /\ x # s
      BY <1>4, <1>8, <2>1, <2>3, <2>7, <3>3 DEF OrderOK
    <3> QED BY <2>4, <2>7, <3>1, <3>2, <3>3
  <2> QED BY <1>11, <2>5, <2>6, <2>7 DEF OrderOK
<1>22. ASSUME NEW x \in Clients PROVE HolderOK(x)'
  <2>1. HolderOK(x)
    BY DEF Parts
  <2>2. ASSUME s \notin failed, NEW c \in Clients, Holds(c, s)
        PROVE  Pending(Event("remove", c)) \/ c \in who
    <3>1. EventOK(c) /\ ReadyOK(c) /\ TopicOK(c) /\ OrderOK(s)
      BY <1>3 DEF Parts
    <3>2. mTportStream[c] = s /\ pc[c] = "created" /\ StreamOf(c) = s
      BY <1>3, <1>4, <2>2, TportAssumption DEF Holds, StreamOf
    <3>3. \A k \in ClientKinds : ~Pending(Event(k, c))
      <4>1. SUFFICES ASSUME NEW k \in ClientKinds, Pending(Event(k, c)) PROVE FALSE
        OBVIOUS
      <4>2. Before(Event(k, c), Event("first", s)) \/ Before(Event(k, c), Event("second", s))
        BY <1>4, <3>1, <3>2, <4>1 DEF OrderOK
      <4>3. ~Before(Event(k, c), Event("first", s))
        BY <1>2, <1>3, Queued
      <4>4. ~Before(Event(k, c), Event("second", s))
        BY <1>4 DEF Before, BeforeIn, Pending, On, OnIn
      <4> QED BY <4>2, <4>3, <4>4
    <3>4. mTportTopic[c] # NULL
      BY <2>2, <3>1, <3>2, <3>3 DEF EventOK, ClientKinds, ReadyOK
    <3>5. c \in listed /\ mTportTopic[c] \in mTopics[s]
      BY <2>2, <3>1, <3>2, <3>4 DEF Holds, TopicOK
    <3>6. c \notin mDestroyed
      BY <2>2, <3>1, <3>2, <3>3, <3>5 DEF EventOK, ClientKinds
    <3> QED BY <1>1, <3>5, <3>6
  <2> QED BY <1>3, <1>4, <1>6, <1>9, <1>11, <1>12, <2>1, <2>2 DEF HolderOK
<1>23. ASSUME NEW x \in Clients PROVE ClientRefsOK(x)'
  <2>1. RemoveDone(x)' <=> RemoveDone(x)
    BY <1>5, <1>6, <1>9 DEF RemoveDone
  <2> QED BY <1>6, <2>1 DEF Parts, ClientRefsOK
<1>24. ASSUME NEW x \in Clients PROVE UserQueueOK(x)'
  BY <1>6 DEF Parts, UserQueueOK
<1>25. ASSUME NEW u \in Threads PROVE AtOK(u)'
  <2>1. AtOK(u)
    BY DEF Parts
  <2>2. CASE u = t
    BY <1>10, <2>2 DEF AtOK
  <2>3. CASE u # t
    BY <1>6, <1>8, <1>10, <2>1, <2>3 DEF AtOK
  <2> QED BY <2>2, <2>3
<1> QED BY <1>8, <1>13, <1>14, <1>15, <1>16, <1>17, <1>18, <1>19, <1>20, <1>21, <1>22, <1>23,
           <1>24, <1>25 DEF Parts

\* A stream is gone, or found no longer: one less to wait for.
LEMMA SecondDestroyStep ==
  ASSUME Parts, NEW t \in Threads, SecondDestroy(t)
  PROVE  Parts'
<1>1. PICK s : s = Of(t)
  OBVIOUS
<1>2. Types /\ events \in Queues /\ OnceIn(events)
  BY DEF Parts, Types
<1>3. PICK kind :
        /\ kind \in DestroyKinds /\ s \in Clients /\ IsHead(t, Event(kind, s))
        /\ kind = "second" => at[t] = "loop"
        /\ kind = "first" => at[t] = "walk" /\ cursor[t] = NULL
  <2>1. CASE Fired(t, "second")
    BY <1>1, <1>2, <2>1, Running DEF Fired, DestroyKinds
  <2>2. CASE at[t] = "walk" /\ cursor[t] = NULL
    <3>1. PICK x \in Clients : IsHead(t, Event("first", x))
      BY <2>2 DEF Parts, AtOK
    <3>2. x = s
      BY <1>1, <1>2, <3>1, Running
    <3> QED BY <2>2, <3>1, <3>2 DEF DestroyKinds
  <2> QED BY <2>1, <2>2 DEF SecondDestroy
<1> DEFINE e == Event(kind, s)
<1>4. On(t, e) /\ Pending(e) /\ mTportStream[s] = s /\ t = mThread[s] /\ tpc # "open" /\ at[t] # "empty"
      /\ (kind = "first" \/ kind = "second")
  <2>1. On(t, e) /\ Pending(e)
    BY <1>2, <1>3, Queued
  <2> QED BY <1>3, <2>1 DEF Parts, ThreadOK, DestroyKinds
<1>5. /\ mStreams' = mStreams /\ mStreamsLock' = mStreamsLock /\ mRemoved' = mRemoved /\ mWeights' = mWeights
      /\ handle' = handle /\ mThread' = mThread /\ mStreamReady' = mStreamReady
      /\ freedStreams' = freedStreams /\ failed' = failed /\ mRefCount' = mRefCount /\ mTopics' = mTopics
      /\ mTopic' = mTopic /\ mTportStream' = mTportStream /\ mTportTopic' = mTportTopic
      /\ mReady' = mReady /\ pc' = pc /\ listed' = listed
      /\ tpc' = tpc /\ mStreamsWaiting' = mStreamsWaiting - 1
      /\ userQueue' = userQueue /\ called' = called /\ clientRefs' = clientRefs
      /\ freedClients' = freedClients /\ mDestroyed' = mDestroyed
      /\ Return(t)
  BY DEF SecondDestroy, CountDown, streamVars, clientVars, queueVars
<1>6. /\ events' \in Queues /\ OnceIn(events)'
      /\ \A u \in Threads : \A f : On(u, f)' <=> On(u, f) /\ f # e
      /\ \A f : Pending(f)' <=> Pending(f) /\ f # e
      /\ \A f, g : Before(f, g)' <=> Before(f, g) /\ f # e
      /\ \A u \in Threads : \A f : u # t /\ IsHead(u, f) => IsHead(u, f)'
  BY <1>2, <1>3, <1>5, Returns
<1>7. /\ at'[t] = "loop" /\ \A u \in Threads : u # t => at'[u] = at[u] /\ cursor'[u] = cursor[u]
      /\ cursor'[t] = NULL
      /\ at' \in [Threads -> {"loop", "empty", "walk"}]
      /\ cursor' \in [Threads -> Clients \cup {NULL}]
  BY <1>2, <1>5 DEF Return, Types
<1> HIDE DEF e
<1>8. /\ \A x \in Clients, k \in ClientKinds : Pending(Event(k, x))' <=> Pending(Event(k, x))
      /\ \A x \in Clients, k \in ClientKinds : Event(k, x) # e
      /\ \A x \in Clients, k \in DestroyKinds :
           Pending(Event(k, x))' <=> Pending(Event(k, x)) /\ ~(k = kind /\ x = s)
  <2>1. \A x \in Clients, k \in ClientKinds : Event(k, x) # e
    BY <1>4, EventFacts DEF e, ClientKinds
  <2> QED BY <1>6, <2>1, EventFacts DEF e
<1>9. /\ Awaited' = Awaited \ {s} /\ s \in Awaited
      /\ ~Pending(Event("first", s))' /\ ~Pending(Event("second", s))'
  <2>1. HolderOK(s)
    BY <1>3 DEF Parts
  <2>2. ~Pending(Event("first", s))' /\ ~Pending(Event("second", s))'
    BY <1>4, <1>3, <1>8, <2>1 DEF HolderOK, DestroyKinds, e
  <2>3. s \in Awaited
    BY <1>3, <1>4 DEF Awaited, e
  <2>4. \A x \in Clients : x # s => (Pending(Event("first", x))' <=> Pending(Event("first", x)))
                                   /\ (Pending(Event("second", x))' <=> Pending(Event("second", x)))
    BY <1>8 DEF DestroyKinds
  <2> QED BY <1>3, <2>2, <2>3, <2>4 DEF Awaited
<1>10. /\ ListOK' /\ WeightsOK'
       /\ \A x \in Clients : StreamOK(x)' /\ TopicOK(x)' /\ RefCountOK(x)' /\ StreamOf(x)' = StreamOf(x)
       /\ \A x, y \in Clients : Holds(x, y)' <=> Holds(x, y)
  BY <1>5, SameParts
<1>11. \A x \in Clients : Emptying(x)' <=> Emptying(x)
  <2>1. /\ \A u \in Threads : at'[u] = "empty" <=> at[u] = "empty"
        /\ \A u \in Threads : \A f : at[u] = "empty" /\ IsHead(u, f) => IsHead(u, f)'
    BY <1>4, <1>6, <1>7
  <2> QED BY <1>5, <2>1, SameEmptying
<1>12. Types'
  <2>1. mStreamsWaiting' \in Int
    BY <1>2, <1>5 DEF Types
  <2> QED BY <1>2, <1>5, <1>6, <1>7, <2>1 DEF Types
<1>13. ThreadOK'
  BY <1>5, <1>6, <1>10 DEF Parts, ThreadOK
<1>14. WaitingOK'
  <2>1. PICK A : A = Awaited
    OBVIOUS
  <2>2. A \in SUBSET Clients /\ s \in A
    BY <1>9, <2>1 DEF Awaited
  <2>3. Cardinality(A \ {s}) = Cardinality(A) - 1 /\ (Cardinality(A) = 0 => A = {})
    BY <2>2, Cards
  <2>4. mStreamsWaiting = Cardinality(A) /\ (tpc = "freed" => mStreamsWaiting = 0)
    BY <2>1 DEF Parts, WaitingOK
  <2>5. tpc # "freed"
    BY <2>2, <2>3, <2>4
  <2> QED BY <1>5, <1>9, <2>1, <2>3, <2>4, <2>5 DEF WaitingOK
<1>15. ASSUME NEW x \in Clients PROVE CreationOK(x)' /\ ReadyOK(x)' /\ EventOK(x)'
  <2>0. CreationOK(x) /\ ReadyOK(x) /\ EventOK(x)
    BY DEF Parts
  <2>1. CreationOK(x)'
    BY <1>5, <2>0 DEF CreationOK
  <2>2. ReadyOK(x)'
    BY <1>5, <1>8, <2>0 DEF ReadyOK, ClientKinds
  <2>3. \A u \in Threads : at[u] = "empty" /\ IsHead(u, Event("remove", x)) =>
           at'[u] = "empty" /\ IsHead(u, Event("remove", x))'
    BY <1>4, <1>6, <1>7
  <2>4. EventOK(x)'
    BY <1>5, <1>8, <1>10, <2>0, <2>3 DEF EventOK, ClientKinds
  <2> QED BY <2>1, <2>2, <2>4
<1>16. ASSUME NEW x \in Clients PROVE OrderOK(x)'
  <2>1. OrderOK(x)
    BY DEF Parts
  <2> QED BY <1>5, <1>6, <1>8, <1>10, <2>1 DEF OrderOK, ClientKinds
<1>17. handle[Key[s]] = s => s \in failed
  <2>1. SUFFICES ASSUME handle[Key[s]] = s, s \notin failed PROVE FALSE
    OBVIOUS
  <2>2. StreamOK(s) /\ HolderOK(s) /\ OrderOK(s) /\ s # NULL
    BY <1>3, TportAssumption DEF Parts
  <2>3. CASE kind = "first"
    <3>1. PICK x \in Clients :
            /\ IsHead(t, Event("first", x))
            /\ handle[Key[x]] = x => cursor[t] \in freedStreams \/ UpTo(mStreams, cursor[t], x)
      BY <1>3, <2>3 DEF Parts, AtOK
    <3>2. x = s
      BY <1>1, <1>2, <3>1, Running
    <3>3. NULL \in freedStreams \/ UpTo(mStreams, NULL, s)
      BY <1>3, <2>1, <2>3, <3>1, <3>2
    <3>4. mStreams \in Seq(Clients) /\ freedStreams \subseteq Clients
      BY <1>2 DEF Types
    <3> QED BY <3>3, <3>4, TportAssumption DEF UpTo
  <2>4. CASE kind = "second"
    <3>1. s \notin freedStreams
      BY <2>1, <2>2 DEF StreamOK
    <3>2. ~Emptying(s)
      <4>1. SUFFICES ASSUME Emptying(s) PROVE FALSE
        OBVIOUS
      <4>2. PICK u \in Threads, d \in Clients :
              at[u] = "empty" /\ IsHead(u, Event("remove", d)) /\ mTportStream[d] = s
        BY <4>1 DEF Emptying
      <4>3. u = mThread[StreamOf(d)]
        BY <4>2, Running2 DEF ClientKinds
      <4>4. StreamOf(d) = s
        BY <2>2, <4>2 DEF StreamOf
      <4> QED BY <1>4, <4>2, <4>3, <4>4
    <3>3. PICK c \in Clients : Holds(c, s)
      BY <1>4, <2>2, <3>1, <3>2 DEF HolderOK
    <3>4. Pending(Event("second", s))
      BY <1>4, <2>4 DEF e
    <3>5. Pending(Event("remove", c)) /\ ~Pending(Event("first", s))
      BY <2>1, <2>2, <3>3, <3>4 DEF HolderOK
    <3>6. StreamOf(c) = s
      BY <2>2, <3>3 DEF StreamOf, Holds
    <3>7. Before(Event("remove", c), Event("first", s)) \/ Before(Event("remove", c), Event("second", s))
      BY <1>4, <2>2, <3>5, <3>6 DEF OrderOK, ClientKinds
    <3>8. ~Before(Event("remove", c), Event("first", s))
      BY <3>5 DEF Before, BeforeIn, Pending, On, OnIn
    <3>9. ~Before(Event("remove", c), Event("second", s))
      BY <1>2, <1>3, <2>4, Queued
    <3> QED BY <3>7, <3>8, <3>9
  <2> QED BY <1>4, <2>3, <2>4
<1>18. ASSUME NEW x \in Clients PROVE HolderOK(x)'
  <2>1. HolderOK(x)
    BY DEF Parts
  <2>2. x # s => (Pending(Event("first", x))' <=> Pending(Event("first", x)))
                 /\ (Pending(Event("second", x))' <=> Pending(Event("second", x)))
    BY <1>8 DEF DestroyKinds
  <2>3. \A c \in Clients : Pending(Event("remove", c))' <=> Pending(Event("remove", c))
    BY <1>8 DEF ClientKinds
  <2> QED BY <1>5, <1>9, <1>10, <1>11, <1>17, <2>1, <2>2, <2>3 DEF HolderOK
<1>19. ASSUME NEW x \in Clients PROVE ClientRefsOK(x)' /\ UserQueueOK(x)'
  BY <1>5, <1>8 DEF Parts, ClientRefsOK, UserQueueOK, RemoveDone, ClientKinds
<1>20. ASSUME NEW u \in Threads PROVE AtOK(u)'
  <2>1. AtOK(u)
    BY DEF Parts
  <2>2. CASE u = t
    BY <1>7, <2>2 DEF AtOK
  <2>3. CASE u # t
    BY <1>5, <1>6, <1>7, <2>1, <2>3 DEF AtOK
  <2> QED BY <2>2, <2>3
<1> QED BY <1>6, <1>10, <1>12, <1>13, <1>14, <1>15, <1>16, <1>18, <1>19, <1>20 DEF Parts

-----------------------------------------------------------------------------
(* The invariant holds always. *)

\* sbfTport_create: nothing is queued, held or counted.
LEMMA InitParts == Init => Parts
<1> SUFFICES ASSUME Init PROVE Parts
  OBVIOUS
<1>1. /\ mStreams = << >> /\ Len(mStreams) = 0
      /\ \A t \in Threads : events[t] = << >> /\ Len(events[t]) = 0 /\ at[t] = "loop" /\ cursor[t] = NULL
      /\ \A c \in Clients : Key[c] \in Keys /\ handle[Key[c]] = NULL /\ pc[c] = "none"
      /\ \A c \in Clients : mTportStream[c] = NULL /\ mTportTopic[c] = NULL /\ mTopics[c] = {}
      /\ \A c \in Clients : clientRefs[c] = 1 /\ userQueue[c] = << >> /\ called[c] = {}
      /\ \A c \in Clients : c # NULL /\ mRefCount[c] = 0
      /\ mStreamReady = {} /\ failed = {} /\ freedStreams = {} /\ freedClients = {}
      /\ mReady = {} /\ mDestroyed = {} /\ mRemoved = {} /\ listed = {}
      /\ tpc = "open" /\ mStreamsLock = NULL /\ mStreamsWaiting = 0
  BY TportAssumption DEF Init, Keys
<1>2. /\ \A t \in Threads : \A e : ~On(t, e) /\ ~IsHead(t, e)
      /\ \A e : ~Pending(e)
      /\ \A e, f : ~Before(e, f)
      /\ OnceIn(events)
  BY <1>1 DEF On, OnIn, IsHead, HeadIn, Pending, Before, BeforeIn, OnceIn
<1>3. \A x : ~Has(mStreams, x)
  BY <1>1 DEF Has
<1>4. \A c, s \in Clients : ~Holds(c, s)
  BY <1>1 DEF Holds
<1>5. Types
  <2>1. 1 \in Threads
    BY TportAssumption DEF Threads
  <2>2. events \in Queues
    BY DEF Init, Queues
  <2> QED BY <2>1, <2>2 DEF Init, Types
<1>6. ListOK
  BY <1>1, <1>3 DEF ListOK, Distinct
<1>7. ThreadOK
  BY <1>2 DEF ThreadOK
<1>8. WaitingOK
  <2>1. Awaited = {}
    BY <1>2 DEF Awaited
  <2> QED BY <1>1, <2>1, Cards DEF WaitingOK
<1>9. WeightsOK
  <2>1. ASSUME NEW t \in Threads PROVE mWeights[t] = Sum(Weighed(t))
    <3>1. Weighed(t) = {}
      BY <1>1 DEF Weighed, Clients
    <3>2. Sum(Weighed(t)) = 0
      BY <3>1, SumFacts
    <3> QED BY <3>2 DEF Init
  <2> QED BY <2>1 DEF WeightsOK, Weighed, Sum
<1>10. ASSUME NEW c \in Clients
       PROVE  CreationOK(c) /\ StreamOK(c) /\ TopicOK(c) /\ ReadyOK(c) /\ EventOK(c)
  <2>1. CreationOK(c)
    BY <1>1 DEF CreationOK
  <2>2. StreamOK(c)
    BY <1>1 DEF StreamOK
  <2>3. TopicOK(c)
    BY <1>1 DEF TopicOK
  <2>4. ReadyOK(c)
    BY <1>1, <1>2 DEF ReadyOK
  <2>5. EventOK(c)
    BY <1>1, <1>2 DEF EventOK
  <2> QED BY <2>1, <2>2, <2>3, <2>4, <2>5
<1>11. ASSUME NEW c \in Clients
       PROVE  OrderOK(c) /\ HolderOK(c) /\ RefCountOK(c) /\ ClientRefsOK(c) /\ UserQueueOK(c)
  <2>1. OrderOK(c)
    BY <1>1, <1>2 DEF OrderOK
  <2>2. HolderOK(c)
    BY <1>1, <1>2, <1>4 DEF HolderOK, Emptying
  <2>3. RefCountOK(c)
    <3>1. PICK T, W, E : T = mTopics[c] /\ W = Waiting(c) /\ E = Early(c)
      OBVIOUS
    <3>2. T = {} /\ W = {} /\ E = {}
      BY <1>1, <3>1 DEF Waiting, Early
    <3>3. Cardinality(T) = 0 /\ Cardinality(W) = 0 /\ Cardinality(E) = 0
      BY <3>2, Cards
    <3> QED BY <1>1, <3>1, <3>3 DEF RefCountOK
  <2>4. ClientRefsOK(c)
    <3>1. ~RemoveDone(c)
      BY <1>1 DEF RemoveDone
    <3>2. Len(userQueue[c]) = 0
      BY <1>1
    <3>3. clientRefs[c] = Len(userQueue[c]) + IF RemoveDone(c) THEN 0 ELSE 1
      BY <1>1, <3>1, <3>2
    <3>4. c \notin freedClients /\ clientRefs[c] # 0
      BY <1>1
    <3> QED BY <3>3, <3>4 DEF ClientRefsOK
  <2>5. UserQueueOK(c)
    BY <1>1 DEF UserQueueOK
  <2> QED BY <2>1, <2>2, <2>3, <2>4, <2>5
<1>12. ASSUME NEW t \in Threads PROVE AtOK(t)
  BY <1>1 DEF AtOK
<1> QED BY <1>2, <1>5, <1>6, <1>7, <1>8, <1>9, <1>10, <1>11, <1>12 DEF Parts

\* A step that changes nothing.
LEMMA StutterParts ==
  ASSUME Parts, UNCHANGED vars
  PROVE  Parts'
<1>2. Types
  BY DEF Parts
<1>3. /\ mStreams' = mStreams /\ mStreamsLock' = mStreamsLock /\ mRemoved' = mRemoved /\ mWeights' = mWeights
      /\ handle' = handle /\ mThread' = mThread /\ mStreamReady' = mStreamReady
      /\ freedStreams' = freedStreams /\ failed' = failed /\ mRefCount' = mRefCount /\ mTopics' = mTopics
      /\ mTopic' = mTopic /\ mTportStream' = mTportStream /\ mTportTopic' = mTportTopic
      /\ mReady' = mReady /\ mDestroyed' = mDestroyed /\ pc' = pc /\ listed' = listed
      /\ events' = events /\ at' = at /\ cursor' = cursor /\ tpc' = tpc
      /\ mStreamsWaiting' = mStreamsWaiting
      /\ userQueue' = userQueue /\ called' = called /\ clientRefs' = clientRefs
      /\ freedClients' = freedClients
  BY DEF vars, tportVars, streamVars, clientVars, threadVars, queueVars
<1>8. /\ ListOK' /\ WeightsOK'
      /\ \A x \in Clients : StreamOK(x)' /\ TopicOK(x)' /\ RefCountOK(x)'
  BY <1>3, SameParts
<1>9. /\ OnceIn(events)' /\ ThreadOK'
      /\ \A x \in Clients : CreationOK(x)' /\ ReadyOK(x)' /\ EventOK(x)' /\ OrderOK(x)' /\ HolderOK(x)'
      /\ \A u \in Threads : \A f : IsHead(u, f)' <=> IsHead(u, f)
      /\ \A f : Pending(f)' <=> Pending(f)
  BY <1>3, SameEvents
<1>10. Types'
  BY <1>2, <1>3 DEF Types
<1>11. WaitingOK'
  BY <1>3, <1>9 DEF Parts, WaitingOK, Awaited
<1>12. ASSUME NEW x \in Clients PROVE ClientRefsOK(x)' /\ UserQueueOK(x)'
  BY <1>3, <1>9 DEF Parts, ClientRefsOK, UserQueueOK, RemoveDone
<1>14. ASSUME NEW u \in Threads PROVE AtOK(u)'
  BY <1>3, <1>9 DEF Parts, AtOK
<1> QED BY <1>8, <1>9, <1>10, <1>11, <1>12, <1>14 DEF Parts

\* Every step keeps the invariant, action by action.
LEMMA NextParts ==
  ASSUME Parts, OneKind, ~KeepsHandle, Next
  PROVE  Parts'
<1>1. ASSUME NEW c \in Clients, Create(c) PROVE Parts'
  BY <1>1, SetStreamStep, StoreStreamStep, HoldStreamStep DEF Create
<1>2. ASSUME NEW c \in Clients, Destroy(c) \/ QueueCallback(c) PROVE Parts'
  BY <1>2, DestroyStep, QueueCallbackStep
<1>3. ASSUME NEW t \in Threads, AddEvent(t) \/ AddStreamFails(t) \/ AddStreamComplete(t)
      PROVE Parts'
  BY <1>3, AddEventStep, AddStreamFailsStep, AddStreamCompleteStep
<1>4. ASSUME NEW t \in Threads, DeferRemove(t) \/ RemoveEvent(t) \/ RemoveStream(t)
      PROVE Parts'
  BY <1>4, DeferRemoveStep, RemoveEventStep, RemoveStreamStep
<1>5. ASSUME NEW t \in Threads,
             FirstDestroy(t) \/ Walk(t) \/ DestroyClients(t) \/ SecondDestroy(t)
      PROVE Parts'
  BY <1>5, WalkStep, DestroyClientsStep, SecondDestroyStep
<1>6. ASSUME NEW t \in Threads, NEW o \in Clients, Packet(t, o) PROVE Parts'
  BY <1>6, PacketStep
<1>7. CASE TportDestroy \/ TportFree
  BY <1>7, TportDestroyStep, TportFreeStep
<1> QED BY <1>1, <1>2, <1>3, <1>4, <1>5, <1>6, <1>7 DEF Next, EventStep

\* The invariant holds always, for a handler that forgets a stream it removes and
\* has none for both kinds of client.
LEMMA Invariance ==
  ASSUME OneKind, ~KeepsHandle
  PROVE  Spec => []IInv
<1>1. Init => IInv
  BY InitParts, Pack
<1>2. IInv /\ [Next]_vars => IInv'
  <2> SUFFICES ASSUME IInv, [Next]_vars PROVE IInv'
    OBVIOUS
  <2>1. Parts
    BY Unpack
  <2>2. CASE Next
    <3>1. Parts'
      BY <2>1, <2>2, NextParts
    <3> QED BY <3>1 DEF IInv, Parts, ClientOK
  <2>3. CASE UNCHANGED vars
    <3>1. Parts'
      BY <2>1, <2>3, StutterParts
    <3> QED BY <3>1 DEF IInv, Parts, ClientOK
  <2> QED BY <2>2, <2>3
<1> QED BY <1>1, <1>2, PTL DEF Spec

-----------------------------------------------------------------------------
(* What follows from it. *)

\* A callback that is queued is one of the known kinds for one of the clients.
LEMMA Queueing ==
  ASSUME Types, NEW t \in Threads, NEW k \in 1..Len(events[t])
  PROVE  /\ events[t][k][1] \in EventKinds /\ events[t][k][2] \in Clients
         /\ Pending(Event(events[t][k][1], events[t][k][2]))
<1>1. events[t] \in Seq(Callbacks)
  BY DEF Types, Queues
<1>2. PICK e : e = events[t][k]
  OBVIOUS
<1>3. e \in Callbacks
  BY <1>1, <1>2
<1>4. PICK kind \in EventKinds, c \in Clients : e = Event(kind, c)
  BY <1>3, EventFacts
<1>5. e[1] = kind /\ e[2] = c
  BY <1>4 DEF Event
<1>6. On(t, e)
  BY <1>2 DEF On, OnIn
<1> QED BY <1>2, <1>4, <1>5, <1>6 DEF Pending

\* What the transport, its streams, clients and threads count is never negative.
\* A stream is counted for more topics than there are clients whose add event
\* ran before they were counted: the lock lets through one such client, and its
\* own topic is counted.
LEMMA CountsNat ==
  ASSUME Parts
  PROVE  /\ mStreamsWaiting \in Nat
         /\ \A t \in Threads : mWeights[t] \in Nat
         /\ \A c \in Clients : mRefCount[c] \in Nat /\ clientRefs[c] \in Nat
<1>1. mStreamsWaiting \in Nat
  <2>1. Awaited \in SUBSET Clients
    BY DEF Awaited
  <2> QED BY <2>1, Cards DEF Parts, WaitingOK
<1>2. ASSUME NEW t \in Threads PROVE mWeights[t] \in Nat
  <2>1. Weighed(t) \in SUBSET Clients
    BY DEF Weighed, Clients
  <2>2. mWeights[t] = Sum(Weighed(t))
    BY DEF Parts, WeightsOK, Weighed, Sum
  <2> QED BY <2>1, <2>2, SumFacts
<1>3. ASSUME NEW s \in Clients PROVE mRefCount[s] \in Nat
  <2>1. PICK T, W, E : T = mTopics[s] /\ W = Waiting(s) /\ E = Early(s)
    OBVIOUS
  <2>2. T \in SUBSET Clients /\ W \in SUBSET Clients /\ E \in SUBSET Clients
    BY <2>1 DEF Types, Waiting, Early, Parts
  <2>3. mRefCount[s] = Cardinality(T) + Cardinality(W) - Cardinality(E)
    BY <2>1 DEF Parts, RefCountOK
  <2>4. Cardinality(T) \in Nat /\ Cardinality(W) \in Nat /\ Cardinality(E) \in Nat
    BY <2>2, Cards
  <2>5. CASE E = {}
    <3>1. Cardinality(E) = 0
      BY <2>5, Cards
    <3> QED BY <2>3, <2>4, <3>1
  <2>6. CASE E # {}
    <3>1. PICK c \in Clients : c \in E
      BY <2>2, <2>6
    <3>2. pc[c] = "set" /\ mTportTopic[c] # NULL /\ mTportStream[c] = s /\ mStreamsLock = c
      BY <2>1, <3>1 DEF Early, Parts, CreationOK
    <3>3. \A d \in E : d = c
      BY <2>1, <2>2, <3>2 DEF Early, Parts, CreationOK
    <3>4. c \in listed
      BY <3>2 DEF Parts, EventOK
    <3>5. mTportTopic[c] \in T
      BY <2>1, <3>2, <3>4 DEF Parts, TopicOK
    <3>6. T # {}
      BY <3>5
    <3>7. Cardinality(T) >= 1
      BY <2>2, <2>4, <3>6, Cards
    <3>8. PICK R : R = E \ {c}
      OBVIOUS
    <3>9. R = {}
      BY <3>3, <3>8
    <3>10. Cardinality(R) = Cardinality(E) - 1 /\ Cardinality(R) = 0
      BY <2>2, <3>1, <3>8, <3>9, Cards
    <3> QED BY <2>3, <2>4, <3>7, <3>10
  <2> QED BY <2>5, <2>6
<1>4. ASSUME NEW c \in Clients PROVE clientRefs[c] \in Nat
  <2>1. userQueue[c] \in Seq({"ready", "message"})
    BY DEF Parts, Types
  <2>2. Len(userQueue[c]) \in Nat
    BY <2>1
  <2>3. clientRefs[c] = Len(userQueue[c]) + IF RemoveDone(c) THEN 0 ELSE 1
    BY DEF Parts, ClientRefsOK
  <2>4. CASE RemoveDone(c)
    BY <2>2, <2>3, <2>4
  <2>5. CASE ~RemoveDone(c)
    BY <2>2, <2>3, <2>5
  <2> QED BY <2>4, <2>5
<1> QED BY <1>1, <1>2, <1>3, <1>4

\* The transport, its streams and its clients keep their types; no count of
\* references, of weights or of streams waited for falls below zero, though
\* creators and event threads change them in any order.
THEOREM TypeCorrect ==
  ASSUME OneKind, ~KeepsHandle
  PROVE  Spec => []TypeOK
<1>1. IInv => TypeOK
  <2> SUFFICES ASSUME IInv PROVE TypeOK
    OBVIOUS
  <2>1. Parts
    BY Unpack
  <2>2. Types
    BY <2>1 DEF Parts
  <2>3. /\ mStreamsWaiting \in Nat
        /\ \A t \in Threads : mWeights[t] \in Nat
        /\ \A c \in Clients : mRefCount[c] \in Nat /\ clientRefs[c] \in Nat
    BY <2>1, CountsNat
  <2>4. /\ mWeights \in [Threads -> Nat] /\ mRefCount \in [Clients -> Nat]
        /\ clientRefs \in [Clients -> Nat]
    BY <2>2, <2>3 DEF Types
  <2>5. events \in [Threads -> Seq(EventKinds \X Clients)]
    BY <2>2 DEF Types, Queues, Callbacks
  <2> QED BY <2>2, <2>3, <2>4, <2>5 DEF Types, TypeOK
<1> QED BY Invariance, <1>1, PTL

\* A stream is not freed while a publisher or a subscription holds it, whoever is
\* created on it between the steps of the event thread that frees it (sbfPub.c,
\* sbfSub.c), for any number of clients, streams and threads.
THEOREM StreamsHeld ==
  ASSUME OneKind, ~KeepsHandle
  PROVE  Spec => []StreamHeld
<1>1. IInv => StreamHeld
  <2> SUFFICES ASSUME IInv, NEW c \in Clients, NEW s \in freedStreams PROVE ~Holds(c, s)
    BY DEF StreamHeld
  <2>1. Parts
    BY Unpack
  <2>2. s \in Clients
    BY <2>1 DEF Parts, Types
  <2> QED BY <2>1, <2>2 DEF Parts, HolderOK
<1> QED BY Invariance, <1>1, PTL

\* sbfTport_findStream and mStreams agree on the streams that are not freed, the
\* reference count of a stream is that of its topics and of the clients on their
\* way to one, and the weight of a thread that of its subscriptions.
THEOREM StreamsCounted ==
  ASSUME OneKind, ~KeepsHandle
  PROVE  Spec => []StreamsOK
<1>1. IInv => StreamsOK
  <2> SUFFICES ASSUME IInv PROVE StreamsOK
    OBVIOUS
  <2>1. Parts
    BY Unpack
  <2>2. StreamsKnown
    <3> SUFFICES ASSUME NEW s \in Clients
                 PROVE  /\ handle[Key[s]] = s => Live(s)
                        /\ Has(mStreams, s) <=> handle[Key[s]] = s
      BY DEF StreamsKnown, Has
    <3>1. s # NULL
      BY TportAssumption
    <3> QED BY <2>1, <3>1 DEF Parts, StreamOK, ListOK, Live
  <2>3. RefsOK
    BY <2>1 DEF Parts, RefCountOK, RefsOK, Waiting, Early
  <2> QED BY <2>1, <2>2, <2>3 DEF Parts, StreamsOK
<1> QED BY Invariance, <1>1, PTL

\* A client is freed with its last reference, and none is left to it then: no
\* list, event or callback has it; and the topic of a listed client is in the
\* tree of its stream.
THEOREM ClientsKept ==
  ASSUME OneKind, ~KeepsHandle
  PROVE  Spec => []ClientsHeld
<1>1. IInv => ClientsHeld
  <2> SUFFICES ASSUME IInv PROVE ClientsHeld
    OBVIOUS
  <2>1. Parts
    BY Unpack
  <2>2. TopicHeld
    <3> SUFFICES ASSUME NEW c \in listed PROVE mTportTopic[c] \in mTopics[mTportStream[c]]
      BY DEF TopicHeld
    <3>1. c \in Clients
      BY <2>1 DEF Parts, Types
    <3> QED BY <2>1, <3>1 DEF Parts, TopicOK
  <2>3. ASSUME NEW c \in freedClients
        PROVE  c \notin listed /\ ~InEvents(c) /\ userQueue[c] = << >>
    <3>1. c \in Clients /\ userQueue[c] \in Seq({"ready", "message"})
      BY <2>1 DEF Parts, Types
    <3>2. clientRefs[c] = 0 /\ clientRefs[c] = Len(userQueue[c]) + IF RemoveDone(c) THEN 0 ELSE 1
      BY <2>1, <3>1 DEF Parts, ClientRefsOK
    <3>3. Len(userQueue[c]) \in Nat
      BY <3>1
    <3>4. RemoveDone(c)
      <4>1. SUFFICES ASSUME ~RemoveDone(c) PROVE FALSE
        OBVIOUS
      <4>2. Len(userQueue[c]) + 1 = 0
        BY <3>2, <4>1
      <4> QED BY <3>3, <4>2
    <3>5. Len(userQueue[c]) = 0
      BY <3>2, <3>3, <3>4
    <3>6. userQueue[c] = << >>
      BY <3>1, <3>5
    <3>7. \A kind \in ClientKinds : ~Pending(Event(kind, c))
      BY <2>1, <3>1, <3>4 DEF Parts, EventOK, RemoveDone, ClientKinds
    <3>8. ~InEvents(c)
      <4>1. SUFFICES ASSUME NEW t \in Threads, NEW k \in 1..Len(events[t]),
                            events[t][k][1] \in ClientKinds, events[t][k][2] = c
                     PROVE  FALSE
        BY DEF InEvents, ClientKinds
      <4>2. Types
        BY <2>1 DEF Parts
      <4>3. Pending(Event(events[t][k][1], c))
        BY <4>1, <4>2, Queueing
      <4> QED BY <3>7, <4>1, <4>3
    <3> QED BY <3>4, <3>6, <3>8 DEF RemoveDone
  <2> QED BY <2>2, <2>3 DEF ClientsHeld, ClientHeld
<1> QED BY Invariance, <1>1, PTL

\* sbfPubAddStreamCompleteCb finds no client on the lists and no remove that was
\* put off, because it runs before all the events of the stream it completes; and
\* an application that asked for it hears that a subscription is ready before it
\* gets a message.
THEOREM CallbacksOrdered ==
  ASSUME OneKind, ~KeepsHandle
  PROVE  Spec => []CallbackOrder
<1>1. IInv => CallbackOrder
  <2> SUFFICES ASSUME IInv PROVE CallbackOrder
    OBVIOUS
  <2>1. Parts /\ Types
    BY Unpack DEF IInv
  <2>2. ASSUME NEW s \in Clients, Pending(Event("complete", s))
        PROVE  s \notin mRemoved /\ \A c \in listed \cup mRemoved : mTportStream[c] # s
    <3>1. \A c \in Clients : mTportStream[c] = s => mTportTopic[c] = NULL /\ c \notin mRemoved
      BY <2>1, <2>2 DEF Parts, OrderOK
    <3>2. \A c \in listed : mTportTopic[c] # NULL /\ c \in Clients
      BY <2>1 DEF Parts, TopicOK, Types
    <3>3. s \notin mRemoved
      <4>1. SUFFICES ASSUME s \in mRemoved PROVE FALSE
        OBVIOUS
      <4>2. mTportStream[s] \in failed /\ mTportStream[s] \in Clients
        BY <2>1, <4>1 DEF Parts, EventOK, Types
      <4>3. StreamOf(s) = s
        BY <2>1, <2>2 DEF Parts, EventOK
      <4>4. mTportStream[s] = s
        BY <4>2, <4>3, TportAssumption DEF StreamOf
      <4> QED BY <3>1, <4>1, <4>4
    <3> QED BY <2>1, <3>1, <3>2, <3>3 DEF Types
  <2>3. CompleteFirst
    <3> SUFFICES ASSUME NEW t \in Threads, NEW k \in 1..Len(events[t]),
                        events[t][k][1] = "complete"
                 PROVE  LET s == events[t][k][2]
                        IN s \notin mRemoved /\ \A c \in listed \cup mRemoved : mTportStream[c] # s
      BY DEF CompleteFirst
    <3>1. events[t][k][2] \in Clients /\ Pending(Event("complete", events[t][k][2]))
      BY <2>1, Queueing
    <3> QED BY <2>2, <3>1
  <2>4. ReadyFirst
    BY <2>1 DEF Parts, UserQueueOK, ReadyFirst, Clients
  <2> QED BY <2>3, <2>4 DEF CallbackOrder
<1> QED BY Invariance, <1>1, PTL

\* sbfTport_destroy frees the transport when no event thread has a callback left
\* to run for it, and no stream is left but those that could not be added.
THEOREM TportFreedInTheEnd ==
  ASSUME OneKind, ~KeepsHandle
  PROVE  Spec => []TportFreedLast
<1>1. IInv => TportFreedLast
  <2> SUFFICES ASSUME IInv, tpc = "freed"
               PROVE  /\ \A t \in Threads : events[t] = << >>
                      /\ \A k \in 1..Len(mStreams) : mStreams[k] \in failed
    BY DEF TportFreedLast
  <2>1. Parts /\ Types
    BY Unpack DEF IInv
  <2>2. \A s \in Clients : ~Pending(Event("first", s)) /\ ~Pending(Event("second", s))
    <3>1. Awaited \in SUBSET Clients /\ Cardinality(Awaited) = 0
      BY <2>1 DEF Parts, WaitingOK, Awaited
    <3>2. Awaited = {}
      BY <3>1, Cards
    <3> QED BY <3>2 DEF Awaited
  <2>3. ASSUME NEW t \in Threads PROVE events[t] = << >>
    <3>1. SUFFICES ASSUME events[t] # << >> PROVE FALSE
      OBVIOUS
    <3>2. events[t] \in Seq(Callbacks)
      BY <2>1 DEF Types, Queues
    <3>3. 1 \in 1..Len(events[t])
      BY <3>1, <3>2
    <3>4. PICK kind \in EventKinds, c \in Clients : events[t][1] = Event(kind, c)
      BY <3>2, <3>3, EventFacts
    <3>5. On(t, Event(kind, c)) /\ Pending(Event(kind, c))
      BY <3>3, <3>4 DEF On, OnIn, Pending
    <3>6. kind \in ClientKinds
      BY <2>2, <3>5 DEF EventKinds, ClientKinds
    <3>7. PICK s : s = StreamOf(c)
      OBVIOUS
    <3>8. s # NULL
      BY <2>1, <3>5, <3>6, <3>7 DEF Parts, ThreadOK
    <3>9. s \in Clients
      <4>1. mTportStream[c] \in Clients \cup {NULL} /\ handle[Key[c]] \in Clients \cup {NULL}
        BY <2>1 DEF Types, Keys
      <4> QED BY <3>7, <3>8, <4>1 DEF StreamOf
    <3>10. Before(Event(kind, c), Event("first", s)) \/ Before(Event(kind, c), Event("second", s))
      BY <2>1, <3>5, <3>6, <3>7, <3>9 DEF Parts, OrderOK
    <3>11. Pending(Event("first", s)) \/ Pending(Event("second", s))
      BY <3>10 DEF Before, BeforeIn, Pending, On, OnIn
    <3> QED BY <2>2, <3>9, <3>11
  <2>4. ASSUME NEW k \in 1..Len(mStreams) PROVE mStreams[k] \in failed
    <3>1. PICK s : s = mStreams[k]
      OBVIOUS
    <3>2. s \in Clients /\ Has(mStreams, s)
      BY <2>1, <3>1 DEF Types, Has
    <3>3. handle[Key[s]] = s
      BY <2>1, <3>2 DEF Parts, ListOK
    <3> QED BY <2>1, <2>2, <3>1, <3>2, <3>3 DEF Parts, HolderOK
  <2> QED BY <2>3, <2>4
<1> QED BY Invariance, <1>1, PTL
=============================================================================
