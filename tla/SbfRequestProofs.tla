-------------------------- MODULE SbfRequestProofs --------------------------
(***************************************************************************)
(* Theorems about SbfRequest, for any number of requesters, repliers,      *)
(* requests and lost messages: types, the counts of received requests, the *)
(* ready callback, and that replies go to the requests they answer.        *)
(***************************************************************************)
EXTENDS SbfRequest, FiniteSetTheorems, TLAPS

-----------------------------------------------------------------------------
(* Queues. *)

Contents(q) == {q[i] : i \in DOMAIN q}

\* Two callbacks that may not both be queued: the same ready callback, or the
\* same request.
Same(i, j) == i.kind = j.kind /\ (i.kind = "request" => i.req = j.req)

Once(q) == \A i, j \in DOMAIN q : i # j /\ Same(q[i], q[j]) => q[i].kind = "reply"

\* What comes in at the end of a queue, and when nothing comes in twice.
LEMMA AppendOnce ==
  ASSUME NEW q \in Seq(Items), NEW i \in Items
  PROVE  /\ Append(q, i) \in Seq(Items)
         /\ Contents(Append(q, i)) = Contents(q) \cup {i}
         /\ Once(q) /\ (i.kind = "reply" \/ \A j \in Contents(q) : ~Same(i, j)) =>
              Once(Append(q, i))
<1> DEFINE p == Append(q, i)
<1>1. /\ Len(q) \in Nat /\ DOMAIN q = 1..Len(q) /\ DOMAIN p = 1..(Len(q) + 1)
      /\ p[Len(q) + 1] = i /\ p \in Seq(Items)
      /\ \A k \in 1..Len(q) : p[k] = q[k]
  OBVIOUS
<1> HIDE DEF p
<1>2. Contents(p) = Contents(q) \cup {i}
  BY <1>1 DEF Contents
<1>3. ASSUME Once(q), i.kind = "reply" \/ \A j \in Contents(q) : ~Same(i, j)
      PROVE  Once(p)
  <2> SUFFICES ASSUME NEW a \in DOMAIN p, NEW b \in DOMAIN p, a # b, Same(p[a], p[b])
               PROVE  p[a].kind = "reply"
    BY DEF Once
  <2>1. CASE a \in 1..Len(q) /\ b \in 1..Len(q)
    BY <1>1, <1>3, <2>1 DEF Once
  <2>2. CASE a = Len(q) + 1
    <3>1. p[a] = i /\ p[b] \in Contents(q)
      BY <1>1, <2>2 DEF Contents
    <3> QED BY <1>3, <3>1
  <2>3. CASE b = Len(q) + 1
    <3>1. p[b] = i /\ p[a] \in Contents(q)
      BY <1>1, <2>3 DEF Contents
    <3> QED BY <1>3, <3>1 DEF Same
  <2> QED BY <1>1, <2>1, <2>2, <2>3
<1> QED BY <1>1, <1>2, <1>3 DEF p

\* What goes out at the front of a queue, and does not come again.
LEMMA TailOnce ==
  ASSUME NEW q \in Seq(Items), q # << >>
  PROVE  /\ Tail(q) \in Seq(Items) /\ Head(q) \in Items
         /\ Head(q) \in Contents(q) /\ Contents(Tail(q)) \subseteq Contents(q)
         /\ Once(q) =>
              /\ Once(Tail(q))
              /\ Head(q).kind # "reply" =>
                   \A j \in Contents(Tail(q)) : ~Same(Head(q), j)
<1> DEFINE p == Tail(q)
<1>1. /\ Len(q) \in Nat \ {0} /\ DOMAIN q = 1..Len(q) /\ DOMAIN p = 1..(Len(q) - 1)
      /\ Head(q) = q[1] /\ p \in Seq(Items) /\ Head(q) \in Items
      /\ \A k \in 1..(Len(q) - 1) : p[k] = q[k + 1]
  OBVIOUS
<1> HIDE DEF p
<1>2. Head(q) \in Contents(q) /\ Contents(p) \subseteq Contents(q)
  BY <1>1 DEF Contents
<1>3. ASSUME Once(q)
      PROVE  Once(p)
  <2> SUFFICES ASSUME NEW a \in DOMAIN p, NEW b \in DOMAIN p, a # b, Same(p[a], p[b])
               PROVE  p[a].kind = "reply"
    BY DEF Once
  <2>1. /\ a + 1 \in DOMAIN q /\ b + 1 \in DOMAIN q /\ a + 1 # b + 1
        /\ p[a] = q[a + 1] /\ p[b] = q[b + 1]
    BY <1>1
  <2> QED BY <1>3, <2>1 DEF Once
<1>4. ASSUME Once(q), Head(q).kind # "reply", NEW j \in Contents(p)
      PROVE  ~Same(Head(q), j)
  <2>1. PICK k \in DOMAIN p : j = p[k]
    BY <1>4 DEF Contents
  <2>2. 1 \in DOMAIN q /\ k + 1 \in DOMAIN q /\ k + 1 # 1 /\ j = q[k + 1]
    BY <1>1, <2>1
  <2> QED BY <1>1, <1>4, <2>2 DEF Once
<1> QED BY <1>1, <1>2, <1>3, <1>4 DEF p

\* The fields of what is queued.
LEMMA ItemFields ==
  /\ \A i \in Items :
       /\ i.kind \in {"pub", "sub", "request", "reply"}
       /\ i.kind \in {"request", "reply"} =>
            /\ i \in Messages /\ i.guid \in Guids /\ i.req \in Requests
            /\ i.req = <<i.req[1], i.req[2]>>
            /\ i.req[1] \in Requesters /\ i.req[2] \in 1..MaxRequests
       /\ i.kind = "reply" => i.from \in Repliers
       /\ i.kind \notin {"request", "reply"} => i = [kind |-> i.kind]
  /\ \A k \in {"pub", "sub"} : [kind |-> k] \in Items
  /\ \A m \in Messages : m \in Items /\ m.kind \in {"request", "reply"}
BY DEF Items, Messages, Requests, Guids

\* A received request is one that was sent, and who received it.
LEMMA ReceivedFields ==
  /\ \A x \in Received : /\ x[1] \in Requests /\ x[2] \in Repliers /\ x = <<x[1], x[2]>>
                         /\ x[1][1] \in Requesters /\ x[1][2] \in 1..MaxRequests
  /\ \A q \in Requests, p \in Repliers :
       <<q, p>> \in Received /\ <<q, p>>[1] = q /\ <<q, p>>[2] = p
BY DEF Received, Requests

\* A message goes to the end of some queues and is lost for others.
LEMMA BroadcastQueues ==
  ASSUME TypeOK, NEW m \in Messages, NEW ends \in SUBSET Ends, Broadcast(m, ends)
  PROVE  /\ queue' \in [Ends -> Seq(Items)]
         /\ lost' \subseteq Messages \X Ends
         /\ \A e \in Ends : \/ queue'[e] = queue[e]
                            \/ e \in ends /\ queue'[e] = Append(queue[e], m)
<1>1. PICK got \in SUBSET Joined(ends) :
        /\ lost' = lost \cup {<<m, e>> : e \in Joined(ends) \ got}
        /\ queue' = [e \in Ends |-> IF e \in got THEN Append(queue[e], m) ELSE queue[e]]
  BY DEF Broadcast
<1>2. Joined(ends) \subseteq ends
  BY DEF Joined
<1>3. m \in Items
  BY ItemFields
<1>4. queue \in [Ends -> Seq(Items)] /\ lost \subseteq Messages \X Ends
  BY DEF TypeOK
<1>5. lost' \subseteq Messages \X Ends
  BY <1>1, <1>2, <1>4
<1>6. \A e \in Ends : Append(queue[e], m) \in Seq(Items)
  BY <1>3, <1>4, AppendOnce
<1>7. queue' \in [Ends -> Seq(Items)]
  BY <1>1, <1>4, <1>6
<1> QED BY <1>1, <1>2, <1>5, <1>7

\* A callback taken from the front of a queue.
LEMMA TakeQueues ==
  ASSUME TypeOK, NEW e \in Ends, NEW i, Take(e, i)
  PROVE  /\ running[e] = NULL /\ i \in Items
         /\ queue' \in [Ends -> Seq(Items)]
         /\ \A d \in Ends \ {e} : queue'[d] = queue[d]
         /\ i \in Contents(queue[e])
         /\ Contents(queue'[e]) \subseteq Contents(queue[e])
         /\ Once(queue[e]) =>
              /\ Once(queue'[e])
              /\ i.kind # "reply" => \A j \in Contents(queue'[e]) : ~Same(i, j)
<1>1. /\ queue \in [Ends -> Seq(Items)] /\ queue[e] \in Seq(Items) /\ queue[e] # << >>
      /\ i = Head(queue[e]) /\ running[e] = NULL
      /\ queue' = [queue EXCEPT ![e] = Tail(@)]
  BY DEF TypeOK, Take
<1>2. queue'[e] = Tail(queue[e]) /\ \A d \in Ends \ {e} : queue'[d] = queue[d]
  BY <1>1
<1>3. /\ queue'[e] \in Seq(Items) /\ i \in Items
      /\ i \in Contents(queue[e]) /\ Contents(queue'[e]) \subseteq Contents(queue[e])
      /\ Once(queue[e]) =>
              /\ Once(queue'[e])
              /\ i.kind # "reply" => \A j \in Contents(queue'[e]) : ~Same(i, j)
  BY <1>1, <1>2, TailOnce
<1>4. queue' \in [Ends -> Seq(Items)]
  BY <1>1, <1>3
<1> QED BY <1>1, <1>2, <1>3, <1>4

-----------------------------------------------------------------------------
(* The counts of received requests and the ready callbacks: the inductive      *)
(* invariant.                                                                  *)

\* What is queued for e has not come before: the client was not ready, and the
\* request has no reference.
QueueOK(e) ==
  /\ Once(queue[e])
  /\ \A i \in Contents(queue[e]) :
       /\ i.kind = "pub" => <<e, "pub">> \in joined /\ e \notin mPubReady
       /\ i.kind = "sub" => <<e, "sub">> \in joined /\ e \notin mSubReady
       /\ i.kind = "request" => /\ i.req[2] <= sent[i.req[1]]
                                /\ <<i.req, e>> \notin detached
                                /\ ~InCallback(e, <<i.req, e>>)

ReadyOK(e) ==
  /\ e \in mPubReady => <<e, "pub">> \in joined
  /\ e \in mSubReady => <<e, "sub">> \in joined
  /\ told[e] = IF e \in mPubReady \cap mSubReady THEN 1 ELSE 0

\* The count of a received request, which has been sent.
RequestOK(x) ==
  /\ mRefCount[x] = (IF InCallback(x[2], x) THEN 1 ELSE 0)
                    + IF x \in detached THEN 1 ELSE 0
  /\ InCallback(x[2], x) \/ x \in detached => x[1][2] <= sent[x[1][1]]

LifeInv ==
  /\ TypeOK
  /\ \A e \in Ends : QueueOK(e) /\ ReadyOK(e)
  /\ \A x \in Received : RequestOK(x)

lifeVars == <<queue, running, mRefCount, detached, mPubReady, mSubReady, joined, told, sent>>

\* A step that leaves alone what the invariant is about.
LEMMA LifeSame ==
  ASSUME LifeInv, TypeOK', UNCHANGED lifeVars
  PROVE  LifeInv'
<1>1. UNCHANGED <<queue, running, mRefCount, detached, mPubReady, mSubReady, joined, told, sent>>
  BY DEF lifeVars
<1>2. \A e, x : InCallback(e, x)' <=> InCallback(e, x)
  BY <1>1 DEF InCallback
<1>3. \A e \in Ends : QueueOK(e)' /\ ReadyOK(e)'
  BY <1>1, <1>2 DEF LifeInv, QueueOK, ReadyOK
<1>4. \A x \in Received : RequestOK(x)'
  BY <1>1, <1>2 DEF LifeInv, RequestOK
<1> QED BY <1>3, <1>4 DEF LifeInv

\* Replies come and go, and other items go.
LEMMA QueueShrinks ==
  ASSUME NEW e \in Ends, QueueOK(e), Once(queue'[e]),
         \A i \in Contents(queue'[e]) : i \in Contents(queue[e]) \/ i.kind = "reply",
         joined \subseteq joined',
         e \in mPubReady' <=> e \in mPubReady, e \in mSubReady' <=> e \in mSubReady,
         UNCHANGED <<sent, detached, running>>
  PROVE  QueueOK(e)'
<1>1. \A x : InCallback(e, x)' <=> InCallback(e, x)
  BY DEF InCallback
<1> QED BY <1>1 DEF QueueOK

\* A step that gives and takes no reference.
LEMMA RefsSame ==
  ASSUME LifeInv, UNCHANGED <<running, mRefCount, detached, sent>>
  PROVE  \A x \in Received : RequestOK(x)'
<1>1. \A e, x : InCallback(e, x)' <=> InCallback(e, x)
  BY DEF InCallback
<1> QED BY <1>1 DEF LifeInv, RequestOK

\* A step that makes nothing ready.
LEMMA ReadySame ==
  ASSUME LifeInv, UNCHANGED <<mPubReady, mSubReady, joined, told>>
  PROVE  \A e \in Ends : ReadyOK(e)'
BY DEF LifeInv, ReadyOK

-----------------------------------------------------------------------------
(* The actions, one by one: each keeps the invariant. *)

LEMMA ReadSeedLife ==
  ASSUME LifeInv, NEW r \in Requesters, ReadSeed(r)
  PROVE  LifeInv'
<1>1. TypeOK'
  BY DEF LifeInv, ReadSeed, TypeOK, Guids, endVars, receivedVars, netVars, threadVars, historyVars
<1> QED BY <1>1, LifeSame
    DEF ReadSeed, lifeVars, endVars, receivedVars, netVars, threadVars, historyVars

LEMMA StoreSeedLife ==
  ASSUME LifeInv, NEW r \in Requesters, StoreSeed(r)
  PROVE  LifeInv'
<1>1. TypeOK'
  <2>1. mNext[r][1] \in Nat /\ r \in Ends
    BY DEF LifeInv, TypeOK, Guids, Ends
  <2> QED BY <2>1 DEF LifeInv, StoreSeed, TypeOK, sendVars, receivedVars, netVars, threadVars,
                      historyVars
<1> QED BY <1>1, LifeSame
    DEF StoreSeed, lifeVars, sendVars, receivedVars, netVars, threadVars, historyVars

LEMMA CreateReplierLife ==
  ASSUME LifeInv, NEW p \in Repliers, CreateReplier(p)
  PROVE  LifeInv'
<1>1. TypeOK'
  BY DEF LifeInv, CreateReplier, TypeOK, Ends, guidVars, sendVars, receivedVars, netVars,
         threadVars, historyVars
<1> QED BY <1>1, LifeSame
    DEF CreateReplier, lifeVars, sendVars, receivedVars, netVars, threadVars, historyVars

LEMMA BecomeReadyLife ==
  ASSUME LifeInv, NEW e \in Ends, NEW k \in {"pub", "sub"}, BecomeReady(e, k)
  PROVE  LifeInv'
<1>1. /\ <<e, k>> \notin joined /\ joined' = joined \cup {<<e, k>>}
      /\ queue' = [queue EXCEPT ![e] = Append(@, [kind |-> k])]
      /\ UNCHANGED <<gSbfGuidSeed, creating, memory, mPubReady, mSubReady, mNext, mRequests,
                     sent, mGuid, mRefCount, detached, replied, lost, running, told,
                     answered, wrong>>
  BY DEF BecomeReady, guidVars, endVars, sendVars, receivedVars, historyVars
<1> DEFINE i == [kind |-> k]
<1>2. i \in Items /\ i.kind = k /\ queue[e] \in Seq(Items) /\ queue \in [Ends -> Seq(Items)]
  BY ItemFields DEF LifeInv, TypeOK
<1>3. queue'[e] = Append(queue[e], i) /\ \A d \in Ends \ {e} : queue'[d] = queue[d]
  BY <1>1, <1>2
<1> HIDE DEF i
<1>4. QueueOK(e) /\ ReadyOK(e)
  BY DEF LifeInv
<1>5. \A j \in Contents(queue[e]) : ~Same(i, j)
  BY <1>1, <1>2, <1>4 DEF QueueOK, Same
<1>6. /\ queue'[e] \in Seq(Items) /\ Once(queue'[e])
      /\ Contents(queue'[e]) = Contents(queue[e]) \cup {i}
  BY <1>2, <1>3, <1>4, <1>5, AppendOnce DEF QueueOK
<1>7. TypeOK'
  <2>1. queue' \in [Ends -> Seq(Items)]
    BY <1>1, <1>2, <1>3, <1>6
  <2> QED BY <1>1, <2>1 DEF LifeInv, TypeOK
<1>8. QueueOK(e)'
  <2>1. \A x : InCallback(e, x)' <=> InCallback(e, x)
    BY <1>1 DEF InCallback
  <2>2. k = "pub" => e \notin mPubReady
    BY <1>1, <1>4 DEF ReadyOK
  <2>3. k = "sub" => e \notin mSubReady
    BY <1>1, <1>4 DEF ReadyOK
  <2> QED BY <1>1, <1>2, <1>4, <1>6, <2>1, <2>2, <2>3 DEF QueueOK
<1>9. ASSUME NEW d \in Ends, d # e PROVE QueueOK(d)'
  <2>1. queue'[d] = queue[d] /\ QueueOK(d)
    BY <1>3, <1>9 DEF LifeInv
  <2>2. Once(queue'[d])
    BY <2>1 DEF QueueOK
  <2> QED BY <1>1, <2>1, <2>2, QueueShrinks
<1>10. ASSUME NEW d \in Ends PROVE ReadyOK(d)'
  BY <1>1 DEF LifeInv, ReadyOK
<1> QED BY <1>1, <1>7, <1>8, <1>9, <1>10, RefsSame DEF LifeInv

LEMMA SendLife ==
  ASSUME LifeInv, NEW r \in Requesters, Send(r)
  PROVE  LifeInv'
<1>a. PICK guid : guid = <<mNext[r][1], mNext[r][2] + 1>>
  OBVIOUS
<1>b. PICK num : num = sent[r] + 1
  OBVIOUS
<1>c. PICK m : m = [kind |-> "request", guid |-> guid, req |-> <<r, num>>]
  OBVIOUS
<1>1. /\ sent[r] < MaxRequests
      /\ mNext' = [mNext EXCEPT ![r] = guid]
      /\ mRequests' = [mRequests EXCEPT ![r] = @ \cup {[guid |-> guid, num |-> num]}]
      /\ sent' = [sent EXCEPT ![r] = num]
      /\ Broadcast(m, Repliers)
      /\ UNCHANGED <<gSbfGuidSeed, creating, memory, mPubReady, mSubReady, mGuid, mRefCount,
                     detached, replied, joined, running, told, answered, wrong>>
  BY <1>a, <1>b, <1>c DEF Send, guidVars, endVars, receivedVars, historyVars
<1>2. /\ guid \in Guids /\ num \in 1..MaxRequests
      /\ sent[r] \in 0..MaxRequests /\ MaxRequests \in Nat
  BY <1>1, <1>a, <1>b, RequestAssumption DEF LifeInv, TypeOK, Guids
<1>3. m \in Messages /\ m.kind = "request" /\ m.req = <<r, num>>
  BY <1>2, <1>c DEF Messages, Requests
<1>4. m \in Items /\ m.req[1] = r /\ m.req[2] = num
  BY <1>3, ItemFields
<1>5. sent'[r] = num /\ \A s \in Requesters \ {r} : sent'[s] = sent[s]
  BY <1>1, <1>2 DEF LifeInv, TypeOK
<1>6. [guid |-> guid, num |-> num] \in [guid : Guids, num : 1..MaxRequests]
  BY <1>2
<1>7. mRequests' \in [Requesters -> SUBSET [guid : Guids, num : 1..MaxRequests]]
  BY <1>1, <1>6 DEF LifeInv, TypeOK
<1>8. /\ queue' \in [Ends -> Seq(Items)] /\ lost' \subseteq Messages \X Ends
      /\ \A e \in Ends : \/ queue'[e] = queue[e]
                         \/ e \in Repliers /\ queue'[e] = Append(queue[e], m)
  BY <1>1, <1>3, BroadcastQueues DEF LifeInv, Ends
<1>9. TypeOK'
  BY <1>1, <1>2, <1>7, <1>8 DEF LifeInv, TypeOK
<1>10. \A e, x : InCallback(e, x)' <=> InCallback(e, x)
  BY <1>1 DEF InCallback
<1>11. \A s \in Requesters : sent[s] \in Nat /\ sent[s] <= sent'[s]
  <2> TAKE s \in Requesters
  <2>1. sent[s] \in Nat
    BY <1>2 DEF LifeInv, TypeOK
  <2>2. CASE s = r
    BY <1>b, <1>5, <2>1, <2>2
  <2>3. CASE s # r
    BY <1>5, <2>1, <2>3
  <2> QED BY <2>2, <2>3
<1>12. ASSUME NEW e \in Ends PROVE QueueOK(e)'
  <2>1. /\ QueueOK(e) /\ queue[e] \in Seq(Items)
        /\ \A i \in Contents(queue[e]) : i \in Items
    BY DEF LifeInv, TypeOK, Contents
  <2>2. ASSUME NEW i \in Contents(queue[e]), i.kind = "request"
        PROVE  /\ i.req[2] <= sent'[i.req[1]] /\ i.req[2] \in Nat
               /\ i.req # <<r, num>>
               /\ <<i.req, e>> \notin detached' /\ ~InCallback(e, <<i.req, e>>)'
    <3>1. i.req[1] \in Requesters /\ i.req[2] \in Nat
      BY <2>1, <2>2, ItemFields
    <3>2. /\ i.req[2] <= sent[i.req[1]]
          /\ <<i.req, e>> \notin detached /\ ~InCallback(e, <<i.req, e>>)
      BY <2>1, <2>2 DEF QueueOK
    <3>3. i.req[2] <= sent'[i.req[1]]
      <4>1. sent[i.req[1]] <= sent'[i.req[1]] /\ sent[i.req[1]] \in Nat
            /\ sent'[i.req[1]] \in Nat
        BY <1>9, <1>11, <3>1 DEF TypeOK
      <4> QED BY <3>1, <3>2, <4>1
    <3>4. i.req # <<r, num>>
      <4>1. ASSUME i.req = <<r, num>> PROVE FALSE
        <5>1. i.req[1] = r /\ i.req[2] = num
          BY <4>1
        <5> QED BY <1>2, <1>b, <3>2, <5>1
      <4> QED BY <4>1
    <3> QED BY <1>1, <1>10, <3>1, <3>2, <3>3, <3>4
  <2>3. CASE queue'[e] = queue[e]
    BY <1>1, <2>1, <2>2, <2>3 DEF QueueOK
  <2>4. CASE e \in Repliers /\ queue'[e] = Append(queue[e], m)
    <3>1. \A j \in Contents(queue[e]) : ~Same(m, j)
      BY <1>3, <2>2 DEF Same
    <3>2. Once(queue'[e]) /\ Contents(queue'[e]) = Contents(queue[e]) \cup {m}
      BY <1>4, <2>1, <2>4, <3>1, AppendOnce DEF QueueOK
    <3>3. m.req[2] <= sent'[m.req[1]]
      BY <1>2, <1>4, <1>5
    <3>4. <<m.req, e>> \notin detached' /\ ~InCallback(e, <<m.req, e>>)'
      <4> DEFINE x == <<m.req, e>>
      <4>1. x \in Received /\ x[1] = m.req /\ x[2] = e
        BY <1>3, <2>4, ReceivedFields, <1>2 DEF Requests
      <4> HIDE DEF x
      <4>2. RequestOK(x)
        BY <4>1 DEF LifeInv
      <4>3. ~(x[1][2] <= sent[x[1][1]])
        BY <1>2, <1>b, <1>4, <4>1
      <4>4. x \notin detached /\ ~InCallback(e, x)
        BY <4>1, <4>2, <4>3 DEF RequestOK
      <4> QED BY <1>1, <1>10, <4>4 DEF x
    <3> QED BY <1>1, <1>3, <2>1, <2>2, <3>2, <3>3, <3>4 DEF QueueOK
  <2> QED BY <1>8, <2>3, <2>4
<1>13. ASSUME NEW x \in Received PROVE RequestOK(x)'
  <2>1. x[1][1] \in Requesters /\ x[1][2] \in Nat /\ RequestOK(x)
    BY ReceivedFields DEF LifeInv
  <2>2. sent[x[1][1]] \in Nat /\ sent'[x[1][1]] \in Nat /\ sent[x[1][1]] <= sent'[x[1][1]]
    BY <1>9, <1>11, <2>1 DEF TypeOK
  <2> QED BY <1>1, <1>10, <2>1, <2>2 DEF RequestOK
<1> QED BY <1>1, <1>9, <1>12, <1>13, ReadySame DEF LifeInv

LEMMA DestroyRequestLife ==
  ASSUME LifeInv, NEW r \in Requesters, DestroyRequest(r)
  PROVE  LifeInv'
<1>1. TypeOK'
  BY DEF LifeInv, DestroyRequest, TypeOK, guidVars, endVars, receivedVars, netVars, threadVars,
         historyVars
<1> QED BY <1>1, LifeSame
    DEF DestroyRequest, lifeVars, endVars, receivedVars, netVars, threadVars, historyVars

LEMMA DestroyLife ==
  ASSUME LifeInv, NEW e \in Ends, Destroy(e)
  PROVE  LifeInv'
<1>1. /\ memory' = [memory EXCEPT ![e] = "freed"]
      /\ mRequests' = [r \in Requesters |-> IF r = e THEN {} ELSE mRequests[r]]
      /\ queue' = [queue EXCEPT ![e] = << >>]
      /\ UNCHANGED <<gSbfGuidSeed, creating, mPubReady, mSubReady, mNext, sent, mGuid,
                     mRefCount, detached, replied, joined, lost, running, told, answered,
                     wrong>>
  BY DEF Destroy, guidVars, receivedVars, netVars, historyVars
<1>2. << >> \in Seq(Items) /\ Once(<< >>) /\ Contents(<< >>) = {}
  BY DEF Once, Contents
<1>3. TypeOK'
  BY <1>1, <1>2 DEF LifeInv, TypeOK
<1>4. ASSUME NEW d \in Ends PROVE QueueOK(d)'
  <2>1. QueueOK(d) /\ (queue'[d] = queue[d] \/ queue'[d] = << >>)
    BY <1>1 DEF LifeInv, TypeOK
  <2>2. Once(queue'[d]) /\ \A i \in Contents(queue'[d]) : i \in Contents(queue[d])
    BY <1>2, <2>1 DEF QueueOK
  <2> QED BY <1>1, <2>1, <2>2, QueueShrinks
<1> QED BY <1>1, <1>3, <1>4, RefsSame, ReadySame DEF LifeInv

LEMMA ReplyLife ==
  ASSUME LifeInv, NEW x \in Received, Reply(x)
  PROVE  LifeInv'
<1>1. PICK m : m = [kind |-> "reply", guid |-> mGuid[x], req |-> x[1], from |-> x[2]]
  OBVIOUS
<1>2. /\ Broadcast(m, Requesters)
      /\ replied' = replied \cup {x}
      /\ UNCHANGED <<gSbfGuidSeed, creating, memory, mPubReady, mSubReady, mNext, mRequests,
                     sent, mGuid, mRefCount, detached, joined, running, told, answered, wrong>>
  BY <1>1 DEF Reply, guidVars, endVars, sendVars, historyVars
<1>3. m \in Messages /\ m.kind = "reply" /\ m \in Items
  <2>1. mGuid[x] \in Guids /\ x[1] \in Requests /\ x[2] \in Repliers
    BY ReceivedFields DEF LifeInv, TypeOK
  <2>2. m \in Messages /\ m.kind = "reply"
    BY <1>1, <2>1 DEF Messages
  <2> QED BY <2>2, ItemFields
<1>4. /\ queue' \in [Ends -> Seq(Items)] /\ lost' \subseteq Messages \X Ends
      /\ \A e \in Ends : \/ queue'[e] = queue[e]
                         \/ e \in Requesters /\ queue'[e] = Append(queue[e], m)
  BY <1>2, <1>3, BroadcastQueues DEF LifeInv, Ends
<1>5. TypeOK'
  BY <1>2, <1>4 DEF LifeInv, TypeOK
<1>6. ASSUME NEW e \in Ends PROVE QueueOK(e)'
  <2>1. QueueOK(e) /\ queue[e] \in Seq(Items)
    BY DEF LifeInv, TypeOK
  <2>2. CASE queue'[e] = queue[e]
    <3>1. Once(queue'[e])
      BY <2>1, <2>2 DEF QueueOK
    <3> QED BY <1>2, <2>1, <2>2, <3>1, QueueShrinks
  <2>3. CASE queue'[e] = Append(queue[e], m)
    <3>1. Once(queue'[e]) /\ Contents(queue'[e]) = Contents(queue[e]) \cup {m}
      BY <1>3, <2>1, <2>3, AppendOnce DEF QueueOK
    <3> QED BY <1>2, <1>3, <2>1, <3>1, QueueShrinks
  <2> QED BY <1>4, <2>2, <2>3
<1> QED BY <1>2, <1>5, <1>6, RefsSame, ReadySame DEF LifeInv

LEMMA DetachLife ==
  ASSUME LifeInv, NEW x \in Received, Detach(x)
  PROVE  LifeInv'
<1>1. /\ InCallback(x[2], x) /\ x \notin detached
      /\ mRefCount' = [mRefCount EXCEPT ![x] = @ + 1]
      /\ detached' = detached \cup {x}
      /\ UNCHANGED <<gSbfGuidSeed, creating, memory, mPubReady, mSubReady, mNext, mRequests,
                     sent, mGuid, replied, joined, lost, queue, running, told, answered, wrong>>
  BY DEF Detach, guidVars, endVars, sendVars, netVars, threadVars, historyVars
<1>2. \A e, y : InCallback(e, y)' <=> InCallback(e, y)
  BY <1>1 DEF InCallback
<1>3. mRefCount'[x] = mRefCount[x] + 1 /\ \A y \in Received \ {x} : mRefCount'[y] = mRefCount[y]
  BY <1>1 DEF LifeInv, TypeOK
<1>4. TypeOK'
  BY <1>1, <1>3 DEF LifeInv, TypeOK
<1>5. ASSUME NEW e \in Ends PROVE QueueOK(e)'
  <2>1. QueueOK(e)
    BY DEF LifeInv
  <2>2. ASSUME NEW i \in Contents(queue[e]), i.kind = "request"
        PROVE  <<i.req, e>> \notin detached'
    <3>1. <<i.req, e>> \notin detached /\ ~InCallback(e, <<i.req, e>>)
      BY <2>1, <2>2 DEF QueueOK
    <3>2. ASSUME <<i.req, e>> = x PROVE FALSE
      <4>1. x[2] = e
        BY <3>2
      <4> QED BY <1>1, <3>1, <3>2, <4>1
    <3> QED BY <1>1, <3>1, <3>2
  <2> QED BY <1>1, <1>2, <2>1, <2>2 DEF QueueOK
<1>6. ASSUME NEW y \in Received PROVE RequestOK(y)'
  BY <1>1, <1>2, <1>3 DEF LifeInv, RequestOK
<1> QED BY <1>1, <1>4, <1>5, <1>6, ReadySame DEF LifeInv

LEMMA DestroyDetachedLife ==
  ASSUME LifeInv, NEW x \in Received, DestroyDetached(x)
  PROVE  LifeInv'
<1>1. /\ x \in detached
      /\ mRefCount' = [mRefCount EXCEPT ![x] = @ - 1]
      /\ detached' = detached \ {x}
      /\ UNCHANGED <<gSbfGuidSeed, creating, memory, mPubReady, mSubReady, mNext, mRequests,
                     sent, mGuid, replied, joined, lost, queue, running, told, answered, wrong>>
  BY DEF DestroyDetached, DropReceived, guidVars, endVars, sendVars, netVars, threadVars,
         historyVars
<1>2. \A e, y : InCallback(e, y)' <=> InCallback(e, y)
  BY <1>1 DEF InCallback
<1>3. mRefCount'[x] = mRefCount[x] - 1 /\ \A y \in Received \ {x} : mRefCount'[y] = mRefCount[y]
  BY <1>1 DEF LifeInv, TypeOK
<1>4. mRefCount[x] \in Nat /\ mRefCount[x] > 0
  BY <1>1 DEF LifeInv, TypeOK, RequestOK
<1>5. TypeOK'
  BY <1>1, <1>3, <1>4 DEF LifeInv, TypeOK
<1>6. \A e \in Ends : QueueOK(e)'
  BY <1>1, <1>2 DEF LifeInv, QueueOK
<1>7. ASSUME NEW y \in Received PROVE RequestOK(y)'
  BY <1>1, <1>2, <1>3, <1>4 DEF LifeInv, RequestOK
<1> QED BY <1>1, <1>5, <1>6, <1>7, ReadySame DEF LifeInv

LEMMA ReadyCbLife ==
  ASSUME LifeInv, NEW e \in Ends, ReadyCb(e)
  PROVE  LifeInv'
<1>1. PICK k \in {"pub", "sub"} :
        /\ Take(e, [kind |-> k])
        /\ IF k = "pub" THEN mPubReady' = mPubReady \cup {e} /\ UNCHANGED mSubReady
           ELSE mSubReady' = mSubReady \cup {e} /\ UNCHANGED mPubReady
        /\ IF BothReady(e, k)
           THEN Run(e, [kind |-> k]) /\ told' = [told EXCEPT ![e] = @ + 1]
           ELSE UNCHANGED <<running, told>>
        /\ UNCHANGED <<gSbfGuidSeed, creating, memory, mNext, mRequests, sent, mGuid, mRefCount,
                       detached, replied, joined, lost, answered, wrong>>
  BY DEF ReadyCb, guidVars, sendVars, receivedVars, netVars
<1>2. PICK i : i = [kind |-> k]
  OBVIOUS
<1>3. i.kind = k /\ i \in Items
  BY <1>2, ItemFields
<1>4. /\ running[e] = NULL /\ queue' \in [Ends -> Seq(Items)]
      /\ \A d \in Ends \ {e} : queue'[d] = queue[d]
      /\ i \in Contents(queue[e])
      /\ Contents(queue'[e]) \subseteq Contents(queue[e])
      /\ Once(queue[e]) =>
              /\ Once(queue'[e])
              /\ i.kind # "reply" => \A j \in Contents(queue'[e]) : ~Same(i, j)
  BY <1>1, <1>2, TakeQueues DEF LifeInv
<1>5. /\ \A d \in Ends \ {e} : running'[d] = running[d] /\ told'[d] = told[d]
      /\ running'[e] = NULL \/ running'[e] = i
      /\ told'[e] = told[e] + IF BothReady(e, k) THEN 1 ELSE 0
      /\ running' \in [Ends -> Items \cup {NULL}] /\ told' \in [Ends -> Nat]
  <2>1. running \in [Ends -> Items \cup {NULL}] /\ told \in [Ends -> Nat]
    BY DEF LifeInv, TypeOK
  <2>2. CASE BothReady(e, k)
    <3>1. running' = [running EXCEPT ![e] = i] /\ told' = [told EXCEPT ![e] = @ + 1]
      BY <1>1, <1>2, <2>2 DEF Run
    <3> QED BY <1>3, <2>1, <2>2, <3>1
  <2>3. CASE ~BothReady(e, k)
    <3>1. running' = running /\ told' = told
      BY <1>1, <2>3
    <3> QED BY <1>4, <2>1, <2>3, <3>1
  <2> QED BY <2>2, <2>3
<1>6. \A x : ~InCallback(e, x) /\ ~InCallback(e, x)'
  BY <1>3, <1>4, <1>5 DEF InCallback
<1>7. \A d \in Ends \ {e} : \A x : InCallback(d, x)' <=> InCallback(d, x)
  BY <1>5 DEF InCallback
<1>8. TypeOK'
  BY <1>1, <1>4, <1>5 DEF LifeInv, TypeOK
<1>9. QueueOK(e)'
  <2>1. QueueOK(e)
    BY DEF LifeInv
  <2>2. /\ Once(queue'[e])
        /\ \A j \in Contents(queue'[e]) : j \in Contents(queue[e]) /\ j.kind # k
    BY <1>3, <1>4, <2>1 DEF QueueOK, Same
  <2> QED BY <1>1, <1>6, <2>1, <2>2 DEF QueueOK
<1>10. ASSUME NEW d \in Ends, d # e PROVE QueueOK(d)'
  <2>1. QueueOK(d) /\ queue'[d] = queue[d]
    BY <1>4, <1>10 DEF LifeInv
  <2>2. d \in mPubReady' <=> d \in mPubReady
    BY <1>1, <1>10
  <2>3. d \in mSubReady' <=> d \in mSubReady
    BY <1>1, <1>10
  <2> QED BY <1>1, <1>7, <1>10, <2>1, <2>2, <2>3 DEF QueueOK
<1>11. ASSUME NEW d \in Ends PROVE ReadyOK(d)'
  <2>1. ReadyOK(d) /\ QueueOK(e) /\ told[d] \in Nat
    BY DEF LifeInv, TypeOK
  <2>2. CASE d = e
    <3>1. /\ k = "pub" => <<e, "pub">> \in joined /\ e \notin mPubReady
          /\ k = "sub" => <<e, "sub">> \in joined /\ e \notin mSubReady
      BY <1>3, <1>4, <2>1 DEF QueueOK
    <3>2. CASE k = "pub"
      BY <1>1, <1>5, <2>1, <2>2, <3>1, <3>2 DEF ReadyOK, BothReady
    <3>3. CASE k = "sub"
      BY <1>1, <1>5, <2>1, <2>2, <3>1, <3>3 DEF ReadyOK, BothReady
    <3> QED BY <3>2, <3>3
  <2>3. CASE d # e
    <3>1. (d \in mPubReady' <=> d \in mPubReady) /\ (d \in mSubReady' <=> d \in mSubReady)
      BY <1>1, <2>3
    <3> QED BY <1>1, <1>5, <2>1, <2>3, <3>1 DEF ReadyOK
  <2> QED BY <2>2, <2>3
<1>12. ASSUME NEW x \in Received PROVE RequestOK(x)'
  <2>1. RequestOK(x) /\ x[2] \in Ends
    BY ReceivedFields DEF LifeInv, Ends
  <2>2. InCallback(x[2], x)' <=> InCallback(x[2], x)
    BY <1>6, <1>7, <2>1
  <2> QED BY <1>1, <2>1, <2>2 DEF RequestOK
<1> QED BY <1>8, <1>9, <1>10, <1>11, <1>12 DEF LifeInv

LEMMA ReplyCbLife ==
  ASSUME LifeInv, NEW r \in Requesters, ReplyCb(r)
  PROVE  LifeInv'
<1>1. PICK m : m = Head(queue[r])
  OBVIOUS
<1>2. /\ m.kind = "reply" /\ Take(r, m)
      /\ running' = running \/ Run(r, m)
      /\ answered' = answered \/ answered' = answered \cup {<<m.req, m.from>>}
      /\ wrong' = wrong \/ wrong' = wrong \cup {r}
      /\ UNCHANGED <<gSbfGuidSeed, creating, memory, mPubReady, mSubReady, mNext, mRequests,
                     sent, mGuid, mRefCount, detached, replied, joined, lost, told>>
  BY <1>1 DEF ReplyCb, guidVars, endVars, sendVars, receivedVars, netVars
<1>3. r \in Ends
  BY DEF Ends
<1>4. /\ running[r] = NULL /\ m \in Items /\ queue' \in [Ends -> Seq(Items)]
      /\ \A d \in Ends \ {r} : queue'[d] = queue[d]
      /\ Contents(queue'[r]) \subseteq Contents(queue[r])
      /\ Once(queue[r]) => Once(queue'[r])
  BY <1>2, <1>3, TakeQueues DEF LifeInv
<1>5. /\ \A d \in Ends \ {r} : running'[d] = running[d]
      /\ running'[r] = NULL \/ running'[r] = m
      /\ running' \in [Ends -> Items \cup {NULL}]
  BY <1>2, <1>3, <1>4 DEF LifeInv, TypeOK, Run
<1>6. \A d \in Ends : \A x : InCallback(d, x)' <=> InCallback(d, x)
  BY <1>2, <1>4, <1>5 DEF InCallback
<1>7. TypeOK'
  <2>1. <<m.req, m.from>> \in Received
    BY <1>2, <1>4, ItemFields, ReceivedFields
  <2>2. answered' \subseteq Received /\ wrong' \subseteq Requesters
    BY <1>2, <2>1 DEF LifeInv, TypeOK
  <2> QED BY <1>2, <1>4, <1>5, <2>2 DEF LifeInv, TypeOK
<1>8. ASSUME NEW d \in Ends PROVE QueueOK(d)'
  <2>1. QueueOK(d) /\ Once(queue'[d]) /\ Contents(queue'[d]) \subseteq Contents(queue[d])
    BY <1>3, <1>4 DEF LifeInv, QueueOK
  <2> QED BY <1>2, <1>6, <2>1 DEF QueueOK
<1>9. ASSUME NEW x \in Received PROVE RequestOK(x)'
  <2>1. RequestOK(x) /\ x[2] \in Ends
    BY ReceivedFields DEF LifeInv, Ends
  <2> QED BY <1>2, <1>6, <2>1 DEF RequestOK
<1> QED BY <1>2, <1>7, <1>8, <1>9, ReadySame DEF LifeInv

LEMMA RequestCbLife ==
  ASSUME LifeInv, NEW p \in Repliers, RequestCb(p)
  PROVE  LifeInv'
<1>1. PICK m : m = Head(queue[p])
  OBVIOUS
<1>2. PICK x : x = <<m.req, p>>
  OBVIOUS
<1>3. /\ m.kind = "request" /\ Take(p, m) /\ Run(p, m)
      /\ mRefCount' = [mRefCount EXCEPT ![x] = 1]
      /\ mGuid' = [mGuid EXCEPT ![x] = m.guid]
      /\ UNCHANGED <<gSbfGuidSeed, creating, memory, mPubReady, mSubReady, mNext, mRequests,
                     sent, detached, replied, joined, lost, told, answered, wrong>>
  BY <1>1, <1>2 DEF RequestCb, guidVars, endVars, sendVars, netVars, historyVars
<1>4. p \in Ends
  BY DEF Ends
<1>5. /\ running[p] = NULL /\ m \in Items /\ queue' \in [Ends -> Seq(Items)]
      /\ \A d \in Ends \ {p} : queue'[d] = queue[d]
      /\ m \in Contents(queue[p])
      /\ Contents(queue'[p]) \subseteq Contents(queue[p])
      /\ Once(queue[p]) =>
              /\ Once(queue'[p])
              /\ m.kind # "reply" => \A j \in Contents(queue'[p]) : ~Same(m, j)
  BY <1>3, <1>4, TakeQueues DEF LifeInv
<1>6. /\ m.guid \in Guids /\ m.req \in Requests /\ x \in Received /\ x[1] = m.req /\ x[2] = p
      /\ m # NULL
  BY <1>2, <1>3, <1>5, ItemFields, ReceivedFields, NullAssumption
<1>7. /\ \A d \in Ends \ {p} : running'[d] = running[d]
      /\ running'[p] = m
      /\ running' \in [Ends -> Items \cup {NULL}]
  BY <1>3, <1>4, <1>5 DEF LifeInv, TypeOK, Run
<1>8. /\ \A d \in Ends \ {p} : \A y : InCallback(d, y)' <=> InCallback(d, y)
      /\ \A y : ~InCallback(p, y) /\ (InCallback(p, y)' <=> y = x)
  BY <1>2, <1>3, <1>5, <1>6, <1>7 DEF InCallback
<1>9. QueueOK(p)
  BY <1>4 DEF LifeInv
<1>10. x \notin detached /\ x[1][2] <= sent[x[1][1]]
  BY <1>2, <1>3, <1>5, <1>6, <1>9 DEF QueueOK
<1>11. mRefCount'[x] = 1 /\ \A y \in Received \ {x} : mRefCount'[y] = mRefCount[y]
  BY <1>3, <1>6 DEF LifeInv, TypeOK
<1>12. TypeOK'
  BY <1>3, <1>5, <1>6, <1>7, <1>11 DEF LifeInv, TypeOK
<1>13. QueueOK(p)'
  <2>1. Once(queue'[p]) /\ \A j \in Contents(queue'[p]) : j \in Contents(queue[p]) /\ ~Same(m, j)
    BY <1>3, <1>5, <1>9 DEF QueueOK
  <2>2. ASSUME NEW j \in Contents(queue'[p]), j.kind = "request"
        PROVE  ~InCallback(p, <<j.req, p>>)'
    <3>1. j.req # m.req
      BY <1>3, <2>1, <2>2 DEF Same
    <3>2. <<j.req, p>> # x
      BY <1>2, <3>1
    <3> QED BY <1>8, <3>2
  <2> QED BY <1>3, <1>9, <2>1, <2>2 DEF QueueOK
<1>14. ASSUME NEW d \in Ends, d # p PROVE QueueOK(d)'
  <2>1. QueueOK(d) /\ queue'[d] = queue[d]
    BY <1>5, <1>14 DEF LifeInv
  <2> QED BY <1>3, <1>8, <1>14, <2>1 DEF QueueOK
<1>15. ASSUME NEW y \in Received PROVE RequestOK(y)'
  <2>1. RequestOK(y) /\ y[2] \in Ends
    BY ReceivedFields DEF LifeInv, Ends
  <2>2. CASE y = x
    BY <1>3, <1>6, <1>8, <1>10, <1>11, <2>2 DEF RequestOK
  <2>3. CASE y # x
    <3>1. InCallback(y[2], y)' <=> InCallback(y[2], y)
      BY <1>8, <2>1, <2>3
    <3> QED BY <1>3, <1>11, <2>1, <2>3, <3>1 DEF RequestOK
  <2> QED BY <2>2, <2>3
<1> QED BY <1>3, <1>12, <1>13, <1>14, <1>15, ReadySame DEF LifeInv

LEMMA ReturnLife ==
  ASSUME LifeInv, NEW e \in Ends, Return(e)
  PROVE  LifeInv'
<1>1. /\ running[e] # NULL
      /\ running' = [running EXCEPT ![e] = NULL]
      /\ IF running[e].kind = "request"
         THEN mRefCount' = [mRefCount EXCEPT ![<<running[e].req, e>>] = @ - 1]
         ELSE UNCHANGED mRefCount
      /\ UNCHANGED <<gSbfGuidSeed, creating, memory, mPubReady, mSubReady, mNext, mRequests,
                     sent, mGuid, detached, replied, joined, lost, queue, told, answered, wrong>>
  BY DEF Return, DropReceived, guidVars, endVars, sendVars, netVars, historyVars
<1>2. /\ \A d \in Ends \ {e} : running'[d] = running[d]
      /\ running'[e] = NULL
      /\ running' \in [Ends -> Items \cup {NULL}]
  BY <1>1 DEF LifeInv, TypeOK
<1>3. /\ \A d \in Ends \ {e} : \A y : InCallback(d, y)' <=> InCallback(d, y)
      /\ \A y : ~InCallback(e, y)'
  BY <1>2 DEF InCallback
<1>4. \A y \in Received :
        mRefCount'[y] = mRefCount[y] - IF InCallback(e, y) THEN 1 ELSE 0
  <2>1. mRefCount \in [Received -> Nat]
    BY DEF LifeInv, TypeOK
  <2>2. PICK x : x = <<running[e].req, e>>
    OBVIOUS
  <2>3. CASE running[e].kind = "request"
    <3>1. mRefCount' = [mRefCount EXCEPT ![x] = @ - 1]
      BY <1>1, <2>2, <2>3
    <3>2. \A y : InCallback(e, y) <=> y = x
      BY <1>1, <2>2, <2>3 DEF InCallback
    <3> QED BY <2>1, <3>1, <3>2
  <2>4. CASE running[e].kind # "request"
    <3>1. mRefCount' = mRefCount /\ \A y : ~InCallback(e, y)
      BY <1>1, <2>4 DEF InCallback
    <3> QED BY <2>1, <3>1
  <2> QED BY <2>3, <2>4
<1>5. ASSUME NEW y \in Received
      PROVE  RequestOK(y)' /\ mRefCount'[y] \in Nat
  <2>1. /\ RequestOK(y) /\ y[2] \in Ends /\ mRefCount[y] \in Nat
        /\ y = <<y[1], y[2]>>
    BY ReceivedFields DEF LifeInv, TypeOK, Ends
  <2>2. InCallback(e, y) => y[2] = e
    BY DEF InCallback
  <2>3. CASE InCallback(e, y)
    BY <1>1, <1>3, <1>4, <2>1, <2>2, <2>3 DEF RequestOK
  <2>4. CASE ~InCallback(e, y)
    <3>1. InCallback(y[2], y)' <=> InCallback(y[2], y)
      BY <1>3, <2>1, <2>4
    <3> QED BY <1>1, <1>4, <2>1, <2>4, <3>1 DEF RequestOK
  <2> QED BY <2>3, <2>4
<1>6. TypeOK'
  <2>1. mRefCount' \in [Received -> Nat]
    BY <1>1, <1>5 DEF LifeInv, TypeOK
  <2> QED BY <1>1, <1>2, <2>1 DEF LifeInv, TypeOK
<1>7. ASSUME NEW d \in Ends PROVE QueueOK(d)'
  <2>1. QueueOK(d) /\ \A y : InCallback(d, y)' => InCallback(d, y)
    BY <1>3 DEF LifeInv
  <2> QED BY <1>1, <2>1 DEF QueueOK
<1> QED BY <1>1, <1>5, <1>6, <1>7, ReadySame DEF LifeInv

-----------------------------------------------------------------------------
(* What the invariant implies. *)

\* No request is sent or received, and what is started is ready.
LEMMA InitLife == Init => LifeInv
<1> SUFFICES ASSUME Init PROVE LifeInv
  OBVIOUS
<1>1. PICK start \in Starts : Started(start)
  BY DEF Init
<1>2. start \subseteq Ends
  BY RequestAssumption
<1>3. gSbfGuidSeed \in Nat /\ mNext \in [Requesters -> Guids]
  <2>1. IsFiniteSet(start \cap Requesters)
    BY RequestAssumption, FS_Subset
  <2>2. gSbfGuidSeed \in Nat
    BY <1>1, <2>1, FS_CardinalityType DEF Started
  <2>3. PICK seed \in [Requesters -> 0..gSbfGuidSeed] :
          mNext = [r \in Requesters |-> <<seed[r], 0>>]
    BY <1>1 DEF Started
  <2>4. \A r \in Requesters : <<seed[r], 0>> \in Guids
    BY <2>2 DEF Guids
  <2> QED BY <2>2, <2>3, <2>4
<1>4. TypeOK
  <2>1. << >> \in Seq(Items) /\ MaxRequests \in Nat
    BY RequestAssumption
  <2> QED BY <1>1, <1>2, <1>3, <2>1 DEF Init, Started, TypeOK, Guids
<1>5. ASSUME NEW e \in Ends PROVE QueueOK(e) /\ ReadyOK(e)
  <2>1. queue[e] = << >> /\ Once(<< >>) /\ Contents(<< >>) = {}
    BY <1>5 DEF Init, Once, Contents
  <2>2. QueueOK(e)
    BY <2>1 DEF QueueOK
  <2> QED BY <1>1, <2>2 DEF Started, ReadyOK
<1>6. ASSUME NEW x \in Received PROVE RequestOK(x)
  <2>1. x[2] \in Ends
    BY ReceivedFields DEF Ends
  <2> QED BY <2>1 DEF Init, RequestOK, InCallback
<1> QED BY <1>4, <1>5, <1>6 DEF LifeInv

\* Every step keeps the invariant.
LEMMA NextLife ==
  ASSUME LifeInv, [Next]_vars
  PROVE  LifeInv'
<1>1. ASSUME NEW r \in Requesters,
             ReadSeed(r) \/ StoreSeed(r) \/ Send(r) \/ DestroyRequest(r)
      PROVE  LifeInv'
  BY <1>1, ReadSeedLife, StoreSeedLife, SendLife, DestroyRequestLife
<1>2. ASSUME NEW p \in Repliers, CreateReplier(p) PROVE LifeInv'
  BY <1>2, CreateReplierLife
<1>3. ASSUME NEW x \in Received, Reply(x) \/ Detach(x) \/ DestroyDetached(x) PROVE LifeInv'
  BY <1>3, ReplyLife, DetachLife, DestroyDetachedLife
<1>4. ASSUME NEW e \in Ends,
             BecomeReady(e, "pub") \/ BecomeReady(e, "sub") \/ Destroy(e) \/ QueueThread(e)
      PROVE  LifeInv'
  BY <1>4, BecomeReadyLife, DestroyLife, ReadyCbLife, ReturnLife, ReplyCbLife, RequestCbLife
     DEF QueueThread
<1>5. CASE UNCHANGED vars
  <2>1. TypeOK'
    BY <1>5 DEF LifeInv, TypeOK, vars, guidVars, endVars, sendVars, receivedVars, netVars,
                threadVars, historyVars
  <2> QED BY <1>5, <2>1, LifeSame
      DEF vars, lifeVars, endVars, sendVars, receivedVars, netVars, threadVars, historyVars
<1> QED BY <1>1, <1>2, <1>3, <1>4, <1>5 DEF Next

\* The invariant holds always.
LEMMA LifeInvariance == Spec => []LifeInv
BY InitLife, NextLife, PTL DEF Spec

\* Requesters, repliers, requests and their queues keep their types, and no count
\* of sbfRequestReply.c is ever negative, for any number of them.
THEOREM TypeCorrect == Spec => []TypeOK
<1>1. LifeInv => TypeOK
  BY DEF LifeInv
<1> QED BY LifeInvariance, <1>1, PTL

\* A request that sbfRequestSubSubMessageCb has received has one reference for the
\* callback and one for the application that detached it, whichever of sbfRequest_
\* destroy comes first: it is freed once, with the last.
THEOREM ReceivedCorrect == Spec => []ReceivedOK
<1>1. LifeInv => ReceivedOK
  BY DEF LifeInv, RequestOK, ReceivedOK
<1> QED BY LifeInvariance, <1>1, PTL

\* sbfRequestPub.c and sbfRequestSub.c call mReadyCb once, after the inner
\* publisher and the inner subscription are both ready, in either order.
THEOREM ReadyCorrect == Spec => []ReadyOnce
<1>1. LifeInv => ReadyOnce
  BY DEF LifeInv, ReadyOK, ReadyOnce
<1> QED BY LifeInvariance, <1>1, PTL

-----------------------------------------------------------------------------
(* The identifiers of requests: the inductive invariant.  It needs requesters  *)
(* to be created one at a time.                                                *)

\* Request q of a requester that has been created has identifier g.
Named(q, g) == memory[q[1]] # "none" /\ g = <<mNext[q[1]][1], q[2]>>

QueueNames ==
  \A e \in Ends : \A i \in Contents(queue[e]) :
    i.kind \in {"request", "reply"} => Named(i.req, i.guid)

ReceivedNames ==
  \A x \in Received : InCallback(x[2], x) \/ x \in detached => Named(x[1], mGuid[x])

TreeNames ==
  \A r \in Requesters : \A q \in mRequests[r] : Named(<<r, q.num>>, q.guid)

\* The seeds of created requesters are different, and have been used up; the seed
\* that sbfGuid_new has read has not.
SeedsOK ==
  /\ \A r \in Requesters :
       /\ mNext[r][2] = sent[r]
       /\ memory[r] = "none" => sent[r] = 0
       /\ memory[r] # "none" => mNext[r][1] < gSbfGuidSeed /\ r \notin creating
       /\ r \in creating => mNext[r][1] = gSbfGuidSeed
  /\ \A r, s \in Requesters :
       memory[r] # "none" /\ memory[s] # "none" /\ mNext[r][1] = mNext[s][1] => r = s
  /\ \A r, s \in creating : r = s

GuidInv == QueueNames /\ ReceivedNames /\ TreeNames /\ SeedsOK /\ wrong = {}

\* The created requesters keep their seeds.
Keeps ==
  \A r \in Requesters :
    memory[r] # "none" => memory'[r] # "none" /\ mNext'[r][1] = mNext[r][1]

\* A request keeps its identifier.
LEMMA NamedKept ==
  ASSUME Keeps, NEW q \in Requests, NEW g, Named(q, g)
  PROVE  Named(q, g)'
BY DEF Keeps, Named, Requests

\* Steps that queue, receive and send nothing new keep all names.
LEMMA NamesKept ==
  ASSUME TypeOK, GuidInv, Keeps,
         \A e \in Ends : Contents(queue'[e]) \subseteq Contents(queue[e]),
         \A x \in Received : InCallback(x[2], x)' \/ x \in detached' =>
                               InCallback(x[2], x) \/ x \in detached,
         mGuid' = mGuid,
         \A r \in Requesters : mRequests'[r] \subseteq mRequests[r]
  PROVE  QueueNames' /\ ReceivedNames' /\ TreeNames'
<1>1. QueueNames'
  <2> SUFFICES ASSUME NEW e \in Ends, NEW i \in Contents(queue'[e]),
                      i.kind \in {"request", "reply"}
               PROVE  Named(i.req, i.guid)'
    BY DEF QueueNames
  <2>1. i \in Contents(queue[e]) /\ i \in Items
    <3>1. i \in Contents(queue[e]) /\ queue[e] \in Seq(Items)
      BY DEF TypeOK
    <3> QED BY <3>1 DEF Contents
  <2>2. i.req \in Requests /\ Named(i.req, i.guid)
    BY <2>1, ItemFields DEF GuidInv, QueueNames
  <2> QED BY <2>2, NamedKept
<1>2. ReceivedNames'
  <2> SUFFICES ASSUME NEW x \in Received, InCallback(x[2], x)' \/ x \in detached'
               PROVE  Named(x[1], mGuid[x])'
    BY DEF ReceivedNames
  <2>1. PICK g : g = mGuid[x]
    OBVIOUS
  <2>2. x[1] \in Requests /\ Named(x[1], g)
    BY <2>1, ReceivedFields DEF GuidInv, ReceivedNames
  <2>3. Named(x[1], g)'
    BY <2>2, NamedKept
  <2> QED BY <2>1, <2>3
<1>3. TreeNames'
  <2> SUFFICES ASSUME NEW r \in Requesters, NEW q \in mRequests'[r]
               PROVE  Named(<<r, q.num>>, q.guid)'
    BY DEF TreeNames
  <2>1. q \in mRequests[r] /\ q.num \in 1..MaxRequests
    BY DEF TypeOK
  <2>2. <<r, q.num>> \in Requests /\ Named(<<r, q.num>>, q.guid)
    BY <2>1 DEF GuidInv, TreeNames, Requests
  <2> QED BY <2>2, NamedKept
<1> QED BY <1>1, <1>2, <1>3

\* Steps that create no requester keep the seeds.
LEMMA SeedsSame ==
  ASSUME SeedsOK, UNCHANGED <<gSbfGuidSeed, creating, mNext, sent>>,
         \A r \in Requesters : memory'[r] = "none" <=> memory[r] = "none"
  PROVE  SeedsOK' /\ Keeps
BY DEF SeedsOK, Keeps

\* The steps that name nothing.
LEMMA GuidSame ==
  ASSUME TypeOK, GuidInv, UNCHANGED <<gSbfGuidSeed, creating, mNext, sent, mGuid, wrong>>,
         \A r \in Requesters : memory'[r] = "none" <=> memory[r] = "none",
         \A e \in Ends : Contents(queue'[e]) \subseteq Contents(queue[e]),
         \A x \in Received : InCallback(x[2], x)' \/ x \in detached' =>
                               InCallback(x[2], x) \/ x \in detached,
         \A r \in Requesters : mRequests'[r] \subseteq mRequests[r]
  PROVE  GuidInv'
BY SeedsSame, NamesKept DEF GuidInv

-----------------------------------------------------------------------------
(* The actions, one by one: each keeps the invariant. *)

LEMMA ReadSeedGuid ==
  ASSUME TypeOK, GuidInv, ~Overlap, NEW r \in Requesters, ReadSeed(r)
  PROVE  GuidInv'
<1>1. /\ memory[r] = "none" /\ creating = {} /\ creating' = {r}
      /\ mNext' = [mNext EXCEPT ![r] = <<gSbfGuidSeed, 0>>]
      /\ UNCHANGED <<gSbfGuidSeed, memory, mRequests, sent, mGuid, detached, queue, running,
                     wrong>>
  BY DEF ReadSeed, endVars, receivedVars, netVars, threadVars, historyVars
<1>2. /\ mNext'[r] = <<gSbfGuidSeed, 0>> /\ mNext'[r][1] = gSbfGuidSeed /\ mNext'[r][2] = 0
      /\ \A s \in Requesters \ {r} : mNext'[s] = mNext[s]
  BY <1>1 DEF TypeOK
<1>3. Keeps
  BY <1>1, <1>2 DEF Keeps
<1>4. \A e, x : InCallback(e, x)' <=> InCallback(e, x)
  BY <1>1 DEF InCallback
<1>5. QueueNames' /\ ReceivedNames' /\ TreeNames'
  BY <1>1, <1>3, <1>4, NamesKept
<1>6. SeedsOK'
  BY <1>1, <1>2 DEF GuidInv, SeedsOK
<1> QED BY <1>1, <1>5, <1>6 DEF GuidInv

LEMMA StoreSeedGuid ==
  ASSUME TypeOK, GuidInv, NEW r \in Requesters, StoreSeed(r)
  PROVE  GuidInv'
<1>1. /\ r \in creating /\ gSbfGuidSeed' = mNext[r][1] + 1
      /\ memory' = [memory EXCEPT ![r] = "held"] /\ creating' = creating \ {r}
      /\ UNCHANGED <<mNext, mRequests, sent, mGuid, detached, queue, running, wrong>>
  BY DEF StoreSeed, sendVars, receivedVars, netVars, threadVars, historyVars
<1>2. /\ mNext[r][1] = gSbfGuidSeed /\ gSbfGuidSeed \in Nat /\ memory[r] = "none"
      /\ \A s \in Requesters : mNext[s][1] \in Nat
      /\ \A s \in creating : s = r
  BY <1>1 DEF TypeOK, Guids, GuidInv, SeedsOK
<1>3. memory'[r] = "held" /\ \A s \in Requesters \ {r} : memory'[s] = memory[s]
  BY <1>1 DEF TypeOK, Ends
<1>4. Keeps
  BY <1>1, <1>2, <1>3 DEF Keeps
<1>5. \A e, x : InCallback(e, x)' <=> InCallback(e, x)
  BY <1>1 DEF InCallback
<1>6. QueueNames' /\ ReceivedNames' /\ TreeNames'
  BY <1>1, <1>4, <1>5, NamesKept
<1>7. SeedsOK'
  <2>1. SeedsOK /\ creating' = {} /\ gSbfGuidSeed' = gSbfGuidSeed + 1
    BY <1>1, <1>2 DEF GuidInv
  <2>2. ASSUME NEW s \in Requesters
        PROVE  /\ mNext'[s][2] = sent'[s]
               /\ memory'[s] = "none" => sent'[s] = 0
               /\ memory'[s] # "none" => mNext'[s][1] < gSbfGuidSeed'
    BY <1>1, <1>2, <1>3, <2>1 DEF SeedsOK
  <2>3. ASSUME NEW s \in Requesters, NEW u \in Requesters, memory'[s] # "none",
               memory'[u] # "none", mNext'[s][1] = mNext'[u][1]
        PROVE  s = u
    <3>1. \A v \in Requesters \ {r} : memory'[v] # "none" => mNext[v][1] < mNext[r][1]
      BY <1>2, <1>3, <2>1 DEF SeedsOK
    <3> QED BY <1>1, <1>2, <1>3, <2>1, <2>3, <3>1 DEF SeedsOK
  <2> QED BY <2>1, <2>2, <2>3 DEF SeedsOK
<1> QED BY <1>1, <1>6, <1>7 DEF GuidInv

LEMMA SendGuid ==
  ASSUME TypeOK, GuidInv, NEW r \in Requesters, Send(r)
  PROVE  GuidInv'
<1>1. PICK guid : guid = <<mNext[r][1], mNext[r][2] + 1>>
  OBVIOUS
<1>2. PICK num : num = sent[r] + 1
  OBVIOUS
<1>3. PICK m : m = [kind |-> "request", guid |-> guid, req |-> <<r, num>>]
  OBVIOUS
<1>4. /\ memory[r] = "held" /\ sent[r] < MaxRequests
      /\ mNext' = [mNext EXCEPT ![r] = guid]
      /\ mRequests' = [mRequests EXCEPT ![r] = @ \cup {[guid |-> guid, num |-> num]}]
      /\ sent' = [sent EXCEPT ![r] = num]
      /\ Broadcast(m, Repliers)
      /\ UNCHANGED <<gSbfGuidSeed, creating, memory, mGuid, detached, running, wrong>>
  BY <1>1, <1>2, <1>3 DEF Send, guidVars, endVars, receivedVars, historyVars
<1>5. /\ guid \in Guids /\ guid[1] = mNext[r][1] /\ guid[2] = num
      /\ num \in 1..MaxRequests
  <2>1. mNext[r][2] = sent[r] /\ sent[r] \in 0..MaxRequests /\ MaxRequests \in Nat
        /\ mNext[r] \in Guids
    BY RequestAssumption DEF TypeOK, GuidInv, SeedsOK
  <2> QED BY <1>1, <1>2, <1>4, <2>1 DEF Guids
<1>6. m \in Messages /\ m.kind = "request" /\ m.req = <<r, num>> /\ m.guid = guid
      /\ m \in Items /\ <<r, num>> \in Requests
  BY <1>3, <1>5, ItemFields DEF Messages, Requests
<1>7. /\ mNext'[r] = guid /\ sent'[r] = num
      /\ \A s \in Requesters \ {r} : mNext'[s] = mNext[s] /\ sent'[s] = sent[s]
      /\ mRequests'[r] = mRequests[r] \cup {[guid |-> guid, num |-> num]}
      /\ \A s \in Requesters \ {r} : mRequests'[s] = mRequests[s]
  BY <1>4 DEF TypeOK
<1>8. Keeps
  BY <1>4, <1>5, <1>7 DEF Keeps
<1>9. Named(<<r, num>>, guid)'
  BY <1>1, <1>4, <1>5, <1>7 DEF Named
<1>10. QueueNames'
  <2> SUFFICES ASSUME NEW e \in Ends, NEW i \in Contents(queue'[e]),
                      i.kind \in {"request", "reply"}
               PROVE  Named(i.req, i.guid)'
    BY DEF QueueNames
  <2>1. queue[e] \in Seq(Items) /\ (queue'[e] = queue[e] \/ queue'[e] = Append(queue[e], m))
    BY <1>4, <1>6, BroadcastQueues DEF TypeOK, Ends
  <2>2. i \in Contents(queue[e]) \/ i = m
    <3>1. Contents(Append(queue[e], m)) = Contents(queue[e]) \cup {m}
      BY <1>6, <2>1, AppendOnce
    <3> QED BY <2>1, <3>1
  <2>3. CASE i = m
    BY <1>6, <1>9, <2>3
  <2>4. CASE i \in Contents(queue[e])
    <3>1. i \in Items
      BY <2>1, <2>4 DEF Contents
    <3>2. i.req \in Requests /\ Named(i.req, i.guid)
      BY <2>4, <3>1, ItemFields DEF GuidInv, QueueNames
    <3> QED BY <1>8, <3>2, NamedKept
  <2> QED BY <2>2, <2>3, <2>4
<1>11. ReceivedNames'
  <2> SUFFICES ASSUME NEW x \in Received, InCallback(x[2], x)' \/ x \in detached'
               PROVE  Named(x[1], mGuid[x])'
    BY DEF ReceivedNames
  <2>1. PICK g : g = mGuid[x]
    OBVIOUS
  <2>2. x[1] \in Requests /\ Named(x[1], g)
    BY <1>4, <2>1, ReceivedFields DEF GuidInv, ReceivedNames, InCallback
  <2>3. Named(x[1], g)'
    BY <1>8, <2>2, NamedKept
  <2> QED BY <1>4, <2>1, <2>3
<1>12. TreeNames'
  <2> SUFFICES ASSUME NEW s \in Requesters, NEW q \in mRequests'[s]
               PROVE  Named(<<s, q.num>>, q.guid)'
    BY DEF TreeNames
  <2>1. CASE q \in mRequests[s]
    <3>1. q.num \in 1..MaxRequests
      BY <2>1 DEF TypeOK
    <3>2. <<s, q.num>> \in Requests /\ Named(<<s, q.num>>, q.guid)
      BY <2>1, <3>1 DEF GuidInv, TreeNames, Requests
    <3> QED BY <1>8, <3>2, NamedKept
  <2>2. CASE q \notin mRequests[s]
    <3>1. s = r /\ q = [guid |-> guid, num |-> num]
      BY <1>7, <2>2
    <3> QED BY <1>9, <3>1
  <2> QED BY <2>1, <2>2
<1>13. SeedsOK'
  BY <1>4, <1>5, <1>7 DEF GuidInv, SeedsOK
<1> QED BY <1>4, <1>10, <1>11, <1>12, <1>13 DEF GuidInv

LEMMA ReplyGuid ==
  ASSUME TypeOK, GuidInv, NEW x \in Received, Reply(x)
  PROVE  GuidInv'
<1>1. PICK m : m = [kind |-> "reply", guid |-> mGuid[x], req |-> x[1], from |-> x[2]]
  OBVIOUS
<1>2. /\ Broadcast(m, Requesters)
      /\ InCallback(x[2], x) \/ x \in detached
      /\ UNCHANGED <<gSbfGuidSeed, creating, memory, mNext, mRequests, sent, mGuid, detached,
                     running, wrong>>
  BY <1>1 DEF Reply, guidVars, endVars, sendVars, historyVars
<1>3. m \in Messages /\ m \in Items /\ Named(m.req, m.guid)
  <2>1. mGuid[x] \in Guids /\ x[1] \in Requests /\ x[2] \in Repliers
    BY ReceivedFields DEF TypeOK
  <2>2. m \in Messages
    BY <1>1, <2>1 DEF Messages
  <2> QED BY <1>1, <1>2, <2>2, ItemFields DEF GuidInv, ReceivedNames
<1>4. SeedsOK' /\ Keeps
  BY <1>2, SeedsSame DEF GuidInv
<1>5. QueueNames'
  <2> SUFFICES ASSUME NEW e \in Ends, NEW i \in Contents(queue'[e]),
                      i.kind \in {"request", "reply"}
               PROVE  Named(i.req, i.guid)'
    BY DEF QueueNames
  <2>1. queue[e] \in Seq(Items) /\ (queue'[e] = queue[e] \/ queue'[e] = Append(queue[e], m))
    BY <1>2, <1>3, BroadcastQueues DEF TypeOK, Ends
  <2>2. i \in Contents(queue[e]) \/ i = m
    <3>1. Contents(Append(queue[e], m)) = Contents(queue[e]) \cup {m}
      BY <1>3, <2>1, AppendOnce
    <3> QED BY <2>1, <3>1
  <2>3. i \in Items
    BY <1>3, <2>1, <2>2 DEF Contents
  <2>4. i.req \in Requests /\ Named(i.req, i.guid)
    BY <1>3, <2>2, <2>3, ItemFields DEF GuidInv, QueueNames
  <2> QED BY <1>4, <2>4, NamedKept
<1>6. ReceivedNames' /\ TreeNames'
  BY <1>2 DEF GuidInv, ReceivedNames, TreeNames, Named, InCallback
<1> QED BY <1>2, <1>4, <1>5, <1>6 DEF GuidInv

LEMMA RequestCbGuid ==
  ASSUME TypeOK, GuidInv, NEW p \in Repliers, RequestCb(p)
  PROVE  GuidInv'
<1>1. PICK m : m = Head(queue[p])
  OBVIOUS
<1>2. PICK x : x = <<m.req, p>>
  OBVIOUS
<1>3. /\ m.kind = "request" /\ Take(p, m) /\ Run(p, m)
      /\ mGuid' = [mGuid EXCEPT ![x] = m.guid]
      /\ UNCHANGED <<gSbfGuidSeed, creating, memory, mNext, mRequests, sent, detached, wrong>>
  BY <1>1, <1>2 DEF RequestCb, guidVars, endVars, sendVars, netVars, historyVars
<1>4. p \in Ends
  BY DEF Ends
<1>5. /\ m \in Items /\ m \in Contents(queue[p])
      /\ \A e \in Ends : Contents(queue'[e]) \subseteq Contents(queue[e])
  BY <1>3, <1>4, TakeQueues
<1>6. Named(m.req, m.guid) /\ x \in Received /\ x[1] = m.req /\ x[2] = p
  BY <1>2, <1>3, <1>4, <1>5, ItemFields, ReceivedFields DEF GuidInv, QueueNames
<1>7. running' = [running EXCEPT ![p] = m]
  BY <1>3 DEF Run
<1>8. SeedsOK' /\ Keeps
  BY <1>3, SeedsSame DEF GuidInv
<1>9. QueueNames' /\ TreeNames'
  BY <1>3, <1>5 DEF GuidInv, QueueNames, TreeNames, Named
<1>10. ReceivedNames'
  <2> SUFFICES ASSUME NEW y \in Received, InCallback(y[2], y)' \/ y \in detached'
               PROVE  Named(y[1], mGuid[y])'
    BY DEF ReceivedNames
  <2>1. CASE y = x
    <3>1. mGuid'[y] = m.guid /\ y[1] = m.req
      BY <1>3, <1>6, <2>1 DEF TypeOK
    <3> QED BY <1>3, <1>6, <3>1 DEF Named
  <2>2. CASE y # x
    <3>1. mGuid'[y] = mGuid[y]
      BY <1>3, <2>2 DEF TypeOK
    <3>2. y[2] \in Ends /\ y = <<y[1], y[2]>>
      BY ReceivedFields DEF Ends
    <3>3. InCallback(y[2], y)' => InCallback(y[2], y)
      BY <1>2, <1>4, <1>7, <2>2, <3>2 DEF InCallback, TypeOK
    <3>4. Named(y[1], mGuid[y])
      BY <1>3, <3>3 DEF GuidInv, ReceivedNames
    <3> QED BY <1>3, <3>1, <3>4 DEF Named
  <2> QED BY <2>1, <2>2
<1> QED BY <1>3, <1>8, <1>9, <1>10 DEF GuidInv

\* The request found for a reply is the one it replies to.
LEMMA ReplyCbGuid ==
  ASSUME TypeOK, GuidInv, NEW r \in Requesters, ReplyCb(r)
  PROVE  GuidInv'
<1>1. PICK m : m = Head(queue[r])
  OBVIOUS
<1>2. PICK found : found = {q \in mRequests[r] : SameGuid(q, m)}
  OBVIOUS
<1>3. /\ m.kind = "reply" /\ Take(r, m)
      /\ running' = running \/ Run(r, m)
      /\ wrong' = wrong \/ wrong' = IF \A q \in found : m.req = <<r, q.num>> THEN wrong
                                    ELSE wrong \cup {r}
      /\ UNCHANGED <<gSbfGuidSeed, creating, memory, mNext, mRequests, sent, mGuid, detached>>
  BY <1>1, <1>2 DEF ReplyCb, guidVars, endVars, sendVars, receivedVars, netVars
<1>4. r \in Ends
  BY DEF Ends
<1>5. /\ m \in Items /\ m \in Contents(queue[r]) /\ running[r] = NULL
      /\ \A e \in Ends : Contents(queue'[e]) \subseteq Contents(queue[e])
  BY <1>3, <1>4, TakeQueues
<1>6. ASSUME NEW q \in found PROVE m.req = <<r, q.num>>
  <2>1. q \in mRequests[r] /\ q.guid = m.guid /\ q.num \in 1..MaxRequests
    BY <1>2 DEF SameGuid, TypeOK
  <2>2. Named(<<r, q.num>>, q.guid) /\ Named(m.req, m.guid)
    BY <1>3, <1>4, <1>5, <2>1 DEF GuidInv, TreeNames, QueueNames
  <2>3. m.req = <<m.req[1], m.req[2]>> /\ m.req[1] \in Requesters
    BY <1>3, <1>5, ItemFields
  <2>4. mNext[r][1] = mNext[m.req[1]][1] /\ q.num = m.req[2]
        /\ memory[r] # "none" /\ memory[m.req[1]] # "none"
    <3>1. <<r, q.num>>[1] = r /\ <<r, q.num>>[2] = q.num
      OBVIOUS
    <3>2. /\ memory[r] # "none" /\ q.guid = <<mNext[r][1], q.num>>
          /\ memory[m.req[1]] # "none" /\ m.guid = <<mNext[m.req[1]][1], m.req[2]>>
      BY <2>2, <3>1 DEF Named
    <3>3. /\ q.guid[1] = mNext[r][1] /\ q.guid[2] = q.num
          /\ m.guid[1] = mNext[m.req[1]][1] /\ m.guid[2] = m.req[2]
      BY <3>2
    <3> QED BY <2>1, <3>2, <3>3
  <2>5. r = m.req[1]
    BY <2>3, <2>4 DEF GuidInv, SeedsOK
  <2> QED BY <2>3, <2>4, <2>5
<1>7. wrong' = wrong
  BY <1>3, <1>6
<1>8. \A x \in Received : InCallback(x[2], x)' => InCallback(x[2], x)
  <2>1. /\ running'[r] = running[r] \/ running'[r] = m
        /\ \A d \in Ends \ {r} : running'[d] = running[d]
    BY <1>3, <1>4 DEF Run, TypeOK
  <2>2. \A x \in Received : x[2] \in Ends
    BY ReceivedFields DEF Ends
  <2> QED BY <1>3, <2>1, <2>2 DEF InCallback
<1> QED BY <1>3, <1>5, <1>7, <1>8, GuidSame

\* The actions that name nothing.
LEMMA OthersGuid ==
  ASSUME TypeOK, GuidInv,
         \/ \E r \in Requesters : DestroyRequest(r)
         \/ \E p \in Repliers : CreateReplier(p)
         \/ \E x \in Received : Detach(x) \/ DestroyDetached(x)
         \/ \E e \in Ends : Destroy(e) \/ ReadyCb(e) \/ Return(e)
         \/ UNCHANGED vars
  PROVE  GuidInv'
<1>1. ASSUME NEW r \in Requesters, DestroyRequest(r) PROVE GuidInv'
  <2>1. /\ UNCHANGED <<gSbfGuidSeed, creating, memory, mNext, sent, mGuid, detached, queue,
                       running, wrong>>
        /\ \A s \in Requesters : mRequests'[s] \subseteq mRequests[s]
    BY <1>1 DEF DestroyRequest, TypeOK, guidVars, endVars, receivedVars, netVars, threadVars,
                historyVars
  <2>2. \A x : InCallback(x[2], x)' => InCallback(x[2], x)
    BY <2>1 DEF InCallback
  <2> QED BY <2>1, <2>2, GuidSame
<1>2. ASSUME NEW p \in Repliers, CreateReplier(p) PROVE GuidInv'
  <2>1. /\ memory' = [memory EXCEPT ![p] = "held"]
        /\ UNCHANGED <<gSbfGuidSeed, creating, mNext, mRequests, sent, mGuid, detached, queue,
                       running, wrong>>
    BY <1>2 DEF CreateReplier, guidVars, sendVars, receivedVars, netVars, threadVars, historyVars
  <2>2. \A r \in Requesters : r # p /\ r \in Ends
    BY RequestAssumption DEF Ends
  <2>3. \A r \in Requesters : memory'[r] = memory[r]
    BY <2>1, <2>2 DEF TypeOK
  <2>4. \A x : InCallback(x[2], x)' => InCallback(x[2], x)
    BY <2>1 DEF InCallback
  <2> QED BY <2>1, <2>3, <2>4, GuidSame
<1>3. ASSUME NEW x \in Received, Detach(x) \/ DestroyDetached(x) PROVE GuidInv'
  <2>1. /\ UNCHANGED <<gSbfGuidSeed, creating, memory, mNext, mRequests, sent, mGuid, queue,
                       running, wrong>>
        /\ \A y \in detached' : y \in detached \/ InCallback(y[2], y)
    BY <1>3 DEF Detach, DestroyDetached, guidVars, endVars, sendVars, netVars, threadVars,
                historyVars
  <2>2. \A y : InCallback(y[2], y)' => InCallback(y[2], y)
    BY <2>1 DEF InCallback
  <2> QED BY <2>1, <2>2, GuidSame
<1>4. ASSUME NEW e \in Ends, Destroy(e) PROVE GuidInv'
  <2>1. /\ memory[e] = "held" /\ memory' = [memory EXCEPT ![e] = "freed"]
        /\ mRequests' = [r \in Requesters |-> IF r = e THEN {} ELSE mRequests[r]]
        /\ queue' = [queue EXCEPT ![e] = << >>]
        /\ UNCHANGED <<gSbfGuidSeed, creating, mNext, sent, mGuid, detached, running, wrong>>
    BY <1>4 DEF Destroy, guidVars, receivedVars, netVars, historyVars
  <2>2. /\ \A r \in Requesters : memory'[r] = "none" <=> memory[r] = "none"
        /\ \A r \in Requesters : mRequests'[r] \subseteq mRequests[r]
    BY <2>1 DEF TypeOK, Ends
  <2>3. \A d \in Ends : Contents(queue'[d]) \subseteq Contents(queue[d])
    <3>1. Contents(<< >>) = {}
      BY DEF Contents
    <3> QED BY <2>1, <3>1 DEF TypeOK
  <2>4. \A x : InCallback(x[2], x)' => InCallback(x[2], x)
    BY <2>1 DEF InCallback
  <2> QED BY <2>1, <2>2, <2>3, <2>4, GuidSame
<1>5. ASSUME NEW e \in Ends, ReadyCb(e) PROVE GuidInv'
  <2>1. PICK k \in {"pub", "sub"} :
          /\ Take(e, [kind |-> k])
          /\ running' = running \/ Run(e, [kind |-> k])
          /\ UNCHANGED <<gSbfGuidSeed, creating, memory, mNext, mRequests, sent, mGuid,
                         detached, wrong>>
    BY <1>5 DEF ReadyCb, guidVars, sendVars, receivedVars, netVars
  <2>2. \A d \in Ends : Contents(queue'[d]) \subseteq Contents(queue[d])
    BY <2>1, TakeQueues
  <2>3. PICK i : i = [kind |-> k]
    OBVIOUS
  <2>4. \A x \in Received : InCallback(x[2], x)' => InCallback(x[2], x)
    <3>1. i.kind # "request"
      BY <2>3
    <3>2. /\ running'[e] = running[e] \/ running'[e] = i
          /\ \A d \in Ends \ {e} : running'[d] = running[d]
      BY <2>1, <2>3 DEF Run, TypeOK
    <3>3. \A x \in Received : x[2] \in Ends
      BY ReceivedFields DEF Ends
    <3> QED BY <3>1, <3>2, <3>3 DEF InCallback
  <2> QED BY <2>1, <2>2, <2>4, GuidSame
<1>6. ASSUME NEW e \in Ends, Return(e) PROVE GuidInv'
  <2>1. /\ running' = [running EXCEPT ![e] = NULL]
        /\ UNCHANGED <<gSbfGuidSeed, creating, memory, mNext, mRequests, sent, mGuid, detached,
                       queue, wrong>>
    BY <1>6 DEF Return, guidVars, endVars, sendVars, netVars, historyVars
  <2>2. \A x \in Received : InCallback(x[2], x)' => InCallback(x[2], x)
    BY <2>1 DEF InCallback, TypeOK
  <2> QED BY <2>1, <2>2, GuidSame
<1>7. CASE UNCHANGED vars
  <2>1. UNCHANGED <<gSbfGuidSeed, creating, memory, mNext, mRequests, sent, mGuid, detached,
                    queue, running, wrong>>
    BY <1>7 DEF vars, guidVars, endVars, sendVars, receivedVars, netVars, threadVars, historyVars
  <2>2. \A x : InCallback(x[2], x)' => InCallback(x[2], x)
    BY <2>1 DEF InCallback
  <2> QED BY <2>1, <2>2, GuidSame
<1> QED BY <1>1, <1>2, <1>3, <1>4, <1>5, <1>6, <1>7

LEMMA BecomeReadyGuid ==
  ASSUME TypeOK, GuidInv, NEW e \in Ends, NEW k \in {"pub", "sub"}, BecomeReady(e, k)
  PROVE  GuidInv'
<1>1. /\ queue' = [queue EXCEPT ![e] = Append(@, [kind |-> k])]
      /\ UNCHANGED <<gSbfGuidSeed, creating, memory, mNext, mRequests, sent, mGuid, detached,
                     running, wrong>>
  BY DEF BecomeReady, guidVars, endVars, sendVars, receivedVars, historyVars
<1>2. PICK i : i = [kind |-> k]
  OBVIOUS
<1>3. i \in Items /\ i.kind = k
  BY <1>2, ItemFields
<1>4. \A d \in Ends : /\ queue[d] \in Seq(Items)
                      /\ queue'[d] = queue[d] \/ queue'[d] = Append(queue[d], i)
  BY <1>1, <1>2 DEF TypeOK
<1>5. \A d \in Ends : Contents(queue'[d]) \subseteq Contents(queue[d]) \cup {i}
  BY <1>3, <1>4, AppendOnce
<1>6. QueueNames'
  BY <1>1, <1>3, <1>5 DEF GuidInv, QueueNames, Named
<1>7. ReceivedNames' /\ TreeNames'
  BY <1>1 DEF GuidInv, ReceivedNames, TreeNames, Named, InCallback
<1> QED BY <1>1, <1>6, <1>7, SeedsSame DEF GuidInv

\* The requesters started at the beginning have different seeds.
LEMMA InitGuid == Init => GuidInv
<1> SUFFICES ASSUME Init PROVE GuidInv
  OBVIOUS
<1>1. PICK start \in Starts : Started(start)
  BY DEF Init
<1>2. gSbfGuidSeed \in Nat
  BY InitLife DEF LifeInv, TypeOK
<1>3. PICK seed \in [Requesters -> 0..gSbfGuidSeed] :
        /\ \A r \in Requesters : seed[r] = gSbfGuidSeed <=> r \notin start
        /\ \A r, q \in start \cap Requesters : seed[r] = seed[q] => r = q
        /\ mNext = [r \in Requesters |-> <<seed[r], 0>>]
  BY <1>1 DEF Started
<1>4. \A r \in Requesters : /\ mNext[r][1] = seed[r] /\ mNext[r][2] = 0 /\ sent[r] = 0
                            /\ memory[r] # "none" <=> r \in start
                            /\ r \in start => seed[r] < gSbfGuidSeed
  <2> TAKE r \in Requesters
  <2>1. mNext[r][1] = seed[r] /\ mNext[r][2] = 0 /\ sent[r] = 0
    BY <1>3 DEF Init
  <2>2. memory[r] # "none" <=> r \in start
    BY <1>1 DEF Started, Ends
  <2>3. r \in start => seed[r] < gSbfGuidSeed
    BY <1>2, <1>3
  <2> QED BY <2>1, <2>2, <2>3
<1>5. SeedsOK
  BY <1>3, <1>4 DEF Init, SeedsOK
<1>6. QueueNames /\ ReceivedNames /\ TreeNames
  <2>1. \A e \in Ends : Contents(queue[e]) = {}
    BY DEF Init, Contents
  <2>2. \A x \in Received : ~InCallback(x[2], x) /\ x \notin detached
    BY ReceivedFields DEF Init, InCallback, Ends
  <2> QED BY <2>1, <2>2 DEF Init, QueueNames, ReceivedNames, TreeNames
<1> QED BY <1>5, <1>6 DEF Init, GuidInv

\* Every step keeps the invariant when requesters are created one at a time.
LEMMA NextGuid ==
  ASSUME ~Overlap, LifeInv, GuidInv, [Next]_vars
  PROVE  GuidInv'
<1>1. TypeOK
  BY DEF LifeInv
<1>2. ASSUME NEW r \in Requesters, ReadSeed(r) \/ StoreSeed(r) \/ Send(r) \/ ReplyCb(r)
      PROVE  GuidInv'
  BY <1>1, <1>2, ReadSeedGuid, StoreSeedGuid, SendGuid, ReplyCbGuid
<1>3. ASSUME NEW x \in Received, Reply(x) PROVE GuidInv'
  BY <1>1, <1>3, ReplyGuid
<1>4. ASSUME NEW p \in Repliers, RequestCb(p) PROVE GuidInv'
  BY <1>1, <1>4, RequestCbGuid
<1>5. ASSUME NEW e \in Ends, BecomeReady(e, "pub") \/ BecomeReady(e, "sub") PROVE GuidInv'
  BY <1>1, <1>5, BecomeReadyGuid
<1>6. CASE \/ \E r \in Requesters : DestroyRequest(r)
           \/ \E p \in Repliers : CreateReplier(p)
           \/ \E x \in Received : Detach(x) \/ DestroyDetached(x)
           \/ \E e \in Ends : Destroy(e) \/ ReadyCb(e) \/ Return(e)
           \/ UNCHANGED vars
  BY <1>1, <1>6, OthersGuid
<1> QED BY <1>2, <1>3, <1>4, <1>5, <1>6 DEF Next, QueueThread

\* As long as requesters are not created by two threads at once, which would read
\* the same gSbfGuidSeed, mReplyCb is called with the request that was replied to:
\* for any number of requesters, repliers and requests in flight, and whatever is
\* lost.
THEOREM RepliesMatch ==
  ASSUME ~Overlap
  PROVE  Spec => []ReplyMatches
<1>1. LifeInv /\ GuidInv /\ [Next]_vars => GuidInv'
  BY NextGuid
<1>2. GuidInv => ReplyMatches
  BY DEF GuidInv, ReplyMatches
<1> QED BY LifeInvariance, InitGuid, <1>1, <1>2, PTL DEF Spec
=============================================================================
