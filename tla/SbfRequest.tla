----------------------------- MODULE SbfRequest -----------------------------
(***************************************************************************)
(* Requests and replies on one topic (sbfRequestPub.c, sbfRequestSub.c,    *)
(* sbfRequestReply.c) with the identifiers of requests (sbfGuid.c).        *)
(*                                                                         *)
(* A requester publishes requests and subscribes to replies, a replier     *)
(* the other way about.  Every replier gets every request and every        *)
(* requester every reply, of which it takes those whose identifier is in   *)
(* its tree.                                                               *)
(*                                                                         *)
(* Each has a queue with a thread.  The application makes its calls on     *)
(* that thread, between its callbacks and in them: nothing guards the tree *)
(* or the closure of the inner publisher and subscription.  It does not    *)
(* reply through a replier it has destroyed.  Only the creation of         *)
(* requesters may run on several threads at once.                          *)
(*                                                                         *)
(* External here: the transport (SbfTport, SbfMessages), which makes the   *)
(* inner publisher and subscription ready in either order, puts a message  *)
(* in the queues of the subscriptions that have joined, and may lose any   *)
(* of these copies.  The time a copy waits in the queue stands for the     *)
(* time it takes to get there too.                                         *)
(***************************************************************************)
EXTENDS Integers, Sequences, FiniteSets

CONSTANTS
  Requesters, Repliers,
  Starts,      \* bound: sets of ends, of which one is ready at the start
  MaxRequests, \* bound: requests that each requester sends
  MaxLost,     \* bound: copies of messages that are lost
  Overlap,     \* requesters may be created by several threads at once
  NULL

Ends == Requesters \cup Repliers

ASSUME RequestAssumption ==
  /\ Requesters \cap Repliers = {}
  /\ IsFiniteSet(Requesters)
  /\ Starts \subseteq SUBSET Ends
  /\ MaxRequests \in Nat /\ MaxLost \in Nat
  /\ Overlap \in BOOLEAN

VARIABLES
  gSbfGuidSeed,
  creating,    \* the requesters whose thread is in sbfGuid_new
  \* struct sbfRequestPubImpl and sbfRequestSubImpl
  memory,      \* "none", "held" or "freed"
  mPubReady, mSubReady,
  mNext,       \* of a requester: the seed and the number
  mRequests,   \* of a requester: the requests in the tree
  \* struct sbfRequestImpl of received requests
  mGuid, mRefCount, \* the count is 0 if there is none
  detached,    \* those the application has kept
  \* the transport and the queues
  joined,      \* <<end, "pub" or "sub">>: ready on the event thread
  lost,        \* <<message, end>>: the copies that were lost
  queue, running, \* of each end: the callbacks, and the one that runs or NULL
  \* history
  sent,        \* how many requests a requester has sent
  told,        \* how often mReadyCb was called
  replied,     \* <<request, replier>>: the replies that went out
  answered,    \* those mReplyCb was called with
  wrong        \* the requesters whose mReplyCb got the reply to another request

endVars == <<memory, mPubReady, mSubReady>>
guidVars == <<gSbfGuidSeed, creating>>
sendVars == <<mNext, mRequests, sent>>
receivedVars == <<mGuid, mRefCount, detached, replied>>
netVars == <<joined, lost>>
threadVars == <<queue, running>>
historyVars == <<told, answered, wrong>>
vars == <<guidVars, endVars, sendVars, receivedVars, netVars, threadVars, historyVars>>

Guids == Nat \X Nat

\* A request of a requester is named by its number; it is received by each
\* replier as a request of its own.
Requests == Requesters \X (1..MaxRequests)
Received == Requests \X Repliers

\* What is queued: a ready callback, or a message.  req and from are history.
Messages ==
  [kind : {"request"}, guid : Guids, req : Requests]
  \cup [kind : {"reply"}, guid : Guids, req : Requests, from : Repliers]
Items == [kind : {"pub", "sub"}] \cup Messages

ASSUME NullAssumption == NULL \notin Items

TypeOK ==
  /\ gSbfGuidSeed \in Nat /\ creating \subseteq Requesters
  /\ memory \in [Ends -> {"none", "held", "freed"}]
  /\ mPubReady \subseteq Ends /\ mSubReady \subseteq Ends
  /\ mNext \in [Requesters -> Guids]
  /\ mRequests \in [Requesters -> SUBSET [guid : Guids, num : 1..MaxRequests]]
  /\ mGuid \in [Received -> Guids] /\ mRefCount \in [Received -> Nat]
  /\ detached \subseteq Received
  /\ joined \subseteq Ends \X {"pub", "sub"}
  /\ lost \subseteq Messages \X Ends
  /\ queue \in [Ends -> Seq(Items)]
  /\ running \in [Ends -> Items \cup {NULL}]
  /\ sent \in [Requesters -> 0..MaxRequests] /\ told \in [Ends -> Nat]
  /\ replied \subseteq Received /\ answered \subseteq Received
  /\ wrong \subseteq Requesters
-----------------------------------------------------------------------------
\* The ends in start have been created and told that they are ready.
Started(start) ==
  /\ gSbfGuidSeed = Cardinality(start \cap Requesters)
  /\ \E seed \in [Requesters -> 0..gSbfGuidSeed] :
       /\ \A r \in Requesters : seed[r] = gSbfGuidSeed <=> r \notin start
       /\ \A r, q \in start \cap Requesters : seed[r] = seed[q] => r = q
       /\ mNext = [r \in Requesters |-> <<seed[r], 0>>]
  /\ memory = [e \in Ends |-> IF e \in start THEN "held" ELSE "none"]
  /\ mPubReady = start /\ mSubReady = start
  /\ joined = start \X {"pub", "sub"}
  /\ told = [e \in Ends |-> IF e \in start THEN 1 ELSE 0]

Init ==
  /\ \E start \in Starts : Started(start)
  /\ creating = {}
  /\ mRequests = [r \in Requesters |-> {}]
  /\ mGuid = [x \in Received |-> <<0, 0>>]
  /\ mRefCount = [x \in Received |-> 0] /\ detached = {}
  /\ lost = {}
  /\ queue = [e \in Ends |-> << >>]
  /\ running = [e \in Ends |-> NULL]
  /\ sent = [r \in Requesters |-> 0]
  /\ replied = {} /\ answered = {} /\ wrong = {}
-----------------------------------------------------------------------------
\* Creation, by any thread.

\* sbfGuid_new reads gSbfGuidSeed ...
ReadSeed(r) ==
  /\ memory[r] = "none" /\ r \notin creating
  /\ Overlap \/ creating = {}
  /\ mNext' = [mNext EXCEPT ![r] = <<gSbfGuidSeed, 0>>]
  /\ creating' = creating \cup {r}
  /\ UNCHANGED <<gSbfGuidSeed, endVars, mRequests, sent, receivedVars, netVars,
                 threadVars, historyVars>>

\* ... and writes it; the rest of sbfRequestPub_create.
StoreSeed(r) ==
  /\ r \in creating
  /\ gSbfGuidSeed' = mNext[r][1] + 1
  /\ memory' = [memory EXCEPT ![r] = "held"]
  /\ creating' = creating \ {r}
  /\ UNCHANGED <<mPubReady, mSubReady, sendVars, receivedVars, netVars, threadVars,
                 historyVars>>

\* sbfRequestSub_create.
CreateReplier(p) ==
  /\ memory[p] = "none"
  /\ memory' = [memory EXCEPT ![p] = "held"]
  /\ UNCHANGED <<guidVars, mPubReady, mSubReady, sendVars, receivedVars, netVars,
                 threadVars, historyVars>>

\* The inner publisher or subscription is ready on an event thread, and queues
\* its callback.
BecomeReady(e, k) ==
  /\ memory[e] = "held" /\ <<e, k>> \notin joined
  /\ joined' = joined \cup {<<e, k>>}
  /\ queue' = [queue EXCEPT ![e] = Append(@, [kind |-> k])]
  /\ UNCHANGED <<guidVars, endVars, sendVars, receivedVars, lost, running, historyVars>>
-----------------------------------------------------------------------------
\* The calls of the application, on the thread of the queue.

\* The ends whose subscription gets what is sent now.
Joined(ends) == {e \in ends : memory[e] = "held" /\ <<e, "sub">> \in joined}

\* sbfPub_sendBuffer: message m for ends, some of which may not get it.
Broadcast(m, ends) ==
  \E got \in SUBSET Joined(ends) :
    /\ lost' = lost \cup {<<m, e>> : e \in Joined(ends) \ got}
    /\ Cardinality(lost') <= MaxLost
    /\ queue' = [e \in Ends |-> IF e \in got THEN Append(queue[e], m) ELSE queue[e]]

\* Mutant: mSubReady is not looked at.
ReadyHalf(r) == r \in mPubReady

\* The test at the head of sbfRequestPub_send.
ReadyToSend(r) == r \in mPubReady /\ r \in mSubReady

\* sbfRequestPub_send; before the requester is ready it returns NULL.
Send(r) ==
  LET guid == <<mNext[r][1], mNext[r][2] + 1>>
      num == sent[r] + 1
  IN /\ memory[r] = "held" /\ ReadyToSend(r)
     /\ sent[r] < MaxRequests
     /\ mNext' = [mNext EXCEPT ![r] = guid]
     /\ mRequests' = [mRequests EXCEPT ![r] = @ \cup {[guid |-> guid, num |-> num]}]
     /\ sent' = [sent EXCEPT ![r] = num]
     /\ Broadcast([kind |-> "request", guid |-> guid, req |-> <<r, num>>], Repliers)
     /\ UNCHANGED <<guidVars, endVars, receivedVars, joined, running, historyVars>>

\* sbfRequest_destroy of one that was sent.
DestroyRequest(r) ==
  /\ \E q \in mRequests[r] : mRequests' = [mRequests EXCEPT ![r] = @ \ {q}]
  /\ UNCHANGED <<guidVars, endVars, mNext, sent, receivedVars, netVars, threadVars,
                 historyVars>>

\* sbfRequestPub_destroy, which destroys the requests in the tree, and
\* sbfRequestSub_destroy, which leaves detached requests alone.  The destroyed
\* inner publisher and subscription make nothing of what is queued for them.
Destroy(e) ==
  /\ memory[e] = "held"
  /\ memory' = [memory EXCEPT ![e] = "freed"]
  /\ mRequests' = [r \in Requesters |-> IF r = e THEN {} ELSE mRequests[r]]
  /\ queue' = [queue EXCEPT ![e] = << >>]
  /\ UNCHANGED <<guidVars, mPubReady, mSubReady, mNext, sent, receivedVars, netVars,
                 running, historyVars>>

\* Replier p is in its mRequestCb with request x.
InCallback(p, x) ==
  running[p] # NULL /\ running[p].kind = "request" /\ x = <<running[p].req, p>>

\* sbfRequest_reply in the callback or to a detached request.  The model counts
\* what goes out: while the inner publisher is not ready it drops the reply
\* without a word.
Reply(x) ==
  LET p == x[2]
      reply == [kind |-> "reply", guid |-> mGuid[x], req |-> x[1], from |-> p]
  IN /\ memory[p] = "held" /\ <<p, "pub">> \in joined
     /\ InCallback(p, x) \/ x \in detached
     /\ x \notin replied
     /\ replied' = replied \cup {x}
     /\ Broadcast(reply, Requesters)
     /\ UNCHANGED <<guidVars, endVars, sendVars, mGuid, mRefCount, detached, joined,
                    running, historyVars>>

\* Mutant: the reference is not counted.
DetachUncounted(x) ==
  /\ InCallback(x[2], x) /\ x \notin detached
  /\ detached' = detached \cup {x}
  /\ UNCHANGED <<guidVars, endVars, sendVars, mGuid, mRefCount, replied, netVars,
                 threadVars, historyVars>>

\* sbfRequest_detach in the callback, to reply later.
Detach(x) ==
  /\ InCallback(x[2], x) /\ x \notin detached
  /\ mRefCount' = [mRefCount EXCEPT ![x] = @ + 1]
  /\ detached' = detached \cup {x}
  /\ UNCHANGED <<guidVars, endVars, sendVars, mGuid, replied, netVars, threadVars,
                 historyVars>>

\* sbfRequest_destroy of a request that was received: one reference less, and
\* free at zero.
DropReceived(x) == mRefCount' = [mRefCount EXCEPT ![x] = @ - 1]

\* The application does it with a request it has detached.
DestroyDetached(x) ==
  /\ x \in detached
  /\ DropReceived(x)
  /\ detached' = detached \ {x}
  /\ UNCHANGED <<guidVars, endVars, sendVars, mGuid, replied, netVars, threadVars,
                 historyVars>>
-----------------------------------------------------------------------------
\* The thread that dispatches the queue of end e.

Take(e, i) ==
  /\ running[e] = NULL /\ queue[e] # << >> /\ i = Head(queue[e])
  /\ queue' = [queue EXCEPT ![e] = Tail(@)]

Run(e, i) == running' = [running EXCEPT ![e] = i]

\* Mutant: the other flag is not looked at.
BothReadyIgnored(e, kind) == TRUE

\* mReadyCb is due when the other of the two is ready already.
BothReady(e, kind) == IF kind = "pub" THEN e \in mSubReady ELSE e \in mPubReady

\* sbfRequestPubPubReadyCb, sbfRequestPubSubReadyCb and those of the replier.
ReadyCb(e) ==
  \E k \in {"pub", "sub"} :
    /\ Take(e, [kind |-> k])
    /\ IF k = "pub" THEN mPubReady' = mPubReady \cup {e} /\ UNCHANGED mSubReady
       ELSE mSubReady' = mSubReady \cup {e} /\ UNCHANGED mPubReady
    /\ IF BothReady(e, k)
       THEN Run(e, [kind |-> k]) /\ told' = [told EXCEPT ![e] = @ + 1]
       ELSE UNCHANGED <<running, told>>
    /\ UNCHANGED <<guidVars, memory, sendVars, receivedVars, netVars, answered, wrong>>

\* Mutant: the identifier of the requester is not compared.
SameNumber(q, m) == q.guid[2] = m.guid[2]

\* sbfGuid_compare, as the tree of requests uses it.
SameGuid(q, m) == q.guid = m.guid

\* sbfRequestPubSubMessageCb: mReplyCb is called with the request RB_FIND finds,
\* which stays in the tree for the replies of other repliers.
ReplyCb(r) ==
  /\ queue[r] # << >> /\ Head(queue[r]).kind = "reply"
  /\ LET m == Head(queue[r])
         found == {q \in mRequests[r] : SameGuid(q, m)}
     IN /\ Take(r, m)
        /\ IF found = {} THEN UNCHANGED <<running, answered, wrong>>
           ELSE /\ Run(r, m)
                /\ answered' = answered \cup {<<m.req, m.from>>}
                /\ wrong' = IF \A q \in found : m.req = <<r, q.num>> THEN wrong
                            ELSE wrong \cup {r}
  /\ UNCHANGED <<guidVars, endVars, sendVars, receivedVars, netVars, told>>

\* sbfRequestSubSubMessageCb up to mRequestCb.
RequestCb(p) ==
  /\ queue[p] # << >> /\ Head(queue[p]).kind = "request"
  /\ LET m == Head(queue[p])
         x == <<m.req, p>>
     IN /\ Take(p, m)
        /\ Run(p, m)
        /\ mRefCount' = [mRefCount EXCEPT ![x] = 1]
        /\ mGuid' = [mGuid EXCEPT ![x] = m.guid]
  /\ UNCHANGED <<guidVars, endVars, sendVars, detached, replied, netVars, historyVars>>

\* Mutant: the request is freed, whatever its count.
ReturnFrees(e) ==
  /\ running[e] # NULL
  /\ running' = [running EXCEPT ![e] = NULL]
  /\ IF running[e].kind = "request"
     THEN mRefCount' = [mRefCount EXCEPT ![<<running[e].req, e>>] = 0]
     ELSE UNCHANGED mRefCount
  /\ UNCHANGED <<guidVars, endVars, sendVars, mGuid, detached, replied, netVars,
                 queue, historyVars>>

\* The callback returns, and sbfRequestSubSubMessageCb destroys the request.
Return(e) ==
  /\ running[e] # NULL
  /\ running' = [running EXCEPT ![e] = NULL]
  /\ IF running[e].kind = "request" THEN DropReceived(<<running[e].req, e>>)
     ELSE UNCHANGED mRefCount
  /\ UNCHANGED <<guidVars, endVars, sendVars, mGuid, detached, replied, netVars,
                 queue, historyVars>>
-----------------------------------------------------------------------------
QueueThread(e) ==
  \/ ReadyCb(e) \/ Return(e)
  \/ e \in Requesters /\ ReplyCb(e)
  \/ e \in Repliers /\ RequestCb(e)

Next ==
  \/ \E r \in Requesters : ReadSeed(r) \/ StoreSeed(r) \/ Send(r) \/ DestroyRequest(r)
  \/ \E p \in Repliers : CreateReplier(p)
  \/ \E x \in Received : Reply(x) \/ Detach(x) \/ DestroyDetached(x)
  \/ \E e \in Ends : \/ BecomeReady(e, "pub") \/ BecomeReady(e, "sub")
                     \/ Destroy(e) \/ QueueThread(e)

Spec == Init /\ [][Next]_vars

\* Both clients of an end become ready, and the queues are dispatched.
Fairness ==
  /\ \A e \in Ends : /\ WF_vars(BecomeReady(e, "pub")) /\ WF_vars(BecomeReady(e, "sub"))
                     /\ WF_vars(QueueThread(e))

FairSpec == Spec /\ Fairness
-----------------------------------------------------------------------------
(* Properties. *)

\* mReplyCb is called with replies to the request it is called for, not with
\* those to another of the requester's or another requester's on the topic: the
\* identifiers of requests are unique.
ReplyMatches == wrong = {}

\* The count of a received request: one reference while its callback runs and one
\* while the application has it detached, in whatever order they are given back.
ReceivedOK ==
  \A x \in Received :
    mRefCount[x] = (IF InCallback(x[2], x) THEN 1 ELSE 0)
                   + IF x \in detached THEN 1 ELSE 0

\* mReadyCb is called once, when both inner clients are ready, whichever is last.
ReadyOnce ==
  \A e \in Ends : told[e] = IF e \in mPubReady \cap mSubReady THEN 1 ELSE 0

\* A reply that goes out reaches mReplyCb unless its copy is lost or the request
\* is destroyed: with its flags the requester waits to send until it can be
\* answered.
Answered ==
  \A x \in Received :
    x \in replied ~>
      \/ x \in answered
      \/ \E c \in lost : c[1].kind = "reply" /\ c[1].req = x[1] /\ c[1].from = x[2]
      \/ \A q \in mRequests[x[1][1]] : q.num # x[1][2]
=============================================================================
