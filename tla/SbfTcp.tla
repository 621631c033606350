------------------------------- MODULE SbfTcp -------------------------------
(***************************************************************************)
(* TCP connections and a listener (sbfTcpConnection.c, sbfTcpListener.c)   *)
(* between an event thread and a queue.                                    *)
(*                                                                         *)
(* The event thread runs libevent's callbacks, which queue the callbacks   *)
(* of the application.  A connection queues at most one read at a time     *)
(* (mQueued) and has reading switched off meanwhile.  The application      *)
(* makes its calls on the thread that dispatches the queue, between its    *)
(* callbacks and in them: as sbfTcpConnectionReadQueueCb tests mDestroyed  *)
(* without a lock, no other thread may destroy a connection.               *)
(*                                                                         *)
(* libevent is external: it holds the lock of a bufferevent while it calls *)
(* back, and bufferevent_free takes it, so that the callback and the free  *)
(* exclude each other.  It calls sbfTcpListenerEventCb back without the    *)
(* lock of the listener, and evconnlistener_free does not wait for it.     *)
(***************************************************************************)
EXTENDS Integers, Sequences, FiniteSets

CONSTANTS
  Outgoing,   \* bound: the connections the application may create, once each
  Incoming,   \* bound: those that may arrive at the listener
  MaxConns,   \* bound: how many of them there are in one behaviour
  MaxBytes,   \* bound: what each peer sends
  NULL

Conns == Outgoing \cup Incoming

ASSUME TcpAssumption ==
  /\ Outgoing \cap Incoming = {}
  /\ MaxConns \in Nat /\ MaxBytes \in Nat
  /\ NULL \notin Conns

VARIABLES
  \* struct sbfTcpConnectionImpl
  memory,      \* "none", "held" or "freed"
  mSocket,     \* "none", "open" or "closed"
  mRefCount, mQueued, mDestroyed,
  \* the bufferevent (mEvent)
  mEvent,      \* "none" before sbfTcpConnectionSet and "null" if that got none,
               \* "connecting", "open", "broken" if a write has failed, "failed"
               \* if the connect or a read has, and "freed"
  reading,     \* the connections with EV_READ enabled
  \* how many bytes of the peer's were ...
  sent, read,  \* ... sent, read into the input buffer
  offered,     \* history: and shown to mReadCb
  ended,       \* the peers that have closed the connection
  \* struct sbfTcpListenerImpl
  listener,    \* "none", "open", "destroyed" or "freed"
  listenerRefs,
  accepting,   \* the connection sbfTcpListenerEventCb has been called with, or NULL
  \* the queue and the thread that dispatches it
  queue,       \* of callback and connection; NULL is the listener
  item,        \* the one being dispatched, or << >>
  at,          \* where in it the thread is
  destroying,  \* the connection in the middle of sbfTcpConnection_destroy
  owned        \* the connections the application has

connVars == <<memory, mSocket, mRefCount, mQueued, mDestroyed>>
eventVars == <<mEvent, reading>>
byteVars == <<sent, read, offered, ended>>
listenerVars == <<listener, listenerRefs, accepting>>
threadVars == <<item, at, destroying>>
vars == <<connVars, eventVars, byteVars, listenerVars, queue, threadVars, owned>>

\* "eof" is an error callback that the end of the stream gave rise to.
ConnKinds == {"ready", "error", "eof", "read", "accept"}
Items == ConnKinds \X Conns \cup {<<"listening", NULL>>}

TypeOK ==
  /\ memory \in [Conns -> {"none", "held", "freed"}]
  /\ mSocket \in [Conns -> {"none", "open", "closed"}]
  /\ mRefCount \in [Conns -> Int]
  /\ mQueued \subseteq Conns /\ mDestroyed \subseteq Conns
  /\ mEvent \in [Conns -> {"none", "null", "connecting", "open", "broken", "failed", "freed"}]
  /\ reading \subseteq Conns
  /\ sent \in [Conns -> Nat] /\ read \in [Conns -> Nat]
  /\ offered \in [Conns -> Nat]
  /\ \A c \in Conns : offered[c] <= read[c] /\ read[c] <= sent[c]
  /\ ended \subseteq Conns
  /\ listener \in {"none", "open", "destroyed", "freed"}
  /\ listenerRefs \in Nat
  /\ accepting \in Incoming \cup {NULL}
  /\ queue \in Seq(Items)
  /\ item \in Items \cup {<< >>}
  /\ at \in {"idle", "callback", "queued", "enable", "release"}
  /\ destroying \in Conns \cup {NULL}
  /\ owned \subseteq Conns
-----------------------------------------------------------------------------
Init ==
  /\ memory = [c \in Conns |-> "none"]
  /\ mSocket = [c \in Conns |-> "none"]
  /\ mRefCount = [c \in Conns |-> 0]
  /\ mQueued = {} /\ mDestroyed = {}
  /\ mEvent = [c \in Conns |-> "none"]
  /\ reading = {}
  /\ sent = [c \in Conns |-> 0] /\ read = [c \in Conns |-> 0]
  /\ offered = [c \in Conns |-> 0]
  /\ ended = {}
  /\ listener = "none" /\ listenerRefs = 0 /\ accepting = NULL
  /\ queue = << >>
  /\ item = << >> /\ at = "idle" /\ destroying = NULL
  /\ owned = {}

\* Mutant: the queued callback has no reference.
EnqueueUncounted(kind, c) ==
  /\ mRefCount' = mRefCount
  /\ queue' = Append(queue, <<kind, c>>)

\* sbfRefCount_increment and sbfQueue_enqueue with c as the closure.
Enqueue(kind, c) ==
  /\ mRefCount' = [mRefCount EXCEPT ![c] = @ + 1]
  /\ queue' = Append(queue, <<kind, c>>)

\* Mutant: the count is not looked at.
ReleaseKept(c) ==
  /\ mRefCount' = [mRefCount EXCEPT ![c] = @ - 1]
  /\ memory' = memory

\* sbfRefCount_decrement, and free at zero.
Release(c) ==
  /\ mRefCount' = [mRefCount EXCEPT ![c] = @ - 1]
  /\ memory' = IF mRefCount[c] = 1 THEN [memory EXCEPT ![c] = "freed"] ELSE memory

ReleaseListener ==
  /\ listenerRefs' = listenerRefs - 1
  /\ listener' = IF listenerRefs = 1 THEN "freed" ELSE listener
-----------------------------------------------------------------------------
\* Calls of the application, between the callbacks and in them.

Calling == at \in {"idle", "callback"} /\ destroying = NULL

\* There may be a further connection, c.
New(c) ==
  /\ memory[c] = "none" /\ c # accepting
  /\ Cardinality({d \in Conns : memory[d] # "none" \/ d = accepting}) < MaxConns

\* sbfTcpConnection_create, and sbfTcpConnectionSet, when all goes well ...
Create(c) ==
  /\ Calling /\ c \in Outgoing /\ New(c)
  /\ memory' = [memory EXCEPT ![c] = "held"]
  /\ mSocket' = [mSocket EXCEPT ![c] = "open"]
  /\ mRefCount' = [mRefCount EXCEPT ![c] = 1]
  /\ mEvent' = [mEvent EXCEPT ![c] = "connecting"]
  /\ owned' = owned \cup {c}
  /\ UNCHANGED <<mQueued, mDestroyed, reading, byteVars, listenerVars, queue,
                 threadVars>>

\* ... and when bufferevent_socket_new or the connect fails.
CreateFails(c) ==
  /\ Calling /\ c \in Outgoing /\ New(c)
  /\ memory' = [memory EXCEPT ![c] = "freed"]
  /\ mSocket' = [mSocket EXCEPT ![c] = "closed"]
  /\ mDestroyed' = mDestroyed \cup {c}
  /\ mEvent' = [mEvent EXCEPT ![c] = "freed"]
  /\ UNCHANGED <<mRefCount, mQueued, reading, byteVars, listenerVars, queue,
                 threadVars, owned>>

\* sbfTcpConnection_accept, which may fail to get a bufferevent.
Accept(c) ==
  /\ Calling /\ c \in Incoming \cap owned
  /\ mRefCount[c] = 0
  /\ mRefCount' = [mRefCount EXCEPT ![c] = 1]
  /\ \/ /\ mEvent' = [mEvent EXCEPT ![c] = "open"]
        /\ reading' = reading \cup {c}
     \/ /\ mEvent' = [mEvent EXCEPT ![c] = "null"]
        /\ UNCHANGED reading
  /\ UNCHANGED <<memory, mSocket, mQueued, mDestroyed, byteVars, listenerVars,
                 queue, threadVars, owned>>

\* sbfTcpConnection_destroy up to bufferevent_free, which waits for a callback of
\* the event thread ...
DestroyMark(c) ==
  /\ Calling /\ c \in owned
  /\ mDestroyed' = mDestroyed \cup {c}
  /\ mSocket' = [mSocket EXCEPT ![c] = "closed"]
  /\ owned' = owned \ {c}
  /\ destroying' = c
  /\ UNCHANGED <<memory, mRefCount, mQueued, eventVars, byteVars, listenerVars,
                 queue, item, at>>

\* ... and the rest.  The count of a connection that was not accepted is 0.
DestroyFree ==
  /\ destroying # NULL
  /\ mEvent' = [mEvent EXCEPT ![destroying] = IF @ \in {"none", "null"} THEN @ ELSE "freed"]
  /\ reading' = reading \ {destroying}
  /\ Release(destroying)
  /\ destroying' = NULL
  /\ UNCHANGED <<mSocket, mQueued, mDestroyed, byteVars, listenerVars, queue,
                 item, at, owned>>

\* sbfTcpListener_create; one that fails frees the listener at once.
ListenerCreate ==
  /\ Calling /\ listener = "none"
  /\ listener' = "open" /\ listenerRefs' = 2
  /\ queue' = Append(queue, <<"listening", NULL>>)
  /\ UNCHANGED <<connVars, eventVars, byteVars, accepting, threadVars, owned>>

\* sbfTcpListener_destroy, whether or not sbfTcpListenerEventCb runs.
ListenerDestroy ==
  /\ Calling /\ listener = "open"
  /\ listenerRefs' = listenerRefs - 1
  /\ listener' = IF listenerRefs = 1 THEN "freed" ELSE "destroyed"
  /\ UNCHANGED <<connVars, eventVars, byteVars, accepting, queue, threadVars, owned>>
-----------------------------------------------------------------------------
\* The peers.

Established(c) == mEvent[c] \in {"open", "broken"}

PeerSend(c) ==
  /\ Established(c) /\ mSocket[c] = "open" /\ c \notin ended
  /\ sent[c] < MaxBytes
  /\ sent' = [sent EXCEPT ![c] = @ + 1]
  /\ UNCHANGED <<connVars, eventVars, read, offered, ended, listenerVars,
                 queue, threadVars, owned>>

PeerClose(c) ==
  /\ Established(c) /\ mSocket[c] = "open" /\ c \notin ended
  /\ ended' = ended \cup {c}
  /\ UNCHANGED <<connVars, eventVars, sent, read, offered, listenerVars,
                 queue, threadVars, owned>>
-----------------------------------------------------------------------------
\* The event thread: libevent's callbacks, under the lock of the bufferevent.

\* sbfTcpConnectionEventEventCb with BEV_EVENT_CONNECTED.
Connected(c) ==
  /\ mEvent[c] = "connecting" /\ mSocket[c] = "open"
  /\ mEvent' = [mEvent EXCEPT ![c] = "open"]
  /\ reading' = reading \cup {c}
  /\ Enqueue("ready", c)
  /\ UNCHANGED <<memory, mSocket, mQueued, mDestroyed, byteVars, listenerVars,
                 threadVars, owned>>

\* The same with BEV_EVENT_ERROR: the connect or a read fails ...
Failed(c) ==
  /\ mEvent[c] = "connecting" \/ (Established(c) /\ c \in reading)
  /\ mEvent' = [mEvent EXCEPT ![c] = "failed"]
  /\ reading' = reading \ {c}
  /\ Enqueue("error", c)
  /\ UNCHANGED <<memory, mSocket, mQueued, mDestroyed, byteVars, listenerVars,
                 threadVars, owned>>

\* ... or a write fails; libevent goes on reading.
WriteFails(c) ==
  /\ mEvent[c] = "open"
  /\ mEvent' = [mEvent EXCEPT ![c] = "broken"]
  /\ Enqueue("error", c)
  /\ UNCHANGED <<memory, mSocket, mQueued, mDestroyed, reading, byteVars,
                 listenerVars, threadVars, owned>>

\* The same with BEV_EVENT_EOF, once all that was sent has been read.
EndOfFile(c) ==
  /\ Established(c) /\ mSocket[c] = "open" /\ c \in reading
  /\ c \in ended /\ read[c] = sent[c]
  /\ mEvent' = [mEvent EXCEPT ![c] = "failed"]
  /\ reading' = reading \ {c}
  /\ Enqueue("eof", c)
  /\ UNCHANGED <<memory, mSocket, mQueued, mDestroyed, byteVars, listenerVars,
                 threadVars, owned>>

\* Mutant: reading is not disabled.
EventReadOn(c) ==
  /\ Established(c) /\ mSocket[c] = "open" /\ c \in reading
  /\ \E n \in (read[c] + 1)..sent[c] : read' = [read EXCEPT ![c] = n]
  /\ IF c \in mQueued THEN UNCHANGED <<mQueued, mRefCount, queue>>
     ELSE mQueued' = mQueued \cup {c} /\ Enqueue("read", c)
  /\ UNCHANGED <<memory, mSocket, mDestroyed, eventVars, sent, offered, ended,
                 listenerVars, threadVars, owned>>

\* libevent reads some of what has arrived: sbfTcpConnectionEventReadCb.
EventRead(c) ==
  /\ Established(c) /\ mSocket[c] = "open" /\ c \in reading
  /\ \E n \in (read[c] + 1)..sent[c] : read' = [read EXCEPT ![c] = n]
  /\ IF c \in mQueued THEN UNCHANGED <<mQueued, reading, mRefCount, queue>>
     ELSE /\ mQueued' = mQueued \cup {c}
          /\ reading' = reading \ {c}
          /\ Enqueue("read", c)
  /\ UNCHANGED <<memory, mSocket, mDestroyed, mEvent, sent, offered, ended,
                 listenerVars, threadVars, owned>>

\* A connection arrives: libevent takes it and calls sbfTcpListenerEventCb, with the
\* lock of the listener released ...
Arrive(c) ==
  /\ listener = "open" /\ accepting = NULL
  /\ c \in Incoming /\ New(c)
  /\ mSocket' = [mSocket EXCEPT ![c] = "open"]
  /\ accepting' = c
  /\ UNCHANGED <<memory, mRefCount, mQueued, mDestroyed, eventVars, byteVars, listener,
                 listenerRefs, queue, threadVars, owned>>

\* Mutant: the queued callback has no reference on the listener.
ListenerEventUncounted ==
  /\ accepting # NULL /\ listener # "freed"
  /\ memory' = [memory EXCEPT ![accepting] = "held"]
  /\ queue' = Append(queue, <<"accept", accepting>>)
  /\ accepting' = NULL
  /\ UNCHANGED <<mSocket, mRefCount, mQueued, mDestroyed, eventVars, byteVars, listener,
                 listenerRefs, threadVars, owned>>

\* ... which does its work, with sbfTcpConnection_wrap, on a listener that may be
\* destroyed by now.  If it is freed the callback reads and writes what is no longer
\* the listener, and goes no further here.
ListenerEventCb ==
  /\ accepting # NULL /\ listener # "freed"
  /\ memory' = [memory EXCEPT ![accepting] = "held"]
  /\ listenerRefs' = listenerRefs + 1
  /\ queue' = Append(queue, <<"accept", accepting>>)
  /\ accepting' = NULL
  /\ UNCHANGED <<mSocket, mRefCount, mQueued, mDestroyed, eventVars, byteVars, listener,
                 threadVars, owned>>
-----------------------------------------------------------------------------
\* The thread that dispatches the queue.

\* The callback is made unless its object has been destroyed.
Refused(i) == IF i[1] \in {"accept", "listening"} THEN listener = "destroyed"
              ELSE i[2] \in mDestroyed

\* The next callback of the queue, up to the application's.  A connection that
\* no one will accept is freed, and its socket stays open.
Dispatch ==
  /\ at = "idle" /\ destroying = NULL /\ queue # << >>
  /\ LET i == Head(queue)
         c == i[2]
     IN /\ item' = i
        /\ at' = IF Refused(i) THEN "release" ELSE "callback"
        /\ offered' = IF i[1] = "read" /\ ~Refused(i)
                      THEN [offered EXCEPT ![c] = read[c]] ELSE offered
        /\ owned' = IF i[1] = "accept" /\ ~Refused(i) THEN owned \cup {c} ELSE owned
        /\ memory' = IF i[1] = "accept" /\ Refused(i)
                     THEN [memory EXCEPT ![c] = "freed"] ELSE memory
  /\ queue' = Tail(queue)
  /\ UNCHANGED <<mSocket, mRefCount, mQueued, mDestroyed, eventVars, sent, read,
                 ended, listenerVars, destroying>>

\* The application's callback returns.  How much mReadCb has used, and is drained,
\* does not matter: more bytes are read before it is queued again.
Return ==
  /\ at = "callback" /\ destroying = NULL
  /\ at' = IF item[1] = "read" /\ item[2] \notin mDestroyed THEN "queued" ELSE "release"
  /\ UNCHANGED <<connVars, eventVars, byteVars, listenerVars, queue, item,
                 destroying, owned>>

\* Mutant: mQueued stays set.
ResetNothing ==
  /\ at = "queued"
  /\ at' = "enable"
  /\ UNCHANGED <<connVars, eventVars, byteVars, listenerVars, queue, item,
                 destroying, owned>>

\* mQueued is reset ...
ResetQueued ==
  /\ at = "queued"
  /\ mQueued' = mQueued \ {item[2]}
  /\ at' = "enable"
  /\ UNCHANGED <<memory, mSocket, mRefCount, mDestroyed, eventVars, byteVars,
                 listenerVars, queue, item, destroying, owned>>

\* ... before bufferevent_enable, after which the event thread reads on.
EnableRead ==
  /\ at = "enable"
  /\ reading' = reading \cup {item[2]}
  /\ at' = "release"
  /\ UNCHANGED <<connVars, mEvent, byteVars, listenerVars, queue, item, destroying,
                 owned>>

\* Mutant: reading is enabled before mQueued is reset.
RearmSwapped ==
  \/ /\ at = "queued" /\ at' = "enable"
     /\ reading' = reading \cup {item[2]}
     /\ UNCHANGED mQueued
     /\ UNCHANGED <<memory, mSocket, mRefCount, mDestroyed, mEvent, byteVars,
                    listenerVars, queue, item, destroying, owned>>
  \/ /\ at = "enable" /\ at' = "release"
     /\ mQueued' = mQueued \ {item[2]}
     /\ UNCHANGED <<memory, mSocket, mRefCount, mDestroyed, eventVars, byteVars,
                    listenerVars, queue, item, destroying, owned>>

\* The end of sbfTcpConnectionReadQueueCb.
Rearm == ResetQueued \/ EnableRead

\* The reference of the queued callback is given back.
Finish ==
  /\ at = "release"
  /\ IF item[1] \in {"accept", "listening"}
     THEN ReleaseListener /\ UNCHANGED <<memory, mRefCount, accepting>>
     ELSE Release(item[2]) /\ UNCHANGED listenerVars
  /\ at' = "idle" /\ item' = << >>
  /\ UNCHANGED <<mSocket, mQueued, mDestroyed, eventVars, byteVars, queue,
                 destroying, owned>>
-----------------------------------------------------------------------------
EventThread(c) == Connected(c) \/ Failed(c) \/ WriteFails(c) \/ EndOfFile(c) \/ EventRead(c)

QueueThread == DestroyFree \/ Dispatch \/ Return \/ Rearm
               \/ Finish

Next ==
  \/ \E c \in Conns : \/ Create(c) \/ CreateFails(c) \/ Accept(c) \/ DestroyMark(c)
                      \/ PeerSend(c) \/ PeerClose(c)
                      \/ EventThread(c) \/ Arrive(c)
  \/ ListenerCreate \/ ListenerDestroy \/ ListenerEventCb
  \/ QueueThread

Spec == Init /\ [][Next]_vars

\* The event thread reads what has arrived, sees its end, and the queue is
\* dispatched; callbacks return.
Fairness ==
  /\ \A c \in Conns : WF_vars(EventRead(c)) /\ WF_vars(EndOfFile(c))
  /\ WF_vars(QueueThread)

FairSpec == Spec /\ Fairness
-----------------------------------------------------------------------------
(* Properties. *)

\* The callbacks with connection c for their closure, and with the listener.
Callbacks(c) == (ConnKinds \ {"accept"}) \X {c}
ListenerCallbacks == {"accept"} \X Conns \cup {<<"listening", NULL>>}

\* How many items of S are queued; and how many are queued or run.
Queued(S) == Cardinality({i \in DOMAIN queue : queue[i] \in S})
Pending(S) == Queued(S) + IF item # << >> /\ item \in S THEN 1 ELSE 0

\* What the count of a connection or the listener is made up of: the owner's
\* reference, until destroy has given it back, and one for each callback that is
\* queued or running on the queue's thread.  So each is freed once, neither under
\* such a callback, and a connection not under libevent either.  The listener may
\* be: sbfTcpListenerEventCb takes its reference when it already runs.
RefsOK ==
  /\ \A c \in Conns :
       /\ mEvent[c] # "none" =>
            mRefCount[c] = Pending(Callbacks(c))
                           + IF c \in owned \/ c = destroying THEN 1 ELSE 0
       /\ mEvent[c] # "none" => (memory[c] = "held" <=> mRefCount[c] > 0)
       /\ c \in reading \/ Established(c) \/ mEvent[c] = "connecting" =>
            memory[c] = "held"
  /\ listenerRefs = Pending(ListenerCallbacks) + IF listener = "open" THEN 1 ELSE 0
  /\ listener \in {"open", "destroyed"} <=> listenerRefs > 0

\* Not so in the code: sbfTcpListenerEventCb runs on a listener that is there.  When
\* sbfTcpListener_destroy gives back the last reference meanwhile, it is not.
ListenerHeld == accepting # NULL => listener # "freed"

\* The read callbacks of c that are queued, or have yet to switch reading on.
ReadsQueued(c) ==
  Queued({<<"read", c>>})
  + IF item = <<"read", c>> /\ at \in {"callback", "queued", "enable"} THEN 1 ELSE 0

\* An established connection reads or has one callback that will switch reading
\* on, never both and never neither: no wakeup is lost between the event thread
\* and the queue, and mReadCb is not queued twice.
ReadArmed ==
  \A c \in Conns : Established(c) /\ c \notin mDestroyed =>
    /\ ReadsQueued(c) = IF c \in reading THEN 0 ELSE 1
    /\ c \in mQueued => c \notin reading
    /\ c \notin mQueued /\ c \notin reading => item = <<"read", c>> /\ at = "enable"

\* A connection made by sbfTcpConnection_create is ready before it reads, and the
\* application has been shown all the peer sent when it is told of the end.
CallbackOrder ==
  \A c \in Conns : at = "callback" /\ item # << >> /\ item[2] = c =>
    /\ item[1] = "read" => \A i \in DOMAIN queue : queue[i] # <<"ready", c>>
    /\ item[1] = "eof" => offered[c] = sent[c]

\* What a peer sends is shown to mReadCb, if the connection is not destroyed and
\* does not fail.
Offered ==
  \A c \in Conns :
    sent[c] # offered[c] ~> offered[c] = sent[c] \/ c \in mDestroyed \/ mEvent[c] = "failed"

\* What is destroyed is freed, but for a connection that was not accepted: its
\* count is decremented below zero and it is never freed.
Freed ==
  /\ \A c \in Conns : c \in mDestroyed /\ mEvent[c] # "none" ~> memory[c] = "freed"
  /\ listener = "destroyed" ~> listener = "freed"
=============================================================================
