------------------------------ MODULE EventPath ------------------------------
(***************************************************************************)
(* The way of an event from the session that raises it to the browser that *)
(* shows it: EventQueue and WsClients in one system, while the plugin is   *)
(* loaded.  The message thread is a part of both: it takes a message off   *)
(* the queue, walks the slots with it, and frees it.                       *)
(*                                                                         *)
(* An event of WsClients is a number: the n-th one taken off the queue.    *)
(***************************************************************************)
EXTENDS Integers, FiniteSets, Sequences

CONSTANTS
  Session, Node, MaxQueueSize,                      \* of EventQueue
  MaxNotified,                                      \* its MaxEvents
  Conn, Fd, MaxClients, MaxActive, DestroyHeld,     \* of WsClients
  Leave, AllocMayFail,
  NULL                                              \* of both

VARIABLES
  \* EventQueue, with its `raised` and `mt` renamed
  message_queue, message_queue_tail, pending_message_count, mutex_held, heap, buffers,
  session, notified, messaging_active, mtQueue, mt_message, di, fifo, lost,
  \* WsClients
  fds, peer, wire, got, clients, ws, pollfds, revents, server_ready, wsI, wsClient,
  clients_locked, raised, taken, joined, mt, mtI, mtSock,
  \* history: the events taken off the queue, in order
  events

queueVars == <<message_queue, message_queue_tail, pending_message_count, mutex_held, heap,
               buffers, session, notified, messaging_active, mtQueue, mt_message, di,
               fifo, lost>>
webVars == <<fds, peer, wire, got, clients, ws, pollfds, revents, server_ready, wsI,
             wsClient, clients_locked, raised, taken, joined, mt, mtI, mtSock>>
vars == <<queueVars, webVars, events>>

Queue == INSTANCE EventQueue WITH
           MaxEvents <- MaxNotified, raised <- notified, mt <- mtQueue

Web == INSTANCE WsClients WITH
         MaxEvents <- MaxNotified * Cardinality(Session), Unloads <- FALSE

(* What the two modules assume. *)
ASSUME QueueAssumption ==
  /\ IsFiniteSet(Session)
  /\ NULL \notin Node \cup Queue!Event
  /\ MaxQueueSize \in Nat \ {0} /\ MaxNotified \in Nat
ASSUME WebAssumption ==
  /\ NULL \notin Conn \cup Fd \cup Nat
  /\ IsFiniteSet(Conn)
  /\ {MaxClients, MaxActive} \subseteq Nat \ {0}
  /\ DestroyHeld \in {"busy", "ok"}
  /\ Leave \subseteq {"close", "fin", "rst"}
  /\ AllocMayFail \in BOOLEAN

-----------------------------------------------------------------------------
Init ==
  /\ Queue!Init
  /\ Web!Init
  /\ events = <<>>

(* A session: its event is raised for WsClients when it is linked. *)
Notify(s) == Queue!Notify(s) /\ UNCHANGED <<webVars, events>>

Link(s) ==
  /\ Queue!AppendMessage(s)
  /\ Web!Raise
  /\ UNCHANGED events

SendEvent(s) ==
  \/ Link(s)
  \/ /\ \/ Queue!CheckLimit(s) \/ Queue!BuildJson(s)
        \/ Queue!BuildJsonFails(s) \/ Queue!AppendFails(s)
     /\ UNCHANGED <<webVars, events>>

(* The message thread. *)
Take ==
  /\ Queue!MtTake
  /\ Web!MtTake
  /\ events' = Append(events, heap[message_queue].message)

Broadcast ==
  /\ mtQueue = "send"
  /\ \/ Web!MtSkip \/ Web!MtCheck \/ Web!MtLock \/ Web!MtRead \/ Web!MtSend
     \/ Web!MtUnlock \/ Web!MtDestroy \/ Web!MtClose \/ Web!MtClear
  /\ UNCHANGED <<queueVars, events>>

Release ==
  /\ mt = "idle"
  /\ Queue!MtRelease
  /\ UNCHANGED <<webVars, events>>

Look ==
  /\ Queue!MtLoop \/ Queue!MtPeek
  /\ UNCHANGED <<webVars, events>>

MessageThread == Take \/ Broadcast \/ Release \/ Look

(* The WebSocket server. *)
ServerThread == Web!ServerThread /\ UNCHANGED <<queueVars, events>>
ServerEnds == Web!PollFails /\ UNCHANGED <<queueVars, events>>
Browser(c) == Web!Browser(c) /\ UNCHANGED <<queueVars, events>>

(* The message thread waits for a mutex that it holds. *)
WaitsForItself == mt = "lock" /\ clients[mtI].mutex = "held"

Next ==
  \/ \E s \in Session : Notify(s) \/ SendEvent(s)
  \/ MessageThread
  \/ ServerThread \/ ServerEnds
  \/ \E c \in Conn : Browser(c)

Spec == Init /\ [][Next]_vars

(* As in EventQueue and WsClients. *)
FairSpec ==
  /\ Spec
  /\ WF_vars(MessageThread)
  /\ WF_vars(ServerThread)
  /\ \A s \in Session : WF_vars(SendEvent(s))

-----------------------------------------------------------------------------
(* Properties                                                               *)

(* What a browser was sent i-th, when that was an event. *)
SeenAt(c) == {i \in DOMAIN got[c] : got[c][i] \in DOMAIN events}
Seen(c, i) == events[got[c][i]]

(* A browser sees the events of each session in the order they were        *)
(* raised, and none twice, although sessions, the message thread and the   *)
(* server interleave, events are dropped and addresses are used again.     *)
SeenInOrder ==
  \A c \in Conn : \A i, j \in SeenAt(c) :
    (i < j /\ Seen(c, i).session = Seen(c, j).session) => Seen(c, i).seq < Seen(c, j).seq

Accepted(e) == \E n \in 1..Len(fifo) : heap[fifo[n]].message = e

(* A browser that is served sees every event that was let into the queue,  *)
(* unless it leaves first, or the message thread waits for itself.         *)
AcceptedIsSeen ==
  \A c \in Conn, e \in Queue!Event :
    (Web!Served(c) /\ Accepted(e)) ~>
       \/ \E i \in SeenAt(c) : Seen(c, i) = e
       \/ ~Web!Served(c) \/ WaitsForItself

=============================================================================
