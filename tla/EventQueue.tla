------------------------------ MODULE EventQueue ------------------------------
(***************************************************************************)
(* The plugin -> WebSocket event queue of logger.c.                        *)
(*                                                                         *)
(* Database sessions call logger_notify, which runs send_event: it reads   *)
(* pending_message_count under message_queue_mutex, releases the mutex,    *)
(* builds a JSON buffer, takes the mutex again and links a ws_message at   *)
(* the tail.  The message thread (process_pending_messages) looks at       *)
(* message_queue without the mutex, unlinks the head under it, broadcasts  *)
(* it and frees it.  logger_plugin_deinit drains the queue, and only then  *)
(* clears messaging_active and joins the message thread.                   *)
(*                                                                         *)
(* Each critical section of send_event and of the message thread is one    *)
(* action: it runs under message_queue_mutex without blocking, and the     *)
(* only access outside the mutex is MtPeek's comparison with NULL.  The    *)
(* drain holds the mutex for several actions, one per list node.           *)
(***************************************************************************)
EXTENDS Integers, FiniteSets, Sequences, Functions

CONSTANTS
  Session,        \* threads of the database server that raise audit events
  Node,           \* addresses malloc can return for a struct ws_message
  NULL,           \* the null pointer
  MaxQueueSize,   \* MAX_MESSAGE_QUEUE_SIZE
  MaxEvents       \* bound on the events one session raises

(* An audit event: the session that raised it and its number there. *)
Event == [session : Session, seq : 1..MaxEvents]

ASSUME SessionAssumption == IsFiniteSet(Session)
ASSUME NullAssumption == NULL \notin Node \cup Event
ASSUME SizeAssumption == MaxQueueSize \in Nat \ {0} /\ MaxEvents \in Nat

VARIABLES
  message_queue,          \* first node of the list, or NULL
  message_queue_tail,     \* last node of the list, or NULL
  pending_message_count,
  mutex_held,             \* deinit holds message_queue_mutex
  heap,                   \* allocated ws_message nodes, address -> contents
  buffers,                \* events whose JSON buffer is allocated
  session,                \* where each session is in send_event
  raised,                 \* events each session raised so far
  messaging_active,
  mt,                     \* where the message thread is
  mt_message,             \* its local `message`, or NULL
  di,                     \* where logger_plugin_deinit is
  fifo,                   \* history: nodes in the order they were linked
  lost                    \* history: events whose node malloc failed

queueVars == <<message_queue, message_queue_tail, pending_message_count>>
heapVars == <<heap, buffers>>
sessionVars == <<session, raised>>
mtVars == <<mt, mt_message>>
deinitVars == <<messaging_active, di, mutex_held>>
historyVars == <<fifo, lost>>
vars == <<queueVars, heapVars, sessionVars, mtVars, deinitVars, historyVars>>

-----------------------------------------------------------------------------
(* struct ws_message *)
Message == [message : Event, next : Node \cup {NULL}]

(* The event a session is at work on. *)
Current(s) == [session |-> s, seq |-> raised[s]]

Allocate(n, m) == [x \in DOMAIN heap \cup {n} |-> IF x = n THEN m ELSE heap[x]]
Free(n) == Restrict(heap, DOMAIN heap \ {n})

TypeOK ==
  /\ message_queue \in Node \cup {NULL}
  /\ message_queue_tail \in Node \cup {NULL}
  /\ pending_message_count \in Nat
  /\ mutex_held \in BOOLEAN
  /\ DOMAIN heap \subseteq Node
  /\ heap \in [DOMAIN heap -> Message]
  /\ buffers \subseteq Event
  /\ session \in [Session -> {"idle", "check", "json", "append"}]
  /\ raised \in [Session -> 0..MaxEvents]
  /\ messaging_active \in BOOLEAN
  /\ mt \in {"loop", "peek", "take", "send", "exited", "crashed"}
  /\ mt_message \in Node \cup {NULL}
  /\ di \in {"running", "begun", "drain", "stop", "join", "done"}
  /\ fifo \in Seq(Node)
  /\ lost \subseteq Event

Init ==
  /\ message_queue = NULL
  /\ message_queue_tail = NULL
  /\ pending_message_count = 0
  /\ mutex_held = FALSE
  /\ heap = [n \in {} |-> NULL]
  /\ buffers = {}
  /\ session = [s \in Session |-> "idle"]
  /\ raised = [s \in Session |-> 0]
  /\ messaging_active = TRUE
  /\ mt = "loop"
  /\ mt_message = NULL
  /\ di = "running"
  /\ fifo = <<>>
  /\ lost = {}

-----------------------------------------------------------------------------
(* Sessions: logger_notify and send_event.                                  *)

(* The server calls logger_notify with an event of a class the plugin      *)
(* handles.  It unloads a plugin only when no session is inside it.        *)
Notify(s) ==
  /\ session[s] = "idle"
  /\ di = "running"
  /\ raised[s] < MaxEvents
  /\ raised' = [raised EXCEPT ![s] = @ + 1]
  /\ session' = [session EXCEPT ![s] = "check"]
  /\ UNCHANGED <<queueVars, heapVars, mtVars, deinitVars, historyVars>>

(* Mutant: the limit compared with > instead of >=. *)
CheckLimitOffByOne(s) ==
  /\ session[s] = "check"
  /\ ~mutex_held
  /\ session' = [session EXCEPT ![s] =
                   IF pending_message_count > MaxQueueSize THEN "idle" ELSE "json"]
  /\ UNCHANGED <<queueVars, heapVars, raised, mtVars, deinitVars, historyVars>>

(* The count is read under the mutex, and the mutex released: what was     *)
(* read may be stale when AppendMessage runs.                               *)
CheckLimit(s) ==
  /\ session[s] = "check"
  /\ ~mutex_held
  /\ session' = [session EXCEPT ![s] =
                   IF pending_message_count >= MaxQueueSize THEN "idle" ELSE "json"]
  /\ UNCHANGED <<queueVars, heapVars, raised, mtVars, deinitVars, historyVars>>

BuildJson(s) ==
  /\ session[s] = "json"
  /\ buffers' = buffers \cup {Current(s)}
  /\ session' = [session EXCEPT ![s] = "append"]
  /\ UNCHANGED <<queueVars, heap, raised, mtVars, deinitVars, historyVars>>

(* strbuf_alloc fails: the event is dropped. *)
BuildJsonFails(s) ==
  /\ session[s] = "json"
  /\ session' = [session EXCEPT ![s] = "idle"]
  /\ UNCHANGED <<queueVars, heapVars, raised, mtVars, deinitVars, historyVars>>

(* Mutant: the new node becomes the head of the list. *)
AppendAtHead(s) ==
  /\ session[s] = "append"
  /\ ~mutex_held
  /\ \E n \in Node \ DOMAIN heap :
       /\ heap' = Allocate(n, [message |-> Current(s), next |-> message_queue])
       /\ message_queue_tail' = IF message_queue = NULL THEN n ELSE message_queue_tail
       /\ message_queue' = n
       /\ fifo' = <<n>> \o fifo
  /\ pending_message_count' = pending_message_count + 1
  /\ session' = [session EXCEPT ![s] = "idle"]
  /\ UNCHANGED <<buffers, raised, mtVars, deinitVars, lost>>

(* Mutant: the count is not incremented. *)
AppendUncounted(s) ==
  /\ session[s] = "append"
  /\ ~mutex_held
  /\ \E n \in Node \ DOMAIN heap :
       LET allocated == Allocate(n, [message |-> Current(s), next |-> NULL]) IN
       /\ heap' = IF message_queue_tail # NULL
                  THEN [allocated EXCEPT ![message_queue_tail].next = n]
                  ELSE allocated
       /\ message_queue_tail' = n
       /\ message_queue' = IF message_queue = NULL THEN n ELSE message_queue
       /\ fifo' = Append(fifo, n)
  /\ session' = [session EXCEPT ![s] = "idle"]
  /\ UNCHANGED <<buffers, raised, pending_message_count, mtVars, deinitVars, lost>>

(* malloc returns the free address n; the node is linked at the tail. *)
AppendMessage(s) ==
  /\ session[s] = "append"
  /\ ~mutex_held
  /\ \E n \in Node \ DOMAIN heap :
       LET allocated == Allocate(n, [message |-> Current(s), next |-> NULL]) IN
       /\ heap' = IF message_queue_tail # NULL
                  THEN [allocated EXCEPT ![message_queue_tail].next = n]
                  ELSE allocated
       /\ message_queue_tail' = n
       /\ message_queue' = IF message_queue = NULL THEN n ELSE message_queue
       /\ fifo' = Append(fifo, n)
  /\ pending_message_count' = pending_message_count + 1
  /\ session' = [session EXCEPT ![s] = "idle"]
  /\ UNCHANGED <<buffers, raised, mtVars, deinitVars, lost>>

(* Mutant: the count is incremented although no node was linked. *)
AppendFailsCounted(s) ==
  /\ session[s] = "append"
  /\ ~mutex_held
  /\ lost' = lost \cup {Current(s)}
  /\ pending_message_count' = pending_message_count + 1
  /\ session' = [session EXCEPT ![s] = "idle"]
  /\ UNCHANGED <<message_queue, message_queue_tail, heapVars, raised, mtVars,
                 deinitVars, fifo>>

(* malloc fails: the error is logged, and the JSON buffer is not freed. *)
AppendFails(s) ==
  /\ session[s] = "append"
  /\ ~mutex_held
  /\ lost' = lost \cup {Current(s)}
  /\ session' = [session EXCEPT ![s] = "idle"]
  /\ UNCHANGED <<queueVars, heapVars, raised, mtVars, deinitVars, fifo>>

-----------------------------------------------------------------------------
(* The message thread: process_pending_messages.                            *)

MtLoop ==
  /\ mt = "loop"
  /\ mt' = IF messaging_active THEN "peek" ELSE "exited"
  /\ UNCHANGED <<queueVars, heapVars, sessionVars, mt_message, deinitVars, historyVars>>

(* Mutant: no look at the queue before the lock. *)
MtNoPeek ==
  /\ mt = "peek"
  /\ mt' = "take"
  /\ UNCHANGED <<queueVars, heapVars, sessionVars, mt_message, deinitVars, historyVars>>

(* Mutant: the thread waits for a second message before it takes one. *)
MtPeekTwo ==
  /\ mt = "peek"
  /\ mt' = IF message_queue = message_queue_tail THEN "loop" ELSE "take"
  /\ UNCHANGED <<queueVars, heapVars, sessionVars, mt_message, deinitVars, historyVars>>

(* message_queue is compared with NULL without the mutex. *)
MtPeek ==
  /\ mt = "peek"
  /\ mt' = IF message_queue = NULL THEN "loop" ELSE "take"
  /\ UNCHANGED <<queueVars, heapVars, sessionVars, mt_message, deinitVars, historyVars>>

(* Mutant: the tail pointer is not reset when the last node leaves. *)
MtTakeKeepsTail ==
  /\ mt = "take"
  /\ ~mutex_held
  /\ message_queue # NULL
  /\ mt_message' = message_queue
  /\ message_queue' = heap[message_queue].next
  /\ heap' = [heap EXCEPT ![message_queue].next = NULL]
  /\ pending_message_count' = pending_message_count - 1
  /\ mt' = "send"
  /\ fifo' = Tail(fifo)
  /\ UNCHANGED <<message_queue_tail, buffers, sessionVars, deinitVars, lost>>

(* The head is unlinked under the mutex, without looking at it again. *)
MtTake ==
  /\ mt = "take"
  /\ ~mutex_held
  /\ message_queue # NULL
  /\ mt_message' = message_queue
  /\ message_queue' = heap[message_queue].next
  /\ heap' = [heap EXCEPT ![message_queue].next = NULL]
  /\ message_queue_tail' =
       IF message_queue_tail = message_queue THEN NULL ELSE message_queue_tail
  /\ pending_message_count' = pending_message_count - 1
  /\ mt' = "send"
  /\ fifo' = Tail(fifo)
  /\ UNCHANGED <<buffers, sessionVars, deinitVars, lost>>

(* message->next with message = NULL: the server process dies. *)
MtTakeNull ==
  /\ mt = "take"
  /\ ~mutex_held
  /\ message_queue = NULL
  /\ mt' = "crashed"
  /\ UNCHANGED <<queueVars, heapVars, sessionVars, mt_message, deinitVars, historyVars>>

(* Mutant: the node is freed, its JSON buffer is not. *)
MtReleaseNodeOnly ==
  /\ mt = "send"
  /\ heap' = Free(mt_message)
  /\ mt_message' = NULL
  /\ mt' = "loop"
  /\ UNCHANGED <<queueVars, buffers, sessionVars, deinitVars, historyVars>>

(* The broadcast is over (WsClients models it): the message is freed.      *)
(* Nothing says that it ends: the thread may wait for a client's mutex     *)
(* that it holds itself, or in send.                                       *)
MtRelease ==
  /\ mt = "send"
  /\ buffers' = buffers \ {heap[mt_message].message}
  /\ heap' = Free(mt_message)
  /\ mt_message' = NULL
  /\ mt' = "loop"
  /\ UNCHANGED <<queueVars, sessionVars, deinitVars, historyVars>>

-----------------------------------------------------------------------------
(* The unloading thread: logger_plugin_deinit.                              *)

(* The server unloads the plugin; both server threads are joined first. *)
DeinitBegin ==
  /\ di = "running"
  /\ \A s \in Session : session[s] = "idle"
  /\ di' = "begun"
  /\ UNCHANGED <<queueVars, heapVars, sessionVars, mtVars, messaging_active,
                 mutex_held, historyVars>>

DrainLock ==
  /\ di = "begun"
  /\ ~mutex_held
  /\ mutex_held' = TRUE
  /\ di' = "drain"
  /\ UNCHANGED <<queueVars, heapVars, sessionVars, mtVars, messaging_active, historyVars>>

(* One turn of the drain loop: the count is left as it is. *)
DrainNode ==
  /\ di = "drain"
  /\ message_queue # NULL
  /\ message_queue' = heap[message_queue].next
  /\ buffers' = buffers \ {heap[message_queue].message}
  /\ heap' = Free(message_queue)
  /\ fifo' = Tail(fifo)
  /\ UNCHANGED <<message_queue_tail, pending_message_count, sessionVars, mtVars,
                 deinitVars, lost>>

DrainUnlock ==
  /\ di = "drain"
  /\ message_queue = NULL
  /\ message_queue_tail' = NULL
  /\ mutex_held' = FALSE
  /\ di' = "stop"
  /\ UNCHANGED <<message_queue, pending_message_count, heapVars, sessionVars, mtVars,
                 messaging_active, historyVars>>

(* Mutant: messaging_active stays set. *)
StopMessagingForgotten ==
  /\ di = "stop"
  /\ di' = "join"
  /\ UNCHANGED <<queueVars, heapVars, sessionVars, mtVars, messaging_active,
                 mutex_held, historyVars>>

StopMessaging ==
  /\ di = "stop"
  /\ messaging_active' = FALSE
  /\ di' = "join"
  /\ UNCHANGED <<queueVars, heapVars, sessionVars, mtVars, mutex_held, historyVars>>

Join ==
  /\ di = "join"
  /\ mt = "exited"
  /\ di' = "done"
  /\ UNCHANGED <<queueVars, heapVars, sessionVars, mtVars, messaging_active,
                 mutex_held, historyVars>>

-----------------------------------------------------------------------------
SendEvent(s) ==
  \/ CheckLimit(s)
  \/ BuildJson(s)
  \/ BuildJsonFails(s)
  \/ AppendMessage(s)
  \/ AppendFails(s)

MessageThread == MtLoop \/ MtPeek \/ MtTake \/ MtTakeNull \/ MtRelease

Deinit == DrainLock \/ DrainNode \/ DrainUnlock \/ StopMessaging \/ Join

(* The process is gone, or the plugin is unloaded. *)
Terminated == mt = "crashed" \/ di = "done"

Step ==
  /\ mt # "crashed"
  /\ \/ \E s \in Session : Notify(s) \/ SendEvent(s)
     \/ MessageThread
     \/ DeinitBegin
     \/ Deinit

Next == Step \/ (Terminated /\ UNCHANGED vars)

Spec == Init /\ [][Next]_vars

(* The scheduler runs every thread that can run; nothing forces a session  *)
(* to raise an event, the server to unload the plugin, or a broadcast to   *)
(* end.                                                                    *)
Fairness ==
  /\ WF_vars(mt # "crashed" /\ (MtLoop \/ MtPeek \/ MtTake \/ MtTakeNull))
  /\ WF_vars(mt # "crashed" /\ Deinit)
  /\ \A s \in Session : WF_vars(mt # "crashed" /\ SendEvent(s))

FairSpec == Spec /\ Fairness

-----------------------------------------------------------------------------
(* Properties                                                               *)

(* Sessions that passed the limit check and did not append yet. *)
PastCheck == {s \in Session : session[s] \in {"json", "append"}}

(* The nodes the plugin still owes a free: linked ones and the one in hand. *)
Live == Range(fifo) \cup ({mt_message} \ {NULL})

(* The pointers spell the history: following next from message_queue       *)
(* visits the linked nodes in order, each once, and ends in NULL; the tail *)
(* pointer is the last of them whenever the mutex is free (logger.c:611    *)
(* writes through it).  Only DrainNode leaves it dangling, inside the lock.*)
ListShape ==
  /\ IF fifo = <<>> THEN message_queue = NULL ELSE message_queue = fifo[1]
  /\ \A i, j \in 1..Len(fifo) : fifo[i] = fifo[j] => i = j
  /\ \A i \in 1..Len(fifo) :
       /\ fifo[i] \in DOMAIN heap
       /\ heap[fifo[i]].next = IF i = Len(fifo) THEN NULL ELSE fifo[i + 1]
  /\ ~mutex_held =>
       message_queue_tail = IF fifo = <<>> THEN NULL ELSE fifo[Len(fifo)]

(* The allocated nodes are those in the list and the one in hand, which is *)
(* no longer in the list.                                                  *)
NodesOwned ==
  /\ DOMAIN heap = Live
  /\ mt_message \notin Range(fifo)

(* The allocated JSON buffers are those of the live nodes, of the sessions *)
(* about to append, and the lost ones.                                     *)
BuffersOwned ==
  buffers = {heap[n].message : n \in Live} \cup lost
              \cup {Current(s) : s \in {t \in Session : session[t] = "append"}}

(* An unload that ends leaves no node allocated, and no buffer but those   *)
(* lost to a failed malloc, although the message thread may still hold one *)
(* while the queue is drained.                                             *)
UnloadFreesAll == di = "done" => heap = <<>> /\ buffers = lost

(* A node is freed exactly when it leaves the hands of the last owner: no  *)
(* node or JSON buffer is freed twice, used after its free or forgotten,   *)
(* except the buffers of events whose node could not be allocated          *)
(* (logger.c:623), which stay allocated for ever; an unload frees the rest. *)
Ownership == NodesOwned /\ BuffersOwned /\ UnloadFreesAll

(* pending_message_count is the length of the list until the unload drains *)
(* it; from then on it only overstates it, which can drop events but never *)
(* let one in past the limit.                                              *)
CountMatches ==
  /\ Len(fifo) <= pending_message_count
  /\ di \in {"running", "begun"} => pending_message_count = Len(fifo)

(* The limit check is not atomic with the append: the queue may outgrow    *)
(* MAX_MESSAGE_QUEUE_SIZE, but by less than one event per session.         *)
QueueBound == Len(fifo) <= MaxQueueSize - 1 + Cardinality(Session)

(* The events of one session are linked, and hence sent, in the order the  *)
(* session raised them, the one in the message thread's hand before those  *)
(* that wait, and one not linked yet after all of them.                    *)
SessionOrder ==
  /\ \A i, j \in 1..Len(fifo) :
       LET a == heap[fifo[i]].message  b == heap[fifo[j]].message
       IN  (i < j /\ a.session = b.session) => a.seq < b.seq
  /\ \A i \in 1..Len(fifo) :
       LET e == heap[fifo[i]].message
       IN  /\ mt_message # NULL =>
                (heap[mt_message].message.session = e.session
                   => heap[mt_message].message.seq < e.seq)
           /\ session[e.session] = "append" => e.seq < raised[e.session]

(* The unlocked look at message_queue (logger.c:641) is safe as long as    *)
(* the message thread is the only one that removes nodes: the thread can   *)
(* dereference NULL only once the unload has drained the queue between the *)
(* look and the lock.                                                      *)
CrashOnlyAfterDrain ==
  (mt = "crashed" \/ (mt = "take" /\ message_queue = NULL))
    => di \in {"drain", "stop", "join"}

(* Unloading ends: the message thread sees messaging_active, leaves its    *)
(* loop and is joined, or the process dies.  The exception is a broadcast  *)
(* that never ends (logger.c:663): the unload waits for it as long.        *)
UnloadEnds == []<>(mt # "send") => (di # "running" ~> Terminated)

(* What the queue promises, and the mapping under which it keeps it. *)
Waiting == [i \in 1..Len(fifo) |-> heap[fifo[i]].message]

InHand == IF mt_message = NULL THEN NULL ELSE heap[mt_message].message

Status == IF mt = "crashed" THEN "crashed"
          ELSE IF di = "running" THEN "open" ELSE "closed"

Fifo == INSTANCE EventFifo WITH
  Capacity <- MaxQueueSize - 1 + Cardinality(Session),
  queue <- Waiting, held <- InHand, status <- Status

(* The pointers, the count and the two threads implement the bounded FIFO  *)
(* of EventFifo, its progress between two broadcasts included.             *)
ImplementsFifo == Fifo!FairSpec

=============================================================================
