-------------------------- MODULE EventPathProofs --------------------------
(***************************************************************************)
(* TLAPS proofs about EventPath: what is proved of the queue and of the    *)
(* slots holds of the two together, and a browser sees the events of each  *)
(* session in order.                                                       *)
(*                                                                         *)
(* The lemmas of the two modules are taken from instances of their proof   *)
(* modules.  Their assumptions follow from those of EventPath, and an      *)
(* action of the instance Queue is the one of QueueProofs: the lemmas of   *)
(* the first section only say so.                                          *)
(***************************************************************************)
EXTENDS EventPath, TLAPS, SequenceTheorems, FiniteSetTheorems

QueueProofs == INSTANCE EventQueueProofs WITH
                 MaxEvents <- MaxNotified, raised <- notified, mt <- mtQueue

WebProofs == INSTANCE WsClientsProofs WITH
               MaxEvents <- MaxNotified * Cardinality(Session), Unloads <- FALSE

-----------------------------------------------------------------------------
(* The steps are steps of the two modules                                   *)

(* What EventQueue assumes of its constants. *)
LEMMA QueueAssumed ==
  /\ QueueProofs!IsFiniteSet(Session)
  /\ NULL \notin Node \cup QueueProofs!Event
  /\ MaxQueueSize \in Nat \ {0} /\ MaxNotified \in Nat
BY QueueAssumption DEF Queue!Event, QueueProofs!Event, IsFiniteSet, QueueProofs!IsFiniteSet

(* What WsClients assumes of its constants. *)
LEMMA WebAssumed ==
  /\ NULL \notin Conn \cup Fd \cup Nat
  /\ WebProofs!IsFiniteSet(Conn)
  /\ /\ MaxClients \in Nat \ {0}
     /\ MaxActive \in Nat \ {0}
     /\ MaxNotified * Cardinality(Session) \in Nat
  /\ /\ DestroyHeld \in {"busy", "ok"}
     /\ Leave \subseteq {"close", "fin", "rst"}
     /\ {AllocMayFail, FALSE} \subseteq BOOLEAN
<1>1. WebProofs!IsFiniteSet(Conn)
  BY WebAssumption DEF IsFiniteSet, WebProofs!IsFiniteSet
<1>2. MaxNotified * Cardinality(Session) \in Nat
  BY QueueAssumption, FS_CardinalityType
<1> QED
  BY <1>1, <1>2, WebAssumption

(* What the sessions do to the queue. *)
LEMMA SessionSteps ==
  ASSUME NEW s \in Session
  PROVE  /\ Queue!Notify(s) => QueueProofs!Notify(s)
         /\ Queue!AppendMessage(s) => QueueProofs!AppendMessage(s)
         /\ Queue!CheckLimit(s) \/ Queue!BuildJson(s) \/ Queue!BuildJsonFails(s)
              \/ Queue!AppendMessage(s) \/ Queue!AppendFails(s)
            => QueueProofs!SendEvent(s)
<1> USE DEF Queue!queueVars, Queue!heapVars, Queue!sessionVars, Queue!mtVars,
            Queue!deinitVars, Queue!historyVars, Queue!Current, Queue!Allocate,
            QueueProofs!queueVars, QueueProofs!heapVars, QueueProofs!sessionVars,
            QueueProofs!mtVars, QueueProofs!deinitVars, QueueProofs!historyVars,
            QueueProofs!Current, QueueProofs!Allocate
<1>1. Queue!Notify(s) => QueueProofs!Notify(s)
  BY DEF Queue!Notify, QueueProofs!Notify
<1>2. Queue!AppendMessage(s) => QueueProofs!AppendMessage(s)
  BY DEF Queue!AppendMessage, QueueProofs!AppendMessage
<1>3. Queue!CheckLimit(s) => QueueProofs!CheckLimit(s)
  BY DEF Queue!CheckLimit, QueueProofs!CheckLimit
<1>4. Queue!BuildJson(s) => QueueProofs!BuildJson(s)
  BY DEF Queue!BuildJson, QueueProofs!BuildJson
<1>5. Queue!BuildJsonFails(s) => QueueProofs!BuildJsonFails(s)
  BY DEF Queue!BuildJsonFails, QueueProofs!BuildJsonFails
<1>6. Queue!AppendFails(s) => QueueProofs!AppendFails(s)
  BY DEF Queue!AppendFails, QueueProofs!AppendFails
<1> QED
  BY <1>1, <1>2, <1>3, <1>4, <1>5, <1>6 DEF QueueProofs!SendEvent

(* What the message thread does to the queue. *)
LEMMA MessageSteps ==
  /\ Queue!MtTake => QueueProofs!MtTake
  /\ Queue!MtRelease => QueueProofs!MtRelease
  /\ Queue!MtLoop => QueueProofs!MtLoop
  /\ Queue!MtPeek => QueueProofs!MtPeek
<1> USE DEF Queue!queueVars, Queue!heapVars, Queue!sessionVars, Queue!mtVars,
            Queue!deinitVars, Queue!historyVars, Queue!Free, Queue!Restrict,
            QueueProofs!queueVars, QueueProofs!heapVars, QueueProofs!sessionVars,
            QueueProofs!mtVars, QueueProofs!deinitVars, QueueProofs!historyVars,
            QueueProofs!Free, QueueProofs!Restrict
<1>1. Queue!MtTake => QueueProofs!MtTake
  BY DEF Queue!MtTake, QueueProofs!MtTake
<1>2. Queue!MtRelease => QueueProofs!MtRelease
  BY DEF Queue!MtRelease, QueueProofs!MtRelease
<1>3. Queue!MtLoop => QueueProofs!MtLoop
  BY DEF Queue!MtLoop, QueueProofs!MtLoop
<1>4. Queue!MtPeek => QueueProofs!MtPeek
  BY DEF Queue!MtPeek, QueueProofs!MtPeek
<1> QED
  BY <1>1, <1>2, <1>3, <1>4

(* The steps of the message thread, of the browsers and of an event raised *)
(* are those of WsClients.                                                 *)
LEMMA WebSteps ==
  /\ Web!Raise => WebProofs!Raise
  /\ Web!MtTake => WebProofs!MtTake
  /\ Web!MtSkip => WebProofs!MtSkip
  /\ Web!MtCheck => WebProofs!MtCheck
  /\ Web!MtLock => WebProofs!MtLock
  /\ Web!MtRead => WebProofs!MtRead
  /\ Web!MtSend => WebProofs!MtSend
  /\ Web!MtUnlock => WebProofs!MtUnlock
  /\ Web!MtDestroy => WebProofs!MtDestroy
  /\ Web!MtClose => WebProofs!MtClose
  /\ Web!MtClear => WebProofs!MtClear
<1> USE DEF Web!kernelVars, Web!wsVars, Web!historyVars, Web!NextSlot, Web!CanSend, Web!Open,
            WebProofs!kernelVars, WebProofs!wsVars, WebProofs!historyVars, WebProofs!NextSlot,
            WebProofs!CanSend, WebProofs!Open
<1>1. Web!Raise => WebProofs!Raise
  BY DEF Web!Raise, WebProofs!Raise
<1>2. Web!MtTake => WebProofs!MtTake
  BY DEF Web!MtTake, WebProofs!MtTake
<1>3. Web!MtSkip => WebProofs!MtSkip
  BY DEF Web!MtSkip, WebProofs!MtSkip
<1>4. Web!MtCheck => WebProofs!MtCheck
  BY DEF Web!MtCheck, WebProofs!MtCheck
<1>5. Web!MtLock => WebProofs!MtLock
  BY DEF Web!MtLock, WebProofs!MtLock
<1>6. Web!MtRead => WebProofs!MtRead
  BY DEF Web!MtRead, WebProofs!MtRead
<1>7. Web!MtSend => WebProofs!MtSend
  BY DEF Web!MtSend, WebProofs!MtSend, Web!Deliver, WebProofs!Deliver
<1>8. Web!MtUnlock => WebProofs!MtUnlock
  BY DEF Web!MtUnlock, WebProofs!MtUnlock
<1>9. Web!MtDestroy => WebProofs!MtDestroy
  BY DEF Web!MtDestroy, WebProofs!MtDestroy, Web!DestroyFails, WebProofs!DestroyFails
<1>10. Web!MtClose => WebProofs!MtClose
  BY DEF Web!MtClose, WebProofs!MtClose, Web!CloseNicely, WebProofs!CloseNicely, Web!CloseFd,
         WebProofs!CloseFd
<1>11. Web!MtClear => WebProofs!MtClear
  BY DEF Web!MtClear, WebProofs!MtClear, Web!EmptySlot, WebProofs!EmptySlot
<1> QED
  BY <1>1, <1>2, <1>3, <1>4, <1>5, <1>6, <1>7, <1>8, <1>9, <1>10, <1>11

(* So are those of the browsers. *)
LEMMA BrowserSteps ==
  ASSUME NEW c \in Conn, Web!Browser(c)
  PROVE  WebProofs!Browser(c)
BY DEF Web!Browser, Web!PeerConnects, Web!PeerCloses, Web!PeerFinishes, Web!PeerResets,
       Web!wsVars, Web!mtVars, Web!historyVars, Web!Accepted, Web!ToSet,
       WebProofs!Browser, WebProofs!PeerConnects, WebProofs!PeerCloses,
       WebProofs!PeerFinishes, WebProofs!PeerResets, WebProofs!wsVars, WebProofs!mtVars,
       WebProofs!historyVars, WebProofs!Accepted, WebProofs!ToSet

(* And those of serve and of process_ws_request. *)
LEMMA ServerSteps == Web!ServerThread => WebProofs!ServerThread
<1> USE DEF Web!kernelVars, Web!wsVars, Web!wsLocals, Web!mtVars, Web!historyVars, Web!Open,
            Web!CanSend, Web!Sock, Web!Slot, Web!Min, Web!Calling, Web!Events,
            WebProofs!kernelVars, WebProofs!wsVars, WebProofs!wsLocals, WebProofs!mtVars,
            WebProofs!historyVars, WebProofs!Open, WebProofs!CanSend, WebProofs!Sock,
            WebProofs!Slot, WebProofs!Min, WebProofs!Calling, WebProofs!Events
<1>1. Web!Poll => WebProofs!Poll
  BY DEF Web!Poll, WebProofs!Poll
<1>2. Web!NoneToAccept => WebProofs!NoneToAccept
  BY DEF Web!NoneToAccept, WebProofs!NoneToAccept
<1>3. Web!Accept => WebProofs!Accept
  BY DEF Web!Accept, WebProofs!Accept, Web!FreePlaces, WebProofs!FreePlaces
<1>4. Web!AcceptFails => WebProofs!AcceptFails
  BY DEF Web!AcceptFails, WebProofs!AcceptFails, Web!FreePlaces, WebProofs!FreePlaces
<1>5. Web!ScanEnds => WebProofs!ScanEnds
  BY DEF Web!ScanEnds, WebProofs!ScanEnds, Web!Reported, WebProofs!Reported
<1>6. Web!ScanHangup => WebProofs!ScanHangup
  BY DEF Web!ScanHangup, WebProofs!ScanHangup, Web!Reported, WebProofs!Reported,
         Web!CloseFd, WebProofs!CloseFd
<1>7. Web!ScanInput => WebProofs!ScanInput
  BY DEF Web!ScanInput, WebProofs!ScanInput, Web!Reported, WebProofs!Reported
<1>8. Web!Drop => WebProofs!Drop
  BY DEF Web!Drop, WebProofs!Drop, Web!CloseFd, WebProofs!CloseFd
<1>9. Web!Lookup => WebProofs!Lookup
  BY DEF Web!Lookup, WebProofs!Lookup, Web!Known, WebProofs!Known, Web!SlotsOf,
         WebProofs!SlotsOf, Web!NewClient, WebProofs!NewClient
<1>10. Web!RecvFrame => WebProofs!RecvFrame
  BY DEF Web!RecvFrame, WebProofs!RecvFrame
<1>11. Web!RecvEof => WebProofs!RecvEof
  BY DEF Web!RecvEof, WebProofs!RecvEof
<1>12. Web!RecvFails => WebProofs!RecvFails
  BY DEF Web!RecvFails, WebProofs!RecvFails
<1>13. Web!WsDestroy => WebProofs!WsDestroy
  BY DEF Web!WsDestroy, WebProofs!WsDestroy, Web!DestroyFails, WebProofs!DestroyFails
<1>14. Web!WsClose => WebProofs!WsClose
  BY DEF Web!WsClose, WebProofs!WsClose, Web!CloseNicely, WebProofs!CloseNicely,
         Web!CloseFd, WebProofs!CloseFd
<1>15. Web!WsClear => WebProofs!WsClear
  BY DEF Web!WsClear, WebProofs!WsClear, Web!EmptySlot, WebProofs!EmptySlot
<1>16. Web!Handshake => WebProofs!Handshake
  BY DEF Web!Handshake, WebProofs!Handshake, Web!Deliver, WebProofs!Deliver,
         Web!Accepted, WebProofs!Accepted
<1>17. Web!HandshakeFails => WebProofs!HandshakeFails
  BY DEF Web!HandshakeFails, WebProofs!HandshakeFails
<1>18. Web!InitMutex => WebProofs!InitMutex
  BY DEF Web!InitMutex, WebProofs!InitMutex, Web!FreeSlots, WebProofs!FreeSlots
<1>19. Web!InitConnected => WebProofs!InitConnected
  BY DEF Web!InitConnected, WebProofs!InitConnected
<1>20. Web!InitSocket => WebProofs!InitSocket
  BY DEF Web!InitSocket, WebProofs!InitSocket
<1>21. Web!InitFails => WebProofs!InitFails
  BY DEF Web!InitFails, WebProofs!InitFails, Web!FreeSlots, WebProofs!FreeSlots,
         Web!TryDeliver, WebProofs!TryDeliver, Web!Deliver, WebProofs!Deliver,
         Web!CloseFrame, WebProofs!CloseFrame
<1>22. Web!LimitReached => WebProofs!LimitReached
  BY DEF Web!LimitReached, WebProofs!LimitReached, Web!FreeSlots, WebProofs!FreeSlots,
         Web!TryDeliver, WebProofs!TryDeliver, Web!Deliver, WebProofs!Deliver,
         Web!CloseFrame, WebProofs!CloseFrame, Web!Refused, WebProofs!Refused
<1> QED
  BY <1>1, <1>2, <1>3, <1>4, <1>5, <1>6, <1>7, <1>8, <1>9, <1>10, <1>11, <1>12, <1>13,
     <1>14, <1>15, <1>16, <1>17, <1>18, <1>19, <1>20, <1>21, <1>22
     DEF Web!ServerThread, WebProofs!ServerThread

-----------------------------------------------------------------------------
(* The two modules, one inside the other                                    *)

Alive == mtQueue # "crashed"

(* The message thread takes a message only when there is one. *)
LEMMA NeverCrashed == Spec => []Alive
<1>1. Init => Alive
  BY DEF Init, Queue!Init, Alive
<1>2. Alive /\ [Next]_vars => Alive'
  BY DEF Alive, Next, Notify, SendEvent, Link, Queue!Notify, Queue!CheckLimit, Queue!BuildJson,
         Queue!BuildJsonFails, Queue!AppendMessage, Queue!AppendFails, Queue!mtVars,
         MessageThread, Take, Broadcast, Release, Look, Queue!MtTake, Queue!MtRelease,
         Queue!MtLoop, Queue!MtPeek, ServerThread, ServerEnds, Browser, queueVars, vars
<1> QED
  BY <1>1, <1>2, PTL DEF Spec

(* What a step does to the queue, and to the slots. *)
LEMMA StepsOfBoth ==
  ASSUME [Next]_vars, Alive
  PROVE  /\ [QueueProofs!Next]_(QueueProofs!vars)
         /\ [WebProofs!Next]_(WebProofs!vars)
<1> USE DEF Alive, QueueProofs!Next, QueueProofs!Step, WebProofs!Next
<1>1. UNCHANGED queueVars => UNCHANGED QueueProofs!vars
  BY DEF queueVars, QueueProofs!vars, QueueProofs!queueVars, QueueProofs!heapVars,
         QueueProofs!sessionVars, QueueProofs!mtVars, QueueProofs!deinitVars,
         QueueProofs!historyVars
<1>2. UNCHANGED webVars => UNCHANGED WebProofs!vars
  BY DEF webVars, WebProofs!vars, WebProofs!kernelVars, WebProofs!wsVars, WebProofs!mtVars,
         WebProofs!historyVars
<1>3. ASSUME NEW s \in Session, Notify(s) \/ SendEvent(s)
      PROVE  QueueProofs!Next /\ (WebProofs!Next \/ UNCHANGED webVars)
  BY <1>3, SessionSteps, WebSteps DEF Notify, SendEvent, Link
<1>4. CASE MessageThread
  <2>1. CASE Take
    BY <2>1, MessageSteps, WebSteps DEF Take, QueueProofs!MessageThread,
       WebProofs!MessageThread
  <2>2. CASE Broadcast
    BY <1>1, <2>2, WebSteps DEF Broadcast, WebProofs!MessageThread
  <2>3. CASE Release \/ Look
    BY <1>2, <2>3, MessageSteps DEF Release, Look, QueueProofs!MessageThread
  <2> QED
    BY <1>4, <2>1, <2>2, <2>3 DEF MessageThread
<1>5. CASE ServerThread \/ ServerEnds
  <2>1. Web!PollFails => WebProofs!PollFails
    BY DEF Web!PollFails, Web!kernelVars, Web!wsLocals, Web!mtVars, Web!historyVars,
           WebProofs!PollFails, WebProofs!kernelVars, WebProofs!wsLocals,
           WebProofs!mtVars, WebProofs!historyVars
  <2> QED
    BY <1>1, <1>5, <2>1, ServerSteps DEF ServerThread, ServerEnds
<1>6. ASSUME NEW c \in Conn, Browser(c)
      PROVE  WebProofs!Next /\ UNCHANGED queueVars
  BY <1>6, BrowserSteps DEF Browser
<1>7. CASE UNCHANGED vars
  BY <1>1, <1>2, <1>7 DEF vars
<1> QED
  BY <1>1, <1>2, <1>3, <1>4, <1>5, <1>6, <1>7 DEF Next

(* The queue behaves as EventQueue says, whatever the slots do: what is    *)
(* proved of EventQueue holds of the whole.                                *)
THEOREM ImplementsQueue == Spec => QueueProofs!Spec
<1>1. Init => QueueProofs!Init
  BY DEF Init, Queue!Init, QueueProofs!Init
<1>2. [Next]_vars /\ Alive => [QueueProofs!Next]_(QueueProofs!vars)
  BY StepsOfBoth
<1> QED
  BY <1>1, <1>2, NeverCrashed, PTL DEF Spec, QueueProofs!Spec

(* The slots behave as WsClients says, when the events it counts are those *)
(* linked to the queue and taken off it.                                   *)
THEOREM ImplementsWeb == Spec => WebProofs!Spec
<1>1. Init => WebProofs!Init
  BY DEF Init, Web!Init, Web!Slot, Web!EmptySlot, WebProofs!Init, WebProofs!Slot,
         WebProofs!EmptySlot
<1>2. [Next]_vars /\ Alive => [WebProofs!Next]_(WebProofs!vars)
  BY StepsOfBoth
<1> QED
  BY <1>1, <1>2, NeverCrashed, PTL DEF Spec, WebProofs!Spec

-----------------------------------------------------------------------------
(* The order                                                                *)

(* Event a comes before event b, unless another session raised it. *)
Before(a, b) == a.session = b.session => a.seq < b.seq

(* What was taken off the queue, and what waits in it, is in the order of  *)
(* its session, and no session is about to append an older event.          *)
Log ==
  /\ events \in Seq(QueueProofs!Event)
  /\ Len(events) = taken
  /\ \A i \in 1..Len(events) : QueueProofs!Past(events[i])
  /\ \A i, j \in 1..Len(events) : i < j => Before(events[i], events[j])
  /\ \A i \in 1..Len(events), k \in 1..Len(fifo) : Before(events[i], heap[fifo[k]].message)

(* What is proved of the queue and of the slots. *)
Parts ==
  /\ Alive /\ QueueProofs!Structure /\ QueueProofs!Messages
  /\ WebProofs!Staying /\ WebProofs!TextsRise

(* The two parts keep their invariants in the whole. *)
LEMMA PartsHold == WebProofs!Stays /\ Spec => []Parts
<1>1. WebProofs!Stays /\ Spec => [](QueueProofs!Structure)
  BY QueueAssumed, ImplementsQueue, QueueProofs!StructureInvariant, PTL
<1>2. WebProofs!Stays /\ Spec => [](QueueProofs!Messages)
  BY QueueAssumed, ImplementsQueue, QueueProofs!MessagesInvariant, PTL
<1>3. WebProofs!Stays /\ Spec => [](WebProofs!Staying)
  BY WebAssumed, ImplementsWeb, WebProofs!StayingHolds, PTL
<1>4. WebProofs!Stays /\ Spec => [](WebProofs!TextsRise)
  BY WebAssumed, ImplementsWeb, WebProofs!TextsRiseHolds, PTL
<1> QED
  BY <1>1, <1>2, <1>3, <1>4, NeverCrashed, PTL DEF Parts

(* The events stay in the past, and a step that takes none and links none  *)
(* leaves their order.                                                     *)
LEMMA LogStays ==
  ASSUME Parts, Log, [Next]_vars, UNCHANGED <<events, taken, fifo>>,
         \A k \in 1..Len(fifo) : heap'[fifo[k]].message = heap[fifo[k]].message
  PROVE  Log'
<1>1. \A e \in QueueProofs!Event : QueueProofs!Past(e) => QueueProofs!Past(e)'
  BY QueueAssumed, StepsOfBoth, QueueProofs!PastStays DEF Parts
<1>2. \A i \in 1..Len(events) : events[i] \in QueueProofs!Event
  BY DEF Log
<1>3. \A i \in 1..Len(events) : QueueProofs!Past(events[i])'
  BY <1>1, <1>2 DEF Log
<1>4. \A i \in 1..Len(events'), k \in 1..Len(fifo') : Before(events'[i], heap'[fifo'[k]].message)
  BY DEF Log
<1> QED
  BY <1>3, <1>4 DEF Log

(* AppendMessage adds the event of its session behind those that wait: it  *)
(* is newer than all that were taken.                                      *)
LEMMA LinkKeepsLog ==
  ASSUME Parts, Log, [Next]_vars, NEW s \in Session, Link(s)
  PROVE  Log'
<1>1. QueueProofs!AppendMessage(s) /\ UNCHANGED <<events, taken>>
  BY SessionSteps DEF Link, Web!Raise
<1>2. PICK n \in Node \ DOMAIN heap :
        /\ Len(fifo') = Len(fifo) + 1
        /\ \A k \in 1..Len(fifo) : fifo'[k] = fifo[k]
        /\ fifo'[Len(fifo) + 1] = n
        /\ Len(fifo) \in Nat
        /\ QueueProofs!Current(s) \in QueueProofs!Event
        /\ \A x \in DOMAIN heap : heap'[x].message = heap[x].message
        /\ heap'[n] = [message |-> QueueProofs!Current(s), next |-> NULL]
  BY <1>1, QueueAssumed, QueueProofs!AppendedMessage DEF Parts
<1>3. session[s] # "idle"
  BY <1>1 DEF QueueProofs!AppendMessage
<1>4. \A k \in 1..Len(fifo) : fifo[k] \in DOMAIN heap
  BY QueueAssumed, QueueProofs!LiveFacts DEF Parts
<1>5. /\ \A e \in QueueProofs!Event : QueueProofs!Past(e) => QueueProofs!Past(e)'
      /\ \A i \in 1..Len(events) : events[i] \in QueueProofs!Event
  BY QueueAssumed, StepsOfBoth, QueueProofs!PastStays DEF Parts, Log
<1>6. ASSUME NEW i \in 1..Len(events), NEW k \in 1..Len(fifo')
      PROVE  Before(events[i], heap'[fifo'[k]].message)
  <2>1. CASE k \in 1..Len(fifo)
    BY <1>2, <1>4, <2>1 DEF Log
  <2>2. CASE k = Len(fifo) + 1
    <3>1. heap'[fifo'[k]].message = QueueProofs!Current(s)
      BY <1>2, <2>2
    <3>2. QueueProofs!Past(events[i])
      BY DEF Log
    <3> QED
      BY <1>3, <3>1, <3>2 DEF QueueProofs!Past, QueueProofs!Current, Before
  <2> QED
    BY <1>2, <2>1, <2>2
<1>7. \A i \in 1..Len(events) : QueueProofs!Past(events[i])'
  BY <1>1, <1>5 DEF Log
<1> QED
  BY <1>1, <1>6, <1>7 DEF Log

(* MtTake moves the oldest event that waits behind those that were taken. *)
LEMMA TakeKeepsLog ==
  ASSUME Parts, Log, [Next]_vars, Take
  PROVE  Log'
<1> DEFINE e == heap[message_queue].message
<1>1. /\ QueueProofs!MtTake /\ message_queue # NULL /\ fifo' = Tail(fifo)
      /\ heap' = [heap EXCEPT ![message_queue].next = NULL]
      /\ taken' = taken + 1 /\ events' = Append(events, e)
  BY MessageSteps DEF Take, QueueProofs!MtTake, Web!MtTake
<1>2. /\ fifo # <<>> /\ message_queue = fifo[1] /\ fifo \in Seq(Node)
      /\ Len(fifo) \in Nat \ {0}
      /\ Len(fifo') = Len(fifo) - 1
      /\ \A k \in 1..Len(fifo') : k + 1 \in 1..Len(fifo) /\ fifo'[k] = fifo[k + 1]
  BY <1>1, QueueAssumed, QueueProofs!HeadFacts, HeadTailProperties
     DEF Parts, QueueProofs!Structure, QueueProofs!TypeOK
<1>3. \A k \in 1..Len(fifo) :
        /\ fifo[k] \in QueueProofs!Live
        /\ fifo[k] \in DOMAIN heap
        /\ heap[fifo[k]] \in QueueProofs!Message
        /\ heap[fifo[k]].message \in QueueProofs!Event
  BY QueueAssumed, QueueProofs!LiveFacts DEF Parts
<1>4. 1 \in 1..Len(fifo) /\ e = heap[fifo[1]].message
  BY <1>2
<1> HIDE DEF e
<1>5. e \in QueueProofs!Event /\ QueueProofs!Past(e)
  BY <1>3, <1>4 DEF Parts, QueueProofs!Messages, QueueProofs!Fresh
<1>6. /\ events' \in Seq(QueueProofs!Event)
      /\ Len(events') = Len(events) + 1 /\ Len(events) \in Nat
      /\ \A i \in 1..Len(events) : events'[i] = events[i]
      /\ events'[Len(events) + 1] = e
  BY <1>1, <1>5, AppendProperties DEF Log
<1>7. \A k \in 1..Len(fifo') : heap'[fifo'[k]].message = heap[fifo[k + 1]].message
  <2>1. ASSUME NEW n \in DOMAIN heap, heap[n] \in QueueProofs!Message
        PROVE  heap'[n].message = heap[n].message
    BY <1>1, <2>1 DEF QueueProofs!Message
  <2> QED
    BY <1>2, <1>3, <2>1
<1>8. \A k \in 1..Len(fifo') : Before(e, heap'[fifo'[k]].message)
  <2>1. ASSUME NEW k \in 1..Len(fifo')
        PROVE  QueueProofs!Earlier(fifo[1], fifo[k + 1])
    <3>1. k + 1 \in 1..Len(fifo) /\ 1 < k + 1
      BY <1>2
    <3> QED
      BY <1>4, <3>1 DEF Parts, QueueProofs!Messages, QueueProofs!Ordered
  <2> QED
    BY <1>4, <1>7, <2>1 DEF QueueProofs!Earlier, Before
<1>9. \A i \in 1..Len(events') : i \in 1..Len(events) \/ i = Len(events) + 1
  BY <1>6
<1>10. \A i \in 1..Len(events') : QueueProofs!Past(events'[i])
  BY <1>5, <1>6, <1>9 DEF Log
<1>11. \A i \in 1..Len(events') : QueueProofs!Past(events[i])'
  <2>1. UNCHANGED <<session, notified>>
    BY <1>1 DEF QueueProofs!MtTake, QueueProofs!sessionVars
  <2> QED
    BY <1>10, <2>1 DEF QueueProofs!Past
<1>12. \A i, j \in 1..Len(events') : i < j => Before(events'[i], events'[j])
  <2>1. ASSUME NEW i \in 1..Len(events'), NEW j \in 1..Len(events'), i < j
        PROVE  Before(events'[i], events'[j])
    <3>1. i \in 1..Len(events)
      BY <1>6, <2>1
    <3>2. CASE j \in 1..Len(events)
      BY <1>6, <2>1, <3>1, <3>2 DEF Log
    <3>3. CASE j = Len(events) + 1
      BY <1>4, <1>6, <3>1, <3>3 DEF Log
    <3> QED
      BY <1>9, <3>2, <3>3
  <2> QED
    BY <2>1
<1>13. \A i \in 1..Len(events'), k \in 1..Len(fifo') :
         Before(events'[i], heap'[fifo'[k]].message)
  <2>1. ASSUME NEW i \in 1..Len(events), NEW k \in 1..Len(fifo')
        PROVE  Before(events'[i], heap'[fifo'[k]].message)
    BY <1>2, <1>6, <1>7 DEF Log
  <2> QED
    BY <1>6, <1>8, <1>9, <2>1
<1>14. Len(events') = taken'
  BY <1>1, <1>6 DEF Log
<1> QED
  BY <1>6, <1>11, <1>12, <1>13, <1>14 DEF Log

(* No step puts an event before an older one of its session. *)
LEMMA LogStep == Parts /\ Log /\ [Next]_vars => Log'
<1> SUFFICES ASSUME Parts, Log, [Next]_vars
             PROVE  Log'
  OBVIOUS
<1>1. UNCHANGED <<queueVars, taken, events>> => Log'
  BY LogStays DEF queueVars
<1>2. UNCHANGED <<fifo, heap, webVars, events>> => Log'
  BY LogStays DEF webVars
<1>3. ASSUME NEW s \in Session, Notify(s) \/ SendEvent(s)
      PROVE  Log'
  <2>1. CASE Link(s)
    BY <2>1, LinkKeepsLog
  <2>2. CASE ~Link(s)
    BY <1>2, <1>3, <2>2 DEF Notify, SendEvent, Queue!Notify, Queue!CheckLimit,
       Queue!BuildJson, Queue!BuildJsonFails, Queue!AppendFails, Queue!heapVars,
       Queue!historyVars
  <2> QED
    BY <2>1, <2>2
<1>4. CASE Take
  BY <1>4, TakeKeepsLog
<1>5. CASE Broadcast
  <2>1. taken' = taken
    BY <1>5 DEF Broadcast, Web!MtSkip, Web!MtCheck, Web!MtLock, Web!MtRead, Web!MtSend,
       Web!MtUnlock, Web!MtDestroy, Web!MtClose, Web!MtClear
  <2> QED
    BY <1>1, <1>5, <2>1 DEF Broadcast
<1>6. CASE Release
  <2>1. QueueProofs!MtRelease /\ UNCHANGED <<fifo, webVars, events>>
    BY <1>6, MessageSteps DEF Release, QueueProofs!MtRelease, QueueProofs!historyVars
  <2>2. \A k \in 1..Len(fifo) : fifo[k] \in DOMAIN heap \ {mt_message}
    BY QueueAssumed, QueueProofs!LiveFacts DEF Parts
  <2>3. \A k \in 1..Len(fifo) : heap'[fifo[k]].message = heap[fifo[k]].message
    BY <2>1, <2>2 DEF QueueProofs!MtRelease, QueueProofs!Free, QueueProofs!Restrict
  <2> QED
    BY <2>1, <2>3, LogStays DEF webVars
<1>7. CASE Look
  BY <1>2, <1>7 DEF Look, Queue!MtLoop, Queue!MtPeek, Queue!heapVars, Queue!historyVars
<1>8. CASE ServerThread \/ ServerEnds
  <2>1. taken' = taken
    BY <1>8 DEF ServerThread, ServerEnds, Web!ServerThread, Web!PollFails, Web!Poll,
       Web!NoneToAccept, Web!Accept,
       Web!AcceptFails, Web!ScanEnds, Web!ScanHangup, Web!ScanInput, Web!Drop, Web!Lookup,
       Web!RecvFrame, Web!RecvEof, Web!RecvFails, Web!WsDestroy, Web!WsClose, Web!WsClear,
       Web!Handshake, Web!HandshakeFails, Web!InitMutex, Web!InitConnected, Web!InitSocket,
       Web!InitFails, Web!LimitReached, Web!mtVars
  <2> QED
    BY <1>1, <1>8, <2>1 DEF ServerThread, ServerEnds
<1>9. ASSUME NEW c \in Conn, Browser(c)
      PROVE  Log'
  <2>1. taken' = taken
    BY <1>9 DEF Browser, Web!Browser, Web!PeerConnects, Web!PeerCloses, Web!PeerFinishes,
       Web!PeerResets, Web!mtVars
  <2> QED
    BY <1>1, <1>9, <2>1 DEF Browser
<1>10. CASE UNCHANGED vars
  BY <1>1, <1>10 DEF vars, webVars
<1> QED
  BY <1>3, <1>4, <1>5, <1>6, <1>7, <1>8, <1>9, <1>10 DEF Next, MessageThread

(* A browser sees the events of each session in the order they were        *)
(* raised, and none twice, for every number of sessions, browsers, slots   *)
(* and nodes: the list keeps the order, the message thread sends one       *)
(* event after the other, and a slot is passed once by each.               *)
THEOREM SeenInOrderHolds == WebProofs!Stays /\ Spec => []SeenInOrder
<1>1. Init => Log
  BY DEF Init, Web!Init, Log
<1>2. WebProofs!Stays /\ Spec => []Log
  BY <1>1, LogStep, PartsHold, PTL DEF Spec
<1>3. Parts /\ Log => SeenInOrder
  <2> SUFFICES ASSUME Parts, Log, NEW c \in Conn, NEW i \in SeenAt(c), NEW j \in SeenAt(c),
                      i < j, Seen(c, i).session = Seen(c, j).session
               PROVE  Seen(c, i).seq < Seen(c, j).seq
    BY DEF SeenInOrder
  <2>1. got[c] \in Seq(Int)
    BY DEF Parts, WebProofs!Staying, WebProofs!StayTypes
  <2>2. /\ i \in 1..Len(got[c]) /\ j \in 1..Len(got[c])
        /\ got[c][i] \in 1..Len(events) /\ got[c][j] \in 1..Len(events)
    BY <2>1 DEF SeenAt, Log
  <2>3. got[c][i] > 0 /\ got[c][j] > 0
    BY <2>2 DEF Log
  <2>4. got[c][i] < got[c][j]
    BY <2>2, <2>3 DEF Parts, WebProofs!TextsRise
  <2>5. Before(events[got[c][i]], events[got[c][j]])
    BY <2>2, <2>4 DEF Log
  <2> QED
    BY <2>5 DEF Before, Seen
<1> QED
  BY <1>2, <1>3, PartsHold, PTL

=============================================================================
