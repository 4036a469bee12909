---------------------------- MODULE WsClientsProofs ----------------------------
(***************************************************************************)
(* TLAPS proofs about WsClients: no descriptor is in two slots, and, as    *)
(* long as browsers stay, what reaches a browser, who has a slot and which *)
(* connections are forgotten, for any numbers of connections, descriptors, *)
(* slots, polled places and events.                                        *)
(***************************************************************************)
EXTENDS WsClients, FiniteSetsExt, SequencesExt, TLAPS,
        WellFoundedInduction, SequenceTheorems, FiniteSetTheorems

-----------------------------------------------------------------------------
(* Facts about operators of the community modules                          *)

(* A set of naturals that is not empty has a least element, and Min is it. *)
LEMMA MinIsLeast ==
  ASSUME NEW S \in SUBSET Nat, S # {}
  PROVE  Min(S) \in S /\ \A x \in S : Min(S) <= x
<1> DEFINE R == OpToRel(<, Nat)
<1>1. \E x \in S : \A y \in S : ~(<<y, x>> \in R)
  <2> HIDE DEF R
  <2>1. IsWellFoundedOn(R, Nat)
    BY NatLessThanWellFounded DEF R
  <2> QED
    BY <2>1, WFMin
<1>2. \A x, y \in Nat : y < x => <<y, x>> \in R
  BY DEF OpToRel
<1>3. \E x \in S : \A y \in S : x <= y
  <2> HIDE DEF R
  <2>1. PICK x \in S : \A y \in S : ~(<<y, x>> \in R)
    BY <1>1
  <2>2. ASSUME NEW y \in S
        PROVE  x <= y
    <3>1. x \in Nat /\ y \in Nat /\ ~(y < x)
      BY <1>2, <2>1
    <3> QED
      BY <3>1
  <2> QED
    BY <2>2
<1> QED
  BY <1>3 DEF Min

(* A sequence of one element, and another one appended. *)
LEMMA AppendToOne ==
  ASSUME NEW x \in Int, NEW y \in Int
  PROVE  Append(<<x>>, y) = <<x, y>>
<1> DEFINE s == Append(<<x>>, y)
           t == <<x, y>>
<1>1. <<x>> \in Seq(Int) /\ Len(<<x>>) = 1
  OBVIOUS
<1>2. s \in Seq(Int) /\ Len(s) = 2 /\ s[1] = x /\ s[2] = y
  BY <1>1
<1>3. t \in Seq(Int) /\ Len(t) = 2 /\ t[1] = x /\ t[2] = y
  OBVIOUS
<1> HIDE DEF s, t
<1>4. \A i \in 1..Len(s) : s[i] = t[i]
  BY <1>2, <1>3
<1>5. s = t
  BY <1>2, <1>3, <1>4, SeqEqual
<1> QED
  BY <1>5 DEF s, t

-----------------------------------------------------------------------------
(* The slots and their descriptors                                          *)

(* struct ws_client *)
Client ==
  [connected : BOOLEAN, socket : Fd \cup {NULL}, mutex : {"none", "free", "held"}]

(* The types of what the two threads share, and of the handler's place. *)
SlotTypes ==
  /\ clients \in [Slot -> Client]
  /\ pollfds \in [1..MaxActive -> Fd \cup {NULL}]
  /\ wsI \in 1..MaxActive
  /\ mtI \in Slot
  /\ wsClient \in Slot \cup {NULL}
  /\ ws \in {"recv", "destroy", "close", "clear", "connected", "socket"} => wsClient \in Slot

(* A handler that goes through a handshake found no slot of its            *)
(* descriptor, and none gets it but the one it chose.                      *)
Registration ==
  /\ ws \in {"handshake", "init", "connected"} => SlotsOf(Sock) = {}
  /\ ws = "connected" => ~clients[wsClient].connected
  /\ ws = "socket" => SlotsOf(Sock) \subseteq {wsClient}

Descriptors == SlotTypes /\ Registration /\ UniqueSocket

(* Every slot is empty at first. *)
LEMMA DescriptorsInit == Init => Descriptors
BY SizeAssumption
   DEF Init, Descriptors, SlotTypes, Registration, UniqueSocket, EmptySlot, Slot, Client

(* A step that connects no slot and changes no descriptor of a connected   *)
(* one keeps the slots apart.                                              *)
LEMMA SlotsStay ==
  ASSUME Descriptors, SlotTypes',
         \A k \in Slot : clients'[k].connected =>
           clients[k].connected /\ clients'[k].socket = clients[k].socket,
         ws' = "socket" => ws = "socket" /\ wsClient' = wsClient,
         ws = "socket" => ws' = "socket",
         ws' = "connected" => ws = "connected" /\ wsClient' = wsClient,
         ws' \in {"handshake", "init"} => ws \in {"handshake", "init"},
         ws \in {"handshake", "init", "connected", "socket"} => Sock' = Sock
  PROVE  Descriptors'
<1>1. \A f : SlotsOf(f)' \subseteq SlotsOf(f)
  BY DEF SlotsOf
<1>2. Registration'
  <2>1. \A k \in Slot : ~clients[k].connected => ~clients'[k].connected
    OBVIOUS
  <2>2. ws' = "connected" => wsClient \in Slot
    BY DEF Descriptors, SlotTypes
  <2> QED
    BY <1>1, <2>1, <2>2 DEF Descriptors, Registration, SlotsOf, Sock
<1>3. UniqueSocket'
  BY DEF Descriptors, UniqueSocket
<1> QED
  BY <1>2, <1>3 DEF Descriptors

(* The choices of a place or a slot choose one that is there. *)
LEMMA ChosenPlaces ==
  /\ Reported # {} => Min(Reported) \in Reported
  /\ FreePlaces # {} => Min(FreePlaces) \in FreePlaces
  /\ Known # {} => Min(Known) \in Known
  /\ FreeSlots # {} => Min(FreeSlots) \in FreeSlots
<1>1. /\ Reported \in SUBSET Nat /\ FreePlaces \in SUBSET Nat
      /\ Known \in SUBSET Nat /\ FreeSlots \in SUBSET Nat
  BY SizeAssumption DEF Reported, FreePlaces, Known, SlotsOf, FreeSlots, Slot
<1> QED
  BY <1>1, MinIsLeast

(* NextSlot stays among the slots. *)
LEMMA NextSlotType == mtI \in Slot /\ NextSlot => mtI' \in Slot
BY SizeAssumption DEF NextSlot, Slot

(* Every step keeps the types. *)
LEMMA SlotTypesStep == SlotTypes /\ [Next]_vars => SlotTypes'
<1> SUFFICES ASSUME SlotTypes, [Next]_vars
             PROVE  SlotTypes'
  OBVIOUS
<1> USE DEF kernelVars, wsVars, mtVars, historyVars, wsLocals, Client
<1>1. ASSUME UNCHANGED <<clients, pollfds, wsI, mtI, wsClient>>,
             ws' \in {"recv", "destroy", "close", "clear", "connected", "socket"} =>
               ws \in {"recv", "destroy", "close", "clear", "connected", "socket"}
      PROVE  SlotTypes'
  BY <1>1 DEF SlotTypes
<1>2. ASSUME UNCHANGED <<ws, pollfds, wsI, wsClient>>, mtI' \in Slot,
             \A k \in Slot \ {mtI} : clients'[k] = clients[k],
             clients' \in [Slot -> Client]
      PROVE  SlotTypes'
  BY <1>2 DEF SlotTypes
<1>3. EmptySlot \in Client
  BY DEF EmptySlot
<1>4. CASE \/ \E c \in Conn : Browser(c)
           \/ Raise \/ PollTimeout \/ MtSleep \/ Unloaded \/ UNCHANGED vars
           \/ Poll \/ NoneToAccept \/ AcceptFails \/ ScanEnds
           \/ RecvFrame \/ RecvEof \/ RecvFails \/ WsClose
           \/ Handshake \/ HandshakeFails \/ LimitReached
           \/ PollFails \/ ServeReturns \/ MtReturns
  BY <1>1, <1>4
     DEF Browser, PeerConnects, PeerCloses, PeerFinishes, PeerResets, Raise, PollTimeout,
         MtSleep, Unloaded, vars, Poll, NoneToAccept, AcceptFails, ScanEnds, RecvFrame, RecvEof,
         RecvFails, WsClose, Handshake, HandshakeFails, LimitReached, Refused,
         PollFails, ServeReturns, MtReturns
<1>5. CASE Accept
  <2>1. FreePlaces # {} => Min(FreePlaces) \in 1..MaxActive
    BY ChosenPlaces DEF FreePlaces
  <2> QED
    BY <1>5, <2>1 DEF Accept, SlotTypes
<1>6. CASE ScanHangup \/ Drop
  BY <1>6 DEF ScanHangup, Drop, SlotTypes
<1>7. CASE ScanInput
  <2>1. Min(Reported) \in 1..MaxActive
    BY <1>7, ChosenPlaces DEF ScanInput, Reported
  <2> QED
    BY <1>7, <2>1 DEF ScanInput, SlotTypes
<1>8. CASE Lookup
  <2>1. Known # {} => Min(Known) \in Slot
    BY ChosenPlaces DEF Known, SlotsOf
  <2> QED
    BY <1>8, <2>1 DEF Lookup, NewClient, SlotTypes
<1>9. CASE WsDestroy \/ WsClear \/ InitConnected \/ InitSocket
  <2>1. pollfds[wsI] \in Fd \cup {NULL} /\ wsClient \in Slot
    BY <1>9 DEF WsDestroy, WsClear, InitConnected, InitSocket, SlotTypes
  <2>2. clients' \in [Slot -> Client]
    <3>1. CASE WsDestroy
      BY <2>1, <3>1 DEF WsDestroy, SlotTypes
    <3>2. CASE WsClear
      BY <1>3, <2>1, <3>2 DEF WsClear, SlotTypes
    <3>3. CASE InitConnected
      BY <2>1, <3>3 DEF InitConnected, SlotTypes
    <3>4. CASE InitSocket
      BY <2>1, <3>4 DEF InitSocket, SlotTypes, Sock
    <3> QED
      BY <1>9, <3>1, <3>2, <3>3, <3>4
  <2>3. UNCHANGED <<pollfds, wsI, mtI, wsClient>>
    BY <1>9 DEF WsDestroy, WsClear, InitConnected, InitSocket
  <2> QED
    BY <2>1, <2>2, <2>3 DEF SlotTypes
<1>10. CASE InitMutex \/ InitFails
  <2>1. Min(FreeSlots) \in Slot
    BY <1>10, ChosenPlaces DEF InitMutex, InitFails, FreeSlots
  <2> QED
    BY <1>10, <2>1 DEF InitMutex, InitFails, SlotTypes
<1>11. CASE MtTake \/ MtSkip \/ MtCheck \/ MtRead \/ MtSend \/ MtClose
  <2>1. mtI' \in Slot
    BY <1>11, NextSlotType, SizeAssumption
       DEF MtTake, MtSkip, MtCheck, MtRead, MtSend, MtClose, SlotTypes, Slot
  <2> QED
    BY <1>11, <2>1 DEF MtTake, MtSkip, MtCheck, MtRead, MtSend, MtClose, SlotTypes
<1>12. CASE MtLock \/ MtUnlock \/ MtDestroy \/ MtClear
  <2>1. mtI' \in Slot
    BY <1>12, NextSlotType DEF MtLock, MtUnlock, MtDestroy, MtClear, SlotTypes
  <2>2. UNCHANGED <<ws, pollfds, wsI, wsClient>>
    BY <1>12 DEF MtLock, MtUnlock, MtDestroy, MtClear
  <2>3. clients' \in [Slot -> Client]
    BY <1>3, <1>12 DEF MtLock, MtUnlock, MtDestroy, MtClear, SlotTypes
  <2> QED
    BY <2>1, <2>2, <2>3 DEF SlotTypes
<1>13. CASE FreeClients
  <2>1. clients' \in [Slot -> Client]
    BY <1>3, <1>13 DEF FreeClients, SlotTypes
  <2> QED
    BY <1>13, <2>1 DEF FreeClients, SlotTypes
<1> QED
  BY <1>4, <1>5, <1>6, <1>7, <1>8, <1>9, <1>10, <1>11, <1>12, <1>13
     DEF Next, ServerThread, MessageThread

(* Every step keeps the slots apart: only init_ws_client connects a slot   *)
(* or stores a descriptor, and only one no other slot has.                 *)
LEMMA DescriptorsStep == Descriptors /\ [Next]_vars => Descriptors'
<1> SUFFICES ASSUME Descriptors, [Next]_vars
             PROVE  Descriptors'
  OBVIOUS
<1> USE DEF kernelVars, wsVars, mtVars, historyVars, wsLocals, Client
<1>0. SlotTypes /\ SlotTypes'
  BY SlotTypesStep DEF Descriptors
<1>1. ASSUME UNCHANGED <<clients, pollfds, wsI, wsClient, ws>>
      PROVE  Descriptors'
  BY <1>0, <1>1, SlotsStay DEF Sock
<1>2. CASE \/ \E c \in Conn : Browser(c)
           \/ Raise \/ PollTimeout \/ MtSleep \/ Unloaded \/ UNCHANGED vars
           \/ MtTake \/ MtSkip \/ MtCheck \/ MtRead \/ MtSend \/ MtClose \/ MtReturns
  BY <1>1, <1>2
     DEF Browser, PeerConnects, PeerCloses, PeerFinishes, PeerResets, Raise, PollTimeout,
         MtSleep, Unloaded, vars, MtTake, MtSkip, MtCheck, MtRead, MtSend, MtClose, MtReturns
<1>3. ASSUME UNCHANGED clients,
             ws \notin {"handshake", "init", "connected", "socket"},
             ws' \notin {"handshake", "init", "connected", "socket"}
      PROVE  Descriptors'
  BY <1>0, <1>3, SlotsStay
<1>4. CASE \/ Poll \/ NoneToAccept \/ Accept \/ AcceptFails \/ ScanEnds \/ ScanHangup \/ ScanInput
           \/ Drop \/ RecvFrame \/ RecvEof \/ RecvFails \/ WsClose \/ PollFails \/ ServeReturns
  BY <1>3, <1>4
     DEF Poll, NoneToAccept, Accept, AcceptFails, ScanEnds, ScanHangup, ScanInput, Drop,
         RecvFrame, RecvEof, RecvFails, WsClose, PollFails, ServeReturns
<1>5. CASE Handshake \/ HandshakeFails \/ InitFails \/ LimitReached
  <2>1. /\ UNCHANGED <<clients, pollfds, wsI>>
        /\ ws \in {"handshake", "init"} /\ ws' \in {"init", "drop"}
    BY <1>5 DEF Handshake, HandshakeFails, InitFails, LimitReached, Refused
  <2> QED
    BY <1>0, <2>1, SlotsStay DEF Sock
<1>6. CASE Lookup
  <2>1. UNCHANGED <<clients, pollfds, wsI>> /\ ws = "lookup"
    BY <1>6 DEF Lookup
  <2>2. \/ ws' = "recv"
        \/ ws' = "handshake" /\ SlotsOf(Sock) = {}
    BY <1>6 DEF Lookup, NewClient, Known
  <2>3. Registration'
    BY <2>1, <2>2 DEF Registration, SlotsOf, Sock
  <2>4. UniqueSocket'
    BY <2>1 DEF Descriptors, UniqueSocket
  <2> QED
    BY <1>0, <2>3, <2>4 DEF Descriptors
<1>7. CASE InitMutex
  <2>1. Min(FreeSlots) \in FreeSlots
    BY <1>7, ChosenPlaces DEF InitMutex
  <2>2. /\ \A k \in Slot : /\ clients'[k].connected = clients[k].connected
                          /\ clients'[k].socket = clients[k].socket
        /\ UNCHANGED <<pollfds, wsI>>
        /\ ws = "init" /\ ws' = "connected" /\ wsClient' = Min(FreeSlots)
    BY <1>0, <1>7, <2>1 DEF InitMutex, SlotTypes
  <2>3. Registration'
    BY <2>1, <2>2 DEF Descriptors, Registration, SlotsOf, Sock, FreeSlots
  <2>4. UniqueSocket'
    BY <2>2 DEF Descriptors, UniqueSocket
  <2> QED
    BY <1>0, <2>3, <2>4 DEF Descriptors
<1>8. CASE InitConnected
  <2>1. /\ \A k \in Slot : /\ clients'[k].connected = (clients[k].connected \/ k = wsClient)
                          /\ clients'[k].socket = clients[k].socket
        /\ UNCHANGED <<pollfds, wsI, wsClient>>
        /\ ws = "connected" /\ ws' = "socket" /\ wsClient \in Slot
    BY <1>0, <1>8 DEF InitConnected, SlotTypes
  <2>2. Registration'
    BY <2>1 DEF Descriptors, Registration, SlotsOf, Sock
  <2>3. UniqueSocket'
    BY <2>1 DEF Descriptors, UniqueSocket
  <2> QED
    BY <1>0, <2>2, <2>3 DEF Descriptors
<1>9. CASE InitSocket
  <2>1. /\ \A k \in Slot : /\ clients'[k].connected = clients[k].connected
                          /\ clients'[k].socket = IF k = wsClient THEN Sock ELSE clients[k].socket
        /\ ws = "socket" /\ ws' = "scan" /\ wsClient \in Slot
    BY <1>0, <1>9 DEF InitSocket, SlotTypes
  <2>2. Registration'
    BY <2>1 DEF Registration
  <2>3. \A k \in Slot : k # wsClient /\ clients[k].connected => clients[k].socket # Sock
    BY <2>1 DEF Descriptors, Registration, SlotsOf
  <2>4. UniqueSocket'
    BY <2>1, <2>3 DEF Descriptors, UniqueSocket
  <2> QED
    BY <1>0, <2>2, <2>4 DEF Descriptors
<1>10. CASE WsDestroy \/ WsClear
  <2>1. /\ \A k \in Slot : clients'[k].connected =>
             clients[k].connected /\ clients'[k].socket = clients[k].socket
        /\ ws \in {"destroy", "clear"} /\ ws' \in {"drop", "close"}
    BY <1>0, <1>10 DEF WsDestroy, WsClear, SlotTypes, EmptySlot
  <2> QED
    BY <1>0, <2>1, SlotsStay
<1>11. CASE MtLock \/ MtUnlock \/ MtDestroy \/ MtClear
  <2>1. /\ \A k \in Slot : clients'[k].connected =>
             clients[k].connected /\ clients'[k].socket = clients[k].socket
        /\ UNCHANGED <<ws, wsClient, pollfds, wsI>>
    BY <1>0, <1>11 DEF MtLock, MtUnlock, MtDestroy, MtClear, SlotTypes, EmptySlot
  <2> QED
    BY <1>0, <2>1, SlotsStay DEF Sock
<1>12. CASE FreeClients
  <2>1. /\ \A k \in Slot : clients'[k].connected =>
             clients[k].connected /\ clients'[k].socket = clients[k].socket
        /\ ws = "ended" /\ ws' = "unloaded"
    BY <1>0, <1>12 DEF FreeClients, SlotTypes, EmptySlot
  <2> QED
    BY <1>0, <2>1, SlotsStay
<1> QED
  BY <1>2, <1>4, <1>5, <1>6, <1>7, <1>8, <1>9, <1>10, <1>11, <1>12
     DEF Next, ServerThread, MessageThread

(* No two connected slots have the same descriptor, whatever browsers do,  *)
(* however the two threads interleave and whatever fails: so nobody is     *)
(* sent an event through two slots, but for the moment in which            *)
(* init_ws_client has connected a slot and not stored its descriptor.      *)
THEOREM UniqueSocketHolds == Spec => []UniqueSocket
<1>1. Descriptors => UniqueSocket
  BY DEF Descriptors
<1> QED
  BY <1>1, DescriptorsInit, DescriptorsStep, PTL DEF Spec

-----------------------------------------------------------------------------
(* As long as browsers stay                                                 *)

(* Browsers stay, memory lasts, and a mutex that is held is not destroyed. *)
Stays == Leave = {} /\ ~AllocMayFail /\ DestroyHeld = "busy"

(* Handlers that have a descriptor at hand. *)
Handling == {"lookup", "handshake", "init", "connected", "socket", "drop"}

StayTypes ==
  /\ fds \in [Fd -> Conn \cup {NULL}]
  /\ peer \in [Conn -> {"new", "calling", "open", "closed"}]
  /\ wire \in [Conn -> {<<>>, <<"GET">>}]
  /\ got \in [Conn -> Seq(Int)]
  /\ revents \in [1..MaxActive -> {{}, {"IN"}}]
  /\ raised \in Nat /\ taken \in Nat /\ joined \in [Conn -> Nat]
  /\ ws \in {"poll", "accept", "scan", "ended", "unloaded"} \cup Handling
  /\ mt \in {"idle", "check", "lock", "read", "send", "unlock", "destroy", "ended"}
  /\ ~clients_locked

(* A descriptor is open on one connection, which is open, and the other    *)
(* way round; a browser's request waits until it is answered.              *)
Connections ==
  /\ \A f \in Fd : fds[f] # NULL => peer[fds[f]] = "open"
  /\ \A f, g \in Fd : fds[f] = fds[g] /\ fds[f] # NULL => f = g
  /\ \A c \in Conn : peer[c] = "new" => wire[c] = <<>>
  /\ \A c \in Conn : peer[c] \in {"new", "calling"} => got[c] = <<>>
  /\ \A c \in Conn : peer[c] \in {"calling", "open"} => (wire[c] = <<>> <=> got[c] # <<>>)

(* Polled descriptors are open and polled once; what poll reported of them *)
(* is a request not read yet.                                              *)
Polled ==
  /\ \A i \in 1..MaxActive : pollfds[i] # NULL /\ ws # "unloaded" => Open(pollfds[i])
  /\ \A i, j \in 1..MaxActive : pollfds[i] = pollfds[j] /\ pollfds[i] # NULL => i = j
  /\ \A i \in 1..MaxActive : revents[i] # {} /\ ws # "unloaded" =>
       pollfds[i] # NULL /\ wire[fds[pollfds[i]]] # <<>>

(* The handler's connection is unanswered, then answered and without slot. *)
AtHand ==
  ws \in Handling =>
    /\ Sock # NULL
    /\ revents[wsI] = {}
    /\ got[fds[Sock]] = CASE ws \in {"lookup", "handshake"} -> <<>>
                          [] ws \in {"init", "connected", "socket"} -> <<Accepted>>
                          [] OTHER -> <<Accepted, CloseFrame>>
    /\ ws = "drop" => SlotsOf(Sock) = {}
    /\ ws = "connected" => clients[wsClient].mutex # "none"
    /\ ws = "socket" => clients[wsClient].connected

(* A connected slot has the descriptor of an answered connection, but for  *)
(* the one about to get it; the others have none.                          *)
SlotsFilled ==
  ws # "unloaded" => \A k \in Slot :
    /\ clients[k].connected =>
         /\ clients[k].mutex # "none"
         /\ clients[k].socket = NULL <=> (ws = "socket" /\ wsClient = k)
         /\ clients[k].socket # NULL =>
              Open(clients[k].socket) /\ got[fds[clients[k].socket]] # <<>>
    /\ ~clients[k].connected => clients[k].socket = NULL

(* The message thread holds the mutex of the slot it sends on, and has its *)
(* descriptor, or NULL when it read it too early.                          *)
Sending ==
  /\ mt \in {"lock", "read", "send", "unlock", "destroy"} => clients[mtI].connected
  /\ mt \in {"read", "send", "unlock", "destroy"} => clients[mtI].mutex = "held"
  /\ mt = "send" => mtSock = NULL \/ mtSock = clients[mtI].socket
  /\ mt = "ended" => ws \in {"ended", "unloaded"}
  /\ ws = "unloaded" => mt = "ended"

(* An answered connection has a slot, or a handler is at work on it. *)
AnsweredHasSlot ==
  ws # "unloaded" => \A c \in Conn :
    (peer[c] = "open" /\ got[c] # <<>>) =>
      \/ \E k \in Slot : clients[k].connected /\ clients[k].socket # NULL
                           /\ fds[clients[k].socket] = c
      \/ ws \in {"init", "connected", "socket", "drop"} /\ fds[Sock] = c

(* The broadcast of the event in hand is over for slot k. *)
Passed(k) ==
  \/ mt \in {"idle", "ended"}
  \/ mtI > k
  \/ mtI = k /\ (mt \in {"unlock", "destroy"} \/ (mt = "send" /\ mtSock = NULL))

Upto(k) == IF Passed(k) THEN taken ELSE taken - 1

(* Slot k's browser was sent the answer and the events from `first` to the *)
(* last one that passed the slot.                                          *)
SentSince(c, first, last) ==
  /\ Len(got[c]) = last - first + 2
  /\ got[c][1] = Accepted
  /\ \A i \in 2..Len(got[c]) : got[c][i] = first + i - 2

Sent ==
  ws # "unloaded" => \A k \in Slot :
    (clients[k].connected /\ clients[k].socket # NULL) =>
      LET c == fds[clients[k].socket] IN
      \E first \in {joined[c], joined[c] + 1} :
        first <= Upto(k) + 1 /\ SentSince(c, first, Upto(k))

(* Connections that were accepted, and those the server did not forget. *)
AcceptedConns == {c \in Conn : peer[c] \notin {"new", "calling"}}
Kept == AcceptedConns \ Lost

(* When a connection was forgotten, all places were taken once. *)
LostAtLimit == Lost = {} \/ MaxActive <= Cardinality(Kept)

Staying ==
  /\ Stays /\ Descriptors /\ StayTypes
  /\ Connections /\ Polled /\ AtHand /\ SlotsFilled /\ Sending
  /\ HandshakeFirst /\ AnsweredHasSlot /\ Sent /\ LostAtLimit /\ UnloadClosesClients

-----------------------------------------------------------------------------
(* Nothing has happened at first. *)
LEMMA StayingInit == Stays /\ Init => Staying
<1> SUFFICES ASSUME Stays, Init
             PROVE  Staying
  OBVIOUS
<1> USE DEF Init
<1>1. Descriptors
  BY DescriptorsInit
<1>2. StayTypes
  BY DEF StayTypes, Handling
<1>3. Connections /\ Polled /\ AtHand /\ SlotsFilled /\ Sending
  BY DEF Connections, Polled, AtHand, Handling, SlotsFilled, EmptySlot, Sending
<1>4. HandshakeFirst /\ AnsweredHasSlot /\ Sent /\ UnloadClosesClients
  BY DEF HandshakeFirst, AnsweredHasSlot, Sent, EmptySlot, UnloadClosesClients
<1>5. LostAtLimit
  BY DEF LostAtLimit, Lost
<1> QED
  BY <1>1, <1>2, <1>3, <1>4, <1>5 DEF Staying

(* An open descriptor takes what is sent on it. *)
LEMMA OpenCanSend ==
  ASSUME Staying, NEW f, Open(f), f \in Fd
  PROVE  CanSend(f) /\ fds[f] \in Conn /\ peer[fds[f]] = "open" /\ f # NULL
BY DEF Staying, StayTypes, Connections, CanSend, Open

(* The actions that are left when browsers stay. *)
LEMMA StayingNext ==
  ASSUME Staying, [Next]_vars
  PROVE  \/ \E c \in Conn : PeerConnects(c)
         \/ Raise \/ UNCHANGED vars
         \/ Poll \/ NoneToAccept \/ Accept \/ AcceptFails \/ ScanEnds
         \/ ScanInput \/ Lookup \/ Handshake \/ LimitReached \/ Drop
         \/ InitMutex \/ InitConnected \/ InitSocket
         \/ MtTake \/ MtSkip \/ MtCheck \/ MtLock \/ MtRead \/ MtSend \/ MtUnlock \/ MtDestroy
         \/ PollFails \/ ServeReturns \/ MtReturns \/ FreeClients
<1> USE DEF Staying
<1>1. ASSUME NEW c \in Conn, Browser(c)
      PROVE  PeerConnects(c)
  BY <1>1 DEF Browser, PeerCloses, PeerFinishes, PeerResets, Stays
<1>2. ~ScanHangup
  <2>1. ScanHangup => \E i \in 1..MaxActive : "HUP" \in revents[i]
    <3>1. ScanHangup => Min(Reported) \in Reported
      BY ChosenPlaces DEF ScanHangup
    <3> QED
      BY <3>1 DEF ScanHangup, Reported
  <2>2. \A i \in 1..MaxActive : revents[i] = {} \/ revents[i] = {"IN"}
    BY DEF StayTypes
  <2> QED
    BY <2>1, <2>2
<1>3. ~RecvFrame /\ ~RecvEof /\ ~RecvFails /\ ~WsDestroy /\ ~WsClose /\ ~WsClear
  BY DEF StayTypes, Handling, RecvFrame, RecvEof, RecvFails, WsDestroy, WsClose, WsClear
<1>4. ~HandshakeFails
  <2>1. ASSUME ws = "handshake"
        PROVE  Open(Sock) /\ Sock \in Fd
    BY <2>1 DEF AtHand, Handling, Polled, Descriptors, SlotTypes, Sock
  <2> QED
    BY <2>1, OpenCanSend DEF HandshakeFails
<1>5. ~InitFails /\ ~MtClose /\ ~MtClear
  BY DEF StayTypes, Stays, InitFails, MtClose, MtClear
<1>6. PollTimeout \/ MtSleep \/ Unloaded => UNCHANGED vars
  BY DEF PollTimeout, MtSleep, Unloaded
<1> QED
  BY <1>1, <1>2, <1>3, <1>4, <1>5, <1>6 DEF Next, ServerThread, MessageThread

-----------------------------------------------------------------------------
(* What a slot's browser was sent stays what it was, when neither the      *)
(* message thread moves nor a slot gets a descriptor.                      *)
LEMMA SentStays ==
  ASSUME Sent, ws' # "unloaded" => ws # "unloaded", UNCHANGED <<joined, mtVars>>,
         \A k \in Slot : clients'[k].connected /\ clients'[k].socket # NULL =>
           /\ clients[k].connected /\ clients[k].socket = clients'[k].socket
           /\ fds'[clients[k].socket] = fds[clients[k].socket]
           /\ got'[fds[clients[k].socket]] = got[fds[clients[k].socket]]
  PROVE  Sent'
<1> SUFFICES ASSUME NEW k \in Slot, ws' # "unloaded",
                    clients'[k].connected, clients'[k].socket # NULL
             PROVE  (LET c == fds[clients[k].socket] IN
                     \E first \in {joined[c], joined[c] + 1} :
                       first <= Upto(k) + 1 /\ SentSince(c, first, Upto(k)))'
  BY DEF Sent
<1>1. PICK c : c = fds[clients[k].socket]
  OBVIOUS
<1>2. PICK first \in {joined[c], joined[c] + 1} :
        first <= Upto(k) + 1 /\ SentSince(c, first, Upto(k))
  BY <1>1 DEF Sent
<1>3. Upto(k)' = Upto(k)
  BY DEF mtVars, Upto, Passed
<1>4. got'[c] = got[c] /\ fds'[clients'[k].socket] = c
  BY <1>1
<1>5. SentSince(c, first, Upto(k))'
  BY <1>2, <1>3, <1>4 DEF SentSince
<1> QED
  BY <1>2, <1>3, <1>4, <1>5

(* Steps of the server that only move it between its loops. *)
LEMMA ServerMoves ==
  ASSUME Staying, Descriptors',
         UNCHANGED <<kernelVars, clients, pollfds, clients_locked, mtVars, historyVars>>,
         {ws, ws'} \subseteq {"poll", "accept", "scan", "ended"},
         mt = "ended" => ws' = "ended",
         revents' = revents \/ revents' = [i \in 1..MaxActive |-> Events(pollfds[i])]
  PROVE  Staying'
<1> USE DEF kernelVars, mtVars, historyVars, Staying
<1>1. revents' \in [1..MaxActive -> {{}, {"IN"}}]
  <2>1. ASSUME NEW i \in 1..MaxActive
        PROVE  Events(pollfds[i]) \in {{}, {"IN"}}
    <3>1. CASE ~Open(pollfds[i])
      BY <3>1 DEF Events
    <3>2. CASE Open(pollfds[i])
      <4>1. pollfds[i] \in Fd
        BY <3>2 DEF Open, Descriptors, SlotTypes
      <4>2. peer[fds[pollfds[i]]] = "open"
        BY <3>2, <4>1, OpenCanSend
      <4> QED
        BY <4>2 DEF Events
    <3> QED
      BY <3>1, <3>2
  <2> QED
    BY <2>1 DEF StayTypes
<1>2. StayTypes'
  BY <1>1 DEF StayTypes, Handling
<1>3. Connections'
  BY DEF Connections
<1>4. Polled'
  <2>1. ASSUME NEW i \in 1..MaxActive, Events(pollfds[i]) # {}
        PROVE  pollfds[i] # NULL /\ wire[fds[pollfds[i]]] # <<>>
    <3>1. Open(pollfds[i]) /\ pollfds[i] \in Fd
      BY <2>1 DEF Events, Open, Descriptors, SlotTypes
    <3> QED
      BY <2>1, <3>1, OpenCanSend DEF Events
  <2> QED
    BY <2>1 DEF Polled, Open
<1>5. AtHand'
  BY DEF AtHand, Handling
<1>6. SlotsFilled' /\ Sending'
  BY DEF SlotsFilled, Sending, Open
<1>7. HandshakeFirst' /\ UnloadClosesClients'
  BY DEF HandshakeFirst, UnloadClosesClients
<1>8. AnsweredHasSlot'
  BY DEF AnsweredHasSlot
<1>9. Sent'
  BY DEF Sent, SentSince, Upto, Passed
<1>10. LostAtLimit'
  BY DEF LostAtLimit, Lost, Kept, AcceptedConns
<1> QED
  BY <1>2, <1>3, <1>4, <1>5, <1>6, <1>7, <1>8, <1>9, <1>10 DEF Stays

(* A step that changes nothing the invariant speaks of but the number of   *)
(* events raised.                                                          *)
LEMMA NothingMoves ==
  ASSUME Staying, Descriptors', raised' \in Nat,
         UNCHANGED <<kernelVars, clients, wsVars, taken, mt, mtI, mtSock, historyVars>>
  PROVE  Staying'
<1> USE DEF kernelVars, wsVars, historyVars, Staying
<1>1. StayTypes' /\ Connections' /\ Polled' /\ AtHand'
  <2>1. StayTypes' /\ Connections'
    BY DEF StayTypes, Connections, Open
  <2>2. Polled' /\ AtHand'
    BY DEF Polled, AtHand, Handling, Open, Sock, SlotsOf
  <2> QED
    BY <2>1, <2>2
<1>2. SlotsFilled' /\ Sending' /\ HandshakeFirst'
  BY DEF SlotsFilled, Sending, Open, HandshakeFirst
<1>3. AnsweredHasSlot' /\ Sent' /\ UnloadClosesClients'
  BY DEF AnsweredHasSlot, Sock, Sent, SentSince, Upto, Passed, UnloadClosesClients,
         Upgraded, Stuck, ConnectedSlots, Open
<1>4. LostAtLimit'
  BY DEF LostAtLimit, Lost, Kept, AcceptedConns
<1> QED
  BY <1>1, <1>2, <1>3, <1>4 DEF Stays

(* A browser that connects is not answered yet, and nothing else changes. *)
LEMMA ConnectsStay ==
  ASSUME Staying, Descriptors', NEW c \in Conn, PeerConnects(c)
  PROVE  Staying'
<1> USE DEF wsVars, mtVars, historyVars, Staying
<1>1. /\ peer[c] = "new" /\ peer' = [peer EXCEPT ![c] = "calling"]
      /\ wire' = [wire EXCEPT ![c] = <<"GET">>]
      /\ UNCHANGED <<fds, got, clients, wsVars, mtVars, historyVars>>
  BY DEF PeerConnects
<1>2. \A f \in Fd : fds[f] # NULL => fds[f] \in Conn \ {c}
  BY <1>1 DEF StayTypes, Connections
<1>3. StayTypes'
  BY <1>1 DEF StayTypes
<1>4. Connections'
  BY <1>1, <1>2 DEF Connections, StayTypes
<1>5. Polled'
  BY <1>1, <1>2 DEF Polled, StayTypes, Open, Descriptors, SlotTypes
<1>6. AtHand'
  BY <1>1 DEF AtHand, Sock, SlotsOf
<1>7. SlotsFilled' /\ Sending' /\ HandshakeFirst'
  BY <1>1 DEF SlotsFilled, Sending, HandshakeFirst, Open
<1>8. AnsweredHasSlot' /\ UnloadClosesClients'
  BY <1>1 DEF AnsweredHasSlot, UnloadClosesClients, StayTypes, Sock, Upgraded, Stuck,
              ConnectedSlots, Open
<1>9. Sent'
  BY <1>1 DEF Sent, SentSince, Upto, Passed
<1>10. Lost' = Lost /\ Kept' = Kept
  BY <1>1 DEF Lost, Kept, AcceptedConns, StayTypes
<1> QED
  BY <1>3, <1>4, <1>5, <1>6, <1>7, <1>8, <1>9, <1>10 DEF Stays, LostAtLimit

(* Accept gives a new connection a descriptor that was not open, and polls *)
(* it; without a free place the connection is forgotten.                   *)
LEMMA AcceptStays ==
  ASSUME Staying, Descriptors', Accept
  PROVE  Staying'
<1> USE DEF mtVars, historyVars, Staying
<1>1. PICK c \in Calling, f \in {g \in Fd : fds[g] = NULL} :
        /\ fds' = [fds EXCEPT ![f] = c]
        /\ peer' = [peer EXCEPT ![c] = "open"]
        /\ IF FreePlaces # {}
           THEN pollfds' = [pollfds EXCEPT ![Min(FreePlaces)] = f] /\ ws' = "scan"
           ELSE ws' = "poll" /\ UNCHANGED pollfds
  BY DEF Accept
<1>2. /\ ws = "accept" /\ ws' \in {"scan", "poll"}
      /\ UNCHANGED <<wire, got, clients, revents, wsI, wsClient, clients_locked, mtVars,
                     historyVars>>
  BY DEF Accept
<1>3. /\ c \in Conn /\ peer[c] = "calling" /\ f \in Fd /\ fds[f] = NULL
      /\ c # NULL /\ f # NULL
  BY NullAssumption DEF Calling
<1>4. \A g \in Fd : fds[g] # NULL => g # f /\ fds'[g] = fds[g] /\ fds[g] # c
  BY <1>1, <1>3 DEF Connections, StayTypes
<1>5. \A g \in Fd \cup {NULL} : Open(g) => g \in Fd /\ Open(g)' /\ fds'[g] = fds[g] /\ fds[g] # c
  BY <1>4 DEF Open
<1>6. StayTypes'
  BY <1>1, <1>2, <1>3 DEF StayTypes
<1>7. Connections'
  BY <1>1, <1>2, <1>3, <1>4 DEF Connections, StayTypes
<1>8. Polled'
  <2>1. CASE FreePlaces # {}
    <3> DEFINE p == Min(FreePlaces)
    <3>1. p \in 1..MaxActive /\ pollfds[p] = NULL
      BY <2>1, ChosenPlaces DEF FreePlaces
    <3>2. pollfds' = [pollfds EXCEPT ![p] = f]
      BY <1>1, <2>1
    <3> HIDE DEF p
    <3>3. \A i \in 1..MaxActive : pollfds[i] # NULL => pollfds[i] # f /\ Open(pollfds[i])
      BY <1>2, <1>3 DEF Polled, Open
    <3>4. \A i \in 1..MaxActive : pollfds'[i] = IF i = p THEN f ELSE pollfds[i]
      BY <3>1, <3>2 DEF Descriptors, SlotTypes
    <3>5. Open(f)'
      BY <1>1, <1>3 DEF Open, StayTypes
    <3>6. \A i \in 1..MaxActive : pollfds[i] \in Fd \cup {NULL}
      BY DEF Descriptors, SlotTypes
    <3> QED
      BY <1>2, <1>5, <3>1, <3>3, <3>4, <3>5, <3>6 DEF Polled
  <2>2. CASE FreePlaces = {}
    <3>1. pollfds' = pollfds
      BY <1>1, <2>2
    <3>2. \A i \in 1..MaxActive : pollfds[i] \in Fd \cup {NULL}
      BY DEF Descriptors, SlotTypes
    <3> QED
      BY <1>2, <1>5, <3>1, <3>2 DEF Polled
  <2> QED
    BY <2>1, <2>2
<1>9. AtHand' /\ UnloadClosesClients' /\ HandshakeFirst'
  BY <1>2 DEF AtHand, Handling, UnloadClosesClients, HandshakeFirst
<1>10. SlotsFilled' /\ Sending'
  BY <1>2, <1>5 DEF SlotsFilled, Sending, Descriptors, SlotTypes, Client
<1>11. AnsweredHasSlot'
  <2> SUFFICES ASSUME NEW d \in Conn, peer'[d] = "open", got[d] # <<>>
               PROVE  \E k \in Slot : clients[k].connected /\ clients[k].socket # NULL
                                         /\ fds'[clients[k].socket] = d
    BY <1>2 DEF AnsweredHasSlot
  <2>1. got[c] = <<>>
    BY <1>3 DEF Connections
  <2>2. d # c /\ peer[d] = "open"
    BY <1>1, <1>3, <2>1 DEF StayTypes
  <2>3. PICK k \in Slot : clients[k].connected /\ clients[k].socket # NULL
                            /\ fds[clients[k].socket] = d
    BY <1>2, <2>2 DEF AnsweredHasSlot
  <2>4. Open(clients[k].socket) /\ clients[k].socket \in Fd \cup {NULL}
    BY <1>2, <2>3 DEF SlotsFilled, Descriptors, SlotTypes, Client
  <2> QED
    BY <1>5, <2>3, <2>4
<1>12. Sent'
  <2>1. \A k \in Slot : (clients[k].connected /\ clients[k].socket # NULL) =>
                         fds'[clients[k].socket] = fds[clients[k].socket]
    BY <1>2, <1>5 DEF SlotsFilled, Descriptors, SlotTypes, Client
  <2> QED
    BY <1>2, <2>1, SentStays
<1>13. LostAtLimit'
  <2>1. AcceptedConns' = AcceptedConns \cup {c}
    BY <1>1, <1>3 DEF AcceptedConns, StayTypes
  <2>2. CASE FreePlaces # {}
    <3> DEFINE p == Min(FreePlaces)
    <3>1. p \in 1..MaxActive /\ pollfds[p] = NULL
      BY <2>2, ChosenPlaces DEF FreePlaces
    <3>2. pollfds' = [pollfds EXCEPT ![p] = f]
      BY <1>1, <2>2
    <3> HIDE DEF p
    <3>3. \A i \in 1..MaxActive : pollfds'[i] = IF i = p THEN f ELSE pollfds[i]
      BY <3>1, <3>2 DEF Descriptors, SlotTypes
    <3>4. \A i \in 1..MaxActive : pollfds[i] # NULL =>
             fds'[pollfds[i]] = fds[pollfds[i]] /\ fds[pollfds[i]] # c
      BY <1>2, <1>5 DEF Polled, Descriptors, SlotTypes
    <3>5. fds'[f] = c
      BY <1>1, <1>3 DEF StayTypes
    <3>6. Lost' = Lost
      BY <1>1, <1>3, <3>1, <3>3, <3>4, <3>5 DEF Lost, StayTypes
    <3>7. c \notin AcceptedConns
      BY <1>3 DEF AcceptedConns
    <3>8. Kept' = Kept \cup {c}
      BY <1>3, <2>1, <3>6 DEF Kept, Lost
    <3>9. IsFiniteSet(Kept) /\ c \notin Kept
      BY <3>7, ConnAssumption, FS_Subset DEF Kept, AcceptedConns
    <3>10. Cardinality(Kept') = Cardinality(Kept) + 1 /\ Cardinality(Kept) \in Nat
      BY <3>8, <3>9, FS_AddElement, FS_CardinalityType
    <3> QED
      BY <3>6, <3>10, SizeAssumption DEF LostAtLimit
  <2>3. CASE FreePlaces = {}
    <3> DEFINE h == [i \in 1..MaxActive |-> fds[pollfds[i]]]
    <3>1. pollfds' = pollfds
      BY <1>1, <2>3
    <3>2. \A i \in 1..MaxActive : /\ pollfds[i] \in Fd /\ pollfds[i] # NULL
                                  /\ Open(pollfds[i])
      BY <1>2, <2>3 DEF FreePlaces, Descriptors, SlotTypes, Polled
    <3>3. \A i \in 1..MaxActive : /\ fds'[pollfds[i]] = h[i]
                                  /\ h[i] \in Conn /\ h[i] # c /\ peer[h[i]] = "open"
      BY <1>5, <3>2, OpenCanSend
    <3>4. \A i, j \in 1..MaxActive : h[i] = h[j] => i = j
      <4> SUFFICES ASSUME NEW i \in 1..MaxActive, NEW j \in 1..MaxActive,
                          fds[pollfds[i]] = fds[pollfds[j]]
                   PROVE  i = j
        OBVIOUS
      <4>1. pollfds[i] = pollfds[j]
        BY <3>2 DEF Connections, Open
      <4> QED
        BY <3>2, <4>1 DEF Polled
    <3> HIDE DEF h
    <3>5. \A i \in 1..MaxActive : h[i] \in Kept'
      <4> SUFFICES ASSUME NEW i \in 1..MaxActive
                   PROVE  h[i] \in Kept'
        OBVIOUS
      <4>1. h[i] \in AcceptedConns'
        BY <2>1, <3>3 DEF AcceptedConns
      <4>2. h[i] \notin Lost'
        BY <3>1, <3>2, <3>3 DEF Lost
      <4> QED
        BY <4>1, <4>2 DEF Kept
    <3>6. h \in Injection(1..MaxActive, Kept')
      <4>1. h = [i \in 1..MaxActive |-> h[i]]
        BY DEF h
      <4> QED
        BY <3>4, <3>5, <4>1 DEF Injection, IsInjective
    <3>7. IsFiniteSet(Kept')
      BY ConnAssumption, FS_Subset DEF Kept, AcceptedConns
    <3>8. Cardinality(1..MaxActive) = MaxActive
      BY SizeAssumption, FS_Interval
    <3>9. Cardinality(1..MaxActive) <= Cardinality(Kept')
      BY <3>6, <3>7, FS_Injection
    <3> QED
      BY <3>8, <3>9 DEF LostAtLimit
  <2> QED
    BY <2>2, <2>3
<1> QED
  BY <1>6, <1>7, <1>8, <1>9, <1>10, <1>11, <1>12, <1>13 DEF Stays
-----------------------------------------------------------------------------
(* Steps of a handler that send and close nothing, and store no            *)
(* descriptor: what was sent to whom, and who has a slot, stays.           *)
LEMMA HandlerStays ==
  ASSUME Staying, Descriptors',
         UNCHANGED <<kernelVars, pollfds, mtVars, historyVars>>,
         ws \in {"scan"} \cup Handling, ws' \in Handling,
         \A k \in Slot : clients'[k].socket = clients[k].socket,
         \A k \in Slot : clients[k].socket # NULL =>
                           clients'[k].connected = clients[k].connected,
         ws \in {"init", "connected", "socket", "drop"} =>
           ws' \in {"init", "connected", "socket", "drop"} /\ Sock' = Sock,
         StayTypes', Polled', AtHand', SlotsFilled', Sending'
  PROVE  Staying'
<1> USE DEF kernelVars, mtVars, historyVars, Staying
<1>1. Connections' /\ HandshakeFirst'
  BY DEF Connections, HandshakeFirst
<1>2. AnsweredHasSlot'
  BY DEF AnsweredHasSlot, Handling
<1>3. Sent'
  <2>1. \A k \in Slot : clients'[k].socket # NULL /\ clients'[k].connected => clients[k].connected
    OBVIOUS
  <2>2. ws # "unloaded"
    BY DEF Handling
  <2> QED
    BY <2>1, <2>2, SentStays
<1>4. LostAtLimit' /\ UnloadClosesClients'
  BY DEF LostAtLimit, Lost, Kept, AcceptedConns, UnloadClosesClients, Handling
<1> QED
  BY <1>1, <1>2, <1>3, <1>4 DEF Stays

(* The request poll reported is still unread: its browser has no answer. *)
LEMMA ScanInputStays ==
  ASSUME Staying, Descriptors', ScanInput
  PROVE  Staying'
<1> USE DEF kernelVars, mtVars, historyVars, Staying
<1> DEFINE i == Min(Reported)
<1>1. i \in 1..MaxActive /\ pollfds[i] # NULL /\ revents[i] # {}
  BY ChosenPlaces DEF ScanInput, Reported
<1>2. /\ ws = "scan" /\ ws' = "lookup" /\ wsI' = i
      /\ revents' = [revents EXCEPT ![i] = {}]
      /\ UNCHANGED <<kernelVars, clients, pollfds, server_ready, wsClient, clients_locked,
                     mtVars, historyVars>>
  BY DEF ScanInput
<1> HIDE DEF i
<1>3. StayTypes'
  BY <1>1, <1>2 DEF StayTypes, Handling
<1>4. \A j \in 1..MaxActive : revents'[j] = IF j = i THEN {} ELSE revents[j]
  BY <1>1, <1>2 DEF StayTypes
<1>5. Polled'
  BY <1>2, <1>4 DEF Polled, Open
<1>6. AtHand'
  <2>1. pollfds[i] \in Fd /\ Open(pollfds[i]) /\ wire[fds[pollfds[i]]] # <<>>
    BY <1>1, <1>2 DEF Polled, Descriptors, SlotTypes
  <2>2. got[fds[pollfds[i]]] = <<>>
    BY <2>1, OpenCanSend DEF Connections
  <2> QED
    BY <1>1, <1>2, <1>4, <2>2 DEF AtHand, Sock
<1>7. SlotsFilled' /\ Sending'
  BY <1>2 DEF SlotsFilled, Sending, Open
<1> QED
  BY <1>2, <1>3, <1>5, <1>6, <1>7, HandlerStays DEF Handling

(* No slot has the descriptor: its browser was not answered yet. *)
LEMMA LookupStays ==
  ASSUME Staying, Descriptors', Lookup
  PROVE  Staying'
<1> USE DEF kernelVars, mtVars, historyVars, Staying
<1>1. ws = "lookup"
      /\ UNCHANGED <<kernelVars, clients, pollfds, revents, server_ready, wsI,
                     clients_locked, mtVars, historyVars>>
  BY DEF Lookup
<1>2. Known = {}
  BY <1>1 DEF AtHand, Handling, Known, SlotsOf, SlotsFilled
<1>3. ws' = "handshake"
  BY <1>2 DEF Lookup, NewClient
<1>4. StayTypes' /\ Polled' /\ Sending'
  BY <1>1, <1>3 DEF StayTypes, Polled, Open, Sending, Handling
<1>5. AtHand'
  BY <1>1, <1>3 DEF AtHand, Handling, Sock
<1>6. SlotsFilled'
  BY <1>1, <1>3 DEF SlotsFilled, Open
<1> QED
  BY <1>1, <1>3, <1>4, <1>5, <1>6, HandlerStays DEF Handling

(* The slot that gets a mutex is not connected. *)
LEMMA InitMutexStays ==
  ASSUME Staying, Descriptors', InitMutex
  PROVE  Staying'
<1> USE DEF kernelVars, mtVars, historyVars, Staying
<1> DEFINE m == Min(FreeSlots)
<1>1. m \in Slot /\ ~clients[m].connected
  BY ChosenPlaces DEF InitMutex, FreeSlots
<1>2. /\ ws = "init" /\ ws' = "connected" /\ wsClient' = m
      /\ clients' = [clients EXCEPT ![m].mutex = "free"]
      /\ UNCHANGED <<kernelVars, pollfds, revents, server_ready, wsI, clients_locked,
                     mtVars, historyVars>>
  BY DEF InitMutex
<1> HIDE DEF m
<1>3. \A k \in Slot : /\ clients'[k].connected = clients[k].connected
                      /\ clients'[k].socket = clients[k].socket
                      /\ clients'[k].mutex = IF k = m THEN "free" ELSE clients[k].mutex
  BY <1>1, <1>2 DEF Descriptors, SlotTypes, Client
<1>4. StayTypes' /\ Polled'
  BY <1>2 DEF StayTypes, Polled, Open, Handling
<1>5. AtHand'
  BY <1>1, <1>2, <1>3 DEF AtHand, Handling, Sock
<1>6. SlotsFilled'
  BY <1>2, <1>3 DEF SlotsFilled, Open
<1>7. Sending'
  BY <1>1, <1>2, <1>3 DEF Sending, Descriptors, SlotTypes
<1> QED
  BY <1>2, <1>3, <1>4, <1>5, <1>6, <1>7, HandlerStays DEF Handling, Sock

(* The slot that is connected has no descriptor yet. *)
LEMMA InitConnectedStays ==
  ASSUME Staying, Descriptors', InitConnected
  PROVE  Staying'
<1> USE DEF kernelVars, mtVars, historyVars, wsLocals, Staying
<1>1. /\ ws = "connected" /\ ws' = "socket"
      /\ clients' = [clients EXCEPT ![wsClient].connected = TRUE]
      /\ UNCHANGED <<kernelVars, wsLocals, mtVars, historyVars>>
  BY DEF InitConnected
<1>2. wsClient \in Slot /\ ~clients[wsClient].connected /\ clients[wsClient].socket = NULL
      /\ clients[wsClient].mutex # "none"
  BY <1>1 DEF Descriptors, SlotTypes, Registration, SlotsFilled, AtHand, Handling
<1>3. \A k \in Slot : /\ clients'[k].connected = IF k = wsClient THEN TRUE ELSE clients[k].connected
                      /\ clients'[k].socket = clients[k].socket
                      /\ clients'[k].mutex = clients[k].mutex
  BY <1>1, <1>2 DEF Descriptors, SlotTypes, Client
<1>4. StayTypes' /\ Polled'
  BY <1>1 DEF StayTypes, Polled, Open, Handling
<1>5. AtHand'
  BY <1>1, <1>2, <1>3 DEF AtHand, Handling, Sock
<1>6. SlotsFilled'
  BY <1>1, <1>2, <1>3 DEF SlotsFilled, Open
<1>7. Sending'
  BY <1>1, <1>3 DEF Sending, Descriptors, SlotTypes
<1> QED
  BY <1>1, <1>2, <1>3, <1>4, <1>5, <1>6, <1>7, HandlerStays DEF Handling, Sock
(* What a handler sends to the connection at hand, before it has a slot:   *)
(* nobody else is sent anything.                                           *)
LEMMA AnswerStays ==
  ASSUME Staying, Descriptors', NEW x \in Int,
         ws \in {"handshake", "init"}, ws' \in {"init", "drop"},
         UNCHANGED <<fds, peer, clients, wsLocals, mtVars, historyVars>>,
         got' = [got EXCEPT ![fds[Sock]] = Append(@, x)],
         wire' = [wire EXCEPT ![fds[Sock]] = <<>>],
         got'[fds[Sock]] = IF ws' = "init" THEN <<Accepted>> ELSE <<Accepted, CloseFrame>>
  PROVE  Staying'
<1> USE DEF mtVars, historyVars, wsLocals, Staying
<1> DEFINE c == fds[Sock]
<1>1. Sock \in Fd /\ Sock # NULL /\ c \in Conn /\ peer[c] = "open" /\ Open(Sock)
  BY OpenCanSend DEF AtHand, Handling, Polled, Descriptors, SlotTypes, Sock
<1>2. \A d \in Conn \ {c} : got'[d] = got[d] /\ wire'[d] = wire[d]
  BY DEF StayTypes
<1>3. \A f \in Fd : f # Sock /\ fds[f] # NULL => fds[f] \in Conn \ {c}
  BY <1>1 DEF Connections, StayTypes
<1>4. SlotsOf(Sock) = {}
  BY DEF Descriptors, Registration
<1>5. \A k \in Slot : (clients[k].connected /\ clients[k].socket # NULL) =>
                        fds[clients[k].socket] \in Conn \ {c}
  BY <1>3, <1>4 DEF SlotsFilled, SlotsOf, Descriptors, SlotTypes, Client, Open
<1>6. Sock' = Sock /\ wire'[c] = <<>> /\ got'[c] # <<>> /\ got'[c][1] = Accepted
  <2>1. Sock' = Sock /\ wire'[c] = <<>>
    BY <1>1 DEF Sock, StayTypes
  <2>2. got'[c] = <<Accepted>> \/ got'[c] = <<Accepted, CloseFrame>>
    OBVIOUS
  <2> HIDE DEF c
  <2>3. Accepted \in Int /\ CloseFrame \in Int
    BY DEF Accepted, CloseFrame
  <2>4. \A x1, x2 \in Int : /\ <<x1>> # <<>> /\ <<x1>>[1] = x1
                            /\ <<x1, x2>> # <<>> /\ <<x1, x2>>[1] = x1
    OBVIOUS
  <2>5. got'[c] # <<>> /\ got'[c][1] = Accepted
    BY <2>2, <2>3, <2>4
  <2> QED
    BY <2>1, <2>5
<1>7. got' \in [Conn -> Seq(Int)] /\ wire' \in [Conn -> {<<>>, <<"GET">>}]
  <2>1. Append(got[c], x) \in Seq(Int)
    BY <1>1 DEF StayTypes
  <2> QED
    BY <1>1, <2>1 DEF StayTypes
<1> HIDE DEF c
<1>71. StayTypes'
  BY <1>7 DEF StayTypes, Handling
<1>8. Connections'
  BY <1>1, <1>2, <1>6 DEF Connections
<1>9. Polled'
  <2>1. \A i \in 1..MaxActive : i # wsI /\ pollfds[i] # NULL =>
           pollfds[i] \in Fd /\ pollfds[i] # Sock /\ fds[pollfds[i]] # NULL
    BY DEF Polled, Descriptors, SlotTypes, Sock, Open
  <2> QED
    BY <1>2, <1>3, <2>1 DEF Polled, Open, AtHand, Handling
<1>10. AtHand'
  <2>1. fds'[Sock'] = fds[Sock] /\ SlotsOf(Sock)' = {} /\ revents'[wsI'] = {}
    BY <1>4, <1>6 DEF SlotsOf, AtHand, Handling
  <2> QED
    BY <1>1, <1>6, <2>1 DEF AtHand, Handling
<1>11. SlotsFilled' /\ Sending'
  BY <1>2, <1>5 DEF SlotsFilled, Sending, Open
<1>12. HandshakeFirst'
  BY <1>2, <1>6 DEF HandshakeFirst
<1>13. AnsweredHasSlot'
  BY <1>2, <1>6 DEF AnsweredHasSlot, c
<1>14. Sent'
  BY <1>2, <1>5, SentStays
<1>15. LostAtLimit' /\ UnloadClosesClients'
  BY DEF LostAtLimit, Lost, Kept, AcceptedConns, UnloadClosesClients
<1> QED
  BY <1>71, <1>8, <1>9, <1>10, <1>11, <1>12, <1>13, <1>14, <1>15 DEF Stays

(* The handshake is answered. *)
LEMMA HandshakeStays ==
  ASSUME Staying, Descriptors', Handshake
  PROVE  Staying'
<1> DEFINE c == fds[Sock]
<1>1. /\ ws = "handshake"
      /\ UNCHANGED <<fds, clients, wsLocals, mtVars, historyVars>>
  BY DEF Handshake
<1>2. Sock \in Fd /\ Open(Sock)
  BY <1>1 DEF Handshake, Staying, AtHand, Handling, Descriptors, SlotTypes, Sock
<1>3. CanSend(Sock) /\ c \in Conn /\ peer[c] = "open"
  BY <1>2, OpenCanSend
<1>4. wire[c] = <<"GET">> /\ got[c] = <<>>
  BY <1>1, <1>3 DEF Handshake, Staying, StayTypes, AtHand, Handling
<1>5. Head(wire[c]) = "GET" /\ Tail(wire[c]) = <<>>
  BY <1>4
<1>6. Deliver(Sock, Accepted) /\ ws' = "init"
  BY <1>3, <1>5 DEF Handshake, Staying, Stays
<1>7. /\ got' = [got EXCEPT ![c] = Append(@, Accepted)] /\ UNCHANGED peer
      /\ wire' = [wire EXCEPT ![c] = <<>>]
  BY <1>3, <1>5, <1>6 DEF Handshake, Deliver
<1>8. got'[c] = <<Accepted>>
  BY <1>3, <1>4, <1>7 DEF Staying, StayTypes
<1>9. Accepted \in Int
  BY DEF Accepted
<1> QED
  BY <1>1, <1>6, <1>7, <1>8, <1>9, AnswerStays

(* The client that finds no free slot is told so. *)
LEMMA LimitReachedStays ==
  ASSUME Staying, Descriptors', LimitReached
  PROVE  Staying'
<1> DEFINE c == fds[Sock]
<1>1. /\ ws = "init" /\ ws' = "drop"
      /\ UNCHANGED <<fds, wire, clients, wsLocals, mtVars, historyVars>>
  BY DEF LimitReached, Refused
<1>2. Sock \in Fd /\ Open(Sock)
  BY <1>1 DEF Staying, AtHand, Handling, Descriptors, SlotTypes, Sock, Polled
<1>3. CanSend(Sock) /\ c \in Conn /\ peer[c] = "open"
  BY <1>2, OpenCanSend
<1>4. got[c] = <<Accepted>>
  BY <1>1 DEF Staying, AtHand, Handling
<1>5. got' = [got EXCEPT ![c] = Append(@, CloseFrame)] /\ UNCHANGED peer
  BY <1>3 DEF LimitReached, TryDeliver, Deliver, Staying, Stays
<1>6. got'[c] = <<Accepted, CloseFrame>>
  <2>1. got'[c] = Append(got[c], CloseFrame)
    BY <1>3, <1>5 DEF Staying, StayTypes
  <2>2. Append(<<Accepted>>, CloseFrame) = <<Accepted, CloseFrame>>
    BY AppendToOne DEF Accepted, CloseFrame
  <2> QED
    BY <1>4, <2>1, <2>2
<1>7. wire' = [wire EXCEPT ![c] = <<>>]
  BY <1>1, <1>3, <1>4 DEF Staying, StayTypes, Connections
<1>8. CloseFrame \in Int
  BY DEF CloseFrame
<1> QED
  BY <1>1, <1>5, <1>6, <1>7, <1>8, AnswerStays
(* A dropped connection was refused: no slot has its descriptor, which is  *)
(* closed and polled no more.                                              *)
LEMMA DropStays ==
  ASSUME Staying, Descriptors', Drop
  PROVE  Staying'
<1> USE DEF mtVars, historyVars, Staying
<1> DEFINE c == fds[Sock]
<1>1. /\ ws = "drop" /\ ws' = "scan"
      /\ pollfds' = [pollfds EXCEPT ![wsI] = NULL]
      /\ UNCHANGED <<wire, got, clients, revents, server_ready, wsI, wsClient, clients_locked,
                     mtVars, historyVars>>
  BY DEF Drop
<1>2. Sock \in Fd /\ Sock # NULL /\ Open(Sock) /\ wsI \in 1..MaxActive
      /\ pollfds[wsI] = Sock
  BY <1>1 DEF AtHand, Handling, Polled, Descriptors, SlotTypes, Sock
<1>3. c \in Conn /\ peer[c] = "open"
  BY <1>2, OpenCanSend
<1>4. fds' = [fds EXCEPT ![Sock] = NULL] /\ peer' = [peer EXCEPT ![c] = "closed"]
  BY <1>2 DEF Drop, CloseFd
<1>5. \A f \in Fd : f # Sock => fds'[f] = fds[f] /\ fds[f] # c
  BY <1>2, <1>4 DEF Connections, StayTypes, Open
<1>6. \A k \in Slot : clients[k].connected => clients[k].socket # Sock
  BY <1>1 DEF AtHand, Handling, SlotsOf
<1>7. \A k \in Slot : (clients[k].connected /\ clients[k].socket # NULL) =>
        /\ clients[k].socket \in Fd /\ fds'[clients[k].socket] = fds[clients[k].socket]
        /\ fds[clients[k].socket] # c
  BY <1>5, <1>6 DEF Descriptors, SlotTypes, Client
<1>8. \A i \in 1..MaxActive : pollfds'[i] = IF i = wsI THEN NULL ELSE pollfds[i]
  BY <1>1 DEF Descriptors, SlotTypes
<1>9. \A i \in 1..MaxActive : i # wsI /\ pollfds[i] # NULL =>
        pollfds[i] \in Fd /\ pollfds[i] # Sock /\ fds'[pollfds[i]] = fds[pollfds[i]]
  BY <1>2, <1>5 DEF Polled, Descriptors, SlotTypes
<1> HIDE DEF c
<1>10. StayTypes'
  BY <1>1, <1>2, <1>3, <1>4 DEF StayTypes
<1>11. Connections'
  <2>1. fds'[Sock] = NULL
    BY <1>2, <1>4 DEF StayTypes
  <2>2. \A d \in Conn : peer'[d] = IF d = c THEN "closed" ELSE peer[d]
    BY <1>4 DEF StayTypes
  <2>3. c \in Conn /\ (\A f \in Fd : fds[f] \in Conn \cup {NULL})
    BY <1>3 DEF StayTypes
  <2> QED
    BY <1>1, <1>3, <1>5, <2>1, <2>2, <2>3 DEF Connections
<1>12. Polled'
  <2>1. revents[wsI] = {}
    BY <1>1 DEF AtHand, Handling
  <2> QED
    BY <1>1, <1>8, <1>9, <2>1 DEF Polled, Open
<1>13. AtHand' /\ UnloadClosesClients' /\ HandshakeFirst'
  BY <1>1 DEF AtHand, Handling, UnloadClosesClients, HandshakeFirst
<1>14. SlotsFilled' /\ Sending'
  <2>1. SlotsFilled'
    BY <1>1, <1>7 DEF SlotsFilled, Open
  <2> QED
    BY <1>1, <2>1 DEF Sending
<1>15. AnsweredHasSlot'
  <2> SUFFICES ASSUME NEW d \in Conn, peer'[d] = "open", got[d] # <<>>
               PROVE  \E k \in Slot : clients[k].connected /\ clients[k].socket # NULL
                                         /\ fds'[clients[k].socket] = d
    BY <1>1 DEF AnsweredHasSlot
  <2>1. d # c /\ peer[d] = "open"
    BY <1>3, <1>4 DEF StayTypes
  <2>2. \E k \in Slot : clients[k].connected /\ clients[k].socket # NULL
                          /\ fds[clients[k].socket] = d
    BY <1>1, <2>1 DEF AnsweredHasSlot, c
  <2> QED
    BY <1>7, <2>2
<1>16. Sent'
  BY <1>1, <1>7, SentStays
<1>17. LostAtLimit'
  <2>1. \A d \in Conn : peer'[d] = IF d = c THEN "closed" ELSE peer[d]
    BY <1>4 DEF StayTypes
  <2>2. AcceptedConns' = AcceptedConns
    BY <1>3, <2>1 DEF AcceptedConns
  <2>3. c \notin Lost
    BY <1>2 DEF Lost, c
  <2>4. Lost' = Lost
    <3>1. ASSUME NEW d \in Conn, d # c
          PROVE  (\A i \in 1..MaxActive : pollfds'[i] = NULL \/ fds'[pollfds'[i]] # d)
                 <=> (\A i \in 1..MaxActive : pollfds[i] = NULL \/ fds[pollfds[i]] # d)
      BY <1>2, <1>8, <1>9, <3>1 DEF c
    <3> QED
      BY <2>1, <2>3, <3>1 DEF Lost
  <2> QED
    BY <2>2, <2>4 DEF LostAtLimit, Kept
<1> QED
  BY <1>10, <1>11, <1>12, <1>13, <1>14, <1>15, <1>16, <1>17 DEF Stays

(* The slot gets its descriptor: what its browser is sent counts from the  *)
(* event in hand, or from the next one when the message thread has passed. *)
LEMMA InitSocketStays ==
  ASSUME Staying, Descriptors', InitSocket
  PROVE  Staying'
<1> USE DEF kernelVars, wsLocals, mtVars, Staying
<1> DEFINE c == fds[Sock]
           m == wsClient
<1>1. /\ ws = "socket" /\ ws' = "scan"
      /\ clients' = [clients EXCEPT ![m].socket = Sock]
      /\ UNCHANGED <<kernelVars, wsLocals, mtVars>>
  BY DEF InitSocket
<1>2. Sock \in Fd /\ Sock # NULL /\ Open(Sock) /\ m \in Slot
  BY <1>1 DEF AtHand, Handling, Polled, Descriptors, SlotTypes, Sock
<1>3. c \in Conn /\ peer[c] = "open" /\ got[c] = <<Accepted>>
  BY <1>1, <1>2, OpenCanSend DEF AtHand, Handling
<1>4. joined' = [joined EXCEPT ![c] = taken]
  BY <1>2 DEF InitSocket
<1>5. \A k \in Slot : /\ clients'[k].connected = clients[k].connected
                      /\ clients'[k].socket = IF k = m THEN Sock ELSE clients[k].socket
                      /\ clients'[k].mutex = clients[k].mutex
  BY <1>1, <1>2 DEF Descriptors, SlotTypes, Client
<1>6. \A k \in Slot : clients[k].connected /\ k # m => clients[k].socket # Sock
  BY <1>1 DEF Descriptors, Registration, SlotsOf
<1> HIDE DEF c, m
<1>7. StayTypes'
  BY <1>1, <1>4 DEF StayTypes
<1>8. Connections' /\ Polled' /\ AtHand'
  BY <1>1 DEF Connections, Polled, Open, AtHand, Handling
<1>10. clients[m].connected /\ clients[m].socket = NULL
  BY <1>1, <1>2 DEF AtHand, Handling, SlotsFilled, m
<1>11. SlotsFilled' /\ Sending'
  <2>1. clients'[m].socket # NULL /\ Open(Sock) /\ got[fds[Sock]] # <<>>
    BY <1>2, <1>3, <1>5 DEF c
  <2>2. SlotsFilled'
    BY <1>1, <1>2, <1>5, <1>10, <2>1 DEF SlotsFilled, Open, m
  <2>3. Sending'
    BY <1>1, <1>5, <1>10 DEF Sending, Descriptors, SlotTypes, Stays
  <2> QED
    BY <2>2, <2>3
<1>12. HandshakeFirst'
  BY <1>1 DEF HandshakeFirst
<1>13. AnsweredHasSlot'
  <2> SUFFICES ASSUME NEW d \in Conn, peer[d] = "open", got[d] # <<>>
               PROVE  \E k \in Slot : clients'[k].connected /\ clients'[k].socket # NULL
                                         /\ fds[clients'[k].socket] = d
    BY <1>1 DEF AnsweredHasSlot
  <2>1. CASE d = c
    BY <1>2, <1>5, <1>10, <2>1 DEF c
  <2>2. CASE d # c
    <3>1. PICK k \in Slot : clients[k].connected /\ clients[k].socket # NULL
                              /\ fds[clients[k].socket] = d
      BY <1>1, <2>2 DEF AnsweredHasSlot, c
    <3> QED
      BY <1>5, <1>10, <3>1
  <2> QED
    BY <2>1, <2>2
<1>14. Sent'
  <2> SUFFICES ASSUME NEW k \in Slot, clients'[k].connected, clients'[k].socket # NULL
               PROVE  (LET d == fds[clients[k].socket] IN
                       \E first \in {joined[d], joined[d] + 1} :
                         first <= Upto(k) + 1 /\ SentSince(d, first, Upto(k)))'
    BY DEF Sent
  <2>1. PICK d : d = fds[clients'[k].socket]
    OBVIOUS
  <2>2. Upto(k)' = Upto(k) /\ got' = got /\ fds' = fds
    BY <1>1 DEF Upto, Passed
  <2>3. CASE k = m
    <3>1. d = c
      BY <1>5, <2>1, <2>3 DEF c
    <3>2. Upto(k) \in {taken - 1, taken} /\ taken \in Nat
      BY DEF Upto, StayTypes
    <3>3. PICK first : first = Upto(k) + 1
      OBVIOUS
    <3>4. joined'[d] = taken
      BY <1>3, <1>4, <3>1 DEF StayTypes
    <3>5. first \in {joined'[d], joined'[d] + 1}
      BY <3>2, <3>3, <3>4
    <3>6. Len(got[d]) = 1 /\ got[d][1] = Accepted
      BY <1>3, <3>1
    <3>7. SentSince(d, first, Upto(k))'
      BY <2>2, <3>2, <3>3, <3>6 DEF SentSince
    <3> QED
      BY <2>1, <2>2, <3>2, <3>3, <3>5, <3>7
  <2>4. CASE k # m
    <3>1. clients[k].connected /\ clients[k].socket # NULL /\ d = fds[clients[k].socket]
      BY <1>5, <2>1, <2>4
    <3>2. PICK first \in {joined[d], joined[d] + 1} :
            first <= Upto(k) + 1 /\ SentSince(d, first, Upto(k))
      BY <1>1, <3>1 DEF Sent
    <3>3. d # c
      <4>1. clients[k].socket \in Fd /\ clients[k].socket # Sock /\ fds[clients[k].socket] # NULL
        BY <1>1, <1>6, <2>4, <3>1 DEF SlotsFilled, Open, Descriptors, SlotTypes, Client
      <4> QED
        BY <1>2, <3>1, <4>1 DEF Connections, c
    <3>4. joined'[d] = joined[d]
      BY <1>4, <3>3 DEF StayTypes
    <3>5. SentSince(d, first, Upto(k))'
      BY <2>2, <3>2 DEF SentSince
    <3> QED
      BY <2>1, <2>2, <3>2, <3>4, <3>5
  <2> QED
    BY <2>3, <2>4
<1>15. LostAtLimit' /\ UnloadClosesClients'
  BY <1>1 DEF LostAtLimit, Lost, Kept, AcceptedConns, UnloadClosesClients
<1> QED
  BY <1>7, <1>8, <1>11, <1>12, <1>13, <1>14, <1>15 DEF Stays
-----------------------------------------------------------------------------
(* Steps of the message thread that send nothing: a slot's descriptor and  *)
(* flag stay, and so does how far its broadcast is.                        *)
LEMMA MessengerStays ==
  ASSUME Staying, Descriptors', ws # "unloaded",
         UNCHANGED <<kernelVars, wsVars, raised, historyVars>>,
         \A k \in Slot :
           /\ clients'[k].connected = clients[k].connected
           /\ clients'[k].socket = clients[k].socket
           /\ clients[k].mutex # "none" => clients'[k].mutex # "none",
         \A k \in Slot : clients[k].connected /\ clients[k].socket # NULL => Upto(k)' = Upto(k),
         taken' \in Nat,
         mt' \in {"idle", "check", "lock", "read", "send", "unlock", "destroy", "ended"},
         Sending'
  PROVE  Staying'
<1> USE DEF kernelVars, wsVars, historyVars, Staying
<1>1. StayTypes' /\ Connections' /\ Polled'
  BY DEF StayTypes, Connections, Polled, Open
<1>2. AtHand'
  <2>1. ws \in {"connected", "socket"} => wsClient \in Slot
    BY DEF Descriptors, SlotTypes
  <2> QED
    BY <2>1 DEF AtHand, Sock, SlotsOf
<1>3. SlotsFilled' /\ HandshakeFirst' /\ UnloadClosesClients'
  BY DEF SlotsFilled, HandshakeFirst, UnloadClosesClients, Open
<1>4. AnsweredHasSlot'
  BY DEF AnsweredHasSlot, Sock
<1>5. Sent'
  <2> SUFFICES ASSUME NEW k \in Slot, clients'[k].connected, clients'[k].socket # NULL
               PROVE  (LET c == fds[clients[k].socket] IN
                       \E first \in {joined[c], joined[c] + 1} :
                         first <= Upto(k) + 1 /\ SentSince(c, first, Upto(k)))'
    BY DEF Sent
  <2>1. PICK c : c = fds[clients[k].socket]
    OBVIOUS
  <2>2. PICK first \in {joined[c], joined[c] + 1} :
          first <= Upto(k) + 1 /\ SentSince(c, first, Upto(k))
    BY <2>1 DEF Sent
  <2>3. Upto(k)' = Upto(k) /\ got' = got /\ fds'[clients'[k].socket] = c /\ joined' = joined
    BY <2>1
  <2>4. SentSince(c, first, Upto(k))'
    BY <2>2, <2>3 DEF SentSince
  <2> QED
    BY <2>2, <2>3, <2>4
<1>6. LostAtLimit'
  BY DEF LostAtLimit, Lost, Kept, AcceptedConns
<1> QED
  BY <1>1, <1>2, <1>3, <1>4, <1>5, <1>6 DEF Stays

(* When the broadcast goes on to the next slot, the slots that passed and  *)
(* the one it was at have passed.                                          *)
LEMMA NextSlotPasses ==
  ASSUME mtI \in Slot, mt \notin {"idle", "ended"}, NextSlot
  PROVE  /\ mtI' \in Slot /\ mt' \in {"check", "idle"}
         /\ \A k \in Slot : Passed(k)' <=> (Passed(k) \/ k = mtI)
<1>1. mtI \in 1..MaxClients /\ MaxClients \in Nat
  BY SizeAssumption DEF Slot
<1>2. CASE mtI < MaxClients
  BY <1>1, <1>2 DEF NextSlot, Passed, Slot
<1>3. CASE ~(mtI < MaxClients)
  BY <1>1, <1>3 DEF NextSlot, Passed, Slot
<1> QED
  BY <1>2, <1>3

(* The next event is taken when the last one has passed all slots. *)
LEMMA MtTakeStays ==
  ASSUME Staying, Descriptors', MtTake
  PROVE  Staying'
<1> USE DEF Staying
<1>1. /\ mt = "idle" /\ mt' = "check" /\ mtI' = 1 /\ taken' = taken + 1
      /\ UNCHANGED <<kernelVars, clients, wsVars, raised, mtSock, historyVars>>
  BY DEF MtTake
<1>2. taken' \in Nat /\ ws # "unloaded"
  BY <1>1 DEF StayTypes, Sending
<1>3. \A k \in Slot : Upto(k)' = Upto(k)
  BY <1>1 DEF Upto, Passed, StayTypes, Slot
<1>4. Sending'
  BY <1>1, <1>2 DEF Sending, wsVars
<1> QED
  BY <1>1, <1>2, <1>3, <1>4, MessengerStays

(* Only a slot that is not connected is passed over. *)
LEMMA MtSkipStays ==
  ASSUME Staying, Descriptors', MtSkip
  PROVE  Staying'
<1> USE DEF Staying
<1>1. /\ mt = "check" /\ ~clients[mtI].connected /\ NextSlot
      /\ UNCHANGED <<kernelVars, clients, wsVars, raised, taken, mtSock, historyVars>>
  BY DEF MtSkip
<1>2. taken' \in Nat /\ ws # "unloaded" /\ mtI \in Slot
  BY <1>1 DEF StayTypes, Sending, Descriptors, SlotTypes
<1>3. mt' \in {"check", "idle"} /\ \A k \in Slot : Passed(k)' <=> (Passed(k) \/ k = mtI)
  BY <1>1, <1>2, NextSlotPasses
<1>4. \A k \in Slot : clients[k].connected => Upto(k)' = Upto(k)
  BY <1>1, <1>3 DEF Upto
<1>5. Sending'
  BY <1>1, <1>2, <1>3 DEF Sending, wsVars
<1> QED
  BY <1>1, <1>2, <1>3, <1>4, <1>5, MessengerStays

(* The flag is tested, the mutex taken, the descriptor read. *)
LEMMA MtReadsStays ==
  ASSUME Staying, Descriptors', MtCheck \/ MtLock \/ MtRead
  PROVE  Staying'
<1> USE DEF Staying
<1>1. /\ UNCHANGED <<kernelVars, wsVars, raised, taken, mtI, historyVars>>
      /\ \/ mt = "check" /\ clients[mtI].connected /\ mt' = "lock" /\ UNCHANGED <<clients, mtSock>>
         \/ mt = "lock" /\ mt' = "read" /\ UNCHANGED mtSock
         \/ mt = "read" /\ mt' = "send" /\ UNCHANGED clients /\ mtSock' = clients[mtI].socket
  BY DEF MtCheck, MtLock, MtRead
<1>2. taken' \in Nat /\ ws # "unloaded" /\ mtI \in Slot
  BY <1>1 DEF StayTypes, Sending, Descriptors, SlotTypes
<1>3. /\ \A k \in Slot : /\ clients'[k].connected = clients[k].connected
                         /\ clients'[k].socket = clients[k].socket
                         /\ clients[k].mutex # "none" => clients'[k].mutex # "none"
      /\ mt \in {"lock", "read"} => clients'[mtI].mutex = "held"
  <2>1. CASE mt = "lock"
    <3>1. clients[mtI].connected /\ clients[mtI].mutex # "none"
      BY <1>2, <2>1 DEF Sending, SlotsFilled
    <3>2. clients' = [clients EXCEPT ![mtI].mutex = "held"]
      BY <2>1, <3>1 DEF MtCheck, MtLock, MtRead
    <3> QED
      BY <1>2, <3>2 DEF Descriptors, SlotTypes, Client
  <2>2. CASE mt # "lock"
    BY <1>1, <2>2 DEF Sending
  <2> QED
    BY <2>1, <2>2
<1>4. \A k \in Slot : clients[k].connected /\ clients[k].socket # NULL => Upto(k)' = Upto(k)
  BY <1>1 DEF Upto, Passed
<1>5. Sending'
  BY <1>1, <1>2, <1>3 DEF Sending, wsVars
<1> QED
  BY <1>1, <1>2, <1>3, <1>4, <1>5, MessengerStays

(* The slot has passed when its mutex is given back, or never will be. *)
LEMMA MtEndsStays ==
  ASSUME Staying, Descriptors', MtUnlock \/ MtDestroy
  PROVE  Staying'
<1> USE DEF Staying
<1>1. mt \in {"unlock", "destroy"} /\ mtI \in Slot /\ clients[mtI].mutex = "held"
  BY DEF MtUnlock, MtDestroy, Sending, Descriptors, SlotTypes
<1>2. /\ UNCHANGED <<kernelVars, wsVars, raised, taken, mtSock, historyVars>>
      /\ NextSlot
      /\ clients' = [clients EXCEPT ![mtI].mutex = "free"] \/ UNCHANGED clients
  BY <1>1 DEF MtUnlock, MtDestroy, DestroyFails, Stays
<1>3. \A k \in Slot : /\ clients'[k].connected = clients[k].connected
                      /\ clients'[k].socket = clients[k].socket
                      /\ clients[k].mutex # "none" => clients'[k].mutex # "none"
  BY <1>1, <1>2 DEF Descriptors, SlotTypes, Client
<1>4. mt' \in {"check", "idle"} /\ \A k \in Slot : Passed(k)' <=> (Passed(k) \/ k = mtI)
  BY <1>1, <1>2, NextSlotPasses
<1>5. \A k \in Slot : Upto(k)' = Upto(k)
  BY <1>1, <1>2, <1>4 DEF Upto, Passed
<1>6. taken' \in Nat /\ ws # "unloaded"
  BY <1>1, <1>2 DEF StayTypes, Sending
<1>7. Sending'
  BY <1>2, <1>4, <1>6 DEF Sending, wsVars
<1> QED
  BY <1>2, <1>3, <1>4, <1>5, <1>6, <1>7, MessengerStays
(* The message thread returns when it has nothing in hand. *)
LEMMA MtReturnsStays ==
  ASSUME Staying, Descriptors', MtReturns
  PROVE  Staying'
<1>1. /\ ws = "ended" /\ mt = "idle" /\ mt' = "ended"
      /\ UNCHANGED <<kernelVars, clients, wsVars, raised, taken, mtI, mtSock, historyVars>>
  BY DEF MtReturns
<1>2. \A k \in Slot : Upto(k)' = Upto(k)
  BY <1>1 DEF Upto, Passed
<1>3. Sending' /\ taken' \in Nat
  BY <1>1 DEF Staying, Sending, StayTypes, wsVars
<1> QED
  BY <1>1, <1>2, <1>3, MessengerStays

(* The event in hand is sent to the slot's browser and to nobody else, or  *)
(* the descriptor was read too early and no send is possible.              *)
LEMMA MtSendStays ==
  ASSUME Staying, Descriptors', MtSend
  PROVE  Staying'
<1> USE DEF wsVars, historyVars, Staying
<1>1. /\ mt = "send" /\ ws # "unloaded" /\ mtI \in Slot
      /\ UNCHANGED <<fds, wire, clients, wsVars, raised, taken, mtI, mtSock, historyVars>>
  BY DEF MtSend, Sending, Descriptors, SlotTypes
<1>2. clients[mtI].connected /\ clients[mtI].mutex = "held"
  BY <1>1 DEF Sending
<1>3. CASE mtSock = NULL
  <2>1. mt' = "destroy" /\ UNCHANGED <<peer, got>>
    BY <1>3 DEF MtSend, CanSend, Open
  <2>2. \A k \in Slot : clients[k].connected /\ clients[k].socket # NULL => Upto(k)' = Upto(k)
    BY <1>1, <1>3, <2>1 DEF Upto, Passed
  <2>3. Sending' /\ taken' \in Nat
    BY <1>1, <1>2, <2>1 DEF Sending, StayTypes
  <2> QED
    BY <1>1, <2>1, <2>2, <2>3, MessengerStays DEF kernelVars
<1>4. CASE mtSock # NULL
  <2> DEFINE c == fds[mtSock]
  <2>1. mtSock = clients[mtI].socket /\ mtSock \in Fd
    BY <1>1, <1>4 DEF Sending, Descriptors, SlotTypes, Client
  <2>2. Open(mtSock) /\ got[c] # <<>>
    BY <1>1, <1>2, <1>4, <2>1 DEF SlotsFilled
  <2>3. CanSend(mtSock) /\ c \in Conn /\ peer[c] = "open"
    BY <2>1, <2>2, OpenCanSend
  <2>4. mt' = "unlock" /\ got' = [got EXCEPT ![c] = Append(@, taken)] /\ UNCHANGED peer
    BY <2>3 DEF MtSend, Deliver, Stays
  <2>5. \A k \in Slot : (k # mtI /\ clients[k].connected /\ clients[k].socket # NULL) =>
                        fds[clients[k].socket] # c
    <3> SUFFICES ASSUME NEW k \in Slot, k # mtI, clients[k].connected, clients[k].socket # NULL
                 PROVE  fds[clients[k].socket] # c
      OBVIOUS
    <3>1. clients[k].socket # mtSock
      <4>1. ws = "socket" => wsClient # k /\ wsClient # mtI
        BY <1>1, <1>2, <1>4, <2>1 DEF SlotsFilled
      <4> QED
        BY <1>1, <1>2, <2>1, <4>1 DEF Descriptors, UniqueSocket
    <3>2. clients[k].socket \in Fd /\ fds[clients[k].socket] # NULL
      BY <1>1 DEF SlotsFilled, Open, Descriptors, SlotTypes, Client
    <3> QED
      BY <2>1, <3>1, <3>2 DEF Connections
  <2>6. ws \in Handling => Sock \in Fd /\ fds[Sock] # NULL /\ fds[Sock] # c
    <3> SUFFICES ASSUME ws \in Handling
                 PROVE  Sock \in Fd /\ fds[Sock] # NULL /\ fds[Sock] # c
      OBVIOUS
    <3>1. Sock \in Fd /\ fds[Sock] # NULL
      BY <1>1 DEF AtHand, Polled, Open, Descriptors, SlotTypes, Sock
    <3>2. Sock # mtSock
      <4>1. ws \notin {"lookup", "socket"} => mtI \notin SlotsOf(Sock)
        BY <1>1 DEF Descriptors, Registration, AtHand, Handling
      <4>2. ws = "lookup" => got[fds[Sock]] = <<>>
        BY DEF AtHand
      <4>3. ws = "socket" => mtI # wsClient /\ SlotsOf(Sock) \subseteq {wsClient}
        BY <1>1, <1>2, <1>4, <2>1 DEF SlotsFilled, Descriptors, Registration
      <4> QED
        BY <1>1, <1>2, <2>1, <2>2, <4>1, <4>2, <4>3 DEF SlotsOf
    <3> QED
      BY <2>1, <3>1, <3>2 DEF Connections
  <2>7. got' \in [Conn -> Seq(Int)] /\ taken \in Int
        /\ Len(got'[c]) = Len(got[c]) + 1 /\ got'[c][Len(got[c]) + 1] = taken
        /\ \A i \in 1..Len(got[c]) : got'[c][i] = got[c][i]
    <3>1. taken \in Int /\ got[c] \in Seq(Int)
      BY <2>3 DEF StayTypes
    <3> HIDE DEF c
    <3>2. got'[c] = Append(got[c], taken)
      BY <2>3, <2>4 DEF StayTypes
    <3> QED
      BY <2>3, <2>4, <3>1, <3>2 DEF StayTypes
  <2>8. \A d \in Conn \ {c} : got'[d] = got[d]
    BY <2>4 DEF StayTypes
  <2>9. got'[c] # <<>> /\ got'[c][1] = got[c][1] /\ Len(got[c]) \in Nat \ {0}
    <3>1. got[c] \in Seq(Int) /\ got'[c] \in Seq(Int)
      BY <2>3, <2>7 DEF StayTypes
    <3>2. Len(got[c]) \in Nat \ {0}
      BY <2>2, <3>1, EmptySeq
    <3> QED
      BY <2>7, <3>1, <3>2
  <2> HIDE DEF c
  <2>10. StayTypes'
    BY <1>1, <2>4, <2>7 DEF StayTypes
  <2>11. Connections'
    BY <1>1, <2>2, <2>3, <2>4, <2>8, <2>9 DEF Connections
  <2>12. Polled'
    BY <1>1 DEF Polled, Open
  <2>13. AtHand'
    <3>1. ws \in Handling => fds[Sock] \in Conn \ {c}
      BY <2>6 DEF StayTypes
    <3> QED
      BY <1>1, <2>8, <3>1 DEF AtHand, Sock, SlotsOf
  <2>14. SlotsFilled'
    BY <1>1, <2>8, <2>9 DEF SlotsFilled, Open, Descriptors, SlotTypes, Client, StayTypes
  <2>15. Sending'
    BY <1>1, <1>2, <2>4 DEF Sending
  <2>16. HandshakeFirst'
    BY <2>2, <2>3, <2>8, <2>9 DEF HandshakeFirst
  <2>17. AnsweredHasSlot'
    BY <1>1, <2>2, <2>4, <2>8 DEF AnsweredHasSlot, Sock
  <2>18. Sent'
    <3> SUFFICES ASSUME NEW k \in Slot, clients[k].connected, clients[k].socket # NULL
                 PROVE  (LET d == fds[clients[k].socket] IN
                         \E first \in {joined[d], joined[d] + 1} :
                           first <= Upto(k) + 1 /\ SentSince(d, first, Upto(k)))'
      BY <1>1 DEF Sent
    <3>1. PICK d : d = fds[clients[k].socket]
      OBVIOUS
    <3>2. PICK first \in {joined[d], joined[d] + 1} :
            first <= Upto(k) + 1 /\ SentSince(d, first, Upto(k))
      BY <1>1, <3>1 DEF Sent
    <3>3. fds'[clients'[k].socket] = d /\ joined' = joined
      BY <1>1, <3>1
    <3>4. CASE k = mtI
      <4>1. d = c
        BY <2>1, <3>1, <3>4 DEF c
      <4>2. Upto(k) = taken - 1 /\ Upto(k)' = taken
        BY <1>1, <1>4, <2>4, <3>4, SizeAssumption DEF Upto, Passed, Slot
      <4>3. first \in Nat /\ taken \in Nat
        BY <2>3, <3>2, <4>1 DEF StayTypes
      <4>4. Len(got[c]) = taken - first + 1 /\ got[c][1] = Accepted
            /\ \A i \in 2..Len(got[c]) : got[c][i] = first + i - 2
        BY <3>2, <4>1, <4>2, <4>3 DEF SentSince
      <4>5. Len(got'[c]) = taken - first + 2 /\ got'[c][1] = Accepted
        BY <2>7, <2>9, <4>3, <4>4
      <4>6. \A i \in 2..Len(got'[c]) : got'[c][i] = first + i - 2
        <5> SUFFICES ASSUME NEW i \in 2..Len(got'[c])
                     PROVE  got'[c][i] = first + i - 2
          OBVIOUS
        <5>1. CASE i = Len(got[c]) + 1
          BY <2>7, <4>3, <4>4, <5>1
        <5>2. CASE i # Len(got[c]) + 1
          <6>1. i \in 2..Len(got[c])
            BY <2>7, <2>9, <5>2
          <6> QED
            BY <2>7, <4>4, <6>1
        <5> QED
          BY <5>1, <5>2
      <4>7. SentSince(d, first, Upto(k))'
        BY <4>1, <4>2, <4>5, <4>6, <1>1 DEF SentSince
      <4>8. first <= taken + 1
        BY <3>2, <4>2, <4>3
      <4> QED
        BY <3>2, <3>3, <4>2, <4>7, <4>8
    <3>5. CASE k # mtI
      <4>1. Upto(k)' = Upto(k)
        BY <1>1, <1>4, <2>4, <3>5 DEF Upto, Passed
      <4>2. got'[d] = got[d]
        <5>1. clients[k].socket \in Fd /\ fds[clients[k].socket] \in Conn
          BY <1>1, OpenCanSend DEF SlotsFilled, Descriptors, SlotTypes, Client
        <5> QED
          BY <2>5, <2>8, <3>1, <3>5, <5>1
      <4>3. SentSince(d, first, Upto(k))'
        BY <3>2, <4>1, <4>2 DEF SentSince
      <4> QED
        BY <3>2, <3>3, <4>1, <4>3
    <3> QED
      BY <3>4, <3>5
  <2>19. LostAtLimit' /\ UnloadClosesClients'
    BY <1>1, <2>4 DEF LostAtLimit, Lost, Kept, AcceptedConns, UnloadClosesClients
  <2> QED
    BY <2>10, <2>11, <2>12, <2>13, <2>14, <2>15, <2>16, <2>17, <2>18, <2>19 DEF Stays
<1> QED
  BY <1>3, <1>4
(* Without a descriptor for it, a connection waits to be accepted. *)
LEMMA AcceptFailsStays ==
  ASSUME Staying, Descriptors', AcceptFails
  PROVE  Staying'
<1>1. /\ ws = "accept" /\ ws' \in {"scan", "poll"}
      /\ UNCHANGED <<kernelVars, clients, pollfds, revents, wsI, wsClient, clients_locked,
                     mtVars, historyVars>>
  BY DEF AcceptFails
<1>2. mt # "ended"
  BY <1>1 DEF Staying, Sending
<1> QED
  BY <1>1, <1>2, ServerMoves

(* Unloading closes the slots' descriptors, except those of slots whose    *)
(* mutex was never given back.                                             *)
LEMMA FreeClientsStays ==
  ASSUME Staying, Descriptors', FreeClients
  PROVE  Staying'
<1> USE DEF mtVars, historyVars, wsLocals, Staying
<1> DEFINE freed  == {k \in ConnectedSlots : ~DestroyFails(k)}
           closed == {f \in Fd : CanSend(f) /\ \E k \in freed : clients[k].socket = f}
<1>1. /\ ws = "ended" /\ mt = "ended" /\ ws' = "unloaded"
      /\ clients' = [k \in Slot |-> IF k \in freed THEN EmptySlot ELSE clients[k]]
      /\ fds' = [f \in Fd |-> IF f \in closed THEN NULL ELSE fds[f]]
      /\ peer' = [c \in Conn |-> IF \E f \in closed : fds[f] = c THEN "closed" ELSE peer[c]]
      /\ UNCHANGED <<wire, got, wsLocals, mtVars, historyVars>>
  BY DEF FreeClients
<1>2. \A k \in Slot \ freed : clients[k].connected => clients[k].mutex = "held"
  BY DEF ConnectedSlots, DestroyFails
<1>3. \A f \in closed : f \in Fd /\ fds[f] \in Conn /\ peer[fds[f]] = "open"
  BY DEF CanSend, Open, StayTypes, Connections
<1>4. \A k \in Slot : k \in freed /\ clients[k].socket # NULL => clients[k].socket \in closed
  <2> SUFFICES ASSUME NEW k \in Slot, k \in freed, clients[k].socket # NULL
               PROVE  clients[k].socket \in closed
    OBVIOUS
  <2>1. Open(clients[k].socket) /\ clients[k].socket \in Fd
    BY <1>1 DEF SlotsFilled, ConnectedSlots, Descriptors, SlotTypes, Client
  <2> QED
    BY <2>1, OpenCanSend
<1> HIDE DEF freed, closed
<1>5. StayTypes'
  BY <1>1 DEF StayTypes
<1>6. Connections'
  BY <1>1, <1>3 DEF Connections, StayTypes
<1>7. Polled' /\ AtHand' /\ SlotsFilled' /\ Sending'
  BY <1>1 DEF Polled, AtHand, Handling, SlotsFilled, Sending
<1>8. HandshakeFirst' /\ AnsweredHasSlot' /\ Sent'
  BY <1>1 DEF HandshakeFirst, AnsweredHasSlot, Sent
<1>9. LostAtLimit'
  <2>1. AcceptedConns' = AcceptedConns
    BY <1>1, <1>3 DEF AcceptedConns, StayTypes
  <2>2. Lost' \subseteq Lost
    <3> SUFFICES ASSUME NEW c \in Lost'
                 PROVE  c \in Lost
      OBVIOUS
    <3>1. c \in Conn /\ peer[c] = "open" /\ \A f \in closed : fds[f] # c
      BY <1>1 DEF Lost, StayTypes
    <3>2. ASSUME NEW i \in 1..MaxActive, pollfds[i] # NULL
          PROVE  fds[pollfds[i]] # c
      <4>1. fds'[pollfds[i]] # c /\ pollfds[i] \in Fd
        BY <1>1, <3>2 DEF Lost, Descriptors, SlotTypes
      <4> QED
        BY <1>1, <3>1, <4>1
    <3> QED
      BY <3>1, <3>2 DEF Lost
  <2>3. CASE Lost = {}
    BY <2>2, <2>3 DEF LostAtLimit
  <2>4. CASE MaxActive <= Cardinality(Kept)
    <3>1. Kept \subseteq Kept' /\ IsFiniteSet(Kept')
      BY <2>1, <2>2, ConnAssumption, FS_Subset DEF Kept, AcceptedConns
    <3>2. Cardinality(Kept) <= Cardinality(Kept')
      BY <3>1, FS_Subset
    <3>3. Cardinality(Kept) \in Nat /\ Cardinality(Kept') \in Nat
      BY <3>1, FS_Subset, FS_CardinalityType
    <3> QED
      BY <2>4, <3>2, <3>3, SizeAssumption DEF LostAtLimit
  <2> QED
    BY <2>3, <2>4 DEF LostAtLimit
<1>10. UnloadClosesClients'
  <2> SUFFICES ASSUME NEW c \in Conn, peer'[c] = "open", Upgraded(c)
               PROVE  c \in Stuck'
    BY <1>1 DEF UnloadClosesClients, Upgraded
  <2>1. got[c] # <<>>
    BY DEF Upgraded, ToSet
  <2>2. peer[c] = "open" /\ \A f \in closed : fds[f] # c
    BY <1>1 DEF StayTypes
  <2>3. PICK k \in Slot : clients[k].connected /\ clients[k].socket # NULL
                            /\ fds[clients[k].socket] = c
    BY <1>1, <2>1, <2>2 DEF AnsweredHasSlot
  <2>4. k \notin freed
    BY <1>4, <2>2, <2>3
  <2>5. clients'[k] = clients[k] /\ clients[k].mutex = "held"
    BY <1>1, <1>2, <2>3, <2>4
  <2>6. clients[k].socket \in Fd /\ clients[k].socket \notin closed /\ c # NULL
    BY <2>2, <2>3, NullAssumption DEF Descriptors, SlotTypes, Client
  <2>7. fds'[clients[k].socket] = c
    BY <1>1, <2>3, <2>6
  <2> QED
    BY <2>3, <2>5, <2>6, <2>7 DEF Stuck, ConnectedSlots, Open
<1> QED
  BY <1>5, <1>6, <1>7, <1>8, <1>9, <1>10 DEF Stays

-----------------------------------------------------------------------------
(* Every step keeps the invariant. *)
LEMMA StayingStep == Staying /\ [Next]_vars => Staying'
<1> SUFFICES ASSUME Staying, [Next]_vars
             PROVE  Staying'
  OBVIOUS
<1>1. Descriptors'
  BY DescriptorsStep DEF Staying
<1>2. ASSUME NEW c \in Conn, PeerConnects(c)
      PROVE  Staying'
  BY <1>1, <1>2, ConnectsStay
<1>3. CASE Raise \/ UNCHANGED vars
  <2>1. raised' \in Nat /\ UNCHANGED <<kernelVars, clients, wsVars, taken, mt, mtI, mtSock, historyVars>>
    BY <1>3 DEF Raise, vars, mtVars, Staying, StayTypes
  <2> QED
    BY <1>1, <2>1, NothingMoves
<1>4. CASE Poll \/ NoneToAccept \/ ScanEnds \/ PollFails \/ ServeReturns
  <2>1. /\ UNCHANGED <<kernelVars, clients, pollfds, clients_locked, mtVars, historyVars>>
        /\ ws \in {"poll", "accept", "scan"} /\ ws' \in {"poll", "accept", "scan", "ended"}
        /\ revents' = revents \/ revents' = [i \in 1..MaxActive |-> Events(pollfds[i])]
    BY <1>4 DEF Poll, NoneToAccept, ScanEnds, PollFails, ServeReturns, wsLocals
  <2>2. mt # "ended"
    BY <2>1 DEF Staying, Sending
  <2> QED
    BY <1>1, <2>1, <2>2, ServerMoves
<1>5. CASE Accept \/ AcceptFails \/ ScanInput \/ Lookup \/ Handshake \/ LimitReached \/ Drop
  BY <1>1, <1>5, AcceptStays, AcceptFailsStays, ScanInputStays, LookupStays, HandshakeStays,
     LimitReachedStays, DropStays
<1>6. CASE InitMutex \/ InitConnected \/ InitSocket
  BY <1>1, <1>6, InitMutexStays, InitConnectedStays, InitSocketStays
<1>7. CASE MtTake \/ MtSkip \/ MtCheck \/ MtLock \/ MtRead \/ MtSend \/ MtUnlock \/ MtDestroy
  BY <1>1, <1>7, MtTakeStays, MtSkipStays, MtReadsStays, MtSendStays, MtEndsStays
<1>8. CASE MtReturns \/ FreeClients
  BY <1>1, <1>8, MtReturnsStays, FreeClientsStays
<1> QED
  BY <1>2, <1>3, <1>4, <1>5, <1>6, <1>7, <1>8, StayingNext

(* The inductive invariant holds as long as browsers stay. *)
THEOREM StayingHolds == Stays /\ Spec => []Staying
BY StayingInit, StayingStep, PTL DEF Spec

(* A browser is sent the answer to its handshake before any event.         *)
THEOREM HandshakeComesFirst == Stays /\ Spec => []HandshakeFirst
<1>1. Staying => HandshakeFirst
  BY DEF Staying
<1> QED
  BY <1>1, StayingHolds, PTL

(* Between two rounds of the server, nobody that was upgraded waits for    *)
(* events without a slot, and nobody that was refused is still polled.     *)
THEOREM UpgradedHaveSlots == Stays /\ Spec => []UpgradedHasSlot
<1>1. ASSUME Staying
      PROVE  UpgradedHasSlot
  <2> SUFFICES ASSUME ws = "poll", NEW i \in 1..MaxActive,
                      Open(pollfds[i]), Upgraded(fds[pollfds[i]])
               PROVE  SlotsOf(pollfds[i]) # {}
    BY DEF UpgradedHasSlot
  <2>1. pollfds[i] \in Fd
    BY <1>1 DEF Open, Staying, Descriptors, SlotTypes
  <2>2. fds[pollfds[i]] \in Conn /\ peer[fds[pollfds[i]]] = "open"
    BY <1>1, <2>1, OpenCanSend
  <2>3. got[fds[pollfds[i]]] # <<>>
    BY DEF Upgraded, ToSet
  <2>4. PICK k \in Slot : clients[k].connected /\ clients[k].socket # NULL
                            /\ fds[clients[k].socket] = fds[pollfds[i]]
    BY <1>1, <2>2, <2>3 DEF Staying, AnsweredHasSlot
  <2>5. clients[k].socket = pollfds[i]
    BY <1>1, <2>1, <2>4 DEF Staying, Connections, Open, Descriptors, SlotTypes, Client
  <2> QED
    BY <2>4, <2>5 DEF SlotsOf
<1> QED
  BY <1>1, StayingHolds, PTL

(* A browser that is served has been sent every event since it got its     *)
(* slot, once and in order, however the server registers and refuses       *)
(* others while the message thread goes from slot to slot.                 *)
THEOREM EachEventOnceHolds == Stays /\ Spec => []EachEventOnce
<1>1. ASSUME Staying
      PROVE  EachEventOnce
  <2> SUFFICES ASSUME NEW c \in Conn, Served(c), mt = "idle"
               PROVE  \E first \in {joined[c], joined[c] + 1} :
                        got[c] = <<Accepted>> \o [i \in 1..taken - first + 1 |-> first + i - 1]
    BY DEF EachEventOnce
  <2>1. PICK k \in Slot : clients[k].connected /\ clients[k].socket # NULL
                            /\ fds[clients[k].socket] = c
    BY DEF Served, Open
  <2>2. PICK first \in {joined[c], joined[c] + 1} :
          first <= Upto(k) + 1 /\ SentSince(c, first, Upto(k))
    BY <1>1, <2>1 DEF Staying, Sent, Sending
  <2>3. Upto(k) = taken /\ taken \in Nat /\ first \in Nat /\ got[c] \in Seq(Int)
    BY <1>1, <2>2 DEF Upto, Passed, Staying, StayTypes
  <2> DEFINE n == taken - first + 1
             t == [i \in 1..n |-> first + i - 1]
             a == <<Accepted>>
  <2>4. n \in Nat
    BY <2>2, <2>3
  <2>5. t \in Seq(Int) /\ Len(t) = n /\ \A i \in 1..n : t[i] = first + i - 1
    <3> HIDE DEF n
    <3> QED
      BY <2>3, <2>4
  <2>6. a \in Seq(Int) /\ Len(a) = 1 /\ a[1] = Accepted
    BY DEF Accepted
  <2>7. Len(got[c]) = n + 1 /\ got[c][1] = Accepted
        /\ \A i \in 2..Len(got[c]) : got[c][i] = first + i - 2
    BY <2>2, <2>3 DEF SentSince
  <2> HIDE DEF n, t, a
  <2>8. a \o t \in Seq(Int) /\ Len(a \o t) = n + 1
        /\ \A i \in 1..n + 1 : (a \o t)[i] = IF i <= 1 THEN a[i] ELSE t[i - 1]
    <3>1. /\ a \o t \in Seq(Int)
          /\ Len(a \o t) = Len(a) + Len(t)
          /\ \A i \in 1..Len(a) + Len(t) :
               (a \o t)[i] = IF i <= Len(a) THEN a[i] ELSE t[i - Len(a)]
      BY <2>5, <2>6, ConcatProperties
    <3>2. Len(a) + Len(t) = n + 1
      BY <2>4, <2>5, <2>6
    <3> QED
      BY <2>6, <3>1, <3>2
  <2>9. \A i \in 1..Len(got[c]) : got[c][i] = (a \o t)[i]
    <3> SUFFICES ASSUME NEW i \in 1..n + 1
                 PROVE  got[c][i] = (a \o t)[i]
      BY <2>7
    <3>1. CASE i = 1
      <4>1. (a \o t)[1] = a[1]
        BY <2>4, <2>8
      <4> QED
        BY <2>6, <2>7, <3>1, <4>1
    <3>2. CASE i # 1
      <4>1. i \in 2..n + 1 /\ i - 1 \in 1..n /\ i \in Int
        BY <2>4, <3>2
      <4>2. (a \o t)[i] = t[i - 1]
        BY <2>8, <4>1
      <4>3. t[i - 1] = first + (i - 1) - 1
        BY <2>5, <4>1
      <4> QED
        BY <2>3, <2>7, <4>1, <4>2, <4>3
    <3> QED
      BY <3>1, <3>2
  <2>10. got[c] = a \o t
    BY <2>3, <2>7, <2>8, <2>9, SeqEqual
  <2> QED
    BY <2>2, <2>10 DEF a, t, n
<1> QED
  BY <1>1, StayingHolds, PTL

(* The server forgets a connection only when all places were taken, and    *)
(* only one for each connection beyond them.                               *)
THEOREM LostOnlyBeyondLimit == Stays /\ Spec => []LostOnlyAtLimit
<1>1. ASSUME Staying
      PROVE  LostOnlyAtLimit
  <2>1. IsFiniteSet(AcceptedConns) /\ IsFiniteSet(Lost) /\ IsFiniteSet(Kept)
    BY ConnAssumption, FS_Subset DEF AcceptedConns, Lost, Kept
  <2>2. Lost \subseteq AcceptedConns
    BY DEF Lost, AcceptedConns
  <2>3. Lost \cup Kept = AcceptedConns /\ Lost \cap Kept = {}
    BY <2>2 DEF Kept
  <2>4. Cardinality(AcceptedConns) = Cardinality(Lost) + Cardinality(Kept)
    <3>1. Cardinality(Lost \cup Kept) = Cardinality(Lost) + Cardinality(Kept) - Cardinality(Lost \cap Kept)
      BY <2>1, FS_Union
    <3>2. Cardinality(Lost \cap Kept) = 0 /\ Cardinality(Lost) \in Nat /\ Cardinality(Kept) \in Nat
      BY <2>1, <2>3, FS_EmptySet, FS_CardinalityType
    <3>3. Cardinality(AcceptedConns) = Cardinality(Lost \cup Kept)
      BY <2>3
    <3> QED
      BY <3>1, <3>2, <3>3
  <2>5. Cardinality(Lost) \in Nat /\ Cardinality(Kept) \in Nat
    BY <2>1, FS_CardinalityType
  <2> QED
    BY <1>1, <2>4, <2>5, SizeAssumption DEF Staying, LostAtLimit, LostOnlyAtLimit, AcceptedConns
<1> QED
  BY <1>1, StayingHolds, PTL

(* Unloading the plugin leaves no upgraded connection open, but for those  *)
(* whose slot's mutex the message thread never gave back.                  *)
THEOREM UnloadCloses == Stays /\ Spec => []UnloadClosesClients
<1>1. Staying => UnloadClosesClients
  BY DEF Staying
<1> QED
  BY <1>1, StayingHolds, PTL

-----------------------------------------------------------------------------
(* What browsers were sent, served or not                                   *)

(* A browser is sent no event that was not taken off the queue, and events *)
(* in the order they were taken, each once.                                *)
TextsRise ==
  \A c \in Conn :
    /\ \A i \in 1..Len(got[c]) : got[c][i] <= taken
    /\ \A i, j \in 1..Len(got[c]) :
         (i < j /\ got[c][i] > 0 /\ got[c][j] > 0) => got[c][i] < got[c][j]

(* An event is sent on a slot's descriptor behind all others before it. *)
LEMMA SendIsNewer ==
  ASSUME Staying, mt = "send", mtSock # NULL
  PROVE  /\ mtSock \in Fd /\ CanSend(mtSock)
         /\ fds[mtSock] \in Conn /\ peer[fds[mtSock]] = "open"
         /\ \A i \in 1..Len(got[fds[mtSock]]) : got[fds[mtSock]][i] > 0 => got[fds[mtSock]][i] < taken
<1> USE DEF Staying
<1> DEFINE c == fds[mtSock]
<1>1. mtI \in Slot /\ clients[mtI].connected /\ mtSock = clients[mtI].socket /\ ws # "unloaded"
  BY DEF Sending, Descriptors, SlotTypes
<1>2. mtSock \in Fd /\ Open(mtSock)
  BY <1>1 DEF SlotsFilled, Descriptors, SlotTypes, Client
<1>3. CanSend(mtSock) /\ c \in Conn /\ peer[c] = "open"
  BY <1>2, OpenCanSend
<1>4. PICK first \in {joined[c], joined[c] + 1} : SentSince(c, first, Upto(mtI))
  BY <1>1 DEF Sent
<1>5. Upto(mtI) = taken - 1
  BY <1>1, SizeAssumption DEF Upto, Passed, Slot
<1>6. first \in Nat /\ taken \in Nat
  BY <1>3, <1>4 DEF StayTypes
<1> HIDE DEF c
<1>7. ASSUME NEW i \in 1..Len(got[c]), got[c][i] > 0
      PROVE  got[c][i] < taken
  <2>1. /\ Len(got[c]) = taken - first + 1 /\ got[c][1] = 0
        /\ \A j \in 2..Len(got[c]) : got[c][j] = first + j - 2
    BY <1>4, <1>5, <1>6 DEF SentSince, Accepted
  <2>2. i \in 2..Len(got[c])
    BY <1>6, <1>7, <2>1
  <2> QED
    BY <1>6, <2>1, <2>2
<1> QED
  BY <1>2, <1>3, <1>7 DEF c

(* A step sends a browser nothing, an answer, or the event in hand. *)
LEMMA GotGrows ==
  ASSUME Staying, [Next]_vars, NEW c \in Conn
  PROVE  \/ got'[c] = got[c]
         \/ \E x \in {Accepted, CloseFrame} : got'[c] = Append(got[c], x)
         \/ /\ got'[c] = Append(got[c], taken)
            /\ \A i \in 1..Len(got[c]) : got[c][i] > 0 => got[c][i] < taken
<1> USE DEF Staying
<1>1. got \in [Conn -> Seq(Int)]
  BY DEF StayTypes
<1>2. ASSUME NEW d \in Conn, PeerConnects(d)
      PROVE  got' = got
  BY <1>2 DEF PeerConnects
<1>3. CASE Raise \/ Poll \/ NoneToAccept \/ Accept \/ AcceptFails \/ ScanEnds
           \/ ScanInput \/ Lookup \/ Drop \/ InitMutex \/ InitConnected \/ InitSocket
           \/ UNCHANGED vars
  BY <1>3 DEF Raise, Poll, NoneToAccept, Accept, AcceptFails, ScanEnds, ScanInput, Lookup,
     Drop, InitMutex, InitConnected, InitSocket, kernelVars, vars
<1>4. CASE MtTake \/ MtSkip \/ MtCheck \/ MtLock \/ MtRead \/ MtUnlock \/ MtDestroy
           \/ PollFails \/ ServeReturns \/ MtReturns \/ FreeClients
  BY <1>4 DEF MtTake, MtSkip, MtCheck, MtLock, MtRead, MtUnlock, MtDestroy,
     PollFails, ServeReturns, MtReturns, FreeClients, kernelVars
<1>5. ASSUME NEW f, NEW x, Deliver(f, x)
      PROVE  got' = got \/ got' = [got EXCEPT ![fds[f]] = Append(@, x)]
  BY <1>5 DEF Deliver
<1>6. ASSUME NEW f, NEW x, got' = [got EXCEPT ![fds[f]] = Append(@, x)]
      PROVE  got'[c] = got[c] \/ (c = fds[f] /\ got'[c] = Append(got[c], x))
  BY <1>1, <1>6
<1>7. CASE Handshake
  <2>1. got' = got \/ Deliver(Sock, Accepted)
    BY <1>7 DEF Handshake
  <2>2. got'[c] = got[c] \/ got'[c] = Append(got[c], Accepted)
    <3>1. got' = got \/ got' = [got EXCEPT ![fds[Sock]] = Append(@, Accepted)]
      BY <1>5, <2>1
    <3> QED
      BY <1>6, <3>1
  <2> QED
    BY <2>2
<1>8. CASE LimitReached
  <2>1. got' = got \/ \E f : Deliver(f, CloseFrame)
    BY <1>8 DEF LimitReached, TryDeliver
  <2>2. ASSUME NEW f, Deliver(f, CloseFrame)
        PROVE  got'[c] = got[c] \/ got'[c] = Append(got[c], CloseFrame)
    <3>1. got' = got \/ got' = [got EXCEPT ![fds[f]] = Append(@, CloseFrame)]
      BY <1>5, <2>2
    <3> QED
      BY <1>6, <3>1
  <2> QED
    BY <2>1, <2>2
<1>9. CASE MtSend
  <2>1. CASE got' = got
    BY <2>1
  <2>2. CASE got' # got
    <3>1. mt = "send" /\ CanSend(mtSock) /\ Deliver(mtSock, taken)
      BY <1>9, <2>2 DEF MtSend
    <3>2. mtSock # NULL
      BY <3>1 DEF CanSend, Open
    <3> QED
      <4>1. got' = [got EXCEPT ![fds[mtSock]] = Append(@, taken)]
        BY <1>5, <2>2, <3>1
      <4>2. got'[c] = got[c] \/ (c = fds[mtSock] /\ got'[c] = Append(got[c], taken))
        BY <1>6, <4>1
      <4> QED
        BY <3>1, <3>2, <4>2, SendIsNewer
  <2> QED
    BY <2>1, <2>2
<1> QED
  BY <1>2, <1>3, <1>4, <1>7, <1>8, <1>9, StayingNext

(* Events keep their order in what a browser was sent. *)
LEMMA TextsRiseStep == Staying /\ TextsRise /\ [Next]_vars => TextsRise'
<1> SUFFICES ASSUME Staying, TextsRise, [Next]_vars, NEW c \in Conn
             PROVE  (/\ \A i \in 1..Len(got[c]) : got[c][i] <= taken
                     /\ \A i, j \in 1..Len(got[c]) :
                          (i < j /\ got[c][i] > 0 /\ got[c][j] > 0) => got[c][i] < got[c][j])'
  BY DEF TextsRise
<1>1. got[c] \in Seq(Int) /\ taken \in Nat /\ Len(got[c]) \in Nat
      /\ \A i \in 1..Len(got[c]) : got[c][i] \in Int
  BY LenProperties, ElementOfSeq DEF Staying, StayTypes
<1>2. taken' \in {taken, taken + 1}
  BY StayingNext DEF PeerConnects, Raise, Poll, NoneToAccept, Accept, AcceptFails, ScanEnds,
     ScanInput, Lookup, Handshake, LimitReached, Drop, InitMutex, InitConnected, InitSocket,
     MtTake, MtSkip, MtCheck, MtLock, MtRead, MtSend, MtUnlock, MtDestroy,
     PollFails, ServeReturns, MtReturns, FreeClients, vars, mtVars
<1>3. /\ \A i \in 1..Len(got[c]) : got[c][i] <= taken'
      /\ \A i, j \in 1..Len(got[c]) :
           (i < j /\ got[c][i] > 0 /\ got[c][j] > 0) => got[c][i] < got[c][j]
  BY <1>1, <1>2 DEF TextsRise
<1>4. ASSUME NEW x \in Int, got'[c] = Append(got[c], x), x <= taken',
             x > 0 => \A i \in 1..Len(got[c]) : got[c][i] > 0 => got[c][i] < x
      PROVE  /\ \A i \in 1..Len(got'[c]) : got'[c][i] <= taken'
             /\ \A i, j \in 1..Len(got'[c]) :
                  (i < j /\ got'[c][i] > 0 /\ got'[c][j] > 0) => got'[c][i] < got'[c][j]
  <2>1. /\ Len(got'[c]) = Len(got[c]) + 1 /\ got'[c][Len(got[c]) + 1] = x
        /\ \A i \in 1..Len(got[c]) : got'[c][i] = got[c][i]
    BY <1>1, <1>4, AppendProperties
  <2>2. \A i \in 1..Len(got'[c]) : i = Len(got[c]) + 1 \/ i \in 1..Len(got[c])
    BY <1>1, <2>1
  <2>3. \A i, j \in 1..Len(got'[c]) : i < j => i \in 1..Len(got[c])
    BY <1>1, <2>1
  <2>4. \A i \in 1..Len(got'[c]) : got'[c][i] <= taken'
    BY <1>3, <1>4, <2>1, <2>2
  <2>5. \A i, j \in 1..Len(got'[c]) :
          (i < j /\ got'[c][i] > 0 /\ got'[c][j] > 0) => got'[c][i] < got'[c][j]
    BY <1>3, <1>4, <2>1, <2>2, <2>3
  <2> QED
    BY <2>4, <2>5
<1>5. Accepted = 0 /\ CloseFrame = -1
  BY DEF Accepted, CloseFrame
<1>6. taken <= taken' /\ 0 <= taken'
  BY <1>1, <1>2
<1>7. CASE got'[c] = got[c]
  BY <1>3, <1>7
<1>8. ASSUME NEW x \in {Accepted, CloseFrame}, got'[c] = Append(got[c], x)
      PROVE  /\ \A i \in 1..Len(got'[c]) : got'[c][i] <= taken'
             /\ \A i, j \in 1..Len(got'[c]) :
                  (i < j /\ got'[c][i] > 0 /\ got'[c][j] > 0) => got'[c][i] < got'[c][j]
  <2>1. x \in Int /\ x <= taken' /\ ~(x > 0)
    BY <1>1, <1>2, <1>5, <1>8
  <2> QED
    BY <1>4, <1>8, <2>1
<1>9. CASE /\ got'[c] = Append(got[c], taken)
           /\ \A i \in 1..Len(got[c]) : got[c][i] > 0 => got[c][i] < taken
  <2>1. taken \in Int /\ got'[c] = Append(got[c], taken) /\ taken <= taken'
    BY <1>1, <1>6, <1>9
  <2>2. taken > 0 => \A i \in 1..Len(got[c]) : got[c][i] > 0 => got[c][i] < taken
    BY <1>9
  <2> QED
    BY <1>4, <2>1, <2>2
<1> QED
  BY <1>7, <1>8, <1>9, GotGrows

(* No browser, served or not, is sent an event twice or out of order. *)
THEOREM TextsRiseHolds == Stays /\ Spec => []TextsRise
<1>1. Init => TextsRise
  BY DEF Init, TextsRise
<1> QED
  BY <1>1, TextsRiseStep, StayingHolds, PTL DEF Spec

=============================================================================
