------------------------------ MODULE WsClients ------------------------------
(***************************************************************************)
(* The WebSocket side of logger.c: the server thread (serve with the       *)
(* handler process_ws_request), the ws_clients slots, and the message      *)
(* thread that broadcasts each event to every connected slot.              *)
(*                                                                         *)
(* The two threads share the slots without a common lock: the server       *)
(* thread takes ws_clients_mutex and never a slot's mutex, the message     *)
(* thread takes slot mutexes and never ws_clients_mutex.  So every access  *)
(* of either thread to a slot is a step of its own.                        *)
(*                                                                         *)
(* The kernel's part (descriptors, connections) and the browsers are       *)
(* modelled from how the code uses them.  The event queue is reduced to    *)
(* its length; EventQueue models it.                                       *)
(***************************************************************************)
EXTENDS Integers, FiniteSets, FiniteSetsExt, Sequences, SequencesExt

CONSTANTS
  Conn,              \* connections browsers may open
  Fd,                \* descriptors the process can get
  NULL,              \* no descriptor, no connection, no slot
  MaxClients,        \* MAX_WS_CLIENTS
  MaxActive,         \* MAX_ACTIVE_CONNECTIONS
  MaxEvents,         \* bound on the events raised
  DestroyHeld,       \* mutex_destroy of a held mutex: "busy" (POSIX) or "ok" (Windows)
  Leave,             \* how browsers may leave: a subset of {"close", "fin", "rst"}
  AllocMayFail,      \* malloc and mutex_create may fail
  Unloads            \* the plugin may be unloaded

ASSUME NullAssumption == NULL \notin Conn \cup Fd \cup Nat
ASSUME ConnAssumption == IsFiniteSet(Conn)
ASSUME SizeAssumption ==
  /\ MaxClients \in Nat \ {0}
  /\ MaxActive \in Nat \ {0}
  /\ MaxEvents \in Nat
ASSUME EnvironmentAssumption ==
  /\ DestroyHeld \in {"busy", "ok"}
  /\ Leave \subseteq {"close", "fin", "rst"}
  /\ {AllocMayFail, Unloads} \subseteq BOOLEAN

Slot == 1..MaxClients

VARIABLES
  \* the kernel and the browsers
  fds,            \* descriptor -> the connection it is open on, or NULL
  peer,           \* what each browser did to its connection
  wire,           \* sent by each browser and not read yet
  got,            \* sent to each browser, in order
  \* shared by the two threads
  clients,        \* ws_clients
  \* server thread
  ws,             \* where it is
  pollfds,        \* descriptors polled
  revents,        \* what the last poll reported and was not handled yet
  server_ready,   \* the last poll reported a connection to accept
  wsI,            \* index in pollfds being handled
  wsClient,       \* process_ws_request's local `client`
  clients_locked, \* ws_clients_mutex is held by a handler that returned
  \* message thread
  raised,         \* events raised so far
  taken,          \* events taken off the queue so far: the one in hand is the last
  joined,         \* history: what `taken` was when a connection got its slot
  mt,             \* where it is
  mtI,            \* slot it is at
  mtSock          \* the client->socket it read

kernelVars == <<fds, peer, wire, got>>
wsVars == <<ws, pollfds, revents, server_ready, wsI, wsClient, clients_locked>>
mtVars == <<raised, taken, mt, mtI, mtSock>>
historyVars == <<joined>>
wsLocals == <<pollfds, revents, server_ready, wsI, wsClient, clients_locked>>
vars == <<kernelVars, clients, wsVars, mtVars, historyVars>>

-----------------------------------------------------------------------------
(* What a browser is sent: event n is the number n. *)
Accepted == 0      \* 101 Switching Protocols
CloseFrame == -1

(* Sending on the socket of an empty slot fails: it is INVALID_SOCKET, or  *)
(* the 0 of a slot never used, which is no socket of the plugin.           *)
EmptySlot == [connected |-> FALSE, socket |-> NULL, mutex |-> "none"]

Init ==
  /\ fds = [f \in Fd |-> NULL]
  /\ peer = [c \in Conn |-> "new"]
  /\ wire = [c \in Conn |-> <<>>]
  /\ got = [c \in Conn |-> <<>>]
  /\ clients = [k \in Slot |-> EmptySlot]
  /\ ws = "poll"
  /\ pollfds = [i \in 1..MaxActive |-> NULL]
  /\ revents = [i \in 1..MaxActive |-> {}]
  /\ server_ready = FALSE
  /\ wsI = 1
  /\ wsClient = NULL
  /\ clients_locked = FALSE
  /\ raised = 0
  /\ taken = 0
  /\ joined = [c \in Conn |-> 0]
  /\ mt = "idle"
  /\ mtI = 1
  /\ mtSock = NULL

-----------------------------------------------------------------------------
(* The kernel: what the socket calls do to a descriptor.                    *)

(* The connection a descriptor is open on. *)
Open(f) == f # NULL /\ fds[f] # NULL

(* send succeeds unless the descriptor is closed or the connection reset;  *)
(* the first send to a browser that is gone succeeds and draws the reset.  *)
CanSend(f) == Open(f) /\ peer[fds[f]] # "rst"

Deliver(f, x) ==
  LET c == fds[f] IN
  IF peer[c] = "fin"
  THEN peer' = [peer EXCEPT ![c] = "rst"] /\ UNCHANGED got
  ELSE got' = [got EXCEPT ![c] = Append(@, x)] /\ UNCHANGED peer

TryDeliver(f, x) == IF CanSend(f) THEN Deliver(f, x) ELSE UNCHANGED <<peer, got>>

CloseFd(f) ==
  /\ fds' = [fds EXCEPT ![f] = NULL]
  /\ peer' = IF Open(f) THEN [peer EXCEPT ![fds[f]] = "closed"] ELSE peer

(* close_socket_nicely closes only if shutdown succeeds. *)
CloseNicely(f) ==
  IF CanSend(f) THEN CloseFd(f) ELSE UNCHANGED <<fds, peer>>

(* What poll reports of a descriptor; POLLNVAL is not looked at. *)
Events(f) ==
  IF ~Open(f) THEN {}
  ELSE (IF wire[fds[f]] # <<>> \/ peer[fds[f]] \in {"fin", "rst"} THEN {"IN"} ELSE {})
         \cup (IF peer[fds[f]] = "rst" THEN {"HUP"} ELSE {})

Calling == {c \in Conn : peer[c] = "calling"}

-----------------------------------------------------------------------------
(* Browsers                                                                 *)

PeerConnects(c) ==
  /\ peer[c] = "new"
  /\ peer' = [peer EXCEPT ![c] = "calling"]
  /\ wire' = [wire EXCEPT ![c] = <<"GET">>]
  /\ UNCHANGED <<fds, got, clients, wsVars, mtVars, historyVars>>

(* The page is closed: a close frame is sent. *)
PeerCloses(c) ==
  /\ "close" \in Leave
  /\ peer[c] = "open"
  /\ Accepted \in ToSet(got[c])
  /\ "CLOSE" \notin ToSet(wire[c])
  /\ wire' = [wire EXCEPT ![c] = Append(@, "CLOSE")]
  /\ UNCHANGED <<fds, peer, got, clients, wsVars, mtVars, historyVars>>

(* The browser shuts its side down without a close frame. *)
PeerFinishes(c) ==
  /\ "fin" \in Leave
  /\ peer[c] = "open"
  /\ peer' = [peer EXCEPT ![c] = "fin"]
  /\ UNCHANGED <<fds, wire, got, clients, wsVars, mtVars, historyVars>>

(* The connection is reset. *)
PeerResets(c) ==
  /\ "rst" \in Leave
  /\ peer[c] \in {"open", "fin"}
  /\ peer' = [peer EXCEPT ![c] = "rst"]
  /\ wire' = [wire EXCEPT ![c] = <<>>]
  /\ UNCHANGED <<fds, got, clients, wsVars, mtVars, historyVars>>

-----------------------------------------------------------------------------
(* The server thread: serve.                                                *)

(* poll returns with something to do. *)
Poll ==
  /\ ws = "poll"
  /\ Calling # {} \/ \E i \in 1..MaxActive : Events(pollfds[i]) # {}
  /\ revents' = [i \in 1..MaxActive |-> Events(pollfds[i])]
  /\ server_ready' = (Calling # {})
  /\ ws' = "accept"
  /\ UNCHANGED <<kernelVars, clients, pollfds, wsI, wsClient, clients_locked, mtVars,
                 historyVars>>

(* poll fails, whatever the reason: serve gives up, and the thread ends. *)
PollFails ==
  /\ ws = "poll"
  /\ ws' = "ended"
  /\ UNCHANGED <<kernelVars, clients, wsLocals, mtVars, historyVars>>

(* poll times out. *)
PollTimeout ==
  /\ ws = "poll"
  /\ Calling = {}
  /\ \A i \in 1..MaxActive : Events(pollfds[i]) = {}
  /\ UNCHANGED vars

NoneToAccept ==
  /\ ws = "accept"
  /\ ~server_ready
  /\ ws' = "scan"
  /\ UNCHANGED <<kernelVars, clients, wsLocals, mtVars, historyVars>>

(* Mutant: the last place is never used. *)
FreePlacesButLast == {i \in 1..MaxActive - 1 : pollfds[i] = NULL}

FreePlaces == {i \in 1..MaxActive : pollfds[i] = NULL}

(* The new descriptor goes to the first free place.  When there is none    *)
(* the descriptor stays open, and what poll reported of the others is not  *)
(* handled in this round.                                                  *)
Accept ==
  /\ ws = "accept"
  /\ server_ready
  /\ \E c \in Calling, f \in {g \in Fd : fds[g] = NULL} :
       /\ fds' = [fds EXCEPT ![f] = c]
       /\ peer' = [peer EXCEPT ![c] = "open"]
       /\ IF FreePlaces # {}
          THEN pollfds' = [pollfds EXCEPT ![Min(FreePlaces)] = f] /\ ws' = "scan"
          ELSE ws' = "poll" /\ UNCHANGED pollfds
  /\ server_ready' = FALSE
  /\ UNCHANGED <<wire, got, clients, revents, wsI, wsClient, clients_locked, mtVars,
                 historyVars>>

(* No descriptor is left: accept fails, and its -1 is stored as a free place. *)
AcceptFails ==
  /\ ws = "accept"
  /\ server_ready
  /\ \A f \in Fd : fds[f] # NULL
  /\ ws' = IF FreePlaces # {} THEN "scan" ELSE "poll"
  /\ server_ready' = FALSE
  /\ UNCHANGED <<kernelVars, clients, pollfds, revents, wsI, wsClient, clients_locked,
                 mtVars, historyVars>>

(* Places poll reported something of, and that were not handled yet. *)
Reported == {i \in 1..MaxActive : pollfds[i] # NULL /\ revents[i] # {}}

ScanEnds ==
  /\ ws = "scan"
  /\ Reported = {}
  /\ ws' = "poll"
  /\ UNCHANGED <<kernelVars, clients, wsLocals, mtVars, historyVars>>

(* The connection hung up: its descriptor is closed, its slot is left. *)
ScanHangup ==
  /\ ws = "scan"
  /\ Reported # {}
  /\ LET i == Min(Reported) IN
       /\ "HUP" \in revents[i]
       /\ CloseFd(pollfds[i])
       /\ pollfds' = [pollfds EXCEPT ![i] = NULL]
       /\ revents' = [revents EXCEPT ![i] = {}]
  /\ UNCHANGED <<wire, got, clients, ws, server_ready, wsI, wsClient, clients_locked,
                 mtVars, historyVars>>

ScanInput ==
  /\ ws = "scan"
  /\ Reported # {}
  /\ LET i == Min(Reported) IN
       /\ "HUP" \notin revents[i]
       /\ wsI' = i
       /\ revents' = [revents EXCEPT ![i] = {}]
  /\ ws' = "lookup"
  /\ UNCHANGED <<kernelVars, clients, pollfds, server_ready, wsClient, clients_locked,
                 mtVars, historyVars>>

(* The handler returned -1: serve closes the descriptor, again if the      *)
(* handler did already.                                                    *)
Drop ==
  /\ ws = "drop"
  /\ CloseFd(pollfds[wsI])
  /\ pollfds' = [pollfds EXCEPT ![wsI] = NULL]
  /\ ws' = "scan"
  /\ UNCHANGED <<wire, got, clients, revents, server_ready, wsI, wsClient,
                 clients_locked, mtVars, historyVars>>

-----------------------------------------------------------------------------
(* The server thread: process_ws_request and what it calls.                 *)

Sock == pollfds[wsI]

SlotsOf(f) == {k \in Slot : clients[k].connected /\ clients[k].socket = f}

(* Mutant: the slot of a known client is not found. *)
KnownNone == {}

Known == SlotsOf(Sock)

(* Mutant: a new client gets its slot before its handshake. *)
NewClientUnasked == "init"

NewClient == "handshake"

(* The slot of the descriptor is looked up under ws_clients_mutex. *)
Lookup ==
  /\ ws = "lookup"
  /\ ~clients_locked
  /\ IF Known # {}
     THEN wsClient' = Min(Known) /\ ws' = "recv"
     ELSE wsClient' = NULL /\ ws' = NewClient
  /\ UNCHANGED <<kernelVars, clients, pollfds, revents, server_ready, wsI,
                 clients_locked, mtVars, historyVars>>

(* ws_recv reads a frame.  In a handshake the first two octets, "GE", are  *)
(* a frame of opcode 7 with 69 octets.  What is left of it may be read as  *)
(* any frame, a close frame too, and as one longer than what was sent:     *)
(* then ws_recv goes on waiting.                                           *)
RecvFrame ==
  /\ ws = "recv"
  /\ Open(Sock)
  /\ wire[fds[Sock]] # <<>>
  /\ LET first == Head(wire[fds[Sock]])  rest == Tail(wire[fds[Sock]]) IN
       \E left \in {<<>>, <<"REST">>} :
         /\ wire' = [wire EXCEPT ![fds[Sock]] = left \o rest]
         /\ \/ first = "CLOSE" /\ left = <<>> /\ ws' = "destroy"
            \/ first = "GET" /\ left # <<>> /\ ws' = "scan"
            \/ first = "REST" /\ ws' \in {"scan", "destroy"}
            \/ first = "REST" /\ left = <<>> /\ ws' = "recv"
  /\ UNCHANGED <<fds, peer, got, clients, wsLocals, mtVars, historyVars>>

(* Mutant: at the end of the stream recv is called again. *)
RecvEofRetries ==
  /\ ws = "recv"
  /\ Open(Sock)
  /\ wire[fds[Sock]] = <<>>
  /\ peer[fds[Sock]] = "fin"
  /\ UNCHANGED vars

(* At the end of the stream ws_recv returns 0 and leaves opcode unset: the *)
(* handler may or may not read it as a close frame.                        *)
RecvEof ==
  /\ ws = "recv"
  /\ Open(Sock)
  /\ wire[fds[Sock]] = <<>>
  /\ peer[fds[Sock]] = "fin"
  /\ ws' \in {"scan", "destroy"}
  /\ UNCHANGED <<kernelVars, clients, wsLocals, mtVars, historyVars>>

(* recv fails: the handler returns, the slot is left. *)
RecvFails ==
  /\ ws = "recv"
  /\ ~CanSend(Sock)
  /\ ws' = "drop"
  /\ UNCHANGED <<kernelVars, clients, wsLocals, mtVars, historyVars>>

(* Mutant: on every platform. *)
DestroyFailsHeld(k) == clients[k].mutex = "held"

(* mutex_destroy fails, and free_ws_client with it. *)
DestroyFails(k) == clients[k].mutex = "held" /\ DestroyHeld = "busy"

(* free_ws_client, in the server thread. *)
WsDestroy ==
  /\ ws = "destroy"
  /\ IF DestroyFails(wsClient)
     THEN ws' = "drop" /\ UNCHANGED clients
     ELSE ws' = "close" /\ clients' = [clients EXCEPT ![wsClient].mutex = "none"]
  /\ UNCHANGED <<kernelVars, wsLocals, mtVars, historyVars>>

WsClose ==
  /\ ws = "close"
  /\ IF clients[wsClient].socket # NULL
     THEN CloseNicely(clients[wsClient].socket)
     ELSE UNCHANGED <<fds, peer>>
  /\ ws' = "clear"
  /\ UNCHANGED <<wire, got, clients, wsLocals, mtVars, historyVars>>

WsClear ==
  /\ ws = "clear"
  /\ clients' = [clients EXCEPT ![wsClient] = EmptySlot]
  /\ ws' = "drop"
  /\ UNCHANGED <<kernelVars, wsLocals, mtVars, historyVars>>

(* ws_accept reads the request and answers it.  When it runs out of memory *)
(* it returns WS_ERROR_MEMORY, which is 0: the client counts as upgraded   *)
(* although it got no answer.                                              *)
Handshake ==
  /\ ws = "handshake"
  /\ Open(Sock)
  /\ wire[fds[Sock]] # <<>>
  /\ wire' = [wire EXCEPT ![fds[Sock]] = Tail(@)]
  /\ \/ IF Head(wire[fds[Sock]]) = "GET" /\ CanSend(Sock)
        THEN Deliver(Sock, Accepted) /\ ws' = "init"
        ELSE ws' = "drop" /\ UNCHANGED <<peer, got>>
     \/ /\ AllocMayFail
        /\ Head(wire[fds[Sock]]) = "GET"
        /\ ws' = "init"
        /\ UNCHANGED <<peer, got>>
  /\ UNCHANGED <<fds, clients, wsLocals, mtVars, historyVars>>

(* The stream ended or failed before a request came. *)
HandshakeFails ==
  /\ ws = "handshake"
  /\ \/ ~CanSend(Sock)
     \/ Open(Sock) /\ wire[fds[Sock]] = <<>> /\ peer[fds[Sock]] = "fin"
  /\ ws' = "drop"
  /\ UNCHANGED <<kernelVars, clients, wsLocals, mtVars, historyVars>>

FreeSlots == {k \in Slot : ~clients[k].connected}

(* init_ws_client on the first free slot: mutex, flag, descriptor. *)
InitMutex ==
  /\ ws = "init"
  /\ ~clients_locked
  /\ FreeSlots # {}
  /\ wsClient' = Min(FreeSlots)
  /\ clients' = [clients EXCEPT ![Min(FreeSlots)].mutex = "free"]
  /\ ws' = "connected"
  /\ UNCHANGED <<kernelVars, pollfds, revents, server_ready, wsI, clients_locked,
                 mtVars, historyVars>>

InitConnected ==
  /\ ws = "connected"
  /\ clients' = [clients EXCEPT ![wsClient].connected = TRUE]
  /\ ws' = "socket"
  /\ UNCHANGED <<kernelVars, wsLocals, mtVars, historyVars>>

InitSocket ==
  /\ ws = "socket"
  /\ clients' = [clients EXCEPT ![wsClient].socket = Sock]
  /\ joined' = IF Open(Sock) THEN [joined EXCEPT ![fds[Sock]] = taken] ELSE joined
  /\ ws' = "scan"
  /\ UNCHANGED <<kernelVars, wsLocals, mtVars>>

(* mutex_create failed: the handler returns with ws_clients_mutex held,    *)
(* after a close frame that may lack memory too.                           *)
InitFails ==
  /\ ws = "init"
  /\ AllocMayFail
  /\ ~clients_locked
  /\ FreeSlots # {}
  /\ wsClient' = Min(FreeSlots)
  /\ TryDeliver(Sock, CloseFrame) \/ UNCHANGED <<peer, got>>
  /\ clients_locked' = TRUE
  /\ ws' = "drop"
  /\ UNCHANGED <<fds, wire, clients, pollfds, revents, server_ready, wsI, mtVars,
                 historyVars>>

(* Mutant: the refused client's connection is kept. *)
RefusedKept == "scan"

Refused == "drop"

(* No slot is free: the client is told so, memory permitting, and dropped. *)
LimitReached ==
  /\ ws = "init"
  /\ ~clients_locked
  /\ FreeSlots = {}
  /\ TryDeliver(Sock, CloseFrame) \/ (AllocMayFail /\ UNCHANGED <<peer, got>>)
  /\ ws' = Refused
  /\ UNCHANGED <<fds, wire, clients, wsLocals, mtVars, historyVars>>

-----------------------------------------------------------------------------
(* The message thread: process_pending_messages.                            *)

(* A session raises an event. *)
Raise ==
  /\ raised < MaxEvents
  /\ raised' = raised + 1
  /\ UNCHANGED <<kernelVars, clients, wsVars, taken, mt, mtI, mtSock, historyVars>>

MtSleep ==
  /\ mt = "idle"
  /\ taken = raised
  /\ UNCHANGED vars

MtTake ==
  /\ mt = "idle"
  /\ taken < raised
  /\ taken' = taken + 1
  /\ mt' = "check"
  /\ mtI' = 1
  /\ UNCHANGED <<kernelVars, clients, wsVars, raised, mtSock, historyVars>>

(* Mutant: the loop ends after the first slot. *)
NextSlotNone == mt' = "idle" /\ mtI' = 1

(* The loop goes on to the next slot, or the message is freed. *)
NextSlot ==
  IF mtI < MaxClients
  THEN mt' = "check" /\ mtI' = mtI + 1
  ELSE mt' = "idle" /\ mtI' = 1

MtSkip ==
  /\ mt = "check"
  /\ ~clients[mtI].connected
  /\ NextSlot
  /\ UNCHANGED <<kernelVars, clients, wsVars, raised, taken, mtSock, historyVars>>

MtCheck ==
  /\ mt = "check"
  /\ clients[mtI].connected
  /\ mt' = "lock"
  /\ UNCHANGED <<kernelVars, clients, wsVars, raised, taken, mtI, mtSock, historyVars>>

(* A mutex the thread holds already never comes; a mutex that was          *)
(* destroyed meanwhile is locked, or refused without the code noticing.    *)
MtLock ==
  /\ mt = "lock"
  /\ clients[mtI].mutex # "held"
  /\ \/ clients' = [clients EXCEPT ![mtI].mutex = "held"]
     \/ clients[mtI].mutex = "none" /\ UNCHANGED clients
  /\ mt' = "read"
  /\ UNCHANGED <<kernelVars, wsVars, raised, taken, mtI, mtSock, historyVars>>

MtRead ==
  /\ mt = "read"
  /\ mtSock' = clients[mtI].socket
  /\ mt' = "send"
  /\ UNCHANGED <<kernelVars, clients, wsVars, raised, taken, mtI, historyVars>>

(* ws_send_text fails when send does, or when no frame can be allocated. *)
MtSend ==
  /\ mt = "send"
  /\ \/ CanSend(mtSock) /\ Deliver(mtSock, taken) /\ mt' = "unlock"
     \/ /\ ~CanSend(mtSock) \/ AllocMayFail
        /\ mt' = "destroy"
        /\ UNCHANGED <<peer, got>>
  /\ UNCHANGED <<fds, wire, clients, wsVars, raised, taken, mtI, mtSock, historyVars>>

MtUnlock ==
  /\ mt = "unlock"
  /\ clients' = [clients EXCEPT ![mtI].mutex = IF @ = "held" THEN "free" ELSE @]
  /\ NextSlot
  /\ UNCHANGED <<kernelVars, wsVars, raised, taken, mtSock, historyVars>>

(* free_ws_client, in the message thread, on the mutex it holds.  The      *)
(* mutex is not unlocked afterwards, whatever mutex_destroy returned.      *)
MtDestroy ==
  /\ mt = "destroy"
  /\ IF DestroyFails(mtI)
     THEN NextSlot /\ UNCHANGED clients
     ELSE /\ clients' = [clients EXCEPT ![mtI].mutex = "none"]
          /\ mt' = "close"
          /\ UNCHANGED mtI
  /\ UNCHANGED <<kernelVars, wsVars, raised, taken, mtSock, historyVars>>

MtClose ==
  /\ mt = "close"
  /\ IF clients[mtI].socket # NULL
     THEN CloseNicely(clients[mtI].socket)
     ELSE UNCHANGED <<fds, peer>>
  /\ mt' = "clear"
  /\ UNCHANGED <<wire, got, clients, wsVars, raised, taken, mtI, mtSock, historyVars>>

MtClear ==
  /\ mt = "clear"
  /\ clients' = [clients EXCEPT ![mtI] = EmptySlot]
  /\ NextSlot
  /\ UNCHANGED <<kernelVars, wsVars, raised, taken, mtSock, historyVars>>

-----------------------------------------------------------------------------
(* Unloading: logger_plugin_deinit.  PluginLifecycle has the other threads *)
(* and what they wait for.                                                 *)

(* ws_server_active is cleared, which serve sees between two polls.  It    *)
(* returns, and leaves the descriptors it polled as they are.              *)
ServeReturns ==
  /\ Unloads
  /\ ws = "poll"
  /\ ws' = "ended"
  /\ UNCHANGED <<kernelVars, clients, wsLocals, mtVars, historyVars>>

(* The queue was drained and messaging_active cleared. *)
MtReturns ==
  /\ Unloads
  /\ ws = "ended"
  /\ mt = "idle"
  /\ mt' = "ended"
  /\ UNCHANGED <<kernelVars, clients, wsVars, raised, taken, mtI, mtSock, historyVars>>

(* Mutant: the first slot is left out. *)
ConnectedSlotsButFirst == {k \in Slot : k > 1 /\ clients[k].connected}

ConnectedSlots == {k \in Slot : clients[k].connected}

(* free_ws_client of every connected slot, both threads being gone, under  *)
(* ws_clients_mutex.                                                       *)
FreeClients ==
  LET freed  == {k \in ConnectedSlots : ~DestroyFails(k)}
      closed == {f \in Fd : CanSend(f) /\ \E k \in freed : clients[k].socket = f}
  IN
  /\ ws = "ended"
  /\ mt = "ended"
  /\ ~clients_locked
  /\ clients' = [k \in Slot |-> IF k \in freed THEN EmptySlot ELSE clients[k]]
  /\ fds' = [f \in Fd |-> IF f \in closed THEN NULL ELSE fds[f]]
  /\ peer' = [c \in Conn |-> IF \E f \in closed : fds[f] = c THEN "closed" ELSE peer[c]]
  /\ ws' = "unloaded"
  /\ UNCHANGED <<wire, got, wsLocals, mtVars, historyVars>>

Unloaded == ws = "unloaded" /\ UNCHANGED vars

-----------------------------------------------------------------------------
Browser(c) == PeerConnects(c) \/ PeerCloses(c) \/ PeerFinishes(c) \/ PeerResets(c)

ServerThread ==
  \/ Poll \/ NoneToAccept \/ Accept \/ AcceptFails
  \/ ScanEnds \/ ScanHangup \/ ScanInput \/ Drop
  \/ Lookup \/ RecvFrame \/ RecvEof \/ RecvFails
  \/ WsDestroy \/ WsClose \/ WsClear
  \/ Handshake \/ HandshakeFails
  \/ InitMutex \/ InitConnected \/ InitSocket \/ InitFails \/ LimitReached

MessageThread ==
  \/ MtTake \/ MtSkip \/ MtCheck \/ MtLock \/ MtRead \/ MtSend \/ MtUnlock
  \/ MtDestroy \/ MtClose \/ MtClear

Next ==
  \/ \E c \in Conn : Browser(c)
  \/ Raise
  \/ ServerThread \/ PollTimeout \/ PollFails
  \/ MessageThread \/ MtSleep
  \/ ServeReturns \/ MtReturns \/ FreeClients \/ Unloaded

Spec == Init /\ [][Next]_vars

(* Both threads are scheduled; browsers and sessions owe nothing, and poll *)
(* need not fail.                                                          *)
FairSpec == Spec /\ WF_vars(ServerThread) /\ WF_vars(MessageThread)

-----------------------------------------------------------------------------
(* Properties                                                               *)

(* The connections that got the handshake's answer. *)
Upgraded(c) == Accepted \in ToSet(got[c])

(* A descriptor is never in two connected slots at a time, although slots  *)
(* are left behind when serve closes a descriptor and descriptors are      *)
(* reused: otherwise one browser would be sent every event twice.  The     *)
(* exception is a slot about to get its descriptor, connected already and  *)
(* still with one it had before (logger.c:413).                            *)
UniqueSocket ==
  \A k, l \in Slot :
    (k # l /\ clients[k].connected /\ clients[l].connected
      /\ clients[k].socket # NULL /\ clients[k].socket = clients[l].socket)
    => ws = "socket" /\ wsClient \in {k, l}

(* A connection that a slot serves. *)
Served(c) ==
  /\ peer[c] = "open"
  /\ \E k \in Slot : clients[k].connected /\ Open(clients[k].socket)
                       /\ fds[clients[k].socket] = c

(* A browser that is served has been sent the answer to its handshake and  *)
(* every event taken since it got its slot, each once and in order, and    *)
(* before them at most the one that was in hand then, whatever other       *)
(* connections come or are refused.                                        *)
EachEventOnce ==
  \A c \in Conn :
    (Served(c) /\ mt = "idle") =>
      \E first \in {joined[c], joined[c] + 1} :
        got[c] = <<Accepted>> \o [i \in 1..taken - first + 1 |-> first + i - 1]

(* The answer to the handshake comes before any event, although the slot   *)
(* is published to the message thread before its descriptor is stored.     *)
HandshakeFirst ==
  \A c \in Conn : got[c] # <<>> => got[c][1] = Accepted

(* Between two rounds of the server, each polled connection that was       *)
(* upgraded has a slot, and each one that was refused is closed: nobody    *)
(* waits for events that cannot come.                                      *)
UpgradedHasSlot ==
  ws = "poll" =>
    \A i \in 1..MaxActive :
      (Open(pollfds[i]) /\ Upgraded(fds[pollfds[i]])) => SlotsOf(pollfds[i]) # {}

(* logger.c:462: an incoming request of a descriptor that has a slot is    *)
(* one from a connected WebSocket client.                                  *)
RequestFromClient ==
  (ws = "recv" /\ Open(Sock)) => Upgraded(fds[Sock])

(* README.md:6: queries are seen as they are executed: the message thread  *)
(* comes back from every broadcast to take the next event.                 *)
EventsBroadcast == []<>(mt = "idle")

(* A handler waits in a read for a browser that is still there. *)
WaitsForBrowser ==
  ws \in {"recv", "handshake"} /\ Open(Sock) /\ peer[fds[Sock]] = "open"

(* The server thread comes back to poll, whatever browsers do and whatever *)
(* the message thread closes under it, unless a browser keeps a handler    *)
(* waiting, or ws_clients_mutex was lost when a slot could not be          *)
(* initialised (logger.c:494): then the next handler waits for it.  After  *)
(* a poll that failed (logger.c:261) it is gone.                           *)
ServerReturnsToPoll ==
  []<>(\/ ws \in {"poll", "ended"}
       \/ WaitsForBrowser
       \/ clients_locked /\ ws = "lookup")

(* Connections the server forgot: neither polled nor closed. *)
Lost ==
  {c \in Conn : peer[c] = "open" /\ \A i \in 1..MaxActive :
                                      pollfds[i] = NULL \/ fds[pollfds[i]] # c}

(* As long as browsers stay, the server forgets a connection only at the   *)
(* limit on polled places (logger.c:287), once for each connection beyond, *)
(* although handlers drop connections and free places in between.          *)
LostOnlyAtLimit ==
  ws = "poll" =>
    \/ Lost = {}
    \/ Cardinality(Lost) + MaxActive <= Cardinality({c \in Conn : peer[c] \notin {"new", "calling"}})

(* Connections in a slot whose mutex the message thread never gave back. *)
Stuck == {c \in Conn : \E k \in ConnectedSlots : clients[k].mutex = "held"
                                  /\ Open(clients[k].socket) /\ fds[clients[k].socket] = c}

(* After an unload no upgraded connection is open, although serve closes   *)
(* none of the descriptors it polls: the slots have them all.  The         *)
(* exception is a slot whose mutex is held: an event came between          *)
(* `connected` and `socket`, and its send failed (logger.c:413).           *)
UnloadClosesClients ==
  ws = "unloaded" =>
    \A c \in Conn : (peer[c] = "open" /\ Upgraded(c)) => c \in Stuck

=============================================================================
