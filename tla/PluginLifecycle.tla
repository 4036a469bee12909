--------------------------- MODULE PluginLifecycle ---------------------------
(***************************************************************************)
(* Loading and unloading the plugin: logger_plugin_init, the start and end *)
(* of the threads it creates (serve, thread_create, thread_join), and      *)
(* logger_plugin_deinit, with the failures each step can meet.             *)
(*                                                                         *)
(* The work of the threads is in EventQueue and WsClients; here a thread   *)
(* is at the head of its loop, where it looks at its flag, handles what it *)
(* found (a request, a message), waits in there, or has returned.          *)
(***************************************************************************)
EXTENDS Integers

VARIABLES
  main,     \* where the thread that loads and unloads the plugin is
  thread,   \* what each thread of the plugin does
  active,   \* http_server_active, ws_server_active, messaging_active
  socket,   \* http_server_socket and ws_server_socket
  mutex,    \* 1 while log_mutex, ws_clients_mutex, message_queue_mutex exist
  clients_held, \* a handler returned with ws_clients_mutex locked
  log_file,
  missing   \* history: mutexes mutex_create failed to make

(* ServerProofs extends Handlers as well: its names are Init, Next and Spec. *)
pluginVars == <<main, thread, active, socket, mutex, clients_held, log_file, missing>>

Server == {"http", "ws"}
Thread == Server \cup {"message"}
Mutex == {"log", "clients", "queue"}

(* The steps of init and of deinit. *)
InitStep == {"log_mutex", "open_log", "mutexes", "http", "ws", "message"}
DeinitStep == {"stop_http", "join_http", "stop_ws", "join_ws", "drain", "stop_message",
               "join_message", "free_clients", "destroy", "close_log"}

PluginInit ==
  /\ main = "log_mutex"
  /\ thread = [t \in Thread |-> "none"]
  /\ active = [t \in Thread |-> FALSE]
  /\ socket = [t \in Server |-> "invalid"]
  /\ mutex = [m \in Mutex |-> 0]
  /\ clients_held = FALSE
  /\ log_file = "none"
  /\ missing = {}

-----------------------------------------------------------------------------
(* logger_plugin_init *)

(* mutex_create may fail.  Its result is not looked at. *)
Create(ms) ==
  \E made \in SUBSET ms :
    /\ mutex' = [m \in Mutex |-> IF m \in made THEN mutex[m] + 1 ELSE mutex[m]]
    /\ missing' = missing \cup (ms \ made)

CreateLogMutex ==
  /\ main = "log_mutex"
  /\ Create({"log"})
  /\ main' = "open_log"
  /\ UNCHANGED <<thread, active, socket, clients_held, log_file>>

(* A log file that cannot be opened is reported, and init goes on. *)
OpenLog ==
  /\ main = "open_log"
  /\ log_file' \in {"open", "none"}
  /\ main' = "mutexes"
  /\ UNCHANGED <<thread, active, socket, mutex, clients_held, missing>>

(* The mutexes init creates before the threads, and deinit destroys. *)
Shared == {"clients", "queue"}

CreateMutexes ==
  /\ main = "mutexes"
  /\ Create(Shared)
  /\ main' = "http"
  /\ UNCHANGED <<thread, active, socket, clients_held, log_file>>

After(t) == CASE t = "http" -> "ws" [] t = "ws" -> "message" [] t = "message" -> "running"

(* The flag is set before the thread that tests it is created. *)
CreateThread(t) ==
  /\ main = t
  /\ active' = [active EXCEPT ![t] = TRUE]
  /\ thread' = [thread EXCEPT ![t] = "starting"]
  /\ main' = After(t)
  /\ UNCHANGED <<socket, mutex, clients_held, log_file, missing>>

(* Init returns the error; the threads created before go on. *)
CreateThreadFails(t) ==
  /\ main = t
  /\ active' = [active EXCEPT ![t] = TRUE]
  /\ main' = "failed"
  /\ UNCHANGED <<thread, socket, mutex, clients_held, log_file, missing>>

-----------------------------------------------------------------------------
(* The threads                                                              *)

(* A thread goes from one place to another, and nothing else changes. *)
Moves(t, from, to) ==
  /\ thread[t] = from
  /\ thread' = [thread EXCEPT ![t] = to]
  /\ UNCHANGED <<main, active, mutex, log_file, missing>>

(* The socket cannot be opened, bound or listened on: serve returns. *)
ServeFails(t) == Moves(t, "starting", "returned") /\ UNCHANGED <<socket, clients_held>>

ServeListens(t) ==
  /\ Moves(t, "starting", "serving")
  /\ socket' = [socket EXCEPT ![t] = "listening"]
  /\ UNCHANGED clients_held

MessageStarts ==
  Moves("message", "starting", "serving") /\ UNCHANGED <<socket, clients_held>>

(* The flag is set at the head of the loop, and poll reports something or  *)
(* a message is there. *)
RoundBegins(t) ==
  active[t] /\ Moves(t, "serving", "handling") /\ UNCHANGED <<socket, clients_held>>

(* A handler waits in recv for the rest of a request, or for               *)
(* ws_clients_mutex; the message thread waits for a slot's mutex that it   *)
(* holds already (WsClients shows how), or in send.                        *)
Waits(t) == Moves(t, "handling", "waiting") /\ UNCHANGED <<socket, clients_held>>

(* A wait for a mutex that nobody will unlock does not end. *)
GoesOn(t) ==
  /\ ~(t = "ws" /\ clients_held)
  /\ Moves(t, "waiting", "handling")
  /\ UNCHANGED <<socket, clients_held>>

(* init_ws_client failed: the handler returns without unlocking. *)
SlotFails ==
  /\ thread["ws"] = "handling"
  /\ ~clients_held
  /\ clients_held' = TRUE
  /\ UNCHANGED <<main, thread, active, socket, mutex, log_file, missing>>

RoundEnds(t) == Moves(t, "handling", "serving") /\ UNCHANGED <<socket, clients_held>>

(* The flag is found cleared. *)
LoopEnds(t) ==
  ~active[t] /\ Moves(t, "serving", "returned") /\ UNCHANGED <<socket, clients_held>>

(* poll fails, and serve returns with its flag set. *)
PollFails(t) ==
  active[t] /\ Moves(t, "serving", "returned") /\ UNCHANGED <<socket, clients_held>>

-----------------------------------------------------------------------------
(* logger_plugin_deinit *)

Unload ==
  /\ main = "running"
  /\ main' = "stop_http"
  /\ UNCHANGED <<thread, active, socket, mutex, clients_held, log_file, missing>>

(* Mutant: the flag stays set. *)
StoppedFlagKept == TRUE

StoppedFlag == FALSE

(* A step of deinit that clears a thread's flag, and goes on to `next`. *)
Stop(t, step, next) ==
  /\ main = step
  /\ active' = [active EXCEPT ![t] = StoppedFlag]
  /\ main' = next
  /\ UNCHANGED <<thread, socket, mutex, clients_held, log_file, missing>>

(* Mutant: the thread is not waited for. *)
JoinedAtOnce(t) == TRUE

(* thread_join returns. *)
Joined(t) == thread[t] = "returned"

(* thread_join, then close_socket_nicely on the listening socket, which    *)
(* leaves it open where shutdown refuses a socket that is not connected.   *)
JoinServer(t, step, next) ==
  /\ main = step
  /\ Joined(t)
  /\ IF socket[t] = "invalid"
     THEN UNCHANGED socket
     ELSE \E state \in {"closed", "left_open"} : socket' = [socket EXCEPT ![t] = state]
  /\ main' = next
  /\ UNCHANGED <<thread, active, mutex, clients_held, log_file, missing>>

Drain ==
  /\ main = "drain"
  /\ main' = "stop_message"
  /\ UNCHANGED <<thread, active, socket, mutex, clients_held, log_file, missing>>

JoinMessage ==
  /\ main = "join_message"
  /\ Joined("message")
  /\ main' = "free_clients"
  /\ UNCHANGED <<thread, active, socket, mutex, clients_held, log_file, missing>>

(* The slots are freed under ws_clients_mutex. *)
FreeClients ==
  /\ main = "free_clients"
  /\ ~clients_held
  /\ main' = "destroy"
  /\ UNCHANGED <<thread, active, socket, mutex, clients_held, log_file, missing>>

(* log_mutex is not destroyed.  Nothing happens to one that is missing. *)
DestroyMutexes ==
  /\ main = "destroy"
  /\ mutex' = [m \in Mutex |-> IF m \in Shared \ missing THEN mutex[m] - 1 ELSE mutex[m]]
  /\ main' = "close_log"
  /\ UNCHANGED <<thread, active, socket, clients_held, log_file, missing>>

(* fclose is called whether or not the log was opened: fclose(NULL) dies. *)
CloseLog ==
  /\ main = "close_log"
  /\ IF log_file = "open"
     THEN log_file' = "closed" /\ main' = "unloaded"
     ELSE main' = "crashed" /\ UNCHANGED log_file
  /\ UNCHANGED <<thread, active, socket, mutex, clients_held, missing>>

-----------------------------------------------------------------------------
Loading ==
  \/ CreateLogMutex \/ OpenLog \/ CreateMutexes
  \/ \E t \in Thread : CreateThread(t) \/ CreateThreadFails(t)

Starting == MessageStarts \/ \E t \in Server : ServeFails(t) \/ ServeListens(t)

Loop(t) == RoundBegins(t) \/ Waits(t) \/ GoesOn(t) \/ RoundEnds(t) \/ LoopEnds(t)

Unloading ==
  \/ Stop("http", "stop_http", "join_http")
  \/ JoinServer("http", "join_http", "stop_ws")
  \/ Stop("ws", "stop_ws", "join_ws")
  \/ JoinServer("ws", "join_ws", "drain")
  \/ Drain
  \/ Stop("message", "stop_message", "join_message")
  \/ JoinMessage \/ FreeClients \/ DestroyMutexes \/ CloseLog

(* The plugin is gone, or its threads are left to themselves. *)
Ended == main \in {"unloaded", "crashed", "failed"}

(* Deinit runs only after init succeeded. *)
PluginNext ==
  \/ Loading
  \/ Starting
  \/ \E t \in Thread : Loop(t)
  \/ \E t \in Server : PollFails(t)
  \/ SlotFails
  \/ Unload
  \/ Unloading
  \/ Ended /\ UNCHANGED pluginVars

PluginSpec == PluginInit /\ [][PluginNext]_pluginVars

(* Every thread is scheduled.  A round has at most one handler for each    *)
(* place, or one send for each slot, so one that stops waiting every time  *)
(* ends; poll times out.  Nothing makes a browser finish its request or    *)
(* read what it is sent.                                                   *)
FairPluginSpec ==
  /\ PluginSpec
  /\ WF_pluginVars(Loading)
  /\ WF_pluginVars(Starting)
  /\ WF_pluginVars(Unloading)
  /\ \A t \in Thread : WF_pluginVars(LoopEnds(t)) /\ SF_pluginVars(RoundEnds(t))

-----------------------------------------------------------------------------
(* Properties                                                               *)

Alive(t) == thread[t] \in {"starting", "serving", "handling", "waiting"}

(* While a thread of the plugin runs, or sessions can call logger_notify,  *)
(* each mutex they lock was created once and is not destroyed, however     *)
(* init and deinit ended.  The exceptions are those mutex_create failed to *)
(* make (logger.c:696, 707): init does not look, and goes on without.      *)
MutexesUsable ==
  ((\E t \in Thread : Alive(t)) \/ main = "running")
    => \A m \in Mutex : mutex[m] = IF m \in missing THEN 0 ELSE 1

(* After an unload no thread of the plugin runs, each listening socket was *)
(* handed to close_socket_nicely, also when its server was still binding   *)
(* the port as its flag was cleared, of the mutexes only log_mutex is      *)
(* left, and the log is closed; the fclose that kills the process          *)
(* (logger.c:791) is reached only when the log could not be opened.        *)
UnloadedClean ==
  main \in {"unloaded", "crashed"} =>
    /\ \A t \in Thread : ~Alive(t)
    /\ \A t \in Server : socket[t] # "listening"
    /\ \A m \in Shared : mutex[m] = 0
    /\ log_file = IF main = "unloaded" THEN "closed" ELSE "none"

(* Unloading ends, unless a thread waits for ever: a handler for a browser *)
(* or for ws_clients_mutex, the message thread in a broadcast, or the      *)
(* unload itself for ws_clients_mutex, which a handler kept                *)
(* (logger.c:494).                                                         *)
UnloadEnds ==
  ([]<>~clients_held /\ \A t \in Thread : []<>(thread[t] # "waiting"))
    => (main = "stop_http" ~> main \in {"unloaded", "crashed"})

=============================================================================
