# mysql-logger: formal models, model checking and proofs

mysql-logger is an audit plugin for MySQL and MariaDB. Every query the server
executes raises audit events; the plugin turns them into JSON messages, queues
them, and a thread of its own sends each message to every browser that is
connected over WebSocket. A second server thread serves the page that shows
them. This directory models that program in TLA+, checks the models with TLC
and proves theorems about them with TLAPS.

Paths below are relative to the repository (`src/logger.c` is the file in its
`src` directory).

## 1. The system

### Components, their state and their operations

| Component | Source | State | Operations |
|---|---|---|---|
| Event queue | `src/logger.c` 152-158, 524-688, 762-775, 796-821 | `message_queue`, `message_queue_tail`, `pending_message_count`, `messaging_active`, the nodes and their buffers | `logger_notify`/`send_event` (sessions), `process_pending_messages` (message thread), the drain of `logger_plugin_deinit` |
| WebSocket server and slots | `src/logger.c` 189-318, 394-509, 657-683 | `pollfds`, `ws_clients[]` with one mutex each, `ws_clients_mutex`, the kernel's descriptors | `serve`, `process_ws_request`, `init_ws_client`, `free_ws_client`, the broadcast loop |
| Loading and unloading | `src/logger.c` 690-794, `src/thread.c` | thread handles, activity flags, listening sockets, mutexes, log file | `logger_plugin_init`, `logger_plugin_deinit` |
| WebSocket frames | `src/ws.c` 241-434, `src/socket_ext.c` | the byte stream; `ws_recv`'s locals | `ws_alloc_frame`, `ws_send`, `ws_recv` |
| WebSocket handshake | `src/ws.c` 49-239 | `struct ws_http_handshake_state` | `ws_accept` and what it calls |
| Receiving a request | `src/socket_ext.c` 158-181, `src/http.c` 186-197 | the receive buffer | `http_recv_headers`, `on_headers`, `strnstr` |
| HTTP server of the page | `src/logger.c` 320-392, `src/http.c` | none between requests | `process_http_request`, the parsers of the request line and the header lines, the answers |
| String buffer | `src/strbuf.c` | `str`, `length`, `max_count` | alloc, free, append, insert, delete |
| JSON encoding | `src/json.c`, `src/logger.c` 550-607 | a string buffer | `json_encode`, `json_encode_string` |
| Query log of the page | `src/ui/index.js` | `queries`, the table, the info panel | `onQueryStart`, `onQueryEnd`, clicks |
| Configuration reader | `src/config.c` | none | `read_config` (not called by the plugin) |
| SHA-1, base64, hex | `src/sha1.c`, `src/base64.c`, `src/hex.c` | none between calls | `ws_key_hash` hashes the key and encodes the hash |
| Build tool | `src/tools/file_concat.c` | a string buffer | builds the page from its template |
| Log, clock, error texts, declarations | `src/logger.c` 168-187, 823-907, `src/time.c`, `src/error.c` | `log_mutex` | no effect on the rest |

### How they interact

Four kinds of threads share the state of `logger.c`:

- *sessions* of the database call `logger_notify`; they touch the queue only,
  under `message_queue_mutex`, in two separate critical sections;
- the *message thread* looks at `message_queue` without the mutex, unlinks the
  head under it, and walks `ws_clients` under each slot's own mutex;
- the *WebSocket server thread* polls, accepts, and fills and frees slots under
  `ws_clients_mutex`, never under a slot's mutex. So the two threads have no
  lock in common for the slots;
- the *HTTP server thread* runs the same `serve` with another handler;
- the thread that *loads and unloads* the plugin sets and clears the flags,
  joins the threads and drains the queue while the message thread still runs.

Both server threads handle one connection at a time with blocking reads.

### What is hard here

The hazards are listed in `PROJECT.json`, each at its line with the properties
that guard it. In short: the limit check and the append are not atomic; the
queue is looked at without its mutex; the drain runs against the message
thread; slots are published half filled, left behind when connections hang up,
and freed under the mutex they contain; descriptors are reused; one browser can
hold up the thread that serves all of them, while sessions go on raising
events; the results of `poll`, `mutex_create` and `shutdown` end a server, are
ignored, or leave a socket open; `recv` cuts requests and frames anywhere, and
a request may be longer than its buffer; an error code is 0; memory may run out
in the middle of a message, and come back; the log and the table of the page
drop different entries.

## 2. Modules

| Module | What it models | Correspondence |
|---|---|---|
| `EventQueue` | the queue between sessions, message thread and unload | variables have the names of the C variables; `heap` is the allocated `ws_message` nodes, `buffers` the allocated JSON buffers; one action per critical section |
| `EventFifo` | what the queue promises: a bounded FIFO with one consumer, closed and emptied by the unload | abstract; `EventQueue!Fifo` maps the pointers to it |
| `EventQueueProofs` | theorems about `EventQueue` | section 4 |
| `WsClients` | server thread, message thread, slots, kernel descriptors and browsers, and how the unload frees the clients | `clients[k]` is `ws_clients[k-1]`; one action per access to shared state, because the threads share no lock |
| `MCWsClients` | symmetry sets for TLC | |
| `WsClientsProofs` | theorems about `WsClients` | section 4 |
| `EventPath` | `EventQueue` and `WsClients` in one system while the plugin is loaded | the variables of both; the message thread is one thread in both |
| `EventPathProofs` | theorems about `EventPath` | section 4 |
| `PluginLifecycle` | init, deinit and the three threads, with the failures of each step | `main` is where init or deinit is, one action per step of either; `thread[t]` is whether a thread is at the head of its loop, in a handler, or waits there |
| `WsFrame` | frames on a byte stream, and the client freed for one | `pc` is the read `ws_recv` is at, `RecvSome` one turn of `recv_n`, `client` what `process_ws_request` made of the opcode |
| `WsFrameProofs` | theorems about `WsFrame` | section 4 |
| `HttpRecv` | `recv_n` with `on_headers` on a stream cut anywhere, into a buffer that may be too short | `buf`, `len` are those of `recv_n`; `ReadRest` is the next call, which finds the rest of a request |
| `MCHttpRecv` | the requests for TLC | `Requests` is a constant of `HttpRecv`: texts that end with their only blank line |
| `HttpRequest` | the parsers of the request line and of header lines | operators; a word is a sequence of pieces |
| `WsHandshake` | `ws_parse_connect_request` with `on_handshake_header`, names and values abbreviated or not | operators; `state` is `struct ws_http_handshake_state` |
| `Handlers` | `process_http_request` and `ws_accept` on one request, with every send and allocation that can fail | `pc` is where the handler is, `sent` what went out |
| `MCHandlers` | the request lines and header lines for TLC | |
| `ServerProofs` | theorems about `Handlers`, `HttpRecv` and `PluginLifecycle` | section 4; the three name their specifications `Spec`, `RecvSpec` and `PluginSpec` |
| `StrBuf` | the string buffer, with growth and overlapping copies | operators on `[str, max_count]` |
| `EventJson` | the text `send_event` writes with `json.c`, also when any of its calls of `realloc` fail, and an automaton for `JSON.parse` | one token per character that matters, NUL included |
| `ConfigReader` | `read_config`, with and without its assertions | `ReadItem` is one pass of its loop |
| `AcceptKey` | input, blocks and padding of SHA-1, and `base64_encode` | the fields of `SHA1Context`; a sequence of blocks stands for `Intermediate_Hash` |
| `FileConcat` | the loop of `file_concat` on a `StrBuf` | one pass of its loop is one step |
| `Algorithms` | the four modules before it, run on all small inputs, with reference definitions that go by places of the input | `job` is the input, `out` what came out so far |
| `EncodingProofs` | theorems about `Algorithms`: JSON, Base64, blocks | section 4 |
| `TextProofs` | theorems about `Algorithms`: templates, configurations | section 4 |
| `QueryView` | event types and query ids, and the page's log, table and panel | `queries`, `rows`, `panel` are the page's |
| `QueryViewProofs` | theorems about `QueryView` | section 4 |

`PROJECT.json`, `map`, gives the lines each definition stands for. Definitions
whose comment begins with "Mutant:" are variants of the code with a plausible
bug; each shows that one property can fail (`PROJECT.json`, `mutants`), and no
specification uses them.

How the modules fit together:

- `EventPath` instantiates `EventQueue` and `WsClients` side by side. Event `n`
  of `WsClients` is the `n`-th message its thread takes off the queue; taking,
  the walk over the slots and the release of the message happen in the order of
  `process_pending_messages`. Its history variable `events` tells which event
  the `n`-th was, so that properties go from the session to the browser.
- Alone, `WsClients` replaces the queue by the number of events in it, which is
  sound because `EventQueue` implements `EventFifo` (`ImplementsFifo`): events
  come out one at a time, in order, none twice. `EventQueue` alone replaces the
  broadcast by one step, `MtRelease`.
- The unload is in three modules: the drain in `EventQueue`, the end of the
  threads of the slots and the freeing of the clients in `WsClients`, and all of
  its steps, with the work of the threads cut down to "serving", "handling" and
  "waiting", in `PluginLifecycle`. `EventPath` leaves it out.
- `WsClients` takes a request or a frame for one item of a stream. `HttpRecv`
  looks at how a request is received, `Handlers` at what is made of it (it
  extends `WsHandshake`, which extends `HttpRequest`), `AcceptKey` at how the
  answer to a key is computed, `WsFrame` at frames.
- `EventJson` and `FileConcat` extend `StrBuf`. `QueryView` takes events to
  arrive in order and to be dropped as a whole, as the queue does.

### Modelling decisions

- A critical section that does not block is one action. Accesses outside a
  mutex are actions of their own (`MtPeek`, and every access in `WsClients`).
- An uninitialised value is a choice: the opcode of `ws_recv` at the end of a
  stream (`WsClients!RecvEof`, `WsFrame!OpcodeRead`), the bytes of a header cut
  short (`WsFrame!Garbage`), what the stack holds of an earlier request
  (`HttpRecv!Call`) and of an earlier block (`AcceptKey!SHA1Reset`), what stands
  behind the end of a text (`FileConcat`) or of a buffer (`HttpRecv!Outcomes`).
  An overlapping `memcpy` is right or repeats (`StrBuf!Moved`).
- A header value that is nothing but a space has length -1 (http.c 171), which
  as a `size_t` reaches to the end of the request: `RestOfRequest`.
- `base64_encode` shifts by a negative amount at the start of a byte. No target
  of the compilers makes bits of the character from that, and the other operand
  holds the whole character: the model reads zero.
- Characters are signed, as on x86: the byte 0xFF equals the `EOF` that
  `config.c` compares with (`ConfigReader!EOF`).
- Assertions of `config.c` end the reader in one build and do nothing in the
  other; both are behaviours of `ConfigReader`.
- In texts the braces of a placeholder, a key and a number are one token each:
  nothing the properties tell apart lies within.
- The platform is a constant where it matters: `DestroyHeld` says whether
  destroying a locked mutex fails (POSIX) or succeeds (Windows).
- The kernel and the browsers are modelled from how the code uses them and
  marked external in `map`. A browser may close with a close frame, shut its
  side down, or be reset. The first send after it shut down succeeds and draws
  a reset.
- The database server unloads the plugin only when no session is inside
  `logger_notify` (it holds a reference while it calls the plugin). This is the
  guard of `DeinitBegin`.
- A dereference of NULL, and `fclose(NULL)`, end the process ("crashed"); so
  may a read behind a buffer, and `strtok_r` on the NULL of a failed `strndup`
  (`Handlers!CopyDies`).
- `poll` may fail whenever it is called, and `mutex_create` likewise.

## 3. What is checked

### Runs

| Run | Module, cfg | Bounds | Shows |
|---|---|---|---|
| `event_queue` | `EventQueue` | 2 sessions, 2 events each, limit 2, 4 addresses | 7 invariants of the queue; `UnloadEnds`; refinement of `EventFifo` |
| `ws_stay` | `MCWsClients`, `WsStay` | 4 connections and descriptors, 2 slots, 3 polled places, 3 events, an unload | each served browser gets its handshake, then every event once and in order; connections are refused or forgotten only at the limits; the unload closes the clients |
| `ws_leave` | `MCWsClients`, `WsLeave` | 2 connections, 1 descriptor, 2 slots, 2 events, every way to leave, allocations and polls fail | no descriptor in two slots, but for one about to be stored; both threads come round again when a held mutex can be destroyed, unless poll failed |
| `event_path` | `EventPath` | 1 session, 4 events, limit 2, 2 addresses, 1 browser, 1 slot, POSIX, nobody leaves | a browser sees the accepted events, in order |
| `plugin_lifecycle` | `PluginLifecycle` | none needed: the model is finite | mutexes outlive threads, nothing is left behind, unloading ends |
| `ws_frame` | `WsFrame` | 2 frames; lengths 0, 125, 126, 65535, 65536, 2^31 - 1 | frames come out as they went in; no client is freed without a reason |
| `http_recv` | `MCHttpRecv`, `HttpRecv` | 3 calls, requests of up to 4 lines (14 bytes), a buffer of 9, cut anywhere | when a request is missed or seen too early |
| `handlers` | `MCHandlers`, `Handlers` | request lines of up to 4 words; 2 arbitrary header lines, and the lines of a handshake in every order with one more | who is sent which resource, and which handshakes are accepted |
| `algorithms` | `Algorithms` | queries of up to 2 of 6 characters, names of up to 1, buffers of 1 to 60, the first 0, 1, 2, 13 or all calls of `realloc` failing; configurations of up to 6 of 6 characters; messages of up to 130 octets, two states of the stack; up to 4 bytes to encode; templates of up to 4 pieces, files of up to 3 | the page reads what was raised; reader, padding, Base64 and templates agree with reference definitions |
| `query_view` | `QueryView` | 4 queries, 3 ends, log of 1 or 2 | log, table, panel and server agree |

Each run has the module's own name for its cfg unless the table says otherwise;
the two runs that expect a violation are below.

Why the bounds are enough to be interesting: in the queue run both sessions can
pass the check on the last free place, so that the queue outgrows the limit, an
event of one session can be linked between two of the other, and addresses are
reused; the theorems of section 4 hold for every bound. In `ws_stay` there are
more connections than slots and than polled places, so connections meet both
limits; in `ws_leave` there are more connections than descriptors, so a number
is reused while its old slot is left behind, and a second slot it could get
into. In `event_path` there are twice as many events as addresses and as places
in the queue, so that behind a message thread that is held up both run out and
events are dropped, and two are queued at a time, so that their order can go
wrong; the thread gets stuck there without anybody leaving, when an event falls
between `connected` and `socket`. The frame lengths are those at which the
encoding changes, and the largest the mask of `ws_recv` keeps. Of the four
requests of `http_recv` one fits its buffer with room for a search that does not
run out of it, one just fits, one fills it up to its blank line, which is cut,
and one is longer still. The sizes of the JSON buffer put its growth at every
place of the shorter texts; with thirteen failing calls a query is cut, or takes
its text from another member, and the message parses all the same. 130 octets
are two blocks of SHA-1 and a rest, 4 bytes a group of Base64 and a rest. The
log of the page is filled twice over, and one query can raise two errors and a result.
Symmetry is used where no liveness is checked.

### Disagreements between the code and what it says

Two runs expect a violation; `PROJECT.json`, `findings`, quotes the lines.

- `ws_live_delivery`: after one failed send under POSIX the message thread
  locks a mutex it holds already, and no event is sent any more. A send fails
  when a browser is reset, and also, with every browser in place, when an event
  comes between logger.c 413 and 414. An unload then waits for that thread.
- `ws_stale_slot`: a hung-up connection keeps its slot; the next connection
  with its descriptor number is taken for the old client. What is read of its
  handshake may be any frame, a close frame too.

Smaller ones have no run of their own: the models contain the behaviour and a
passing property says how far it goes, or the inputs stop short of it.

- ws.c 228 with ws.h 32: `WS_ERROR_MEMORY` is 0, so a client that got no answer
  for lack of memory counts as accepted (`AcceptsValid` allows it explicitly).
- http.c 171: a `Sec-WebSocket-Key` of one space is accepted, and the answer is
  computed from the rest of the request (`AcceptsValid` allows it explicitly).
- ws.c 88, 105-106: values, like names, are compared over their own length, so
  "Upgrade: web" and "Connection: Upgr" ask for an upgrade. `AcceptsValid`
  counts them as valid, and is about requests that abbreviate no name.
- ws.c 91: when `strndup` fails its NULL goes to `strtok_r`, which reads through
  it (`Handlers!CopyDies`); `AcceptsValid` is about handlers that return.
- socket_ext.c 164, http.c 191: a request longer than the buffer is handled as
  far as it fits. In the HTTP server its rest is then taken for another request.
  The search for the end of a later piece runs out of the buffer
  (`EarlyOnlyOnStale` allows each explicitly).
- strbuf.c 115: an insertion copies overlapping memory with `memcpy`, which
  tests/strbuf_tests.c 49-52 relies on (`PlaceholdersReplaced` excludes runs in
  which that went wrong).
- json.c 104: a text ends at its first NUL, and the page reads the query up to
  there without a sign that it was cut (`PageReadsEvent` says so).
- json.c 91-93: "This function probably does not work with UTF-8 characters very
  well". It copies their bytes, and escapes none of them, so texts in UTF-8 come
  out right. Bytes that are no UTF-8 are copied too, into what should be a text
  frame; a browser closes the connection for that. The models have no bytes, and
  take a character beyond ASCII for one like "n".
- strbuf.c 66-69, json.c 57: after several failed reallocations one may succeed.
  The page then may parse a message whose query was cut, its closing quote being
  a later one, and lose the members between (`LostIsNotMisread` allows it when
  more than one append failed).
- ws.c 391: "Clear MSB" clears 33 bits of a 64-bit length; `FramesAgree` is
  checked up to the largest length that survives.
- http.c 213: the answer says `Connection: close`, and the handler keeps the
  connection for further requests (logger.c 378).
- base64.c 63: a multiple of 3 bytes is padded with four `=`; the hash has 20
  (`Base64IsRight` excludes them).
- config.c 84: the item of a last line without an end is lost if its value is
  one character (`LostAtEnd`: no other is). config.c 76: a name without `=`
  fails an assertion, and config.c 54: a byte 0xFF counts as the end of the text
  (`ConfigIsRead` and `LostAtEnd` are about texts without them).
- tools/file_concat.c: it reports success after an error in a placeholder's
  file, and its search goes on at a position of the old text (line 97), so a
  placeholder behind a short file can be skipped (`PlaceholdersReplaced`
  excludes it).
- logger.c 494: `ws_clients_mutex` stays locked when a slot's mutex cannot be
  created; the server thread and the unload wait for it (`ServerReturnsToPoll`
  and `PluginLifecycle!UnloadEnds` allow it explicitly).
- logger.c 261: when `poll` fails, even for a signal, the server thread ends for
  good and nobody is told (`ServerReturnsToPoll` allows it explicitly).
- logger.c 696, 707-708: init does not look at the results of `mutex_create`,
  and threads lock a mutex that may not be there (`MutexesUsable` excepts it).
- socket_ext.c 219: where `shutdown` refuses a listening socket (macOS, BSD,
  Windows), `close_socket_nicely` leaves it open (`UnloadedClean` asks that the
  socket was handed over, not that it is closed).
- logger.c 791: `fclose` is called when no log was opened (`UnloadedClean` says
  that the process dies only then).
- ui/index.js: a query may raise several errors and a result, and its row then
  has the mark of each (`MarksAreTrue` allows it; its status is the last).

### What the passing properties say of weak spots

Some properties state precisely how far a weakness goes, so that a change that
makes it worse is noticed: `QueueBound` (the limit is exceeded by less than one
event per session), `CrashOnlyAfterDrain` (the NULL dereference needs the
drain), `Ownership` (only the buffers of failed allocations leak),
`StallsOnlyOnSplit` and `EarlyOnlyOnStale` (when the header terminator is
missed or found too early), `PageReadsEvent` (only control characters without
an escape break a message, and only a NUL cuts a text), `LostIsNotMisread` (a
message with one failed append is at worst unreadable; it takes several to make
the page read what was never raised), `LostAtEnd` (only a value of one character
at the very end of a configuration is lost),
`AlignedPastFirst` (only the first row of a full table is wrong),
`LostOnlyAtLimit` (a descriptor leaks only when every polled place is taken),
`UnloadClosesClients` (only a client whose mutex was never given back stays
open), `FramesAgree` (only a connection that ended can be freed by an opcode
that was never set), `ServerReturnsToPoll` (which of its waits last, and that
only a failed poll ends it), `AcceptedIsSeen` (an
accepted event misses a browser that stays only if the message thread waits for
itself).

### Fairness

- `EventQueue!Fairness`: weak fairness of the unload, of each session inside
  `send_event`, and of the message thread but for `MtRelease`, the end of a
  broadcast. These steps block on `message_queue_mutex` only, whose holders
  release it in finitely many steps. A broadcast need not end: the message
  thread may wait for a slot's mutex that it holds (the run `ws_live_delivery`),
  or in `send`. `UnloadEnds` has as its condition that no broadcast lasts for
  ever. No fairness is assumed of `Notify` or `DeinitBegin`.
- `WsClients!FairSpec`: weak fairness of the two threads; none of `PollFails`,
  of browsers or of sessions. That a send returns is an assumption of this
  module: a browser that stays and never reads blocks it, which is a way of
  waiting for ever in `PluginLifecycle` and in `EventQueue`.
- `EventPath!FairSpec`: the same, for the message thread, the server thread and
  each session inside `send_event`.
- `PluginLifecycle!FairPluginSpec`: weak fairness of init, of the start of the
  threads, of deinit, and of a thread at the head of its loop that finds its
  flag cleared (`LoopEnds`: `poll` times out after 10 ms). Strong fairness of
  `RoundEnds`: a round handles each place or slot at most once, so a thread that
  stops waiting again and again comes to the end of it. Nothing makes a wait
  end: a browser need not finish its request, nor read, and a mutex may never be
  unlocked. So `UnloadEnds` has as its conditions that no thread waits for ever
  and that `ws_clients_mutex` does not stay locked: otherwise unloading waits
  too, in `thread_join` (logger.c 751, 757, 775) or for the mutex (logger.c 777).
- `WsFrame!FairSpec`: weak fairness of the receiver; none of the sender.
- `EventFifo!FairSpec` is implied by the fairness of `EventQueue`; that is part
  of `ImplementsFifo`.

Deadlock is checked wherever the system cannot stop. It is off where a model
ends with its work done (`algorithms`, `handlers`, `ws_frame`, `query_view`) and
where a thread may wait for good with nothing else left to do: a server thread
in `recv` (`http_recv`), the message thread for a mutex that it holds
(`event_path`), the unload for such a thread (`plugin_lifecycle`, `ws_stay`).

## 4. What is proved

TLC checks small instances; the theorems below hold for every value of the
constants that the ASSUMEs of the modules admit (finite sets of sessions and
connections, positive sizes, values that are not NULL), with no bound on the
length of a run.

| Theorem | Statement | What it says |
|---|---|---|
| **`EventQueueProofs`** | | |
| `TypeCorrect` | `Spec => []TypeOK` | the pointers point to what is allocated |
| `ListShapeHolds` | `Spec => []ListShape` | they spell the list, and no append writes through a stale tail |
| `CountMatchesHolds` | `Spec => []CountMatches` | the count is the length of the list |
| `CrashOnlyAfterDrainHolds` | `Spec => []CrashOnlyAfterDrain` | only the unload can make the message thread meet NULL |
| `QueueBoundHolds` | `Spec => []QueueBound` | the limit is exceeded by less than one event per session |
| `OwnershipHolds` | `Spec => []Ownership` | nothing is freed twice, used after its free or forgotten |
| `SessionOrderHolds` | `Spec => []SessionOrder` | the events of a session stay in order |
| `RefinesFifo` | `Spec => Fifo!Spec` | all of it implements a bounded FIFO |
| **`WsClientsProofs`** | | |
| `UniqueSocketHolds` | `Spec => []UniqueSocket` | no descriptor is in two slots, whatever browsers do |
| `EachEventOnceHolds` | `Stays /\ Spec => []EachEventOnce` | a served browser got every event once, in order |
| `HandshakeComesFirst` | `Stays /\ Spec => []HandshakeFirst` | the answer to the handshake comes before any event |
| `UpgradedHaveSlots` | `Stays /\ Spec => []UpgradedHasSlot` | nobody upgraded is left without a slot |
| `LostOnlyBeyondLimit` | `Stays /\ Spec => []LostOnlyAtLimit` | connections are forgotten only at the limit |
| `UnloadCloses` | `Stays /\ Spec => []UnloadClosesClients` | the unload closes the clients |
| `TextsRiseHolds` | `Stays /\ Spec => []TextsRise` | nobody, served or not, is sent an event twice or out of order |
| **`EventPathProofs`** | | |
| `ImplementsQueue` | `Spec => QueueProofs!Spec` | the whole behaves as `EventQueue` |
| `ImplementsWeb` | `Spec => WebProofs!Spec` | the whole behaves as `WsClients` |
| `SeenInOrderHolds` | `Stays /\ Spec => []SeenInOrder` | browsers see each session's events in order |
| **`QueryViewProofs`** | | |
| `AlignedHolds` | `Spec => []AlignedPastFirst` | log and table agree from the second place on |
| `MarksHold` | `Spec => []MarksAreTrue` | marks tell how queries ended, each as often as it did |
| `EndingsHold` | `Spec => []EndingsShown` | every query whose last end was sent is shown as it ended last |
| `PanelHolds` | `Spec => []PanelIsCurrent` | the panel is up to date, and about a query whose object is selected |
| **`ServerProofs`** | | |
| `ServesPageHolds` | `Spec => []ServesPage` | a well-formed request gets the resource it names or the error it should, whatever its words |
| `AcceptsValidHolds` | `Spec => []AcceptsValid` | a plain handshake is accepted exactly if it is valid, and answered with its own key (the property names the exceptions) |
| `StallsOnlyOnSplitHolds` | `RecvSpec => []StallsOnlyOnSplit` | a request is missed only when its blank line was cut |
| `EarlyOnlyOnStaleHolds` | `RecvSpec => []EarlyOnlyOnStale` | it is seen too early only because of an earlier one, or because the buffer is too short |
| `MutexesStayUsable` | `PluginSpec => []MutexesUsable` | mutexes that could be made outlive the threads that lock them |
| `UnloadLeavesNothing` | `PluginSpec => []UnloadedClean` | an unload that ends leaves nothing behind |
| **`WsFrameProofs`** | | |
| `FramesAgreeHolds` | `Spec => []FramesAgree` | frames come out as they went in, and no client is freed without a reason |
| **`EncodingProofs`** | | |
| `BufferFitsHolds` | `Spec => []BufferFits` | no append writes past the buffer, wherever it grows or fails to |
| `PageReadsEventHolds` | `Spec => []PageReadsEvent` | the page reads the event that was raised, its texts up to a NUL |
| `LostIsNotMisreadHolds` | `Spec => []LostIsNotMisread` | a message with a failed append is not parsed, or memory came back; after one failure no value is taken for another |
| `Base64IsRightHolds` | `Spec => []Base64IsRight` | six bits a character, and its padding |
| `BlocksArePaddedHolds` | `Spec => []BlocksArePadded` | the blocks that are hashed are the message, end mark, zeros and length |
| **`TextProofs`** | | |
| `PlaceholdersReplacedHolds` | `Spec => []PlaceholdersReplaced` | a template comes out with every placeholder replaced, if no file is short and no copy went wrong |
| `ConfigIsReadHolds` | `Spec => []ConfigIsRead` | a plain configuration is read line by line, and no assertion fails |

Every invariant that a passing run checks is proved but `LostAtEnd`, those of `ws_stay` and
`event_path` under the hypothesis `Stays`. The inductive invariants are theorems as well
(`StructureInvariant`, `MessagesInvariant`, `StayingHolds`, `LifecycleHolds`,
`ViewHolds`, `ReceivingHolds`, `FramingHolds`, `ComputedHolds`) or stand next to
the theorem they are for (`Answered`, `Judged`, `Encoded`, `Hashed`, `Replaced`,
`Gathered`).

**Hypotheses.** `Stays` is the only hypothesis of a theorem beside the
specification: no browser leaves, memory lasts, and destroying a mutex that is
held fails, as under POSIX (`Leave = {}`, `~AllocMayFail`, `DestroyHeld =
"busy"`). These are the constants of the run `ws_stay`, and without them the
statements are false: what happens then is what the two violated runs and
`EventsBroadcast`, `ServerReturnsToPoll` are about. Threads still interleave in
every way there, events fall between `connected` and `socket`, and both limits
are met. `ConnAssumption` (finitely many connections) is needed to count those
forgotten. `RequestAssumption` says of requests that they end with their only
blank line; they may be longer than the buffer. `FrameAssumption` says that
opcodes have four bits and that lengths are at most 2^31 - 1: of a longer one
the mask of `ws_recv` keeps a part (ws.c 391), and frames go wrong. `Handlers`
is about requests of any number of words and header lines over any pieces:
`PieceAssumption`, `LineAssumption` and `HeaderAssumption` give them their
types, and say that only `Connection` has a list for its value. Of `Algorithms`,
`SizesAssumption` and `BoundsAssumption` say that sizes are positive and bounds
natural numbers, and `MessageAssumption` that the bits of a message fit
`Length_Low`. The bounds are constants: texts, templates and configurations are
of any length.

**The queue.** None of the invariants is inductive by itself. That the head
pointer is the oldest node after `MtTake` needs the `next` fields of the whole
list; that an append links behind the last node needs the tail pointer, which
the drain leaves dangling while it holds the mutex; that `DrainUnlock` may reset
the tail needs the list to be empty; that the count stays a natural number needs
it to be at least the length of the list. So `Structure` is the conjunction of
`TypeOK`, `ListShape`, `NodesOwned`, `CountMatches` and `Control`, which says
how the positions of the threads hang together. `Messages` builds on it:
`Fresh` (a session appends an event newer than all it left behind),
`StoredOnce`, `BuffersOwned` and `Ordered`; `Ownership` and `SessionOrder`
follow. For `QueueBound`, `Limit` adds to the count one place for each session
that passed the check and has not appended: together they stay below the limit
plus the number of sessions.

**Refinement.** `RefinesFifo` maps the list of nodes to the sequence of their
messages, the node in the message thread's hands to the event held, and takes
the bound of `QueueBound` for the capacity. `AppendMessage` is `Put`, `MtTake`
is `Take`, `MtRelease` is `Finish`, and the steps of the drain are `Close` and
`Discard`; the steps that prepare, look or fail stutter. The fairness of
`EventFifo` is left to TLC (`ImplementsFifo`).

**The slots.** `Descriptors` is inductive whatever browsers do: a handler that
goes through a handshake found no slot with its descriptor, and none gets it but
the one it chose (`Registration`). The proof showed that the property as it was
first stated ("no descriptor in two connected slots") is false. When the
message thread frees a slot between logger.c 413 and 414, the slot is not
connected and gets its descriptor all the same; it can be connected again while
that descriptor is another slot's, until line 414 stores the new one. That takes
more connections than a run of TLC can have. `UniqueSocket` now names the
exception. `Staying` is the invariant behind the theorems under
`Stays`. Its heart is `Sent`: slot `k`'s browser was sent the answer and then
the events from the first after it joined up to `Upto(k)`, which is the event in
hand when the message thread has passed slot `k`, and the one before otherwise.
The other conjuncts say what makes it survive each step: which descriptors are
open and polled (`Connections`, `Polled`), what the handler has at hand
(`AtHand`), that slots are filled but for the one at work (`SlotsFilled`), and
that the message thread holds the mutex of the slot it is at (`Sending`).

**The way of an event.** `EventPath` has the variables of both modules. Each of
its steps is shown to be a step or a stutter of `EventQueue` and one of
`WsClients` (`StepsOfBoth`), so the theorems above carry over to the whole.
`SeenInOrder` needs one more invariant, `Log`: the events taken so far are in
the order of each session, and before those that wait. With `TextsRise`, which
numbers the events a browser was sent, that gives their order at the browser.

**Loading and unloading.** `Lifecycle` counts each mutex (there is one exactly
from its creation to its destruction, unless it could not be made), and places each thread: none before it is
created, and none that was joined runs.

**The page.** `View` says, beside the four properties: messages on their way are
truthful (`SentTrue`), a query is logged once (`LoggedOnce`), its ends come
after its start (`EndAfterStart`), the last of them waits or is shown
(`EndWaitsOrShown`), and
an open panel is about a selected query (`PanelFollows`). Log and table shrink
by different rules, so the step of a start is split by how much each loses.

**Receiving.** `Pieces` says that what was received and what is on its way make
up what this call found on the connection, cut where the cuts were, and that it
fits the buffer so far; `EmptyBehind` that a fresh buffer is empty behind it. A
blank line that was found early then lies in what an earlier call left, or the
search for it ran out of the buffer.

**Frames.** `Framing` says where the frames lie: frame `i` begins at item
`start[i]` of the stream, which is no item any more for the part that was read,
and `ws_recv` is at the beginning of the next frame or, in it, behind the bytes
it has (`Layout`, `At`). Each read then finds the bytes of `Header` at its
place, and what it makes of them is the frame's opcode, its mask bit and, from
one, two or eight bytes, its length (`LengthBits`, `LengthFacts`). When the
stream ended within a frame, `recv_n` hands over a buffer it did not fill and
`ws_recv` may return a frame nobody sent. `CutShort` says that this happens once,
and that its opcode is an opcode sent, because one byte is enough for it.
`Broken` is a connection whose `recv` failed, `FreedRightly` that a client was
freed for a close frame or at the end.

**Requests.** `Answered` says that what `process_http_request` has sent and what it
has still to send make up the answer that the words of the request line call
for. `Judged` says that only an accepted request gets as far as its answer, which
is its key. That what the
callback collected over the header lines decides as the property says is an
induction over the lines: behind each of them the state tells (`Tells`) which
headers came so far. A `Connection` line that is blank takes its items from the
lines behind it, which is harmless because only another `Connection` line can
name `Upgrade` (`ItemsAreConnections`).

**Induction over data.** The induction theorems of the library take an operator
as a parameter, which no installed prover can instantiate. `MinIsLeast` gets the
least element of a set of naturals from the well-foundedness of `<`, and
`UpwardInduction` says of a set `G` of numbers what induction says of a
predicate. A loop of the code is a recursive function of the model, and one more
lemma shows that such a function exists (`RecursionExists`; `DownwardRecursion`
for those that go from the end of a text to its beginning). These few lemmas
stand at the head of each module that needs them.

**The JSON of an event.** `GrownIsEnough` says that doubling ends with enough
room, from any size but 0. `Computed` says that the message is the result of a
known sequence of appends (`PartsAreMembers`), each of which is left out, fails
or is made (`PutFacts`), and the buffer fits after each. The reader of the page
is then where the writer is: in a key, in a string, between members, with the
members before read (`MemberIsPut`, `MembersRead`). Once an append failed, the
reader is stuck and stays so until memory comes back or, with memory back at
once, lacks no more than a part of a key (`StuckStays`, `OnePut`).

**Base64.** The high bits of one byte and the low bits of the next, which
`base64_encode` adds, are a group of six bits (`IndexIsSixBits`); the four ways a
group can lie in its bytes are the four cases.

**Blocks.** After `i` octets the context `Holds` them: full blocks, then those in
the block that is not full, and eight times `i` for the length. `MessagePadded`
follows the end mark, the zeros and the length through the two ways to pad.

**Templates.** After each pass of `file_concat` the text up to the place where
the search goes on, and the expansion of the template from the place it stands
for, make up the expansion of the whole (`MadeUpTo`, `Replaced`). That no file is
shorter than its placeholder is what keeps that place from lying behind the next
one.

**Configurations.** The items read so far and the items of the text from the
next place on are all its items (`Gathers`). A pass begins with blanks, of any
number of lines, and those do not change the items that follow (`BlankAhead`);
then comes a name, and the pass reads the item of the line that name is on
(`ItemReads`), or passes over it when it has no value. The hypothesis `Plain`
is about texts that keep the assertions of `config.c` true.

**Only model-checked**: liveness and the fairness half of the refinement, which
the prover does not support; and `LostAtEnd`, about the one text shape that
`ConfigIsRead` leaves out. What happens in `WsClients` when browsers leave or
memory runs out is proved as far as `UniqueSocket` goes; the rest is in the runs.

## 5. Not modelled

- The rounds of SHA-1: third-party code, a function of the block. Hex, which
  nothing uses, and the tool `cdump`, which prints a file as a C array for the
  build: formatting.
- `read_config_file` (reads a file and calls `read_config`),
  `http_send_internal_error`, `thread_stop`, and `ws_recv` with a pointer for
  the payload: no caller, or pure I/O. The masking of the sender in `ws.c` is
  unfinished and has no caller.
- `strbuf_realloc` on a buffer whose allocation failed would never end; no
  caller goes on with one.
- The log, the clock, error texts, addresses of clients, system variables,
  build files and scripts: no effect on the modelled state. The port variables
  allow 65536, which `serve` takes as port 0 (logger.c 836).
- The rest of the database server. In particular, a descriptor closed twice may
  belong to it by then.
- A browser that stays and never reads, within `WsClients` and `EventPath`: the
  kernel's buffers never fill there (see Fairness).
- Layout, templates and escaping in the page.
- Weak memory: the flags are `volatile` and the list pointers are read once
  without a lock; the models take each access as atomic and in program order.

## 6. Plan

1. *Done*: the queue with its abstract specification, refinement and proofs;
   slots, broadcast and the freeing of clients, with proofs; the composition of
   queue and broadcast, shown to implement both; lifecycle; frames, requests,
   handshake and receiving; string buffer, JSON and the page; the algorithms
   without state; proofs of every invariant the runs check.
2. *Next proofs*: what survives in `WsClients` when browsers leave
   (`Descriptors` does).
3. *Worth modelling later*: the unload inside `EventPath`, and sends that block.

## 7. Running

    tlc -workers 2 -config EventQueue.cfg EventQueue
    tlapm EventQueueProofs.tla

The other modules of proofs are checked the same way; `WsClientsProofs`,
`EventQueueProofs` and `WsFrameProofs` take some minutes, `EncodingProofs` and
`TextProofs` up to ten each.

Each run of section 3 takes seconds, but `ws_leave`, `event_path`, `algorithms`
and `query_view`, which take one to three minutes.
