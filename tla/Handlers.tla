------------------------------ MODULE Handlers ------------------------------
(***************************************************************************)
(* What the two servers of logger.c make of a new request: the handler     *)
(* process_http_request with the answers of http.c, and ws_accept of ws.c  *)
(* up to the answer to the handshake.  HttpRecv models the receiving.      *)
(***************************************************************************)
EXTENDS WsHandshake

CONSTANTS
  Piece,         \* the pieces of texts
  Line,          \* request lines for the page's server
  HandshakeLine, \* request lines for handshakes
  Header,        \* header lines
  MaxHeaders     \* bound on the header lines of an arbitrary request

(* What says that there is no key is not a text. *)
ASSUME PieceAssumption ==
  {"Upgrade", "websocket", "13", "key"} \subseteq Piece /\ NoKey \notin Piece

ASSUME LineAssumption ==
  Line \cup HandshakeLine \subseteq [leading : BOOLEAN, words : Seq(Seq(Piece))]

(* Only the value of Connection is a list; any other is one piece, or none. *)
ASSUME HeaderAssumption ==
  \A h \in Header :
    /\ h.value \in Seq(Piece)
    /\ h.name # "Connection" => Len(h.value) <= 1

ASSUME BoundAssumption == MaxHeaders \in Nat

VARIABLES
  server,    \* "http": process_http_request; "ws": ws_accept
  request,   \* the request
  pc,        \* where the handler is
  todo,      \* what is still to be sent
  sent,      \* what was sent
  result     \* what the handler returns

vars == <<server, request, pc, todo, sent, result>>

(* A handshake as browsers send it, in any order, with one line added or   *)
(* replaced; and any few header lines.                                     *)
Field(name, value) == [name |-> name, colon |-> TRUE, value |-> value]
Handshake == {Field("Connection", <<"Upgrade">>), Field("Upgrade", <<"websocket">>),
              Field("Sec-WebSocket-Version", <<"13">>), Field("Sec-WebSocket-Key", <<"key">>)}
AlmostHandshake ==
  UNION {{InsertAt(s, i, h) : i \in 1..Len(s) + 1} \cup {ReplaceAt(s, i, h) : i \in 1..Len(s)} :
           s \in SetToSeqs(Handshake), h \in Header}

Init ==
  /\ \/ /\ server = "http"
        /\ request \in [line : Line, headers : {<<>>}]
     \/ /\ server = "ws"
        /\ request \in [line : HandshakeLine,
                        headers : SeqOf(Header, MaxHeaders) \cup AlmostHandshake]
  /\ pc = "receive"
  /\ todo = <<>>
  /\ sent = <<>>
  /\ result = 0

-----------------------------------------------------------------------------
(* http_recv_headers fails, or finds the end of the connection. *)
ReceiveFails ==
  /\ pc = "receive"
  /\ result' = IF server = "ws" THEN WS_ERROR_RECV ELSE -1
  /\ pc' = "gone"
  /\ UNCHANGED <<server, request, todo, sent>>

Receive ==
  /\ pc = "receive"
  /\ pc' = "handle"
  /\ UNCHANGED <<server, request, todo, sent, result>>

-----------------------------------------------------------------------------
(* process_http_request *)

BadRequest == "400"
OK == "200"

(* http_resources: the paths of the page, in the order they are tried. *)
http_resources == <<<<"/">>, <<"/", "favicon", ".ico">>,
                    <<"/", "index", ".css">>, <<"/", "index", ".js">>>>

(* Mutant: the path's length decides how much is compared. *)
MatchesPath(target, path) == IsPrefix(path, target)

(* Only as much of a path is compared as the target has. *)
Matches(target, path) == IsPrefix(target, path)

(* The resource for a target, 0 if there is none. *)
Resource(target) ==
  SelectInSeq(http_resources, LAMBDA path : Matches(target, path))

(* What is sent for a request that was parsed and has a supported version: *)
(* http_send_content sends the headers and then the resource.              *)
Answer(method, target) ==
  LET i == Resource(target) IN
  IF i = 0 THEN <<BadRequest>>
  ELSE IF method = <<"GET">> THEN <<OK, http_resources[i]>>
  ELSE IF method = <<"HEAD">> THEN <<OK>>
  ELSE <<BadRequest>>

(* Headers are not looked at.  After an answer the handler returns 0, and  *)
(* serve keeps the connection, whatever "Connection: close" says.          *)
ProcessHttpRequest ==
  LET words == request.line.words IN
  /\ server = "http"
  /\ pc = "handle"
  /\ IF ~ParsesLine(request.line)
     THEN todo' = <<>> /\ result' = -1
     ELSE IF VersionOf(words[3]) >= FirstUnsupported
     THEN todo' = <<BadRequest>> /\ result' = -1
     ELSE todo' = Answer(words[1], words[2]) /\ result' = 0
  /\ pc' = "send"
  /\ UNCHANGED <<server, request, sent>>

-----------------------------------------------------------------------------
(* ws_accept *)

ParseConnectRequest ==
  /\ server = "ws"
  /\ pc = "handle"
  /\ result' = Verdict(request)
  /\ pc' = IF result' = 0 THEN "copy_key" ELSE "returned"
  /\ UNCHANGED <<server, request, todo, sent>>

(* strndup, and the malloc of ws_send_handshake_accept: either may fail. *)
CopyKeyFails ==
  /\ pc = "copy_key"
  /\ result' = WS_ERROR_MEMORY
  /\ pc' = "returned"
  /\ UNCHANGED <<server, request, todo, sent>>

(* The answer is computed from the key. *)
CopyKey ==
  /\ pc = "copy_key"
  /\ todo' = <<HandshakeState(request.headers).websocket_key>>
  /\ pc' = "send"
  /\ UNCHANGED <<server, request, sent, result>>

(* on_handshake_header copies the value of line i to look for its items.   *)
CopiesItems(headers, i) ==
  /\ ParsesHeaders(SubSeq(headers, 1, i))
  /\ Means(headers[i].name, "Connection") /\ ~IsValue(headers[i].value, "Upgrade")

(* A copy for which there is no memory is split into items all the same.   *)
(* And the strndup of string_ext.c, where the system has none, copies as   *)
(* many bytes as it is told, the key's too: a negative length is too many. *)
CopyDies ==
  /\ server = "ws"
  /\ \/ /\ pc = "handle" /\ ParsesLine(request.line)
        /\ \E i \in DOMAIN request.headers : CopiesItems(request.headers, i)
     \/ pc = "copy_key" /\ HandshakeState(request.headers).websocket_key = RestOfRequest
  /\ pc' = "crashed"
  /\ UNCHANGED <<server, request, todo, sent, result>>

-----------------------------------------------------------------------------
Send ==
  /\ pc = "send"
  /\ todo # <<>>
  /\ sent' = Append(sent, Head(todo))
  /\ todo' = Tail(todo)
  /\ UNCHANGED <<server, request, pc, result>>

(* What follows is not sent.  The HTTP server does not look at the result. *)
SendFails ==
  /\ pc = "send"
  /\ todo # <<>>
  /\ result' = IF server = "ws" THEN WS_ERROR_SEND ELSE result
  /\ pc' = "returned"
  /\ UNCHANGED <<server, request, todo, sent>>

Sent ==
  /\ pc = "send"
  /\ todo = <<>>
  /\ pc' = "returned"
  /\ UNCHANGED <<server, request, todo, sent, result>>

-----------------------------------------------------------------------------
Next ==
  \/ ReceiveFails \/ Receive
  \/ ProcessHttpRequest
  \/ ParseConnectRequest \/ CopyKey \/ CopyKeyFails \/ CopyDies
  \/ Send \/ SendFails \/ Sent

Spec == Init /\ [][Next]_vars

-----------------------------------------------------------------------------
(* Properties                                                               *)

(* A request line as it should be: a method, a target, and HTTP/1 or 2     *)
(* with or without a minor number (tests/http_tests.c accepts both).       *)
WellFormed(line) ==
  /\ ~line.leading /\ Len(line.words) = 3
  /\ Len(line.words[1]) = 1 /\ line.words[1][1] \in http_methods
  /\ LET v == line.words[3] IN
       PieceAt(v, 1) = "HTTP/" /\ PieceAt(v, 2) \in {"1", "2"}

(* What a client of the page should be sent. *)
Expected(line) ==
  IF line.words[3][2] # "1" \/ line.words[2] \notin ToSet(http_resources) THEN <<BadRequest>>
  ELSE CASE line.words[1] = <<"GET">>  -> <<OK, line.words[2]>>
         [] line.words[1] = <<"HEAD">> -> <<OK>>
         [] OTHER                      -> <<BadRequest>>

Abbreviates(target) == \E path \in ToSet(http_resources) : IsStrictPrefix(target, path)

(* Every well-formed request gets the answer it should, and all of it      *)
(* unless a send fails; only an unfinished path may be answered with the   *)
(* first resource that begins like it ("/" is one itself).                 *)
ServesPage ==
  (server = "http" /\ pc = "returned" /\ WellFormed(request.line)
     /\ (Abbreviates(request.line.words[2]) => request.line.words[2] = <<"/">>))
    => sent \o todo = Expected(request.line)

Named(n) == {i \in DOMAIN request.headers : request.headers[i].name = n}
HasField(n, v) ==
  \E i \in Named(n) :
    LET value == request.headers[i].value IN
    v \in ToSet(value) \/ (Len(value) = 1 /\ <<value[1], v>> \in Abbreviation)

(* No name is abbreviated, none but Connection is given twice, and the     *)
(* line has no more than its three words and no version that wraps.        *)
Plain ==
  LET N(i) == request.headers[i].name IN
  /\ \A i, j \in DOMAIN request.headers :
       /\ N(i) \notin {a[1] : a \in Abbreviation}
       /\ (i # j /\ N(i) # "Connection") => N(i) # N(j)
  /\ Len(request.line.words) <= 3
  /\ \A w \in ToSet(request.line.words) : "257" \notin ToSet(w)

(* What RFC 6455 asks of a client, but for the key; any Connection field,  *)
(* and any item of its list, may ask for the upgrade.  Only a value that   *)
(* is a single item may abbreviate what it should be.                      *)
ValidButKey ==
  /\ ParsesHeaders(request.headers)
  /\ WellFormed(request.line)
  /\ request.line.words[1] = <<"GET">> /\ request.line.words[3][2] = "1"
  /\ HasField("Connection", "Upgrade") /\ HasField("Upgrade", "websocket")
  /\ HasField("Sec-WebSocket-Version", "13")

Refused == result \notin {0, WS_ERROR_SEND} /\ sent = <<>>

(* A request that abbreviates no name, and repeats none but Connection, is *)
(* accepted exactly if it is valid, in whatever order its fields come, and *)
(* is answered with its own key and no other.  Three things count as valid *)
(* that are not: a Connection of one item, or an Upgrade, that abbreviates *)
(* its value is accepted; a lack of memory is 0, so a request may count as *)
(* accepted without an answer; and one whose key is blank is accepted, and *)
(* answered with something else.                                           *)
AcceptsValid ==
  (server = "ws" /\ pc = "returned" /\ Plain) =>
    LET keys == {request.headers[i].value : i \in Named("Sec-WebSocket-Key")} IN
    IF ValidButKey /\ keys \notin {{}, {Blank}}
    THEN result \in {0, WS_ERROR_SEND} /\ sent \in {<<>>} \cup keys
    ELSE Refused \/ (ValidButKey /\ keys = {Blank})

=============================================================================
