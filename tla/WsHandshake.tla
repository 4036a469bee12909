----------------------------- MODULE WsHandshake -----------------------------
(***************************************************************************)
(* The checks of the WebSocket handshake in ws.c: ws_parse_connect_request *)
(* with on_handshake_header.                                               *)
(*                                                                         *)
(* Names, and whole values, are compared over their own length only, so an *)
(* abbreviation counts as what it abbreviates; the items of a list are     *)
(* compared whole.  A blank value has a negative length, which as a size_t *)
(* reaches to the end of the request.                                      *)
(***************************************************************************)
EXTENDS HttpRequest

(* The enumeration of ws.h: the first constant is 0. *)
WS_ERROR_MEMORY == 0
WS_ERROR_SEND == 1
WS_ERROR_RECV == 2
WS_ERROR_HTTP_REQUEST == 3
WS_ERROR_HTTP_METHOD == 4
WS_ERROR_HTTP_VERSION == 5
WS_ERROR_WEBSOCKET_VERSION == 6
WS_ERROR_NO_UPGRADE == 7
WS_ERROR_NO_KEY == 8

WS_PROTOCOL_VERSION == 13
NoKey == "none"
RestOfRequest == "rest"    \* a blank key is read up to the end of the request

(* The texts that abbreviate another, with what they abbreviate. *)
Abbreviation == {<<"Sec-WebSocket-", "Sec-WebSocket-Version">>,
                 <<"Sec-WebSocket-", "Sec-WebSocket-Key">>,
                 <<"Upgr", "Upgrade">>, <<"web", "websocket">>}

(* strncasecmp(text, full, length of text): equal, or an abbreviation. *)
Means(text, full) == text = full \/ <<text, full>> \in Abbreviation

(* A value that is one item is compared like a name. *)
IsValue(value, full) == Len(value) = 1 /\ Means(value[1], full)

(* What strtok_r finds in the rest of the request behind line i: the items *)
(* of the lines that follow, but the last of a line has its CRLF with it.  *)
ItemsBehind(headers, i) ==
  UNION {ToSet(Front(headers[j].value)) : j \in i + 1 .. Len(headers)}

Items(headers, i) ==
  IF headers[i].value = Blank THEN ItemsBehind(headers, i) ELSE ToSet(headers[i].value)

AsksForUpgrade(headers, i) ==
  IsValue(headers[i].value, "Upgrade") \/ "Upgrade" \in Items(headers, i)

OnConnection(headers, state, i) ==
  [state EXCEPT !.has_upgrade_connection = @ \/ AsksForUpgrade(headers, i)]

(* on_handshake_header for line i: Connection is remembered once it asked  *)
(* for an upgrade; of the other fields the last one counts.  The names are *)
(* tried in this order.                                                    *)
OnHandshakeHeader(headers, state, i) ==
  LET name == headers[i].name
      value == headers[i].value
  IN
  CASE Means(name, "Connection") -> OnConnection(headers, state, i)
    [] Means(name, "Upgrade") ->
         [state EXCEPT !.upgrade_to_websocket = IsValue(value, "websocket")]
    [] Means(name, "Sec-WebSocket-Version") ->
         [state EXCEPT !.websocket_version = Atoin(value[1])]
    [] Means(name, "Sec-WebSocket-Key") /\ ~Means(name, "Sec-WebSocket-Version") ->
         [state EXCEPT !.websocket_key = IF value = Blank THEN RestOfRequest ELSE value[1]]
    [] OTHER -> state

(* What the lines up to i leave in the state. *)
HandshakeState(headers) ==
  LET state[i \in 0..Len(headers)] ==
        IF i = 0
        THEN [has_upgrade_connection |-> FALSE, upgrade_to_websocket |-> FALSE,
              websocket_version |-> 0, websocket_key |-> NoKey]
        ELSE OnHandshakeHeader(headers, state[i - 1], i)
  IN  state[Len(headers)]

(* Mutant: either of the two upgrade fields is enough. *)
AsksUpgradeEither(state) == state.has_upgrade_connection \/ state.upgrade_to_websocket

AsksUpgrade(state) == state.has_upgrade_connection /\ state.upgrade_to_websocket

(* ws_parse_connect_request: the first check that fails decides. *)
Verdict(request) ==
  IF ~ParsesLine(request.line) \/ ~ParsesHeaders(request.headers)
  THEN WS_ERROR_HTTP_REQUEST
  ELSE LET state == HandshakeState(request.headers) IN
       IF request.line.words[1] # <<"GET">> THEN WS_ERROR_HTTP_METHOD
       ELSE IF VersionOf(request.line.words[3]) >= FirstUnsupported THEN WS_ERROR_HTTP_VERSION
       ELSE IF state.websocket_version # WS_PROTOCOL_VERSION THEN WS_ERROR_WEBSOCKET_VERSION
       ELSE IF ~AsksUpgrade(state) THEN WS_ERROR_NO_UPGRADE
       ELSE IF state.websocket_key = NoKey THEN WS_ERROR_NO_KEY
       ELSE 0

=============================================================================
