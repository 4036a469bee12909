----------------------------- MODULE MCHandlers -----------------------------
(* Requests for Handlers: well-formed, malformed, and at the edges of what *)
(* the parser takes.                                                       *)
EXTENDS Handlers

MCPiece ==
  http_methods \cup {"FOR", "INVALID_METHOD"}
  \cup {"/", "favicon", ".ico", "index", ".css", ".js", "other", "?", "http:"}
  \cup Numeral \cup {"HTTP/", "HPPT/", "."}
  \cup {"Upgrade", "Upgr", "websocket", "web", "keep-alive", "h2c", "key", "key2", "host", "v", " "}

Method == {<<"GET">>, <<"HEAD">>, <<"POST">>, <<"FOR", "GET">>, <<"INVALID_METHOD">>}
Target == {<<"/">>, <<"/", "favicon", ".ico">>, <<"/", "index", ".css">>,
           <<"/", "index", ".js">>, <<"/", "index">>, <<"/", "other">>,
           <<"/", "index", ".js", "?">>, <<"http:", "/">>}
VersionWord == {<<"HTTP/", "1", ".", "1">>, <<"HTTP/", "2", ".", "1">>,
                <<"HTTP/", "1", ".", "257">>, <<"HTTP/", "257", ".", "1">>,
                <<"HTTP/", "1", ".">>, <<"HTTP/", "1">>, <<"HTTP/">>, <<"HPPT/", "1">>}

MCLine ==
  [leading : BOOLEAN,
   words : {<<>>} \cup {<<m>> : m \in Method}
           \cup {<<m, t>> : m \in Method, t \in Target}
           \cup {<<m, t, v>> : m \in Method, t \in Target, v \in VersionWord}
           \cup {<<<<"GET">>, <<"/">>, v, <<"/">>>> : v \in VersionWord}]

MCHandshakeLine ==
  {[leading |-> FALSE, words |-> <<m, <<"/">>, v>>] :
     <<m, v>> \in ({<<"GET">>} \X VersionWord)
                  \cup ((Method \ {<<"GET">>}) \X {<<"HTTP/", "1", ".", "1">>})}

MCHeader ==
  {Field("Connection", v) : v \in {<<"keep-alive">>, <<"keep-alive", "Upgrade">>,
                                   <<"Upgrade", "keep-alive">>, Blank,
                                   <<"Upgr">>, <<"keep-alive", "Upgr">>}}
  \cup {Field("Upgrade", v) : v \in {<<"h2c">>, Blank, <<"web">>}}
  \cup {Field("Sec-WebSocket-Version", v) : v \in {<<"8">>, Blank}}
  \cup {Field("Sec-WebSocket-Key", v) : v \in {Blank, <<"key2">>}}
  \cup {Field("Sec-WebSocket-", v) : v \in {<<"13">>, <<"key">>}}
  \cup {Field("Upgr", <<"websocket">>), Field("Host", <<"host">>)}
  \cup {Field("", <<"v">>), Field("Host", <<>>),
        [name |-> "Host", colon |-> FALSE, value |-> <<"v">>]}
  \cup Handshake

=============================================================================
