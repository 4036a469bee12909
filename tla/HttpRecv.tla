------------------------------ MODULE HttpRecv ------------------------------
(***************************************************************************)
(* Receiving the headers of a request: http_recv_headers, that is recv_n   *)
(* (socket_ext.c) with the handler on_headers (http.c), for both servers.  *)
(*                                                                         *)
(* recv may cut a request anywhere.  on_headers looks for the blank line   *)
(* from the first byte of the piece just read, over as many bytes as were  *)
(* read in all: it misses a blank line that lies in two pieces, and after  *)
(* the first piece it looks at bytes of the buffer nobody received, and    *)
(* at bytes behind the buffer.  A request that does not fit is handled as  *)
(* far as it does, and its rest, in the HTTP server, as another one.       *)
(***************************************************************************)
EXTENDS Naturals, Sequences

CONSTANTS
  Requests,      \* requests as browsers send them
  Size,          \* MAX_HTTP_HEADERS
  MaxCalls       \* bound on the calls of http_recv_headers

(* "x" is any byte of a line, "-" the NUL the buffer starts with. *)
BlankLine == <<"\r", "\n", "\r", "\n">>
BlankAt(str, i) == \A j \in 1..4 : str[i + j - 1] = BlankLine[j]

(* A request ends with the only blank line it has. *)
ASSUME RequestAssumption ==
  /\ Requests \subseteq Seq({"x", "\r", "\n"})
  /\ \A r \in Requests :
       /\ Len(r) >= 4
       /\ \A i \in 1..Len(r) - 3 : BlankAt(r, i) <=> i = Len(r) - 3
  /\ Size \in Nat \ {0}
  /\ MaxCalls \in Nat

VARIABLES
  caller,     \* "http": process_http_request; "ws": ws_accept
  buf,        \* the caller's buffer
  len,        \* recv_n's len: bytes received by this call
  cuts,       \* history: where the pieces of this call end, and where one
              \* before it did
  stream,     \* bytes of the connection not received yet
  whole,      \* history: what this call found there
  ended,      \* the client shut the connection down
  calls,      \* calls so far
  recvPc      \* "poll", "recv", "returned" or "crashed"

(* ServerProofs extends Handlers as well: its names are Init, Next and Spec. *)
callVars == <<caller, buf, len, cuts>>
clientVars == <<whole, ended, calls>>
recvVars == <<callVars, clientVars, stream, recvPc>>

-----------------------------------------------------------------------------
Zeroed == [i \in 1..Size |-> "-"]

(* strnstr: substr begins at one of the places at..at + n - Len(substr). *)
Strnstr(str, at, substr, n) ==
  \E i \in at .. at + n - Len(substr) :
    \A j \in 1..Len(substr) : i + j - 1 <= Size /\ str[i + j - 1] = substr[j]

(* Mutant: only the piece itself is searched, its first byte left out. *)
OnHeadersFromSecond(b, total, offset, n) == Strnstr(b, offset + 2, BlankLine, total)

(* Mutant: half a blank line is taken for one. *)
OnHeadersAnyLine(b, total, offset, n) == Strnstr(b, offset + 1, <<"\r", "\n">>, total)

(* buf + chunk_offset is searched over len bytes, not over chunk_len. *)
OnHeaders(b, total, offset, n) == Strnstr(b, offset + 1, BlankLine, total)

(* The search reads a byte behind the buffer, all bytes before it being as *)
(* in a blank line. *)
LooksBehind(b, total, offset) ==
  \E i \in offset + 1 .. offset + total - 3 :
    i + 3 > Size /\ \A j \in 1..4 : i + j - 1 <= Size => b[i + j - 1] = BlankLine[j]

(* recv_n returns when a blank line is found, or the buffer is full.       *)
(* Behind the buffer may be any bytes, or no memory.                       *)
Outcomes(b, total, offset, n) ==
  IF OnHeaders(b, total, offset, n) THEN {"returned"}
  ELSE {IF total = Size THEN "returned" ELSE "recv"}
         \cup IF LooksBehind(b, total, offset) THEN {"returned", "crashed"} ELSE {}

RecvInit ==
  /\ caller = "http"
  /\ buf = Zeroed
  /\ len = 0
  /\ cuts = {}
  /\ stream = <<>>
  /\ whole = <<>>
  /\ ended = FALSE
  /\ calls = 0
  /\ recvPc = "poll"

-----------------------------------------------------------------------------
(* http_recv_headers is called when the poll reports input.  The buffer is *)
(* zeroed by ws_accept (ws.c:211); that of process_http_request            *)
(* (logger.c:322) holds what the stack held.                               *)
Call(request) ==
  /\ recvPc = "poll"
  /\ calls < MaxCalls
  /\ calls' = calls + 1
  /\ stream' = request
  /\ whole' = request
  /\ len' = 0
  /\ recvPc' = "recv"
  /\ \/ caller' = "ws" /\ buf' = Zeroed
     \/ caller' = "http" /\ buf' \in {buf, Zeroed}

(* A client sends a request on a connection of its own. *)
ClientRequests ==
  /\ \E r \in Requests : Call(r)
  /\ ended' = FALSE
  /\ cuts' = {}

(* The HTTP server answered, and finds the rest of the request. *)
ReadRest ==
  /\ stream # <<>>
  /\ Call(stream)
  /\ caller' = "http"
  /\ cuts' = {0}
  /\ UNCHANGED ended

(* The client gives up in the middle of its request, or after it. *)
ClientEnds ==
  /\ recvPc = "recv"
  /\ ~ended
  /\ ended' = TRUE
  /\ UNCHANGED <<callVars, whole, calls, stream, recvPc>>

(* recv returns k bytes, as many as fit at most. *)
Recv ==
  /\ recvPc = "recv"
  /\ \E k \in 1..Len(stream) :
       /\ len + k <= Size
       /\ buf' = [i \in 1..Size |-> IF i \in len + 1 .. len + k THEN stream[i - len] ELSE buf[i]]
       /\ len' = len + k
       /\ cuts' = cuts \cup {len + k}
       /\ stream' = SubSeq(stream, k + 1, Len(stream))
       /\ recvPc' \in Outcomes(buf', len + k, len, k)
  /\ UNCHANGED <<caller, clientVars>>

(* recv returns 0: the end of the connection. *)
RecvEof ==
  /\ recvPc = "recv"
  /\ stream = <<>>
  /\ ended
  /\ recvPc' = "returned"
  /\ UNCHANGED <<callVars, clientVars, stream>>

(* recv fails: the connection was reset, what was on its way is lost. *)
RecvFails ==
  /\ recvPc = "recv"
  /\ ended
  /\ stream' = <<>>
  /\ recvPc' = "returned"
  /\ UNCHANGED <<callVars, clientVars>>

(* The request is answered or refused, and the thread polls again.  What  *)
(* is left of it is lost with the connection, or is read next.             *)
AnswerRequest ==
  /\ recvPc = "returned"
  /\ recvPc' = "poll"
  /\ stream' = <<>> \/ (caller = "http" /\ UNCHANGED stream)
  /\ UNCHANGED <<callVars, clientVars>>

-----------------------------------------------------------------------------
RecvNext ==
  ClientRequests \/ ReadRest \/ ClientEnds \/ Recv \/ RecvEof \/ RecvFails \/ AnswerRequest

RecvSpec == RecvInit /\ [][RecvNext]_recvVars

-----------------------------------------------------------------------------
(* Properties                                                               *)

Received == len = Len(whole)

(* The server thread waits for bytes that a client has no reason to send   *)
(* only if the blank line came in two pieces: every other way to cut a     *)
(* request, and every length of it, is recognised as complete.             *)
StallsOnlyOnSplit ==
  (recvPc = "recv" /\ Received) => cuts \cap (len - 3 .. len - 1) # {}

(* A request is handled before all of it arrived only if the connection    *)
(* ended; if it fills the buffer; in the HTTP server, whose buffer may     *)
(* hold the blank line of an earlier call, if there was one; or if the     *)
(* search for a later piece ran out of the buffer.                         *)
EarlyOnlyOnStale ==
  (recvPc = "returned" /\ ~Received /\ ~ended) =>
    \/ len = Size
    \/ caller = "http" /\ calls > 1
    \/ \E c \in cuts : c < len /\ c + len > Size

=============================================================================
