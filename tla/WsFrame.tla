------------------------------- MODULE WsFrame -------------------------------
(***************************************************************************)
(* WebSocket frames (ws.c) on a byte stream (socket_ext.c): what           *)
(* ws_alloc_frame writes, and how ws_recv reads frames back with recv_n    *)
(* while the stream arrives in pieces of any size and may end anywhere.    *)
(*                                                                         *)
(* A byte of a header is an item of the stream; a payload is one item that *)
(* stands for its bytes.  The receiver is the plugin's: it passes no data  *)
(* pointer, so ws_recv skips the payload and unmasks nothing.              *)
(***************************************************************************)
EXTENDS Integers, Sequences

CONSTANTS
  Opcodes,      \* opcodes sent
  Lengths,      \* payload lengths sent
  MaxFrames     \* bound on the frames of a run

(* The longest payload that ws_recv's 0x7FFFFFFF leaves its length: 2^31-1. *)
MaxLength == 256 * (256 * (256 * 127 + 255) + 255) + 255

ASSUME FrameAssumption ==
  /\ Opcodes \subseteq 0..15
  /\ Lengths \subseteq 0..MaxLength
  /\ MaxFrames \in Nat

VARIABLES
  sent,       \* history: frames sent
  stream,     \* items on the way
  ended,      \* the sender shut the connection down
  pc,         \* where ws_recv is
  buf,        \* bytes its recv_n got so far
  opcode,     \* *out_opcode
  mask,       \* the frame is masked
  len,        \* payload_len
  received,   \* history: frames ws_recv returned
  client      \* what the handler made of them: "served", "freed" or "failed"

senderVars == <<sent, ended>>
recvVars == <<pc, buf, opcode, mask, len, received, client>>
vars == <<senderVars, stream, recvVars>>

FINAL == 128                 \* WS_FLAG_FINAL, in the first byte
MASK == 128                  \* WS_FLAG_MASK, in the second
PAYLOAD_LENGTH_16 == 126
PAYLOAD_LENGTH_64 == 127
WS_OP_CLOSE == 8
Unset == -1                  \* an opcode nobody stored

(* What a read finds in the bytes of a buffer that recv_n did not fill; one *)
(* value stands for all of them.                                           *)
Garbage == {0, PAYLOAD_LENGTH_16, PAYLOAD_LENGTH_64, 255}

(* What the handler finds in an opcode that ws_recv did not store. *)
Uninitialised == {1, WS_OP_CLOSE}

Frame == [opcode : Opcodes, mask : BOOLEAN, len : Lengths]

Init ==
  /\ sent = <<>>
  /\ stream = <<>>
  /\ ended = FALSE
  /\ pc = "idle"
  /\ buf = <<>>
  /\ opcode = Unset
  /\ mask = FALSE
  /\ len = 0
  /\ received = <<>>
  /\ client = "served"

-----------------------------------------------------------------------------
(* Numbers on the wire, most significant byte first.                        *)

(* Mutant: the high byte of a two-byte length is lost. *)
ShortLengthLow(n) == <<0, n % 256>>

ShortLength(n) == <<n \div 256, n % 256>>
LongLength(n) == <<0, 0, 0, 0, n \div 16777216, (n \div 65536) % 256, (n \div 256) % 256, n % 256>>

FromShort(b) == 256 * b[1] + b[2]

(* ntohll(len) & 0x7FFFFFFF: the four high bytes go, and one bit more.     *)
ClearMsb(b) == 256 * (256 * (256 * (b[5] % 128) + b[6]) + b[7]) + b[8]

(* The seven bits of the length, and the bytes that extend it. *)
LengthField(n) ==
  IF n < PAYLOAD_LENGTH_16 THEN [high |-> n, ext |-> <<>>]
  ELSE IF n <= 65535 THEN [high |-> PAYLOAD_LENGTH_16, ext |-> ShortLength(n)]
  ELSE [high |-> PAYLOAD_LENGTH_64, ext |-> LongLength(n)]

(* A frame's header as ws_alloc_frame builds it; only browsers mask, and   *)
(* their four-byte key follows the length.  ws_send_close passes no flags. *)
Header(f) ==
  LET field == LengthField(f.len)
      final == IF f.opcode = WS_OP_CLOSE /\ ~f.mask THEN 0 ELSE FINAL
  IN  <<final + f.opcode, field.high + IF f.mask THEN MASK ELSE 0>>
        \o field.ext \o (IF f.mask THEN <<1, 2, 3, 4>> ELSE <<>>)

Encode(f) ==
  [i \in 1..Len(Header(f)) |-> [kind |-> "byte", byte |-> Header(f)[i]]]
    \o IF f.len = 0 THEN <<>> ELSE <<[kind |-> "payload", len |-> f.len]>>

-----------------------------------------------------------------------------
(* The sender                                                               *)

Send ==
  /\ ~ended
  /\ Len(sent) < MaxFrames
  /\ \E f \in Frame :
       /\ sent' = Append(sent, f)
       /\ stream' = stream \o Encode(f)
  /\ UNCHANGED <<ended, recvVars>>

(* The connection ends; what send_n had not sent is lost. *)
End ==
  /\ ~ended
  /\ ended' = TRUE
  /\ \E k \in 0..Len(stream) : stream' = SubSeq(stream, 1, k)
  /\ UNCHANGED <<sent, recvVars>>

-----------------------------------------------------------------------------
(* ws_recv                                                                  *)

Want == CASE pc = "header" -> 2 [] pc = "ext16" -> 2 [] pc = "ext64" -> 8 [] pc = "key" -> 4
          [] OTHER -> 0

(* ws_recv returned 0: the handler looks at the opcode, and frees the      *)
(* client and closes the connection for a close frame.                     *)
TakesOpcode(op) == client' = IF op = WS_OP_CLOSE THEN "freed" ELSE client

(* poll reported the socket; ws_recv is called. *)
Begin ==
  /\ pc = "idle" /\ client = "served"
  /\ stream # <<>> \/ ended
  /\ pc' = "header"
  /\ buf' = <<>>
  /\ opcode' = Unset
  /\ UNCHANGED <<senderVars, stream, mask, len, received, client>>

(* One turn of recv_n: recv gives at least one byte, at most those missing.*)
(* Reading a payload as a header is reading garbage.                       *)
RecvSome ==
  /\ Len(buf) < Want
  /\ \E k \in 1..(Want - Len(buf)) :
       /\ k <= Len(stream)
       /\ stream' = SubSeq(stream, k + 1, Len(stream))
       /\ IF \A i \in 1..k : stream[i].kind = "byte"
          THEN buf' = buf \o [i \in 1..k |-> stream[i].byte] /\ UNCHANGED pc
          ELSE pc' = "garbled" /\ buf' = <<>>
  /\ UNCHANGED <<senderVars, opcode, mask, len, received, client>>

(* What the handler reads when ws_recv returns 0 before it stored one.     *)
OpcodeRead == IF opcode = Unset THEN Uninitialised ELSE {opcode}

(* The stream ends: recv_n returns 0, and so does ws_recv, which is what   *)
(* it returns for a frame; or recv_n returns the few bytes it has, and     *)
(* ws_recv takes them for all of them.                                     *)
RecvEnd ==
  /\ Len(buf) < Want
  /\ ended /\ stream = <<>>
  /\ IF buf = <<>>
     THEN pc' = "idle" /\ UNCHANGED buf /\ \E op \in OpcodeRead : TakesOpcode(op)
     ELSE /\ \E b \in Garbage : buf' = buf \o [i \in 1..(Want - Len(buf)) |-> b]
          /\ UNCHANGED <<pc, client>>
  /\ UNCHANGED <<senderVars, stream, opcode, mask, len, received>>

(* recv fails, as when the connection was reset: ws_recv returns the error *)
(* and the handler has the connection closed.                              *)
RecvFails ==
  /\ pc \in {"header", "ext16", "ext64", "key", "payload"}
  /\ Len(buf) < Want \/ (pc = "payload" /\ len > 0)
  /\ pc' = "idle"
  /\ client' = "failed"
  /\ UNCHANGED <<senderVars, stream, buf, opcode, mask, len, received>>

Full(at) == pc = at /\ Len(buf) = Want

AfterLength(masked) == IF masked THEN "key" ELSE "payload"

OpcodeOf(b) == b % 16

ReadHeader ==
  /\ Full("header")
  /\ opcode' = OpcodeOf(buf[1])
  /\ mask' = (buf[2] >= MASK)
  /\ len' = buf[2] % 128
  /\ pc' = CASE len' = PAYLOAD_LENGTH_16 -> "ext16"
             [] len' = PAYLOAD_LENGTH_64 -> "ext64"
             [] OTHER -> AfterLength(mask')
  /\ buf' = <<>>
  /\ UNCHANGED <<senderVars, stream, received, client>>

ReadLength16 ==
  /\ Full("ext16")
  /\ len' = FromShort(buf)
  /\ pc' = AfterLength(mask)
  /\ buf' = <<>>
  /\ UNCHANGED <<senderVars, stream, opcode, mask, received, client>>

ReadLength64 ==
  /\ Full("ext64")
  /\ len' = ClearMsb(buf)
  /\ pc' = AfterLength(mask)
  /\ buf' = <<>>
  /\ UNCHANGED <<senderVars, stream, opcode, mask, received, client>>

ReadKey ==
  /\ Full("key")
  /\ pc' = "payload"
  /\ buf' = <<>>
  /\ UNCHANGED <<senderVars, stream, opcode, mask, len, received, client>>

Return ==
  /\ pc' = "idle"
  /\ received' = Append(received, [opcode |-> opcode, len |-> len])
  /\ TakesOpcode(opcode)

(* Mutant: a payload of zero bytes is waited for. *)
NoPayloadNever == FALSE

NoPayload == len = 0

(* The payload is read byte by byte, and all of it was sent: if the stream *)
(* holds another length, the next header is read from the wrong place.     *)
SkipPayload ==
  /\ pc = "payload"
  /\ \/ NoPayload /\ Return /\ UNCHANGED stream
     \/ /\ ~NoPayload /\ stream # <<>>
        /\ IF Head(stream).kind = "payload" /\ Head(stream).len = len
           THEN Return /\ stream' = Tail(stream)
           ELSE pc' = "garbled" /\ UNCHANGED <<stream, received, client>>
  /\ UNCHANGED <<senderVars, buf, opcode, mask, len>>

(* The stream ends within the payload: recv's 0 is returned, as for a      *)
(* whole frame.                                                            *)
PayloadEnds ==
  /\ pc = "payload"
  /\ ~NoPayload
  /\ ended /\ stream = <<>>
  /\ pc' = "idle"
  /\ TakesOpcode(opcode)
  /\ UNCHANGED <<senderVars, stream, buf, opcode, mask, len, received>>

-----------------------------------------------------------------------------
Receiver ==
  \/ Begin \/ RecvSome \/ RecvEnd
  \/ ReadHeader \/ ReadLength16 \/ ReadLength64 \/ ReadKey
  \/ SkipPayload \/ PayloadEnds

Next == Send \/ End \/ Receiver \/ RecvFails

Spec == Init /\ [][Next]_vars
FairSpec == Spec /\ WF_vars(Receiver)

-----------------------------------------------------------------------------
(* Properties                                                               *)

CloseSent == \E i \in 1..Len(sent) : sent[i].opcode = WS_OP_CLOSE

(* Frames come out as they went in, whatever pieces they arrive in and at  *)
(* whatever length the encoding changes; the receiver never takes payload  *)
(* for a header.  A frame cut by the end of the stream can add one frame,  *)
(* but no close frame that was not sent, although its bytes are garbage;   *)
(* and the opcode that a return of 0 leaves unset can free a client, but   *)
(* only one whose connection has ended.                                    *)
FramesAgree ==
  /\ pc # "garbled"
  /\ \A i \in 1..Len(received) :
       \/ i <= Len(sent) /\ received[i].opcode = sent[i].opcode
                         /\ received[i].len = sent[i].len
       \/ ended /\ i = Len(received)
  /\ opcode = WS_OP_CLOSE => CloseSent
  /\ client = "freed" => ended \/ CloseSent

(* The receiver gets to every frame of a connection that stays open: it    *)
(* has not ended, recv did not fail, and no close frame came before.       *)
FramesArrive ==
  \A i \in 1..MaxFrames :
    Len(sent) >= i ~>
      \/ Len(received) >= i \/ ended \/ client = "failed"
      \/ \E j \in 1..Len(received) : received[j].opcode = WS_OP_CLOSE

=============================================================================
