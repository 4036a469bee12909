--------------------------- MODULE WsFrameProofs ---------------------------
(***************************************************************************)
(* TLAPS proofs about WsFrame: frames come out as they went in, for every  *)
(* length below 2^31 and however the stream is cut into pieces.            *)
(***************************************************************************)
EXTENDS WsFrame, TLAPS, SequenceTheorems

Item == [kind : {"byte"}, byte : Int] \cup [kind : {"payload"}, len : Int]
Inside == {"header", "ext16", "ext64", "key", "payload"}

Types ==
  /\ sent \in Seq(Frame)
  /\ stream \in Seq(Item)
  /\ ended \in BOOLEAN
  /\ pc \in {"idle"} \cup Inside
  /\ buf \in Seq(Int)
  /\ opcode \in Int
  /\ mask \in BOOLEAN
  /\ len \in Int
  /\ received \in Seq([opcode : Int, len : Int])

(* How many bytes extend the length of frame f, and its header to where    *)
(* ws_recv is.                                                             *)
ExtLen(f) == IF f.len < PAYLOAD_LENGTH_16 THEN 0 ELSE IF f.len <= 65535 THEN 2 ELSE 8
HeaderLen(f) == 2 + ExtLen(f) + IF f.mask THEN 4 ELSE 0
Offset(f) ==
  IF pc \in {"ext16", "ext64"} THEN 2
  ELSE IF pc = "key" THEN 2 + ExtLen(f)
  ELSE IF pc = "payload" THEN HeaderLen(f)
  ELSE 0

(* ws_recv is in frame f, and has read it right so far. *)
Reading(f) ==
  /\ pc \in Inside
  /\ Len(buf) <= Want
  /\ \A i \in 1..Len(buf) : buf[i] = Header(f)[Offset(f) + i]
  /\ pc # "header" => opcode = f.opcode /\ mask = f.mask
  /\ pc = "ext16" => ExtLen(f) = 2
  /\ pc = "ext64" => ExtLen(f) = 8
  /\ pc = "key" => mask
  /\ pc \in {"key", "payload"} => len = f.len

(* The frame that is read next, or being read. *)
Current == Len(received) + 1

(* Frame i begins at item start[i] of the stream, which for what was read  *)
(* is no item any more; up to its end the stream holds the frames in order.*)
Layout(start) ==
  /\ start \in [1..Len(sent) + 1 -> Int]
  /\ \A i \in Current..Len(sent) :
       /\ start[i + 1] = start[i] + Len(Encode(sent[i]))
       /\ \A j \in 1..Len(Encode(sent[i])) :
            start[i] + j - 1 \in 1..Len(stream)
              => stream[start[i] + j - 1] = Encode(sent[i])[j]
  /\ \A i \in Current..Len(sent) + 1 : start[i] <= start[Len(sent) + 1]
  /\ Len(stream) < start[Len(sent) + 1]
  /\ ~ended => Len(stream) + 1 = start[Len(sent) + 1]

Agrees(i) ==
  i <= Len(sent) /\ received[i].opcode = sent[i].opcode /\ received[i].len = sent[i].len

AllAgree == \A i \in 1..Len(received) : Agrees(i)

(* ws_recv is where the frames say. *)
At(start) ==
  \/ pc = "idle" /\ start[Current] = 1
  \/ /\ Current <= Len(sent)
     /\ Reading(sent[Current])
     /\ start[Current] = 1 - Offset(sent[Current]) - Len(buf)

InSync == AllAgree /\ Len(received) <= Len(sent) /\ \E start : Layout(start) /\ At(start)

(* The stream has ended.  ws_recv is in a frame that was cut, or has       *)
(* returned one and finds nothing more.                                    *)
CutShort ==
  /\ ended /\ stream = <<>>
  /\ \/ /\ AllAgree
        /\ (pc = "header" /\ buf # <<>>) =>
             \E i \in 1..Len(sent) : OpcodeOf(buf[1]) = sent[i].opcode
     \/ /\ pc = "idle" \/ (pc = "header" /\ buf = <<>>)
        /\ \A i \in 1..Len(received) : Agrees(i) \/ i = Len(received)

OpcodeKnown == opcode = Unset \/ \E i \in 1..Len(sent) : opcode = sent[i].opcode

Framing == Types /\ OpcodeKnown /\ (InSync \/ CutShort)

(* recv failed: ws_recv is never called again. *)
Broken ==
  /\ Types /\ OpcodeKnown
  /\ client = "failed" /\ pc = "idle"
  /\ AllAgree \/ (ended /\ \A i \in 1..Len(received) : Agrees(i) \/ i = Len(received))

(* A client is freed for a close frame, or when its connection has ended. *)
FreedRightly == client = "freed" => ended \/ CloseSent

Connection == (Framing \/ Broken) /\ FreedRightly

-----------------------------------------------------------------------------
(* The bytes of a frame *)

(* Concatenation, as an operator of its own: the provers then reason from  *)
(* the lemma and leave \o alone.                                           *)
Cat(s, t) == s \o t

(* A concatenation of two sequences, part by part. *)
LEMMA CatFacts ==
  ASSUME NEW S, NEW s \in Seq(S), NEW t \in Seq(S)
  PROVE  /\ Cat(s, t) \in Seq(S)
         /\ Len(Cat(s, t)) = Len(s) + Len(t)
         /\ Len(s) \in Nat /\ Len(t) \in Nat
         /\ \A i \in 1..Len(s) : Cat(s, t)[i] = s[i]
         /\ \A i \in 1..Len(t) : Cat(s, t)[Len(s) + i] = t[i]
<1>1. Len(s) \in Nat /\ Len(t) \in Nat
  OBVIOUS
<1> QED
  BY <1>1, ConcatProperties DEF Cat

(* A function on 1..n is a sequence of length n. *)
LEMMA SeqOfFunction ==
  ASSUME NEW S, NEW n \in Nat, NEW g \in [1..n -> S]
  PROVE  g \in Seq(S) /\ Len(g) = n
OBVIOUS

(* A number is its last byte and what comes before it. *)
LEMMA LastByte ==
  ASSUME NEW n \in Nat
  PROVE  /\ n = 256 * (n \div 256) + (n % 256)
         /\ n \div 256 \in Nat /\ n % 256 \in 0..255
OBVIOUS

(* The length's high byte comes first, and the pieces of a length below    *)
(* 2^31 give it back.                                                      *)
LEMMA LengthFacts ==
  ASSUME NEW n \in 0..MaxLength
  PROVE  /\ LengthField(n).ext \in Seq(Int)
         /\ LengthField(n).high \in 0..127
         /\ n < PAYLOAD_LENGTH_16 =>
              LengthField(n).high = n /\ Len(LengthField(n).ext) = 0
         /\ PAYLOAD_LENGTH_16 <= n /\ n <= 65535 =>
              /\ LengthField(n).high = PAYLOAD_LENGTH_16 /\ Len(LengthField(n).ext) = 2
              /\ 256 * LengthField(n).ext[1] + LengthField(n).ext[2] = n
         /\ n > 65535 =>
              /\ LengthField(n).high = PAYLOAD_LENGTH_64 /\ Len(LengthField(n).ext) = 8
              /\ ClearMsb(LengthField(n).ext) = n
<1> USE DEF PAYLOAD_LENGTH_16, PAYLOAD_LENGTH_64
<1>1. n \in Nat
  OBVIOUS
<1>2. CASE n < 126
  BY <1>1, <1>2 DEF LengthField
<1>3. CASE 126 <= n /\ n <= 65535
  <2>1. LengthField(n) = [high |-> 126, ext |-> <<n \div 256, n % 256>>]
    BY <1>1, <1>3, SMT DEF LengthField, ShortLength
  <2> QED
    BY <1>1, <1>3, <2>1, LastByte
<1>4. CASE n > 65535
  <2> DEFINE a == n \div 16777216
             b == (n \div 65536) % 256
             c == (n \div 256) % 256
             d == n % 256
  <2>1. LengthField(n) = [high |-> 127, ext |-> <<0, 0, 0, 0, a, b, c, d>>]
    BY <1>1, <1>4, SMT DEF LengthField, LongLength
  <2>2. n = 256 * (n \div 256) + d /\ n \div 256 \in Nat /\ d \in 0..255
    BY <1>1, LastByte
  <2>3. n \div 65536 = (n \div 256) \div 256 /\ a = (n \div 65536) \div 256
    BY <1>1, SMT
  <2>4. n \div 256 = 256 * (n \div 65536) + c /\ n \div 65536 \in Nat /\ c \in 0..255
    BY <2>2, <2>3, LastByte
  <2>5. n \div 65536 = 256 * a + b /\ a \in Nat /\ b \in 0..255
    BY <2>3, <2>4, LastByte
  <2> HIDE DEF a, b, c, d
  <2>6. a <= 127
    <3> DEFINE q == n \div 256
               m == 256 * (256 * 127 + 255) + 255
    <3>5. q \in Nat /\ 256 * q + d = n /\ d \in 0..255
      BY <2>2
    <3>7. m \in Nat
      OBVIOUS
    <3>8. MaxLength = 256 * m + 255
      BY Zenon DEF MaxLength
    <3>6. m \in Nat /\ MaxLength = 256 * m + 255
      BY <3>7, <3>8
    <3> HIDE DEF q, m
    <3>3. q \in Nat /\ m \in Nat /\ 256 * q + d = n /\ d \in 0..255 /\ n <= 256 * m + 255
      BY <3>5, <3>6
    <3>4. q <= m
      BY <3>3
    <3>1. n \div 256 <= 256 * (256 * 127 + 255) + 255
      BY <3>4 DEF q, m
    <3>2. n \div 65536 <= 256 * 127 + 255
      BY <2>4, <3>1
    <3> QED
      BY <2>5, <3>2
  <2>7. a % 128 = a
    BY <2>5, <2>6
  <2>8. ClearMsb(<<0, 0, 0, 0, a, b, c, d>>) = 256 * (256 * (256 * a + b) + c) + d
    BY <2>2, <2>4, <2>5, <2>7 DEF ClearMsb
  <2>9. ClearMsb(<<0, 0, 0, 0, a, b, c, d>>) = n
    BY <2>2, <2>4, <2>5, <2>8
  <2>10. <<0, 0, 0, 0, a, b, c, d>> \in Seq(Int) /\ Len(<<0, 0, 0, 0, a, b, c, d>>) = 8
    BY <2>2, <2>4, <2>5
  <2> QED
    BY <1>1, <1>4, <2>1, <2>9, <2>10
<1> QED
  BY <1>1, <1>2, <1>3, <1>4

(* What ws_recv needs to know of a header: the opcode, the mask flag and   *)
(* the length's seven bits, and where the rest of the length is.           *)
LEMMA HeaderFacts ==
  ASSUME NEW f \in Frame
  PROVE  /\ Header(f) \in Seq(Int)
         /\ Len(Header(f)) = HeaderLen(f)
         /\ HeaderLen(f) \in Nat /\ ExtLen(f) \in {0, 2, 8}
         /\ OpcodeOf(Header(f)[1]) = f.opcode
         /\ (Header(f)[2] >= MASK) = f.mask
         /\ Header(f)[2] % 128 = LengthField(f.len).high
         /\ \A i \in 1..ExtLen(f) : Header(f)[2 + i] = LengthField(f.len).ext[i]
<1> DEFINE ext == LengthField(f.len).ext
           high == LengthField(f.len).high
           final == IF f.opcode = WS_OP_CLOSE /\ ~f.mask THEN 0 ELSE FINAL
           flag == IF f.mask THEN MASK ELSE 0
           key == IF f.mask THEN <<1, 2, 3, 4>> ELSE <<>>
           two == <<final + f.opcode, high + flag>>
<1>1. f.opcode \in 0..15 /\ f.mask \in BOOLEAN /\ f.len \in 0..MaxLength
  BY FrameAssumption DEF Frame
<1>2. ext \in Seq(Int) /\ Len(ext) = ExtLen(f) /\ high \in 0..127 /\ ExtLen(f) \in {0, 2, 8}
  <2>1. f.len \in Int
    BY <1>1
  <2>2. PICK n \in 0..MaxLength : n = f.len
    BY <1>1
  <2>3. LengthField(n).ext \in Seq(Int) /\ LengthField(n).high \in 0..127
    BY LengthFacts
  <2>4. n < PAYLOAD_LENGTH_16 => Len(LengthField(n).ext) = 0
    BY LengthFacts
  <2>5. PAYLOAD_LENGTH_16 <= n /\ n <= 65535 => Len(LengthField(n).ext) = 2
    BY LengthFacts
  <2>6. n > 65535 => Len(LengthField(n).ext) = 8
    BY LengthFacts
  <2>7. Len(LengthField(n).ext) = ExtLen(f)
    <3>1. ExtLen(f) = IF n < 126 THEN 0 ELSE IF n <= 65535 THEN 2 ELSE 8
      BY <2>2 DEF ExtLen, PAYLOAD_LENGTH_16
    <3>2. n \in Int
      BY <2>1, <2>2
    <3>3. CASE n < 126
      BY <2>4, <3>1, <3>3 DEF PAYLOAD_LENGTH_16
    <3>4. CASE 126 <= n /\ n <= 65535
      <4>1. ~(n < 126) /\ n <= 65535
        BY <3>2, <3>4
      <4>2. Len(LengthField(n).ext) = 2
        BY <2>5, <3>4 DEF PAYLOAD_LENGTH_16
      <4> QED
        BY <3>1, <4>1, <4>2
    <3>5. CASE n > 65535
      <4>1. ~(n < 126) /\ ~(n <= 65535)
        BY <3>2, <3>5
      <4>2. Len(LengthField(n).ext) = 8
        BY <2>6, <3>5
      <4>3. ExtLen(f) = 8
        BY <3>1, <4>1
      <4> QED
        BY <4>2, <4>3
    <3> QED
      BY <3>2, <3>3, <3>4, <3>5
  <2> QED
    BY <2>2, <2>3, <2>7 DEF ExtLen
<1>3. final \in {0, 128} /\ flag \in {0, 128} /\ (flag = 128 <=> f.mask)
  BY <1>1 DEF FINAL, MASK
<1>4. key \in Seq(Int) /\ Len(key) = IF f.mask THEN 4 ELSE 0
  BY <1>1
<1>5. Header(f) = Cat(Cat(two, ext), key)
  BY DEF Header, Cat
<1> HIDE DEF ext, high, final, flag, key
<1>6. two \in Seq(Int) /\ Len(two) = 2 /\ two[1] = final + f.opcode /\ two[2] = high + flag
  <2>1. PICK a \in Int, b \in Int : a = final + f.opcode /\ b = high + flag
    BY <1>1, <1>2, <1>3
  <2>2. <<a, b>> \in Seq(Int) /\ Len(<<a, b>>) = 2 /\ <<a, b>>[1] = a /\ <<a, b>>[2] = b
    OBVIOUS
  <2> QED
    BY <2>1, <2>2
<1> HIDE DEF two
<1> DEFINE front == Cat(two, ext)
<1>7. /\ front \in Seq(Int) /\ Len(front) = 2 + ExtLen(f)
      /\ front[1] = two[1] /\ front[2] = two[2]
      /\ \A i \in 1..ExtLen(f) : front[2 + i] = ext[i]
  <2>1. two \in Seq(Int) /\ ext \in Seq(Int)
    BY <1>2, <1>6
  <2>2. front \in Seq(Int) /\ Len(front) = Len(two) + Len(ext)
    BY <2>1, CatFacts
  <2>3. \A i \in 1..Len(two) : front[i] = two[i]
    BY <2>1, CatFacts
  <2>4. \A i \in 1..Len(ext) : front[Len(two) + i] = ext[i]
    BY <2>1, CatFacts
  <2> HIDE DEF front
  <2> QED
    BY <1>2, <1>6, <2>2, <2>3, <2>4
<1> HIDE DEF front
<1>8. /\ Header(f) \in Seq(Int)
      /\ Len(Header(f)) = HeaderLen(f)
      /\ \A i \in 1..(2 + ExtLen(f)) : Header(f)[i] = front[i]
  <2>1. Header(f) = Cat(front, key)
    BY <1>5 DEF front
  <2>2. front \in Seq(Int) /\ key \in Seq(Int)
    BY <1>4, <1>7
  <2>3. /\ Cat(front, key) \in Seq(Int)
        /\ Len(Cat(front, key)) = Len(front) + Len(key)
    BY <2>2, CatFacts
  <2>4. \A i \in 1..Len(front) : Cat(front, key)[i] = front[i]
    BY <2>2, CatFacts
  <2>5. Header(f) \in Seq(Int) /\ Len(Header(f)) = HeaderLen(f)
    BY <1>4, <1>7, <2>1, <2>3 DEF HeaderLen
  <2> QED
    BY <1>7, <2>1, <2>4, <2>5
<1>9. Header(f)[1] = final + f.opcode /\ Header(f)[2] = high + flag
  BY <1>2, <1>6, <1>7, <1>8
<1>10. OpcodeOf(Header(f)[1]) = f.opcode
  BY <1>1, <1>3, <1>9 DEF OpcodeOf
<1>11. (Header(f)[2] >= MASK) = f.mask /\ Header(f)[2] % 128 = high
  <2>1. PICK h \in 0..127 : h = high
    BY <1>2
  <2>2. (h >= 128) = FALSE /\ (h + 128 >= 128) = TRUE /\ h % 128 = h /\ (h + 128) % 128 = h
    OBVIOUS
  <2>3. h + 0 = h
    OBVIOUS
  <2>4. CASE f.mask
    <3>1. Header(f)[2] = h + 128 /\ f.mask = TRUE
      BY <1>1, <1>3, <1>9, <2>1, <2>4
    <3> QED
      BY <2>1, <2>2, <3>1 DEF MASK
  <2>5. CASE ~f.mask
    <3>1. Header(f)[2] = h /\ f.mask = FALSE
      BY <1>1, <1>3, <1>9, <2>1, <2>3, <2>5
    <3> QED
      BY <2>1, <2>2, <3>1 DEF MASK
  <2> QED
    BY <2>4, <2>5
<1>12. \A i \in 1..ExtLen(f) : Header(f)[2 + i] = ext[i]
  <2> SUFFICES ASSUME NEW i \in 1..ExtLen(f)
               PROVE  Header(f)[2 + i] = ext[i]
    OBVIOUS
  <2>1. 2 + i \in 1..(2 + ExtLen(f))
    BY <1>2
  <2> QED
    BY <1>7, <1>8, <2>1
<1> QED
  BY <1>1, <1>2, <1>8, <1>10, <1>11, <1>12 DEF ext, high, HeaderLen

(* On the wire the header's bytes come first, then the payload, if any. *)
LEMMA EncodeFacts ==
  ASSUME NEW f \in Frame
  PROVE  /\ Encode(f) \in Seq(Item)
         /\ Len(Encode(f)) = HeaderLen(f) + IF f.len = 0 THEN 0 ELSE 1
         /\ \A j \in 1..HeaderLen(f) : Encode(f)[j] = [kind |-> "byte", byte |-> Header(f)[j]]
         /\ f.len # 0 => Encode(f)[HeaderLen(f) + 1] = [kind |-> "payload", len |-> f.len]
<1> DEFINE bytes == [i \in 1..Len(Header(f)) |-> [kind |-> "byte", byte |-> Header(f)[i]]]
           payload == IF f.len = 0 THEN <<>> ELSE <<[kind |-> "payload", len |-> f.len]>>
<1>1. Header(f) \in Seq(Int) /\ Len(Header(f)) = HeaderLen(f) /\ HeaderLen(f) \in Nat
  BY HeaderFacts
<1>2. /\ bytes \in Seq(Item) /\ Len(bytes) = HeaderLen(f)
      /\ \A j \in 1..HeaderLen(f) : bytes[j] = [kind |-> "byte", byte |-> Header(f)[j]]
  <2>1. \A i \in 1..Len(Header(f)) : [kind |-> "byte", byte |-> Header(f)[i]] \in Item
    BY <1>1 DEF Item
  <2>2. bytes \in [1..Len(Header(f)) -> Item]
    BY <2>1
  <2>3. bytes \in Seq(Item) /\ Len(bytes) = HeaderLen(f)
    <3> HIDE DEF bytes
    <3> QED
      BY <1>1, <2>2, SeqOfFunction
  <2> QED
    BY <1>1, <2>3
<1>3. /\ payload \in Seq(Item) /\ Len(payload) = IF f.len = 0 THEN 0 ELSE 1
      /\ f.len # 0 => payload[1] = [kind |-> "payload", len |-> f.len]
  <2>1. f.len \in 0..MaxLength
    BY FrameAssumption DEF Frame
  <2>2. [kind |-> "payload", len |-> f.len] \in Item
    BY <2>1 DEF Item
  <2> QED
    BY <2>2
<1>4. Encode(f) = Cat(bytes, payload)
  BY DEF Encode, Cat
<1> HIDE DEF bytes, payload
<1>5. /\ Encode(f) \in Seq(Item)
      /\ Len(Encode(f)) = Len(bytes) + Len(payload)
      /\ \A j \in 1..Len(bytes) : Encode(f)[j] = bytes[j]
      /\ \A j \in 1..Len(payload) : Encode(f)[Len(bytes) + j] = payload[j]
  <2>1. bytes \in Seq(Item) /\ payload \in Seq(Item)
    BY <1>2, <1>3
  <2>2. Cat(bytes, payload) \in Seq(Item) /\ Len(Cat(bytes, payload)) = Len(bytes) + Len(payload)
    BY <2>1, CatFacts
  <2>3. \A j \in 1..Len(bytes) : Cat(bytes, payload)[j] = bytes[j]
    BY <2>1, CatFacts
  <2>4. \A j \in 1..Len(payload) : Cat(bytes, payload)[Len(bytes) + j] = payload[j]
    BY <2>1, CatFacts
  <2> QED
    BY <1>4, <2>2, <2>3, <2>4
<1>6. \A j \in 1..HeaderLen(f) : Encode(f)[j] = bytes[j]
  BY <1>1, <1>2, <1>3, <1>5
<1>7. f.len # 0 => Encode(f)[HeaderLen(f) + 1] = payload[1]
  BY <1>1, <1>2, <1>3, <1>5
<1> QED
  BY <1>1, <1>2, <1>3, <1>5, <1>6, <1>7

(* What the steps need of a frame on the wire. *)
LEMMA FrameLengths ==
  ASSUME NEW f \in Frame
  PROVE  /\ f.opcode \in Int /\ f.mask \in BOOLEAN /\ f.len \in Nat
         /\ ExtLen(f) \in {0, 2, 8}
         /\ HeaderLen(f) = IF f.mask THEN ExtLen(f) + 6 ELSE ExtLen(f) + 2
         /\ Len(Encode(f)) = IF f.len = 0 THEN HeaderLen(f) ELSE HeaderLen(f) + 1
<1>1. f.opcode \in Int /\ f.mask \in BOOLEAN /\ f.len \in Nat
  <2>1. f.opcode \in 0..15 /\ f.mask \in BOOLEAN /\ f.len \in 0..MaxLength
    BY FrameAssumption DEF Frame
  <2> QED
    BY <2>1
<1>2. ExtLen(f) \in {0, 2, 8}
  BY HeaderFacts
<1>3. HeaderLen(f) = IF f.mask THEN ExtLen(f) + 6 ELSE ExtLen(f) + 2
  BY <1>1, <1>2 DEF HeaderLen
<1>4. Len(Encode(f)) = HeaderLen(f) + IF f.len = 0 THEN 0 ELSE 1
  BY EncodeFacts
<1> QED
  BY <1>1, <1>2, <1>3, <1>4

-----------------------------------------------------------------------------
(* The stream in pieces *)

(* What is behind the first k elements, and those. *)
Behind(s, k) == SubSeq(s, k + 1, Len(s))
Upto(s, k) == SubSeq(s, 1, k)

LEMMA BehindFacts ==
  ASSUME NEW S, NEW s \in Seq(S), NEW k \in Nat, k <= Len(s)
  PROVE  /\ Behind(s, k) \in Seq(S) /\ Len(Behind(s, k)) = Len(s) - k
         /\ \A i \in 1..Len(s) - k : Behind(s, k)[i] = s[i + k]
<1>1. Len(s) \in Nat
  OBVIOUS
<1> QED
  BY <1>1, SubSeqProperties DEF Behind

LEMMA UptoFacts ==
  ASSUME NEW S, NEW s \in Seq(S), NEW k \in Nat, k <= Len(s)
  PROVE  /\ Upto(s, k) \in Seq(S) /\ Len(Upto(s, k)) = k
         /\ \A i \in 1..k : Upto(s, k)[i] = s[i]
<1>1. Len(s) \in Nat
  OBVIOUS
<1> QED
  BY <1>1, SubSeqProperties DEF Upto

(* How many bytes recv_n wants. *)
LEMMA WantFacts ==
  /\ pc = "header" => Want = 2
  /\ pc = "ext16" => Want = 2
  /\ pc = "ext64" => Want = 8
  /\ pc = "key" => Want = 4
  /\ pc \in {"idle", "payload"} => Want = 0
BY DEF Want

(* What recv_n wants lies within the header. *)
LEMMA WantFits ==
  ASSUME NEW f \in Frame, Reading(f)
  PROVE  /\ Offset(f) \in Nat /\ Want \in Nat
         /\ Offset(f) + Want <= HeaderLen(f)
<1>1. ExtLen(f) \in {0, 2, 8} /\ f.mask \in BOOLEAN
      /\ HeaderLen(f) = IF f.mask THEN ExtLen(f) + 6 ELSE ExtLen(f) + 2
  BY FrameLengths
<1>2. CASE pc = "header"
  BY <1>1, <1>2, WantFacts DEF Offset
<1>3. CASE pc = "ext16"
  <2>1. ExtLen(f) = 2
    BY <1>3 DEF Reading
  <2> QED
    BY <1>1, <1>3, <2>1, WantFacts DEF Offset
<1>4. CASE pc = "ext64"
  <2>1. ExtLen(f) = 8
    BY <1>4 DEF Reading
  <2> QED
    BY <1>1, <1>4, <2>1, WantFacts DEF Offset
<1>5. CASE pc = "key"
  <2>1. f.mask
    BY <1>5 DEF Reading
  <2> QED
    BY <1>1, <1>5, <2>1, WantFacts DEF Offset
<1>6. CASE pc = "payload"
  BY <1>1, <1>6, WantFacts DEF Offset
<1> QED
  BY <1>2, <1>3, <1>4, <1>5, <1>6 DEF Reading, Inside

LEMMA LengthsNat ==
  ASSUME Types
  PROVE  Len(sent) \in Nat /\ Len(stream) \in Nat /\ Len(buf) \in Nat /\ Len(received) \in Nat
BY DEF Types

(* The frames stay in their places when the first k items are read. *)
LEMMA LayoutMoves ==
  ASSUME Types, NEW start, Layout(start), NEW k \in Nat, NEW moved,
         Len(stream') \in Nat, Len(stream') + k = Len(stream),
         \A i \in 1..Len(stream') : stream'[i] = stream[i + k],
         UNCHANGED <<sent, ended>>,
         Len(received') \in Nat, Len(received) <= Len(received'),
         moved \in [1..Len(sent) + 1 -> Int],
         \A i \in 1..Len(sent) + 1 : moved[i] = start[i] - k
  PROVE  Layout(moved)'
<1> DEFINE n == Len(sent)
<1>1. n \in Nat /\ Len(stream) \in Nat /\ Len(received) \in Nat
  BY LengthsNat
<1>2. start \in [1..n + 1 -> Int]
  BY DEF Layout
<1>3. \A i \in Current'..n : i \in Current..n /\ i \in 1..n + 1 /\ i + 1 \in 1..n + 1
  BY <1>1 DEF Current
<1>4. \A i \in Current'..n + 1 : i \in Current..n + 1 /\ i \in 1..n + 1
  BY <1>1 DEF Current
<1>5. ASSUME NEW i \in Current'..n
      PROVE  moved[i + 1] = moved[i] + Len(Encode(sent[i]))
  <2>1. i \in Current..n /\ i \in 1..n + 1 /\ i + 1 \in 1..n + 1
    BY <1>3
  <2>2. start[i + 1] = start[i] + Len(Encode(sent[i]))
    BY <2>1 DEF Layout
  <2>3. sent[i] \in Frame
    BY <2>1 DEF Types, Current
  <2>4. Len(Encode(sent[i])) \in Nat
    BY <2>3, EncodeFacts
  <2>5. start[i] \in Int /\ start[i + 1] \in Int
    BY <1>2, <2>1
  <2>6. moved[i] = start[i] - k /\ moved[i + 1] = start[i + 1] - k
    BY <2>1
  <2>7. PICK a \in Int, b \in Int, e \in Nat :
          a = start[i] /\ b = start[i + 1] /\ e = Len(Encode(sent[i]))
    BY <2>4, <2>5
  <2>8. b - k = (a - k) + e
    BY <2>2, <2>7
  <2> QED
    BY <2>6, <2>7, <2>8
<1>6. ASSUME NEW i \in Current'..n, NEW j \in 1..Len(Encode(sent[i])),
             moved[i] + j - 1 \in 1..Len(stream')
      PROVE  stream'[moved[i] + j - 1] = Encode(sent[i])[j]
  <2>1. i \in Current..n /\ i \in 1..n + 1
    BY <1>3
  <2>2. moved[i] = start[i] - k /\ start[i] \in Int /\ moved[i] \in Int
    BY <1>2, <2>1
  <2>6. sent[i] \in Frame
    BY <2>1 DEF Types, Current
  <2>7. j \in Nat
    BY <2>6, EncodeFacts
  <2>8. start[i] + j - 1 = moved[i] + j - 1 + k
    <3>1. PICK a \in Int, b \in Nat : a = start[i] /\ b = j
      BY <2>2, <2>7
    <3>2. a + b - 1 = (a - k) + b - 1 + k
      OBVIOUS
    <3> QED
      BY <2>2, <3>1, <3>2
  <2>3. start[i] + j - 1 = moved[i] + j - 1 + k /\ start[i] + j - 1 \in 1..Len(stream)
    <3>1. PICK p \in 1..Len(stream') : p = moved[i] + j - 1
      BY <1>6
    <3>2. p + k \in 1..Len(stream)
      BY <1>1
    <3> QED
      BY <2>8, <3>1, <3>2
  <2>4. stream'[moved[i] + j - 1] = stream[moved[i] + j - 1 + k]
    BY <1>6
  <2>5. stream[start[i] + j - 1] = Encode(sent[i])[j]
    BY <2>1, <2>3 DEF Layout
  <2> QED
    BY <2>3, <2>4, <2>5
<1>7. \A i \in Current'..n + 1 : moved[i] <= moved[n + 1]
  <2> TAKE i \in Current'..n + 1
  <2>1. i \in Current..n + 1 /\ i \in 1..n + 1 /\ n + 1 \in 1..n + 1
    BY <1>1, <1>4
  <2>2. start[i] <= start[n + 1]
    BY <2>1 DEF Layout
  <2>3. PICK a \in Int, b \in Int : a = start[i] /\ b = start[n + 1]
    BY <1>2, <2>1
  <2>4. moved[i] = a - k /\ moved[n + 1] = b - k
    BY <2>1, <2>3
  <2>5. a - k <= b - k
    BY <2>2, <2>3
  <2> QED
    BY <2>4, <2>5
<1>8. Len(stream') < moved[n + 1] /\ (~ended => Len(stream') + 1 = moved[n + 1])
  <2>1. n + 1 \in 1..n + 1
    BY <1>1
  <2>2. Len(stream) < start[n + 1] /\ (~ended => Len(stream) + 1 = start[n + 1])
    BY DEF Layout
  <2>3. moved[n + 1] = start[n + 1] - k /\ start[n + 1] \in Int
    BY <1>2, <2>1
  <2>4. PICK a \in Int, l \in Nat, m \in Nat :
          a = start[n + 1] /\ l = Len(stream) /\ m = Len(stream')
    BY <1>1, <2>3
  <2>5. m + k = l /\ l < a /\ (~ended => l + 1 = a)
    BY <2>2, <2>4
  <2>6. m < a - k /\ (~ended => m + 1 = a - k)
    BY <2>5
  <2> QED
    BY <2>3, <2>4, <2>6
<1> QED
  BY <1>5, <1>6, <1>7, <1>8 DEF Layout

(* The frames' places, each k items further to the front. *)
LEMMA MovedPlaces ==
  ASSUME Types, NEW start, Layout(start), NEW k \in Nat
  PROVE  \E moved \in [1..Len(sent) + 1 -> Int] :
           \A i \in 1..Len(sent) + 1 : moved[i] = start[i] - k
<1> DEFINE moved == [i \in 1..Len(sent) + 1 |-> start[i] - k]
<1>1. start \in [1..Len(sent) + 1 -> Int]
  BY DEF Layout
<1>2. moved \in [1..Len(sent) + 1 -> Int]
  BY <1>1
<1>3. \A i \in 1..Len(sent) + 1 : moved[i] = start[i] - k
  OBVIOUS
<1> HIDE DEF moved
<1> QED
  BY <1>2, <1>3

(* ws_recv reads on in a frame, taking k items from the stream. *)
LEMMA StaysInFrame ==
  ASSUME Types, AllAgree, NEW start, Layout(start), NEW k \in Nat,
         Current <= Len(sent), NEW f \in Frame, f = sent[Current],
         start[Current] = 1 - Offset(f) - Len(buf),
         Len(stream') \in Nat, Len(stream') + k = Len(stream),
         \A i \in 1..Len(stream') : stream'[i] = stream[i + k],
         UNCHANGED <<sent, ended, received>>,
         Reading(f)', Offset(f) \in Nat, Offset(f)' \in Nat, Len(buf') \in Nat,
         Offset(f)' + Len(buf') = Offset(f) + Len(buf) + k
  PROVE  InSync'
<1>1. PICK moved \in [1..Len(sent) + 1 -> Int] :
        \A i \in 1..Len(sent) + 1 : moved[i] = start[i] - k
  BY MovedPlaces
<1>2. Len(received) \in Nat /\ Len(sent) \in Nat /\ Len(buf) \in Nat
  BY LengthsNat
<1>3. Layout(moved)'
  <2>1. Len(received') \in Nat /\ Len(received) <= Len(received')
    BY <1>2
  <2> QED
    BY <1>1, <2>1, LayoutMoves
<1>4. AllAgree'
  BY DEF AllAgree, Agrees
<1>5. Current' = Current /\ Current \in 1..Len(sent) + 1
  <2>1. Current' = Current
    BY DEF Current
  <2>2. PICK r \in Nat, m \in Nat : r = Len(received) /\ m = Len(sent)
    BY <1>2
  <2>3. r + 1 <= m
    BY <2>2 DEF Current
  <2>4. r + 1 \in 1..m + 1
    BY <2>3
  <2> QED
    BY <2>1, <2>2, <2>4 DEF Current
<1>6. moved[Current] = 1 - Offset(f)' - Len(buf')
  <2>1. moved[Current] = start[Current] - k
    BY <1>1, <1>5
  <2>2. PICK a \in Nat : a = Offset(f)
    OBVIOUS
  <2>3. PICK b \in Nat : b = Offset(f)'
    OBVIOUS
  <2>4. PICK l \in Nat, m \in Nat : l = Len(buf) /\ m = Len(buf')
    BY <1>2
  <2>5. b + m = a + l + k
    BY <2>2, <2>3, <2>4
  <2>6. moved[Current] = 1 - a - l - k
    BY <2>1, <2>2, <2>4
  <2>7. 1 - a - l - k = 1 - b - m
    BY <2>5
  <2> QED
    BY <2>3, <2>4, <2>6, <2>7
<1>7. At(moved)'
  BY <1>5, <1>6 DEF At
<1>8. Len(received') <= Len(sent')
  BY <1>2 DEF Current
<1> QED
  BY <1>3, <1>4, <1>7, <1>8 DEF InSync

(* ws_recv returns a frame: it is at the beginning of the next. *)
LEMMA NextFrame ==
  ASSUME Types, AllAgree, NEW start, Layout(start), NEW k \in Nat,
         Current <= Len(sent), NEW f \in Frame, f = sent[Current],
         start[Current] = 1 - HeaderLen(f),
         Len(Encode(f)) = HeaderLen(f) + k,
         Len(stream') \in Nat, Len(stream') + k = Len(stream),
         \A i \in 1..Len(stream') : stream'[i] = stream[i + k],
         UNCHANGED <<sent, ended>>, pc' = "idle",
         received' = Append(received, [opcode |-> f.opcode, len |-> f.len])
  PROVE  InSync'
<1> DEFINE r == [opcode |-> f.opcode, len |-> f.len]
<1>1. Len(received) \in Nat /\ Len(sent) \in Nat
  BY DEF Types
<1>2. /\ Len(received') = Len(received) + 1
      /\ \A i \in 1..Len(received) : received'[i] = received[i]
      /\ received'[Len(received) + 1] = r
  <2>1. received \in Seq([opcode : Int, len : Int])
    BY DEF Types
  <2>4. f.opcode \in Int
    BY FrameLengths, Zenon
  <2>3. f.len \in Nat
    BY FrameLengths, Zenon
  <2>5. f.len \in Int
    BY <2>3
  <2>2. r \in [opcode : Int, len : Int]
    BY <2>4, <2>5, Zenon
  <2> HIDE DEF r
  <2> QED
    BY <2>1, <2>2, AppendProperties DEF r
<1>3. PICK moved \in [1..Len(sent) + 1 -> Int] :
        \A i \in 1..Len(sent) + 1 : moved[i] = start[i] - k
  BY MovedPlaces
<1>4. Layout(moved)'
  <2>1. Len(received') \in Nat /\ Len(received) <= Len(received')
    BY <1>1, <1>2
  <2> QED
    BY <1>3, <2>1, LayoutMoves
<1>5. Current' = Current + 1 /\ Current \in Current..Len(sent) /\ Current + 1 \in 1..Len(sent) + 1
      /\ Len(received') <= Len(sent')
  BY <1>1, <1>2 DEF Current
<1>6. moved[Current'] = 1
  <2>1. moved[Current + 1] = start[Current + 1] - k
    BY <1>3, <1>5
  <2>2. start[Current + 1] = start[Current] + Len(Encode(f))
    BY <1>5 DEF Layout
  <2>3. HeaderLen(f) \in Nat
    BY HeaderFacts
  <2> QED
    BY <1>5, <2>1, <2>2, <2>3
<1>7. At(moved)'
  BY <1>6 DEF At
<1>8. AllAgree'
  <2> SUFFICES ASSUME NEW i \in 1..Len(received')
               PROVE  Agrees(i)'
    BY DEF AllAgree
  <2>1. CASE i \in 1..Len(received)
    BY <1>2, <2>1 DEF AllAgree, Agrees
  <2>2. CASE i = Len(received) + 1
    BY <1>2, <2>2 DEF Agrees, Current
  <2> QED
    BY <1>1, <1>2, <2>1, <2>2
<1> QED
  BY <1>4, <1>5, <1>7, <1>8 DEF InSync

-----------------------------------------------------------------------------
(* The steps *)

(* Nothing was sent at first. *)
LEMMA FramingInit == Init => Framing
<1> SUFFICES ASSUME Init
             PROVE  Framing
  OBVIOUS
<1>1. sent = <<>> /\ stream = <<>> /\ ended = FALSE /\ pc = "idle" /\ buf = <<>>
      /\ opcode = Unset /\ mask = FALSE /\ len = 0 /\ received = <<>>
  BY DEF Init
<1>2. Len(sent) = 0 /\ Len(stream) = 0 /\ Len(received) = 0
  BY <1>1
<1>3. Types
  <2>1. sent \in Seq(Frame) /\ stream \in Seq(Item) /\ buf \in Seq(Int)
        /\ received \in Seq([opcode : Int, len : Int])
    BY <1>1
  <2>2. opcode \in Int /\ len \in Int
    BY <1>1 DEF Unset
  <2> QED
    BY <1>1, <2>1, <2>2 DEF Types
<1>4. Layout([i \in 1..1 |-> 1])
  BY <1>1, <1>2 DEF Layout, Current
<1>5. At([i \in 1..1 |-> 1])
  BY <1>1, <1>2 DEF At, Current
<1>6. AllAgree /\ Len(received) <= Len(sent)
  BY <1>2 DEF AllAgree
<1> QED
  BY <1>1, <1>3, <1>4, <1>5, <1>6 DEF Framing, OpcodeKnown, InSync

(* A frame is sent behind those on the way. *)
LEMMA SendFrames ==
  ASSUME Framing, Send
  PROVE  Framing'
<1>1. PICK f \in Frame : sent' = Append(sent, f) /\ stream' = stream \o Encode(f)
  BY DEF Send
<1>2. ~ended /\ UNCHANGED <<ended, pc, buf, opcode, mask, len, received>>
  BY DEF Send, recvVars
<1> DEFINE n == Len(sent)
           e == Len(Encode(f))
<1>3. Types /\ InSync /\ OpcodeKnown
  BY <1>2 DEF Framing, CutShort
<1>4. PICK start : Layout(start) /\ At(start)
  BY <1>3 DEF InSync
<1>5. n \in Nat /\ Len(stream) \in Nat /\ Len(received) \in Nat /\ Len(received) <= n
      /\ Len(buf) \in Nat
  BY <1>3 DEF Types, InSync
<1>6. /\ sent' \in Seq(Frame) /\ Len(sent') = n + 1
      /\ \A i \in 1..n : sent'[i] = sent[i]
      /\ sent'[n + 1] = f
  <2>1. sent \in Seq(Frame)
    BY <1>3 DEF Types
  <2> QED
    BY <1>1, <2>1, AppendProperties
<1>7. Encode(f) \in Seq(Item) /\ e \in Nat
  <2>1. Encode(f) \in Seq(Item)
    BY EncodeFacts
  <2> QED
    BY <2>1, LenProperties
<1>8. stream' = Cat(stream, Encode(f)) /\ stream \in Seq(Item)
  BY <1>1, <1>3 DEF Cat, Types
<1>9. stream' \in Seq(Item) /\ Len(stream') = Len(stream) + e
  BY <1>7, <1>8, CatFacts
<1>10. \A i \in 1..Len(stream) : stream'[i] = stream[i]
  BY <1>7, <1>8, CatFacts
<1>11. \A j \in 1..e : stream'[Len(stream) + j] = Encode(f)[j]
  <2>1. PICK a \in Seq(Item), b \in Seq(Item) : a = stream /\ b = Encode(f)
    BY <1>7, <1>8
  <2>2. \A j \in 1..Len(b) : Cat(a, b)[Len(a) + j] = b[j]
    BY CatFacts
  <2> QED
    BY <1>8, <2>1, <2>2
<1>12. Types'
  BY <1>2, <1>3, <1>6, <1>9 DEF Types
<1>13. OpcodeKnown'
  BY <1>2, <1>3, <1>5, <1>6 DEF OpcodeKnown
<1>14. AllAgree' /\ Len(received') <= Len(sent')
  BY <1>2, <1>3, <1>5, <1>6 DEF InSync, AllAgree, Agrees
<1> HIDE DEF n, e
<1>15. /\ start \in [1..n + 1 -> Int] /\ start[n + 1] = Len(stream) + 1
       /\ \A i \in Current..n + 1 : start[i] <= start[n + 1]
  BY <1>2, <1>4 DEF Layout, n
<1>16. PICK longer \in [1..(n + 1) + 1 -> Int] :
         /\ \A i \in 1..n + 1 : longer[i] = start[i]
         /\ longer[n + 2] = Len(stream) + 1 + e
  <2> DEFINE longer == [i \in 1..(n + 1) + 1 |-> IF i = n + 2 THEN Len(stream) + 1 + e ELSE start[i]]
  <2>1. longer \in [1..(n + 1) + 1 -> Int]
    BY <1>5, <1>7, <1>15 DEF n
  <2>2. \A i \in 1..n + 1 : longer[i] = start[i]
    BY <1>5 DEF n
  <2>3. longer[n + 2] = Len(stream) + 1 + e
    BY <1>5 DEF n
  <2> HIDE DEF longer
  <2> QED
    BY <2>1, <2>2, <2>3
<1>17. Current' = Current /\ Current \in 1..n + 1 /\ n \in Nat
  BY <1>2, <1>5 DEF Current, n
<1>18. ASSUME NEW i \in Current..n
       PROVE  /\ longer[i + 1] = longer[i] + Len(Encode(sent'[i]))
              /\ \A j \in 1..Len(Encode(sent'[i])) :
                   longer[i] + j - 1 \in 1..Len(stream')
                     => stream'[longer[i] + j - 1] = Encode(sent'[i])[j]
  <2>1. i \in 1..n /\ i \in 1..n + 1 /\ i + 1 \in 1..n + 1
    BY <1>17
  <2>2. longer[i] = start[i] /\ longer[i + 1] = start[i + 1] /\ sent'[i] = sent[i]
    BY <1>6, <1>16, <2>1 DEF n
  <2>3. start[i + 1] = start[i] + Len(Encode(sent[i]))
    BY <1>4 DEF Layout, n
  <2>4. ASSUME NEW j \in 1..Len(Encode(sent[i])), start[i] + j - 1 \in 1..Len(stream')
        PROVE  stream'[start[i] + j - 1] = Encode(sent[i])[j]
    <3>1. start[i + 1] <= start[n + 1] /\ start[n + 1] = Len(stream) + 1 /\ start[i + 1] \in Int
      <4>1. i + 1 \in Current..n + 1
        BY <1>17
      <4> QED
        BY <1>15, <2>1, <4>1
    <3>2. PICK p \in 1..Len(stream') : p = start[i] + j - 1
      BY <2>4
    <3>3. sent[i] \in Frame
      BY <1>3, <2>1 DEF Types, n
    <3>4. Len(Encode(sent[i])) \in Nat /\ start[i] \in Int
      BY <1>15, <2>1, <3>3, EncodeFacts
    <3>5. p < start[i + 1]
      BY <2>3, <3>2, <3>4
    <3>6. p \in 1..Len(stream)
      <4>1. PICK a \in Int, l \in Nat : a = start[i + 1] /\ l = Len(stream)
        BY <1>5, <3>1
      <4>2. a <= l + 1 /\ p < a
        BY <3>1, <3>5, <4>1
      <4>3. p \in Nat /\ p >= 1
        BY <3>2
      <4>4. p \in 1..l
        BY <4>2, <4>3
      <4> QED
        BY <4>1, <4>4
    <3>7. stream'[p] = stream[p]
      BY <1>10, <3>6
    <3>8. stream[start[i] + j - 1] = Encode(sent[i])[j]
      BY <1>4, <3>2, <3>6 DEF Layout, n
    <3> QED
      BY <3>2, <3>7, <3>8
  <2> QED
    BY <2>2, <2>3, <2>4
<1>19. /\ longer[(n + 1) + 1] = longer[n + 1] + e
       /\ \A j \in 1..e : stream'[longer[n + 1] + j - 1] = Encode(f)[j]
  <2>1. longer[n + 1] = Len(stream) + 1 /\ (n + 1) + 1 = n + 2
    BY <1>15, <1>16, <1>17
  <2>2. \A j \in 1..e : longer[n + 1] + j - 1 = Len(stream) + j
    BY <1>5, <1>7, <2>1
  <2> QED
    BY <1>5, <1>7, <1>11, <1>16, <2>1, <2>2
<1>20. \A i \in Current..(n + 1) + 1 : longer[i] <= longer[(n + 1) + 1]
  <2> TAKE i \in Current..(n + 1) + 1
  <2>1. longer[(n + 1) + 1] = Len(stream) + 1 + e /\ (n + 1) + 1 = n + 2
    BY <1>16, <1>17
  <2>2. CASE i = n + 2
    BY <1>5, <1>7, <2>1, <2>2 DEF e
  <2>3. CASE i \in Current..n + 1
    <3>1. i \in 1..n + 1
      BY <1>17, <2>3
    <3>2. longer[i] = start[i] /\ start[i] <= Len(stream) + 1 /\ start[i] \in Int
      BY <1>15, <1>16, <2>3, <3>1
    <3> QED
      BY <1>5, <1>7, <2>1, <3>2 DEF e
  <2> QED
    BY <1>17, <2>2, <2>3
<1>21. Layout(longer)'
  <2>1. Len(sent') = n + 1 /\ sent'[n + 1] = f
    BY <1>6 DEF n
  <2>2. longer \in [1..Len(sent') + 1 -> Int]
    BY <2>1
  <2>3. ASSUME NEW i \in Current'..Len(sent')
        PROVE  /\ longer[i + 1] = longer[i] + Len(Encode(sent'[i]))
               /\ \A j \in 1..Len(Encode(sent'[i])) :
                    longer[i] + j - 1 \in 1..Len(stream')
                      => stream'[longer[i] + j - 1] = Encode(sent'[i])[j]
    <3>1. CASE i \in Current..n
      BY <1>18, <3>1
    <3>2. CASE i = n + 1
      BY <1>19, <2>1, <3>2 DEF e
    <3> QED
      BY <1>17, <2>1, <3>1, <3>2
  <2>4. \A i \in Current'..Len(sent') + 1 : longer[i] <= longer[Len(sent') + 1]
    BY <1>17, <1>20, <2>1
  <2>5. Len(stream') + 1 = longer[Len(sent') + 1] /\ Len(stream') < longer[Len(sent') + 1]
    <3>1. longer[Len(sent') + 1] = Len(stream) + 1 + e
      BY <1>16, <1>17, <2>1
    <3> QED
      BY <1>5, <1>7, <1>9, <3>1 DEF e
  <2> QED
    BY <2>2, <2>3, <2>4, <2>5 DEF Layout
<1>22. At(longer)'
  <2>1. longer[Current] = start[Current]
    BY <1>16, <1>17
  <2>2. CASE pc = "idle" /\ start[Current] = 1
    BY <1>2, <1>17, <2>1, <2>2 DEF At
  <2>3. CASE /\ Current <= Len(sent)
             /\ Reading(sent[Current])
             /\ start[Current] = 1 - Offset(sent[Current]) - Len(buf)
    <3>1. PICK g : g = sent[Current] /\ Reading(g)
      BY <2>3
    <3>2. sent'[Current] = g /\ Current' <= Len(sent')
      BY <1>5, <1>6, <1>17, <2>3, <3>1 DEF n
    <3>3. Reading(g)' /\ Offset(g)' = Offset(g)
      BY <1>2, <3>1 DEF Reading, Offset, Want
    <3> QED
      BY <1>2, <1>17, <2>1, <2>3, <3>1, <3>2, <3>3 DEF At
  <2> QED
    BY <1>4, <2>2, <2>3 DEF At
<1> QED
  BY <1>12, <1>13, <1>14, <1>21, <1>22 DEF Framing, InSync

(* What was cut off is at the end. *)
LEMMA EndCuts ==
  ASSUME Framing, End
  PROVE  Framing'
<1>1. PICK k \in 0..Len(stream) : stream' = SubSeq(stream, 1, k)
  BY DEF End
<1>2. ~ended /\ ended' = TRUE /\ UNCHANGED <<sent, pc, buf, opcode, mask, len, received>>
  BY DEF End, recvVars
<1>3. Types /\ InSync /\ OpcodeKnown
  BY <1>2 DEF Framing, CutShort
<1>4. PICK start : Layout(start) /\ At(start)
  BY <1>3 DEF InSync
<1>5. stream \in Seq(Item) /\ Len(stream) \in Nat /\ k \in Nat /\ k <= Len(stream)
  BY <1>3 DEF Types
<1>6. stream' = Upto(stream, k)
  BY <1>1 DEF Upto
<1>7. stream' \in Seq(Item) /\ Len(stream') = k
  BY <1>5, <1>6, UptoFacts
<1>8. \A i \in 1..k : stream'[i] = stream[i]
  BY <1>5, <1>6, UptoFacts
<1>9. Types' /\ OpcodeKnown' /\ AllAgree' /\ Len(received') <= Len(sent')
  BY <1>2, <1>3, <1>7 DEF Types, OpcodeKnown, InSync, AllAgree, Agrees
<1>10. Current' = Current
  BY <1>2 DEF Current
<1>11. Layout(start)'
  <2>1. \A i \in Current..Len(sent) :
          /\ start[i + 1] = start[i] + Len(Encode(sent[i]))
          /\ \A j \in 1..Len(Encode(sent[i])) :
               start[i] + j - 1 \in 1..Len(stream')
                 => stream'[start[i] + j - 1] = Encode(sent[i])[j]
    <3> TAKE i \in Current..Len(sent)
    <3>1. start[i + 1] = start[i] + Len(Encode(sent[i]))
      BY <1>4 DEF Layout
    <3>2. ASSUME NEW j \in 1..Len(Encode(sent[i])), start[i] + j - 1 \in 1..Len(stream')
          PROVE  stream'[start[i] + j - 1] = Encode(sent[i])[j]
      <4>1. PICK p \in 1..k : p = start[i] + j - 1
        BY <1>7, <3>2
      <4>2. p \in 1..Len(stream)
        BY <1>5
      <4>3. stream[start[i] + j - 1] = Encode(sent[i])[j]
        BY <1>4, <4>1, <4>2 DEF Layout
      <4> QED
        BY <1>8, <4>1, <4>3
    <3> QED
      BY <3>1, <3>2
  <2>2. /\ start \in [1..Len(sent) + 1 -> Int]
        /\ \A i \in Current..Len(sent) + 1 : start[i] <= start[Len(sent) + 1]
        /\ Len(stream) < start[Len(sent) + 1]
    BY <1>4 DEF Layout
  <2>3. k < start[Len(sent) + 1]
    <3>1. Len(sent) + 1 \in 1..Len(sent) + 1
      BY <1>3 DEF Types
    <3>2. start[Len(sent) + 1] \in Int
      BY <2>2, <3>1
    <3> QED
      BY <1>5, <2>2, <3>2
  <2> QED
    BY <1>2, <1>7, <1>10, <2>1, <2>2, <2>3 DEF Layout
<1>12. At(start)'
  <2>1. CASE pc = "idle" /\ start[Current] = 1
    BY <1>2, <1>10, <2>1 DEF At
  <2>2. CASE /\ Current <= Len(sent)
             /\ Reading(sent[Current])
             /\ start[Current] = 1 - Offset(sent[Current]) - Len(buf)
    <3>1. PICK g : g = sent[Current] /\ Reading(g)
      BY <2>2
    <3>2. Reading(g)' /\ Offset(g)' = Offset(g)
      BY <1>2, <3>1 DEF Reading, Offset, Want
    <3> QED
      BY <1>2, <1>10, <2>2, <3>1, <3>2 DEF At
  <2> QED
    BY <1>4, <2>1, <2>2 DEF At
<1> QED
  BY <1>9, <1>11, <1>12 DEF Framing, InSync

(* Where ws_recv is in a frame: what the actions of ws_recv start from. *)
LEMMA InFrame ==
  ASSUME Types, InSync, pc # "idle"
  PROVE  /\ AllAgree /\ Current <= Len(sent) /\ Len(received) \in Nat
         /\ Len(sent) \in Nat /\ Len(stream) \in Nat /\ Len(buf) \in Nat
         /\ \E start : \E f \in Frame :
              /\ f = sent[Current] /\ Reading(f) /\ Layout(start)
              /\ start[Current] = 1 - Offset(f) - Len(buf)
<1>1. Len(received) \in Nat /\ Len(sent) \in Nat /\ Len(stream) \in Nat /\ Len(buf) \in Nat
  BY DEF Types
<1>2. PICK start : Layout(start) /\ At(start)
  BY DEF InSync
<1>3. /\ Current <= Len(sent) /\ Reading(sent[Current])
      /\ start[Current] = 1 - Offset(sent[Current]) - Len(buf)
  BY <1>2 DEF At
<1>4. sent[Current] \in Frame
  <2>1. Current \in 1..Len(sent)
    BY <1>1, <1>3 DEF Current
  <2> QED
    BY <2>1 DEF Types
<1>5. AllAgree
  BY DEF InSync
<1>6. \E s : \E f \in Frame :
        /\ f = sent[Current] /\ Reading(f) /\ Layout(s)
        /\ s[Current] = 1 - Offset(f) - Len(buf)
  BY <1>2, <1>3, <1>4, Zenon
<1> QED
  BY <1>1, <1>3, <1>5, <1>6, Zenon

(* ws_recv starts at the beginning of a frame, or where the stream ended. *)
LEMMA BeginReads ==
  ASSUME Framing, Begin
  PROVE  Framing'
<1>1. /\ pc = "idle" /\ (stream # <<>> \/ ended) /\ pc' = "header" /\ buf' = <<>>
      /\ opcode' = Unset
      /\ UNCHANGED <<sent, ended, stream, mask, len, received>>
  BY DEF Begin, senderVars
<1>2. Types
  BY DEF Framing
<1>3. Types'
  <2>1. buf' \in Seq(Int) /\ opcode' \in Int /\ pc' \in Inside
    BY <1>1 DEF Unset, Inside
  <2> QED
    BY <1>1, <1>2, <2>1 DEF Types
<1>4. OpcodeKnown' /\ (AllAgree => AllAgree')
  BY <1>1 DEF OpcodeKnown, AllAgree, Agrees
<1>5. CASE CutShort
  <2>1. CutShort'
    BY <1>1, <1>4, <1>5 DEF CutShort, Agrees
  <2> QED
    BY <1>3, <1>4, <2>1 DEF Framing
<1>6. CASE InSync
  <2>1. PICK start : Layout(start) /\ At(start)
    BY <1>6 DEF InSync
  <2>2. start[Current] = 1
    BY <1>1, <2>1 DEF At, Reading, Inside
  <2>3. Len(received) \in Nat /\ Len(sent) \in Nat /\ Len(stream) \in Nat
        /\ Len(received) <= Len(sent) /\ AllAgree
    BY <1>2, <1>6 DEF Types, InSync
  <2>4. CASE Current <= Len(sent)
    <3>1. Layout(start)'
      BY <1>1, <2>1 DEF Layout, Current
    <3>2. PICK f : f = sent[Current]
      OBVIOUS
    <3>3. Reading(f)' /\ Offset(f)' = 0 /\ Len(buf') = 0
      <4>1. Len(buf') = 0
        BY <1>1
      <4>2. Want' = 2
        BY <1>1 DEF Want
      <4> QED
        BY <1>1, <4>1, <4>2 DEF Reading, Offset, Inside
    <3>4. Current' = Current
      BY <1>1 DEF Current
    <3>5. At(start)'
      BY <1>1, <2>2, <2>4, <3>2, <3>3, <3>4 DEF At
    <3>6. InSync'
      BY <1>1, <1>4, <2>3, <3>1, <3>5 DEF InSync
    <3> QED
      BY <1>3, <1>4, <3>6 DEF Framing
  <2>5. CASE Current > Len(sent)
    <3>1. Current = Len(sent) + 1
      BY <2>3, <2>5 DEF Current
    <3>2. Len(stream) < 1
      BY <2>1, <2>2, <3>1 DEF Layout
    <3>3. stream = <<>>
      BY <1>2, <2>3, <3>2, EmptySeq DEF Types
    <3>4. CutShort'
      BY <1>1, <1>4, <2>3, <3>3 DEF CutShort
    <3> QED
      BY <1>3, <1>4, <3>4 DEF Framing
  <2> QED
    BY <2>3, <2>4, <2>5 DEF Current
<1> QED
  BY <1>5, <1>6 DEF Framing

(* What recv hands over are the next bytes of the header. *)
LEMMA RecvSomeReads ==
  ASSUME Framing, RecvSome
  PROVE  Framing'
<1>1. PICK k \in 1..(Want - Len(buf)) :
        /\ k <= Len(stream)
        /\ stream' = SubSeq(stream, k + 1, Len(stream))
        /\ IF \A i \in 1..k : stream[i].kind = "byte"
           THEN buf' = buf \o [i \in 1..k |-> stream[i].byte] /\ UNCHANGED pc
           ELSE pc' = "garbled" /\ buf' = <<>>
  BY DEF RecvSome
<1>2. Len(buf) < Want /\ UNCHANGED <<sent, ended, opcode, mask, len, received>>
  BY DEF RecvSome, senderVars
<1>3. Types /\ OpcodeKnown
  BY DEF Framing
<1>4. stream \in Seq(Item) /\ buf \in Seq(Int) /\ Len(stream) \in Nat /\ Len(buf) \in Nat
  BY <1>3 DEF Types
<1>5. pc \in Inside
  <2>1. pc = "idle" => Want = 0
    BY WantFacts
  <2> QED
    BY <1>2, <1>3, <1>4, <2>1 DEF Types
<1>6. Want \in {2, 4, 8}
  BY <1>2, <1>4, <1>5, WantFacts DEF Inside
<1>7. k \in Nat /\ k >= 1 /\ Len(buf) + k <= Want
  BY <1>4, <1>6
<1>8. InSync
  <2>1. Len(stream) # 0
    BY <1>1, <1>4, <1>7
  <2>2. stream # <<>>
    BY <1>4, <2>1, EmptySeq
  <2> QED
    BY <2>2 DEF Framing, CutShort
<1>9. PICK start : \E f \in Frame :
        /\ f = sent[Current] /\ Reading(f) /\ Layout(start)
        /\ start[Current] = 1 - Offset(f) - Len(buf)
  BY <1>3, <1>5, <1>8, InFrame DEF Inside
<1>10. PICK f \in Frame :
         /\ f = sent[Current] /\ Reading(f) /\ Layout(start)
         /\ start[Current] = 1 - Offset(f) - Len(buf)
  BY <1>9
<1>11. /\ AllAgree /\ Current <= Len(sent) /\ Len(received) \in Nat /\ Len(sent) \in Nat
  BY <1>3, <1>5, <1>8, InFrame DEF Inside
<1>12. Offset(f) \in Nat /\ Offset(f) + Want <= HeaderLen(f)
  BY <1>10, WantFits
<1>13. /\ HeaderLen(f) \in Nat /\ HeaderLen(f) <= Len(Encode(f)) /\ Len(Encode(f)) \in Nat
       /\ Header(f) \in Seq(Int) /\ Len(Header(f)) = HeaderLen(f)
  <2>1. HeaderLen(f) \in Nat /\ Header(f) \in Seq(Int) /\ Len(Header(f)) = HeaderLen(f)
    BY HeaderFacts
  <2>2. Len(Encode(f)) = IF f.len = 0 THEN HeaderLen(f) ELSE HeaderLen(f) + 1
    BY FrameLengths
  <2> QED
    BY <2>1, <2>2
<1>14. ASSUME NEW i \in 1..k
       PROVE  /\ stream[i].kind = "byte"
              /\ stream[i].byte = Header(f)[Offset(f) + Len(buf) + i]
              /\ Header(f)[Offset(f) + Len(buf) + i] \in Int
  <2>1. PICK j \in 1..HeaderLen(f) : j = Offset(f) + Len(buf) + i
    <3>1. PICK o \in Nat, b \in Nat, w \in Nat, h \in Nat :
            o = Offset(f) /\ b = Len(buf) /\ w = Want /\ h = HeaderLen(f)
      BY <1>4, <1>6, <1>12, <1>13
    <3>2. b + k <= w /\ o + w <= h
      BY <1>7, <1>12, <3>1
    <3>3. i \in Nat /\ 1 <= i /\ i <= k
      BY <1>7
    <3>4. o + b + i \in 1..h
      BY <3>2, <3>3
    <3> QED
      BY <3>1, <3>4
  <2>2. start[Current] + j - 1 = i
    BY <1>4, <1>10, <1>12, <2>1
  <2>3. i \in 1..Len(stream)
    BY <1>1, <1>4, <1>7
  <2>4. j \in 1..Len(Encode(f)) /\ Current \in Current..Len(sent)
    BY <1>11, <1>13, <2>1 DEF Current
  <2>5. stream[i] = Encode(f)[j]
    BY <1>10, <2>2, <2>3, <2>4 DEF Layout
  <2>6. Encode(f)[j] = [kind |-> "byte", byte |-> Header(f)[j]]
    BY EncodeFacts
  <2>7. Header(f)[j] \in Int
    BY <1>13, <2>1, ElementOfSeq
  <2>8. stream[i].kind = "byte" /\ stream[i].byte = Header(f)[j]
    BY <2>5, <2>6
  <2> QED
    BY <2>1, <2>7, <2>8
<1>15. pc' = pc /\ buf' = buf \o [i \in 1..k |-> stream[i].byte]
  <2>1. \A i \in 1..k : stream[i].kind = "byte"
    BY <1>14
  <2> QED
    BY <1>1, <2>1, Zenon
<1> DEFINE bytes == [i \in 1..k |-> stream[i].byte]
<1>16. bytes \in Seq(Int) /\ Len(bytes) = k
  <2>1. \A i \in 1..k : stream[i].byte \in Int
    BY <1>14
  <2>2. bytes \in [1..k -> Int]
    BY <2>1
  <2> HIDE DEF bytes
  <2> QED
    BY <1>7, <2>2, SeqOfFunction
<1>17. \A i \in 1..k : bytes[i] = Header(f)[Offset(f) + Len(buf) + i]
  BY <1>14
<1>18. buf' = Cat(buf, bytes)
  BY <1>15 DEF Cat
<1> HIDE DEF bytes
<1>19. buf' \in Seq(Int) /\ Len(buf') = Len(buf) + k
  BY <1>4, <1>16, <1>18, CatFacts
<1>20. \A i \in 1..Len(buf) : buf'[i] = buf[i]
  BY <1>4, <1>16, <1>18, CatFacts
<1>21. \A i \in 1..k : buf'[Len(buf) + i] = bytes[i]
  <2>1. PICK a \in Seq(Int), b \in Seq(Int) : a = buf /\ b = bytes
    BY <1>4, <1>16
  <2>2. \A i \in 1..Len(b) : Cat(a, b)[Len(a) + i] = b[i]
    BY CatFacts
  <2> QED
    BY <1>16, <1>18, <2>1, <2>2
<1>22. Offset(f)' = Offset(f) /\ Want' = Want
  BY <1>15 DEF Offset, Want
<1>23. ASSUME NEW i \in 1..Len(buf')
       PROVE  buf'[i] = Header(f)[Offset(f) + i]
  <2>1. CASE i \in 1..Len(buf)
    BY <1>10, <1>20, <2>1 DEF Reading
  <2>2. CASE i \in Len(buf) + 1..Len(buf) + k
    <3>1. PICK j \in 1..k : i = Len(buf) + j
      <4>1. i - Len(buf) \in 1..k /\ i = Len(buf) + (i - Len(buf))
        BY <1>4, <1>7, <2>2
      <4> QED
        BY <4>1
    <3>2. Offset(f) + Len(buf) + j = Offset(f) + i
      BY <1>4, <1>12, <3>1
    <3> QED
      BY <1>17, <1>21, <3>1, <3>2
  <2> QED
    BY <1>4, <1>7, <1>19, <2>1, <2>2
<1>24. Reading(f)'
  <2>1. Len(buf') <= Want
    BY <1>4, <1>6, <1>7, <1>19
  <2> QED
    BY <1>2, <1>10, <1>15, <1>22, <1>23, <2>1 DEF Reading
<1>25. stream' = Behind(stream, k)
  BY <1>1 DEF Behind
<1>26. /\ stream' \in Seq(Item) /\ Len(stream') = Len(stream) - k
       /\ \A i \in 1..Len(stream) - k : stream'[i] = stream[i + k]
  <2>1. PICK a \in Seq(Item) : a = stream
    BY <1>4
  <2>2. /\ Behind(a, k) \in Seq(Item) /\ Len(Behind(a, k)) = Len(a) - k
        /\ \A i \in 1..Len(a) - k : Behind(a, k)[i] = a[i + k]
    BY <1>1, <1>7, <2>1, BehindFacts
  <2> QED
    BY <1>25, <2>1, <2>2
<1>27. Len(stream') \in Nat /\ Len(stream') + k = Len(stream)
  BY <1>1, <1>4, <1>7, <1>26
<1>28. Offset(f)' + Len(buf') = Offset(f) + Len(buf) + k /\ Len(buf') \in Nat /\ Offset(f)' \in Nat
  BY <1>4, <1>7, <1>12, <1>19, <1>22
<1>29. \A i \in 1..Len(stream') : stream'[i] = stream[i + k]
  BY <1>26
<1>30. InSync'
  BY <1>2, <1>3, <1>7, <1>10, <1>11, <1>12, <1>24, <1>27, <1>28, <1>29, StaysInFrame
<1>31. Types' /\ OpcodeKnown'
  BY <1>2, <1>3, <1>15, <1>19, <1>26 DEF Types, OpcodeKnown
<1> QED
  BY <1>30, <1>31 DEF Framing

(* The stream ends before or within what recv_n wants. *)
LEMMA RecvEndReads ==
  ASSUME Framing, RecvEnd
  PROVE  Framing'
<1>1. /\ Len(buf) < Want /\ ended /\ stream = <<>>
      /\ IF buf = <<>> THEN pc' = "idle" /\ UNCHANGED buf
         ELSE /\ \E b \in Garbage : buf' = buf \o [i \in 1..(Want - Len(buf)) |-> b]
              /\ UNCHANGED pc
      /\ UNCHANGED <<sent, ended, stream, opcode, mask, len, received>>
  BY DEF RecvEnd, senderVars
<1>2. Types /\ OpcodeKnown
  BY DEF Framing
<1>3. buf \in Seq(Int) /\ Len(buf) \in Nat
  BY <1>2 DEF Types
<1>4. pc \in Inside
  <2>1. pc = "idle" => Want = 0
    BY WantFacts
  <2> QED
    BY <1>1, <1>2, <1>3, <2>1 DEF Types
<1>5. Want \in {2, 4, 8}
  BY <1>1, <1>3, <1>4, WantFacts DEF Inside
<1>6. OpcodeKnown' /\ (AllAgree => AllAgree') /\ (\A i : Agrees(i)' <=> Agrees(i))
  BY <1>1, <1>2 DEF OpcodeKnown, AllAgree, Agrees
<1>7. CASE buf = <<>>
  <2>1. pc' = "idle" /\ buf' = buf
    BY <1>1, <1>7
  <2>2. Types'
    BY <1>1, <1>2, <2>1 DEF Types
  <2>3. InSync => AllAgree
    BY DEF InSync
  <2>4. CutShort'
    BY <1>1, <1>6, <2>1, <2>3 DEF Framing, CutShort
  <2> QED
    BY <1>6, <2>2, <2>4 DEF Framing
<1>8. CASE buf # <<>>
  <2>1. PICK b \in Garbage : buf' = buf \o [i \in 1..(Want - Len(buf)) |-> b]
    BY <1>1, <1>8
  <2>2. pc' = pc
    BY <1>1, <1>8
  <2> DEFINE rest == [i \in 1..(Want - Len(buf)) |-> b]
  <2>3. rest \in Seq(Int)
    <3>1. b \in Int
      BY DEF Garbage, PAYLOAD_LENGTH_16, PAYLOAD_LENGTH_64
    <3>2. Want - Len(buf) \in Nat
      BY <1>1, <1>3, <1>5
    <3>3. rest \in [1..(Want - Len(buf)) -> Int]
      BY <3>1
    <3> HIDE DEF rest
    <3> QED
      BY <3>2, <3>3, SeqOfFunction
  <2>4. buf' = Cat(buf, rest)
    BY <2>1 DEF Cat
  <2> HIDE DEF rest
  <2>5. buf' \in Seq(Int) /\ Len(buf') = Len(buf) + Len(rest) /\ Len(rest) \in Nat
    BY <1>3, <2>3, <2>4, CatFacts
  <2>6. \A i \in 1..Len(buf) : buf'[i] = buf[i]
    BY <1>3, <2>3, <2>4, CatFacts
  <2>7. Len(buf) >= 1
    BY <1>3, <1>8, EmptySeq
  <2>8. buf'[1] = buf[1]
    BY <1>3, <2>6, <2>7
  <2>9. Types'
    BY <1>1, <1>2, <2>2, <2>5 DEF Types
  <2>10. /\ AllAgree
         /\ pc = "header" => \E i \in 1..Len(sent) : OpcodeOf(buf[1]) = sent[i].opcode
    <3>1. CASE CutShort
      BY <1>4, <1>8, <3>1 DEF CutShort, Inside
    <3>2. CASE InSync
      <4>1. AllAgree /\ Current <= Len(sent) /\ Len(received) \in Nat /\ Len(sent) \in Nat
        BY <1>2, <1>4, <3>2, InFrame DEF Inside
      <4>2. PICK start : \E f \in Frame :
              /\ f = sent[Current] /\ Reading(f) /\ Layout(start)
              /\ start[Current] = 1 - Offset(f) - Len(buf)
        BY <1>2, <1>4, <3>2, InFrame DEF Inside
      <4>3. PICK f \in Frame : f = sent[Current] /\ Reading(f)
        BY <4>2
      <4>4. ASSUME pc = "header"
            PROVE  \E i \in 1..Len(sent) : OpcodeOf(buf[1]) = sent[i].opcode
        <5>1. buf[1] = Header(f)[Offset(f) + 1]
          BY <1>3, <2>7, <4>3 DEF Reading
        <5>2. Offset(f) + 1 = 1
          BY <4>4 DEF Offset
        <5>3. OpcodeOf(Header(f)[1]) = f.opcode
          BY HeaderFacts
        <5>4. Current \in 1..Len(sent)
          BY <4>1 DEF Current
        <5> QED
          BY <4>3, <5>1, <5>2, <5>3, <5>4
      <4> QED
        BY <4>1, <4>4
    <3> QED
      BY <3>1, <3>2 DEF Framing
  <2>11. pc' = "header" => \E i \in 1..Len(sent') : OpcodeOf(buf'[1]) = sent'[i].opcode
    BY <1>1, <2>2, <2>8, <2>10
  <2>12. CutShort'
    BY <1>1, <1>6, <2>10, <2>11 DEF CutShort
  <2> QED
    BY <1>6, <2>9, <2>12 DEF Framing
<1> QED
  BY <1>7, <1>8

(* After the end of the stream ws_recv goes on with what it has. *)
LEMMA CutShortGoesOn ==
  ASSUME CutShort, pc \in Inside, Len(buf) # 0 \/ pc # "header", pc' # "header",
         UNCHANGED <<sent, ended, stream, received>>
  PROVE  CutShort'
<1>1. ~(pc = "header" /\ buf = <<>>)
  OBVIOUS
<1>2. AllAgree
  BY <1>1 DEF CutShort, Inside
<1>3. AllAgree'
  BY <1>2 DEF AllAgree, Agrees
<1> QED
  BY <1>3 DEF CutShort

(* The length's seven bits say how many bytes follow, if any. *)
LEMMA LengthBits ==
  ASSUME NEW f \in Frame, NEW high, high = LengthField(f.len).high
  PROVE  /\ high = PAYLOAD_LENGTH_16 => ExtLen(f) = 2
         /\ high = PAYLOAD_LENGTH_64 => ExtLen(f) = 8
         /\ high # PAYLOAD_LENGTH_16 /\ high # PAYLOAD_LENGTH_64 => ExtLen(f) = 0 /\ high = f.len
<1>1. PICK n \in 0..MaxLength : n = f.len
  BY FrameAssumption DEF Frame
<1>2. n \in Nat
  BY <1>1
<1>3. CASE n < 126
  <2>1. high = n
    BY <1>1, <1>3, LengthFacts DEF PAYLOAD_LENGTH_16
  <2>2. ExtLen(f) = 0
    BY <1>1, <1>3 DEF ExtLen, PAYLOAD_LENGTH_16
  <2> QED
    BY <1>1, <1>2, <1>3, <2>1, <2>2 DEF PAYLOAD_LENGTH_16, PAYLOAD_LENGTH_64
<1>4. CASE 126 <= n /\ n <= 65535
  <2>1. high = 126
    BY <1>1, <1>4, LengthFacts DEF PAYLOAD_LENGTH_16
  <2>2. ExtLen(f) = 2
    BY <1>1, <1>2, <1>4 DEF ExtLen, PAYLOAD_LENGTH_16
  <2> QED
    BY <2>1, <2>2 DEF PAYLOAD_LENGTH_16, PAYLOAD_LENGTH_64
<1>5. CASE n > 65535
  <2>1. high = 127
    BY <1>1, <1>5, LengthFacts DEF PAYLOAD_LENGTH_64
  <2>2. ExtLen(f) = 8
    BY <1>1, <1>2, <1>5 DEF ExtLen, PAYLOAD_LENGTH_16
  <2> QED
    BY <2>1, <2>2 DEF PAYLOAD_LENGTH_16, PAYLOAD_LENGTH_64
<1> QED
  BY <1>2, <1>3, <1>4, <1>5

(* The header is read: opcode, mask and length are the frame's. *)
LEMMA ReadHeaderReads ==
  ASSUME Framing, ReadHeader
  PROVE  Framing'
<1>1. /\ pc = "header" /\ Len(buf) = Want /\ opcode' = OpcodeOf(buf[1])
      /\ mask' = (buf[2] >= MASK) /\ len' = buf[2] % 128 /\ buf' = <<>>
      /\ UNCHANGED <<sent, ended, stream, received>>
  BY DEF ReadHeader, Full, senderVars
<1>2. /\ len' = PAYLOAD_LENGTH_16 => pc' = "ext16"
      /\ len' = PAYLOAD_LENGTH_64 => pc' = "ext64"
      /\ len' # PAYLOAD_LENGTH_16 /\ len' # PAYLOAD_LENGTH_64 =>
           pc' = IF mask' THEN "key" ELSE "payload"
  BY DEF ReadHeader, AfterLength, PAYLOAD_LENGTH_16, PAYLOAD_LENGTH_64
<1>3. Types /\ Len(buf) = 2 /\ Len(buf') = 0 /\ buf[1] \in Int /\ buf[2] \in Int
  <2>1. Types /\ Len(buf) = 2
    BY <1>1, WantFacts DEF Framing
  <2>2. buf \in Seq(Int)
    BY <2>1 DEF Types
  <2>3. \A i \in 1..Len(buf) : buf[i] \in Int
    BY <2>2, ElementOfSeq
  <2> QED
    BY <1>1, <2>1, <2>3
<1>4. pc' \in {"ext16", "ext64", "key", "payload"}
  BY <1>2
<1>5. Types'
  <2>1. opcode' \in Int /\ mask' \in BOOLEAN /\ len' \in Int /\ buf' \in Seq(Int)
    BY <1>1, <1>3 DEF OpcodeOf
  <2>2. pc' \in {"idle"} \cup Inside
    BY <1>4 DEF Inside
  <2> QED
    BY <1>1, <1>3, <2>1, <2>2 DEF Types
<1>6. CASE CutShort
  <2>1. CutShort'
    BY <1>1, <1>3, <1>4, <1>6, CutShortGoesOn DEF Inside
  <2>2. OpcodeKnown'
    BY <1>1, <1>3, <1>6 DEF CutShort, OpcodeKnown
  <2> QED
    BY <1>5, <2>1, <2>2 DEF Framing
<1>7. CASE InSync
  <2>1. AllAgree /\ Current <= Len(sent) /\ Len(received) \in Nat /\ Len(sent) \in Nat
        /\ Len(stream) \in Nat
    BY <1>1, <1>3, <1>7, InFrame
  <2>2. PICK start : \E f \in Frame :
          /\ f = sent[Current] /\ Reading(f) /\ Layout(start)
          /\ start[Current] = 1 - Offset(f) - Len(buf)
    BY <1>1, <1>3, <1>7, InFrame
  <2>3. PICK f \in Frame :
          /\ f = sent[Current] /\ Reading(f) /\ Layout(start)
          /\ start[Current] = 1 - Offset(f) - Len(buf)
    BY <2>2
  <2>4. Offset(f) = 0
    BY <1>1 DEF Offset
  <2>5. buf[1] = Header(f)[1] /\ buf[2] = Header(f)[2]
    <3>1. \A i \in 1..2 : buf[i] = Header(f)[Offset(f) + i]
      BY <1>3, <2>3 DEF Reading
    <3> QED
      BY <2>4, <3>1
  <2>6. OpcodeOf(Header(f)[1]) = f.opcode
    BY HeaderFacts
  <2>7. (Header(f)[2] >= MASK) = f.mask
    BY HeaderFacts
  <2>8. Header(f)[2] % 128 = LengthField(f.len).high
    BY HeaderFacts
  <2>9. opcode' = f.opcode /\ mask' = f.mask /\ len' = LengthField(f.len).high
    BY <1>1, <2>5, <2>6, <2>7, <2>8
  <2>10. /\ len' = PAYLOAD_LENGTH_16 => ExtLen(f) = 2
         /\ len' = PAYLOAD_LENGTH_64 => ExtLen(f) = 8
         /\ len' # PAYLOAD_LENGTH_16 /\ len' # PAYLOAD_LENGTH_64 => ExtLen(f) = 0 /\ len' = f.len
    <3>1. PICK high : high = len'
      OBVIOUS
    <3> QED
      BY <2>9, <3>1, LengthBits
  <2>11. f.mask \in BOOLEAN /\ HeaderLen(f) = IF f.mask THEN ExtLen(f) + 6 ELSE ExtLen(f) + 2
    BY FrameLengths
  <2>12. Offset(f)' = 2
    <3>1. CASE pc' \in {"ext16", "ext64"}
      BY <3>1 DEF Offset
    <3>2. CASE pc' = "key"
      <4>1. ExtLen(f) = 0
        BY <1>2, <2>10, <3>2
      <4> QED
        BY <3>2, <4>1 DEF Offset
    <3>3. CASE pc' = "payload"
      <4>1. ExtLen(f) = 0 /\ ~f.mask
        BY <1>2, <2>9, <2>10, <3>3
      <4>2. HeaderLen(f) = 2
        BY <2>11, <4>1
      <4> QED
        BY <3>3, <4>2 DEF Offset
    <3> QED
      BY <1>4, <3>1, <3>2, <3>3
  <2>13. Reading(f)'
    <3>1. pc' \in Inside /\ pc' # "header"
      BY <1>4 DEF Inside
    <3>2. Want' \in Nat
      BY <1>4 DEF Want
    <3>3. /\ pc' = "ext16" => ExtLen(f) = 2
          /\ pc' = "ext64" => ExtLen(f) = 8
          /\ pc' = "key" => mask'
          /\ pc' \in {"key", "payload"} => len' = f.len
      BY <1>2, <2>10
    <3> QED
      BY <1>3, <2>9, <3>1, <3>2, <3>3 DEF Reading
  <2>14. InSync'
    <3>1. Len(stream') \in Nat /\ Len(stream') + 0 = Len(stream)
      BY <1>1, <2>1
    <3>2. \A i \in 1..Len(stream') : stream'[i] = stream[i + 0]
      BY <1>1, <2>1
    <3>3. Offset(f) \in Nat /\ Offset(f)' \in Nat /\ Len(buf') \in Nat /\ 0 \in Nat
          /\ Offset(f)' + Len(buf') = Offset(f) + Len(buf) + 0
      BY <1>3, <2>4, <2>12
    <3> QED
      BY <1>1, <1>3, <2>1, <2>3, <2>13, <3>1, <3>2, <3>3, StaysInFrame
  <2>15. OpcodeKnown'
    <3>1. Current \in 1..Len(sent)
      BY <2>1 DEF Current
    <3> QED
      BY <1>1, <2>3, <2>9, <3>1 DEF OpcodeKnown
  <2> QED
    BY <1>5, <2>14, <2>15 DEF Framing
<1> QED
  BY <1>6, <1>7 DEF Framing

(* The bytes that extend a length are read. *)
LEMMA ReadLengthReads ==
  ASSUME Framing, ReadLength16 \/ ReadLength64
  PROVE  Framing'
<1>1. /\ pc \in {"ext16", "ext64"} /\ Len(buf) = Want
      /\ len' = IF pc = "ext16" THEN FromShort(buf) ELSE ClearMsb(buf)
      /\ pc' = IF mask THEN "key" ELSE "payload"
      /\ buf' = <<>>
      /\ UNCHANGED <<sent, ended, stream, received, opcode, mask>>
  BY DEF ReadLength16, ReadLength64, Full, AfterLength, senderVars
<1>2. Types /\ OpcodeKnown /\ Len(buf') = 0 /\ buf \in Seq(Int) /\ mask \in BOOLEAN
  BY <1>1 DEF Framing, Types
<1>3. /\ pc = "ext16" => Len(buf) = 2 /\ \A i \in {1, 2} : buf[i] \in Int
      /\ pc = "ext64" => Len(buf) = 8 /\ \A i \in {5, 6, 7, 8} : buf[i] \in Int
  <2>1. /\ pc = "ext16" => Len(buf) = 2
        /\ pc = "ext64" => Len(buf) = 8
    BY <1>1, WantFacts
  <2>2. \A i \in 1..Len(buf) : buf[i] \in Int
    BY <1>2, ElementOfSeq
  <2> QED
    BY <2>1, <2>2
<1>4. pc' \in {"key", "payload"}
  BY <1>1
<1>5. Types' /\ OpcodeKnown'
  <2>1. FromShort(buf) \in Int \/ pc # "ext16"
    BY <1>3 DEF FromShort
  <2>2. ClearMsb(buf) \in Int \/ pc # "ext64"
    BY <1>3 DEF ClearMsb
  <2>3. len' \in Int /\ buf' \in Seq(Int) /\ pc' \in Inside
    BY <1>1, <1>4, <2>1, <2>2 DEF Inside
  <2> QED
    BY <1>1, <1>2, <2>3 DEF Types, OpcodeKnown
<1>6. CASE CutShort
  <2>1. CutShort'
    BY <1>1, <1>4, <1>6, CutShortGoesOn DEF Inside
  <2> QED
    BY <1>5, <2>1 DEF Framing
<1>7. CASE InSync
  <2>1. AllAgree /\ Current <= Len(sent) /\ Len(received) \in Nat /\ Len(sent) \in Nat
        /\ Len(stream) \in Nat
    BY <1>1, <1>2, <1>7, InFrame
  <2>2. PICK start : \E f \in Frame :
          /\ f = sent[Current] /\ Reading(f) /\ Layout(start)
          /\ start[Current] = 1 - Offset(f) - Len(buf)
    BY <1>1, <1>2, <1>7, InFrame
  <2>3. PICK f \in Frame :
          /\ f = sent[Current] /\ Reading(f) /\ Layout(start)
          /\ start[Current] = 1 - Offset(f) - Len(buf)
    BY <2>2
  <2>4. Offset(f) = 2
    BY <1>1 DEF Offset
  <2>5. opcode = f.opcode /\ mask = f.mask /\ Len(buf) = ExtLen(f)
        /\ ExtLen(f) = IF pc = "ext16" THEN 2 ELSE 8
    BY <1>1, <1>3, <2>3 DEF Reading
  <2>6. \A i \in 1..ExtLen(f) : buf[i] = LengthField(f.len).ext[i]
    <3>1. \A i \in 1..ExtLen(f) : buf[i] = Header(f)[2 + i]
      BY <2>3, <2>4, <2>5 DEF Reading
    <3>2. \A i \in 1..ExtLen(f) : Header(f)[2 + i] = LengthField(f.len).ext[i]
      BY HeaderFacts
    <3> QED
      BY <3>1, <3>2
  <2>7. len' = f.len
    <3>1. PICK n \in 0..MaxLength : n = f.len
      BY FrameAssumption DEF Frame
    <3>2. n \in Nat
      BY <3>1
    <3>3. CASE pc = "ext16"
      <4>1. 126 <= n /\ n <= 65535
        BY <2>5, <3>1, <3>2, <3>3 DEF ExtLen, PAYLOAD_LENGTH_16
      <4>2. 256 * LengthField(n).ext[1] + LengthField(n).ext[2] = n
        BY <3>1, <4>1, LengthFacts DEF PAYLOAD_LENGTH_16
      <4>3. buf[1] = LengthField(n).ext[1] /\ buf[2] = LengthField(n).ext[2]
        BY <2>5, <2>6, <3>1, <3>3
      <4> QED
        BY <1>1, <3>1, <3>3, <4>2, <4>3 DEF FromShort
    <3>4. CASE pc = "ext64"
      <4>1. n > 65535
        BY <2>5, <3>1, <3>2, <3>4 DEF ExtLen, PAYLOAD_LENGTH_16
      <4>2. ClearMsb(LengthField(n).ext) = n
        BY <3>1, <4>1, LengthFacts
      <4>3. \A i \in 5..8 : buf[i] = LengthField(n).ext[i]
        BY <2>5, <2>6, <3>1, <3>4
      <4>4. buf[5] = LengthField(n).ext[5] /\ buf[6] = LengthField(n).ext[6]
            /\ buf[7] = LengthField(n).ext[7] /\ buf[8] = LengthField(n).ext[8]
        BY <4>3
      <4>5. ClearMsb(buf) = ClearMsb(LengthField(n).ext)
        BY <4>4 DEF ClearMsb
      <4> QED
        BY <1>1, <3>1, <3>4, <4>2, <4>5
    <3> QED
      BY <1>1, <3>3, <3>4
  <2>8. /\ f.mask \in BOOLEAN /\ ExtLen(f) \in {0, 2, 8}
        /\ HeaderLen(f) = IF f.mask THEN ExtLen(f) + 6 ELSE ExtLen(f) + 2
    BY FrameLengths
  <2>9. Offset(f)' = 2 + ExtLen(f)
    <3>1. CASE mask
      BY <1>1, <3>1 DEF Offset
    <3>2. CASE ~mask
      <4>1. pc' = "payload" /\ HeaderLen(f) = 2 + ExtLen(f)
        BY <1>1, <2>5, <2>8, <3>2
      <4> QED
        BY <4>1 DEF Offset
    <3> QED
      BY <3>1, <3>2
  <2>10. Reading(f)'
    <3>1. pc' \in Inside /\ Want' \in Nat
      BY <1>4 DEF Inside, Want
    <3>2. pc' = "key" => mask'
      BY <1>1
    <3> QED
      BY <1>1, <1>2, <1>4, <2>5, <2>7, <3>1, <3>2 DEF Reading
  <2>11. InSync'
    <3>1. Len(stream') \in Nat /\ Len(stream') + 0 = Len(stream)
      BY <1>1, <2>1
    <3>2. \A i \in 1..Len(stream') : stream'[i] = stream[i + 0]
      BY <1>1, <2>1
    <3>3. Offset(f) \in Nat /\ Offset(f)' \in Nat /\ Len(buf') \in Nat /\ 0 \in Nat
          /\ Offset(f)' + Len(buf') = Offset(f) + Len(buf) + 0
      BY <1>2, <2>4, <2>5, <2>8, <2>9
    <3> QED
      BY <1>1, <1>2, <2>1, <2>3, <2>10, <3>1, <3>2, <3>3, StaysInFrame
  <2> QED
    BY <1>5, <2>11 DEF Framing
<1> QED
  BY <1>6, <1>7 DEF Framing

(* The key is read and not used. *)
LEMMA ReadKeyReads ==
  ASSUME Framing, ReadKey
  PROVE  Framing'
<1>1. /\ pc = "key" /\ Len(buf) = Want /\ pc' = "payload" /\ buf' = <<>>
      /\ UNCHANGED <<sent, ended, stream, received, opcode, mask, len>>
  BY DEF ReadKey, Full, senderVars
<1>2. Types /\ OpcodeKnown /\ Len(buf) = 4 /\ Len(buf') = 0
  BY <1>1, WantFacts DEF Framing
<1>3. Types' /\ OpcodeKnown'
  <2>1. buf' \in Seq(Int) /\ pc' \in Inside
    BY <1>1 DEF Inside
  <2> QED
    BY <1>1, <1>2, <2>1 DEF Types, OpcodeKnown
<1>4. CASE CutShort
  <2>1. CutShort'
    BY <1>1, <1>4, CutShortGoesOn DEF Inside
  <2> QED
    BY <1>3, <2>1 DEF Framing
<1>5. CASE InSync
  <2>1. AllAgree /\ Current <= Len(sent) /\ Len(received) \in Nat /\ Len(sent) \in Nat
        /\ Len(stream) \in Nat
    BY <1>1, <1>2, <1>5, InFrame
  <2>2. PICK start : \E f \in Frame :
          /\ f = sent[Current] /\ Reading(f) /\ Layout(start)
          /\ start[Current] = 1 - Offset(f) - Len(buf)
    BY <1>1, <1>2, <1>5, InFrame
  <2>3. PICK f \in Frame :
          /\ f = sent[Current] /\ Reading(f) /\ Layout(start)
          /\ start[Current] = 1 - Offset(f) - Len(buf)
    BY <2>2
  <2>4. opcode = f.opcode /\ mask = f.mask /\ mask /\ len = f.len
    BY <1>1, <2>3 DEF Reading
  <2>5. /\ ExtLen(f) \in {0, 2, 8}
        /\ HeaderLen(f) = IF f.mask THEN ExtLen(f) + 6 ELSE ExtLen(f) + 2
    BY FrameLengths
  <2>6. Offset(f) = 2 + ExtLen(f) /\ Offset(f)' = HeaderLen(f) /\ HeaderLen(f) = ExtLen(f) + 6
    BY <1>1, <2>4, <2>5 DEF Offset
  <2>7. Reading(f)'
    <3>1. pc' \in Inside /\ pc' = "payload" /\ Want' = 0
      BY <1>1 DEF Inside, Want
    <3>2. Len(buf') <= Want' /\ 1..Len(buf') = {}
      BY <1>2, <3>1
    <3>3. opcode' = f.opcode /\ mask' = f.mask /\ len' = f.len
      BY <1>1, <2>4
    <3>4. \A i \in 1..Len(buf') : buf'[i] = Header(f)[Offset(f)' + i]
      BY <3>2
    <3>5. \A i \in 1..Len(buf') : buf'[i] = Header(f)'[Offset(f)' + i]
      BY <3>2
    <3> QED
      BY <3>1, <3>2, <3>3, <3>4, <3>5 DEF Reading
  <2>8. InSync'
    <3>1. Len(stream') \in Nat /\ Len(stream') + 0 = Len(stream)
      BY <1>1, <2>1
    <3>2. \A i \in 1..Len(stream') : stream'[i] = stream[i + 0]
      BY <1>1, <2>1
    <3>3. Offset(f) \in Nat /\ Offset(f)' \in Nat /\ Len(buf') \in Nat /\ 0 \in Nat
          /\ Offset(f)' + Len(buf') = Offset(f) + Len(buf) + 0
      BY <1>2, <2>5, <2>6
    <3> QED
      BY <1>1, <1>2, <2>1, <2>3, <2>7, <3>1, <3>2, <3>3, StaysInFrame
  <2> QED
    BY <1>3, <2>8 DEF Framing
<1> QED
  BY <1>4, <1>5 DEF Framing

(* The payload is skipped, if there is one, and the frame returned: what   *)
(* stands behind it in the stream is the next frame.                       *)
LEMMA SkipPayloadReads ==
  ASSUME Framing, SkipPayload
  PROVE  Framing'
<1>1. /\ pc = "payload"
      /\ \/ len = 0 /\ Return /\ UNCHANGED stream
         \/ /\ len # 0 /\ stream # <<>>
            /\ IF Head(stream).kind = "payload" /\ Head(stream).len = len
               THEN Return /\ stream' = Tail(stream)
               ELSE pc' = "garbled" /\ UNCHANGED <<stream, received>>
      /\ UNCHANGED <<sent, ended, buf, opcode, mask, len>>
  BY DEF SkipPayload, NoPayload, senderVars
<1>2. Types /\ OpcodeKnown
  BY DEF Framing
<1>3. OpcodeKnown'
  BY <1>1, <1>2 DEF OpcodeKnown
<1>4. ASSUME Return
      PROVE  /\ pc' = "idle" /\ received' = Append(received, [opcode |-> opcode, len |-> len])
             /\ received' \in Seq([opcode : Int, len : Int])
             /\ Len(received') = Len(received) + 1
             /\ \A i \in 1..Len(received) : received'[i] = received[i]
  <2>1. received \in Seq([opcode : Int, len : Int]) /\ [opcode |-> opcode, len |-> len] \in [opcode : Int, len : Int]
    BY <1>2 DEF Types
  <2>2. PICK r \in [opcode : Int, len : Int] : r = [opcode |-> opcode, len |-> len]
    BY <2>1
  <2>3. pc' = "idle" /\ received' = Append(received, r)
    BY <1>4, <2>2 DEF Return
  <2>4. /\ received' \in Seq([opcode : Int, len : Int])
        /\ Len(received') = Len(received) + 1
        /\ \A i \in 1..Len(received) : received'[i] = received[i]
    BY <2>1, <2>3, AppendProperties
  <2> QED
    BY <2>2, <2>3, <2>4
<1>5. CASE CutShort
  <2>1. len = 0 /\ Return /\ UNCHANGED stream
    BY <1>1, <1>5 DEF CutShort
  <2>2. /\ pc' = "idle" /\ Len(received') = Len(received) + 1
        /\ received' \in Seq([opcode : Int, len : Int])
        /\ \A i \in 1..Len(received) : received'[i] = received[i]
    BY <1>4, <2>1
  <2>3. AllAgree
    BY <1>1, <1>5 DEF CutShort
  <2>4. Len(received) \in Nat
    BY <1>2 DEF Types
  <2>5. \A i \in 1..Len(received') : Agrees(i)' \/ i = Len(received')
    <3> TAKE i \in 1..Len(received')
    <3>1. i \in 1..Len(received) \/ i = Len(received')
      BY <2>2, <2>4
    <3> QED
      BY <1>1, <2>2, <2>3, <3>1 DEF AllAgree, Agrees
  <2>6. CutShort'
    BY <1>1, <1>5, <2>1, <2>2, <2>5 DEF CutShort
  <2>7. Types'
    BY <1>1, <1>2, <2>1, <2>2 DEF Types
  <2> QED
    BY <1>3, <2>6, <2>7 DEF Framing
<1>6. CASE InSync
  <2>1. AllAgree /\ Current <= Len(sent) /\ Len(received) \in Nat /\ Len(sent) \in Nat
        /\ Len(stream) \in Nat
    BY <1>1, <1>2, <1>6, InFrame
  <2>2. PICK start : \E f \in Frame :
          /\ f = sent[Current] /\ Reading(f) /\ Layout(start)
          /\ start[Current] = 1 - Offset(f) - Len(buf)
    BY <1>1, <1>2, <1>6, InFrame
  <2>3. PICK f \in Frame :
          /\ f = sent[Current] /\ Reading(f) /\ Layout(start)
          /\ start[Current] = 1 - Offset(f) - Len(buf)
    BY <2>2
  <2>4. opcode = f.opcode /\ len = f.len /\ Len(buf) = 0
    <3>1. Len(buf) <= Want /\ Want = 0 /\ Len(buf) \in Nat
      BY <1>1, <1>2, <2>3, WantFacts DEF Reading, Types
    <3> QED
      BY <1>1, <2>3, <3>1 DEF Reading
  <2>5. /\ ExtLen(f) \in {0, 2, 8} /\ f.mask \in BOOLEAN /\ f.len \in Nat
        /\ HeaderLen(f) = IF f.mask THEN ExtLen(f) + 6 ELSE ExtLen(f) + 2
        /\ Len(Encode(f)) = IF f.len = 0 THEN HeaderLen(f) ELSE HeaderLen(f) + 1
    BY FrameLengths
  <2>6. HeaderLen(f) \in Nat /\ Offset(f) = HeaderLen(f) /\ start[Current] = 1 - HeaderLen(f)
    <3>1. HeaderLen(f) \in Nat
      BY <2>5
    <3>2. Offset(f) = HeaderLen(f)
      BY <1>1 DEF Offset
    <3> QED
      BY <2>3, <2>4, <3>1, <3>2
  <2>7. PICK k \in {0, 1} :
          /\ k = IF f.len = 0 THEN 0 ELSE 1
          /\ Return
          /\ stream' \in Seq(Item) /\ Len(stream') + k = Len(stream)
          /\ \A i \in 1..Len(stream') : stream'[i] = stream[i + k]
    <3>1. CASE f.len = 0
      <4>1. Return /\ stream' = stream
        BY <1>1, <2>4, <3>1
      <4>2. stream' \in Seq(Item) /\ Len(stream') + 0 = Len(stream)
            /\ \A i \in 1..Len(stream') : stream'[i] = stream[i + 0]
        BY <1>2, <2>1, <4>1 DEF Types
      <4> QED
        BY <3>1, <4>1, <4>2
    <3>2. CASE f.len # 0
      <4>1. stream # <<>> /\ stream \in Seq(Item)
        BY <1>1, <1>2, <2>4, <3>2 DEF Types
      <4>2. Len(stream) >= 1
        BY <2>1, <4>1, EmptySeq
      <4>3. PICK j \in 1..Len(Encode(f)) : j = HeaderLen(f) + 1
        BY <2>5, <2>6, <3>2
      <4>4. start[Current] + j - 1 = 1
        BY <2>6, <4>3
      <4>5. Current \in Current..Len(sent)
        BY <2>1 DEF Current
      <4>6. stream[1] = Encode(f)[j]
        <5>1. \A i \in Current..Len(sent) : \A m \in 1..Len(Encode(sent[i])) :
                start[i] + m - 1 \in 1..Len(stream)
                  => stream[start[i] + m - 1] = Encode(sent[i])[m]
          BY <2>3 DEF Layout
        <5>2. j \in 1..Len(Encode(sent[Current])) /\ f = sent[Current]
          BY <2>3
        <5>3. start[Current] + j - 1 \in 1..Len(stream)
          BY <2>1, <4>2, <4>4
        <5>4. stream[start[Current] + j - 1] = Encode(sent[Current])[j]
          BY <4>5, <5>1, <5>2, <5>3, Zenon
        <5> QED
          BY <4>4, <5>2, <5>4
      <4>7. Encode(f)[j] = [kind |-> "payload", len |-> f.len]
        BY <3>2, <4>3, EncodeFacts
      <4>8. Head(stream).kind = "payload" /\ Head(stream).len = len
        <5>1. Head(stream) = stream[1]
          BY <4>1
        <5> QED
          BY <2>4, <4>6, <4>7, <5>1
      <4>9. Return /\ stream' = Tail(stream)
        BY <1>1, <2>4, <3>2, <4>8
      <4>10. PICK a \in Seq(Item) : a = stream /\ a # <<>>
        BY <4>1
      <4>11. /\ Tail(a) \in Seq(Item) /\ Len(Tail(a)) = Len(a) - 1
             /\ \A i \in 1..Len(Tail(a)) : Tail(a)[i] = a[i + 1]
        BY <4>10, HeadTailProperties
      <4>12. stream' \in Seq(Item) /\ Len(stream') + 1 = Len(stream)
             /\ \A i \in 1..Len(stream') : stream'[i] = stream[i + 1]
        BY <2>1, <4>9, <4>10, <4>11
      <4> QED
        BY <3>2, <4>9, <4>12
    <3> QED
      BY <3>1, <3>2
  <2>8. /\ pc' = "idle" /\ received' = Append(received, [opcode |-> f.opcode, len |-> f.len])
        /\ received' \in Seq([opcode : Int, len : Int])
    BY <1>4, <2>4, <2>7
  <2>9. InSync'
    <3>1. Len(stream') \in Nat
      BY <2>7
    <3>2. k \in Nat /\ Len(Encode(f)) = HeaderLen(f) + k
      BY <2>5, <2>6, <2>7
    <3> QED
      BY <1>1, <1>2, <2>1, <2>3, <2>6, <2>7, <2>8, <3>1, <3>2, NextFrame
  <2>10. Types'
    BY <1>1, <1>2, <2>7, <2>8 DEF Types
  <2> QED
    BY <1>3, <2>9, <2>10 DEF Framing
<1> QED
  BY <1>5, <1>6 DEF Framing

(* The stream ends within a payload, or before it. *)
LEMMA PayloadEndsReads ==
  ASSUME Framing, PayloadEnds
  PROVE  Framing'
<1>1. /\ pc = "payload" /\ ended /\ stream = <<>> /\ pc' = "idle"
      /\ UNCHANGED <<sent, ended, stream, buf, opcode, mask, len, received>>
  BY DEF PayloadEnds, senderVars
<1>2. AllAgree
  BY <1>1 DEF Framing, InSync, CutShort
<1>3. CutShort'
  <2>1. AllAgree'
    BY <1>1, <1>2 DEF AllAgree, Agrees
  <2> QED
    BY <1>1, <2>1 DEF CutShort
<1>4. Types' /\ OpcodeKnown'
  BY <1>1 DEF Framing, Types, OpcodeKnown
<1> QED
  BY <1>3, <1>4 DEF Framing

-----------------------------------------------------------------------------
(* Every step keeps the frames in their places. *)
LEMMA FramingStep == Framing /\ [Next]_vars => Framing' \/ RecvFails
<1> SUFFICES ASSUME Framing, [Next]_vars, ~RecvFails
             PROVE  Framing'
  OBVIOUS
<1>1. CASE Send
  BY <1>1, SendFrames
<1>2. CASE End
  BY <1>2, EndCuts
<1>3. CASE Begin
  BY <1>3, BeginReads
<1>4. CASE RecvSome
  BY <1>4, RecvSomeReads
<1>5. CASE RecvEnd
  BY <1>5, RecvEndReads
<1>6. CASE ReadHeader
  BY <1>6, ReadHeaderReads
<1>7. CASE ReadLength16 \/ ReadLength64
  BY <1>7, ReadLengthReads
<1>8. CASE ReadKey
  BY <1>8, ReadKeyReads
<1>9. CASE SkipPayload
  BY <1>9, SkipPayloadReads
<1>10. CASE PayloadEnds
  BY <1>10, PayloadEndsReads
<1>11. CASE UNCHANGED vars
  <2>1. UNCHANGED <<sent, ended, stream, pc, buf, opcode, mask, len, received>>
    BY <1>11 DEF vars, senderVars, recvVars
  <2>2. Types' /\ OpcodeKnown' /\ (AllAgree => AllAgree') /\ (CutShort => CutShort')
    <3>1. Types'
      BY <2>1 DEF Framing, Types, Inside
    <3>2. OpcodeKnown'
      BY <2>1 DEF Framing, OpcodeKnown
    <3>3. AllAgree => AllAgree'
      BY <2>1 DEF AllAgree, Agrees
    <3>4. ASSUME CutShort PROVE CutShort'
      BY <2>1, <3>3, <3>4 DEF CutShort, Agrees
    <3> QED
      BY <3>1, <3>2, <3>3, <3>4
  <2>3. ASSUME InSync PROVE InSync'
    <3>1. PICK start : Layout(start) /\ At(start)
      BY <2>3 DEF InSync
    <3>2. Current' = Current
      BY <2>1 DEF Current
    <3>3. Layout(start)'
      BY <2>1, <3>1, <3>2 DEF Layout
    <3>4. At(start)'
      <4>1. CASE pc = "idle" /\ start[Current] = 1
        BY <2>1, <3>2, <4>1 DEF At
      <4>2. CASE /\ Current <= Len(sent)
                 /\ Reading(sent[Current])
                 /\ start[Current] = 1 - Offset(sent[Current]) - Len(buf)
        <5>1. PICK g : g = sent[Current] /\ Reading(g)
          BY <4>2
        <5>2. Reading(g)' /\ Offset(g)' = Offset(g)
          BY <2>1, <5>1 DEF Reading, Offset, Want
        <5> QED
          BY <2>1, <3>2, <4>2, <5>1, <5>2 DEF At
      <4> QED
        BY <3>1, <4>1, <4>2 DEF At
    <3> QED
      BY <2>1, <2>2, <2>3, <3>3, <3>4 DEF InSync
  <2> QED
    BY <2>2, <2>3 DEF Framing
<1> QED
  BY <1>1, <1>2, <1>3, <1>4, <1>5, <1>6, <1>7, <1>8, <1>9, <1>10, <1>11 DEF Next, Receiver

(* recv can fail anywhere in a frame. *)
LEMMA RecvFailsBreaks ==
  ASSUME Framing, RecvFails
  PROVE  Broken'
<1>1. /\ pc \in Inside /\ pc' = "idle" /\ client' = "failed"
      /\ UNCHANGED <<sent, ended, stream, buf, opcode, mask, len, received>>
  BY DEF RecvFails, senderVars, Inside
<1>2. Types' /\ OpcodeKnown'
  BY <1>1 DEF Framing, Types, OpcodeKnown
<1>3. AllAgree \/ (ended /\ \A i \in 1..Len(received) : Agrees(i) \/ i = Len(received))
  BY DEF Framing, InSync, CutShort
<1>4. AllAgree' \/ (ended /\ \A i \in 1..Len(received) : Agrees(i) \/ i = Len(received))'
  BY <1>1, <1>3 DEF AllAgree, Agrees
<1> QED
  BY <1>1, <1>2, <1>4 DEF Broken

(* After that only the browser does something. *)
LEMMA BrokenStays ==
  ASSUME Broken, [Next]_vars
  PROVE  Broken'
<1>1. pc = "idle" /\ client = "failed" /\ Types /\ OpcodeKnown
  BY DEF Broken
<1>2. Want = 0 /\ Len(buf) \in Nat
  BY <1>1, WantFacts DEF Types
<1>3. Send \/ End \/ UNCHANGED vars
  BY <1>1, <1>2 DEF Next, Receiver, Begin, RecvSome, RecvEnd, ReadHeader, ReadLength16,
     ReadLength64, ReadKey, SkipPayload, PayloadEnds, RecvFails, Full
<1>4. CASE Send
  <2>1. PICK f \in Frame : sent' = Append(sent, f) /\ stream' = stream \o Encode(f)
    BY <1>4 DEF Send
  <2>2. ~ended /\ UNCHANGED <<ended, pc, buf, opcode, mask, len, received, client>>
    BY <1>4 DEF Send, recvVars
  <2>3. /\ sent' \in Seq(Frame) /\ Len(sent') = Len(sent) + 1 /\ Len(sent) \in Nat
        /\ \A i \in 1..Len(sent) : sent'[i] = sent[i]
    BY <1>1, <2>1 DEF Types
  <2>4. stream' \in Seq(Item)
    <3>1. Encode(f) \in Seq(Item)
      BY EncodeFacts
    <3> QED
      BY <1>1, <2>1, <3>1 DEF Types
  <2>5. Types'
    BY <1>1, <2>2, <2>3, <2>4 DEF Types
  <2>6. OpcodeKnown'
    BY <1>1, <2>2, <2>3 DEF OpcodeKnown
  <2>7. AllAgree'
    <3>1. AllAgree
      BY <2>2 DEF Broken
    <3> QED
      BY <2>2, <2>3, <3>1 DEF AllAgree, Agrees
  <2> QED
    BY <1>1, <2>2, <2>5, <2>6, <2>7 DEF Broken
<1>5. CASE End
  <2>1. PICK k \in 0..Len(stream) : stream' = SubSeq(stream, 1, k)
    BY <1>5 DEF End
  <2>2. ended' = TRUE /\ UNCHANGED <<sent, pc, buf, opcode, mask, len, received, client>>
    BY <1>5 DEF End, recvVars
  <2>3. stream' \in Seq(Item)
    BY <1>1, <2>1 DEF Types
  <2>4. Types' /\ OpcodeKnown'
    BY <1>1, <2>2, <2>3 DEF Types, OpcodeKnown
  <2>5. AllAgree' \/ (ended /\ \A i \in 1..Len(received) : Agrees(i) \/ i = Len(received))'
    BY <2>2 DEF Broken, AllAgree, Agrees
  <2> QED
    BY <1>1, <2>2, <2>4, <2>5 DEF Broken
<1>6. CASE UNCHANGED vars
  <2>1. UNCHANGED <<sent, ended, stream, pc, buf, opcode, mask, len, received, client>>
    BY <1>6 DEF vars, senderVars, recvVars
  <2>2. Types' /\ OpcodeKnown'
    BY <1>1, <2>1 DEF Types, OpcodeKnown, Inside
  <2>3. AllAgree' \/ (ended /\ \A i \in 1..Len(received) : Agrees(i) \/ i = Len(received))'
    BY <2>1 DEF Broken, AllAgree, Agrees
  <2> QED
    BY <1>1, <2>1, <2>2, <2>3 DEF Broken
<1> QED
  BY <1>3, <1>4, <1>5, <1>6

(* The handler frees a client for an opcode that ws_recv stored, which is  *)
(* that of a frame, or for one it left unset where the stream had ended.   *)
LEMMA FreedStep ==
  ASSUME Types, OpcodeKnown, FreedRightly, [Next]_vars
  PROVE  FreedRightly'
<1>1. (ended \/ CloseSent) => (ended \/ CloseSent)'
  <2>1. CASE Send
    <3>1. PICK f \in Frame : sent' = Append(sent, f)
      BY <2>1 DEF Send
    <3>2. Len(sent') = Len(sent) + 1 /\ Len(sent) \in Nat /\ \A i \in 1..Len(sent) : sent'[i] = sent[i]
      BY <3>1 DEF Types
    <3>3. ended' = ended
      BY <2>1 DEF Send
    <3> QED
      BY <3>2, <3>3 DEF CloseSent
  <2>2. CASE ~Send
    <3>1. sent' = sent /\ (ended' = ended \/ ended' = TRUE)
      BY <2>2 DEF Next, Receiver, End, Begin, RecvSome, RecvEnd, ReadHeader, ReadLength16,
         ReadLength64, ReadKey, SkipPayload, PayloadEnds, RecvFails, senderVars, vars
    <3> QED
      BY <3>1 DEF CloseSent
  <2> QED
    BY <2>1, <2>2
<1>2. opcode = WS_OP_CLOSE => CloseSent
  BY DEF OpcodeKnown, CloseSent, WS_OP_CLOSE, Unset
<1>3. ASSUME client' = "freed", client # "freed"
      PROVE  ended \/ CloseSent
  <2>1. RecvEnd \/ SkipPayload \/ PayloadEnds
    BY <1>3 DEF Next, Receiver, Send, End, Begin, RecvSome, ReadHeader, ReadLength16,
       ReadLength64, ReadKey, RecvFails, recvVars, vars
  <2>2. RecvEnd => ended
    BY DEF RecvEnd
  <2>3. PayloadEnds => ended
    BY DEF PayloadEnds
  <2>4. CASE SkipPayload
    <3>1. TakesOpcode(opcode)
      BY <1>3, <2>4 DEF SkipPayload, Return
    <3> QED
      BY <1>2, <1>3, <3>1 DEF TakesOpcode
  <2> QED
    BY <2>1, <2>2, <2>3, <2>4
<1> QED
  BY <1>1, <1>3 DEF FreedRightly

(* The invariant holds: up to its end the stream holds the frames in       *)
(* order, and ws_recv is where one begins or in the middle of it, until    *)
(* recv fails.                                                             *)
THEOREM FramingHolds == Spec => []Connection
<1>1. Init => Connection
  BY FramingInit DEF Connection, FreedRightly, Init
<1>2. Connection /\ [Next]_vars => Connection'
  <2> SUFFICES ASSUME Connection, [Next]_vars
               PROVE  Connection'
    OBVIOUS
  <2>1. Types /\ OpcodeKnown /\ FreedRightly
    BY DEF Connection, Framing, Broken
  <2>2. FreedRightly'
    BY <2>1, FreedStep
  <2>3. Framing' \/ Broken'
    BY FramingStep, RecvFailsBreaks, BrokenStays DEF Connection
  <2> QED
    BY <2>2, <2>3 DEF Connection
<1> QED
  BY <1>1, <1>2, PTL DEF Spec

(* Frames come out as they went in, for any opcodes, any lengths below     *)
(* 2^31, masked or not, and any number of frames, in whatever pieces recv  *)
(* hands them over; a stream that ends within a frame adds at most one,    *)
(* and no close frame that was not sent; and no client is freed whose      *)
(* browser neither sent a close frame nor ended the connection.            *)
THEOREM FramesAgreeHolds == Spec => []FramesAgree
<1>1. Connection => FramesAgree
  <2> SUFFICES ASSUME Connection
               PROVE  FramesAgree
    OBVIOUS
  <2>1. pc # "garbled"
    BY DEF Connection, Broken, Framing, Types, Inside
  <2>2. \A i \in 1..Len(received) : Agrees(i) \/ (ended /\ i = Len(received))
    BY DEF Connection, Broken, Framing, InSync, CutShort, AllAgree
  <2>3. opcode = WS_OP_CLOSE => CloseSent
    BY DEF Connection, Broken, Framing, OpcodeKnown, CloseSent, WS_OP_CLOSE, Unset
  <2>4. client = "freed" => ended \/ CloseSent
    BY DEF Connection, FreedRightly
  <2> QED
    BY <2>1, <2>2, <2>3, <2>4 DEF FramesAgree, Agrees
<1> QED
  BY <1>1, FramingHolds, PTL

=============================================================================
