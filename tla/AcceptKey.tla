----------------------------- MODULE AcceptKey ------------------------------
(***************************************************************************)
(* The two computations behind the Sec-WebSocket-Accept header: how sha1.c *)
(* cuts and pads a message into blocks, and the Base64 of base64.c.  What  *)
(* the 80 rounds compute is a function of the blocks in their order, so    *)
(* the sequence of blocks processed stands for Intermediate_Hash.          *)
(***************************************************************************)
EXTENDS Integers, Sequences, FiniteSetsExt

(* sha1.c                                                                   *)

BlockSize == 64
LengthAt == 56            \* where the length of the message starts in a block

(* SHA1Context: the blocks processed stand for Intermediate_Hash.  The     *)
(* block is not initialized: `left` is what was on the stack.              *)
SHA1Reset(left) == [Message_Block |-> left, index |-> 0, length |-> 0, blocks |-> <<>>]

Store(context, octet) == [context EXCEPT !.Message_Block[context.index] = octet, !.index = @ + 1]

SHA1ProcessMessageBlock(context) ==
  [context EXCEPT !.blocks = Append(@, context.Message_Block), !.index = 0]

(* The bits fit Length_Low: Length_High stays 0. *)
SHA1Input(context, octets) ==
  LET input[i \in 0..Len(octets)] ==
        IF i = 0 THEN context
        ELSE LET c == [Store(input[i - 1], octets[i]) EXCEPT !.length = @ + 8]
             IN  IF c.index = BlockSize THEN SHA1ProcessMessageBlock(c) ELSE c
  IN  input[Len(octets)]

Zeros(context, end) ==
  [context EXCEPT
     !.Message_Block = [k \in DOMAIN @ |-> IF k \in context.index..end - 1 THEN 0 ELSE @[k]],
     !.index = end]

(* Mutant: the end mark may take the first octet of the length. *)
FullUnlessFirst(context) == context.index > LengthAt

(* No room for the end mark and the length. *)
Full(context) == context.index > LengthAt - 1

(* Length_High is 0. *)
LengthOctet(length, k) == IF k < 60 THEN 0 ELSE (length \div 256 ^ (63 - k)) % 256

SHA1PadMessage(context) ==
  LET marked == Store(context, 128)
      ready == IF Full(context)
               THEN Zeros(SHA1ProcessMessageBlock(Zeros(marked, BlockSize)), LengthAt)
               ELSE Zeros(marked, LengthAt)
  IN  SHA1ProcessMessageBlock(
        [ready EXCEPT !.Message_Block = [k \in DOMAIN @ |->
           IF k >= LengthAt THEN LengthOctet(context.length, k) ELSE @[k]]])

(* SHA1Reset, SHA1Input and SHA1Result, called once each. *)
Digest(octets, left) == SHA1PadMessage(SHA1Input(SHA1Reset(left), octets)).blocks

-----------------------------------------------------------------------------
(* base64.c.  A character is its index in the table.                        *)

BYTE_BITS == 8
CHAR_BITS == 6
base64_padding_char == 64

(* Mutant: bits of the character before are not masked out. *)
HighBitsUnmasked(byte, bit) == IF bit < 2 THEN 0 ELSE (byte * 2 ^ (bit - 2)) % 256

(* The bits of a byte from `bit` on, as the high bits of a character.  For *)
(* bit = 0 the shift is by (size_t)-2 places, which no compiler targets    *)
(* turns into bits below 8; the other operand holds the whole character.   *)
HighBits(byte, bit) ==
  IF bit < 2 THEN 0 ELSE ((byte % 2 ^ (BYTE_BITS - bit)) * 2 ^ (bit - 2)) % 256

LowBits(byte, bit) == byte \div 2 ^ (BYTE_BITS - bit)

Index(bytes, i) ==
  LET next == (i + 1) * CHAR_BITS
      b1 == bytes[(i * CHAR_BITS) \div BYTE_BITS + 1]
      b2 == IF next \div BYTE_BITS < Len(bytes) THEN bytes[next \div BYTE_BITS + 1] ELSE 0
  IN  HighBits(b1, (i * CHAR_BITS) % BYTE_BITS) + LowBits(b2, next % BYTE_BITS)

(* What is written to a buffer of buf_size characters, and the length that *)
(* is returned.                                                            *)
Base64Encode(bytes, buf_size) ==
  LET bits == Len(bytes) * BYTE_BITS
      num_chars == bits \div CHAR_BITS + (IF bits % CHAR_BITS # 0 THEN 1 ELSE 0)
      written == Min({num_chars, buf_size})
      output_len == ((written + 4) \div 4) * 4
  IN  [buf |-> [i \in 1..Min({output_len, buf_size}) |->
                  IF i <= written THEN Index(bytes, i - 1) ELSE base64_padding_char],
       output_len |-> output_len]

=============================================================================
