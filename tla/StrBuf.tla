------------------------------- MODULE StrBuf -------------------------------
(***************************************************************************)
(* The string buffer of strbuf.c: growth, insertion and deletion, as       *)
(* operators on a buffer [str, max_count].  str is what is in              *)
(* sb->str[0 .. sb->length - 1].                                           *)
(***************************************************************************)
EXTENDS Naturals, Sequences, FiniteSetsExt

STRBUF_ALLOC_MIN_MARGIN == 32
STRBUF_SIZE_MULTIPLIER == 2

(* strbuf_alloc when malloc succeeds; no caller goes on with another one.   *)
StrbufAlloc(count) == [str |-> <<>>, max_count |-> count]

(* Mutant: no room is made for the terminating NUL. *)
FitsWithoutNul(sb, new_len) == new_len <= sb.max_count

Fits(sb, new_len) == new_len + 1 <= sb.max_count

(* strbuf_realloc doubles the size until the margin is there as well. *)
Grown(count, new_len) ==
  LET enough == new_len + 1 + STRBUF_ALLOC_MIN_MARGIN
      grown[c \in 1..STRBUF_SIZE_MULTIPLIER * enough] ==
        IF c >= enough THEN c ELSE grown[c * STRBUF_SIZE_MULTIPLIER]
  IN  grown[count]

WithRoom(sb, new_len) ==
  IF Fits(sb, new_len) THEN sb ELSE [sb EXCEPT !.max_count = Grown(@, new_len)]

Before(s, pos) == SubSeq(s, 1, pos)
After(s, pos) == SubSeq(s, pos + 1, Len(s))

(* The tail overlaps the place it is copied to. *)
Overlaps(tail, n) == n # 0 /\ n < Len(tail)

(* memcpy of a tail, n places up.  Where the areas overlap the copy is     *)
(* right, or repeats the first bytes, as the build copies from the back    *)
(* or from the front.                                                      *)
Moved(tail, n) ==
  {tail} \cup (IF Overlaps(tail, n)
               THEN {[i \in 1..Len(tail) |-> tail[1 + ((i - 1) % n)]]} ELSE {})

(* What strbuf_insertn may leave, unless realloc fails: then the buffer is *)
(* left as it is.  A position past the end means the end.                  *)
StrbufInsertn(sb, at, text) ==
  LET pos == Min({at, Len(sb.str)}) IN
  {[WithRoom(sb, Len(sb.str) + Len(text)) EXCEPT !.str = Before(@, pos) \o text \o tail] :
     tail \in Moved(After(sb.str, pos), Len(text))}

(* strbuf_append and strbuf_appendn: an insertion at the end moves nothing. *)
StrbufAppend(sb, text) ==
  [WithRoom(sb, Len(sb.str) + Len(text)) EXCEPT !.str = @ \o text]

(* Mutant: one character too many is moved over. *)
StrbufDeleteOffByOne(sb, start, count) ==
  IF start >= Len(sb.str) \/ start + count > Len(sb.str) THEN sb
  ELSE [sb EXCEPT !.str = Before(@, start) \o After(@, start + count + 1)]

(* ERANGE, and no change, for what is not in the buffer. *)
StrbufDelete(sb, start, count) ==
  IF start >= Len(sb.str) \/ start + count > Len(sb.str) THEN sb
  ELSE [sb EXCEPT !.str = Before(@, start) \o After(@, start + count)]

(* The text and its NUL are inside the allocation. *)
FitsInside(sb) == Len(sb.str) + 1 <= sb.max_count

=============================================================================
