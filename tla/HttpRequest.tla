---------------------------- MODULE HttpRequest ----------------------------
(***************************************************************************)
(* The request parser of http.c.                                           *)
(*                                                                         *)
(* A request line is the words between its spaces; a word is a sequence of *)
(* pieces, and a number is one piece.  A header line is a name, whether a  *)
(* colon follows, and the items of its value.                              *)
(***************************************************************************)
EXTENDS Integers, Sequences, SequencesExt

http_methods == {"GET", "HEAD", "POST", "PUT", "DELETE", "CONNECT", "OPTIONS", "TRACE"}

(* atoin: 0 for what is no number.  The pieces that are numbers: *)
Numeral == {"1", "2", "8", "13", "257"}
Atoin(piece) ==
  CASE piece = "1" -> 1 [] piece = "2" -> 2 [] piece = "8" -> 8
    [] piece = "13" -> 13 [] piece = "257" -> 257 [] OTHER -> 0

(* The low bytes of the two numbers: 257 counts as 1. *)
Version(major, minor) == ((major % 256) * 256) + (minor % 256)

(* The first version that is refused; 1.x is served, whatever x. *)
FirstUnsupported == Version(1, 255) + 1

PieceAt(word, i) == IF i <= Len(word) THEN word[i] ELSE ""

(* What follows the second run of spaces: HTTP/ and at least a major       *)
(* number; what comes behind the numbers is not looked at.                 *)
IsVersion(word) == PieceAt(word, 1) = "HTTP/" /\ PieceAt(word, 2) \in Numeral

VersionOf(word) ==
  Version(Atoin(PieceAt(word, 2)),
          IF PieceAt(word, 3) = "." THEN Atoin(PieceAt(word, 4)) ELSE 0)

(* http_parse_request_line does not return NULL.  The method need only     *)
(* contain the name of one.                                                *)
ParsesLine(line) ==
  /\ ~line.leading
  /\ Len(line.words) >= 3
  /\ ToSet(line.words[1]) \cap http_methods # {}
  /\ IsVersion(line.words[3])

(* A value that is nothing but spaces: its length is not 0 but negative.   *)
Blank == <<" ">>

(* http_parse_headers does not return NULL: every line has a name, a colon *)
(* and a value.  A last line without CRLF is not looked at.                *)
ParsesHeaders(headers) ==
  \A i \in DOMAIN headers :
    headers[i].name # "" /\ headers[i].colon /\ headers[i].value # <<>>

=============================================================================
