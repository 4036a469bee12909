------------------------------ MODULE MCHttpRecv ------------------------------
(* HttpRecv for model checking: requests of up to MaxLines short lines. *)
EXTENDS HttpRecv, SequencesExt

CONSTANT MaxLines

Line == <<"x", "\r", "\n">>
Request(n) == FlattenSeq([i \in 1..n |-> Line]) \o <<"\r", "\n">>

MCRequests == {Request(n) : n \in 1..MaxLines}
(* The longest request does not fit, nor does the one before: its blank    *)
(* line is cut in two.                                                     *)
MCSize == Len(Request(MaxLines - 1)) - 2

=============================================================================
