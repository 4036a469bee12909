----------------------------- MODULE FileConcat -----------------------------
(***************************************************************************)
(* tools/file_concat.c: the loop that replaces {{{{path}}}} in a template  *)
(* by the file of that path.  The braces are one token each, "{{" and      *)
(* "}}"; the template is in a string buffer.                               *)
(***************************************************************************)
EXTENDS StrBuf

Open == "{{"
Close == "}}"

(* strstr from place i (of 1..Len(str)); 0 when there is none. *)
FirstToken(str, token, i) ==
  LET places == {k \in i..Len(str) : str[k] = token}
  IN  IF places = {} THEN 0 ELSE Min(places)

(* read_file: a buffer for the file and its NUL. *)
ReadFile(content) == [StrbufAlloc(Len(content) + 1) EXCEPT !.str = content]

ConcatStart(template) ==
  [buf |-> ReadFile(template), pos |-> 0, ended |-> "no", damaged |-> FALSE]

(* What one pass of the loop may do, with `files` the files there are.     *)
(* `pos` stays where the placeholder ended before it was replaced, and     *)
(* `damaged` tells whether a tail was copied wrong over itself.  Past      *)
(* the end of the text the search reads what is left of older text: it     *)
(* finds nothing, or a placeholder that strbuf_delete refuses.             *)
ConcatPass(c, files) ==
  LET start == FirstToken(c.buf.str, Open, c.pos + 1)
      end   == FirstToken(c.buf.str, Close, start + 1)
      path  == SubSeq(c.buf.str, start + 1, end - 1)
      cut   == StrbufDelete(c.buf, start - 1, end - start + 1)
      file  == files[path]
      Ends(how) == [c EXCEPT !.ended = how]
      right == Before(cut.str, start - 1) \o file \o After(cut.str, start - 1)
      NoRoom == IF Fits(cut, Len(cut.str) + Len(file)) THEN {}
                ELSE {[Ends("error") EXCEPT !.buf = cut]}
  IN
  IF c.pos > Len(c.buf.str) THEN {Ends("done"), Ends("error")}
  ELSE IF start = 0 THEN {Ends("done")}
  ELSE IF end = 0 THEN {Ends("done")}
  ELSE IF path \notin DOMAIN files THEN {Ends("error")}
  ELSE {Ends("error")}                              \* no memory for path or file
       \cup NoRoom
       \cup {[c EXCEPT !.buf = filled, !.pos = end - 1, !.damaged = @ \/ filled.str # right] :
               filled \in StrbufInsertn(cut, start - 1, file)}

=============================================================================
