------------------------------ MODULE EventJson ------------------------------
(***************************************************************************)
(* The text of an event: what send_event writes with json.c, read back the *)
(* way the page's JSON.parse does.                                         *)
(*                                                                         *)
(* A text is a sequence of tokens.  A character that JSON gives a meaning, *)
(* or that json_encode_string escapes, is a token of its own; a key and    *)
(* the digits of a number are one token each.                              *)
(***************************************************************************)
EXTENDS StrBuf, SequencesExt

(* Characters: a plain one, which also names an escape, three that are     *)
(* escaped, one control character that is not, and NUL.                    *)
Char == {"n", "\"", "\\", "\n", "^A", "^@"}

Text(max) == UNION {[1..n -> Char] : n \in 0..max}
NULL == <<"NULL">>           \* a null char pointer

(* struct mysql_event_general, as far as send_event looks at it, with      *)
(* texts of up to `max` and names of up to `maxName` characters: the       *)
(* command stands in for a query that is NULL, and is the error's message. *)
Event(max, maxName) ==
  [subclass : {"LOG"}, user : Text(maxName) \cup {NULL}, query : Text(max), command : {<<>>},
   database : {NULL}]
  \cup [subclass : {"LOG"}, user : {<<>>}, query : {NULL}, command : Text(max),
        database : Text(maxName) \cup {NULL}]
  \cup [subclass : {"ERROR", "RESULT"}, user : {<<>>}, query : {NULL}, command : Text(max),
        database : {NULL}]

-----------------------------------------------------------------------------
(* json.c                                                                   *)

(* Mutant: the backslash is copied as it is. *)
EscapeNoBackslash(c) ==
  CASE c = "\"" -> <<"\\", "\"">>
    [] c = "\n" -> <<"\\", "n">>
    [] c = "\t" -> <<"\\", "t">>
    [] OTHER    -> <<c>>

(* One character of a string; \b, \f and \r go the way of \n and \t. *)
Escape(c) ==
  CASE c = "\"" -> <<"\\", "\"">>
    [] c = "\\" -> <<"\\", "\\">>
    [] c = "\n" -> <<"\\", "n">>
    [] c = "\t" -> <<"\\", "t">>
    [] OTHER    -> <<c>>

(* An append the encoder makes: its text, and how many of the following    *)
(* ones are left out when it fails.                                        *)
Part(tokens) == [text |-> tokens, skips |-> 0]
Quote == <<Part(<<"\"">>)>>
Number == <<"1", "2">>        \* any number

(* Mutant: after a failed append the string is closed all the same. *)
SkipsToQuote(s, i) == Len(s) - i

(* When a character cannot be appended, json_encode_string returns without *)
(* those that follow and without the closing quote.                        *)
Skips(s, i) == Len(s) - i + 1

EncodeText(s) ==
  Quote \o [i \in 1..Len(s) |-> [text |-> Escape(s[i]), skips |-> Skips(s, i)]] \o Quote

(* The string is what strlen counts: it ends before the first NUL. *)
CString(s) == SubSeq(s, 1, Min({i \in 1..Len(s) : s[i] = "^@"} \cup {Len(s) + 1}) - 1)

JsonEncodeString(s) ==
  IF s = NULL THEN <<Part(<<"nu", "ll">>)>> ELSE EncodeText(CString(s))

(* json_encode of one member: every character of the format is an append,  *)
(* of which a key is taken for one and the spaces are left out.            *)
Member(key, value) == Quote \o <<Part(<<key>>)>> \o Quote \o <<Part(<<":">>)>> \o value
Comma == <<Part(<<",">>)>>

(* The appends of send_event, in the build for MariaDB; the times, counts  *)
(* of rows and codes are numbers like query_id.                            *)
Parts(e) ==
  <<Part(<<"{">>)>> \o
  (CASE e.subclass = "LOG" ->
          Member("type", JsonEncodeString(<<"query_start">>)) \o Comma
       \o Member("user", JsonEncodeString(e.user)) \o Comma
       \o Member("query", JsonEncodeString(IF e.query # NULL THEN e.query ELSE e.command))
       \o Comma \o Member("query_id", <<Part(Number)>>)
       \o Comma \o Member("database", JsonEncodeString(e.database))
     [] e.subclass = "ERROR" ->
          Member("type", JsonEncodeString(<<"query_error">>)) \o Comma
       \o Member("query_id", <<Part(Number)>>) \o Comma
       \o Member("error_message", JsonEncodeString(e.command))
     [] e.subclass = "RESULT" ->
          Member("type", JsonEncodeString(<<"query_result">>)) \o Comma
       \o Member("query_id", <<Part(Number)>>))
  \o <<Part(<<"}">>)>>

(* send_event's buffer, the appends still to be left out, the calls of     *)
(* realloc, the appends that failed, and whether a realloc succeeded after *)
(* one that did not.                                                       *)
EncodeStart(size) ==
  [json |-> StrbufAlloc(size), skips |-> 0, tries |-> 0, failures |-> 0, recovered |-> FALSE]

(* One append, if the calls of realloc in `failing`, counted from 0, fail: *)
(* json_encode ignores it.                                                 *)
Put(r, part, failing) ==
  LET fits == Fits(r.json, Len(r.json.str) + Len(part.text)) IN
  IF r.skips > 0 THEN [r EXCEPT !.skips = @ - 1]
  ELSE IF fits THEN [r EXCEPT !.json = StrbufAppend(@, part.text)]
  ELSE IF r.tries \in failing
  THEN [r EXCEPT !.skips = part.skips, !.tries = @ + 1, !.failures = @ + 1]
  ELSE [r EXCEPT !.json = StrbufAppend(@, part.text), !.tries = @ + 1,
                 !.recovered = r.failures > 0]

(* One after the other. *)
PutAll(r, parts, failing) ==
  LET put[i \in 0..Len(parts)] == IF i = 0 THEN r ELSE Put(put[i - 1], parts[i], failing)
  IN  put[Len(parts)]

Encode(event, failing, size) == PutAll(EncodeStart(size), Parts(event), failing)

-----------------------------------------------------------------------------
(* The reader: an automaton over tokens, for objects of strings, numbers   *)
(* and nulls.  members collects what it read, `text` the string at hand.   *)

Unescaped == [x \in {"\"", "\\", "n", "t"} |->
                CASE x = "n" -> "\n" [] x = "t" -> "\t" [] OTHER -> x]

(* JSON allows no control character inside a string. *)
Control == {"\n", "\t", "^A", "^@"}

Bad == [mode |-> "bad", key |-> "", text |-> <<>>, members |-> <<>>]

Store(r, value) ==
  [r EXCEPT !.mode = "after", !.text = <<>>,
            !.members = Append(@, [key |-> r.key, value |-> value])]

Read(r, c) ==
  CASE r.mode = "object" /\ c = "{"                   -> [r EXCEPT !.mode = "key"]
    [] r.mode = "key" /\ c = "\""                     -> [r EXCEPT !.mode = "keytext", !.key = ""]
    [] r.mode = "keytext" /\ c # "\""                 -> [r EXCEPT !.key = c]
    [] r.mode = "keytext" /\ c = "\""                 -> [r EXCEPT !.mode = "colon"]
    [] r.mode = "colon" /\ c = ":"                    -> [r EXCEPT !.mode = "value"]
    [] r.mode = "value" /\ c = "\""                   -> [r EXCEPT !.mode = "string"]
    [] r.mode = "value" /\ c \in {"nu", "1"}          -> [r EXCEPT !.mode = c]
    [] r.mode = "nu" /\ c = "ll"                      -> Store(r, NULL)
    [] r.mode = "1" /\ c = "2"                        -> Store(r, Number)
    [] r.mode = "string" /\ c = "\""                  -> Store(r, r.text)
    [] r.mode = "string" /\ c = "\\"                  -> [r EXCEPT !.mode = "escape"]
    [] r.mode = "string" /\ c \notin Control \cup {"\"", "\\"}
                                                      -> [r EXCEPT !.text = Append(@, c)]
    [] r.mode = "escape" /\ c \in DOMAIN Unescaped
         -> [r EXCEPT !.mode = "string", !.text = Append(@, Unescaped[c])]
    [] r.mode = "after" /\ c = ","                    -> [r EXCEPT !.mode = "key"]
    [] r.mode = "after" /\ c = "}"                    -> [r EXCEPT !.mode = "end"]
    [] OTHER                                          -> Bad

Parse(tokens) ==
  LET read[i \in 0..Len(tokens)] ==
        IF i = 0 THEN [mode |-> "object", key |-> "", text |-> <<>>, members |-> <<>>]
        ELSE Read(read[i - 1], tokens[i])
  IN  read[Len(tokens)]

=============================================================================
