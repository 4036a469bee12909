---------------------------- MODULE ConfigReader ----------------------------
(***************************************************************************)
(* read_config of config.c, one pass of its loop at a time.  A text is a   *)
(* sequence of characters; a tab stands behind the blank.                  *)
(***************************************************************************)
EXTENDS Naturals, Sequences, FiniteSetsExt

Space == {" ", "\r", "\n"}

(* The character 0xFF: as a signed char it equals EOF, which c is compared *)
(* with.                                                                   *)
EOF == "\\377"

(* The first of some places, or one past the end. *)
First(str, places) == Min(places \cup {Len(str) + 1})

NameAt(str, i) == First(str, {k \in i..Len(str) : str[k] \notin Space})
NameEnd(str, i) == First(str, {k \in i..Len(str) : str[k] \in Space \cup {"="}})

(* Mutant: a value that ends with the text loses its last character.       *)
LineEndInside(str, i) ==
  Min({k \in i..Len(str) : str[k] \in {"\r", "\n", EOF}} \cup {Len(str)})

LineEnd(str, i) == First(str, {k \in i..Len(str) : str[k] \in {"\r", "\n", EOF}})

(* Mutant: blanks are skipped across the end of the line. *)
SkipAcrossLines(str, i) == NameAt(str, i)

(* Blanks are skipped up to the end of the line. *)
SkipBlanks(str, i) == First(str, {k \in i..Len(str) : str[k] \notin Space \/ str[k] = "\n"})

Trimmed(value) ==
  SubSeq(value, 1, Max({k \in 1..Len(value) : value[k] \notin Space} \cup {0}))

(* One pass, from position i: where the next one starts, the item found,   *)
(* if any, and whether reading ended.  It ends at whatever comes last in   *)
(* the text, read or not, and at an EOF where a name, a '=' or a value is  *)
(* expected; within a value an EOF ends the line.  With assertions a name  *)
(* that no '=' follows aborts; without them the character there is taken   *)
(* for the '='.                                                            *)
ReadItem(str, i, asserts) ==
  LET name    == NameAt(str, i)
      nameEnd == NameEnd(str, name)
      equals  == IF str[nameEnd] = "=" THEN nameEnd ELSE SkipBlanks(str, nameEnd + 1)
      value   == SkipBlanks(str, equals + 1)
      end     == LineEnd(str, value)
      Ends(k) == k >= Len(str) \/ str[k] = EOF
      Pass(next, items, ended) == [next |-> next, items |-> items, ended |-> ended]
  IN
  IF Ends(name) \/ Ends(nameEnd) \/ Ends(equals) THEN Pass(i, <<>>, "end")
  ELSE IF str[equals] = "\n" THEN Pass(equals + 1, <<>>, "no")
  ELSE IF str[equals] # "=" /\ asserts THEN Pass(i, <<>>, "abort")
  ELSE IF Ends(value) THEN Pass(i, <<>>, "end")
  ELSE IF str[value] = "\n" THEN Pass(value + 1, <<>>, "no")
  ELSE Pass(end + 1, <<[name  |-> SubSeq(str, name, nameEnd - 1),
                        value |-> Trimmed(SubSeq(str, value, end - 1))]>>, "no")

=============================================================================
