----------------------------- MODULE Algorithms -----------------------------
(***************************************************************************)
(* The algorithms that keep no state of their own, run on all small        *)
(* inputs: the JSON of an event, the configuration reader, the blocks and  *)
(* the Base64 of the accept key, and the placeholders of file_concat.      *)
(***************************************************************************)
EXTENDS Integers, Sequences, SequencesExt

CONSTANTS
  MaxLength,    \* bound on the length of a query
  MaxName,      \* bound on the length of a user's or a database's name
  Sizes,        \* sizes of the JSON buffer; MAX_WS_MESSAGE_LEN in the code
  Shortages,    \* sets of calls of realloc that fail, counted from 0
  MaxText,      \* bound on the length of a configuration text
  MaxMessage,   \* bound on the octets of a message that is hashed
  MaxBytes,     \* bound on the bytes that are encoded in Base64
  MaxPieces,    \* bound on the pieces of a template
  MaxFile       \* bound on the length of a file it names

ASSUME SizesAssumption == Sizes \subseteq Nat \ {0}
ASSUME ShortagesAssumption == \A failing \in Shortages : failing \subseteq Nat
ASSUME BoundsAssumption ==
  {MaxLength, MaxName, MaxText, MaxMessage, MaxBytes, MaxPieces, MaxFile} \subseteq Nat
(* The bits of a message are counted in Length_Low: Length_High stays 0. *)
ASSUME MessageAssumption == MaxMessage < 2 ^ 29

Json == INSTANCE EventJson
Config == INSTANCE ConfigReader
Accept == INSTANCE AcceptKey
Concat == INSTANCE FileConcat

VARIABLES
  job,     \* what is computed: its kind and its input
  out      \* what came out so far

vars == <<job, out>>

UpTo(S, n) == UNION {[1..k -> S] : k \in 0..n}

-----------------------------------------------------------------------------
(* Events.                                                                  *)

StartEvent ==
  \E event \in Json!Event(MaxLength, MaxName), failing \in Shortages, size \in Sizes :
    /\ job = [kind |-> "json", event |-> event, failing |-> failing, size |-> size]
    /\ out = [ended |-> "no"]

EncodeEvent ==
  /\ job.kind = "json"
  /\ out.ended = "no"
  /\ LET encoded == Json!Encode(job.event, job.failing, job.size) IN
     out' = [json |-> encoded.json, failures |-> encoded.failures,
             recovered |-> encoded.recovered, ended |-> "done"]
  /\ UNCHANGED job

(* Configuration texts.                                                     *)

StartConfig ==
  \E text \in UpTo({"a", "=", " ", "\r", "\n", Config!EOF}, MaxText), asserts \in BOOLEAN :
    /\ job = [kind |-> "config", text |-> text, asserts |-> asserts]
    /\ out = [next |-> 1, items |-> <<>>, ended |-> "no"]

(* Each item needs memory for its name and value. *)
ReadConfig ==
  /\ job.kind = "config"
  /\ out.ended = "no"
  /\ LET pass == Config!ReadItem(job.text, out.next, job.asserts) IN
     \/ out' = [pass EXCEPT !.items = out.items \o @]
     \/ /\ pass.items # <<>>
        /\ out' = [out EXCEPT !.ended = "memory"]
  /\ UNCHANGED job

(* Messages: an octet is named by its place, below 0.  What was left on    *)
(* the stack is in the block before it is filled.                           *)

StartDigest ==
  \E n \in 0..MaxMessage, octet \in {0, 165} :
    /\ job = [kind |-> "digest", octets |-> [i \in 1..n |-> -i], left |-> [k \in 0..63 |-> octet]]
    /\ out = [blocks |-> <<>>, ended |-> "no"]

ComputeDigest ==
  /\ job.kind = "digest"
  /\ out.ended = "no"
  /\ out' = [blocks |-> Accept!Digest(job.octets, job.left), ended |-> "done"]
  /\ UNCHANGED job

StartBase64 ==
  \E bytes \in UpTo({0, 90, 167, 255}, MaxBytes) \cup {[i \in 1..20 |-> 12 * i]},
     size \in {0, 3, 39} :
    /\ job = [kind |-> "base64", bytes |-> bytes, size |-> size]
    /\ out = [buf |-> <<>>, ended |-> "no"]

EncodeBase64 ==
  /\ job.kind = "base64"
  /\ out.ended = "no"
  /\ LET encoded == Accept!Base64Encode(job.bytes, job.size) IN
     out' = [buf |-> encoded.buf, output_len |-> encoded.output_len, ended |-> "done"]
  /\ UNCHANGED job

(* Templates: two files, a plain character, and braces left alone.          *)

Piece ==
  {<<"{{", "p", "}}">>, <<"{{", "p", "q", "}}">>, <<"x">>, <<"{{">>, <<"}}">>}
Content == UpTo({"u", "v"}, MaxFile)

StartConcat ==
  \E pieces \in UpTo(Piece, MaxPieces), p \in Content, pq \in Content \cup {<<"missing">>} :
    /\ job = [kind |-> "concat", template |-> FlattenSeq(pieces),
              files |-> [path \in IF pq = <<"missing">> THEN {<<"p">>} ELSE {<<"p">>, <<"p", "q">>} |->
                           IF path = <<"p">> THEN p ELSE pq]]
    /\ out = Concat!ConcatStart(FlattenSeq(pieces))

ReplacePlaceholder ==
  /\ job.kind = "concat"
  /\ out.ended = "no"
  /\ out' \in Concat!ConcatPass(out, job.files)
  /\ UNCHANGED job

-----------------------------------------------------------------------------
Init == StartEvent \/ StartConfig \/ StartDigest \/ StartBase64 \/ StartConcat

Next == EncodeEvent \/ ReadConfig \/ ComputeDigest \/ EncodeBase64 \/ ReplacePlaceholder

Spec == Init /\ [][Next]_vars

-----------------------------------------------------------------------------
(* Properties                                                               *)

(* The query an event is about. *)
QueryOf(e) == IF e.query = Json!NULL THEN e.command ELSE e.query

(* What the page should read of an event: its texts up to the first NUL. *)
Meaning(e) ==
  CASE e.subclass = "LOG" ->
         <<[key |-> "type", value |-> <<"query_start">>],
           [key |-> "user", value |-> Json!CString(e.user)],
           [key |-> "query", value |-> Json!CString(QueryOf(e))],
           [key |-> "query_id", value |-> Json!Number],
           [key |-> "database", value |-> Json!CString(e.database)]>>
    [] e.subclass = "ERROR" ->
         <<[key |-> "type", value |-> <<"query_error">>],
           [key |-> "query_id", value |-> Json!Number],
           [key |-> "error_message", value |-> Json!CString(e.command)]>>
    [] e.subclass = "RESULT" ->
         <<[key |-> "type", value |-> <<"query_result">>],
           [key |-> "query_id", value |-> Json!Number]>>

(* The characters an event carries to the page. *)
Carried(e) ==
  CASE e.subclass = "LOG" ->
         ToSet(Json!CString(e.user)) \cup ToSet(Json!CString(QueryOf(e)))
           \cup ToSet(Json!CString(e.database))
    [] e.subclass = "ERROR" -> ToSet(Json!CString(e.command))
    [] e.subclass = "RESULT" -> {}

(* The page reads the event that was raised, wherever the buffer has to    *)
(* grow, but for what follows a NUL in a text, which is cut off and not    *)
(* missed; and it fails to parse the message exactly if a text holds,      *)
(* before a NUL, a control character that json.c has no escape for ("^A"   *)
(* stands for them).                                                       *)
PageReadsEvent ==
  (job.kind = "json" /\ out.ended = "done" /\ out.failures = 0) =>
    LET page == Json!Parse(out.json.str) IN
    IF "^A" \in Carried(job.event)
    THEN page.mode = "bad"
    ELSE page.mode = "end" /\ page.members = Meaning(job.event)

(* The errors of appends are ignored, and what is left of the message is   *)
(* sent.  The page cannot parse it, unless memory came back before its     *)
(* end.  If it came back at once, the message may lack nothing but a part  *)
(* of a key, and then every value is right; only if several appends failed *)
(* a text may be cut and the members behind it lost without a trace.       *)
LostIsNotMisread ==
  (job.kind = "json" /\ out.ended = "done" /\ out.failures > 0) =>
    LET page == Json!Parse(out.json.str)
        Values(members) == [i \in DOMAIN members |-> members[i].value]
    IN  page.mode = "end" =>
          /\ out.recovered
          /\ out.failures = 1 => Values(page.members) = Values(Meaning(job.event))

(* No append writes past the buffer, its NUL included. *)
BufferFits ==
  (job.kind = "json" /\ out.ended = "done") => Json!FitsInside(out.json)

(* A text line by line: a line is stripped of space at both ends, an item  *)
(* is a name, '=' and a value, and an item without a value is left out.    *)
LineAt(text, i) == Min({k \in i..Len(text) : text[k] = "\n"} \cup {Len(text)})
EqualsIn(text, i, j) == Min({k \in i..j : text[k] = "="} \cup {j})
Solid(text, i, j) == {k \in i..j : text[k] \notin Config!Space}
Stripped(text, i, j) ==
  LET solid == Solid(text, i, j)
  IN  IF solid = {} THEN <<>> ELSE SubSeq(text, Min(solid), Max(solid))
ItemsOf(text, i, j) ==
  LET equals == EqualsIn(text, i, j)
      value  == Stripped(text, equals + 1, j)
  IN  IF value = <<>> THEN <<>>
      ELSE <<[name |-> Stripped(text, i, equals - 1), value |-> value]>>

(* The items of a text from a place on. *)
Items(text) ==
  LET items[i \in 1..Len(text) + 1] ==
        IF i > Len(text) THEN <<>>
        ELSE ItemsOf(text, i, LineAt(text, i)) \o items[LineAt(text, i) + 1]
  IN  items

(* A line is blank or has a name of one word and a '=', and '\r' only at   *)
(* its ends.                                                               *)
PlainLine(text, i, j) ==
  LET equals == EqualsIn(text, i, j) IN
  Solid(text, i, j) # {} =>
    /\ text[equals] = "="
    /\ \A k, l \in Solid(text, i, equals - 1) : \A m \in k..l : text[m] \notin Config!Space
    /\ \A k, l \in Solid(text, i, j) : \A m \in k..l : text[m] # "\r"

Plain(text) ==
  /\ text # <<>> => text[Len(text)] = "\n"
  /\ \A i \in 1..Len(text) : text[i] # Config!EOF
  /\ \A i \in 1..Len(text) :
       (i = 1 \/ text[i - 1] = "\n") => PlainLine(text, i, LineAt(text, i))

(* read_config reports the items of such a text, in their order, whatever  *)
(* blanks, empty lines, empty values and ends of line it has; it reports   *)
(* the first ones if memory runs out, and no assertion fails.              *)
ConfigIsRead ==
  (job.kind = "config" /\ Plain(job.text)) =>
    /\ IsPrefix(out.items, Items(job.text)[1])
    /\ out.ended = "end" => out.items = Items(job.text)[1]
    /\ out.ended # "abort"

(* Of a text whose last line has no end, the item of that line alone can   *)
(* be lost, and only if its value is no longer than one character.         *)
LostAtEnd ==
  (job.kind = "config" /\ Plain(Append(job.text, "\n")) /\ out.ended = "end") =>
    LET items == Items(Append(job.text, "\n"))[1] IN
    \/ out.items = items
    \/ /\ items # <<>> /\ out.items = Front(items)
       /\ Len(Last(items).value) = 1

(* The blocks that are hashed are the message, one end mark, as few zeros  *)
(* as possible and the length in bits, wherever the message ends in a      *)
(* block: nothing is left of an older block, or of the stack.              *)
BlocksArePadded ==
  (job.kind = "digest" /\ out.ended = "done") =>
    LET n == Len(job.octets)
        all == [k \in 1..64 * Len(out.blocks) |->
                  out.blocks[(k - 1) \div 64 + 1][(k - 1) % 64]]
        last == Len(all)
    IN  /\ last - 64 < n + 9 /\ n + 9 <= last
        /\ SubSeq(all, 1, n) = job.octets
        /\ all[n + 1] = 128
        /\ \A k \in n + 2..last - 4 : all[k] = 0
        /\ ((all[last - 3] * 256 + all[last - 2]) * 256 + all[last - 1]) * 256 + all[last] = 8 * n

(* Base64 by its bits: every six bits a character, zeros behind the last   *)
(* byte.                                                                   *)
Bit(bytes, k) ==
  IF k \div 8 < Len(bytes) THEN (bytes[k \div 8 + 1] \div 2 ^ (7 - (k % 8))) % 2 ELSE 0
SixBits(bytes, i) ==
  LET B(j) == Bit(bytes, 6 * (i - 1) + j)
  IN  ((((B(0) * 2 + B(1)) * 2 + B(2)) * 2 + B(3)) * 2 + B(4)) * 2 + B(5)

(* base64_encode writes the Base64 of the bytes, with its padding, as far  *)
(* as the buffer goes, for lengths that are no multiple of 3 (it pads the  *)
(* others too); and the length it returns for a hash of 20 bytes, where    *)
(* ws.c puts the NUL, is inside the 40 characters of `accept`.             *)
Base64IsRight ==
  (job.kind = "base64" /\ out.ended = "done" /\ Len(job.bytes) % 3 # 0) =>
    LET chars == (Len(job.bytes) * 8 + 5) \div 6
        right == [i \in 1..((chars + 3) \div 4) * 4 |->
                    IF i <= chars THEN SixBits(job.bytes, i) ELSE 64]
    IN  /\ out.buf = SubSeq(right, 1, Min({job.size, Len(right)}))
        /\ Len(job.bytes) = 20 => out.output_len < 40

(* A placeholder of a template: from "{{" to the next "}}", with the path  *)
(* of a file between them.                                                 *)
CloseAfter(template, k) ==
  Min({e \in k + 1..Len(template) : template[e] = "}}"} \cup {Len(template) + 1})
PathAt(template, k) == SubSeq(template, k + 1, CloseAfter(template, k) - 1)
IsPlaceholder(template, files, k) ==
  /\ template[k] = "{{"
  /\ CloseAfter(template, k) <= Len(template)
  /\ PathAt(template, k) \in DOMAIN files

(* The template from a place on, with every placeholder replaced by its    *)
(* file.                                                                   *)
Expansion(template, files) ==
  LET expand[k \in 1..Len(template) + 1] ==
        IF k > Len(template) THEN <<>>
        ELSE IF IsPlaceholder(template, files, k)
        THEN files[PathAt(template, k)] \o expand[CloseAfter(template, k) + 1]
        ELSE <<template[k]>> \o expand[k + 1]
  IN  expand

(* Every file there is is at least as long as its placeholder up to the    *)
(* end mark.                                                               *)
LongFiles(files) == \A path \in DOMAIN files : Len(files[path]) >= Len(path) + 1

(* file_concat writes the template with every placeholder replaced, if it  *)
(* reports no error, no file is shorter than its placeholder (the search   *)
(* would go on behind the next one) and no tail was copied wrong over      *)
(* itself.                                                                 *)
PlaceholdersReplaced ==
  (job.kind = "concat" /\ out.ended = "done" /\ LongFiles(job.files) /\ ~out.damaged) =>
    out.buf.str = Expansion(job.template, job.files)[1]

=============================================================================
