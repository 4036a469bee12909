---------------------------- MODULE ServerProofs ----------------------------
(***************************************************************************)
(* TLAPS proofs about the plugin's servers.  Of Handlers: what the page's  *)
(* server answers to a request, and which handshakes the WebSocket server  *)
(* accepts, for requests with any words and any number of header lines.    *)
(* Of HttpRecv: what the search for the blank line misses and what it      *)
(* finds too early, for any requests cut in any way.  Of PluginLifecycle:  *)
(* whatever fails while the plugin is loaded, and whatever its threads do  *)
(* meanwhile, a mutex exists as long as anything can lock it, and an       *)
(* unload that ends leaves nothing.                                        *)
(***************************************************************************)
EXTENDS Handlers, HttpRecv, PluginLifecycle, TLAPS, WellFoundedInduction, SequenceTheorems,
        FiniteSetTheorems

-----------------------------------------------------------------------------
(* Induction                                                                *)

(* A set of naturals that is not empty has a least element, and Min is it. *)
LEMMA MinIsLeast ==
  ASSUME NEW S \in SUBSET Nat, S # {}
  PROVE  Min(S) \in S /\ \A x \in S : Min(S) <= x
<1> DEFINE R == OpToRel(<, Nat)
<1>1. \E x \in S : \A y \in S : ~(<<y, x>> \in R)
  <2> HIDE DEF R
  <2>1. IsWellFoundedOn(R, Nat)
    BY NatLessThanWellFounded DEF R
  <2> QED
    BY <2>1, WFMin
<1>2. \A x, y \in Nat : y < x => <<y, x>> \in R
  BY DEF OpToRel
<1>3. \E x \in S : \A y \in S : x <= y
  <2> HIDE DEF R
  <2>1. PICK x \in S : \A y \in S : ~(<<y, x>> \in R)
    BY <1>1
  <2>2. ASSUME NEW y \in S
        PROVE  x <= y
    <3>1. x \in Nat /\ y \in Nat /\ ~(y < x)
      BY <1>2, <2>1
    <3> QED
      BY <3>1
  <2> QED
    BY <2>2
<1> QED
  BY <1>3 DEF Min

(* Induction up to n: G is the set of the numbers a fact holds of. *)
LEMMA UpwardInduction ==
  ASSUME NEW n \in Nat, NEW G, 0 \in G,
         \A i \in 1..n : i - 1 \in G => i \in G
  PROVE  0..n \subseteq G
<1> DEFINE T == {i \in 0..n : i \notin G}
<1>1. SUFFICES ASSUME T # {}
               PROVE  FALSE
  OBVIOUS
<1>2. T \in SUBSET Nat
  OBVIOUS
<1>3. PICK m \in T : \A x \in T : m <= x
  BY <1>1, <1>2, MinIsLeast
<1>4. m \in 1..n /\ m - 1 \in 0..n /\ m - 1 \notin T
  BY <1>3
<1> QED
  BY <1>4

(* What a loop over 1..n computes, as a recursive function: it exists. *)
IsStep(S, n, step) == step \in [1..n -> [S -> S]]
Iterates(S, n, c, step, f) ==
  f \in [0..n -> S] /\ f[0] = c /\ \A i \in 1..n : f[i] = step[i][f[i - 1]]
LEMMA RecursionExists ==
  ASSUME NEW S, NEW n \in Nat, NEW c \in S, NEW step, IsStep(S, n, step)
  PROVE  \E f : Iterates(S, n, c, step, f)
<1> USE DEF IsStep
<1> DEFINE Solves(f, k) == f[0] = c /\ \A i \in 1..k : f[i] = step[i][f[i - 1]]
           G == {k \in 0..n : \E f \in [0..n -> S] : Solves(f, k)}
<1>1. 0 \in G
  <2>1. [i \in 0..n |-> c] \in [0..n -> S] /\ Solves([i \in 0..n |-> c], 0)
    OBVIOUS
  <2>2. \E f \in [0..n -> S] : Solves(f, 0)
    BY <2>1
  <2> QED
    BY <2>2
<1>2. ASSUME NEW k \in 1..n, k - 1 \in G
      PROVE  k \in G
  <2>1. PICK f \in [0..n -> S] : Solves(f, k - 1)
    BY <1>2
  <2> DEFINE h == [f EXCEPT ![k] = step[k][f[k - 1]]]
  <2>2. h \in [0..n -> S] /\ h[k] = step[k][f[k - 1]] /\ \A i \in 0..n : i # k => h[i] = f[i]
    OBVIOUS
  <2> HIDE DEF h
  <2>3. h[0] = c
    BY <2>1, <2>2
  <2>4. ASSUME NEW i \in 1..k
        PROVE  h[i] = step[i][h[i - 1]]
    <3>1. i \in 0..n /\ i - 1 \in 0..n /\ i - 1 # k
      OBVIOUS
    <3>2. h[i - 1] = f[i - 1]
      BY <2>2, <3>1
    <3>3. CASE i = k
      BY <2>2, <3>2, <3>3
    <3>4. CASE i # k
      <4>1. i \in 1..k - 1
        BY <3>4
      <4> QED
        BY <2>1, <2>2, <3>1, <3>2, <3>4, <4>1
    <3> QED
      BY <3>3, <3>4
  <2> QED
    BY <2>2, <2>3, <2>4
<1>3. n \in G
  <2> HIDE DEF G
  <2>1. 0..n \subseteq G
    BY <1>1, <1>2, UpwardInduction
  <2> QED
    BY <2>1
<1> QED
  BY <1>3 DEF Iterates

-----------------------------------------------------------------------------
(* Versions and resources                                                   *)

LEMMA AtoinIsNat == \A piece : Atoin(piece) \in Nat
BY DEF Atoin

(* The major number decides, unless it wraps. *)
LEMMA MajorDecides ==
  ASSUME NEW word, PieceAt(word, 2) \in Numeral \ {"257"}
  PROVE  /\ VersionOf(word) \in Nat /\ FirstUnsupported \in Nat
         /\ VersionOf(word) >= FirstUnsupported <=> PieceAt(word, 2) # "1"
<1> DEFINE major == Atoin(PieceAt(word, 2))
           minor == IF PieceAt(word, 3) = "." THEN Atoin(PieceAt(word, 4)) ELSE 0
<1>1. major \in {1, 2, 8, 13} /\ (major = 1 <=> PieceAt(word, 2) = "1")
  BY DEF Atoin, Numeral
<1>2. minor \in Nat
  BY AtoinIsNat
<1>3. FirstUnsupported = 512
  BY DEF FirstUnsupported, Version
<1>4. VersionOf(word) = ((major % 256) * 256) + (minor % 256)
  BY DEF VersionOf, Version
<1> HIDE DEF major, minor
<1>5. minor % 256 \in 0..255 /\ major % 256 = major
  BY <1>1, <1>2
<1> QED
  BY <1>1, <1>3, <1>4, <1>5

(* The texts that the paths of the page are made of. *)
PathPiece == {"/", "favicon", ".ico", "index", ".css", ".js"}

LEMMA ResourcesTyped ==
  /\ DOMAIN http_resources = 1..4
  /\ \A i \in 1..4 : http_resources[i] \in Seq(PathPiece)
  /\ Len(http_resources) = 4
  /\ http_resources[1] = <<"/">>
<1>1. \A x \in PathPiece : <<x>> \in Seq(PathPiece)
  OBVIOUS
<1>2. \A x, y, z \in PathPiece : <<x, y, z>> \in Seq(PathPiece)
  OBVIOUS
<1>3. http_resources[1] \in Seq(PathPiece)
  BY <1>1 DEF PathPiece, http_resources
<1>4. http_resources[2] \in Seq(PathPiece)
  BY <1>2 DEF PathPiece, http_resources
<1>5. http_resources[3] \in Seq(PathPiece)
  BY <1>2 DEF PathPiece, http_resources
<1>6. http_resources[4] \in Seq(PathPiece)
  BY <1>2 DEF PathPiece, http_resources
<1>7. \A i \in 1..4 : i = 1 \/ i = 2 \/ i = 3 \/ i = 4
  OBVIOUS
<1>8. DOMAIN http_resources = 1..4 /\ Len(http_resources) = 4 /\ http_resources[1] = <<"/">>
  BY DEF http_resources
<1> QED
  BY <1>3, <1>4, <1>5, <1>6, <1>7, <1>8

(* A target that is not the beginning of a path finds its resource, if it  *)
(* is one; and "/" finds the first, which is its own.                      *)
LEMMA ResourceFound ==
  ASSUME NEW target, Abbreviates(target) => target = <<"/">>
  PROVE  IF target \in ToSet(http_resources)
         THEN Resource(target) # 0 /\ http_resources[Resource(target)] = target
         ELSE Resource(target) = 0
<1> DEFINE I == {i \in 1..Len(http_resources) : Matches(target, http_resources[i])}
<1>1. Resource(target) = IF I # {} THEN Min(I) ELSE 0
  BY DEF Resource, SelectInSeq
<1>2. ToSet(http_resources) = {http_resources[i] : i \in 1..4}
  BY ResourcesTyped DEF ToSet
<1>3. \A i \in 1..4 : target = http_resources[i] => i \in I
  <2> SUFFICES ASSUME NEW i \in 1..4, target = http_resources[i]
               PROVE  i \in I
    OBVIOUS
  <2>1. Len(target) <= Len(target)
    BY ResourcesTyped
  <2> QED
    BY <2>1, ResourcesTyped DEF Matches, IsPrefix
<1>4. I \in SUBSET Nat
  BY ResourcesTyped
<1>5. CASE target = <<"/">>
  <2>1. 1 \in I /\ 1 \in 1..4
    BY <1>3, <1>5, ResourcesTyped
  <2>2. Min(I) \in I /\ Min(I) <= 1
    BY <1>4, <2>1, MinIsLeast
  <2>3. Min(I) = 1
    BY <1>4, <2>2, ResourcesTyped
  <2> HIDE DEF I
  <2>4. Resource(target) = 1
    BY <1>1, <2>1, <2>3
  <2>5. target = http_resources[1]
    BY <1>5, ResourcesTyped
  <2>6. target \in ToSet(http_resources)
    BY <1>2, <2>1, <2>5
  <2> QED
    BY <2>4, <2>5, <2>6
<1>6. CASE ~Abbreviates(target)
  <2>1. \A i \in I : i \in 1..4 /\ target = http_resources[i]
    BY <1>2, <1>6, ResourcesTyped DEF Matches, Abbreviates, IsStrictPrefix
  <2> HIDE DEF I
  <2>2. CASE I = {}
    BY <1>1, <1>2, <1>3, <2>2
  <2>3. CASE I # {}
    <3>1. Min(I) \in I
      BY <1>4, <2>3, MinIsLeast
    <3> QED
      BY <1>1, <1>2, <2>1, <2>3, <3>1
  <2> QED
    BY <2>2, <2>3
<1> QED
  BY <1>5, <1>6

-----------------------------------------------------------------------------
(* The page's server                                                        *)

(* What is sent for a request line. *)
AnswerTo(line) ==
  IF ~ParsesLine(line) THEN <<>>
  ELSE IF VersionOf(line.words[3]) >= FirstUnsupported THEN <<BadRequest>>
  ELSE Answer(line.words[1], line.words[2])

LEMMA AnswerIsExpected ==
  ASSUME NEW line, WellFormed(line), line.words \in Seq(Seq(Piece)),
         Abbreviates(line.words[2]) => line.words[2] = <<"/">>
  PROVE  AnswerTo(line) = Expected(line)
<1> DEFINE method == line.words[1]
           target == line.words[2]
           version == line.words[3]
<1>1. PieceAt(version, 1) = "HTTP/" /\ PieceAt(version, 2) \in {"1", "2"}
  BY DEF WellFormed
<1>2. version[2] = PieceAt(version, 2)
  BY <1>1 DEF PieceAt
<1>3. ParsesLine(line)
  <2>1. method[1] \in ToSet(method)
    BY DEF WellFormed, ToSet
  <2> QED
    BY <1>1, <2>1 DEF WellFormed, ParsesLine, IsVersion, Numeral
<1>4. VersionOf(version) >= FirstUnsupported <=> version[2] # "1"
  BY <1>1, <1>2, MajorDecides DEF Numeral
<1>5. AnswerTo(line) = IF version[2] # "1" THEN <<BadRequest>> ELSE Answer(method, target)
  BY <1>3, <1>4 DEF AnswerTo
<1>6. Expected(line) =
        IF version[2] # "1" \/ target \notin ToSet(http_resources) THEN <<BadRequest>>
        ELSE IF method = <<"GET">> THEN <<OK, target>>
        ELSE IF method = <<"HEAD">> THEN <<OK>> ELSE <<BadRequest>>
  <2>1. <<"GET">> # <<"HEAD">>
    OBVIOUS
  <2> QED
    BY <2>1 DEF Expected
<1>7. Answer(method, target) =
        IF target \notin ToSet(http_resources) THEN <<BadRequest>>
        ELSE IF method = <<"GET">> THEN <<OK, target>>
        ELSE IF method = <<"HEAD">> THEN <<OK>> ELSE <<BadRequest>>
  BY ResourceFound DEF Answer
<1> HIDE DEF method, target, version
<1> QED
  BY <1>5, <1>6, <1>7

(* What goes out, and what is still to go, are the answer. *)
Message == {BadRequest, OK} \cup {http_resources[i] : i \in 1..4}

LEMMA AnswerTyped == \A line : AnswerTo(line) \in Seq(Message)
<1> TAKE line
<1>1. BadRequest \in Message /\ OK \in Message
  BY DEF Message
<1>2. \A target : Resource(target) = 0 \/ http_resources[Resource(target)] \in Message
  <2> TAKE target
  <2> DEFINE I == {i \in 1..Len(http_resources) : Matches(target, http_resources[i])}
  <2>1. Resource(target) = IF I # {} THEN Min(I) ELSE 0
    BY DEF Resource, SelectInSeq
  <2>2. I \in SUBSET (1..4) /\ I \in SUBSET Nat
    BY ResourcesTyped
  <2>3. I # {} => Min(I) \in I
    BY <2>2, MinIsLeast
  <2> HIDE DEF I
  <2> QED
    BY <2>1, <2>2, <2>3 DEF Message
<1> HIDE DEF Message
<1>3. \A x, y \in Message : <<x>> \in Seq(Message) /\ <<x, y>> \in Seq(Message)
  OBVIOUS
<1>4. \A method, target : Answer(method, target) \in Seq(Message)
  BY <1>1, <1>2, <1>3 DEF Answer
<1>5. <<>> \in Seq(Message) /\ <<BadRequest>> \in Seq(Message)
  BY <1>1, <1>3
<1> QED
  BY <1>4, <1>5 DEF AnswerTo

(* Sending moves a message from what is to go to what went out. *)
LEMMA SendKeeps ==
  ASSUME NEW S, NEW s \in Seq(S), NEW t \in Seq(S), t # <<>>
  PROVE  /\ Append(s, Head(t)) \in Seq(S) /\ Tail(t) \in Seq(S)
         /\ Append(s, Head(t)) \o Tail(t) = s \o t
OBVIOUS

(* Requests are typed. *)
IsLine(line) == line.words \in Seq(Seq(Piece))

IsHeader(h) ==
  /\ h.value \in Seq(Piece)
  /\ h.name # "Connection" => Len(h.value) <= 1

IsHeaders(headers) ==
  /\ Len(headers) \in Nat /\ DOMAIN headers = 1..Len(headers)
  /\ \A i \in 1..Len(headers) : IsHeader(headers[i])

RequestTyped == IsLine(request.line) /\ IsHeaders(request.headers)

LEMMA HeadersTyped ==
  /\ \A h \in Header : IsHeader(h)
  /\ \A h \in Handshake : IsHeader(h)
  /\ IsFiniteSet(Handshake)
<1>1. \A h \in Header : IsHeader(h)
  BY HeaderAssumption DEF IsHeader
<1>2. \A p \in Piece : <<p>> \in Seq(Piece) /\ Len(<<p>>) = 1
  OBVIOUS
<1>3. \A name : \A p \in Piece : IsHeader(Field(name, <<p>>))
  BY <1>2 DEF IsHeader, Field
<1>4. \A h \in Handshake : IsHeader(h)
  BY <1>3, PieceAssumption DEF Handshake
<1>5. \A a, b, c, d : IsFiniteSet({a, b, c, d})
  <2> TAKE a, b, c, d
  <2>1. IsFiniteSet({a})
    BY FS_Singleton
  <2>2. IsFiniteSet({a} \cup {b})
    BY <2>1, FS_AddElement
  <2>3. IsFiniteSet(({a} \cup {b}) \cup {c})
    BY <2>2, FS_AddElement
  <2>4. IsFiniteSet((({a} \cup {b}) \cup {c}) \cup {d})
    BY <2>3, FS_AddElement
  <2>5. {a, b, c, d} = ((({a} \cup {b}) \cup {c}) \cup {d})
    OBVIOUS
  <2> QED
    BY <2>4, <2>5
<1>6. IsFiniteSet(Handshake)
  BY <1>5 DEF Handshake
<1> QED
  BY <1>1, <1>4, <1>6

LEMMA SequencesTyped ==
  ASSUME NEW s \in Seq(Header \cup Handshake)
  PROVE  IsHeaders(s)
BY HeadersTyped DEF IsHeaders

LEMMA ChangesTyped ==
  ASSUME NEW S, NEW s \in Seq(S), NEW e \in S
  PROVE  /\ \A i \in 1..Len(s) + 1 : InsertAt(s, i, e) \in Seq(S)
         /\ \A i \in 1..Len(s) : ReplaceAt(s, i, e) \in Seq(S)
<1>1. ASSUME NEW i \in 1..Len(s) + 1
      PROVE  InsertAt(s, i, e) \in Seq(S)
  <2>1. SubSeq(s, 1, i - 1) \in Seq(S) /\ SubSeq(s, i, Len(s)) \in Seq(S) /\ <<e>> \in Seq(S)
    OBVIOUS
  <2> QED
    BY <2>1 DEF InsertAt
<1>2. ASSUME NEW i \in 1..Len(s)
      PROVE  ReplaceAt(s, i, e) \in Seq(S)
  BY DEF ReplaceAt
<1> QED
  BY <1>1, <1>2

LEMMA InitTyped == Init => RequestTyped
<1> SUFFICES ASSUME Init
             PROVE  RequestTyped
  OBVIOUS
<1> DEFINE S == Header \cup Handshake
<1>1. IsLine(request.line)
  BY LineAssumption DEF Init, IsLine
<1>2. <<>> \in Seq(S)
  OBVIOUS
<1>3. SeqOf(Header, MaxHeaders) \subseteq Seq(S)
  <2> SUFFICES ASSUME NEW m \in 0..MaxHeaders, NEW s \in [1..m -> Header]
               PROVE  s \in Seq(S)
    BY DEF SeqOf
  <2>1. m \in Nat
    BY BoundAssumption
  <2> QED
    BY <2>1
<1>4. SetToSeqs(Handshake) \subseteq Seq(S)
  <2>1. Cardinality(Handshake) \in Nat
    BY HeadersTyped, FS_CardinalityType
  <2> QED
    BY <2>1 DEF SetToSeqs
<1>5. AlmostHandshake \subseteq Seq(S)
  <2> SUFFICES ASSUME NEW s \in SetToSeqs(Handshake), NEW h \in Header
               PROVE  /\ \A i \in 1..Len(s) + 1 : InsertAt(s, i, h) \in Seq(S)
                      /\ \A i \in 1..Len(s) : ReplaceAt(s, i, h) \in Seq(S)
    BY DEF AlmostHandshake
  <2>1. s \in Seq(S) /\ h \in S
    BY <1>4
  <2> QED
    BY <2>1, ChangesTyped
<1>6. request.headers \in Seq(S)
  <2> HIDE DEF S
  <2> QED
    BY <1>2, <1>3, <1>5 DEF Init
<1> QED
  BY <1>1, <1>6, SequencesTyped DEF RequestTyped

(* Before the request is handled nothing is sent; then the answer is.      *)
Answered ==
  server = "http" =>
    /\ pc # "copy_key"
    /\ pc \in {"receive", "handle"} => sent = <<>> /\ todo = <<>>
    /\ pc \in {"send", "returned"} =>
         /\ sent \in Seq(Message) /\ todo \in Seq(Message)
         /\ sent \o todo = AnswerTo(request.line)

LEMMA AnsweredStep == Answered /\ [Next]_vars => Answered'
<1> SUFFICES ASSUME Answered, [Next]_vars, server' = "http"
             PROVE  Answered'
  BY DEF Answered
<1>1. server = "http" /\ request' = request
  BY DEF Next, vars, ReceiveFails, Receive, ProcessHttpRequest, ParseConnectRequest, CopyKey,
         CopyKeyFails, CopyDies, Send, SendFails, Sent
<1>2. CASE ReceiveFails
  BY <1>2 DEF Answered, ReceiveFails
<1>3. CASE Receive
  BY <1>3 DEF Answered, Receive
<1>4. CASE ProcessHttpRequest
  <2>1. sent' = <<>> /\ todo' = AnswerTo(request.line) /\ pc' = "send"
    BY <1>1, <1>4 DEF ProcessHttpRequest, Answered, AnswerTo
  <2>2. AnswerTo(request.line) \in Seq(Message)
    BY AnswerTyped
  <2> HIDE DEF Message
  <2>3. <<>> \in Seq(Message) /\ \A s \in Seq(Message) : <<>> \o s = s
    OBVIOUS
  <2> QED
    BY <1>1, <2>1, <2>2, <2>3 DEF Answered
<1>5. CASE Send
  <2>1. sent \in Seq(Message) /\ todo \in Seq(Message) /\ sent \o todo = AnswerTo(request.line)
    BY <1>1, <1>5 DEF Answered, Send
  <2>2. pc' = "send" /\ sent' = Append(sent, Head(todo)) /\ todo' = Tail(todo) /\ todo # <<>>
    BY <1>5 DEF Send
  <2> HIDE DEF Message
  <2> QED
    BY SMTT(20), <1>1, <2>1, <2>2, SendKeeps DEF Answered
<1>6. CASE SendFails
  BY <1>1, <1>6 DEF Answered, SendFails
<1>7. CASE Sent
  BY <1>1, <1>7 DEF Answered, Sent
<1>8. CASE ParseConnectRequest \/ CopyKey \/ CopyKeyFails \/ CopyDies
  BY <1>1, <1>8 DEF Answered, ParseConnectRequest, CopyKey, CopyKeyFails, CopyDies
<1>9. CASE UNCHANGED vars
  BY <1>1, <1>9 DEF Answered, vars
<1> QED
  BY <1>2, <1>3, <1>4, <1>5, <1>6, <1>7, <1>8, <1>9 DEF Next

LEMMA AnsweredInit == Init => Answered
BY DEF Init, Answered

LEMMA TypedStep == RequestTyped /\ [Next]_vars => RequestTyped'
BY DEF RequestTyped, Next, vars, ReceiveFails, Receive, ProcessHttpRequest, ParseConnectRequest,
       CopyKey, CopyKeyFails, CopyDies, Send, SendFails, Sent

LEMMA AnsweredGivesPage == RequestTyped /\ Answered => ServesPage
BY AnswerIsExpected DEF RequestTyped, IsLine, Answered, ServesPage

(* A well-formed request for the page gets the answer it should, whatever  *)
(* its words are and whenever a send fails (process_http_request,          *)
(* logger.c).                                                              *)
THEOREM ServesPageHolds == Spec => []ServesPage
<1>1. Init => RequestTyped /\ Answered
  BY InitTyped, AnsweredInit
<1>2. RequestTyped /\ Answered /\ [Next]_vars => (RequestTyped /\ Answered)'
  BY TypedStep, AnsweredStep
<1>3. RequestTyped /\ Answered => ServesPage
  BY AnsweredGivesPage
<1> QED
  BY <1>1, <1>2, <1>3, PTL DEF Spec

-----------------------------------------------------------------------------
(* The handshake                                                            *)

(* What on_handshake_header collects. *)
State == [has_upgrade_connection : BOOLEAN, upgrade_to_websocket : BOOLEAN,
          websocket_version : Nat, websocket_key : Piece \cup {NoKey, RestOfRequest}]

Start == [has_upgrade_connection |-> FALSE, upgrade_to_websocket |-> FALSE,
          websocket_version |-> 0, websocket_key |-> NoKey]

(* Header lines that are complete and abbreviate no name. *)
Whole(name) == \A full : Means(name, full) <=> name = full

Complete(headers) ==
  /\ IsHeaders(headers) /\ ParsesHeaders(headers)
  /\ \A i \in 1..Len(headers) : Whole(headers[i].name)

LEMMA NotAbbreviated ==
  ASSUME NEW name, name \notin {a[1] : a \in Abbreviation}
  PROVE  Whole(name)
<1> SUFFICES ASSUME NEW full, <<name, full>> \in Abbreviation
             PROVE  FALSE
  BY DEF Whole, Means
<1>1. <<name, full>>[1] = name
  OBVIOUS
<1> QED
  BY <1>1

KeyOf(h) == IF h.value = Blank THEN RestOfRequest ELSE h.value[1]

LEMMA CompleteLine ==
  ASSUME NEW headers, Complete(headers), NEW i \in 1..Len(headers)
  PROVE  /\ headers[i].value \in Seq(Piece) /\ headers[i].value # <<>>
         /\ headers[i].value[1] \in Piece
         /\ KeyOf(headers[i]) \in Piece \cup {RestOfRequest}
         /\ headers[i].name # "Connection" => headers[i].value = <<headers[i].value[1]>>
         /\ Whole(headers[i].name)
<1> DEFINE v == headers[i].value
<1>1. v \in Seq(Piece) /\ (headers[i].name # "Connection" => Len(v) <= 1)
  BY DEF Complete, IsHeaders, IsHeader
<1>2. v # <<>> /\ Whole(headers[i].name)
  BY DEF Complete, IsHeaders, ParsesHeaders
<1> HIDE DEF v
<1>3. v[1] \in Piece
  BY <1>1, <1>2
<1>4. Len(v) <= 1 => v = <<v[1]>>
  <2>1. Len(v) \in Nat /\ Len(v) # 0
    BY <1>1, <1>2, EmptySeq
  <2>2. <<v[1]>> \in Seq(Piece) /\ Len(<<v[1]>>) = 1
    BY <1>3
  <2>3. ASSUME Len(v) <= 1
        PROVE  v = <<v[1]>>
    <3>1. Len(v) = 1
      BY <2>1, <2>3
    <3>2. \A j \in 1..Len(v) : v[j] = <<v[1]>>[j]
      BY <3>1
    <3> QED
      BY <1>1, <2>2, <3>1, <3>2, SeqEqual
  <2> QED
    BY <2>3
<1> QED
  BY <1>1, <1>2, <1>3, <1>4 DEF v, KeyOf

(* What one line does to each of the four fields. *)
Changes(s, t, headers, i) ==
  LET name == headers[i].name
      value == headers[i].value
  IN
  /\ t \in State
  /\ t.has_upgrade_connection <=>
       s.has_upgrade_connection \/ (name = "Connection" /\ AsksForUpgrade(headers, i))
  /\ t.upgrade_to_websocket <=>
       IF name = "Upgrade" THEN IsValue(value, "websocket") ELSE s.upgrade_to_websocket
  /\ t.websocket_version =
       IF name = "Sec-WebSocket-Version" THEN Atoin(value[1]) ELSE s.websocket_version
  /\ t.websocket_key = IF name = "Sec-WebSocket-Key" THEN KeyOf(headers[i]) ELSE s.websocket_key

LEMMA LineChanges ==
  ASSUME NEW headers, Complete(headers), NEW i \in 1..Len(headers), NEW s \in State
  PROVE  Changes(s, OnHandshakeHeader(headers, s, i), headers, i)
<1> DEFINE name == headers[i].name
           value == headers[i].value
           t == OnHandshakeHeader(headers, s, i)
<1>1. /\ value[1] \in Piece /\ KeyOf(headers[i]) \in Piece \cup {RestOfRequest}
      /\ name # "Connection" => value = <<value[1]>>
  BY CompleteLine
<1>2. \A full : Means(name, full) <=> name = full
  BY CompleteLine DEF Whole
<1>3. t = CASE name = "Connection" -> OnConnection(headers, s, i)
            [] name = "Upgrade" -> [s EXCEPT !.upgrade_to_websocket = IsValue(value, "websocket")]
            [] name = "Sec-WebSocket-Version" -> [s EXCEPT !.websocket_version = Atoin(value[1])]
            [] name = "Sec-WebSocket-Key" -> [s EXCEPT !.websocket_key = KeyOf(headers[i])]
            [] OTHER -> s
  BY <1>2 DEF OnHandshakeHeader, KeyOf
<1>4. CASE name = "Connection"
  <2>1. t = [s EXCEPT !.has_upgrade_connection = @ \/ AsksForUpgrade(headers, i)]
    BY <1>3, <1>4 DEF OnConnection
  <2>2. AsksForUpgrade(headers, i) \in BOOLEAN
    BY DEF AsksForUpgrade, IsValue, Means
  <2> QED
    BY <1>4, <2>1, <2>2 DEF Changes, State
<1>5. CASE name = "Upgrade"
  <2>1. t = [s EXCEPT !.upgrade_to_websocket = IsValue(value, "websocket")]
    BY <1>3, <1>5
  <2>2. IsValue(value, "websocket") \in BOOLEAN
    BY DEF IsValue, Means
  <2> QED
    BY <1>5, <2>1, <2>2 DEF Changes, State
<1>6. CASE name = "Sec-WebSocket-Version"
  <2>1. t = [s EXCEPT !.websocket_version = Atoin(value[1])]
    BY <1>3, <1>6
  <2>2. Atoin(value[1]) \in Nat
    BY AtoinIsNat
  <2> QED
    BY <1>6, <2>1, <2>2 DEF Changes, State
<1>7. CASE name = "Sec-WebSocket-Key"
  <2>1. t = [s EXCEPT !.websocket_key = KeyOf(headers[i])]
    BY <1>3, <1>7
  <2> QED
    BY <1>1, <1>7, <2>1 DEF Changes, State
<1>8. CASE name \notin {"Connection", "Upgrade", "Sec-WebSocket-Version", "Sec-WebSocket-Key"}
  <2>1. t = s
    BY <1>3, <1>8
  <2> QED
    BY <1>8, <2>1 DEF Changes, State
<1> QED
  BY <1>4, <1>5, <1>6, <1>7, <1>8

(* The state behind all lines is the last of a run over them. *)
IsRun(headers, f) ==
  /\ f \in [0..Len(headers) -> State] /\ f[0] = Start
  /\ \A i \in 1..Len(headers) : Changes(f[i - 1], f[i], headers, i)

LEMMA HandshakeRuns ==
  ASSUME NEW headers, Complete(headers)
  PROVE  \E f : IsRun(headers, f) /\ HandshakeState(headers) = f[Len(headers)]
<1> DEFINE n == Len(headers)
           step == [i \in 1..n |-> [s \in State |-> OnHandshakeHeader(headers, s, i)]]
           Solves(f) == f = [i \in 0..n |-> IF i = 0 THEN Start
                                            ELSE OnHandshakeHeader(headers, f[i - 1], i)]
           g == CHOOSE f : Solves(f)
<1>1. n \in Nat /\ Start \in State
  BY DEF Complete, IsHeaders, Start, State
<1>2. \A i \in 1..n : \A s \in State :
        /\ OnHandshakeHeader(headers, s, i) \in State
        /\ Changes(s, OnHandshakeHeader(headers, s, i), headers, i)
  BY LineChanges DEF Changes
<1>3. IsStep(State, n, step)
  BY <1>2 DEF IsStep
<1>4. \E f : Iterates(State, n, Start, step, f)
  <2> HIDE DEF step, n
  <2> QED
    BY <1>1, <1>3, RecursionExists
<1>5. PICK f : Iterates(State, n, Start, step, f)
  BY <1>4
<1>6. f \in [0..n -> State] /\ f[0] = Start /\ \A i \in 1..n : f[i - 1] \in State /\ f[i] = step[i][f[i - 1]]
  BY <1>1, <1>5 DEF Iterates
<1>7. \A i \in 1..n : f[i] = OnHandshakeHeader(headers, f[i - 1], i)
  BY <1>6
<1>8. Solves(f)
  <2> HIDE DEF n
  <2>1. \A i \in 0..n : i = 0 \/ i \in 1..n
    BY <1>1
  <2> QED
    BY <1>6, <1>7, <2>1
<1>9. Solves(g)
  BY <1>8
<1> HIDE DEF g
<1>10. g[0] = Start /\ \A i \in 1..n : i - 1 \in 0..n /\ g[i] = OnHandshakeHeader(headers, g[i - 1], i)
  <2> HIDE DEF n
  <2> QED
    BY <1>1, <1>9
<1>11. g \in [0..n -> State]
  <2> DEFINE G == {i \in 0..n : g[i] \in State}
  <2>1. 0 \in G
    BY <1>1, <1>10
  <2>2. \A i \in 1..n : i - 1 \in G => i \in G
    BY <1>1, <1>2, <1>10
  <2>3. 0..n \subseteq G
    <3> HIDE DEF G
    <3> QED
      BY <1>1, <2>1, <2>2, UpwardInduction
  <2> QED
    BY <1>9, <2>3
<1>12. IsRun(headers, g)
  BY <1>2, <1>10, <1>11 DEF IsRun
<1>13. HandshakeState(headers) = g[n]
  BY Zenon DEF HandshakeState, g, Start
<1> QED
  BY <1>12, <1>13

(* Once names are given once, but for Connection, each field tells of its  *)
(* line among the first k.                                                 *)
NamedOnce(headers) ==
  \A i, j \in 1..Len(headers) :
    (i # j /\ headers[i].name # "Connection") => headers[i].name # headers[j].name

Tells(headers, s, k) ==
  /\ s.has_upgrade_connection <=>
       \E i \in 1..k : headers[i].name = "Connection" /\ AsksForUpgrade(headers, i)
  /\ s.upgrade_to_websocket <=>
       \E i \in 1..k : headers[i].name = "Upgrade" /\ IsValue(headers[i].value, "websocket")
  /\ s.websocket_version = 13 <=>
       \E i \in 1..k : headers[i].name = "Sec-WebSocket-Version" /\ headers[i].value[1] = "13"
  /\ (\A i \in 1..k : headers[i].name # "Sec-WebSocket-Key") => s.websocket_key = NoKey
  /\ \A i \in 1..k :
       headers[i].name = "Sec-WebSocket-Key" => s.websocket_key = KeyOf(headers[i])

LEMMA TellsOneMore ==
  ASSUME NEW headers, Complete(headers), NamedOnce(headers),
         NEW k \in 1..Len(headers), NEW s \in State, NEW t,
         Tells(headers, s, k - 1), Changes(s, t, headers, k)
  PROVE  Tells(headers, t, k)
<1> DEFINE N(i) == headers[i].name
           V(i) == headers[i].value[1]
<1>1. Len(headers) \in Nat
  BY DEF Complete, IsHeaders
<1>2. \A i \in 1..k : i \in 1..k - 1 \/ i = k
  BY <1>1
<1>3. \A i \in 1..k - 1 : i \in 1..k /\ i \in 1..Len(headers) /\ i # k
  BY <1>1
<1>4. k \in 1..k
  BY <1>1
<1>5. \A i \in 1..k - 1 : N(k) # "Connection" => N(i) # N(k)
  BY <1>3 DEF NamedOnce
<1>6. t.has_upgrade_connection <=>
        \E i \in 1..k : N(i) = "Connection" /\ AsksForUpgrade(headers, i)
  BY <1>2, <1>3, <1>4 DEF Tells, Changes
<1>7. t.upgrade_to_websocket <=> \E i \in 1..k : N(i) = "Upgrade" /\ IsValue(headers[i].value, "websocket")
  BY <1>2, <1>3, <1>4, <1>5 DEF Tells, Changes
<1>8. t.websocket_version = 13 <=>
        \E i \in 1..k : N(i) = "Sec-WebSocket-Version" /\ V(i) = "13"
  <2>1. \A piece : Atoin(piece) = 13 <=> piece = "13"
    BY DEF Atoin
  <2> QED
    BY <1>2, <1>3, <1>4, <1>5, <2>1 DEF Tells, Changes
<1>9. (\A i \in 1..k : N(i) # "Sec-WebSocket-Key") => t.websocket_key = NoKey
  BY <1>3, <1>4 DEF Tells, Changes
<1>10. \A i \in 1..k : N(i) = "Sec-WebSocket-Key" => t.websocket_key = KeyOf(headers[i])
  BY <1>2, <1>3, <1>4, <1>5 DEF Tells, Changes
<1> QED
  BY <1>6, <1>7, <1>8, <1>9, <1>10 DEF Tells

LEMMA StateTells ==
  ASSUME NEW headers, Complete(headers), NamedOnce(headers)
  PROVE  /\ HandshakeState(headers) \in State
         /\ Tells(headers, HandshakeState(headers), Len(headers))
<1>1. PICK f : IsRun(headers, f) /\ HandshakeState(headers) = f[Len(headers)]
  BY HandshakeRuns
<1>2. Len(headers) \in Nat
  BY DEF Complete, IsHeaders
<1>3. f \in [0..Len(headers) -> State] /\ f[0] = Start
  BY <1>1 DEF IsRun
<1> DEFINE G == {k \in 0..Len(headers) : Tells(headers, f[k], k)}
<1>4. 0 \in G
  BY <1>2, <1>3 DEF Tells, Start
<1>5. ASSUME NEW k \in 1..Len(headers), k - 1 \in G
      PROVE  k \in G
  <2>1. f[k - 1] \in State /\ k \in 0..Len(headers)
    BY <1>2, <1>3
  <2>2. Tells(headers, f[k - 1], k - 1) /\ Changes(f[k - 1], f[k], headers, k)
    BY <1>1, <1>5 DEF IsRun
  <2> QED
    BY <2>1, <2>2, TellsOneMore
<1>6. 0..Len(headers) \subseteq G
  <2> HIDE DEF G
  <2> QED
    BY <1>2, <1>4, <1>5, UpwardInduction
<1>7. Len(headers) \in 0..Len(headers)
  BY <1>2
<1> QED
  BY <1>1, <1>3, <1>6, <1>7

(* A Connection line that is blank reads the items of the lines behind it, *)
(* and only another Connection line has an item before its last.           *)
LEMMA ItemsAreConnections ==
  ASSUME NEW headers, Complete(headers)
  PROVE  (\E i \in 1..Len(headers) :
            headers[i].name = "Connection" /\ "Upgrade" \in Items(headers, i))
           <=> (\E i \in 1..Len(headers) :
                  headers[i].name = "Connection" /\ "Upgrade" \in ToSet(headers[i].value))
<1>1. Len(headers) \in Nat
  BY DEF Complete, IsHeaders
<1>2. ASSUME NEW i \in 1..Len(headers), headers[i].name = "Connection",
             "Upgrade" \in ToSet(headers[i].value)
      PROVE  "Upgrade" \in Items(headers, i)
  <2>1. \A x : ToSet(<<x>>) = {x}
    BY DEF ToSet
  <2>2. ToSet(Blank) = {" "}
    BY <2>1 DEF Blank
  <2>3. ToSet(Blank) # ToSet(headers[i].value)
    <3>1. " " # "Upgrade"
      OBVIOUS
    <3> QED
      BY <1>2, <2>2, <3>1
  <2> QED
    BY <1>2, <2>3 DEF Items
<1>3. ASSUME NEW i \in 1..Len(headers), headers[i].name = "Connection",
             "Upgrade" \in Items(headers, i)
      PROVE  \E j \in 1..Len(headers) :
               headers[j].name = "Connection" /\ "Upgrade" \in ToSet(headers[j].value)
  <2>1. CASE headers[i].value # Blank
    BY <1>3, <2>1 DEF Items
  <2>2. CASE headers[i].value = Blank
    <3>1. PICK j \in i + 1 .. Len(headers) : "Upgrade" \in ToSet(Front(headers[j].value))
      BY <1>3, <2>2 DEF Items, ItemsBehind
    <3>2. j \in 1..Len(headers)
      BY <1>1
    <3> DEFINE v == headers[j].value
    <3>3. v \in Seq(Piece) /\ (headers[j].name # "Connection" => Len(v) <= 1)
      BY <3>2 DEF Complete, IsHeaders, IsHeader
    <3>4. "Upgrade" \in ToSet(Front(v))
      BY <3>1
    <3> HIDE DEF v
    <3>5. PICK m \in 1..Len(v) - 1 : Front(v)[m] = "Upgrade"
      BY <3>3, <3>4 DEF Front, ToSet
    <3>6. m \in 1..Len(v) /\ Len(v) > 1 /\ v[m] = "Upgrade"
      BY <3>3, <3>5 DEF Front
    <3>7. "Upgrade" \in ToSet(v) /\ headers[j].name = "Connection"
      BY <3>3, <3>6 DEF ToSet
    <3> QED
      BY <3>2, <3>7 DEF v
  <2> QED
    BY <2>1, <2>2
<1> QED
  BY <1>2, <1>3

(* The items of a list abbreviate nothing, so a line asks for the upgrade  *)
(* if the word is among its items or its one item abbreviates the word.    *)
OneAbbreviation(value, v) == Len(value) = 1 /\ <<value[1], v>> \in Abbreviation

LEMMA ConnectionsAsk ==
  ASSUME NEW headers, Complete(headers)
  PROVE  (\E i \in 1..Len(headers) : headers[i].name = "Connection" /\ AsksForUpgrade(headers, i))
           <=> (\E i \in 1..Len(headers) :
                  /\ headers[i].name = "Connection"
                  /\ \/ "Upgrade" \in ToSet(headers[i].value)
                     \/ OneAbbreviation(headers[i].value, "Upgrade"))
<1>1. \A i \in 1..Len(headers) :
        IsValue(headers[i].value, "Upgrade")
          => \/ "Upgrade" \in ToSet(headers[i].value)
             \/ OneAbbreviation(headers[i].value, "Upgrade")
  BY DEF IsValue, Means, OneAbbreviation, ToSet
<1>2. \A i \in 1..Len(headers) :
        OneAbbreviation(headers[i].value, "Upgrade") => IsValue(headers[i].value, "Upgrade")
  BY DEF IsValue, Means, OneAbbreviation
<1> QED
  BY <1>1, <1>2, ItemsAreConnections DEF AsksForUpgrade

(* A handshake line that does not wrap is fine exactly if it is a GET for  *)
(* a version below 2.                                                      *)
NoWrap(line) == Len(line.words) <= 3 /\ \A w \in ToSet(line.words) : "257" \notin ToSet(w)

LEMMA LineAccepted ==
  ASSUME NEW line, IsLine(line), NoWrap(line)
  PROVE  (/\ ParsesLine(line) /\ line.words[1] = <<"GET">>
          /\ ~(VersionOf(line.words[3]) >= FirstUnsupported))
         <=> (WellFormed(line) /\ line.words[1] = <<"GET">> /\ line.words[3][2] = "1")
<1> DEFINE words == line.words
           v == line.words[3]
<1>1. words \in Seq(Seq(Piece)) /\ Len(words) \in Nat /\ Len(words) <= 3
  BY DEF IsLine, NoWrap
<1>2. \A m : words[1] = <<m>> => ToSet(words[1]) = {m} /\ Len(words[1]) = 1 /\ words[1][1] = m
  BY DEF ToSet
<1>3. "GET" \in http_methods
  BY DEF http_methods
<1>4. Len(words) = 3 => "257" \notin ToSet(v) /\ v \in Seq(Piece)
  <2>1. \A i \in 1..Len(words) : words[i] \in ToSet(words) /\ words[i] \in Seq(Piece)
    BY <1>1 DEF ToSet
  <2> QED
    BY <1>1, <2>1 DEF NoWrap
<1>5. Len(words) = 3 => PieceAt(v, 2) # "257"
  BY <1>4 DEF PieceAt, ToSet
<1>6. PieceAt(v, 2) # "" => PieceAt(v, 2) = v[2]
  BY DEF PieceAt
<1>7. ASSUME ParsesLine(line), words[1] = <<"GET">>, ~(VersionOf(v) >= FirstUnsupported)
      PROVE  WellFormed(line) /\ v[2] = "1"
  <2>1. ~line.leading /\ Len(words) = 3 /\ PieceAt(v, 1) = "HTTP/" /\ PieceAt(v, 2) \in Numeral
    <3>1. ~line.leading /\ Len(words) >= 3 /\ PieceAt(v, 1) = "HTTP/" /\ PieceAt(v, 2) \in Numeral
      BY <1>7, Zenon DEF ParsesLine, IsVersion
    <3>2. Len(words) >= 3
      BY <3>1, Zenon
    <3>3. Len(words) = 3
      <4>1. \A n \in Nat : n <= 3 /\ n >= 3 => n = 3
        OBVIOUS
      <4> QED
        BY <1>1, <3>2, <4>1, Zenon
    <3> QED
      BY <3>1, <3>3, Zenon
  <2>2. PieceAt(v, 2) = "1"
    BY <1>5, <1>7, <2>1, MajorDecides
  <2> QED
    BY <1>2, <1>3, <1>6, <1>7, <2>1, <2>2 DEF WellFormed
<1>8. ASSUME WellFormed(line), words[1] = <<"GET">>, v[2] = "1"
      PROVE  ParsesLine(line) /\ ~(VersionOf(v) >= FirstUnsupported)
  <2>1. ~line.leading /\ Len(words) = 3 /\ PieceAt(v, 1) = "HTTP/" /\ PieceAt(v, 2) \in {"1", "2"}
    BY <1>8 DEF WellFormed
  <2>2. PieceAt(v, 2) = "1"
    BY <1>6, <1>8, <2>1
  <2>3. ~(VersionOf(v) >= FirstUnsupported)
    BY <2>2, MajorDecides DEF Numeral
  <2> QED
    BY <1>2, <1>3, <1>8, <2>1, <2>2, <2>3 DEF ParsesLine, IsVersion, Numeral
<1> QED
  BY <1>7, <1>8

(* The verdict of ws_parse_connect_request on a plain request, and the key *)
(* it found.                                                               *)
HasKey == Named("Sec-WebSocket-Key") # {}

LEMMA VerdictIsRight ==
  ASSUME RequestTyped, Plain
  PROVE  /\ Verdict(request) = 0 <=> ValidButKey /\ HasKey
         /\ Verdict(request) \notin {WS_ERROR_SEND, WS_ERROR_RECV}
         /\ Verdict(request) = 0 =>
              \A i \in Named("Sec-WebSocket-Key") :
                HandshakeState(request.headers).websocket_key = KeyOf(request.headers[i])
<1> DEFINE headers == request.headers
           line == request.line
           state == HandshakeState(headers)
           V == Verdict(request)
<1>1. IsLine(line) /\ IsHeaders(headers) /\ Len(headers) \in Nat /\ DOMAIN headers = 1..Len(headers)
  BY DEF RequestTyped, IsHeaders
<1>2. NoWrap(line) /\ NamedOnce(headers)
  BY <1>1 DEF Plain, NoWrap, NamedOnce
<1>3. ParsesHeaders(headers) => Complete(headers)
  <2>1. \A i \in 1..Len(headers) : headers[i].name \notin {a[1] : a \in Abbreviation}
    BY <1>1 DEF Plain
  <2> QED
    BY <1>1, <2>1, NotAbbreviated DEF Complete
<1>4. V \notin {WS_ERROR_SEND, WS_ERROR_RECV}
  BY DEF Verdict, WS_ERROR_MEMORY, WS_ERROR_SEND, WS_ERROR_RECV, WS_ERROR_HTTP_REQUEST,
         WS_ERROR_HTTP_METHOD, WS_ERROR_HTTP_VERSION, WS_ERROR_WEBSOCKET_VERSION,
         WS_ERROR_NO_UPGRADE, WS_ERROR_NO_KEY
<1>5. V = 0 <=>
        /\ ParsesLine(line) /\ ParsesHeaders(headers) /\ line.words[1] = <<"GET">>
        /\ ~(VersionOf(line.words[3]) >= FirstUnsupported)
        /\ state.websocket_version = 13 /\ AsksUpgrade(state) /\ state.websocket_key # NoKey
  BY DEF Verdict, WS_ERROR_HTTP_REQUEST, WS_ERROR_HTTP_METHOD, WS_ERROR_HTTP_VERSION,
         WS_ERROR_WEBSOCKET_VERSION, WS_ERROR_NO_UPGRADE, WS_ERROR_NO_KEY, WS_PROTOCOL_VERSION
<1>6. ValidButKey <=>
        /\ ParsesHeaders(headers)
        /\ WellFormed(line) /\ line.words[1] = <<"GET">> /\ line.words[3][2] = "1"
        /\ HasField("Connection", "Upgrade") /\ HasField("Upgrade", "websocket")
        /\ HasField("Sec-WebSocket-Version", "13")
  BY DEF ValidButKey
<1>7. ASSUME ParsesHeaders(headers)
      PROVE  /\ state.websocket_version = 13 <=> HasField("Sec-WebSocket-Version", "13")
             /\ AsksUpgrade(state) <=>
                  HasField("Connection", "Upgrade") /\ HasField("Upgrade", "websocket")
             /\ state.websocket_key # NoKey <=> HasKey
             /\ \A i \in Named("Sec-WebSocket-Key") : state.websocket_key = KeyOf(headers[i])
  <2>1. Complete(headers)
    BY <1>3, <1>7
  <2>2. Tells(headers, state, Len(headers))
    BY <1>2, <2>1, StateTells
  <2>3. \A n : Named(n) = {i \in 1..Len(headers) : headers[i].name = n}
    BY <1>1 DEF Named
  <2>4. \A n, p : n # "Connection" =>
          (HasField(n, p) <=> \E i \in 1..Len(headers) :
                                headers[i].name = n /\ IsValue(headers[i].value, p))
    <3>1. \A x : ToSet(<<x>>) = {x} /\ Len(<<x>>) = 1
      BY DEF ToSet
    <3>2. ASSUME NEW i \in 1..Len(headers), headers[i].name # "Connection"
          PROVE  /\ ToSet(headers[i].value) = {headers[i].value[1]}
                 /\ Len(headers[i].value) = 1
      <4> DEFINE v == headers[i].value
      <4>1. v = <<v[1]>>
        BY <2>1, <3>2, CompleteLine
      <4>2. ToSet(<<v[1]>>) = {v[1]} /\ Len(<<v[1]>>) = 1
        BY <3>1
      <4> HIDE DEF v
      <4>3. ToSet(v) = {v[1]} /\ Len(v) = 1
        BY <4>1, <4>2
      <4> QED
        BY <4>3 DEF v
    <3> QED
      BY <2>3, <3>2 DEF HasField, IsValue, Means
  <2>5. state.websocket_version = 13 <=> HasField("Sec-WebSocket-Version", "13")
    <3>1. \A p : <<p, "13">> \notin Abbreviation
      BY DEF Abbreviation
    <3>2. \A i \in 1..Len(headers) : headers[i].name = "Sec-WebSocket-Version" =>
            (IsValue(headers[i].value, "13") <=> headers[i].value[1] = "13")
      <4>1. \A x : Len(<<x>>) = 1
        OBVIOUS
      <4> QED
        BY <2>1, <3>1, <4>1, CompleteLine DEF IsValue, Means
    <3> QED
      BY <2>2, <2>4, <3>2 DEF Tells
  <2>6. state.upgrade_to_websocket <=> HasField("Upgrade", "websocket")
    BY <2>2, <2>4 DEF Tells
  <2>7. state.has_upgrade_connection <=> HasField("Connection", "Upgrade")
    BY <2>1, <2>2, <2>3, ConnectionsAsk DEF Tells, HasField, OneAbbreviation
  <2>8. \A i \in Named("Sec-WebSocket-Key") : state.websocket_key = KeyOf(headers[i])
    BY <2>2, <2>3 DEF Tells
  <2>9. state.websocket_key # NoKey <=> HasKey
    <3>1. RestOfRequest # NoKey
      BY DEF RestOfRequest, NoKey
    <3>2. \A i \in 1..Len(headers) : KeyOf(headers[i]) # NoKey
      BY <2>1, <3>1, CompleteLine, PieceAssumption
    <3>3. (\A i \in 1..Len(headers) : headers[i].name # "Sec-WebSocket-Key")
            => state.websocket_key = NoKey
      BY <2>2 DEF Tells
    <3> QED
      BY <2>3, <2>8, <3>2, <3>3 DEF HasKey
  <2> QED
    BY <2>5, <2>6, <2>7, <2>8, <2>9 DEF AsksUpgrade
<1>8. V = 0 <=> ValidButKey /\ HasKey
  BY <1>1, <1>2, <1>5, <1>6, <1>7, LineAccepted
<1>9. V = 0 => \A i \in Named("Sec-WebSocket-Key") : state.websocket_key = KeyOf(headers[i])
  BY <1>5, <1>7
<1> QED
  BY <1>4, <1>8, <1>9

-----------------------------------------------------------------------------
(* The WebSocket server                                                     *)

(* Only an accepted request gets as far as its answer, which is its key.   *)
Key == HandshakeState(request.headers).websocket_key

Judged ==
  server = "ws" =>
    /\ pc \in {"receive", "handle"} => sent = <<>> /\ todo = <<>>
    /\ pc = "copy_key" => Verdict(request) = 0 /\ result = 0 /\ sent = <<>>
    /\ pc = "send" =>
         /\ Verdict(request) = 0 /\ result = 0
         /\ \/ sent = <<>> /\ todo = <<Key>>
            \/ sent = <<Key>> /\ todo = <<>>
    /\ pc = "returned" =>
         IF Verdict(request) = 0
         THEN result \in {0, WS_ERROR_SEND} /\ sent \in {<<>>, <<Key>>}
         ELSE result = Verdict(request) /\ sent = <<>>

LEMMA JudgedInit == Init => Judged
BY DEF Init, Judged

LEMMA JudgedStep == Judged /\ [Next]_vars => Judged'
<1> SUFFICES ASSUME Judged, [Next]_vars, server' = "ws"
             PROVE  Judged'
  BY DEF Judged
<1>1. server = "ws" /\ request' = request
  BY DEF Next, vars, ReceiveFails, Receive, ProcessHttpRequest, ParseConnectRequest, CopyKey,
         CopyKeyFails, CopyDies, Send, SendFails, Sent
<1>2. Verdict(request)' = Verdict(request) /\ Key' = Key
  BY <1>1 DEF Key
<1>3. CASE ReceiveFails \/ Receive \/ CopyDies
  BY <1>1, <1>2, <1>3 DEF Judged, ReceiveFails, Receive, CopyDies
<1>4. CASE ProcessHttpRequest
  BY <1>1, <1>4 DEF ProcessHttpRequest
<1>5. CASE ParseConnectRequest
  BY <1>1, <1>2, <1>5 DEF Judged, ParseConnectRequest
<1>6. CASE CopyKey
  BY <1>1, <1>2, <1>6 DEF Judged, CopyKey, Key
<1>7. CASE CopyKeyFails
  BY <1>1, <1>2, <1>7 DEF Judged, CopyKeyFails, WS_ERROR_MEMORY
<1>8. CASE Send
  <2>1. sent = <<>> /\ todo = <<Key>>
    BY <1>1, <1>8 DEF Judged, Send
  <2>2. sent' = <<Key>> /\ todo' = <<>>
    BY <1>8, <2>1 DEF Send
  <2> QED
    BY <1>1, <1>2, <1>8, <2>2 DEF Judged, Send
<1>9. CASE SendFails
  BY <1>1, <1>2, <1>9 DEF Judged, SendFails
<1>10. CASE Sent
  BY <1>1, <1>2, <1>10 DEF Judged, Sent
<1>11. CASE UNCHANGED vars
  BY <1>1, <1>2, <1>11 DEF Judged, vars
<1> QED
  BY <1>3, <1>4, <1>5, <1>6, <1>7, <1>8, <1>9, <1>10, <1>11 DEF Next

LEMMA JudgedAcceptsValid == RequestTyped /\ Judged => AcceptsValid
<1> DEFINE named == Named("Sec-WebSocket-Key")
           keys == {request.headers[i].value : i \in named}
<1> SUFFICES ASSUME RequestTyped, Judged, server = "ws", pc = "returned", Plain
             PROVE  IF ValidButKey /\ keys \notin {{}, {Blank}}
                    THEN result \in {0, WS_ERROR_SEND} /\ sent \in {<<>>} \cup keys
                    ELSE Refused \/ (ValidButKey /\ keys = {Blank})
  BY DEF AcceptsValid
<1>1. /\ Verdict(request) = 0 <=> ValidButKey /\ named # {}
      /\ Verdict(request) \notin {WS_ERROR_SEND, WS_ERROR_RECV}
      /\ Verdict(request) = 0 => \A i \in named : Key = KeyOf(request.headers[i])
  BY VerdictIsRight DEF HasKey, Key
<1>2. named = {} <=> keys = {}
  OBVIOUS
<1>3. CASE Verdict(request) # 0
  <2>1. Refused
    BY <1>1, <1>3 DEF Judged, Refused
  <2>2. ~(ValidButKey /\ keys # {})
    BY <1>1, <1>2, <1>3
  <2> QED
    BY <2>1, <2>2
<1>4. CASE Verdict(request) = 0
  <2>1. PICK i \in named : TRUE
    BY <1>1, <1>4
  <2> DEFINE value == request.headers[i].value
  <2>2. keys = {value}
    BY <2>1 DEF Plain, Named
  <2>3. result \in {0, WS_ERROR_SEND} /\ sent \in {<<>>, <<Key>>}
    BY <1>4 DEF Judged
  <2>4. CASE value = Blank
    BY <1>1, <1>4, <2>2, <2>4
  <2>5. CASE value # Blank
    <3>1. Complete(request.headers) /\ i \in 1..Len(request.headers)
      <4>1. \A j \in 1..Len(request.headers) :
              request.headers[j].name \notin {a[1] : a \in Abbreviation}
        BY DEF Plain, RequestTyped, IsHeaders
      <4> QED
        BY <1>1, <1>4, <2>1, <4>1, NotAbbreviated
        DEF Complete, RequestTyped, IsHeaders, ValidButKey, Named
    <3>2. request.headers[i].name = "Sec-WebSocket-Key"
      BY <2>1 DEF Named
    <3>3. value = <<value[1]>>
      BY <3>1, <3>2, CompleteLine
    <3>4. Key = value[1]
      BY <1>1, <1>4, <2>5 DEF KeyOf
    <3> HIDE DEF keys, value, named
    <3>5. <<Key>> = value
      BY <3>3, <3>4
    <3> QED
      BY <1>1, <1>2, <1>4, <2>1, <2>2, <2>3, <2>5, <3>5
  <2> QED
    BY <2>4, <2>5
<1> QED
  BY <1>3, <1>4

(* A handshake that abbreviates no name and repeats none but Connection is *)
(* accepted exactly if it is valid or abbreviates nothing but the value of *)
(* Upgrade or the one item of Connection, and answered with its own key,   *)
(* however many header lines it has and in whatever order they come        *)
(* (ws_accept, ws_parse_connect_request and on_handshake_header, ws.c).    *)
THEOREM AcceptsValidHolds == Spec => []AcceptsValid
<1>1. Init => RequestTyped /\ Judged
  BY InitTyped, JudgedInit
<1>2. RequestTyped /\ Judged /\ [Next]_vars => (RequestTyped /\ Judged)'
  BY TypedStep, JudgedStep
<1>3. RequestTyped /\ Judged => AcceptsValid
  BY JudgedAcceptsValid
<1> QED
  BY <1>1, <1>2, <1>3, PTL DEF Spec

-----------------------------------------------------------------------------
(* Receiving                                                                *)

(* There is one blank line, at the end, or there is none: less than four  *)
(* bytes are left. *)
OnlyAtEnd(str) ==
  \A i \in 1..Len(str) - 3 :
    (str[i] = "\r" /\ str[i + 1] = "\n" /\ str[i + 2] = "\r" /\ str[i + 3] = "\n")
      <=> i = Len(str) - 3

(* The bytes received are the first bytes of what the call found, the      *)
(* others are on their way, and a piece ended where the next will begin.   *)
Pieces ==
  recvPc = "recv" =>
    /\ whole \in Seq({"x", "\r", "\n"}) /\ OnlyAtEnd(whole)
    /\ Len(whole) >= 4 \/ 0 \in cuts
    /\ len < Size
    /\ len + Len(stream) = Len(whole)
    /\ \A i \in 1..len : buf[i] = whole[i]
    /\ \A i \in 1..Len(stream) : stream[i] = whole[len + i]
    /\ len = 0 \/ len \in cuts

(* A buffer nobody used before is empty behind them. *)
EmptyBehind ==
  caller = "ws" \/ calls <= 1 => \A i \in len + 1 .. Size : buf[i] = "-"

Types ==
  /\ len \in Nat
  /\ calls \in Nat
  /\ calls = 0 => len = 0 /\ recvPc = "poll"
  /\ caller \in {"http", "ws"}
  /\ stream \in Seq({"x", "\r", "\n"}) /\ OnlyAtEnd(stream)
  /\ recvPc \in {"poll", "recv", "returned", "crashed"}

Receiving == Types /\ Pieces /\ EmptyBehind /\ StallsOnlyOnSplit /\ EarlyOnlyOnStale

-----------------------------------------------------------------------------
(* What the search finds is the blank line, byte by byte. *)
LEMMA SearchFinds ==
  ASSUME NEW b, NEW total \in Nat, NEW offset \in Nat, NEW n
  PROVE  OnHeaders(b, total, offset, n) <=>
           \E i \in offset + 1 .. offset + total - 3 :
             /\ i + 3 <= Size
             /\ b[i] = "\r" /\ b[i + 1] = "\n" /\ b[i + 2] = "\r" /\ b[i + 3] = "\n"
<1>1. Len(BlankLine) = 4 /\ BlankLine[1] = "\r" /\ BlankLine[2] = "\n"
      /\ BlankLine[3] = "\r" /\ BlankLine[4] = "\n"
  BY DEF BlankLine
<1>2. offset + 1 + total - 4 = offset + total - 3
  OBVIOUS
<1>3. \A i \in Int : (\A j \in 1..4 : i + j - 1 <= Size /\ b[i + j - 1] = BlankLine[j]) <=>
        /\ i + 3 <= Size
        /\ b[i] = "\r" /\ b[i + 1] = "\n" /\ b[i + 2] = "\r" /\ b[i + 3] = "\n"
  <2> SUFFICES ASSUME NEW i \in Int
               PROVE  (\A j \in 1..4 : i + j - 1 <= Size /\ b[i + j - 1] = BlankLine[j]) <=>
                        /\ i + 3 <= Size
                        /\ b[i] = "\r" /\ b[i + 1] = "\n" /\ b[i + 2] = "\r" /\ b[i + 3] = "\n"
    OBVIOUS
  <2>1. 1..4 = {1, 2, 3, 4} /\ i + 1 - 1 = i /\ i + 2 - 1 = i + 1 /\ i + 3 - 1 = i + 2
        /\ i + 4 - 1 = i + 3
    OBVIOUS
  <2>2. (\A j \in 1..4 : i + j - 1 <= Size /\ b[i + j - 1] = BlankLine[j]) <=>
          /\ i <= Size /\ b[i] = "\r" /\ i + 1 <= Size /\ b[i + 1] = "\n"
          /\ i + 2 <= Size /\ b[i + 2] = "\r" /\ i + 3 <= Size /\ b[i + 3] = "\n"
    BY <1>1, <2>1
  <2> QED
    BY <2>2, RequestAssumption
<1> HIDE DEF BlankLine
<1> QED
  BY <1>1, <1>2, <1>3 DEF OnHeaders, Strnstr

(* A request has a blank line in its last four bytes and nowhere before.   *)
LEMMA OneBlankLine ==
  ASSUME NEW r \in Requests
  PROVE  Len(r) \in Nat /\ Len(r) >= 4 /\ OnlyAtEnd(r)
<1>1. r \in Seq({"x", "\r", "\n"}) /\ Len(r) \in Nat
  BY RequestAssumption
<1>2. BlankLine[1] = "\r" /\ BlankLine[2] = "\n" /\ BlankLine[3] = "\r" /\ BlankLine[4] = "\n"
  BY DEF BlankLine
<1>3. ASSUME NEW i \in 1..Len(r) - 3
      PROVE  BlankAt(r, i) <=>
               (r[i] = "\r" /\ r[i + 1] = "\n" /\ r[i + 2] = "\r" /\ r[i + 3] = "\n")
  <2>1. 1..4 = {1, 2, 3, 4} /\ i + 1 - 1 = i /\ i + 2 - 1 = i + 1 /\ i + 3 - 1 = i + 2
        /\ i + 4 - 1 = i + 3
    BY <1>1
  <2> QED
    BY <1>2, <2>1 DEF BlankAt
<1> QED
  BY <1>1, <1>3, RequestAssumption DEF OnlyAtEnd

(* What is left of a stream after its first bytes. *)
LEMMA RestIsLeft ==
  ASSUME NEW str \in Seq({"x", "\r", "\n"}), NEW k \in 1..Len(str),
         OnlyAtEnd(str)
  PROVE  LET rest == SubSeq(str, k + 1, Len(str)) IN
           /\ rest \in Seq({"x", "\r", "\n"}) /\ OnlyAtEnd(rest)
           /\ Len(rest) = Len(str) - k
           /\ \A i \in 1..Len(rest) : rest[i] = str[k + i]
<1> DEFINE rest == SubSeq(str, k + 1, Len(str))
<1>1. PICK n \in Nat : n = Len(str)
  OBVIOUS
<1>2. /\ SubSeq(str, k + 1, n) \in Seq({"x", "\r", "\n"})
      /\ Len(SubSeq(str, k + 1, n)) = n - k
      /\ \A i \in 1..n - k : SubSeq(str, k + 1, n)[i] = str[k + i]
  BY <1>1, SubSeqProperties
<1>3. rest \in Seq({"x", "\r", "\n"}) /\ Len(rest) = n - k
      /\ \A i \in 1..n - k : rest[i] = str[k + i]
  BY <1>1, <1>2
<1> HIDE DEF rest
<1>4. OnlyAtEnd(rest)
  <2> SUFFICES ASSUME NEW i \in 1..n - k - 3
               PROVE  (rest[i] = "\r" /\ rest[i + 1] = "\n" /\ rest[i + 2] = "\r"
                         /\ rest[i + 3] = "\n") <=> i = n - k - 3
    BY <1>3 DEF OnlyAtEnd
  <2>1. PICK m \in 1..n - 3 : m = k + i /\ (m = n - 3 <=> i = n - k - 3)
    BY <1>1
  <2>2. rest[i] = str[m] /\ rest[i + 1] = str[m + 1] /\ rest[i + 2] = str[m + 2]
        /\ rest[i + 3] = str[m + 3]
    <3>1. /\ i \in 1..n - k /\ i + 1 \in 1..n - k /\ i + 2 \in 1..n - k /\ i + 3 \in 1..n - k
          /\ k + i = m /\ k + (i + 1) = m + 1 /\ k + (i + 2) = m + 2 /\ k + (i + 3) = m + 3
      BY <1>1, <2>1
    <3> QED
      BY <1>3, <3>1
  <2> QED
    BY <1>1, <2>1, <2>2 DEF OnlyAtEnd
<1> QED
  BY <1>1, <1>3, <1>4 DEF rest

(* No request is under way at first. *)
LEMMA ReceivingInit == RecvInit => Receiving
<1> SUFFICES ASSUME RecvInit
             PROVE  Receiving
  OBVIOUS
<1> QED
  BY RequestAssumption, EmptySeq DEF RecvInit, Receiving, Types, OnlyAtEnd, Pieces, EmptyBehind,
     StallsOnlyOnSplit, EarlyOnlyOnStale, Zeroed

(* A call finds the buffer as the last one left it, or zeroed. *)
LEMMA CallKeeps ==
  ASSUME Receiving, NEW asked \in Seq({"x", "\r", "\n"}), asked # <<>>, OnlyAtEnd(asked),
         Len(asked) >= 4 \/ cuts' = {0}, Call(asked)
  PROVE  Receiving'
<1> USE DEF Receiving, Call
<1>1. Len(asked) \in Nat /\ Len(asked) > 0
  BY EmptySeq
<1>2. Types'
  BY DEF Types
<1>3. Pieces'
  BY <1>1, RequestAssumption DEF Pieces
<1>4. EmptyBehind'
  <2>1. buf' = Zeroed => \A i \in len' + 1 .. Size : buf'[i] = "-"
    BY DEF Zeroed
  <2>2. CASE buf' # Zeroed
    <3>1. buf' = buf /\ caller' = "http"
      BY <2>2
    <3>2. calls' <= 1 => calls = 0 /\ len = 0
      BY DEF Types
    <3> QED
      BY <3>1, <3>2 DEF EmptyBehind
  <2> QED
    BY <2>1, <2>2 DEF EmptyBehind
<1>5. StallsOnlyOnSplit' /\ EarlyOnlyOnStale'
  BY <1>1 DEF StallsOnlyOnSplit, EarlyOnlyOnStale, Received
<1> QED
  BY <1>2, <1>3, <1>4, <1>5

LEMMA RequestKeeps == Receiving /\ (ClientRequests \/ ReadRest) => Receiving'
<1>1. ASSUME Receiving, ClientRequests
      PROVE  Receiving'
  <2>1. PICK r \in Requests : Call(r)
    BY <1>1 DEF ClientRequests
  <2>2. r \in Seq({"x", "\r", "\n"}) /\ Len(r) >= 4 /\ OnlyAtEnd(r) /\ r # <<>>
    BY OneBlankLine, RequestAssumption, EmptySeq
  <2> QED
    BY <1>1, <2>1, <2>2, CallKeeps
<1>2. ASSUME Receiving, ReadRest
      PROVE  Receiving'
  BY <1>2, CallKeeps DEF ReadRest, Receiving, Types
<1> QED
  BY <1>1, <1>2

(* A piece arrives.  The search covers it from its first byte on, as far   *)
(* as all that was received reaches from there.                            *)
LEMMA RecvKeeps == Receiving /\ Recv => Receiving'
<1> SUFFICES ASSUME Receiving, Recv
             PROVE  Receiving'
  OBVIOUS
<1> USE DEF Receiving
<1>1. PICK k \in 1..Len(stream) :
        /\ buf' = [i \in 1..Size |-> IF i \in len + 1 .. len + k THEN stream[i - len] ELSE buf[i]]
        /\ len' = len + k
        /\ cuts' = cuts \cup {len + k}
        /\ stream' = SubSeq(stream, k + 1, Len(stream))
        /\ len + k <= Size
        /\ recvPc' \in Outcomes(buf', len', len, k)
  BY DEF Recv
<1>2. recvPc = "recv" /\ UNCHANGED <<caller, whole, ended, calls>>
  BY DEF Recv, clientVars
<1>3. /\ whole \in Seq({"x", "\r", "\n"}) /\ Len(whole) \in Nat /\ OnlyAtEnd(whole)
      /\ Len(whole) >= 4 \/ 0 \in cuts
      /\ Size \in Nat
      /\ len \in Nat /\ Len(stream) \in Nat /\ len + Len(stream) = Len(whole)
  BY <1>2, RequestAssumption DEF Types, Pieces
<1>4. /\ k \in Nat /\ len' \in Nat /\ len' = len + k /\ len' <= Len(whole) /\ len' > len
      /\ len' <= Size
  BY <1>1, <1>3
<1>14. recvPc' \in {"recv", "returned", "crashed"}
  BY <1>1 DEF Outcomes
<1>15. recvPc' = "recv" => len' < Size /\ ~OnHeaders(buf', len', len, k)
  <2>1. recvPc' = "recv" => len' # Size /\ ~OnHeaders(buf', len', len, k)
    BY <1>1 DEF Outcomes
  <2> QED
    BY <1>3, <1>4, <2>1
<1>5. /\ stream' \in Seq({"x", "\r", "\n"}) /\ OnlyAtEnd(stream')
      /\ Len(stream') = Len(stream) - k
      /\ \A i \in 1..Len(stream') : stream'[i] = stream[k + i]
  BY <1>1, RestIsLeft DEF Types
<1>6. \A i \in 1..len' : buf'[i] = whole[i]
  <2> SUFFICES ASSUME NEW i \in 1..len'
               PROVE  buf'[i] = whole[i]
    OBVIOUS
  <2>1. i \in 1..Size
    BY <1>3, <1>4
  <2>2. CASE i \in 1..len
    BY <1>1, <1>2, <1>3, <2>1, <2>2 DEF Pieces
  <2>3. CASE i \in len + 1 .. len + k
    <3>1. i - len \in 1..Len(stream) /\ len + (i - len) = i
      BY <1>1, <1>3, <2>3
    <3>2. stream[i - len] = whole[len + (i - len)]
      BY <1>2, <3>1 DEF Pieces
    <3> QED
      BY <1>1, <2>1, <2>3, <3>1, <3>2
  <2> QED
    BY <1>3, <1>4, <2>2, <2>3
<1>7. Types'
  BY <1>2, <1>4, <1>5, <1>14 DEF Types
<1>8. Pieces'
  <2>1. \A i \in 1..Len(stream') : stream'[i] = whole[len' + i]
    <3> SUFFICES ASSUME NEW i \in 1..Len(stream')
                 PROVE  stream'[i] = whole[len' + i]
      OBVIOUS
    <3>1. k + i \in 1..Len(stream) /\ len + (k + i) = len' + i
      BY <1>3, <1>4, <1>5
    <3> QED
      BY <1>2, <1>5, <3>1 DEF Pieces
  <2>2. len' + Len(stream') = Len(whole')
    <3>1. whole' = whole
      BY <1>2
    <3>2. Len(stream') = Len(stream) - k
      BY <1>5
    <3>3. len' + (Len(stream) - k) = Len(whole)
      BY <1>3, <1>4
    <3> QED
      BY <3>1, <3>2, <3>3
  <2>3. len' \in cuts'
    BY <1>1
  <2> QED
    BY <1>1, <1>2, <1>3, <1>6, <1>15, <2>1, <2>2, <2>3 DEF Pieces
<1>9. \A i \in len' + 1 .. Size : buf'[i] = buf[i] /\ i \in len + 1 .. Size
  BY <1>1, <1>3, <1>4
<1>10. EmptyBehind'
  BY <1>2, <1>9 DEF EmptyBehind
<1>11. OnHeaders(buf', len', len, k) <=>
         \E i \in len + 1 .. len + len' - 3 :
           /\ i + 3 <= Size
           /\ buf'[i] = "\r" /\ buf'[i + 1] = "\n" /\ buf'[i + 2] = "\r" /\ buf'[i + 3] = "\n"
  <2>1. PICK b : b = buf'
    OBVIOUS
  <2>2. len' \in Nat /\ len \in Nat
    BY <1>3, <1>4
  <2> QED
    BY <2>1, <2>2, SearchFinds
<1>12. StallsOnlyOnSplit'
  <2> SUFFICES ASSUME recvPc' = "recv", len' = Len(whole),
                      cuts' \cap (len' - 3 .. len' - 1) = {}
               PROVE  FALSE
    BY <1>2 DEF StallsOnlyOnSplit, Received
  <2>1. len + 1 <= len' - 3
    <3>1. len = 0 \/ len \in cuts'
      BY <1>1, <1>2 DEF Pieces
    <3>2. len = 0 \/ len \notin len' - 3 .. len' - 1
      BY <3>1
    <3>3. len' >= 4 \/ 0 \in len' - 3 .. len' - 1
      <4>1. len' \in Nat /\ len' > 0
        BY <1>3, <1>4
      <4> HIDE DEF Pieces
      <4> QED
        BY <4>1
    <3>4. len' >= 4
      BY <1>1, <1>3, <3>3
    <3> QED
      BY <1>3, <1>4, <3>2, <3>4
  <2>2. PICK i : i = len' - 3
    OBVIOUS
  <2>3. /\ i \in len + 1 .. len + len' - 3 /\ i + 3 <= Size /\ i \in 1..Len(whole) - 3
        /\ i \in 1..len' /\ i + 1 \in 1..len' /\ i + 2 \in 1..len' /\ i + 3 \in 1..len'
    BY <1>3, <1>4, <2>1, <2>2
  <2>4. /\ whole[i] = "\r" /\ whole[i + 1] = "\n"
        /\ whole[i + 2] = "\r" /\ whole[i + 3] = "\n"
    BY <1>3, <2>2, <2>3 DEF OnlyAtEnd
  <2>5. OnHeaders(buf', len', len, k)
    BY <1>6, <1>11, <2>3, <2>4
  <2> QED
    BY <1>15, <2>5
<1>13. EarlyOnlyOnStale'
  <2> SUFFICES ASSUME recvPc' = "returned", len' # Len(whole), caller = "ws" \/ calls <= 1,
                      len' # Size, ~\E c \in cuts : c < len' /\ c + len' > Size
               PROVE  FALSE
    BY <1>1, <1>2 DEF EarlyOnlyOnStale, Received, Types
  <2>5. ~LooksBehind(buf', len', len)
    <3>1. len = 0 \/ len + len' <= Size
      BY <1>2, <1>3, <1>4 DEF Pieces
    <3>2. \A i \in len + 1 .. len + len' - 3 : ~(i + 3 > Size)
      BY <1>3, <1>4, <3>1
    <3> QED
      BY <3>2 DEF LooksBehind
  <2>6. OnHeaders(buf', len', len, k)
    BY <1>1, <2>5 DEF Outcomes
  <2>1. PICK i \in len + 1 .. len + len' - 3 :
          /\ i + 3 <= Size
          /\ buf'[i] = "\r" /\ buf'[i + 1] = "\n" /\ buf'[i + 2] = "\r" /\ buf'[i + 3] = "\n"
    BY <1>11, <2>6
  <2>2. i \in Nat /\ i >= 1
    BY <1>3, <2>1
  <2>3. CASE i + 3 <= len'
    <3>1. /\ i \in 1..Len(whole) - 3 /\ i # Len(whole) - 3
          /\ i \in 1..len' /\ i + 1 \in 1..len' /\ i + 2 \in 1..len' /\ i + 3 \in 1..len'
      BY <1>3, <1>4, <2>2, <2>3
    <3>2. /\ whole[i] = "\r" /\ whole[i + 1] = "\n"
          /\ whole[i + 2] = "\r" /\ whole[i + 3] = "\n"
      BY <1>6, <2>1, <3>1
    <3> QED
      BY <1>3, <3>1, <3>2 DEF OnlyAtEnd
  <2>4. CASE ~(i + 3 <= len')
    <3>1. i + 3 \in len' + 1 .. Size
      BY <1>3, <1>4, <2>1, <2>2, <2>4
    <3> QED
      BY <1>2, <1>10, <2>1, <3>1 DEF EmptyBehind
  <2> QED
    BY <2>3, <2>4
<1> QED
  BY <1>7, <1>8, <1>10, <1>12, <1>13

(* The other steps receive nothing. *)
LEMMA OthersKeep ==
  Receiving /\ (ClientEnds \/ RecvEof \/ RecvFails \/ AnswerRequest \/ UNCHANGED recvVars) => Receiving'
<1> SUFFICES ASSUME Receiving, ClientEnds \/ RecvEof \/ RecvFails \/ AnswerRequest \/ UNCHANGED recvVars
             PROVE  Receiving'
  OBVIOUS
<1> USE DEF Receiving, recvVars, callVars, clientVars, Types, Pieces, EmptyBehind, StallsOnlyOnSplit,
            EarlyOnlyOnStale, Received
<1>1. CASE ClientEnds
  BY <1>1 DEF ClientEnds
<1>2. CASE RecvEof
  BY <1>2 DEF RecvEof
<1>3. CASE RecvFails
  BY <1>3, EmptySeq DEF RecvFails, OnlyAtEnd
<1>4. CASE AnswerRequest
  <2>1. OnlyAtEnd(<<>>) /\ <<>> \in Seq({"x", "\r", "\n"})
    BY EmptySeq DEF OnlyAtEnd
  <2>2. OnlyAtEnd(stream') /\ stream' \in Seq({"x", "\r", "\n"})
    <3>1. stream' = <<>> \/ stream' = stream
      BY <1>4 DEF AnswerRequest
    <3>2. OnlyAtEnd(stream) /\ stream \in Seq({"x", "\r", "\n"})
      OBVIOUS
    <3> QED
      BY <2>1, <3>1, <3>2
  <2> QED
    BY <1>4, <2>2 DEF AnswerRequest
<1>5. CASE UNCHANGED recvVars
  BY <1>5
<1> QED
  BY <1>1, <1>2, <1>3, <1>4, <1>5

-----------------------------------------------------------------------------
(* The invariant holds. *)
THEOREM ReceivingHolds == RecvSpec => []Receiving
<1>1. Receiving /\ [RecvNext]_recvVars => Receiving'
  BY RequestKeeps, RecvKeeps, OthersKeep DEF RecvNext
<1> QED
  BY <1>1, ReceivingInit, PTL DEF RecvSpec

(* The server waits for bytes no client has a reason to send only if the   *)
(* blank line came in two pieces, for requests of any content and any      *)
(* length, those longer than the buffer included.                          *)
THEOREM StallsOnlyOnSplitHolds == RecvSpec => []StallsOnlyOnSplit
<1>1. Receiving => StallsOnlyOnSplit
  BY DEF Receiving
<1> QED
  BY <1>1, ReceivingHolds, PTL

(* A request is handled too early only in the HTTP server, after another   *)
(* call, when it fills the buffer, when the search ran out of the buffer,  *)
(* or when the connection ended.                                           *)
THEOREM EarlyOnlyOnStaleHolds == RecvSpec => []EarlyOnlyOnStale
<1>1. Receiving => EarlyOnlyOnStale
  BY DEF Receiving
<1> QED
  BY <1>1, ReceivingHolds, PTL

-----------------------------------------------------------------------------
(* Loading and unloading                                                    *)

(* Where the loading thread is: before the mutexes, with them, after them. *)
Before == {"log_mutex", "open_log", "mutexes"}
With == Thread \cup {"running", "failed"} \cup (DeinitStep \ {"close_log"})
Past == {"close_log", "unloaded", "crashed"}

(* Where a thread has not been created. *)
UncreatedAt(t) ==
  CASE t = "http" -> Before \cup {"http"}
    [] t = "ws" -> Before \cup {"http", "ws"}
    [] t = "message" -> Before \cup {"http", "ws", "message"}

(* Where a thread has been joined. *)
JoinedAt(t) ==
  CASE t = "http" -> (DeinitStep \ {"stop_http", "join_http"}) \cup Past
    [] t = "ws" -> (DeinitStep \ {"stop_http", "join_http", "stop_ws", "join_ws"}) \cup Past
    [] t = "message" -> {"free_clients", "destroy"} \cup Past

LifecycleTypes ==
  /\ main \in Before \cup With \cup Past
  /\ thread \in [Thread -> {"none", "starting", "serving", "handling", "waiting", "returned"}]
  /\ socket \in [Server -> {"invalid", "listening", "closed", "left_open"}]
  /\ mutex \in [Mutex -> Int]

(* Each mutex that could be made is there from its creation to its         *)
(* destruction, once.                                                      *)
MutexesCounted ==
  /\ missing \subseteq Mutex
  /\ main = "log_mutex" => missing = {}
  /\ main \in Before => missing \cap Shared = {}
  /\ mutex["log"] = IF main = "log_mutex" \/ "log" \in missing THEN 0 ELSE 1
  /\ \A m \in Shared : mutex[m] = IF main \in With /\ m \notin missing THEN 1 ELSE 0

(* Deinit closes the log, or dies because there is none. *)
LogPlaced ==
  log_file \in CASE main = "unloaded" -> {"closed"}
                 [] main = "crashed" -> {"none"}
                 [] OTHER -> {"open", "none"}

(* No thread before its creation, and none that is joined runs. *)
ThreadsPlaced ==
  \A t \in Thread :
    /\ main \in UncreatedAt(t) => thread[t] = "none"
    /\ main \in JoinedAt(t) => thread[t] = "returned"

(* A listening socket is a running server's, or one that join will close. *)
SocketsPlaced ==
  \A t \in Server :
    /\ thread[t] \in {"none", "starting"} => socket[t] = "invalid"
    /\ main \in JoinedAt(t) => socket[t] # "listening"

Lifecycle ==
  LifecycleTypes /\ MutexesCounted /\ ThreadsPlaced /\ SocketsPlaced /\ LogPlaced

-----------------------------------------------------------------------------
(* Nothing is there at first. *)
LEMMA LifecycleInit == PluginInit => Lifecycle
BY DEF PluginInit, Lifecycle, LifecycleTypes, MutexesCounted, ThreadsPlaced, SocketsPlaced,
       LogPlaced, Before, With, Past, UncreatedAt, JoinedAt, Thread, Server, Mutex, Shared, DeinitStep

(* A step of one thread neither moves the loading thread nor touches a     *)
(* mutex; it may start to listen only while it is not joined.              *)
LEMMA ThreadMoves ==
  ASSUME Lifecycle, NEW t \in Thread,
         thread[t] \in {"starting", "serving", "handling", "waiting"},
         NEW x \in {"serving", "handling", "waiting", "returned"},
         thread' = [thread EXCEPT ![t] = x],
         UNCHANGED <<main, mutex, log_file, missing>>,
         \/ UNCHANGED socket
         \/ t \in Server /\ socket' = [socket EXCEPT ![t] = "listening"]
  PROVE  Lifecycle'
<1> USE DEF Lifecycle
<1>1. LifecycleTypes' /\ MutexesCounted' /\ LogPlaced'
  BY DEF LifecycleTypes, MutexesCounted, LogPlaced
<1>2. main \notin UncreatedAt(t) /\ main \notin JoinedAt(t)
  BY DEF ThreadsPlaced
<1>3. ThreadsPlaced'
  BY <1>2 DEF ThreadsPlaced, LifecycleTypes, UncreatedAt, JoinedAt
<1>4. SocketsPlaced'
  BY <1>2 DEF SocketsPlaced, LifecycleTypes, Server, Thread, JoinedAt
<1> QED
  BY <1>1, <1>3, <1>4

(* A step of deinit before the mutexes are destroyed: what it goes on to   *)
(* must be true of the threads it joined.                                  *)
LEMMA MainMoves ==
  ASSUME Lifecycle, UNCHANGED <<thread, mutex, log_file, missing>>,
         main \in With, main' \in With \ Thread,
         \A t \in Thread : main' \in JoinedAt(t) => thread[t] = "returned",
         socket' \in [Server -> {"invalid", "listening", "closed", "left_open"}],
         \A t \in Server : socket[t] = "invalid" => socket'[t] = "invalid",
         \A t \in Server : main' \in JoinedAt(t) => socket'[t] # "listening"
  PROVE  Lifecycle'
<1> USE DEF Lifecycle
<1>1. /\ main' \notin Before /\ main \notin Before
      /\ {main, main'} \cap {"unloaded", "crashed"} = {}
  BY DEF Before, With, DeinitStep, Thread, Server
<1>2. LifecycleTypes' /\ MutexesCounted' /\ LogPlaced'
  BY <1>1 DEF LifecycleTypes, MutexesCounted, LogPlaced, Before
<1>3. ThreadsPlaced'
  BY <1>1 DEF ThreadsPlaced, JoinedAt, UncreatedAt, Thread, Server
<1>4. SocketsPlaced'
  BY DEF SocketsPlaced, JoinedAt
<1> QED
  BY <1>1, <1>2, <1>3, <1>4

(* Every step keeps the invariant. *)
LEMMA LifecycleStep == Lifecycle /\ [PluginNext]_pluginVars => Lifecycle'
<1> SUFFICES ASSUME Lifecycle, [PluginNext]_pluginVars
             PROVE  Lifecycle'
  OBVIOUS
<1> USE DEF Lifecycle
<1>1. CASE UNCHANGED pluginVars
  BY <1>1 DEF pluginVars, LifecycleTypes, MutexesCounted, ThreadsPlaced, SocketsPlaced,
              LogPlaced, JoinedAt, UncreatedAt
<1>2. CASE CreateLogMutex \/ OpenLog \/ CreateMutexes
  <2> USE DEF Before, With, Past, UncreatedAt, JoinedAt, Thread, Server, Mutex, Shared, DeinitStep
  <2>1. LifecycleTypes'
    BY <1>2 DEF CreateLogMutex, OpenLog, CreateMutexes, Create, LifecycleTypes
  <2>3. MutexesCounted'
    <3>1. CASE OpenLog
      BY <3>1 DEF OpenLog, MutexesCounted
    <3>2. CASE CreateLogMutex
      BY <3>2 DEF CreateLogMutex, Create, LifecycleTypes, MutexesCounted
    <3>3. CASE CreateMutexes
      BY <3>3 DEF CreateMutexes, Create, LifecycleTypes, MutexesCounted
    <3> QED
      BY <1>2, <3>1, <3>2, <3>3
  <2>2. ThreadsPlaced' /\ SocketsPlaced' /\ LogPlaced'
    BY <1>2 DEF CreateLogMutex, OpenLog, CreateMutexes, ThreadsPlaced, SocketsPlaced, LogPlaced
  <2> QED
    BY <2>1, <2>2, <2>3
<1>3. CASE \E t \in Thread : CreateThread(t) \/ CreateThreadFails(t)
  <2>1. PICK t \in Thread : CreateThread(t) \/ CreateThreadFails(t)
    BY <1>3
  <2>2. /\ main = t /\ main' \in {After(t), "failed"}
        /\ UNCHANGED <<socket, mutex, log_file, missing>>
        /\ thread' = [thread EXCEPT ![t] = "starting"] \/ (UNCHANGED thread /\ main' = "failed")
    BY <2>1 DEF CreateThread, CreateThreadFails
  <2> USE DEF Before, With, Past, UncreatedAt, JoinedAt, Thread, Server, DeinitStep, After
  <2>3. LifecycleTypes' /\ MutexesCounted'
    BY <2>2 DEF LifecycleTypes, MutexesCounted
  <2>4. ThreadsPlaced' /\ LogPlaced'
    BY <2>2 DEF ThreadsPlaced, LifecycleTypes, LogPlaced
  <2>5. thread[t] = "none"
    BY <2>2 DEF ThreadsPlaced
  <2>6. SocketsPlaced'
    BY <2>2, <2>5 DEF SocketsPlaced, LifecycleTypes
  <2> QED
    BY <2>3, <2>4, <2>6
<1>4. CASE Starting
  <2>1. PICK t \in Thread : \/ Moves(t, "starting", "returned") /\ UNCHANGED socket
                            \/ /\ Moves(t, "starting", "serving")
                               /\ \/ UNCHANGED socket
                                  \/ t \in Server /\ socket' = [socket EXCEPT ![t] = "listening"]
    BY <1>4 DEF Starting, MessageStarts, ServeFails, ServeListens, Thread
  <2> QED
    BY <2>1, ThreadMoves DEF Moves
<1>5. CASE (\E t \in Thread : Loop(t)) \/ (\E t \in Server : PollFails(t))
  <2>1. PICK t \in Thread, from \in {"serving", "handling", "waiting"},
             to \in {"serving", "handling", "waiting", "returned"} :
          Moves(t, from, to) /\ UNCHANGED socket
    BY <1>5 DEF Loop, RoundBegins, Waits, GoesOn, RoundEnds, LoopEnds, PollFails, Thread
  <2> QED
    BY <2>1, ThreadMoves DEF Moves
<1>11. CASE SlotFails
  BY <1>11 DEF SlotFails, LifecycleTypes, MutexesCounted, ThreadsPlaced, SocketsPlaced,
               LogPlaced, JoinedAt, UncreatedAt
<1>6. CASE Unload
  <2> USE DEF With, Past, JoinedAt, Thread, Server, DeinitStep
  <2> QED
    BY <1>6, MainMoves DEF Unload, LifecycleTypes
<1>7. CASE \/ Stop("http", "stop_http", "join_http")
           \/ Stop("ws", "stop_ws", "join_ws")
           \/ Drain
           \/ Stop("message", "stop_message", "join_message")
           \/ FreeClients
  <2>1. UNCHANGED <<thread, mutex, socket, log_file, missing>> /\ main \in With /\ main' \in With \ Thread
    BY <1>7 DEF Stop, Drain, FreeClients, With, Thread, Server, DeinitStep
  <2>2. \A t \in Thread : main' \in JoinedAt(t) => main \in JoinedAt(t)
    BY <1>7 DEF Stop, Drain, FreeClients, JoinedAt, Past, Thread, Server, DeinitStep
  <2>3. \A t \in Server : t \in Thread
    BY DEF Thread
  <2> QED
    BY <2>1, <2>2, <2>3, MainMoves DEF LifecycleTypes, ThreadsPlaced, SocketsPlaced
<1>8. CASE \/ JoinServer("http", "join_http", "stop_ws")
           \/ JoinServer("ws", "join_ws", "drain")
  <2>1. PICK t \in Server :
          /\ Joined(t)
          /\ \/ socket[t] = "invalid" /\ UNCHANGED socket
             \/ /\ socket[t] # "invalid"
                /\ \E x \in {"closed", "left_open"} : socket' = [socket EXCEPT ![t] = x]
          /\ main = IF t = "http" THEN "join_http" ELSE "join_ws"
          /\ main' = IF t = "http" THEN "stop_ws" ELSE "drain"
    BY <1>8 DEF JoinServer, Server
  <2>2. UNCHANGED <<thread, mutex, log_file, missing>> /\ main \in With /\ main' \in With \ Thread
    BY <1>8 DEF JoinServer, With, Thread, Server, DeinitStep
  <2>3. \A u \in Thread : main' \in JoinedAt(u) => main \in JoinedAt(u) \/ u = t
    BY <2>1 DEF JoinedAt, Past, Thread, Server, DeinitStep
  <2>4. \A u \in Thread : main' \in JoinedAt(u) => thread[u] = "returned"
    BY <2>1, <2>3 DEF ThreadsPlaced, Joined
  <2>5. /\ socket' \in [Server -> {"invalid", "listening", "closed", "left_open"}]
        /\ \A u \in Server : socket[u] = "invalid" => socket'[u] = "invalid"
        /\ socket'[t] # "listening"
        /\ \A u \in Server : u # t => socket'[u] = socket[u]
    BY <2>1 DEF LifecycleTypes
  <2>6. \A u \in Server : main' \in JoinedAt(u) => socket'[u] # "listening"
    BY <2>3, <2>5 DEF SocketsPlaced, Thread
  <2> QED
    BY <2>2, <2>4, <2>5, <2>6, MainMoves
<1>9. CASE JoinMessage
  <2>1. /\ main = "join_message" /\ main' = "free_clients" /\ thread["message"] = "returned"
        /\ UNCHANGED <<thread, mutex, socket, log_file, missing>>
    BY <1>9 DEF JoinMessage, Joined
  <2>2. main \in With /\ main' \in With \ Thread
    BY <2>1 DEF With, Thread, Server, DeinitStep
  <2>3. \A t \in Thread : t = "message" \/ (t \in Server /\ main \in JoinedAt(t))
    BY <2>1 DEF JoinedAt, Past, Thread, Server, DeinitStep
  <2>4. \A t \in Server : t \in Thread /\ t # "message"
    BY DEF Thread, Server
  <2> QED
    BY <2>1, <2>2, <2>3, <2>4, MainMoves DEF LifecycleTypes, ThreadsPlaced, SocketsPlaced
<1>10. CASE DestroyMutexes \/ CloseLog
  <2>1. UNCHANGED <<thread, socket>> /\ main \in {"destroy", "close_log"} /\ main' \in Past
    BY <1>10 DEF DestroyMutexes, CloseLog, Past
  <2> USE DEF Before, With, Past, UncreatedAt, JoinedAt, Thread, Server, Mutex, Shared, DeinitStep
  <2>2. LifecycleTypes' /\ MutexesCounted'
    <3>1. LifecycleTypes'
      BY <1>10 DEF DestroyMutexes, CloseLog, LifecycleTypes
    <3>2. ASSUME DestroyMutexes
          PROVE  MutexesCounted'
      <4>1. main = "destroy" /\ main' = "close_log" /\ UNCHANGED missing
        BY <3>2 DEF DestroyMutexes
      <4>2. \A m \in Mutex : mutex'[m] = IF m \in Shared \ missing THEN mutex[m] - 1 ELSE mutex[m]
        BY <3>2 DEF DestroyMutexes
      <4> QED
        BY <4>1, <4>2 DEF MutexesCounted
    <3>3. CloseLog => MutexesCounted'
      BY DEF CloseLog, MutexesCounted
    <3> QED
      BY <1>10, <3>1, <3>2, <3>3
  <2>3. ThreadsPlaced' /\ SocketsPlaced'
    BY <2>1 DEF ThreadsPlaced, SocketsPlaced
  <2>4. LogPlaced'
    BY <1>10 DEF DestroyMutexes, CloseLog, LogPlaced
  <2> QED
    BY <2>2, <2>3, <2>4
<1> QED
  BY <1>1, <1>2, <1>3, <1>4, <1>5, <1>6, <1>7, <1>8, <1>9, <1>10, <1>11
     DEF PluginNext, Loading, Unloading

(* The invariant holds. *)
THEOREM LifecycleHolds == PluginSpec => []Lifecycle
BY LifecycleInit, LifecycleStep, PTL DEF PluginSpec

(* While a thread runs, or sessions can call logger_notify, each mutex     *)
(* they lock exists once, but for those mutex_create failed to make,       *)
(* however init and deinit end.                                            *)
THEOREM MutexesStayUsable == PluginSpec => []MutexesUsable
<1>1. ASSUME Lifecycle
      PROVE  MutexesUsable
  <2> USE DEF Before, With, Past, UncreatedAt, JoinedAt, Thread, Server, Mutex, Shared, DeinitStep
  <2>1. (\E t \in Thread : Alive(t)) => main \in With
    BY <1>1 DEF Lifecycle, LifecycleTypes, ThreadsPlaced, Alive
  <2>2. main \in With => \A m \in Mutex : mutex[m] = IF m \in missing THEN 0 ELSE 1
    BY <1>1 DEF Lifecycle, MutexesCounted
  <2> QED
    BY <2>1, <2>2 DEF MutexesUsable
<1> QED
  BY <1>1, LifecycleHolds, PTL

(* An unload leaves no thread, no listening socket that was not handed to  *)
(* close_socket_nicely, no mutex but log_mutex and no open log, and it     *)
(* dies in fclose only when there was none.                                *)
THEOREM UnloadLeavesNothing == PluginSpec => []UnloadedClean
<1>1. Lifecycle => UnloadedClean
  BY DEF Lifecycle, MutexesCounted, ThreadsPlaced, SocketsPlaced, LogPlaced, UnloadedClean,
         Alive, JoinedAt, With, Past, Thread, Server, DeinitStep
<1> QED
  BY <1>1, LifecycleHolds, PTL

=============================================================================
