---------------------------- MODULE EncodingProofs ----------------------------
(***************************************************************************)
(* TLAPS proofs about what Algorithms encodes, for inputs of any length:   *)
(* the JSON of an event in its string buffer and what the page reads of    *)
(* it, the Base64 of some bytes, and the blocks of a message.              *)
(***************************************************************************)
EXTENDS Algorithms, TLAPS, WellFoundedInduction, SequenceTheorems

-----------------------------------------------------------------------------
(* Induction                                                                *)

(* A set of naturals that is not empty has a least element, and Min is it. *)
LEMMA MinIsLeast ==
  ASSUME NEW S \in SUBSET Nat, S # {}
  PROVE  Min(S) \in S /\ \A x \in S : Min(S) <= x
<1> DEFINE R == OpToRel(<, Nat)
<1>1. \E x \in S : \A y \in S : ~(<<y, x>> \in R)
  <2> HIDE DEF R
  <2>1. IsWellFoundedOn(R, Nat)
    BY Zenon, NatLessThanWellFounded DEF R
  <2> QED
    BY <2>1, WFMin
<1>2. \A x, y \in Nat : y < x => <<y, x>> \in R
  BY DEF OpToRel
<1>3. \E x \in S : \A y \in S : x <= y
  <2> HIDE DEF R
  <2>1. PICK x \in S : \A y \in S : ~(<<y, x>> \in R)
    BY <1>1
  <2>2. ASSUME NEW y \in S
        PROVE  x <= y
    <3>1. x \in Nat /\ y \in Nat /\ ~(y < x)
      BY <1>2, <2>1
    <3> QED
      BY <3>1
  <2> QED
    BY <2>2
<1> QED
  BY <1>3 DEF Min

(* Induction up to n: G is the set of the numbers a fact holds of. *)
LEMMA UpwardInduction ==
  ASSUME NEW n \in Nat, NEW G, 0 \in G,
         \A i \in 1..n : i - 1 \in G => i \in G
  PROVE  0..n \subseteq G
<1> DEFINE T == {i \in 0..n : i \notin G}
<1>1. SUFFICES ASSUME T # {}
               PROVE  FALSE
  OBVIOUS
<1>2. T \in SUBSET Nat
  OBVIOUS
<1>3. PICK m \in T : \A x \in T : m <= x
  BY <1>1, <1>2, MinIsLeast
<1>4. m \in 1..n /\ m - 1 \in 0..n /\ m - 1 \notin T
  BY <1>3
<1> QED
  BY <1>4

(* What a loop over 1..n computes, as a recursive function: it exists. *)
IsStep(S, n, step) == step \in [1..n -> [S -> S]]
Iterates(S, n, c, step, f) ==
  f \in [0..n -> S] /\ f[0] = c /\ \A i \in 1..n : f[i] = step[i][f[i - 1]]
LEMMA RecursionExists ==
  ASSUME NEW S, NEW n \in Nat, NEW c \in S, NEW step, IsStep(S, n, step)
  PROVE  \E f : Iterates(S, n, c, step, f)
<1> USE DEF IsStep
<1> DEFINE Solves(f, k) == f[0] = c /\ \A i \in 1..k : f[i] = step[i][f[i - 1]]
           G == {k \in 0..n : \E f \in [0..n -> S] : Solves(f, k)}
<1>1. 0 \in G
  <2>1. [i \in 0..n |-> c] \in [0..n -> S] /\ Solves([i \in 0..n |-> c], 0)
    OBVIOUS
  <2>2. \E f \in [0..n -> S] : Solves(f, 0)
    BY <2>1
  <2> QED
    BY <2>2
<1>2. ASSUME NEW k \in 1..n, k - 1 \in G
      PROVE  k \in G
  <2>1. PICK f \in [0..n -> S] : Solves(f, k - 1)
    BY <1>2
  <2> DEFINE h == [f EXCEPT ![k] = step[k][f[k - 1]]]
  <2>2. h \in [0..n -> S] /\ h[k] = step[k][f[k - 1]] /\ \A i \in 0..n : i # k => h[i] = f[i]
    OBVIOUS
  <2> HIDE DEF h
  <2>3. h[0] = c
    BY <2>1, <2>2
  <2>4. ASSUME NEW i \in 1..k
        PROVE  h[i] = step[i][h[i - 1]]
    <3>1. i \in 0..n /\ i - 1 \in 0..n /\ i - 1 # k
      OBVIOUS
    <3>2. h[i - 1] = f[i - 1]
      BY <2>2, <3>1
    <3>3. CASE i = k
      BY <2>2, <3>2, <3>3
    <3>4. CASE i # k
      <4>1. i \in 1..k - 1
        BY <3>4
      <4> QED
        BY <2>1, <2>2, <3>1, <3>2, <3>4, <4>1
    <3> QED
      BY <3>3, <3>4
  <2> QED
    BY <2>2, <2>3, <2>4
<1>3. n \in G
  <2> HIDE DEF G
  <2>1. 0..n \subseteq G
    BY <1>1, <1>2, UpwardInduction
  <2> QED
    BY <2>1
<1> QED
  BY <1>3 DEF Iterates

(* Sequences of up to n elements are sequences. *)
LEMMA UpToAreSequences ==
  ASSUME NEW S, NEW n \in Nat
  PROVE  UpTo(S, n) \subseteq Seq(S)
<1> SUFFICES ASSUME NEW t \in UpTo(S, n)
             PROVE  t \in Seq(S)
  OBVIOUS
<1>1. PICK F \in {[1..k -> S] : k \in 0..n} : t \in F
  BY Zenon DEF UpTo
<1>2. PICK k \in 0..n : t \in [1..k -> S]
  BY <1>1
<1> QED
  BY <1>2

-----------------------------------------------------------------------------
(* The string buffer                                                        *)

(* The loop of strbuf_realloc ends with room for the text and its NUL. *)
LEMMA GrownIsEnough ==
  ASSUME NEW count \in Nat \ {0}, NEW new_len \in Nat, count < new_len + 1
  PROVE  Json!Grown(count, new_len) \in Nat /\ Json!Grown(count, new_len) >= new_len + 1
<1> DEFINE n == new_len + 33
           K == 2 * n
           Step(f, c) == IF c >= n THEN c ELSE f[c * 2]
           g == CHOOSE f : f = [c \in 1..K |-> Step(f, c)]
<1>1. n \in Nat /\ n > 0 /\ K \in Nat /\ count \in 1..n - 1
  OBVIOUS
<1> HIDE DEF n
<1>2. \E f : f = [c \in 1..K |-> Step(f, c)]
  <2> DEFINE Solves(f, i) == \A c \in K - i + 1..K : f[c] = Step(f, c)
             G == {i \in 0..K : \E f \in [1..K -> Nat] : Solves(f, i)}
  <2>1. 0 \in G
    <3>1. [c \in 1..K |-> 0] \in [1..K -> Nat] /\ Solves([c \in 1..K |-> 0], 0)
      BY <1>1
    <3> QED
      BY <1>1, <3>1
  <2>2. ASSUME NEW i \in 1..K, i - 1 \in G
        PROVE  i \in G
    <3>1. PICK f \in [1..K -> Nat] : Solves(f, i - 1)
      BY <2>2
    <3> DEFINE h == [f EXCEPT ![K - i + 1] = Step(f, K - i + 1)]
    <3>2. K - i + 1 \in 1..K
      BY <1>1
    <3>3. Step(f, K - i + 1) \in Nat
      BY <1>1, <3>2
    <3>4. h \in [1..K -> Nat]
      BY <3>3
    <3>5. ASSUME NEW c \in K - i + 1..K
          PROVE  h[c] = Step(h, c)
      <4>1. c \in 1..K /\ (c < n => c * 2 \in 1..K /\ c * 2 # K - i + 1)
        BY <1>1
      <4>2. Step(h, c) = Step(f, c)
        BY <4>1
      <4>3. CASE c = K - i + 1
        BY <3>2, <4>2, <4>3
      <4>4. CASE c # K - i + 1
        <5>1. c \in K - (i - 1) + 1..K /\ h[c] = f[c]
          BY <1>1, <4>1, <4>4
        <5> QED
          BY <3>1, <4>2, <5>1
      <4> QED
        BY <4>3, <4>4
    <3> HIDE DEF h, Step
    <3>6. \E x \in [1..K -> Nat] : Solves(x, i)
      BY <3>4, <3>5
    <3> QED
      BY <1>1, <3>6
  <2>3. K \in G
    <3> HIDE DEF G
    <3> QED
      BY <1>1, <2>1, <2>2, UpwardInduction
  <2>4. PICK f \in [1..K -> Nat] : Solves(f, K)
    BY <2>3
  <2>5. \A c \in 1..K : f[c] = Step(f, c)
    BY <1>1, <2>4
  <2>6. f = [c \in 1..K |-> Step(f, c)]
    <3> HIDE DEF Step
    <3> QED
      BY <2>5
  <2> QED
    BY <2>6
<1>3. g = [c \in 1..K |-> Step(g, c)]
  BY <1>2
<1>4. \A c \in 1..K : g[c] = Step(g, c)
  BY <1>3
<1> HIDE DEF g
<1> DEFINE Enough(i) == \A c \in n - i..n : c > 0 => g[c] \in Nat /\ g[c] >= n
           H == {i \in 0..n : Enough(i)}
<1>5. 0 \in H
  <2>1. g[n] = n
    BY <1>1, <1>4
  <2> QED
    BY <1>1, <2>1
<1>6. ASSUME NEW i \in 1..n, i - 1 \in H
      PROVE  i \in H
  <2>1. SUFFICES ASSUME NEW c \in n - i..n, c > 0, c = n - i
                 PROVE  g[c] \in Nat /\ g[c] >= n
    BY <1>1, <1>6
  <2>2. g[c] = g[c * 2] /\ c * 2 \in 1..K
    BY <1>1, <1>4, <2>1
  <2>3. CASE c * 2 >= n
    BY <1>1, <1>4, <2>2, <2>3
  <2>4. CASE c * 2 < n
    <3>1. c * 2 \in n - (i - 1)..n
      BY <1>1, <2>1, <2>4
    <3> QED
      BY <1>6, <2>1, <2>2, <3>1
  <2> QED
    BY <1>1, <2>1, <2>3, <2>4
<1>7. n \in H
  <2> HIDE DEF H
  <2> QED
    BY <1>1, <1>5, <1>6, UpwardInduction
<1>8. g[count] \in Nat /\ g[count] >= n
  BY <1>1, <1>7
<1>9. Json!Grown(count, new_len) = g[count]
  BY DEF Json!Grown, Json!STRBUF_ALLOC_MIN_MARGIN, Json!STRBUF_SIZE_MULTIPLIER, g, n
<1> QED
  BY <1>1, <1>8, <1>9 DEF n

-----------------------------------------------------------------------------
(* What the encoder appends                                                 *)

(* The texts of events, and events with texts of any length. *)
Chars == Seq(Json!Char)
Raised ==
  [subclass : {"LOG", "ERROR", "RESULT"}, user : Chars \cup {Json!NULL},
   query : Chars \cup {Json!NULL}, command : Chars, database : Chars \cup {Json!NULL}]

(* The tokens of a message; a string of it has no NUL. *)
Key == {"type", "user", "query", "query_id", "database", "error_message"}
Type == {"query_start", "query_error", "query_result"}
TextChar == (Json!Char \ {"^@"}) \cup Type
Token ==
  Json!Char \cup Key \cup Type
    \cup {"{", "}", ",", ":", "\"", "\\", "n", "t", "nu", "ll", "1", "2", "\t", "NULL"}

(* An append: one token or two. *)
Few == {t \in Seq(Token) : Len(t) \in {1, 2}}
Appends == [text : Few, skips : Nat]

(* The state of the encoder, with a buffer that was not overrun. *)
Buffer == [str : Seq(Token), max_count : Nat]
Encodings ==
  [json : Buffer, skips : Nat, tries : Nat, failures : Nat, recovered : BOOLEAN]
Encoder == {r \in Encodings : Json!FitsInside(r.json)}

(* An append is left out, fails, or is made, in the room there is or in    *)
(* more; nothing else changes.                                             *)
LeftOut(r, y) == r.skips > 0 /\ y = [r EXCEPT !.skips = r.skips - 1]
Failed(r, part, y) ==
  /\ r.skips = 0
  /\ Len(r.json.str) + Len(part.text) + 1 > r.json.max_count
  /\ y = [r EXCEPT !.skips = part.skips, !.tries = r.tries + 1, !.failures = r.failures + 1]
Made(r, part, y) ==
  /\ r.skips = 0
  /\ \E m \in Nat, k \in Nat, b \in BOOLEAN :
       /\ \/ m = r.json.max_count /\ b = r.recovered
          \/ b = (r.failures > 0)
       /\ y = [r EXCEPT !.json = [str |-> r.json.str \o part.text, max_count |-> m],
                        !.tries = k, !.recovered = b]
PutOutcome(r, part, y) == LeftOut(r, y) \/ Failed(r, part, y) \/ Made(r, part, y)

LEMMA PutFacts ==
  ASSUME NEW r \in Encoder, NEW part \in Appends, NEW failing
  PROVE  /\ Json!Put(r, part, failing) \in Encoder
         /\ PutOutcome(r, part, Json!Put(r, part, failing))
<1> DEFINE p == Json!Put(r, part, failing)
           len == Len(r.json.str) + Len(part.text)
<1>1. /\ r \in Encodings
      /\ Len(r.json.str) + 1 <= r.json.max_count
  BY DEF Encoder, Json!FitsInside
<1>2. /\ r.json \in Buffer /\ r.skips \in Nat /\ r.tries \in Nat /\ r.failures \in Nat
      /\ r.recovered \in BOOLEAN
  BY <1>1 DEF Encodings
<1>3. r.json.str \in Seq(Token) /\ r.json.max_count \in Nat
  BY <1>2 DEF Buffer
<1>4. part.text \in Seq(Token) /\ part.skips \in Nat
  BY DEF Appends, Few
<1>5. /\ Len(r.json.str) \in Nat /\ Len(part.text) \in Nat
      /\ r.json.str \o part.text \in Seq(Token)
      /\ Len(r.json.str \o part.text) = len
  BY <1>3, <1>4, ConcatProperties
<1>6. CASE r.skips > 0
  <2>1. p = [r EXCEPT !.skips = r.skips - 1]
    BY <1>6 DEF Json!Put
  <2>2. p \in Encoder
    BY <1>1, <1>6, <2>1 DEF Encodings, Encoder, Json!FitsInside
  <2>3. LeftOut(r, p)
    BY <1>6, <2>1, Zenon DEF LeftOut
  <2> QED
    BY <2>2, <2>3, Zenon DEF PutOutcome
<1>7. CASE r.skips = 0 /\ ~Json!Fits(r.json, len) /\ r.tries \in failing
  <2>1. p = [r EXCEPT !.skips = part.skips, !.tries = r.tries + 1, !.failures = r.failures + 1]
    BY <1>7 DEF Json!Put
  <2>2. p \in Encodings /\ p.json = r.json
    <3>1. r.failures + 1 \in Nat /\ r.tries + 1 \in Nat
      BY <1>2
    <3> HIDE DEF p, Buffer
    <3> QED
      BY <1>1, <1>4, <2>1, <3>1 DEF Encodings
  <2>3. p \in Encoder
    BY <1>1, <2>2 DEF Encoder, Json!FitsInside
  <2>4. len + 1 > r.json.max_count
    <3>1. ~(len + 1 <= r.json.max_count)
      BY <1>7 DEF Json!Fits
    <3>2. PICK a \in Nat, b \in Nat, m \in Nat :
            a = Len(r.json.str) /\ b = Len(part.text) /\ m = r.json.max_count
      BY <1>3, <1>5
    <3>3. ~(a + b + 1 <= m)
      BY <3>1, <3>2
    <3>4. a + b + 1 > m
      BY <3>3
    <3> QED
      BY <3>2, <3>4
  <2>5. Failed(r, part, p)
    BY <1>7, <2>1, <2>4, Zenon DEF Failed
  <2> QED
    BY <2>3, <2>5, Zenon DEF PutOutcome
<1>8. CASE r.skips = 0 /\ (Json!Fits(r.json, len) \/ r.tries \notin failing)
  <2> DEFINE room == Json!WithRoom(r.json, len)
             fits == Json!Fits(r.json, len)
  <2>1. room.str = r.json.str /\ room.max_count \in Nat /\ len + 1 <= room.max_count
    <3>1. CASE fits
      BY <1>3, <1>5, <3>1 DEF Json!WithRoom, Json!Fits
    <3>2. CASE ~fits
      <4>1. r.json.max_count < len + 1 /\ r.json.max_count \in Nat \ {0} /\ len \in Nat
        <5>1. ~(len + 1 <= r.json.max_count)
          BY <3>2 DEF Json!Fits
        <5>2. PICK m \in Nat : m = r.json.max_count
          BY <1>3
        <5>3. PICK k \in Nat : k = Len(r.json.str)
          BY <1>5
        <5>4. PICK t \in Nat : t = Len(part.text)
          BY <1>5
        <5>5. ~(k + t + 1 <= m) /\ k + 1 <= m
          BY <1>1, <5>1, <5>2, <5>3, <5>4
        <5>6. m < k + t + 1 /\ m \in Nat \ {0} /\ k + t \in Nat
          BY <5>5
        <5> QED
          BY <5>2, <5>3, <5>4, <5>6
      <4>2. /\ Json!Grown(r.json.max_count, len) \in Nat
            /\ Json!Grown(r.json.max_count, len) >= len + 1
        BY <4>1, GrownIsEnough
      <4>3. room = [r.json EXCEPT !.max_count = Json!Grown(r.json.max_count, len)]
        BY <3>2 DEF Json!WithRoom
      <4> QED
        BY <1>2, <4>1, <4>2, <4>3 DEF Buffer
    <3> QED
      BY <3>1, <3>2
  <2>2. room = [str |-> r.json.str, max_count |-> room.max_count]
    <3>1. room \in Buffer
      BY <1>2, <2>1 DEF Json!WithRoom, Buffer
    <3> QED
      BY <2>1, <3>1 DEF Buffer
  <2>3. PICK m \in Nat : m = room.max_count
    BY <2>1
  <2>4. fits => m = r.json.max_count
    BY <2>3 DEF Json!WithRoom
  <2>5. Json!StrbufAppend(r.json, part.text) =
          [str |-> r.json.str \o part.text, max_count |-> m]
    <3>1. Json!StrbufAppend(r.json, part.text) =
            [room EXCEPT !.str = room.str \o part.text]
      BY DEF Json!StrbufAppend
    <3> HIDE DEF room
    <3> QED
      BY <2>1, <2>2, <2>3, <3>1
  <2>6. ~(r.skips > 0)
    BY <1>8
  <2>7. PICK j : j = [str |-> r.json.str \o part.text, max_count |-> m]
    OBVIOUS
  <2>8. PICK k \in Nat, b \in BOOLEAN :
          /\ (m = r.json.max_count /\ b = r.recovered) \/ b = (r.failures > 0)
          /\ p = [r EXCEPT !.json = j, !.tries = k, !.recovered = b]
    <3> HIDE DEF room, fits
    <3>1. CASE fits
      <4>1. p = [r EXCEPT !.json = j]
        BY <1>8, <2>5, <2>6, <2>7, <3>1, Zenon DEF Json!Put, fits
      <4>2. [r EXCEPT !.json = j] = [r EXCEPT !.json = j, !.tries = r.tries, !.recovered = r.recovered]
        BY <1>1 DEF Encodings
      <4> QED
        BY <1>2, <2>4, <3>1, <4>1, <4>2, Zenon
    <3>2. CASE ~fits
      <4>1. p = [r EXCEPT !.json = j, !.tries = r.tries + 1, !.recovered = r.failures > 0]
        BY <1>8, <2>5, <2>6, <2>7, <3>2, Zenon DEF Json!Put, fits
      <4>2. r.tries + 1 \in Nat /\ (r.failures > 0) \in BOOLEAN
        BY <1>2
      <4> QED
        BY <4>1, <4>2, Zenon
    <3> QED
      BY <3>1, <3>2
  <2> HIDE DEF room, fits
  <2>9. p \in Encoder
    <3>1. p \in Encodings /\ p.json = j
      <4>1. j \in Buffer
        BY <1>5, <2>3, <2>7 DEF Buffer
      <4> HIDE DEF p, Buffer
      <4> QED
        BY <1>1, <2>8, <4>1 DEF Encodings
    <3>2. len + 1 <= m
      BY <2>1, <2>3
    <3>3. PICK t \in Seq(Token) : t = r.json.str \o part.text
      BY <1>5
    <3> HIDE DEF p
    <3>4. p.json = [str |-> t, max_count |-> m]
      BY <2>7, <3>1, <3>3
    <3>5. p.json.str = t /\ p.json.max_count = m
      BY <3>4
    <3>6. Len(p.json.str) + 1 <= p.json.max_count
      BY <1>5, <3>2, <3>3, <3>5
    <3> QED
      BY <3>1, <3>6 DEF Encoder, Json!FitsInside
  <2>10. Made(r, part, p)
    BY <1>8, <2>7, <2>8, Zenon DEF Made
  <2> QED
    BY <2>9, <2>10, Zenon DEF PutOutcome
<1>9. r.skips > 0 \/ r.skips = 0
  BY <1>2
<1>10. (~Json!Fits(r.json, len) /\ r.tries \in failing)
         \/ Json!Fits(r.json, len) \/ r.tries \notin failing
  OBVIOUS
<1> QED
  BY <1>6, <1>7, <1>8, <1>9, <1>10, Zenon

(* Sequences of appends, put together. *)
LEMMA AppendsCat ==
  ASSUME NEW a \in Seq(Appends), NEW b \in Seq(Appends)
  PROVE  a \o b \in Seq(Appends)
BY ConcatProperties

LEMMA OnePart ==
  ASSUME NEW t \in Few
  PROVE  <<Json!Part(t)>> \in Seq(Appends)
<1>1. Json!Part(t) \in Appends
  BY DEF Json!Part, Appends
<1> QED
  BY <1>1

LEMMA ShortTuples ==
  ASSUME NEW S, NEW c \in S, NEW d \in S
  PROVE  /\ <<c>> \in Seq(S) /\ Len(<<c>>) = 1 /\ <<c>>[1] = c
         /\ <<c, d>> \in Seq(S) /\ Len(<<c, d>>) = 2 /\ <<c, d>>[1] = c /\ <<c, d>>[2] = d
OBVIOUS

LEMMA OneToken ==
  ASSUME NEW c \in Token
  PROVE  <<c>> \in Few
BY ShortTuples DEF Few

LEMMA TwoTokens ==
  ASSUME NEW c \in Token, NEW d \in Token
  PROVE  <<c, d>> \in Few
BY ShortTuples DEF Few

(* An escaped character is one token or two. *)
LEMMA EscapeIsFew ==
  ASSUME NEW c \in Token
  PROVE  Json!Escape(c) \in Few
<1>1. \A x \in Token : <<"\\", x>> \in Few
  <2>1. "\\" \in Token
    BY Zenon DEF Token
  <2> QED
    BY <2>1, TwoTokens
<1>2. <<c>> \in Few
  BY OneToken
<1> QED
  <2>1. {"\"", "\\", "n", "t"} \subseteq Token
    BY Zenon DEF Token
  <2> QED
    BY Zenon, <1>1, <1>2, <2>1 DEF Json!Escape

LEMMA QuoteIsAppends == Json!Quote \in Seq(Appends)
<1>1. <<"\"">> \in Few
  <2>1. "\"" \in Token
    BY DEF Token
  <2> QED
    BY Zenon, <2>1, OneToken
<1> QED
  BY Zenon, <1>1, OnePart DEF Json!Quote

(* The texts an event has: strings of characters, NULL, and the types. *)
(* The string that strlen counts has no NUL, and a text that has none is   *)
(* the whole string.                                                       *)
LEMMA CStringFacts ==
  ASSUME NEW S, NEW s \in Seq(S)
  PROVE  /\ Json!CString(s) \in Seq(S \ {"^@"})
         /\ s \in Seq(S \ {"^@"}) => Json!CString(s) = s
<1>1. PICK n \in Nat : n = Len(s)
  OBVIOUS
<1> DEFINE ends == {i \in 1..n : s[i] = "^@"} \cup {n + 1}
<1>2. PICK m \in ends : m = Json!Min(ends) /\ \A x \in ends : m <= x
  <2>1. ends \in SUBSET Nat /\ ends # {}
    OBVIOUS
  <2> HIDE DEF ends
  <2>2. Json!Min(ends) = Min(ends)
    BY DEF Json!Min, Min
  <2> QED
    BY <2>1, <2>2, MinIsLeast
<1>3. m - 1 \in 0..n /\ m - 1 \in Nat
  OBVIOUS
<1>4. \A i \in 1..m - 1 : i \in 1..n /\ s[i] \in S \ {"^@"}
  <2> SUFFICES ASSUME NEW i \in 1..m - 1
               PROVE  i \in 1..n /\ s[i] \in S \ {"^@"}
    OBVIOUS
  <2>1. i \in 1..n /\ ~(m <= i)
    BY <1>3
  <2>2. s[i] \in S
    BY <1>1, <2>1, ElementOfSeq
  <2> QED
    BY <1>2, <2>1, <2>2
<1>5. Json!CString(s) = SubSeq(s, 1, m - 1)
  BY <1>1, <1>2 DEF Json!CString
<1> HIDE DEF ends
<1>6. SubSeq(s, 1, m - 1) = [i \in 1..m - 1 |-> s[i]]
  BY <1>1, <1>3
<1>7. [i \in 1..m - 1 |-> s[i]] \in Seq(S \ {"^@"})
  BY <1>3, <1>4
<1>8. ASSUME s \in Seq(S \ {"^@"})
      PROVE  m - 1 = n
  <2>1. \A i \in 1..n : s[i] # "^@"
    BY <1>1, <1>8, ElementOfSeq
  <2>2. m = n + 1
    BY <1>2, <2>1 DEF ends
  <2> QED
    BY <2>2
<1>9. s = [i \in 1..n |-> s[i]]
  BY <1>1
<1> QED
  BY <1>5, <1>6, <1>7, <1>8, <1>9

LEMMA StringIsAppends ==
  ASSUME NEW s \in Seq(Token) \cup {Json!NULL}
  PROVE  Json!JsonEncodeString(s) \in Seq(Appends)
<1>1. <<Json!Part(<<"nu", "ll">>)>> \in Seq(Appends)
  <2>1. <<"nu", "ll">> \in Few
    <3>1. "nu" \in Token /\ "ll" \in Token
      BY Zenon DEF Token
    <3> QED
      BY <3>1, TwoTokens
  <2> QED
    BY <2>1, OnePart
<1>2. Json!Quote \in Seq(Appends)
  BY QuoteIsAppends
<1>3. CASE s = Json!NULL
  BY <1>1, <1>3 DEF Json!JsonEncodeString
<1>4. CASE s # Json!NULL
  <2>0. PICK c \in Seq(Token) : c = Json!CString(s)
    <3>1. s \in Seq(Token) /\ Token \ {"^@"} \subseteq Token
      BY <1>4
    <3> HIDE DEF Token
    <3>2. Json!CString(s) \in Seq(Token \ {"^@"})
      BY <3>1, CStringFacts
    <3> QED
      BY <3>2
  <2> DEFINE m == [i \in 1..Len(c) |-> [text |-> Json!Escape(c[i]), skips |-> Json!Skips(c, i)]]
  <2>1. Len(c) \in Nat
    OBVIOUS
  <2>2. ASSUME NEW i \in 1..Len(c)
        PROVE  m[i] \in Appends
    <3>1. Json!Escape(c[i]) \in Few
      <4>1. c[i] \in Token
        BY <2>1
      <4> QED
        BY <4>1, EscapeIsFew
    <3>2. Json!Skips(c, i) \in Nat
      BY <2>1 DEF Json!Skips
    <3> QED
      BY <3>1, <3>2 DEF Appends
  <2>3. m \in Seq(Appends)
    <3> HIDE DEF m
    <3>1. m \in [1..Len(c) -> Appends]
      <4>1. m = [i \in 1..Len(c) |-> m[i]]
        BY DEF m
      <4> QED
        BY <2>2, <4>1
    <3> QED
      BY <2>1, <3>1
  <2> HIDE DEF m
  <2>4. Json!JsonEncodeString(s) = Json!Quote \o m \o Json!Quote
    BY <1>4, <2>0 DEF Json!JsonEncodeString, Json!EncodeText, m
  <2>5. Json!Quote \o m \in Seq(Appends)
    BY <1>2, <2>3, AppendsCat
  <2> QED
    BY <1>2, <2>4, <2>5, AppendsCat
<1> QED
  BY <1>3, <1>4

LEMMA MemberIsAppends ==
  ASSUME NEW key \in Token, NEW value \in Seq(Appends)
  PROVE  Json!Member(key, value) \in Seq(Appends)
<1>1. Json!Quote \in Seq(Appends)
  BY QuoteIsAppends
<1>2. <<Json!Part(<<key>>)>> \in Seq(Appends) /\ <<Json!Part(<<":">>)>> \in Seq(Appends)
  <2>1. <<key>> \in Few /\ <<":">> \in Few
    <3>1. ":" \in Token
      BY Zenon DEF Token
    <3> QED
      BY <3>1, OneToken
  <2> QED
    BY <2>1, OnePart
<1>3. Json!Quote \o <<Json!Part(<<key>>)>> \in Seq(Appends)
  BY <1>1, <1>2, AppendsCat
<1>4. Json!Quote \o <<Json!Part(<<key>>)>> \o Json!Quote \in Seq(Appends)
  BY <1>1, <1>3, AppendsCat
<1>5. Json!Quote \o <<Json!Part(<<key>>)>> \o Json!Quote \o <<Json!Part(<<":">>)>> \in Seq(Appends)
  BY <1>2, <1>4, AppendsCat
<1> QED
  BY <1>5, AppendsCat DEF Json!Member

LEMMA CommaIsAppends == Json!Comma \in Seq(Appends)
<1>1. <<",">> \in Few
  <2>1. "," \in Token
    BY DEF Token
  <2> QED
    BY Zenon, <2>1, OneToken
<1> QED
  BY Zenon, <1>1, OnePart DEF Json!Comma

(* The members of a message, and the commas between them. *)
TypeMember(e) ==
  Json!Member("type", Json!JsonEncodeString(
    CASE e.subclass = "LOG"    -> <<"query_start">>
      [] e.subclass = "ERROR"  -> <<"query_error">>
      [] e.subclass = "RESULT" -> <<"query_result">>))
UserMember(e) == Json!Member("user", Json!JsonEncodeString(e.user))
QueryMember(e) == Json!Member("query", Json!JsonEncodeString(QueryOf(e)))
IdMember == Json!Member("query_id", <<Json!Part(Json!Number)>>)
DatabaseMember(e) == Json!Member("database", Json!JsonEncodeString(e.database))
ErrorMember(e) == Json!Member("error_message", Json!JsonEncodeString(e.command))

Members(e) ==
  CASE e.subclass = "LOG" ->
         TypeMember(e) \o Json!Comma \o UserMember(e) \o Json!Comma \o QueryMember(e)
           \o Json!Comma \o IdMember \o Json!Comma \o DatabaseMember(e)
    [] e.subclass = "ERROR" ->
         TypeMember(e) \o Json!Comma \o IdMember \o Json!Comma \o ErrorMember(e)
    [] e.subclass = "RESULT" -> TypeMember(e) \o Json!Comma \o IdMember

LEMMA PartsAreMembers ==
  ASSUME NEW e \in Raised
  PROVE  Json!Parts(e) = <<Json!Part(<<"{">>)>> \o Members(e) \o <<Json!Part(<<"}">>)>>
<1>1. e.subclass \in {"LOG", "ERROR", "RESULT"}
  BY DEF Raised
<1>2. CASE e.subclass = "LOG"
  BY Zenon, <1>2 DEF Json!Parts, Members, TypeMember, UserMember, QueryMember, QueryOf, IdMember,
              DatabaseMember
<1>3. CASE e.subclass = "ERROR"
  BY Zenon, <1>3 DEF Json!Parts, Members, TypeMember, IdMember, ErrorMember
<1>4. CASE e.subclass = "RESULT"
  BY Zenon, <1>4 DEF Json!Parts, Members, TypeMember, IdMember
<1> QED
  BY Zenon, <1>1, <1>2, <1>3, <1>4

LEMMA EventTexts ==
  ASSUME NEW e \in Raised
  PROVE  {e.user, QueryOf(e), e.database, e.command} \subseteq Seq(Token) \cup {Json!NULL}
<1>1. Json!Char \subseteq Token
  BY Zenon DEF Token
<1>2. Chars \subseteq Seq(Token)
  BY <1>1 DEF Chars
<1> QED
  BY <1>2 DEF Raised, QueryOf

LEMMA TypeText ==
  ASSUME NEW t \in Type
  PROVE  <<t>> \in Seq(Token)
<1>1. t \in Token
  BY Zenon DEF Token
<1> QED
  BY <1>1, ShortTuples

LEMMA MembersTyped ==
  ASSUME NEW e \in Raised
  PROVE  /\ TypeMember(e) \in Seq(Appends)
         /\ UserMember(e) \in Seq(Appends)
         /\ QueryMember(e) \in Seq(Appends)
         /\ IdMember \in Seq(Appends)
         /\ DatabaseMember(e) \in Seq(Appends)
         /\ ErrorMember(e) \in Seq(Appends)
<1> DEFINE type == CASE e.subclass = "LOG"    -> <<"query_start">>
                     [] e.subclass = "ERROR"  -> <<"query_error">>
                     [] e.subclass = "RESULT" -> <<"query_result">>
<1>1. type \in Seq(Token)
  <2>1. {"query_start", "query_error", "query_result"} \subseteq Type
    BY DEF Type
  <2>2. e.subclass \in {"LOG", "ERROR", "RESULT"}
    BY DEF Raised
  <2>3. \A t \in Type : <<t>> \in Seq(Token)
    BY TypeText
  <2> QED
    BY <2>1, <2>2, <2>3
<1> HIDE DEF type
<1>2. \A s \in Seq(Token) \cup {Json!NULL} : Json!JsonEncodeString(s) \in Seq(Appends)
  BY StringIsAppends
<1>3. {"type", "user", "query", "query_id", "database", "error_message"} \subseteq Token
  BY DEF Token, Key
<1>4. \A key \in Token : \A value \in Seq(Appends) : Json!Member(key, value) \in Seq(Appends)
  BY MemberIsAppends
<1>5. <<Json!Part(Json!Number)>> \in Seq(Appends)
  <2>1. "1" \in Token /\ "2" \in Token
    BY DEF Token
  <2>2. <<"1", "2">> \in Few
    BY <2>1, TwoTokens
  <2> QED
    BY <2>2, OnePart DEF Json!Number
<1>6. TypeMember(e) = Json!Member("type", Json!JsonEncodeString(type))
  BY DEF TypeMember, type
<1> QED
  BY <1>1, <1>2, <1>3, <1>4, <1>5, <1>6, EventTexts
     DEF UserMember, QueryMember, IdMember, DatabaseMember, ErrorMember

LEMMA PartsTyped ==
  ASSUME NEW e \in Raised
  PROVE  Json!Parts(e) \in Seq(Appends) /\ Members(e) \in Seq(Appends)
<1>1. \A a, b \in Seq(Appends) : a \o b \in Seq(Appends)
  BY AppendsCat
<1>2. e.subclass \in {"LOG", "ERROR", "RESULT"}
  BY DEF Raised
<1>3. Members(e) \in Seq(Appends)
  BY <1>1, <1>2, MembersTyped, CommaIsAppends DEF Members
<1>4. <<Json!Part(<<"{">>)>> \in Seq(Appends) /\ <<Json!Part(<<"}">>)>> \in Seq(Appends)
  <2>1. "{" \in Token /\ "}" \in Token
    BY DEF Token
  <2>2. <<"{">> \in Few /\ <<"}">> \in Few
    BY Zenon, <2>1, OneToken
  <2> QED
    BY Zenon, <2>2, OnePart
<1> QED
  BY Zenon, <1>1, <1>3, <1>4, PartsAreMembers

(* Appends, one after the other. *)
PutsAll(r, parts, failing, put) ==
  /\ put \in [0..Len(parts) -> Encoder]
  /\ put[0] = r
  /\ \A i \in 1..Len(parts) : put[i] = Json!Put(put[i - 1], parts[i], failing)
  /\ Json!PutAll(r, parts, failing) = put[Len(parts)]

LEMMA PutAllSteps ==
  ASSUME NEW r \in Encoder, NEW parts \in Seq(Appends), NEW failing
  PROVE  \E put : PutsAll(r, parts, failing, put)
<1>2. PICK n \in Nat : n = Len(parts)
  OBVIOUS
<1> DEFINE step == [i \in 1..n |-> [x \in Encoder |-> Json!Put(x, parts[i], failing)]]
           Solves(f) == f = [i \in 0..n |-> IF i = 0 THEN r
                                            ELSE Json!Put(f[i - 1], parts[i], failing)]
<1>4. \A i \in 1..n : \A x \in Encoder : Json!Put(x, parts[i], failing) \in Encoder
  <2>1. \A i \in 1..n : parts[i] \in Appends
    BY <1>2
  <2> QED
    BY <2>1, PutFacts
<1>5. IsStep(Encoder, n, step)
  BY <1>4 DEF IsStep
<1>6. \A i \in 1..n : \A x \in Encoder : step[i][x] = Json!Put(x, parts[i], failing)
  OBVIOUS
<1> HIDE DEF step
<1>7. PICK f : Iterates(Encoder, n, r, step, f)
  BY <1>5, RecursionExists
<1>8. \A i \in 1..n : f[i] = Json!Put(f[i - 1], parts[i], failing)
  <2>1. \A i \in 1..n : f[i - 1] \in Encoder
    BY <1>7 DEF Iterates
  <2> QED
    BY <1>6, <1>7, <2>1 DEF Iterates
<1>9. Solves(f)
  BY <1>7, <1>8 DEF Iterates
<1> DEFINE g == CHOOSE x : Solves(x)
<1>10. Solves(g)
  BY <1>9
<1> HIDE DEF g
<1>11. \A i \in 0..n : g[i] = IF i = 0 THEN r ELSE Json!Put(g[i - 1], parts[i], failing)
  BY <1>10
<1>12. 0..n \subseteq {i \in 0..n : g[i] \in Encoder}
  <2> DEFINE G == {i \in 0..n : g[i] \in Encoder}
  <2>1. 0 \in G
    BY <1>11
  <2>2. \A i \in 1..n : i - 1 \in G => i \in G
    <3>1. \A i \in 1..n : g[i] = Json!Put(g[i - 1], parts[i], failing)
      BY <1>11
    <3> QED
      BY <1>4, <3>1
  <2> HIDE DEF G
  <2>3. 0..n \subseteq G
    BY <2>1, <2>2, UpwardInduction
  <2> QED
    BY <2>3 DEF G
<1>13. g \in [0..n -> Encoder]
  <2>1. g = [i \in 0..n |-> g[i]]
    BY <1>10
  <2> QED
    BY <1>12, <2>1
<1>14. Json!PutAll(r, parts, failing) = g[n]
  BY <1>2, Zenon DEF Json!PutAll, g
<1>15. g[0] = r
  BY <1>11
<1>16. \A i \in 1..n : g[i] = Json!Put(g[i - 1], parts[i], failing)
  BY <1>11
<1> QED
  BY <1>2, <1>13, <1>14, <1>15, <1>16 DEF PutsAll

LEMMA StartIsEncoder ==
  ASSUME NEW size \in Nat \ {0}
  PROVE  Json!EncodeStart(size) \in Encoder
<1>1. <<>> \in Seq(Token) /\ Len(<<>>) = 0
  OBVIOUS
<1> QED
  BY <1>1 DEF Json!EncodeStart, Json!StrbufAlloc, Encoder, Encodings, Buffer, Json!FitsInside

LEMMA PutAllTyped ==
  ASSUME NEW r \in Encoder, NEW parts \in Seq(Appends), NEW failing
  PROVE  Json!PutAll(r, parts, failing) \in Encoder
<1>1. PICK put : PutsAll(r, parts, failing, put)
  BY PutAllSteps
<1> QED
  BY <1>1 DEF PutsAll

(* Nothing else follows the steps of the loop. *)
LEMMA PutAllIs ==
  ASSUME NEW r \in Encoder, NEW parts \in Seq(Appends), NEW failing, NEW f, f[0] = r,
         \A i \in 1..Len(parts) : f[i] = Json!Put(f[i - 1], parts[i], failing)
  PROVE  Json!PutAll(r, parts, failing) = f[Len(parts)]
<1>1. PICK n \in Nat : n = Len(parts)
  OBVIOUS
<1>2. PICK put : PutsAll(r, parts, failing, put)
  BY PutAllSteps
<1> DEFINE G == {i \in 0..n : put[i] = f[i]}
<1>3. 0 \in G
  BY <1>2 DEF PutsAll
<1>4. \A i \in 1..n : i - 1 \in G => i \in G
  BY <1>1, <1>2 DEF PutsAll
<1> HIDE DEF G
<1>5. 0..n \subseteq G
  BY <1>3, <1>4, UpwardInduction
<1>6. put[n] = f[n]
  BY <1>5 DEF G
<1> QED
  BY <1>1, <1>2, <1>6 DEF PutsAll

LEMMA PutAllCat ==
  ASSUME NEW r \in Encoder, NEW a \in Seq(Appends), NEW b \in Seq(Appends), NEW failing
  PROVE  Json!PutAll(r, a \o b, failing) = Json!PutAll(Json!PutAll(r, a, failing), b, failing)
<1>1. PICK c \in Seq(Appends) : c = a \o b
  BY AppendsCat
<1>2. PICK m \in Nat : m = Len(a)
  OBVIOUS
<1>3. PICK n \in Nat : n = Len(b)
  OBVIOUS
<1>4. Len(c) = m + n
  BY <1>1, <1>2, <1>3, ConcatProperties
<1>5. PICK put : PutsAll(r, c, failing, put)
  BY PutAllSteps
<1>6. \A i \in 1..m : c[i] = a[i]
  BY <1>1, <1>2, <1>3, ConcatProperties
<1>7. \A i \in 1..n : c[m + i] = b[i]
  <2>1. \A i \in 1..m + n : c[i] = IF i <= m THEN a[i] ELSE b[i - m]
    BY <1>1, <1>2, <1>3, ConcatProperties
  <2> QED
    BY <2>1
<1>8. Json!PutAll(r, a, failing) = put[m]
  <2>1. put[0] = r /\ \A i \in 1..m : put[i] = Json!Put(put[i - 1], a[i], failing)
    BY <1>4, <1>5, <1>6 DEF PutsAll
  <2> QED
    BY SMTT(20), <1>2, <2>1, PutAllIs
<1> DEFINE f == [i \in 0..n |-> put[m + i]]
<1>9. Json!PutAll(put[m], b, failing) = put[m + n]
  <2>1. put[m] \in Encoder
    BY <1>4, <1>5 DEF PutsAll
  <2>2. f[0] = put[m] /\ f[n] = put[m + n]
    OBVIOUS
  <2>3. ASSUME NEW i \in 1..n
        PROVE  f[i] = Json!Put(f[i - 1], b[i], failing)
    <3>1. m + i \in 1..Len(c) /\ (m + i) - 1 = m + (i - 1)
      BY <1>4
    <3>2. put[m + i] = Json!Put(put[m + (i - 1)], c[m + i], failing)
      BY <1>5, <3>1 DEF PutsAll
    <3>3. f[i] = put[m + i] /\ f[i - 1] = put[m + (i - 1)]
      OBVIOUS
    <3> QED
      BY <1>7, <3>2, <3>3
  <2> HIDE DEF f
  <2> QED
    BY <1>3, <2>1, <2>2, <2>3, PutAllIs
<1> QED
  BY <1>1, <1>4, <1>5, <1>8, <1>9 DEF PutsAll

LEMMA PutAllOne ==
  ASSUME NEW r \in Encoder, NEW p \in Appends, NEW failing
  PROVE  Json!PutAll(r, <<p>>, failing) = Json!Put(r, p, failing)
<1>1. <<p>> \in Seq(Appends) /\ Len(<<p>>) = 1 /\ <<p>>[1] = p
  BY ShortTuples
<1>2. PICK put : PutsAll(r, <<p>>, failing, put)
  BY <1>1, PutAllSteps
<1> QED
  BY <1>1, <1>2 DEF PutsAll

(* The buffer holds what was put into it, wherever it had to grow. *)
LEMMA EncodedFits ==
  ASSUME NEW e \in Raised, NEW failing, NEW size \in Nat \ {0}
  PROVE  Json!Encode(e, failing, size) \in Encoder
BY StartIsEncoder, PartsTyped, PutAllTyped DEF Json!Encode

(* Every event of the inputs, whatever the bound on its texts. *)
LEMMA EventsRaised == Json!Event(MaxLength, MaxName) \subseteq Raised
<1>1. Json!Text(MaxLength) \subseteq Chars
  <2>1. MaxLength \in Nat
    BY BoundsAssumption
  <2> QED
    BY <2>1 DEF Json!Text, Chars
<1>2. Json!Text(MaxName) \subseteq Chars
  <2>1. MaxName \in Nat
    BY BoundsAssumption
  <2> QED
    BY <2>1 DEF Json!Text, Chars
<1>3. <<>> \in Chars
  BY DEF Chars
<1> QED
  BY <1>1, <1>2, <1>3 DEF Json!Event, Raised

-----------------------------------------------------------------------------
(* What the page reads                                                      *)

Mode == {"object", "key", "keytext", "colon", "value", "string", "escape", "nu", "1",
         "after", "end", "bad"}
Read == [key : Token \cup {""}, value : Seq(Token)]
Reader == [mode : Mode, key : Token \cup {""}, text : Seq(Token), members : Seq(Read)]
FreshReader == [mode |-> "object", key |-> "", text |-> <<>>, members |-> <<>>]

LEMMA FreshReaderTyped == FreshReader \in Reader
<1>1. <<>> \in Seq(Token) /\ <<>> \in Seq(Read)
  OBVIOUS
<1> QED
  BY <1>1 DEF FreshReader, Reader, Mode

LEMMA AppendTyped ==
  ASSUME NEW S, NEW s \in Seq(S), NEW x \in S
  PROVE  Append(s, x) \in Seq(S)
OBVIOUS

LEMMA AppendShort ==
  ASSUME NEW S, NEW s \in Seq(S), NEW t \in Seq(S)
  PROVE  /\ Len(t) = 1 => t[1] \in S /\ s \o t = Append(s, t[1])
         /\ Len(t) = 2 => /\ t[1] \in S /\ t[2] \in S
                          /\ s \o t = Append(Append(s, t[1]), t[2])
<1>1. PICK n \in Nat : n = Len(s)
  OBVIOUS
<1>2. PICK u \in Seq(S) : u = s \o t
  BY ConcatProperties
<1>3. Len(u) = n + Len(t) /\ \A i \in 1..n + Len(t) : u[i] = IF i <= n THEN s[i] ELSE t[i - n]
  BY <1>1, <1>2, ConcatProperties
<1>4. CASE Len(t) = 1
  <2>1. t[1] \in S
    BY <1>4
  <2>2. PICK v \in Seq(S) : v = Append(s, t[1])
    BY <2>1, AppendTyped
  <2>3. Len(v) = n + 1 /\ \A i \in 1..n + 1 : v[i] = IF i <= n THEN s[i] ELSE t[1]
    BY <1>1, <2>1, <2>2, AppendProperties
  <2>4. Len(u) = Len(v) /\ \A i \in 1..Len(u) : u[i] = v[i]
    BY <1>3, <1>4, <2>3
  <2>5. u = v
    BY <2>4, SeqEqual
  <2> QED
    BY <1>2, <1>4, <2>1, <2>2, <2>5
<1>5. CASE Len(t) = 2
  <2>8. t[1] \in S /\ t[2] \in S
    <3>1. \A i \in 1..Len(t) : t[i] \in S
      BY ElementOfSeq
    <3> QED
      BY <1>5, <3>1
  <2>1. PICK c \in S, d \in S : c = t[1] /\ d = t[2]
    BY <2>8
  <2>2. PICK v \in Seq(S) : v = Append(s, c)
    BY AppendTyped
  <2>3. Len(v) = n + 1 /\ \A i \in 1..n + 1 : v[i] = IF i <= n THEN s[i] ELSE c
    BY <1>1, <2>2, AppendProperties
  <2>4. PICK w \in Seq(S) : w = Append(v, d)
    BY AppendTyped
  <2>5. Len(w) = n + 2 /\ \A i \in 1..n + 2 : w[i] = IF i <= n + 1 THEN v[i] ELSE d
    BY <2>3, <2>4, AppendProperties
  <2>6. Len(u) = Len(w) /\ \A i \in 1..Len(u) : u[i] = w[i]
    BY <1>3, <1>5, <2>1, <2>3, <2>5
  <2>7. u = w
    BY <2>6, SeqEqual
  <2> QED
    BY <1>2, <1>5, <2>1, <2>2, <2>4, <2>7
<1> QED
  BY <1>4, <1>5

LEMMA StoreTyped ==
  ASSUME NEW r \in Reader, NEW v \in Seq(Token)
  PROVE  Json!Store(r, v) \in Reader
<1>1. r.key \in Token \cup {""} /\ r.members \in Seq(Read)
  BY Zenon DEF Reader
<1>2. [key |-> r.key, value |-> v] \in Read
  BY Zenon, <1>1 DEF Read
<1>3. Append(r.members, [key |-> r.key, value |-> v]) \in Seq(Read)
  BY Zenon, <1>1, <1>2, AppendTyped
<1>4. <<>> \in Seq(Token)
  OBVIOUS
<1> QED
  BY Zenon, <1>3, <1>4 DEF Json!Store, Reader, Mode

LEMMA BadTyped == Json!Bad \in Reader
<1>1. <<>> \in Seq(Token) /\ <<>> \in Seq(Read)
  OBVIOUS
<1> QED
  BY <1>1 DEF Json!Bad, Reader, Mode

LEMMA ReadTyped ==
  ASSUME NEW r \in Reader, NEW c \in Token
  PROVE  Json!Read(r, c) \in Reader
<1>1. r.text \in Seq(Token) /\ r.mode \in Mode
  BY Zenon DEF Reader
<1>2. Append(r.text, c) \in Seq(Token)
  BY <1>1, AppendTyped
<1>3. c \in DOMAIN Json!Unescaped => Append(r.text, Json!Unescaped[c]) \in Seq(Token)
  <2>1. c \in DOMAIN Json!Unescaped => Json!Unescaped[c] \in Token
    BY Zenon DEF Json!Unescaped, Token, Json!Char
  <2> QED
    BY <1>1, <2>1, AppendTyped
<1>4. Json!NULL \in Seq(Token) /\ Json!Number \in Seq(Token)
  <2>1. "NULL" \in Token /\ "1" \in Token /\ "2" \in Token
    BY Zenon DEF Token
  <2> QED
    BY <2>1, ShortTuples DEF Json!NULL, Json!Number
<1>5. \A v \in {Json!NULL, Json!Number, r.text} : Json!Store(r, v) \in Reader
  BY <1>1, <1>4, StoreTyped
<1>6. \A m \in Mode : [r EXCEPT !.mode = m] \in Reader
  BY Zenon DEF Reader
<1>7. [r EXCEPT !.mode = "keytext", !.key = ""] \in Reader /\ [r EXCEPT !.key = c] \in Reader
  BY Zenon DEF Reader, Mode
<1>8. \A t \in Seq(Token) :
        [r EXCEPT !.text = t] \in Reader /\ [r EXCEPT !.mode = "string", !.text = t] \in Reader
  BY Zenon DEF Reader, Mode
<1>9. [r EXCEPT !.text = Append(r.text, c)] \in Reader
  BY Zenon, <1>2, <1>8
<1>10. c \in DOMAIN Json!Unescaped =>
         [r EXCEPT !.mode = "string", !.text = Append(r.text, Json!Unescaped[c])] \in Reader
  BY Zenon, <1>3, <1>8
<1>11. {"key", "keytext", "colon", "value", "string", "nu", "1", "escape", "end"} \subseteq Mode
  BY DEF Mode
<1> HIDE DEF Mode, Reader
<1> QED
  BY Zenon, <1>5, <1>6, <1>7, <1>9, <1>10, <1>11, BadTyped DEF Json!Read

(* The reader, token by token. *)
Parses(tokens, read) ==
  /\ read \in [0..Len(tokens) -> Reader]
  /\ read[0] = FreshReader
  /\ \A i \in 1..Len(tokens) : read[i] = Json!Read(read[i - 1], tokens[i])
  /\ Json!Parse(tokens) = read[Len(tokens)]

LEMMA ParseSteps ==
  ASSUME NEW tokens \in Seq(Token)
  PROVE  \E read : Parses(tokens, read)
<1>1. PICK n \in Nat : n = Len(tokens)
  OBVIOUS
<1> DEFINE step == [i \in 1..n |-> [x \in Reader |-> Json!Read(x, tokens[i])]]
           Solves(f) == f = [i \in 0..n |-> IF i = 0 THEN FreshReader
                                            ELSE Json!Read(f[i - 1], tokens[i])]
<1>2. \A i \in 1..n : \A x \in Reader : Json!Read(x, tokens[i]) \in Reader
  <2>1. \A i \in 1..n : tokens[i] \in Token
    BY <1>1
  <2> QED
    BY <2>1, ReadTyped
<1>3. IsStep(Reader, n, step)
  BY <1>2 DEF IsStep
<1>4. \A i \in 1..n : \A x \in Reader : step[i][x] = Json!Read(x, tokens[i])
  OBVIOUS
<1> HIDE DEF step
<1>5. PICK f : Iterates(Reader, n, FreshReader, step, f)
  BY <1>3, FreshReaderTyped, RecursionExists
<1>6. \A i \in 1..n : f[i] = Json!Read(f[i - 1], tokens[i])
  <2>1. \A i \in 1..n : f[i - 1] \in Reader
    BY <1>5 DEF Iterates
  <2> QED
    BY <1>4, <1>5, <2>1 DEF Iterates
<1>7. Solves(f)
  BY <1>5, <1>6 DEF Iterates
<1> DEFINE g == CHOOSE x : Solves(x)
<1>8. Solves(g)
  BY <1>7
<1> HIDE DEF g
<1>9. \A i \in 0..n : g[i] = IF i = 0 THEN FreshReader ELSE Json!Read(g[i - 1], tokens[i])
  BY <1>8
<1>10. 0..n \subseteq {i \in 0..n : g[i] \in Reader}
  <2> DEFINE G == {i \in 0..n : g[i] \in Reader}
  <2>1. 0 \in G
    BY <1>9, FreshReaderTyped
  <2>2. \A i \in 1..n : i - 1 \in G => i \in G
    <3>1. \A i \in 1..n : g[i] = Json!Read(g[i - 1], tokens[i])
      BY <1>9
    <3> QED
      BY <1>2, <3>1
  <2> HIDE DEF G
  <2>3. 0..n \subseteq G
    BY <2>1, <2>2, UpwardInduction
  <2> QED
    BY <2>3 DEF G
<1>11. g \in [0..n -> Reader]
  <2>1. g = [i \in 0..n |-> g[i]]
    BY <1>8
  <2> QED
    BY <1>10, <2>1
<1>12. Json!Parse(tokens) = g[n]
  BY <1>1, Zenon DEF Json!Parse, g, FreshReader
<1>13. g[0] = FreshReader
  BY <1>9
<1>14. \A i \in 1..n : g[i] = Json!Read(g[i - 1], tokens[i])
  BY <1>9
<1> QED
  BY <1>1, <1>11, <1>12, <1>13, <1>14 DEF Parses

(* One more token. *)
LEMMA ParseAppend ==
  ASSUME NEW s \in Seq(Token), NEW c \in Token
  PROVE  Json!Parse(Append(s, c)) = Json!Read(Json!Parse(s), c)
<1>1. PICK t \in Seq(Token) : t = Append(s, c)
  BY AppendTyped
<1>2. PICK n \in Nat : n = Len(s)
  OBVIOUS
<1>3. Len(t) = n + 1 /\ t[n + 1] = c /\ \A i \in 1..n : t[i] = s[i]
  BY <1>1, <1>2
<1>4. PICK f : Parses(s, f)
  BY ParseSteps
<1>5. PICK g : Parses(t, g)
  BY ParseSteps
<1> DEFINE G == {i \in 0..n : f[i] = g[i]}
<1>6. 0 \in G
  BY <1>4, <1>5 DEF Parses
<1>7. \A i \in 1..n : i - 1 \in G => i \in G
  BY <1>2, <1>3, <1>4, <1>5 DEF Parses
<1> HIDE DEF G
<1>8. 0..n \subseteq G
  BY <1>6, <1>7, UpwardInduction
<1>9. f[n] = g[n]
  BY <1>8 DEF G
<1>10. g[n + 1] = Json!Read(g[n], c)
  BY <1>3, <1>5 DEF Parses
<1> QED
  BY <1>1, <1>2, <1>3, <1>4, <1>5, <1>9, <1>10 DEF Parses

LEMMA ParseTyped ==
  ASSUME NEW s \in Seq(Token)
  PROVE  Json!Parse(s) \in Reader
<1>1. PICK f : Parses(s, f)
  BY ParseSteps
<1> QED
  BY <1>1 DEF Parses

LEMMA ParseNothing == Json!Parse(<<>>) = FreshReader
<1>1. <<>> \in Seq(Token) /\ Len(<<>>) = 0
  OBVIOUS
<1>2. PICK f : Parses(<<>>, f)
  BY <1>1, ParseSteps
<1> QED
  BY <1>1, <1>2 DEF Parses

(* What the page makes of the text of one append. *)
ReadText(q, t) ==
  IF Len(t) = 1 THEN Json!Read(q, t[1]) ELSE Json!Read(Json!Read(q, t[1]), t[2])

LEMMA ParseText ==
  ASSUME NEW s \in Seq(Token), NEW t \in Few
  PROVE  Json!Parse(s \o t) = ReadText(Json!Parse(s), t)
<1>1. t \in Seq(Token) /\ Len(t) \in {1, 2}
  BY DEF Few
<1>2. CASE Len(t) = 1
  <2>1. PICK c \in Token : c = t[1]
    BY <1>1, <1>2, AppendShort
  <2>2. s \o t = Append(s, c)
    BY <1>1, <1>2, <2>1, AppendShort
  <2> QED
    BY <1>2, <2>1, <2>2, ParseAppend DEF ReadText
<1>3. CASE Len(t) = 2
  <2>1. PICK c \in Token, d \in Token : c = t[1] /\ d = t[2]
    BY <1>1, <1>3, AppendShort
  <2>2. PICK u \in Seq(Token) : u = Append(s, c)
    BY AppendTyped
  <2>3. s \o t = Append(u, d)
    BY <1>1, <1>3, <2>1, <2>2, AppendShort
  <2>4. Json!Parse(u) = Json!Read(Json!Parse(s), c)
    BY <2>2, ParseAppend
  <2>5. Json!Parse(Append(u, d)) = Json!Read(Json!Parse(u), d)
    BY ParseAppend
  <2> QED
    BY <1>3, <2>1, <2>3, <2>4, <2>5 DEF ReadText
<1> QED
  BY <1>1, <1>2, <1>3

-----------------------------------------------------------------------------
(* The encoder and the page, append by append                               *)

(* What the page reads of the text written so far, and what fits behind it. *)
Page(x) == Json!Parse(x.json.str)
Room(x) == x.json.max_count - 1 - Len(x.json.str)

LEMMA PutReads ==
  ASSUME NEW x \in Encoder, NEW p \in Appends, NEW failing, NEW y, y = Json!Put(x, p, failing)
  PROVE  /\ y \in Encoder
         /\ \/ /\ x.skips > 0 /\ y.skips = x.skips - 1 /\ y.recovered = x.recovered
               /\ y.failures = x.failures /\ Page(y) = Page(x) /\ Room(y) = Room(x)
            \/ /\ x.skips = 0 /\ y.skips = p.skips /\ y.recovered = x.recovered
               /\ y.failures = x.failures + 1 /\ Page(y) = Page(x) /\ Room(y) = Room(x)
               /\ Room(x) < Len(p.text)
            \/ /\ x.skips = 0 /\ y.skips = 0
               /\ y.failures = x.failures /\ Page(y) = ReadText(Page(x), p.text)
               /\ \/ y.recovered = x.recovered /\ Room(y) = Room(x) - Len(p.text)
                  \/ y.recovered = (x.failures > 0)
<1>1. /\ x \in Encodings
      /\ y \in Encodings /\ y \in Encoder
  BY PutFacts DEF Encoder
<1>2. PICK len \in Nat : len = Len(x.json.str)
  BY <1>1 DEF Encodings, Buffer
<1>3. PICK max \in Nat : max = x.json.max_count
  BY <1>1 DEF Encodings, Buffer
<1>4. PICK n \in {1, 2} : n = Len(p.text)
  BY DEF Appends, Few
<1>5. PICK s \in Seq(Token) : s = x.json.str
  BY <1>1 DEF Encodings, Buffer
<1>6. PICK t \in Few : t = p.text
  BY DEF Appends
<1>7. PICK f \in Nat, k \in Nat : f = x.failures /\ k = x.skips
  BY <1>1 DEF Encodings
<1>8. CASE LeftOut(x, y)
  <2>1. k > 0 /\ y = [x EXCEPT !.skips = k - 1]
    BY <1>7, <1>8 DEF LeftOut
  <2>2. y.json = x.json /\ y.skips = k - 1 /\ y.failures = f /\ y.recovered = x.recovered
    BY <1>1, <1>7, <2>1 DEF Encodings
  <2> QED
    BY <1>1, <1>7, <2>1, <2>2 DEF Page, Room
<1>9. CASE Failed(x, p, y)
  <2>1. /\ k = 0
        /\ len + n + 1 > max
        /\ y = [x EXCEPT !.skips = p.skips, !.tries = x.tries + 1, !.failures = f + 1]
    BY <1>2, <1>3, <1>4, <1>7, <1>9 DEF Failed
  <2>2. /\ y.json = x.json /\ y.skips = p.skips /\ y.failures = f + 1
        /\ y.recovered = x.recovered
    BY <1>1, <1>7, <2>1 DEF Encodings
  <2>3. Room(x) = max - 1 - len /\ max - 1 - len < n
    BY SMTT(20), <1>2, <1>3, <2>1 DEF Room
  <2>4. Page(y) = Page(x) /\ Room(y) = Room(x)
    BY <2>2 DEF Page, Room
  <2>5. Room(x) < Len(p.text)
    BY <1>4, <2>3
  <2> QED
    BY <1>1, <1>7, <2>1, <2>2, <2>4, <2>5
<1>10. CASE Made(x, p, y)
  <2>1. PICK m \in Nat, j \in Nat, b \in BOOLEAN :
          /\ (m = max /\ b = x.recovered) \/ b = (f > 0)
          /\ y = [x EXCEPT !.json = [str |-> x.json.str \o p.text, max_count |-> m],
                           !.tries = j, !.recovered = b]
    BY <1>3, <1>7, <1>10, Zenon DEF Made
  <2>2. t \in Seq(Token)
    BY DEF Few
  <2>3. PICK u \in Seq(Token) : u = s \o t /\ Len(u) = len + n
    BY ZenonT(40), <1>2, <1>4, <1>5, <1>6, <2>2, ConcatProperties
  <2>4. /\ y.json = [str |-> u, max_count |-> m] /\ y.skips = k /\ y.failures = f /\ k = 0
        /\ y.recovered = b
    BY <1>1, <1>5, <1>6, <1>7, <1>10, <2>1, <2>3 DEF Made, Encodings
  <2>5. Page(y) = Json!Parse(s \o t)
    BY <2>3, <2>4 DEF Page
  <2>6. Page(y) = ReadText(Page(x), p.text)
    BY <1>5, <1>6, <2>5, ParseText DEF Page
  <2>7. Room(y) = m - 1 - (len + n) /\ Room(x) = max - 1 - len
    BY <1>2, <1>3, <2>3, <2>4 DEF Room
  <2>8. m = max => Room(y) = Room(x) - Len(p.text)
    <3>1. max - 1 - (len + n) = max - 1 - len - n
      OBVIOUS
    <3> QED
      BY <1>4, <2>7, <3>1
  <2>9. (y.recovered = x.recovered /\ Room(y) = Room(x) - Len(p.text)) \/ y.recovered = (f > 0)
    BY <2>1, <2>4, <2>8
  <2> QED
    BY <1>1, <1>7, <2>4, <2>6, <2>9
<1>11. PutOutcome(x, p, y)
  BY PutFacts
<1> QED
  BY <1>8, <1>9, <1>10, <1>11 DEF PutOutcome

LEMMA RoomTyped ==
  ASSUME NEW x \in Encoder
  PROVE  Room(x) \in Nat
<1>1. /\ x.json \in Buffer /\ Len(x.json.str) + 1 <= x.json.max_count
  BY DEF Encoder, Encodings, Json!FitsInside
<1>2. PICK m \in Nat : m = x.json.max_count
  BY <1>1 DEF Buffer
<1>3. PICK k \in Nat : k = Len(x.json.str)
  BY <1>1 DEF Buffer
<1> QED
  BY <1>1, <1>2, <1>3 DEF Room

(* A buffer that cannot grow and is full, or has room for one token where  *)
(* the text does not end: nothing that follows makes a message of it.      *)
Stuck(x) ==
  \/ Room(x) = 0 /\ Page(x).mode # "end"
  \/ Room(x) = 1 /\ Page(x).mode \in {"string", "value", "bad"}

(* Where the encoder is: what the page makes of the text if nothing failed *)
(* (G), if one append failed (F), and if k more are to be left out (L); if *)
(* appends failed and the buffer has not grown since, it is stuck.         *)
On(x, G, F, k, L) ==
  /\ x \in Encoder
  /\ x.failures = 0 => x.skips = 0 /\ ~x.recovered /\ Page(x) \in G
  /\ x.failures = 1 => \/ x.skips = 0 /\ Page(x) \in F
                       \/ k > 0 /\ x.skips = k /\ Page(x) \in L
  /\ x.failures # 0 => x.recovered \/ Stuck(x)

(* An append with this text leads from the first three to the others. *)
Leads(p, G, F, k, L, G2, F2, k2, L2) ==
  /\ \A q \in G : /\ ReadText(q, p.text) \in G2
                  /\ q.mode # "end"
                  /\ Len(p.text) = 2 => q.mode \in {"string", "value", "bad"}
  /\ \A q \in F : ReadText(q, p.text) \in F2
  /\ p.skips = 0 => G \subseteq F2
  /\ p.skips > 0 => p.skips = k2 /\ G \subseteq L2
  /\ k = 1 => L \subseteq F2
  /\ k > 1 => k2 = k - 1 /\ L \subseteq L2

LEMMA StuckStays ==
  ASSUME NEW x \in Encoder, NEW p \in Appends, NEW y \in Encoder, Stuck(x),
         \/ Page(y) = Page(x) /\ Room(y) = Room(x)
         \/ Page(y) = ReadText(Page(x), p.text) /\ Room(y) = Room(x) - Len(p.text)
  PROVE  Stuck(y)
<1>1. PICK n \in {1, 2} : n = Len(p.text)
  BY DEF Appends, Few
<1>2. PICK a \in Nat, b \in Nat : a = Room(x) /\ b = Room(y)
  BY RoomTyped
<1>3. CASE Page(y) = Page(x) /\ Room(y) = Room(x)
  BY <1>3 DEF Stuck
<1>4. CASE Page(y) = ReadText(Page(x), p.text) /\ Room(y) = Room(x) - Len(p.text)
  <2>1. b = a - n
    BY <1>1, <1>2, <1>4
  <2>2. a = 0 \/ a = 1
    BY <1>2 DEF Stuck
  <2>3. a = 1 /\ n = 1 /\ b = 0
    BY <2>1, <2>2
  <2>4. Page(x).mode \in {"string", "value", "bad"}
    BY <1>2, <2>3 DEF Stuck
  <2>5. Page(y) = Json!Read(Page(x), p.text[1])
    BY <1>1, <1>4, <2>3 DEF ReadText
  <2>6. PICK q, c : q = Page(x) /\ c = p.text[1]
    OBVIOUS
  <2>7. Json!Read(q, c).mode # "end"
    <3>1. q \in Reader
      <4>1. x.json.str \in Seq(Token)
        BY DEF Encoder, Encodings, Buffer
      <4> QED
        BY <2>6, <4>1, ParseTyped DEF Page
    <3>2. q.mode \in {"string", "value", "bad"}
      BY <2>4, <2>6
    <3> QED
      BY Zenon, <3>1, <3>2 DEF Json!Read, Json!Store, Json!Bad, Reader
  <2> QED
    BY <1>2, <2>3, <2>5, <2>6, <2>7 DEF Stuck
<1> QED
  BY <1>3, <1>4

LEMMA OnePut ==
  ASSUME NEW x, NEW p \in Appends, NEW failing, NEW y, y = Json!Put(x, p, failing),
         NEW G, NEW F, NEW k \in Nat, NEW L, NEW G2, NEW F2, NEW k2 \in Nat, NEW L2,
         On(x, G, F, k, L), Leads(p, G, F, k, L, G2, F2, k2, L2)
  PROVE  On(y, G2, F2, k2, L2)
<1>1. x \in Encoder
  BY DEF On
<1>2. y \in Encoder /\ x.failures \in Nat /\ y.failures \in Nat /\ x.skips \in Nat
  BY <1>1, PutFacts DEF Encoder, Encodings
<1>3. PICK f \in Nat, g \in Nat, s \in Nat, u \in Nat :
        f = x.failures /\ g = y.failures /\ s = x.skips /\ u = p.skips
  BY <1>2 DEF Appends
<1>4. CASE /\ s > 0 /\ y.skips = s - 1 /\ y.recovered = x.recovered
           /\ g = f /\ Page(y) = Page(x) /\ Room(y) = Room(x)
  <2>1. f # 0 /\ g # 0
    BY <1>3, <1>4 DEF On
  <2>2. y.recovered \/ Stuck(y)
    <3>1. x.recovered \/ Stuck(x)
      BY <1>3, <2>1 DEF On
    <3> QED
      BY <1>1, <1>2, <1>4, <3>1, StuckStays
  <2>3. g = 1 => \/ y.skips = 0 /\ Page(y) \in F2
                 \/ k2 > 0 /\ y.skips = k2 /\ Page(y) \in L2
    <3> SUFFICES ASSUME f = 1
                 PROVE  \/ y.skips = 0 /\ Page(y) \in F2
                        \/ k2 > 0 /\ y.skips = k2 /\ Page(y) \in L2
      BY <1>4
    <3>1. k > 0 /\ s = k /\ Page(x) \in L
      BY <1>3, <1>4 DEF On
    <3>2. CASE k = 1
      BY <1>4, <3>1, <3>2 DEF Leads
    <3>3. CASE k > 1
      BY <1>4, <3>1, <3>3 DEF Leads
    <3> QED
      BY <3>1, <3>2, <3>3
  <2> QED
    BY <1>2, <1>3, <2>1, <2>2, <2>3 DEF On
<1>5. CASE /\ s = 0 /\ y.skips = u /\ y.recovered = x.recovered
           /\ g = f + 1 /\ Page(y) = Page(x) /\ Room(y) = Room(x)
           /\ Room(x) < Len(p.text)
  <2>1. g # 0 /\ (g = 1 => f = 0)
    BY <1>5
  <2>2. y.recovered \/ Stuck(y)
    <3>1. x.recovered \/ Stuck(x)
      <4>1. CASE f = 0
        <5>1. Page(x) \in G
          BY <1>3, <4>1 DEF On
        <5>2. PICK n \in {1, 2}, a \in Nat : n = Len(p.text) /\ a = Room(x)
          BY <1>1, RoomTyped DEF Appends, Few
        <5>3. a < n
          BY <1>5, <5>2
        <5>4. a = 0 \/ (a = 1 /\ n = 2)
          BY <5>3
        <5> QED
          BY <5>1, <5>2, <5>4 DEF Leads, Stuck
      <4>2. CASE f # 0
        BY <1>3, <4>2 DEF On
      <4> QED
        BY <4>1, <4>2
    <3> QED
      BY <1>1, <1>2, <1>5, <3>1, StuckStays
  <2>3. g = 1 => \/ y.skips = 0 /\ Page(y) \in F2
                 \/ k2 > 0 /\ y.skips = k2 /\ Page(y) \in L2
    <3> SUFFICES ASSUME f = 0
                 PROVE  \/ y.skips = 0 /\ Page(y) \in F2
                        \/ k2 > 0 /\ y.skips = k2 /\ Page(y) \in L2
      BY <2>1
    <3>1. Page(y) \in G
      BY <1>3, <1>5 DEF On
    <3>2. CASE u = 0
      BY <1>3, <1>5, <3>1, <3>2 DEF Leads
    <3>3. CASE u > 0
      BY <1>3, <1>5, <3>1, <3>3 DEF Leads
    <3> QED
      BY <3>2, <3>3
  <2> QED
    BY <1>2, <1>3, <2>1, <2>2, <2>3 DEF On
<1>6. CASE /\ s = 0 /\ y.skips = 0
           /\ g = f /\ Page(y) = ReadText(Page(x), p.text)
           /\ \/ y.recovered = x.recovered /\ Room(y) = Room(x) - Len(p.text)
              \/ y.recovered = (f > 0)
  <2>1. CASE f = 0
    <3>1. Page(x) \in G /\ ~x.recovered
      BY <1>3, <2>1 DEF On
    <3>2. ~y.recovered
      <4>1. ~(f > 0)
        BY <2>1
      <4> QED
        BY Zenon, <1>6, <3>1, <4>1
    <3>3. Page(y) \in G2
      BY <1>6, <3>1 DEF Leads
    <3> QED
      BY <1>2, <1>3, <1>6, <2>1, <3>2, <3>3 DEF On
  <2>2. CASE f # 0
    <3>1. y.recovered \/ Stuck(y)
      <4>1. CASE y.recovered = (f > 0)
        <5>1. f > 0
          BY <2>2
        <5> QED
          BY Zenon, <4>1, <5>1
      <4>2. CASE y.recovered = x.recovered /\ Room(y) = Room(x) - Len(p.text)
        <5>1. x.recovered \/ Stuck(x)
          BY <1>3, <2>2 DEF On
        <5> QED
          BY <1>1, <1>2, <1>6, <4>2, <5>1, StuckStays
      <4> QED
        BY <1>6, <4>1, <4>2
    <3>2. f = 1 => Page(y) \in F2
      <4> SUFFICES ASSUME f = 1
                   PROVE  Page(y) \in F2
        OBVIOUS
      <4>1. Page(x) \in F
        BY <1>3, <1>6 DEF On
      <4> QED
        BY <1>6, <4>1 DEF Leads
    <3> QED
      BY <1>2, <1>3, <1>6, <2>2, <3>1, <3>2 DEF On
  <2> QED
    BY <2>1, <2>2
<1>7. \/ /\ s > 0 /\ y.skips = s - 1 /\ y.recovered = x.recovered
         /\ g = f /\ Page(y) = Page(x) /\ Room(y) = Room(x)
      \/ /\ s = 0 /\ y.skips = u /\ y.recovered = x.recovered
         /\ g = f + 1 /\ Page(y) = Page(x) /\ Room(y) = Room(x)
         /\ Room(x) < Len(p.text)
      \/ /\ s = 0 /\ y.skips = 0
         /\ g = f /\ Page(y) = ReadText(Page(x), p.text)
         /\ \/ y.recovered = x.recovered /\ Room(y) = Room(x) - Len(p.text)
            \/ y.recovered = (f > 0)
  BY <1>1, <1>3, PutReads
<1> QED
  BY <1>4, <1>5, <1>6, <1>7

(* No more is to be left out. *)
At(x, G, F) == On(x, G, F, 0, {})

LEMMA OnePutAt ==
  ASSUME NEW x, NEW p \in Appends, NEW failing, NEW G, NEW F, NEW G2, NEW F2, p.skips = 0,
         At(x, G, F),
         \A q \in G : /\ ReadText(q, p.text) \in G2 /\ q \in F2
                      /\ q.mode # "end"
                      /\ Len(p.text) = 2 => q.mode \in {"string", "value", "bad"},
         \A q \in F : ReadText(q, p.text) \in F2
  PROVE  At(Json!PutAll(x, <<p>>, failing), G2, F2)
<1>1. x \in Encoder
  BY DEF At, On
<1>2. PICK y : y = Json!Put(x, p, failing)
  OBVIOUS
<1>3. Leads(p, G, F, 0, {}, G2, F2, 0, {})
  BY DEF Leads
<1>4. On(y, G2, F2, 0, {})
  BY <1>2, <1>3, OnePut DEF At
<1> QED
  BY <1>1, <1>2, <1>4, PutAllOne DEF At

LEMMA TokenPart ==
  ASSUME NEW c \in Token
  PROVE  \E p \in Appends : p = Json!Part(<<c>>) /\ p.skips = 0 /\ p.text = <<c>>
<1>1. <<c>> \in Few
  BY OneToken
<1>2. Json!Part(<<c>>) = [text |-> <<c>>, skips |-> 0]
  BY DEF Json!Part
<1>3. Json!Part(<<c>>) \in Appends
  BY <1>1, <1>2 DEF Appends
<1> QED
  BY <1>2, <1>3

LEMMA OneTokenAt ==
  ASSUME NEW x, NEW c \in Token, NEW failing, NEW G, NEW F, NEW G2, NEW F2,
         At(x, G, F),
         \A q \in G : Json!Read(q, c) \in G2 /\ q \in F2 /\ q.mode # "end",
         \A q \in F : Json!Read(q, c) \in F2
  PROVE  At(Json!PutAll(x, <<Json!Part(<<c>>)>>, failing), G2, F2)
<1>1. PICK p \in Appends : p = Json!Part(<<c>>) /\ p.skips = 0 /\ p.text = <<c>>
  BY TokenPart
<1>2. Len(p.text) = 1 /\ p.text[1] = c
  BY <1>1, ShortTuples
<1>3. \A q : ReadText(q, p.text) = Json!Read(q, c)
  BY <1>2 DEF ReadText
<1>4. \A q \in G : /\ ReadText(q, p.text) \in G2 /\ q \in F2
                   /\ q.mode # "end"
                   /\ Len(p.text) = 2 => q.mode \in {"string", "value", "bad"}
  BY <1>2, <1>3
<1>5. \A q \in F : ReadText(q, p.text) \in F2
  BY <1>3
<1>6. At(Json!PutAll(x, <<p>>, failing), G2, F2)
  BY <1>1, <1>4, <1>5, OnePutAt
<1> QED
  BY <1>1, <1>6

(* The reader's steps, mode by mode. *)
Keeps(q, r) == r.text = q.text /\ r.members = q.members
Stores(q, r, v) ==
  /\ r.mode = "after" /\ r.text = <<>>
  /\ r.members = Append(q.members, [key |-> q.key, value |-> v])

Anywhere(q, c, r) ==
  /\ r \in Reader
  /\ q.mode = "bad" => r.mode = "bad"
  /\ q.mode = "object" =>
       IF c = "{" THEN r.mode = "key" /\ Keeps(q, r) ELSE r.mode = "bad"
  /\ q.mode = "key" =>
       IF c = "\"" THEN r.mode = "keytext" /\ Keeps(q, r) ELSE r.mode = "bad"
  /\ q.mode = "keytext" =>
       /\ Keeps(q, r)
       /\ IF c = "\"" THEN r.mode = "colon" /\ r.key = q.key
                      ELSE r.mode = "keytext" /\ r.key = c
  /\ q.mode = "colon" =>
       IF c = ":" THEN r.mode = "value" /\ r.key = q.key /\ Keeps(q, r)
                  ELSE r.mode = "bad"
  /\ q.mode = "value" =>
       IF c \in {"\"", "nu", "1"}
       THEN /\ r.mode = (IF c = "\"" THEN "string" ELSE c)
            /\ r.key = q.key /\ Keeps(q, r)
       ELSE r.mode = "bad"
  /\ q.mode = "after" =>
       IF c \in {",", "}"}
       THEN r.mode = (IF c = "," THEN "key" ELSE "end") /\ Keeps(q, r)
       ELSE r.mode = "bad"

LEMMA ReadAnywhere ==
  ASSUME NEW q \in Reader, NEW c \in Token, NEW r, r = Json!Read(q, c)
  PROVE  Anywhere(q, c, r)
<1>1. r \in Reader
  BY ReadTyped
<1>2. q.mode = "bad" => r.mode = "bad"
  BY Zenon DEF Json!Read, Json!Bad, Reader
<1>3. q.mode = "object" =>
        IF c = "{" THEN r.mode = "key" /\ Keeps(q, r) ELSE r.mode = "bad"
  BY Zenon DEF Json!Read, Json!Bad, Reader, Keeps
<1>4. q.mode = "key" =>
        IF c = "\"" THEN r.mode = "keytext" /\ Keeps(q, r) ELSE r.mode = "bad"
  BY Zenon DEF Json!Read, Json!Bad, Reader, Keeps
<1>5. q.mode = "keytext" =>
        /\ Keeps(q, r)
        /\ IF c = "\"" THEN r.mode = "colon" /\ r.key = q.key
                       ELSE r.mode = "keytext" /\ r.key = c
  BY Zenon DEF Json!Read, Reader, Keeps
<1>6. q.mode = "colon" =>
        IF c = ":" THEN r.mode = "value" /\ r.key = q.key /\ Keeps(q, r) ELSE r.mode = "bad"
  BY Zenon DEF Json!Read, Json!Bad, Reader, Keeps
<1>7. q.mode = "value" =>
        IF c \in {"\"", "nu", "1"}
        THEN /\ r.mode = (IF c = "\"" THEN "string" ELSE c)
             /\ r.key = q.key /\ Keeps(q, r)
        ELSE r.mode = "bad"
  BY Zenon DEF Json!Read, Json!Bad, Reader, Keeps
<1>8. q.mode = "after" =>
        IF c \in {",", "}"}
        THEN r.mode = (IF c = "," THEN "key" ELSE "end") /\ Keeps(q, r)
        ELSE r.mode = "bad"
  BY Zenon DEF Json!Read, Json!Bad, Reader, Keeps
<1> QED
  BY Zenon, <1>1, <1>2, <1>3, <1>4, <1>5, <1>6, <1>7, <1>8 DEF Anywhere

InValue(q, c, r) ==
  /\ q.mode = "nu" /\ c = "ll" => Stores(q, r, Json!NULL)
  /\ q.mode = "1" /\ c = "2" => Stores(q, r, Json!Number)
  /\ q.mode = "string" =>
       /\ c = "\"" => Stores(q, r, q.text)
       /\ c = "\\" => /\ r.mode = "escape" /\ r.key = q.key
                      /\ r.members = q.members /\ r.text = q.text
       /\ c \in Json!Control => r.mode = "bad"
       /\ c \notin Json!Control \cup {"\"", "\\"} =>
            /\ r.mode = "string" /\ r.key = q.key
            /\ r.members = q.members /\ r.text = Append(q.text, c)
  /\ q.mode = "escape" /\ c \in DOMAIN Json!Unescaped =>
       /\ r.mode = "string" /\ r.key = q.key
       /\ r.members = q.members /\ r.text = Append(q.text, Json!Unescaped[c])

LEMMA ReadValue ==
  ASSUME NEW q \in Reader, NEW c \in Token, NEW r, r = Json!Read(q, c)
  PROVE  InValue(q, c, r)
<1>1. q.mode = "nu" /\ c = "ll" => Stores(q, r, Json!NULL)
  BY Zenon DEF Json!Read, Json!Store, Reader, Stores
<1>2. q.mode = "1" /\ c = "2" => Stores(q, r, Json!Number)
  BY Zenon DEF Json!Read, Json!Store, Reader, Stores
<1>3. q.mode = "string" /\ c = "\"" => Stores(q, r, q.text)
  BY Zenon DEF Json!Read, Json!Store, Reader, Stores
<1>4. q.mode = "string" /\ c = "\\" =>
        r.mode = "escape" /\ r.key = q.key /\ r.members = q.members /\ r.text = q.text
  BY Zenon DEF Json!Read, Reader
<1>5. q.mode = "string" /\ c \in Json!Control => r.mode = "bad"
  BY Zenon DEF Json!Read, Json!Bad, Json!Control
<1>6. q.mode = "string" /\ c \notin Json!Control \cup {"\"", "\\"} =>
        /\ r.mode = "string" /\ r.key = q.key
        /\ r.members = q.members /\ r.text = Append(q.text, c)
  BY Zenon DEF Json!Read, Json!Control, Reader
<1>7. q.mode = "escape" /\ c \in DOMAIN Json!Unescaped =>
        /\ r.mode = "string" /\ r.key = q.key
        /\ r.members = q.members /\ r.text = Append(q.text, Json!Unescaped[c])
  <2> HIDE DEF Json!Unescaped
  <2> QED
    BY Zenon DEF Json!Read, Reader
<1> QED
  BY Zenon, <1>1, <1>2, <1>3, <1>4, <1>5, <1>6, <1>7 DEF InValue

(* A character of a string, escaped and read back. *)
CharRead(q, c, r) ==
  /\ r \in Reader
  /\ q.mode \in {"bad", "colon", "value"} => r.mode = "bad"
  /\ q.mode = "string" /\ c = "^A" => r.mode = "bad"
  /\ q.mode = "string" /\ c # "^A" =>
       /\ r.mode = "string" /\ r.key = q.key
       /\ r.members = q.members /\ r.text = Append(q.text, c)

LEMMA ReadChar ==
  ASSUME NEW q \in Reader, NEW c \in TextChar, NEW r,
         r = ReadText(q, Json!Escape(c))
  PROVE  CharRead(q, c, r)
<1>1. c \in Token /\ "\\" \in Token /\ "n" \in Token /\ "\"" \in Token
  BY Zenon DEF Token, TextChar
<1>2. CASE c \notin {"\"", "\\", "\n"}
  <2>1. Json!Escape(c) = <<c>> /\ c # "\t"
    BY Zenon, <1>2 DEF Json!Escape, Json!Char, Type, TextChar
  <2>2. r = Json!Read(q, c)
    BY Zenon, <1>1, <2>1, ShortTuples DEF ReadText
  <2>3. c \notin {":", "nu", "1", "\"", "\\", "\n", "\t", "^@"}
    BY Zenon, <1>2 DEF Json!Char, Type, TextChar
  <2>4. Anywhere(q, c, r) /\ InValue(q, c, r)
    BY Zenon, <1>1, <2>2, ReadAnywhere, ReadValue
  <2>5. r \in Reader /\ (q.mode \in {"bad", "colon", "value"} => r.mode = "bad")
    BY Zenon, <2>3, <2>4 DEF Anywhere
  <2>6. c = "^A" => (q.mode = "string" => r.mode = "bad")
    BY <2>4 DEF InValue, Json!Control
  <2>7. c # "^A" => (q.mode = "string" =>
          /\ r.mode = "string" /\ r.key = q.key
          /\ r.members = q.members /\ r.text = Append(q.text, c))
    BY Zenon, <2>3, <2>4 DEF InValue, Json!Control
  <2> QED
    BY <2>5, <2>6, <2>7 DEF CharRead
<1>3. CASE c \in {"\"", "\\", "\n"}
  <2> DEFINE d == IF c = "\n" THEN "n" ELSE c
  <2>1. Json!Escape(c) = <<"\\", d>> /\ d \in Token
    BY Zenon, <1>1, <1>3 DEF Json!Escape
  <2>2. d \in DOMAIN Json!Unescaped /\ Json!Unescaped[d] = c
    BY Zenon, <1>3 DEF Json!Unescaped
  <2> HIDE DEF d
  <2>3. PICK u : u = Json!Read(q, "\\")
    OBVIOUS
  <2>4. r = Json!Read(u, d)
    <3>1. /\ Len(<<"\\", d>>) = 2
          /\ <<"\\", d>>[1] = "\\" /\ <<"\\", d>>[2] = d
      OBVIOUS
    <3> QED
      BY <2>1, <2>3, <3>1 DEF ReadText
  <2>5. /\ u \in Reader
        /\ q.mode \in {"bad", "colon", "value"} => u.mode = "bad"
        /\ q.mode = "string" =>
             u.mode = "escape" /\ u.key = q.key /\ u.members = q.members /\ u.text = q.text
    <3>1. Anywhere(q, "\\", u) /\ InValue(q, "\\", u)
      BY Zenon, <1>1, <2>3, ReadAnywhere, ReadValue
    <3>2. u \in Reader /\ (q.mode \in {"bad", "colon", "value"} => u.mode = "bad")
      BY <3>1 DEF Anywhere
    <3>3. q.mode = "string" =>
            u.mode = "escape" /\ u.key = q.key /\ u.members = q.members /\ u.text = q.text
      BY <3>1 DEF InValue
    <3> QED
      BY <3>2, <3>3
  <2>6. /\ r \in Reader
        /\ u.mode = "bad" => r.mode = "bad"
        /\ u.mode = "escape" =>
             /\ r.mode = "string" /\ r.key = u.key
             /\ r.members = u.members /\ r.text = Append(u.text, c)
    <3>1. Anywhere(u, d, r) /\ InValue(u, d, r)
      BY <2>1, <2>4, <2>5, ReadAnywhere, ReadValue
    <3>2. r \in Reader /\ (u.mode = "bad" => r.mode = "bad")
      BY Zenon, <3>1 DEF Anywhere
    <3>3. u.mode = "escape" =>
            /\ r.mode = "string" /\ r.key = u.key
            /\ r.members = u.members /\ r.text = Append(u.text, Json!Unescaped[d])
      BY <2>2, <3>1 DEF InValue
    <3> QED
      BY <2>2, <3>2, <3>3
  <2> QED
    BY Zenon, <1>3, <2>5, <2>6 DEF CharRead
<1> QED
  BY Zenon, <1>2, <1>3

(* The same values, whatever the keys. *)
SameValues(a, b) ==
  /\ a \in Seq(Read) /\ b \in Seq(Read) /\ Len(a) = Len(b)
  /\ \A i \in 1..Len(a) : a[i].value = b[i].value

LEMMA SameAppend ==
  ASSUME NEW a, NEW b, SameValues(a, b), NEW c \in Read, NEW d \in Read, c.value = d.value
  PROVE  SameValues(Append(a, c), Append(b, d))
<1>1. a \in Seq(Read) /\ b \in Seq(Read) /\ Len(a) = Len(b)
  BY DEF SameValues
<1>2. PICK n \in Nat : n = Len(a)
  BY <1>1
<1>3. PICK u, v : u = Append(a, c) /\ v = Append(b, d)
  OBVIOUS
<1>4. u \in Seq(Read) /\ v \in Seq(Read)
  BY <1>1, <1>3, AppendTyped
<1>5. /\ Len(u) = n + 1 /\ \A i \in 1..n + 1 : u[i] = IF i <= n THEN a[i] ELSE c
      /\ Len(v) = n + 1 /\ \A i \in 1..n + 1 : v[i] = IF i <= n THEN b[i] ELSE d
  BY <1>1, <1>2, <1>3, AppendProperties
<1>6. \A i \in 1..n : a[i].value = b[i].value
  BY <1>2 DEF SameValues
<1>7. \A i \in 1..n + 1 : u[i].value = v[i].value
  <2> TAKE i \in 1..n + 1
  <2>1. CASE i <= n
    BY <1>5, <1>6, <2>1
  <2>2. CASE ~(i <= n)
    BY <1>5, <2>2
  <2> QED
    BY <2>1, <2>2
<1> QED
  BY <1>3, <1>4, <1>5, <1>7 DEF SameValues

(* Where the page's reader is between two tokens, if nothing failed: in    *)
(* `mode`, with the members `ms` behind it, unless a string was spoiled by *)
(* a control character.                                                    *)
Expects(spoiled, mode, ms) ==
  {q \in Reader : IF spoiled THEN q.mode = "bad"
                  ELSE q.mode = mode /\ q.text = <<>> /\ q.members = ms}
Names(spoiled, mode, key, ms) ==
  {q \in Expects(spoiled, mode, ms) : ~spoiled => q.key = key}

(* And if an append failed: it is out of step, or has the right values. *)
Fumbles(modes, mode, ms) ==
  {q \in Reader : q.mode \in modes
                    \/ (q.mode = mode /\ q.text = <<>> /\ SameValues(q.members, ms))}

(* Reading c in one of these states. *)
LEMMA ReadState ==
  ASSUME NEW q \in Reader, NEW c \in Token
  PROVE  Anywhere(q, c, Json!Read(q, c)) /\ InValue(q, c, Json!Read(q, c))
BY ReadAnywhere, ReadValue

LEMMA OpenBrace ==
  ASSUME NEW x, NEW failing, At(x, Expects(FALSE, "object", <<>>), {})
  PROVE  At(Json!PutAll(x, <<Json!Part(<<"{">>)>>, failing),
            Expects(FALSE, "key", <<>>),
            Fumbles({"bad", "string", "keytext", "after", "object"}, "key", <<>>))
<1> DEFINE G  == Expects(FALSE, "object", <<>>)
           F  == {}
           G2 == Expects(FALSE, "key", <<>>)
           F2 == Fumbles({"bad", "string", "keytext", "after", "object"}, "key", <<>>)
<1>1. "{" \in Token
  BY DEF Token
<1>2. ASSUME NEW q \in G
      PROVE  Json!Read(q, "{") \in G2 /\ q \in F2 /\ q.mode # "end"
  <2>1. q \in Reader /\ q.mode = "object"
    BY <1>2 DEF Expects
  <2>2. Anywhere(q, "{", Json!Read(q, "{"))
    BY Zenon, <1>1, <2>1, ReadState
  <2> QED
    BY Zenon, <1>2, <2>1, <2>2 DEF Anywhere, Keeps, Expects, Fumbles
<1>3. ASSUME NEW q \in F
      PROVE  Json!Read(q, "{") \in F2
  BY Zenon, <1>3
<1>4. At(x, G, F)
  OBVIOUS
<1> HIDE DEF G, F, G2, F2
<1>5. At(Json!PutAll(x, <<Json!Part(<<"{">>)>>, failing), G2, F2)
  BY Zenon, <1>1, <1>2, <1>3, <1>4, OneTokenAt
<1> QED
  BY Zenon, <1>5 DEF G2, F2

LEMMA QuoteOpensKey ==
  ASSUME NEW x, NEW failing, NEW sp \in BOOLEAN, NEW ms \in Seq(Read),
         At(x, Expects(sp, "key", ms),
            Fumbles({"bad", "string", "keytext", "after", "object"}, "key", ms))
  PROVE  At(Json!PutAll(x, Json!Quote, failing),
            Expects(sp, "keytext", ms),
            Fumbles({"bad", "after", "colon", "key"}, "keytext", ms))
<1> DEFINE G  == Expects(sp, "key", ms)
           F  == Fumbles({"bad", "string", "keytext", "after", "object"}, "key", ms)
           G2 == Expects(sp, "keytext", ms)
           F2 == Fumbles({"bad", "after", "colon", "key"}, "keytext", ms)
<1>1. "\"" \in Token
  BY DEF Token
<1>2. \A q \in Reader : Anywhere(q, "\"", Json!Read(q, "\"")) /\ InValue(q, "\"", Json!Read(q, "\""))
  BY Zenon, <1>1, ReadState
<1>3. ASSUME NEW q \in G
      PROVE  Json!Read(q, "\"") \in G2 /\ q \in F2 /\ q.mode # "end"
  BY Zenon, <1>2, <1>3 DEF Anywhere, Keeps, Expects, Fumbles
<1>4. ASSUME NEW q \in F
      PROVE  Json!Read(q, "\"") \in F2
  BY Zenon, <1>2, <1>4 DEF Anywhere, InValue, Keeps, Stores, Fumbles
<1> HIDE DEF G, F, G2, F2
<1>5. At(Json!PutAll(x, <<Json!Part(<<"\"">>)>>, failing), G2, F2)
  BY Zenon, <1>1, <1>3, <1>4, OneTokenAt DEF G, F
<1> QED
  BY Zenon, <1>5 DEF G2, F2, Json!Quote

LEMMA KeyIsPut ==
  ASSUME NEW x, NEW failing, NEW sp \in BOOLEAN, NEW ms \in Seq(Read), NEW key \in Key,
         At(x, Expects(sp, "keytext", ms),
            Fumbles({"bad", "after", "colon", "key"}, "keytext", ms))
  PROVE  At(Json!PutAll(x, <<Json!Part(<<key>>)>>, failing),
            Names(sp, "keytext", key, ms), Fumbles({"bad"}, "keytext", ms))
<1> DEFINE G  == Expects(sp, "keytext", ms)
           F  == Fumbles({"bad", "after", "colon", "key"}, "keytext", ms)
           G2 == Names(sp, "keytext", key, ms)
           F2 == Fumbles({"bad"}, "keytext", ms)
<1>1. key \in Token /\ key \notin {"{", "\"", ":", ",", "}"}
  BY Zenon DEF Token, Key
<1>2. \A q \in Reader : Anywhere(q, key, Json!Read(q, key))
  BY Zenon, <1>1, ReadState
<1>3. ASSUME NEW q \in G
      PROVE  Json!Read(q, key) \in G2 /\ q \in F2 /\ q.mode # "end"
  <2>1. q \in Reader /\ Anywhere(q, key, Json!Read(q, key))
    BY <1>2 DEF Expects
  <2>2. q \in F2 /\ q.mode # "end"
    BY DEF Expects, Fumbles, SameValues
  <2>3. Json!Read(q, key) \in G2
    BY Zenon, <1>1, <2>1 DEF Anywhere, Keeps, Expects, Names
  <2> QED
    BY <2>2, <2>3
<1>4. ASSUME NEW q \in F
      PROVE  Json!Read(q, key) \in F2
  BY Zenon, <1>1, <1>2, <1>4 DEF Anywhere, Keeps, Fumbles
<1> HIDE DEF G, F, G2, F2
<1>5. At(Json!PutAll(x, <<Json!Part(<<key>>)>>, failing), G2, F2)
  BY Zenon, <1>1, <1>3, <1>4, OneTokenAt DEF G, F
<1> QED
  BY <1>5 DEF G2, F2

LEMMA QuoteClosesKey ==
  ASSUME NEW x, NEW failing, NEW sp \in BOOLEAN, NEW ms \in Seq(Read), NEW key \in Key,
         At(x, Names(sp, "keytext", key, ms), Fumbles({"bad"}, "keytext", ms))
  PROVE  At(Json!PutAll(x, Json!Quote, failing),
            Names(sp, "colon", key, ms), Fumbles({"bad", "keytext"}, "colon", ms))
<1> DEFINE G  == Names(sp, "keytext", key, ms)
           F  == Fumbles({"bad"}, "keytext", ms)
           G2 == Names(sp, "colon", key, ms)
           F2 == Fumbles({"bad", "keytext"}, "colon", ms)
<1>1. "\"" \in Token
  BY DEF Token
<1>2. \A q \in Reader : Anywhere(q, "\"", Json!Read(q, "\""))
  BY Zenon, <1>1, ReadState
<1>3. ASSUME NEW q \in G
      PROVE  Json!Read(q, "\"") \in G2 /\ q \in F2 /\ q.mode # "end"
  BY Zenon, <1>2, <1>3 DEF Anywhere, Keeps, Expects, Names, Fumbles
<1>4. ASSUME NEW q \in F
      PROVE  Json!Read(q, "\"") \in F2
  BY Zenon, <1>2, <1>4 DEF Anywhere, Keeps, Fumbles
<1> HIDE DEF G, F, G2, F2
<1>5. At(Json!PutAll(x, <<Json!Part(<<"\"">>)>>, failing), G2, F2)
  BY Zenon, <1>1, <1>3, <1>4, OneTokenAt DEF G, F
<1> QED
  BY Zenon, <1>5 DEF G2, F2, Json!Quote

LEMMA ColonIsPut ==
  ASSUME NEW x, NEW failing, NEW sp \in BOOLEAN, NEW ms \in Seq(Read), NEW key \in Key,
         At(x, Names(sp, "colon", key, ms), Fumbles({"bad", "keytext"}, "colon", ms))
  PROVE  At(Json!PutAll(x, <<Json!Part(<<":">>)>>, failing),
            Names(sp, "value", key, ms), Fumbles({"bad", "keytext", "colon"}, "value", ms))
<1> DEFINE G  == Names(sp, "colon", key, ms)
           F  == Fumbles({"bad", "keytext"}, "colon", ms)
           G2 == Names(sp, "value", key, ms)
           F2 == Fumbles({"bad", "keytext", "colon"}, "value", ms)
<1>1. ":" \in Token
  BY DEF Token
<1>2. \A q \in Reader : Anywhere(q, ":", Json!Read(q, ":"))
  BY <1>1, ReadState
<1>3. ASSUME NEW q \in G
      PROVE  Json!Read(q, ":") \in G2 /\ q \in F2 /\ q.mode # "end"
  BY <1>2, <1>3 DEF Anywhere, Keeps, Expects, Names, Fumbles
<1>4. ASSUME NEW q \in F
      PROVE  Json!Read(q, ":") \in F2
  BY <1>2, <1>4 DEF Anywhere, Keeps, Fumbles
<1> HIDE DEF G, F, G2, F2
<1>5. At(Json!PutAll(x, <<Json!Part(<<":">>)>>, failing), G2, F2)
  BY <1>1, <1>3, <1>4, OneTokenAt DEF G, F
<1> QED
  BY <1>5 DEF G2, F2

Pair(key, value) == [key |-> key, value |-> value]

(* A number or a null. *)
LEMMA PairIsPut ==
  ASSUME NEW x, NEW failing, NEW sp \in BOOLEAN, NEW ms \in Seq(Read), NEW key \in Key,
         NEW a \in Token, NEW b \in Token, NEW v \in Seq(Token),
         \/ a = "nu" /\ b = "ll" /\ v = Json!NULL
         \/ a = "1" /\ b = "2" /\ v = Json!Number,
         At(x, Names(sp, "value", key, ms),
            Fumbles({"bad", "keytext", "colon"}, "value", ms))
  PROVE  At(Json!PutAll(x, <<Json!Part(<<a, b>>)>>, failing),
            Expects(sp, "after", Append(ms, Pair(key, v))),
            Fumbles({"bad", "string", "keytext", "value"}, "after", Append(ms, Pair(key, v))))
<1> DEFINE G  == Names(sp, "value", key, ms)
           F  == Fumbles({"bad", "keytext", "colon"}, "value", ms)
           m2 == Append(ms, Pair(key, v))
           G2 == Expects(sp, "after", m2)
           F2 == Fumbles({"bad", "string", "keytext", "value"}, "after", m2)
<1>1. PICK p \in Appends : p = Json!Part(<<a, b>>) /\ p.skips = 0 /\ p.text = <<a, b>>
  <2>1. <<a, b>> \in Few
    BY TwoTokens
  <2>2. Json!Part(<<a, b>>) = [text |-> <<a, b>>, skips |-> 0]
    BY DEF Json!Part
  <2>3. Json!Part(<<a, b>>) \in Appends
    BY <2>1, <2>2 DEF Appends
  <2> QED
    BY <2>2, <2>3
<1>2. Len(p.text) = 2 /\ p.text[1] = a /\ p.text[2] = b
  BY SMTT(20), <1>1, ShortTuples
<1>3. \A q : ReadText(q, p.text) = Json!Read(Json!Read(q, a), b)
  BY <1>2 DEF ReadText
<1>4. ASSUME NEW q \in Reader
      PROVE  /\ ReadText(q, p.text) \in Reader
             /\ q.mode \in {"bad", "colon"} => ReadText(q, p.text).mode = "bad"
             /\ q.mode = "keytext" => ReadText(q, p.text).mode = "keytext"
             /\ q.mode = "value" => Stores(q, ReadText(q, p.text), v)
  <2>1. PICK u : u = Json!Read(q, a)
    OBVIOUS
  <2>2. Anywhere(q, a, u)
    BY <2>1, ReadState
  <2>3. u \in Reader
    BY Zenon, <2>2 DEF Anywhere
  <2>4. PICK r : r = Json!Read(u, b)
    OBVIOUS
  <2>5. Anywhere(u, b, r) /\ InValue(u, b, r)
    BY <2>3, <2>4, ReadState
  <2>6. /\ q.mode \in {"bad", "colon"} => u.mode = "bad"
        /\ q.mode = "keytext" => u.mode = "keytext"
        /\ q.mode = "value" => u.mode = a /\ u.key = q.key /\ Keeps(q, u)
    BY Zenon, <2>2 DEF Anywhere
  <2>7. /\ r \in Reader
        /\ u.mode = "bad" => r.mode = "bad"
        /\ u.mode = "keytext" => r.mode = "keytext"
    BY Zenon, <2>5 DEF Anywhere
  <2>8. u.mode = a => Stores(u, r, v)
    BY Zenon, <2>5 DEF InValue
  <2>9. q.mode = "value" => Stores(q, r, v)
    BY <2>6, <2>8 DEF Stores, Keeps
  <2>10. ReadText(q, p.text) = r
    BY <1>3, <2>1, <2>4
  <2> QED
    BY <2>6, <2>7, <2>9, <2>10
<1>5. ASSUME NEW q \in G
      PROVE  /\ ReadText(q, p.text) \in G2 /\ q \in F2
             /\ q.mode # "end"
             /\ q.mode \in {"string", "value", "bad"}
  <2>1. q \in Reader /\ q.mode = (IF sp THEN "bad" ELSE "value")
    BY DEF Names, Expects
  <2>2. ReadText(q, p.text) \in G2
    BY <1>4, <2>1 DEF Names, Expects, Stores, Pair
  <2> QED
    BY <2>1, <2>2 DEF Fumbles
<1>6. ASSUME NEW q \in F
      PROVE  ReadText(q, p.text) \in F2
  <2>1. q \in Reader
    BY DEF Fumbles
  <2>2. CASE q.mode \in {"bad", "keytext", "colon"}
    BY <1>4, <2>1, <2>2 DEF Fumbles
  <2>3. CASE q.mode = "value" /\ SameValues(q.members, ms)
    <3>1. PICK r : r = ReadText(q, p.text)
      OBVIOUS
    <3>2. Stores(q, r, v) /\ r \in Reader
      BY <1>4, <2>1, <2>3, <3>1
    <3>3. Pair(q.key, v) \in Read /\ Pair(key, v) \in Read
      BY Zenon, <2>1 DEF Pair, Read, Reader, Token
    <3>4. SameValues(r.members, m2)
      BY <2>3, <3>2, <3>3, SameAppend DEF Stores, Pair
    <3> QED
      BY <3>1, <3>2, <3>4 DEF Stores, Fumbles
  <2> QED
    BY <2>2, <2>3 DEF Fumbles
<1> HIDE DEF G, F, G2, F2
<1>7. At(Json!PutAll(x, <<p>>, failing), G2, F2)
  BY <1>1, <1>2, <1>5, <1>6, OnePutAt DEF G, F
<1> QED
  BY <1>1, <1>7 DEF G2, F2

(* Inside a string: its first i characters were put. *)
HasControl(s, i) == \E j \in 1..i : s[j] = "^A"
Begins(t, s, i) == t \in Seq(Token) /\ Len(t) = i /\ \A j \in 1..i : t[j] = s[j]
Spells(sp, key, s, i, ms) ==
  {q \in Reader : IF sp \/ HasControl(s, i) THEN q.mode = "bad"
                  ELSE /\ q.mode = "string" /\ Begins(q.text, s, i)
                       /\ q.key = key /\ q.members = ms}
Slurs(s, i, ms) ==
  {q \in Reader : q.mode \in {"bad", "colon", "value"}
                    \/ (/\ q.mode = "string" /\ Begins(q.text, s, i)
                        /\ SameValues(q.members, ms))}
CutShort == {q \in Reader : q.mode \in {"string", "bad"}}

LEMMA QuoteOpensString ==
  ASSUME NEW x, NEW failing, NEW sp \in BOOLEAN, NEW ms \in Seq(Read), NEW key \in Key, NEW s,
         At(x, Names(sp, "value", key, ms),
            Fumbles({"bad", "keytext", "colon"}, "value", ms))
  PROVE  At(Json!PutAll(x, Json!Quote, failing),
            Spells(sp, key, s, 0, ms), Slurs(s, 0, ms))
<1> DEFINE G  == Names(sp, "value", key, ms)
           F  == Fumbles({"bad", "keytext", "colon"}, "value", ms)
           G2 == Spells(sp, key, s, 0, ms)
           F2 == Slurs(s, 0, ms)
<1>1. "\"" \in Token
  BY DEF Token
<1>2. \A q \in Reader : Anywhere(q, "\"", Json!Read(q, "\""))
  BY Zenon, <1>1, ReadState
<1>3. Begins(<<>>, s, 0) /\ ~HasControl(s, 0)
  BY DEF Begins, HasControl
<1>4. ASSUME NEW q \in G
      PROVE  Json!Read(q, "\"") \in G2 /\ q \in F2 /\ q.mode # "end"
  BY Zenon, <1>2, <1>3, <1>4 DEF Anywhere, Keeps, Expects, Names, Spells, Slurs
<1>5. ASSUME NEW q \in F
      PROVE  Json!Read(q, "\"") \in F2
  BY Zenon, <1>2, <1>3, <1>5 DEF Anywhere, Keeps, Fumbles, Slurs
<1> HIDE DEF G, F, G2, F2
<1>6. At(Json!PutAll(x, <<Json!Part(<<"\"">>)>>, failing), G2, F2)
  BY Zenon, <1>1, <1>4, <1>5, OneTokenAt DEF G, F
<1> QED
  BY Zenon, <1>6 DEF G2, F2, Json!Quote

LEMMA BeginsMore ==
  ASSUME NEW s, NEW i \in Nat \ {0}, NEW t, Begins(t, s, i - 1), s[i] \in Token
  PROVE  Begins(Append(t, s[i]), s, i)
<1>1. t \in Seq(Token) /\ Len(t) = i - 1 /\ \A j \in 1..i - 1 : t[j] = s[j]
  BY DEF Begins
<1>2. PICK c \in Token : c = s[i]
  OBVIOUS
<1>3. PICK u : u = Append(t, c)
  OBVIOUS
<1>4. u \in Seq(Token)
  BY <1>1, <1>3, AppendTyped
<1>5. Len(u) = i /\ \A j \in 1..i : u[j] = IF j <= i - 1 THEN t[j] ELSE c
  BY <1>1, <1>3, AppendProperties
<1>6. \A j \in 1..i : u[j] = s[j]
  <2> TAKE j \in 1..i
  <2>1. CASE j <= i - 1
    BY <1>1, <1>5, <2>1
  <2>2. CASE j = i
    BY <1>2, <1>5, <2>2
  <2> QED
    BY <2>1, <2>2
<1> QED
  BY <1>2, <1>3, <1>4, <1>5, <1>6 DEF Begins

(* The texts of messages. *)
Text == Seq(TextChar)

LEMMA CharIsPut ==
  ASSUME NEW x, NEW failing, NEW sp \in BOOLEAN, NEW ms \in Seq(Read), NEW key \in Key,
         NEW s \in Text, NEW n \in Nat, n = Len(s), NEW i \in 1..n,
         NEW p, p = [text |-> Json!Escape(s[i]), skips |-> Json!Skips(s, i)],
         On(x, Spells(sp, key, s, i - 1, ms), Slurs(s, i - 1, ms),
            n - (i - 1) + 1, CutShort)
  PROVE  On(Json!Put(x, p, failing), Spells(sp, key, s, i, ms), Slurs(s, i, ms),
            n - i + 1, CutShort)
<1> DEFINE G  == Spells(sp, key, s, i - 1, ms)
           F  == Slurs(s, i - 1, ms)
           k  == n - (i - 1) + 1
           G2 == Spells(sp, key, s, i, ms)
           F2 == Slurs(s, i, ms)
           k2 == n - i + 1
<1>1. PICK c \in TextChar : c = s[i]
  BY ElementOfSeq DEF Text
<1>2. c \in Token
  BY Zenon DEF Token, TextChar
<1>3. p \in Appends /\ p.text = Json!Escape(c) /\ p.skips = k2
  <2>1. Json!Escape(c) \in Few
    BY <1>2, EscapeIsFew
  <2>2. Json!Skips(s, i) = k2 /\ k2 \in Nat
    BY DEF Json!Skips
  <2> QED
    BY <1>1, <2>1, <2>2 DEF Appends
<1>4. \A q \in Reader : CharRead(q, c, ReadText(q, p.text))
  BY <1>3, ReadChar
<1>5. \A t : Begins(t, s, i - 1) => Begins(Append(t, c), s, i)
  BY <1>1, <1>2, BeginsMore
<1>6. HasControl(s, i) <=> HasControl(s, i - 1) \/ c = "^A"
  BY <1>1 DEF HasControl
<1>7. ASSUME NEW q \in G
      PROVE  ReadText(q, p.text) \in G2 /\ q.mode \in {"string", "bad"} /\ q \in CutShort
  <2> HIDE DEF G2
  <2>1. q \in Reader
    BY DEF Spells
  <2>2. q.mode \in {"string", "bad"} /\ q \in CutShort
    BY <2>1 DEF Spells, CutShort
  <2>3. CASE sp \/ HasControl(s, i - 1)
    BY <1>4, <1>6, <2>1, <2>2, <2>3 DEF CharRead, Spells, G2
  <2>4. CASE ~(sp \/ HasControl(s, i - 1))
    <3>1. q.mode = "string" /\ Begins(q.text, s, i - 1) /\ q.key = key /\ q.members = ms
      BY <2>4 DEF Spells
    <3>2. PICK r : r = ReadText(q, p.text)
      OBVIOUS
    <3>3. CharRead(q, c, r)
      BY <1>4, <2>1, <3>2
    <3>4. CASE c = "^A"
      BY <1>6, <2>2, <3>1, <3>2, <3>3, <3>4 DEF CharRead, Spells, G2
    <3>5. CASE c # "^A"
      <4>1. Begins(r.text, s, i)
        BY <1>5, <3>1, <3>3, <3>5 DEF CharRead
      <4> QED
        BY <1>6, <2>2, <2>4, <3>1, <3>2, <3>3, <3>5, <4>1 DEF CharRead, Spells, G2
    <3> QED
      BY <3>4, <3>5
  <2> QED
    BY <2>3, <2>4
<1>8. ASSUME NEW q \in F
      PROVE  ReadText(q, p.text) \in F2
  <2>1. PICK r : r = ReadText(q, p.text)
    OBVIOUS
  <2>2. q \in Reader /\ CharRead(q, c, r)
    BY <1>4, <2>1 DEF Slurs
  <2>3. CASE q.mode \in {"bad", "colon", "value"} \/ c = "^A"
    BY <2>1, <2>2, <2>3 DEF CharRead, Slurs
  <2>4. CASE /\ c # "^A" /\ q.mode = "string" /\ Begins(q.text, s, i - 1)
             /\ SameValues(q.members, ms)
    <3>1. Begins(r.text, s, i)
      BY <1>5, <2>2, <2>4 DEF CharRead
    <3> QED
      BY <2>1, <2>2, <2>4, <3>1 DEF CharRead, Slurs
  <2> QED
    BY <2>3, <2>4 DEF Slurs
<1>9. k2 > 0 /\ k > 1 /\ k \in Nat /\ k2 \in Nat /\ k2 = k - 1
  OBVIOUS
<1> HIDE DEF G, F, G2, F2, k, k2
<1>10. G \subseteq CutShort
  BY <1>7
<1>11. \A q \in G : /\ ReadText(q, p.text) \in G2
                    /\ q.mode # "end"
                    /\ Len(p.text) = 2 => q.mode \in {"string", "value", "bad"}
  BY <1>7
<1>12. Leads(p, G, F, k, CutShort, G2, F2, k2, CutShort)
  BY <1>3, <1>8, <1>9, <1>10, <1>11 DEF Leads
<1>13. On(x, G, F, k, CutShort)
  BY DEF G, F, k
<1>14. On(Json!Put(x, p, failing), G2, F2, k2, CutShort)
  BY <1>3, <1>9, <1>12, <1>13, OnePut
<1> QED
  BY <1>14 DEF G2, F2, k2

LEMMA QuoteClosesString ==
  ASSUME NEW x, NEW failing, NEW sp \in BOOLEAN, NEW ms \in Seq(Read), NEW key \in Key,
         NEW s \in Text, NEW n \in Nat, n = Len(s),
         NEW k \in Nat, k = 1,
         On(x, Spells(sp, key, s, n, ms), Slurs(s, n, ms), k, CutShort)
  PROVE  At(Json!PutAll(x, Json!Quote, failing),
            Expects(sp \/ HasControl(s, n), "after", Append(ms, Pair(key, s))),
            Fumbles({"bad", "string", "keytext", "value"}, "after", Append(ms, Pair(key, s))))
<1> DEFINE G  == Spells(sp, key, s, n, ms)
           F  == Slurs(s, n, ms)
           m2 == Append(ms, Pair(key, s))
           G2 == Expects(sp \/ HasControl(s, n), "after", m2)
           F2 == Fumbles({"bad", "string", "keytext", "value"}, "after", m2)
<1>1. PICK c \in Token : c = "\""
  BY Zenon DEF Token
<1>2. PICK p \in Appends : p = Json!Part(<<c>>) /\ p.skips = 0 /\ p.text = <<c>>
  BY TokenPart
<1>3. Len(p.text) = 1 /\ p.text[1] = c
  BY <1>2, ShortTuples
<1>4. \A q : ReadText(q, p.text) = Json!Read(q, c)
  BY <1>3 DEF ReadText
<1>5. \A q \in Reader : LET r == ReadText(q, p.text) IN
        /\ Anywhere(q, c, r)
        /\ q.mode = "string" => Stores(q, r, q.text)
  <2>1. \A q \in Reader : LET r == Json!Read(q, c) IN
          Anywhere(q, c, r) /\ InValue(q, c, r)
    BY ReadState
  <2> QED
    BY Zenon, <1>1, <1>4, <2>1 DEF InValue
<1>6. s \in Seq(Token)
  <2>1. TextChar \subseteq Token
    BY Zenon DEF Token, TextChar
  <2> HIDE DEF Token
  <2> QED
    BY <2>1 DEF Text
<1>7. \A t : Begins(t, s, n) => t = s
  BY <1>6, SeqEqual DEF Begins
<1>8. ASSUME NEW q \in G
      PROVE  ReadText(q, p.text) \in G2 /\ q \in F2 /\ q.mode # "end" /\ q \in CutShort
  <2>1. q \in Reader /\ q.mode \in {"string", "bad"}
    BY DEF Spells
  <2>2. ReadText(q, p.text) \in Reader
    BY Zenon, <1>5, <2>1 DEF Anywhere
  <2>3. CASE sp \/ HasControl(s, n)
    BY Zenon, <1>1, <1>5, <2>1, <2>2, <2>3 DEF Anywhere, Spells, Expects, Fumbles, CutShort
  <2>4. CASE ~(sp \/ HasControl(s, n))
    <3>1. q.mode = "string" /\ q.text = s /\ q.key = key /\ q.members = ms
      BY <1>7, <2>4 DEF Spells
    <3>2. Stores(q, ReadText(q, p.text), q.text)
      BY <1>5, <2>1, <3>1
    <3> QED
      BY <2>1, <2>2, <2>4, <3>1, <3>2 DEF Stores, Expects, Fumbles, CutShort, Pair
  <2> QED
    BY <2>3, <2>4
<1>9. ASSUME NEW q \in F
      PROVE  ReadText(q, p.text) \in F2
  <2>1. PICK r : r = ReadText(q, p.text)
    OBVIOUS
  <2>2. q \in Reader /\ Anywhere(q, c, r) /\ (q.mode = "string" => Stores(q, r, q.text))
    BY <1>5, <2>1 DEF Slurs
  <2>3. r \in Reader
    BY Zenon, <2>2 DEF Anywhere
  <2>4. CASE q.mode \in {"bad", "colon", "value"}
    BY Zenon, <1>1, <2>1, <2>2, <2>3, <2>4 DEF Anywhere, Fumbles
  <2>5. CASE q.mode = "string" /\ Begins(q.text, s, n) /\ SameValues(q.members, ms)
    <3>1. Stores(q, r, s)
      BY <1>7, <2>2, <2>5
    <3>2. Pair(q.key, s) \in Read /\ Pair(key, s) \in Read
      BY Zenon, <1>6, <2>2 DEF Pair, Read, Reader, Token
    <3>3. SameValues(r.members, m2)
      BY <2>5, <3>1, <3>2, SameAppend DEF Stores, Pair
    <3> QED
      BY <2>1, <2>3, <3>1, <3>3 DEF Stores, Fumbles
  <2> QED
    BY <2>4, <2>5 DEF Slurs
<1>10. CutShort \subseteq F2
  BY DEF CutShort, Fumbles
<1>11. On(x, G, F, k, CutShort)
  OBVIOUS
<1> HIDE DEF G, F, G2, F2
<1>12. \A q \in G : /\ ReadText(q, p.text) \in G2
                    /\ q.mode # "end"
                    /\ Len(p.text) = 2 => q.mode \in {"string", "value", "bad"}
  <2>1. Len(p.text) # 2
    BY <1>3
  <2> QED
    BY <1>8, <2>1
<1>13. G \subseteq F2
  BY <1>8
<1>14. Leads(p, G, F, k, CutShort, G2, F2, 0, {})
  BY <1>2, <1>9, <1>10, <1>12, <1>13 DEF Leads
<1>15. PICK y : y = Json!Put(x, p, failing)
  OBVIOUS
<1>16. On(y, G2, F2, 0, {})
  BY <1>11, <1>14, <1>15, OnePut
<1>17. Json!PutAll(x, <<p>>, failing) = y
  BY <1>11, <1>15, PutAllOne DEF On
<1> QED
  BY Zenon, <1>1, <1>2, <1>16, <1>17 DEF At, G2, F2, Json!Quote

Controls(s) == HasControl(s, Len(s))

LEMMA TextIsWhole ==
  ASSUME NEW s \in Text
  PROVE  Json!CString(s) = s /\ s # Json!NULL
<1>1. TextChar \ {"^@"} = TextChar
  BY Zenon DEF TextChar, Type
<1>2. Json!CString(s) = s
  BY <1>1, CStringFacts DEF Text
<1>3. s # Json!NULL
  <2>1. "NULL" \notin TextChar
    BY DEF TextChar, Type, Json!Char
  <2>2. Len(Json!NULL) = 1 /\ Json!NULL[1] = "NULL"
    BY DEF Json!NULL
  <2>3. s = Json!NULL => s[1] \in TextChar
    BY <2>2, ElementOfSeq DEF Text
  <2> QED
    BY <2>1, <2>2, <2>3
<1> QED
  BY <1>2, <1>3

LEMMA StringIsPut ==
  ASSUME NEW x, NEW failing, NEW sp \in BOOLEAN, NEW ms \in Seq(Read), NEW key \in Key,
         NEW s \in Text, s # Json!NULL,
         At(x, Names(sp, "value", key, ms),
            Fumbles({"bad", "keytext", "colon"}, "value", ms))
  PROVE  At(Json!PutAll(x, Json!JsonEncodeString(s), failing),
            Expects(sp \/ Controls(s), "after", Append(ms, Pair(key, s))),
            Fumbles({"bad", "string", "keytext", "value"}, "after", Append(ms, Pair(key, s))))
<1> DEFINE m == [i \in 1..Len(s) |-> [text |-> Json!Escape(s[i]), skips |-> Json!Skips(s, i)]]
           x1 == Json!PutAll(x, Json!Quote, failing)
           x2 == Json!PutAll(x1, m, failing)
           x3 == Json!PutAll(x2, Json!Quote, failing)
<1>1. PICK n \in Nat : n = Len(s)
  BY DEF Text
<1>2. m \in Seq(Appends) /\ Len(m) = n
  <2>1. ASSUME NEW i \in 1..n
        PROVE  m[i] \in Appends
    <3>1. PICK c \in Token : c = s[i]
      <4>1. s[i] \in TextChar
        BY <1>1, ElementOfSeq DEF Text
      <4> QED
        BY Zenon, <4>1 DEF Token, TextChar
    <3>2. Json!Escape(c) \in Few
      BY EscapeIsFew
    <3>3. Json!Skips(s, i) \in Nat
      BY <1>1 DEF Json!Skips
    <3> QED
      BY <1>1, <3>1, <3>2, <3>3 DEF Appends
  <2>2. m = [i \in 1..n |-> m[i]]
    BY <1>1
  <2> HIDE DEF m
  <2>3. m \in [1..n -> Appends]
    BY <2>1, <2>2
  <2> QED
    BY <2>3
<1>3. \A i \in 1..n : m[i] = [text |-> Json!Escape(s[i]), skips |-> Json!Skips(s, i)]
  BY <1>1
<1>4. Json!JsonEncodeString(s) = (Json!Quote \o m) \o Json!Quote
  <2>1. Json!CString(s) = s
    BY TextIsWhole
  <2> QED
    BY <2>1 DEF Json!JsonEncodeString, Json!EncodeText
<1> HIDE DEF m
<1>5. Json!Quote \in Seq(Appends) /\ Json!Quote \o m \in Seq(Appends)
  BY <1>2, QuoteIsAppends, AppendsCat
<1>6. x \in Encoder
  BY DEF At, On
<1>7. x1 \in Encoder /\ x2 \in Encoder
  BY <1>2, <1>5, <1>6, PutAllTyped
<1>8. x3 = Json!PutAll(x, Json!JsonEncodeString(s), failing)
  <2>1. Json!PutAll(x, Json!Quote \o m, failing) = x2
    BY <1>2, <1>5, <1>6, PutAllCat
  <2>2. Json!PutAll(x, (Json!Quote \o m) \o Json!Quote, failing) =
          Json!PutAll(Json!PutAll(x, Json!Quote \o m, failing), Json!Quote, failing)
    BY ZenonT(40), <1>5, <1>6, PutAllCat
  <2> QED
    BY <1>4, <2>1, <2>2 DEF x3
<1>9. At(x1, Spells(sp, key, s, 0, ms), Slurs(s, 0, ms))
  BY QuoteOpensString
<1> HIDE DEF x1
<1>10. PICK put : PutsAll(x1, m, failing, put)
  BY <1>2, <1>7, PutAllSteps
<1> DEFINE K(i) == On(put[i], Spells(sp, key, s, i, ms), Slurs(s, i, ms),
                      n - i + 1, CutShort)
           I == {i \in 0..n : K(i)}
<1>11. 0 \in I
  <2>1. put[0] = x1
    BY <1>10 DEF PutsAll
  <2>2. K(0)
    BY <1>9, <2>1 DEF At, On
  <2> QED
    BY <2>2
<1>12. \A i \in 1..n : i - 1 \in I => i \in I
  <2> SUFFICES ASSUME NEW i \in 1..n, K(i - 1)
               PROVE  K(i)
    OBVIOUS
  <2>1. put[i] = Json!Put(put[i - 1], m[i], failing)
    BY <1>2, <1>10 DEF PutsAll
  <2>2. PICK y, p : y = put[i - 1] /\ p = m[i]
    OBVIOUS
  <2>3. On(Json!Put(y, p, failing), Spells(sp, key, s, i, ms), Slurs(s, i, ms),
           n - i + 1, CutShort)
    BY <1>1, <1>3, <2>2, CharIsPut
  <2> QED
    BY <2>1, <2>2, <2>3
<1> HIDE DEF I
<1>13. n \in I
  BY SMTT(20), <1>11, <1>12, UpwardInduction
<1>14. x2 = put[n]
  BY <1>2, <1>10 DEF PutsAll
<1> HIDE DEF x2
<1>15. PICK k \in Nat : k = 1
  OBVIOUS
<1>16. On(x2, Spells(sp, key, s, n, ms), Slurs(s, n, ms), k, CutShort)
  <2>1. n - n + 1 = k
    BY <1>15
  <2> QED
    BY <1>13, <1>14, <2>1 DEF I
<1>17. At(x3,
          Expects(sp \/ HasControl(s, n), "after", Append(ms, Pair(key, s))),
          Fumbles({"bad", "string", "keytext", "value"}, "after", Append(ms, Pair(key, s))))
  BY <1>1, <1>15, <1>16, QuoteClosesString
<1> QED
  BY <1>1, <1>8, <1>17 DEF Controls

(* The value of a member. *)
LEMMA ValueIsPut ==
  ASSUME NEW x, NEW failing, NEW sp \in BOOLEAN, NEW ms \in Seq(Read), NEW key \in Key,
         NEW s \in Text \cup {Json!NULL},
         At(x, Names(sp, "value", key, ms),
            Fumbles({"bad", "keytext", "colon"}, "value", ms))
  PROVE  At(Json!PutAll(x, Json!JsonEncodeString(s), failing),
            Expects(sp \/ Controls(s), "after", Append(ms, Pair(key, s))),
            Fumbles({"bad", "string", "keytext", "value"}, "after", Append(ms, Pair(key, s))))
<1>1. CASE s = Json!NULL
  <2>1. "nu" \in Token /\ "ll" \in Token /\ "NULL" \in Token
    BY DEF Token
  <2>2. Json!NULL \in Seq(Token) /\ Len(Json!NULL) = 1 /\ Json!NULL[1] = "NULL"
    BY <2>1, ShortTuples DEF Json!NULL
  <2>3. ~Controls(s)
    BY <1>1, <2>2 DEF Controls, HasControl
  <2>4. Json!JsonEncodeString(s) = <<Json!Part(<<"nu", "ll">>)>>
    BY <1>1 DEF Json!JsonEncodeString
  <2>5. PICK v \in Seq(Token) : v = Json!NULL
    BY <2>2
  <2>6. At(Json!PutAll(x, <<Json!Part(<<"nu", "ll">>)>>, failing),
           Expects(sp, "after", Append(ms, Pair(key, v))),
           Fumbles({"bad", "string", "keytext", "value"}, "after", Append(ms, Pair(key, v))))
    BY <2>1, <2>5, PairIsPut
  <2>7. (sp \/ Controls(s)) = sp
    BY <2>3
  <2> QED
    BY <1>1, <2>4, <2>5, <2>6, <2>7
<1>2. CASE s # Json!NULL
  BY <1>2, StringIsPut
<1> QED
  BY <1>1, <1>2

(* Before a member, and behind one. *)
AtMember(x, sp, ms) ==
  At(x, Expects(sp, "key", ms),
     Fumbles({"bad", "string", "keytext", "after", "object"}, "key", ms))
PastMember(x, sp, ms) ==
  At(x, Expects(sp, "after", ms),
     Fumbles({"bad", "string", "keytext", "value"}, "after", ms))

LEMMA MemberIsPut ==
  ASSUME NEW x, NEW failing, NEW sp \in BOOLEAN, NEW ms \in Seq(Read), NEW key \in Key,
         NEW value \in Seq(Appends), NEW sp2, NEW m2, AtMember(x, sp, ms),
         \A y : At(y, Names(sp, "value", key, ms),
                   Fumbles({"bad", "keytext", "colon"}, "value", ms))
                  => PastMember(Json!PutAll(y, value, failing), sp2, m2)
  PROVE  PastMember(Json!PutAll(x, Json!Member(key, value), failing), sp2, m2)
<1>1. PICK k, c : k = <<Json!Part(<<key>>)>> /\ c = <<Json!Part(<<":">>)>>
  OBVIOUS
<1>2. k \in Seq(Appends) /\ c \in Seq(Appends) /\ Json!Quote \in Seq(Appends)
  <2>1. key \in Token /\ ":" \in Token
    BY Zenon DEF Token
  <2>2. <<key>> \in Few /\ <<":">> \in Few
    BY <2>1, OneToken
  <2> QED
    BY <1>1, <2>2, OnePart, QuoteIsAppends
<1>3. PICK a \in Seq(Appends) : a = Json!Quote \o k
  BY <1>2, AppendsCat
<1>4. PICK b \in Seq(Appends) : b = a \o Json!Quote
  BY <1>2, AppendsCat
<1>5. PICK d \in Seq(Appends) : d = b \o c
  BY <1>2, AppendsCat
<1>6. Json!Member(key, value) = d \o value
  BY <1>1, <1>3, <1>4, <1>5 DEF Json!Member
<1>7. x \in Encoder
  BY DEF AtMember, At, On
<1>8. PICK x1 : x1 = Json!PutAll(x, Json!Quote, failing)
  OBVIOUS
<1>9. At(x1, Expects(sp, "keytext", ms),
         Fumbles({"bad", "after", "colon", "key"}, "keytext", ms))
  BY <1>8, QuoteOpensKey DEF AtMember
<1>10. PICK x2 : x2 = Json!PutAll(x1, k, failing)
  OBVIOUS
<1>11. At(x2, Names(sp, "keytext", key, ms), Fumbles({"bad"}, "keytext", ms))
  BY <1>1, <1>9, <1>10, KeyIsPut
<1>12. PICK x3 : x3 = Json!PutAll(x2, Json!Quote, failing)
  OBVIOUS
<1>13. At(x3, Names(sp, "colon", key, ms), Fumbles({"bad", "keytext"}, "colon", ms))
  BY <1>11, <1>12, QuoteClosesKey
<1>14. PICK x4 : x4 = Json!PutAll(x3, c, failing)
  OBVIOUS
<1>15. At(x4, Names(sp, "value", key, ms),
          Fumbles({"bad", "keytext", "colon"}, "value", ms))
  BY <1>1, <1>13, <1>14, ColonIsPut
<1>16. PastMember(Json!PutAll(x4, value, failing), sp2, m2)
  BY <1>15
<1>17. Json!PutAll(x, a, failing) = x2
  BY <1>2, <1>3, <1>7, <1>8, <1>10, PutAllCat
<1>18. Json!PutAll(x, b, failing) = x3
  BY <1>2, <1>4, <1>7, <1>12, <1>17, PutAllCat
<1>19. Json!PutAll(x, d, failing) = x4
  BY <1>2, <1>5, <1>7, <1>14, <1>18, PutAllCat
<1>20. Json!PutAll(x, d \o value, failing) = Json!PutAll(x4, value, failing)
  BY <1>7, <1>19, PutAllCat
<1> QED
  BY <1>6, <1>16, <1>20

LEMMA TextMemberIsPut ==
  ASSUME NEW x, NEW failing, NEW sp \in BOOLEAN, NEW ms \in Seq(Read), NEW key \in Key,
         NEW s \in Text \cup {Json!NULL}, AtMember(x, sp, ms)
  PROVE  PastMember(Json!PutAll(x, Json!Member(key, Json!JsonEncodeString(s)), failing),
                    sp \/ Controls(s), Append(ms, Pair(key, s)))
<1>1. PICK value \in Seq(Appends) : value = Json!JsonEncodeString(s)
  <2>1. Text \subseteq Seq(Token)
    <3>1. TextChar \subseteq Token
      BY Zenon DEF Token, TextChar
    <3> HIDE DEF Token
    <3> QED
      BY <3>1 DEF Text
  <2> QED
    BY <2>1, StringIsAppends
<1>2. \A y : At(y, Names(sp, "value", key, ms),
                Fumbles({"bad", "keytext", "colon"}, "value", ms))
               => PastMember(Json!PutAll(y, value, failing),
                             sp \/ Controls(s), Append(ms, Pair(key, s)))
  BY <1>1, ValueIsPut DEF PastMember
<1> QED
  BY <1>1, <1>2, MemberIsPut

LEMMA IdMemberIsPut ==
  ASSUME NEW x, NEW failing, NEW sp \in BOOLEAN, NEW ms \in Seq(Read),
         AtMember(x, sp, ms)
  PROVE  PastMember(Json!PutAll(x, IdMember, failing),
                    sp, Append(ms, Pair("query_id", Json!Number)))
<1>1. "1" \in Token /\ "2" \in Token
  BY DEF Token
<1>2. PICK v \in Seq(Token) : v = Json!Number /\ v = <<"1", "2">>
  BY <1>1, ShortTuples DEF Json!Number
<1>3. PICK value \in Seq(Appends) : value = <<Json!Part(Json!Number)>>
  <2>1. <<"1", "2">> \in Few
    BY <1>1, TwoTokens
  <2> QED
    BY <2>1, OnePart DEF Json!Number
<1>4. PICK key \in Key : key = "query_id"
  BY DEF Key
<1>5. \A y : At(y, Names(sp, "value", key, ms),
                Fumbles({"bad", "keytext", "colon"}, "value", ms))
               => PastMember(Json!PutAll(y, value, failing),
                             sp, Append(ms, Pair(key, v)))
  BY <1>1, <1>2, <1>3, PairIsPut DEF PastMember
<1> QED
  BY <1>2, <1>3, <1>4, <1>5, MemberIsPut DEF IdMember

LEMMA CommaIsPut ==
  ASSUME NEW x, NEW failing, NEW sp \in BOOLEAN, NEW ms \in Seq(Read),
         PastMember(x, sp, ms)
  PROVE  AtMember(Json!PutAll(x, Json!Comma, failing), sp, ms)
<1> DEFINE G  == Expects(sp, "after", ms)
           F  == Fumbles({"bad", "string", "keytext", "value"}, "after", ms)
           G2 == Expects(sp, "key", ms)
           F2 == Fumbles({"bad", "string", "keytext", "after", "object"}, "key", ms)
<1>1. "," \in Token
  BY DEF Token
<1>2. \A q \in Reader : Anywhere(q, ",", Json!Read(q, ",")) /\ InValue(q, ",", Json!Read(q, ","))
  BY Zenon, <1>1, ReadState
<1>3. ASSUME NEW q \in G
      PROVE  Json!Read(q, ",") \in G2 /\ q \in F2 /\ q.mode # "end"
  BY Zenon, <1>2, <1>3 DEF Anywhere, Keeps, Expects, Fumbles
<1>4. ASSUME NEW q \in F
      PROVE  Json!Read(q, ",") \in F2
  BY Zenon, <1>2, <1>4 DEF Anywhere, InValue, Keeps, Fumbles
<1> HIDE DEF G, F, G2, F2
<1>5. At(Json!PutAll(x, <<Json!Part(<<",">>)>>, failing), G2, F2)
  BY Zenon, <1>1, <1>3, <1>4, OneTokenAt DEF G, F, PastMember
<1> QED
  BY Zenon, <1>5 DEF G2, F2, Json!Comma, AtMember

LEMMA CloseBrace ==
  ASSUME NEW x, NEW failing, NEW sp \in BOOLEAN, NEW ms \in Seq(Read),
         PastMember(x, sp, ms)
  PROVE  At(Json!PutAll(x, <<Json!Part(<<"}">>)>>, failing),
            Expects(sp, "end", ms), Fumbles({"bad", "string", "keytext", "after"}, "end", ms))
<1> DEFINE G  == Expects(sp, "after", ms)
           F  == Fumbles({"bad", "string", "keytext", "value"}, "after", ms)
           G2 == Expects(sp, "end", ms)
           F2 == Fumbles({"bad", "string", "keytext", "after"}, "end", ms)
<1>1. "}" \in Token
  BY DEF Token
<1>2. \A q \in Reader : Anywhere(q, "}", Json!Read(q, "}")) /\ InValue(q, "}", Json!Read(q, "}"))
  BY Zenon, <1>1, ReadState
<1>3. ASSUME NEW q \in G
      PROVE  Json!Read(q, "}") \in G2 /\ q \in F2 /\ q.mode # "end"
  BY Zenon, <1>2, <1>3 DEF Anywhere, Keeps, Expects, Fumbles
<1>4. ASSUME NEW q \in F
      PROVE  Json!Read(q, "}") \in F2
  BY Zenon, <1>2, <1>4 DEF Anywhere, InValue, Keeps, Fumbles
<1> HIDE DEF G, F, G2, F2
<1>5. At(Json!PutAll(x, <<Json!Part(<<"}">>)>>, failing), G2, F2)
  BY Zenon, <1>1, <1>3, <1>4, OneTokenAt DEF G, F, PastMember
<1> QED
  BY Zenon, <1>5 DEF G2, F2

LEMMA Joins ==
  ASSUME NEW x \in Encoder, NEW parts \in Seq(Appends), NEW member \in Seq(Appends), NEW failing,
         NEW sp \in BOOLEAN, NEW ms \in Seq(Read), NEW sp2, NEW m2,
         PastMember(Json!PutAll(x, parts, failing), sp, ms),
         \A y : AtMember(y, sp, ms)
                  => PastMember(Json!PutAll(y, member, failing), sp2, m2)
  PROVE  PastMember(Json!PutAll(x, parts \o Json!Comma \o member, failing), sp2, m2)
<1>1. PICK y : y = Json!PutAll(Json!PutAll(x, parts, failing), Json!Comma, failing)
  OBVIOUS
<1>2. AtMember(y, sp, ms)
  BY <1>1, CommaIsPut
<1>3. PICK a \in Seq(Appends) : a = parts \o Json!Comma
  BY CommaIsAppends, AppendsCat
<1>4. Json!PutAll(x, a, failing) = y
  BY <1>1, <1>3, CommaIsAppends, PutAllCat
<1>5. Json!PutAll(x, a \o member, failing) = Json!PutAll(y, member, failing)
  BY <1>4, PutAllCat
<1> QED
  BY <1>2, <1>3, <1>5

LEMMA PairTyped ==
  ASSUME NEW key \in Key, NEW s \in Seq(Token)
  PROVE  Pair(key, s) \in Read
<1>1. key \in Token
  BY Zenon DEF Token
<1> QED
  BY Zenon, <1>1 DEF Pair, Read

LEMMA TextTyped ==
  ASSUME NEW s \in Text \cup {Json!NULL}
  PROVE  s \in Seq(Token) /\ Controls(s) \in BOOLEAN /\ (Controls(s) <=> "^A" \in ToSet(s))
<1>1. Text \subseteq Seq(Token)
  <2>1. TextChar \subseteq Token
    BY Zenon DEF Token, TextChar
  <2> HIDE DEF Token
  <2> QED
    BY <2>1 DEF Text
<1>2. Json!NULL \in Seq(Token)
  <2>1. "NULL" \in Token
    BY DEF Token
  <2> QED
    BY <2>1, ShortTuples DEF Json!NULL
<1>3. s \in Seq(Token)
  BY <1>1, <1>2
<1> QED
  BY <1>3 DEF Controls, HasControl, ToSet

(* The texts of the event, as they are in its message: cut off at a NUL.   *)
LEMMA TextsOfEvent ==
  ASSUME NEW e \in Raised
  PROVE  /\ \A t \in {e.user, QueryOf(e), e.database, e.command} :
              /\ Json!CString(t) \in Text \cup {Json!NULL}
              /\ Json!JsonEncodeString(Json!CString(t)) = Json!JsonEncodeString(t)
         /\ \A t \in Type : <<t>> \in Text /\ ~Controls(<<t>>)
<1>1. ASSUME NEW t \in Chars \cup {Json!NULL}
      PROVE  /\ Json!CString(t) \in Text \cup {Json!NULL}
             /\ Json!JsonEncodeString(Json!CString(t)) = Json!JsonEncodeString(t)
  <2>1. CASE t \in Chars
    <3>1. Json!CString(t) \in Seq(Json!Char \ {"^@"})
      BY <2>1, CStringFacts DEF Chars
    <3>2. Json!CString(t) \in Text
      BY <3>1 DEF Text, TextChar
    <3>3. Json!CString(Json!CString(t)) = Json!CString(t) /\ Json!CString(t) # Json!NULL
      BY <3>2, TextIsWhole
    <3>4. t # Json!NULL
      <4>1. "NULL" \notin Json!Char
        BY DEF Json!Char
      <4>2. Len(Json!NULL) = 1 /\ Json!NULL[1] = "NULL"
        BY DEF Json!NULL
      <4>3. t = Json!NULL => t[1] \in Json!Char
        <5>1. \A i \in 1..Len(t) : t[i] \in Json!Char
          BY <2>1, ElementOfSeq DEF Chars
        <5>2. t = Json!NULL => 1 \in 1..Len(t)
          BY <4>2
        <5> QED
          BY <5>1, <5>2
      <4> QED
        BY <4>1, <4>2, <4>3
    <3> QED
      BY Zenon, <3>2, <3>3, <3>4 DEF Json!JsonEncodeString
  <2>2. CASE t = Json!NULL
    <3>1. Json!NULL \in Seq({"NULL"}) /\ {"NULL"} \ {"^@"} = {"NULL"}
      BY DEF Json!NULL
    <3>2. Json!CString(Json!NULL) = Json!NULL
      BY <3>1, CStringFacts
    <3> QED
      BY <2>2, <3>2
  <2> QED
    BY <2>1, <2>2
<1>2. \A t \in Type : <<t>> \in Text
  <2>1. \A t \in TextChar : <<t>> \in Seq(TextChar)
    BY ShortTuples
  <2>2. Type \subseteq TextChar
    BY DEF TextChar
  <2> QED
    BY <2>1, <2>2 DEF Text
<1>3. \A t \in Type : ~Controls(<<t>>)
  <2> SUFFICES ASSUME NEW t \in Type
               PROVE  ~Controls(<<t>>)
    BY Zenon
  <2>1. Len(<<t>>) = 1 /\ <<t>>[1] = t
    BY ShortTuples
  <2>2. t # "^A"
    BY DEF Type
  <2> QED
    BY <2>1, <2>2 DEF Controls, HasControl
<1>4. {e.user, QueryOf(e), e.database, e.command} \subseteq Chars \cup {Json!NULL}
  BY DEF Raised, QueryOf
<1> QED
  BY <1>1, <1>2, <1>3, <1>4

TypeOf(e) ==
  CASE e.subclass = "LOG"    -> <<"query_start">>
    [] e.subclass = "ERROR"  -> <<"query_error">>
    [] e.subclass = "RESULT" -> <<"query_result">>
TypePair(e) == Pair("type", TypeOf(e))
IdPair == Pair("query_id", Json!Number)

LEMMA TypeIsPut ==
  ASSUME NEW e \in Raised, NEW x, NEW failing, AtMember(x, FALSE, <<>>)
  PROVE  /\ TypePair(e) \in Read
         /\ PastMember(Json!PutAll(x, TypeMember(e), failing),
                       FALSE, Append(<<>>, TypePair(e)))
<1>1. PICK t \in Type : TypeOf(e) = <<t>>
  BY DEF Raised, TypeOf, Type
<1>2. PICK s \in Text \cup {Json!NULL} : s = <<t>> /\ ~Controls(s)
  BY TextsOfEvent
<1>3. PICK key \in Key : key = "type"
  BY DEF Key
<1>4. <<>> \in Seq(Read) /\ FALSE \in BOOLEAN
  OBVIOUS
<1>5. PastMember(Json!PutAll(x, Json!Member(key, Json!JsonEncodeString(s)), failing),
                 FALSE \/ Controls(s), Append(<<>>, Pair(key, s)))
  BY <1>4, TextMemberIsPut
<1>6. (FALSE \/ Controls(s)) = FALSE
  BY <1>2
<1>7. TypeMember(e) = Json!Member(key, Json!JsonEncodeString(s))
  BY <1>1, <1>2, <1>3 DEF TypeMember, TypeOf
<1>8. Pair(key, s) \in Read
  BY TextTyped, PairTyped
<1> QED
  BY <1>1, <1>2, <1>3, <1>5, <1>6, <1>7, <1>8 DEF TypePair

LEMMA IdTyped == IdPair \in Read
<1>1. "1" \in Token /\ "2" \in Token
  BY DEF Token
<1>2. Json!Number \in Seq(Token)
  BY <1>1, ShortTuples DEF Json!Number
<1>3. "query_id" \in Key
  BY DEF Key
<1> QED
  BY <1>2, <1>3, PairTyped DEF IdPair

(* One more member of text, and one more number. *)
Joined(x, failing, parts, sp, ms) ==
  /\ parts \in Seq(Appends) /\ sp \in BOOLEAN /\ ms \in Seq(Read)
  /\ PastMember(Json!PutAll(x, parts, failing), sp, ms)

WithText(x, failing, parts, sp, ms, key, s) ==
  \E s2 \in BOOLEAN :
    /\ s2 <=> sp \/ Controls(s)
    /\ Joined(x, failing, parts \o Json!Comma \o Json!Member(key, Json!JsonEncodeString(s)),
              s2, Append(ms, Pair(key, s)))

LEMMA JoinsText ==
  ASSUME NEW x \in Encoder, NEW failing, NEW parts, NEW sp, NEW ms, Joined(x, failing, parts, sp, ms),
         NEW key \in Key, NEW s \in Text \cup {Json!NULL}
  PROVE  WithText(x, failing, parts, sp, ms, key, s)
<1>1. PICK member \in Seq(Appends) : member = Json!Member(key, Json!JsonEncodeString(s))
  <2>1. key \in Token
    BY Zenon DEF Token
  <2>2. Json!JsonEncodeString(s) \in Seq(Appends)
    BY TextTyped, StringIsAppends
  <2> QED
    BY <2>1, <2>2, MemberIsAppends
<1>2. /\ parts \in Seq(Appends) /\ sp \in BOOLEAN /\ ms \in Seq(Read)
      /\ PastMember(Json!PutAll(x, parts, failing), sp, ms)
  BY DEF Joined
<1>3. parts \o Json!Comma \o member \in Seq(Appends)
  BY <1>1, <1>2, CommaIsAppends, AppendsCat
<1>4. \A y : AtMember(y, sp, ms)
               => PastMember(Json!PutAll(y, member, failing),
                             sp \/ Controls(s), Append(ms, Pair(key, s)))
  BY <1>1, <1>2, TextMemberIsPut
<1>5. PastMember(Json!PutAll(x, parts \o Json!Comma \o member, failing),
                 sp \/ Controls(s), Append(ms, Pair(key, s)))
  BY <1>1, <1>2, <1>4, Joins
<1>6. (sp \/ Controls(s)) \in BOOLEAN
  BY <1>2
<1>7. Append(ms, Pair(key, s)) \in Seq(Read)
  BY <1>2, TextTyped, PairTyped, AppendTyped
<1>8. Joined(x, failing, parts \o Json!Comma \o member, sp \/ Controls(s),
             Append(ms, Pair(key, s)))
  BY <1>3, <1>5, <1>6, <1>7 DEF Joined
<1> QED
  BY <1>1, <1>6, <1>8 DEF WithText

LEMMA JoinsId ==
  ASSUME NEW x \in Encoder, NEW failing, NEW parts, NEW sp, NEW ms, Joined(x, failing, parts, sp, ms),
         IdMember \in Seq(Appends),
         NEW p2, p2 = parts \o Json!Comma \o IdMember,
         NEW m2, m2 = Append(ms, IdPair)
  PROVE  Joined(x, failing, p2, sp, m2)
<1>1. /\ parts \in Seq(Appends) /\ sp \in BOOLEAN /\ ms \in Seq(Read)
      /\ PastMember(Json!PutAll(x, parts, failing), sp, ms)
  BY DEF Joined
<1>2. p2 \in Seq(Appends)
  BY <1>1, CommaIsAppends, AppendsCat
<1>3. \A y : AtMember(y, sp, ms)
               => PastMember(Json!PutAll(y, IdMember, failing), sp, m2)
  BY <1>1, IdMemberIsPut DEF IdPair
<1>4. PastMember(Json!PutAll(x, p2, failing), sp, m2)
  BY <1>1, <1>3, Joins
<1>5. m2 \in Seq(Read)
  BY <1>1, IdTyped, AppendTyped
<1> QED
  BY <1>1, <1>2, <1>4, <1>5 DEF Joined

(* The members of a message are read as what the event means. *)
Readable(x, e, failing) ==
  \E sp \in BOOLEAN, ms \in Seq(Read) :
    /\ sp <=> "^A" \in Carried(e)
    /\ ms = Meaning(e)
    /\ PastMember(Json!PutAll(x, Members(e), failing), sp, ms)

LEMMA MembersRead ==
  ASSUME NEW e \in Raised, NEW x, NEW failing, AtMember(x, FALSE, <<>>)
  PROVE  Readable(x, e, failing)
<1>1. e.subclass \in {"LOG", "ERROR", "RESULT"}
  BY DEF Raised
<1>2. x \in Encoder
  BY DEF AtMember, At, On
<1>3. PICK tp \in Read : tp = TypePair(e)
  BY TypeIsPut
<1>4. PICK m1 \in Seq(Read) : m1 = Append(<<>>, tp)
  <2>1. <<>> \in Seq(Read)
    OBVIOUS
  <2> QED
    BY <2>1, AppendTyped
<1>5. PICK p1 \in Seq(Appends) : p1 = TypeMember(e)
  BY MembersTyped
<1>6. PICK s1 \in BOOLEAN : s1 = FALSE
  OBVIOUS
<1>7. Joined(x, failing, p1, s1, m1)
  BY <1>3, <1>4, <1>5, <1>6, TypeIsPut DEF Joined
<1>8. IdMember \in Seq(Appends) /\ IdPair \in Read
  BY MembersTyped, IdTyped
<1>9. CASE e.subclass = "RESULT"
  <2>1. PICK p2, m2 : p2 = p1 \o Json!Comma \o IdMember /\ m2 = Append(m1, IdPair)
    OBVIOUS
  <2>2. Joined(x, failing, p2, s1, m2)
    BY <1>2, <1>7, <1>8, <2>1, JoinsId
  <2>3. Members(e) = p2
    BY <1>5, <1>9, <2>1 DEF Members
  <2>4. Meaning(e) = <<tp, IdPair>>
    BY <1>3, <1>9 DEF Meaning, TypePair, TypeOf, IdPair, Pair
  <2>5. m2 = Meaning(e)
    <3>1. <<tp, IdPair>> = Append(Append(<<>>, tp), IdPair)
      OBVIOUS
    <3> QED
      BY <1>4, <2>1, <2>4, <3>1
  <2>6. s1 <=> "^A" \in Carried(e)
    BY <1>6, <1>9 DEF Carried
  <2> QED
    BY <2>2, <2>3, <2>5, <2>6 DEF Joined, Readable
<1>10. CASE e.subclass = "ERROR"
  <2>1. PICK p2, m2 : p2 = p1 \o Json!Comma \o IdMember /\ m2 = Append(m1, IdPair)
    OBVIOUS
  <2>2. Joined(x, failing, p2, s1, m2)
    BY <1>2, <1>7, <1>8, <2>1, JoinsId
  <2>3. PICK s \in Text \cup {Json!NULL} :
          /\ s = Json!CString(e.command)
          /\ Json!JsonEncodeString(s) = Json!JsonEncodeString(e.command)
    BY TextsOfEvent
  <2>4. PICK key \in Key : key = "error_message"
    BY DEF Key
  <2>5. PICK p3, m3 : /\ p3 = p2 \o Json!Comma \o Json!Member(key, Json!JsonEncodeString(s))
                      /\ m3 = Append(m2, Pair(key, s))
    OBVIOUS
  <2>6. PICK s3 \in BOOLEAN : (s3 <=> s1 \/ Controls(s)) /\ Joined(x, failing, p3, s3, m3)
    <3>1. WithText(x, failing, p2, s1, m2, key, s)
      BY <1>2, <2>2, JoinsText
    <3> QED
      BY <2>5, <3>1 DEF WithText
  <2>7. Pair(key, s) \in Read
    BY TextTyped, PairTyped
  <2>8. Members(e) = p3
    BY <1>5, <1>10, <2>1, <2>3, <2>4, <2>5 DEF Members, ErrorMember
  <2>9. Meaning(e) = <<tp, IdPair, Pair(key, s)>>
    BY <1>3, <1>10, <2>3, <2>4 DEF Meaning, TypePair, TypeOf, IdPair, Pair
  <2>10. m3 = Meaning(e)
    <3>1. <<tp, IdPair, Pair(key, s)>> = Append(Append(Append(<<>>, tp), IdPair), Pair(key, s))
      OBVIOUS
    <3> QED
      BY <1>4, <2>1, <2>5, <2>9, <3>1
  <2>11. s3 <=> "^A" \in Carried(e)
    <3>1. Carried(e) = ToSet(s)
      BY <1>10, <2>3 DEF Carried
    <3>2. Controls(s) <=> "^A" \in ToSet(s)
      BY TextTyped
    <3> QED
      BY <1>6, <2>6, <3>1, <3>2
  <2> QED
    BY <2>6, <2>8, <2>10, <2>11 DEF Joined, Readable
<1>11. CASE e.subclass = "LOG"
  <2>1. PICK user \in Text \cup {Json!NULL}, query \in Text \cup {Json!NULL},
             db \in Text \cup {Json!NULL} :
          /\ user = Json!CString(e.user)
          /\ query = Json!CString(QueryOf(e))
          /\ db = Json!CString(e.database)
          /\ Json!JsonEncodeString(user) = Json!JsonEncodeString(e.user)
          /\ Json!JsonEncodeString(query) = Json!JsonEncodeString(QueryOf(e))
          /\ Json!JsonEncodeString(db) = Json!JsonEncodeString(e.database)
    BY TextsOfEvent
  <2>2. PICK k2 \in Key, k3 \in Key, k5 \in Key :
          k2 = "user" /\ k3 = "query" /\ k5 = "database"
    BY DEF Key
  <2>3. PICK p2, m2 : /\ p2 = p1 \o Json!Comma \o Json!Member(k2, Json!JsonEncodeString(user))
                      /\ m2 = Append(m1, Pair(k2, user))
    OBVIOUS
  <2>4. PICK s2 \in BOOLEAN : (s2 <=> s1 \/ Controls(user)) /\ Joined(x, failing, p2, s2, m2)
    <3>1. WithText(x, failing, p1, s1, m1, k2, user)
      BY <1>2, <1>7, JoinsText
    <3> QED
      BY <2>3, <3>1 DEF WithText
  <2>5. PICK p3, m3 : /\ p3 = p2 \o Json!Comma \o Json!Member(k3, Json!JsonEncodeString(query))
                      /\ m3 = Append(m2, Pair(k3, query))
    OBVIOUS
  <2>6. PICK s3 \in BOOLEAN : (s3 <=> s2 \/ Controls(query)) /\ Joined(x, failing, p3, s3, m3)
    <3>1. WithText(x, failing, p2, s2, m2, k3, query)
      BY <1>2, <2>4, JoinsText
    <3> QED
      BY <2>5, <3>1 DEF WithText
  <2>7. PICK p4, m4 : p4 = p3 \o Json!Comma \o IdMember /\ m4 = Append(m3, IdPair)
    OBVIOUS
  <2>8. Joined(x, failing, p4, s3, m4)
    BY <1>2, <1>8, <2>6, <2>7, JoinsId
  <2>9. PICK p5, m5 : /\ p5 = p4 \o Json!Comma \o Json!Member(k5, Json!JsonEncodeString(db))
                      /\ m5 = Append(m4, Pair(k5, db))
    OBVIOUS
  <2>10. PICK s5 \in BOOLEAN : (s5 <=> s3 \/ Controls(db)) /\ Joined(x, failing, p5, s5, m5)
    <3>1. WithText(x, failing, p4, s3, m4, k5, db)
      BY <1>2, <2>8, JoinsText
    <3> QED
      BY <2>9, <3>1 DEF WithText
  <2>11. Pair(k2, user) \in Read /\ Pair(k3, query) \in Read /\ Pair(k5, db) \in Read
    BY TextTyped, PairTyped
  <2>12. Members(e) = p5
    BY <1>5, <1>11, <2>1, <2>2, <2>3, <2>5, <2>7, <2>9
       DEF Members, UserMember, QueryMember, DatabaseMember
  <2>13. Meaning(e) = <<tp, Pair(k2, user), Pair(k3, query), IdPair, Pair(k5, db)>>
    BY <1>3, <1>11, <2>1, <2>2 DEF Meaning, TypePair, TypeOf, IdPair, Pair
  <2>14. m5 = Meaning(e)
    <3>1. <<tp, Pair(k2, user), Pair(k3, query), IdPair, Pair(k5, db)>> =
            Append(Append(Append(Append(Append(<<>>, tp), Pair(k2, user)), Pair(k3, query)),
                          IdPair), Pair(k5, db))
      OBVIOUS
    <3> QED
      BY <1>4, <2>3, <2>5, <2>7, <2>9, <2>13, <3>1
  <2>15. s5 <=> "^A" \in Carried(e)
    <3>1. Carried(e) = ToSet(user) \cup ToSet(query) \cup ToSet(db)
      BY <1>11, <2>1 DEF Carried
    <3>2. /\ Controls(user) <=> "^A" \in ToSet(user)
          /\ Controls(query) <=> "^A" \in ToSet(query)
          /\ Controls(db) <=> "^A" \in ToSet(db)
      BY TextTyped
    <3> QED
      BY <1>6, <2>4, <2>6, <2>10, <3>1, <3>2
  <2> QED
    BY <2>10, <2>12, <2>14, <2>15 DEF Joined, Readable
<1> QED
  BY <1>1, <1>9, <1>10, <1>11

(* The whole message. *)
LEMMA MessageRead ==
  ASSUME NEW e \in Raised, NEW failing, NEW size \in Nat \ {0}
  PROVE  \E sp \in BOOLEAN :
           /\ sp <=> "^A" \in Carried(e)
           /\ At(Json!Encode(e, failing, size), Expects(sp, "end", Meaning(e)),
                 Fumbles({"bad", "string", "keytext", "after"}, "end", Meaning(e)))
<1>1. PICK x \in Encoder : x = Json!EncodeStart(size)
  BY StartIsEncoder
<1>2. At(x, Expects(FALSE, "object", <<>>), {})
  <2>1. x.failures = 0 /\ x.skips = 0 /\ ~x.recovered /\ x.json.str = <<>>
    BY <1>1 DEF Json!EncodeStart, Json!StrbufAlloc
  <2>2. Page(x) = FreshReader
    BY <2>1, ParseNothing DEF Page
  <2>3. Page(x) \in Expects(FALSE, "object", <<>>)
    <3>1. /\ FreshReader.mode = "object" /\ FreshReader.text = <<>>
          /\ FreshReader.members = <<>>
      BY DEF FreshReader
    <3> QED
      BY <2>2, <3>1, FreshReaderTyped DEF Expects
  <2>4. 0 # 1 /\ x \in Encoder
    OBVIOUS
  <2> QED
    BY Zenon, <2>1, <2>3, <2>4 DEF At, On
<1>3. PICK a, c : a = <<Json!Part(<<"{">>)>> /\ c = <<Json!Part(<<"}">>)>>
  BY Zenon
<1>4. a \in Seq(Appends) /\ c \in Seq(Appends)
  <2>1. "{" \in Token /\ "}" \in Token
    BY DEF Token
  <2>2. <<"{">> \in Few /\ <<"}">> \in Few
    BY Zenon, <2>1, OneToken
  <2> QED
    BY Zenon, <1>3, <2>2, OnePart
<1>5. PICK b \in Seq(Appends) : b = Members(e)
  BY PartsTyped
<1>6. PICK x1 : x1 = Json!PutAll(x, a, failing)
  OBVIOUS
<1>7. AtMember(x1, FALSE, <<>>)
  BY Zenon, <1>2, <1>3, <1>6, OpenBrace DEF AtMember
<1>8. PICK x2 : x2 = Json!PutAll(x1, b, failing)
  OBVIOUS
<1>9. Readable(x1, e, failing)
  BY <1>7, MembersRead
<1>10. PICK sp \in BOOLEAN, ms \in Seq(Read) :
         (sp <=> "^A" \in Carried(e)) /\ ms = Meaning(e) /\ PastMember(x2, sp, ms)
  BY <1>5, <1>8, <1>9 DEF Readable
<1>11. PICK x3 : x3 = Json!PutAll(x2, c, failing)
  OBVIOUS
<1>12. At(x3, Expects(sp, "end", ms),
          Fumbles({"bad", "string", "keytext", "after"}, "end", ms))
  BY Zenon, <1>3, <1>10, <1>11, CloseBrace
<1>13. PICK ab \in Seq(Appends) : ab = a \o b
  BY <1>4, AppendsCat
<1>14. Json!PutAll(x, ab, failing) = x2
  BY <1>4, <1>6, <1>8, <1>13, PutAllCat
<1>15. Json!PutAll(x, ab \o c, failing) = x3
  BY <1>4, <1>11, <1>14, PutAllCat
<1>16. Json!Parts(e) = ab \o c
  BY Zenon, <1>3, <1>5, <1>13, PartsAreMembers
<1> QED
  BY <1>1, <1>10, <1>12, <1>15, <1>16 DEF Json!Encode

-----------------------------------------------------------------------------
(* The runs of the algorithms                                               *)

(* What is computed is what the operators say. *)
Computed ==
  job.kind = "json" =>
    /\ job.event \in Raised /\ job.size \in Nat \ {0}
    /\ out.ended = "done" =>
         LET encoded == Json!Encode(job.event, job.failing, job.size) IN
         /\ out.json = encoded.json
         /\ out.failures = encoded.failures
         /\ out.recovered = encoded.recovered

LEMMA ComputedInit == SizesAssumption /\ Init => Computed
<1> SUFFICES ASSUME SizesAssumption, Init
             PROVE  Computed
  OBVIOUS
<1>1. CASE StartEvent
  <2>1. PICK event \in Json!Event(MaxLength, MaxName), failing \in Shortages, size \in Sizes :
          /\ job = [kind |-> "json", event |-> event, failing |-> failing, size |-> size]
          /\ out = [ended |-> "no"]
    BY <1>1 DEF StartEvent
  <2>2. event \in Raised /\ size \in Nat \ {0}
    BY EventsRaised, SizesAssumption
  <2> QED
    BY <2>1, <2>2 DEF Computed
<1>2. CASE StartConfig \/ StartDigest \/ StartBase64 \/ StartConcat
  <2>1. job.kind # "json"
    <3>1. CASE StartConfig
      <4>1. PICK text, asserts : job = [kind |-> "config", text |-> text, asserts |-> asserts]
        BY <3>1, Zenon DEF StartConfig
      <4> QED
        BY <4>1
    <3>2. CASE StartDigest
      BY <3>2 DEF StartDigest
    <3>3. CASE StartBase64
      BY <3>3 DEF StartBase64
    <3>4. CASE StartConcat
      BY <3>4 DEF StartConcat
    <3> QED
      BY <1>2, <3>1, <3>2, <3>3, <3>4
  <2> QED
    BY <2>1 DEF Computed
<1> QED
  BY <1>1, <1>2 DEF Init

LEMMA ComputedStep == Computed /\ [Next]_vars => Computed'
<1> SUFFICES ASSUME Computed, [Next]_vars
             PROVE  Computed'
  OBVIOUS
<1>1. CASE EncodeEvent
  <2>1. PICK r : r = Json!Encode(job.event, job.failing, job.size)
    OBVIOUS
  <2>2. /\ out' = [json |-> r.json, failures |-> r.failures, recovered |-> r.recovered,
                   ended |-> "done"]
        /\ job' = job
    BY <1>1, <2>1 DEF EncodeEvent
  <2> QED
    BY <2>1, <2>2 DEF Computed
<1>2. CASE ReadConfig \/ ComputeDigest \/ EncodeBase64 \/ ReplacePlaceholder
  <2>1. job' = job /\ job.kind # "json"
    BY <1>2 DEF ReadConfig, ComputeDigest, EncodeBase64, ReplacePlaceholder
  <2> QED
    BY <2>1 DEF Computed
<1>3. CASE UNCHANGED vars
  BY <1>3 DEF Computed, vars
<1> QED
  BY <1>1, <1>2, <1>3 DEF Next

(* A message that is done is what Encode makes of its event. *)
THEOREM ComputedHolds == Spec => []Computed
<1>1. Init => Computed
  BY ComputedInit, SizesAssumption
<1> QED
  BY <1>1, ComputedStep, PTL DEF Spec

(* The buffer of an event's message is never written past its end, NUL     *)
(* included, for texts of any length and buffers of any size.              *)
THEOREM BufferFitsHolds == Spec => []BufferFits
<1>1. Computed => BufferFits
  <2> SUFFICES ASSUME Computed, job.kind = "json", out.ended = "done"
               PROVE  Json!FitsInside(out.json)
    BY DEF BufferFits
  <2>1. PICK r : r = Json!Encode(job.event, job.failing, job.size)
    OBVIOUS
  <2>2. r \in Encoder /\ out.json = r.json
    BY <2>1, EncodedFits DEF Computed
  <2> QED
    BY <2>2 DEF Encoder
<1> QED
  BY <1>1, ComputedHolds, PTL

(* The page reads the event that was raised, each text up to its first     *)
(* NUL, for texts of any length and wherever the buffer has to grow, and   *)
(* fails to parse the message exactly if such a text holds a control       *)
(* character that json.c does not escape.                                  *)
THEOREM PageReadsEventHolds == Spec => []PageReadsEvent
<1>1. Computed => PageReadsEvent
  <2> SUFFICES ASSUME Computed, job.kind = "json", out.ended = "done", out.failures = 0
               PROVE  LET page == Json!Parse(out.json.str) IN
                      IF "^A" \in Carried(job.event)
                      THEN page.mode = "bad"
                      ELSE page.mode = "end" /\ page.members = Meaning(job.event)
    BY DEF PageReadsEvent
  <2>1. PICK r : r = Json!Encode(job.event, job.failing, job.size)
    OBVIOUS
  <2>2. r.failures = 0 /\ out.json = r.json
    BY <2>1 DEF Computed
  <2>3. PICK sp \in BOOLEAN :
          /\ sp <=> "^A" \in Carried(job.event)
          /\ At(r, Expects(sp, "end", Meaning(job.event)),
                Fumbles({"bad", "string", "keytext", "after"}, "end", Meaning(job.event)))
    BY <2>1, MessageRead DEF Computed
  <2>4. Page(r) \in Expects(sp, "end", Meaning(job.event))
    BY <2>2, <2>3 DEF At, On
  <2> QED
    BY <2>2, <2>3, <2>4 DEF Page, Expects
<1> QED
  BY <1>1, ComputedHolds, PTL

(* A message some of whose appends failed is not parsed by the page unless *)
(* memory came back, and has the event's values if one append failed, for  *)
(* texts of any length and whichever calls of realloc fail.                *)
THEOREM LostIsNotMisreadHolds == Spec => []LostIsNotMisread
<1>1. Computed => LostIsNotMisread
  <2> DEFINE page == Json!Parse(out.json.str)
             Values(members) == [i \in DOMAIN members |-> members[i].value]
  <2> SUFFICES ASSUME Computed, job.kind = "json", out.ended = "done", out.failures > 0,
                      page.mode = "end"
               PROVE  /\ out.recovered
                      /\ out.failures = 1 => Values(page.members) = Values(Meaning(job.event))
    BY DEF LostIsNotMisread
  <2>1. PICK r : r = Json!Encode(job.event, job.failing, job.size)
    OBVIOUS
  <2>2. /\ r.failures = out.failures /\ r.failures # 0 /\ r.recovered = out.recovered
        /\ page = Page(r)
    BY <2>1 DEF Computed, Page
  <2>3. PICK ms : ms = Meaning(job.event)
    OBVIOUS
  <2>4. PICK sp \in BOOLEAN :
          At(r, Expects(sp, "end", ms),
             Fumbles({"bad", "string", "keytext", "after"}, "end", ms))
    BY <2>1, <2>3, MessageRead DEF Computed
  <2>5. ~Stuck(r)
    BY <2>2 DEF Stuck
  <2>6. /\ out.recovered
        /\ out.failures = 1
             => Page(r) \in Fumbles({"bad", "string", "keytext", "after"}, "end", ms)
    BY <2>2, <2>4, <2>5 DEF At, On
  <2> SUFFICES ASSUME out.failures = 1
               PROVE  Values(page.members) = Values(Meaning(job.event))
    BY <2>6
  <2>7. SameValues(page.members, ms)
    BY <2>2, <2>6 DEF Fumbles
  <2> HIDE DEF page
  <2>8. PICK a \in Seq(Read), b \in Seq(Read) : a = page.members /\ b = ms
    BY <2>7 DEF SameValues
  <2>9. Values(a) = Values(b)
    <3>1. DOMAIN a = DOMAIN b /\ \A i \in DOMAIN a : a[i].value = b[i].value
      BY <2>7, <2>8 DEF SameValues
    <3> QED
      BY <3>1
  <2> QED
    BY <2>3, <2>6, <2>8, <2>9
<1> QED
  BY <1>1, ComputedHolds, PTL

-----------------------------------------------------------------------------
(* Base64                                                                   *)

(* The bits of a byte, from the highest, make up the parts of it that the  *)
(* characters take.                                                        *)
ByteBit(b, s) == (b \div 2 ^ (7 - s)) % 2

LEMMA ByteBits ==
  ASSUME NEW b \in 0..255
  PROVE  /\ \A s \in 0..7 : ByteBit(b, s) \in {0, 1}
         /\ ByteBit(b, 0) * 2 + ByteBit(b, 1) = b \div 64
         /\ ((ByteBit(b, 0) * 2 + ByteBit(b, 1)) * 2 + ByteBit(b, 2)) * 2 + ByteBit(b, 3)
              = b \div 16
         /\ ((((ByteBit(b, 0) * 2 + ByteBit(b, 1)) * 2 + ByteBit(b, 2)) * 2 + ByteBit(b, 3)) * 2
              + ByteBit(b, 4)) * 2 + ByteBit(b, 5) = b \div 4
         /\ ((((ByteBit(b, 2) * 2 + ByteBit(b, 3)) * 2 + ByteBit(b, 4)) * 2 + ByteBit(b, 5)) * 2
              + ByteBit(b, 6)) * 2 + ByteBit(b, 7) = b % 64
         /\ ((ByteBit(b, 4) * 2 + ByteBit(b, 5)) * 2 + ByteBit(b, 6)) * 2 + ByteBit(b, 7) = b % 16
         /\ ByteBit(b, 6) * 2 + ByteBit(b, 7) = b % 4
<1>1. \A x \in Nat : \E y \in Nat, p \in {0, 1} : x = 2 * y + p
  <2> TAKE x \in Nat
  <2>1. x \div 2 \in Nat /\ x % 2 \in {0, 1} /\ x = 2 * (x \div 2) + (x % 2)
    OBVIOUS
  <2> QED
    BY <2>1
<1>2. PICK d1 \in Nat, p7 \in {0, 1} : b = 2 * d1 + p7
  <2>1. b \in Nat
    OBVIOUS
  <2> QED
    BY <1>1, <2>1
<1>3. PICK d2 \in Nat, p6 \in {0, 1} : d1 = 2 * d2 + p6
  BY <1>1
<1>4. PICK d3 \in Nat, p5 \in {0, 1} : d2 = 2 * d3 + p5
  BY <1>1
<1>5. PICK d4 \in Nat, p4 \in {0, 1} : d3 = 2 * d4 + p4
  BY <1>1
<1>6. PICK d5 \in Nat, p3 \in {0, 1} : d4 = 2 * d5 + p3
  BY <1>1
<1>7. PICK d6 \in Nat, p2 \in {0, 1} : d5 = 2 * d6 + p2
  BY <1>1
<1>8. PICK p0 \in {0, 1}, p1 \in {0, 1} : d6 = 2 * p0 + p1
  <2>1. d6 \in 0..3
    BY <1>2, <1>3, <1>4, <1>5, <1>6, <1>7
  <2>2. d6 = 2 * 0 + 0 \/ d6 = 2 * 0 + 1 \/ d6 = 2 * 1 + 0 \/ d6 = 2 * 1 + 1
    BY <2>1
  <2> QED
    BY <2>2
<1>9. /\ b \div 128 = p0 /\ b \div 64 = d6 /\ b \div 32 = d5 /\ b \div 16 = d4
      /\ b \div 8 = d3 /\ b \div 4 = d2 /\ b \div 2 = d1
  BY <1>2, <1>3, <1>4, <1>5, <1>6, <1>7, <1>8
<1>10. /\ p0 % 2 = p0 /\ d6 % 2 = p1 /\ d5 % 2 = p2 /\ d4 % 2 = p3 /\ d3 % 2 = p4
       /\ d2 % 2 = p5 /\ d1 % 2 = p6 /\ b % 2 = p7
  BY <1>2, <1>3, <1>4, <1>5, <1>6, <1>7, <1>8
<1>11. /\ ByteBit(b, 0) = p0 /\ ByteBit(b, 1) = p1 /\ ByteBit(b, 2) = p2 /\ ByteBit(b, 3) = p3
       /\ ByteBit(b, 4) = p4 /\ ByteBit(b, 5) = p5 /\ ByteBit(b, 6) = p6 /\ ByteBit(b, 7) = p7
  BY <1>9, <1>10 DEF ByteBit
<1>12. /\ b % 64 = b - 64 * d6 /\ b % 16 = b - 16 * d4 /\ b % 4 = b - 4 * d2
  BY <1>2, <1>3, <1>4, <1>5, <1>6, <1>7
<1>13. \A s \in 0..7 : ByteBit(b, s) \in {0, 1}
  <2>1. \A s \in 0..7 : s = 0 \/ s = 1 \/ s = 2 \/ s = 3 \/ s = 4 \/ s = 5 \/ s = 6 \/ s = 7
    OBVIOUS
  <2> QED
    BY <1>11, <2>1
<1>14. /\ p0 * 2 + p1 = d6
       /\ ((p0 * 2 + p1) * 2 + p2) * 2 + p3 = d4
       /\ ((((p0 * 2 + p1) * 2 + p2) * 2 + p3) * 2 + p4) * 2 + p5 = d2
       /\ ((((p2 * 2 + p3) * 2 + p4) * 2 + p5) * 2 + p6) * 2 + p7 = b - 64 * d6
       /\ ((p4 * 2 + p5) * 2 + p6) * 2 + p7 = b - 16 * d4
       /\ p6 * 2 + p7 = b - 4 * d2
  BY <1>2, <1>3, <1>4, <1>5, <1>6, <1>7, <1>8
<1> QED
  BY <1>9, <1>11, <1>12, <1>13, <1>14

(* Behind the last byte there are zeros. *)
ByteAt(bytes, q) == IF q < Len(bytes) THEN bytes[q + 1] ELSE 0

LEMMA BitOfByte ==
  ASSUME NEW bytes \in Seq(0..255), NEW q \in Nat, NEW s \in 0..7
  PROVE  /\ ByteAt(bytes, q) \in 0..255
         /\ Bit(bytes, 8 * q + s) = ByteBit(ByteAt(bytes, q), s)
<1>1. (8 * q + s) \div 8 = q /\ (8 * q + s) % 8 = s
  OBVIOUS
<1>2. ByteAt(bytes, q) \in 0..255
  <2>1. CASE q < Len(bytes)
    <3>1. q + 1 \in 1..Len(bytes)
      BY <2>1
    <3>2. bytes[q + 1] \in 0..255
      BY <3>1, ElementOfSeq
    <3> QED
      BY <2>1, <3>2 DEF ByteAt
  <2>2. CASE ~(q < Len(bytes))
    BY <2>2 DEF ByteAt
  <2> QED
    BY <2>1, <2>2
<1>3. CASE q < Len(bytes)
  BY <1>1, <1>3 DEF Bit, ByteAt, ByteBit
<1>4. CASE ~(q < Len(bytes))
  <2>1. ByteBit(0, s) = 0
    <3>1. \A t \in 0..7 : t = 0 \/ t = 1 \/ t = 2 \/ t = 3 \/ t = 4 \/ t = 5 \/ t = 6 \/ t = 7
      OBVIOUS
    <3>2. /\ ByteBit(0, 0) = 0 /\ ByteBit(0, 1) = 0 /\ ByteBit(0, 2) = 0 /\ ByteBit(0, 3) = 0
          /\ ByteBit(0, 4) = 0 /\ ByteBit(0, 5) = 0 /\ ByteBit(0, 6) = 0 /\ ByteBit(0, 7) = 0
      BY DEF ByteBit
    <3> QED
      BY <3>1, <3>2
  <2> QED
    BY <1>1, <1>4, <2>1 DEF Bit, ByteAt
<1> QED
  BY <1>2, <1>3, <1>4

(* A character of the text is six bits, of one byte or of two. *)
Six(p, q, r, s, t, u) == ((((p * 2 + q) * 2 + r) * 2 + s) * 2 + t) * 2 + u

LEMMA SixParts ==
  ASSUME NEW b \in 0..255, NEW c \in 0..255
  PROVE  /\ Six(ByteBit(b, 0), ByteBit(b, 1), ByteBit(b, 2), ByteBit(b, 3), ByteBit(b, 4),
                ByteBit(b, 5)) = b \div 4
         /\ Six(ByteBit(b, 6), ByteBit(b, 7), ByteBit(c, 0), ByteBit(c, 1), ByteBit(c, 2),
                ByteBit(c, 3)) = (b % 4) * 16 + (c \div 16)
         /\ Six(ByteBit(b, 4), ByteBit(b, 5), ByteBit(b, 6), ByteBit(b, 7), ByteBit(c, 0),
                ByteBit(c, 1)) = (b % 16) * 4 + (c \div 64)
         /\ Six(ByteBit(b, 2), ByteBit(b, 3), ByteBit(b, 4), ByteBit(b, 5), ByteBit(b, 6),
                ByteBit(b, 7)) = b % 64
<1>1. /\ \A k \in 0..7 : ByteBit(b, k) \in {0, 1} /\ ByteBit(c, k) \in {0, 1}
      /\ 0 \in 0..7 /\ 1 \in 0..7 /\ 2 \in 0..7 /\ 3 \in 0..7 /\ 4 \in 0..7 /\ 5 \in 0..7
      /\ 6 \in 0..7 /\ 7 \in 0..7
  <2>1. /\ 0 \in 0..7 /\ 1 \in 0..7 /\ 2 \in 0..7 /\ 3 \in 0..7 /\ 4 \in 0..7 /\ 5 \in 0..7
        /\ 6 \in 0..7 /\ 7 \in 0..7
    OBVIOUS
  <2>2. \A k \in 0..7 : ByteBit(b, k) \in {0, 1} /\ ByteBit(c, k) \in {0, 1}
    BY ByteBits
  <2> QED
    BY <2>1, <2>2
<1>2. Six(ByteBit(b, 0), ByteBit(b, 1), ByteBit(b, 2), ByteBit(b, 3), ByteBit(b, 4),
          ByteBit(b, 5)) = b \div 4
  BY ByteBits DEF Six
<1>3. Six(ByteBit(b, 2), ByteBit(b, 3), ByteBit(b, 4), ByteBit(b, 5), ByteBit(b, 6),
          ByteBit(b, 7)) = b % 64
  BY ByteBits DEF Six
<1>4. Six(ByteBit(b, 6), ByteBit(b, 7), ByteBit(c, 0), ByteBit(c, 1), ByteBit(c, 2),
          ByteBit(c, 3)) = (b % 4) * 16 + (c \div 16)
  <2>1. PICK p \in {0, 1}, q \in {0, 1}, r \in {0, 1}, s \in {0, 1}, t \in {0, 1}, u \in {0, 1} :
          /\ p = ByteBit(b, 6) /\ q = ByteBit(b, 7) /\ r = ByteBit(c, 0) /\ s = ByteBit(c, 1)
          /\ t = ByteBit(c, 2) /\ u = ByteBit(c, 3)
    BY <1>1
  <2>2. p * 2 + q = b % 4 /\ ((r * 2 + s) * 2 + t) * 2 + u = c \div 16
    BY <2>1, ByteBits
  <2>3. Six(p, q, r, s, t, u) = (p * 2 + q) * 16 + (((r * 2 + s) * 2 + t) * 2 + u)
    BY DEF Six
  <2> QED
    BY <2>1, <2>2, <2>3
<1>5. Six(ByteBit(b, 4), ByteBit(b, 5), ByteBit(b, 6), ByteBit(b, 7), ByteBit(c, 0),
          ByteBit(c, 1)) = (b % 16) * 4 + (c \div 64)
  <2>1. PICK p \in {0, 1}, q \in {0, 1}, r \in {0, 1}, s \in {0, 1}, t \in {0, 1}, u \in {0, 1} :
          /\ p = ByteBit(b, 4) /\ q = ByteBit(b, 5) /\ r = ByteBit(b, 6) /\ s = ByteBit(b, 7)
          /\ t = ByteBit(c, 0) /\ u = ByteBit(c, 1)
    BY <1>1
  <2>2. ((p * 2 + q) * 2 + r) * 2 + s = b % 16 /\ t * 2 + u = c \div 64
    BY <2>1, ByteBits
  <2>3. Six(p, q, r, s, t, u) = (((p * 2 + q) * 2 + r) * 2 + s) * 4 + (t * 2 + u)
    BY DEF Six
  <2> QED
    BY <2>1, <2>2, <2>3
<1> QED
  BY <1>2, <1>3, <1>4, <1>5

LEMMA IndexIsSixBits ==
  ASSUME NEW bytes \in Seq(0..255), NEW m \in Nat, 6 * m < 8 * Len(bytes)
  PROVE  SixBits(bytes, m + 1) = Accept!Index(bytes, m)
<1> DEFINE Char(k) == Six(Bit(bytes, k), Bit(bytes, k + 1), Bit(bytes, k + 2), Bit(bytes, k + 3),
                          Bit(bytes, k + 4), Bit(bytes, k + 5))
<1>1. SixBits(bytes, m + 1) = Char(6 * m)
  <2>1. 6 * ((m + 1) - 1) = 6 * m /\ 6 * m + 0 = 6 * m
    OBVIOUS
  <2> QED
    BY <2>1 DEF SixBits, Six
<1>2. PICK q \in Nat, r \in 0..3 : m = 4 * q + r
  <2>1. m = 4 * (m \div 4) + (m % 4) /\ m \div 4 \in Nat /\ m % 4 \in 0..3
    OBVIOUS
  <2> QED
    BY <2>1
<1> DEFINE b0 == ByteAt(bytes, 3 * q)
           b1 == ByteAt(bytes, 3 * q + 1)
           b2 == ByteAt(bytes, 3 * q + 2)
<1>3. 3 * q \in Nat /\ 3 * q + 1 \in Nat /\ 3 * q + 2 \in Nat
  OBVIOUS
<1>4. b0 \in 0..255 /\ b1 \in 0..255 /\ b2 \in 0..255
  <2>1. 0 \in 0..7
    OBVIOUS
  <2> QED
    BY ZenonT(40), <1>3, <2>1, BitOfByte
<1>5. ASSUME NEW s \in 0..7
      PROVE  /\ Bit(bytes, 24 * q + s) = ByteBit(b0, s)
             /\ Bit(bytes, 24 * q + 8 + s) = ByteBit(b1, s)
             /\ Bit(bytes, 24 * q + 16 + s) = ByteBit(b2, s)
  <2>1. /\ 8 * (3 * q) + s = 24 * q + s
        /\ 8 * (3 * q + 1) + s = 24 * q + 8 + s
        /\ 8 * (3 * q + 2) + s = 24 * q + 16 + s
    OBVIOUS
  <2>2. /\ Bit(bytes, 8 * (3 * q) + s) = ByteBit(b0, s)
        /\ Bit(bytes, 8 * (3 * q + 1) + s) = ByteBit(b1, s)
        /\ Bit(bytes, 8 * (3 * q + 2) + s) = ByteBit(b2, s)
    BY ZenonT(40), <1>3, BitOfByte
  <2> QED
    BY <2>1, <2>2
<1>6. Accept!Index(bytes, m) =
        Accept!HighBits(ByteAt(bytes, (6 * m) \div 8), (6 * m) % 8)
        + Accept!LowBits(ByteAt(bytes, (6 * m + 6) \div 8), (6 * m + 6) % 8)
  <2>1. (m + 1) * 6 = 6 * m + 6 /\ m * 6 = 6 * m
    OBVIOUS
  <2>2. (6 * m) \div 8 < Len(bytes)
    OBVIOUS
  <2> QED
    BY <2>1, <2>2 DEF Accept!Index, Accept!CHAR_BITS, Accept!BYTE_BITS, ByteAt
<1> HIDE DEF b0, b1, b2
<1>7. CASE r = 0
  <2>1. /\ 6 * m = 24 * q + 0 /\ 6 * m + 1 = 24 * q + 1 /\ 6 * m + 2 = 24 * q + 2
        /\ 6 * m + 3 = 24 * q + 3 /\ 6 * m + 4 = 24 * q + 4 /\ 6 * m + 5 = 24 * q + 5
        /\ (6 * m) \div 8 = 3 * q /\ (6 * m) % 8 = 0
        /\ (6 * m + 6) \div 8 = 3 * q /\ (6 * m + 6) % 8 = 6
    BY <1>2, <1>7
  <2>2. Char(6 * m) = b0 \div 4
    <3>1. /\ Bit(bytes, 24 * q + 0) = ByteBit(b0, 0) /\ Bit(bytes, 24 * q + 1) = ByteBit(b0, 1)
          /\ Bit(bytes, 24 * q + 2) = ByteBit(b0, 2) /\ Bit(bytes, 24 * q + 3) = ByteBit(b0, 3)
          /\ Bit(bytes, 24 * q + 4) = ByteBit(b0, 4) /\ Bit(bytes, 24 * q + 5) = ByteBit(b0, 5)
      BY <1>5
    <3>2. Char(6 * m) = Six(ByteBit(b0, 0), ByteBit(b0, 1), ByteBit(b0, 2),
            ByteBit(b0, 3), ByteBit(b0, 4), ByteBit(b0, 5))
      BY Zenon, <2>1, <3>1
    <3>3. Six(ByteBit(b0, 0), ByteBit(b0, 1), ByteBit(b0, 2),
            ByteBit(b0, 3), ByteBit(b0, 4), ByteBit(b0, 5)) = b0 \div 4
      BY Zenon, <1>4, SixParts
    <3> QED
      BY <3>2, <3>3
  <2>3. Accept!HighBits(b0, 0) = 0 /\ Accept!LowBits(b0, 6) = b0 \div 4
    BY DEF Accept!HighBits, Accept!LowBits, Accept!BYTE_BITS
  <2> QED
    <3>1. Accept!Index(bytes, m) = 0 + (b0 \div 4)
      BY <1>6, <2>1, <2>3 DEF b0
    <3>2. 0 + (b0 \div 4) = b0 \div 4
      BY <1>4
    <3> QED
      BY <1>1, <2>2, <3>1, <3>2
<1>8. CASE r = 1
  <2>1. /\ 6 * m = 24 * q + 6 /\ 6 * m + 1 = 24 * q + 7 /\ 6 * m + 2 = 24 * q + 8 + 0
        /\ 6 * m + 3 = 24 * q + 8 + 1 /\ 6 * m + 4 = 24 * q + 8 + 2 /\ 6 * m + 5 = 24 * q + 8 + 3
        /\ (6 * m) \div 8 = 3 * q /\ (6 * m) % 8 = 6
        /\ (6 * m + 6) \div 8 = 3 * q + 1 /\ (6 * m + 6) % 8 = 4
    BY <1>2, <1>8
  <2>2. Char(6 * m) = (b0 % 4) * 16 + (b1 \div 16)
    <3>1. /\ Bit(bytes, 24 * q + 6) = ByteBit(b0, 6) /\ Bit(bytes, 24 * q + 7) = ByteBit(b0, 7)
          /\ Bit(bytes, 24 * q + 8 + 0) = ByteBit(b1, 0) /\ Bit(bytes, 24 * q + 8 + 1) = ByteBit(b1, 1)
          /\ Bit(bytes, 24 * q + 8 + 2) = ByteBit(b1, 2) /\ Bit(bytes, 24 * q + 8 + 3) = ByteBit(b1, 3)
      BY <1>5
    <3>2. Char(6 * m) = Six(ByteBit(b0, 6), ByteBit(b0, 7), ByteBit(b1, 0),
            ByteBit(b1, 1), ByteBit(b1, 2), ByteBit(b1, 3))
      BY <2>1, <3>1
    <3>3. Six(ByteBit(b0, 6), ByteBit(b0, 7), ByteBit(b1, 0),
            ByteBit(b1, 1), ByteBit(b1, 2), ByteBit(b1, 3)) = (b0 % 4) * 16 + (b1 \div 16)
      BY Zenon, <1>4, SixParts
    <3> QED
      BY <3>2, <3>3
  <2>3. Accept!HighBits(b0, 6) = (b0 % 4) * 16 /\ Accept!LowBits(b1, 4) = b1 \div 16
    BY <1>4 DEF Accept!HighBits, Accept!LowBits, Accept!BYTE_BITS
  <2> QED
    BY <1>1, <1>4, <1>6, <2>1, <2>2, <2>3 DEF b0, b1
<1>9. CASE r = 2
  <2>1. /\ 6 * m = 24 * q + 8 + 4 /\ 6 * m + 1 = 24 * q + 8 + 5 /\ 6 * m + 2 = 24 * q + 8 + 6
        /\ 6 * m + 3 = 24 * q + 8 + 7 /\ 6 * m + 4 = 24 * q + 16 + 0 /\ 6 * m + 5 = 24 * q + 16 + 1
        /\ (6 * m) \div 8 = 3 * q + 1 /\ (6 * m) % 8 = 4
        /\ (6 * m + 6) \div 8 = 3 * q + 2 /\ (6 * m + 6) % 8 = 2
    BY <1>2, <1>9
  <2>2. Char(6 * m) = (b1 % 16) * 4 + (b2 \div 64)
    <3>1. /\ Bit(bytes, 24 * q + 8 + 4) = ByteBit(b1, 4) /\ Bit(bytes, 24 * q + 8 + 5) = ByteBit(b1, 5)
          /\ Bit(bytes, 24 * q + 8 + 6) = ByteBit(b1, 6) /\ Bit(bytes, 24 * q + 8 + 7) = ByteBit(b1, 7)
          /\ Bit(bytes, 24 * q + 16 + 0) = ByteBit(b2, 0) /\ Bit(bytes, 24 * q + 16 + 1) = ByteBit(b2, 1)
      BY <1>5
    <3>2. Char(6 * m) = Six(ByteBit(b1, 4), ByteBit(b1, 5), ByteBit(b1, 6),
            ByteBit(b1, 7), ByteBit(b2, 0), ByteBit(b2, 1))
      BY Zenon, <2>1, <3>1
    <3>3. Six(ByteBit(b1, 4), ByteBit(b1, 5), ByteBit(b1, 6),
            ByteBit(b1, 7), ByteBit(b2, 0), ByteBit(b2, 1)) = (b1 % 16) * 4 + (b2 \div 64)
      BY Zenon, <1>4, SixParts
    <3> QED
      BY <3>2, <3>3
  <2>3. Accept!HighBits(b1, 4) = (b1 % 16) * 4 /\ Accept!LowBits(b2, 2) = b2 \div 64
    BY <1>4 DEF Accept!HighBits, Accept!LowBits, Accept!BYTE_BITS
  <2> QED
    BY <1>1, <1>4, <1>6, <2>1, <2>2, <2>3 DEF b1, b2
<1>10. CASE r = 3
  <2>1. /\ 6 * m = 24 * q + 16 + 2 /\ 6 * m + 1 = 24 * q + 16 + 3 /\ 6 * m + 2 = 24 * q + 16 + 4
        /\ 6 * m + 3 = 24 * q + 16 + 5 /\ 6 * m + 4 = 24 * q + 16 + 6 /\ 6 * m + 5 = 24 * q + 16 + 7
        /\ (6 * m) \div 8 = 3 * q + 2 /\ (6 * m) % 8 = 2
        /\ (6 * m + 6) \div 8 = 3 * q + 3 /\ (6 * m + 6) % 8 = 0
    BY <1>2, <1>10
  <2>2. Char(6 * m) = b2 % 64
    <3>1. /\ Bit(bytes, 24 * q + 16 + 2) = ByteBit(b2, 2) /\ Bit(bytes, 24 * q + 16 + 3) = ByteBit(b2, 3)
          /\ Bit(bytes, 24 * q + 16 + 4) = ByteBit(b2, 4) /\ Bit(bytes, 24 * q + 16 + 5) = ByteBit(b2, 5)
          /\ Bit(bytes, 24 * q + 16 + 6) = ByteBit(b2, 6) /\ Bit(bytes, 24 * q + 16 + 7) = ByteBit(b2, 7)
      BY <1>5
    <3>2. Char(6 * m) = Six(ByteBit(b2, 2), ByteBit(b2, 3), ByteBit(b2, 4),
            ByteBit(b2, 5), ByteBit(b2, 6), ByteBit(b2, 7))
      BY Zenon, <2>1, <3>1
    <3>3. Six(ByteBit(b2, 2), ByteBit(b2, 3), ByteBit(b2, 4),
            ByteBit(b2, 5), ByteBit(b2, 6), ByteBit(b2, 7)) = b2 % 64
      BY Zenon, <1>4, SixParts
    <3> QED
      BY <3>2, <3>3
  <2>3. ByteAt(bytes, 3 * q + 3) \in 0..255
    <3>1. 3 * q + 3 \in Nat /\ 0 \in 0..7
      OBVIOUS
    <3> QED
      BY <3>1, BitOfByte
  <2>4. \A c \in 0..255 : Accept!LowBits(c, 0) = 0
    BY DEF Accept!LowBits, Accept!BYTE_BITS
  <2>5. Accept!HighBits(b2, 2) = b2 % 64
    BY <1>4 DEF Accept!HighBits, Accept!BYTE_BITS
  <2> QED
    <3>1. Accept!Index(bytes, m) = (b2 % 64) + 0
      BY <1>6, <2>1, <2>3, <2>4, <2>5 DEF b2
    <3>2. (b2 % 64) + 0 = b2 % 64
      BY <1>4
    <3> QED
      BY <1>1, <2>2, <3>1, <3>2
<1> QED
  BY <1>7, <1>8, <1>9, <1>10

(* Every character base64_encode writes, and how many it writes. *)
LEMMA EncodingIsRight ==
  ASSUME NEW bytes \in Seq(0..255), NEW size \in Nat, Len(bytes) % 3 # 0
  PROVE  LET chars == (Len(bytes) * 8 + 5) \div 6
             right == [i \in 1..((chars + 3) \div 4) * 4 |->
                         IF i <= chars THEN SixBits(bytes, i) ELSE 64]
             r == Accept!Base64Encode(bytes, size)
         IN  /\ r.buf = SubSeq(right, 1, Min({size, Len(right)}))
             /\ Len(bytes) = 20 => r.output_len < 40
<1> DEFINE n == Len(bytes)
           chars == (n * 8 + 5) \div 6
           full == ((chars + 3) \div 4) * 4
           right == [i \in 1..full |-> IF i <= chars THEN SixBits(bytes, i) ELSE 64]
           bits == n * 8
           num_chars == (bits \div 6) + (IF bits % 6 # 0 THEN 1 ELSE 0)
           written == Min({num_chars, size})
           output_len == ((written + 4) \div 4) * 4
           buf == [i \in 1..Min({output_len, size}) |->
                     IF i <= written THEN Accept!Index(bytes, i - 1) ELSE 64]
<1>1. \A a, b \in Nat : Min({a, b}) = IF a <= b THEN a ELSE b
  <2> TAKE a \in Nat, b \in Nat
  <2>1. {a, b} \in SUBSET Nat /\ {a, b} # {}
    OBVIOUS
  <2>2. Min({a, b}) \in {a, b} /\ \A x \in {a, b} : Min({a, b}) <= x
    BY <2>1, MinIsLeast
  <2> QED
    BY <2>2
<1>2. n \in Nat
  OBVIOUS
<1>3. PICK q \in Nat, d \in {1, 2} : n = 3 * q + d
  <2>1. n = 3 * (n \div 3) + (n % 3) /\ n \div 3 \in Nat /\ n % 3 \in 0..2
    BY <1>2
  <2>2. n % 3 \in {1, 2}
    BY <2>1
  <2> HIDE DEF n
  <2> QED
    BY <2>1, <2>2
<1> HIDE DEF n
<1>4. chars = 4 * q + d + 1 /\ full = 4 * q + 4 /\ num_chars = chars
  <2>1. CASE d = 1
    BY <1>3, <2>1
  <2>2. CASE d = 2
    BY <1>3, <2>2
  <2> QED
    BY <2>1, <2>2
<1>5. chars \in Nat /\ full \in Nat /\ chars < full
  BY <1>3, <1>4
<1> HIDE DEF chars, full, num_chars
<1>6. written = IF chars <= size THEN chars ELSE size
  BY <1>1, <1>4, <1>5
<1>7. output_len \in Nat /\ Min({output_len, size}) = IF output_len <= size THEN output_len ELSE size
  <2>1. written \in Nat
    BY <1>5, <1>6
  <2> HIDE DEF written
  <2>2. output_len \in Nat
    BY <2>1
  <2> HIDE DEF output_len
  <2> QED
    BY <1>1, <2>2
<1>8. /\ chars <= size => output_len = full
      /\ ~(chars <= size) => output_len > size
  <2>1. CASE chars <= size
    <3>1. written = 4 * q + d + 1
      BY <1>4, <1>6, <2>1
    <3> HIDE DEF written
    <3> QED
      BY <1>3, <1>4, <2>1, <3>1
  <2>2. CASE ~(chars <= size)
    <3>1. written = size
      BY <1>6, <2>2
    <3> HIDE DEF written
    <3>2. output_len > size
      BY <3>1
    <3> QED
      BY <2>2, <3>2
  <2> QED
    BY <2>1, <2>2
<1>9. Min({size, full}) = Min({output_len, size})
  <2>1. Min({size, full}) = IF size <= full THEN size ELSE full
    BY <1>1, <1>5
  <2> HIDE DEF output_len
  <2> QED
    BY <1>5, <1>7, <1>8, <2>1
<1>10. ASSUME NEW i \in 1..Min({output_len, size})
       PROVE  buf[i] = right[i] /\ i \in 1..full
  <2>1. i \in Nat /\ 1 <= i /\ i <= full /\ i <= size
    <3> HIDE DEF output_len
    <3> QED
      BY <1>5, <1>7, <1>8
  <2>2. i <= written <=> i <= chars
    <3> HIDE DEF written
    <3> QED
      BY <1>5, <1>6, <2>1
  <2>3. i <= chars => SixBits(bytes, i) = Accept!Index(bytes, i - 1)
    <3> HAVE i <= chars
    <3>1. PICK m \in Nat : i = m + 1
      <4>1. i - 1 \in Nat /\ i = (i - 1) + 1
        BY <2>1
      <4> QED
        BY <4>1
    <3>2. i - 1 = m /\ 6 * m < 8 * Len(bytes)
      BY <1>3, <1>4, <3>1 DEF n
    <3> QED
      BY <3>1, <3>2, IndexIsSixBits
  <2> HIDE DEF written, output_len
  <2> QED
    BY <2>1, <2>2, <2>3
<1>11. Len(right) = full
  BY <1>5
<1>12. SubSeq(right, 1, Min({size, full})) = [i \in 1..Min({output_len, size}) |-> right[i]]
  <2>1. Min({output_len, size}) \in Nat
    <3> HIDE DEF output_len
    <3> QED
      BY <1>7
  <2>2. ASSUME NEW s, NEW k \in Nat
        PROVE  SubSeq(s, 1, k) = [i \in 1..k |-> s[i]]
    BY DEF SubSeq
  <2> HIDE DEF output_len, right
  <2> QED
    BY ZenonT(40), <1>9, <2>1, <2>2
<1>13. buf = SubSeq(right, 1, Min({size, Len(right)}))
  <2> HIDE DEF output_len, written, right
  <2> QED
    BY <1>10, <1>11, <1>12
<1>14. n = 20 => output_len < 40
  <2> HAVE n = 20
  <2>1. chars = 27
    BY <1>3, <1>4
  <2>2. written \in 0..27
    <3> HIDE DEF written
    <3> QED
      BY <1>6, <2>1
  <2> HIDE DEF written
  <2> QED
    BY <2>2
<1>15. Accept!Base64Encode(bytes, size) = [buf |-> buf, output_len |-> output_len]
  BY Zenon DEF Accept!Base64Encode, Accept!BYTE_BITS, Accept!CHAR_BITS, Accept!base64_padding_char,
               Accept!Min, Min, n, num_chars
<1>16. /\ Accept!Base64Encode(bytes, size).buf = buf
       /\ Accept!Base64Encode(bytes, size).output_len = output_len
  <2> HIDE DEF buf, output_len
  <2> QED
    BY <1>15
<1> HIDE DEF buf, output_len
<1> QED
  BY Zenon, <1>13, <1>14, <1>16 DEF n, chars, full

(* What base64_encode is given, and what it wrote. *)
Encoded ==
  job.kind = "base64" =>
    /\ job.bytes \in Seq(0..255) /\ job.size \in Nat
    /\ out.ended = "done" =>
         LET encoded == Accept!Base64Encode(job.bytes, job.size) IN
         out.buf = encoded.buf /\ out.output_len = encoded.output_len

LEMMA EncodedInit == Init => Encoded
<1> SUFFICES ASSUME Init
             PROVE  Encoded
  OBVIOUS
<1>1. CASE StartBase64
  <2>1. PICK bytes \in UpTo({0, 90, 167, 255}, MaxBytes) \cup {[i \in 1..20 |-> 12 * i]},
             size \in {0, 3, 39} :
          /\ job = [kind |-> "base64", bytes |-> bytes, size |-> size]
          /\ out = [buf |-> <<>>, ended |-> "no"]
    BY <1>1 DEF StartBase64
  <2>2. bytes \in Seq(0..255)
    <3>1. CASE bytes \in UpTo({0, 90, 167, 255}, MaxBytes)
      <4>1. MaxBytes \in Nat
        BY BoundsAssumption
      <4>2. bytes \in Seq({0, 90, 167, 255})
        BY <3>1, <4>1, UpToAreSequences
      <4> QED
        BY <4>2
    <3>2. CASE bytes = [i \in 1..20 |-> 12 * i]
      <4>1. \A i \in 1..20 : 12 * i \in 0..255
        OBVIOUS
      <4>2. bytes \in [1..20 -> 0..255] /\ 20 \in Nat
        BY <3>2, <4>1
      <4>3. \A k \in Nat : [1..k -> 0..255] \subseteq Seq(0..255)
        OBVIOUS
      <4> QED
        BY <4>2, <4>3
    <3> QED
      BY <3>1, <3>2
  <2>3. size \in Nat
    OBVIOUS
  <2> QED
    BY <2>1, <2>2, <2>3 DEF Encoded
<1>2. CASE StartEvent \/ StartConfig \/ StartDigest \/ StartConcat
  <2>1. job.kind # "base64"
    <3>1. CASE StartEvent
      <4>1. PICK event, failing, size :
              job = [kind |-> "json", event |-> event, failing |-> failing, size |-> size]
        BY <3>1, Zenon DEF StartEvent
      <4> QED
        BY <4>1
    <3>2. CASE StartConfig
      <4>1. PICK text, asserts : job = [kind |-> "config", text |-> text, asserts |-> asserts]
        BY <3>2, Zenon DEF StartConfig
      <4> QED
        BY <4>1
    <3>3. CASE StartDigest
      BY <3>3 DEF StartDigest
    <3>4. CASE StartConcat
      BY <3>4 DEF StartConcat
    <3> QED
      BY <1>2, <3>1, <3>2, <3>3, <3>4
  <2> QED
    BY <2>1 DEF Encoded
<1> QED
  BY <1>1, <1>2 DEF Init

LEMMA EncodedStep == Encoded /\ [Next]_vars => Encoded'
<1> SUFFICES ASSUME Encoded, [Next]_vars
             PROVE  Encoded'
  OBVIOUS
<1>1. CASE EncodeBase64
  <2>1. PICK r : r = Accept!Base64Encode(job.bytes, job.size)
    OBVIOUS
  <2>2. out' = [buf |-> r.buf, output_len |-> r.output_len, ended |-> "done"] /\ job' = job
    BY <1>1, <2>1 DEF EncodeBase64
  <2> QED
    BY <2>1, <2>2 DEF Encoded
<1>2. CASE EncodeEvent \/ ReadConfig \/ ComputeDigest \/ ReplacePlaceholder
  <2>1. job' = job /\ job.kind # "base64"
    BY <1>2 DEF EncodeEvent, ReadConfig, ComputeDigest, ReplacePlaceholder
  <2> QED
    BY <2>1 DEF Encoded
<1>3. CASE UNCHANGED vars
  BY <1>3 DEF Encoded, vars
<1> QED
  BY <1>1, <1>2, <1>3 DEF Next

(* base64_encode writes the characters of the bits and the padding, for    *)
(* any bytes whose number is no multiple of 3, into a buffer of any size.  *)
THEOREM Base64IsRightHolds == Spec => []Base64IsRight
<1>1. Encoded => Base64IsRight
  <2> SUFFICES ASSUME Encoded, job.kind = "base64", out.ended = "done", Len(job.bytes) % 3 # 0
               PROVE  LET chars == (Len(job.bytes) * 8 + 5) \div 6
                          right == [i \in 1..((chars + 3) \div 4) * 4 |->
                                      IF i <= chars THEN SixBits(job.bytes, i) ELSE 64]
                      IN  /\ out.buf = SubSeq(right, 1, Min({job.size, Len(right)}))
                          /\ Len(job.bytes) = 20 => out.output_len < 40
    BY DEF Base64IsRight
  <2>1. PICK bytes \in Seq(0..255), size \in Nat : bytes = job.bytes /\ size = job.size
    BY DEF Encoded
  <2>2. PICK r : r = Accept!Base64Encode(bytes, size)
    OBVIOUS
  <2>3. r.buf = out.buf /\ r.output_len = out.output_len
    BY <2>1, <2>2 DEF Encoded
  <2>4. Len(bytes) % 3 # 0
    BY <2>1
  <2> QED
    BY Zenon, <2>1, <2>2, <2>3, <2>4, EncodingIsRight
<1>2. Init => Encoded
  BY EncodedInit
<1> QED
  BY <1>1, <1>2, EncodedStep, PTL DEF Spec

-----------------------------------------------------------------------------
(* The blocks of a message                                                  *)

Block == [0..63 -> Int]
Wide == [Message_Block : Block, index : 0..64, length : Nat, blocks : Seq(Block)]
Context == [Message_Block : Block, index : 0..63, length : Nat, blocks : Seq(Block)]

LEMMA StoreIs ==
  ASSUME NEW c \in Wide, c.index \in 0..63, NEW octet \in Int
  PROVE  LET d == Accept!Store(c, octet) IN
         /\ d \in Wide
         /\ d.Message_Block = [c.Message_Block EXCEPT ![c.index] = octet]
         /\ d.Message_Block \in Block
         /\ d.index = c.index + 1 /\ d.length = c.length /\ d.blocks = c.blocks
<1>1. PICK x \in 0..63 : x = c.index
  OBVIOUS
<1>2. PICK b \in Block : b = [c.Message_Block EXCEPT ![x] = octet]
  <2>1. c.Message_Block \in Block
    BY DEF Wide
  <2>2. [c.Message_Block EXCEPT ![x] = octet] \in Block
    BY <2>1 DEF Block
  <2> QED
    BY <2>2
<1>3. PICK y \in 0..64 : y = x + 1
  <2>1. x + 1 \in 0..64
    OBVIOUS
  <2> QED
    BY <2>1
<1>4. PICK d : d = [c EXCEPT !.Message_Block = b, !.index = y]
  OBVIOUS
<1>5. d \in Wide
  BY <1>4 DEF Wide
<1>6. d.Message_Block = b /\ d.index = y /\ d.length = c.length /\ d.blocks = c.blocks
  BY <1>4 DEF Wide
<1>7. Accept!Store(c, octet) = [c EXCEPT !.Message_Block = b, !.index = y]
  BY <1>1, <1>2, <1>3 DEF Accept!Store, Wide
<1> QED
  BY <1>1, <1>2, <1>3, <1>4, <1>5, <1>6, <1>7

LEMMA ProcessIs ==
  ASSUME NEW c \in Wide
  PROVE  LET d == Accept!SHA1ProcessMessageBlock(c) IN
         /\ d \in Context
         /\ d.Message_Block = c.Message_Block /\ d.index = 0 /\ d.length = c.length
         /\ d.blocks = Append(c.blocks, c.Message_Block)
<1>1. PICK s \in Seq(Block) : s = Append(c.blocks, c.Message_Block)
  <2>1. c.blocks \in Seq(Block) /\ c.Message_Block \in Block
    BY DEF Wide
  <2>2. Append(c.blocks, c.Message_Block) \in Seq(Block)
    BY <2>1
  <2> QED
    BY <2>2
<1>2. PICK x \in 0..63 : x = 0
  OBVIOUS
<1>3. PICK d : d = [c EXCEPT !.blocks = s, !.index = x]
  OBVIOUS
<1>4. d \in Context
  BY <1>3 DEF Wide, Context
<1>5. d.Message_Block = c.Message_Block /\ d.index = x /\ d.length = c.length /\ d.blocks = s
  BY <1>3 DEF Wide
<1>6. Accept!SHA1ProcessMessageBlock(c) = [c EXCEPT !.blocks = s, !.index = x]
  BY <1>1, <1>2, Zenon DEF Accept!SHA1ProcessMessageBlock
<1> QED
  BY <1>1, <1>2, <1>3, <1>4, <1>5, <1>6

(* What SHA1Input does with an octet. *)
Fed(c, octet) ==
  LET d == [Accept!Store(c, octet) EXCEPT !.length = @ + 8]
  IN  IF d.index = 64 THEN Accept!SHA1ProcessMessageBlock(d) ELSE d

(* The context holds the first i octets: in blocks, and in the block that  *)
(* is not full.                                                            *)
Holds(c, octets, i) ==
  /\ c \in Context
  /\ c.length = 8 * i
  /\ i = 64 * Len(c.blocks) + c.index
  /\ \A q \in 1..Len(c.blocks), r \in 0..63 : c.blocks[q][r] = octets[64 * (q - 1) + r + 1]
  /\ \A r \in 0..c.index - 1 : c.Message_Block[r] = octets[64 * Len(c.blocks) + r + 1]

LEMMA FedIs ==
  ASSUME NEW c \in Context, NEW octet \in Int
  PROVE  LET b == [c.Message_Block EXCEPT ![c.index] = octet]
             d == Fed(c, octet)
         IN  /\ b \in Block /\ d \in Context
             /\ d.length = c.length + 8
             /\ c.index = 63 => d.index = 0 /\ d.blocks = Append(c.blocks, b)
             /\ c.index # 63 => /\ d.index = c.index + 1 /\ d.blocks = c.blocks
                               /\ d.Message_Block = b
<1>1. PICK b : b = [c.Message_Block EXCEPT ![c.index] = octet]
  OBVIOUS
<1>2. c \in Wide /\ c.index \in 0..63
  <2>1. \A x \in 0..63 : x \in 0..64
    OBVIOUS
  <2> QED
    BY <2>1 DEF Wide, Context
<1>3. PICK d \in Wide : d = Accept!Store(c, octet)
  BY <1>2, StoreIs
<1>4. /\ b \in Block /\ d.Message_Block = b
      /\ d.index = c.index + 1 /\ d.length = c.length /\ d.blocks = c.blocks
  BY <1>1, <1>2, <1>3, StoreIs
<1>5. PICK len \in Nat : len = c.length + 8 /\ len = d.length + 8
  <2>1. c.length \in Nat
    BY DEF Context
  <2>2. c.length + 8 \in Nat
    BY <2>1
  <2> QED
    BY <1>4, <2>2
<1>6. PICK e : e = [d EXCEPT !.length = len]
  OBVIOUS
<1>7. e \in Wide
  BY <1>6 DEF Wide
<1>8. /\ e.Message_Block = b /\ e.index = c.index + 1 /\ e.length = len
      /\ e.blocks = c.blocks
  <2>1. /\ e.Message_Block = d.Message_Block /\ e.index = d.index /\ e.length = len
        /\ e.blocks = d.blocks
    BY <1>6 DEF Wide
  <2> QED
    BY <1>4, <2>1
<1>9. e = [Accept!Store(c, octet) EXCEPT !.length = @ + 8]
  BY <1>3, <1>5, <1>6 DEF Wide
<1>10. e.index = 64 <=> c.index = 63
  <2>1. \A x \in 0..63 : x + 1 = 64 <=> x = 63
    OBVIOUS
  <2> QED
    BY <1>2, <1>8, <2>1
<1>11. CASE c.index = 63
  <2>1. Fed(c, octet) = Accept!SHA1ProcessMessageBlock(e)
    BY <1>9, <1>10, <1>11 DEF Fed
  <2>2. PICK f : f = Accept!SHA1ProcessMessageBlock(e)
    OBVIOUS
  <2>3. f \in Context /\ f.index = 0 /\ f.length = e.length /\ f.blocks = Append(e.blocks, e.Message_Block)
    BY <1>7, <2>2, ProcessIs
  <2> QED
    BY <1>1, <1>4, <1>5, <1>8, <1>11, <2>1, <2>2, <2>3
<1>12. CASE c.index # 63
  <2>1. Fed(c, octet) = e
    BY <1>9, <1>10, <1>12 DEF Fed
  <2>2. e.index \in 0..63
    <3>1. \A x \in 0..63 : x # 63 => x + 1 \in 0..63
      OBVIOUS
    <3> QED
      BY <1>2, <1>8, <1>12, <3>1
  <2>3. e \in Context
    BY <1>7, <2>2 DEF Wide, Context
  <2> QED
    BY <1>1, <1>4, <1>5, <1>8, <1>12, <2>1, <2>3
<1> QED
  BY <1>11, <1>12

LEMMA FedHolds ==
  ASSUME NEW octets \in Seq(Int), NEW i \in 1..Len(octets), NEW c, Holds(c, octets, i - 1)
  PROVE  Holds(Fed(c, octets[i]), octets, i)
<1>1. octets[i] \in Int /\ c \in Context
  BY DEF Holds
<1> DEFINE b == [c.Message_Block EXCEPT ![c.index] = octets[i]]
           d == Fed(c, octets[i])
<1>2. /\ b \in Block /\ d.length = c.length + 8
      /\ c.index = 63 => d.index = 0 /\ d.blocks = Append(c.blocks, b)
      /\ c.index # 63 => /\ d.index = c.index + 1 /\ d.blocks = c.blocks /\ d.Message_Block = b
  BY <1>1, FedIs
<1>3. d \in Context
  BY <1>1, FedIs
<1>4. PICK m \in Nat : m = Len(c.blocks)
  BY <1>1 DEF Context
<1>5. c.index \in 0..63 /\ c.length \in Nat /\ c.blocks \in Seq(Block)
  BY <1>1 DEF Context
<1>6. i = 64 * m + c.index + 1 /\ c.length + 8 = 8 * i
  BY <1>4, <1>5 DEF Holds
<1>7. ASSUME NEW r \in 0..c.index
      PROVE  b[r] = octets[64 * m + r + 1]
  <2>1. DOMAIN c.Message_Block = 0..63
    BY <1>1 DEF Context, Block
  <2>2. CASE r = c.index
    BY <1>5, <1>6, <2>1, <2>2
  <2>3. CASE r # c.index
    <3>1. r \in 0..c.index - 1 /\ r \in 0..63
      <4>1. \A x \in 0..63 : \A y \in 0..x : y # x => y \in 0..x - 1 /\ y \in 0..63
        OBVIOUS
      <4> QED
        BY <1>5, <2>3, <4>1
    <3>2. b[r] = c.Message_Block[r]
      BY <2>1, <2>3, <3>1
    <3> QED
      BY <1>4, <3>1, <3>2 DEF Holds
  <2> QED
    BY <2>2, <2>3
<1> HIDE DEF b, d
<1>8. CASE c.index = 63
  <2>1. d.index = 0 /\ d.length = c.length + 8 /\ d.blocks = Append(c.blocks, b)
    BY <1>2, <1>8
  <2>2. Len(d.blocks) = m + 1
    BY <1>2, <1>4, <1>5, <2>1
  <2>3. ASSUME NEW q \in 1..m + 1, NEW r \in 0..63
        PROVE  d.blocks[q][r] = octets[64 * (q - 1) + r + 1]
    <3>1. CASE q = m + 1
      <4>1. d.blocks[q] = b
        BY <1>2, <1>4, <1>5, <2>1, <3>1
      <4>2. b[r] = octets[64 * m + r + 1]
        BY <1>7, <1>8
      <4>3. q - 1 = m
        BY <3>1
      <4> QED
        BY <4>1, <4>2, <4>3
    <3>2. CASE q # m + 1
      <4>1. q \in 1..m /\ d.blocks[q] = c.blocks[q]
        BY <1>2, <1>4, <1>5, <2>1, <3>2
      <4> QED
        BY ZenonT(40), <1>4, <4>1 DEF Holds
    <3> QED
      BY <3>1, <3>2
  <2>4. i = 64 * (m + 1) + 0
    BY <1>6, <1>8
  <2>5. \A r \in 0..d.index - 1 : d.Message_Block[r] = octets[64 * Len(d.blocks) + r + 1]
    BY <2>1
  <2>6. i = 64 * Len(d.blocks) + d.index /\ d.length = 8 * i
    BY <1>6, <2>1, <2>2, <2>4
  <2>7. Holds(d, octets, i)
    BY <1>3, <2>2, <2>3, <2>5, <2>6 DEF Holds
  <2> QED
    BY <2>7 DEF d
<1>9. CASE c.index # 63
  <2>1. /\ d.index = c.index + 1 /\ d.length = c.length + 8 /\ d.blocks = c.blocks /\ d.Message_Block = b
    BY <1>2, <1>9
  <2>2. d.index - 1 = c.index /\ i = 64 * m + d.index
    <3>1. \A x \in 0..63 : (x + 1) - 1 = x /\ 64 * m + x + 1 = 64 * m + (x + 1)
      OBVIOUS
    <3>2. (c.index + 1) - 1 = c.index /\ 64 * m + c.index + 1 = 64 * m + (c.index + 1)
      BY <1>5, <3>1
    <3> QED
      BY <1>6, <2>1, <3>2
  <2>3. \A r \in 0..d.index - 1 : d.Message_Block[r] = octets[64 * m + r + 1]
    BY <1>7, <2>1, <2>2
  <2>4. \A q \in 1..m, r \in 0..63 : d.blocks[q][r] = octets[64 * (q - 1) + r + 1]
    BY ZenonT(40), <1>4, <2>1 DEF Holds
  <2>5. Len(d.blocks) = m /\ d.length = 8 * i
    BY <1>4, <1>6, <2>1
  <2>6. Holds(d, octets, i)
    BY <1>3, <2>2, <2>3, <2>4, <2>5 DEF Holds
  <2> QED
    BY <2>6 DEF d
<1> QED
  BY <1>8, <1>9

LEMMA InputHolds ==
  ASSUME NEW octets \in Seq(Int), NEW left \in Block
  PROVE  Holds(Accept!SHA1Input(Accept!SHA1Reset(left), octets), octets, Len(octets))
<1>1. PICK n \in Nat : n = Len(octets)
  OBVIOUS
<1>2. PICK c : c = Accept!SHA1Reset(left)
  OBVIOUS
<1>3. Holds(c, octets, 0)
  <2>1. c = [Message_Block |-> left, index |-> 0, length |-> 0, blocks |-> <<>>]
    BY <1>2 DEF Accept!SHA1Reset
  <2>2. <<>> \in Seq(Block) /\ Len(<<>>) = 0
    OBVIOUS
  <2>3. c \in Context
    BY <2>1, <2>2 DEF Context
  <2> QED
    BY <2>1, <2>2, <2>3 DEF Holds
<1>4. c \in Context
  BY <1>3 DEF Holds
<1> DEFINE step == [i \in 1..n |-> [x \in Context |-> Fed(x, octets[i])]]
           Solves(f) == f = [i \in 0..n |-> IF i = 0 THEN c ELSE Fed(f[i - 1], octets[i])]
<1>5. \A i \in 1..n : octets[i] \in Int
  BY <1>1
<1>6. IsStep(Context, n, step)
  BY <1>5, FedIs DEF IsStep
<1>7. \A i \in 1..n : \A x \in Context : step[i][x] = Fed(x, octets[i])
  OBVIOUS
<1> HIDE DEF step
<1>8. PICK f : Iterates(Context, n, c, step, f)
  BY <1>4, <1>6, RecursionExists
<1>9. \A i \in 1..n : f[i] = Fed(f[i - 1], octets[i])
  <2>1. \A i \in 1..n : f[i - 1] \in Context
    BY <1>8 DEF Iterates
  <2> QED
    BY <1>7, <1>8, <2>1 DEF Iterates
<1>10. Solves(f)
  BY <1>8, <1>9 DEF Iterates
<1> DEFINE g == CHOOSE x : Solves(x)
<1>11. Solves(g)
  BY <1>10
<1> HIDE DEF g
<1>12. \A i \in 0..n : g[i] = IF i = 0 THEN c ELSE Fed(g[i - 1], octets[i])
  BY <1>11
<1>13. Holds(g[n], octets, n)
  <2> DEFINE G == {i \in 0..n : Holds(g[i], octets, i)}
  <2>1. 0 \in G
    BY <1>3, <1>12
  <2>2. ASSUME NEW i \in 1..n, i - 1 \in G
        PROVE  i \in G
    <3>1. Holds(g[i - 1], octets, i - 1) /\ g[i] = Fed(g[i - 1], octets[i])
      BY <1>12, <2>2
    <3>2. i \in 1..Len(octets)
      BY <1>1
    <3>3. Holds(Fed(g[i - 1], octets[i]), octets, i)
      BY <3>1, <3>2, FedHolds
    <3> QED
      BY <3>1, <3>3
  <2> HIDE DEF G
  <2>3. 0..n \subseteq G
    BY <2>1, <2>2, UpwardInduction
  <2> QED
    BY <2>3 DEF G
<1>14. Accept!SHA1Input(c, octets) = g[n]
  BY <1>1, Zenon DEF Accept!SHA1Input, Accept!BlockSize, Fed, g
<1> QED
  BY <1>1, <1>2, <1>13, <1>14

Zeroed(c, end, d) ==
  /\ d \in Wide
  /\ d.index = end /\ d.length = c.length /\ d.blocks = c.blocks
  /\ \A k \in 0..63 : d.Message_Block[k] = IF k \in c.index..end - 1 THEN 0
                                           ELSE c.Message_Block[k]

LEMMA ZerosIs ==
  ASSUME NEW c \in Wide, NEW end \in 0..64
  PROVE  Zeroed(c, end, Accept!Zeros(c, end))
<1>1. c.Message_Block \in Block /\ DOMAIN c.Message_Block = 0..63
  BY DEF Wide, Block
<1>2. PICK x : x = c.index
  OBVIOUS
<1>3. PICK b : b = [k \in 0..63 |-> IF k \in x..end - 1 THEN 0 ELSE c.Message_Block[k]]
  OBVIOUS
<1>4. b \in Block
  BY <1>1, <1>3 DEF Block
<1>5. PICK d : d = [c EXCEPT !.Message_Block = b, !.index = end]
  OBVIOUS
<1>6. d \in Wide
  BY <1>4, <1>5 DEF Wide
<1>7. d.Message_Block = b /\ d.index = end /\ d.length = c.length /\ d.blocks = c.blocks
  BY <1>5 DEF Wide
<1>8. Accept!Zeros(c, end) = d
  <2>1. Accept!Zeros(c, end) =
          [c EXCEPT !.Message_Block = [k \in DOMAIN c.Message_Block |->
                                         IF k \in c.index..end - 1 THEN 0 ELSE c.Message_Block[k]],
                    !.index = end]
    BY Zenon DEF Accept!Zeros
  <2> QED
    BY Zenon, <1>1, <1>2, <1>3, <1>5, <2>1
<1>9. \A k \in 0..63 : b[k] = IF k \in x..end - 1 THEN 0 ELSE c.Message_Block[k]
  BY <1>3
<1> QED
  BY <1>2, <1>6, <1>7, <1>8, <1>9 DEF Zeroed

(* The lengths that fit Length_Low. *)
Lengths == {k \in Nat : k < 4294967296}

LEMMA LengthOctets ==
  ASSUME NEW length \in Lengths
  PROVE  LET o(k) == Accept!LengthOctet(length, k) IN
         /\ \A k \in 56..59 : o(k) = 0
         /\ \A k \in 56..63 : o(k) \in Int
         /\ ((o(60) * 256 + o(61)) * 256 + o(62)) * 256 + o(63) = length
<1>1. /\ Accept!LengthOctet(length, 63) = length % 256
      /\ Accept!LengthOctet(length, 62) = (length \div 256) % 256
      /\ Accept!LengthOctet(length, 61) = (length \div 65536) % 256
      /\ Accept!LengthOctet(length, 60) = (length \div 16777216) % 256
  BY SMT DEF Accept!LengthOctet, Lengths
<1>2. \A k \in 56..59 : Accept!LengthOctet(length, k) = 0
  BY SMT DEF Accept!LengthOctet, Lengths
<1>3. \A x \in Nat : \E y \in Nat, p \in 0..255 : x = 256 * y + p
  <2> TAKE x \in Nat
  <2>1. x \div 256 \in Nat /\ x % 256 \in 0..255 /\ x = 256 * (x \div 256) + (x % 256)
    BY SMT
  <2> QED
    BY <2>1
<1>4. PICK y1 \in Nat, p3 \in 0..255 : length = 256 * y1 + p3
  <2>1. length \in Nat
    BY SMT DEF Lengths
  <2> QED
    BY <1>3, <2>1
<1>5. PICK y2 \in Nat, p2 \in 0..255 : y1 = 256 * y2 + p2
  BY <1>3
<1>6. PICK y3 \in Nat, p1 \in 0..255 : y2 = 256 * y3 + p1
  BY <1>3
<1>7. y3 \in 0..255
  BY SMT, <1>4, <1>5, <1>6 DEF Lengths
<1>8. length \in Nat /\ length \div 256 = y1 /\ length \div 65536 = y2 /\ length \div 16777216 = y3
  BY SMT, <1>4, <1>5, <1>6 DEF Lengths
<1>9. length % 256 = p3 /\ y1 % 256 = p2 /\ y2 % 256 = p1 /\ y3 % 256 = y3
  BY SMT, <1>4, <1>5, <1>6, <1>7
<1>10. /\ Accept!LengthOctet(length, 63) = p3 /\ Accept!LengthOctet(length, 62) = p2
       /\ Accept!LengthOctet(length, 61) = p1 /\ Accept!LengthOctet(length, 60) = y3
  BY SMT, <1>1, <1>8, <1>9
<1>11. ((y3 * 256 + p1) * 256 + p2) * 256 + p3 = length
  BY SMT, <1>4, <1>5, <1>6
<1>12. \A k \in 56..63 : k \in 56..59 \/ k = 60 \/ k = 61 \/ k = 62 \/ k = 63
  OBVIOUS
<1>13. \A k \in 56..63 : Accept!LengthOctet(length, k) \in Int
  <2>1. p1 \in Int /\ p2 \in Int /\ p3 \in Int /\ y3 \in Int /\ 0 \in Int
    OBVIOUS
  <2> QED
    BY <1>2, <1>10, <1>12, <2>1
<1> QED
  BY <1>2, <1>10, <1>11, <1>13

(* The number in the last octets of a block. *)
Number(b) == ((b[60] * 256 + b[61]) * 256 + b[62]) * 256 + b[63]

(* What is hashed of a message that is in the context: its blocks and one  *)
(* or two more.                                                            *)
PaddedAs(blocks, rest, m, r, length, P) ==
  LET last == P[Len(P)] IN
  /\ P \in Seq(Block)
  /\ Len(P) = IF r <= 55 THEN m + 1 ELSE m + 2
  /\ \A q \in 1..m : P[q] = blocks[q]
  /\ \A k \in 0..r - 1 : P[m + 1][k] = rest[k]
  /\ P[m + 1][r] = 128
  /\ \A k \in r + 1..63 : k <= 59 \/ r > 55 => P[m + 1][k] = 0
  /\ r > 55 => \A k \in 0..59 : P[m + 2][k] = 0
  /\ Number(last) = length
Padded(c, P) == PaddedAs(c.blocks, c.Message_Block, Len(c.blocks), c.index, c.length, P)

(* The length takes the last octets of a block. *)
Lengthened(c, length) ==
  Accept!SHA1ProcessMessageBlock(
    [c EXCEPT !.Message_Block = [k \in DOMAIN @ |->
       IF k >= 56 THEN Accept!LengthOctet(length, k) ELSE @[k]]])
Ends(c, length, P) ==
  \E b \in Block :
    /\ P = Append(c.blocks, b)
    /\ \A k \in 0..55 : b[k] = c.Message_Block[k]
    /\ \A k \in 56..59 : b[k] = 0
    /\ Number(b) = length

LEMMA LengthIsPut ==
  ASSUME NEW c \in Wide, NEW length \in Lengths
  PROVE  Ends(c, length, Lengthened(c, length).blocks)
<1>1. c.Message_Block \in Block /\ DOMAIN c.Message_Block = 0..63
  BY DEF Wide, Block
<1>2. PICK b : b = [k \in 0..63 |-> IF k >= 56 THEN Accept!LengthOctet(length, k)
                                     ELSE c.Message_Block[k]]
  OBVIOUS
<1>3. b \in Block
  <2>1. \A k \in 0..63 : k >= 56 => k \in 56..63
    OBVIOUS
  <2>2. \A k \in 0..63 : (IF k >= 56 THEN Accept!LengthOctet(length, k)
                            ELSE c.Message_Block[k]) \in Int
    BY <1>1, <2>1, LengthOctets DEF Block
  <2> QED
    BY <1>2, <2>2 DEF Block
<1>4. PICK e : e = [c EXCEPT !.Message_Block = b]
  OBVIOUS
<1>5. e \in Wide
  BY <1>3, <1>4 DEF Wide
<1>6. e.Message_Block = b /\ e.blocks = c.blocks
  BY <1>4 DEF Wide
<1>7. e = [c EXCEPT !.Message_Block = [k \in DOMAIN @ |->
             IF k >= 56 THEN Accept!LengthOctet(length, k) ELSE @[k]]]
  BY Zenon, <1>1, <1>2, <1>4
<1>8. Accept!SHA1ProcessMessageBlock(e).blocks = Append(c.blocks, b)
  BY <1>5, <1>6, ProcessIs
<1>9. \A k \in 0..55 : b[k] = c.Message_Block[k]
  BY <1>2
<1>10. \A k \in 56..63 : b[k] = Accept!LengthOctet(length, k)
  BY <1>2
<1>11. \A k \in 56..59 : b[k] = 0
  <2>1. \A k \in 56..59 : k \in 56..63
    OBVIOUS
  <2> QED
    BY <1>10, <2>1, LengthOctets
<1>12. Number(b) = length
  <2>1. 60 \in 56..63 /\ 61 \in 56..63 /\ 62 \in 56..63 /\ 63 \in 56..63
    OBVIOUS
  <2>2. /\ b[60] = Accept!LengthOctet(length, 60) /\ b[61] = Accept!LengthOctet(length, 61)
        /\ b[62] = Accept!LengthOctet(length, 62) /\ b[63] = Accept!LengthOctet(length, 63)
    BY <1>10, <2>1
  <2>3. ((Accept!LengthOctet(length, 60) * 256 + Accept!LengthOctet(length, 61)) * 256
          + Accept!LengthOctet(length, 62)) * 256 + Accept!LengthOctet(length, 63) = length
    BY LengthOctets
  <2> QED
    BY ZenonT(40), <2>2, <2>3 DEF Number
<1>13. Lengthened(c, length) = Accept!SHA1ProcessMessageBlock(e)
  BY Zenon, <1>7 DEF Lengthened
<1> QED
  BY Zenon, <1>3, <1>8, <1>9, <1>11, <1>12, <1>13 DEF Ends

LEMMA AppendIs ==
  ASSUME NEW S, NEW s \in Seq(S), NEW x \in S
  PROVE  LET t == Append(s, x) IN
         /\ t \in Seq(S) /\ Len(t) = Len(s) + 1 /\ t[Len(s) + 1] = x
         /\ \A q \in 1..Len(s) : t[q] = s[q]
OBVIOUS

LEMMA PadIs ==
  ASSUME NEW c \in Context, c.length \in Lengths
  PROVE  Padded(c, Accept!SHA1PadMessage(c).blocks)
<1>1. PICK r \in 0..63 : r = c.index
  BY DEF Context
<1>2. PICK m \in Nat : m = Len(c.blocks)
  BY DEF Context
<1>3. c \in Wide /\ c.index \in 0..63 /\ c.length \in Nat /\ c.blocks \in Seq(Block)
  <2>1. \A x \in 0..63 : x \in 0..64
    OBVIOUS
  <2> QED
    BY <2>1 DEF Wide, Context
<1>4. PICK marked \in Wide : marked = Accept!Store(c, 128)
  <2>1. 128 \in Int
    OBVIOUS
  <2> QED
    BY <1>3, <2>1, StoreIs
<1>5. /\ marked.Message_Block = [c.Message_Block EXCEPT ![r] = 128]
      /\ marked.index = r + 1 /\ marked.blocks = c.blocks
  <2>1. 128 \in Int
    OBVIOUS
  <2> QED
    BY <1>1, <1>3, <1>4, <2>1, StoreIs
<1>6. /\ marked.Message_Block[r] = 128
      /\ \A k \in 0..63 : k # r => marked.Message_Block[k] = c.Message_Block[k]
  <2>1. DOMAIN c.Message_Block = 0..63
    BY DEF Context, Block
  <2> QED
    BY <1>5, <2>1
<1>7. PICK P : P = Accept!SHA1PadMessage(c).blocks
  OBVIOUS
<1>8. CASE r <= 55
  <2>1. PICK ready : ready = Accept!Zeros(marked, 56)
    OBVIOUS
  <2>2. Zeroed(marked, 56, ready)
    <3>1. 56 \in 0..64
      OBVIOUS
    <3> QED
      BY <2>1, <3>1, ZerosIs
  <2>a. 56 - 1 = 55
    OBVIOUS
  <2>b. /\ ready \in Wide /\ ready.blocks = c.blocks
        /\ \A k \in 0..63 : ready.Message_Block[k] = IF k \in r + 1..55 THEN 0
                                                       ELSE marked.Message_Block[k]
    BY Zenon, <1>5, <2>2, <2>a DEF Zeroed
  <2>3. P = Lengthened(ready, c.length).blocks
    <3>1. ~(r > 56 - 1)
      BY <1>8
    <3> QED
      BY ZenonT(40), <1>1, <1>4, <1>7, <2>1, <3>1
         DEF Accept!SHA1PadMessage, Accept!Full, Accept!LengthAt, Lengthened
  <2>4. PICK b \in Block :
          /\ P = Append(c.blocks, b)
          /\ \A k \in 0..55 : b[k] = ready.Message_Block[k]
          /\ \A k \in 56..59 : b[k] = 0
          /\ Number(b) = c.length
    <3>1. Ends(ready, c.length, P)
      BY <2>3, <2>b, LengthIsPut
    <3>2. PICK b \in Block :
            /\ P = Append(ready.blocks, b)
            /\ \A k \in 0..55 : b[k] = ready.Message_Block[k]
            /\ \A k \in 56..59 : b[k] = 0
            /\ Number(b) = c.length
      BY Zenon, <3>1 DEF Ends
    <3>3. P = Append(c.blocks, b)
      BY Zenon, <2>b, <3>2
    <3> QED
      BY Zenon, <3>2, <3>3
  <2>5. /\ P \in Seq(Block) /\ Len(P) = m + 1 /\ P[m + 1] = b
        /\ \A q \in 1..m : P[q] = c.blocks[q]
    <3>1. PICK s \in Seq(Block) : s = c.blocks
      BY <1>3
    <3>2. P = Append(s, b) /\ Len(s) = m
      BY <1>2, <2>4, <3>1
    <3> QED
      BY <3>1, <3>2, AppendIs
  <2>6. \A k \in 0..r - 1 : b[k] = c.Message_Block[k]
    <3> SUFFICES ASSUME NEW k \in 0..r - 1
                 PROVE  b[k] = c.Message_Block[k]
      OBVIOUS
    <3>1. k \in 0..55 /\ k \in 0..63 /\ k \notin r + 1..55 /\ k # r
      BY <1>8
    <3>2. b[k] = ready.Message_Block[k]
      BY <2>4, <3>1
    <3>3. ready.Message_Block[k] = marked.Message_Block[k]
      BY Zenon, <2>b, <3>1
    <3>4. marked.Message_Block[k] = c.Message_Block[k]
      BY <1>6, <3>1
    <3> QED
      BY <3>2, <3>3, <3>4
  <2>7. b[r] = 128
    <3>1. r \in 0..55 /\ r \in 0..63 /\ r \notin r + 1..55
      BY <1>8
    <3>2. b[r] = ready.Message_Block[r]
      BY <2>4, <3>1
    <3>3. ready.Message_Block[r] = marked.Message_Block[r]
      BY Zenon, <2>b, <3>1
    <3> QED
      BY <1>6, <3>2, <3>3
  <2>8. \A k \in r + 1..63 : k <= 59 \/ r > 55 => b[k] = 0
    <3> SUFFICES ASSUME NEW k \in r + 1..63, k <= 59
                 PROVE  b[k] = 0
      BY <1>8
    <3>1. CASE k <= 55
      <4>1. k \in 0..55 /\ k \in 0..63 /\ k \in r + 1..55
        BY <3>1
      <4> QED
        BY ZenonT(40), <2>b, <2>4, <4>1
    <3>2. CASE ~(k <= 55)
      <4>1. k \in 56..59
        BY <3>2
      <4> QED
        BY <2>4, <4>1
    <3> QED
      BY <3>1, <3>2
  <2>9. ~(r > 55)
    BY <1>8
  <2> QED
    <3>1. Len(P) = (IF r <= 55 THEN m + 1 ELSE m + 2) /\ P[Len(P)] = b
      BY <1>8, <2>5
    <3>2. PICK blocks, rest, length :
            blocks = c.blocks /\ rest = c.Message_Block /\ length = c.length
      OBVIOUS
    <3>3. PaddedAs(blocks, rest, m, r, length, P)
      <4>1. \A k \in 0..r - 1 : P[m + 1][k] = rest[k]
        BY Zenon, <2>5, <2>6, <3>2
      <4>2. P[m + 1][r] = 128 /\ \A k \in r + 1..63 : k <= 59 \/ r > 55 => P[m + 1][k] = 0
        BY Zenon, <2>5, <2>7, <2>8
      <4>3. r > 55 => \A k \in 0..59 : P[m + 2][k] = 0
        BY Zenon, <2>9
      <4>4. Number(P[Len(P)]) = length
        BY Zenon, <2>4, <3>1, <3>2
      <4>5. \A q \in 1..m : P[q] = blocks[q]
        BY Zenon, <2>5, <3>2
      <4> QED
        BY Zenon, <2>5, <3>1, <4>1, <4>2, <4>3, <4>4, <4>5 DEF PaddedAs
    <3> QED
      BY Zenon, <1>1, <1>2, <1>7, <3>2, <3>3 DEF Padded
<1>9. CASE ~(r <= 55)
  <2>1. PICK full : full = Accept!Zeros(marked, 64)
    OBVIOUS
  <2>a. Zeroed(marked, 64, full)
    <3>1. 64 \in 0..64
      OBVIOUS
    <3> QED
      BY <2>1, <3>1, ZerosIs
  <2>b. 64 - 1 = 63
    OBVIOUS
  <2>2. /\ full \in Wide /\ full.blocks = c.blocks
        /\ \A k \in 0..63 : full.Message_Block[k] = IF k \in r + 1..63 THEN 0
                                                      ELSE marked.Message_Block[k]
    BY Zenon, <1>5, <2>a, <2>b DEF Zeroed
  <2>3. PICK next \in Context : next = Accept!SHA1ProcessMessageBlock(full)
    BY <2>2, ProcessIs
  <2>4. next.index = 0 /\ next.blocks = Append(c.blocks, full.Message_Block) /\ next \in Wide
    <3>1. next.index = 0 /\ next.blocks = Append(c.blocks, full.Message_Block)
      BY <2>2, <2>3, ProcessIs
    <3>2. \A x \in 0..63 : x \in 0..64
      OBVIOUS
    <3>3. next \in Wide
      BY <3>2 DEF Wide, Context
    <3> QED
      BY <3>1, <3>3
  <2>5. PICK ready : ready = Accept!Zeros(next, 56)
    OBVIOUS
  <2>c. Zeroed(next, 56, ready)
    <3>1. 56 \in 0..64
      OBVIOUS
    <3> QED
      BY <2>4, <2>5, <3>1, ZerosIs
  <2>6. /\ ready \in Wide /\ ready.blocks = next.blocks
        /\ \A k \in 0..55 : ready.Message_Block[k] = 0
    <3>1. 56 - 1 = 55 /\ \A k \in 0..55 : k \in 0..63
      OBVIOUS
    <3> QED
      BY Zenon, <2>4, <2>c, <3>1 DEF Zeroed
  <2>7. P = Lengthened(ready, c.length).blocks
    <3>1. r > 56 - 1
      BY <1>9
    <3>2. Accept!Full(c)
      BY Zenon, <1>1, <3>1 DEF Accept!Full, Accept!LengthAt
    <3>3. ready = Accept!Zeros(Accept!SHA1ProcessMessageBlock(
                                 Accept!Zeros(marked, Accept!BlockSize)), Accept!LengthAt)
      BY Zenon, <2>1, <2>3, <2>5 DEF Accept!LengthAt, Accept!BlockSize
    <3> QED
      BY ZenonT(40), <1>4, <1>7, <3>2, <3>3 DEF Accept!SHA1PadMessage, Accept!LengthAt, Lengthened
  <2>8. PICK b \in Block :
          /\ P = Append(next.blocks, b)
          /\ \A k \in 0..55 : b[k] = ready.Message_Block[k]
          /\ \A k \in 56..59 : b[k] = 0
          /\ Number(b) = c.length
    <3>1. Ends(ready, c.length, P)
      BY <2>6, <2>7, LengthIsPut
    <3> QED
      BY Zenon, <2>6, <3>1 DEF Ends
  <2>9. PICK a \in Block : a = full.Message_Block
    BY <2>2 DEF Wide
  <2>10. /\ P \in Seq(Block) /\ Len(P) = m + 2 /\ P[m + 1] = a /\ P[m + 2] = b
         /\ \A q \in 1..m : P[q] = c.blocks[q]
    <3>1. PICK s \in Seq(Block) : s = Append(c.blocks, a)
      BY <1>3, AppendIs
    <3>2. Len(s) = m + 1 /\ s[m + 1] = a /\ \A q \in 1..m : s[q] = c.blocks[q]
      BY <1>2, <1>3, <3>1, AppendIs
    <3>3. P = Append(s, b)
      BY <2>4, <2>8, <2>9, <3>1
    <3>4. /\ P \in Seq(Block) /\ Len(P) = m + 2 /\ P[m + 2] = b
          /\ \A q \in 1..m + 1 : P[q] = s[q]
      <4>1. (m + 1) + 1 = m + 2
        OBVIOUS
      <4> QED
        BY <3>2, <3>3, <4>1, AppendIs
    <3>5. m + 1 \in 1..m + 1 /\ \A q \in 1..m : q \in 1..m + 1
      OBVIOUS
    <3> QED
      BY <3>2, <3>4, <3>5
  <2>11. \A k \in 0..r - 1 : a[k] = c.Message_Block[k]
    <3>1. \A k \in 0..r - 1 : k \in 0..63 /\ k \notin r + 1..63 /\ k # r
      OBVIOUS
    <3> QED
      BY <1>6, <2>2, <2>9, <3>1
  <2>12. a[r] = 128
    <3>1. r \notin r + 1..63
      OBVIOUS
    <3> QED
      BY <1>6, <2>2, <2>9, <3>1
  <2>13. \A k \in r + 1..63 : a[k] = 0
    <3>1. \A k \in r + 1..63 : k \in 0..63
      OBVIOUS
    <3> QED
      BY <2>2, <2>9, <3>1
  <2>14. \A k \in 0..59 : b[k] = 0
    <3>1. \A k \in 0..59 : k \in 0..55 \/ k \in 56..59
      OBVIOUS
    <3> QED
      BY <2>6, <2>8, <3>1
  <2> QED
    <3>1. Len(P) = (IF r <= 55 THEN m + 1 ELSE m + 2) /\ P[Len(P)] = b
      BY <1>9, <2>10
    <3>2. PICK blocks, rest, length :
            blocks = c.blocks /\ rest = c.Message_Block /\ length = c.length
      OBVIOUS
    <3>3. PaddedAs(blocks, rest, m, r, length, P)
      <4>1. \A k \in 0..r - 1 : P[m + 1][k] = rest[k]
        BY Zenon, <2>10, <2>11, <3>2
      <4>2. P[m + 1][r] = 128 /\ \A k \in r + 1..63 : k <= 59 \/ r > 55 => P[m + 1][k] = 0
        BY Zenon, <2>10, <2>12, <2>13
      <4>3. r > 55 => \A k \in 0..59 : P[m + 2][k] = 0
        BY Zenon, <2>10, <2>14
      <4>4. Number(P[Len(P)]) = length
        BY Zenon, <2>8, <3>1, <3>2
      <4>5. \A q \in 1..m : P[q] = blocks[q]
        BY Zenon, <2>10, <3>2
      <4> QED
        BY Zenon, <2>10, <3>1, <4>1, <4>2, <4>3, <4>4, <4>5 DEF PaddedAs
    <3> QED
      BY Zenon, <1>1, <1>2, <1>7, <3>2, <3>3 DEF Padded
<1> QED
  BY <1>8, <1>9

(* The octets of all blocks, one after the other. *)
AllOctets(P) == [k \in 1..64 * Len(P) |-> P[(k - 1) \div 64 + 1][(k - 1) % 64]]

LEMMA OctetsOf ==
  ASSUME NEW P \in Seq(Block)
  PROVE  /\ Len(AllOctets(P)) = 64 * Len(P)
         /\ \A q \in 1..Len(P), x \in 0..63 :
              AllOctets(P)[64 * (q - 1) + x + 1] = P[q][x]
         /\ \A k \in 1..64 * Len(P) : \E q \in 1..Len(P), x \in 0..63 : k = 64 * (q - 1) + x + 1
<1>1. PICK n \in Nat : n = Len(P)
  OBVIOUS
<1>2. AllOctets(P) = [k \in 1..64 * n |-> P[(k - 1) \div 64 + 1][(k - 1) % 64]]
  BY <1>1 DEF AllOctets
<1>3. Len(AllOctets(P)) = 64 * n
  <2>1. 64 * n \in Nat
    OBVIOUS
  <2> QED
    BY <1>2, <2>1
<1>4. ASSUME NEW q \in 1..n, NEW x \in 0..63
      PROVE  AllOctets(P)[64 * (q - 1) + x + 1] = P[q][x]
  <2>1. PICK k : k = 64 * (q - 1) + x + 1
    OBVIOUS
  <2>2. k \in 1..64 * n /\ (k - 1) \div 64 + 1 = q /\ (k - 1) % 64 = x
    BY <2>1
  <2>3. AllOctets(P)[k] = P[q][x]
    BY Zenon, <1>2, <2>2
  <2> QED
    BY <2>1, <2>3
<1>5. ASSUME NEW k \in 1..64 * n
      PROVE  \E q \in 1..n, x \in 0..63 : k = 64 * (q - 1) + x + 1
  <2>1. PICK q, x : q = (k - 1) \div 64 + 1 /\ x = (k - 1) % 64
    OBVIOUS
  <2>2. q \in 1..n /\ x \in 0..63 /\ k = 64 * (q - 1) + x + 1
    BY <2>1
  <2> QED
    BY <2>2
<1> QED
  BY <1>1, <1>3, <1>4, <1>5

IsPadded(all, octets) ==
  LET n == Len(octets)
      last == Len(all)
  IN  /\ last - 64 < n + 9 /\ n + 9 <= last
      /\ SubSeq(all, 1, n) = octets
      /\ all[n + 1] = 128
      /\ \A k \in n + 2..last - 4 : all[k] = 0
      /\ ((all[last - 3] * 256 + all[last - 2]) * 256 + all[last - 1]) * 256 + all[last] = 8 * n

LEMMA MessagePadded ==
  ASSUME NEW octets \in Seq(Int), 8 * Len(octets) \in Lengths, NEW left \in Block
  PROVE  IsPadded(AllOctets(Accept!Digest(octets, left)), octets)
<1>1. PICK n \in Nat : n = Len(octets)
  OBVIOUS
<1>2. PICK c : c = Accept!SHA1Input(Accept!SHA1Reset(left), octets)
  OBVIOUS
<1>3. Holds(c, octets, n)
  BY <1>1, <1>2, InputHolds
<1>4. PICK P : P = Accept!Digest(octets, left)
  OBVIOUS
<1>5. P = Accept!SHA1PadMessage(c).blocks
  BY Zenon, <1>2, <1>4 DEF Accept!Digest
<1>6. c \in Context /\ c.length = 8 * n
  BY <1>3 DEF Holds
<1>7. Padded(c, P)
  BY <1>1, <1>5, <1>6, PadIs
<1>8. PICK r \in 0..63 : r = c.index
  BY <1>6 DEF Context
<1>9. PICK m \in Nat : m = Len(c.blocks)
  BY <1>6 DEF Context
<1>10. PaddedAs(c.blocks, c.Message_Block, m, r, 8 * n, P)
  BY Zenon, <1>6, <1>7, <1>8, <1>9 DEF Padded
<1>11. PICK p \in Nat : p = Len(P) /\ p = IF r <= 55 THEN m + 1 ELSE m + 2
  BY <1>10 DEF PaddedAs
<1>12. P \in Seq(Block)
  BY <1>10 DEF PaddedAs
<1>13. n = 64 * m + r
  BY <1>3, <1>8, <1>9 DEF Holds
<1>14. PICK all : all = AllOctets(P)
  OBVIOUS
<1>15. /\ Len(all) = 64 * p
       /\ \A q \in 1..p, x \in 0..63 : all[64 * (q - 1) + x + 1] = P[q][x]
       /\ \A k \in 1..64 * p : \E q \in 1..p, x \in 0..63 : k = 64 * (q - 1) + x + 1
  <2>1. /\ Len(AllOctets(P)) = 64 * Len(P)
        /\ \A q \in 1..Len(P), x \in 0..63 :
             AllOctets(P)[64 * (q - 1) + x + 1] = P[q][x]
        /\ \A k \in 1..64 * Len(P) : \E q \in 1..Len(P), x \in 0..63 : k = 64 * (q - 1) + x + 1
    BY SMTT(20), <1>12, OctetsOf
  <2>2. p = Len(P)
    BY <1>11
  <2> QED
    BY Zenon, <1>14, <2>1, <2>2
<1>16. 64 * p - 64 < n + 9 /\ n + 9 <= 64 * p
  BY <1>11, <1>13
<1>17. ASSUME NEW k \in 1..n
       PROVE  all[k] = octets[k]
  <2>1. k \in 1..64 * p
    BY <1>16
  <2>2. PICK q \in 1..p, x \in 0..63 : k = 64 * (q - 1) + x + 1
    BY <1>15, <2>1
  <2>3. all[k] = P[q][x]
    BY <1>15, <2>2
  <2>4. CASE q <= m
    <3>1. q \in 1..m
      BY <2>4
    <3>2. P[q] = c.blocks[q]
      BY <1>10, <3>1 DEF PaddedAs
    <3>3. c.blocks[q][x] = octets[64 * (q - 1) + x + 1]
      BY <1>3, <1>9, <3>1 DEF Holds
    <3> QED
      BY <2>2, <2>3, <3>2, <3>3
  <2>5. CASE ~(q <= m)
    <3>1. q = m + 1 /\ x \in 0..r - 1 /\ 64 * (q - 1) = 64 * m
      BY <1>13, <2>2, <2>5
    <3>2. P[m + 1][x] = c.Message_Block[x]
      BY <1>10, <3>1 DEF PaddedAs
    <3>3. c.Message_Block[x] = octets[64 * m + x + 1]
      BY <1>3, <1>8, <1>9, <3>1 DEF Holds
    <3> QED
      BY <2>2, <2>3, <3>1, <3>2, <3>3
  <2> QED
    BY <2>4, <2>5
<1>18. SubSeq(all, 1, n) = octets
  <2>1. SubSeq(all, 1, n) = [k \in 1..n |-> all[k]]
    <3>1. ASSUME NEW s, NEW l \in Nat
          PROVE  SubSeq(s, 1, l) = [k \in 1..l |-> s[k]]
      BY DEF SubSeq
    <3> QED
      BY <3>1
  <2>2. octets = [k \in 1..n |-> octets[k]]
    BY <1>1
  <2>3. [k \in 1..n |-> all[k]] = [k \in 1..n |-> octets[k]]
    BY <1>17
  <2> QED
    BY <2>1, <2>2, <2>3
<1>19. m + 1 \in 1..p /\ p \in 1..p
  BY <1>11
<1>20. all[n + 1] = 128
  <2>1. all[64 * ((m + 1) - 1) + r + 1] = P[m + 1][r]
    BY <1>15, <1>19
  <2>2. 64 * ((m + 1) - 1) + r + 1 = n + 1
    BY <1>13
  <2> QED
    BY <1>10, <2>1, <2>2 DEF PaddedAs
<1>21. ASSUME NEW k \in n + 2..64 * p - 4
       PROVE  all[k] = 0
  <2>1. k \in 1..64 * p
    OBVIOUS
  <2>2. PICK q \in 1..p, x \in 0..63 : k = 64 * (q - 1) + x + 1
    BY <1>15, <2>1
  <2>3. all[k] = P[q][x]
    BY <1>15, <2>2
  <2>4. q = m + 1 \/ (r > 55 /\ q = m + 2)
    BY <1>11, <1>13, <2>2
  <2>5. CASE q = m + 1
    <3>1. x \in r + 1..63 /\ (x <= 59 \/ r > 55)
      BY <1>11, <1>13, <2>2, <2>5
    <3> QED
      BY <1>10, <2>3, <2>5, <3>1 DEF PaddedAs
  <2>6. CASE r > 55 /\ q = m + 2
    <3>1. x \in 0..59
      BY <1>11, <2>2, <2>6
    <3> QED
      BY <1>10, <2>3, <2>6, <3>1 DEF PaddedAs
  <2> QED
    BY <2>4, <2>5, <2>6
<1>22. ((all[64 * p - 3] * 256 + all[64 * p - 2]) * 256 + all[64 * p - 1]) * 256 + all[64 * p] = 8 * n
  <2>1. \A x \in 0..63 : all[64 * (p - 1) + x + 1] = P[p][x]
    BY <1>15, <1>19
  <2>2. /\ all[64 * (p - 1) + 60 + 1] = P[p][60] /\ all[64 * (p - 1) + 61 + 1] = P[p][61]
        /\ all[64 * (p - 1) + 62 + 1] = P[p][62] /\ all[64 * (p - 1) + 63 + 1] = P[p][63]
    BY <2>1
  <2>3. /\ 64 * (p - 1) + 60 + 1 = 64 * p - 3 /\ 64 * (p - 1) + 61 + 1 = 64 * p - 2
        /\ 64 * (p - 1) + 62 + 1 = 64 * p - 1 /\ 64 * (p - 1) + 63 + 1 = 64 * p
    OBVIOUS
  <2>4. /\ all[64 * p - 3] = P[p][60] /\ all[64 * p - 2] = P[p][61]
        /\ all[64 * p - 1] = P[p][62] /\ all[64 * p] = P[p][63]
    BY Zenon, <2>2, <2>3
  <2>5. Number(P[p]) = 8 * n
    BY Zenon, <1>10, <1>11 DEF PaddedAs
  <2>6. PICK a, b, d, e : a = P[p][60] /\ b = P[p][61] /\ d = P[p][62] /\ e = P[p][63]
    OBVIOUS
  <2>7. ((a * 256 + b) * 256 + d) * 256 + e = 8 * n
    BY Zenon, <2>5, <2>6 DEF Number
  <2> QED
    BY SMT, <2>4, <2>6, <2>7
<1> QED
  <2>1. PICK last : last = 64 * p
    OBVIOUS
  <2>2. Len(all) = last
    BY <1>15, <2>1
  <2>3. IsPadded(all, octets)
    <3>1. last - 64 < n + 9 /\ n + 9 <= last
      BY <1>16, <2>1
    <3>2. \A k \in n + 2..last - 4 : all[k] = 0
      BY Zenon, <1>21, <2>1
    <3>3. ((all[last - 3] * 256 + all[last - 2]) * 256 + all[last - 1]) * 256 + all[last] = 8 * n
      BY <1>22, <2>1
    <3> QED
      BY Zenon, <1>1, <1>18, <1>20, <2>2, <3>1, <3>2, <3>3 DEF IsPadded
  <2> QED
    BY Zenon, <1>4, <1>14, <2>3

(* A message that is hashed fits the count of its bits, and the blocks are *)
(* what Digest makes of it.                                                *)
Hashed ==
  job.kind = "digest" =>
    /\ job.octets \in Seq(Int) /\ 8 * Len(job.octets) \in Lengths /\ job.left \in Block
    /\ out.ended = "done" => out.blocks = Accept!Digest(job.octets, job.left)

LEMMA HashedInit == Init => Hashed
<1> SUFFICES ASSUME Init
             PROVE  Hashed
  OBVIOUS
<1>1. CASE StartDigest
  <2>1. PICK n \in 0..MaxMessage, octet \in {0, 165} :
          /\ job = [kind |-> "digest", octets |-> [i \in 1..n |-> -i],
                    left |-> [k \in 0..63 |-> octet]]
          /\ out = [blocks |-> <<>>, ended |-> "no"]
    BY <1>1 DEF StartDigest
  <2>2. PICK octets : octets = [i \in 1..n |-> -i]
    OBVIOUS
  <2>3. MaxMessage \in Nat
    BY BoundsAssumption
  <2>4. n \in Nat /\ 8 * n \in Lengths
    <3>1. MaxMessage < 536870912
      BY SMT, MessageAssumption
    <3> QED
      BY SMT, <2>3, <3>1 DEF Lengths
  <2>5. octets \in Seq(Int) /\ Len(octets) = n
    <3>1. \A i \in 1..n : -i \in Int
      OBVIOUS
    <3>2. octets \in [1..n -> Int]
      BY <2>2, <3>1
    <3> QED
      BY <2>4, <3>2
  <2>6. [k \in 0..63 |-> octet] \in Block
    BY DEF Block
  <2> QED
    BY <2>1, <2>2, <2>4, <2>5, <2>6 DEF Hashed
<1>2. CASE StartEvent \/ StartConfig \/ StartBase64 \/ StartConcat
  <2>1. job.kind # "digest"
    <3>1. CASE StartEvent
      <4>1. PICK event, failing, size :
              job = [kind |-> "json", event |-> event, failing |-> failing, size |-> size]
        BY <3>1, Zenon DEF StartEvent
      <4> QED
        BY <4>1
    <3>2. CASE StartConfig
      <4>1. PICK text, asserts : job = [kind |-> "config", text |-> text, asserts |-> asserts]
        BY <3>2, Zenon DEF StartConfig
      <4> QED
        BY <4>1
    <3>3. CASE StartBase64
      BY <3>3 DEF StartBase64
    <3>4. CASE StartConcat
      BY <3>4 DEF StartConcat
    <3> QED
      BY <1>2, <3>1, <3>2, <3>3, <3>4
  <2> QED
    BY <2>1 DEF Hashed
<1> QED
  BY <1>1, <1>2 DEF Init

LEMMA HashedStep == Hashed /\ [Next]_vars => Hashed'
<1> SUFFICES ASSUME Hashed, [Next]_vars
             PROVE  Hashed'
  OBVIOUS
<1>1. CASE ComputeDigest
  <2>1. out' = [blocks |-> Accept!Digest(job.octets, job.left), ended |-> "done"] /\ job' = job
    BY <1>1 DEF ComputeDigest
  <2> QED
    BY <2>1 DEF Hashed
<1>2. CASE EncodeEvent \/ ReadConfig \/ EncodeBase64 \/ ReplacePlaceholder
  <2>1. job' = job /\ job.kind # "digest"
    BY <1>2 DEF EncodeEvent, ReadConfig, EncodeBase64, ReplacePlaceholder
  <2> QED
    BY <2>1 DEF Hashed
<1>3. CASE UNCHANGED vars
  BY <1>3 DEF Hashed, vars
<1> QED
  BY <1>1, <1>2, <1>3 DEF Next

(* The blocks of a message of any length are its octets, the end mark, as  *)
(* few zeros as possible and the length in bits.                           *)
THEOREM BlocksArePaddedHolds == Spec => []BlocksArePadded
<1>1. Hashed => BlocksArePadded
  <2> SUFFICES ASSUME Hashed, job.kind = "digest", out.ended = "done"
               PROVE  IsPadded(AllOctets(out.blocks), job.octets)
    BY Zenon DEF BlocksArePadded, AllOctets, IsPadded
  <2>1. PICK octets \in Seq(Int), left \in Block :
          octets = job.octets /\ left = job.left /\ 8 * Len(octets) \in Lengths
    BY DEF Hashed
  <2>2. out.blocks = Accept!Digest(octets, left)
    BY <2>1 DEF Hashed
  <2> QED
    BY Zenon, <2>1, <2>2, MessagePadded
<1>2. Init => Hashed
  BY HashedInit
<1> QED
  BY <1>1, <1>2, HashedStep, PTL DEF Spec

=============================================================================
