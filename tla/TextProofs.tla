---------------------------- MODULE TextProofs ----------------------------
(***************************************************************************)
(* TLAPS proofs about the texts that Algorithms reads, of any length: the  *)
(* templates of file_concat and configuration texts.                       *)
(***************************************************************************)
EXTENDS Algorithms, TLAPS, WellFoundedInduction, SequenceTheorems

-----------------------------------------------------------------------------
(* Induction                                                                *)

(* A set of naturals that is not empty has a least element, and Min is it. *)
LEMMA MinIsLeast ==
  ASSUME NEW S \in SUBSET Nat, S # {}
  PROVE  Min(S) \in S /\ \A x \in S : Min(S) <= x
<1> DEFINE R == OpToRel(<, Nat)
<1>1. \E x \in S : \A y \in S : ~(<<y, x>> \in R)
  <2> HIDE DEF R
  <2>1. IsWellFoundedOn(R, Nat)
    BY Zenon, NatLessThanWellFounded DEF R
  <2> QED
    BY <2>1, WFMin
<1>2. \A x, y \in Nat : y < x => <<y, x>> \in R
  BY DEF OpToRel
<1>3. \E x \in S : \A y \in S : x <= y
  <2> HIDE DEF R
  <2>1. PICK x \in S : \A y \in S : ~(<<y, x>> \in R)
    BY <1>1
  <2>2. ASSUME NEW y \in S
        PROVE  x <= y
    <3>1. x \in Nat /\ y \in Nat /\ ~(y < x)
      BY <1>2, <2>1
    <3> QED
      BY <3>1
  <2> QED
    BY <2>2
<1> QED
  BY <1>3 DEF Min

(* Induction up to n: G is the set of the numbers a fact holds of. *)
LEMMA UpwardInduction ==
  ASSUME NEW n \in Nat, NEW G, 0 \in G,
         \A i \in 1..n : i - 1 \in G => i \in G
  PROVE  0..n \subseteq G
<1> DEFINE T == {i \in 0..n : i \notin G}
<1>1. SUFFICES ASSUME T # {}
               PROVE  FALSE
  OBVIOUS
<1>2. T \in SUBSET Nat
  OBVIOUS
<1>3. PICK m \in T : \A x \in T : m <= x
  BY <1>1, <1>2, MinIsLeast
<1>4. m \in 1..n /\ m - 1 \in 0..n /\ m - 1 \notin T
  BY <1>3
<1> QED
  BY <1>4

(* What a loop over 1..n computes, as a recursive function: it exists. *)
IsStep(S, n, step) == step \in [1..n -> [S -> S]]
Iterates(S, n, c, step, f) ==
  f \in [0..n -> S] /\ f[0] = c /\ \A i \in 1..n : f[i] = step[i][f[i - 1]]
LEMMA RecursionExists ==
  ASSUME NEW S, NEW n \in Nat, NEW c \in S, NEW step, IsStep(S, n, step)
  PROVE  \E f : Iterates(S, n, c, step, f)
<1> USE DEF IsStep
<1> DEFINE Solves(f, k) == f[0] = c /\ \A i \in 1..k : f[i] = step[i][f[i - 1]]
           G == {k \in 0..n : \E f \in [0..n -> S] : Solves(f, k)}
<1>1. 0 \in G
  <2>1. [i \in 0..n |-> c] \in [0..n -> S] /\ Solves([i \in 0..n |-> c], 0)
    OBVIOUS
  <2>2. \E f \in [0..n -> S] : Solves(f, 0)
    BY <2>1
  <2> QED
    BY <2>2
<1>2. ASSUME NEW k \in 1..n, k - 1 \in G
      PROVE  k \in G
  <2>1. PICK f \in [0..n -> S] : Solves(f, k - 1)
    BY <1>2
  <2> DEFINE h == [f EXCEPT ![k] = step[k][f[k - 1]]]
  <2>2. h \in [0..n -> S] /\ h[k] = step[k][f[k - 1]] /\ \A i \in 0..n : i # k => h[i] = f[i]
    OBVIOUS
  <2> HIDE DEF h
  <2>3. h[0] = c
    BY <2>1, <2>2
  <2>4. ASSUME NEW i \in 1..k
        PROVE  h[i] = step[i][h[i - 1]]
    <3>1. i \in 0..n /\ i - 1 \in 0..n /\ i - 1 # k
      OBVIOUS
    <3>2. h[i - 1] = f[i - 1]
      BY <2>2, <3>1
    <3>3. CASE i = k
      BY <2>2, <3>2, <3>3
    <3>4. CASE i # k
      <4>1. i \in 1..k - 1
        BY <3>4
      <4> QED
        BY <2>1, <2>2, <3>1, <3>2, <3>4, <4>1
    <3> QED
      BY <3>3, <3>4
  <2> QED
    BY <2>2, <2>3, <2>4
<1>3. n \in G
  <2> HIDE DEF G
  <2>1. 0..n \subseteq G
    BY <1>1, <1>2, UpwardInduction
  <2> QED
    BY <2>1
<1> QED
  BY <1>3 DEF Iterates

(* Sequences of up to n elements are sequences. *)
LEMMA UpToAreSequences ==
  ASSUME NEW S, NEW n \in Nat
  PROVE  UpTo(S, n) \subseteq Seq(S)
<1> SUFFICES ASSUME NEW t \in UpTo(S, n)
             PROVE  t \in Seq(S)
  OBVIOUS
<1>1. PICK F \in {[1..k -> S] : k \in 0..n} : t \in F
  BY Zenon DEF UpTo
<1>2. PICK k \in 0..n : t \in [1..k -> S]
  BY <1>1
<1> QED
  BY <1>2

(* Induction from n down, and recursion on the later places. *)
LEMMA DownwardInduction ==
  ASSUME NEW n \in Nat, NEW H,
         \A k \in 1..n : (\A i \in k + 1..n : i \in H) => k \in H
  PROVE  1..n \subseteq H
<1> DEFINE G == {j \in 0..n : \A i \in n + 1 - j..n : i \in H}
<1>1. 0 \in G
  OBVIOUS
<1>2. ASSUME NEW j \in 1..n, j - 1 \in G
      PROVE  j \in G
  <2>1. PICK k \in 1..n : k = n + 1 - j
    OBVIOUS
  <2>2. \A i \in k + 1..n : i \in H
    BY <1>2, <2>1
  <2>3. k \in H
    BY <2>2
  <2>4. \A i \in n + 1 - j..n : i = k \/ i \in k + 1..n
    BY <2>1
  <2> QED
    BY <2>2, <2>3, <2>4
<1>3. n \in G
  <2> HIDE DEF G
  <2>1. 0..n \subseteq G
    BY <1>1, <1>2, UpwardInduction
  <2> QED
    BY <2>1
<1>4. \A i \in 1..n : i \in n + 1 - n..n
  OBVIOUS
<1> QED
  BY <1>3, <1>4

LooksAhead(S, n, step) ==
  /\ step \in [1..n -> [[1..n -> S] -> S]]
  /\ \A k \in 1..n : \A t, u \in [1..n -> S] :
       (\A i \in k + 1..n : t[i] = u[i]) => step[k][t] = step[k][u]
Solved(S, n, step, f) == f \in [1..n -> S] /\ \A k \in 1..n : f[k] = step[k][f]

LEMMA DownwardRecursion ==
  ASSUME NEW S, S # {}, NEW n \in Nat, NEW step, LooksAhead(S, n, step)
  PROVE  \E f : Solved(S, n, step, f)
<1> DEFINE Upto(t, j) == \A k \in n + 1 - j..n : t[k] = step[k][t]
           G == {j \in 0..n : \E t \in [1..n -> S] : Upto(t, j)}
<1>1. 0 \in G
  <2>1. PICK c \in S : TRUE
    OBVIOUS
  <2>2. [k \in 1..n |-> c] \in [1..n -> S]
    OBVIOUS
  <2>3. Upto([k \in 1..n |-> c], 0)
    OBVIOUS
  <2> HIDE DEF Upto
  <2> QED
    BY <2>2, <2>3
<1>2. ASSUME NEW j \in 1..n, j - 1 \in G
      PROVE  j \in G
  <2>1. PICK t \in [1..n -> S] : Upto(t, j - 1)
    BY <1>2
  <2>2. PICK p \in 1..n : p = n + 1 - j
    OBVIOUS
  <2>3. PICK v \in S : v = step[p][t]
    BY DEF LooksAhead
  <2>4. PICK u : u = [t EXCEPT ![p] = v]
    OBVIOUS
  <2>5. u \in [1..n -> S] /\ u[p] = v /\ \A i \in 1..n : i # p => u[i] = t[i]
    BY <2>4
  <2>6. ASSUME NEW k \in p..n
        PROVE  u[k] = step[k][u]
    <3>1. \A i \in k + 1..n : i \in 1..n /\ i # p
      OBVIOUS
    <3>2. \A i \in k + 1..n : t[i] = u[i]
      BY <2>5, <3>1
    <3>3. k \in 1..n
      OBVIOUS
    <3>4. step[k][t] = step[k][u]
      BY <2>5, <3>2, <3>3 DEF LooksAhead
    <3>5. CASE k = p
      BY <2>3, <2>5, <3>4, <3>5
    <3>6. CASE k # p
      <4>1. k \in n + 1 - (j - 1)..n
        BY <2>2, <3>6
      <4>2. t[k] = step[k][t]
        BY <2>1, <4>1
      <4>3. u[k] = t[k]
        BY <2>5, <3>3, <3>6
      <4> QED
        BY <3>4, <4>2, <4>3
    <3> QED
      BY <3>5, <3>6
  <2>7. Upto(u, j)
    BY <2>2, <2>6
  <2> HIDE DEF Upto
  <2> QED
    BY <2>5, <2>7
<1>3. n \in G
  <2> HIDE DEF G
  <2>1. 0..n \subseteq G
    BY <1>1, <1>2, UpwardInduction
  <2> QED
    BY <2>1
<1>4. PICK f \in [1..n -> S] : Upto(f, n)
  BY <1>3
<1>5. \A k \in 1..n : f[k] = step[k][f]
  <2>1. \A k \in 1..n : k \in n + 1 - n..n
    OBVIOUS
  <2> QED
    BY <1>4, <2>1
<1> QED
  BY <1>5 DEF Solved

-----------------------------------------------------------------------------
(* Templates                                                                *)

(* The tokens of templates, and the files a placeholder may name. *)
Piecewise == {"{{", "}}", "p", "q", "x", "u", "v"}
Texts == Seq(Piecewise)
GoodFiles(files) ==
  \A path \in DOMAIN files :
    files[path] \in Texts /\ \A i \in 1..Len(files[path]) : files[path][i] # "{{"

(* What is made of a template from place k on, if t holds it for the later *)
(* places.                                                                 *)
Body(template, files, t, k) ==
  IF k > Len(template) THEN <<>>
  ELSE IF IsPlaceholder(template, files, k)
  THEN files[PathAt(template, k)] \o t[CloseAfter(template, k) + 1]
  ELSE <<template[k]>> \o t[k + 1]

(* The first of some places, or one past the end. *)
FirstOf(s, token, i, n) == Min({e \in i..n : s[e] = token} \cup {n + 1})

LEMMA FirstIs ==
  ASSUME NEW s, NEW token, NEW n \in Nat, NEW i \in 1..n + 1
  PROVE  LET e == FirstOf(s, token, i, n) IN
         /\ e \in i..n + 1
         /\ e <= n => s[e] = token
         /\ \A j \in i..e - 1 : s[j] # token
<1>1. PICK C : C = {e \in i..n : s[e] = token} \cup {n + 1}
  OBVIOUS
<1>2. C \in SUBSET Nat /\ n + 1 \in C
  BY <1>1
<1>3. PICK e : e = FirstOf(s, token, i, n)
  OBVIOUS
<1>4. e \in C /\ \A x \in C : e <= x
  BY <1>1, <1>2, <1>3, MinIsLeast DEF FirstOf
<1>5. e \in i..n + 1
  BY <1>1, <1>4
<1>6. e <= n => s[e] = token
  BY <1>1, <1>4
<1>7. ASSUME NEW j \in i..e - 1
      PROVE  s[j] # token
  <2>1. j \in i..n /\ ~(e <= j)
    BY <1>5
  <2>2. j \notin C
    BY <1>4, <2>1
  <2> QED
    BY <1>1, <2>1, <2>2
<1> QED
  BY <1>3, <1>5, <1>6, <1>7

LEMMA CloseIs ==
  ASSUME NEW template \in Texts, NEW k \in 1..Len(template)
  PROVE  LET n == Len(template)
             e == CloseAfter(template, k)
         IN  /\ e \in k + 1..n + 1
             /\ e <= n => template[e] = "}}"
             /\ \A i \in k + 1..e - 1 : template[i] # "}}"
<1>1. PICK n \in Nat : n = Len(template)
  BY DEF Texts
<1>2. k + 1 \in 1..n + 1
  BY <1>1
<1>3. CloseAfter(template, k) = FirstOf(template, "}}", k + 1, n)
  BY Zenon, <1>1 DEF CloseAfter, FirstOf
<1>4. PICK token : token = "}}"
  BY Zenon
<1>5. LET e == FirstOf(template, token, k + 1, n)
      IN  /\ e \in k + 1..n + 1
          /\ e <= n => template[e] = token
          /\ \A j \in k + 1..e - 1 : template[j] # token
  BY <1>2, FirstIs
<1> QED
  BY Zenon, <1>1, <1>3, <1>4, <1>5

LEMMA OneTyped ==
  ASSUME NEW template \in Texts, NEW k \in 1..Len(template)
  PROVE  <<template[k]>> \in Texts
<1>1. template[k] \in Piecewise
  BY DEF Texts
<1>2. ASSUME NEW S, NEW x \in S
      PROVE  <<x>> \in Seq(S)
  OBVIOUS
<1> QED
  BY <1>1, <1>2 DEF Texts

LEMMA CatTyped ==
  ASSUME NEW a \in Texts, NEW b \in Texts
  PROVE  a \o b \in Texts
BY DEF Texts

Associates(a, b, c) == (a \o b) \o c = a \o (b \o c)

LEMMA CatAssociative ==
  ASSUME NEW a \in Texts, NEW b \in Texts, NEW c \in Texts
  PROVE  Associates(a, b, c)
<1>1. ASSUME NEW S, NEW s \in Seq(S), NEW t \in Seq(S), NEW u \in Seq(S)
      PROVE  (s \o t) \o u = s \o (t \o u)
  BY ConcatAssociative
<1>2. PICK S : S = Piecewise
  OBVIOUS
<1>3. a \in Seq(S) /\ b \in Seq(S) /\ c \in Seq(S)
  BY Zenon, <1>2 DEF Texts
<1>4. (a \o b) \o c = a \o (b \o c)
  BY <1>1, <1>3
<1> QED
  BY Zenon, <1>4 DEF Associates

LEMMA CatIs ==
  ASSUME NEW a \in Texts, NEW b \in Texts
  PROVE  /\ a \o b \in Texts
         /\ Len(a \o b) = Len(a) + Len(b)
         /\ \A i \in 1..Len(a) + Len(b) : (a \o b)[i] = IF i <= Len(a) THEN a[i] ELSE b[i - Len(a)]
<1>1. PICK S : S = Piecewise
  OBVIOUS
<1>2. a \in Seq(S) /\ b \in Seq(S) /\ Texts = Seq(S)
  BY Zenon, <1>1 DEF Texts
<1> QED
  BY <1>2, ConcatProperties

LEMMA BodyTyped ==
  ASSUME NEW template \in Texts, NEW files, GoodFiles(files), NEW k \in 1..Len(template) + 1,
         NEW t, \A i \in k + 1..Len(template) + 1 : t[i] \in Texts
  PROVE  Body(template, files, t, k) \in Texts
<1>1. PICK n \in Nat : n = Len(template)
  BY DEF Texts
<1>2. CASE k > n
  <2>1. <<>> \in Texts
    BY DEF Texts
  <2> QED
    BY <1>1, <1>2, <2>1 DEF Body
<1>3. CASE ~(k > n)
  <2>1. k \in 1..n
    BY <1>1, <1>3
  <2>2. CASE IsPlaceholder(template, files, k)
    <3>1. CloseAfter(template, k) \in k + 1..n
      <4>1. PICK e : e = CloseAfter(template, k)
        OBVIOUS
      <4>2. e \in k + 1..n + 1
        BY Zenon, <1>1, <2>1, <4>1, CloseIs
      <4>3. e <= n
        BY Zenon, <1>1, <2>2, <4>1 DEF IsPlaceholder
      <4> QED
        BY <2>1, <4>1, <4>2, <4>3
    <3>2. CloseAfter(template, k) + 1 \in k + 1..n + 1
      BY <2>1, <3>1
    <3>3. t[CloseAfter(template, k) + 1] \in Texts
      BY <1>1, <3>2
    <3>4. files[PathAt(template, k)] \in Texts
      BY Zenon, <2>2 DEF IsPlaceholder, GoodFiles
    <3>5. files[PathAt(template, k)] \o t[CloseAfter(template, k) + 1] \in Texts
      BY <3>3, <3>4, CatTyped
    <3> QED
      BY Zenon, <1>1, <1>3, <2>2, <3>5 DEF Body
  <2>3. CASE ~IsPlaceholder(template, files, k)
    <3>1. k + 1 \in k + 1..n + 1
      BY <2>1
    <3>2. t[k + 1] \in Texts /\ <<template[k]>> \in Texts
      BY <1>1, <2>1, <3>1, OneTyped
    <3>3. <<template[k]>> \o t[k + 1] \in Texts
      BY <3>2, CatTyped
    <3> QED
      BY Zenon, <1>1, <1>3, <2>3, <3>3 DEF Body
  <2> QED
    BY <2>2, <2>3
<1> QED
  BY <1>2, <1>3

(* Only the later places count. *)
LEMMA BodySame ==
  ASSUME NEW template \in Texts, NEW files, NEW k \in 1..Len(template) + 1, NEW t, NEW u,
         \A i \in k + 1..Len(template) + 1 : t[i] = u[i]
  PROVE  Body(template, files, t, k) = Body(template, files, u, k)
<1>1. PICK n \in Nat : n = Len(template)
  BY DEF Texts
<1>2. CASE k > n
  BY Zenon, <1>1, <1>2 DEF Body
<1>3. CASE ~(k > n)
  <2>1. k \in 1..n
    BY <1>1, <1>3
  <2>2. t[k + 1] = u[k + 1]
    <3>1. k + 1 \in k + 1..n + 1
      BY <2>1
    <3> QED
      BY <1>1, <3>1
  <2>3. IsPlaceholder(template, files, k) =>
          t[CloseAfter(template, k) + 1] = u[CloseAfter(template, k) + 1]
    <3> HAVE IsPlaceholder(template, files, k)
    <3>1. CloseAfter(template, k) \in k + 1..n
      <4>1. PICK e : e = CloseAfter(template, k)
        OBVIOUS
      <4>2. e \in k + 1..n + 1
        BY Zenon, <1>1, <2>1, <4>1, CloseIs
      <4>3. e <= n
        BY Zenon, <1>1, <4>1 DEF IsPlaceholder
      <4> QED
        BY <2>1, <4>1, <4>2, <4>3
    <3>2. CloseAfter(template, k) + 1 \in k + 1..n + 1
      BY <2>1, <3>1
    <3> QED
      BY <1>1, <3>2
  <2> QED
    BY Zenon, <1>1, <1>3, <2>2, <2>3 DEF Body
<1> QED
  BY <1>2, <1>3

Expands(template, files, x) ==
  /\ \A k \in 1..Len(template) + 1 : x[k] \in Texts
  /\ \A k \in 1..Len(template) + 1 : x[k] = Body(template, files, x, k)

LEMMA ExpansionIs ==
  ASSUME NEW template \in Texts, NEW files, GoodFiles(files)
  PROVE  Expands(template, files, Expansion(template, files))
<1>1. PICK n \in Nat : n = Len(template)
  BY DEF Texts
<1>2. PICK m \in Nat : m = n + 1
  OBVIOUS
<1> DEFINE Solves(f) == f = [k \in 1..n + 1 |-> Body(template, files, f, k)]
           step == [k \in 1..m |-> [t \in [1..m -> Texts] |-> Body(template, files, t, k)]]
<1>3. ASSUME NEW k \in 1..m, NEW t \in [1..m -> Texts]
      PROVE  Body(template, files, t, k) \in Texts
  <2>1. \A i \in k + 1..n + 1 : t[i] \in Texts
    BY <1>2
  <2> QED
    BY <1>1, <1>2, <2>1, BodyTyped
<1>4. LooksAhead(Texts, m, step)
  <2>1. step \in [1..m -> [[1..m -> Texts] -> Texts]]
    BY <1>3
  <2>2. ASSUME NEW k \in 1..m, NEW t \in [1..m -> Texts], NEW u \in [1..m -> Texts],
               \A i \in k + 1..m : t[i] = u[i]
        PROVE  step[k][t] = step[k][u]
    <3>1. Body(template, files, t, k) = Body(template, files, u, k)
      BY <1>1, <1>2, <2>2, BodySame
    <3> QED
      BY <3>1
  <2> HIDE DEF step
  <2> QED
    BY <2>1, <2>2 DEF LooksAhead
<1>5. \A k \in 1..m : \A t \in [1..m -> Texts] : step[k][t] = Body(template, files, t, k)
  OBVIOUS
<1>6. PICK f : Solved(Texts, m, step, f)
  <2>1. <<>> \in Texts
    BY DEF Texts
  <2>2. Texts # {}
    BY <2>1
  <2> HIDE DEF step
  <2> QED
    BY <1>4, <2>2, DownwardRecursion
<1>7. f \in [1..m -> Texts] /\ \A k \in 1..m : f[k] = Body(template, files, f, k)
  <2> HIDE DEF step
  <2> QED
    BY <1>5, <1>6 DEF Solved
<1>8. Solves(f)
  BY <1>2, <1>7
<1> DEFINE g == CHOOSE x : Solves(x)
<1>9. Solves(g)
  <2> HIDE DEF Solves
  <2> QED
    BY Zenon, <1>8
<1>10. Expansion(template, files) = g
  BY <1>1, Zenon DEF Expansion, Body
<1> HIDE DEF g
<1>11. \A k \in 1..m : g[k] = Body(template, files, g, k)
  BY <1>2, <1>9
<1>12. \A k \in 1..m : g[k] \in Texts
  <2> DEFINE H == {k \in 1..m : g[k] \in Texts}
  <2>1. ASSUME NEW k \in 1..m, \A i \in k + 1..m : i \in H
        PROVE  k \in H
    <3>1. \A i \in k + 1..n + 1 : g[i] \in Texts
      BY <1>2, <2>1
    <3>2. Body(template, files, g, k) \in Texts
      BY <1>1, <1>2, <3>1, BodyTyped
    <3> QED
      BY <1>11, <3>2
  <2>2. 1..m \subseteq H
    <3> HIDE DEF H
    <3> QED
      BY <2>1, DownwardInduction
  <2> QED
    BY <2>2
<1> QED
  BY <1>1, <1>2, <1>10, <1>11, <1>12 DEF Expands

(* Where no placeholder is, the template is copied. *)
Copied(template, x, k, m) == x[k] = SubSeq(template, k, m - 1) \o x[m]

LEMMA PlainRun ==
  ASSUME NEW template \in Texts, NEW files, NEW x, Expands(template, files, x),
         NEW m \in 1..Len(template) + 1, NEW k \in 1..m,
         \A j \in k..m - 1 : ~IsPlaceholder(template, files, j)
  PROVE  Copied(template, x, k, m)
<1>1. PICK n \in Nat : n = Len(template)
  BY DEF Texts
<1>2. m \in 1..n + 1 /\ k \in 1..n + 1
  BY <1>1
<1>3. \A j \in 1..n + 1 : x[j] \in Texts /\ x[j] = Body(template, files, x, j)
  BY <1>1 DEF Expands
<1> DEFINE G == {i \in 0..m - k : x[m - i] = SubSeq(template, m - i, m - 1) \o x[m]}
<1>4. 0 \in G
  <2>1. m - 0 = m /\ m \in Int /\ m - 1 \in Int /\ m - 1 < m /\ 0 \in 0..m - k
    OBVIOUS
  <2>2. SubSeq(template, m, m - 1) = <<>>
    BY <2>1, SubSeqEmpty
  <2>3. <<>> \o x[m] = x[m]
    BY <1>2, <1>3, ConcatEmptySeq DEF Texts
  <2> QED
    BY <2>1, <2>2, <2>3
<1>5. ASSUME NEW i \in 1..m - k, i - 1 \in G
      PROVE  i \in G
  <2>1. PICK j \in 1..n : j = m - i /\ j + 1 = m - (i - 1) /\ j \in k..m - 1
    <3>1. m - i \in 1..n /\ (m - i) + 1 = m - (i - 1) /\ m - i \in k..m - 1
      BY <1>2
    <3> QED
      BY <3>1
  <2>2. x[j + 1] = SubSeq(template, j + 1, m - 1) \o x[m]
    BY <1>5, <2>1
  <2>3. x[j] = <<template[j]>> \o x[j + 1]
    <3>1. x[j] = Body(template, files, x, j)
      BY <1>3
    <3>2. ~(j > Len(template)) /\ ~IsPlaceholder(template, files, j)
      BY <1>1, <2>1
    <3> QED
      BY Zenon, <3>1, <3>2 DEF Body
  <2>4. SubSeq(template, j, m - 1) = <<template[j]>> \o SubSeq(template, j + 1, m - 1)
    <3>1. j \in 1..Len(template) /\ m - 1 \in j..Len(template)
      BY <1>1, <1>2, <2>1
    <3> QED
      BY <3>1, SubSeqRecursiveFirst DEF Texts
  <2>5. PICK a \in Texts : a = <<template[j]>>
    BY <1>1, OneTyped
  <2>6. PICK b \in Texts : b = SubSeq(template, j + 1, m - 1)
    <3>1. \A l \in j + 1..m - 1 : template[l] \in Piecewise
      <4>1. \A l \in j + 1..m - 1 : l \in 1..Len(template)
        BY <1>1, <1>2
      <4> QED
        BY <4>1 DEF Texts
    <3>2. j + 1 \in Int /\ m - 1 \in Int
      OBVIOUS
    <3> QED
      BY <3>1, <3>2, SubSeqProperties DEF Texts
  <2>7. PICK c \in Texts : c = x[m]
    BY <1>2, <1>3
  <2>8. (a \o b) \o c = a \o (b \o c)
    BY CatAssociative DEF Associates
  <2>9. x[j] = SubSeq(template, j, m - 1) \o x[m]
    BY Zenon, <2>2, <2>3, <2>4, <2>5, <2>6, <2>7, <2>8
  <2> QED
    BY <2>1, <2>9
<1>6. m - k \in Nat
  BY <1>2
<1>7. m - k \in G
  <2> HIDE DEF G
  <2>1. 0..m - k \subseteq G
    BY <1>4, <1>5, <1>6, UpwardInduction
  <2> QED
    BY <1>6, <2>1
<1>8. m - (m - k) = k
  BY <1>2
<1> QED
  BY <1>7, <1>8 DEF Copied

LEMMA SubTyped ==
  ASSUME NEW s \in Texts, NEW i \in 1..Len(s) + 1, NEW j \in i - 1..Len(s)
  PROVE  SubSeq(s, i, j) \in Texts /\ Len(SubSeq(s, i, j)) = j - i + 1
<1>1. PICK n \in Nat : n = Len(s)
  BY DEF Texts
<1>2. i \in Int /\ j \in Int
  BY <1>1
<1>3. \A l \in i..j : s[l] \in Piecewise
  <2>1. \A l \in i..j : l \in 1..Len(s)
    BY <1>1
  <2> QED
    BY <2>1 DEF Texts
<1>4. SubSeq(s, i, j) \in Seq(Piecewise) /\ Len(SubSeq(s, i, j)) = IF i <= j THEN j - i + 1 ELSE 0
  BY <1>2, <1>3, SubSeqProperties
<1>5. (IF i <= j THEN j - i + 1 ELSE 0) = j - i + 1
  BY <1>1
<1> QED
  BY <1>4, <1>5 DEF Texts

(* The same part of two texts. *)
LEMMA SamePart ==
  ASSUME NEW s, NEW t, NEW i \in Int, NEW j \in Int, NEW d \in Int,
         \A l \in i..j : s[l] = t[l + d]
  PROVE  SubSeq(s, i, j) = SubSeq(t, i + d, j + d)
<1>1. SubSeq(s, i, j) = [l \in 1..(1 + j - i) |-> s[l + i - 1]]
  BY DEF SubSeq
<1>2. ASSUME NEW x \in Int, NEW y \in Int
      PROVE  SubSeq(t, x, y) = [l \in 1..(1 + y - x) |-> t[l + x - 1]]
  BY DEF SubSeq
<1>3. PICK x \in Int, y \in Int : x = i + d /\ y = j + d
  OBVIOUS
<1>4. SubSeq(t, x, y) = [l \in 1..(1 + y - x) |-> t[l + x - 1]]
  BY <1>2
<1>5. 1 + y - x = 1 + j - i
  BY <1>3
<1>6. ASSUME NEW l \in 1..(1 + j - i)
      PROVE  s[l + i - 1] = t[l + x - 1]
  <2>1. PICK p : p = l + i - 1
    OBVIOUS
  <2>2. p \in i..j /\ l + x - 1 = p + d
    BY <1>3, <2>1
  <2> QED
    BY <2>1, <2>2
<1>7. SubSeq(s, i, j) = SubSeq(t, x, y)
  BY <1>1, <1>4, <1>5, <1>6
<1> QED
  BY <1>3, <1>7

LEMMA FirstTokenIs ==
  ASSUME NEW s \in Texts, NEW token, NEW i \in 1..Len(s) + 1
  PROVE  LET f == Concat!FirstToken(s, token, i) IN
         \/ f = 0 /\ \A j \in i..Len(s) : s[j] # token
         \/ f \in i..Len(s) /\ s[f] = token /\ \A j \in i..f - 1 : s[j] # token
<1>1. PICK n \in Nat : n = Len(s)
  BY DEF Texts
<1>2. PICK places : places = {k \in i..n : s[k] = token}
  OBVIOUS
<1>3. PICK f : f = Concat!FirstToken(s, token, i)
  OBVIOUS
<1>4. f = IF places = {} THEN 0 ELSE Min(places)
  <2>1. f = IF places = {} THEN 0 ELSE Concat!Min(places)
    BY <1>1, <1>2, <1>3 DEF Concat!FirstToken
  <2>2. Concat!Min(places) = Min(places)
    BY Zenon DEF Concat!Min, Min
  <2> QED
    BY <2>1, <2>2
<1>5. i \in 1..n + 1
  BY <1>1
<1>6. places \in SUBSET Nat
  BY <1>2, <1>5
<1>7. CASE places = {}
  <2>1. \A j \in i..n : s[j] # token
    BY <1>2, <1>7
  <2> QED
    BY <1>1, <1>3, <1>4, <1>7, <2>1
<1>8. CASE places # {}
  <2>1. f \in places /\ \A x \in places : f <= x
    BY <1>4, <1>6, <1>8, MinIsLeast
  <2>2. f \in i..n /\ s[f] = token
    BY <1>2, <2>1
  <2>3. ASSUME NEW j \in i..f - 1
        PROVE  s[j] # token
    <3>1. j \in i..n /\ ~(f <= j)
      BY <1>5, <2>2
    <3>2. j \notin places
      BY <2>1, <3>1
    <3> QED
      BY <1>2, <3>1, <3>2
  <2> QED
    BY <1>1, <1>3, <2>2, <2>3
<1> QED
  BY <1>7, <1>8

-----------------------------------------------------------------------------
(* The loop over the placeholders                                           *)

(* A text whose places up to Len(a) are made, from the template up to k. *)
MadeUpTo(template, str, k, a) ==
  /\ k \in 0..Len(template) /\ a \in Texts
  /\ str = a \o SubSeq(template, k + 1, Len(template))

LEMMA MadeUpToIs ==
  ASSUME NEW template \in Texts, NEW str, NEW k, NEW a, MadeUpTo(template, str, k, a)
  PROVE  /\ str \in Texts
         /\ Len(str) = Len(a) + Len(template) - k
         /\ \A i \in 1..Len(a) : str[i] = a[i]
         /\ \A i \in k + 1..Len(template) : str[i + (Len(a) - k)] = template[i]
<1>1. PICK n \in Nat : n = Len(template)
  BY DEF Texts
<1>2. k \in 0..n /\ a \in Texts
  BY <1>1 DEF MadeUpTo
<1>3. PICK l \in Nat : l = Len(a)
  BY <1>2 DEF Texts
<1>4. PICK b : b = SubSeq(template, k + 1, n)
  OBVIOUS
<1>5. k + 1 \in 1..n + 1 /\ n \in (k + 1) - 1..n
  BY <1>2
<1>6. b \in Texts /\ Len(b) = n - k
  <2>1. b \in Texts /\ Len(b) = n - (k + 1) + 1
    BY <1>1, <1>4, <1>5, SubTyped
  <2>2. n - (k + 1) + 1 = n - k
    BY <1>2
  <2> QED
    BY <2>1, <2>2
<1>7. \A i \in 1..n - k : b[i] = template[k + i]
  <2>1. b = [i \in 1..(1 + n - (k + 1)) |-> template[i + (k + 1) - 1]]
    BY <1>2, <1>4 DEF SubSeq
  <2>2. \A i \in 1..n - k : i \in 1..(1 + n - (k + 1)) /\ i + (k + 1) - 1 = k + i
    BY <1>2
  <2> QED
    BY <2>1, <2>2
<1>8. str = a \o b
  BY <1>1, <1>4 DEF MadeUpTo
<1>9. /\ str \in Texts /\ Len(str) = l + (n - k)
      /\ \A i \in 1..l + (n - k) : str[i] = IF i <= l THEN a[i] ELSE b[i - l]
  <2>1. /\ a \o b \in Texts
        /\ Len(a \o b) = Len(a) + Len(b)
        /\ \A i \in 1..Len(a) + Len(b) : (a \o b)[i] = IF i <= Len(a) THEN a[i] ELSE b[i - Len(a)]
    BY <1>2, <1>6, CatIs
  <2> QED
    BY <1>3, <1>6, <1>8, <2>1
<1>10. \A i \in 1..l : str[i] = a[i]
  <2>1. \A i \in 1..l : i \in 1..l + (n - k) /\ i <= l
    BY <1>2
  <2> QED
    BY <1>9, <2>1
<1>11. \A i \in k + 1..n : str[i + (l - k)] = template[i]
  <2> TAKE i \in k + 1..n
  <2>1. PICK p : p = i + (l - k)
    OBVIOUS
  <2>2. p \in 1..l + (n - k) /\ ~(p <= l) /\ p - l \in 1..n - k /\ k + (p - l) = i
    BY <1>2, <2>1
  <2>3. str[p] = b[p - l]
    BY <1>9, <2>2
  <2>4. b[p - l] = template[k + (p - l)]
    BY <1>7, <2>2
  <2> QED
    BY <2>1, <2>2, <2>3, <2>4
<1>12. l + (n - k) = l + n - k
  BY <1>2
<1> QED
  BY <1>1, <1>3, <1>9, <1>10, <1>11, <1>12

(* Past the last placeholder, a text that is made so far is all made. *)
LEMMA AllMade ==
  ASSUME NEW template \in Texts, NEW files, NEW x, Expands(template, files, x),
         NEW str, NEW k, NEW a, MadeUpTo(template, str, k, a), x[1] = a \o x[k + 1],
         \A j \in k + 1..Len(template) : ~IsPlaceholder(template, files, j)
  PROVE  str = x[1]
<1>1. PICK n \in Nat : n = Len(template)
  BY DEF Texts
<1>2. k \in 0..n /\ a \in Texts /\ str = a \o SubSeq(template, k + 1, n)
  BY <1>1 DEF MadeUpTo
<1>3. PICK m : m = n + 1
  OBVIOUS
<1>4. m \in 1..Len(template) + 1 /\ k + 1 \in 1..m /\ m - 1 = n
  BY <1>1, <1>2, <1>3
<1>5. x[k + 1] = SubSeq(template, k + 1, n) \o x[m]
  <2>1. \A j \in k + 1..m - 1 : ~IsPlaceholder(template, files, j)
    BY <1>1, <1>4
  <2>2. x[k + 1] = SubSeq(template, k + 1, m - 1) \o x[m]
    BY <1>4, <2>1, PlainRun DEF Copied
  <2> QED
    BY <1>4, <2>2
<1>6. x[m] = <<>>
  <2>1. x[m] = Body(template, files, x, m)
    BY <1>4 DEF Expands
  <2>2. m > Len(template)
    BY <1>1, <1>3
  <2> QED
    BY <2>1, <2>2, Zenon DEF Body
<1>7. PICK b \in Texts : b = SubSeq(template, k + 1, n)
  <2>1. k + 1 \in 1..n + 1 /\ n \in (k + 1) - 1..n
    BY <1>2
  <2> QED
    BY <1>1, <2>1, SubTyped
<1>8. b \o <<>> = b
  BY <1>7, ConcatEmptySeq DEF Texts
<1> QED
  BY <1>2, <1>5, <1>6, <1>7, <1>8

(* The part of a text from a place on, and up to it. *)
LEMMA SplitAt ==
  ASSUME NEW s \in Texts, NEW i \in 1..Len(s) + 1, NEW j \in i..Len(s) + 1
  PROVE  SubSeq(s, i, Len(s)) = SubSeq(s, i, j - 1) \o SubSeq(s, j, Len(s))
<1>1. PICK n \in Nat : n = Len(s)
  BY DEF Texts
<1>2. PICK q : q = j - 1
  OBVIOUS
<1>3. q \in i - 1..n /\ n \in q..n /\ q + 1 = j
  BY <1>1, <1>2
<1>4. ASSUME NEW S, NEW t \in Seq(S), NEW m \in 1..Len(t) + 1,
             NEW y \in m - 1..Len(t), NEW z \in y..Len(t)
      PROVE  SubSeq(t, m, y) \o SubSeq(t, y + 1, z) = SubSeq(t, m, z)
  BY ConcatAdjacentSubSeq
<1>5. SubSeq(s, i, q) \o SubSeq(s, q + 1, n) = SubSeq(s, i, n)
  BY <1>1, <1>3, <1>4 DEF Texts
<1> QED
  BY <1>1, <1>2, <1>3, <1>5

(* What is searched: no place that is made starts a placeholder. *)
Searched(template, str, k, a, pos) ==
  /\ MadeUpTo(template, str, k, a)
  /\ pos \in 0..Len(a)
  /\ \A i \in pos + 1..Len(a) : a[i] # Concat!Open

LEMMA SearchFails ==
  ASSUME NEW template \in Texts, NEW files, NEW str, NEW k, NEW a, NEW pos,
         Searched(template, str, k, a, pos),
         NEW start, start = Concat!FirstToken(str, Concat!Open, pos + 1),
         start = 0 \/ Concat!FirstToken(str, Concat!Close, start + 1) = 0
  PROVE  \A j \in k + 1..Len(template) : ~IsPlaceholder(template, files, j)
<1>1. PICK n \in Nat : n = Len(template)
  BY DEF Texts
<1>2. PICK l \in Nat : l = Len(a)
  BY DEF Searched, MadeUpTo, Texts
<1>3. PICK open : open = Concat!Open
  OBVIOUS
<1>4. PICK close : close = Concat!Close
  OBVIOUS
<1>5. k \in 0..n /\ pos \in 0..l
  BY <1>1, <1>2 DEF Searched, MadeUpTo
<1>6. /\ str \in Texts /\ Len(str) = l + (n - k)
      /\ \A i \in k + 1..n : str[i + (l - k)] = template[i]
  <2>1. l + n - k = l + (n - k)
    BY <1>5
  <2> QED
    BY <1>1, <1>2, <2>1, MadeUpToIs DEF Searched
<1>7. CASE start = 0
  <2>1. \A i \in pos + 1..l + (n - k) : str[i] # open
    <3>1. pos + 1 \in 1..Len(str) + 1 /\ ~(0 \in pos + 1..Len(str))
      BY <1>5, <1>6
    <3>2. start = Concat!FirstToken(str, open, pos + 1)
      BY <1>3
    <3> QED
      BY <1>6, <1>7, <3>1, <3>2, FirstTokenIs
  <2> TAKE j \in k + 1..Len(template)
  <2>2. j \in k + 1..n /\ j + (l - k) \in pos + 1..l + (n - k)
    BY <1>1, <1>5
  <2>3. template[j] # open
    BY <1>6, <2>1, <2>2
  <2> QED
    BY Zenon, <1>3, <2>3 DEF IsPlaceholder, Concat!Open
<1>8. CASE start # 0 /\ Concat!FirstToken(str, close, start + 1) = 0
  <2>1. start \in pos + 1..Len(str) /\ \A i \in pos + 1..start - 1 : str[i] # open
    <3>1. pos + 1 \in 1..Len(str) + 1
      BY <1>5, <1>6
    <3>2. start = Concat!FirstToken(str, open, pos + 1)
      BY <1>3
    <3> QED
      BY <1>6, <1>8, <3>1, <3>2, FirstTokenIs
  <2>2. \A i \in start + 1..l + (n - k) : str[i] # close
    <3>1. start + 1 \in 1..Len(str) + 1 /\ ~(0 \in start + 1..Len(str))
      BY <1>5, <1>6, <2>1
    <3> QED
      BY <1>6, <1>8, <3>1, FirstTokenIs
  <2> TAKE j \in k + 1..Len(template)
  <2>3. j \in k + 1..n /\ j \in 1..Len(template)
    BY <1>1, <1>5
  <2>4. SUFFICES ASSUME template[j] = open, CloseAfter(template, j) <= n
                 PROVE  FALSE
    BY Zenon, <1>1, <1>3 DEF IsPlaceholder, Concat!Open
  <2>5. j + (l - k) >= start
    <3>1. j + (l - k) \in pos + 1..l + (n - k)
      BY <1>5, <2>3
    <3>2. str[j + (l - k)] = open
      BY <1>6, <2>3, <2>4
    <3>3. j + (l - k) \notin pos + 1..start - 1
      BY <2>1, <3>2
    <3>4. start \in Int
      BY <1>5, <1>6, <2>1
    <3> QED
      BY <1>5, <3>1, <3>3, <3>4
  <2>6. PICK e : e = CloseAfter(template, j)
    OBVIOUS
  <2>7. e \in j + 1..n /\ template[e] = close
    <3>1. e \in j + 1..n + 1 /\ (e <= n => template[e] = "}}")
      BY Zenon, <1>1, <2>3, <2>6, CloseIs
    <3>2. e <= n
      BY <2>4, <2>6
    <3>3. template[e] = close
      BY Zenon, <1>4, <3>1, <3>2 DEF Concat!Close
    <3>4. e \in j + 1..n + 1
      BY Zenon, <3>1
    <3>5. e \in j + 1..n
      BY <1>5, <2>3, <3>2, <3>4
    <3> QED
      BY <3>3, <3>5
  <2>8. e \in k + 1..n /\ e + (l - k) \in start + 1..l + (n - k)
    <3>1. start \in Int
      BY <1>5, <1>6, <2>1
    <3> QED
      BY <1>5, <2>3, <2>5, <2>7, <3>1
  <2> QED
    BY <1>6, <2>2, <2>7, <2>8
<1> QED
  BY <1>4, <1>7, <1>8

(* The placeholder that is found is the first one of the rest. *)
Found(template, k, l, start, end, j, path) ==
  /\ j \in k + 1..Len(template) /\ template[j] = Concat!Open
  /\ \A i \in k + 1..j - 1 : template[i] # Concat!Open
  /\ CloseAfter(template, j) \in j + 1..Len(template)
  /\ start = j + (l - k) /\ end = CloseAfter(template, j) + (l - k)
  /\ path = PathAt(template, j)

LEMMA SearchFinds ==
  ASSUME NEW template \in Texts, NEW str, NEW k, NEW a, NEW pos,
         Searched(template, str, k, a, pos),
         NEW start, start = Concat!FirstToken(str, Concat!Open, pos + 1), start # 0,
         NEW end, end = Concat!FirstToken(str, Concat!Close, start + 1), end # 0
  PROVE  \E j : Found(template, k, Len(a), start, end, j, SubSeq(str, start + 1, end - 1))
<1>1. PICK n \in Nat : n = Len(template)
  BY DEF Texts
<1>2. PICK l \in Nat : l = Len(a)
  BY DEF Searched, MadeUpTo, Texts
<1>3. PICK open : open = Concat!Open
  OBVIOUS
<1>4. PICK close : close = Concat!Close
  OBVIOUS
<1>5. k \in 0..n /\ pos \in 0..l
  BY <1>1, <1>2 DEF Searched, MadeUpTo
<1>6. /\ str \in Texts /\ Len(str) = l + (n - k)
      /\ \A i \in 1..l : str[i] = a[i]
      /\ \A i \in k + 1..n : str[i + (l - k)] = template[i]
  <2>1. l + n - k = l + (n - k)
    BY <1>5
  <2> QED
    BY <1>1, <1>2, <2>1, MadeUpToIs DEF Searched
<1>7. /\ start \in pos + 1..l + (n - k) /\ str[start] = open
      /\ \A i \in pos + 1..start - 1 : str[i] # open
  <2>1. pos + 1 \in 1..Len(str) + 1
    BY <1>5, <1>6
  <2> QED
    BY <1>3, <1>6, <2>1, FirstTokenIs
<1>8. /\ end \in start + 1..l + (n - k) /\ str[end] = close
      /\ \A i \in start + 1..end - 1 : str[i] # close
  <2>1. start + 1 \in 1..Len(str) + 1
    BY SMTT(20), <1>5, <1>6, <1>7
  <2> QED
    BY <1>4, <1>6, <2>1, FirstTokenIs
<1>9. start > l
  <2>1. SUFFICES ASSUME start <= l
                 PROVE  FALSE
    BY <1>5, <1>7
  <2>2. start \in pos + 1..l /\ start \in 1..l
    BY <1>5, <1>7, <2>1
  <2>3. a[start] = open
    BY <1>6, <1>7, <2>2
  <2> QED
    BY <1>2, <1>3, <2>2, <2>3 DEF Searched
<1>10. PICK j \in k + 1..n, e \in k + 1..n :
         start = j + (l - k) /\ end = e + (l - k) /\ j < e
  <2>1. start - (l - k) \in k + 1..n /\ start = (start - (l - k)) + (l - k)
    BY <1>5, <1>7, <1>9
  <2>2. end - (l - k) \in k + 1..n /\ end = (end - (l - k)) + (l - k)
    BY <1>5, <1>7, <1>8, <1>9
  <2>3. start - (l - k) < end - (l - k)
    BY <1>5, <1>7, <1>8
  <2> QED
    BY <2>1, <2>2, <2>3
<1>11. template[j] = open /\ template[e] = close
  BY <1>6, <1>7, <1>8, <1>10
<1>12. \A i \in k + 1..j - 1 : template[i] # open
  <2> TAKE i \in k + 1..j - 1
  <2>1. i \in k + 1..n /\ i + (l - k) \in pos + 1..start - 1
    BY <1>5, <1>10
  <2> QED
    BY <1>6, <1>7, <2>1
<1>13. \A i \in j + 1..e - 1 : template[i] # close
  <2> TAKE i \in j + 1..e - 1
  <2>1. i \in k + 1..n /\ i + (l - k) \in start + 1..end - 1
    BY <1>5, <1>10
  <2> QED
    BY <1>6, <1>8, <2>1
<1>14. CloseAfter(template, j) = e
  <2>1. PICK f : f = CloseAfter(template, j)
    OBVIOUS
  <2>2. j \in 1..Len(template)
    BY <1>1, <1>5, <1>10
  <2>3. PICK token : token = "}}"
    BY Zenon
  <2>4. f \in j + 1..n + 1 /\ (f <= n => template[f] = token)
          /\ \A i \in j + 1..f - 1 : template[i] # token
    BY Zenon, <1>1, <2>1, <2>2, <2>3, CloseIs
  <2>5. token = close
    BY Zenon, <1>4, <2>3 DEF Concat!Close
  <2>6. ~(e \in j + 1..f - 1)
    BY <1>11, <2>4, <2>5
  <2>7. f <= e
    BY <1>5, <1>10, <2>4, <2>6
  <2>8. f <= n
    BY <1>5, <1>10, <2>4, <2>7
  <2>9. ~(f \in j + 1..e - 1)
    BY <1>13, <2>4, <2>5, <2>8
  <2>10. f = e
    BY <1>5, <1>10, <2>4, <2>7, <2>9
  <2> QED
    BY <2>1, <2>10
<1>15. SubSeq(str, start + 1, end - 1) = PathAt(template, j)
  <2>1. PICK d \in Int : d = l - k
    BY <1>5
  <2>2. \A i \in j + 1..e - 1 : template[i] = str[i + d]
    <3> TAKE i \in j + 1..e - 1
    <3>1. i \in k + 1..n
      BY <1>5, <1>10
    <3> QED
      BY <1>6, <2>1, <3>1
  <2>3. PICK x \in Int, y \in Int : x = j + 1 /\ y = e - 1
    BY <1>5, <1>10
  <2>4. \A i \in x..y : template[i] = str[i + d]
    BY <2>2, <2>3
  <2>5. SubSeq(template, x, y) = SubSeq(str, x + d, y + d)
    BY <2>4, SamePart
  <2>6. x + d = start + 1 /\ y + d = end - 1
    BY <1>5, <1>10, <2>1, <2>3
  <2> QED
    BY <1>14, <2>3, <2>5, <2>6 DEF PathAt
<1>16. CloseAfter(template, j) \in j + 1..Len(template)
  BY <1>1, <1>5, <1>10, <1>14
<1> QED
  <2>1. /\ j \in k + 1..Len(template) /\ template[j] = Concat!Open
        /\ \A i \in k + 1..j - 1 : template[i] # Concat!Open
    BY <1>1, <1>3, <1>10, <1>11, <1>12
  <2>2. start = j + (Len(a) - k) /\ end = CloseAfter(template, j) + (Len(a) - k)
    BY <1>2, <1>10, <1>14
  <2> QED
    BY Zenon, <1>15, <1>16, <2>1, <2>2 DEF Found

LEMMA PrefixOf ==
  ASSUME NEW a \in Texts, NEW b \in Texts
  PROVE  SubSeq(a \o b, 1, Len(a)) = a
<1>1. PICK S : S = Piecewise
  OBVIOUS
<1>2. a \in Seq(S) /\ b \in Seq(S)
  BY Zenon, <1>1 DEF Texts
<1>3. PICK l \in Nat : l = Len(a)
  BY <1>2
<1>4. CASE l = 0
  <2>1. SubSeq(a \o b, 1, l) = <<>>
    BY <1>4, SubSeqEmpty
  <2>2. a = <<>>
    BY <1>2, <1>3, <1>4, EmptySeq
  <2> QED
    BY <1>3, <2>1, <2>2
<1>5. CASE l # 0
  <2>1. 1 \in 1..Len(a) /\ l \in 1..Len(a)
    BY <1>3, <1>5
  <2>2. SubSeq(a \o b, 1, l) = SubSeq(a, 1, l)
    BY <1>2, <2>1, SubSeqOfConcat1
  <2>3. SubSeq(a, 1, Len(a)) = a
    BY <1>2, SubSeqFull
  <2> QED
    BY <1>3, <2>2, <2>3
<1> QED
  BY <1>4, <1>5

LEMMA SuffixOf ==
  ASSUME NEW a \in Texts, NEW b \in Texts
  PROVE  SubSeq(a \o b, Len(a) + 1, Len(a \o b)) = b
<1>1. PICK l \in Nat, m \in Nat : l = Len(a) /\ m = Len(b)
  BY DEF Texts
<1>2. PICK c \in Texts : c = a \o b
  BY CatTyped
<1>3. Len(c) = l + m
  BY <1>1, <1>2, CatIs
<1>4. \A i \in 1..m : b[i] = c[i + l]
  <2> TAKE i \in 1..m
  <2>1. PICK p : p = i + l
    OBVIOUS
  <2>2. p \in 1..Len(a) + Len(b) /\ ~(p <= Len(a)) /\ p - Len(a) = i
    BY <1>1, <2>1
  <2>3. c[p] = b[p - Len(a)]
    BY <1>2, <2>2, CatIs
  <2> QED
    BY <2>1, <2>2, <2>3
<1>5. SubSeq(b, 1, m) = SubSeq(c, 1 + l, m + l)
  BY <1>4, SamePart
<1>6. SubSeq(b, 1, m) = b
  <2>1. PICK S : S = Piecewise
    OBVIOUS
  <2>2. b \in Seq(S)
    BY Zenon, <2>1 DEF Texts
  <2> QED
    BY <1>1, <2>2, SubSeqFull
<1>7. 1 + l = l + 1 /\ m + l = l + m
  OBVIOUS
<1> QED
  BY <1>1, <1>2, <1>3, <1>5, <1>6, <1>7

(* A pass that finds a placeholder, and what it makes of the text. *)
Replaces(template, files, x, str, k, a, start, end, j, path) ==
  /\ GoodFiles(files) /\ Expands(template, files, x)
  /\ MadeUpTo(template, str, k, a) /\ x[1] = a \o x[k + 1]
  /\ Found(template, k, Len(a), start, end, j, path)
  /\ path \in DOMAIN files /\ Len(files[path]) >= Len(path) + 1

Continues(template, x, a, tail, k, pos) ==
  Searched(template, a \o tail, k, a, pos) /\ x[1] = a \o x[k + 1]

LEMMA ReplacedText ==
  ASSUME NEW template \in Texts, NEW files, NEW x, NEW str, NEW k, NEW a,
         NEW start, NEW end, NEW j, NEW path,
         Replaces(template, files, x, str, k, a, start, end, j, path)
  PROVE  Continues(template, x, SubSeq(str, 1, start - 1) \o files[path],
                   SubSeq(str, end + 1, Len(str)), CloseAfter(template, j), end - 1)
<1>1. PICK n \in Nat : n = Len(template)
  BY DEF Texts
<1>2. k \in 0..n /\ a \in Texts
  BY <1>1 DEF MadeUpTo, Replaces
<1>3. PICK l \in Nat : l = Len(a)
  BY <1>2 DEF Texts
<1>4. PICK e \in k + 1..n : e = CloseAfter(template, j) /\ e > j
  <2>1. j \in k + 1..n /\ CloseAfter(template, j) \in j + 1..n
    BY Zenon, <1>1 DEF Found, Replaces
  <2> QED
    BY <1>2, <2>1
<1>5. j \in k + 1..n /\ start = j + (l - k) /\ end = e + (l - k)
  BY Zenon, <1>1, <1>3, <1>4 DEF Found, Replaces
<1>6. /\ str \in Texts /\ Len(str) = l + (n - k)
      /\ \A i \in 1..l : str[i] = a[i]
      /\ \A i \in k + 1..n : str[i + (l - k)] = template[i]
  <2>1. l + n - k = l + (n - k)
    BY <1>2
  <2> QED
    BY <1>1, <1>3, <2>1, MadeUpToIs DEF Replaces
<1>7. PICK file \in Texts : file = files[path]
  BY Zenon DEF GoodFiles, Replaces
<1>8. PICK b \in Texts : b = SubSeq(template, k + 1, j - 1)
  <2>1. k + 1 \in 1..n + 1 /\ j - 1 \in (k + 1) - 1..n
    BY <1>2, <1>5
  <2> QED
    BY <1>1, <2>1, SubTyped
<1>9. PICK made \in Texts : made = SubSeq(str, 1, start - 1) /\ Len(made) = start - 1
  <2>1. PICK y : y = start - 1
    OBVIOUS
  <2>2. 1 \in 1..Len(str) + 1 /\ y \in 1 - 1..Len(str)
    BY <1>2, <1>5, <1>6, <2>1
  <2>3. SubSeq(str, 1, y) \in Texts /\ Len(SubSeq(str, 1, y)) = y - 1 + 1
    BY <1>6, <2>2, SubTyped
  <2>4. y - 1 + 1 = y
    BY <2>2
  <2> QED
    BY <2>1, <2>3, <2>4
<1>10. made = a \o b
  <2>1. PICK rest \in Texts : rest = SubSeq(template, j, n)
    <3>1. j \in 1..n + 1 /\ n \in j - 1..n
      BY <1>2, <1>5
    <3> QED
      BY <1>1, <3>1, SubTyped
  <2>2. SubSeq(template, k + 1, n) = b \o rest
    <3>1. k + 1 \in 1..n + 1 /\ j \in k + 1..n + 1
      BY <1>2, <1>5
    <3> QED
      BY <1>1, <1>8, <2>1, <3>1, SplitAt
  <2>3. PICK c \in Texts : c = a \o b
    BY <1>2, <1>8, CatTyped
  <2>4. str = c \o rest
    <3>1. str = a \o SubSeq(template, k + 1, n)
      BY <1>1 DEF MadeUpTo, Replaces
    <3>2. (a \o b) \o rest = a \o (b \o rest)
      <4>1. Associates(a, b, rest)
        BY <1>2, CatAssociative
      <4> QED
        BY Zenon, <4>1 DEF Associates
    <3> QED
      BY <2>2, <2>3, <3>1, <3>2
  <2>5. Len(c) = start - 1
    <3>1. PICK y : y = j - 1
      OBVIOUS
    <3>2. k + 1 \in 1..n + 1 /\ y \in (k + 1) - 1..n
      BY <1>2, <1>5, <3>1
    <3>3. Len(b) = y - (k + 1) + 1
      BY <1>1, <1>8, <3>1, <3>2, SubTyped
    <3>4. Len(c) = l + Len(b)
      BY <1>2, <1>3, <1>8, <2>3, CatIs
    <3>5. l + (y - (k + 1) + 1) = start - 1
      BY <1>2, <1>5, <3>1, <3>2
    <3> QED
      BY <3>3, <3>4, <3>5
  <2>6. SubSeq(c \o rest, 1, Len(c)) = c
    BY <2>1, <2>3, PrefixOf
  <2> QED
    BY <1>9, <2>3, <2>4, <2>5, <2>6
<1>11. PICK tail \in Texts : tail = SubSeq(template, e + 1, n)
  <2>1. e + 1 \in 1..n + 1 /\ n \in (e + 1) - 1..n
    BY <1>2, <1>4
  <2> QED
    BY <1>1, <2>1, SubTyped
<1>12. SubSeq(str, end + 1, Len(str)) = tail
  <2>1. PICK d \in Int : d = l - k
    BY <1>2
  <2>2. PICK y \in Int : y = e + 1
    BY <1>2, <1>4
  <2>3. \A i \in y..n : template[i] = str[i + d]
    <3> TAKE i \in y..n
    <3>1. i \in k + 1..n
      BY <1>2, <1>4, <2>2
    <3> QED
      BY <1>6, <2>1, <3>1
  <2>4. SubSeq(template, y, n) = SubSeq(str, y + d, n + d)
    BY <2>3, SamePart
  <2>5. y + d = end + 1 /\ n + d = Len(str)
    BY <1>2, <1>5, <1>6, <2>1, <2>2
  <2> QED
    BY <1>11, <2>2, <2>4, <2>5
<1>13. PICK a2 \in Texts : a2 = made \o file
  BY <1>7, <1>9, CatTyped
<1>14. /\ Len(a2) = (start - 1) + Len(file)
       /\ \A i \in 1..(start - 1) + Len(file) :
            a2[i] = IF i <= start - 1 THEN made[i] ELSE file[i - (start - 1)]
  <2>1. /\ Len(made \o file) = Len(made) + Len(file)
        /\ \A i \in 1..Len(made) + Len(file) :
             (made \o file)[i] = IF i <= Len(made) THEN made[i] ELSE file[i - Len(made)]
    BY CatIs
  <2>2. Len(made) = start - 1
    BY <1>9
  <2> QED
    BY <1>13, <2>1, <2>2
<1>15. MadeUpTo(template, a2 \o tail, e, a2)
  <2>1. e \in 0..Len(template)
    BY <1>1, <1>2, <1>4
  <2> QED
    BY <1>1, <1>11, <1>13, <2>1 DEF MadeUpTo
<1>16. PICK later \in Texts : later = x[e + 1]
  <2>1. e + 1 \in 1..Len(template) + 1
    BY <1>1, <1>2, <1>4
  <2> QED
    BY <2>1 DEF Expands, Replaces
<1>17. x[j] = file \o later
  <2>1. j \in 1..Len(template) + 1
    BY <1>1, <1>2, <1>5
  <2>2. x[j] = Body(template, files, x, j)
    BY <2>1 DEF Expands, Replaces
  <2>3. IsPlaceholder(template, files, j)
    <3>1. template[j] = "{{" /\ path = PathAt(template, j)
      BY Zenon DEF Replaces, Found, Concat!Open
    <3>2. CloseAfter(template, j) <= Len(template)
      BY <1>1, <1>4, <1>2
    <3> QED
      BY Zenon, <3>1, <3>2 DEF IsPlaceholder, Replaces
  <2>4. ~(j > Len(template)) /\ path = PathAt(template, j)
    <3>1. path = PathAt(template, j)
      BY Zenon DEF Replaces, Found
    <3> QED
      BY <1>1, <1>2, <1>5, <3>1
  <2> QED
    BY Zenon, <1>4, <1>7, <1>16, <2>2, <2>3, <2>4 DEF Body
<1>18. x[k + 1] = b \o x[j]
  <2>1. j \in 1..Len(template) + 1 /\ k + 1 \in 1..j
    BY <1>1, <1>2, <1>5
  <2>2. \A i \in k + 1..j - 1 : ~IsPlaceholder(template, files, i)
    <3>1. \A i \in k + 1..j - 1 : template[i] # "{{"
      BY Zenon DEF Replaces, Found, Concat!Open
    <3> QED
      BY Zenon, <3>1 DEF IsPlaceholder
  <2>3. PICK p : p = k + 1
    OBVIOUS
  <2>4. Expands(template, files, x)
    BY DEF Replaces
  <2>5. Copied(template, x, p, j)
    BY <2>1, <2>2, <2>3, <2>4, PlainRun
  <2> QED
    BY Zenon, <1>8, <2>3, <2>5 DEF Copied
<1>19. x[1] = a2 \o later
  <2>1. PICK rest \in Texts : rest = file \o later
    BY <1>7, <1>16, CatTyped
  <2>2. x[1] = a \o (b \o rest)
    BY <1>17, <1>18, <2>1 DEF Replaces
  <2>3. (a \o b) \o rest = a \o (b \o rest)
    <3>1. Associates(a, b, rest)
      BY <1>2, CatAssociative
    <3> QED
      BY Zenon, <3>1 DEF Associates
  <2>4. (made \o file) \o later = made \o (file \o later)
    <3>1. Associates(made, file, later)
      BY CatAssociative
    <3> QED
      BY Zenon, <3>1 DEF Associates
  <2> QED
    BY <1>10, <1>13, <2>1, <2>2, <2>3, <2>4
<1>20. PICK f \in Nat : f = Len(file)
  BY <1>7 DEF Texts
<1>21. end - 1 \in 0..Len(a2)
  <2>1. Len(path) = e - j - 1
    <3>1. PICK y \in Int, z \in Int : y = j + 1 /\ z = e - 1
      BY <1>2, <1>3, <1>4, <1>5
    <3>2. y \in 1..Len(template) + 1 /\ z \in y - 1..Len(template)
      BY SMTT(20), <1>1, <1>2, <1>3, <1>4, <1>5, <3>1
    <3>3. Len(SubSeq(template, y, z)) = z - y + 1
      BY <3>2, SubTyped
    <3>4. path = SubSeq(template, y, z)
      <4>1. path = PathAt(template, j)
        BY Zenon DEF Replaces, Found
      <4> QED
        BY <1>4, <3>1, <4>1 DEF PathAt
    <3>5. z - y + 1 = e - j - 1
      <4>1. e \in Int /\ j \in Int
        BY <1>2, <1>5
      <4> QED
        BY <3>1, <4>1
    <3> QED
      BY <3>3, <3>4, <3>5
  <2>2. f >= e - j
    <3>1. f >= Len(path) + 1
      BY <1>7, <1>20 DEF Replaces
    <3>2. (e - j - 1) + 1 = e - j
      BY <1>2, <1>3, <1>4, <1>5
    <3> QED
      BY <2>1, <3>1, <3>2
  <2>3. e \in Int /\ j \in Int /\ start \in Int /\ end = start + (e - j) /\ start >= 1 /\ e > j
    BY <1>2, <1>3, <1>4, <1>5
  <2>4. Len(a2) = (start - 1) + f
    BY <1>14, <1>20
  <2> QED
    BY <2>2, <2>3, <2>4
<1>22. \A i \in (end - 1) + 1..Len(a2) : a2[i] # Concat!Open
  <2> TAKE i \in (end - 1) + 1..Len(a2)
  <2>1. PICK open : open = Concat!Open
    OBVIOUS
  <2>2. \A p \in 1..f : file[p] # open
    BY Zenon, <1>7, <1>20, <2>1 DEF GoodFiles, Replaces, Concat!Open
  <2>3. i \in 1..(start - 1) + f /\ ~(i <= start - 1) /\ i - (start - 1) \in 1..f
    <3>1. start \in Int /\ end \in Int /\ end > start /\ start >= 1
      <4>1. /\ e \in Int /\ j \in Int /\ start \in Int /\ start >= 1
            /\ end = start + (e - j) /\ e > j
        BY SMTT(20), <1>2, <1>3, <1>4, <1>5
      <4> QED
        BY <4>1
    <3>2. i \in (end - 1) + 1..(start - 1) + f
      BY <1>14, <1>20
    <3> QED
      BY <3>1, <3>2
  <2>4. a2[i] = file[i - (start - 1)]
    BY <1>14, <1>20, <2>3
  <2> QED
    BY <2>1, <2>2, <2>3, <2>4
<1>23. Continues(template, x, a2, tail, e, end - 1)
  BY Zenon, <1>15, <1>16, <1>19, <1>21, <1>22 DEF Continues, Searched
<1> QED
  BY Zenon, <1>4, <1>7, <1>9, <1>12, <1>13, <1>23

(* A buffer that holds a text. *)
IsBuffer(b) == \E m : b \in [str : Texts, max_count : {m}]
Holding(b, text) == IsBuffer(b) /\ b.str = text

LEMMA RoomHolds ==
  ASSUME NEW b, IsBuffer(b), NEW new_len
  PROVE  Holding(Concat!WithRoom(b, new_len), b.str)
<1>1. CASE Concat!Fits(b, new_len)
  BY Zenon, <1>1 DEF Concat!WithRoom, Holding
<1>2. CASE ~Concat!Fits(b, new_len)
  <2>1. PICK m : b \in [str : Texts, max_count : {m}]
    BY DEF IsBuffer
  <2>2. PICK g : g = Concat!Grown(b.max_count, new_len)
    OBVIOUS
  <2>3. PICK r : r = [b EXCEPT !.max_count = g]
    OBVIOUS
  <2>4. r \in [str : Texts, max_count : {g}] /\ r.str = b.str
    BY <2>1, <2>3
  <2>5. Concat!WithRoom(b, new_len) = r
    BY Zenon, <1>2, <2>2, <2>3 DEF Concat!WithRoom
  <2> QED
    BY Zenon, <2>4, <2>5 DEF Holding, IsBuffer
<1> QED
  BY <1>1, <1>2

LEMMA TextIsPut ==
  ASSUME NEW b, IsBuffer(b), NEW text \in Texts
  PROVE  Holding([b EXCEPT !.str = text], text)
<1>1. PICK m : b \in [str : Texts, max_count : {m}]
  BY DEF IsBuffer
<1>2. PICK r : r = [b EXCEPT !.str = text]
  OBVIOUS
<1>3. r \in [str : Texts, max_count : {m}] /\ r.str = text
  BY <1>1, <1>2
<1> QED
  BY Zenon, <1>2, <1>3 DEF Holding, IsBuffer

LEMMA PartTyped ==
  ASSUME NEW s \in Texts, NEW p \in 0..Len(s)
  PROVE  /\ Concat!Before(s, p) \in Texts /\ Len(Concat!Before(s, p)) = p
         /\ Concat!After(s, p) \in Texts /\ Len(Concat!After(s, p)) = Len(s) - p
<1>1. PICK n \in Nat : n = Len(s)
  BY DEF Texts
<1>2. Concat!Before(s, p) \in Texts /\ Len(Concat!Before(s, p)) = p
  <2>1. 1 \in 1..n + 1 /\ p \in 1 - 1..n /\ p - 1 + 1 = p
    BY <1>1
  <2>2. SubSeq(s, 1, p) \in Texts /\ Len(SubSeq(s, 1, p)) = p - 1 + 1
    BY <1>1, <2>1, SubTyped
  <2> QED
    BY <2>1, <2>2 DEF Concat!Before
<1>3. Concat!After(s, p) \in Texts /\ Len(Concat!After(s, p)) = n - p
  <2>1. p + 1 \in 1..n + 1 /\ n \in (p + 1) - 1..n /\ n - (p + 1) + 1 = n - p
    BY <1>1
  <2>2. SubSeq(s, p + 1, n) \in Texts /\ Len(SubSeq(s, p + 1, n)) = n - (p + 1) + 1
    BY <1>1, <2>1, SubTyped
  <2> QED
    BY <1>1, <2>1, <2>2 DEF Concat!After
<1> QED
  BY <1>1, <1>2, <1>3

(* strbuf_delete takes out what is inside the text. *)
LEMMA DeletedText ==
  ASSUME NEW b, IsBuffer(b), NEW p \in 0..Len(b.str) - 1, NEW count \in Nat,
         p + count <= Len(b.str)
  PROVE  Holding(Concat!StrbufDelete(b, p, count),
                 Concat!Before(b.str, p) \o Concat!After(b.str, p + count))
<1>1. b.str \in Texts
  BY DEF IsBuffer
<1>2. PICK n \in Nat : n = Len(b.str)
  BY <1>1 DEF Texts
<1>3. PICK text \in Texts : text = Concat!Before(b.str, p) \o Concat!After(b.str, p + count)
  <2>1. p \in 0..Len(b.str) /\ p + count \in 0..Len(b.str)
    BY <1>2
  <2>2. Concat!Before(b.str, p) \in Texts /\ Concat!After(b.str, p + count) \in Texts
    BY <1>1, <2>1, PartTyped
  <2> QED
    BY <2>2, CatTyped
<1>4. Concat!StrbufDelete(b, p, count) = [b EXCEPT !.str = text]
  <2>1. ~(p >= Len(b.str) \/ p + count > Len(b.str))
    BY <1>2
  <2> QED
    BY Zenon, <1>3, <2>1 DEF Concat!StrbufDelete
<1> QED
  BY <1>3, <1>4, TextIsPut

(* strbuf_insertn puts a text in, unless it copies the tail wrong. *)
LEMMA InsertedText ==
  ASSUME NEW b, IsBuffer(b), NEW p \in 0..Len(b.str), NEW text \in Texts,
         NEW r \in Concat!StrbufInsertn(b, p, text),
         r.str = Concat!Before(b.str, p) \o text \o Concat!After(b.str, p)
  PROVE  Holding(r, Concat!Before(b.str, p) \o text \o Concat!After(b.str, p))
<1>1. b.str \in Texts
  BY DEF IsBuffer
<1>2. PICK n \in Nat : n = Len(b.str)
  BY <1>1 DEF Texts
<1>3. Concat!Min({p, n}) = p
  <2>1. {p, n} \in SUBSET Nat /\ {p, n} # {}
    BY <1>2
  <2>2. PICK q : q = Concat!Min({p, n})
    OBVIOUS
  <2>3. Concat!Min({p, n}) = Min({p, n})
    BY Zenon DEF Concat!Min, Min
  <2>4. q \in {p, n} /\ \A x \in {p, n} : q <= x
    BY <2>1, <2>2, <2>3, MinIsLeast
  <2>5. q = p
    BY <1>2, <2>4
  <2> QED
    BY <2>2, <2>5
<1>4. PICK tail \in Texts : tail = Concat!After(b.str, p)
  BY <1>1, PartTyped
<1>5. PICK head \in Texts : head = Concat!Before(b.str, p)
  BY <1>1, PartTyped
<1>7. PICK room : room = Concat!WithRoom(b, Len(b.str) + Len(text))
  OBVIOUS
<1>8. IsBuffer(room) /\ room.str = b.str
  BY <1>7, RoomHolds DEF Holding
<1>9. r = [room EXCEPT !.str = head \o text \o tail]
  <2>1. PICK v : r = [room EXCEPT !.str = v]
    BY Zenon, <1>2, <1>3, <1>7 DEF Concat!StrbufInsertn
  <2>2. r.str = v
    BY <1>8, <2>1 DEF IsBuffer
  <2> QED
    BY Zenon, <1>4, <1>5, <2>1, <2>2
<1>10. PICK whole \in Texts : whole = head \o text \o tail
  <2>1. head \o text \in Texts
    BY CatTyped
  <2> QED
    BY <2>1, CatTyped
<1> QED
  BY <1>4, <1>5, <1>8, <1>9, <1>10, TextIsPut

(* The loop: its state, and how far the text is made. *)
IsState(c) ==
  c \in [buf : {c.buf}, pos : {c.pos}, ended : {"no", "done", "error"}, damaged : BOOLEAN]
Underway(template, files, str, pos) ==
  LET x == Expansion(template, files) IN
  \E k, a : Searched(template, str, k, a, pos) /\ x[1] = a \o x[k + 1]

LEMMA PassStops ==
  ASSUME NEW template \in Texts, NEW files, GoodFiles(files),
         NEW str, NEW pos, Underway(template, files, str, pos),
         NEW start, start = Concat!FirstToken(str, Concat!Open, pos + 1),
         start = 0 \/ Concat!FirstToken(str, Concat!Close, start + 1) = 0
  PROVE  str = Expansion(template, files)[1]
<1>1. PICK x : x = Expansion(template, files)
  OBVIOUS
<1>2. Expands(template, files, x)
  BY <1>1, ExpansionIs
<1>3. PICK k, a : Searched(template, str, k, a, pos) /\ x[1] = a \o x[k + 1]
  BY Zenon, <1>1 DEF Underway
<1>4. \A j \in k + 1..Len(template) : ~IsPlaceholder(template, files, j)
  BY Zenon, <1>3, SearchFails
<1>5. MadeUpTo(template, str, k, a)
  BY <1>3 DEF Searched
<1>6. str = x[1]
  BY Zenon, <1>2, <1>3, <1>4, <1>5, AllMade
<1> QED
  BY <1>1, <1>6

(* A pass that replaces a placeholder by its file. *)
Advances(template, files, b, pos) ==
  IsBuffer(b) /\ pos \in Nat /\ Underway(template, files, b.str, pos)

RightText(cut, start, file) ==
  Concat!Before(cut.str, start - 1) \o file \o Concat!After(cut.str, start - 1)

LEMMA PassGoes ==
  ASSUME NEW template \in Texts, NEW files, GoodFiles(files), LongFiles(files),
         NEW b, IsBuffer(b), NEW pos \in Nat, Underway(template, files, b.str, pos),
         NEW start, start = Concat!FirstToken(b.str, Concat!Open, pos + 1), start # 0,
         NEW end, end = Concat!FirstToken(b.str, Concat!Close, start + 1), end # 0,
         NEW path, path = SubSeq(b.str, start + 1, end - 1), path \in DOMAIN files,
         NEW cut, cut = Concat!StrbufDelete(b, start - 1, end - start + 1),
         NEW filled \in Concat!StrbufInsertn(cut, start - 1, files[path]),
         filled.str = RightText(cut, start, files[path])
  PROVE  Advances(template, files, filled, end - 1)
<1>1. PICK x : x = Expansion(template, files)
  OBVIOUS
<1>2. PICK str \in Texts : str = b.str
  BY DEF IsBuffer
<1>3. PICK k, a : Searched(template, str, k, a, pos) /\ x[1] = a \o x[k + 1]
  BY Zenon, <1>1, <1>2 DEF Underway
<1>4. PICK n \in Nat : n = Len(str)
  BY <1>2 DEF Texts
<1>5. PICK file \in Texts : file = files[path]
  BY Zenon DEF GoodFiles
<1>6. start \in 1..n /\ end \in start + 1..n
  <2>1. PICK i : i = pos + 1
    OBVIOUS
  <2>2. i \in 1..Len(str) + 1
    <3>1. pos \in 0..Len(a) /\ MadeUpTo(template, str, k, a)
      BY <1>3 DEF Searched
    <3>2. PICK l \in Nat, m \in Nat : l = Len(a) /\ m = Len(template)
      BY <3>1 DEF MadeUpTo, Texts
    <3>3. k \in 0..m /\ pos \in 0..l
      BY <3>1, <3>2 DEF MadeUpTo
    <3>4. n = l + m - k
      <4>1. Len(str) = Len(a) + Len(template) - k
        BY <3>1, MadeUpToIs
      <4> QED
        BY Zenon, <1>4, <3>2, <4>1
    <3> QED
      BY <1>4, <2>1, <3>3, <3>4
  <2>3. start \in i..n
    BY <1>2, <1>4, <2>1, <2>2, FirstTokenIs
  <2>4. PICK s : s = start + 1
    OBVIOUS
  <2>5. s \in 1..Len(str) + 1
    <3>1. \A u \in 1..n + 1 : \A v \in u..n : v + 1 \in 1..n + 1
      OBVIOUS
    <3> QED
      BY Zenon, <1>4, <2>2, <2>3, <2>4, <3>1
  <2>6. end \in s..n
    BY <1>2, <1>4, <2>4, <2>5, FirstTokenIs
  <2> QED
    BY <1>4, <2>2, <2>3, <2>4, <2>6
<1>7. PICK j : Found(template, k, Len(a), start, end, j, path)
  BY Zenon, <1>2, <1>3, SearchFinds
<1>8. Replaces(template, files, x, str, k, a, start, end, j, path)
  <2>1. Expands(template, files, x)
    BY <1>1, ExpansionIs
  <2>2. MadeUpTo(template, str, k, a)
    BY <1>3 DEF Searched
  <2>3. Len(files[path]) >= Len(path) + 1
    BY Zenon DEF LongFiles
  <2> QED
    BY Zenon, <1>3, <1>7, <2>1, <2>2, <2>3 DEF Replaces
<1>9. PICK p \in 0..n - 1, count \in Nat :
        p = start - 1 /\ count = end - start + 1 /\ p + count = end /\ end - 1 \in Nat
  <2>1. \A u \in 1..n : \A v \in u + 1..n :
          u - 1 \in 0..n - 1 /\ v - u + 1 \in Nat /\ (u - 1) + (v - u + 1) = v /\ v - 1 \in Nat
    OBVIOUS
  <2>2. /\ start - 1 \in 0..n - 1 /\ end - start + 1 \in Nat
        /\ (start - 1) + (end - start + 1) = end /\ end - 1 \in Nat
    BY Zenon, <1>6, <2>1
  <2> QED
    BY Zenon, <2>2
<1>10. PICK head \in Texts : head = Concat!Before(str, p) /\ Len(head) = p
  <2>1. p \in 0..Len(str)
    BY <1>4, <1>9
  <2> QED
    BY <2>1, PartTyped
<1>11. PICK tail \in Texts : tail = Concat!After(str, end)
  <2>1. end \in 0..Len(str)
    BY <1>4, <1>6
  <2> QED
    BY <2>1, PartTyped
<1>12. IsBuffer(cut) /\ cut.str = head \o tail
  <2>1. p \in 0..Len(b.str) - 1 /\ p + count <= Len(b.str)
    BY <1>2, <1>4, <1>6, <1>9
  <2>2. Holding(Concat!StrbufDelete(b, p, count),
                Concat!Before(b.str, p) \o Concat!After(b.str, p + count))
    BY <2>1, DeletedText
  <2> QED
    BY Zenon, <1>2, <1>9, <1>10, <1>11, <2>2 DEF Holding
<1>13. PICK left \in Texts : left = head \o tail
  BY CatTyped
<1>14. p \in 0..Len(left) /\ Concat!Before(left, p) = head /\ Concat!After(left, p) = tail
  <2>1. Len(left) = p + Len(tail) /\ Len(tail) \in Nat
    <3>1. Len(left) = Len(head) + Len(tail)
      BY <1>13, CatIs
    <3>2. Len(tail) \in Nat
      BY DEF Texts
    <3> QED
      BY Zenon, <1>10, <3>1, <3>2
  <2>2. p \in 0..Len(left)
    BY <1>9, <2>1
  <2>3. SubSeq(left, 1, p) = head
    BY <1>10, <1>13, PrefixOf
  <2>4. SubSeq(left, p + 1, Len(left)) = tail
    BY SMTT(20), <1>10, <1>13, SuffixOf
  <2> QED
    BY <2>2, <2>3, <2>4 DEF Concat!Before, Concat!After
<1>15. Holding(filled, head \o file \o tail)
  <2>1. p \in 0..Len(cut.str)
    BY <1>12, <1>13, <1>14
  <2>2. /\ filled \in Concat!StrbufInsertn(cut, p, file)
        /\ filled.str = Concat!Before(cut.str, p) \o file \o Concat!After(cut.str, p)
    BY Zenon, <1>5, <1>9 DEF RightText
  <2>3. Holding(filled, Concat!Before(cut.str, p) \o file \o Concat!After(cut.str, p))
    BY <1>12, <2>1, <2>2, InsertedText
  <2> QED
    BY Zenon, <1>12, <1>13, <1>14, <2>3
<1>16. PICK a2 \in Texts : a2 = head \o file
  BY CatTyped
<1>17. PICK k2 : k2 = CloseAfter(template, j)
  OBVIOUS
<1>18. Continues(template, x, a2, tail, k2, end - 1)
  <2>1. a2 = SubSeq(str, 1, start - 1) \o files[path]
    BY Zenon, <1>5, <1>9, <1>10, <1>16 DEF Concat!Before
  <2>2. tail = SubSeq(str, end + 1, Len(str))
    BY Zenon, <1>11 DEF Concat!After
  <2>3. Continues(template, x, SubSeq(str, 1, start - 1) \o files[path],
                  SubSeq(str, end + 1, Len(str)), CloseAfter(template, j), end - 1)
    BY <1>8, ReplacedText
  <2> QED
    BY Zenon, <1>17, <2>1, <2>2, <2>3
<1>19. Searched(template, a2 \o tail, k2, a2, end - 1) /\ x[1] = a2 \o x[k2 + 1]
  BY Zenon, <1>18 DEF Continues
<1>20. filled.str = a2 \o tail /\ IsBuffer(filled)
  BY Zenon, <1>15, <1>16 DEF Holding
<1>21. end - 1 \in Nat
  BY Zenon, <1>9
<1> QED
  BY Zenon, <1>1, <1>19, <1>20, <1>21 DEF Underway, Advances

(* The values of the loop's state a pass changes. *)
Ended(c, how, d) ==
  IsState(d) /\ d.ended = how /\ d.buf = c.buf /\ (d.damaged <=> c.damaged)
Fails(c, d) == IsState(d) /\ d.ended = "error" /\ (d.damaged <=> c.damaged)
Moves(c, buf, pos, damaged, d) ==
  /\ IsState(d) /\ d.ended = c.ended /\ d.buf = buf /\ d.pos = pos
  /\ d.damaged <=> c.damaged \/ damaged

LEMMA EndedIs ==
  ASSUME NEW c, IsState(c), NEW how \in {"no", "done", "error"}
  PROVE  Ended(c, how, [c EXCEPT !.ended = how])
<1>1. PICK d : d = [c EXCEPT !.ended = how]
  OBVIOUS
<1>2. PICK b, p : b = c.buf /\ p = c.pos
  OBVIOUS
<1>3. PICK E : E = {"no", "done", "error"}
  OBVIOUS
<1>4. c \in [buf : {b}, pos : {p}, ended : E, damaged : BOOLEAN] /\ how \in E
  BY Zenon, <1>2, <1>3 DEF IsState
<1>5. d \in [buf : {b}, pos : {p}, ended : E, damaged : BOOLEAN]
  BY <1>1, <1>4
<1>6. d.buf = b /\ d.pos = p /\ d.ended = how /\ d.damaged = c.damaged
  BY <1>1, <1>2, <1>4
<1>7. IsState(d)
  BY Zenon, <1>3, <1>5, <1>6 DEF IsState
<1> QED
  BY Zenon, <1>1, <1>2, <1>6, <1>7 DEF Ended

Buffered(c, d) == IsState(d) /\ d.ended = c.ended /\ (d.damaged <=> c.damaged)

LEMMA BufferIs ==
  ASSUME NEW c, IsState(c), NEW buf
  PROVE  Buffered(c, [c EXCEPT !.buf = buf])
<1>1. PICK d : d = [c EXCEPT !.buf = buf]
  OBVIOUS
<1>2. PICK b, p : b = c.buf /\ p = c.pos
  OBVIOUS
<1>3. PICK E : E = {"no", "done", "error"}
  OBVIOUS
<1>4. c \in [buf : {b}, pos : {p}, ended : E, damaged : BOOLEAN]
  BY Zenon, <1>2, <1>3 DEF IsState
<1>5. d \in [buf : {buf}, pos : {p}, ended : E, damaged : BOOLEAN]
  BY <1>1, <1>4
<1>6. d.buf = buf /\ d.pos = p /\ d.ended = c.ended /\ d.damaged = c.damaged
  BY <1>1, <1>2, <1>4
<1>7. IsState(d)
  BY Zenon, <1>3, <1>5, <1>6 DEF IsState
<1> QED
  BY Zenon, <1>1, <1>6, <1>7 DEF Buffered

LEMMA MovesIs ==
  ASSUME NEW c, IsState(c), NEW buf, NEW pos, NEW damaged \in BOOLEAN,
         NEW d, d = [c EXCEPT !.buf = buf, !.pos = pos, !.damaged = @ \/ damaged]
  PROVE  Moves(c, buf, pos, damaged, d)
<1>1. PICK o \in BOOLEAN : o = (c.damaged \/ damaged)
  OBVIOUS
<1>2. d = [c EXCEPT !.buf = buf, !.pos = pos, !.damaged = o]
  BY Zenon, <1>1
<1>3. PICK b, p : b = c.buf /\ p = c.pos
  OBVIOUS
<1>4. PICK E : E = {"no", "done", "error"}
  OBVIOUS
<1>5. c \in [buf : {b}, pos : {p}, ended : E, damaged : BOOLEAN]
  BY Zenon, <1>3, <1>4 DEF IsState
<1>6. d \in [buf : {buf}, pos : {pos}, ended : E, damaged : BOOLEAN]
  BY <1>2, <1>5
<1>7. d.buf = buf /\ d.pos = pos /\ d.ended = c.ended /\ d.damaged = o
  BY <1>2, <1>5
<1>8. IsState(d)
  BY Zenon, <1>4, <1>6, <1>7 DEF IsState
<1> QED
  BY Zenon, <1>1, <1>7, <1>8 DEF Moves

(* What a pass does, of what it finds. *)
PassDone(c, start, end, d) ==
  /\ Ended(c, "done", d)
  /\ c.pos > Len(c.buf.str) \/ start = 0 \/ end = 0
PassMoves(c, files, start, end, path, cut, d) ==
  /\ start # 0 /\ end # 0 /\ path \in DOMAIN files
  /\ \E filled \in Concat!StrbufInsertn(cut, start - 1, files[path]) :
       Moves(c, filled, end - 1, filled.str # RightText(cut, start, files[path]), d)

Fillings(c, files, start, end, path, cut) ==
  {[c EXCEPT !.buf = filled, !.pos = end - 1,
             !.damaged = @ \/ filled.str # RightText(cut, start, files[path])] :
     filled \in Concat!StrbufInsertn(cut, start - 1, files[path])}

LEMMA PassIs ==
  ASSUME NEW c, IsState(c), NEW files, NEW d \in Concat!ConcatPass(c, files),
         NEW start, start = Concat!FirstToken(c.buf.str, Concat!Open, c.pos + 1),
         NEW end, end = Concat!FirstToken(c.buf.str, Concat!Close, start + 1),
         NEW path, path = SubSeq(c.buf.str, start + 1, end - 1),
         NEW cut, cut = Concat!StrbufDelete(c.buf, start - 1, end - start + 1)
  PROVE  \/ Fails(c, d)
         \/ PassDone(c, start, end, d)
         \/ PassMoves(c, files, start, end, path, cut, d)
<1>1. PICK err : err = [c EXCEPT !.ended = "error"]
  OBVIOUS
<1>2. PICK done : done = [c EXCEPT !.ended = "done"]
  OBVIOUS
<1>3. Ended(c, "error", err) /\ Ended(c, "done", done)
  <2>1. Ended(c, "error", [c EXCEPT !.ended = "error"])
    BY Zenon, EndedIs
  <2>2. Ended(c, "done", [c EXCEPT !.ended = "done"])
    BY Zenon, EndedIs
  <2> QED
    BY Zenon, <1>1, <1>2, <2>1, <2>2
<1>4. Fails(c, err)
  BY Zenon, <1>3 DEF Ended, Fails
<1>5. \/ d = err
      \/ d = done /\ (c.pos > Len(c.buf.str) \/ start = 0 \/ end = 0)
      \/ d = [err EXCEPT !.buf = cut]
      \/ /\ start # 0 /\ end # 0 /\ path \in DOMAIN files
         /\ \E filled \in Concat!StrbufInsertn(cut, start - 1, files[path]) :
              d = [c EXCEPT !.buf = filled, !.pos = end - 1,
                            !.damaged = @ \/ filled.str # RightText(cut, start, files[path])]
  <2>1. CASE c.pos > Len(c.buf.str)
    BY Zenon, <1>1, <1>2, <2>1 DEF Concat!ConcatPass
  <2>2. CASE ~(c.pos > Len(c.buf.str)) /\ start = 0
    BY Zenon, <1>1, <1>2, <2>2 DEF Concat!ConcatPass
  <2>3. CASE ~(c.pos > Len(c.buf.str)) /\ start # 0 /\ end = 0
    BY Zenon, <1>1, <1>2, <2>3 DEF Concat!ConcatPass
  <2>4. CASE ~(c.pos > Len(c.buf.str)) /\ start # 0 /\ end # 0 /\ path \notin DOMAIN files
    BY Zenon, <1>1, <1>2, <2>4 DEF Concat!ConcatPass
  <2>5. CASE ~(c.pos > Len(c.buf.str)) /\ start # 0 /\ end # 0 /\ path \in DOMAIN files
    <3>1. LET s == Concat!FirstToken(c.buf.str, Concat!Open, c.pos + 1)
              e == Concat!FirstToken(c.buf.str, Concat!Close, s + 1)
              p == SubSeq(c.buf.str, s + 1, e - 1)
              t == Concat!StrbufDelete(c.buf, s - 1, e - s + 1)
          IN  d \in {err} \cup (IF Concat!Fits(t, Len(t.str) + Len(files[p])) THEN {}
                               ELSE {[err EXCEPT !.buf = t]})
                \cup Fillings(c, files, s, e, p, t)
      BY ZenonT(40), <1>1, <2>5 DEF Concat!ConcatPass, RightText, Fillings
    <3>2. \/ d = err
          \/ d = [err EXCEPT !.buf = cut]
          \/ d \in Fillings(c, files, start, end, path, cut)
      BY Zenon, <3>1
    <3>3. d \in Fillings(c, files, start, end, path, cut) =>
            \E filled \in Concat!StrbufInsertn(cut, start - 1, files[path]) :
              d = [c EXCEPT !.buf = filled, !.pos = end - 1,
                            !.damaged = @ \/ filled.str # RightText(cut, start, files[path])]
      BY Zenon DEF Fillings
    <3> QED
      BY Zenon, <2>5, <3>2, <3>3
  <2> QED
    BY Zenon, <2>1, <2>2, <2>3, <2>4, <2>5
<1>6. ASSUME d = [err EXCEPT !.buf = cut]
      PROVE  Fails(c, d)
  <2>1. IsState(err) /\ err.ended = "error" /\ (err.damaged <=> c.damaged)
    BY Zenon, <1>4 DEF Fails
  <2>2. IsState(d) /\ d.ended = err.ended /\ (d.damaged <=> err.damaged)
    <3>1. Buffered(err, [err EXCEPT !.buf = cut])
      BY <2>1, BufferIs
    <3> QED
      BY Zenon, <1>6, <3>1 DEF Buffered
  <2> QED
    BY Zenon, <2>1, <2>2 DEF Fails
<1>7. ASSUME NEW filled,
             d = [c EXCEPT !.buf = filled, !.pos = end - 1,
                           !.damaged = @ \/ filled.str # RightText(cut, start, files[path])]
      PROVE  Moves(c, filled, end - 1, filled.str # RightText(cut, start, files[path]), d)
  <2>1. PICK wrong \in BOOLEAN : wrong = (filled.str # RightText(cut, start, files[path]))
    BY Zenon
  <2> QED
    BY Zenon, <1>7, <2>1, MovesIs
<1> QED
  BY ZenonT(40), <1>3, <1>4, <1>5, <1>6, <1>7 DEF PassDone, PassMoves

-----------------------------------------------------------------------------
(* The runs of file_concat                                                  *)

(* The loop goes on with a text that is made so far, or has stopped. *)
Goes(template, files, c) ==
  c.ended = "no" /\ Advances(template, files, c.buf, c.pos)
Stopped(template, files, c) ==
  \/ c.ended = "error"
  \/ c.ended = "done" /\ c.buf.str = Expansion(template, files)[1]
Right(template, files, c) ==
  IsState(c) /\ (c.damaged \/ Goes(template, files, c) \/ Stopped(template, files, c))

LEMMA PassKeeps ==
  ASSUME NEW template \in Texts, NEW files, GoodFiles(files), LongFiles(files),
         NEW c, Right(template, files, c), c.ended = "no",
         NEW d \in Concat!ConcatPass(c, files)
  PROVE  Right(template, files, d)
<1>1. PICK start : start = Concat!FirstToken(c.buf.str, Concat!Open, c.pos + 1)
  OBVIOUS
<1>2. PICK end : end = Concat!FirstToken(c.buf.str, Concat!Close, start + 1)
  OBVIOUS
<1>3. PICK path : path = SubSeq(c.buf.str, start + 1, end - 1)
  OBVIOUS
<1>4. PICK cut : cut = Concat!StrbufDelete(c.buf, start - 1, end - start + 1)
  OBVIOUS
<1>5. \/ Fails(c, d)
      \/ PassDone(c, start, end, d)
      \/ PassMoves(c, files, start, end, path, cut, d)
  BY Zenon, <1>1, <1>2, <1>3, <1>4, PassIs DEF Right
<1>6. c.damaged \/ Goes(template, files, c)
  <2>1. c.ended # "error" /\ c.ended # "done"
    OBVIOUS
  <2> QED
    BY Zenon, <2>1 DEF Right, Stopped
<1>7. CASE Fails(c, d)
  BY Zenon, <1>7 DEF Fails, Right, Stopped
<1>8. CASE PassDone(c, start, end, d)
  <2>1. CASE c.damaged
    BY Zenon, <1>8, <2>1 DEF PassDone, Ended, Right
  <2>2. CASE Goes(template, files, c)
    <3>1. start = 0 \/ end = 0
      <4>1. PICK k, a : Searched(template, c.buf.str, k, a, c.pos)
        BY Zenon, <2>2 DEF Goes, Advances, Underway
      <4>2. c.pos \in 0..Len(a) /\ MadeUpTo(template, c.buf.str, k, a)
        BY <4>1 DEF Searched
      <4>3. PICK l \in Nat, m \in Nat : l = Len(a) /\ m = Len(template)
        BY <4>2 DEF MadeUpTo, Texts
      <4>4. k \in 0..m
        BY <4>2, <4>3 DEF MadeUpTo
      <4>5. Len(c.buf.str) = l + m - k
        BY <4>2, <4>3, MadeUpToIs
      <4>6. ~(c.pos > Len(c.buf.str))
        BY <4>2, <4>3, <4>4, <4>5
      <4> QED
        BY Zenon, <1>8, <4>6 DEF PassDone
    <3>2. c.buf.str = Expansion(template, files)[1]
      BY Zenon, <1>1, <1>2, <2>2, <3>1, PassStops DEF Goes, Advances
    <3> QED
      BY Zenon, <1>8, <3>2 DEF PassDone, Ended, Right, Stopped
  <2> QED
    BY Zenon, <1>6, <2>1, <2>2
<1>9. CASE PassMoves(c, files, start, end, path, cut, d)
  <2>1. PICK filled \in Concat!StrbufInsertn(cut, start - 1, files[path]) :
          Moves(c, filled, end - 1, filled.str # RightText(cut, start, files[path]), d)
    BY Zenon, <1>9 DEF PassMoves
  <2> DEFINE over == filled.str # RightText(cut, start, files[path])
  <2>2. CASE c.damaged \/ over
    BY Zenon, <2>1, <2>2 DEF Moves, Right
  <2>3. CASE ~over /\ Goes(template, files, c)
    <3>1. Advances(template, files, filled, end - 1)
      <4>1. start # 0 /\ end # 0 /\ path \in DOMAIN files
        BY Zenon, <1>9 DEF PassMoves
      <4>2. Advances(template, files, c.buf, c.pos) /\ ~over
        BY Zenon, <2>3 DEF Goes
      <4> HIDE DEF over
      <4>3. PICK b, pos : b = c.buf /\ pos = c.pos
        OBVIOUS
      <4>4. IsBuffer(b) /\ pos \in Nat /\ Underway(template, files, b.str, pos)
        BY Zenon, <4>2, <4>3 DEF Advances
      <4>5. filled.str = RightText(cut, start, files[path])
        BY Zenon, <4>2 DEF over
      <4> QED
        <5>1. /\ start = Concat!FirstToken(b.str, Concat!Open, pos + 1)
              /\ path = SubSeq(b.str, start + 1, end - 1)
              /\ end = Concat!FirstToken(b.str, Concat!Close, start + 1)
              /\ cut = Concat!StrbufDelete(b, start - 1, end - start + 1)
          BY Zenon, <1>1, <1>2, <1>3, <1>4, <4>3
        <5>2. filled \in Concat!StrbufInsertn(cut, start - 1, files[path])
          BY Zenon, <2>1
        <5> QED
          BY ZenonT(40), <4>1, <4>4, <4>5, <5>1, <5>2, PassGoes
    <3> QED
      BY Zenon, <2>1, <3>1 DEF Moves, Right, Goes, Advances
  <2> QED
    BY Zenon, <1>6, <2>2, <2>3
<1> QED
  BY Zenon, <1>5, <1>7, <1>8, <1>9

(* What is made of a template so far. *)
Replaced ==
  job.kind = "concat" =>
    /\ job.template \in Texts /\ GoodFiles(job.files)
    /\ LongFiles(job.files) => Right(job.template, job.files, out)

LEMMA StartIsRight ==
  ASSUME NEW template \in Texts, NEW files, GoodFiles(files)
  PROVE  Right(template, files, Concat!ConcatStart(template))
<1>1. PICK c : c = Concat!ConcatStart(template)
  OBVIOUS
<1>2. PICK b : b = Concat!ReadFile(template)
  OBVIOUS
<1>3. Holding(b, template)
  <2>1. PICK m : m = Len(template) + 1
    OBVIOUS
  <2>2. PICK e : e = [str |-> <<>>, max_count |-> m]
    OBVIOUS
  <2>3. <<>> \in Texts
    BY DEF Texts
  <2>4. e \in [str : Texts, max_count : {m}]
    BY <2>2, <2>3
  <2>5. b = [e EXCEPT !.str = template]
    BY Zenon, <1>2, <2>1, <2>2 DEF Concat!ReadFile, Concat!StrbufAlloc
  <2> QED
    BY Zenon, <2>4, <2>5, TextIsPut DEF IsBuffer
<1>4. c = [buf |-> b, pos |-> 0, ended |-> "no", damaged |-> FALSE]
  BY Zenon, <1>1, <1>2 DEF Concat!ConcatStart
<1>5. IsState(c) /\ c.buf = b /\ c.pos = 0 /\ c.ended = "no"
  <2>1. PICK E : E = {"no", "done", "error"}
    OBVIOUS
  <2>2. "no" \in E
    BY <2>1
  <2>3. c \in [buf : {b}, pos : {0}, ended : E, damaged : BOOLEAN]
    BY <1>4, <2>2
  <2>4. c.buf = b /\ c.pos = 0 /\ c.ended = "no"
    BY <1>4
  <2> QED
    BY Zenon, <2>1, <2>3, <2>4 DEF IsState
<1>6. Underway(template, files, template, 0)
  <2>1. PICK x : x = Expansion(template, files)
    OBVIOUS
  <2>2. PICK n \in Nat : n = Len(template)
    BY DEF Texts
  <2>3. PICK a \in Texts : a = <<>>
    <3>1. <<>> \in Texts
      BY DEF Texts
    <3> QED
      BY <3>1
  <2>4. Len(a) = 0
    BY <2>3
  <2>5. MadeUpTo(template, template, 0, a)
    <3>1. SubSeq(template, 0 + 1, Len(template)) = template
      BY <2>2, SubSeqFull DEF Texts
    <3>2. a \o template = template
      BY <2>3, ConcatEmptySeq DEF Texts
    <3>3. 0 \in 0..Len(template)
      BY <2>2
    <3> QED
      BY Zenon, <3>1, <3>2, <3>3 DEF MadeUpTo
  <2>6. Searched(template, template, 0, a, 0)
    <3>1. 0 \in 0..Len(a) /\ \A i \in 0 + 1..Len(a) : a[i] # Concat!Open
      BY <2>4
    <3> QED
      BY Zenon, <2>5, <3>1 DEF Searched
  <2>7. x[1] = a \o x[0 + 1]
    <3>1. Expands(template, files, x)
      BY <2>1, ExpansionIs
    <3>2. 1 \in 1..Len(template) + 1
      BY <2>2
    <3>3. PICK t \in Texts : t = x[1]
      BY <3>1, <3>2 DEF Expands
    <3>4. a \o t = t
      BY <2>3, ConcatEmptySeq DEF Texts
    <3>5. 0 + 1 = 1
      OBVIOUS
    <3> QED
      BY Zenon, <3>3, <3>4, <3>5
  <2> QED
    BY Zenon, <2>1, <2>6, <2>7 DEF Underway
<1>7. 0 \in Nat
  OBVIOUS
<1> QED
  BY Zenon, <1>1, <1>3, <1>5, <1>6, <1>7 DEF Right, Goes, Advances, Holding

(* A template is a text: its pieces one after the other. *)
LEMMA FlattenTyped ==
  ASSUME NEW pieces \in Seq(Texts)
  PROVE  FlattenSeq(pieces) \in Texts
<1>1. PICK n \in Nat : n = Len(pieces)
  OBVIOUS
<1> DEFINE Solves(f) == f = [i \in 1..n |-> IF i = 1 THEN pieces[i] ELSE f[i - 1] \o pieces[i]]
           step == [i \in 1..n |-> [t \in Texts |-> t \o pieces[i]]]
<1>2. CASE n = 0
  <2>1. pieces = <<>>
    BY <1>1, <1>2, EmptySeq
  <2>2. <<>> \in Texts
    BY DEF Texts
  <2>3. FlattenSeq(pieces) = pieces
    BY Zenon, <1>1, <1>2 DEF FlattenSeq
  <2> QED
    BY <2>1, <2>2, <2>3
<1>3. CASE n # 0
  <2>1. \A i \in 1..n : pieces[i] \in Texts
    BY <1>1
  <2>2. IsStep(Texts, n, step)
    <3>1. \A i \in 1..n : \A t \in Texts : t \o pieces[i] \in Texts
      BY <2>1, CatTyped
    <3> QED
      BY <3>1 DEF IsStep
  <2>3. PICK e \in Texts : e = <<>>
    <3>1. <<>> \in Texts
      BY DEF Texts
    <3> QED
      BY <3>1
  <2>4. PICK f : Iterates(Texts, n, e, step, f)
    <3> HIDE DEF step
    <3> QED
      BY <2>2, RecursionExists
  <2>5. f \in [0..n -> Texts] /\ f[0] = e /\ \A i \in 1..n : f[i] = step[i][f[i - 1]]
    BY <2>4, Zenon DEF Iterates
  <2>6. \A i \in 1..n : f[i] = f[i - 1] \o pieces[i]
    <3> TAKE i \in 1..n
    <3>1. f[i - 1] \in Texts
      <4>1. i - 1 \in 0..n
        OBVIOUS
      <4> QED
        BY <2>5, <4>1
    <3>2. f[i] = step[i][f[i - 1]]
      BY <2>5
    <3> QED
      BY <3>1, <3>2
  <2>7. f[1] = pieces[1]
    <3>1. PICK p \in Texts : p = pieces[1]
      <4>1. 1 \in 1..n
        BY <1>3
      <4> QED
        BY <2>1, <4>1
    <3>2. 1 \in 1..n /\ 1 - 1 = 0
      BY <1>3
    <3>3. f[1] = e \o p
      BY <2>5, <2>6, <3>1, <3>2
    <3>4. e \o p = p
      BY <2>3, ConcatEmptySeq DEF Texts
    <3> QED
      BY <3>1, <3>3, <3>4
  <2>8. PICK h : h = [i \in 1..n |-> f[i]]
    OBVIOUS
  <2>9. Solves(h)
    <3>1. ASSUME NEW i \in 1..n
          PROVE  h[i] = IF i = 1 THEN pieces[i] ELSE h[i - 1] \o pieces[i]
      <4>1. h[i] = f[i]
        BY <2>8
      <4>2. CASE i = 1
        BY <2>7, <4>1, <4>2
      <4>3. CASE i # 1
        <5>1. i - 1 \in 1..n
          BY <4>3
        <5>2. h[i - 1] = f[i - 1]
          BY <2>8, <5>1
        <5> QED
          BY <2>6, <4>1, <4>3, <5>2
      <4> QED
        BY <4>2, <4>3
    <3>2. h = [i \in 1..n |-> h[i]]
      BY <2>8
    <3> QED
      BY <3>1, <3>2
  <2> DEFINE g == CHOOSE x : Solves(x)
  <2>10. Solves(g)
    BY Zenon, <2>9
  <2>11. FlattenSeq(pieces) = g[n]
    BY Zenon, <1>1, <1>3 DEF FlattenSeq
  <2> HIDE DEF g
  <2>12. \A i \in 1..n : g[i] = IF i = 1 THEN pieces[i] ELSE g[i - 1] \o pieces[i]
    BY <2>10
  <2> DEFINE G == {i \in 0..n : i # 0 => g[i] \in Texts}
  <2>13. 0 \in G
    OBVIOUS
  <2>14. ASSUME NEW i \in 1..n, i - 1 \in G
         PROVE  i \in G
    <3>1. i = 1 => g[i] \in Texts
      BY <2>1, <2>12
    <3>2. ASSUME i # 1
          PROVE  g[i] \in Texts
      <4>1. g[i - 1] \in Texts
        BY <2>14, <3>2
      <4>2. g[i] = g[i - 1] \o pieces[i]
        BY <2>12, <3>2
      <4>3. g[i - 1] \o pieces[i] \in Texts
        BY <2>1, <4>1, CatTyped
      <4> QED
        BY Zenon, <4>2, <4>3
    <3>3. g[i] \in Texts
      BY Zenon, <3>1, <3>2
    <3> QED
      BY <3>3
  <2>15. n \in G
    <3> HIDE DEF G
    <3>1. 0..n \subseteq G
      BY <2>13, <2>14, UpwardInduction
    <3> QED
      BY <3>1
  <2> QED
    BY <1>3, <2>11, <2>15
<1> QED
  BY <1>2, <1>3

LEMMA PiecesAreTexts == Piece \subseteq Texts
<1>1. ASSUME NEW S, NEW a \in S, NEW b \in S, NEW c \in S, NEW d \in S
      PROVE  /\ <<a>> \in Seq(S) /\ <<a, b, c>> \in Seq(S) /\ <<a, b, c, d>> \in Seq(S)
  OBVIOUS
<1>2. PICK S : S = Piecewise
  OBVIOUS
<1>3. PICK o, c, p, q, x : o = "{{" /\ c = "}}" /\ p = "p" /\ q = "q" /\ x = "x"
  BY Zenon
<1>4. o \in S /\ c \in S /\ p \in S /\ q \in S /\ x \in S
  BY Zenon, <1>2, <1>3 DEF Piecewise
<1>5. /\ <<o, p, c>> \in Seq(S) /\ <<o, p, q, c>> \in Seq(S)
      /\ <<x>> \in Seq(S) /\ <<o>> \in Seq(S) /\ <<c>> \in Seq(S)
  BY Zenon, <1>1, <1>4
<1> QED
  BY Zenon, <1>2, <1>3, <1>5 DEF Piece, Texts

LEMMA ContentIsText ==
  ASSUME NEW t \in Content
  PROVE  t \in Texts /\ \A i \in 1..Len(t) : t[i] # "{{"
<1>1. t \in Seq({"u", "v"})
  <2>1. MaxFile \in Nat
    BY BoundsAssumption
  <2> QED
    BY <2>1, UpToAreSequences DEF Content
<1>2. {"u", "v"} \subseteq Piecewise /\ "{{" \notin {"u", "v"}
  BY DEF Piecewise
<1>3. t \in Texts
  BY <1>1, <1>2, SeqMonotonic DEF Texts
<1>4. \A i \in 1..Len(t) : t[i] \in {"u", "v"}
  BY <1>1, ElementOfSeq
<1> QED
  BY <1>2, <1>3, <1>4

LEMMA ReplacedInit == Init => Replaced
<1> SUFFICES ASSUME Init
             PROVE  Replaced
  OBVIOUS
<1>1. CASE StartConcat
  <2> DEFINE Files(p, pq) ==
               [path \in IF pq = <<"missing">> THEN {<<"p">>} ELSE {<<"p">>, <<"p", "q">>} |->
                  IF path = <<"p">> THEN p ELSE pq]
  <2>1. PICK pieces \in UpTo(Piece, MaxPieces), p \in Content, pq \in Content \cup {<<"missing">>} :
          /\ job = [kind |-> "concat", template |-> FlattenSeq(pieces), files |-> Files(p, pq)]
          /\ out = Concat!ConcatStart(FlattenSeq(pieces))
    BY <1>1, Zenon DEF StartConcat
  <2>2. PICK template \in Texts : template = FlattenSeq(pieces)
    <3>1. pieces \in Seq(Piece)
      <4>1. MaxPieces \in Nat
        BY BoundsAssumption
      <4> QED
        BY <4>1, UpToAreSequences
    <3>2. pieces \in Seq(Texts)
      BY <3>1, PiecesAreTexts, SeqMonotonic
    <3> QED
      BY <3>2, FlattenTyped
  <2>3. PICK files : files = Files(p, pq)
    OBVIOUS
  <2>4. GoodFiles(files)
    <3>1. \A path \in DOMAIN files : files[path] \in Content
      <4>1. PICK q, pp : q = <<"p", "q">> /\ pp = <<"p">>
        OBVIOUS
      <4>2. PICK D : D = IF pq = <<"missing">> THEN {pp} ELSE {pp, q}
        OBVIOUS
      <4>3. files = [path \in D |-> IF path = pp THEN p ELSE pq]
        BY Zenon, <2>3, <4>1, <4>2
      <4>4. pq \in Content \/ D = {pp}
        BY Zenon, <4>2
      <4> QED
        BY <4>3, <4>4
    <3> QED
      BY Zenon, <3>1, ContentIsText DEF GoodFiles
  <2>5. job.template = template /\ job.files = files /\ out = Concat!ConcatStart(template)
    <3> HIDE DEF Files
    <3> QED
      BY <2>1, <2>2, <2>3
  <2>6. Right(template, files, out)
    BY <2>4, <2>5, StartIsRight
  <2> QED
    BY Zenon, <2>4, <2>5, <2>6 DEF Replaced
<1>2. CASE StartEvent \/ StartConfig \/ StartDigest \/ StartBase64
  <2>1. job.kind # "concat"
    <3>1. CASE StartEvent
      <4>1. PICK event, failing, size :
              job = [kind |-> "json", event |-> event, failing |-> failing, size |-> size]
        BY <3>1, Zenon DEF StartEvent
      <4> QED
        BY <4>1
    <3>2. CASE StartConfig
      <4>1. PICK text, asserts : job = [kind |-> "config", text |-> text, asserts |-> asserts]
        BY <3>2, Zenon DEF StartConfig
      <4> QED
        BY <4>1
    <3>3. CASE StartDigest
      BY <3>3 DEF StartDigest
    <3>4. CASE StartBase64
      BY <3>4 DEF StartBase64
    <3> QED
      BY <1>2, <3>1, <3>2, <3>3, <3>4
  <2> QED
    BY <2>1 DEF Replaced
<1> QED
  BY <1>1, <1>2 DEF Init

LEMMA ReplacedStep == Replaced /\ [Next]_vars => Replaced'
<1> SUFFICES ASSUME Replaced, [Next]_vars
             PROVE  Replaced'
  OBVIOUS
<1>1. CASE ReplacePlaceholder
  <2>1. /\ job.kind = "concat" /\ out.ended = "no"
        /\ out' \in Concat!ConcatPass(out, job.files) /\ job' = job
    BY Zenon, <1>1 DEF ReplacePlaceholder
  <2>2. PICK template, files : template \in Texts /\ template = job.template /\ files = job.files
    BY Zenon, <2>1 DEF Replaced
  <2>3. GoodFiles(files) /\ (LongFiles(files) => Right(template, files, out))
    BY Zenon, <2>1, <2>2 DEF Replaced
  <2>4. LongFiles(files) => Right(template, files, out')
    BY Zenon, <2>1, <2>2, <2>3, PassKeeps
  <2> QED
    BY Zenon, <2>1, <2>2, <2>3, <2>4 DEF Replaced
<1>2. CASE EncodeEvent \/ ReadConfig \/ ComputeDigest \/ EncodeBase64
  <2>1. job' = job /\ job.kind # "concat"
    BY <1>2 DEF EncodeEvent, ReadConfig, ComputeDigest, EncodeBase64
  <2> QED
    BY <2>1 DEF Replaced
<1>3. CASE UNCHANGED vars
  BY <1>3 DEF Replaced, vars
<1> QED
  BY <1>1, <1>2, <1>3 DEF Next

(* file_concat writes its template with every placeholder replaced, for    *)
(* templates and files of any length, if it reports no error, no file is   *)
(* shorter than its placeholder and no tail was copied wrong over itself.  *)
THEOREM PlaceholdersReplacedHolds == Spec => []PlaceholdersReplaced
<1>1. Replaced => PlaceholdersReplaced
  <2> SUFFICES ASSUME Replaced, job.kind = "concat", out.ended = "done",
                      LongFiles(job.files), ~out.damaged
               PROVE  out.buf.str = Expansion(job.template, job.files)[1]
    BY DEF PlaceholdersReplaced
  <2>1. Goes(job.template, job.files, out) \/ Stopped(job.template, job.files, out)
    BY Zenon DEF Replaced, Right
  <2>2. out.ended # "no" /\ out.ended # "error"
    OBVIOUS
  <2> QED
    BY Zenon, <2>1, <2>2 DEF Goes, Stopped
<1>2. Init => Replaced
  BY ReplacedInit
<1> QED
  BY <1>1, <1>2, ReplacedStep, PTL DEF Spec

-----------------------------------------------------------------------------
(* Configuration texts                                                      *)

Newline == "\n"
Return == "\r"
Equal == "="
Letters == {"a", "=", " ", "\r", "\n", Config!EOF}
Config_Text == Seq(Letters)
Blank(c) == c \in Config!Space
NoEof(text) == \A k \in 1..Len(text) : text[k] # Config!EOF

LEMMA BlankIs == Blank(Newline) /\ Blank(Return) /\ ~Blank(Equal) /\ Newline # Equal
<1>1. "\n" # "=" /\ "\r" # "=" /\ " " # "="
  OBVIOUS
<1> QED
  BY Zenon, <1>1 DEF Blank, Newline, Return, Equal, Config!Space

(* The first of some places up to n, or one past it. *)
IsFirst(e, n, i, P) == e \in i..n + 1 /\ (e <= n => e \in P) /\ \A k \in i..e - 1 : k \notin P

LEMMA FirstPlace ==
  ASSUME NEW n \in Nat, NEW i \in 1..n + 1, NEW P, P \subseteq i..n
  PROVE  IsFirst(Min(P \cup {n + 1}), n, i, P)
<1>1. PICK C : C = P \cup {n + 1}
  OBVIOUS
<1>2. C \in SUBSET Nat /\ n + 1 \in C
  BY <1>1
<1>3. PICK e : e = Min(C)
  OBVIOUS
<1>4. e \in C /\ \A x \in C : e <= x
  BY <1>2, <1>3, MinIsLeast
<1>5. e \in i..n + 1
  BY <1>1, <1>4
<1>6. e <= n => e \in P
  BY <1>1, <1>4
<1>7. ASSUME NEW k \in i..e - 1
      PROVE  k \notin P
  <2>1. ~(e <= k)
    BY <1>5
  <2> QED
    BY <1>1, <1>4, <2>1
<1> QED
  BY Zenon, <1>1, <1>3, <1>5, <1>6, <1>7 DEF IsFirst

LEMMA ConfigFirst ==
  ASSUME NEW text \in Config_Text, NEW i \in 1..Len(text) + 1, NEW P, P \subseteq i..Len(text)
  PROVE  IsFirst(Config!First(text, P), Len(text), i, P)
<1>1. PICK n \in Nat : n = Len(text)
  BY DEF Config_Text
<1>2. Config!First(text, P) = Min(P \cup {n + 1})
  BY Zenon, <1>1 DEF Config!First, Config!Min, Min
<1> QED
  BY <1>1, <1>2, FirstPlace

(* What the loops of read_config skip. *)
LEMMA NameAtIs ==
  ASSUME NEW text \in Config_Text, NEW i \in 1..Len(text) + 1, NEW e, e = Config!NameAt(text, i)
  PROVE  /\ e \in i..Len(text) + 1
         /\ e <= Len(text) => ~Blank(text[e])
         /\ \A k \in i..e - 1 : Blank(text[k])
<1>1. PICK n \in Nat : n = Len(text)
  BY DEF Config_Text
<1>2. PICK P : P = {k \in i..n : text[k] \notin Config!Space}
  OBVIOUS
<1>3. IsFirst(e, n, i, P)
  <2>1. P \subseteq i..Len(text)
    BY <1>1, <1>2
  <2>2. e = Config!First(text, P)
    BY Zenon, <1>1, <1>2 DEF Config!NameAt
  <2> QED
    BY <1>1, <2>1, <2>2, ConfigFirst
<1>4. \A k \in i..e - 1 : k \in i..n
  BY <1>1, <1>3 DEF IsFirst
<1> QED
  BY Zenon, <1>1, <1>2, <1>3, <1>4 DEF IsFirst, Blank

LEMMA NameEndIs ==
  ASSUME NEW text \in Config_Text, NEW i \in 1..Len(text) + 1, NEW e, e = Config!NameEnd(text, i)
  PROVE  /\ e \in i..Len(text) + 1
         /\ e <= Len(text) => Blank(text[e]) \/ text[e] = Equal
         /\ \A k \in i..e - 1 : ~Blank(text[k]) /\ text[k] # Equal
<1>1. PICK n \in Nat : n = Len(text)
  BY DEF Config_Text
<1>2. PICK P : P = {k \in i..n : text[k] \in Config!Space \cup {"="}}
  OBVIOUS
<1>3. IsFirst(e, n, i, P)
  <2>1. P \subseteq i..Len(text)
    BY <1>1, <1>2
  <2>2. e = Config!First(text, P)
    BY Zenon, <1>1, <1>2 DEF Config!NameEnd
  <2> QED
    BY <1>1, <2>1, <2>2, ConfigFirst
<1>4. \A k \in i..e - 1 : k \in i..n
  BY <1>1, <1>3 DEF IsFirst
<1> QED
  BY Zenon, <1>1, <1>2, <1>3, <1>4 DEF IsFirst, Blank, Equal

LEMMA SkipBlanksIs ==
  ASSUME NEW text \in Config_Text, NEW i \in 1..Len(text) + 1, NEW e, e = Config!SkipBlanks(text, i)
  PROVE  /\ e \in i..Len(text) + 1
         /\ e <= Len(text) => ~Blank(text[e]) \/ text[e] = Newline
         /\ \A k \in i..e - 1 : Blank(text[k]) /\ text[k] # Newline
<1>1. PICK n \in Nat : n = Len(text)
  BY DEF Config_Text
<1>2. PICK P : P = {k \in i..n : text[k] \notin Config!Space \/ text[k] = "\n"}
  OBVIOUS
<1>3. IsFirst(e, n, i, P)
  <2>1. P \subseteq i..Len(text)
    BY <1>1, <1>2
  <2>2. e = Config!First(text, P)
    BY Zenon, <1>1, <1>2 DEF Config!SkipBlanks
  <2> QED
    BY <1>1, <2>1, <2>2, ConfigFirst
<1>4. \A k \in i..e - 1 : k \in i..n
  BY <1>1, <1>3 DEF IsFirst
<1> QED
  BY Zenon, <1>1, <1>2, <1>3, <1>4 DEF IsFirst, Blank, Newline

LEMMA LineEndIs ==
  ASSUME NEW text \in Config_Text, NEW i \in 1..Len(text) + 1, NEW e, e = Config!LineEnd(text, i)
  PROVE  /\ e \in i..Len(text) + 1
         /\ e <= Len(text) => text[e] = Return \/ text[e] = Newline \/ text[e] = Config!EOF
         /\ \A k \in i..e - 1 : text[k] # Return /\ text[k] # Newline
<1>1. PICK n \in Nat : n = Len(text)
  BY DEF Config_Text
<1>2. PICK P : P = {k \in i..n : text[k] \in {"\r", "\n", Config!EOF}}
  OBVIOUS
<1>3. IsFirst(e, n, i, P)
  <2>1. P \subseteq i..Len(text)
    BY <1>1, <1>2
  <2>2. e = Config!First(text, P)
    BY Zenon, <1>1, <1>2 DEF Config!LineEnd
  <2> QED
    BY <1>1, <2>1, <2>2, ConfigFirst
<1>4. \A k \in i..e - 1 : k \in i..n
  BY <1>1, <1>3 DEF IsFirst
<1> QED
  BY Zenon, <1>1, <1>2, <1>3, <1>4 DEF IsFirst, Return, Newline

(* The end of a line of a text that ends with one. *)
LEMMA LineAtIs ==
  ASSUME NEW text \in Config_Text, NEW i \in 1..Len(text), text[Len(text)] = Newline,
         NEW e, e = LineAt(text, i)
  PROVE  e \in i..Len(text) /\ text[e] = Newline /\ \A k \in i..e - 1 : text[k] # Newline
<1>1. PICK n \in Nat : n = Len(text)
  BY DEF Config_Text
<1>2. PICK C : C = {k \in i..n : text[k] = Newline}
  OBVIOUS
<1>3. C \in SUBSET Nat /\ n \in C
  BY <1>1, <1>2
<1>4. e = Min(C)
  <2>1. C = C \cup {n}
    BY <1>3
  <2> QED
    BY Zenon, <1>1, <1>2, <2>1 DEF LineAt, Newline
<1>5. e \in C /\ \A x \in C : e <= x
  BY <1>3, <1>4, MinIsLeast
<1>6. ASSUME NEW k \in i..e - 1
      PROVE  text[k] # Newline
  <2>1. k \in i..n /\ ~(e <= k)
    BY <1>1, <1>2, <1>5
  <2> QED
    BY <1>2, <1>5, <2>1
<1> QED
  BY <1>1, <1>2, <1>5, <1>6

IsEquals(text, i, j, e) ==
  /\ e \in i..j
  /\ e < j => text[e] = Equal
  /\ \A k \in i..e - 1 : text[k] # Equal

LEMMA EqualsInIs ==
  ASSUME NEW text, NEW i \in Nat, NEW j \in Nat, i <= j
  PROVE  IsEquals(text, i, j, EqualsIn(text, i, j))
<1>0. PICK e : e = EqualsIn(text, i, j)
  OBVIOUS
<1>1. PICK C : C = {k \in i..j : text[k] = Equal} \cup {j}
  OBVIOUS
<1>2. C \in SUBSET Nat /\ j \in C
  BY <1>1
<1>3. e = Min(C)
  BY Zenon, <1>0, <1>1 DEF EqualsIn, Equal
<1>4. e \in C /\ \A x \in C : e <= x
  BY <1>2, <1>3, MinIsLeast
<1>5. ASSUME NEW k \in i..e - 1
      PROVE  text[k] # Equal
  <2>1. k \in i..j /\ ~(e <= k)
    BY <1>1, <1>4
  <2> QED
    BY <1>1, <1>4, <2>1
<1>6. IsEquals(text, i, j, e)
  BY <1>1, <1>4, <1>5 DEF IsEquals
<1> QED
  BY Zenon, <1>0, <1>6

-----------------------------------------------------------------------------
(* Lines and their items                                                    *)

LEMMA SolidIs ==
  ASSUME NEW text, NEW i, NEW j, NEW k
  PROVE  k \in Solid(text, i, j) <=> k \in i..j /\ ~Blank(text[k])
BY DEF Solid, Blank

LEMMA StrippedBlank ==
  ASSUME NEW text, NEW i \in Int, NEW j \in Int, \A k \in i..j : Blank(text[k])
  PROVE  Solid(text, i, j) = {} /\ Stripped(text, i, j) = <<>>
<1>1. Solid(text, i, j) = {}
  BY SolidIs
<1> QED
  BY Zenon, <1>1 DEF Stripped

(* A part of a text without the blanks around it. *)
LEMMA StrippedIs ==
  ASSUME NEW text, NEW i \in Nat, NEW j \in Nat, NEW a \in i..j, NEW b \in a..j,
         ~Blank(text[a]), ~Blank(text[b]),
         \A k \in i..a - 1 : Blank(text[k]), \A k \in b + 1..j : Blank(text[k])
  PROVE  Solid(text, i, j) # {} /\ Stripped(text, i, j) = SubSeq(text, a, b)
<1>1. PICK C : C = Solid(text, i, j)
  OBVIOUS
<1>2. \A k : k \in C <=> k \in i..j /\ ~Blank(text[k])
  BY Zenon, <1>1, SolidIs
<1>3. a \in C /\ b \in C /\ C \subseteq i..j
  BY <1>2
<1>4. \A x \in C : a <= x /\ x <= b
  <2> TAKE x \in C
  <2>1. x \in i..j /\ x \notin i..a - 1 /\ x \notin b + 1..j
    BY <1>2
  <2> QED
    BY <2>1
<1>5. Min(C) = a
  <2>1. C \in SUBSET Nat /\ C # {}
    BY <1>3
  <2>2. PICK m : m = Min(C)
    OBVIOUS
  <2>3. m \in C /\ \A x \in C : m <= x
    BY <2>1, <2>2, MinIsLeast
  <2>4. m <= a /\ a <= m /\ m \in Nat
    BY <1>3, <1>4, <2>1, <2>3
  <2> QED
    BY <2>2, <2>4
<1>6. Max(C) = b
  <2>1. \A x \in C : b >= x
    BY <1>3, <1>4
  <2>2. \A x \in C : (\A y \in C : x >= y) => x = b
    <3> SUFFICES ASSUME NEW x \in C, \A y \in C : x >= y
                 PROVE  x = b
      OBVIOUS
    <3>1. x >= b /\ x <= b /\ x \in Nat /\ b \in Nat
      BY <1>3, <1>4
    <3> QED
      BY <3>1
  <2> QED
    BY Zenon, <1>3, <2>1, <2>2 DEF Max
<1>7. C # {}
  BY <1>3
<1> QED
  BY Zenon, <1>1, <1>5, <1>6, <1>7 DEF Stripped

(* The same part without its first character. *)
LEMMA BlankFirst ==
  ASSUME NEW text, NEW i \in Nat, NEW j \in Int, Blank(text[i])
  PROVE  /\ Solid(text, i, j) = Solid(text, i + 1, j)
         /\ Stripped(text, i, j) = Stripped(text, i + 1, j)
<1>1. ASSUME NEW k
      PROVE  k \in Solid(text, i, j) <=> k \in Solid(text, i + 1, j)
  <2>1. k \in i..j /\ ~Blank(text[k]) <=> k \in i + 1..j /\ ~Blank(text[k])
    OBVIOUS
  <2> QED
    BY Zenon, <2>1, SolidIs
<1>2. Solid(text, i, j) = Solid(text, i + 1, j)
  BY <1>1
<1> QED
  BY Zenon, <1>2 DEF Stripped

(* The items of a text, and what a text that is read is made of. *)
Item == [name : Config_Text, value : Config_Text]
Lined(text) == text \in Config_Text /\ NoEof(text) /\ (Len(text) > 0 => text[Len(text)] = Newline)
Listed(text, x, k) ==
  IF k > Len(text) THEN <<>> ELSE ItemsOf(text, k, LineAt(text, k)) \o x[LineAt(text, k) + 1]

LEMMA StrippedTyped ==
  ASSUME NEW text \in Config_Text, NEW i \in 1..Len(text) + 1, NEW j \in 0..Len(text)
  PROVE  Stripped(text, i, j) \in Config_Text
<1>1. PICK n \in Nat : n = Len(text)
  BY DEF Config_Text
<1>2. CASE Solid(text, i, j) = {}
  <2>1. <<>> \in Config_Text
    BY DEF Config_Text
  <2> QED
    BY Zenon, <1>2, <2>1 DEF Stripped
<1>3. CASE Solid(text, i, j) # {}
  <2>1. PICK C : C = Solid(text, i, j)
    OBVIOUS
  <2>2. C \subseteq i..j /\ C # {}
    BY <1>3, <2>1 DEF Solid
  <2>3. PICK a : a = Min(C) /\ a \in C
    <3>1. C \in SUBSET Nat
      BY <1>1, <2>2
    <3> QED
      BY <2>2, <3>1, MinIsLeast
  <2>4. PICK b : b = Max(C)
    OBVIOUS
  <2>5. b \in Int /\ b <= n
    <3>1. \E m \in C : \A y \in C : m >= y
      <4> DEFINE D == {j - y : y \in C}
      <4>1. D \in SUBSET Nat /\ D # {}
        <5>1. ASSUME NEW y \in C
              PROVE  j - y \in Nat
          <6>1. y \in i..j /\ i \in Nat /\ j \in Nat
            BY <1>1, <2>2
          <6> QED
            BY <6>1
        <5>2. PICK y \in C : TRUE
          BY <2>2
        <5>3. j - y \in D
          OBVIOUS
        <5> QED
          BY <5>1, <5>3
      <4>2. PICK d : d = Min(D)
        OBVIOUS
      <4>3. d \in D /\ \A z \in D : d <= z
        <5> HIDE DEF D
        <5> QED
          BY <4>1, <4>2, MinIsLeast
      <4>4. PICK m \in C : d = j - m
        BY <4>3
      <4>5. ASSUME NEW y \in C
            PROVE  m >= y
        <5>1. j - m <= j - y
          BY <4>3, <4>4
        <5>2. m \in Int /\ y \in Int /\ j \in Int
          BY <1>1, <2>2
        <5> QED
          BY <5>1, <5>2
      <4> QED
        BY <4>4, <4>5
    <3>2. b \in C
      BY <2>4, <3>1 DEF Max
    <3> QED
      BY <1>1, <2>2, <3>2
  <2>6. \A l \in a..b : text[l] \in Letters
    <3>1. \A l \in a..b : l \in 1..Len(text)
      BY <1>1, <2>2, <2>3, <2>5
    <3> QED
      BY <3>1 DEF Config_Text
  <2>7. SubSeq(text, a, b) \in Config_Text
    <3>1. a \in Int
      BY <1>1, <2>2, <2>3
    <3> QED
      BY <2>5, <2>6, <3>1, SubSeqProperties DEF Config_Text
  <2> QED
    BY Zenon, <1>3, <2>1, <2>3, <2>4, <2>7 DEF Stripped
<1> QED
  BY <1>2, <1>3

LEMMA ItemsOfTyped ==
  ASSUME NEW text \in Config_Text, NEW i \in 1..Len(text), NEW j \in i..Len(text)
  PROVE  ItemsOf(text, i, j) \in Seq(Item)
<1>1. PICK n \in Nat : n = Len(text)
  BY DEF Config_Text
<1>2. PICK e : e = EqualsIn(text, i, j)
  OBVIOUS
<1>3. e \in i..j
  <2>1. i \in Nat /\ j \in Nat /\ i <= j
    BY <1>1
  <2> QED
    BY Zenon, <1>2, <2>1, EqualsInIs DEF IsEquals
<1>4. PICK name \in Config_Text : name = Stripped(text, i, e - 1)
  <2>1. i \in 1..Len(text) + 1 /\ e - 1 \in 0..Len(text)
    BY <1>1, <1>3
  <2> QED
    BY <2>1, StrippedTyped
<1>5. PICK value \in Config_Text : value = Stripped(text, e + 1, j)
  <2>1. e + 1 \in 1..Len(text) + 1 /\ j \in 0..Len(text)
    BY <1>1, <1>3
  <2> QED
    BY <2>1, StrippedTyped
<1>6. [name |-> name, value |-> value] \in Item
  BY DEF Item
<1>7. ASSUME NEW S, NEW x \in S
      PROVE  <<x>> \in Seq(S) /\ <<>> \in Seq(S)
  OBVIOUS
<1>8. <<[name |-> name, value |-> value]>> \in Seq(Item) /\ <<>> \in Seq(Item)
  BY Zenon, <1>6, <1>7
<1> QED
  BY Zenon, <1>2, <1>4, <1>5, <1>8 DEF ItemsOf

ItemSeqs == Seq(Item)
IsItems(text, x) ==
  \A k \in 1..Len(text) + 1 : x[k] \in ItemSeqs /\ x[k] = Listed(text, x, k)

LEMMA ListedTyped ==
  ASSUME NEW text, Lined(text), NEW x, NEW k \in 1..Len(text) + 1,
         \A i \in k + 1..Len(text) + 1 : x[i] \in ItemSeqs
  PROVE  Listed(text, x, k) \in ItemSeqs
<1>1. PICK n \in Nat : n = Len(text)
  BY DEF Lined, Config_Text
<1>2. CASE k > Len(text)
  <2>1. <<>> \in ItemSeqs
    BY DEF ItemSeqs
  <2> QED
    BY Zenon, <1>2, <2>1 DEF Listed
<1>3. CASE ~(k > Len(text))
  <2>1. k \in 1..Len(text) /\ Len(text) > 0
    BY <1>1, <1>3
  <2>2. PICK j \in k..Len(text) : j = LineAt(text, k)
    BY <2>1, LineAtIs DEF Lined
  <2>3. PICK s \in ItemSeqs : s = ItemsOf(text, k, j)
    BY Zenon, <2>1, <2>2, ItemsOfTyped DEF Lined, ItemSeqs
  <2>4. PICK u \in ItemSeqs : u = x[j + 1]
    <3>1. j + 1 \in k + 1..Len(text) + 1
      BY <1>1, <2>1
    <3> QED
      BY <3>1
  <2>5. s \o u \in ItemSeqs
    BY DEF ItemSeqs
  <2> QED
    BY Zenon, <1>3, <2>2, <2>3, <2>4, <2>5 DEF Listed
<1> QED
  BY <1>2, <1>3

LEMMA ListedSame ==
  ASSUME NEW text, Lined(text), NEW x, NEW y, NEW k \in 1..Len(text) + 1,
         \A i \in k + 1..Len(text) + 1 : x[i] = y[i]
  PROVE  Listed(text, x, k) = Listed(text, y, k)
<1>1. PICK n \in Nat : n = Len(text)
  BY DEF Lined, Config_Text
<1>2. CASE k > Len(text)
  BY Zenon, <1>2 DEF Listed
<1>3. CASE ~(k > Len(text))
  <2>1. k \in 1..Len(text) /\ Len(text) > 0
    BY <1>1, <1>3
  <2>2. PICK j \in k..Len(text) : j = LineAt(text, k)
    BY <2>1, LineAtIs DEF Lined
  <2>3. x[j + 1] = y[j + 1]
    <3>1. j + 1 \in k + 1..Len(text) + 1
      BY <1>1, <2>1
    <3> QED
      BY <3>1
  <2> QED
    BY Zenon, <1>3, <2>2, <2>3 DEF Listed
<1> QED
  BY <1>2, <1>3

LEMMA ItemsIs ==
  ASSUME NEW text, Lined(text)
  PROVE  IsItems(text, Items(text))
<1>1. PICK n \in Nat : n = Len(text)
  BY DEF Lined, Config_Text
<1>2. PICK m \in Nat : m = n + 1
  OBVIOUS
<1> DEFINE Solves(f) == f = [k \in 1..n + 1 |-> Listed(text, f, k)]
           step == [k \in 1..m |-> [t \in [1..m -> ItemSeqs] |-> Listed(text, t, k)]]
<1>3. ASSUME NEW k \in 1..m, NEW t \in [1..m -> ItemSeqs]
      PROVE  Listed(text, t, k) \in ItemSeqs
  <2>1. \A i \in k + 1..Len(text) + 1 : t[i] \in ItemSeqs
    BY <1>1, <1>2
  <2> QED
    BY <1>1, <1>2, <2>1, ListedTyped
<1>4. ASSUME NEW k \in 1..m, NEW t \in [1..m -> ItemSeqs], NEW u \in [1..m -> ItemSeqs],
             \A i \in k + 1..m : t[i] = u[i]
      PROVE  Listed(text, t, k) = Listed(text, u, k)
  BY <1>1, <1>2, <1>4, ListedSame
<1>5. LooksAhead(ItemSeqs, m, step)
  <2>1. step \in [1..m -> [[1..m -> ItemSeqs] -> ItemSeqs]]
    BY <1>3
  <2>2. ASSUME NEW k \in 1..m, NEW t \in [1..m -> ItemSeqs], NEW u \in [1..m -> ItemSeqs],
               \A i \in k + 1..m : t[i] = u[i]
        PROVE  step[k][t] = step[k][u]
    <3>1. Listed(text, t, k) = Listed(text, u, k)
      BY <1>4, <2>2
    <3> QED
      BY <3>1
  <2> HIDE DEF step
  <2> QED
    BY <2>1, <2>2 DEF LooksAhead
<1>6. \A k \in 1..m : \A t \in [1..m -> ItemSeqs] : step[k][t] = Listed(text, t, k)
  OBVIOUS
<1>7. PICK f : Solved(ItemSeqs, m, step, f)
  <2>1. ItemSeqs # {}
    <3>1. <<>> \in ItemSeqs
      BY DEF ItemSeqs
    <3> QED
      BY <3>1
  <2> HIDE DEF step
  <2> QED
    BY <1>5, <2>1, DownwardRecursion
<1>8. f \in [1..m -> ItemSeqs] /\ \A k \in 1..m : f[k] = Listed(text, f, k)
  <2> HIDE DEF step
  <2> QED
    BY <1>6, <1>7 DEF Solved
<1>9. Solves(f)
  BY <1>2, <1>8
<1>10. PICK x : x = Items(text)
  OBVIOUS
<1>11. x = CHOOSE g : Solves(g)
  BY Zenon, <1>1, <1>10 DEF Items, Listed
<1>12. Solves(x)
  <2> HIDE DEF Solves
  <2> QED
    BY Zenon, <1>9, <1>11
<1>13. \A k \in 1..m : x[k] = Listed(text, x, k)
  BY <1>2, <1>12
<1> DEFINE H == {k \in 1..m : x[k] \in ItemSeqs}
<1>14. ASSUME NEW k \in 1..m, \A i \in k + 1..m : i \in H
       PROVE  k \in H
  <2>1. \A i \in k + 1..Len(text) + 1 : x[i] \in ItemSeqs
    BY <1>1, <1>2, <1>14
  <2>2. Listed(text, x, k) \in ItemSeqs
    BY <1>1, <1>2, <2>1, ListedTyped
  <2> QED
    BY <1>13, <2>2
<1>15. 1..m \subseteq H
  <2> HIDE DEF H
  <2> QED
    BY <1>14, DownwardInduction
<1>16. \A k \in 1..Len(text) + 1 : x[k] \in ItemSeqs /\ x[k] = Listed(text, x, k)
  BY <1>1, <1>2, <1>13, <1>15
<1> QED
  BY Zenon, <1>10, <1>16 DEF IsItems

(* What is found from place k on is what is found from place l on. *)
PlainAt(text, k) == k <= Len(text) => PlainLine(text, k, LineAt(text, k))
Ahead(text, x, k, l) == x[k] = x[l] /\ (PlainAt(text, k) => PlainAt(text, l))
Reads(text, x) == Lined(text) /\ Plain(text) /\ IsItems(text, x)

(* A line starts behind a newline. *)
LEMMA LineStart ==
  ASSUME NEW text, Lined(text), Plain(text), NEW k \in 1..Len(text), text[k] = Newline
  PROVE  PlainAt(text, k + 1)
<1>1. PICK n \in Nat : n = Len(text)
  BY DEF Lined, Config_Text
<1>2. SUFFICES ASSUME k + 1 <= n
               PROVE  PlainLine(text, k + 1, LineAt(text, k + 1))
  BY Zenon, <1>1 DEF PlainAt
<1>3. k + 1 \in 1..Len(text) /\ (k + 1) - 1 = k
  BY <1>1, <1>2
<1>4. text[(k + 1) - 1] = "\n"
  BY <1>3 DEF Newline
<1> QED
  BY Zenon, <1>3, <1>4 DEF Plain

LEMMA LineAtNext ==
  ASSUME NEW text, Lined(text), NEW k \in 1..Len(text), text[k] # Newline
  PROVE  /\ k + 1 \in 1..Len(text)
         /\ LineAt(text, k) \in k + 1..Len(text)
         /\ LineAt(text, k + 1) = LineAt(text, k)
<1>1. PICK n \in Nat : n = Len(text)
  BY DEF Lined, Config_Text
<1>2. text[n] = Newline /\ text[Len(text)] = Newline
  BY <1>1 DEF Lined
<1>3. k + 1 \in 1..Len(text)
  BY <1>1, <1>2
<1>4. PICK j : j = LineAt(text, k)
  OBVIOUS
<1>5. j \in k..n /\ text[j] = Newline /\ \A l \in k..j - 1 : text[l] # Newline
  BY <1>1, <1>2, <1>4, LineAtIs DEF Lined
<1>6. PICK e : e = LineAt(text, k + 1)
  OBVIOUS
<1>7. e \in k + 1..n /\ text[e] = Newline /\ \A l \in k + 1..e - 1 : text[l] # Newline
  BY <1>1, <1>2, <1>3, <1>6, LineAtIs DEF Lined
<1>8. j # k
  BY <1>5
<1>9. ~(j < e)
  <2>1. j < e => j \in k + 1..e - 1
    BY <1>5, <1>7, <1>8
  <2> QED
    BY <1>5, <1>7, <2>1
<1>10. ~(e < j)
  <2>1. e < j => e \in k..j - 1
    BY <1>5, <1>7
  <2> QED
    BY <1>5, <1>7, <2>1
<1>11. e = j /\ j \in k + 1..n
  BY <1>1, <1>5, <1>7, <1>8, <1>9, <1>10
<1> QED
  BY <1>1, <1>3, <1>4, <1>6, <1>11

LEMMA EqualsNext ==
  ASSUME NEW text, NEW k \in Nat, NEW j \in Nat, k < j, text[k] # Equal
  PROVE  EqualsIn(text, k, j) \in k + 1..j /\ EqualsIn(text, k + 1, j) = EqualsIn(text, k, j)
<1>1. PICK e : e = EqualsIn(text, k, j)
  OBVIOUS
<1>2. e \in k..j /\ (e < j => text[e] = Equal) /\ \A l \in k..e - 1 : text[l] # Equal
  <2>1. k <= j
    OBVIOUS
  <2> QED
    BY Zenon, <1>1, <2>1, EqualsInIs DEF IsEquals
<1>3. PICK f : f = EqualsIn(text, k + 1, j)
  OBVIOUS
<1>4. f \in k + 1..j /\ (f < j => text[f] = Equal) /\ \A l \in k + 1..f - 1 : text[l] # Equal
  <2>1. k + 1 \in Nat /\ k + 1 <= j
    OBVIOUS
  <2> QED
    BY Zenon, <1>3, <2>1, EqualsInIs DEF IsEquals
<1>5. e # k
  BY <1>2
<1>6. ~(e < f)
  <2>1. e < f => e \in k + 1..f - 1 /\ e < j
    BY <1>2, <1>4, <1>5
  <2> QED
    BY <1>2, <1>4, <2>1
<1>7. ~(f < e)
  <2>1. f < e => f \in k..e - 1 /\ f < j
    BY <1>2, <1>4
  <2> QED
    BY <1>2, <1>4, <2>1
<1>8. e = f /\ e \in k + 1..j
  BY <1>2, <1>4, <1>5, <1>6, <1>7
<1> QED
  BY <1>1, <1>3, <1>8

(* Nothing in front of a sequence of items. *)
LEMMA NothingBefore ==
  ASSUME NEW s \in ItemSeqs
  PROVE  <<>> \o s = s
BY DEF ItemSeqs

(* A blank is skipped. *)
LEMMA BlankAhead ==
  ASSUME NEW text, NEW x, Reads(text, x), NEW k \in 1..Len(text), Blank(text[k])
  PROVE  Ahead(text, x, k, k + 1)
<1>1. PICK n \in Nat : n = Len(text)
  BY DEF Reads, Lined, Config_Text
<1>2. PICK j : j = LineAt(text, k)
  OBVIOUS
<1>3. ~(k > Len(text)) /\ k \in 1..Len(text) + 1 /\ k + 1 \in 1..Len(text) + 1 /\ k \in Nat
  BY <1>1
<1>4. x[k] = ItemsOf(text, k, j) \o x[j + 1]
  BY Zenon, <1>2, <1>3 DEF Reads, IsItems, Listed
<1>5. x[k + 1] \in ItemSeqs /\ x[k + 1] = Listed(text, x, k + 1)
  BY Zenon, <1>3 DEF Reads, IsItems
<1>6. CASE text[k] = Newline
  <2>1. j = k
    <3>1. text[Len(text)] = Newline
      BY <1>1, <1>3 DEF Reads, Lined
    <3>2. j \in k..n /\ \A l \in k..j - 1 : text[l] # Newline
      BY <1>1, <1>2, <3>1, LineAtIs DEF Reads, Lined
    <3>3. k < j => k \in k..j - 1
      BY <1>1, <3>2
    <3> QED
      BY <1>1, <1>6, <3>2, <3>3
  <2>2. EqualsIn(text, k, k) = k
    <3>1. k <= k
      OBVIOUS
    <3>2. EqualsIn(text, k, k) \in k..k
      BY Zenon, <1>3, <3>1, EqualsInIs DEF IsEquals
    <3> QED
      BY <1>3, <3>2
  <2>3. Stripped(text, k + 1, k) = <<>>
    <3>1. k + 1 \in Int /\ k \in Int /\ \A l \in k + 1..k : Blank(text[l])
      BY <1>3
    <3> QED
      BY <3>1, StrippedBlank
  <2>4. ItemsOf(text, k, j) = <<>>
    BY Zenon, <2>1, <2>2, <2>3 DEF ItemsOf
  <2>5. x[k] = x[k + 1]
    BY Zenon, <1>4, <1>5, <2>1, <2>4, NothingBefore
  <2>6. PlainAt(text, k + 1)
    BY <1>6, LineStart DEF Reads
  <2> QED
    BY Zenon, <2>5, <2>6 DEF Ahead
<1>7. CASE text[k] # Newline
  <2>1. k + 1 \in 1..Len(text) /\ j \in k + 1..Len(text) /\ LineAt(text, k + 1) = j
    BY <1>2, <1>7, LineAtNext DEF Reads
  <2>2. PICK e : e = EqualsIn(text, k, j)
    OBVIOUS
  <2>3. text[k] # Equal
    BY Zenon, BlankIs
  <2>4. e \in k + 1..j /\ EqualsIn(text, k + 1, j) = e
    <3>1. j \in Nat /\ k < j
      BY <1>1, <1>3, <2>1
    <3> QED
      BY <1>3, <2>2, <2>3, <3>1, EqualsNext
  <2>5. /\ Solid(text, k, e - 1) = Solid(text, k + 1, e - 1)
        /\ Stripped(text, k, e - 1) = Stripped(text, k + 1, e - 1)
    <3>1. e - 1 \in Int
      BY <1>3, <2>4
    <3> QED
      BY <1>3, <3>1, BlankFirst
  <2>6. Solid(text, k, j) = Solid(text, k + 1, j)
    <3>1. j \in Int
      BY <1>1, <2>1
    <3> QED
      BY <1>3, <3>1, BlankFirst
  <2>7. ItemsOf(text, k, j) = ItemsOf(text, k + 1, j)
    BY Zenon, <2>2, <2>4, <2>5 DEF ItemsOf
  <2>8. ~(k + 1 > Len(text)) /\ k <= Len(text)
    BY <1>1, <2>1
  <2>9. x[k] = x[k + 1]
    BY Zenon, <1>4, <1>5, <2>1, <2>7, <2>8 DEF Listed
  <2>10. PlainLine(text, k, j) => PlainLine(text, k + 1, j)
    BY Zenon, <2>2, <2>4, <2>5, <2>6 DEF PlainLine
  <2> QED
    BY Zenon, <1>2, <2>1, <2>8, <2>9, <2>10 DEF Ahead, PlainAt
<1> QED
  BY <1>6, <1>7

LEMMA BlanksAhead ==
  ASSUME NEW text, NEW x, Reads(text, x), NEW i \in 1..Len(text) + 1,
         NEW a \in i..Len(text) + 1, \A k \in i..a - 1 : Blank(text[k])
  PROVE  Ahead(text, x, i, a)
<1>1. PICK n \in Nat : n = Len(text)
  BY DEF Reads, Lined, Config_Text
<1>2. PICK m \in Nat : m = a - i
  BY <1>1
<1> DEFINE G == {d \in 0..m : Ahead(text, x, i, i + d)}
<1>3. 0 \in G
  <2>1. i + 0 = i
    BY <1>1
  <2>2. Ahead(text, x, i, i + 0)
    BY Zenon, <2>1 DEF Ahead
  <2> QED
    BY <2>2
<1>4. ASSUME NEW d \in 1..m, d - 1 \in G
      PROVE  d \in G
  <2>1. PICK k \in 1..Len(text) : k = i + (d - 1)
    <3>1. i + (d - 1) \in 1..Len(text)
      BY <1>1, <1>2
    <3> QED
      BY <3>1
  <2>2. k \in i..a - 1 /\ k + 1 = i + d
    BY <1>1, <1>2, <2>1
  <2>3. Ahead(text, x, k, k + 1)
    BY <2>2, BlankAhead
  <2>4. Ahead(text, x, i, k)
    BY <1>4, <2>1
  <2>5. Ahead(text, x, i, k + 1)
    BY Zenon, <2>3, <2>4 DEF Ahead
  <2> QED
    BY <2>2, <2>5
<1>5. m \in G
  <2> HIDE DEF G
  <2>1. 0..m \subseteq G
    BY <1>3, <1>4, UpwardInduction
  <2> QED
    BY <2>1
<1>6. i + m = a
  BY <1>1, <1>2
<1> QED
  BY <1>5, <1>6

(* A line with an item, from its name on: where it ends, and its '='.      *)
Lies(text, a, j, q) ==
  /\ a \in 1..Len(text) /\ j \in a..Len(text) /\ q \in a..j - 1
  /\ j = LineAt(text, a) /\ q = EqualsIn(text, a, j)
  /\ ~Blank(text[a]) /\ text[j] = Newline /\ text[q] = Equal
Unbroken(text, a, j, q) ==
  /\ \A k \in a..j - 1 : text[k] # Newline
  /\ \A k \in a..q - 1 : text[k] # Equal
OneWord(text, a, q) ==
  \A l \in a..q - 1 : ~Blank(text[l]) => \A m \in a..l : ~Blank(text[m])
OneReturn(text, a, j) ==
  \A l \in a..j : ~Blank(text[l]) => \A m \in a..l : text[m] # Return
IsLine(text, a, j, q) ==
  /\ text \in Config_Text /\ NoEof(text)
  /\ Lies(text, a, j, q) /\ Unbroken(text, a, j, q) /\ OneWord(text, a, q) /\ OneReturn(text, a, j)

LEMMA LineFound ==
  ASSUME NEW text, Lined(text), NEW a \in 1..Len(text), PlainAt(text, a), ~Blank(text[a])
  PROVE  \E j, q : IsLine(text, a, j, q)
<1>1. PICK n \in Nat : n = Len(text)
  BY DEF Lined, Config_Text
<1>2. text[Len(text)] = Newline /\ text \in Config_Text /\ NoEof(text)
  BY <1>1 DEF Lined
<1>3. PICK j : j = LineAt(text, a)
  OBVIOUS
<1>4. j \in a..Len(text) /\ text[j] = Newline /\ \A k \in a..j - 1 : text[k] # Newline
  BY Zenon, <1>2, <1>3, LineAtIs
<1>5. PICK q : q = EqualsIn(text, a, j)
  OBVIOUS
<1>6. q \in a..j /\ \A k \in a..q - 1 : text[k] # Equal
  <2>1. a \in Nat /\ j \in Nat /\ a <= j
    BY <1>1, <1>4
  <2> QED
    BY Zenon, <1>5, <2>1, EqualsInIs DEF IsEquals
<1>7. PlainLine(text, a, j)
  <2>1. a <= Len(text)
    BY <1>1
  <2> QED
    BY Zenon, <1>3, <2>1 DEF PlainAt
<1>8. a \in Solid(text, a, j)
  <2>1. a \in a..j
    BY <1>1, <1>4
  <2> QED
    BY Zenon, <2>1, SolidIs
<1>9. text[q] = Equal
  BY Zenon, <1>5, <1>7, <1>8 DEF PlainLine, Equal
<1>10. q \in a..j - 1
  <2>1. q # j
    BY Zenon, <1>4, <1>9, BlankIs
  <2> QED
    BY <1>1, <1>4, <1>6, <2>1
<1>11. ASSUME NEW l \in a..q - 1, ~Blank(text[l]), NEW m \in a..l
       PROVE  ~Blank(text[m])
  <2>1. a \in a..q - 1
    BY <1>1, <1>4, <1>6
  <2>2. a \in Solid(text, a, q - 1) /\ l \in Solid(text, a, q - 1)
    BY Zenon, <1>11, <2>1, SolidIs
  <2> QED
    BY Zenon, <1>5, <1>7, <1>8, <2>2 DEF PlainLine, Blank
<1>12. ASSUME NEW l \in a..j, ~Blank(text[l]), NEW m \in a..l
       PROVE  text[m] # Return
  <2>1. l \in Solid(text, a, j)
    BY Zenon, <1>12, SolidIs
  <2> QED
    BY Zenon, <1>7, <1>8, <2>1 DEF PlainLine, Return
<1>13. Lies(text, a, j, q)
  BY Zenon, <1>3, <1>4, <1>5, <1>9, <1>10 DEF Lies
<1>14. Unbroken(text, a, j, q) /\ OneWord(text, a, q) /\ OneReturn(text, a, j)
  BY Zenon, <1>4, <1>6, <1>11, <1>12 DEF Unbroken, OneWord, OneReturn
<1>15. IsLine(text, a, j, q)
  BY Zenon, <1>2, <1>13, <1>14 DEF IsLine
<1> QED
  BY Zenon, <1>15

(* The name is what stands in front of '='. *)
Named(text, a, q, b) ==
  /\ b \in a..q
  /\ text[b] = Equal => b = q
  /\ text[b] # Equal => text[b] # Newline /\ Config!SkipBlanks(text, b + 1) = q
  /\ Stripped(text, a, q - 1) = SubSeq(text, a, b - 1)

LEMMA NameFound ==
  ASSUME NEW text, NEW a, NEW j, NEW q, IsLine(text, a, j, q), NEW b, b = Config!NameEnd(text, a)
  PROVE  Named(text, a, q, b)
<1>1. PICK n \in Nat : n = Len(text)
  BY DEF IsLine, Config_Text
<1>2. a \in 1..n /\ j \in a..n /\ q \in a..j - 1 /\ ~Blank(text[a]) /\ text[q] = Equal
  BY Zenon, <1>1 DEF IsLine, Lies
<1>3. b \in a..n + 1 /\ \A k \in a..b - 1 : ~Blank(text[k]) /\ text[k] # Equal
  <2>1. a \in 1..Len(text) + 1
    BY <1>1, <1>2
  <2> QED
    BY Zenon, <1>1, <2>1, NameEndIs DEF IsLine
<1>4. b \in a..q
  <2>1. q \notin a..b - 1
    BY Zenon, <1>2, <1>3
  <2> QED
    BY <1>2, <1>3, <2>1
<1>5. Blank(text[b]) \/ text[b] = Equal
  <2>1. a \in 1..Len(text) + 1 /\ b <= Len(text)
    BY <1>1, <1>2, <1>4
  <2> QED
    BY Zenon, <1>1, <2>1, NameEndIs DEF IsLine
<1>6. b \in a..q - 1 => text[b] # Equal /\ text[b] # Newline
  <2>1. b \in a..q - 1 => b \in a..j - 1
    BY <1>2
  <2> QED
    BY Zenon, <2>1 DEF IsLine, Unbroken
<1>7. CASE b = q
  <2>1. Stripped(text, a, q - 1) = SubSeq(text, a, b - 1)
    <3>1. CASE a = b
      <4>1. a \in Int /\ q - 1 \in Int /\ \A k \in a..q - 1 : Blank(text[k])
        BY <1>2, <1>7, <3>1
      <4>2. Stripped(text, a, q - 1) = <<>>
        BY Zenon, <4>1, StrippedBlank
      <4>3. SubSeq(text, a, b - 1) = <<>>
        BY <1>2, <3>1
      <4> QED
        BY <4>2, <4>3
    <3>2. CASE a # b
      <4>1. PICK z \in a..q - 1 : z = b - 1
        <5>1. b - 1 \in a..q - 1
          BY <1>2, <1>4, <1>7, <3>2
        <5> QED
          BY <5>1
      <4>2. q - 1 \in Nat /\ a \in Nat /\ a \in a..q - 1 /\ z = q - 1 /\ z \in a..b - 1
        BY <1>2, <1>4, <1>7, <4>1
      <4>3. ~Blank(text[z])
        BY <1>3, <4>2
      <4>4. (\A k \in a..a - 1 : Blank(text[k])) /\ \A k \in z + 1..q - 1 : Blank(text[k])
        BY <1>2, <4>2
      <4>5. Stripped(text, a, q - 1) = SubSeq(text, a, z)
        BY ZenonT(40), <1>2, <4>1, <4>2, <4>3, <4>4, StrippedIs
      <4> QED
        BY <4>1, <4>5
    <3> QED
      BY <3>1, <3>2
  <2> QED
    BY Zenon, <1>2, <1>4, <1>7, <2>1 DEF Named
<1>8. CASE b # q
  <2>1. b \in a..q - 1 /\ b \in Nat /\ a \in Nat /\ q \in Nat
    BY <1>2, <1>4, <1>8
  <2>2. text[b] # Equal /\ text[b] # Newline /\ Blank(text[b])
    BY <1>5, <1>6, <2>1
  <2>3. ASSUME NEW m \in b..q - 1
        PROVE  Blank(text[m])
    <3>1. m \in a..q - 1 /\ b \in a..m
      BY <2>1
    <3> QED
      BY Zenon, <2>2, <3>1 DEF IsLine, OneWord
  <2>4. PICK s : s = Config!SkipBlanks(text, b + 1)
    OBVIOUS
  <2>5. /\ s \in b + 1..n + 1
        /\ s <= n => ~Blank(text[s]) \/ text[s] = Newline
        /\ \A k \in b + 1..s - 1 : Blank(text[k]) /\ text[k] # Newline
    <3>1. b + 1 \in 1..Len(text) + 1
      BY <1>1, <1>2, <2>1
    <3> QED
      BY Zenon, <1>1, <2>4, <3>1, SkipBlanksIs DEF IsLine
  <2>6. s <= q
    <3>1. q \notin b + 1..s - 1
      BY Zenon, <1>2, <2>5, BlankIs
    <3> QED
      BY <2>1, <2>5, <3>1
  <2>7. ~(s < q)
    <3>1. SUFFICES ASSUME s < q
                   PROVE  FALSE
      OBVIOUS
    <3>2. s \in b..q - 1 /\ s \in a..j - 1 /\ s <= n
      BY <1>2, <2>1, <2>5, <3>1
    <3>3. Blank(text[s]) /\ text[s] # Newline
      BY Zenon, <2>3, <3>2 DEF IsLine, Unbroken
    <3> QED
      BY <2>5, <3>2, <3>3
  <2>8. s = q
    BY <2>1, <2>5, <2>6, <2>7
  <2>9. Stripped(text, a, q - 1) = SubSeq(text, a, b - 1)
    <3>1. a # b
      BY <1>2, <2>2
    <3>2. PICK z \in a..q - 1 : z = b - 1
      <4>1. b - 1 \in a..q - 1
        BY <1>2, <2>1, <3>1
      <4> QED
        BY <4>1
    <3>3. q - 1 \in Nat /\ a \in Nat /\ a \in a..q - 1 /\ z \in a..b - 1
      BY <1>2, <2>1, <3>2
    <3>4. ~Blank(text[z])
      BY <1>3, <3>3
    <3>5. (\A k \in a..a - 1 : Blank(text[k])) /\ \A k \in z + 1..q - 1 : Blank(text[k])
      BY <2>1, <2>3, <3>2
    <3>6. z \in a..q - 1 /\ ~Blank(text[a])
      BY <1>2, <3>2
    <3>7. Stripped(text, a, q - 1) = SubSeq(text, a, z)
      BY ZenonT(40), <3>3, <3>4, <3>5, <3>6, StrippedIs
    <3> QED
      BY <3>2, <3>7
  <2> QED
    BY Zenon, <1>4, <2>2, <2>4, <2>8, <2>9 DEF Named
<1> QED
  BY <1>7, <1>8

(* The value is what stands behind '=' up to the end of the line, without  *)
(* the blanks around it.                                                   *)
ValueAt(text, j, q, v) ==
  /\ v \in q + 1..j
  /\ \A k \in q + 1..v - 1 : Blank(text[k])
  /\ v = j => Stripped(text, q + 1, j) = <<>>
  /\ v # j => ~Blank(text[v]) /\ text[v] # Newline

LEMMA ValueFound ==
  ASSUME NEW text, NEW a, NEW j, NEW q, IsLine(text, a, j, q),
         NEW v, v = Config!SkipBlanks(text, q + 1)
  PROVE  ValueAt(text, j, q, v)
<1>1. PICK n \in Nat : n = Len(text)
  BY DEF IsLine, Config_Text
<1>2. a \in 1..n /\ j \in a..n /\ q \in a..j - 1 /\ text[j] = Newline
  BY Zenon, <1>1 DEF IsLine, Lies
<1>3. /\ v \in q + 1..n + 1
      /\ v <= n => ~Blank(text[v]) \/ text[v] = Newline
      /\ \A k \in q + 1..v - 1 : Blank(text[k]) /\ text[k] # Newline
  <2>1. q + 1 \in 1..Len(text) + 1
    BY <1>1, <1>2
  <2> QED
    BY Zenon, <1>1, <2>1, SkipBlanksIs DEF IsLine
<1>4. v \in q + 1..j
  <2>1. j \notin q + 1..v - 1
    BY Zenon, <1>2, <1>3
  <2> QED
    BY <1>2, <1>3, <2>1
<1>5. v = j => Stripped(text, q + 1, j) = <<>>
  <2>1. SUFFICES ASSUME v = j
                 PROVE  Stripped(text, q + 1, j) = <<>>
    OBVIOUS
  <2>2. Blank(text[j])
    BY Zenon, <1>2, BlankIs
  <2>3. \A k \in q + 1..j : k = j \/ k \in q + 1..v - 1
    BY <1>2, <2>1
  <2>4. \A k \in q + 1..j : Blank(text[k])
    BY Zenon, <1>3, <2>2, <2>3
  <2>5. q + 1 \in Int /\ j \in Int
    BY <1>2
  <2> QED
    BY Zenon, <2>4, <2>5, StrippedBlank
<1>6. v # j => ~Blank(text[v]) /\ text[v] # Newline
  <2>1. v # j => v <= n /\ v \in a..j - 1
    BY <1>2, <1>4
  <2> QED
    BY Zenon, <1>3, <2>1 DEF IsLine, Unbroken
<1> QED
  BY Zenon, <1>3, <1>4, <1>5, <1>6 DEF ValueAt

(* The last character of a part that is no blank. *)
LEMMA LastSolid ==
  ASSUME NEW text, NEW v \in Nat, NEW d \in Nat, v < d, ~Blank(text[v])
  PROVE  \E z \in v..d - 1 : ~Blank(text[z]) /\ \A k \in z + 1..d - 1 : Blank(text[k])
<1> DEFINE D == {y \in 0..d - 1 - v : ~Blank(text[d - 1 - y])}
<1>1. D \in SUBSET Nat /\ D # {}
  <2>1. d - 1 - v \in 0..d - 1 - v /\ d - 1 - (d - 1 - v) = v
    OBVIOUS
  <2>2. d - 1 - v \in D
    BY <2>1
  <2> QED
    BY <2>2
<1>2. PICK y \in D : \A w \in D : y <= w
  <2> HIDE DEF D
  <2> QED
    BY <1>1, MinIsLeast
<1>3. PICK z \in v..d - 1 : z = d - 1 - y
  BY <1>2
<1>4. ~Blank(text[z])
  BY <1>2, <1>3
<1>5. ASSUME NEW k \in z + 1..d - 1
      PROVE  Blank(text[k])
  <2>1. PICK w \in 0..d - 1 - v : w = d - 1 - k
    <3>1. d - 1 - k \in 0..d - 1 - v
      BY <1>2, <1>3
    <3> QED
      BY <3>1
  <2>2. ~(y <= w) /\ d - 1 - w = k
    BY <1>2, <1>3, <2>1
  <2>3. w \notin D
    BY <1>2, <2>2
  <2> QED
    BY <2>1, <2>2, <2>3
<1> QED
  BY <1>4, <1>5

(* Blanks behind a value are trimmed. *)
LEMMA TrimmedIs ==
  ASSUME NEW text \in Config_Text, NEW v \in 1..Len(text), NEW d \in 1..Len(text), NEW z \in v..d - 1,
         ~Blank(text[z]), \A k \in z + 1..d - 1 : Blank(text[k])
  PROVE  Config!Trimmed(SubSeq(text, v, d - 1)) = SubSeq(text, v, z)
<1>1. PICK n \in Nat : n = Len(text)
  BY DEF Config_Text
<1>2. PICK s : s = SubSeq(text, v, d - 1)
  OBVIOUS
<1>3. PICK l \in Nat : l = d - v
  BY <1>1
<1>4. Len(s) = l /\ \A k \in 1..l : s[k] = text[v + k - 1]
  <2>1. Len(s) = d - 1 - v + 1
    BY <1>1, <1>2, SubSeqProperties DEF Config_Text
  <2>2. \A k \in 1..d - 1 - v + 1 : s[k] = text[v + k - 1]
    BY <1>1, <1>2, SubSeqProperties DEF Config_Text
  <2>3. d - 1 - v + 1 = l
    BY <1>1, <1>3
  <2> QED
    BY <2>1, <2>2, <2>3
<1>5. PICK p \in 1..l : p = z - v + 1
  <2>1. z - v + 1 \in 1..l
    BY <1>1, <1>3
  <2> QED
    BY <2>1
<1>6. PICK C : C = {k \in 1..l : s[k] \notin Config!Space} \cup {0}
  OBVIOUS
<1>7. p \in C
  <2>1. v + p - 1 = z
    BY <1>1, <1>5
  <2>2. s[p] \notin Config!Space
    BY Zenon, <1>4, <2>1 DEF Blank
  <2> QED
    BY <1>6, <2>2
<1>8. ASSUME NEW k \in C
      PROVE  k \in 0..p
  <2>1. k = 0 \/ (k \in 1..l /\ s[k] \notin Config!Space)
    BY <1>6
  <2>2. ASSUME k \in 1..l, s[k] \notin Config!Space
        PROVE  k <= p
    <3>1. ~Blank(text[v + k - 1])
      BY Zenon, <1>4, <2>2 DEF Blank
    <3>2. v + k - 1 \notin z + 1..d - 1
      BY <3>1
    <3> QED
      BY <1>1, <1>3, <1>5, <2>2, <3>2
  <2> QED
    BY <2>1, <2>2
<1>9. Config!Max(C) = p
  <2>1. \A y \in C : p >= y
    BY <1>8
  <2>2. \A m \in C : (\A y \in C : m >= y) => m = p
    <3> SUFFICES ASSUME NEW m \in C, \A y \in C : m >= y
                 PROVE  m = p
      OBVIOUS
    <3>1. m >= p /\ m \in 0..p
      BY <1>7, <1>8
    <3> QED
      BY <3>1
  <2> QED
    BY Zenon, <1>7, <2>1, <2>2 DEF Config!Max
<1>10. Config!Trimmed(s) = SubSeq(s, 1, p)
  BY Zenon, <1>4, <1>6, <1>9 DEF Config!Trimmed
<1>11. SubSeq(s, 1, p) = SubSeq(text, v, z)
  <2>1. SubSeq(s, 1, p) = [k \in 1..p |-> s[k]]
    BY <1>5 DEF SubSeq
  <2>2. SubSeq(text, v, z) = [k \in 1..p |-> text[v + k - 1]]
    <3>1. 1 + z - v = p
      BY <1>1, <1>5
    <3>2. SubSeq(text, v, z) = [k \in 1..1 + z - v |-> text[v + k - 1]]
      BY <1>1 DEF SubSeq
    <3> QED
      BY <3>1, <3>2
  <2>3. \A k \in 1..p : s[k] = text[v + k - 1]
    BY <1>3, <1>4
  <2> QED
    BY <2>1, <2>2, <2>3
<1> QED
  BY Zenon, <1>2, <1>10, <1>11

ValueRead(text, j, q, v, d) ==
  /\ d \in v + 1..j
  /\ \A k \in d..j : Blank(text[k])
  /\ Stripped(text, q + 1, j) = Config!Trimmed(SubSeq(text, v, d - 1))
  /\ Stripped(text, q + 1, j) # <<>>

LEMMA ValueIsRead ==
  ASSUME NEW text, NEW a, NEW j, NEW q, IsLine(text, a, j, q),
         NEW v, ValueAt(text, j, q, v), v # j, NEW d, d = Config!LineEnd(text, v)
  PROVE  ValueRead(text, j, q, v, d)
<1>1. PICK n \in Nat : n = Len(text)
  BY DEF IsLine, Config_Text
<1>2. a \in 1..n /\ j \in a..n /\ q \in a..j - 1 /\ text[j] = Newline /\ ~Blank(text[a])
  BY Zenon, <1>1 DEF IsLine, Lies
<1>3. /\ v \in q + 1..j /\ ~Blank(text[v]) /\ text[v] # Newline
      /\ \A k \in q + 1..v - 1 : Blank(text[k])
  BY Zenon DEF ValueAt
<1>4. v \in 1..n /\ v < j /\ v \in Nat /\ v \in a..j - 1
  BY <1>2, <1>3
<1>5. /\ d \in v..n + 1
      /\ d <= n => text[d] = Return \/ text[d] = Newline
      /\ \A k \in v..d - 1 : text[k] # Return /\ text[k] # Newline
  <2>1. v \in 1..Len(text) + 1
    BY <1>1, <1>4
  <2>2. /\ d \in v..n + 1
        /\ d <= n => text[d] = Return \/ text[d] = Newline \/ text[d] = Config!EOF
        /\ \A k \in v..d - 1 : text[k] # Return /\ text[k] # Newline
    BY Zenon, <1>1, <2>1, LineEndIs DEF IsLine
  <2>3. d <= n => d \in 1..Len(text)
    BY <1>1, <1>4, <2>2
  <2> QED
    BY Zenon, <2>2, <2>3 DEF IsLine, NoEof
<1>6. d \in v..j
  <2>1. j \notin v..d - 1
    BY Zenon, <1>2, <1>5
  <2> QED
    BY <1>2, <1>4, <1>5, <2>1
<1>7. text[d] = Return \/ text[d] = Newline
  BY <1>2, <1>5, <1>6
<1>8. Blank(text[d])
  BY Zenon, <1>7, BlankIs
<1>9. d \in v + 1..j
  <2>1. d # v
    BY Zenon, <1>3, <1>8
  <2> QED
    BY <1>4, <1>6, <2>1
<1>10. d \in a..j - 1 => text[d] = Return
  BY Zenon, <1>7 DEF IsLine, Unbroken
<1>11. ASSUME NEW k \in d..j
       PROVE  Blank(text[k])
  <2>1. CASE k = j
    BY Zenon, <1>2, <2>1, BlankIs
  <2>2. CASE k # j
    <3>1. k \in a..j /\ d \in a..k /\ d \in a..j - 1
      BY <1>2, <1>4, <1>9, <2>2
    <3> QED
      BY Zenon, <1>10, <3>1 DEF IsLine, OneReturn
  <2> QED
    BY <2>1, <2>2
<1>12. PICK z \in v..d - 1 : ~Blank(text[z]) /\ \A k \in z + 1..d - 1 : Blank(text[k])
  <2>1. d \in Nat /\ v < d
    BY <1>4, <1>9
  <2> QED
    BY <1>3, <1>4, <2>1, LastSolid
<1>13. Config!Trimmed(SubSeq(text, v, d - 1)) = SubSeq(text, v, z)
  <2>1. v \in 1..Len(text) /\ d \in 1..Len(text)
    BY <1>1, <1>2, <1>4, <1>9
  <2> QED
    BY Zenon, <1>12, <2>1, TrimmedIs DEF IsLine
<1>14. PICK u : u = Stripped(text, q + 1, j)
  OBVIOUS
<1>15. u = SubSeq(text, v, z)
  <2>1. \A k \in z + 1..j : k \in z + 1..d - 1 \/ k \in d..j
    BY <1>2, <1>4, <1>9, <1>12
  <2>2. \A k \in z + 1..j : Blank(text[k])
    BY Zenon, <1>11, <1>12, <2>1
  <2>3. \A k \in q + 1..v - 1 : Blank(text[k])
    BY <1>3
  <2>4. q + 1 \in Nat /\ j \in Nat /\ v \in q + 1..j /\ z \in v..j /\ ~Blank(text[v]) /\ ~Blank(text[z])
    BY <1>2, <1>3, <1>9, <1>12
  <2>5. Stripped(text, q + 1, j) = SubSeq(text, v, z)
    BY ZenonT(40), <2>2, <2>3, <2>4, StrippedIs
  <2> QED
    BY <1>14, <2>5
<1>16. u # <<>>
  <2>1. Len(SubSeq(text, v, z)) = z - v + 1
    <3>1. v \in 1..Len(text) /\ z \in 1..Len(text) /\ v <= z
      BY <1>1, <1>2, <1>4, <1>9, <1>12
    <3> QED
      BY <3>1, SubSeqProperties DEF IsLine, Config_Text
  <2>2. z - v + 1 # 0
    BY <1>4, <1>12
  <2>3. Len(u) # 0
    BY <1>15, <2>1, <2>2
  <2> QED
    BY <2>3
<1> QED
  BY Zenon, <1>9, <1>11, <1>13, <1>14, <1>15, <1>16 DEF ValueRead

(* The record of a pass. *)
Passed(next, items, ended) == [next |-> next, items |-> items, ended |-> ended]
IsPass(c) == c = Passed(c.next, c.items, c.ended)

(* What one pass reads, and where the next one starts. *)
PassReads(text, x, i, pass) ==
  /\ IsPass(pass)
  /\ pass.next \in 1..Len(text) + 1
  /\ pass.items \in ItemSeqs
  /\ \/ /\ pass.ended = "no"
        /\ PlainAt(text, pass.next)
        /\ x[i] = pass.items \o x[pass.next]
     \/ pass.ended = "end" /\ pass.items = <<>> /\ x[i] = <<>>

LEMMA PassedReads ==
  ASSUME NEW text, NEW x, NEW i, NEW next \in 1..Len(text) + 1, NEW items \in ItemSeqs,
         NEW ended,
         \/ ended = "no" /\ PlainAt(text, next) /\ x[i] = items \o x[next]
         \/ ended = "end" /\ items = <<>> /\ x[i] = <<>>
  PROVE  PassReads(text, x, i, Passed(next, items, ended))
<1>1. PICK pass : pass = Passed(next, items, ended)
  OBVIOUS
<1>2. pass.next = next /\ pass.items = items /\ pass.ended = ended
  BY <1>1 DEF Passed
<1>3. IsPass(pass)
  BY Zenon, <1>1, <1>2 DEF IsPass
<1> QED
  BY Zenon, <1>1, <1>2, <1>3 DEF PassReads

(* The text ends, or a name follows. *)
LEMMA NameFollows ==
  ASSUME NEW text, Lined(text), NEW i \in 1..Len(text) + 1, NEW a, a = Config!NameAt(text, i)
  PROVE  a \in i..Len(text) + 1 /\ (a >= Len(text) => a = Len(text) + 1)
         /\ (a < Len(text) => a \in 1..Len(text) /\ ~Blank(text[a]))
<1>1. PICK n \in Nat : n = Len(text)
  BY DEF Lined, Config_Text
<1>2. a \in i..n + 1 /\ (a <= n => ~Blank(text[a]))
  BY <1>1, NameAtIs DEF Lined
<1>3. a = n => n = 0
  <2>1. n > 0 => text[n] = Newline
    BY <1>1 DEF Lined
  <2>2. n > 0 => Blank(text[n])
    BY Zenon, <2>1, BlankIs
  <2> QED
    BY <1>1, <1>2, <2>2
<1> QED
  BY <1>1, <1>2, <1>3

LEMMA EndReads ==
  ASSUME NEW text, NEW x, NEW i \in 1..Len(text) + 1, x[i] = <<>>
  PROVE  PassReads(text, x, i, Passed(i, <<>>, "end"))
<1>1. <<>> \in ItemSeqs
  BY DEF ItemSeqs
<1> QED
  BY Zenon, <1>1, PassedReads

LEMMA EmptyReads ==
  ASSUME NEW text, NEW x, Reads(text, x), NEW i, NEW k \in 1..Len(text) + 1,
         x[i] = x[k], PlainAt(text, k)
  PROVE  PassReads(text, x, i, Passed(k, <<>>, "no"))
<1>1. <<>> \in ItemSeqs
  BY DEF ItemSeqs
<1>2. x[k] \in ItemSeqs
  BY Zenon DEF Reads, IsItems
<1>3. x[i] = <<>> \o x[k]
  BY Zenon, <1>2, NothingBefore
<1> QED
  BY Zenon, <1>1, <1>3, PassedReads

(* Behind a line. *)
Behind(text, x, j, d) ==
  d + 1 \in 1..Len(text) + 1 /\ x[d + 1] = x[j + 1] /\ PlainAt(text, d + 1)

LEMMA LineBehind ==
  ASSUME NEW text, NEW x, Reads(text, x), NEW a, NEW j, NEW q, IsLine(text, a, j, q),
         NEW d \in a..j, \A k \in d..j : Blank(text[k])
  PROVE  Behind(text, x, j, d)
<1>1. PICK n \in Nat : n = Len(text)
  BY DEF IsLine, Config_Text
<1>2. a \in 1..n /\ j \in a..n /\ text[j] = Newline
  BY Zenon, <1>1 DEF IsLine, Lies
<1>3. d + 1 \in 1..Len(text) + 1 /\ j + 1 \in d + 1..Len(text) + 1 /\ j \in 1..Len(text)
  BY <1>1, <1>2
<1>4. PlainAt(text, j + 1)
  BY Zenon, <1>2, <1>3, LineStart DEF Reads
<1>5. CASE d = j
  BY Zenon, <1>3, <1>4, <1>5 DEF Behind
<1>6. CASE d # j
  <2>1. \A k \in d + 1..(j + 1) - 1 : Blank(text[k])
    BY <1>2
  <2>2. x[d + 1] = x[j + 1]
    <3>1. Ahead(text, x, d + 1, j + 1)
      BY <1>3, <2>1, BlanksAhead
    <3> QED
      BY Zenon, <3>1 DEF Ahead
  <2>3. PICK l : l = d + 1
    OBVIOUS
  <2>4. l \in 1..Len(text) /\ l \in a..j /\ l \in Int /\ j \in Int
    BY <1>1, <1>2, <1>6, <2>3
  <2>5. LineAt(text, l) = j
    <3>1. PICK e : e = LineAt(text, l)
      OBVIOUS
    <3>2. Len(text) > 0
      BY <1>1, <1>2
    <3>3. e \in l..Len(text) /\ text[e] = Newline /\ \A k \in l..e - 1 : text[k] # Newline
      BY Zenon, <2>4, <3>1, <3>2, LineAtIs DEF Reads, Lined
    <3>4. ~(e < j)
      <4>1. e \notin a..j - 1
        BY Zenon, <3>3 DEF IsLine, Unbroken
      <4> QED
        BY <1>1, <1>2, <2>4, <3>3, <4>1
    <3>5. ~(j < e)
      <4>1. j \notin l..e - 1
        BY Zenon, <1>2, <3>3
      <4> QED
        BY <1>1, <1>2, <2>4, <3>3, <4>1
    <3>6. e = j
      BY <1>1, <1>2, <3>3, <3>4, <3>5
    <3> QED
      BY <3>1, <3>6
  <2>6. \A k \in l..j : Blank(text[k])
    BY <1>2, <2>3
  <2>7. Solid(text, l, j) = {}
    BY Zenon, <2>4, <2>6, StrippedBlank
  <2>8. PlainAt(text, l)
    BY Zenon, <2>5, <2>7 DEF PlainAt, PlainLine
  <2> QED
    BY Zenon, <1>3, <2>2, <2>3, <2>8 DEF Behind
<1> QED
  BY <1>5, <1>6

(* The line that holds place i has an item. *)
ItemAt(text, i, a, j, q, b, v) ==
  /\ a = Config!NameAt(text, i) /\ b = Config!NameEnd(text, a) /\ v = Config!SkipBlanks(text, q + 1)
  /\ ~(a >= Len(text)) /\ ~(b >= Len(text)) /\ ~(q >= Len(text))
  /\ q = IF text[b] = "=" THEN b ELSE Config!SkipBlanks(text, b + 1)
  /\ text[q] # "\n" /\ text[q] = "=" /\ text[q] # Config!EOF
  /\ text[a] # Config!EOF /\ text[b] # Config!EOF

LEMMA LastIsRead ==
  ASSUME NEW text, NEW i, NEW asserts, NEW a, NEW j, NEW q, NEW b, NEW v,
         ItemAt(text, i, a, j, q, b, v), v >= Len(text)
  PROVE  Config!ReadItem(text, i, asserts) = Passed(i, <<>>, "end")
BY Zenon DEF ItemAt, Config!ReadItem, Passed

LEMMA EmptyIsRead ==
  ASSUME NEW text, NEW i, NEW asserts, NEW a, NEW j, NEW q, NEW b, NEW v,
         ItemAt(text, i, a, j, q, b, v), ~(v >= Len(text)), text[v] = Newline, text[v] # Config!EOF
  PROVE  Config!ReadItem(text, i, asserts) = Passed(v + 1, <<>>, "no")
BY Zenon DEF ItemAt, Config!ReadItem, Passed, Newline

ItemIn(text, a, b, v, d, items) ==
  /\ d = Config!LineEnd(text, v)
  /\ items = <<[name  |-> SubSeq(text, a, b - 1),
                value |-> Config!Trimmed(SubSeq(text, v, d - 1))]>>

LEMMA ItemIsRead ==
  ASSUME NEW text, NEW i, NEW asserts, NEW a, NEW j, NEW q, NEW b, NEW v,
         ItemAt(text, i, a, j, q, b, v), ~(v >= Len(text)), text[v] # Newline, text[v] # Config!EOF,
         NEW d, NEW items, ItemIn(text, a, b, v, d, items)
  PROVE  Config!ReadItem(text, i, asserts) = Passed(d + 1, items, "no")
BY Zenon DEF ItemAt, ItemIn, Config!ReadItem, Passed, Newline

LEMMA EndIsRead ==
  ASSUME NEW text, NEW i, NEW asserts, Config!NameAt(text, i) >= Len(text)
  PROVE  Config!ReadItem(text, i, asserts) = Passed(i, <<>>, "end")
BY Zenon DEF Config!ReadItem, Passed

LEMMA ItemReads ==
  ASSUME NEW text, NEW x, Reads(text, x), NEW i \in 1..Len(text) + 1, NEW asserts,
         NEW a, NEW j, NEW q, IsLine(text, a, j, q), x[i] = x[a], a = Config!NameAt(text, i)
  PROVE  PassReads(text, x, i, Config!ReadItem(text, i, asserts))
<1>1. PICK n \in Nat : n = Len(text)
  BY DEF IsLine, Config_Text
<1>2. /\ a \in 1..n /\ j \in a..n /\ q \in a..j - 1 /\ text[j] = Newline /\ text[q] = Equal
      /\ j = LineAt(text, a) /\ q = EqualsIn(text, a, j)
  BY Zenon, <1>1 DEF IsLine, Lies
<1>3. PICK b : b = Config!NameEnd(text, a)
  OBVIOUS
<1>4. Named(text, a, q, b)
  BY Zenon, <1>3, NameFound
<1>5. PICK v : v = Config!SkipBlanks(text, q + 1)
  OBVIOUS
<1>6. ValueAt(text, j, q, v)
  BY Zenon, <1>5, ValueFound
<1>7. ItemAt(text, i, a, j, q, b, v)
  <2>1. b \in a..q
    BY Zenon, <1>4 DEF Named
  <2>2. ~(a >= Len(text)) /\ ~(b >= Len(text)) /\ ~(q >= Len(text))
    BY <1>1, <1>2, <2>1
  <2>3. q = IF text[b] = "=" THEN b ELSE Config!SkipBlanks(text, b + 1)
    BY Zenon, <1>4 DEF Named, Equal
  <2>4. text[q] # "\n" /\ text[q] = "="
    BY Zenon, <1>2, BlankIs DEF Equal, Newline
  <2>5. a \in 1..Len(text) /\ b \in 1..Len(text) /\ q \in 1..Len(text)
    BY <1>1, <1>2, <2>1
  <2>6. text[q] # Config!EOF /\ text[a] # Config!EOF /\ text[b] # Config!EOF
    BY Zenon, <2>5 DEF IsLine, NoEof
  <2> QED
    BY Zenon, <1>3, <1>5, <2>2, <2>3, <2>4, <2>6 DEF ItemAt
<1>8. x[i] = ItemsOf(text, a, j) \o x[j + 1] /\ x[j + 1] \in ItemSeqs
  <2>1. a \in 1..Len(text) + 1 /\ j + 1 \in 1..Len(text) + 1 /\ ~(a > Len(text))
    BY <1>1, <1>2
  <2>2. x[a] = Listed(text, x, a) /\ x[j + 1] \in ItemSeqs
    BY Zenon, <2>1 DEF Reads, IsItems
  <2> QED
    BY Zenon, <1>2, <2>1, <2>2 DEF Listed
<1>9. v \in q + 1..j
  BY Zenon, <1>6 DEF ValueAt
<1>12. text[v] # Config!EOF
  <2>1. v \in 1..Len(text)
    BY <1>1, <1>2, <1>9
  <2> QED
    BY Zenon, <2>1 DEF IsLine, NoEof
<1>10. CASE v = j
  <2>1. ItemsOf(text, a, j) = <<>>
    BY Zenon, <1>2, <1>6, <1>10 DEF ItemsOf, ValueAt
  <2>2. x[i] = x[j + 1]
    BY Zenon, <1>8, <2>1, NothingBefore
  <2>3. Behind(text, x, j, j)
    <3>1. j \in a..j /\ \A k \in j..j : k = j
      BY <1>2
    <3>2. Blank(text[j])
      BY Zenon, <1>2, BlankIs
    <3> QED
      BY Zenon, <3>1, <3>2, LineBehind
  <2>4. CASE v >= Len(text)
    <3>1. Config!ReadItem(text, i, asserts) = Passed(i, <<>>, "end")
      BY Zenon, <1>7, <2>4, LastIsRead
    <3>2. j + 1 \in 1..Len(text) + 1 /\ j + 1 > Len(text)
      BY <1>1, <1>2, <1>10, <2>4
    <3>3. x[j + 1] = <<>>
      BY Zenon, <3>2 DEF Reads, IsItems, Listed
    <3> QED
      BY Zenon, <2>2, <3>1, <3>3, EndReads
  <2>5. CASE ~(v >= Len(text))
    <3>1. text[v] = Newline
      BY Zenon, <1>2, <1>10
    <3>2. Config!ReadItem(text, i, asserts) = Passed(v + 1, <<>>, "no")
      BY Zenon, <1>7, <1>12, <2>5, <3>1, EmptyIsRead
    <3>3. PassReads(text, x, i, Passed(j + 1, <<>>, "no"))
      BY Zenon, <2>2, <2>3, EmptyReads DEF Behind
    <3> QED
      BY Zenon, <1>10, <3>2, <3>3
  <2> QED
    BY <2>4, <2>5
<1>11. CASE v # j
  <2>1. PICK d : d = Config!LineEnd(text, v)
    OBVIOUS
  <2>2. ValueRead(text, j, q, v, d)
    BY Zenon, <1>6, <1>11, <2>1, ValueIsRead
  <2>3. ~(v >= Len(text)) /\ d \in a..j
    <3>1. d \in v + 1..j
      BY Zenon, <2>2 DEF ValueRead
    <3> QED
      BY <1>1, <1>2, <1>9, <1>11, <3>1
  <2>4. text[v] # Newline
    BY Zenon, <1>6, <1>11 DEF ValueAt
  <2>5. PICK items : items = ItemsOf(text, a, j)
    OBVIOUS
  <2>6. ItemIn(text, a, b, v, d, items)
    <3>1. items = <<[name  |-> SubSeq(text, a, b - 1),
                     value |-> Config!Trimmed(SubSeq(text, v, d - 1))]>>
      BY Zenon, <1>2, <1>4, <2>2, <2>5 DEF ItemsOf, Named, ValueRead
    <3> QED
      BY Zenon, <2>1, <3>1 DEF ItemIn
  <2>7. Config!ReadItem(text, i, asserts) = Passed(d + 1, items, "no")
    BY <1>7, <1>12, <2>3, <2>4, <2>6, ItemIsRead
  <2>8. Behind(text, x, j, d)
    BY Zenon, <2>2, <2>3, LineBehind DEF ValueRead
  <2>9. items \in ItemSeqs
    <3>1. a \in 1..Len(text) /\ j \in a..Len(text)
      BY <1>1, <1>2
    <3> QED
      BY Zenon, <2>5, <3>1, ItemsOfTyped DEF IsLine, ItemSeqs
  <2>10. x[i] = items \o x[d + 1]
    BY Zenon, <1>8, <2>5, <2>8 DEF Behind
  <2>11. PassReads(text, x, i, Passed(d + 1, items, "no"))
    BY Zenon, <2>8, <2>9, <2>10, PassedReads DEF Behind
  <2> QED
    BY Zenon, <2>7, <2>11
<1> QED
  BY <1>10, <1>11

LEMMA PassReadsItems ==
  ASSUME NEW text, NEW x, Reads(text, x), NEW i \in 1..Len(text) + 1, PlainAt(text, i), NEW asserts
  PROVE  PassReads(text, x, i, Config!ReadItem(text, i, asserts))
<1>1. PICK n \in Nat : n = Len(text)
  BY DEF Reads, Lined, Config_Text
<1>2. PICK a : a = Config!NameAt(text, i)
  OBVIOUS
<1>3. /\ a \in i..Len(text) + 1 /\ (a >= Len(text) => a = Len(text) + 1)
      /\ (a < Len(text) => a \in 1..Len(text) /\ ~Blank(text[a]))
  BY Zenon, <1>2, NameFollows DEF Reads
<1>4. \A k \in i..a - 1 : Blank(text[k])
  BY Zenon, <1>2, NameAtIs DEF Reads, Lined
<1>5. Ahead(text, x, i, a)
  BY Zenon, <1>3, <1>4, BlanksAhead
<1>6. CASE a >= Len(text)
  <2>1. Config!ReadItem(text, i, asserts) = Passed(i, <<>>, "end")
    BY Zenon, <1>2, <1>6, EndIsRead
  <2>2. a \in 1..Len(text) + 1 /\ a > Len(text)
    BY <1>1, <1>3, <1>6
  <2>3. x[a] = <<>>
    BY Zenon, <2>2 DEF Reads, IsItems, Listed
  <2> QED
    BY Zenon, <1>5, <2>1, <2>3, EndReads DEF Ahead
<1>7. CASE a < Len(text)
  <2>1. PICK j, q : IsLine(text, a, j, q)
    BY Zenon, <1>3, <1>5, <1>7, LineFound DEF Reads, Ahead
  <2> QED
    BY Zenon, <1>2, <1>5, <2>1, ItemReads DEF Ahead
<1> QED
  BY <1>1, <1>3, <1>6, <1>7

LEMMA ItemsBefore ==
  ASSUME NEW a \in ItemSeqs, NEW b \in ItemSeqs
  PROVE  IsPrefix(a, a \o b)
<1>1. PICK S : S = Item
  OBVIOUS
<1>2. a \in Seq(S) /\ b \in Seq(S)
  BY Zenon, <1>1 DEF ItemSeqs
<1>3. PICK l \in Nat : l = Len(a)
  BY <1>2
<1>4. SubSeq(a \o b, 1, l) = SubSeq(a, 1, l)
  <2>1. CASE l = 0
    BY <2>1, SubSeqEmpty
  <2>2. CASE l # 0
    <3>1. 1 \in 1..Len(a) /\ l \in 1..Len(a)
      BY <1>3, <2>2
    <3> QED
      BY <1>2, <3>1, SubSeqOfConcat1
  <2> QED
    BY <2>1, <2>2
<1>5. Len(a) <= Len(a \o b)
  BY <1>2
<1> QED
  BY Zenon, <1>3, <1>4, <1>5 DEF IsPrefix

ItemsJoined(a, b, c) == a \o b \in ItemSeqs /\ a \o (b \o c) = (a \o b) \o c
LEMMA ItemsJoin ==
  ASSUME NEW a \in ItemSeqs, NEW b \in ItemSeqs, NEW c \in ItemSeqs
  PROVE  ItemsJoined(a, b, c)
<1>1. PICK S : S = Item
  OBVIOUS
<1>2. a \in Seq(S) /\ b \in Seq(S) /\ c \in Seq(S)
  BY Zenon, <1>1 DEF ItemSeqs
<1>3. a \o b \in Seq(S) /\ a \o (b \o c) = (a \o b) \o c
  BY <1>2, ConcatProperties
<1> QED
  BY Zenon, <1>1, <1>3 DEF ItemsJoined, ItemSeqs

(* Nothing behind a sequence of items. *)
LEMMA NothingBehind ==
  ASSUME NEW s \in ItemSeqs
  PROVE  s \o <<>> = s
BY DEF ItemSeqs

-----------------------------------------------------------------------------
(* The runs of read_config                                                  *)

(* What is read so far are the items in front of the next place. *)
Gathers(text, c) ==
  LET x == Items(text) IN
  /\ IsPass(c) /\ c.items \in ItemSeqs /\ c.next \in 1..Len(text) + 1
  /\ \/ c.ended = "no" /\ PlainAt(text, c.next) /\ x[1] = c.items \o x[c.next]
     \/ c.ended = "memory" /\ IsPrefix(c.items, x[1])
     \/ c.ended = "end" /\ c.items = x[1]

LEMMA PlainReads ==
  ASSUME NEW text \in Config_Text, Plain(text)
  PROVE  Reads(text, Items(text))
<1>1. Len(text) > 0 => text # <<>>
  OBVIOUS
<1>2. Lined(text)
  BY Zenon, <1>1 DEF Lined, Plain, Newline, NoEof
<1> QED
  BY Zenon, <1>2, ItemsIs DEF Reads

LEMMA StartGathers ==
  ASSUME NEW text \in Config_Text, Plain(text)
  PROVE  Gathers(text, Passed(1, <<>>, "no"))
<1>1. PICK n \in Nat : n = Len(text)
  BY DEF Config_Text
<1>2. PICK c : c = Passed(1, <<>>, "no")
  OBVIOUS
<1>3. c.next = 1 /\ c.items = <<>> /\ c.ended = "no"
  BY <1>2 DEF Passed
<1>4. IsPass(c)
  BY Zenon, <1>2, <1>3 DEF IsPass
<1>5. PICK x : x = Items(text)
  OBVIOUS
<1>6. 1 \in 1..Len(text) + 1
  BY <1>1
<1>7. x[1] = <<>> \o x[1]
  <2>1. x[1] \in ItemSeqs
    BY Zenon, <1>5, <1>6, PlainReads DEF Reads, IsItems
  <2> QED
    BY Zenon, <2>1, NothingBefore
<1>8. PlainAt(text, 1)
  <2>1. 1 <= Len(text) => 1 \in 1..Len(text)
    BY <1>1
  <2> QED
    BY Zenon, <2>1 DEF Plain, PlainAt
<1>9. <<>> \in ItemSeqs
  BY DEF ItemSeqs
<1> QED
  BY Zenon, <1>2, <1>3, <1>4, <1>5, <1>6, <1>7, <1>8, <1>9 DEF Gathers

HoldsPass(c, next, items, ended) == c.next = next /\ c.items = items /\ c.ended = ended
LEMMA PassedFields ==
  ASSUME NEW next, NEW items, NEW ended
  PROVE  HoldsPass(Passed(next, items, ended), next, items, ended)
BY DEF Passed, HoldsPass

LEMMA PassedItems ==
  ASSUME NEW next, NEW items, NEW ended, NEW all, NEW c, c = Passed(next, items, ended),
         NEW d, d = [c EXCEPT !.items = all]
  PROVE  d = Passed(next, all, ended)
BY DEF Passed

(* A pass goes on with the items it has read. *)
Extends(c, pass, d) == d = [pass EXCEPT !.items = c.items \o @]
LEMMA PassGathers ==
  ASSUME NEW text \in Config_Text, Plain(text), NEW c, Gathers(text, c), c.ended = "no",
         NEW pass, PassReads(text, Items(text), c.next, pass), NEW d, Extends(c, pass, d)
  PROVE  Gathers(text, d)
<1>1. PICK x : x = Items(text)
  OBVIOUS
<1>2. Reads(text, x)
  BY Zenon, <1>1, PlainReads
<1>3. PICK i : i = c.next
  OBVIOUS
<1>4. PICK s : s = c.items
  OBVIOUS
<1>5. /\ s \in ItemSeqs /\ i \in 1..Len(text) + 1 /\ PlainAt(text, i) /\ x[1] = s \o x[i]
  <2>1. "no" # "memory" /\ "no" # "end"
    OBVIOUS
  <2> QED
    BY Zenon, <1>1, <1>3, <1>4, <2>1 DEF Gathers
<1>6. PassReads(text, x, i, pass)
  BY Zenon, <1>1, <1>3
<1>7. PICK next : next = pass.next
  OBVIOUS
<1>8. PICK items : items = pass.items
  OBVIOUS
<1>9. PICK ended : ended = pass.ended
  OBVIOUS
<1>10. /\ next \in 1..Len(text) + 1 /\ items \in ItemSeqs
       /\ \/ ended = "no" /\ PlainAt(text, next) /\ x[i] = items \o x[next]
          \/ ended = "end" /\ items = <<>> /\ x[i] = <<>>
  BY Zenon, <1>6, <1>7, <1>8, <1>9 DEF PassReads
<1>11. pass = Passed(next, items, ended)
  BY Zenon, <1>6, <1>7, <1>8, <1>9 DEF PassReads, IsPass
<1>12. PICK all : all = s \o items
  OBVIOUS
<1>13. d = Passed(next, all, ended)
  <2>1. d = [pass EXCEPT !.items = all]
    BY Zenon, <1>4, <1>8, <1>12 DEF Extends
  <2> QED
    BY Zenon, <1>11, <2>1, PassedItems
<1>14. d.next = next /\ d.items = all /\ d.ended = ended
  <2>1. HoldsPass(Passed(next, all, ended), next, all, ended)
    BY Zenon, PassedFields
  <2> QED
    BY Zenon, <1>13, <2>1 DEF HoldsPass
<1>15. IsPass(d)
  BY Zenon, <1>13, <1>14 DEF IsPass
<1>16. CASE ended = "no" /\ PlainAt(text, next) /\ x[i] = items \o x[next]
  <2>1. x[next] \in ItemSeqs
    BY Zenon, <1>2, <1>10 DEF Reads, IsItems
  <2>2. ItemsJoined(s, items, x[next])
    BY Zenon, <1>5, <1>10, <2>1, ItemsJoin
  <2>3. all \in ItemSeqs /\ x[1] = all \o x[next]
    BY Zenon, <1>5, <1>12, <1>16, <2>2 DEF ItemsJoined
  <2> QED
    BY Zenon, <1>1, <1>10, <1>14, <1>15, <1>16, <2>3 DEF Gathers
<1>17. CASE ended = "end" /\ items = <<>> /\ x[i] = <<>>
  <2>1. all = s
    BY Zenon, <1>5, <1>12, <1>17, NothingBehind
  <2>2. x[1] = s
    BY Zenon, <1>5, <1>17, NothingBehind
  <2> QED
    BY Zenon, <1>1, <1>5, <1>10, <1>14, <1>15, <1>17, <2>1, <2>2 DEF Gathers
<1> QED
  BY <1>10, <1>16, <1>17

(* Without memory the items read so far stay. *)
LEMMA MemoryGathers ==
  ASSUME NEW text \in Config_Text, Plain(text), NEW c, Gathers(text, c), c.ended = "no",
         NEW d, d = [c EXCEPT !.ended = "memory"]
  PROVE  Gathers(text, d)
<1>1. PICK x : x = Items(text)
  OBVIOUS
<1>2. PICK next : next = c.next
  OBVIOUS
<1>3. PICK items : items = c.items
  OBVIOUS
<1>4. /\ items \in ItemSeqs /\ next \in 1..Len(text) + 1 /\ x[1] = items \o x[next]
  <2>1. "no" # "memory" /\ "no" # "end"
    OBVIOUS
  <2> QED
    BY Zenon, <1>1, <1>2, <1>3, <2>1 DEF Gathers
<1>5. c = [next |-> next, items |-> items, ended |-> "no"]
  BY Zenon, <1>2, <1>3 DEF Gathers, IsPass, Passed
<1>6. d = [next |-> next, items |-> items, ended |-> "memory"]
  BY <1>5
<1>7. d.next = next /\ d.items = items /\ d.ended = "memory"
  BY <1>6
<1>8. IsPass(d)
  BY Zenon, <1>6, <1>7 DEF IsPass, Passed
<1>9. IsPrefix(items, x[1])
  <2>1. x[next] \in ItemSeqs
    BY Zenon, <1>1, <1>4, PlainReads DEF Reads, IsItems
  <2> QED
    BY Zenon, <1>4, <2>1, ItemsBefore
<1> QED
  BY Zenon, <1>1, <1>4, <1>7, <1>8, <1>9 DEF Gathers

(* What is read of a configuration text so far. *)
Gathered ==
  job.kind = "config" =>
    /\ job.text \in Config_Text
    /\ Plain(job.text) => Gathers(job.text, out)

LEMMA GatheredInit == Init => Gathered
<1> SUFFICES ASSUME Init
             PROVE  Gathered
  OBVIOUS
<1>1. CASE StartConfig
  <2>1. PICK text \in UpTo(Letters, MaxText), asserts \in BOOLEAN :
          /\ job = [kind |-> "config", text |-> text, asserts |-> asserts]
          /\ out = [next |-> 1, items |-> <<>>, ended |-> "no"]
    BY Zenon, <1>1 DEF StartConfig, Letters
  <2>2. text \in Config_Text
    <3>1. MaxText \in Nat
      BY BoundsAssumption
    <3> QED
      BY <3>1, UpToAreSequences DEF Config_Text
  <2>3. job.text = text
    BY <2>1
  <2>4. out = Passed(1, <<>>, "no")
    BY <2>1 DEF Passed
  <2> QED
    BY Zenon, <2>2, <2>3, <2>4, StartGathers DEF Gathered
<1>2. CASE StartEvent \/ StartDigest \/ StartBase64 \/ StartConcat
  <2>1. StartConcat => job.kind = "concat"
    <3>1. StartConcat => \E template, files : job = [kind |-> "concat", template |-> template, files |-> files]
      BY Zenon DEF StartConcat
    <3> QED
      BY <3>1
  <2>2. StartEvent => job.kind = "json"
    <3>1. StartEvent => \E event, failing, size :
            job = [kind |-> "json", event |-> event, failing |-> failing, size |-> size]
      BY Zenon DEF StartEvent
    <3> QED
      BY <3>1
  <2>3. ASSUME StartDigest
        PROVE  job.kind # "config"
    BY <2>3 DEF StartDigest
  <2>4. ASSUME StartBase64
        PROVE  job.kind # "config"
    BY <2>4 DEF StartBase64
  <2>5. job.kind # "config"
    BY <1>2, <2>1, <2>2, <2>3, <2>4
  <2> QED
    BY <2>5 DEF Gathered
<1> QED
  BY <1>1, <1>2 DEF Init

LEMMA GatheredStep == Gathered /\ [Next]_vars => Gathered'
<1> SUFFICES ASSUME Gathered, [Next]_vars
             PROVE  Gathered'
  OBVIOUS
<1>1. CASE ReadConfig
  <2>1. job.kind = "config" /\ out.ended = "no" /\ job' = job
    BY Zenon, <1>1 DEF ReadConfig
  <2>2. PICK text : text = job.text
    OBVIOUS
  <2>3. PICK pass : pass = Config!ReadItem(text, out.next, job.asserts)
    OBVIOUS
  <2>4. \/ out' = [pass EXCEPT !.items = out.items \o @]
        \/ out' = [out EXCEPT !.ended = "memory"]
    BY Zenon, <1>1, <2>2, <2>3 DEF ReadConfig
  <2>5. text \in Config_Text /\ (Plain(text) => Gathers(text, out))
    BY Zenon, <2>1, <2>2 DEF Gathered
  <2>6. PICK d : d = out'
    OBVIOUS
  <2>7. Plain(text) => Gathers(text, d)
    <3>1. SUFFICES ASSUME Plain(text)
                   PROVE  Gathers(text, d)
      OBVIOUS
    <3>2. out.next \in 1..Len(text) + 1 /\ PlainAt(text, out.next)
      <4>1. "no" # "memory" /\ "no" # "end"
        OBVIOUS
      <4> QED
        BY Zenon, <2>1, <2>5, <3>1, <4>1 DEF Gathers
    <3>3. PassReads(text, Items(text), out.next, pass)
      BY Zenon, <2>3, <2>5, <3>1, <3>2, PlainReads, PassReadsItems
    <3>4. Extends(out, pass, d) \/ d = [out EXCEPT !.ended = "memory"]
      BY Zenon, <2>4, <2>6 DEF Extends
    <3> QED
      BY Zenon, <2>1, <2>5, <3>1, <3>3, <3>4, PassGathers, MemoryGathers
  <2> QED
    BY Zenon, <2>1, <2>2, <2>5, <2>6, <2>7 DEF Gathered
<1>2. CASE EncodeEvent \/ ComputeDigest \/ EncodeBase64 \/ ReplacePlaceholder
  <2>1. job' = job /\ job.kind # "config"
    BY <1>2 DEF EncodeEvent, ComputeDigest, EncodeBase64, ReplacePlaceholder
  <2> QED
    BY <2>1 DEF Gathered
<1>3. CASE UNCHANGED vars
  BY <1>3 DEF Gathered, vars
<1> QED
  BY <1>1, <1>2, <1>3 DEF Next

(* read_config reports the items of a plain text of any length, in their   *)
(* order; the first ones if memory runs out; and no assertion fails.       *)
THEOREM ConfigIsReadHolds == Spec => []ConfigIsRead
<1>1. Gathered => ConfigIsRead
  <2> SUFFICES ASSUME Gathered, job.kind = "config", Plain(job.text)
               PROVE  /\ IsPrefix(out.items, Items(job.text)[1])
                      /\ out.ended = "end" => out.items = Items(job.text)[1]
                      /\ out.ended # "abort"
    BY Zenon DEF ConfigIsRead
  <2>1. PICK x : x = Items(job.text)
    OBVIOUS
  <2>2. PICK s : s = out.items
    OBVIOUS
  <2>3. job.text \in Config_Text /\ Gathers(job.text, out)
    BY Zenon DEF Gathered
  <2>4. out.ended # "abort" /\ (out.ended = "end" => s = x[1])
    <3>1. "no" # "abort" /\ "memory" # "abort" /\ "end" # "abort" /\ "no" # "end" /\ "memory" # "end"
      OBVIOUS
    <3> QED
      BY Zenon, <2>1, <2>2, <2>3, <3>1 DEF Gathers
  <2>5. \A r \in ItemSeqs : IsPrefix(s, s \o r)
    BY Zenon, <2>2, <2>3, ItemsBefore DEF Gathers
  <2>6. <<>> \in ItemSeqs /\ s \o <<>> = s
    <3>1. <<>> \in ItemSeqs
      BY DEF ItemSeqs
    <3> QED
      BY Zenon, <2>2, <2>3, <3>1, NothingBehind DEF Gathers
  <2>7. out.ended = "no" => \E r \in ItemSeqs : x[1] = s \o r
    <3>1. "no" # "memory" /\ "no" # "end"
      OBVIOUS
    <3>2. Reads(job.text, x)
      BY Zenon, <2>1, <2>3, PlainReads
    <3> QED
      BY Zenon, <2>1, <2>2, <2>3, <3>1, <3>2 DEF Gathers, Reads, IsItems
  <2>8. IsPrefix(s, x[1])
    BY Zenon, <2>1, <2>2, <2>3, <2>5, <2>6, <2>7 DEF Gathers
  <2> QED
    BY Zenon, <2>1, <2>2, <2>4, <2>8
<1> QED
  BY <1>1, GatheredInit, GatheredStep, PTL DEF Spec

=============================================================================
