---------------------------- MODULE QueryViewProofs ----------------------------
(***************************************************************************)
(* TLAPS proofs about QueryView: the page's log, table and panel, for any  *)
(* number of queries and any size of the log.                              *)
(***************************************************************************)
EXTENDS QueryView, FiniteSetsExt, SequencesExt, TLAPS, WellFoundedInduction, SequenceTheorems

-----------------------------------------------------------------------------
(* Facts about operators of the community modules                          *)

(* A set of naturals that is not empty has a least element, and Min is it. *)
LEMMA MinIsLeast ==
  ASSUME NEW S \in SUBSET Nat, S # {}
  PROVE  Min(S) \in S /\ \A x \in S : Min(S) <= x
<1> DEFINE R == OpToRel(<, Nat)
<1>1. \E x \in S : \A y \in S : ~(<<y, x>> \in R)
  <2> HIDE DEF R
  <2>1. IsWellFoundedOn(R, Nat)
    BY NatLessThanWellFounded DEF R
  <2> QED
    BY <2>1, WFMin
<1>2. \A x, y \in Nat : y < x => <<y, x>> \in R
  BY DEF OpToRel
<1>3. \E x \in S : \A y \in S : x <= y
  <2> HIDE DEF R
  <2>1. PICK x \in S : \A y \in S : ~(<<y, x>> \in R)
    BY <1>1
  <2>2. ASSUME NEW y \in S
        PROVE  x <= y
    <3>1. x \in Nat /\ y \in Nat /\ ~(y < x)
      BY <1>2, <2>1
    <3> QED
      BY <3>1
  <2> QED
    BY <2>2
<1> QED
  BY <1>3 DEF Min

(* A sequence without its second element. *)
LEMMA SecondRemoved ==
  ASSUME NEW S, NEW s \in Seq(S), Len(s) >= 2
  PROVE  /\ RemoveAt(s, 2) \in Seq(S)
         /\ Len(RemoveAt(s, 2)) = Len(s) - 1
         /\ \A i \in 1..Len(s) - 1 : RemoveAt(s, 2)[i] = IF i = 1 THEN s[1] ELSE s[i + 1]
<1> DEFINE n == Len(s)
           a == SubSeq(s, 1, 1)
           b == SubSeq(s, 3, n)
<1>1. n \in Nat /\ n >= 2 /\ \A i \in 1..n : s[i] \in S
  BY LenProperties
<1> HIDE DEF n
<1>2. a \in Seq(S) /\ Len(a) = 1 /\ a[1] = s[1]
  BY <1>1, SubSeqProperties
<1>3. b \in Seq(S) /\ Len(b) = n - 2 /\ \A i \in 1..n - 2 : b[i] = s[i + 2]
  <2>1. /\ b \in Seq(S)
        /\ Len(b) = IF 3 <= n THEN n - 3 + 1 ELSE 0
        /\ \A i \in 1..n - 3 + 1 : b[i] = s[3 + i - 1]
    BY <1>1, SubSeqProperties
  <2> QED
    BY <1>1, <2>1
<1>4. RemoveAt(s, 2) = a \o b
  BY DEF RemoveAt, n
<1> HIDE DEF a, b
<1>5. /\ a \o b \in Seq(S)
      /\ Len(a \o b) = Len(a) + Len(b)
      /\ \A i \in 1..Len(a) + Len(b) : (a \o b)[i] = IF i <= Len(a) THEN a[i] ELSE b[i - Len(a)]
  BY <1>2, <1>3, ConcatProperties
<1>6. Len(a) + Len(b) = n - 1
  BY <1>1, <1>2, <1>3
<1>7. \A i \in 1..n - 1 : (a \o b)[i] = IF i = 1 THEN s[1] ELSE s[i + 1]
  <2> SUFFICES ASSUME NEW i \in 1..n - 1
               PROVE  (a \o b)[i] = IF i = 1 THEN s[1] ELSE s[i + 1]
    OBVIOUS
  <2>1. CASE i = 1
    BY <1>1, <1>2, <1>5, <1>6, <2>1
  <2>2. CASE i # 1
    <3>1. i - 1 \in 1..n - 2 /\ (a \o b)[i] = b[i - 1]
      BY <1>1, <1>2, <1>5, <1>6, <2>2
    <3>2. b[i - 1] = s[(i - 1) + 2]
      BY <1>3, <3>1
    <3> QED
      BY <1>1, <2>2, <3>1, <3>2
  <2> QED
    BY <2>1, <2>2
<1> QED
  BY <1>4, <1>5, <1>6, <1>7 DEF n

Status == {"executing"} \cup Ending
Message == [type : {"start"} \cup Ending, query : Query, query_id : Query \cup {0}]
Row == [query : Query, mark : SUBSET Ending, selected : BOOLEAN]

ViewTypes ==
  /\ build \in {"mariadb", "mysql"}
  /\ maxQueryCount \in Nat \ {0}
  /\ started \in 0..MaxQueries
  /\ ended \in Nat
  /\ outcome \in [Query -> {"none"} \cup Ending]
  /\ endings \in [Query -> SUBSET Ending]
  /\ dropped \subseteq Query
  /\ sent \in Seq(Message)
  /\ object \in [Query -> [status : Status, isSelected : BOOLEAN]]
  /\ queries \in Seq(Query)
  /\ rows \in Seq(Row)
  /\ panel \in [hidden : BOOLEAN, query : Query \cup {0}, status : Status]

(* Both are empty, or neither is. *)
Lengths == queries = <<>> <=> rows = <<>>

(* A message says what happened; queries are numbered as they start. *)
Truthful(e) ==
  /\ e.query <= started
  /\ e.query_id = QueryId(e.type, e.query)
  /\ e.type # "start" => e.type \in endings[e.query]

SentTrue ==
  /\ \A q \in Query : outcome[q] # "none" => q <= started
  /\ \A j \in 1..Len(sent) : Truthful(sent[j])

(* A query is logged once: its start was sent once. *)
LoggedOnce ==
  /\ \A i \in 1..Len(queries) : queries[i] <= started
  /\ \A i, j \in 1..Len(queries) : queries[i] = queries[j] => i = j
  /\ \A i \in 1..Len(queries), j \in 1..Len(sent) :
       sent[j].type = "start" => sent[j].query # queries[i]
  /\ \A i, j \in 1..Len(sent) :
       sent[i].type = "start" /\ sent[j].type = "start" /\ sent[i].query = sent[j].query => i = j

(* The last end of a query was sent, and is known by its number. *)
EndSent(q) == build = "mariadb" /\ outcome[q] # "none" /\ q \notin dropped

(* It comes after the start, and waits to be handled or is shown. *)
EndAfterStart ==
  \A j \in 1..Len(sent) :
    (sent[j].type = "start" /\ EndSent(sent[j].query)) =>
      \E k \in j + 1..Len(sent) : sent[k].type # "start" /\ sent[k].query = sent[j].query

(* No end that waits is followed by none that tells the last. *)
LastComesLast ==
  \A j \in 1..Len(sent) :
    (sent[j].type # "start" /\ EndSent(sent[j].query)) =>
      \E k \in j..Len(sent) :
        sent[k].type = outcome[sent[j].query] /\ sent[k].query = sent[j].query

EndWaitsOrShown ==
  \A i \in 1..Len(queries) :
    EndSent(queries[i]) =>
      \/ \E k \in 1..Len(sent) : sent[k].type # "start" /\ sent[k].query = queries[i]
      \/ /\ object[queries[i]].status = outcome[queries[i]]
         /\ i \in 2..Len(rows) => outcome[queries[i]] \in rows[i].mark

(* An open panel is about a query whose object says it is selected. *)
PanelFollows ==
  maxQueryCount > 1 /\ ~panel.hidden =>
    /\ panel.query \in Query
    /\ object[panel.query].isSelected
    /\ panel.status = object[panel.query].status

View ==
  /\ ViewTypes /\ Lengths /\ AlignedPastFirst /\ MarksAreTrue
  /\ SentTrue /\ LoggedOnce /\ EndAfterStart /\ LastComesLast /\ EndWaitsOrShown /\ PanelFollows

-----------------------------------------------------------------------------
(* The page is empty at first. *)
LEMMA ViewInit == Init => View
<1> SUFFICES ASSUME Init
             PROVE  View
  OBVIOUS
<1> USE DEF Init
<1>1. ViewTypes
  BY SizeAssumption DEF ViewTypes, NewObject, Status, Ending
<1>2. queries = <<>> /\ rows = <<>> /\ sent = <<>> /\ Len(queries) = 0 /\ Len(rows) = 0
      /\ Len(sent) = 0
  OBVIOUS
<1>3. Lengths /\ AlignedPastFirst /\ MarksAreTrue
  BY <1>1, <1>2 DEF Lengths, AlignedPastFirst, MarksAreTrue, ViewTypes
<1>4. SentTrue /\ LoggedOnce /\ EndAfterStart /\ LastComesLast /\ EndWaitsOrShown /\ PanelFollows
  BY <1>2 DEF SentTrue, LoggedOnce, EndAfterStart, LastComesLast, EndWaitsOrShown, PanelFollows
<1> QED
  BY <1>1, <1>3, <1>4 DEF View

(* The types of the elements. *)
LEMMA ElementTypes ==
  ASSUME ViewTypes
  PROVE  /\ \A j \in 1..Len(sent) : /\ sent[j].query \in Query
                                    /\ sent[j].type \in {"start"} \cup Ending
                                    /\ sent[j].query_id \in Query \cup {0}
         /\ \A i \in 1..Len(queries) : queries[i] \in Query
         /\ \A i \in 1..Len(rows) : rows[i] \in Row
         /\ Len(sent) \in Nat /\ Len(queries) \in Nat /\ Len(rows) \in Nat
<1>1. \A j \in 1..Len(sent) : sent[j] \in Message
  BY ElementOfSeq DEF ViewTypes
<1>2. \A i \in 1..Len(queries) : queries[i] \in Query
  BY ElementOfSeq DEF ViewTypes
<1>3. \A i \in 1..Len(rows) : rows[i] \in Row
  BY ElementOfSeq DEF ViewTypes
<1>4. Len(sent) \in Nat /\ Len(queries) \in Nat /\ Len(rows) \in Nat
  BY LenProperties DEF ViewTypes
<1> QED
  BY <1>1, <1>2, <1>3, <1>4 DEF Message

(* What a message that is appended leaves where it was. *)
LEMMA SentAppended ==
  ASSUME ViewTypes, NEW type \in {"start"} \cup Ending, NEW q \in Query, SendEvent(type, q)
  PROVE  /\ sent' \in Seq(Message) /\ Len(sent') = Len(sent) + 1 /\ Len(sent) \in Nat
         /\ \A j \in 1..Len(sent) : sent'[j] = sent[j]
         /\ sent'[Len(sent) + 1].type = type
         /\ sent'[Len(sent) + 1].query = q
         /\ sent'[Len(sent) + 1].query_id = QueryId(type, q)
<1> DEFINE e == [type |-> type, query |-> q, query_id |-> QueryId(type, q)]
<1>1. QueryId(type, q) \in Query \cup {0}
  BY DEF QueryId
<1>2. e \in Message
  BY <1>1 DEF Message
<1>3. sent \in Seq(Message) /\ sent' = Append(sent, e)
  BY DEF ViewTypes, SendEvent
<1>4. e.type = type /\ e.query = q /\ e.query_id = QueryId(type, q)
  OBVIOUS
<1> HIDE DEF e
<1>5. /\ sent' \in Seq(Message) /\ Len(sent') = Len(sent) + 1 /\ Len(sent) \in Nat
      /\ \A j \in 1..Len(sent) : sent'[j] = sent[j]
      /\ sent'[Len(sent) + 1] = e
  BY <1>2, <1>3
<1> QED
  BY <1>4, <1>5

(* A query that starts is a new one. *)
LEMMA StartsKeep ==
  ASSUME View, QueryStarts
  PROVE  View'
<1> USE DEF View, pageVars
<1> DEFINE q == started + 1
           n == Len(sent)
<1>1. q \in Query /\ started' = q /\ started \in Nat /\ MaxQueries \in Nat
  BY SizeAssumption DEF QueryStarts, ViewTypes, Query
<1>2. /\ SendEvent("start", q) \/ UNCHANGED sent
      /\ UNCHANGED <<build, maxQueryCount, ended, outcome, endings, dropped, pageVars>>
  BY DEF QueryStarts
<1>3. /\ sent' \in Seq(Message) /\ n \in Nat
      /\ \/ UNCHANGED sent
         \/ /\ Len(sent') = n + 1 /\ \A j \in 1..n : sent'[j] = sent[j]
            /\ sent'[n + 1].type = "start" /\ sent'[n + 1].query = q
            /\ sent'[n + 1].query_id = q
  <2>1. CASE UNCHANGED sent
    BY <2>1 DEF ViewTypes
  <2>2. CASE SendEvent("start", q)
    <3>1. QueryId("start", q) = q
      BY DEF QueryId
    <3> QED
      BY <1>1, <2>2, <3>1, SentAppended
  <2> QED
    BY <1>2, <2>1, <2>2
<1>4. \A k \in Query : k <= started => k <= q /\ k # q
  BY <1>1 DEF Query
<1>5. /\ \A j \in 1..n : sent[j].query \in Query
      /\ \A i \in 1..Len(queries) : queries[i] \in Query
  BY ElementTypes
<1> HIDE DEF q, n
<1>7. ViewTypes'
  BY <1>1, <1>2, <1>3 DEF ViewTypes, Query
<1>8. Lengths' /\ AlignedPastFirst' /\ MarksAreTrue' /\ PanelFollows'
  BY <1>2 DEF Lengths, AlignedPastFirst, MarksAreTrue, PanelFollows
<1>9. SentTrue'
  <2>1. \A k \in Query : outcome'[k] # "none" => k <= started'
    BY <1>1, <1>2, <1>4 DEF SentTrue
  <2>2. ASSUME NEW j \in 1..Len(sent'), NEW e, e = sent'[j]
        PROVE  Truthful(e)'
    <3>1. CASE j \in 1..n /\ sent'[j] = sent[j]
      <4>1. Truthful(e) /\ e.query \in Query
        BY <1>5, <2>2, <3>1 DEF SentTrue, n
      <4> QED
        BY <1>1, <1>2, <1>4, <4>1 DEF Truthful, QueryId
    <3>2. CASE j = n + 1 /\ Len(sent') = n + 1
      <4>1. e.type = "start" /\ e.query = q /\ e.query_id = q
        BY <1>3, <2>2, <3>2 DEF n
      <4> QED
        BY <1>1, <4>1 DEF Truthful, QueryId, Query
    <3> QED
      BY <1>3, <3>1, <3>2 DEF n
  <2> QED
    BY <2>1, <2>2 DEF SentTrue
<1>10. LoggedOnce'
  <2>1. \A i \in 1..Len(queries) : queries[i] # q /\ queries[i] <= q
    BY <1>4, <1>5 DEF LoggedOnce
  <2>2. \A j \in 1..n : sent[j].query # q
    BY <1>4, <1>5 DEF SentTrue, Truthful, n
  <2>3. UNCHANGED queries /\ started' = q
    BY <1>1, <1>2
  <2>4. CASE UNCHANGED sent
    BY <2>1, <2>3, <2>4 DEF LoggedOnce
  <2>5. CASE Len(sent') = n + 1
    <3>1. \A j \in 1..Len(sent') : j \in 1..n \/ j = n + 1
      BY <1>3, <2>5
    <3>2. \A j \in 1..n : sent'[j] = sent[j]
      BY <1>3, <2>5 DEF n
    <3>3. sent'[n + 1].query = q
      BY <1>3, <2>5 DEF n
    <3>4. \A i, j \in 1..Len(sent') :
            sent'[i].type = "start" /\ sent'[j].type = "start" /\ sent'[i].query = sent'[j].query
              => i = j
      <4> SUFFICES ASSUME NEW i \in 1..Len(sent'), NEW j \in 1..Len(sent'),
                          sent'[i].type = "start", sent'[j].type = "start",
                          sent'[i].query = sent'[j].query
                   PROVE  i = j
        OBVIOUS
      <4>1. CASE i \in 1..n /\ j \in 1..n
        BY <3>2, <4>1 DEF LoggedOnce, n
      <4>2. CASE i = n + 1 \/ j = n + 1
        BY <2>2, <3>1, <3>2, <3>3, <4>2
      <4> QED
        BY <3>1, <4>1, <4>2
    <3>5. \A i \in 1..Len(queries), j \in 1..Len(sent') :
            sent'[j].type = "start" => sent'[j].query # queries[i]
      BY <2>1, <3>1, <3>2, <3>3 DEF LoggedOnce, n
    <3> QED
      BY <2>1, <2>3, <3>4, <3>5 DEF LoggedOnce
  <2> QED
    BY <1>3, <2>4, <2>5
<1>11. ~EndSent(q) /\ \A k : EndSent(k)' = EndSent(k)
  BY <1>1, <1>2, <1>4 DEF EndSent, SentTrue
<1>12. EndAfterStart'
  <2> SUFFICES ASSUME NEW j \in 1..Len(sent'), sent'[j].type = "start", EndSent(sent'[j].query)
               PROVE  \E k \in j + 1..Len(sent') :
                        sent'[k].type # "start" /\ sent'[k].query = sent'[j].query
    BY <1>11 DEF EndAfterStart
  <2>1. j \in 1..n /\ Len(sent') \in {n, n + 1} /\ \A k \in 1..n : sent'[k] = sent[k]
    BY <1>3, <1>11 DEF n
  <2>2. PICK k \in j + 1..n : sent[k].type # "start" /\ sent[k].query = sent[j].query
    BY <2>1 DEF EndAfterStart, n
  <2>3. k \in 1..n /\ k \in j + 1..Len(sent')
    BY <1>3, <2>1, <2>2
  <2> QED
    BY <2>1, <2>2, <2>3
<1>13. EndWaitsOrShown'
  <2>1. Len(sent') \in {n, n + 1} /\ \A k \in 1..n : sent'[k] = sent[k]
    BY <1>3 DEF n
  <2>2. \A k \in 1..n : k \in 1..Len(sent')
    BY <1>3, <2>1
  <2> QED
    BY <1>2, <1>11, <2>1, <2>2 DEF EndWaitsOrShown, n
<1>14. LastComesLast'
  <2> SUFFICES ASSUME NEW j \in 1..Len(sent'), sent'[j].type # "start", EndSent(sent'[j].query)
               PROVE  \E k \in j..Len(sent') :
                        sent'[k].type = outcome[sent'[j].query] /\ sent'[k].query = sent'[j].query
    BY <1>2, <1>11 DEF LastComesLast
  <2>1. j \in 1..n /\ Len(sent') \in {n, n + 1} /\ \A k \in 1..n : sent'[k] = sent[k]
    BY <1>3, <1>11 DEF n
  <2>2. PICK k \in j..n : sent[k].type = outcome[sent[j].query] /\ sent[k].query = sent[j].query
    BY <2>1 DEF LastComesLast, n
  <2>3. k \in 1..n /\ k \in j..Len(sent')
    BY <1>3, <2>1, <2>2
  <2> QED
    BY <2>1, <2>2, <2>3
<1> QED
  BY <1>7, <1>8, <1>9, <1>10, <1>12, <1>13, <1>14

(* An end is sent after its query's start and all its ends, or dropped. *)
LEMMA EndsKeep ==
  ASSUME View, NEW q \in Query, NEW how \in Ending, QueryEnds(q, how)
  PROVE  View'
<1> USE DEF View, pageVars
<1> DEFINE n == Len(sent)
<1>1. /\ q <= started /\ outcome' = [outcome EXCEPT ![q] = how] /\ ended' = ended + 1
      /\ endings' = [endings EXCEPT ![q] = @ \cup {how}]
      /\ UNCHANGED <<build, maxQueryCount, started, pageVars>>
  BY DEF QueryEnds
<1>2. \A k \in Query : /\ outcome'[k] = IF k = q THEN how ELSE outcome[k]
                       /\ endings'[k] = IF k = q THEN endings[k] \cup {how} ELSE endings[k]
  BY <1>1 DEF ViewTypes
<1>3. /\ sent' \in Seq(Message) /\ n \in Nat /\ dropped' \subseteq Query
      /\ \A k \in Query \ {q} : k \in dropped' <=> k \in dropped
      /\ \/ UNCHANGED sent /\ q \in dropped'
         \/ /\ Len(sent') = n + 1 /\ \A j \in 1..n : sent'[j] = sent[j]
            /\ sent'[n + 1].type = how /\ sent'[n + 1].query = q
            /\ sent'[n + 1].query_id = QueryId(how, q)
  <2>1. CASE UNCHANGED sent /\ dropped' = dropped \cup {q}
    BY <2>1 DEF ViewTypes
  <2>2. CASE SendEvent(how, q) /\ dropped' = dropped \ {q}
    BY <2>2, SentAppended DEF ViewTypes
  <2> QED
    BY <2>1, <2>2 DEF QueryEnds
<1>4. /\ \A j \in 1..n : sent[j].query \in Query
      /\ \A i \in 1..Len(queries) : queries[i] \in Query
      /\ \A i \in 1..Len(rows) : rows[i].query \in Query
  BY ElementTypes DEF Row
<1>5. how # "start" /\ how # "none"
  BY DEF Ending
<1>6. Len(sent') \in {n, n + 1} /\ \A k \in 1..n : sent'[k] = sent[k]
  BY <1>3 DEF n
<1>7. \A k \in 1..n : k \in 1..Len(sent')
  BY <1>3, <1>6
<1> HIDE DEF n
<1>8. ViewTypes'
  BY <1>1, <1>3 DEF ViewTypes
<1>9. Lengths' /\ AlignedPastFirst' /\ PanelFollows'
  BY <1>1 DEF Lengths, AlignedPastFirst, PanelFollows
<1>10. MarksAreTrue'
  <2>1. Len(rows) \in Nat
    BY ElementTypes
  <2>2. \A i \in 2..Len(rows) : i \in 1..Len(rows)
    BY <2>1
  <2> QED
    BY <1>1, <1>2, <1>4, <2>2 DEF MarksAreTrue
<1>11. SentTrue'
  <2>1. \A k \in Query : outcome'[k] # "none" => k <= started'
    BY <1>1, <1>2 DEF SentTrue
  <2>2. ASSUME NEW j \in 1..Len(sent'), NEW e, e = sent'[j]
        PROVE  Truthful(e)'
    <3>1. CASE j \in 1..n /\ sent'[j] = sent[j]
      <4>1. Truthful(e) /\ e.query \in Query
        BY <1>4, <2>2, <3>1 DEF SentTrue, n
      <4>2. endings[e.query] \subseteq endings'[e.query]
        BY <1>2, <4>1
      <4>3. UNCHANGED <<started, build>>
        BY <1>1
      <4> HIDE DEF View
      <4> QED
        BY <4>1, <4>2, <4>3 DEF Truthful, QueryId
    <3>2. CASE j = n + 1 /\ Len(sent') = n + 1
      <4>1. e.type = how /\ e.query = q /\ e.query_id = QueryId(how, q)
        BY <1>3, <2>2, <3>2 DEF n
      <4>2. how \in endings'[q]
        BY <1>2
      <4>3. UNCHANGED <<started, build>>
        BY <1>1
      <4> HIDE DEF View
      <4> QED
        BY <1>1, <4>1, <4>2, <4>3 DEF Truthful, QueryId
    <3> QED
      BY <1>3, <3>1, <3>2 DEF n
  <2> QED
    BY <2>1, <2>2 DEF SentTrue
<1>12. LoggedOnce'
  <2>1. \A j \in 1..Len(sent') : sent'[j].type = "start" => j \in 1..n /\ sent'[j] = sent[j]
    BY <1>3, <1>5, <1>6 DEF n
  <2> QED
    BY <1>1, <2>1 DEF LoggedOnce, n
<1>13. \A k \in Query : EndSent(k)' =>
         \/ EndSent(k) /\ k # q
         \/ /\ k = q /\ Len(sent') = n + 1 /\ sent'[n + 1].type # "start"
            /\ sent'[n + 1].query = q /\ sent'[n + 1].type = outcome'[q]
  BY <1>1, <1>2, <1>3, <1>5 DEF EndSent, n
<1>14. EndAfterStart'
  <2> SUFFICES ASSUME NEW j \in 1..Len(sent'), NEW u, u = sent'[j].query,
                      sent'[j].type = "start", EndSent(u)'
               PROVE  \E k \in j + 1..Len(sent') :
                        sent'[k].type # "start" /\ sent'[k].query = u
    BY DEF EndAfterStart
  <2>1. j \in 1..n /\ u = sent[j].query /\ u \in Query /\ sent[j].type = "start"
    BY <1>3, <1>4, <1>5, <1>6 DEF n
  <2>2. CASE EndSent(u)
    <3>1. PICK k \in j + 1..n : sent[k].type # "start" /\ sent[k].query = sent[j].query
      BY <2>1, <2>2 DEF EndAfterStart, n
    <3>2. k \in 1..n /\ k \in j + 1..Len(sent')
      BY <1>3, <1>6, <2>1, <3>1
    <3> QED
      BY <1>6, <2>1, <3>1, <3>2
  <2>3. CASE Len(sent') = n + 1 /\ sent'[n + 1].type # "start" /\ sent'[n + 1].query = u
    <3>1. n + 1 \in j + 1..Len(sent')
      BY <1>3, <2>1, <2>3
    <3> QED
      BY <2>3, <3>1
  <2> QED
    BY <1>13, <2>1, <2>2, <2>3
<1>15. EndWaitsOrShown'
  <2> SUFFICES ASSUME NEW i \in 1..Len(queries), NEW u, u = queries[i], EndSent(u)'
               PROVE  \/ \E k \in 1..Len(sent') : sent'[k].type # "start" /\ sent'[k].query = u
                      \/ /\ object[u].status = outcome'[u]
                         /\ i \in 2..Len(rows) => outcome'[u] \in rows[i].mark
    BY <1>1 DEF EndWaitsOrShown
  <2>1. u \in Query
    BY <1>4
  <2>2. CASE EndSent(u) /\ u # q
    <3>1. outcome'[u] = outcome[u]
      BY <1>1, <1>2, <2>1, <2>2 DEF EndSent
    <3> QED
      BY <1>6, <1>7, <2>2, <3>1 DEF EndWaitsOrShown, n
  <2>3. CASE Len(sent') = n + 1 /\ sent'[n + 1].type # "start" /\ sent'[n + 1].query = u
    <3>1. n + 1 \in 1..Len(sent')
      BY <1>3, <2>3
    <3> QED
      BY <2>3, <3>1
  <2> QED
    BY <1>13, <2>1, <2>2, <2>3
<1>16. LastComesLast'
  <2> SUFFICES ASSUME NEW j \in 1..Len(sent'), NEW u, u = sent'[j].query,
                      sent'[j].type # "start", EndSent(u)'
               PROVE  \E k \in j..Len(sent') :
                        sent'[k].type = outcome'[u] /\ sent'[k].query = u
    BY DEF LastComesLast
  <2>1. u \in Query /\ (j \in 1..n \/ (j = n + 1 /\ Len(sent') = n + 1 /\ u = q))
    BY <1>3, <1>4, <1>6 DEF n
  <2>2. CASE u = q
    <3>1. Len(sent') = n + 1 /\ sent'[n + 1].query = q /\ sent'[n + 1].type = outcome'[q]
      BY <1>13, <2>1, <2>2
    <3>2. n + 1 \in j..Len(sent')
      BY <1>3, <2>1, <3>1
    <3> QED
      BY <2>2, <3>1, <3>2
  <2>3. CASE u # q
    <3>1. EndSent(u) /\ outcome'[u] = outcome[u] /\ j \in 1..n /\ sent'[j] = sent[j]
      BY <1>2, <1>6, <1>13, <2>1, <2>3
    <3>2. PICK k \in j..n : sent[k].type = outcome[u] /\ sent[k].query = u
      BY <3>1 DEF LastComesLast, n
    <3>3. k \in 1..n /\ k \in j..Len(sent')
      BY <1>3, <1>6, <3>1, <3>2
    <3> QED
      BY <1>6, <3>1, <3>2, <3>3
  <2> QED
    BY <2>2, <2>3
<1> QED
  BY <1>8, <1>9, <1>10, <1>11, <1>12, <1>14, <1>15, <1>16
-----------------------------------------------------------------------------
(* The message that is handled leaves the queue; the others stay true, and *)
(* an end still comes after its start.                                     *)
LEMMA HandledLeaves ==
  ASSUME View, UNCHANGED serverVars, sent # <<>>, sent' = Tail(sent)
  PROVE  /\ sent' \in Seq(Message) /\ Len(sent') = Len(sent) - 1
         /\ \A j \in 1..Len(sent') : sent'[j] = sent[j + 1]
         /\ SentTrue' /\ EndAfterStart' /\ LastComesLast'
         /\ (UNCHANGED queries => LoggedOnce')
<1> USE DEF View, serverVars
<1>1. /\ sent' \in Seq(Message) /\ Len(sent') = Len(sent) - 1 /\ Len(sent') \in Nat
      /\ \A j \in 1..Len(sent') : sent'[j] = sent[j + 1]
  BY HeadTailProperties, LenProperties DEF ViewTypes
<1>2. Len(sent) \in Nat /\ \A j \in 1..Len(sent') : j + 1 \in 1..Len(sent)
  BY <1>1
<1>3. SentTrue'
  <2>1. ASSUME NEW j \in 1..Len(sent'), NEW e, e = sent'[j]
        PROVE  Truthful(e)'
    <3>1. Truthful(e)
      BY <1>1, <1>2, <2>1 DEF SentTrue
    <3> QED
      BY <3>1 DEF Truthful, QueryId
  <2> QED
    BY <2>1 DEF SentTrue
<1>4. EndAfterStart'
  <2> SUFFICES ASSUME NEW j \in 1..Len(sent'), sent'[j].type = "start", EndSent(sent'[j].query)
               PROVE  \E k \in j + 1..Len(sent') :
                        sent'[k].type # "start" /\ sent'[k].query = sent'[j].query
    BY DEF EndAfterStart, EndSent
  <2>1. sent'[j] = sent[j + 1] /\ j + 1 \in 1..Len(sent)
    BY <1>1, <1>2
  <2>2. PICK k \in (j + 1) + 1..Len(sent) :
          sent[k].type # "start" /\ sent[k].query = sent[j + 1].query
    BY <2>1 DEF EndAfterStart
  <2>3. k - 1 \in j + 1..Len(sent') /\ k - 1 \in 1..Len(sent') /\ (k - 1) + 1 = k
    BY <1>1, <1>2, <2>2
  <2>4. sent'[k - 1] = sent[k]
    BY <1>1, <2>3
  <2> QED
    BY <2>1, <2>2, <2>3, <2>4
<1>5. ASSUME UNCHANGED queries
      PROVE  LoggedOnce'
  <2>1. \A j \in 1..Len(sent') : j + 1 \in 1..Len(sent) /\ sent'[j] = sent[j + 1] /\ j \in Int
    BY <1>1, <1>2
  <2>2. \A i, j \in 1..Len(sent') :
           sent'[i].type = "start" /\ sent'[j].type = "start" /\ sent'[i].query = sent'[j].query
             => i + 1 = j + 1
    BY <2>1 DEF LoggedOnce
  <2>3. \A i, j \in 1..Len(sent') : i + 1 = j + 1 => i = j
    BY <2>1
  <2> QED
    BY <1>5, <2>1, <2>2, <2>3 DEF LoggedOnce
<1>6. LastComesLast'
  <2> SUFFICES ASSUME NEW j \in 1..Len(sent'), sent'[j].type # "start", EndSent(sent'[j].query)
               PROVE  \E k \in j..Len(sent') :
                        sent'[k].type = outcome[sent'[j].query] /\ sent'[k].query = sent'[j].query
    BY DEF LastComesLast, EndSent
  <2>1. sent'[j] = sent[j + 1] /\ j + 1 \in 1..Len(sent)
    BY <1>1, <1>2
  <2>2. PICK k \in j + 1..Len(sent) :
          sent[k].type = outcome[sent[j + 1].query] /\ sent[k].query = sent[j + 1].query
    BY <2>1 DEF LastComesLast
  <2>3. k - 1 \in j..Len(sent') /\ k - 1 \in 1..Len(sent') /\ (k - 1) + 1 = k
    BY <1>1, <1>2, <2>2
  <2>4. sent'[k - 1] = sent[k]
    BY <1>1, <2>3
  <2> QED
    BY <2>1, <2>2, <2>3, <2>4
<1> QED
  BY <1>1, <1>3, <1>4, <1>5, <1>6

(* What is shown, or waits, after the message at the head was handled. *)
LEMMA HeadHandled ==
  ASSUME ViewTypes, sent # <<>>
  PROVE  /\ Head(sent) = sent[1] /\ 1 \in 1..Len(sent)
         /\ \A k \in 1..Len(sent) : k = 1 \/ k - 1 \in 1..Len(sent) - 1
BY EmptySeq, LenProperties DEF ViewTypes

(* A message that the page ignores is the end of a query it does not log.  *)
LEMMA IgnoredKeeps ==
  ASSUME View, UNCHANGED <<serverVars, pageVars>>, sent # <<>>, sent' = Tail(sent),
         Head(sent).type # "start",
         Head(sent).query_id = 0 \/ Found(Head(sent).query_id) = {}
  PROVE  View'
<1> USE DEF View, serverVars, pageVars
<1>1. /\ sent' \in Seq(Message) /\ Len(sent') = Len(sent) - 1
      /\ \A j \in 1..Len(sent') : sent'[j] = sent[j + 1]
      /\ SentTrue' /\ EndAfterStart' /\ LastComesLast' /\ LoggedOnce'
  BY HandledLeaves
<1>2. /\ Head(sent) = sent[1] /\ 1 \in 1..Len(sent) /\ Len(sent) \in Nat
      /\ \A k \in 1..Len(sent) : k = 1 \/ k - 1 \in 1..Len(sent) - 1
  BY HeadHandled, LenProperties DEF ViewTypes
<1>3. ViewTypes'
  BY <1>1 DEF ViewTypes
<1>4. Lengths' /\ AlignedPastFirst' /\ MarksAreTrue' /\ PanelFollows'
  BY DEF Lengths, AlignedPastFirst, MarksAreTrue, PanelFollows
<1>6. EndWaitsOrShown'
  <2> SUFFICES ASSUME NEW i \in 1..Len(queries), EndSent(queries[i]), NEW k \in 1..Len(sent),
                      sent[k].type # "start", sent[k].query = queries[i]
               PROVE  \E l \in 1..Len(sent') :
                        sent'[l].type # "start" /\ sent'[l].query = queries[i]
    BY DEF EndWaitsOrShown, EndSent
  <2>1. k # 1
    <3> SUFFICES ASSUME k = 1
                 PROVE  FALSE
      OBVIOUS
    <3>1. sent[1].query_id = sent[1].query
      BY <1>2 DEF SentTrue, Truthful, QueryId, EndSent
    <3>2. queries[i] \in Query /\ queries[i] # 0
      BY ElementTypes DEF Query
    <3>3. i \in Found(sent[1].query_id)
      BY <3>1 DEF Found
    <3> QED
      BY <1>2, <3>1, <3>2, <3>3
  <2>2. k - 1 \in 1..Len(sent') /\ sent'[k - 1] = sent[k]
    BY <1>1, <1>2, <2>1
  <2> QED
    BY <2>2
<1> QED
  BY <1>1, <1>3, <1>4, <1>6

(* How many entries a full log and a full table lose. *)
Shift == IF Full /\ Len(queries) > 1 THEN 1 ELSE 0
RowShift == IF Full THEN 1 ELSE 0
Source(i) == IF i = 1 THEN 1 ELSE i + Shift

(* A started query goes last in the log, and the others keep their order.  *)
LEMMA LogAfterStart ==
  ASSUME View, NEW q \in Query, OnQueryStart(q)
  PROVE  /\ queries' \in Seq(Query) /\ Len(queries') = Len(queries) - Shift + 1
         /\ queries'[Len(queries')] = q
         /\ \A i \in 1..Len(queries) - Shift :
              Source(i) \in 1..Len(queries) /\ queries'[i] = queries[Source(i)]
         /\ Shift \in {0, 1} /\ Len(queries) \in Nat /\ (Shift = 1 => Len(queries) > 1)
<1> DEFINE n == Len(queries)
<1>1. n \in Nat /\ queries \in Seq(Query) /\ queries' = Append(LogKept, q)
  BY LenProperties DEF View, ViewTypes, OnQueryStart
<1>2. /\ LogKept \in Seq(Query) /\ Len(LogKept) = n - Shift
      /\ \A i \in 1..n - Shift : Source(i) \in 1..n /\ LogKept[i] = queries[Source(i)]
  <2>1. CASE Full /\ n > 1
    <3>1. LogKept = RemoveAt(queries, 2) /\ Shift = 1
      BY <2>1 DEF LogKept, Shift
    <3> QED
      BY <1>1, <2>1, <3>1, SecondRemoved DEF Source
  <2>2. CASE ~(Full /\ n > 1)
    <3>1. LogKept = queries /\ Shift = 0
      BY <2>2 DEF LogKept, Shift
    <3> QED
      BY <1>1, <3>1 DEF Source
  <2> QED
    BY <2>1, <2>2
<1>3. /\ queries' \in Seq(Query) /\ Len(queries') = Len(LogKept) + 1
      /\ queries'[Len(LogKept) + 1] = q
      /\ \A i \in 1..Len(LogKept) : queries'[i] = LogKept[i]
  BY <1>1, <1>2
<1> QED
  BY <1>1, <1>2, <1>3 DEF Shift

(* And in the table, whose first row goes when the log is full. *)
LEMMA TableAfterStart ==
  ASSUME View, NEW q \in Query, OnQueryStart(q)
  PROVE  /\ rows' \in Seq(Row) /\ Len(rows') = Len(rows) - RowShift + 1
         /\ rows'[Len(rows')].query = q /\ rows'[Len(rows')].mark = {}
         /\ \A i \in 1..Len(rows) - RowShift : rows'[i] = rows[i + RowShift]
         /\ RowShift \in {0, 1} /\ Len(rows) \in Nat /\ RowShift <= Len(rows)
<1> DEFINE n == Len(rows)
           r == [query |-> q, mark |-> {}, selected |-> FALSE]
           t == IF Full THEN Tail(rows) ELSE rows
<1>1. n \in Nat /\ rows \in Seq(Row) /\ rows' = Append(t, r)
  BY LenProperties DEF View, ViewTypes, OnQueryStart
<1>2. r \in Row /\ r.query = q /\ r.mark = {}
  BY DEF Row
<1>3. Full => n >= 1 /\ rows # <<>>
  <2>1. Full => Len(queries) >= 1
    BY LenProperties DEF View, ViewTypes, Full
  <2>2. Full => rows # <<>>
    <3>1. queries = <<>> => Len(queries) = 0
      OBVIOUS
    <3> QED
      BY <2>1, <3>1 DEF View, Lengths
  <2> QED
    BY <1>1, <2>2, EmptySeq
<1>4. /\ t \in Seq(Row) /\ Len(t) = n - RowShift
      /\ \A i \in 1..n - RowShift : t[i] = rows[i + RowShift]
  <2>1. CASE Full
    BY <1>1, <1>3, <2>1, HeadTailProperties DEF RowShift
  <2>2. CASE ~Full
    BY <1>1, <2>2 DEF RowShift
  <2> QED
    BY <2>1, <2>2
<1> HIDE DEF r, t
<1>5. /\ rows' \in Seq(Row) /\ Len(rows') = Len(t) + 1 /\ rows'[Len(t) + 1] = r
      /\ \A i \in 1..Len(t) : rows'[i] = t[i]
  BY <1>1, <1>2, <1>4
<1> QED
  BY <1>1, <1>2, <1>3, <1>4, <1>5 DEF RowShift
(* A start that is handled logs a query that was not logged before. *)
LEMMA LoggedKeeps ==
  ASSUME View, UNCHANGED serverVars, sent # <<>>, sent' = Tail(sent),
         Head(sent).type = "start", OnQueryStart(Head(sent).query_id)
  PROVE  View'
<1> USE DEF View, serverVars
<1> DEFINE q == Head(sent).query_id
           n == Len(queries)
           m == Len(rows)
<1>1. /\ sent' \in Seq(Message) /\ Len(sent') = Len(sent) - 1
      /\ \A j \in 1..Len(sent') : sent'[j] = sent[j + 1]
      /\ SentTrue' /\ EndAfterStart' /\ LastComesLast'
  BY HandledLeaves
<1>2. /\ Head(sent) = sent[1] /\ 1 \in 1..Len(sent) /\ Len(sent) \in Nat
      /\ \A k \in 1..Len(sent) : k = 1 \/ k - 1 \in 1..Len(sent) - 1
  BY HeadHandled, LenProperties DEF ViewTypes
<1>3. q = sent[1].query /\ q \in Query /\ sent[1].type = "start" /\ q <= started
  <2>1. Truthful(sent[1]) /\ sent[1].type = "start"
    BY <1>2 DEF SentTrue
  <2> QED
    BY <1>2, <2>1, ElementTypes DEF Truthful, QueryId
<1>4. /\ queries' \in Seq(Query) /\ Len(queries') = n - Shift + 1
      /\ queries'[Len(queries')] = q
      /\ \A i \in 1..n - Shift : Source(i) \in 1..n /\ queries'[i] = queries[Source(i)]
      /\ Shift \in {0, 1} /\ n \in Nat /\ (Shift = 1 => n > 1)
  BY <1>3, LogAfterStart
<1>5. /\ rows' \in Seq(Row) /\ Len(rows') = m - RowShift + 1
      /\ rows'[Len(rows')].query = q /\ rows'[Len(rows')].mark = {}
      /\ \A i \in 1..m - RowShift : rows'[i] = rows[i + RowShift]
      /\ RowShift \in {0, 1} /\ m \in Nat /\ RowShift <= m
  BY <1>3, TableAfterStart
<1>6. UNCHANGED <<object, panel>>
  BY DEF OnQueryStart
<1>7. (n = 0 <=> m = 0) /\ maxQueryCount \in Nat \ {0} /\ (Full <=> n >= maxQueryCount)
  <2>1. (n = 0 <=> queries = <<>>) /\ (m = 0 <=> rows = <<>>)
    BY EmptySeq DEF ViewTypes
  <2> QED
    BY <2>1 DEF Lengths, ViewTypes, Full
<1>8. maxQueryCount > 1 => n = m /\ n <= maxQueryCount /\ Shift = RowShift
  BY <1>4, <1>5, <1>7 DEF AlignedPastFirst, Shift, RowShift
<1>9. maxQueryCount = 1 => n <= 2 /\ m <= 1 /\ Len(queries') <= 2 /\ Len(rows') = 1
  BY <1>4, <1>5, <1>7 DEF AlignedPastFirst, Shift, RowShift
<1> HIDE DEF q, n, m
<1>10. ViewTypes'
  BY <1>1, <1>4, <1>5, <1>6 DEF ViewTypes
<1>11. Len(queries') \in Nat \ {0} /\ Len(rows') \in Nat \ {0}
  BY <1>4, <1>5
<1>12. Lengths'
  BY <1>4, <1>5, <1>11 DEF Lengths
<1>13. AlignedPastFirst'
  <2>1. CASE maxQueryCount = 1
    BY <1>4, <1>5, <1>6, <1>9, <2>1 DEF AlignedPastFirst
  <2>2. CASE maxQueryCount > 1
    <3>1. Len(queries') = Len(rows') /\ Len(rows') <= maxQueryCount
      BY <1>4, <1>5, <1>7, <1>8, <2>2 DEF RowShift, n
    <3>2. ASSUME NEW i \in 2..Len(queries')
          PROVE  rows'[i].query = queries'[i]
      <4>1. CASE i = Len(queries')
        BY <1>4, <1>5, <3>1, <4>1
      <4>2. CASE i # Len(queries')
        <5>1. i \in 1..n - Shift /\ i \in 1..m - RowShift /\ i # 1 /\ i + Shift \in 2..n
          BY <1>4, <1>5, <1>8, <2>2, <4>2
        <5>2. queries'[i] = queries[i + Shift] /\ rows'[i] = rows[i + Shift]
          BY <1>4, <1>5, <1>8, <2>2, <5>1 DEF Source
        <5>3. rows[i + Shift].query = queries[i + Shift]
          BY <2>2, <5>1 DEF AlignedPastFirst, n
        <5> QED
          BY <5>2, <5>3
      <4> QED
        BY <4>1, <4>2
    <3> QED
      BY <1>6, <2>2, <3>1, <3>2 DEF AlignedPastFirst
  <2> QED
    BY <1>7, <2>1, <2>2
<1>14. MarksAreTrue'
  <2> SUFFICES ASSUME NEW i \in 2..Len(rows'), rows'[i].mark # {}
               PROVE  rows'[i].mark \subseteq endings[rows'[i].query]
    BY DEF MarksAreTrue
  <2>1. i # Len(rows')
    BY <1>5
  <2>2. i \in 1..m - RowShift /\ i + RowShift \in 2..m
    BY <1>5, <2>1
  <2> QED
    BY <1>5, <2>2 DEF MarksAreTrue, m
<1>15. \A j \in 1..Len(sent') : j + 1 \in 1..Len(sent) /\ sent'[j] = sent[j + 1] /\ j \in Int
  BY <1>1, <1>2
<1>16. \A i \in 1..Len(queries') : \/ i = Len(queries') /\ queries'[i] = q
                                   \/ /\ i \in 1..n - Shift /\ Source(i) \in 1..n
                                      /\ queries'[i] = queries[Source(i)]
  BY <1>4
<1>17. \A j \in 1..n : queries[j] # q /\ queries[j] <= started
  BY <1>2, <1>3 DEF LoggedOnce, n
<1>18. LoggedOnce'
  <2>1. \A i \in 1..Len(queries') : queries'[i] <= started
    BY <1>3, <1>16, <1>17
  <2>2. \A i, j \in 1..Len(queries') : queries'[i] = queries'[j] => i = j
    <3> SUFFICES ASSUME NEW i \in 1..Len(queries'), NEW j \in 1..Len(queries'),
                        queries'[i] = queries'[j]
                 PROVE  i = j
      OBVIOUS
    <3>1. CASE queries'[i] = q
      BY <1>16, <1>17, <3>1
    <3>2. CASE queries'[i] # q
      <4>1. Source(i) \in 1..n /\ Source(j) \in 1..n /\ queries[Source(i)] = queries[Source(j)]
        BY <1>16, <3>2
      <4>2. Source(i) = Source(j)
        BY <4>1 DEF LoggedOnce, n
      <4> QED
        BY <1>4, <1>11, <4>2 DEF Source
    <3> QED
      BY <3>1, <3>2
  <2>3. ASSUME NEW i \in 1..Len(queries'), NEW j \in 1..Len(sent'), sent'[j].type = "start"
        PROVE  sent'[j].query # queries'[i]
    <3>1. sent[j + 1].type = "start" /\ j + 1 \in 1..Len(sent) /\ sent'[j] = sent[j + 1]
          /\ j + 1 # 1
      BY <1>15, <2>3
    <3>2. sent[j + 1].query # q
      BY <1>2, <1>3, <3>1 DEF LoggedOnce
    <3>3. \A k \in 1..n : sent[j + 1].query # queries[k]
      BY <3>1 DEF LoggedOnce, n
    <3> QED
      BY <1>16, <3>1, <3>2, <3>3
  <2>4. \A i, j \in 1..Len(sent') :
           sent'[i].type = "start" /\ sent'[j].type = "start" /\ sent'[i].query = sent'[j].query
             => i + 1 = j + 1
    BY <1>15 DEF LoggedOnce
  <2>5. \A i, j \in 1..Len(sent') : i + 1 = j + 1 => i = j
    BY <1>15
  <2>6. \A i, j \in 1..Len(sent') :
           sent'[i].type = "start" /\ sent'[j].type = "start" /\ sent'[i].query = sent'[j].query
             => i = j
    BY <2>4, <2>5
  <2>7. \A i \in 1..Len(queries'), j \in 1..Len(sent') :
           sent'[j].type = "start" => sent'[j].query # queries'[i]
    BY <2>3
  <2>8. started' = started
    OBVIOUS
  <2> QED
    BY <2>1, <2>2, <2>6, <2>7, <2>8 DEF LoggedOnce
<1>19. EndWaitsOrShown'
  <2> SUFFICES ASSUME NEW i \in 1..Len(queries'), NEW u, u = queries'[i], EndSent(u)
               PROVE  \/ \E k \in 1..Len(sent') : sent'[k].type # "start" /\ sent'[k].query = u
                      \/ /\ object[u].status = outcome[u]
                         /\ i \in 2..Len(rows') => outcome[u] \in rows'[i].mark
    BY <1>6 DEF EndWaitsOrShown, EndSent
  <2>1. ASSUME NEW k \in 1..Len(sent), sent[k].type # "start", sent[k].query = u
        PROVE  \E l \in 1..Len(sent') : sent'[l].type # "start" /\ sent'[l].query = u
    <3>1. k # 1 /\ k - 1 \in 1..Len(sent') /\ (k - 1) + 1 = k
      BY <1>1, <1>2, <1>3, <2>1
    <3>2. sent'[k - 1] = sent[k]
      BY <1>1, <3>1
    <3> QED
      BY <2>1, <3>1, <3>2
  <2>2. CASE u = q
    <3>1. PICK k \in 1 + 1..Len(sent) : sent[k].type # "start" /\ sent[k].query = u
      BY <1>2, <1>3, <2>2 DEF EndAfterStart
    <3>2. k \in 1..Len(sent)
      BY <3>1
    <3> QED
      BY <2>1, <3>1, <3>2
  <2>3. CASE u # q
    <3>1. i \in 1..n - Shift /\ Source(i) \in 1..n /\ u = queries[Source(i)]
      BY <1>16, <2>3
    <3>2. \/ \E k \in 1..Len(sent) : sent[k].type # "start" /\ sent[k].query = u
          \/ /\ object[u].status = outcome[u]
             /\ Source(i) \in 2..m => outcome[u] \in rows[Source(i)].mark
      BY <3>1 DEF EndWaitsOrShown, n, m
    <3>3. ASSUME i \in 2..Len(rows')
          PROVE  Source(i) \in 2..m /\ rows'[i] = rows[Source(i)]
      <4>1. maxQueryCount > 1
        <5>1. maxQueryCount = 1 => Len(rows') = 1
          BY <1>9
        <5>2. Len(rows') # 1
          <6>1. \A a \in Nat : a = 1 => 2..a = {}
            OBVIOUS
          <6> QED
            BY <1>11, <3>3, <6>1
        <5>3. maxQueryCount \in Nat \ {0}
          BY <1>7
        <5> QED
          BY <5>1, <5>2, <5>3
      <4>2. i \in 1..m - RowShift /\ Source(i) = i + RowShift
        BY <1>8, <3>1, <3>3, <4>1 DEF Source
      <4> QED
        BY <1>5, <1>11, <3>3, <4>2
    <3> QED
      BY <2>1, <3>2, <3>3
  <2> QED
    BY <2>2, <2>3
<1>20. PanelFollows'
  BY <1>6 DEF PanelFollows
<1> QED
  BY <1>1, <1>10, <1>12, <1>13, <1>14, <1>18, <1>19, <1>20

(* An end that is handled marks the row of its own query, which is logged  *)
(* once, and refreshes the panel that is about it.                         *)
LEMMA MarkedKeeps ==
  ASSUME View, UNCHANGED serverVars, sent # <<>>, sent' = Tail(sent),
         Head(sent).type # "start", Head(sent).query_id # 0,
         Found(Head(sent).query_id) # {}, OnQueryEnd(Head(sent).query_id, Head(sent).type)
  PROVE  View'
<1> USE DEF View, serverVars
<1> DEFINE q == Head(sent).query_id
           how == Head(sent).type
           r == Min(Found(q))
           m == Len(rows)
<1>1. UNCHANGED queries
  BY DEF OnQueryEnd
<1>2. /\ sent' \in Seq(Message) /\ Len(sent') = Len(sent) - 1
      /\ \A j \in 1..Len(sent') : sent'[j] = sent[j + 1]
      /\ SentTrue' /\ EndAfterStart' /\ LastComesLast' /\ LoggedOnce'
  BY <1>1, HandledLeaves
<1>3. /\ Head(sent) = sent[1] /\ 1 \in 1..Len(sent) /\ Len(sent) \in Nat
      /\ \A k \in 1..Len(sent) : k = 1 \/ k - 1 \in 1..Len(sent) - 1
  BY HeadHandled, LenProperties DEF ViewTypes
<1>4. q = sent[1].query /\ q \in Query /\ how \in Ending /\ how \in endings[q]
  <2>1. Truthful(sent[1]) /\ sent[1].type \in {"start"} \cup Ending /\ sent[1].query \in Query
    BY <1>3, ElementTypes DEF SentTrue
  <2> QED
    BY <1>3, <2>1 DEF Truthful, QueryId
<1>5. r \in 1..Len(queries) /\ queries[r] = q
  <2>1. Found(q) \in SUBSET Nat
    BY DEF Found
  <2> HIDE DEF q
  <2>2. r \in Found(q)
    BY <2>1, MinIsLeast DEF q
  <2> QED
    BY <2>2 DEF Found
<1>6. /\ object' = [object EXCEPT ![q].status = how]
      /\ IF r <= m
         THEN rows' = [rows EXCEPT ![r].mark = @ \cup {how}] /\ panel' = PanelAfter(q, how)
         ELSE UNCHANGED <<rows, panel>>
  BY DEF OnQueryEnd, RowOf
<1>7. rows \in Seq(Row) /\ m \in Nat /\ r \in Nat \ {0} /\ \A i \in 1..m : rows[i] \in Row
  BY <1>5, ElementTypes DEF ViewTypes
<1> HIDE DEF q, how, r, m
<1>8. /\ rows' \in Seq(Row) /\ Len(rows') = m
      /\ \A i \in 1..m : /\ rows'[i].query = rows[i].query
                         /\ rows'[i].mark = IF i = r THEN rows[i].mark \cup {how} ELSE rows[i].mark
  <2>1. CASE r <= m
    <3>1. r \in 1..m /\ rows[r] \in Row
      BY <1>7, <2>1
    <3>2. PICK x : x = [rows[r] EXCEPT !.mark = @ \cup {how}]
      OBVIOUS
    <3>3. x \in Row /\ x.query = rows[r].query /\ x.mark = rows[r].mark \cup {how}
      BY <1>4, <3>1, <3>2 DEF Row
    <3>4. rows' = [rows EXCEPT ![r] = x]
      BY <1>6, <2>1, <3>2
    <3>5. /\ rows' \in Seq(Row) /\ Len(rows') = m
          /\ \A i \in 1..m : rows'[i] = IF i = r THEN x ELSE rows[i]
      BY <1>7, <3>1, <3>3, <3>4, ExceptSeq DEF m
    <3> QED
      BY <3>3, <3>5
  <2>2. CASE ~(r <= m)
    BY <1>6, <1>7, <2>2 DEF m
  <2> QED
    BY <2>1, <2>2
<1>9. /\ object' \in [Query -> [status : Status, isSelected : BOOLEAN]]
      /\ object'[q].status = how
      /\ \A u \in Query : /\ object'[u].isSelected = object[u].isSelected
                          /\ u # q => object'[u] = object[u]
  BY <1>4, <1>6 DEF ViewTypes, Status
<1>10. panel' \in [hidden : BOOLEAN, query : Query \cup {0}, status : Status]
  BY <1>4, <1>6 DEF ViewTypes, PanelAfter, PanelOf, Status
<1>11. ViewTypes'
  BY <1>1, <1>2, <1>8, <1>9, <1>10 DEF ViewTypes
<1>12. Lengths'
  <2>1. (m = 0 <=> rows = <<>>) /\ (m = 0 <=> rows' = <<>>)
    BY <1>7, <1>8, EmptySeq DEF m
  <2> QED
    BY <1>1, <2>1 DEF Lengths
<1>13. \A i \in 2..m : i \in 1..m
  BY <1>7
<1>14. AlignedPastFirst'
  <2>1. rows' # <<>> => rows # <<>> /\ 1 \in 1..m
    BY <1>7, <1>8, EmptySeq DEF m
  <2>2. Len(queries) = m => \A i \in 2..Len(queries) : i \in 1..m
    BY <1>13
  <2> QED
    BY <1>1, <1>8, <2>1, <2>2 DEF AlignedPastFirst, m
<1>15. maxQueryCount \in Nat \ {0} /\ (maxQueryCount > 1 => r <= m)
       /\ (m >= 2 => maxQueryCount > 1)
  BY <1>5, <1>7 DEF AlignedPastFirst, ViewTypes, m
<1>16. MarksAreTrue'
  <2> SUFFICES ASSUME NEW i \in 2..m
               PROVE  rows'[i].mark \subseteq endings[rows[i].query]
    BY <1>8, <1>13 DEF MarksAreTrue
  <2>1. CASE i = r
    <3>1. maxQueryCount > 1 /\ maxQueryCount # 1
      BY <1>7, <1>15
    <3>2. rows[i].query = queries[i]
      BY <3>1 DEF AlignedPastFirst, m
    <3>3. rows[i].query = q /\ i \in 1..m
      BY <1>5, <1>13, <2>1, <3>2
    <3>4. rows'[i].mark = rows[i].mark \cup {how}
      BY <1>8, <2>1, <3>3
    <3>5. rows[i].mark \subseteq endings[q]
      BY <3>3 DEF MarksAreTrue, m
    <3> HIDE DEF View
    <3> QED
      BY <1>4, <3>3, <3>4, <3>5
  <2>2. CASE i # r
    BY <1>8, <1>13, <2>2 DEF MarksAreTrue, m
  <2> QED
    BY <2>1, <2>2
<1>17. EndWaitsOrShown'
  <2> SUFFICES ASSUME NEW i \in 1..Len(queries), NEW u, u = queries[i], EndSent(u)
               PROVE  \/ \E k \in 1..Len(sent') : sent'[k].type # "start" /\ sent'[k].query = u
                      \/ /\ object'[u].status = outcome[u]
                         /\ i \in 2..m => outcome[u] \in rows'[i].mark
    <3>1. Len(rows') = m /\ (EndSent(queries[1]) => build = "mariadb")
      BY <1>8 DEF EndSent
    <3>2. \A u \in {queries[i] : i \in 1..Len(queries)} : EndSent(u)' = EndSent(u)
      BY DEF EndSent
    <3> HIDE DEF View, EndSent
    <3> QED
      BY <1>1, <3>1, <3>2 DEF EndWaitsOrShown
  <2>1. CASE u = q
    <3>1. i = r
      BY <1>5, <2>1 DEF LoggedOnce
    <3>2. CASE how = outcome[q]
      <4>1. i \in 2..m => how \in rows'[i].mark
        <5>1. i \in 2..m => rows'[i].mark = rows[i].mark \cup {how}
          BY <1>8, <1>13, <3>1
        <5> HIDE DEF View
        <5> QED
          BY <5>1
      <4> QED
        BY <1>9, <2>1, <3>2, <4>1
    <3>3. CASE how # outcome[q]
      <4>1. PICK k \in 1..Len(sent) : sent[k].type = outcome[q] /\ sent[k].query = q
        BY <1>3, <1>4, <2>1 DEF LastComesLast, how
      <4>2. k # 1
        BY <1>3, <3>3, <4>1 DEF how
      <4>3. k - 1 \in 1..Len(sent') /\ (k - 1) + 1 = k
        BY <1>2, <1>3, <4>2
      <4>4. outcome[q] # "start"
        BY <1>4 DEF ViewTypes, Ending
      <4>5. sent'[k - 1] = sent[k]
        BY <1>2, <4>3
      <4> QED
        BY <2>1, <4>1, <4>3, <4>4, <4>5
    <3> QED
      BY <3>2, <3>3
  <2>2. CASE u # q
    <3>1. i # r /\ u \in Query
      BY <1>5, <2>2, ElementTypes
    <3>2. ASSUME NEW k \in 1..Len(sent), sent[k].type # "start", sent[k].query = u
          PROVE  \E l \in 1..Len(sent') : sent'[l].type # "start" /\ sent'[l].query = u
      <4>1. k # 1 /\ k - 1 \in 1..Len(sent') /\ (k - 1) + 1 = k
        BY <1>2, <1>3, <1>4, <2>2, <3>2
      <4>2. sent'[k - 1] = sent[k]
        BY <1>2, <4>1
      <4> QED
        BY <3>2, <4>1, <4>2
    <3>3. \/ \E k \in 1..Len(sent) : sent[k].type # "start" /\ sent[k].query = u
          \/ /\ object[u].status = outcome[u]
             /\ i \in 2..m => outcome[u] \in rows[i].mark
      BY DEF EndWaitsOrShown, m
    <3> QED
      BY <1>8, <1>9, <1>13, <2>2, <3>1, <3>2, <3>3
  <2> QED
    BY <2>1, <2>2
<1>18. PanelFollows'
  <2> SUFFICES ASSUME maxQueryCount > 1, ~panel'.hidden
               PROVE  /\ panel'.query \in Query
                      /\ object'[panel'.query].isSelected
                      /\ panel'.status = object'[panel'.query].status
    BY DEF PanelFollows
  <2>1. panel' = PanelAfter(q, how)
    BY <1>6, <1>15
  <2>2. CASE object[q].isSelected
    BY <1>4, <1>9, <2>1, <2>2 DEF PanelAfter, PanelOf
  <2>3. CASE ~object[q].isSelected
    <3>1. panel' = panel
      BY <2>1, <2>3 DEF PanelAfter
    <3>2. panel.query \in Query /\ object[panel.query].isSelected
          /\ panel.status = object[panel.query].status
      BY <3>1 DEF PanelFollows
    <3>3. panel.query # q
      BY <2>3, <3>2
    <3> QED
      BY <1>9, <3>1, <3>2, <3>3
  <2> QED
    BY <2>2, <2>3
<1> QED
  BY <1>2, <1>11, <1>12, <1>14, <1>16, <1>17, <1>18

(* Clicks change which rows and queries are selected, and the panel. *)
LEMMA ClicksKeep ==
  ASSUME View, NEW i \in 1..Len(rows), Unselect(i) \/ Select(i)
  PROVE  View'
<1> USE DEF View
<1> DEFINE m == Len(rows)
           q == rows[i].query
<1>1. rows \in Seq(Row) /\ m \in Nat /\ \A j \in 1..m : rows[j] \in Row
  BY ElementTypes DEF ViewTypes
<1>2. UNCHANGED <<serverVars, sent, queries>> /\ q \in Query
  BY <1>1 DEF Unselect, Select, Row
<1>3. /\ rows' \in Seq(Row) /\ Len(rows') = m
      /\ \A j \in 1..m : rows'[j].query = rows[j].query /\ rows'[j].mark = rows[j].mark
  <2>1. CASE Unselect(i)
    <3>1. PICK x : x = [rows[i] EXCEPT !.selected = FALSE]
      OBVIOUS
    <3>2. x \in Row /\ x.query = rows[i].query /\ x.mark = rows[i].mark
      BY <1>1, <3>1 DEF Row
    <3>3. rows' = [rows EXCEPT ![i] = x]
      BY <2>1, <3>1 DEF Unselect
    <3>4. /\ rows' \in Seq(Row) /\ Len(rows') = m
          /\ \A j \in 1..m : rows'[j] = IF j = i THEN x ELSE rows[j]
      BY <1>1, <3>2, <3>3, ExceptSeq
    <3> QED
      BY <3>2, <3>4
  <2>2. CASE Select(i)
    <3>1. rows' = [j \in 1..m |-> [rows[j] EXCEPT !.selected = (j = i)]]
      BY <2>2 DEF Select
    <3>2. \A j \in 1..m : /\ [rows[j] EXCEPT !.selected = (j = i)] \in Row
                          /\ [rows[j] EXCEPT !.selected = (j = i)].query = rows[j].query
                          /\ [rows[j] EXCEPT !.selected = (j = i)].mark = rows[j].mark
      BY <1>1 DEF Row
    <3> HIDE DEF m
    <3>3. rows' \in Seq(Row) /\ Len(rows') = m
      BY <1>1, <3>1, <3>2
    <3> QED
      BY <3>1, <3>2, <3>3
  <2> QED
    BY <2>1, <2>2
<1>4. /\ object' \in [Query -> [status : Status, isSelected : BOOLEAN]]
      /\ \A u \in Query : object'[u].status = object[u].status
  <2>1. object \in [Query -> [status : Status, isSelected : BOOLEAN]]
    BY DEF ViewTypes
  <2>2. PICK b \in BOOLEAN : object' = [object EXCEPT ![q].isSelected = b]
    BY DEF Unselect, Select
  <2>3. object[q] \in [status : Status, isSelected : BOOLEAN]
    BY <1>2, <2>1
  <2>4. PICK x : x = [object[q] EXCEPT !.isSelected = b]
    OBVIOUS
  <2>5. x \in [status : Status, isSelected : BOOLEAN] /\ x.status = object[q].status
    BY <2>3, <2>4
  <2>6. object' = [object EXCEPT ![q] = x]
    BY <2>2, <2>4
  <2> HIDE DEF View, q
  <2> QED
    BY <1>2, <2>1, <2>5, <2>6
<1>5. panel' \in [hidden : BOOLEAN, query : Query \cup {0}, status : Status]
  <2>1. CASE Unselect(i)
    BY <2>1 DEF Unselect, ViewTypes
  <2>2. CASE Select(i)
    <3>1. object[q].status \in Status
      BY <1>2 DEF ViewTypes
    <3> QED
      BY <1>2, <2>2, <3>1 DEF Select
  <2> QED
    BY <2>1, <2>2
<1>6. PanelFollows'
  <2>1. CASE Unselect(i)
    <3>1. panel'.hidden
      BY <2>1 DEF Unselect, ViewTypes
    <3> QED
      BY <3>1 DEF PanelFollows
  <2>2. CASE Select(i)
    <3>1. panel'.query = q /\ panel'.status = object[q].status /\ object'[q].isSelected
      BY <1>2, <2>2 DEF Select, ViewTypes
    <3> QED
      BY <1>2, <1>4, <3>1 DEF PanelFollows
  <2> QED
    BY <2>1, <2>2
<1> HIDE DEF m
<1>7. ViewTypes'
  BY <1>2, <1>3, <1>4, <1>5 DEF ViewTypes, serverVars
<1>8. Lengths'
  <2>1. (m = 0 <=> rows = <<>>) /\ (m = 0 <=> rows' = <<>>)
    BY <1>1, <1>3, EmptySeq DEF m
  <2> QED
    BY <1>2, <2>1 DEF Lengths
<1>9. \A j \in 2..m : j \in 1..m
  BY <1>1
<1>10. AlignedPastFirst'
  <2>1. rows' # <<>> => rows # <<>> /\ 1 \in 1..m
    BY <1>1, <1>3, EmptySeq DEF m
  <2>2. Len(queries) = m => \A j \in 2..Len(queries) : j \in 1..m
    BY <1>9
  <2> QED
    BY <1>2, <1>3, <2>1, <2>2 DEF AlignedPastFirst, m, serverVars
<1>11. MarksAreTrue'
  BY <1>2, <1>3, <1>9 DEF MarksAreTrue, m, serverVars
<1>12. SentTrue' /\ LoggedOnce' /\ EndAfterStart' /\ LastComesLast'
  <2>1. \A e : Truthful(e)' = Truthful(e)
    BY <1>2 DEF Truthful, QueryId, serverVars
  <2> QED
    BY <1>2, <2>1 DEF SentTrue, LoggedOnce, EndAfterStart, LastComesLast, EndSent, serverVars
<1>13. EndWaitsOrShown'
  <2>1. \A j \in 1..Len(queries) : queries[j] \in Query
    BY ElementTypes
  <2> QED
    BY <1>2, <1>3, <1>4, <1>9, <2>1 DEF EndWaitsOrShown, EndSent, serverVars, m
<1> QED
  BY <1>6, <1>7, <1>8, <1>10, <1>11, <1>12, <1>13

-----------------------------------------------------------------------------
(* Every step keeps the invariant. *)
LEMMA ViewStep == View /\ [Next]_vars => View'
<1> SUFFICES ASSUME View, [Next]_vars
             PROVE  View'
  OBVIOUS
<1>1. CASE UNCHANGED vars
  <2> USE <1>1 DEF View, vars, serverVars, pageVars
  <2>1. ViewTypes' /\ Lengths' /\ AlignedPastFirst' /\ MarksAreTrue' /\ PanelFollows'
    BY DEF ViewTypes, Lengths, AlignedPastFirst, MarksAreTrue, PanelFollows
  <2>2. \A e : Truthful(e)' = Truthful(e)
    BY DEF Truthful, QueryId
  <2>3. SentTrue' /\ LoggedOnce' /\ EndAfterStart' /\ LastComesLast' /\ EndWaitsOrShown'
    BY <2>2 DEF SentTrue, LoggedOnce, EndAfterStart, LastComesLast, EndWaitsOrShown, EndSent
  <2> QED
    BY <2>1, <2>3
<1>2. CASE QueryStarts \/ \E q \in Query, how \in Ending : QueryEnds(q, how)
  BY <1>2, StartsKeep, EndsKeep
<1>3. CASE OnMessage
  <2>1. sent # <<>> /\ sent' = Tail(sent) /\ UNCHANGED serverVars
    BY <1>3 DEF OnMessage
  <2>2. CASE Head(sent).type = "start"
    <3>1. OnQueryStart(Head(sent).query_id)
      BY <1>3, <2>2 DEF OnMessage
    <3> QED
      BY <2>1, <2>2, <3>1, LoggedKeeps
  <2>3. CASE Head(sent).type # "start" /\ Head(sent).query_id = 0
    BY <1>3, <2>1, <2>3, IgnoredKeeps DEF OnMessage
  <2>4. CASE Head(sent).type # "start" /\ Head(sent).query_id # 0
    <3>1. OnQueryEnd(Head(sent).query_id, Head(sent).type)
      BY <1>3, <2>4 DEF OnMessage
    <3>2. CASE Found(Head(sent).query_id) = {}
      BY <2>1, <2>4, <3>1, <3>2, IgnoredKeeps DEF OnQueryEnd
    <3>3. CASE Found(Head(sent).query_id) # {}
      BY <2>1, <2>4, <3>1, <3>3, MarkedKeeps
    <3> QED
      BY <3>2, <3>3
  <2> QED
    BY <2>2, <2>3, <2>4
<1>4. CASE \E i \in 1..Len(rows) : Unselect(i) \/ Select(i)
  BY <1>4, ClicksKeep
<1> QED
  BY <1>1, <1>2, <1>3, <1>4 DEF Next

(* The invariant holds. *)
THEOREM ViewHolds == Spec => []View
BY ViewInit, ViewStep, PTL DEF Spec

(* The log and the table stay within their bound and agree from the second *)
(* place on, whatever starts, ends and clicks come in whatever order.      *)
THEOREM AlignedHolds == Spec => []AlignedPastFirst
<1>1. View => AlignedPastFirst
  BY DEF View
<1> QED
  BY <1>1, ViewHolds, PTL

(* No row but the first is marked as another query ended. *)
THEOREM MarksHold == Spec => []MarksAreTrue
<1>1. View => MarksAreTrue
  BY DEF View
<1> QED
  BY <1>1, ViewHolds, PTL

(* When all messages were handled, every logged query whose last end was   *)
(* sent with its number is shown as it ended last.                         *)
THEOREM EndingsHold == Spec => []EndingsShown
<1>1. View => EndingsShown
  BY DEF View, EndWaitsOrShown, EndSent, EndingsShown
<1> QED
  BY <1>1, ViewHolds, PTL

(* An open panel tells the present status of its query. *)
THEOREM PanelHolds == Spec => []PanelIsCurrent
<1>1. View => PanelIsCurrent
  BY DEF View, PanelFollows, PanelIsCurrent
<1> QED
  BY <1>1, ViewHolds, PTL

=============================================================================
