------------------------------ MODULE QueryView ------------------------------
(***************************************************************************)
(* What a browser shows: the event types and query ids that send_event     *)
(* puts in a message (logger.c), and the page's log of queries, its table  *)
(* and its info panel (ui/index.js).                                       *)
(*                                                                         *)
(* Between the two, events keep their order and may be dropped as a whole  *)
(* when the queue is full (EventQueue).  Queries are numbered here in the  *)
(* order their starts enter the queue: the page only compares query ids    *)
(* for equality.  A JavaScript query object outlives its place in the log, *)
(* because its row keeps it.                                               *)
(***************************************************************************)
EXTENDS Naturals, Sequences, SequencesExt

CONSTANTS
  MaxQueries,      \* bound on the queries the server executes
  MaxEnds,         \* bound on the errors and results it raises for them
  LogSizes         \* the page's logSize; 100 when it has none

ASSUME SizeAssumption == MaxQueries \in Nat /\ MaxEnds \in Nat /\ LogSizes \subseteq Nat \ {0}

VARIABLES
  build,      \* what the plugin was built for
  maxQueryCount,
  started,    \* queries started so far
  ended,      \* errors and results raised so far
  outcome,    \* the last of them for each query, or "none"
  endings,    \* history: all of them for each query
  sent,       \* events sent to the page and not handled yet
  dropped,    \* queries whose last end was not sent
  object,     \* the page's query objects
  queries,    \* the page's log, oldest first
  rows,       \* the table's rows below its header, first to last
  panel       \* the info panel

serverVars == <<build, maxQueryCount, started, ended, outcome, endings, dropped>>
pageVars == <<object, queries, rows, panel>>
vars == <<serverVars, sent, pageVars>>

Query == 1..MaxQueries
Ending == {"success", "error"}
NewObject == [status |-> "executing", isSelected |-> FALSE]

Init ==
  /\ build \in {"mariadb", "mysql"}
  /\ maxQueryCount \in LogSizes
  /\ started = 0
  /\ ended = 0
  /\ outcome = [q \in Query |-> "none"]
  /\ endings = [q \in Query |-> {}]
  /\ sent = <<>>
  /\ dropped = {}
  /\ object = [q \in Query |-> NewObject]
  /\ queries = <<>>
  /\ rows = <<>>
  /\ panel = [hidden |-> TRUE, query |-> 0, status |-> "executing"]

-----------------------------------------------------------------------------
(* The server: send_event.                                                  *)

(* MariaDB numbers the queries; for MySQL the plugin numbers the starts    *)
(* itself, and an end carries no number (0 here).                          *)
QueryId(type, q) == IF build = "mysql" /\ type # "start" THEN 0 ELSE q

SendEvent(type, q) ==
  sent' = Append(sent, [type |-> type, query |-> q, query_id |-> QueryId(type, q)])

(* The start of a query is sent; if it is dropped nothing of it shows. *)
QueryStarts ==
  /\ started < MaxQueries
  /\ started' = started + 1
  /\ SendEvent("start", started') \/ UNCHANGED sent
  /\ UNCHANGED <<build, maxQueryCount, ended, outcome, endings, dropped, pageVars>>

(* A query may raise several errors, and a result after them. *)
QueryEnds(q, how) ==
  /\ q <= started
  /\ ended < MaxEnds
  /\ ended' = ended + 1
  /\ outcome' = [outcome EXCEPT ![q] = how]
  /\ endings' = [endings EXCEPT ![q] = @ \cup {how}]
  /\ \/ SendEvent(how, q) /\ dropped' = dropped \ {q}
     \/ dropped' = dropped \cup {q} /\ UNCHANGED sent
  /\ UNCHANGED <<build, maxQueryCount, started, pageVars>>

-----------------------------------------------------------------------------
(* The page                                                                 *)

Full == Len(queries) >= maxQueryCount

(* Mutant: the oldest entry is kept out of the table only. *)
LogKeptWhole == queries

(* splice(1, 1): a full log loses its second entry, if it has one. *)
LogKept == IF Full /\ Len(queries) > 1 THEN RemoveAt(queries, 2) ELSE queries

(* A full table loses its first row (deleteRow(1): row 0 is the header).    *)
OnQueryStart(q) ==
  /\ queries' = Append(LogKept, q)
  /\ rows' = Append(IF Full THEN Tail(rows) ELSE rows,
                    [query |-> q, mark |-> {}, selected |-> FALSE])
  /\ UNCHANGED <<object, panel>>

PanelOf(q, status) == [hidden |-> panel.hidden, query |-> q, status |-> status]

(* Mutants: the search skips the first entry; the header is forgotten; an  *)
(* open panel is not refreshed.                                            *)
FoundPastFirst(q) == {i \in 2..Len(queries) : queries[i] = q}
RowBelow(i) == i + 1
PanelKept(q, how) == panel

Found(q) == {i \in 1..Len(queries) : queries[i] = q}
RowOf(i) == i
PanelAfter(q, how) == IF object[q].isSelected THEN PanelOf(q, how) ELSE panel

(* The query is looked up in the log, its row marked by its index there,   *)
(* and the panel refreshed if the query object says it is selected.  A     *)
(* mark is added to those the row has.  If the table has no such row,      *)
(* addClass throws.                                                        *)
OnQueryEnd(q, how) ==
  IF Found(q) = {} THEN UNCHANGED pageVars
  ELSE LET row == RowOf(Min(Found(q))) IN
       /\ object' = [object EXCEPT ![q].status = how]
       /\ IF row <= Len(rows)
          THEN rows' = [rows EXCEPT ![row].mark = @ \cup {how}] /\ panel' = PanelAfter(q, how)
          ELSE UNCHANGED <<rows, panel>>
       /\ UNCHANGED queries

(* A message: a start is logged, an end without a query id is ignored. *)
OnMessage ==
  /\ sent # <<>>
  /\ LET e == Head(sent) IN
       IF e.type = "start" THEN OnQueryStart(e.query_id)
       ELSE IF e.query_id = 0 THEN UNCHANGED pageVars
       ELSE OnQueryEnd(e.query_id, e.type)
  /\ sent' = Tail(sent)
  /\ UNCHANGED serverVars

(* A click on a selected row unselects it and hides the panel. *)
Unselect(i) ==
  /\ rows[i].selected
  /\ rows' = [rows EXCEPT ![i].selected = FALSE]
  /\ object' = [object EXCEPT ![rows[i].query].isSelected = FALSE]
  /\ panel' = [panel EXCEPT !.hidden = TRUE]
  /\ UNCHANGED <<serverVars, sent, queries>>

(* A click on another row unselects every row, but not their query objects.*)
Select(i) ==
  /\ ~rows[i].selected
  /\ rows' = [j \in 1..Len(rows) |-> [rows[j] EXCEPT !.selected = (j = i)]]
  /\ object' = [object EXCEPT ![rows[i].query].isSelected = TRUE]
  /\ panel' = [hidden |-> FALSE, query |-> rows[i].query,
               status |-> object[rows[i].query].status]
  /\ UNCHANGED <<serverVars, sent, queries>>

-----------------------------------------------------------------------------
Next ==
  \/ QueryStarts
  \/ \E q \in Query, how \in Ending : QueryEnds(q, how)
  \/ OnMessage
  \/ \E i \in 1..Len(rows) : Unselect(i) \/ Select(i)

Spec == Init /\ [][Next]_vars

-----------------------------------------------------------------------------
(* Properties                                                               *)

(* The log and the table stay as long as each other and within the bound,  *)
(* and agree from the second place on.  In the first place a full log      *)
(* keeps its oldest query while the table shows the one dropped last.      *)
(* With logSize=1 the log keeps two entries and the table the newer one.   *)
AlignedPastFirst ==
  /\ Len(rows) <= maxQueryCount
  /\ IF maxQueryCount = 1
     THEN Len(queries) <= 2 /\ (rows # <<>> => rows[1].query = queries[Len(queries)])
     ELSE /\ Len(queries) = Len(rows)
          /\ \A i \in 2..Len(queries) : rows[i].query = queries[i]

(* A row is marked only as its query ended, be it more than once; only the *)
(* first row of the table can carry the mark of another query.             *)
MarksAreTrue == \A i \in 2..Len(rows) : rows[i].mark \subseteq endings[rows[i].query]

(* Once every message was handled, a logged query that ended is shown as   *)
(* it ended last, and its row is marked so, unless that end was dropped,   *)
(* the server gave the end no number, or logSize=1 left it without a row.  *)
EndingsShown ==
  (build = "mariadb" /\ sent = <<>>) =>
    \A i \in 1..Len(queries) :
      LET q == queries[i] IN
      (outcome[q] # "none" /\ q \notin dropped) =>
        /\ object[q].status = outcome[q]
        /\ i \in 2..Len(rows) => outcome[q] \in rows[i].mark

(* An open panel is about a query that was selected and whose object was   *)
(* not unselected since, if its row was, and tells its present status;     *)
(* with logSize=1 it may not, the row being looked up where there is none. *)
PanelIsCurrent ==
  maxQueryCount > 1 /\ ~panel.hidden =>
    /\ object[panel.query].isSelected
    /\ panel.status = object[panel.query].status

=============================================================================
