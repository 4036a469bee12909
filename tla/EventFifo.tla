------------------------------ MODULE EventFifo ------------------------------
(***************************************************************************)
(* What the plugin's event queue promises: events leave in the order they  *)
(* entered, one at a time, at most Capacity of them wait, and the process  *)
(* dies in the queue code only once the queue was closed and emptied.      *)
(***************************************************************************)
EXTENDS Naturals, Sequences

CONSTANTS
  Event,      \* what the queue carries
  Capacity,   \* how many events may wait at once
  NULL        \* no event

VARIABLES
  queue,      \* events that wait, oldest first
  held,       \* the event being broadcast, or NULL
  status      \* "open", "closed" by the unload, or "crashed"

vars == <<queue, held, status>>

TypeOK ==
  /\ queue \in Seq(Event)
  /\ held \in Event \cup {NULL}
  /\ status \in {"open", "closed", "crashed"}

Init ==
  /\ queue = <<>>
  /\ held = NULL
  /\ status = "open"

Put ==
  /\ status = "open"
  /\ Len(queue) < Capacity
  /\ \E e \in Event : queue' = Append(queue, e)
  /\ UNCHANGED <<held, status>>

Take ==
  /\ status # "crashed"
  /\ held = NULL
  /\ queue # <<>>
  /\ held' = Head(queue)
  /\ queue' = Tail(queue)
  /\ UNCHANGED status

Finish ==
  /\ status # "crashed"
  /\ held # NULL
  /\ held' = NULL
  /\ UNCHANGED <<queue, status>>

Close ==
  /\ status = "open"
  /\ status' = "closed"
  /\ UNCHANGED <<queue, held>>

(* The unload throws the waiting events away, oldest first. *)
Discard ==
  /\ status = "closed"
  /\ queue # <<>>
  /\ queue' = Tail(queue)
  /\ UNCHANGED <<held, status>>

Crash ==
  /\ status = "closed"
  /\ queue = <<>>
  /\ held = NULL
  /\ status' = "crashed"
  /\ UNCHANGED <<queue, held>>

Next == Put \/ Take \/ Finish \/ Close \/ Discard \/ Crash

Spec == Init /\ [][Next]_vars

(* Events that wait are taken or discarded.  The consumer may keep the one *)
(* it holds for ever.                                                      *)
FairSpec ==
  /\ Spec
  /\ WF_vars(Take \/ Discard)

=============================================================================
