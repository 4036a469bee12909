-------------------------- MODULE EventQueueProofs --------------------------
(***************************************************************************)
(* TLAPS proofs about EventQueue: the list and the count, the messages and *)
(* who owns them, and that the pointers, the count and the two threads     *)
(* implement the bounded FIFO of EventFifo.                                *)
(***************************************************************************)
EXTENDS EventQueue, TLAPS, FiniteSetTheorems, SequenceTheorems

(* How the threads' positions hang together. *)
Control ==
  /\ mutex_held <=> di = "drain"
  /\ mt = "send" <=> mt_message # NULL
  /\ \A s \in Session : session[s] # "idle" => raised[s] # 0 /\ di = "running"
  /\ di \in {"stop", "join", "done"} => fifo = <<>>
  /\ mt = "take" => (fifo # <<>> \/ di \in {"drain", "stop", "join"})
  /\ mt = "crashed" => di \in {"stop", "join"}
  /\ messaging_active <=> di \notin {"join", "done"}
  /\ mt = "exited" => ~messaging_active
  /\ di = "done" => mt = "exited"

(* The list as a data structure: what ListShape rests on. *)
Structure == TypeOK /\ Control /\ ListShape /\ NodesOwned /\ CountMatches

-----------------------------------------------------------------------------
(* Sequences *)

(* Appending adds one element behind the others. *)
LEMMA AppendFacts ==
  ASSUME NEW S, NEW q \in Seq(S), NEW x \in S
  PROVE  /\ Append(q, x) \in Seq(S)
         /\ Len(Append(q, x)) = Len(q) + 1
         /\ \A i \in 1..Len(q) : Append(q, x)[i] = q[i]
         /\ Append(q, x)[Len(q) + 1] = x
         /\ Append(q, x) # <<>>
         /\ Range(Append(q, x)) = Range(q) \cup {x}
<1>1. /\ Append(q, x) \in Seq(S)
      /\ Len(Append(q, x)) = Len(q) + 1
      /\ \A i \in 1..Len(q) : Append(q, x)[i] = q[i]
      /\ Append(q, x)[Len(q) + 1] = x
      /\ DOMAIN Append(q, x) = 1..(Len(q) + 1)
      /\ DOMAIN q = 1..Len(q)
      /\ Len(q) \in Nat
  OBVIOUS
<1>2. Range(Append(q, x)) = Range(q) \cup {x}
  <2>1. \A i \in 1..(Len(q) + 1) : i \in 1..Len(q) \/ i = Len(q) + 1
    BY <1>1
  <2>2. \A y \in Range(Append(q, x)) : y \in Range(q) \cup {x}
    BY <1>1, <2>1 DEF Range
  <2>3. \A y \in Range(q) : y \in Range(Append(q, x))
    BY <1>1 DEF Range
  <2>4. x \in Range(Append(q, x))
    BY <1>1 DEF Range
  <2> QED
    BY <2>2, <2>3, <2>4
<1> QED
  BY <1>1, <1>2

(* Removing the head shifts the other elements by one. *)
LEMMA TailFacts ==
  ASSUME NEW S, NEW q \in Seq(S), q # <<>>
  PROVE  /\ Tail(q) \in Seq(S)
         /\ Len(Tail(q)) = Len(q) - 1
         /\ Len(q) \in Nat \ {0}
         /\ \A i \in 1..Len(Tail(q)) : i + 1 \in 1..Len(q) /\ Tail(q)[i] = q[i + 1]
         /\ q[1] \in S
         /\ Range(q) = {q[1]} \cup Range(Tail(q))
<1>1. /\ Tail(q) \in Seq(S)
      /\ Len(Tail(q)) = Len(q) - 1
      /\ Len(q) \in Nat \ {0}
      /\ \A i \in 1..Len(Tail(q)) : i + 1 \in 1..Len(q) /\ Tail(q)[i] = q[i + 1]
      /\ DOMAIN q = 1..Len(q)
      /\ DOMAIN Tail(q) = 1..(Len(q) - 1)
      /\ q[1] \in S
  OBVIOUS
<1>2. Range(q) = {q[1]} \cup Range(Tail(q))
  <2>1. \A y \in Range(Tail(q)) : y \in Range(q)
    BY <1>1 DEF Range
  <2>2. q[1] \in Range(q)
    BY <1>1 DEF Range
  <2>3. ASSUME NEW i \in 1..Len(q)
        PROVE  q[i] \in {q[1]} \cup Range(Tail(q))
    <3>1. CASE i = 1
      BY <3>1
    <3>2. CASE i # 1
      <4>1. i - 1 \in 1..(Len(q) - 1) /\ Tail(q)[i - 1] = q[i]
        BY <1>1, <3>2
      <4> QED
        BY <1>1, <4>1 DEF Range
    <3> QED
      BY <3>1, <3>2
  <2>4. \A y \in Range(q) : y \in {q[1]} \cup Range(Tail(q))
    BY <1>1, <2>3 DEF Range
  <2> QED
    BY <2>1, <2>2, <2>4
<1> QED
  BY <1>1, <1>2

-----------------------------------------------------------------------------
(* The list structure *)

(* The plugin starts with an empty list, nothing allocated and every       *)
(* thread at its beginning.                                                *)
LEMMA StructureInit == Init => Structure
<1> SUFFICES ASSUME Init
             PROVE  Structure
  OBVIOUS
<1> USE DEF Init
<1>1. TypeOK
  <2>1. DOMAIN heap = {} /\ heap \in [{} -> Message]
    OBVIOUS
  <2>2. session \in [Session -> {"idle", "check", "json", "append"}]
    OBVIOUS
  <2>3. raised \in [Session -> 0..MaxEvents]
    BY SizeAssumption
  <2>4. fifo \in Seq(Node)
    OBVIOUS
  <2> QED
    BY <2>1, <2>2, <2>3, <2>4 DEF TypeOK
<1>2. Range(fifo) = {}
  BY DEF Range
<1> QED
  BY <1>1, <1>2 DEF Structure, Control, ListShape, NodesOwned, Live, CountMatches

(* A step that leaves list, count and heap alone keeps their part of       *)
(* Structure.                                                              *)
LEMMA ListUnchanged ==
  ASSUME Structure, UNCHANGED <<queueVars, heap, mt_message, fifo, mutex_held>>
  PROVE  ListShape' /\ NodesOwned'
BY DEF Structure, ListShape, NodesOwned, Live, queueVars, Range

(* What AppendMessage does: one new node behind the others, linked through *)
(* the tail pointer, with the event of its session; the contents of the    *)
(* other nodes stay as they are.                                           *)
LEMMA AppendedMessage ==
  ASSUME Structure, NEW s \in Session, AppendMessage(s)
  PROVE  \E n \in Node \ DOMAIN heap :
           /\ n # NULL
           /\ message_queue_tail' = n
           /\ message_queue' = IF message_queue = NULL THEN n ELSE message_queue
           /\ fifo' = Append(fifo, n)
           /\ fifo' \in Seq(Node)
           /\ Len(fifo') = Len(fifo) + 1
           /\ \A i \in 1..Len(fifo) : fifo'[i] = fifo[i]
           /\ fifo'[Len(fifo) + 1] = n
           /\ fifo' # <<>>
           /\ Range(fifo') = Range(fifo) \cup {n}
           /\ Len(fifo) \in Nat
           /\ Current(s) \in Event
           /\ DOMAIN heap' = DOMAIN heap \cup {n}
           /\ \A x \in DOMAIN heap : x # message_queue_tail => heap'[x] = heap[x]
           /\ \A x \in DOMAIN heap : heap'[x].message = heap[x].message
           /\ message_queue_tail \in DOMAIN heap => heap'[message_queue_tail].next = n
           /\ message_queue_tail # n
           /\ heap'[n] = [message |-> Current(s), next |-> NULL]
           /\ heap' \in [DOMAIN heap' -> Message]
<1> USE DEF Structure, queueVars, heapVars, sessionVars, mtVars, deinitVars, historyVars
<1>1. PICK n \in Node \ DOMAIN heap :
        LET allocated == Allocate(n, [message |-> Current(s), next |-> NULL]) IN
        /\ heap' = IF message_queue_tail # NULL
                   THEN [allocated EXCEPT ![message_queue_tail].next = n]
                   ELSE allocated
        /\ message_queue_tail' = n
        /\ message_queue' = IF message_queue = NULL THEN n ELSE message_queue
        /\ fifo' = Append(fifo, n)
  BY DEF AppendMessage
<1>2. /\ fifo \in Seq(Node)
      /\ n \in Node
      /\ n # NULL
      /\ ~mutex_held
      /\ session[s] = "append"
      /\ UNCHANGED <<mutex_held, mt, mt_message, di, messaging_active, raised, buffers, lost>>
      /\ pending_message_count' = pending_message_count + 1
      /\ session' = [session EXCEPT ![s] = "idle"]
  BY NullAssumption DEF AppendMessage, TypeOK
<1>3. /\ fifo' \in Seq(Node)
      /\ Len(fifo') = Len(fifo) + 1
      /\ \A i \in 1..Len(fifo) : fifo'[i] = fifo[i]
      /\ fifo'[Len(fifo) + 1] = n
      /\ fifo' # <<>>
      /\ Range(fifo') = Range(fifo) \cup {n}
      /\ Len(fifo) \in Nat
  BY <1>1, <1>2, AppendFacts
<1>4. Current(s) \in Event
  <2>1. raised[s] \in 0..MaxEvents /\ raised[s] # 0
    BY <1>2 DEF TypeOK, Control
  <2> QED
    BY <2>1 DEF Current, Event
<1>5. /\ DOMAIN heap' = DOMAIN heap \cup {n}
      /\ \A x \in DOMAIN heap : x # message_queue_tail => heap'[x] = heap[x]
      /\ \A x \in DOMAIN heap : heap'[x].message = heap[x].message
      /\ message_queue_tail \in DOMAIN heap => heap'[message_queue_tail].next = n
      /\ message_queue_tail # n => heap'[n] = [message |-> Current(s), next |-> NULL]
      /\ heap' \in [DOMAIN heap' -> Message]
  <2> DEFINE new == [message |-> Current(s), next |-> NULL]
             allocated == Allocate(n, new)
  <2>1. /\ DOMAIN allocated = DOMAIN heap \cup {n}
        /\ allocated[n] = new
        /\ \A x \in DOMAIN heap : allocated[x] = heap[x]
    BY <1>1 DEF Allocate
  <2>2. new \in Message
    BY <1>4 DEF Message
  <2>3. \A x \in DOMAIN heap : heap[x] \in Message
    BY DEF TypeOK
  <2>4. \A x \in DOMAIN allocated : allocated[x] \in Message
    BY <2>1, <2>2, <2>3
  <2>5. allocated \in [DOMAIN allocated -> Message]
    <3> HIDE DEF new
    <3> QED BY <2>1, <2>4 DEF Allocate
  <2>6. CASE message_queue_tail = NULL
    <3>1. heap' = allocated
      BY <1>1, <2>6
    <3>2. message_queue_tail \notin DOMAIN heap
      BY <2>6, NullAssumption DEF TypeOK
    <3> HIDE DEF allocated
    <3>3. heap' \in [DOMAIN heap' -> Message]
      BY <2>5, <3>1
    <3> QED
      BY <2>1, <3>1, <3>2, <3>3
  <2>7. CASE message_queue_tail # NULL
    <3>1. heap' = [allocated EXCEPT ![message_queue_tail].next = n]
      BY <1>1, <2>7
    <3> HIDE DEF allocated
    <3>2. DOMAIN heap' = DOMAIN allocated
      BY <3>1
    <3>3. \A x \in DOMAIN allocated :
            heap'[x] = IF x = message_queue_tail
                       THEN [allocated[x] EXCEPT !.next = n] ELSE allocated[x]
      BY <3>1
    <3>4. \A m \in Message : /\ [m EXCEPT !.next = n] \in Message
                             /\ [m EXCEPT !.next = n].message = m.message
                             /\ [m EXCEPT !.next = n].next = n
      BY DEF Message
    <3>5. \A x \in DOMAIN allocated : heap'[x] \in Message
      BY <2>4, <3>3, <3>4
    <3>6. heap' \in [DOMAIN heap' -> Message]
      BY <3>1, <3>2, <3>5
    <3> HIDE DEF new
    <3>7. /\ \A x \in DOMAIN heap : x # message_queue_tail => heap'[x] = heap[x]
          /\ message_queue_tail # n => heap'[n] = new
      BY <2>1, <3>3
    <3>8. /\ \A x \in DOMAIN heap : heap'[x].message = heap[x].message
          /\ message_queue_tail \in DOMAIN heap => heap'[message_queue_tail].next = n
      <4>1. ASSUME NEW x \in DOMAIN heap
            PROVE  /\ heap'[x].message = heap[x].message
                   /\ x = message_queue_tail => heap'[x].next = n
        <5>1. x \in DOMAIN allocated /\ allocated[x] = heap[x] /\ heap[x] \in Message
          BY <2>1, <2>3
        <5>2. CASE x = message_queue_tail
          <6>1. heap'[x] = [heap[x] EXCEPT !.next = n]
            BY <3>3, <5>1, <5>2
          <6> QED
            BY <5>1, <6>1 DEF Message
        <5>3. CASE x # message_queue_tail
          BY <3>3, <5>1, <5>3
        <5> QED
          BY <5>2, <5>3
      <4> QED
        BY <4>1
    <3> QED
      BY <2>1, <3>2, <3>6, <3>7, <3>8 DEF new
  <2> QED
    BY <2>6, <2>7
<1>6. message_queue_tail = IF fifo = <<>> THEN NULL ELSE fifo[Len(fifo)]
  BY <1>2 DEF ListShape
<1>7. message_queue_tail # n
  BY <1>1, <1>2, <1>3, <1>6 DEF ListShape
<1> QED
  BY <1>1, <1>2, <1>3, <1>4, <1>5, <1>7

(* AppendMessage keeps the structure: the node is new, and the tail        *)
(* pointer it is linked through is that of the last node.                  *)
LEMMA AppendStructure ==
  ASSUME Structure, NEW s \in Session, AppendMessage(s)
  PROVE  Structure'
<1> USE DEF Structure, queueVars, heapVars, sessionVars, mtVars, deinitVars, historyVars
<1>1. PICK n \in Node \ DOMAIN heap :
        /\ n # NULL
        /\ message_queue_tail' = n
        /\ message_queue' = IF message_queue = NULL THEN n ELSE message_queue
        /\ fifo' \in Seq(Node)
        /\ Len(fifo') = Len(fifo) + 1
        /\ \A i \in 1..Len(fifo) : fifo'[i] = fifo[i]
        /\ fifo'[Len(fifo) + 1] = n
        /\ fifo' # <<>>
        /\ Range(fifo') = Range(fifo) \cup {n}
        /\ Len(fifo) \in Nat
        /\ DOMAIN heap' = DOMAIN heap \cup {n}
        /\ \A x \in DOMAIN heap : x # message_queue_tail => heap'[x] = heap[x]
        /\ message_queue_tail \in DOMAIN heap => heap'[message_queue_tail].next = n
        /\ message_queue_tail # n
        /\ heap'[n] = [message |-> Current(s), next |-> NULL]
        /\ heap' \in [DOMAIN heap' -> Message]
  BY AppendedMessage
<1>2. /\ fifo \in Seq(Node)
      /\ ~mutex_held
      /\ session[s] = "append"
      /\ UNCHANGED <<mutex_held, mt, mt_message, di, messaging_active, raised, buffers, lost>>
      /\ pending_message_count' = pending_message_count + 1
      /\ session' = [session EXCEPT ![s] = "idle"]
  BY DEF AppendMessage, TypeOK
<1>3. message_queue_tail = IF fifo = <<>> THEN NULL ELSE fifo[Len(fifo)]
  BY <1>2 DEF ListShape
<1>4. TypeOK'
  <2>1. session' \in [Session -> {"idle", "check", "json", "append"}]
    BY <1>2 DEF TypeOK
  <2>2. pending_message_count' \in Nat
    BY <1>2 DEF TypeOK
  <2>3. DOMAIN heap' \subseteq Node
    BY <1>1, <1>2 DEF TypeOK
  <2> QED
    BY <1>1, <1>2, <2>1, <2>2, <2>3 DEF TypeOK
<1>5. Control'
  BY <1>1, <1>2 DEF Control, TypeOK
<1>6. ListShape'
  <2>1. IF fifo' = <<>> THEN message_queue' = NULL ELSE message_queue' = fifo'[1]
    <3>1. CASE fifo = <<>>
      BY <1>1, <3>1 DEF ListShape
    <3>2. CASE fifo # <<>>
      <4>1. 1 \in 1..Len(fifo)
        BY <1>1, <1>2, <3>2
      <4>2. message_queue = fifo[1] /\ message_queue # NULL
        BY <1>2, <4>1, <3>2, NullAssumption DEF ListShape
      <4> QED
        BY <1>1, <4>1, <4>2
    <3> QED
      BY <3>1, <3>2
  <2>2. \A i \in 1..Len(fifo) : fifo[i] \in DOMAIN heap /\ fifo[i] # n
    BY <1>1 DEF ListShape
  <2>3. \A i, j \in 1..Len(fifo') : fifo'[i] = fifo'[j] => i = j
    <3>1. \A i \in 1..Len(fifo') : i \in 1..Len(fifo) \/ i = Len(fifo) + 1
      BY <1>1
    <3> QED
      BY <1>1, <2>2, <3>1 DEF ListShape
  <2>4. ASSUME NEW i \in 1..Len(fifo')
        PROVE  /\ fifo'[i] \in DOMAIN heap'
               /\ heap'[fifo'[i]].next = IF i = Len(fifo') THEN NULL ELSE fifo'[i + 1]
    <3>1. CASE i = Len(fifo) + 1
      BY <1>1, <3>1
    <3>2. CASE i = Len(fifo) /\ i # 0
      <4>1. fifo # <<>> /\ message_queue_tail = fifo[i] /\ fifo[i] \in DOMAIN heap
        BY <1>1, <1>3, <2>2, <3>2
      <4> QED
        BY <1>1, <3>2, <4>1
    <3>3. CASE i \in 1..(Len(fifo) - 1)
      <4>1. /\ i \in 1..Len(fifo) /\ Len(fifo) \in 1..Len(fifo)
            /\ i + 1 \in 1..Len(fifo) /\ i # Len(fifo) /\ fifo # <<>>
        BY <1>1, <3>3
      <4>2. fifo[i] # message_queue_tail
        BY <1>3, <4>1 DEF ListShape
      <4>3. heap'[fifo[i]] = heap[fifo[i]] /\ heap[fifo[i]].next = fifo[i + 1]
        BY <1>1, <2>2, <4>1, <4>2 DEF ListShape
      <4> QED
        BY <1>1, <2>2, <4>1, <4>3
    <3> QED
      BY <1>1, <3>1, <3>2, <3>3
  <2>5. message_queue_tail' = fifo'[Len(fifo')]
    BY <1>1
  <2> QED
    BY <1>1, <2>1, <2>3, <2>4, <2>5 DEF ListShape
<1>7. NodesOwned'
  <2>1. Live' = Live \cup {n}
    BY <1>1, <1>2 DEF Live
  <2>2. mt_message # n
    BY <1>1, <1>2 DEF NodesOwned, Live
  <2> QED
    BY <1>1, <1>2, <2>1, <2>2 DEF NodesOwned
<1>8. CountMatches'
  BY <1>1, <1>2 DEF CountMatches, TypeOK
<1> QED
  BY <1>4, <1>5, <1>6, <1>7, <1>8

(* What the unlinking of the head, by the message thread or by the drain,  *)
(* starts from: the head pointer is the oldest node, and the rest of the   *)
(* list is well shaped without it.                                         *)
LEMMA HeadFacts ==
  ASSUME Structure, message_queue # NULL
  PROVE  /\ fifo # <<>>
         /\ message_queue = fifo[1]
         /\ message_queue \in DOMAIN heap \cap Node
         /\ Tail(fifo) \in Seq(Node)
         /\ Len(fifo) \in Nat \ {0}
         /\ Len(Tail(fifo)) = Len(fifo) - 1
         /\ heap[message_queue].next =
              IF Tail(fifo) = <<>> THEN NULL ELSE Tail(fifo)[1]
         /\ \A i, j \in 1..Len(Tail(fifo)) : Tail(fifo)[i] = Tail(fifo)[j] => i = j
         /\ \A i \in 1..Len(Tail(fifo)) :
              /\ Tail(fifo)[i] \in DOMAIN heap \ {message_queue}
              /\ heap[Tail(fifo)[i]].next =
                   IF i = Len(Tail(fifo)) THEN NULL ELSE Tail(fifo)[i + 1]
         /\ Tail(fifo) # <<>> => Tail(fifo)[Len(Tail(fifo))] = fifo[Len(fifo)]
         /\ Tail(fifo) # <<>> => fifo[Len(fifo)] # message_queue
         /\ Range(fifo) = {message_queue} \cup Range(Tail(fifo))
         /\ message_queue \notin Range(Tail(fifo))
<1> USE DEF Structure
<1> DEFINE rest == Tail(fifo)
<1>1. fifo # <<>> /\ message_queue = fifo[1] /\ fifo \in Seq(Node)
  BY DEF ListShape, TypeOK
<1>2. /\ rest \in Seq(Node)
      /\ Len(rest) = Len(fifo) - 1
      /\ Len(fifo) \in Nat \ {0}
      /\ \A i \in 1..Len(rest) : i + 1 \in 1..Len(fifo) /\ rest[i] = fifo[i + 1]
      /\ fifo[1] \in Node
      /\ Range(fifo) = {fifo[1]} \cup Range(rest)
  BY <1>1, TailFacts
<1>3. 1 \in 1..Len(fifo) /\ (rest = <<>> <=> Len(fifo) = 1)
  <2>1. rest = <<>> <=> Len(rest) = 0
    BY <1>2, EmptySeq
  <2>2. PICK n \in Nat \ {0} : n = Len(fifo)
    BY <1>2
  <2>3. (n - 1 = 0 <=> n = 1) /\ 1 \in 1..n
    OBVIOUS
  <2> QED
    BY <1>2, <2>1, <2>2, <2>3
<1> HIDE DEF rest
<1>4. message_queue \in DOMAIN heap
  BY <1>1, <1>3 DEF ListShape
<1>5. heap[message_queue].next = IF rest = <<>> THEN NULL ELSE rest[1]
  <2>1. heap[fifo[1]].next = IF 1 = Len(fifo) THEN NULL ELSE fifo[1 + 1]
    BY <1>3 DEF ListShape
  <2>2. rest # <<>> => 1 \in 1..Len(rest)
    BY <1>2, <1>3
  <2> QED
    BY <1>1, <1>2, <1>3, <2>1, <2>2
<1>6. \A i, j \in 1..Len(rest) : rest[i] = rest[j] => i = j
  <2>1. ASSUME NEW i \in 1..Len(rest), NEW j \in 1..Len(rest), rest[i] = rest[j]
        PROVE  i = j
    <3>1. i + 1 = j + 1
      BY <1>2, <2>1 DEF ListShape
    <3> QED
      BY <1>2, <3>1
  <2> QED
    BY <2>1
<1>7. ASSUME NEW i \in 1..Len(rest)
      PROVE  /\ rest[i] \in DOMAIN heap \ {message_queue}
             /\ heap[rest[i]].next = IF i = Len(rest) THEN NULL ELSE rest[i + 1]
  <2>1. i + 1 \in 1..Len(fifo) /\ rest[i] = fifo[i + 1] /\ i + 1 # 1
    BY <1>2
  <2>2. rest[i] # message_queue /\ rest[i] \in DOMAIN heap
    BY <1>1, <1>3, <2>1 DEF ListShape
  <2>3. heap[rest[i]].next = IF i + 1 = Len(fifo) THEN NULL ELSE fifo[i + 1 + 1]
    BY <2>1 DEF ListShape
  <2>4. i # Len(rest) => i + 1 \in 1..Len(rest)
    BY <1>2
  <2>5. i = Len(rest) <=> i + 1 = Len(fifo)
    BY <1>2
  <2> QED
    BY <1>2, <2>2, <2>3, <2>4, <2>5
<1>8. rest # <<>> => /\ rest[Len(rest)] = fifo[Len(fifo)]
                     /\ fifo[Len(fifo)] # message_queue
  <2>1. rest # <<>> => Len(rest) \in 1..Len(rest) /\ Len(rest) + 1 = Len(fifo)
    BY <1>2, <1>3
  <2> QED
    BY <1>2, <1>7, <2>1
<1>9. message_queue \notin Range(rest)
  <2>1. \A y \in Range(rest) : \E i \in 1..Len(rest) : y = rest[i]
    BY <1>2 DEF Range
  <2> QED
    BY <1>7, <2>1
<1> QED
  BY <1>1, <1>2, <1>4, <1>5, <1>6, <1>7, <1>8, <1>9 DEF rest

(* MtTake keeps the structure: the node moves to the message thread. *)
LEMMA TakeStructure ==
  ASSUME Structure, MtTake
  PROVE  Structure'
<1> USE DEF Structure, queueVars, heapVars, sessionVars, mtVars, deinitVars, historyVars
<1> DEFINE rest == Tail(fifo)
<1>1. /\ fifo # <<>>
      /\ message_queue = fifo[1]
      /\ message_queue \in DOMAIN heap \cap Node
      /\ rest \in Seq(Node)
      /\ Len(fifo) \in Nat \ {0}
      /\ Len(rest) = Len(fifo) - 1
      /\ heap[message_queue].next = IF rest = <<>> THEN NULL ELSE rest[1]
      /\ \A i, j \in 1..Len(rest) : rest[i] = rest[j] => i = j
      /\ \A i \in 1..Len(rest) :
           /\ rest[i] \in DOMAIN heap \ {message_queue}
           /\ heap[rest[i]].next = IF i = Len(rest) THEN NULL ELSE rest[i + 1]
      /\ rest # <<>> => rest[Len(rest)] = fifo[Len(fifo)]
      /\ rest # <<>> => fifo[Len(fifo)] # message_queue
      /\ Range(fifo) = {message_queue} \cup Range(rest)
      /\ message_queue \notin Range(rest)
  BY HeadFacts DEF MtTake
<1>2. /\ ~mutex_held /\ mt = "take" /\ mt' = "send"
      /\ mt_message' = message_queue
      /\ message_queue' = heap[message_queue].next
      /\ heap' = [heap EXCEPT ![message_queue].next = NULL]
      /\ message_queue_tail' =
           IF message_queue_tail = message_queue THEN NULL ELSE message_queue_tail
      /\ pending_message_count' = pending_message_count - 1
      /\ fifo' = rest
      /\ UNCHANGED <<buffers, session, raised, messaging_active, di, mutex_held, lost>>
  BY DEF MtTake
<1>3. /\ DOMAIN heap' = DOMAIN heap
      /\ \A x \in DOMAIN heap : x # message_queue => heap'[x] = heap[x]
      /\ heap' \in [DOMAIN heap' -> Message]
  <2>1. DOMAIN heap' = DOMAIN heap
    BY <1>2
  <2>2. \A x \in DOMAIN heap : x # message_queue => heap'[x] = heap[x]
    BY <1>2
  <2>3. heap[message_queue] \in Message
    BY <1>1 DEF TypeOK
  <2>4. heap'[message_queue] = [heap[message_queue] EXCEPT !.next = NULL]
    BY <1>1, <1>2
  <2>5. heap'[message_queue] \in Message
    BY <2>3, <2>4 DEF Message
  <2>6. \A x \in DOMAIN heap : heap'[x] \in Message
    BY <2>2, <2>5 DEF TypeOK
  <2>7. heap' = [x \in DOMAIN heap' |-> heap'[x]]
    BY <1>2
  <2> QED
    BY <2>1, <2>2, <2>6, <2>7
<1> HIDE DEF rest
<1>4. TypeOK'
  <2>1. message_queue' \in Node \cup {NULL}
    BY <1>1, <1>2 DEF TypeOK, Message
  <2>2. pending_message_count' \in Nat
    BY <1>1, <1>2 DEF TypeOK, CountMatches
  <2> QED
    BY <1>1, <1>2, <1>3, <2>1, <2>2 DEF TypeOK
<1>5. Control'
  <2>1. message_queue # NULL
    BY <1>1, NullAssumption
  <2>2. di \notin {"stop", "join", "done"}
    BY <1>1 DEF Control
  <2> QED
    BY <1>2, <2>1, <2>2 DEF Control
<1>6. ListShape'
  <2>1. message_queue_tail = fifo[Len(fifo)]
    BY <1>1, <1>2 DEF ListShape
  <2>2. message_queue_tail' = IF rest = <<>> THEN NULL ELSE rest[Len(rest)]
    <3>1. rest = <<>> => Len(fifo) = 1
      BY <1>1
    <3> QED
      BY <1>1, <1>2, <2>1, <3>1
  <2> QED
    BY <1>1, <1>2, <1>3, <2>2 DEF ListShape
<1>7. NodesOwned'
  <2>1. mt_message = NULL
    BY <1>2 DEF Control
  <2>2. Live' = Live
    BY <1>1, <1>2, <2>1, NullAssumption DEF Live
  <2> QED
    BY <1>1, <1>2, <1>3, <2>2 DEF NodesOwned
<1>8. CountMatches'
  BY <1>1, <1>2 DEF CountMatches, TypeOK
<1> QED
  BY <1>4, <1>5, <1>6, <1>7, <1>8

(* DrainNode keeps the structure: the node is freed, the tail pointer may  *)
(* dangle while the mutex is held.                                         *)
LEMMA DrainStructure ==
  ASSUME Structure, DrainNode
  PROVE  Structure'
<1> USE DEF Structure, queueVars, heapVars, sessionVars, mtVars, deinitVars, historyVars
<1> DEFINE rest == Tail(fifo)
<1>1. /\ fifo # <<>>
      /\ message_queue \in DOMAIN heap \cap Node
      /\ rest \in Seq(Node)
      /\ Len(fifo) \in Nat \ {0}
      /\ Len(rest) = Len(fifo) - 1
      /\ heap[message_queue].next = IF rest = <<>> THEN NULL ELSE rest[1]
      /\ \A i, j \in 1..Len(rest) : rest[i] = rest[j] => i = j
      /\ \A i \in 1..Len(rest) :
           /\ rest[i] \in DOMAIN heap \ {message_queue}
           /\ heap[rest[i]].next = IF i = Len(rest) THEN NULL ELSE rest[i + 1]
      /\ Range(fifo) = {message_queue} \cup Range(rest)
      /\ message_queue \notin Range(rest)
  BY HeadFacts DEF DrainNode
<1>2. /\ di = "drain" /\ di' = "drain"
      /\ message_queue' = heap[message_queue].next
      /\ buffers' \subseteq buffers
      /\ heap' = Free(message_queue)
      /\ fifo' = rest
      /\ UNCHANGED <<message_queue_tail, pending_message_count, session, raised, mt,
                     mt_message, messaging_active, mutex_held, lost>>
  BY DEF DrainNode
<1>3. /\ DOMAIN heap' = DOMAIN heap \ {message_queue}
      /\ \A x \in DOMAIN heap' : heap'[x] = heap[x]
      /\ heap' \in [DOMAIN heap' -> Message]
  BY <1>2 DEF Free, Restrict, TypeOK
<1> HIDE DEF rest
<1>4. TypeOK'
  <2>1. message_queue' \in Node \cup {NULL}
    BY <1>1, <1>2 DEF TypeOK, Message
  <2> QED
    BY <1>1, <1>2, <1>3, <2>1 DEF TypeOK
<1>5. Control'
  BY <1>2 DEF Control
<1>6. ListShape'
  BY <1>1, <1>2, <1>3 DEF ListShape, Control
<1>7. NodesOwned'
  <2>1. mt_message # message_queue
    BY <1>1 DEF NodesOwned
  <2>2. Live' = Live \ {message_queue}
    BY <1>1, <1>2, <2>1 DEF Live
  <2> QED
    BY <1>1, <1>2, <1>3, <2>2 DEF NodesOwned
<1>8. CountMatches'
  BY <1>1, <1>2 DEF CountMatches, TypeOK
<1> QED
  BY <1>4, <1>5, <1>6, <1>7, <1>8

(* MtRelease keeps the structure: the freed node was in no list. *)
LEMMA ReleaseStructure ==
  ASSUME Structure, MtRelease
  PROVE  Structure'
<1> USE DEF Structure, queueVars, heapVars, sessionVars, mtVars, deinitVars, historyVars
<1>1. /\ mt = "send" /\ mt' = "loop" /\ mt_message' = NULL
      /\ buffers' \subseteq buffers
      /\ heap' = Free(mt_message)
      /\ UNCHANGED <<message_queue, message_queue_tail, pending_message_count, session,
                     raised, messaging_active, di, mutex_held, fifo, lost>>
  BY DEF MtRelease
<1>2. mt_message # NULL /\ mt_message \in DOMAIN heap /\ mt_message \notin Range(fifo)
  BY <1>1 DEF Control, NodesOwned, Live
<1>3. /\ DOMAIN heap' = DOMAIN heap \ {mt_message}
      /\ \A x \in DOMAIN heap' : heap'[x] = heap[x]
      /\ heap' \in [DOMAIN heap' -> Message]
  BY <1>1 DEF Free, Restrict, TypeOK
<1>4. TypeOK'
  BY <1>1, <1>3 DEF TypeOK
<1>5. Control'
  BY <1>1 DEF Control
<1>6. ListShape'
  <2>1. \A i \in 1..Len(fifo) : fifo[i] \in DOMAIN heap'
    BY <1>2, <1>3 DEF ListShape, Range, TypeOK
  <2> QED
    BY <1>1, <1>3, <2>1 DEF ListShape
<1>7. NodesOwned'
  <2>1. Live' = Live \ {mt_message}
    BY <1>1, <1>2 DEF Live
  <2>2. NULL \notin Range(fifo)
    BY NullAssumption DEF Range, TypeOK
  <2> QED
    BY <1>1, <1>2, <1>3, <2>1, <2>2 DEF NodesOwned
<1>8. CountMatches'
  BY <1>1 DEF CountMatches
<1> QED
  BY <1>4, <1>5, <1>6, <1>7, <1>8

(* Every step keeps the structure.  The steps that touch the list have the *)
(* lemmas above; the others only move a thread.                            *)
LEMMA StructureStep == Structure /\ [Next]_vars => Structure'
<1> SUFFICES ASSUME Structure, [Next]_vars
             PROVE  Structure'
  OBVIOUS
<1> USE DEF queueVars, heapVars, sessionVars, mtVars, deinitVars, historyVars
<1>0. TypeOK /\ Control /\ ListShape /\ NodesOwned /\ CountMatches
  BY DEF Structure
<1>1. ASSUME UNCHANGED <<message_queue, message_queue_tail, pending_message_count,
                         mutex_held, heap, mt_message, fifo>>
      PROVE  ListShape' /\ NodesOwned'
  BY <1>1, ListUnchanged DEF Structure
<1>2. ASSUME NEW s \in Session, Notify(s)
      PROVE  Structure'
  <2>1. ListShape' /\ NodesOwned'
    BY <1>1, <1>2 DEF Notify
  <2>2. TypeOK'
    <3>1. raised' \in [Session -> 0..MaxEvents]
      <4>1. raised[s] \in 0..MaxEvents /\ raised[s] < MaxEvents
        BY <1>0, <1>2 DEF Notify, TypeOK
      <4>2. raised[s] + 1 \in 0..MaxEvents
        BY <4>1, SizeAssumption
      <4> QED
        BY <1>0, <1>2, <4>2 DEF Notify, TypeOK
    <3> QED
      BY <1>0, <1>2, <3>1 DEF Notify, TypeOK
  <2>3. Control'
    BY <1>0, <1>2 DEF Notify, Control, TypeOK
  <2> QED
    BY <1>0, <1>2, <2>1, <2>2, <2>3 DEF Notify, Structure, CountMatches
<1>3. ASSUME NEW s \in Session, CheckLimit(s)
      PROVE  Structure'
  <2>1. ListShape' /\ NodesOwned'
    BY <1>1, <1>3 DEF CheckLimit
  <2>2. TypeOK' /\ Control'
    BY <1>0, <1>3 DEF CheckLimit, TypeOK, Control
  <2> QED
    BY <1>0, <1>3, <2>1, <2>2 DEF CheckLimit, Structure, CountMatches
<1>4. ASSUME NEW s \in Session, BuildJson(s)
      PROVE  Structure'
  <2>1. ListShape' /\ NodesOwned'
    BY <1>1, <1>4 DEF BuildJson
  <2>2. Current(s) \in Event
    <3>1. raised[s] \in 0..MaxEvents /\ raised[s] # 0
      BY <1>0, <1>4 DEF BuildJson, TypeOK, Control
    <3> QED
      BY <3>1 DEF Current, Event
  <2>3. TypeOK' /\ Control'
    BY <1>0, <1>4, <2>2 DEF BuildJson, TypeOK, Control
  <2> QED
    BY <1>0, <1>4, <2>1, <2>3 DEF BuildJson, Structure, CountMatches
<1>5. ASSUME NEW s \in Session, BuildJsonFails(s)
      PROVE  Structure'
  <2>1. ListShape' /\ NodesOwned'
    BY <1>1, <1>5 DEF BuildJsonFails
  <2>2. TypeOK' /\ Control'
    BY <1>0, <1>5 DEF BuildJsonFails, TypeOK, Control
  <2> QED
    BY <1>0, <1>5, <2>1, <2>2 DEF BuildJsonFails, Structure, CountMatches
<1>6. ASSUME NEW s \in Session, AppendMessage(s)
      PROVE  Structure'
  BY <1>6, AppendStructure
<1>7. ASSUME NEW s \in Session, AppendFails(s)
      PROVE  Structure'
  <2>1. ListShape' /\ NodesOwned'
    BY <1>1, <1>7 DEF AppendFails
  <2>2. Current(s) \in Event
    <3>1. raised[s] \in 0..MaxEvents /\ raised[s] # 0
      BY <1>0, <1>7 DEF AppendFails, TypeOK, Control
    <3> QED
      BY <3>1 DEF Current, Event
  <2>3. TypeOK' /\ Control'
    BY <1>0, <1>7, <2>2 DEF AppendFails, TypeOK, Control
  <2> QED
    BY <1>0, <1>7, <2>1, <2>3 DEF AppendFails, Structure, CountMatches
<1>8. ASSUME MessageThread
      PROVE  Structure'
  <2>1. CASE MtLoop
    <3>1. ListShape' /\ NodesOwned'
      BY <1>1, <2>1 DEF MtLoop
    <3> QED
      BY <1>0, <2>1, <3>1 DEF MtLoop, Structure, TypeOK, Control, CountMatches
  <2>2. CASE MtPeek
    <3>1. ListShape' /\ NodesOwned'
      BY <1>1, <2>2 DEF MtPeek
    <3> QED
      BY <1>0, <2>2, <3>1 DEF MtPeek, Structure, TypeOK, Control, CountMatches, ListShape
  <2>3. CASE MtTake
    BY <2>3, TakeStructure
  <2>4. CASE MtTakeNull
    <3>1. ListShape' /\ NodesOwned'
      BY <1>1, <2>4 DEF MtTakeNull
    <3>2. fifo = <<>>
      <4>1. fifo # <<>> => fifo[1] \in Node
        BY <1>0 DEF TypeOK
      <4> QED
        BY <1>0, <2>4, <4>1, NullAssumption DEF MtTakeNull, ListShape
    <3> QED
      BY <1>0, <2>4, <3>1, <3>2 DEF MtTakeNull, Structure, TypeOK, Control, CountMatches
  <2>5. CASE MtRelease
    BY <2>5, ReleaseStructure
  <2> QED
    BY <1>8, <2>1, <2>2, <2>3, <2>4, <2>5 DEF MessageThread
<1>9. ASSUME DeinitBegin
      PROVE  Structure'
  <2>1. ListShape' /\ NodesOwned'
    BY <1>1, <1>9 DEF DeinitBegin
  <2> QED
    BY <1>0, <1>9, <2>1 DEF DeinitBegin, Structure, TypeOK, Control, CountMatches
<1>10. ASSUME Deinit, mt # "crashed"
       PROVE  Structure'
  <2>1. CASE DrainLock
    <3>1. NodesOwned'
      BY <1>0, <2>1 DEF DrainLock, NodesOwned, Live
    <3>2. ListShape'
      BY <1>0, <2>1 DEF DrainLock, ListShape
    <3>3. TypeOK' /\ CountMatches'
      BY <1>0, <2>1 DEF DrainLock, TypeOK, CountMatches
    <3>4. Control'
      BY <1>0, <2>1 DEF DrainLock, Control
    <3> QED
      BY <3>1, <3>2, <3>3, <3>4 DEF Structure
  <2>2. CASE DrainNode
    BY <2>2, DrainStructure
  <2>3. CASE DrainUnlock
    <3>1. fifo = <<>>
      <4>1. fifo # <<>> => fifo[1] \in Node
        BY <1>0 DEF TypeOK
      <4> QED
        BY <1>0, <2>3, <4>1, NullAssumption DEF DrainUnlock, ListShape
    <3>2. NodesOwned'
      BY <1>0, <2>3 DEF DrainUnlock, NodesOwned, Live
    <3>3. ListShape'
      BY <1>0, <2>3, <3>1 DEF DrainUnlock, ListShape
    <3>4. TypeOK' /\ CountMatches'
      BY <1>0, <2>3 DEF DrainUnlock, TypeOK, CountMatches
    <3>5. Control'
      BY <1>0, <2>3, <3>1 DEF DrainUnlock, Control
    <3> QED
      BY <3>2, <3>3, <3>4, <3>5 DEF Structure
  <2>4. CASE StopMessaging
    <3>1. ListShape' /\ NodesOwned'
      BY <1>1, <2>4 DEF StopMessaging
    <3> QED
      BY <1>0, <2>4, <3>1 DEF StopMessaging, Structure, TypeOK, Control, CountMatches
  <2>5. CASE Join
    <3>1. ListShape' /\ NodesOwned'
      BY <1>1, <2>5 DEF Join
    <3> QED
      BY <1>0, <2>5, <3>1 DEF Join, Structure, TypeOK, Control, CountMatches
  <2> QED
    BY <1>10, <2>1, <2>2, <2>3, <2>4, <2>5 DEF Deinit
<1>11. CASE UNCHANGED vars
  <2>1. ListShape' /\ NodesOwned'
    BY <1>1, <1>11 DEF vars
  <2> QED
    BY <1>0, <1>11, <2>1 DEF vars, Structure, TypeOK, Control, CountMatches
<1> QED
  BY <1>2, <1>3, <1>4, <1>5, <1>6, <1>7, <1>8, <1>9, <1>10, <1>11
     DEF Next, Step, SendEvent

(* The list, the heap, the count and the threads' positions fit together   *)
(* in every state send_event, process_pending_messages and                 *)
(* logger_plugin_deinit can reach.                                         *)
THEOREM StructureInvariant == Spec => []Structure
<1> QED
  BY StructureInit, StructureStep, PTL DEF Spec

-----------------------------------------------------------------------------
(* The bound on the queue                                                   *)

(* Each session that passed the limit check is owed one place: the count   *)
(* and those sessions together stay below the limit plus one per session.  *)
Limit ==
  pending_message_count + Cardinality(PastCheck)
    <= MaxQueueSize - 1 + Cardinality(Session)

(* The sessions past the limit check can be counted, and are no more than  *)
(* there are.                                                              *)
LEMMA PastCheckFinite ==
  /\ IsFiniteSet(PastCheck)
  /\ Cardinality(PastCheck) \in Nat
  /\ Cardinality(Session) \in Nat
  /\ Cardinality(PastCheck) <= Cardinality(Session)
<1>1. PastCheck \subseteq Session
  BY DEF PastCheck
<1> QED
  BY <1>1, SessionAssumption, FS_Subset, FS_CardinalityType

(* At first nothing is queued and no session is in send_event. *)
LEMMA LimitInit == Init => Limit
<1> SUFFICES ASSUME Init
             PROVE  Limit
  OBVIOUS
<1>1. PastCheck = {}
  BY DEF Init, PastCheck
<1>2. Cardinality(PastCheck) = 0
  BY <1>1, FS_EmptySet
<1> QED
  BY <1>2, PastCheckFinite, SizeAssumption DEF Init, Limit

(* Every step keeps the limit: a session is owed its place when it passes  *)
(* the check, and takes it or gives it up when it leaves send_event.       *)
LEMMA LimitStep == Structure /\ Limit /\ [Next]_vars => Limit'
<1> SUFFICES ASSUME Structure, Limit, [Next]_vars
             PROVE  Limit'
  OBVIOUS
<1> USE DEF queueVars, heapVars, sessionVars, mtVars, deinitVars, historyVars
<1>1. TypeOK
  BY DEF Structure
<1>2. pending_message_count \in Nat
  BY <1>1 DEF TypeOK
<1>3. ASSUME PastCheck' = PastCheck, pending_message_count' = pending_message_count
      PROVE  Limit'
  BY <1>3 DEF Limit
<1>4. ASSUME NEW s \in Session,
             session' = [session EXCEPT ![s] = "idle"],
             pending_message_count' = pending_message_count
      PROVE  Limit'
  <2>1. PastCheck' = PastCheck \ {s}
    BY <1>1, <1>4 DEF PastCheck, TypeOK
  <2>2. Cardinality(PastCheck') <= Cardinality(PastCheck) /\ Cardinality(PastCheck') \in Nat
    BY <2>1, PastCheckFinite, FS_RemoveElement, FS_CardinalityType, FS_Subset
  <2> QED
    BY <1>2, <1>4, <2>2, PastCheckFinite, SizeAssumption DEF Limit
<1>5. ASSUME NEW s \in Session, Notify(s)
      PROVE  Limit'
  <2>1. PastCheck' = PastCheck
    BY <1>1, <1>5 DEF Notify, PastCheck, TypeOK
  <2> QED
    BY <1>3, <1>5, <2>1 DEF Notify
<1>6. ASSUME NEW s \in Session, CheckLimit(s)
      PROVE  Limit'
  <2>1. CASE pending_message_count >= MaxQueueSize
    BY <1>4, <1>6, <2>1 DEF CheckLimit
  <2>2. CASE ~(pending_message_count >= MaxQueueSize)
    <3>1. pending_message_count' <= MaxQueueSize - 1 /\ pending_message_count' \in Nat
      BY <1>2, <1>6, <2>2, SizeAssumption DEF CheckLimit
    <3>2. PastCheck' \subseteq Session
      BY DEF PastCheck
    <3>3. Cardinality(PastCheck') <= Cardinality(Session) /\ Cardinality(PastCheck') \in Nat
      BY <3>2, SessionAssumption, FS_Subset, FS_CardinalityType
    <3> QED
      BY <3>1, <3>3, PastCheckFinite, SizeAssumption DEF Limit
  <2> QED
    BY <2>1, <2>2
<1>7. ASSUME NEW s \in Session, BuildJson(s)
      PROVE  Limit'
  <2>1. PastCheck' = PastCheck
    BY <1>1, <1>7 DEF BuildJson, PastCheck, TypeOK
  <2> QED
    BY <1>3, <1>7, <2>1 DEF BuildJson
<1>8. ASSUME NEW s \in Session, BuildJsonFails(s)
      PROVE  Limit'
  BY <1>4, <1>8 DEF BuildJsonFails
<1>9. ASSUME NEW s \in Session, AppendMessage(s)
      PROVE  Limit'
  <2>1. s \in PastCheck /\ PastCheck' = PastCheck \ {s}
    BY <1>1, <1>9 DEF AppendMessage, PastCheck, TypeOK
  <2>2. Cardinality(PastCheck') = Cardinality(PastCheck) - 1
    BY <2>1, PastCheckFinite, FS_RemoveElement
  <2>3. pending_message_count' = pending_message_count + 1
    BY <1>9 DEF AppendMessage
  <2> QED
    BY <1>2, <2>2, <2>3, PastCheckFinite, SizeAssumption DEF Limit
<1>10. ASSUME NEW s \in Session, AppendFails(s)
       PROVE  Limit'
  BY <1>4, <1>10 DEF AppendFails
<1>11. CASE MtTake
  <2>1. PastCheck' = PastCheck
    BY <1>11 DEF MtTake, PastCheck
  <2>2. pending_message_count' = pending_message_count - 1
    BY <1>11 DEF MtTake
  <2> QED
    BY <1>2, <2>1, <2>2, PastCheckFinite, SizeAssumption DEF Limit
<1>12. CASE MtLoop \/ MtPeek \/ MtTakeNull \/ MtRelease \/ DeinitBegin \/ Deinit
  <2>1. PastCheck' = PastCheck /\ pending_message_count' = pending_message_count
    BY <1>12 DEF MtLoop, MtPeek, MtTakeNull, MtRelease, DeinitBegin, Deinit, DrainLock,
                 DrainNode, DrainUnlock, StopMessaging, Join, PastCheck
  <2> QED
    BY <1>3, <2>1
<1>13. CASE UNCHANGED vars
  BY <1>3, <1>13 DEF vars, PastCheck
<1> QED
  BY <1>5, <1>6, <1>7, <1>8, <1>9, <1>10, <1>11, <1>12, <1>13
     DEF Next, Step, SendEvent, MessageThread

(* For any number of sessions and any limit, the queue never holds more    *)
(* than MAX_MESSAGE_QUEUE_SIZE - 1 plus one event per session, although    *)
(* send_event checks the limit and appends in two critical sections.       *)
THEOREM QueueBoundHolds == Spec => []QueueBound
<1>1. Structure /\ Limit => QueueBound
  <2> SUFFICES ASSUME Structure, Limit
               PROVE  QueueBound
    OBVIOUS
  <2>1. /\ pending_message_count \in Nat
        /\ Len(fifo) \in Nat
        /\ Len(fifo) <= pending_message_count
    BY DEF Structure, TypeOK, CountMatches
  <2> QED
    BY <2>1, PastCheckFinite, SizeAssumption DEF Limit, QueueBound
<1> QED
  BY <1>1, StructureInvariant, LimitInit, LimitStep, PTL DEF Spec

-----------------------------------------------------------------------------
(* What the structure gives directly                                        *)

(* The variables keep their types: the head pointer the message thread     *)
(* follows is allocated, and the count never goes below zero.              *)
THEOREM TypeCorrect == Spec => []TypeOK
<1>1. Structure => TypeOK
  BY DEF Structure
<1> QED
  BY <1>1, StructureInvariant, PTL

(* The pointers always spell the list of nodes in the order they were      *)
(* linked, and no append writes through a stale tail pointer.              *)
THEOREM ListShapeHolds == Spec => []ListShape
<1>1. Structure => ListShape
  BY DEF Structure
<1> QED
  BY <1>1, StructureInvariant, PTL

(* pending_message_count is the length of the list until the unload, and   *)
(* overstates it afterwards.                                               *)
THEOREM CountMatchesHolds == Spec => []CountMatches
<1>1. Structure => CountMatches
  BY DEF Structure
<1> QED
  BY <1>1, StructureInvariant, PTL

(* The message thread can meet NULL after its unlocked look only once the  *)
(* unload has begun to drain the queue.                                    *)
THEOREM CrashOnlyAfterDrainHolds == Spec => []CrashOnlyAfterDrain
<1>1. Structure => CrashOnlyAfterDrain
  BY NullAssumption DEF Structure, Control, ListShape, CrashOnlyAfterDrain, TypeOK
<1> QED
  BY <1>1, StructureInvariant, PTL

-----------------------------------------------------------------------------
(* The messages                                                             *)

(* Event e was raised, and its session is no longer about to append it. *)
Past(e) ==
  /\ e.seq <= raised[e.session]
  /\ session[e.session] # "idle" => e.seq < raised[e.session]

(* A session appends an event newer than all those it left behind. *)
Fresh ==
  /\ \A n \in Live : Past(heap[n].message)
  /\ \A e \in lost : Past(e)

(* An event is stored in one node, or lost. *)
StoredOnce ==
  /\ \A m, n \in Live : heap[m].message = heap[n].message => m = n
  /\ \A n \in Live : heap[n].message \notin lost

Earlier(m, n) ==
  heap[m].message.session = heap[n].message.session
    => heap[m].message.seq < heap[n].message.seq

(* The nodes, the one in hand before those that wait, have the events of   *)
(* each session in the order they were raised.                             *)
Ordered ==
  /\ \A i, j \in 1..Len(fifo) : i < j => Earlier(fifo[i], fifo[j])
  /\ mt_message # NULL => \A i \in 1..Len(fifo) : Earlier(mt_message, fifo[i])

Messages == Fresh /\ StoredOnce /\ BuffersOwned /\ Ordered

-----------------------------------------------------------------------------
(* Nothing is stored at first. *)
LEMMA MessagesInit == Init => Messages
<1> SUFFICES ASSUME Init
             PROVE  Messages
  OBVIOUS
<1>1. Live = {} /\ Len(fifo) = 0
  BY DEF Init, Live, Range
<1> QED
  BY <1>1 DEF Init, Messages, Fresh, StoredOnce, BuffersOwned, Ordered

(* Live nodes are allocated, and their messages are events. *)
LEMMA LiveFacts ==
  ASSUME Structure
  PROVE  /\ Live = DOMAIN heap
         /\ \A n \in Live : n # NULL /\ heap[n] \in Message /\ heap[n].message \in Event
         /\ \A i \in 1..Len(fifo) : fifo[i] \in Live /\ fifo[i] # mt_message
         /\ mt_message # NULL => mt_message \in Live
<1> USE DEF Structure
<1>1. Live = DOMAIN heap
  BY DEF NodesOwned
<1>2. \A n \in Live : n # NULL /\ heap[n] \in Message /\ heap[n].message \in Event
  BY <1>1, NullAssumption DEF TypeOK, Message
<1>3. \A i \in 1..Len(fifo) : fifo[i] \in Range(fifo)
  BY DEF TypeOK, Range
<1> QED
  BY <1>1, <1>2, <1>3 DEF Live, NodesOwned

(* What was raised stays raised. *)
LEMMA PastStays ==
  ASSUME Structure, [Next]_vars
  PROVE  \A e \in Event : Past(e) => Past(e)'
<1> SUFFICES ASSUME NEW e \in Event, Past(e)
             PROVE  Past(e)'
  OBVIOUS
<1> USE DEF Past, Structure, TypeOK, queueVars, heapVars, sessionVars, mtVars, deinitVars,
            historyVars
<1>1. e.session \in Session /\ e.seq \in Nat /\ raised[e.session] \in Nat
  BY SizeAssumption DEF Event
<1>2. ASSUME NEW s \in Session, Notify(s)
      PROVE  Past(e)'
  BY <1>1, <1>2 DEF Notify
<1>3. ASSUME NEW s \in Session, SendEvent(s)
      PROVE  Past(e)'
  <2>1. /\ raised' = raised
        /\ session[s] # "idle"
        /\ \E to \in {"idle", "json", "append"} : session' = [session EXCEPT ![s] = to]
    BY <1>3 DEF SendEvent, CheckLimit, BuildJson, BuildJsonFails, AppendMessage, AppendFails
  <2> QED
    BY <1>1, <2>1
<1>4. CASE UNCHANGED <<session, raised>>
  BY <1>4
<1>5. MessageThread \/ DeinitBegin \/ Deinit \/ UNCHANGED vars => UNCHANGED <<session, raised>>
  BY DEF MessageThread, MtLoop, MtPeek, MtTake, MtTakeNull, MtRelease, DeinitBegin, Deinit,
         DrainLock, DrainNode, DrainUnlock, StopMessaging, Join, vars
<1> QED
  BY <1>2, <1>3, <1>4, <1>5 DEF Next, Step

(* A step that leaves the nodes alone keeps what is said of them. *)
LEMMA NodesUnchanged ==
  ASSUME Structure, Messages, [Next]_vars, UNCHANGED <<heap, fifo, mt_message, lost>>
  PROVE  Fresh' /\ StoredOnce' /\ Ordered'
<1>1. Live' = Live
  BY DEF Live
<1>2. \A e \in lost : e \in Event
  BY DEF Structure, TypeOK
<1>3. Fresh'
  BY <1>1, <1>2, LiveFacts, PastStays DEF Messages, Fresh, Past
<1> QED
  BY <1>1, <1>3 DEF Messages, StoredOnce, Ordered, Earlier

(* AppendMessage stores the newest event of its session, which is nowhere  *)
(* else, behind all others.                                                *)
LEMMA AppendMessages ==
  ASSUME Structure, Messages, [Next]_vars, NEW s \in Session, AppendMessage(s)
  PROVE  Messages'
<1> DEFINE e == Current(s)
<1>1. PICK n \in Node \ DOMAIN heap :
        /\ Len(fifo') = Len(fifo) + 1
        /\ \A i \in 1..Len(fifo) : fifo'[i] = fifo[i]
        /\ fifo'[Len(fifo) + 1] = n
        /\ Range(fifo') = Range(fifo) \cup {n}
        /\ Len(fifo) \in Nat
        /\ Current(s) \in Event
        /\ n # NULL
        /\ \A x \in DOMAIN heap : heap'[x].message = heap[x].message
        /\ heap'[n] = [message |-> Current(s), next |-> NULL]
  <2> HIDE DEF e
  <2> QED BY AppendedMessage
<1>0. e \in Event /\ heap'[n].message = e
  BY <1>1
<1>2. /\ session[s] = "append"
      /\ session' = [session EXCEPT ![s] = "idle"]
      /\ UNCHANGED <<mt_message, raised, buffers, lost>>
  BY DEF AppendMessage, mtVars
<1>3. Live' = Live \cup {n} /\ n \notin Live
  BY <1>1, <1>2, LiveFacts DEF Live
<1>4. \A x \in Live : heap'[x].message = heap[x].message
  BY <1>1, LiveFacts
<1>5. e.session = s /\ e.seq = raised[s] /\ raised[s] \in Nat
  BY SizeAssumption DEF Current, Structure, TypeOK
<1>6. \A x \in Event : (Past(x) /\ x.session = s) => x.seq < e.seq
  BY <1>2, <1>5 DEF Past
<1>7. Fresh'
  <2>1. e.seq <= raised'[e.session] /\ session'[e.session] = "idle"
    BY <1>2, <1>5 DEF Structure, TypeOK
  <2>2. \A x \in lost : Past(x)'
    BY PastStays DEF Messages, Fresh, Structure, TypeOK
  <2>3. \A x \in Live : Past(heap[x].message) /\ heap[x].message \in Event
    BY LiveFacts DEF Messages, Fresh
  <2>4. \A x \in Live' : heap'[x].message = e \/ \E y \in Event : Past(y) /\ heap'[x].message = y
    BY <1>0, <1>1, <1>3, <1>4, <2>3
  <2> HIDE DEF e
  <2>5. \A x \in Live' : Past(heap[x].message)'
    BY <2>1, <2>4, PastStays DEF Past
  <2> QED
    BY <1>2, <2>2, <2>5 DEF Fresh
<1>8. StoredOnce'
  <2>1. \A x \in Live : heap[x].message # e
    BY <1>5, <1>6, LiveFacts DEF Messages, Fresh, Event
  <2>2. e \notin lost
    BY <1>5, <1>6 DEF Messages, Fresh, Structure, TypeOK, Event
  <2> HIDE DEF e
  <2> QED
    BY <1>0, <1>1, <1>2, <1>3, <1>4, <2>1, <2>2 DEF Messages, StoredOnce
<1>9. BuffersOwned'
  <2>1. {heap'[x].message : x \in Live'} = {heap[x].message : x \in Live} \cup {e}
    BY <1>1, <1>3, <1>4
  <2>2. {t \in Session : session[t] = "append"} =
          {t \in Session : session'[t] = "append"} \cup {s}
    BY <1>2 DEF Structure, TypeOK
  <2>3. \A t \in Session : Current(t)' = Current(t)
    BY <1>2 DEF Current
  <2>4. {Current(t) : t \in {u \in Session : session[u] = "append"}} =
          {Current(t)' : t \in {u \in Session : session'[u] = "append"}} \cup {e}
    BY <2>2, <2>3
  <2> QED
    BY <1>2, <2>1, <2>4 DEF Messages, BuffersOwned
<1>10. Ordered'
  <2>1. \A i \in 1..Len(fifo') : i \in 1..Len(fifo) \/ i = Len(fifo) + 1
    BY <1>1
  <2>2. \A x \in Live : Earlier(x, n)'
    BY <1>1, <1>4, <1>5, <1>6, LiveFacts DEF Earlier, Messages, Fresh
  <2>3. \A x, y \in Live : Earlier(x, y) => Earlier(x, y)'
    BY <1>4 DEF Earlier
  <2>4. \A i \in 1..Len(fifo) : fifo'[i] \in Live /\ fifo'[i] = fifo[i]
    BY <1>1, LiveFacts
  <2>5. ASSUME NEW i \in 1..Len(fifo'), NEW j \in 1..Len(fifo'), i < j
        PROVE  Earlier(fifo[i], fifo[j])'
    <3>1. i \in 1..Len(fifo)
      BY <1>1, <2>1, <2>5
    <3>2. CASE j = Len(fifo) + 1
      BY <1>1, <2>2, <2>4, <3>1, <3>2
    <3>3. CASE j \in 1..Len(fifo)
      BY <2>3, <2>4, <2>5, <3>1, <3>3 DEF Messages, Ordered
    <3> QED
      BY <2>1, <3>2, <3>3
  <2>6. ASSUME mt_message' # NULL, NEW i \in 1..Len(fifo')
        PROVE  Earlier(mt_message, fifo[i])'
    <3>1. mt_message' = mt_message /\ mt_message \in Live
      BY <1>2, <2>6, LiveFacts
    <3>2. CASE i = Len(fifo) + 1
      BY <1>1, <2>2, <3>1, <3>2
    <3>3. CASE i \in 1..Len(fifo)
      BY <2>3, <2>4, <2>6, <3>1, <3>3 DEF Messages, Ordered
    <3> QED
      BY <2>1, <3>2, <3>3
  <2> QED
    BY <2>5, <2>6 DEF Ordered
<1> QED
  BY <1>7, <1>8, <1>9, <1>10 DEF Messages

(* AppendFails: the newest event of its session is lost. *)
LEMMA AppendFailsMessages ==
  ASSUME Structure, Messages, [Next]_vars, NEW s \in Session, AppendFails(s)
  PROVE  Messages'
<1> DEFINE e == Current(s)
<1>1. /\ session[s] = "append"
      /\ session' = [session EXCEPT ![s] = "idle"]
      /\ lost' = lost \cup {e}
      /\ UNCHANGED <<heap, fifo, mt_message, raised, buffers>>
  BY DEF AppendFails, heapVars, mtVars
<1>2. Live' = Live
  BY <1>1 DEF Live
<1>3. e.session = s /\ e.seq = raised[s] /\ raised[s] \in Nat
  BY SizeAssumption DEF Current, Structure, TypeOK
<1>4. \A n \in Live : Past(heap[n].message) /\ heap[n].message # e
  BY <1>1, <1>3, LiveFacts DEF Past, Messages, Fresh, Event
<1>5. Fresh'
  <2>1. e.seq <= raised'[e.session] /\ session'[e.session] = "idle"
    BY <1>1, <1>3 DEF Structure, TypeOK
  <2>2. \A x \in lost : Past(x)'
    BY PastStays DEF Messages, Fresh, Structure, TypeOK
  <2>3. \A n \in Live : Past(heap[n].message)'
    BY <1>1, <1>4, LiveFacts, PastStays DEF Past
  <2> QED
    BY <1>1, <1>2, <2>1, <2>2, <2>3 DEF Fresh, Past
<1>6. StoredOnce'
  BY <1>1, <1>2, <1>4 DEF Messages, StoredOnce
<1>7. BuffersOwned'
  <2>1. {t \in Session : session[t] = "append"} =
          {t \in Session : session'[t] = "append"} \cup {s}
    BY <1>1 DEF Structure, TypeOK
  <2>2. \A t \in Session : Current(t)' = Current(t)
    BY <1>1 DEF Current
  <2>3. {Current(t) : t \in {u \in Session : session[u] = "append"}} =
          {Current(t)' : t \in {u \in Session : session'[u] = "append"}} \cup {e}
    BY <2>1, <2>2
  <2> QED
    BY <1>1, <1>2, <2>3 DEF Messages, BuffersOwned
<1>8. Ordered'
  BY <1>1, <1>2 DEF Messages, Ordered, Earlier
<1> QED
  BY <1>5, <1>6, <1>7, <1>8 DEF Messages

(* Taking nodes away, or moving one into the hand, leaves what is said of  *)
(* the messages of the nodes that stay.                                    *)
LEMMA NodesLeave ==
  ASSUME Structure, Messages, [Next]_vars, Live' \subseteq Live, lost' = lost,
         \A n \in Live' : heap'[n].message = heap[n].message
  PROVE  /\ Fresh'
         /\ StoredOnce'
         /\ \A m, n \in Live' : Earlier(m, n) => Earlier(m, n)'
<1>1. \A n \in Live' : n \in Live /\ heap'[n].message = heap[n].message
  OBVIOUS
<1>2. \A n \in Live' : heap[n].message \in Event /\ Past(heap[n].message)
  BY <1>1, LiveFacts DEF Messages, Fresh
<1>3. \A n \in Live' : Past(heap[n].message)'
  BY <1>1, <1>2, PastStays DEF Past
<1>4. \A e \in lost : Past(e)'
  BY PastStays DEF Messages, Fresh, Structure, TypeOK
<1>5. StoredOnce'
  BY <1>1 DEF Messages, StoredOnce
<1>6. \A m, n \in Live' : Earlier(m, n) => Earlier(m, n)'
  BY <1>1 DEF Earlier
<1> QED
  BY <1>3, <1>4, <1>5, <1>6 DEF Fresh

(* The buffer of a node that is freed belongs to that node alone: no       *)
(* session is about to append it, and it was not lost.                     *)
LEMMA BufferFreed ==
  ASSUME Structure, Messages, NEW m \in Live, Live' = Live \ {m},
         \A n \in Live' : heap'[n].message = heap[n].message,
         buffers' = buffers \ {heap[m].message},
         UNCHANGED <<session, raised, lost>>
  PROVE  BuffersOwned'
<1> DEFINE building == {Current(s) : s \in {t \in Session : session[t] = "append"}}
           gone == heap[m].message
<1>1. \A s \in Session : session[s] = "append" => Current(s) # gone
  <2>1. gone.seq \in Nat /\ Past(gone)
    BY LiveFacts DEF Messages, Fresh, Event
  <2> QED
    BY <2>1 DEF Past, Current, Structure, TypeOK
<1>2. gone \notin lost /\ \A n \in Live' : heap'[n].message # gone
  BY DEF Messages, StoredOnce
<1>3. {heap'[n].message : n \in Live'} = {heap[n].message : n \in Live} \ {gone}
  BY <1>2
<1>4. building' = building
  BY DEF Current
<1>5. gone \notin building
  BY <1>1
<1> HIDE DEF building
<1>6. buffers' = {heap'[n].message : n \in Live'} \cup lost' \cup building'
  <2>1. buffers = {heap[n].message : n \in Live} \cup lost \cup building
    BY DEF Messages, BuffersOwned, building
  <2> HIDE DEF gone
  <2> QED
    BY <1>2, <1>3, <1>4, <1>5, <2>1 DEF gone
<1> QED
  BY <1>6 DEF building, BuffersOwned

(* MtTake moves the oldest node to the message thread: it precedes the     *)
(* nodes that stay.                                                        *)
LEMMA TakeMessages ==
  ASSUME Structure, Messages, [Next]_vars, MtTake
  PROVE  Messages'
<1>1. /\ fifo \in Seq(Node) /\ fifo # <<>> /\ message_queue = fifo[1]
      /\ message_queue \in DOMAIN heap
      /\ Len(fifo) \in Nat \ {0}
      /\ Range(fifo) = {message_queue} \cup Range(Tail(fifo))
      /\ \A i \in 1..Len(Tail(fifo)) :
           i + 1 \in 1..Len(fifo) /\ Tail(fifo)[i] = fifo[i + 1]
  BY HeadFacts, TailFacts DEF MtTake, Structure, TypeOK
<1>2. /\ mt = "take" /\ mt_message' = message_queue /\ fifo' = Tail(fifo)
      /\ heap' = [heap EXCEPT ![message_queue].next = NULL]
      /\ UNCHANGED <<buffers, session, raised, lost>>
  BY DEF MtTake, sessionVars
<1>3. mt_message = NULL
  BY <1>2 DEF Structure, Control
<1>4. Live' = Live
  <2>1. message_queue # NULL
    BY DEF MtTake
  <2> QED
    BY <1>1, <1>2, <1>3, <2>1 DEF Live
<1>5. \A n \in Live : heap'[n].message = heap[n].message
  <2>1. \A n \in Live : n \in DOMAIN heap /\ heap[n] \in Message
    BY LiveFacts
  <2>2. ASSUME NEW n \in Live
        PROVE  heap'[n].message = heap[n].message
    <3>1. CASE n = message_queue
      <4>1. heap'[n] = [heap[n] EXCEPT !.next = NULL]
        BY <1>2, <2>1, <3>1
      <4> QED
        BY <2>1, <4>1 DEF Message
    <3>2. CASE n # message_queue
      BY <1>2, <2>1, <3>2
    <3> QED
      BY <3>1, <3>2
  <2> QED
    BY <2>2
<1>6. /\ Fresh' /\ StoredOnce'
      /\ \A m, n \in Live' : Earlier(m, n) => Earlier(m, n)'
  BY <1>2, <1>4, <1>5, NodesLeave
<1>7. BuffersOwned'
  <2>1. {heap'[n].message : n \in Live'} = {heap[n].message : n \in Live}
    BY <1>4, <1>5
  <2> QED
    BY <1>2, <2>1 DEF Messages, BuffersOwned, Current
<1>8. Ordered'
  <2>1. ASSUME NEW i \in 1..Len(fifo')
        PROVE  /\ i + 1 \in 1..Len(fifo) /\ fifo'[i] = fifo[i + 1]
               /\ 1 \in 1..Len(fifo) /\ 1 < i + 1
               /\ fifo[i + 1] \in Live /\ fifo[1] \in Live
    <3>1. i + 1 \in 1..Len(fifo) /\ 1 \in 1..Len(fifo) /\ fifo'[i] = fifo[i + 1] /\ 1 < i + 1
      BY <1>1, <1>2
    <3> QED
      BY <3>1, LiveFacts
  <2>2. ASSUME NEW i \in 1..Len(fifo'), NEW j \in 1..Len(fifo'), i < j
        PROVE  Earlier(fifo[i], fifo[j])'
    <3>1. Earlier(fifo[i + 1], fifo[j + 1])
      BY <2>1, <2>2 DEF Messages, Ordered
    <3> QED
      BY <1>4, <1>6, <2>1, <3>1
  <2>3. ASSUME NEW i \in 1..Len(fifo')
        PROVE  Earlier(mt_message, fifo[i])'
    <3>1. Earlier(fifo[1], fifo[i + 1])
      BY <2>1 DEF Messages, Ordered
    <3> QED
      BY <1>1, <1>2, <1>4, <1>6, <2>1, <3>1
  <2> QED
    BY <2>2, <2>3 DEF Ordered
<1> QED
  BY <1>6, <1>7, <1>8 DEF Messages

(* MtRelease frees the node in hand and its buffer. *)
LEMMA ReleaseMessages ==
  ASSUME Structure, Messages, [Next]_vars, MtRelease
  PROVE  Messages'
<1>1. /\ mt = "send" /\ mt_message' = NULL
      /\ heap' = Free(mt_message)
      /\ buffers' = buffers \ {heap[mt_message].message}
      /\ UNCHANGED <<fifo, session, raised, lost>>
  BY DEF MtRelease, sessionVars, historyVars
<1>2. mt_message # NULL /\ mt_message \in Live /\ mt_message \notin Range(fifo)
  BY <1>1, LiveFacts DEF Structure, Control, NodesOwned
<1>3. NULL \notin Range(fifo)
  BY NullAssumption DEF Structure, TypeOK, Range
<1>4. Live' = Live \ {mt_message}
  BY <1>1, <1>2, <1>3 DEF Live
<1>5. \A n \in Live' : heap'[n].message = heap[n].message
  BY <1>1, <1>4, LiveFacts DEF Free, Restrict
<1>6. /\ Fresh' /\ StoredOnce'
      /\ \A m, n \in Live' : Earlier(m, n) => Earlier(m, n)'
  BY <1>1, <1>4, <1>5, NodesLeave
<1>7. BuffersOwned'
  BY <1>1, <1>2, <1>4, <1>5, BufferFreed
<1>8. \A i \in 1..Len(fifo) : fifo[i] \in Live'
  BY <1>4, LiveFacts
<1>9. Ordered'
  BY <1>1, <1>6, <1>8 DEF Messages, Ordered
<1> QED
  BY <1>6, <1>7, <1>9 DEF Messages

(* DrainNode frees the oldest node and its buffer. *)
LEMMA DrainMessages ==
  ASSUME Structure, Messages, [Next]_vars, DrainNode
  PROVE  Messages'
<1>1. /\ fifo \in Seq(Node) /\ fifo # <<>> /\ message_queue = fifo[1]
      /\ message_queue \in DOMAIN heap
      /\ message_queue \notin Range(Tail(fifo))
      /\ Len(fifo) \in Nat \ {0}
      /\ Range(fifo) = {message_queue} \cup Range(Tail(fifo))
      /\ \A i \in 1..Len(Tail(fifo)) :
           i + 1 \in 1..Len(fifo) /\ Tail(fifo)[i] = fifo[i + 1]
  BY HeadFacts, TailFacts DEF DrainNode, Structure, TypeOK
<1>2. /\ heap' = Free(message_queue) /\ fifo' = Tail(fifo)
      /\ buffers' = buffers \ {heap[message_queue].message}
      /\ UNCHANGED <<mt_message, session, raised, lost>>
  BY DEF DrainNode, sessionVars, mtVars
<1>3. message_queue \in Live /\ message_queue # mt_message
  BY <1>1 DEF Live, Structure, NodesOwned
<1>4. Live' = Live \ {message_queue}
  BY <1>1, <1>2, <1>3 DEF Live
<1>5. \A n \in Live' : heap'[n].message = heap[n].message
  BY <1>2, <1>4, LiveFacts DEF Free, Restrict
<1>6. /\ Fresh' /\ StoredOnce'
      /\ \A m, n \in Live' : Earlier(m, n) => Earlier(m, n)'
  BY <1>2, <1>4, <1>5, NodesLeave
<1>7. BuffersOwned'
  BY <1>2, <1>3, <1>4, <1>5, BufferFreed
<1>8. Ordered'
  <2>1. ASSUME NEW i \in 1..Len(fifo')
        PROVE  /\ i + 1 \in 1..Len(fifo) /\ fifo'[i] = fifo[i + 1]
               /\ fifo[i + 1] \in Live'
    <3>1. i + 1 \in 1..Len(fifo) /\ fifo'[i] = fifo[i + 1]
      BY <1>1, <1>2
    <3>2. fifo[i + 1] # message_queue
      <4>1. 1 \in 1..Len(fifo) /\ 1 # i + 1
        BY <1>1, <3>1
      <4> QED
        BY <1>1, <3>1, <4>1 DEF Structure, ListShape
    <3> QED
      BY <1>4, <3>1, <3>2, LiveFacts
  <2>2. ASSUME NEW i \in 1..Len(fifo'), NEW j \in 1..Len(fifo'), i < j
        PROVE  Earlier(fifo[i], fifo[j])'
    <3>1. Earlier(fifo[i + 1], fifo[j + 1])
      BY <2>1, <2>2 DEF Messages, Ordered
    <3> QED
      BY <1>6, <2>1, <3>1
  <2>3. ASSUME NEW i \in 1..Len(fifo'), mt_message' # NULL
        PROVE  Earlier(mt_message, fifo[i])'
    <3>1. Earlier(mt_message, fifo[i + 1])
      BY <1>2, <2>1, <2>3 DEF Messages, Ordered
    <3>2. mt_message \in Live'
      BY <1>2, <1>3, <1>4, <2>3, LiveFacts
    <3> QED
      BY <1>2, <1>6, <2>1, <3>1, <3>2
  <2> QED
    BY <2>2, <2>3 DEF Ordered
<1> QED
  BY <1>6, <1>7, <1>8 DEF Messages

(* Every step keeps what is said of the messages; the steps not covered    *)
(* above move no node.                                                     *)
LEMMA MessagesStep == Structure /\ Messages /\ [Next]_vars => Messages'
<1> SUFFICES ASSUME Structure, Messages, [Next]_vars
             PROVE  Messages'
  OBVIOUS
<1> USE DEF queueVars, heapVars, sessionVars, mtVars, deinitVars, historyVars
<1>1. ASSUME UNCHANGED <<heap, fifo, mt_message, lost, buffers>>,
             \A t \in Session : session'[t] = "append" <=> session[t] = "append",
             \A t \in Session : session[t] = "append" => raised'[t] = raised[t]
      PROVE  Messages'
  <2>1. {t \in Session : session'[t] = "append"} = {t \in Session : session[t] = "append"}
    BY <1>1
  <2>2. \A t \in {u \in Session : session[u] = "append"} : Current(t)' = Current(t)
    BY <1>1 DEF Current
  <2>3. {Current(t)' : t \in {u \in Session : session'[u] = "append"}} =
          {Current(t) : t \in {u \in Session : session[u] = "append"}}
    BY <2>1, <2>2
  <2>4. BuffersOwned'
    BY <1>1, <2>3 DEF Messages, BuffersOwned, Live
  <2> QED
    BY <1>1, <2>4, NodesUnchanged DEF Messages
<1>2. ASSUME NEW s \in Session, Notify(s)
      PROVE  Messages'
  BY <1>1, <1>2 DEF Notify, Structure, TypeOK
<1>3. ASSUME NEW s \in Session, CheckLimit(s) \/ BuildJsonFails(s)
      PROVE  Messages'
  BY <1>1, <1>3 DEF CheckLimit, BuildJsonFails, Structure, TypeOK
<1>4. ASSUME NEW s \in Session, BuildJson(s)
      PROVE  Messages'
  <2>1. /\ session[s] = "json" /\ session' = [session EXCEPT ![s] = "append"]
        /\ buffers' = buffers \cup {Current(s)}
        /\ UNCHANGED <<heap, fifo, mt_message, lost, raised>>
    BY <1>4 DEF BuildJson
  <2>2. {t \in Session : session'[t] = "append"} = {t \in Session : session[t] = "append"} \cup {s}
    BY <2>1 DEF Structure, TypeOK
  <2>3. {Current(t)' : t \in {u \in Session : session'[u] = "append"}} =
          {Current(t) : t \in {u \in Session : session[u] = "append"}} \cup {Current(s)}
    BY <2>1, <2>2 DEF Current
  <2>4. BuffersOwned'
    BY <2>1, <2>3 DEF Messages, BuffersOwned, Live
  <2> QED
    BY <2>1, <2>4, NodesUnchanged DEF Messages
<1>5. ASSUME NEW s \in Session, AppendMessage(s)
      PROVE  Messages'
  BY <1>5, AppendMessages
<1>6. ASSUME NEW s \in Session, AppendFails(s)
      PROVE  Messages'
  BY <1>6, AppendFailsMessages
<1>7. CASE MtTake \/ MtRelease \/ DrainNode
  BY <1>7, TakeMessages, ReleaseMessages, DrainMessages
<1>8. CASE \/ MtLoop \/ MtPeek \/ MtTakeNull \/ DeinitBegin \/ DrainLock \/ DrainUnlock
           \/ StopMessaging \/ Join \/ UNCHANGED vars
  BY <1>1, <1>8 DEF MtLoop, MtPeek, MtTakeNull, DeinitBegin, DrainLock, DrainUnlock,
                    StopMessaging, Join, vars
<1> QED
  BY <1>2, <1>3, <1>4, <1>5, <1>6, <1>7, <1>8
     DEF Next, Step, SendEvent, MessageThread, Deinit

(* In every reachable state the plugin knows each allocated node and       *)
(* buffer, each event is stored once, and the nodes are in order.          *)
THEOREM MessagesInvariant == Spec => []Messages
<1> QED
  BY MessagesInit, MessagesStep, StructureInvariant, PTL DEF Spec

(* No node or JSON buffer is freed twice, used after its free or           *)
(* forgotten, and a completed logger_plugin_deinit frees them all, except  *)
(* the buffers lost to a failed malloc.                                    *)
THEOREM OwnershipHolds == Spec => []Ownership
<1>1. Structure /\ Messages => Ownership
  <2> SUFFICES ASSUME Structure, Messages
               PROVE  Ownership
    OBVIOUS
  <2>1. ASSUME di = "done"
        PROVE  heap = <<>> /\ buffers = lost
    <3>1. fifo = <<>> /\ mt_message = NULL /\ \A s \in Session : session[s] = "idle"
      BY <2>1 DEF Structure, Control, TypeOK
    <3>2. Live = {}
      BY <3>1 DEF Live, Range
    <3>3. DOMAIN heap = {}
      BY <3>2 DEF Structure, NodesOwned
    <3>4. heap = [x \in DOMAIN heap |-> heap[x]]
      BY DEF Structure, TypeOK
    <3>5. heap = <<>>
      BY <3>3, <3>4
    <3>6. buffers = lost
      BY <3>1, <3>2 DEF Messages, BuffersOwned
    <3> QED
      BY <3>5, <3>6
  <2> QED
    BY <2>1 DEF Structure, Messages, Ownership, UnloadFreesAll
<1> QED
  BY <1>1, StructureInvariant, MessagesInvariant, PTL

(* The events of a session are sent in the order it raised them, and the   *)
(* one it is about to append is newer than all that wait.                  *)
THEOREM SessionOrderHolds == Spec => []SessionOrder
<1>1. Structure /\ Messages => SessionOrder
  <2> SUFFICES ASSUME Structure, Messages
               PROVE  SessionOrder
    OBVIOUS
  <2>1. \A i \in 1..Len(fifo) : Past(heap[fifo[i]].message)
    BY LiveFacts DEF Messages, Fresh
  <2> QED
    BY <2>1 DEF Messages, Ordered, Earlier, Past, SessionOrder
<1> QED
  BY <1>1, StructureInvariant, MessagesInvariant, PTL

-----------------------------------------------------------------------------
(* The refinement                                                           *)

(* The messages of a list of nodes, as a sequence. *)
LEMMA MessagesOf ==
  ASSUME NEW h, NEW f \in Seq(Node), \A i \in 1..Len(f) : h[f[i]].message \in Event
  PROVE  /\ [i \in 1..Len(f) |-> h[f[i]].message] \in Seq(Event)
         /\ Len([i \in 1..Len(f) |-> h[f[i]].message]) = Len(f)
         /\ \A j \in 1..Len(f) : [i \in 1..Len(f) |-> h[f[i]].message][j] = h[f[j]].message
<1>1. Len(f) \in Nat
  OBVIOUS
<1>2. [i \in 1..Len(f) |-> h[f[i]].message] \in [1..Len(f) -> Event]
  OBVIOUS
<1>3. [i \in 1..Len(f) |-> h[f[i]].message] \in Seq(Event)
  BY <1>1, <1>2
<1> QED
  BY <1>1, <1>3

(* The waiting events are as many as the nodes, and the event in hand is   *)
(* NULL exactly when there is no node in hand.                             *)
LEMMA WaitingFacts ==
  ASSUME Structure
  PROVE  /\ Waiting \in Seq(Event)
         /\ Len(Waiting) = Len(fifo)
         /\ \A i \in 1..Len(fifo) : Waiting[i] = heap[fifo[i]].message
         /\ Waiting = <<>> <=> fifo = <<>>
         /\ InHand = NULL <=> mt_message = NULL
<1>1. fifo \in Seq(Node) /\ \A i \in 1..Len(fifo) : heap[fifo[i]].message \in Event
  BY LiveFacts DEF Structure, TypeOK
<1>2. /\ Waiting \in Seq(Event)
      /\ Len(Waiting) = Len(fifo)
      /\ \A i \in 1..Len(fifo) : Waiting[i] = heap[fifo[i]].message
  BY <1>1, MessagesOf DEF Waiting
<1>3. Waiting = <<>> <=> fifo = <<>>
  BY <1>1, <1>2, EmptySeq
<1>4. InHand = NULL <=> mt_message = NULL
  BY LiveFacts, NullAssumption DEF InHand
<1> QED
  BY <1>2, <1>3, <1>4

(* The plugin's queue starts as the abstract one does. *)
LEMMA FifoInit == Init => Fifo!Init
<1> SUFFICES ASSUME Init
             PROVE  Fifo!Init
  OBVIOUS
<1>1. Waiting = <<>>
  BY EmptySeq DEF Init, Waiting
<1> QED
  BY <1>1 DEF Init, Fifo!Init, InHand, Status

(* AppendMessage puts the event of its session behind those that wait, and *)
(* there was room for it.                                                  *)
LEMMA AppendIsPut ==
  ASSUME Structure, Structure', Limit, NEW s \in Session, AppendMessage(s)
  PROVE  Fifo!Put
<1>1. PICK n \in Node \ DOMAIN heap :
        /\ Len(fifo') = Len(fifo) + 1
        /\ \A i \in 1..Len(fifo) : fifo'[i] = fifo[i]
        /\ fifo'[Len(fifo) + 1] = n
        /\ fifo' \in Seq(Node)
        /\ Len(fifo) \in Nat
        /\ Current(s) \in Event
        /\ \A x \in DOMAIN heap : heap'[x].message = heap[x].message
        /\ heap'[n] = [message |-> Current(s), next |-> NULL]
  BY AppendedMessage
<1>2. /\ session[s] = "append"
      /\ UNCHANGED <<mt, mt_message, di>>
  BY DEF AppendMessage, mtVars, deinitVars
<1>3. di = "running" /\ Status = "open" /\ Status' = Status
  BY <1>2 DEF Structure, Control, Status
<1>4. Len(Waiting) < MaxQueueSize - 1 + Cardinality(Session)
  <2>1. s \in PastCheck
    BY <1>2 DEF PastCheck
  <2>2. Cardinality(PastCheck) # 0
    BY <2>1, PastCheckFinite, FS_EmptySet
  <2>3. Len(fifo) <= pending_message_count /\ pending_message_count \in Nat
    BY DEF Structure, CountMatches, TypeOK
  <2> QED
    BY <1>1, <2>2, <2>3, PastCheckFinite, WaitingFacts, SizeAssumption DEF Limit
<1>5. Waiting' = Append(Waiting, Current(s))
  <2> DEFINE w == Append(Waiting, Current(s))
  <2>1. /\ w \in Seq(Event)
        /\ Len(w) = Len(fifo) + 1
        /\ \A i \in 1..Len(fifo) : w[i] = heap[fifo[i]].message
        /\ w[Len(fifo) + 1] = Current(s)
    BY <1>1, WaitingFacts, AppendProperties
  <2>2. \A i \in 1..Len(fifo') : i \in 1..Len(fifo) \/ i = Len(fifo) + 1
    BY <1>1
  <2>3. \A i \in 1..Len(fifo) : fifo[i] \in DOMAIN heap
    BY DEF Structure, ListShape
  <2>4. heap'[n].message = Current(s)
    BY <1>1
  <2> HIDE DEF w
  <2>5. \A i \in 1..Len(fifo') : w[i] = heap'[fifo'[i]].message
    BY <1>1, <2>1, <2>2, <2>3, <2>4
  <2>6. \A i \in 1..Len(fifo') : heap'[fifo'[i]].message \in Event
    BY <1>1, <2>1, <2>2, <2>4, <2>5, WaitingFacts
  <2>7. /\ Waiting' \in Seq(Event)
        /\ Len(Waiting') = Len(fifo')
        /\ \A i \in 1..Len(fifo') : Waiting'[i] = heap'[fifo'[i]].message
    BY <1>1, <2>6, MessagesOf DEF Waiting
  <2>8. Waiting' = w
    BY <1>1, <2>1, <2>5, <2>7, SeqEqual
  <2> QED
    BY <2>8 DEF w
<1>6. InHand' = InHand
  BY <1>1, <1>2, LiveFacts DEF InHand
<1> QED
  BY <1>1, <1>3, <1>4, <1>5, <1>6 DEF Fifo!Put

(* Unlinking the head removes the oldest waiting event. *)
LEMMA HeadLeaves ==
  ASSUME Structure, message_queue # NULL, fifo' = Tail(fifo),
         \A i \in 1..Len(fifo') : heap'[fifo'[i]].message = heap[fifo'[i]].message
  PROVE  /\ Waiting # <<>>
         /\ Waiting' = Tail(Waiting)
         /\ Head(Waiting) = heap[message_queue].message
<1>1. /\ fifo \in Seq(Node) /\ fifo # <<>> /\ message_queue = fifo[1]
      /\ fifo' \in Seq(Node)
      /\ Len(fifo) \in Nat \ {0}
      /\ Len(fifo') = Len(fifo) - 1
      /\ \A i \in 1..Len(fifo') : i + 1 \in 1..Len(fifo) /\ fifo'[i] = fifo[i + 1]
  BY HeadFacts, TailFacts DEF Structure, TypeOK
<1>2. /\ Waiting \in Seq(Event) /\ Waiting # <<>>
      /\ Len(Waiting) = Len(fifo)
      /\ \A i \in 1..Len(fifo) : Waiting[i] = heap[fifo[i]].message
  BY <1>1, WaitingFacts
<1>3. /\ Tail(Waiting) \in Seq(Event)
      /\ Len(Tail(Waiting)) = Len(fifo')
      /\ \A i \in 1..Len(fifo') : Tail(Waiting)[i] = Waiting[i + 1]
  BY <1>1, <1>2, HeadTailProperties
<1>4. \A i \in 1..Len(fifo') : Tail(Waiting)[i] = heap'[fifo'[i]].message
  BY <1>1, <1>2, <1>3
<1>5. \A i \in 1..Len(fifo') : heap'[fifo'[i]].message \in Event
  BY <1>1, LiveFacts
<1>6. /\ Waiting' \in Seq(Event)
      /\ Len(Waiting') = Len(fifo')
      /\ \A i \in 1..Len(fifo') : Waiting'[i] = heap'[fifo'[i]].message
  BY <1>1, <1>5, MessagesOf DEF Waiting
<1>7. Waiting' = Tail(Waiting)
  <2>1. PICK a \in Seq(Event), b \in Seq(Event) : a = Waiting' /\ b = Tail(Waiting)
    BY <1>3, <1>6
  <2>2. Len(a) = Len(b)
    BY <1>3, <1>6, <2>1
  <2>3. \A i \in 1..Len(a) : a[i] = b[i]
    BY <1>4, <1>6, <2>1
  <2>4. a = b
    BY <2>2, <2>3, SeqEqual
  <2> QED
    BY <2>1, <2>4
<1>8. Head(Waiting) = Waiting[1]
  BY <1>2
<1> QED
  BY <1>1, <1>2, <1>7, <1>8

(* Every step of the queue is a step of the abstract one, or leaves what   *)
(* it promises unchanged.                                                  *)
LEMMA FifoStep ==
  Structure /\ Structure' /\ Limit /\ [Next]_vars => [Fifo!Next]_(Fifo!vars)
<1> SUFFICES ASSUME Structure, Structure', Limit, [Next]_vars
             PROVE  Fifo!Next \/ UNCHANGED Fifo!vars
  OBVIOUS
<1> USE DEF queueVars, heapVars, sessionVars, mtVars, deinitVars, historyVars
<1>1. ASSUME UNCHANGED <<heap, fifo, mt_message>>
      PROVE  Waiting' = Waiting /\ InHand' = InHand
  BY <1>1 DEF Waiting, InHand
<1>2. ASSUME NEW s \in Session, Notify(s) \/ SendEvent(s)
      PROVE  Fifo!Next \/ UNCHANGED Fifo!vars
  <2>1. CASE AppendMessage(s)
    BY <2>1, AppendIsPut DEF Fifo!Next
  <2>2. CASE ~AppendMessage(s)
    <3>1. UNCHANGED <<heap, fifo, mt_message, mt, di>>
      BY <1>2, <2>2 DEF Notify, SendEvent, CheckLimit, BuildJson, BuildJsonFails, AppendFails
    <3> QED
      BY <1>1, <3>1 DEF Status, Fifo!vars
  <2> QED
    BY <2>1, <2>2
<1>3. CASE MtTake
  <2>1. /\ message_queue # NULL /\ mt = "take" /\ mt' = "send"
        /\ mt_message' = message_queue
        /\ heap' = [heap EXCEPT ![message_queue].next = NULL]
        /\ fifo' = Tail(fifo)
        /\ UNCHANGED di
    BY <1>3 DEF MtTake
  <2>2. message_queue \in DOMAIN heap /\ heap[message_queue] \in Message
    BY <2>1, HeadFacts, LiveFacts
  <2>3. \A n \in DOMAIN heap : heap'[n].message = heap[n].message
    <3>1. heap'[message_queue] = [heap[message_queue] EXCEPT !.next = NULL]
      BY <2>1, <2>2
    <3>2. heap'[message_queue].message = heap[message_queue].message
      BY <2>2, <3>1 DEF Message
    <3> QED
      BY <2>1, <3>2
  <2>4. \A i \in 1..Len(fifo') : fifo'[i] \in DOMAIN heap
    BY <2>1, HeadFacts
  <2>5. /\ Waiting # <<>> /\ Waiting' = Tail(Waiting)
        /\ Head(Waiting) = heap[message_queue].message
    BY <2>1, <2>3, <2>4, HeadLeaves
  <2>6. InHand = NULL /\ InHand' = heap[message_queue].message
    BY <2>1, <2>2, <2>3 DEF InHand, Structure, Control
  <2>7. Status # "crashed" /\ Status' = Status
    BY <2>1 DEF Status
  <2> QED
    BY <2>5, <2>6, <2>7 DEF Fifo!Next, Fifo!Take
<1>4. CASE MtRelease
  <2>1. /\ mt = "send" /\ mt' = "loop" /\ mt_message' = NULL
        /\ heap' = Free(mt_message)
        /\ UNCHANGED <<fifo, di>>
    BY <1>4 DEF MtRelease
  <2>2. \A i \in 1..Len(fifo) : heap'[fifo[i]] = heap[fifo[i]]
    BY <2>1, LiveFacts DEF Free, Restrict
  <2>3. Waiting' = Waiting
    BY <2>1, <2>2 DEF Waiting
  <2>4. InHand # NULL /\ InHand' = NULL
    BY <2>1, WaitingFacts DEF InHand, Structure, Control
  <2>5. Status # "crashed" /\ Status' = Status
    BY <2>1 DEF Status
  <2> QED
    BY <2>3, <2>4, <2>5 DEF Fifo!Next, Fifo!Finish
<1>5. CASE MtTakeNull
  <2>1. /\ mt = "take" /\ mt' = "crashed" /\ message_queue = NULL
        /\ UNCHANGED <<heap, fifo, mt_message, di>>
    BY <1>5 DEF MtTakeNull
  <2>2. fifo = <<>> /\ di \in {"drain", "stop", "join"} /\ mt_message = NULL
    <3>1. fifo # <<>> => fifo[1] \in Node
      BY DEF Structure, TypeOK
    <3> QED
      BY <2>1, <3>1, NullAssumption DEF Structure, Control, ListShape
  <2>3. Status = "closed" /\ Status' = "crashed"
    BY <2>1, <2>2 DEF Status
  <2>4. Waiting = <<>> /\ InHand = NULL
    BY <2>2, WaitingFacts
  <2> QED
    BY <1>1, <2>1, <2>3, <2>4 DEF Fifo!Next, Fifo!Crash
<1>6. CASE DeinitBegin /\ mt # "crashed"
  <2>1. UNCHANGED <<heap, fifo, mt_message>> /\ Status = "open" /\ Status' = "closed"
    BY <1>6 DEF DeinitBegin, Status
  <2> QED
    BY <1>1, <2>1 DEF Fifo!Next, Fifo!Close
<1>7. CASE DrainNode /\ mt # "crashed"
  <2>1. /\ di = "drain" /\ message_queue # NULL
        /\ heap' = Free(message_queue) /\ fifo' = Tail(fifo)
        /\ UNCHANGED <<mt, mt_message, di>>
    BY <1>7 DEF DrainNode
  <2>2. \A i \in 1..Len(fifo') : heap'[fifo'[i]] = heap[fifo'[i]]
    BY <2>1, HeadFacts DEF Free, Restrict
  <2>3. Waiting # <<>> /\ Waiting' = Tail(Waiting)
    BY <2>1, <2>2, HeadLeaves
  <2>4. Status = "closed" /\ Status' = Status
    BY <1>7, <2>1 DEF Status
  <2>5. InHand' = InHand
    <3>1. mt_message # NULL => mt_message \in DOMAIN heap \ {message_queue}
      BY <2>1, HeadFacts, LiveFacts DEF Structure, NodesOwned
    <3> QED
      BY <2>1, <3>1 DEF InHand, Free, Restrict
  <2> QED
    BY <2>3, <2>4, <2>5 DEF Fifo!Next, Fifo!Discard
<1>8. CASE /\ mt # "crashed"
           /\ MtLoop \/ MtPeek \/ DrainLock \/ DrainUnlock \/ StopMessaging \/ Join
  <2>1. UNCHANGED <<heap, fifo, mt_message>> /\ Status' = Status
    BY <1>8 DEF MtLoop, MtPeek, DrainLock, DrainUnlock, StopMessaging, Join, Status
  <2> QED
    BY <1>1, <2>1 DEF Fifo!vars
<1>9. CASE UNCHANGED vars
  BY <1>1, <1>9 DEF vars, Status, Fifo!vars
<1> QED
  BY <1>2, <1>3, <1>4, <1>5, <1>6, <1>7, <1>8, <1>9 DEF Next, Step, MessageThread, Deinit

(* send_event, process_pending_messages and logger_plugin_deinit implement *)
(* the bounded FIFO: for any number of sessions and any limit, events      *)
(* leave one at a time in the order they entered, no more than the         *)
(* capacity wait, and the message thread dies only in a closed and emptied *)
(* queue.                                                                  *)
THEOREM RefinesFifo == Spec => Fifo!Spec
<1> QED
  BY FifoInit, FifoStep, StructureInvariant, LimitInit, LimitStep, PTL DEF Spec, Fifo!Spec

=============================================================================
