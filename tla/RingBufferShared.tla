--------------------------- MODULE RingBufferShared ---------------------------
(***************************************************************************)
(* libs/utils/ring_buffer between one producer and one consumer that       *)
(* preempt each other, a task and an interrupt say: push() and pop() of a  *)
(* ring that does not overwrite, one memory access at a time.  An element  *)
(* is two words.                                                           *)
(*                                                                         *)
(* Only head_ and tail_ are volatile, buffer_ is not: the code orders the  *)
(* accesses to a slot with those to the indices by nothing, and the        *)
(* library's README claims no more.  What a host adds is chosen once:      *)
(*   serialised  each call runs to its end before the other side begins    *)
(*               one, behind masked interrupts say, as the README demands; *)
(*   inOrder     a call's accesses take effect in program order, behind    *)
(*               barriers or as this compiler happens to emit them.        *)
(* Without inOrder the accesses of a call come in any order.               *)
(***************************************************************************)
EXTENDS RingBuffer

CONSTANT MaxPushes  \* bound: elements offered

ASSUME RingNeverOverwrites == Overwrite = FALSE /\ MaxPushes \in Nat

VARIABLES
  ring,
  serialised, inOrder,
  putting,   \* the accesses push() has still to make; {} outside of it
  into,      \* where it puts the element
  offered,   \* elements offered so far: the next one's number
  sent,      \* the elements of the calls of push() that ended with TRUE, in order
  taking,    \* the accesses pop() has still to make
  from,      \* where it takes the element
  got,       \* what it has copied of it
  received   \* the elements pop() returned, in that order

host == <<serialised, inOrder>>
producing == <<putting, into, offered, sent>>
consuming == <<taking, from, got, received>>
vars == <<ring, host, producing, consuming>>

(* The accesses of a call in program order: to the two words of the slot,  *)
(* and to the index.                                                       *)
Words    == {1, 2}
Accesses == {1, 2, 3}

Values == 0 .. MaxPushes
Whole(n) == [w \in Words |-> n]

Init ==
  /\ ring = New(Whole(0))
  /\ serialised \in BOOLEAN /\ inOrder \in BOOLEAN
  /\ putting = {} /\ into = 0 /\ offered = 0 /\ sent = <<>>
  /\ taking = {} /\ from = 0 /\ got = Whole(0) /\ received = <<>>

(* The access a of those left may take effect now. *)
Due(a, left) == a \in left /\ (inOrder => \A b \in left : a <= b)

-----------------------------------------------------------------------------
(* push() *)

(* Only the producer writes head_: reading it again gives the same. *)
Offer ==
  /\ putting = {} /\ offered < MaxPushes
  /\ serialised => taking = {}
  /\ offered' = offered + 1
  /\ IF Accepts(ring) THEN putting' = Accesses /\ into' = ring.head
     ELSE UNCHANGED <<putting, into>>
  /\ UNCHANGED <<ring, host, sent, consuming>>

(* One access of push() less; after the last one it returns TRUE. *)
PutOne(a) ==
  /\ Due(a, putting)
  /\ putting' = putting \ {a}
  /\ sent' = IF putting' = {} THEN Append(sent, Whole(offered)) ELSE sent
  /\ UNCHANGED <<host, into, offered, consuming>>

CopyIn(w) == PutOne(w) /\ ring' = [ring EXCEPT !.buffer[into] = [@ EXCEPT ![w] = offered]]

Publish == PutOne(3) /\ ring' = [ring EXCEPT !.head = After(into)]

-----------------------------------------------------------------------------
(* pop() *)

Look ==
  /\ taking = {}
  /\ serialised => putting = {}
  /\ IF IsEmpty(ring) THEN UNCHANGED <<taking, from>>
     ELSE taking' = Accesses /\ from' = ring.tail
  /\ UNCHANGED <<ring, host, producing, got, received>>

TakeOne(a) ==
  /\ Due(a, taking)
  /\ taking' = taking \ {a}
  /\ received' = IF taking' = {} THEN Append(received, got') ELSE received
  /\ UNCHANGED <<host, producing, from>>

CopyOut(w) == got' = [got EXCEPT ![w] = ring.buffer[from][w]] /\ TakeOne(w) /\ UNCHANGED ring

Release == UNCHANGED got /\ TakeOne(3) /\ ring' = [ring EXCEPT !.tail = After(from)]

-----------------------------------------------------------------------------
Produce == Offer \/ Publish \/ \E w \in Words : CopyIn(w)
Consume == Look \/ Release \/ \E w \in Words : CopyOut(w)

Next == Produce \/ Consume

Spec == Init /\ [][Next]_vars

-----------------------------------------------------------------------------
TypeOK ==
  /\ ring \in Rings([Words -> Values])
  /\ serialised \in BOOLEAN /\ inOrder \in BOOLEAN
  /\ putting \subseteq Accesses /\ taking \subseteq Accesses
  /\ into \in Index /\ from \in Index
  /\ offered \in Values /\ got \in [Words -> Values]
  /\ sent \in Seq([Words -> Values]) /\ received \in Seq([Words -> Values])

(* Between calls if the host serialises them, or within them too if it     *)
(* keeps their accesses in order: what push() accepted is what pop()       *)
(* returned followed by what the ring holds, in order, whole, none lost    *)
(* and none twice.  Where a host does neither nothing is claimed: there an *)
(* element is returned half written, as the README warns.                  *)
Delivered ==
  inOrder \/ (serialised /\ putting = {} /\ taking = {})
  => sent = received \o Contents(ring)
=============================================================================
