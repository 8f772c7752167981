------------------------------ MODULE RingBuffer ------------------------------
(***************************************************************************)
(* libs/utils/ring_buffer: a fixed array with a head and a tail index and  *)
(* one slot left free, so that head = tail means empty.  The operations    *)
(* are functions from a ring to a ring; a module that uses one keeps the   *)
(* ring in a variable and says which of its steps are atomic.              *)
(***************************************************************************)
EXTENDS Naturals, Sequences

CONSTANTS
  Slots,     \* the template argument Capacity
  Overwrite  \* the template argument Overwrite

ASSUME SlotsAssumption == Slots \in Nat /\ Slots >= 2 /\ Overwrite \in BOOLEAN

Index == 0 .. (Slots - 1)

Rings(V) == [buffer : [Index -> V], head : Index, tail : Index]

(* A new ring; what its slots hold is never read. *)
New(v) == [buffer |-> [i \in Index |-> v], head |-> 0, tail |-> 0]

After(i)  == (i + 1) % Slots
Before(i) == IF i = 0 THEN Slots - 1 ELSE i - 1

IsEmpty(r) == r.head = r.tail
IsFull(r)  == After(r.head) = r.tail
Size(r)    == IF r.head >= r.tail THEN r.head - r.tail ELSE Slots - (r.tail - r.head)

Front(r) == r.buffer[r.tail]
Back(r)  == r.buffer[Before(r.head)]

(* The fault NoSlotKept: the ring takes as many elements as it has slots. *)
NoSlotKept(r) == Overwrite \/ Size(r) <= Slots - 1

(* push() answers FALSE, and does nothing, when there is no room. *)
Accepts(r) == Overwrite \/ ~IsFull(r)

(* push() of a ring that accepts: a full one gives up its oldest element. *)
Push(r, v) ==
  [buffer |-> [r.buffer EXCEPT ![r.head] = v],
   head   |-> After(r.head),
   tail   |-> IF IsFull(r) THEN After(r.tail) ELSE r.tail]

(* pop() of a ring that is not empty. *)
Pop(r) == [r EXCEPT !.tail = After(r.tail)]

Clear(r) == [r EXCEPT !.head = 0, !.tail = 0]

(* What the ring holds, the oldest element first. *)
Contents(r) == [i \in 1 .. Size(r) |-> r.buffer[(r.tail + (i - 1)) % Slots]]
=============================================================================
