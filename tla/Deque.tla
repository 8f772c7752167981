---------------------------------- MODULE Deque ----------------------------------
(***************************************************************************)
(* libs/utils/deque: a double-ended queue in a fixed array, which gives up *)
(* an element of the other end when it is full.  It is compared with the   *)
(* sequence it stands for.                                                 *)
(***************************************************************************)
EXTENDS Naturals, Sequences

CONSTANTS
  Capacity,   \* N
  WordSize,   \* 2^w for the w bits of size_t
  DequeValues

(* An object is at most half of what size_t can count: so much and no more *)
(* is needed for the sums of positions not to wrap.                        *)
ASSUME DequeAssumption ==
  /\ Capacity \in Nat \ {0} /\ WordSize \in Nat
  /\ 2 * Capacity <= WordSize

VARIABLES
  data, head, size,  \* data_, head_, size_
  window             \* ghost: the elements, the front one first

dequeVars == <<data, head, size, window>>

DequeInit ==
  /\ data \in [0 .. (Capacity - 1) -> {0}] /\ head = 0 /\ size = 0
  /\ window = <<>>

Full == size = Capacity

Position(i) == (head + i) % Capacity

(* -i counts from the back; size_t wraps on the way there. *)
PositionFromBack(i) == ((head + size + (WordSize - i)) % WordSize) % Capacity

KeepFront(s) == IF Len(s) > Capacity THEN SubSeq(s, 1, Capacity) ELSE s
KeepBack(s)  == IF Len(s) > Capacity THEN Tail(s) ELSE s

PushBack(v) ==
  /\ data' = [data EXCEPT ![Position(size)] = v]
  /\ head' = IF Full THEN Position(1) ELSE head
  /\ size' = IF Full THEN size ELSE size + 1
  /\ window' = KeepBack(Append(window, v))

PushFront(v) ==
  /\ head' = Position(Capacity - 1)
  /\ data' = [data EXCEPT ![head'] = v]
  /\ size' = IF Full THEN size ELSE size + 1
  /\ window' = KeepFront(<<v>> \o window)

PopBack ==
  /\ size > 0
  /\ size' = size - 1
  /\ window' = SubSeq(window, 1, Len(window) - 1)
  /\ UNCHANGED <<data, head>>

(* The fault HeadKept: the front stays where it was.                       *)
HeadKept ==
  /\ size > 0
  /\ size' = size - 1
  /\ window' = Tail(window)
  /\ UNCHANGED <<data, head>>

PopFront ==
  /\ size > 0
  /\ head' = Position(1) /\ size' = size - 1
  /\ window' = Tail(window)
  /\ UNCHANGED data

ClearDeque ==
  /\ head' = 0 /\ size' = 0
  /\ window' = <<>>
  /\ UNCHANGED data

DequeNext ==
  \/ \E v \in DequeValues : PushBack(v) \/ PushFront(v)
  \/ PopBack \/ PopFront \/ ClearDeque

DequeSpec == DequeInit /\ [][DequeNext]_dequeVars

(* Every element is where an index from the front and one from the back    *)
(* look for it, however the array has turned and whichever ends were       *)
(* overwritten.                                                            *)
WindowKept ==
  /\ size = Len(window)
  /\ \A i \in 1 .. size :
       /\ data[Position(i - 1)] = window[i]
       /\ data[PositionFromBack(i)] = window[size + 1 - i]
=============================================================================
