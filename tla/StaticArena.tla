------------------------------ MODULE StaticArena ------------------------------
(***************************************************************************)
(* memory/StaticArena: threads and interrupts carve blocks out of one      *)
(* buffer by moving its offset with a compare-and-exchange, which may fail *)
(* because another was faster, or for no reason at all.                    *)
(***************************************************************************)
EXTENDS Integers

CONSTANTS
  Threads,
  ArenaSize,  \* bytes of the buffer
  Requests,   \* <<size, alignment>>
  MaxClears   \* bound: calls of clear()

ASSUME ArenaAssumption ==
  /\ ArenaSize \in Nat /\ MaxClears \in Nat
  /\ Requests \subseteq (Nat \ {0}) \X (Nat \ {0})

VARIABLES
  offset,    \* offset_
  request,   \* Thread -> what its allocate() was called with, <<>> outside of it
  expected,  \* Thread -> its copy of the offset
  blocks,    \* ghost: [start, size, align] of every block given out and in use
  clears

arenaVars == <<offset, request, expected, blocks, clears>>

ArenaInit ==
  /\ offset = 0 /\ blocks = {} /\ clears = 0
  /\ request = [t \in Threads |-> <<>>] /\ expected = [t \in Threads |-> 0]

(* Rounded up to the alignment; masking does this for a power of two, as   *)
(* every alignof is.                                                       *)
Aligned(at, alignment) == alignment * ((at + (alignment - 1)) \div alignment)

Start(t) == Aligned(expected[t], request[t][2])
Desired(t) == Start(t) + request[t][1]

Call(t, r) ==
  /\ request[t] = <<>>
  /\ request' = [request EXCEPT ![t] = r]
  /\ expected' = [expected EXCEPT ![t] = offset]
  /\ UNCHANGED <<offset, blocks, clears>>

(* nullptr: the rest is too small. *)
Exhausted(t) ==
  /\ request[t] # <<>> /\ Desired(t) > ArenaSize
  /\ request' = [request EXCEPT ![t] = <<>>]
  /\ UNCHANGED <<offset, expected, blocks, clears>>

(* The fault Unchecked: the offset is stored without comparing it. *)
Unchecked(t) ==
  /\ request[t] # <<>> /\ Desired(t) <= ArenaSize
  /\ offset' = Desired(t)
  /\ blocks' = blocks \cup {[start |-> Start(t), size |-> request[t][1], align |-> request[t][2]]}
  /\ request' = [request EXCEPT ![t] = <<>>]
  /\ UNCHANGED <<expected, clears>>

Exchange(t) ==
  /\ request[t] # <<>> /\ Desired(t) <= ArenaSize
  /\ offset = expected[t]
  /\ offset' = Desired(t)
  /\ blocks' = blocks \cup {[start |-> Start(t), size |-> request[t][1], align |-> request[t][2]]}
  /\ request' = [request EXCEPT ![t] = <<>>]
  /\ UNCHANGED <<expected, clears>>

(* The exchange failed and says what the offset is now. *)
Retry(t) ==
  /\ request[t] # <<>> /\ Desired(t) <= ArenaSize
  /\ expected' = [expected EXCEPT ![t] = offset]
  /\ UNCHANGED <<offset, request, blocks, clears>>

(* Nobody allocates and nobody uses a block any more, as the comment asks. *)
ClearArena ==
  /\ clears < MaxClears /\ clears' = clears + 1
  /\ \A t \in Threads : request[t] = <<>>
  /\ offset' = 0 /\ blocks' = {}
  /\ UNCHANGED <<request, expected>>

ArenaNext ==
  \/ ClearArena
  \/ \E t \in Threads :
       \/ \E r \in Requests : Call(t, r)
       \/ Exhausted(t) \/ Exchange(t) \/ Retry(t)

ArenaSpec == ArenaInit /\ [][ArenaNext]_arenaVars

OnItsAlignment(b) == \E k \in 0..ArenaSize : b.start = b.align * k

(* The blocks in use lie inside the buffer at their alignment, and no two  *)
(* of them share a byte, whoever interrupted whom.                         *)
BlocksDisjoint ==
  /\ \A b \in blocks : /\ 0 <= b.start /\ b.start + b.size <= ArenaSize
                       /\ OnItsAlignment(b)
  /\ \A b, c \in blocks : b = c \/ b.start + b.size <= c.start \/ c.start + c.size <= b.start
=============================================================================
