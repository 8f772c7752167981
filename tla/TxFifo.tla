-------------------------------- MODULE TxFifo --------------------------------
(***************************************************************************)
(* What a CAN bus promises about the frames it is given: they leave for    *)
(* the hardware in the order they were given, each once; a frame that is   *)
(* refused never leaves; one that waits is lost only to a newer frame, the *)
(* oldest first and only when as many wait as may.                         *)
(***************************************************************************)
EXTENDS Naturals, Sequences

CONSTANTS Frames, MaxWaiting

VARIABLES
  waiting,  \* the frames that wait, the oldest first
  out,      \* the frames handed to the hardware, in that order
  reply     \* what the sender of each frame was told, "none" before that

vars == <<waiting, out, reply>>

Init == waiting = <<>> /\ out = <<>> /\ reply = [f \in Frames |-> "none"]

Kept(k) == SubSeq(waiting, k + 1, Len(waiting))

(* The k oldest frames leave. *)
Leave(k) == out' = out \o SubSeq(waiting, 1, k)

Advance ==
  /\ \E k \in 1 .. Len(waiting) : Leave(k) /\ waiting' = Kept(k)
  /\ UNCHANGED reply

Answer(f, r) == reply[f] = "none" /\ reply' = [reply EXCEPT ![f] = r]

(* A frame is taken; older ones may leave before it. *)
Pass(f) ==
  /\ Answer(f, "Submitted")
  /\ out' = out \o waiting \o <<f>>
  /\ waiting' = <<>>

Queue(f) ==
  /\ Answer(f, "Queued")
  /\ \E k \in 0 .. Len(waiting) :
       /\ Len(Kept(k)) < MaxWaiting
       /\ Leave(k)
       /\ waiting' = Append(Kept(k), f)

Replace(f) ==
  /\ Answer(f, "ReplacedOldest")
  /\ \E k \in 0 .. Len(waiting) :
       /\ Len(Kept(k)) = MaxWaiting
       /\ Leave(k)
       /\ waiting' = Append(Kept(k + 1), f)

Refuse(f) ==
  /\ \E r \in {"NotStarted", "BusOff", "HardwareError"} : Answer(f, r)
  /\ \E k \in 0 .. Len(waiting) : Leave(k) /\ waiting' = Kept(k)

Next ==
  \/ Advance
  \/ \E f \in Frames : Pass(f) \/ Queue(f) \/ Replace(f) \/ Refuse(f)

Spec == Init /\ [][Next]_vars
=============================================================================
