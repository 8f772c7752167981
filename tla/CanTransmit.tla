------------------------------ MODULE CanTransmit ------------------------------
(***************************************************************************)
(* bsp/can_driver2, the sending half of one bus: send() and the transmit   *)
(* interrupt share a software queue in front of the hardware's mailboxes.  *)
(* Both run with interrupts masked, so each is one step; the mailboxes and *)
(* the bus change between the steps, and an interrupt may be raised long   *)
(* before it is served.                                                    *)
(*                                                                         *)
(* Frames are numbered in the order they are given to send(); their        *)
(* contents, and the software validation of them, are left out.            *)
(***************************************************************************)
EXTENDS Naturals, Sequences, FiniteSets

CONSTANTS
  QueueSize,  \* CAN_DRIVER_TX_QUEUE_SIZE
  Mailboxes,  \* hardware transmit slots
  MaxFrames   \* bound: calls of send()

ASSUME SizeAssumption ==
  /\ QueueSize \in Nat \ {0} /\ Mailboxes \in Nat \ {0} /\ MaxFrames \in Nat

VARIABLES
  backend,  \* which of the two backends is compiled in
  started,  \* started_
  ring,     \* tx_queue_
  hal,      \* handle_.State: "ready", or "running" from start on
  busOff,   \* the controller is bus-off
  pending,  \* the frames in the mailboxes
  irq,      \* a transmit interrupt is raised and not served yet
  sends,    \* calls of send() so far
  reply,    \* the answer to each
  out,      \* ghost: the frames handed to the hardware, in that order;
            \* its length is tx_submitted_frames_
  refused   \* ghost: the last flush ended with an error, frames waiting

bus  == <<backend, started, hal, busOff>>
vars == <<bus, ring, pending, irq, sends, reply, out, refused>>

Frames == 1 .. MaxFrames

Ring == INSTANCE RingBuffer WITH Slots <- QueueSize + 1, Overwrite <- TRUE

Waiting == Ring!Contents(ring)

Init ==
  /\ backend \in {"bxcan", "fdcan"}
  /\ started = FALSE /\ hal = "ready" /\ busOff = FALSE
  /\ ring = Ring!New(0)
  /\ pending = {} /\ irq = FALSE
  /\ sends = 0 /\ reply = [f \in Frames |-> "none"]
  /\ out = <<>> /\ refused = FALSE

(* The last part of start(): started_ and the notifications, interrupts masked. *)
Start ==
  /\ ~started /\ hal = "ready"
  /\ started' = TRUE /\ hal' = "running"
  /\ UNCHANGED <<backend, busOff, ring, pending, irq, sends, reply, out, refused>>

-----------------------------------------------------------------------------
(* write() *)

Free == Mailboxes - Cardinality(pending)

(* Why write() turns every frame down, "None" when it does not. *)
Blocked ==
  IF hal # "running"
  THEN IF backend = "bxcan" THEN "InvalidState" ELSE "HardwareError"
  ELSE IF busOff THEN "BusOff" ELSE "None"

(* flush_tx() hands over the k oldest frames and ends with a status. *)
Flushes(k, status) ==
  LET n == Ring!Size(ring) IN
  \/ status = "Ok" /\ k = n /\ (n = 0 \/ (Blocked = "None" /\ n <= Free))
  \/ status = "Busy" /\ k < n /\ Blocked = "None" /\ k = Free
  \/ status = "HardwareError" /\ k < n /\ Blocked = "None" /\ k < Free
  \/ status = Blocked /\ status # "None" /\ k = 0 /\ n > 0

Counts == 0 .. QueueSize

Popped(k) == [ring EXCEPT !.tail = (@ + k) % (QueueSize + 1)]

Oldest(k) == SubSeq(Waiting, 1, k)

Elements(s) == {s[i] : i \in DOMAIN s}

(* The frames s are in the hardware's hands. *)
HandOver(s) == out' = out \o s /\ pending' = pending \cup Elements(s)

Refusals == {"InvalidState", "BusOff", "HardwareError"}

-----------------------------------------------------------------------------
(* send() *)

Answer(status) ==
  /\ sends < MaxFrames
  /\ sends' = sends + 1
  /\ reply' = [reply EXCEPT ![sends + 1] =
                 IF status = "InvalidState" THEN "NotStarted" ELSE status]
  /\ UNCHANGED <<bus, irq>>

SendTooEarly ==
  /\ ~started
  /\ Answer("NotStarted")
  /\ UNCHANGED <<ring, pending, out, refused>>

(* The frames before it cannot leave: the frame is not taken. *)
SendBehindRefused ==
  \E k \in Counts, status \in Refusals :
    /\ started
    /\ Flushes(k, status)
    /\ HandOver(Oldest(k)) /\ ring' = Popped(k)
    /\ refused' = TRUE
    /\ Answer(status)

(* Nothing waits any more and a mailbox is free. *)
SendNow ==
  \E k \in Counts :
    /\ started
    /\ Flushes(k, "Ok")
    /\ Blocked = "None" /\ k < Free
    /\ HandOver(Oldest(k) \o <<sends + 1>>) /\ ring' = Popped(k)
    /\ refused' = FALSE
    /\ Answer("Submitted")

(* Nothing waits any more, and this frame is turned down. *)
SendRefused ==
  \E k \in Counts, status \in Refusals :
    /\ started
    /\ Flushes(k, "Ok")
    /\ \/ status = Blocked
       \/ status = "HardwareError" /\ Blocked = "None" /\ k < Free
    /\ HandOver(Oldest(k)) /\ ring' = Popped(k)
    /\ refused' = FALSE
    /\ Answer(status)

(* The fault NewestReplaced: a full queue gives up its newest frame. *)
NewestReplaced(r, f) ==
  IF Ring!IsFull(r) THEN [r EXCEPT !.buffer[Ring!Before(r.head)] = f] ELSE Ring!Push(r, f)

Enqueue(r, f) == Ring!Push(r, f)

(* The mailboxes are full: the frame waits, perhaps in the place of the oldest. *)
SendQueued ==
  \E k \in Counts :
    /\ started
    /\ \/ Flushes(k, "Busy")
       \/ Flushes(k, "Ok") /\ Blocked = "None" /\ k = Free
    /\ HandOver(Oldest(k))
    /\ ring' = Enqueue(Popped(k), sends + 1)
    /\ refused' = FALSE
    /\ Answer(IF Ring!IsFull(Popped(k)) THEN "ReplacedOldest" ELSE "Queued")

Send == SendTooEarly \/ SendBehindRefused \/ SendNow \/ SendRefused \/ SendQueued

-----------------------------------------------------------------------------
(* on_tx_available() *)

(* The fault Ignored: the interrupt is served and the queue left alone. *)
Ignored == irq /\ irq' = FALSE /\ UNCHANGED <<bus, ring, pending, sends, reply, out, refused>>

OnTxAvailable ==
  /\ irq /\ irq' = FALSE
  /\ \E k \in Counts, status \in Refusals \cup {"Ok", "Busy"} :
       /\ Flushes(k, status)
       /\ HandOver(Oldest(k)) /\ ring' = Popped(k)
       /\ refused' = (status \in Refusals)
  /\ UNCHANGED <<bus, sends, reply>>

-----------------------------------------------------------------------------
(* The hardware. *)

(* A mailbox is done with its frame and says so. *)
MailboxEmpties(f) ==
  /\ f \in pending /\ ~busOff
  /\ pending' = pending \ {f}
  /\ irq' = TRUE
  /\ UNCHANGED <<bus, ring, sends, reply, out, refused>>

(* Some mailboxes may be aborted; bxCAN's error interrupt is raised too.   *)
GoBusOff ==
  /\ hal = "running" /\ ~busOff
  /\ busOff' = TRUE
  /\ \E aborted \in SUBSET pending :
       /\ pending' = pending \ aborted
       /\ irq' = (irq \/ aborted # {} \/ backend = "bxcan")
  /\ UNCHANGED <<backend, started, hal, ring, sends, reply, out, refused>>

(* The host, or the controller itself, brings the node back: no interrupt. *)
Recover ==
  /\ busOff
  /\ busOff' = FALSE
  /\ UNCHANGED <<backend, started, hal, ring, pending, irq, sends, reply, out, refused>>

(* The host stops the hardware behind the driver, before it destroys it. *)
HostStops ==
  /\ hal = "running"
  /\ hal' = "ready" /\ busOff' = FALSE /\ pending' = {}
  /\ UNCHANGED <<backend, started, ring, irq, sends, reply, out, refused>>

Next ==
  \/ Start \/ Send \/ OnTxAvailable
  \/ \E f \in pending : MailboxEmpties(f)
  \/ GoBusOff \/ Recover \/ HostStops

Spec == Init /\ [][Next]_vars

(* A raised interrupt is served; a bus that is up carries the frames.      *)
(* A bus need not fail, nor recover, and nobody need call send() again.    *)
FairSpec ==
  /\ Spec
  /\ WF_vars(OnTxAvailable)
  /\ WF_vars(\E f \in pending : MailboxEmpties(f))

-----------------------------------------------------------------------------
TypeOK ==
  /\ backend \in {"bxcan", "fdcan"}
  /\ started \in BOOLEAN /\ busOff \in BOOLEAN /\ irq \in BOOLEAN /\ refused \in BOOLEAN
  /\ hal \in {"ready", "running"}
  /\ ring \in Ring!Rings(0 .. MaxFrames)
  /\ pending \subseteq Frames /\ Cardinality(pending) <= Mailboxes
  /\ sends \in 0 .. MaxFrames
  /\ reply \in [Frames -> {"none", "Submitted", "Queued", "ReplacedOldest", "NotStarted",
                           "BusOff", "HardwareError"}]
  /\ out \in Seq(Frames)

(* The queue drains without another send(), unless the hardware refuses. *)
Drains ==
  Waiting # <<>> ~> (Waiting = <<>> \/ refused \/ Blocked # "None")

(* The bus implements an ordered, bounded, lossy queue: see TxFifo. *)
Fifo == INSTANCE TxFifo WITH MaxWaiting <- QueueSize, waiting <- Waiting

ImplementsTxFifo == Fifo!Spec
=============================================================================
