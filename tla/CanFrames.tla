------------------------------- MODULE CanFrames -------------------------------
(***************************************************************************)
(* bsp/can_driver2, the road of one frame: from the FrameView given to     *)
(* send(), through the two validations, the copy into the queue, the call  *)
(* of the HAL and the bus, to the FrameView a receive callback is given.   *)
(*                                                                         *)
(* An identifier is the set of its bits that are one.  A payload is its    *)
(* length and a tag that stands for its bytes.  HAL functions read and     *)
(* write whole words beyond a payload's end, so how many bytes of a buffer *)
(* are there, and how many the HAL touches, is kept.                       *)
(***************************************************************************)
EXTENDS Integers, Sequences, FiniteSets, FiniteSetsExt

(* The status of the first check that fails, in the order of the code. *)
FirstFailure(checks) ==
  LET failed == {i \in DOMAIN checks : checks[i][1]}
  IN  IF failed = {} THEN "Ok" ELSE checks[Min(failed)][2]

MaxDataLength(backend) == IF backend = "fdcan" THEN 64 ELSE 8

IsValidId(ext, id) == id \subseteq (IF ext THEN 0 .. 28 ELSE 0 .. 10)

IsFdLength(n) == n \in 0 .. 8 \cup {12, 16, 20, 24, 32, 48, 64}

BytesFromDlc(dlc) == <<0, 1, 2, 3, 4, 5, 6, 7, 8, 12, 16, 20, 24, 32, 48, 64>>[dlc + 1]

(* -1 is invalid_dlc. *)
DlcFromLength(n) ==
  IF IsFdLength(n) THEN CHOOSE dlc \in 0 .. 15 : BytesFromDlc(dlc) = n ELSE -1

(* A length rounded up to whole words. *)
Words(n) == (n + 3) \div 4

-----------------------------------------------------------------------------
(* send(): a view is [id, ext, fd, remote, brs, esi, rlen, len, tag]; rlen *)
(* is remote_length, len and tag are data.                                 *)

ValidateFrame(backend, v) ==
  FirstFailure(<<
    <<~IsValidId(v.ext, v.id), "InvalidArgument">>,
    <<~v.fd /\ (v.brs \/ v.esi), "InvalidArgument">>,
    <<~v.fd /\ v.remote /\ (v.len # 0 \/ v.rlen > 8), "InvalidArgument">>,
    <<~v.fd /\ ~v.remote /\ (v.len > 8 \/ v.rlen # 0), "InvalidArgument">>,
    <<v.fd /\ (v.remote \/ v.rlen # 0 \/ ~IsFdLength(v.len)), "InvalidArgument">>,
    <<v.fd /\ backend = "bxcan", "Unsupported">> >>)

(* FDCAN: tx is [backend, format, elements, words], from the handle's Init. *)
TxFifoElements(tx) == tx.elements

TxElementCapacityWords(tx) == IF tx.words > 2 THEN tx.words - 2 ELSE 0

Payload(v) == IF v.remote THEN v.rlen ELSE v.len

ValidateOnFdcan(tx, v) ==
  FirstFailure(<<
    <<v.fd /\ tx.format = "classic", "Unsupported">>,
    <<v.fd /\ v.remote, "Unsupported">>,
    <<v.fd /\ v.brs /\ tx.format # "brs", "Unsupported">>,
    <<~v.fd /\ (v.brs \/ Payload(v) > 8), "InvalidConfiguration">>,
    <<v.remote /\ Payload(v) > 8, "InvalidConfiguration">>,
    <<Payload(v) > 64, "Unsupported">>,
    <<TxFifoElements(tx) = 0, "Unsupported">>,
    <<Words(Payload(v)) > TxElementCapacityWords(tx), "Unsupported">> >>)

ValidateOnBxcan(tx, v) ==
  FirstFailure(<<
    <<v.fd \/ v.brs \/ v.esi, "Unsupported">>,
    <<~IsValidId(v.ext, v.id), "InvalidArgument">>,
    <<v.remote /\ (v.rlen > 8 \/ v.len # 0), "InvalidArgument">>,
    <<~v.remote /\ v.len > 8, "InvalidArgument">> >>)

ValidateHardwareFrame(tx, v) ==
  IF tx.backend = "fdcan" THEN ValidateOnFdcan(tx, v) ELSE ValidateOnBxcan(tx, v)

SendResult(status) ==
  CASE status = "Ok" -> "Submitted"
    [] status \in {"Busy", "Unsupported", "BusOff"} -> status
    [] status \in {"InvalidArgument", "InvalidFrame", "OutOfRange"} -> "InvalidFrame"
    [] status = "InvalidState" -> "NotStarted"
    [] OTHER -> "HardwareError"

-----------------------------------------------------------------------------
(* The bytes behind the pointer the HAL is given that have a value. *)

(* The fault TailLeft: a frame is copied into the queue without its tail. *)
TailLeft(backend, v) == v.len

(* StoredFrame: the payload and the zeros assign() writes after it. *)
StoredBytes(backend, v) ==
  LET readable == IF backend = "bxcan" \/ v.remote THEN 8 ELSE 4 * Words(v.len)
  IN  Max({readable, v.len})

(* stored: the frame comes from the queue (padded_storage). *)
FdcanSource(v, stored) ==
  IF stored /\ ~v.remote /\ v.len # 0 THEN StoredBytes("fdcan", v)
  ELSE IF ~v.remote /\ v.len # 0 /\ v.len % 4 = 0 THEN v.len
  ELSE 4 * Words(Payload(v))                  \* staging[]

BxcanSource(v, stored) ==
  IF ~v.remote /\ stored THEN StoredBytes("bxcan", v)
  ELSE IF ~v.remote /\ v.len = 8 THEN v.len
  ELSE 8                                      \* staging[]

Source(tx, v, stored) ==
  IF tx.backend = "fdcan" THEN FdcanSource(v, stored) ELSE BxcanSource(v, stored)

(* How many of them HAL_FDCAN_AddMessageToTxFifoQ and HAL_CAN_AddTxMessage *)
(* read: whole words, of a remote frame too; always eight.                 *)
HalReads(tx, v) == IF tx.backend = "fdcan" THEN 4 * Words(Payload(v)) ELSE 8

-----------------------------------------------------------------------------
(* The bus. *)

(* What the peripheral makes of the header write() fills in: without       *)
(* FrameFormat FD it sends a classic frame of at most 8 bytes, without BRS *)
(* it does not switch.                                                     *)
OnTheWire(tx, v) ==
  LET fd == v.fd /\ tx.backend = "fdcan" /\ tx.format # "classic" IN
  [id |-> v.id, ext |-> v.ext, fd |-> fd, remote |-> v.remote,
   brs |-> fd /\ v.brs /\ tx.format = "brs", esi |-> fd /\ v.esi,
   dlc |-> DlcFromLength(Payload(v)), tag |-> IF v.remote \/ v.len = 0 THEN 0 ELSE v.tag]

(* ISO 11898: what a frame on the wire says. A classic DLC above 8 means 8. *)
Meaning(w) ==
  LET n == IF w.fd THEN BytesFromDlc(w.dlc) ELSE Min({w.dlc, 8}) IN
  [id |-> w.id, ext |-> w.ext, fd |-> w.fd, remote |-> w.remote,
   brs |-> w.fd /\ w.brs, esi |-> w.fd /\ w.esi,
   rlen |-> IF w.remote THEN n ELSE 0, len |-> IF w.remote THEN 0 ELSE n,
   tag |-> IF w.remote \/ n = 0 THEN 0 ELSE w.tag]

-----------------------------------------------------------------------------
(* read(): what is made of the element the HAL copied out. *)

(* The bytes HAL_FDCAN_GetRxMessage copies, of a classic frame too; *)
(* HAL_CAN_GetRxMessage always copies eight.                        *)
HalWrites(backend, w) == IF backend = "fdcan" THEN BytesFromDlc(w.dlc) ELSE 8

(* The fault RawLength: a classic DLC of 9 to 15 is given its FD length. *)
RawLength(w) ==
  [[Meaning(w) EXCEPT !.len = IF w.remote THEN 0 ELSE BytesFromDlc(w.dlc)]
     EXCEPT !.rlen = IF w.remote THEN BytesFromDlc(w.dlc) ELSE 0]

FdcanView(w) ==
  LET raw    == BytesFromDlc(w.dlc)
      length == IF ~w.fd /\ raw > 8 THEN 8 ELSE raw
  IN  [id |-> w.id, ext |-> w.ext, fd |-> w.fd, remote |-> w.remote,
       brs |-> w.fd /\ w.brs, esi |-> w.fd /\ w.esi,
       rlen |-> IF w.remote THEN length ELSE 0, len |-> IF w.remote THEN 0 ELSE length,
       tag |-> IF w.remote \/ length = 0 THEN 0 ELSE w.tag]

BxcanView(w) ==
  LET length == IF w.dlc > 8 THEN 8 ELSE w.dlc
  IN  [id |-> w.id, ext |-> w.ext, fd |-> FALSE, remote |-> w.remote,
       brs |-> FALSE, esi |-> FALSE,
       rlen |-> IF w.remote THEN length ELSE 0, len |-> IF w.remote THEN 0 ELSE length,
       tag |-> IF w.remote \/ length = 0 THEN 0 ELSE w.tag]

View(backend, w) == IF backend = "fdcan" THEN FdcanView(w) ELSE BxcanView(w)

(* InvalidFrame: CAN FD has no remote frames. *)
Undeliverable(backend, w) == backend = "fdcan" /\ w.fd /\ w.remote
=============================================================================
