------------------------------ MODULE CanFilters ------------------------------
(***************************************************************************)
(* bsp/can_driver2, receive filters: what configure_filter() writes into   *)
(* the hardware's registers on the two backends, what the hardware makes   *)
(* of them, and what can_driver_types.hpp promises about a filter.         *)
(*                                                                         *)
(* Words, keys and masks are sets of bit numbers, at their real places:    *)
(* a shift moves the numbers, a bitwise or is a union, two keys agree      *)
(* under a mask when no bit of it is in one of them only.                  *)
(*                                                                         *)
(* hw describes a controller: its backend, and how many elements of each   *)
(* kind its message RAM, or how many banks its filter domain, has; fixed   *)
(* is CAN_DRIVER_FDCAN_FIXED_RAM, which also means no Rx buffers.          *)
(***************************************************************************)
EXTENDS CanFrames

Locations == {"fifo0", "fifo1", "buf0", "buf1"}
BufferNames == <<"buf0", "buf1">>

Bits(n) == 0 .. n - 1
Shift(bits, k) == {b + k : b \in bits}
Differ(a, b) == (a \ b) \cup (b \ a)
AtMost(a, b) == a = b \/ (Differ(a, b) # {} /\ Max(Differ(a, b)) \in b)
Agree(a, b, mask) == Differ(a, b) \cap mask = {}

LimitOf(ext) == Bits(IF ext THEN 29 ELSE 11)

-----------------------------------------------------------------------------
(* FDCAN: apply_id_filter(), apply_global_filter(), the extended mask. *)

FilterCapacity(hw, ext) ==
  LET allocated == IF ext THEN hw.extended ELSE hw.standard
      limit     == IF hw.fixed THEN (IF ext THEN 8 ELSE 28) ELSE (IF ext THEN 64 ELSE 128)
  IN  Min({allocated, limit})

RxFifoElements(hw, fifo) ==
  IF hw.fixed THEN 3 ELSE Min({IF fifo = "fifo0" THEN hw.fifo0 ELSE hw.fifo1, 64})

(* All storages of a model's controller have elements of hw.words words. *)
ElementPayloadCapacity(words) == IF words >= 2 THEN words * 4 - 8 ELSE 0

RxPayloadCapacity(hw) == ElementPayloadCapacity(IF hw.fixed THEN 18 ELSE hw.words)

RxBufferCount(hw) == IF hw.fixed THEN 0 ELSE Min({hw.buffers, 64})

(* Every storage that exists holds the longest frame. *)
ValidateRxCapacity(hw) ==
  LET exists == \/ RxFifoElements(hw, "fifo0") > 0 \/ RxFifoElements(hw, "fifo1") > 0
                \/ RxBufferCount(hw) > 0
  IN  IF exists /\ RxPayloadCapacity(hw) < 64 THEN "InvalidConfiguration" ELSE "Ok"

TargetOf(action) ==
  CASE action \in {"Fifo0", "PriorityFifo0"} -> "fifo0"
    [] action \in {"Fifo1", "PriorityFifo1"} -> "fifo1"
    [] OTHER -> "none"

Ranges == {"Range", "RangeWithoutExtendedMask"}

IdFilterOnFdcan(hw, f) ==
  FirstFailure(<<
    <<FilterCapacity(hw, f.ext) = 0, "NoCapacity">>,
    <<f.index >= FilterCapacity(hw, f.ext), "OutOfRange">>,
    <<~(f.id1 \subseteq LimitOf(f.ext)), "InvalidArgument">>,
    <<f.mode = "RangeWithoutExtendedMask" /\ ~f.ext, "Unsupported">>,
    <<f.action = "RxBuffer" /\ hw.fixed, "Unsupported">>,
    <<~(f.id2 \subseteq LimitOf(f.ext)), "InvalidArgument">>,
    <<f.mode \in Ranges /\ ~AtMost(f.id1, f.id2), "InvalidArgument">>,
    <<f.action = "RxBuffer" /\ (f.mode # "Mask" \/ f.id2 # {}), "InvalidArgument">>,
    <<f.action = "RxBuffer" /\ f.calibration /\ f.ext, "InvalidArgument">>,
    <<f.action = "RxBuffer" /\ RxBufferCount(hw) = 0, "NoCapacity">>,
    <<f.action = "RxBuffer" /\ f.buffer >= RxBufferCount(hw), "OutOfRange">>,
    <<f.action # "RxBuffer" /\ f.buffer # 0, "InvalidArgument">>,
    <<f.action # "RxBuffer" /\ f.calibration, "Unsupported">>,
    <<TargetOf(f.action) # "none" /\ RxFifoElements(hw, TargetOf(f.action)) = 0,
      "NoCapacity">> >>)

NonMatching(hw, action) ==
  IF action # "Reject" /\ RxFifoElements(hw, TargetOf(action)) = 0 THEN "NoCapacity" ELSE "Ok"

GlobalFilterOnFdcan(hw, f) ==
  FirstFailure(<<
    <<NonMatching(hw, f.standard) # "Ok", NonMatching(hw, f.standard)>>,
    <<NonMatching(hw, f.extended) # "Ok", NonMatching(hw, f.extended)>> >>)

FilterOnFdcan(hw, f) ==
  CASE f.kind = "id" -> IdFilterOnFdcan(hw, f)
    [] f.kind = "global" -> GlobalFilterOnFdcan(hw, f)
    [] f.kind = "mask" -> IF f.mask \subseteq LimitOf(TRUE) THEN "Ok" ELSE "InvalidArgument"
    [] OTHER -> "Unsupported"

(* The element written: [type, action, id1, id2, buffer]. *)
NativeElement(f) ==
  [type |-> CASE f.mode = "Mask" -> "MASK" [] f.mode = "List" -> "DUAL"
              [] f.mode = "Range" -> "RANGE" [] OTHER -> "RANGE_NO_EIDM",
   action |-> f.action, id1 |-> f.id1,
   id2 |-> IF f.action = "RxBuffer" THEN {} ELSE f.id2, buffer |-> f.buffer]

ProgramFdcan(regs, f) ==
  CASE f.kind = "id" -> [regs EXCEPT !.lists[f.ext][f.index] = NativeElement(f)]
    [] f.kind = "global" ->
         [regs EXCEPT !.other = [x \in BOOLEAN |-> IF x THEN f.extended ELSE f.standard],
                      !.noRemote = [x \in BOOLEAN |-> IF x THEN f.rejectExtendedRemote
                                                           ELSE f.rejectStandardRemote]]
    [] f.kind = "mask" -> [regs EXCEPT !.eidm = f.mask]

-----------------------------------------------------------------------------
(* bxCAN: configure_id_bank() and configure_raw_bank(). *)

IdFilterOnBxcan(hw, f) ==
  FirstFailure(<<
    <<f.index >= hw.banks, "OutOfRange">>,
    <<f.action # "RxBuffer" /\ f.buffer # 0, "InvalidArgument">>,
    <<f.calibration, "Unsupported">>,
    <<~(f.id1 \cup f.id2 \subseteq LimitOf(f.ext)), "InvalidArgument">>,
    <<f.action \notin {"Disable", "Fifo0", "Fifo1"}, "Unsupported">>,
    <<f.action # "Disable" /\ f.mode \in Ranges, "Unsupported">>,
    <<f.action # "Disable" /\ f.mode = "List" /\ f.ext /\ f.id1 # f.id2, "Unsupported">> >>)

FilterOnBxcan(hw, f) ==
  CASE f.kind = "id" -> IdFilterOnBxcan(hw, f)
    [] f.kind = "bank" -> IF f.index >= hw.banks THEN "OutOfRange" ELSE "Ok"
    [] OTHER -> "Unsupported"

Low(word) == word \cap Bits(16)
High(word) == {b - 16 : b \in word \ Bits(16)}

Ide32 == {2}
Ide16 == {3}

(* make_bank(): off, 32-bit mask, FIFO 0, all words zero. *)
EmptyBank ==
  [on |-> FALSE, scale |-> 32, list |-> FALSE, fifo |-> "fifo0",
   idLow |-> {}, idHigh |-> {}, maskLow |-> {}, maskHigh |-> {}]

Whole(id, mask) ==
  [EmptyBank EXCEPT !.idLow = Low(id), !.idHigh = High(id),
                    !.maskLow = Low(mask), !.maskHigh = High(mask)]

(* The fault NoIde: the mask of a standard filter leaves the IDE bit out. *)
NoIde(f) ==
  [Whole(Shift(f.id1, IF f.ext THEN 3 ELSE 21), Shift(f.id2, IF f.ext THEN 3 ELSE 21))
     EXCEPT !.on = TRUE, !.fifo = TargetOf(f.action)]

(* The bank of a mask; of two standard identifiers, 16 bits each; of one extended. *)
Bank(f) ==
  LET key(id) == IF f.ext THEN Shift(id, 3) \cup Ide32 ELSE Shift(id, 21)
      full16  == Shift(Bits(11), 5) \cup Ide16
      bank    ==
        CASE f.mode = "Mask" -> Whole(key(f.id1), key(f.id2) \cup Ide32)
          [] f.mode = "List" /\ ~f.ext ->
               [EmptyBank EXCEPT !.scale = 16,
                                 !.idLow = Shift(f.id1, 5), !.idHigh = Shift(f.id2, 5),
                                 !.maskLow = full16, !.maskHigh = full16]
          [] OTHER -> Whole(key(f.id1), Shift(Bits(29), 3) \cup Ide32)
  IN  IF f.action = "Disable" THEN EmptyBank
      ELSE [bank EXCEPT !.on = TRUE, !.fifo = TargetOf(f.action)]

RawBank(f) ==
  [on |-> f.on, scale |-> f.scale, list |-> f.list, fifo |-> f.fifo, idLow |-> f.idLow,
   idHigh |-> f.idHigh, maskLow |-> f.maskLow, maskHigh |-> f.maskHigh]

ProgramBxcan(regs, f) ==
  [regs EXCEPT !.banks[f.index] = IF f.kind = "id" THEN Bank(f) ELSE RawBank(f)]

-----------------------------------------------------------------------------
(* configure_filter_hardware(), past the checks of the handle's state. *)

FilterStatus(hw, f) == IF hw.backend = "fdcan" THEN FilterOnFdcan(hw, f) ELSE FilterOnBxcan(hw, f)

Program(hw, regs, f) ==
  IF hw.backend = "fdcan" THEN ProgramFdcan(regs, f) ELSE ProgramBxcan(regs, f)

(* The registers at reset: FDCAN takes what no filter names, bxCAN nothing. *)
ResetRegisters(hw) ==
  LET off == [type |-> "MASK", action |-> "Disable", id1 |-> {}, id2 |-> {}, buffer |-> 0] IN
  [lists |-> [x \in BOOLEAN |-> [i \in 0 .. FilterCapacity(hw, x) - 1 |-> off]],
   other |-> [x \in BOOLEAN |-> "Fifo0"], noRemote |-> [x \in BOOLEAN |-> FALSE],
   eidm |-> LimitOf(TRUE), banks |-> [i \in 0 .. hw.banks - 1 |-> EmptyBank]]

-----------------------------------------------------------------------------
(* The hardware. *)

ElementMatches(e, id, masked) ==
  IF e.action = "RxBuffer" THEN masked = e.id1
  ELSE CASE e.type = "MASK" -> Agree(masked, e.id1, e.id2)
         [] e.type = "DUAL" -> masked \in {e.id1, e.id2}
         [] e.type = "RANGE" -> AtMost(e.id1, masked) /\ AtMost(masked, e.id2)
         [] OTHER -> AtMost(e.id1, id) /\ AtMost(id, e.id2)

(* An Rx buffer whose message is not read yet is passed over. *)
FdcanRoute(regs, w, full) ==
  LET list   == regs.lists[w.ext]
      masked == IF w.ext THEN w.id \cap regs.eidm ELSE w.id
      hits   == {i \in DOMAIN list :
                   /\ list[i].action # "Disable"
                   /\ list[i].action = "RxBuffer" => BufferNames[list[i].buffer + 1] \notin full
                   /\ ElementMatches(list[i], w.id, masked)}
  IN  IF w.remote /\ regs.noRemote[w.ext] THEN "none"
      ELSE IF hits = {} THEN TargetOf(regs.other[w.ext])
      ELSE LET e == list[Min(hits)] IN
           IF e.action = "RxBuffer" THEN BufferNames[e.buffer + 1] ELSE TargetOf(e.action)

(* The words a frame is compared as. *)
Key32(w) ==
  (IF w.ext THEN Shift(w.id, 3) \cup Ide32 ELSE Shift(w.id, 21))
    \cup (IF w.remote THEN {1} ELSE {})
Key16(w) ==
  (IF w.ext
   THEN {b - 13 : b \in {c \in w.id : c >= 18}} \cup {b - 15 : b \in w.id \cap 15 .. 17} \cup Ide16
   ELSE Shift(w.id, 5))
    \cup (IF w.remote THEN {4} ELSE {})

BankMatches(b, w) ==
  LET id   == b.idLow \cup Shift(b.idHigh, 16)
      mask == b.maskLow \cup Shift(b.maskHigh, 16)
  IN  /\ b.on
      /\ IF b.scale = 32
         THEN IF b.list THEN Key32(w) \in {id, mask} ELSE Agree(Key32(w), id, mask)
         ELSE IF b.list THEN Key16(w) \in {b.idLow, b.maskLow, b.idHigh, b.maskHigh}
         ELSE \/ Agree(Key16(w), b.idLow, b.maskLow)
              \/ Agree(Key16(w), b.idHigh, b.maskHigh)

(* Of several banks: 32 bits before 16, lists before masks, low before high. *)
BxcanRoute(regs, w) ==
  LET hits    == {i \in DOMAIN regs.banks : BankMatches(regs.banks[i], w)}
      rank(i) == (IF regs.banks[i].scale = 32 THEN 0 ELSE 200)
                   + (IF regs.banks[i].list THEN 0 ELSE 100) + i
  IN  IF hits = {} THEN "none"
      ELSE regs.banks[CHOOSE i \in hits : \A j \in hits : rank(i) <= rank(j)].fifo

Route(hw, regs, w, full) ==
  IF hw.backend = "fdcan" THEN FdcanRoute(regs, w, full) ELSE BxcanRoute(regs, w)

-----------------------------------------------------------------------------
(* The comment of IdFilter: which frames a filter takes. *)

Takes(f, w, eidm) ==
  LET id == IF w.ext /\ f.mode # "RangeWithoutExtendedMask" THEN w.id \cap eidm ELSE w.id IN
  /\ f.ext = w.ext
  /\ IF f.action = "RxBuffer" THEN id = f.id1
     ELSE CASE f.mode = "Mask" -> \A b \in f.id2 : b \in id <=> b \in f.id1
            [] f.mode = "List" -> id = f.id1 \/ id = f.id2
            [] OTHER -> AtMost(f.id1, id) /\ AtMost(id, f.id2)
=============================================================================
