-------------------------------- MODULE CanLink --------------------------------
(***************************************************************************)
(* bsp/can_driver2, two nodes and the bus between them: one node's send(), *)
(* foreign frames, and the other node's filters, receive storages, receive *)
(* interrupts and on_receive().  A node is built with one of the backends. *)
(*                                                                         *)
(* The receive interrupt drains a storage with one read() after another;   *)
(* frames arrive between any two of them, and between the three accesses   *)
(* to an Rx buffer's new-data bit that one read() is made of.  FDCAN's     *)
(* flag is cleared before the drain begins and says only that something    *)
(* arrived since; bxCAN's interrupt is up as long as its FIFO holds        *)
(* anything.  The HAL's copy of a frame is one step: a frame that arrives  *)
(* in the middle of it is here one that arrives before or after it.        *)
(***************************************************************************)
EXTENDS CanFilters

CONSTANT Plans
  \* scene -> what happens; a scene has [tx, hw], the two nodes as in CanFrames
  \* and CanFilters; a plan has the filters offered to configure_filter() and how many calls
  \* of it; the views given to send(), the foreign frames, how many in all

(* What scenes are made of. A length is a span's, remote_length, or one    *)
(* that a DLC can say; a controller has no more Rx buffers than have names *)
(* here (bound).                                                           *)
Transmitters ==
  [backend : {"fdcan", "bxcan"}, format : {"classic", "fd", "brs"}, elements : Nat, words : Nat]
Receivers ==
  [backend : {"fdcan", "bxcan"}, fixed : BOOLEAN, standard : Nat, extended : Nat, fifo0 : Nat,
   fifo1 : Nat, buffers : 0 .. 2, words : Nat, banks : Nat]
FrameViews ==
  [id : SUBSET (0 .. 31), ext : BOOLEAN, fd : BOOLEAN, remote : BOOLEAN, brs : BOOLEAN,
   esi : BOOLEAN, rlen : Nat, len : Nat, tag : Nat]
WireFrames ==
  [id : SUBSET (0 .. 31), ext : BOOLEAN, fd : BOOLEAN, remote : BOOLEAN, brs : BOOLEAN,
   esi : BOOLEAN, dlc : 0 .. 15, tag : Nat]
FilterActions ==
  {"Disable", "Fifo0", "Fifo1", "Reject", "PriorityFifo0", "PriorityFifo1", "RxBuffer"}
FilterModes == {"Mask", "List", "Range", "RangeWithoutExtendedMask"}
FilterElements ==
  [type : {"MASK", "DUAL", "RANGE", "RANGE_NO_EIDM"}, action : FilterActions,
   id1 : SUBSET (0 .. 31), id2 : SUBSET (0 .. 31), buffer : Nat]

(* On a bus with a bxCAN node nobody sends CAN FD frames; no bytes have no *)
(* tag; a frame on the bus has an identifier of its kind.                  *)
ASSUME LinkAssumption ==
  \A s \in DOMAIN Plans :
    /\ s.tx \in Transmitters /\ s.hw \in Receivers
    /\ Plans[s].views \subseteq FrameViews /\ Plans[s].foreign \subseteq WireFrames
    /\ \A v \in Plans[s].views : v.len = 0 => v.tag = 0
    /\ \A w \in Plans[s].foreign : IsValidId(w.ext, w.id)
    /\ s.hw.backend = "bxcan" => \A x \in Plans[s].views \cup Plans[s].foreign : ~x.fd
    /\ \A f \in Plans[s].filters :
         /\ f.kind = "id" => /\ f.ext \in BOOLEAN /\ f.action \in FilterActions
                            /\ f.mode \in FilterModes /\ {f.index, f.buffer} \subseteq Nat
                            /\ {f.id1, f.id2} \subseteq SUBSET (0 .. 31)
         /\ f.kind = "bank" => f.index \in Nat
         /\ f.kind = "global" => {f.rejectStandardRemote, f.rejectExtendedRemote} \subseteq BOOLEAN

VARIABLES
  scene,    \* which of Plans, for good
  stage,    \* "ready"; "running" once start_hardware() is through; "started"
  regs,     \* the receiver's filter registers
  asked,    \* ghost: the filters in force, as they were asked for
  calls,    \* calls of configure_filter()
  frames,   \* frames sent and refused so far
  store,    \* Location -> the frames in it, with what their sender meant
  ndat,     \* the Rx buffers with their new-data bit set
  raised,   \* FDCAN: the interrupt flags that are up
  todo,     \* Line -> the storages its running interrupt still has to drain
  overrun,  \* ghost: the Rx buffers whose frame lost its new-data bit unread
  fetched,  \* the Rx buffer a read() has found new data in, "none"
  copied,   \* the Rx buffer the HAL has copied and not taken the bit down of, "none"
  out,      \* ghost: what the callbacks were given, with what was meant
  landed,   \* ghost: the last frame, and where the hardware put it
  hal       \* ghost: the last HAL call's <<bytes touched, bytes there>>

receiver == <<stage, regs, asked, calls>>
storage  == <<store, ndat, raised, overrun>>
reading  == <<fetched, copied>>
vars == <<scene, receiver, frames, storage, todo, reading, out, landed, hal>>

Lines == {"fifo0", "fifo1", "buffers"}
Buffers == {"buf0", "buf1"}
LineOf(loc) == IF loc \in Buffers THEN "buffers" ELSE loc

plan == Plans[scene]
hw == scene.hw
tx == scene.tx
Fdcan == hw.backend = "fdcan"

Capacity(loc) == IF loc \in Buffers THEN 1 ELSE IF Fdcan THEN RxFifoElements(hw, loc) ELSE 3

Init ==
  /\ scene \in DOMAIN Plans
  /\ stage = "ready" /\ regs = ResetRegisters(hw) /\ asked = {} /\ calls = 0
  /\ frames = 0
  /\ store = [loc \in Locations |-> <<>>] /\ ndat = {} /\ raised = {} /\ overrun = {}
  /\ todo = [line \in Lines |-> <<>>] /\ fetched = "none" /\ copied = "none"
  /\ out = {} /\ landed = [where |-> "nowhere"] /\ hal = {}

-----------------------------------------------------------------------------
(* The receiver before start(), and start(). *)

(* A list element, a bank, the global filter, the extended mask. *)
Slot(f) ==
  IF f.kind \notin {"id", "bank"} THEN <<f.kind, 0>>
  ELSE IF ~Fdcan \/ f.kind = "bank" THEN <<"bank", f.index>>
  ELSE <<IF f.ext THEN "extended" ELSE "standard", f.index>>

ConfigureFilter ==
  /\ stage = "ready" /\ calls < plan.calls
  /\ calls' = calls + 1
  /\ \E f \in plan.filters :
       IF FilterStatus(hw, f) = "Ok"
       THEN /\ regs' = Program(hw, regs, f)
            /\ asked' = {g \in asked : Slot(g) # Slot(f)} \cup {f}
       ELSE UNCHANGED <<regs, asked>>
  /\ UNCHANGED <<scene, stage, frames, storage, todo, reading, out, landed, hal>>

StartHardware ==
  /\ stage = "ready"
  /\ Fdcan => ValidateRxCapacity(hw) = "Ok"
  /\ stage' = "running"
  /\ UNCHANGED <<scene, regs, asked, calls, frames, storage, todo, reading, out, landed, hal>>

(* started_ and the notifications, interrupts masked. *)
EnableNotifications ==
  /\ stage = "running"
  /\ stage' = "started"
  /\ UNCHANGED <<scene, regs, asked, calls, frames, storage, todo, reading, out, landed, hal>>

-----------------------------------------------------------------------------
(* The bus. *)

Full == ndat

Keep(loc, kept, flags) ==
  /\ store' = [store EXCEPT ![loc] = kept]
  /\ raised' = IF Fdcan THEN raised \cup flags ELSE raised
  /\ ndat' = IF loc \in Buffers THEN ndat \cup {loc} ELSE ndat
  /\ overrun' = overrun \ {loc}

(* A frame w reaches the receiver. A full FDCAN FIFO (blocking mode) drops *)
(* it, a full bxCAN FIFO drops it or writes over the newest.               *)
Lands(w, meant) ==
  LET loc == Route(hw, regs, w, Full)
      x   == [wire |-> w, meant |-> meant]
  IN
  IF stage = "ready" THEN UNCHANGED <<storage, landed>>
  ELSE
    /\ landed' = [where |-> loc, wire |-> w, full |-> Full]
    /\ IF loc = "none" THEN UNCHANGED storage
       ELSE IF loc \in Buffers THEN Keep(loc, <<x>>, {"buffers"})
       ELSE IF Len(store[loc]) < Capacity(loc) THEN Keep(loc, Append(store[loc], x), {loc})
       ELSE \/ UNCHANGED storage
            \/ ~Fdcan /\ Keep(loc, [store[loc] EXCEPT ![Capacity(loc)] = x], {loc})

(* A node this driver does not run on sends. *)
ForeignFrame ==
  /\ frames < plan.frames /\ frames' = frames + 1
  /\ \E w \in plan.foreign : Lands(w, Meaning(w))
  /\ UNCHANGED <<scene, receiver, todo, reading, out, hal>>

(* send(), the transmitter's hardware being free; stored: the frame was in *)
(* the software queue and flush_tx() writes it.                            *)
SendStatus(v) ==
  FirstFailure(<<
    <<ValidateFrame(tx.backend, v) # "Ok", ValidateFrame(tx.backend, v)>>,
    <<ValidateHardwareFrame(tx, v) # "Ok", ValidateHardwareFrame(tx, v)>> >>)

Send ==
  /\ frames < plan.frames /\ frames' = frames + 1
  /\ \E v \in plan.views, stored \in BOOLEAN :
       IF SendResult(SendStatus(v)) = "Submitted"
       THEN /\ hal' = {<<HalReads(tx, v), Source(tx, v, stored)>>}
                        \cup (IF tx.backend = "fdcan"
                              THEN {<<HalReads(tx, v), 4 * TxElementCapacityWords(tx)>>}
                              ELSE {})
            /\ Lands(OnTheWire(tx, v), v)
       ELSE UNCHANGED <<storage, landed, hal>>
  /\ UNCHANGED <<scene, receiver, todo, reading, out>>

-----------------------------------------------------------------------------
(* The receive interrupts. FDCAN's three share one vector. *)

(* The HAL takes the flag down, then calls the bridge. *)
Interrupt(line) ==
  /\ stage = "started" /\ todo[line] = <<>>
  /\ IF Fdcan THEN line \in raised /\ \A other \in Lines : todo[other] = <<>>
              ELSE line # "buffers" /\ store[line] # <<>>
  /\ raised' = raised \ {line}
  /\ todo' = [todo EXCEPT ![line] =
                IF line = "buffers" THEN SubSeq(BufferNames, 1, RxBufferCount(hw)) ELSE <<line>>]
  /\ UNCHANGED <<scene, receiver, frames, store, ndat, overrun, reading, out, landed, hal>>

(* read() and the callbacks: the frame x leaves its storage. *)
Consume(x) ==
  /\ hal' = {<<HalWrites(hw.backend, x.wire), MaxDataLength(hw.backend)>>}
              \cup (IF Fdcan THEN {<<HalWrites(hw.backend, x.wire), RxPayloadCapacity(hw)>>}
                            ELSE {})
  /\ out' = IF Undeliverable(hw.backend, x.wire) THEN out
            ELSE out \cup {[meant |-> x.meant, view |-> View(hw.backend, x.wire)]}

(* on_receive() goes on until the storage is empty, and past a frame that  *)
(* it cannot deliver.                                                      *)
ReadFifo(line) ==
  /\ todo[line] # <<>> /\ Head(todo[line]) \notin Buffers
  /\ LET loc == Head(todo[line]) IN
     /\ store[loc] # <<>>
     /\ Consume(Head(store[loc]))
     /\ store' = [store EXCEPT ![loc] = Tail(@)]
  /\ UNCHANGED <<scene, receiver, frames, ndat, raised, overrun, todo, reading, landed>>

(* The fault QueriedTwice: the answer to a second question counts, which   *)
(* the first has made Empty.                                               *)
QueriedTwice(line) ==
  /\ todo[line] # <<>> /\ reading = <<"none", "none">>
  /\ Head(todo[line]) \in ndat
  /\ ndat' = ndat \ {Head(todo[line])}
  /\ todo' = [todo EXCEPT ![line] = Tail(@)]
  /\ UNCHANGED <<scene, receiver, frames, store, raised, overrun, reading, out, landed, hal>>

(* Asking an Rx buffer for new data takes its bit down, which lets the     *)
(* next frame in: it may replace the one that is about to be read.         *)
QueryBuffer(line) ==
  /\ todo[line] # <<>> /\ reading = <<"none", "none">>
  /\ Head(todo[line]) \in ndat
  /\ fetched' = Head(todo[line])
  /\ ndat' = ndat \ {Head(todo[line])}
  /\ UNCHANGED <<scene, receiver, frames, store, raised, overrun, todo, copied, out, landed, hal>>

(* The HAL copies what is there... *)
CopyBuffer(line) ==
  /\ todo[line] # <<>> /\ fetched = Head(todo[line])
  /\ Consume(Head(store[fetched]))
  /\ store' = [store EXCEPT ![fetched] = <<>>]
  /\ copied' = fetched /\ fetched' = "none"
  /\ UNCHANGED <<scene, receiver, frames, ndat, raised, overrun, todo, landed>>

(* ...and takes the bit down once more, that of a frame which came in      *)
(* after the copy too: nobody will ask for that one.                       *)
ClearNewData(line) ==
  /\ todo[line] # <<>> /\ copied = Head(todo[line])
  /\ ndat' = ndat \ {copied}
  /\ overrun' = IF store[copied] # <<>> THEN overrun \cup {copied} ELSE overrun
  /\ copied' = "none"
  /\ UNCHANGED <<scene, receiver, frames, store, raised, todo, fetched, out, landed, hal>>

(* read() answers Empty: the next storage of the line, or the end. *)
StorageEmpty(line) ==
  /\ todo[line] # <<>> /\ reading = <<"none", "none">>
  /\ IF Head(todo[line]) \in Buffers THEN Head(todo[line]) \notin ndat
                                    ELSE store[Head(todo[line])] = <<>>
  /\ todo' = [todo EXCEPT ![line] = Tail(@)]
  /\ UNCHANGED <<scene, receiver, frames, storage, reading, out, landed, hal>>

OnReceive(line) ==
  \/ ReadFifo(line)
  \/ QueryBuffer(line) \/ CopyBuffer(line) \/ ClearNewData(line)
  \/ StorageEmpty(line)

-----------------------------------------------------------------------------
Next ==
  \/ ConfigureFilter \/ StartHardware \/ EnableNotifications
  \/ ForeignFrame \/ Send
  \/ \E line \in Lines : Interrupt(line) \/ OnReceive(line)

Spec == Init /\ [][Next]_vars

-----------------------------------------------------------------------------
(* What a callback is given is what the sender gave to send(), every field *)
(* of it, or what the frame of a foreign node says on the wire: through    *)
(* both backends, the queue's copy, and the classic DLCs above 8.          *)
Faithful == \A x \in out : x.view = x.meant

(* No HAL call reads bytes nobody wrote, writes past a Tx element, reads   *)
(* past an Rx element or writes past the receive buffer: the HAL itself    *)
(* checks none of it.                                                      *)
HalStaysInside == \A touch \in hal : touch[1] <= touch[2]

(* A frame goes where the comments of IdFilter, GlobalFilter and           *)
(* ExtendedIdMask say, whichever backend has to express it: a filter takes *)
(* the frames it describes and no others, data and remote alike.           *)
RoutedAsDocumented ==
  landed.where # "nowhere" =>
    LET w       == landed.wire
        globals == {f \in asked : f.kind = "global"}
        eidm    == IF \E f \in asked : f.kind = "mask"
                   THEN (CHOOSE f \in asked : f.kind = "mask").mask ELSE LimitOf(TRUE)
        barred  == w.remote /\ \E f \in globals : IF w.ext THEN f.rejectExtendedRemote
                                                           ELSE f.rejectStandardRemote
        locked(f) == f.action = "RxBuffer" /\ BufferNames[f.buffer + 1] \in landed.full
        takers  == {f \in asked : f.kind = "id" /\ f.action # "Disable" /\ ~locked(f)
                                    /\ Takes(f, w, eidm)}
        raw     == {f \in asked : f.kind = "bank" /\ BankMatches(RawBank(f), w)}
        target(f) == IF f.action = "RxBuffer" THEN BufferNames[f.buffer + 1]
                                              ELSE TargetOf(f.action)
        default == IF ~Fdcan THEN "none"
                   ELSE IF globals = {} THEN "fifo0"
                   ELSE LET f == CHOOSE f \in globals : TRUE
                        IN  TargetOf(IF w.ext THEN f.extended ELSE f.standard)
    IN  landed.where \in IF barred THEN {"none"}
                         ELSE IF takers \cup raw = {} THEN {default}
                         ELSE {target(f) : f \in takers} \cup {f.fifo : f \in raw}

Waits(loc) == store[loc] # <<>> /\ loc \notin overrun

(* A frame never lies in a storage with no interrupt to come for it, but   *)
(* for one way: it came into an Rx buffer between the HAL's copy of the    *)
(* frame before it and the HAL's second clearing of the new-data bit.      *)
NothingStranded ==
  \A loc \in Locations :
    Waits(loc) => \/ LineOf(loc) \in raised
                  \/ ~Fdcan
                  \/ \E i \in DOMAIN todo[LineOf(loc)] : todo[LineOf(loc)][i] = loc
=============================================================================
