------------------------------- MODULE LegacyCan -------------------------------
(***************************************************************************)
(* bsp/can_driver, the first CAN driver, which can_driver2 replaces: free  *)
(* functions, a table of handles with their callbacks, a transmit queue in *)
(* the table's entry, and the bxCAN interface on top of FDCAN hardware.    *)
(*                                                                         *)
(* Threads send with interrupts masked and interrupts are not preempted by *)
(* senders, so a call and an interrupt are one step each; a mailbox may    *)
(* empty between masking and looking, which is a step before the call.     *)
(* The HAL may refuse any frame it is handed, whatever room it has said    *)
(* there is.  Error_Handler() belongs to the board and does not come back; *)
(* the answer recorded is that of the code behind it.  Nor does the        *)
(* program come back once it used the entry of a handle that has none.     *)
(***************************************************************************)
EXTENDS CanFilters

CONSTANTS
  Handles,       \* the CAN peripherals
  CanNum,        \* CAN_NUM
  MaxCallbacks,  \* CAN_MAX_CALLBACK_NUM
  Slots,         \* mailboxes, or elements of the Tx FIFO
  QueueSize,     \* CAN_TX_QUEUE_SIZE, FDCAN_TX_QUEUE_SIZE
  Uses           \* bound: name -> [handles, callbacks, sends, wires, arrivals, banks,
                 \* configs, capacity]: which handles are used, what is registered, how
                 \* many frames are sent, which arrive and how many, which filters are
                 \* configured and how often, and how many elements each list has

ASSUME LegacyAssumption ==
  /\ CanNum \in Nat \ {0} /\ MaxCallbacks \in Nat \ {0}
  /\ Slots \in Nat \ {0} /\ QueueSize \in Nat \ {0}
  /\ \A u \in DOMAIN Uses :
       /\ Uses[u].handles \subseteq Handles
       /\ \A w \in Uses[u].wires : /\ {w.ext, w.remote, w.fd} \subseteq BOOLEAN
                                  /\ IsValidId(w.ext, w.id)
       /\ Uses[u].capacity \in [BOOLEAN -> Nat]
       /\ \A b \in Uses[u].banks :
            /\ {b.on, b.list} \subseteq BOOLEAN
            /\ {b.idLow, b.idHigh, b.maskLow, b.maskHigh} \subseteq SUBSET Bits(16)

Builds == {"bxcan", "fdcan", "fdcan without queue"}

VARIABLES
  chosen,   \* which of the uses
  build,    \* which build of the driver
  maps,     \* maps[0 .. map_size - 1]: [hcan, callbacks]
  running,  \* the handles that were started
  stopped,  \* "no", "Error_Handler" or "undefined"
  queue,    \* Handle -> the frames in its entry's buffer
  slots,    \* Handle -> the frames in its mailboxes
  irq,      \* the handles whose transmit interrupt is up
  sends,    \* calls of CAN_SendMessage(); a frame is the number of its call
  reply,    \* the answers: "sent" stands for a mailbox number or 0
  replaced, \* ghost: the frames pushed out of a full queue
  lost,     \* ghost: the frames taken from a queue that the HAL then refused
  handed,   \* ghost: Handle -> the frames handed to the hardware
  arrived,  \* frames received so far
  inbox,    \* Handle -> the frames in its receive FIFO
  last,     \* ghost: the last frame dispatched, and to whom; {} before
  element,  \* extended? -> the element of the bank's index in that list
  wanted,   \* ghost: extended? -> the last bank accepted for that list; {} before
  configs   \* calls of HAL_CAN_ConfigFilter()

sending == <<queue, slots, irq, sends, reply, replaced, lost, handed>>
receiving == <<arrived, inbox, last>>
filtering == <<element, wanted, configs>>
legacyVars == <<chosen, build, maps, running, stopped, sending, receiving, filtering>>

OnFdcan == build # "bxcan"
Queued == build # "fdcan without queue"

use == Uses[chosen]

NoElement ==
  [ext |-> FALSE, type |-> "MASK", action |-> "Disable", id1 |-> {}, id2 |-> {}, buffer |-> 0]

LegacyInit ==
  /\ chosen \in DOMAIN Uses /\ build \in Builds
  /\ maps = <<>> /\ running = {} /\ stopped = "no"
  /\ queue = [h \in Handles |-> <<>>] /\ slots = [h \in Handles |-> {}] /\ irq = {}
  /\ sends = 0 /\ reply = <<>> /\ replaced = {} /\ lost = {}
  /\ handed = [h \in Handles |-> <<>>]
  /\ arrived = 0 /\ inbox = [h \in Handles |-> <<>>] /\ last = {}
  /\ element = [ext \in BOOLEAN |-> NoElement] /\ wanted = [ext \in BOOLEAN |-> {}]
  /\ configs = 0

Stop(how) == stopped' = how

-----------------------------------------------------------------------------
(* The table. *)

Registered(h) == \E i \in DOMAIN maps : maps[i].hcan = h
MapOf(h) == CHOOSE i \in DOMAIN maps : maps[i].hcan = h

(* A callback is [name, style]; those of bxCAN's style see classic frames only. *)

(* The fault NoSearch: every call makes a new entry. *)
NoSearch(h, cb) ==
  /\ stopped = "no" /\ Len(maps) < CanNum
  /\ maps' = Append(maps, [hcan |-> h, callbacks |-> <<cb>>])
  /\ UNCHANGED <<chosen, build, running, stopped, sending, receiving, filtering>>

RegisterCallback(h, cb) ==
  /\ stopped = "no" /\ running = {}
  /\ cb.style = "fdcan" => OnFdcan
  /\ IF ~Registered(h) /\ Len(maps) >= CanNum
     THEN Stop("Error_Handler") /\ UNCHANGED maps
     ELSE IF Registered(h) /\ Len(maps[MapOf(h)].callbacks) >= MaxCallbacks
     THEN Stop("Error_Handler") /\ UNCHANGED maps
     ELSE /\ maps' = IF Registered(h)
                     THEN [maps EXCEPT ![MapOf(h)].callbacks = Append(@, cb)]
                     ELSE Append(maps, [hcan |-> h, callbacks |-> <<cb>>])
          /\ UNCHANGED stopped
  /\ UNCHANGED <<chosen, build, running, sending, receiving, filtering>>

(* CAN_InitMainCallback() and CAN_Start(). *)
Start(h) ==
  /\ stopped = "no" /\ h \notin running
  /\ running' = running \cup {h}
  /\ UNCHANGED <<chosen, build, maps, stopped, sending, receiving, filtering>>

-----------------------------------------------------------------------------
(* Sending. *)

Free(h) == Slots - Cardinality(slots[h])

Push(s, f) == Append(IF Len(s) = QueueSize THEN Tail(s) ELSE s, f)
Dropped(s) == IF Len(s) = QueueSize THEN {Head(s)} ELSE {}

(* As many of the frames s as there is room for, oldest first, and the rest. *)
Moved(h, s) == SubSeq(s, 1, Min({Len(s), Free(h)}))
(* The fault PoppedFirst: a frame is taken from the queue before the room is looked for. *)
PoppedFirst(h, s) == SubSeq(s, Min({Len(s), Free(h)}) + 2, Len(s))
Rest(h, s) == SubSeq(s, Min({Len(s), Free(h)}) + 1, Len(s))

HandOver(h, s) ==
  /\ handed' = [handed EXCEPT ![h] = @ \o s]
  /\ slots' = [slots EXCEPT ![h] = @ \cup {s[i] : i \in DOMAIN s}]

(* FDCAN_TxSendMsgFromSoftQueue(), CAN_TxMailboxCpltCallback(): the queue, *)
(* s, is moved as far as there is room.  A frame leaves it before the HAL  *)
(* is asked: one that the HAL refuses is lost.                             *)
Replay(h, s) ==
  \/ /\ HandOver(h, Moved(h, s))
     /\ queue' = [queue EXCEPT ![h] = Rest(h, s)]
     /\ UNCHANGED <<stopped, lost>>
  \/ \E k \in DOMAIN Moved(h, s) :
       /\ HandOver(h, SubSeq(s, 1, k - 1))
       /\ queue' = [queue EXCEPT ![h] = SubSeq(s, k + 1, Len(s))]
       /\ lost' = lost \cup {s[k]}
       /\ Stop("Error_Handler")

Answer(r) == sends' = sends + 1 /\ reply' = Append(reply, r)

(* The HAL refuses the frame, as it does every frame before the start. *)
SendRefused(h) ==
  /\ Free(h) > 0
  /\ OnFdcan => queue[h] = <<>>
  /\ Stop("Error_Handler") /\ Answer("CAN_SEND_FAILED")
  /\ UNCHANGED <<queue, slots, irq, replaced, lost, handed>>

(* The fault Overtakes: with room in the Tx FIFO the queue is not looked at. *)
Overtakes(h) ==
  /\ h \in running /\ Free(h) > 0
  /\ HandOver(h, <<sends + 1>>)
  /\ Answer("sent")
  /\ UNCHANGED <<stopped, queue, irq, replaced, lost>>

SendDirect(h) ==
  /\ h \in running /\ Free(h) > 0
  /\ OnFdcan => queue[h] = <<>>
  /\ HandOver(h, <<sends + 1>>)
  /\ Answer("sent")
  /\ UNCHANGED <<stopped, queue, irq, replaced, lost>>

(* No entry: FDCAN refuses, bxCAN dereferences null. *)
SendNoEntry(h) ==
  /\ h \in running /\ ~Registered(h) /\ Free(h) = 0
  /\ IF OnFdcan THEN UNCHANGED stopped ELSE Stop("undefined")
  /\ Answer("CAN_SEND_FAILED")
  /\ UNCHANGED <<queue, slots, irq, replaced, lost, handed>>

(* FDCAN queues behind what waits and moves what it can; bxCAN queues when *)
(* the mailboxes are full, and says that it failed.                        *)
SendQueued(h) ==
  /\ h \in running /\ Queued /\ Registered(h)
  /\ Free(h) = 0 \/ (OnFdcan /\ queue[h] # <<>>)
  /\ Replay(h, Push(queue[h], sends + 1))
  /\ replaced' = replaced \cup Dropped(queue[h])
  /\ Answer(IF OnFdcan THEN "sent" ELSE "CAN_SEND_FAILED")
  /\ UNCHANGED irq

SendFull(h) ==
  /\ h \in running /\ ~Queued /\ Free(h) = 0
  /\ Answer("CAN_SEND_FAILED")
  /\ UNCHANGED <<stopped, queue, slots, irq, replaced, lost, handed>>

SendMessage(h) ==
  /\ stopped = "no" /\ sends < use.sends
  /\ SendRefused(h) \/ SendDirect(h) \/ SendNoEntry(h) \/ SendQueued(h) \/ SendFull(h)
  /\ UNCHANGED <<chosen, build, maps, running, receiving, filtering>>

(* A slot is done with its frame. bxCAN says so each time, FDCAN when its *)
(* Tx FIFO, which is a FIFO, has become empty.                            *)
SlotEmpties(h, f) ==
  /\ stopped = "no" /\ f \in slots[h]
  /\ OnFdcan => \A g \in slots[h] : f <= g
  /\ slots' = [slots EXCEPT ![h] = @ \ {f}]
  /\ irq' = IF OnFdcan => slots'[h] = {} THEN irq \cup {h} ELSE irq
  /\ UNCHANGED <<chosen, build, maps, running, stopped, queue, sends, reply, replaced, lost,
                 handed, receiving, filtering>>

(* The fault Unanswered: CAN_InitMainCallback() forgets the transmit side. *)
Unanswered(h) ==
  /\ stopped = "no" /\ h \in irq /\ irq' = irq \ {h}
  /\ UNCHANGED <<chosen, build, maps, running, stopped, queue, slots, handed, sends, reply,
                 replaced, lost, receiving, filtering>>

TxInterrupt(h) ==
  /\ stopped = "no" /\ h \in irq /\ irq' = irq \ {h}
  /\ IF ~Registered(h)
     THEN /\ IF OnFdcan THEN UNCHANGED stopped ELSE Stop("undefined")
          /\ UNCHANGED <<queue, slots, lost, handed>>
     ELSE Replay(h, queue[h])
  /\ UNCHANGED <<chosen, build, maps, running, sends, reply, replaced, receiving, filtering>>

-----------------------------------------------------------------------------
(* Receiving. *)

Arrive(h, w) ==
  /\ stopped = "no" /\ h \in running /\ arrived < use.arrivals
  /\ w.fd => OnFdcan
  /\ inbox' = [inbox EXCEPT ![h] = Append(@, w)]
  /\ arrived' = arrived + 1
  /\ UNCHANGED <<chosen, build, maps, running, stopped, sending, last, filtering>>

(* What one callback is told: FDCAN's header as it is, or bxCAN's, whose   *)
(* length FDCAN_DLC_Bytes() makes out of the code.                         *)
Told(cb, w) ==
  [name |-> cb.name, style |-> cb.style, ext |-> w.ext, id |-> w.id, remote |-> w.remote,
   dlc |-> IF cb.style = "bxcan" /\ OnFdcan THEN BytesFromDlc(w.dlc)
           ELSE IF cb.style = "bxcan" THEN Min({w.dlc, 8}) ELSE w.dlc]

Hears(cb, w) == cb.style = "fdcan" \/ ~w.fd

(* The loop over the callbacks of an entry: the calls of the first n of cs. *)
CallsTo(cs, w) ==
  LET made[n \in 0 .. Len(cs)] ==
        IF n = 0 THEN <<>>
        ELSE IF Hears(cs[n], w) THEN Append(made[n - 1], Told(cs[n], w)) ELSE made[n - 1]
  IN  made[Len(cs)]

Calls(h, w) == IF Registered(h) THEN CallsTo(maps[MapOf(h)].callbacks, w) ELSE <<>>

(* FDCAN_RxDispatch() and CAN_RxDispatch() go on until the FIFO is empty: *)
(* here, one frame of it.                                                 *)
RxDispatch(h) ==
  /\ stopped = "no" /\ inbox[h] # <<>>
  /\ last' = {[h |-> h, wire |-> Head(inbox[h]), calls |-> Calls(h, Head(inbox[h]))]}
  /\ inbox' = [inbox EXCEPT ![h] = Tail(@)]
  /\ UNCHANGED <<chosen, build, maps, running, stopped, sending, arrived, filtering>>

-----------------------------------------------------------------------------
(* HAL_CAN_ConfigFilter() on FDCAN: a 32-bit bxCAN bank as one element of  *)
(* the list its first word names, the bank's number as its index in either *)
(* list.  That the number is below a list's capacity is the caller's to    *)
(* see to: here one bank stands for them all.                              *)

Unshift(word, k) == {b - k : b \in {c \in word : c >= k}}

(* The fault HighHalf: only the upper half words are decoded. *)
HighHalf(b) ==
  [ext |-> 2 \in b.idLow, type |-> IF b.list THEN "DUAL" ELSE "MASK",
   action |-> IF b.fifo = "fifo1" THEN "Fifo1" ELSE "Fifo0",
   id1 |-> Unshift(Shift(b.idHigh, 16), IF 2 \in b.idLow THEN 3 ELSE 21),
   id2 |-> Unshift(Shift(b.maskHigh, 16), IF 2 \in b.idLow THEN 3 ELSE 21), buffer |-> 0]

ElementOf(b) ==
  LET first  == b.idLow \cup Shift(b.idHigh, 16)
      second == b.maskLow \cup Shift(b.maskHigh, 16)
      ext    == 2 \in first
      shift  == IF ext THEN 3 ELSE 21
  IN  IF ~b.on
      THEN NoElement
      ELSE [ext |-> ext, type |-> IF b.list THEN "DUAL" ELSE "MASK",
            action |-> IF b.fifo = "fifo1" THEN "Fifo1" ELSE "Fifo0",
            id1 |-> Unshift(first, shift), id2 |-> Unshift(second, shift), buffer |-> 0]

Translates(b) == b.on => b.scale = 32 /\ (b.list => (2 \in b.idLow <=> 2 \in b.maskLow))

(* A bank that is off is written as a standard element, whichever element  *)
(* it was before.  What cannot be told in one element, or belongs in a     *)
(* list without elements, is answered HAL_ERROR.                           *)
ConfigFilter(b) ==
  /\ stopped = "no" /\ OnFdcan /\ configs < use.configs
  /\ configs' = configs + 1
  /\ LET e == ElementOf(b) IN
     IF Translates(b) /\ use.capacity[e.ext] > 0
     THEN /\ element' = [element EXCEPT ![e.ext] = e]
          /\ wanted' = [wanted EXCEPT ![e.ext] = {b}]
     ELSE UNCHANGED <<element, wanted>>
  /\ UNCHANGED <<chosen, build, maps, running, stopped, sending, receiving>>

(* What the bank's elements take: a list of no elements is not looked at. *)
Passes(w) ==
  LET e == element[w.ext] IN
  use.capacity[w.ext] > 0 /\ e.action # "Disable" /\ ElementMatches(e, w.id, w.id)

-----------------------------------------------------------------------------
LegacyNext ==
  \/ \E h \in use.handles :
       \/ Start(h) \/ SendMessage(h) \/ TxInterrupt(h) \/ RxDispatch(h)
       \/ \E cb \in use.callbacks : RegisterCallback(h, cb)
       \/ \E f \in slots[h] : SlotEmpties(h, f)
       \/ \E w \in use.wires : Arrive(h, w)
  \/ \E b \in use.banks : ConfigFilter(b)

LegacySpec == LegacyInit /\ [][LegacyNext]_legacyVars

(* Interrupts are served and the bus carries frames. *)
FairLegacySpec ==
  /\ LegacySpec
  /\ \A h \in Handles :
       WF_legacyVars(TxInterrupt(h)) /\ WF_legacyVars(\E f \in slots[h] : SlotEmpties(h, f))

-----------------------------------------------------------------------------
Accepted == {f \in DOMAIN reply : reply[f] = "sent"}
Elements(s) == {s[i] : i \in DOMAIN s}
Everywhere == UNION {Elements(handed[h]) \cup Elements(queue[h]) : h \in Handles}

(* On FDCAN frames leave in the order of the calls: a frame that waits is  *)
(* not overtaken by one that finds room in the Tx FIFO.                    *)
SubmissionOrder ==
  OnFdcan => \A h \in Handles : LET s == handed[h] \o queue[h] IN
             \A i, j \in DOMAIN s : i < j => s[i] < s[j]

(* A frame that was accepted is with the hardware or waits, or a later one *)
(* pushed it out of a full queue, or it was lost: the HAL refused it when  *)
(* it had left the queue, which happens once, because Error_Handler()      *)
(* follows.  Only one of these is true of a frame, and none is handed over *)
(* twice.                                                                  *)
AcceptedIsKept ==
  /\ Accepted \subseteq Everywhere \cup replaced \cup lost
  /\ Everywhere \cap (replaced \cup lost) = {} /\ replaced \cap lost = {}
  /\ lost # {} => stopped = "Error_Handler" /\ \E f \in lost : lost = {f}
  /\ \A h \in Handles : LET s == handed[h] \o queue[h] IN Cardinality(Elements(s)) = Len(s)

(* What waits is moved without another call: by the interrupt of a slot    *)
(* that empties, although FDCAN's comes only when all of them have; or the *)
(* program has ended in Error_Handler().                                   *)
QueueDrains == \A h \in Handles : queue[h] # <<>> ~> (queue[h] = <<>> \/ stopped # "no")

(* A received frame is given to every callback registered on its handle,   *)
(* once, in the order of registration, with its own identifier; callbacks  *)
(* of bxCAN's kind are spared CAN FD frames.                               *)
DispatchedToAll ==
  \A d \in last :
    LET mine == {i \in DOMAIN maps : maps[i].hcan = d.h}
        heard == IF mine = {} THEN <<>> ELSE maps[CHOOSE i \in mine : TRUE].callbacks
        due  == {i \in DOMAIN heard : d.wire.fd => heard[i].style = "fdcan"}
    IN  /\ Cardinality(mine) <= 1
        /\ Len(d.calls) = Cardinality(due)
        /\ \A i \in due :
             LET call == d.calls[Cardinality({j \in due : j <= i})] IN
             /\ call.name = heard[i].name /\ call.style = heard[i].style
             /\ call.id = d.wire.id /\ call.ext = d.wire.ext /\ call.remote = d.wire.remote

(* A bank whose identifier has only bits of its kind, with a mask that     *)
(* compares the IDE bit and not the RTR bit; or a list of two such         *)
(* identifiers, which on bxCAN names data frames only.                     *)
Expressible(b) ==
  LET first  == b.idLow \cup Shift(b.idHigh, 16)
      second == b.maskLow \cup Shift(b.maskHigh, 16)
      named  == IF 2 \in first THEN 2 .. 31 ELSE 21 .. 31
  IN  b.on => /\ first \subseteq named
              /\ IF b.list THEN second \subseteq named ELSE 2 \in second /\ 1 \notin second

(* After any calls of HAL_CAN_ConfigFilter(), accepted or not, the frames  *)
(* that pass on FDCAN are those which bxCAN lets pass by one of the banks  *)
(* in force.  Where a bank stays of one kind that is the last one; but the *)
(* standard and the extended list each keep the last bank written there,   *)
(* so one that was extended and is switched off, or comes back as a        *)
(* standard one, goes on taking frames: bxCAN would have stopped it.       *)
BankMeansTheSame ==
  LET inForce == wanted[FALSE] \cup wanted[TRUE] IN
  \A w \in use.wires :
    /\ ~w.fd
    /\ \A b \in inForce : Expressible(b) /\ (b.list => ~w.remote)
    => (Passes(w) <=> \E b \in inForce : BankMatches(RawBank(b), w))
=============================================================================
