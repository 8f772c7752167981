------------------------------ MODULE I2CBusDMA ------------------------------
(***************************************************************************)
(* bsp/i2c_driver: one I2C bus, driven over DMA by one owner thread.  A    *)
(* call prepares the software record of the transfer, starts the HAL and   *)
(* blocks on a thread flag; the completion or error interrupt fills in the *)
(* record and raises the flag.  A call that fails or runs out of time      *)
(* aborts the DMA and re-initialises the controller before it returns.     *)
(*                                                                         *)
(* pc is where the owner thread stands; interrupts, the hardware and the   *)
(* kernel tick interleave with every step of it.  HAL error codes, device  *)
(* addresses and buffers are left out: no property tells them apart.       *)
(***************************************************************************)
EXTENDS Naturals

CONSTANTS
  TimeoutMs,  \* the timeout_ms argument of every call
  TickFreq,   \* osKernelGetTickFreq()
  IdModulus,  \* transfer ids wrap at this value (2^32 in the code)
  MaxLate     \* interrupts of an aborted transfer that may still arrive later

ASSUME TimingAssumption == TimeoutMs \in Nat /\ TickFreq \in Nat
ASSUME IdAssumption == IdModulus \in Nat /\ IdModulus > 1
ASSUME LateAssumption == MaxLate \in Nat

VARIABLES
  bus,          \* how the object was built: handle, pins, a slot in instances_
  kernel,       \* osKernelGetState() = osKernelRunning
  pc,           \* the owner thread's control point
  op,           \* the public call it is in: "transfer" or "recover"
  cause,        \* the error argument of failAndRecover()
  elapsed,      \* kernel ticks since waitForTransfer() sampled start_ticks
  transferId,   \* waitForTransfer()'s copy of the id it waits for
  flag,         \* TransferCompleteFlag of the owner thread
  waiting,      \* waiting_thread_ is not null
  transmitting, \* transmitting_
  completed,    \* completed_
  nextId,       \* next_transfer_id_
  currentId,    \* current_transfer_id_
  completedId,  \* completed_transfer_id_
  lastError,    \* last_error_
  reply,        \* what the latest transfer call returned
  hal,          \* HAL_I2C_GetState()
  dma,          \* the DMA stream is moving bytes for the latest transfer
  outcome,      \* how the latest transfer really ended on the wire
  irq,          \* its interrupt, raised and not served yet
  late          \* interrupts of aborted transfers that can still be served

call   == <<bus, kernel, op, transferId>>
record == <<waiting, transmitting, completed, currentId, completedId>>
soft   == <<record, nextId, flag, lastError>>
wire   == <<hal, dma, outcome, irq, late>>
vars   == <<call, pc, cause, elapsed, reply, soft, wire>>

Errors == {"None", "InvalidHandle", "InvalidContext", "Busy", "StartFailed",
           "Timeout", "HalError", "RecoveryFailed"}

Waits == {"check", "blocked", "woken"}

Points == {"idle", "reset", "clear", "start", "enter", "settle", "fail",
           "recover", "abort", "deinit", "reinit"} \cup Waits

KernelTicksFromMs(ms, freq) ==
  LET m == IF ms = 0 THEN 1 ELSE ms
      t == (m * freq + 999) \div 1000
  IN  IF freq = 0 THEN m ELSE IF t = 0 THEN 1 ELSE t

TimeoutTicks == KernelTicksFromMs(TimeoutMs, TickFreq)

(* HAL callbacks reach the object only through instances_. *)
Registered == bus.handle /\ bus.slot

Init ==
  /\ bus \in [handle : BOOLEAN, pins : BOOLEAN, slot : BOOLEAN]
  /\ kernel = FALSE
  /\ pc = "idle" /\ op = "transfer" /\ cause = "None"
  /\ elapsed = 0 /\ transferId = 0 /\ reply = "none"
  /\ flag = FALSE
  /\ waiting = FALSE /\ transmitting = FALSE /\ completed = FALSE
  /\ nextId = 1 /\ currentId = 0 /\ completedId = 0
  /\ lastError = IF Registered THEN "None" ELSE "InvalidHandle"
  /\ hal = "READY"
  /\ dma = "off" /\ outcome = "none" /\ irq = "none" /\ late = 0

KernelStart ==
  /\ ~kernel
  /\ kernel' = TRUE
  /\ UNCHANGED <<bus, pc, op, cause, elapsed, transferId, reply, soft, wire>>

-----------------------------------------------------------------------------
(* A transfer call up to its wait. *)

(* prepareTransfer()'s early returns, in the order of its guards. *)
Refusal ==
  IF ~bus.handle THEN "InvalidHandle"
  ELSE IF ~kernel THEN "InvalidContext"
  ELSE IF transmitting \/ hal # "READY" THEN "Busy"
  ELSE "None"

CallRefused ==
  /\ pc = "idle"
  /\ Refusal # "None"
  /\ lastError' = Refusal
  /\ op' = "transfer" /\ reply' = "false"
  /\ UNCHANGED <<bus, kernel, pc, cause, elapsed, transferId, record, nextId, flag, wire>>

NewId == nextId' = (nextId + 1) % IdModulus

Call ==
  /\ pc = "idle" /\ pc' = "reset"
  /\ Refusal = "None"
  /\ waiting' = TRUE /\ transmitting' = TRUE /\ completed' = FALSE
  /\ currentId' = nextId
  /\ NewId
  /\ op' = "transfer" /\ reply' = "none" /\ outcome' = "none"
  /\ UNCHANGED <<bus, kernel, cause, elapsed, transferId, completedId, flag, lastError,
                 hal, dma, irq, late>>

ResetRecord ==
  /\ pc = "reset" /\ pc' = "clear"
  /\ completedId' = 0
  /\ lastError' = "None"
  /\ UNCHANGED <<call, cause, elapsed, reply, waiting, transmitting, completed,
                 currentId, nextId, flag, wire>>

ClearFlag ==
  /\ pc = "clear" /\ pc' = "start"
  /\ flag' = FALSE
  /\ UNCHANGED <<call, cause, elapsed, reply, record, nextId, lastError, wire>>

(* HAL_I2C_*_DMA() accepts the transfer... *)
Start ==
  /\ pc = "start" /\ pc' = "enter"
  /\ hal = "READY" /\ dma = "off"
  /\ hal' = "BUSY" /\ dma' = "on"
  /\ UNCHANGED <<call, cause, elapsed, reply, soft, outcome, irq, late>>

(* ...or does not; every later failure leaves the call the same way. *)
GoFail(from, error) ==
  /\ pc = from /\ pc' = "fail"
  /\ cause' = error
  /\ UNCHANGED <<call, elapsed, reply, soft, wire>>

StartFails == GoFail("start", "StartFailed")

-----------------------------------------------------------------------------
(* waitForTransfer() *)

EnterWait ==
  /\ pc = "enter" /\ pc' = "check"
  /\ elapsed' = 0
  /\ transferId' = currentId
  /\ UNCHANGED <<bus, kernel, op, cause, reply, soft, wire>>

Tick ==
  /\ pc \in Waits
  /\ elapsed < TimeoutTicks
  /\ elapsed' = elapsed + 1
  /\ UNCHANGED <<call, pc, cause, reply, soft, wire>>

(* The fault FlagClearedLate: the flag is cleared when the wait begins. *)
FlagClearedLate ==
  /\ pc = "check" /\ pc' = "blocked"
  /\ elapsed < TimeoutTicks
  /\ flag' = FALSE
  /\ UNCHANGED <<call, cause, elapsed, reply, record, nextId, lastError, wire>>

Block ==
  /\ pc = "check" /\ pc' = "blocked"
  /\ elapsed < TimeoutTicks
  /\ UNCHANGED <<call, cause, elapsed, reply, soft, wire>>

Expired == elapsed >= TimeoutTicks /\ GoFail("check", "Timeout")

Wake ==
  /\ pc = "blocked" /\ pc' = "woken"
  /\ flag
  /\ flag' = FALSE
  /\ UNCHANGED <<call, cause, elapsed, reply, record, nextId, lastError, wire>>

(* The fault WaitsForever: only the flag ends the wait. *)
WaitsForever == flag /\ GoFail("blocked", "Timeout")

WaitTimesOut == ~flag /\ elapsed >= TimeoutTicks /\ GoFail("blocked", "Timeout")

(* osThreadFlagsWait() refuses to wait. *)
WaitFails == GoFail("blocked", "InvalidContext")

Mine == completed /\ completedId = transferId

(* A wake-up that is not the end of this transfer: wait on. *)
Discard ==
  /\ pc = "woken" /\ pc' = "check"
  /\ ~Mine
  /\ UNCHANGED <<call, cause, elapsed, reply, soft, wire>>

Accept ==
  /\ pc = "woken" /\ pc' = "settle"
  /\ Mine
  /\ waiting' = FALSE /\ transmitting' = FALSE /\ completed' = FALSE
  /\ UNCHANGED <<call, cause, elapsed, reply, currentId, completedId, nextId, flag,
                 lastError, wire>>

ReturnTrue ==
  /\ pc = "settle" /\ pc' = "idle"
  /\ lastError = "None"
  /\ reply' = "true"
  /\ UNCHANGED <<call, cause, elapsed, soft, wire>>

HalReportedError == lastError # "None" /\ GoFail("settle", lastError)

-----------------------------------------------------------------------------
(* failAndRecover() and recover() *)

ClearTransferState ==
  /\ waiting' = FALSE /\ transmitting' = FALSE /\ completed' = FALSE
  /\ currentId' = 0 /\ completedId' = 0

Fail ==
  /\ pc = "fail" /\ pc' = "recover"
  /\ lastError' = cause
  /\ ClearTransferState
  /\ UNCHANGED <<call, cause, elapsed, reply, nextId, flag, wire>>

(* The owner may also ask for a recovery itself. *)
RecoverCall ==
  /\ pc = "idle" /\ pc' = "recover"
  /\ op' = "recover"
  /\ UNCHANGED <<bus, kernel, cause, elapsed, transferId, reply, soft, wire>>

(* Leave the call: a transfer answers FALSE and reports `error`. *)
Leave(from, error) ==
  /\ pc = from /\ pc' = "idle"
  /\ lastError' = error
  /\ reply' = IF op = "transfer" THEN "false" ELSE reply
  /\ UNCHANGED <<call, cause, elapsed, record, nextId, flag>>

RecoverRefused ==
  /\ ~(bus.handle /\ bus.pins)
  /\ Leave("recover", IF op = "transfer" THEN "RecoveryFailed" ELSE "InvalidHandle")
  /\ UNCHANGED wire

RecoverBegin ==
  /\ pc = "recover" /\ pc' = "abort"
  /\ bus.handle /\ bus.pins
  /\ ClearTransferState
  /\ UNCHANGED <<call, cause, elapsed, reply, nextId, flag, lastError, wire>>

(* The fault AbortNothing: the DMA streams are not aborted. *)
AbortNothing ==
  /\ pc = "abort" /\ pc' = "deinit"
  /\ UNCHANGED <<call, cause, elapsed, reply, soft, wire>>

(* An interrupt of the transfer being given up can outlive the reset. *)
MayOutlive(pending) ==
  late' \in {late} \cup {n \in {late + 1} : pending /\ n <= MaxLate}

(* HAL_DMA_Abort(): bytes stop moving, a raised interrupt stays raised. *)
AbortDma ==
  /\ pc = "abort" /\ pc' = "deinit"
  /\ dma' = "off"
  /\ MayOutlive(dma = "on")
  /\ UNCHANGED <<call, cause, elapsed, reply, soft, hal, outcome, irq>>

(* HAL_I2C_DeInit() takes the controller down, and its pending interrupt.  *)
(* It fails for a null handle only, which recover() has excluded.          *)
DeInit ==
  /\ pc = "deinit" /\ pc' = "reinit"
  /\ hal' = "RESET" /\ irq' = "none"
  /\ MayOutlive(irq # "none")
  /\ UNCHANGED <<call, cause, elapsed, reply, soft, dma, outcome>>

(* The bus lines stay stuck, or HAL_I2C_Init() fails. *)
FirstErrorKept == Leave("reinit", cause) /\ UNCHANGED wire   \* the fault: see the name
ReinitFails == Leave("reinit", "RecoveryFailed") /\ UNCHANGED wire

(* The fault ErrorNotRestored: last_error_ is set before the recovery only. *)
ErrorNotRestored ==
  /\ Leave("reinit", lastError)
  /\ hal' = "READY"
  /\ UNCHANGED <<dma, outcome, irq, late>>

Recovered ==
  /\ Leave("reinit", IF op = "transfer" THEN cause ELSE lastError)
  /\ hal' = "READY"
  /\ UNCHANGED <<dma, outcome, irq, late>>

-----------------------------------------------------------------------------
(* The hardware and the interrupts. *)

TransferEnds(o) ==
  /\ dma = "on"
  /\ dma' = "off"
  /\ outcome' = o
  /\ irq' = o
  /\ UNCHANGED <<call, pc, cause, elapsed, reply, soft, hal, late>>

CompleteFromISR(o) ==
  /\ completedId' = currentId
  /\ completed' = TRUE
  /\ lastError' = IF o = "ok" THEN "None" ELSE "HalError"
  /\ flag' = (flag \/ waiting)
  /\ UNCHANGED <<waiting, transmitting, currentId>>

(* A HAL callback finds its object through fromHandle(), or finds nothing. *)
Callback(o) ==
  IF Registered THEN CompleteFromISR(o) ELSE UNCHANGED <<record, flag, lastError>>

Interrupt ==
  /\ irq # "none"
  /\ irq' = "none"
  /\ hal' = "READY"
  /\ Callback(irq)
  /\ UNCHANGED <<call, pc, cause, elapsed, reply, nextId, dma, outcome, late>>

LateInterrupt(o) ==
  /\ late > 0
  /\ late' = late - 1
  /\ hal' \in IF hal = "BUSY" THEN {"BUSY", "READY"} ELSE {hal}
  /\ Callback(o)
  /\ UNCHANGED <<call, pc, cause, elapsed, reply, nextId, dma, outcome, irq>>

(* A thread flag belongs to the thread: other code may raise the same bit. *)
StrayFlag ==
  /\ ~flag
  /\ flag' = TRUE
  /\ UNCHANGED <<call, pc, cause, elapsed, reply, record, nextId, lastError, wire>>

Transfer ==
  \/ CallRefused \/ Call \/ ResetRecord \/ ClearFlag \/ Start \/ StartFails
  \/ EnterWait \/ Block \/ Expired \/ Wake \/ WaitTimesOut
  \/ Discard \/ Accept \/ ReturnTrue \/ HalReportedError

Recovery ==
  \/ Fail \/ RecoverCall \/ RecoverRefused \/ RecoverBegin \/ AbortDma \/ DeInit
  \/ ReinitFails \/ Recovered

Hardware ==
  \/ Interrupt \/ StrayFlag
  \/ \E o \in {"ok", "error"} : TransferEnds(o) \/ LateInterrupt(o)

Next == KernelStart \/ Transfer \/ WaitFails \/ Recovery \/ Tick \/ Hardware

Spec == Init /\ [][Next]_vars

(* The scheduler runs a ready thread and the kernel tick keeps coming.     *)
(* Nothing else is owed: a transfer may never end, its interrupt may never *)
(* be served and the kernel need not refuse a wait.                        *)
FairSpec ==
  /\ Spec
  /\ WF_vars(pc # "idle" /\ (Transfer \/ Recovery))
  /\ WF_vars(Tick)

-----------------------------------------------------------------------------
TypeOK ==
  /\ bus \in [handle : BOOLEAN, pins : BOOLEAN, slot : BOOLEAN]
  /\ kernel \in BOOLEAN
  /\ pc \in Points /\ op \in {"transfer", "recover"} /\ cause \in Errors
  /\ elapsed \in Nat /\ transferId \in 0 .. (IdModulus - 1)
  /\ reply \in {"none", "true", "false"}
  /\ waiting \in BOOLEAN /\ transmitting \in BOOLEAN /\ completed \in BOOLEAN
  /\ nextId \in 0 .. (IdModulus - 1)
  /\ currentId \in 0 .. (IdModulus - 1)
  /\ completedId \in 0 .. (IdModulus - 1)
  /\ flag \in BOOLEAN
  /\ lastError \in Errors
  /\ hal \in {"READY", "BUSY", "RESET"}
  /\ dma \in {"off", "on"} /\ outcome \in {"none", "ok", "error"}
  /\ irq \in {"none", "ok", "error"} /\ late \in 0 .. MaxLate

(* A call answers TRUE only when the transfer it started ended well on the *)
(* wire, and no byte of it is still moving (memRead() to write(), through  *)
(* waitForTransfer()).                                                     *)
SuccessIsReal ==
  pc = "idle" /\ reply = "true" => outcome = "ok" /\ dma = "off"

(* The completion record of the awaited transfer never meets a blocked     *)
(* thread without its flag: prepareTransfer() clears the flag before the   *)
(* HAL is started, so the interrupt's flag cannot be wiped.                *)
NoLostWakeup == pc = "blocked" /\ Mine => flag

(* A transfer that failed still says so after its recovery, whatever the   *)
(* interrupts did to last_error_ meanwhile (failAndRecover() sets it       *)
(* twice).  Without pins no recovery runs and a late end may erase it.     *)
FailureKeepsItsError ==
  pc = "idle" /\ reply = "false" /\ bus.pins => lastError # "None"

(* What lastError() says of the controller once a call is over: after a    *)
(* success, or a failure reported as itself, the bus is ready again; a     *)
(* transfer is refused as Busy only because a recovery broke off and left  *)
(* the controller uninitialised, never by what an earlier call left over.  *)
ErrorTellsBusState ==
  pc = "idle" /\ bus.handle /\ bus.pins =>
    /\ lastError \in {"None", "StartFailed", "Timeout", "HalError"} => hal = "READY"
    /\ op = "transfer" /\ lastError = "Busy" => hal = "RESET"

(* Every call returns, also when its interrupt never comes. *)
CallReturns == (pc # "idle") ~> (pc = "idle")

(* The bus implements a blocking transfer: see SyncTransfer. *)
Promise == INSTANCE SyncTransfer WITH
  phase     <- IF pc = "idle" \/ op = "recover" THEN "idle" ELSE "called",
  active    <- dma = "on",
  abortable <- bus.pins

ImplementsSyncTransfer == Promise!Spec
=============================================================================
