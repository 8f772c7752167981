-------------------------- MODULE I2CBusDMA_proofs --------------------------
(***************************************************************************)
(* The safety properties of I2CBusDMA for every timeout, tick frequency    *)
(* and id width, provided no interrupt outlives an abort (MaxLate = 0).    *)
(* With MaxLate > 0 they are false: see I2CBusDMA_stale.cfg.               *)
(***************************************************************************)
EXTENDS I2CBusDMA, TLAPS

Recovering == {"recover", "abort", "deinit", "reinit"}

(* Between two transfer calls. *)
Off == pc = "idle" \/ op = "recover"

(* An outstanding interrupt belongs to the latest transfer, which is over; *)
(* while a transfer moves or its interrupt is outstanding, the HAL is busy. *)
InterruptIsCurrent ==
  /\ late = 0
  /\ irq # "none" => dma = "off" /\ outcome = irq
  /\ dma = "on" \/ irq # "none" => hal = "BUSY"

(* Where the thread can stand, and the control points at which no hardware *)
(* is at work.                                                             *)
Quiet ==
  /\ pc \in {"reset", "clear", "start", "settle"} => hal = "READY"
  /\ pc \in {"reset", "clear", "start"} => outcome = "none"
  /\ pc = "deinit" => dma = "off"
  /\ pc = "reinit" => hal = "RESET"
  /\ Off /\ bus.pins => hal # "BUSY"
  /\ pc \in {"abort", "deinit", "reinit"} => bus.pins
  /\ pc \notin {"idle", "recover"} => bus.handle
  /\ op = "recover" => pc \in {"idle"} \cup Recovering
  /\ pc = "recover" /\ op = "transfer" => bus.handle

(* The record of the transfer the thread waits for. *)
RecordIsCurrent ==
  /\ pc \in {"reset", "clear", "start"} => ~completed
  /\ pc \in {"reset", "clear", "start", "enter"} \cup Waits => waiting
  /\ pc \in Waits => transferId = currentId
  /\ pc \in {"start", "enter"} \cup Waits /\ completed =>
        /\ completedId = currentId
        /\ hal = "READY"
        /\ lastError \in {"None", "HalError"}
        /\ lastError = "None" => outcome = "ok"
  /\ pc \in {"start", "enter", "check", "blocked"} /\ completed => flag
  /\ pc = "settle" =>
        /\ lastError \in {"None", "HalError"}
        /\ lastError = "None" => outcome = "ok"

(* What a call leaves behind: its answer, its error, the software state. *)
Aftermath ==
  /\ pc \in {"idle", "settle", "abort", "deinit", "reinit"} => ~transmitting
  /\ pc = "recover" => ~transmitting
  /\ pc \in {"fail"} \cup Recovering /\ op = "transfer" =>
        cause \in {"StartFailed", "Timeout", "InvalidContext", "HalError"}
  /\ Off /\ reply = "true" => outcome = "ok" /\ dma = "off" /\ irq = "none"
  /\ Off /\ reply = "false" /\ bus.pins => lastError # "None"

IInv ==
  /\ TypeOK
  /\ InterruptIsCurrent
  /\ Quiet
  /\ RecordIsCurrent
  /\ Aftermath
  /\ ErrorTellsBusState

(* Zenon types the Boolean variables, SMT the others: neither does both. *)
BoolOK == /\ kernel \in BOOLEAN /\ flag \in BOOLEAN /\ waiting \in BOOLEAN
          /\ transmitting \in BOOLEAN /\ completed \in BOOLEAN

(* The steps that begin a call keep the flags Boolean. *)
LEMMA CallBool == ASSUME BoolOK, KernelStart \/ CallRefused \/ Call PROVE BoolOK'
BY Zenon DEF BoolOK, KernelStart, CallRefused, Call, call, record, soft

(* So do the steps that clear the record of a transfer, *)
LEMMA ClearBool ==
  ASSUME BoolOK, Accept \/ Fail \/ RecoverBegin PROVE BoolOK'
BY Zenon DEF BoolOK, Accept, Fail, RecoverBegin, ClearTransferState, call, record, soft

(* the steps that clear or raise the thread flag, *)
LEMMA FlagBool == ASSUME BoolOK, ClearFlag \/ Wake \/ StrayFlag PROVE BoolOK'
BY Zenon DEF BoolOK, ClearFlag, Wake, StrayFlag, call, record, soft

(* and the HAL callbacks. *)
LEMMA CallbackBool ==
  ASSUME BoolOK, NEW o, Callback(o), UNCHANGED call PROVE BoolOK'
BY Zenon DEF BoolOK, Callback, CompleteFromISR, call, record

(* Types hold with late interrupts as well. *)
LEMMA StepType == TypeOK /\ [Next]_vars => TypeOK'
<1> SUFFICES ASSUME TypeOK, [Next]_vars PROVE TypeOK'
  OBVIOUS
<1>0. BoolOK
  BY DEF TypeOK, BoolOK
<1> USE IdAssumption, LateAssumption DEF TypeOK, Points, Waits, Errors, call, record, soft, wire
<1>1. ASSUME KernelStart \/ CallRefused \/ Call PROVE TypeOK'
  <2>1. BoolOK'
    BY <1>0, <1>1, CallBool
  <2> QED
    BY <1>1, <2>1 DEF BoolOK, KernelStart, CallRefused, Call, Refusal, NewId
<1>2. ASSUME ClearFlag \/ Wake \/ StrayFlag PROVE TypeOK'
  <2>1. BoolOK'
    BY <1>0, <1>2, FlagBool
  <2> QED
    BY <1>2, <2>1 DEF BoolOK, ClearFlag, Wake, StrayFlag
<1>3. ASSUME Accept \/ Fail \/ RecoverBegin PROVE TypeOK'
  <2>1. BoolOK'
    BY <1>0, <1>3, ClearBool
  <2> QED
    BY <1>3, <2>1 DEF BoolOK, Accept, Fail, RecoverBegin, ClearTransferState
<1>4. ASSUME ResetRecord \/ Start \/ EnterWait \/ Tick \/ Block \/ Discard PROVE TypeOK'
  BY <1>4 DEF ResetRecord, Start, EnterWait, Tick, Block, Discard
<1>5. ASSUME \/ StartFails \/ Expired \/ WaitTimesOut \/ WaitFails \/ HalReportedError
             \/ RecoverCall \/ ReturnTrue
      PROVE  TypeOK'
  BY <1>5 DEF StartFails, Expired, WaitTimesOut, WaitFails, HalReportedError, GoFail,
    RecoverCall, ReturnTrue
<1>6. ASSUME RecoverRefused \/ ReinitFails \/ Recovered PROVE TypeOK'
  BY <1>6 DEF RecoverRefused, ReinitFails, Recovered, Leave
<1>7. ASSUME AbortDma \/ DeInit PROVE TypeOK'
  BY <1>7 DEF AbortDma, DeInit, MayOutlive
<1>8. ASSUME Interrupt PROVE TypeOK'
  <2>1. BoolOK'
    BY <1>0, <1>8, CallbackBool DEF Interrupt
  <2> QED
    BY <1>8, <2>1 DEF BoolOK, Interrupt, Callback, CompleteFromISR
<1>9. ASSUME NEW o \in {"ok", "error"}, TransferEnds(o) PROVE TypeOK'
  BY <1>9 DEF TransferEnds
<1>10. ASSUME NEW o \in {"ok", "error"}, LateInterrupt(o) PROVE TypeOK'
  <2>1. BoolOK'
    BY <1>0, <1>10, CallbackBool DEF LateInterrupt
  <2> QED
    BY <1>10, <2>1 DEF BoolOK, LateInterrupt, Callback, CompleteFromISR
<1>11. CASE UNCHANGED vars
  BY <1>11 DEF vars
<1> QED
  BY <1>1, <1>2, <1>3, <1>4, <1>5, <1>6, <1>7, <1>8, <1>9, <1>10, <1>11
  DEF Next, Transfer, Recovery, Hardware

(* Every field of the object has its type, whatever the hardware does.     *)
THEOREM TypeCorrect == Spec => []TypeOK
<1>1. Init => TypeOK
  <2> SUFFICES ASSUME Init PROVE TypeOK
    OBVIOUS
  <2>1. BoolOK
    BY Zenon DEF Init, BoolOK
  <2> QED
    BY <2>1, IdAssumption, LateAssumption
    DEF Init, TypeOK, BoolOK, Points, Errors, Registered
<1> QED
  BY <1>1, StepType, PTL DEF Spec

-----------------------------------------------------------------------------
(* A freshly constructed and initialised bus satisfies the invariant. *)
LEMMA InitInv == ASSUME MaxLate = 0 PROVE Init => IInv
<1> SUFFICES ASSUME MaxLate = 0, Init PROVE IInv
  OBVIOUS
<1>1. ~flag /\ ~waiting /\ ~transmitting /\ ~completed /\ ~kernel
  BY Zenon DEF Init
<1>2. BoolOK
  BY Zenon DEF Init, BoolOK
<1> QED
  BY <1>1, <1>2, IdAssumption, SMTT(30)
  DEF Init, IInv, TypeOK, BoolOK, Points, Waits, Errors, Recovering, Off,
      InterruptIsCurrent, Quiet, RecordIsCurrent, Aftermath, ErrorTellsBusState, Registered

(* Every step of the thread, of the hardware and of the kernel keeps it. *)
LEMMA StepInv == ASSUME MaxLate = 0, IInv, [Next]_vars PROVE IInv'
<1>0. TypeOK'
  BY StepType DEF IInv
<1> USE DEF IInv, InterruptIsCurrent, Quiet, RecordIsCurrent, Aftermath, ErrorTellsBusState,
    Off, Recovering, Waits, TypeOK, Points, Errors, vars, call, record, soft, wire
<1>1. CASE KernelStart
  BY <1>1, <1>0, SMTT(30) DEF KernelStart
<1>2. CASE CallRefused
  BY <1>2, <1>0, SMTT(30) DEF CallRefused, Refusal
<1>3. CASE Call
  <2>1. waiting' /\ transmitting' /\ ~completed'
    BY <1>3, Zenon DEF Call, Refusal, NewId
  <2> QED
    BY <1>3, <2>1, <1>0, SMTT(30) DEF Call, Refusal, NewId
<1>4. CASE ResetRecord
  BY <1>4, <1>0, SMTT(30) DEF ResetRecord
<1>5. CASE ClearFlag
  <2>1. ~flag'
    BY <1>5, Zenon DEF ClearFlag
  <2> QED
    BY <1>5, <2>1, <1>0, SMTT(30) DEF ClearFlag
<1>6. CASE Start
  BY <1>6, <1>0, SMTT(30) DEF Start
<1>7. CASE StartFails
  BY <1>7, <1>0, SMTT(30) DEF StartFails, GoFail
<1>8. CASE EnterWait
  BY <1>8, <1>0, SMTT(30) DEF EnterWait
<1>9. CASE Block
  BY <1>9, <1>0, SMTT(30) DEF Block
<1>10. CASE Expired
  BY <1>10, <1>0, SMTT(30) DEF Expired, GoFail
<1>11. CASE Wake
  <2>1. ~flag'
    BY <1>11, Zenon DEF Wake
  <2> QED
    BY <1>11, <2>1, <1>0, SMTT(30) DEF Wake
<1>12. CASE WaitTimesOut
  BY <1>12, <1>0, SMTT(30) DEF WaitTimesOut, GoFail
<1>13. CASE Discard
  BY <1>13, <1>0, SMTT(30) DEF Discard, Mine
<1>14. CASE Accept
  <2>1. ~waiting' /\ ~transmitting' /\ ~completed'
    BY <1>14, Zenon DEF Accept, Mine
  <2> QED
    BY <1>14, <2>1, <1>0, SMTT(30) DEF Accept, Mine
<1>15. CASE ReturnTrue
  BY <1>15, <1>0, SMTT(30) DEF ReturnTrue
<1>16. CASE HalReportedError
  BY <1>16, <1>0, SMTT(30) DEF HalReportedError, GoFail
<1>17. CASE WaitFails
  BY <1>17, <1>0, SMTT(30) DEF WaitFails, GoFail
<1>18. CASE Fail
  <2>1. ~waiting' /\ ~transmitting' /\ ~completed'
    BY <1>18, Zenon DEF Fail, ClearTransferState
  <2> QED
    BY <1>18, <2>1, <1>0, SMTT(30) DEF Fail, ClearTransferState
<1>19. CASE RecoverCall
  BY <1>19, <1>0, SMTT(30) DEF RecoverCall
<1>20. CASE RecoverRefused
  BY <1>20, <1>0, SMTT(30) DEF RecoverRefused, Leave
<1>21. CASE RecoverBegin
  <2>1. ~waiting' /\ ~transmitting' /\ ~completed'
    BY <1>21, Zenon DEF RecoverBegin, ClearTransferState
  <2> QED
    BY <1>21, <2>1, <1>0, SMTT(30) DEF RecoverBegin, ClearTransferState
<1>22. CASE AbortDma
  BY <1>22, <1>0, SMTT(30) DEF AbortDma, MayOutlive
<1>23. CASE DeInit
  BY <1>23, <1>0, SMTT(30) DEF DeInit, MayOutlive
<1>24. CASE ReinitFails
  BY <1>24, <1>0, SMTT(30) DEF ReinitFails, Leave
<1>25. CASE Recovered
  BY <1>25, <1>0, SMTT(30) DEF Recovered, Leave
<1>26. CASE Tick
  BY <1>26, <1>0, SMTT(30) DEF Tick
<1>27. CASE Interrupt
  <2>1. CASE Registered
    <3>1. /\ completed' /\ completed' \in BOOLEAN
          /\ flag' <=> (flag \/ waiting)
          /\ flag' \in BOOLEAN
      BY <1>27, <2>1, Zenon DEF Interrupt, Callback, CompleteFromISR
    <3> QED
      BY <1>27, <2>1, <3>1, SMTT(30) DEF Interrupt, Callback, CompleteFromISR
  <2>2. CASE ~Registered
    BY <1>27, <2>2, SMTT(30) DEF Interrupt, Callback
  <2> QED
    BY <2>1, <2>2
<1>28. ASSUME NEW o \in {"ok", "error"}, TransferEnds(o) PROVE IInv'
  BY <1>28, SMTT(30) DEF TransferEnds
<1>29. ASSUME NEW o \in {"ok", "error"}, LateInterrupt(o) PROVE IInv'
  BY <1>29 DEF LateInterrupt
<1>30. CASE StrayFlag
  <2>1. flag'
    BY <1>30, Zenon DEF StrayFlag
  <2> QED
    BY <1>30, <2>1, <1>0, SMTT(30) DEF StrayFlag
<1>31. CASE UNCHANGED vars
  BY <1>31
<1> QED
  BY <1>1, <1>2, <1>3, <1>4, <1>5, <1>6, <1>7, <1>8, <1>9, <1>10, <1>11, <1>12, <1>13,
     <1>14, <1>15, <1>16, <1>17, <1>18, <1>19, <1>20, <1>21, <1>22, <1>23, <1>24, <1>25,
     <1>26, <1>27, <1>28, <1>29, <1>30, <1>31
  DEF Next, Transfer, Recovery, Hardware

(* With no late interrupt every reachable state satisfies IInv.            *)
THEOREM Invariance == ASSUME MaxLate = 0 PROVE Spec => []IInv
BY InitInv, StepInv, PTL DEF Spec

(* A call answers TRUE only for a transfer that ended well and is over:   *)
(* waitForTransfer() believes the completion record of its own id alone.  *)
THEOREM SuccessThm == ASSUME MaxLate = 0 PROVE Spec => []SuccessIsReal
<1>1. IInv => SuccessIsReal
  BY DEF IInv, Aftermath, Off, SuccessIsReal
<1> QED
  BY <1>1, Invariance, PTL

(* A thread that waits for a recorded completion has its flag set: the     *)
(* record is written before osThreadFlagsSet() and the flag cleared before *)
(* the start, so no completion leaves the caller blocked.                  *)
THEOREM WakeupThm == ASSUME MaxLate = 0 PROVE Spec => []NoLostWakeup
<1>1. IInv => NoLostWakeup
  BY DEF IInv, RecordIsCurrent, Waits, Mine, NoLostWakeup
<1> QED
  BY <1>1, Invariance, PTL

(* A failed call leaves an error to read: recover() puts back the cause it *)
(* was entered with.                                                       *)
THEOREM FailureThm == ASSUME MaxLate = 0 PROVE Spec => []FailureKeepsItsError
<1>1. IInv => FailureKeepsItsError
  BY DEF IInv, Aftermath, Off, FailureKeepsItsError
<1> QED
  BY <1>1, Invariance, PTL

(* The error a call leaves tells in what state the HAL was left: what      *)
(* failTransfer() and recover() report of a failed recovery.               *)
THEOREM BusStateThm == ASSUME MaxLate = 0 PROVE Spec => []ErrorTellsBusState
<1>1. IInv => ErrorTellsBusState
  BY DEF IInv
<1> QED
  BY <1>1, Invariance, PTL

(* The initial states map to initial states of the blocking transfer. *)
LEMMA RefineInit == Init => Promise!Init
BY Zenon DEF Init, Promise!Init

(* Every step maps to a step of the blocking transfer or leaves it alone. *)
LEMMA RefineStep == ASSUME MaxLate = 0, IInv, [Next]_vars PROVE [Promise!Next]_(Promise!vars)
<1> USE DEF IInv, TypeOK, InterruptIsCurrent, Quiet, Off, Recovering, Waits, Points,
    vars, call, record, soft, wire
<1>1. CASE CallRefused
  <2>1. Promise!Refuse
    BY <1>1 DEF CallRefused, Promise!Refuse
  <2> QED
    BY <2>1 DEF Promise!Next
<1>2. CASE Call
  <2>1. Promise!Begin
    BY <1>2 DEF Call, Refusal, Promise!Begin
  <2> QED
    BY <2>1 DEF Promise!Next
<1>3. CASE Start
  <2>1. Promise!Start
    BY <1>3 DEF Start, Promise!Start
  <2> QED
    BY <2>1 DEF Promise!Next
<1>4. ASSUME NEW o \in {"ok", "error"}, TransferEnds(o) PROVE Promise!Next
  <2>1. Promise!End(o)
    BY <1>4 DEF TransferEnds, Promise!End
  <2> QED
    BY <2>1 DEF Promise!Next
<1>5. CASE AbortDma
  <2>1. CASE dma = "on"
    <3>1. Promise!Abort
      BY <1>5, <2>1 DEF AbortDma, Promise!Abort
    <3> QED
      BY <3>1 DEF Promise!Next
  <2>2. CASE dma = "off"
    BY <1>5, <2>2 DEF AbortDma, Promise!vars
  <2> QED
    BY <2>1, <2>2
<1>6. CASE ReturnTrue
  <2>1. Promise!Succeed
    BY <1>6 DEF ReturnTrue, RecordIsCurrent, Promise!Succeed
  <2> QED
    BY <2>1 DEF Promise!Next
<1>7. CASE RecoverRefused \/ ReinitFails \/ Recovered
  <2>1. CASE op = "transfer"
    <3>1. Promise!Fail
      BY <1>7, <2>1 DEF RecoverRefused, ReinitFails, Recovered, Leave, Promise!Fail
    <3> QED
      BY <3>1 DEF Promise!Next
  <2>2. CASE op = "recover"
    BY <1>7, <2>2 DEF RecoverRefused, ReinitFails, Recovered, Leave, Promise!vars
  <2> QED
    BY <2>1, <2>2
<1>8. CASE \/ KernelStart \/ ResetRecord \/ ClearFlag \/ StartFails \/ EnterWait \/ Block
           \/ Expired \/ Wake \/ WaitTimesOut \/ Discard \/ Accept \/ HalReportedError
           \/ WaitFails \/ Fail \/ RecoverCall \/ RecoverBegin \/ DeInit \/ Tick \/ Interrupt
           \/ StrayFlag
  BY <1>8 DEF KernelStart, ResetRecord, ClearFlag, StartFails, EnterWait, Block, Expired,
    Wake, WaitTimesOut, Discard, Accept, HalReportedError, WaitFails, GoFail, Fail,
    RecoverCall, RecoverBegin, DeInit, Tick, Interrupt, StrayFlag, Promise!vars
<1>9. ASSUME NEW o \in {"ok", "error"}, LateInterrupt(o) PROVE UNCHANGED Promise!vars
  BY <1>9 DEF LateInterrupt
<1>10. CASE UNCHANGED vars
  BY <1>10 DEF Promise!vars
<1> QED
  BY <1>1, <1>2, <1>3, <1>4, <1>5, <1>6, <1>7, <1>8, <1>9, <1>10
  DEF Next, Transfer, Recovery, Hardware

(* Every behaviour of the bus without late interrupts is a blocking        *)
(* transfer.                                                               *)
THEOREM Refinement == ASSUME MaxLate = 0 PROVE Spec => Promise!Spec
BY RefineInit, RefineStep, Invariance, PTL DEF Spec, Promise!Spec
=============================================================================
