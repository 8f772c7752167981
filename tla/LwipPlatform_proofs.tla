-------------------------- MODULE LwipPlatform_proofs --------------------------
(***************************************************************************)
(* The safety properties of the link thread for every poll delay, tick     *)
(* width, number of faults and set of modes.  Each has its own invariant:  *)
(* what the MAC really does, where a sent frame's notification is, and how *)
(* far the deadline is from the latest poll.                               *)
(***************************************************************************)
EXTENDS LwipPlatform, TLAPS

(* mac_started_ and applied_state_ tell what the hardware does. *)
MacKnown == mac = IF macStarted THEN applied ELSE "off"

(* Only Initialize finds the interface up without a MAC behind it. *)
UpIsBacked ==
  /\ up /\ pc \notin {"none", "born", "initialize"} => macStarted
  /\ pc \in {"report", "gone"} => ~up

(* From its creation until fail(), interrupts find the thread; a frame     *)
(* that was sent is in a flag, or in those the thread is about to serve.   *)
TxIsNotified ==
  /\ published = (pc \notin {"none", "born", "down", "report", "gone"})
  /\ got # {} => pc = "serve"
  /\ pc \in {"none", "born"} => ~macStarted /\ ~done
  /\ published /\ done => "Tx" \in flags \cup got

(* What the tick leaves of a deadline k after the latest poll. *)
Left(k) == IF since <= k THEN k - since ELSE TickRange + k - since

(* The deadline is a delay after the latest poll, or was its own beginning *)
(* when none was made yet.  The thread is late by the ticks it was not     *)
(* blocked in; a wait ends no later than the deadline and that.            *)
OnDeadline ==
  /\ ~periodic => since = 0
  /\ periodic => \E k \in {0, PollDelay} : remaining = Left(k) /\ since <= k + spent
  /\ periodic /\ pc = "wait" =>
       /\ timeout \in 0 .. PollDelay /\ since + timeout = PollDelay + spent
       /\ remaining = Left(PollDelay)

IInv == TypeOK /\ MacKnown /\ UpIsBacked /\ TxIsNotified /\ OnDeadline

(* Zenon types the Boolean variables, SMT the others: neither does both. *)
BoolOK ==
  /\ hasPin \in BOOLEAN /\ dropped \in BOOLEAN /\ events \in BOOLEAN /\ output \in BOOLEAN
  /\ edge \in BOOLEAN /\ registered \in BOOLEAN /\ changed \in BOOLEAN
  /\ published \in BOOLEAN /\ hooked \in BOOLEAN /\ periodic \in BOOLEAN
  /\ macStarted \in BOOLEAN /\ up \in BOOLEAN /\ done \in BOOLEAN

(* Every step keeps the flags Boolean, *)
LEMMA StepBool == ASSUME BoolOK, [Next]_vars PROVE BoolOK'
<1>. USE DEF BoolOK, vars, thread, notify, timer, stack, phy, cable, chip, driver, out
<1>1. CASE Start
  BY <1>1, Zenon DEF Start
<1>2. CASE Publish
  BY <1>2, Zenon DEF Publish
<1>3. CASE Initialize
  BY <1>3, Zenon DEF Initialize, CallStart, Then, PhyIdle
<1>4. CASE PhyStarted
  BY <1>4, Zenon DEF PhyStarted, Fail, Used, PhyIdle
<1>5. CASE Hook
  BY <1>5, Zenon DEF Hook
<1>6. CASE Acknowledge
  BY <1>6, Zenon DEF Acknowledge, CallAcknowledge, Then, PhyIdle
<1>7. CASE Acknowledged
  BY <1>7, Zenon DEF Acknowledged, Fail, Used, GoOn, PhyIdle
<1>8. CASE Poll
  BY <1>8, Zenon DEF Poll, CallReadLink, Then, PhyIdle
<1>9. CASE ApplySame
  BY <1>9, Zenon DEF ApplySame, LinkUp, PollEnds, GoOn, Used, PhyIdle
<1>10. CASE ApplyMode
  BY <1>10, Zenon DEF ApplyMode, LinkUp, PollEnds, GoOn, Used, PhyIdle
<1>11. CASE SwitchFails
  BY <1>11, Zenon
  DEF SwitchFails, LinkUp, Fault, PollFails, Fail, Used, MacOff, MacStops, PhyIdle
<1>12. CASE Head
  BY <1>12, ZenonT(30) DEF Head
<1>13. CASE Recheck
  BY <1>13, Zenon DEF Recheck, InterruptAsserted
<1>14. CASE Deadline
  BY <1>14, Zenon DEF Deadline, Due
<1>15. CASE Wake
  BY <1>15, Zenon DEF Wake
<1>16. CASE WaitTimesOut
  BY <1>16, Zenon DEF WaitTimesOut
<1>17. CASE WaitFails
  BY <1>17, Zenon DEF WaitFails, Fault, Fail
<1>18. CASE Serve
  BY <1>18, Zenon DEF Serve
<1>19. CASE Unhook
  BY <1>19, Zenon DEF Unhook
<1>20. CASE Forget
  BY <1>20, Zenon DEF Forget
<1>21. CASE TakeDown
  BY <1>21, Zenon DEF TakeDown
<1>22. CASE Report
  BY <1>22, Zenon DEF Report
<1>23. CASE Exti
  BY <1>23, Zenon DEF Exti
<1>24. CASE TxComplete
  BY <1>24, Zenon DEF TxComplete
<1>25. CASE Tick
  BY <1>25, Zenon DEF Tick, Less
<1>26. CASE Cable
  BY <1>26, Zenon DEF Cable, LinkChanges
<1>27. CASE StartFails /\ UNCHANGED <<thread, notify, got, timer, stack, spent, since>>
  BY <1>27, Zenon DEF StartFails, Fault, Return
<1>28. CASE SetUp /\ UNCHANGED <<thread, notify, got, timer, stack, spent, since>>
  BY <1>28, Zenon DEF SetUp
<1>29. CASE ClearEvents /\ UNCHANGED <<thread, notify, got, timer, stack, spent, since>>
  BY <1>29, Zenon DEF ClearEvents, Then
<1>30. CASE EnableOutput /\ UNCHANGED <<thread, notify, got, timer, stack, spent, since>>
  BY <1>30, Zenon DEF EnableOutput, Then
<1>31. CASE RegisterExti /\ UNCHANGED <<thread, notify, got, timer, stack, spent, since>>
  BY <1>31, Zenon DEF RegisterExti, Return
<1>32. CASE ReadFails /\ UNCHANGED <<thread, notify, got, timer, stack, spent, since>>
  BY <1>32, Zenon DEF ReadFails, Fault, Return
<1>33. CASE ReadBmsr /\ UNCHANGED <<thread, notify, got, timer, stack, spent, since>>
  BY <1>33, Zenon DEF ReadBmsr, Then, ReadsBmsr
<1>34. CASE ReadBmsrAgain /\ UNCHANGED <<thread, notify, got, timer, stack, spent, since>>
  BY <1>34, Zenon DEF ReadBmsrAgain, Then, Return, ReadsBmsr
<1>35. CASE ReadPhysts /\ UNCHANGED <<thread, notify, got, timer, stack, spent, since>>
  BY <1>35, Zenon DEF ReadPhysts, Then, Return
<1>36. CASE ReadBmcr /\ UNCHANGED <<thread, notify, got, timer, stack, spent, since>>
  BY <1>36, Zenon DEF ReadBmcr, Return
<1>37. CASE ReadMisr1 /\ UNCHANGED <<thread, notify, got, timer, stack, spent, since>>
  BY <1>37, Zenon DEF ReadMisr1, Then
<1>38. CASE ReadMisr2 /\ UNCHANGED <<thread, notify, got, timer, stack, spent, since>>
  BY <1>38, Zenon DEF ReadMisr2, Return
<1>39. ASSUME NEW error \in {"Ok", "PhyReadError"}, ApplyDown(error) PROVE BoolOK'
  BY <1>39, Zenon
  DEF ApplyDown, LinkLost, MacOff, MacStops, Tolerated, PollEnds, PollFails, GoOn, Fail,
      Used, PhyIdle, Fault
<1>40. ASSUME NEW error \in {"Ok", "PhyReadError"}, StopFails(error) PROVE BoolOK'
  BY <1>40, Zenon DEF StopFails, LinkLost, Fault, PollFails, Fail, Used, PhyIdle
<1>41. CASE UNCHANGED vars
  BY <1>41 DEF vars
<1>. QED
  BY <1>1, <1>2, <1>3, <1>4, <1>5, <1>6, <1>7, <1>8, <1>9, <1>10, <1>11, <1>12, <1>13,
     <1>14, <1>15, <1>16, <1>17, <1>18, <1>19, <1>20, <1>21, <1>22, <1>23, <1>24, <1>25,
     <1>26, <1>27, <1>28, <1>29, <1>30, <1>31, <1>32, <1>33, <1>34, <1>35, <1>36,
     <1>37, <1>38, <1>39, <1>40, <1>41
  DEF Next, Thread, Driver, PhyStep

(* and every other variable in its type: access counters at their bound, *)
(* the tick inside its range.                                              *)
LEMMA StepType == ASSUME TypeOK, BoolOK', [Next]_vars PROVE TypeOK'
<1>. USE TickAssumption, PhyAssumption DEF BoolOK, TypeOK, PhyTypeOK, Links, Failing,
    Forever, vars, thread, notify, timer, stack, phy, cable, chip, driver, out
<1>1. CASE Start
  BY <1>1 DEF Start
<1>2. CASE Publish
  BY <1>2 DEF Publish
<1>3. CASE Initialize
  BY <1>3 DEF Initialize, CallStart, Then, PhyIdle
<1>4. CASE PhyStarted
  BY <1>4 DEF PhyStarted, Fail, Used, PhyIdle
<1>5. CASE Hook
  BY <1>5 DEF Hook
<1>6. CASE Acknowledge
  BY <1>6 DEF Acknowledge, CallAcknowledge, Then, PhyIdle
<1>7. CASE Acknowledged
  BY <1>7 DEF Acknowledged, Fail, Used, GoOn, PhyIdle
<1>8. CASE Poll
  BY <1>8 DEF Poll, CallReadLink, Then, PhyIdle
<1>9. CASE ApplySame
  BY <1>9 DEF ApplySame, LinkUp, PollEnds, GoOn, Used, PhyIdle
<1>10. CASE ApplyMode
  BY <1>10 DEF ApplyMode, LinkUp, PollEnds, GoOn, Used, PhyIdle
<1>11. CASE SwitchFails
  <2>1. /\ up' = FALSE /\ UNCHANGED <<applied, done>>
        /\ faults' = faults + 1 /\ faults < MaxFaults
        /\ mac' \in {mac, "off"}
        /\ PollFails("MacStopError") \/ PollFails("MacStartError")
    BY <1>11 DEF SwitchFails, MacOff, MacStops, Fault
  <2>2. faults' \in 0 .. MaxFaults
    BY <2>1
  <2>3. PICK error \in {"MacStopError", "MacStartError"} : PollFails(error)
    BY <2>1
  <2>. QED
    BY <2>1, <2>2, <2>3 DEF PollFails, Fail, Used
<1>12. CASE Head
  BY <1>12 DEF Head
<1>13. CASE Recheck
  BY <1>13 DEF Recheck, InterruptAsserted
<1>14. CASE Deadline
  BY <1>14 DEF Deadline, Due
<1>15. CASE Wake
  BY <1>15 DEF Wake
<1>16. CASE WaitTimesOut
  BY <1>16 DEF WaitTimesOut
<1>17. CASE WaitFails
  BY <1>17 DEF WaitFails, Fault, Fail
<1>18. CASE Serve
  <2>1. CASE "Tx" \in got
    BY <1>18, <2>1 DEF Serve
  <2>2. CASE "Tx" \notin got
    BY <1>18, <2>2 DEF Serve
  <2>. QED
    BY <2>1, <2>2
<1>19. CASE Unhook
  BY <1>19 DEF Unhook
<1>20. CASE Forget
  BY <1>20 DEF Forget
<1>21. CASE TakeDown
  BY <1>21 DEF TakeDown
<1>22. CASE Report
  BY <1>22 DEF Report
<1>23. CASE Exti
  BY <1>23 DEF Exti
<1>24. CASE TxComplete
  BY <1>24 DEF TxComplete
<1>25. CASE Tick
  BY <1>25 DEF Tick, Less
<1>26. CASE Cable
  BY <1>26 DEF Cable, LinkChanges
<1>27. CASE Driver
  BY <1>27
  DEF Driver, PhyStep, StartFails, SetUp, ClearEvents, EnableOutput, RegisterExti,
      ReadFails, ReadBmsr, ReadBmsrAgain, ReadPhysts, ReadBmcr, ReadMisr1, ReadMisr2,
      ReadsBmsr, LinkBit, Then, Return, Fault
<1>28. ASSUME NEW error \in {"Ok", "PhyReadError"}, ApplyDown(error) PROVE TypeOK'
  <2>1. /\ up' = FALSE /\ done' = FALSE /\ UNCHANGED applied /\ mac' \in {mac, "off"}
        /\ PollEnds \/ (PollFails(error) /\ UNCHANGED faults)
    BY <1>28 DEF ApplyDown, LinkLost, MacOff, MacStops
  <2>2. CASE PollEnds
    BY <2>1, <2>2 DEF PollEnds, GoOn, Used
  <2>3. CASE PollFails(error) /\ UNCHANGED faults
    BY <2>1, <2>3 DEF PollFails, Fail, Used
  <2>. QED
    BY <2>1, <2>2, <2>3
<1>29. ASSUME NEW error \in {"Ok", "PhyReadError"}, StopFails(error) PROVE TypeOK'
  BY <1>29 DEF StopFails, LinkLost, Fault, PollFails, Fail, Used, PhyIdle
<1>30. CASE UNCHANGED vars
  BY <1>30 DEF vars
<1>. QED
  BY <1>1, <1>2, <1>3, <1>4, <1>5, <1>6, <1>7, <1>8, <1>9, <1>10, <1>11, <1>12, <1>13,
     <1>14, <1>15, <1>16, <1>17, <1>18, <1>19, <1>20, <1>21, <1>22, <1>23, <1>24, <1>25,
     <1>26, <1>27, <1>28, <1>29, <1>30
  DEF Next, Thread


(* Only poll() switches the MAC, and it notes what it did, failures        *)
(* included.                                                               *)
LEMMA StepMac == ASSUME MacKnown, [Next]_vars PROVE MacKnown'
<1>. USE DEF MacKnown, vars, thread, notify, timer, stack, phy, cable, chip, driver, out
<1>1. CASE Start
  BY <1>1 DEF Start
<1>2. CASE Publish
  BY <1>2 DEF Publish
<1>3. CASE Initialize
  BY <1>3 DEF Initialize, CallStart, Then, PhyIdle
<1>4. CASE PhyStarted
  BY <1>4 DEF PhyStarted, Fail, Used, PhyIdle
<1>5. CASE Hook
  BY <1>5 DEF Hook
<1>6. CASE Acknowledge
  BY <1>6 DEF Acknowledge, CallAcknowledge, Then, PhyIdle
<1>7. CASE Acknowledged
  BY <1>7 DEF Acknowledged, Fail, Used, GoOn, PhyIdle
<1>8. CASE Poll
  BY <1>8 DEF Poll, CallReadLink, Then, PhyIdle
<1>9. CASE ApplySame
  BY <1>9 DEF ApplySame, LinkUp, PollEnds, GoOn, Used, PhyIdle
<1>10. CASE ApplyMode
  BY <1>10 DEF ApplyMode, LinkUp, PollEnds, GoOn, Used, PhyIdle
<1>11. CASE SwitchFails
  BY <1>11
  DEF SwitchFails, LinkUp, Fault, PollFails, Fail, Used, MacOff, MacStops, PhyIdle
<1>12. CASE Head
  BY <1>12 DEF Head
<1>13. CASE Recheck
  BY <1>13 DEF Recheck, InterruptAsserted
<1>14. CASE Deadline
  BY <1>14 DEF Deadline, Due
<1>15. CASE Wake
  BY <1>15 DEF Wake
<1>16. CASE WaitTimesOut
  BY <1>16 DEF WaitTimesOut
<1>17. CASE WaitFails
  BY <1>17 DEF WaitFails, Fault, Fail
<1>18. CASE Serve
  BY <1>18 DEF Serve
<1>19. CASE Unhook
  BY <1>19 DEF Unhook
<1>20. CASE Forget
  BY <1>20 DEF Forget
<1>21. CASE TakeDown
  BY <1>21 DEF TakeDown
<1>22. CASE Report
  BY <1>22 DEF Report
<1>23. CASE Exti
  BY <1>23 DEF Exti
<1>24. CASE TxComplete
  BY <1>24 DEF TxComplete
<1>25. CASE Tick
  BY <1>25 DEF Tick, Less
<1>26. CASE Cable
  BY <1>26 DEF Cable, LinkChanges
<1>27. CASE Driver
  BY <1>27 DEF Driver
<1>28. ASSUME NEW error \in {"Ok", "PhyReadError"}, ApplyDown(error) PROVE MacKnown'
  BY <1>28
  DEF ApplyDown, LinkLost, MacOff, MacStops, Tolerated, PollEnds, PollFails, GoOn, Fail,
      Used, PhyIdle, Fault
<1>29. ASSUME NEW error \in {"Ok", "PhyReadError"}, StopFails(error) PROVE MacKnown'
  BY <1>29 DEF StopFails, LinkLost, Fault, PollFails, Fail, Used, PhyIdle
<1>30. CASE UNCHANGED vars
  BY <1>30 DEF vars
<1>. QED
  BY <1>1, <1>2, <1>3, <1>4, <1>5, <1>6, <1>7, <1>8, <1>9, <1>10, <1>11, <1>12, <1>13,
     <1>14, <1>15, <1>16, <1>17, <1>18, <1>19, <1>20, <1>21, <1>22, <1>23, <1>24, <1>25,
     <1>26, <1>27, <1>28, <1>29, <1>30
  DEF Next, Thread

(* The interface goes up with the MAC running alone, and down before it    *)
(* stops.                                                                  *)
LEMMA StepUp == ASSUME UpIsBacked, [Next]_vars PROVE UpIsBacked'
<1>. USE DEF UpIsBacked, vars, thread, notify, timer, stack, phy, cable, chip, driver, out
<1>1. CASE Start
  BY <1>1 DEF Start
<1>2. CASE Publish
  BY <1>2 DEF Publish
<1>3. CASE Initialize
  BY <1>3 DEF Initialize, CallStart, Then, PhyIdle
<1>4. CASE PhyStarted
  BY <1>4 DEF PhyStarted, Fail, Used, PhyIdle
<1>5. CASE Hook
  BY <1>5 DEF Hook
<1>6. CASE Acknowledge
  BY <1>6 DEF Acknowledge, CallAcknowledge, Then, PhyIdle
<1>7. CASE Acknowledged
  BY <1>7 DEF Acknowledged, Fail, Used, GoOn, PhyIdle
<1>8. CASE Poll
  BY <1>8 DEF Poll, CallReadLink, Then, PhyIdle
<1>9. CASE ApplySame
  BY <1>9 DEF ApplySame, LinkUp, PollEnds, GoOn, Used, PhyIdle
<1>10. CASE ApplyMode
  BY <1>10 DEF ApplyMode, LinkUp, PollEnds, GoOn, Used, PhyIdle
<1>11. CASE SwitchFails
  BY <1>11
  DEF SwitchFails, LinkUp, Fault, PollFails, Fail, Used, MacOff, MacStops, PhyIdle
<1>12. CASE Head
  BY <1>12 DEF Head
<1>13. CASE Recheck
  BY <1>13 DEF Recheck, InterruptAsserted
<1>14. CASE Deadline
  BY <1>14 DEF Deadline, Due
<1>15. CASE Wake
  BY <1>15 DEF Wake
<1>16. CASE WaitTimesOut
  BY <1>16 DEF WaitTimesOut
<1>17. CASE WaitFails
  BY <1>17 DEF WaitFails, Fault, Fail
<1>18. CASE Serve
  BY <1>18 DEF Serve
<1>19. CASE Unhook
  BY <1>19 DEF Unhook
<1>20. CASE Forget
  BY <1>20 DEF Forget
<1>21. CASE TakeDown
  BY <1>21 DEF TakeDown
<1>22. CASE Report
  BY <1>22 DEF Report
<1>23. CASE Exti
  BY <1>23 DEF Exti
<1>24. CASE TxComplete
  BY <1>24 DEF TxComplete
<1>25. CASE Tick
  BY <1>25 DEF Tick, Less
<1>26. CASE Cable
  BY <1>26 DEF Cable, LinkChanges
<1>27. CASE Driver
  BY <1>27 DEF Driver
<1>28. ASSUME NEW error \in {"Ok", "PhyReadError"}, ApplyDown(error) PROVE UpIsBacked'
  BY <1>28
  DEF ApplyDown, LinkLost, MacOff, MacStops, Tolerated, PollEnds, PollFails, GoOn, Fail,
      Used, PhyIdle, Fault
<1>29. ASSUME NEW error \in {"Ok", "PhyReadError"}, StopFails(error) PROVE UpIsBacked'
  BY <1>29 DEF StopFails, LinkLost, Fault, PollFails, Fail, Used, PhyIdle
<1>30. CASE UNCHANGED vars
  BY <1>30 DEF vars
<1>. QED
  BY <1>1, <1>2, <1>3, <1>4, <1>5, <1>6, <1>7, <1>8, <1>9, <1>10, <1>11, <1>12, <1>13,
     <1>14, <1>15, <1>16, <1>17, <1>18, <1>19, <1>20, <1>21, <1>22, <1>23, <1>24, <1>25,
     <1>26, <1>27, <1>28, <1>29, <1>30
  DEF Next, Thread

(* A notification goes from the interrupt to the flags, from the flags to  *)
(* the thread, and is dropped only once the buffers are released.          *)
LEMMA StepTx == ASSUME TypeOK, MacKnown, TxIsNotified, [Next]_vars PROVE TxIsNotified'
<1>. USE DEF MacKnown, TxIsNotified, vars, thread, notify, timer, stack, phy, cable,
    chip, driver, out
<1>1. CASE Start
  BY <1>1 DEF Start
<1>2. CASE Publish
  BY <1>2 DEF Publish
<1>3. CASE Initialize
  BY <1>3 DEF Initialize, CallStart, Then, PhyIdle
<1>4. CASE PhyStarted
  BY <1>4 DEF PhyStarted, Fail, Used, PhyIdle
<1>5. CASE Hook
  BY <1>5 DEF Hook
<1>6. CASE Acknowledge
  BY <1>6 DEF Acknowledge, CallAcknowledge, Then, PhyIdle
<1>7. CASE Acknowledged
  BY <1>7 DEF Acknowledged, Fail, Used, GoOn, PhyIdle
<1>8. CASE Poll
  BY <1>8 DEF Poll, CallReadLink, Then, PhyIdle
<1>9. CASE ApplySame
  BY <1>9 DEF ApplySame, LinkUp, PollEnds, GoOn, Used, PhyIdle
<1>10. CASE ApplyMode
  BY <1>10 DEF ApplyMode, LinkUp, PollEnds, GoOn, Used, PhyIdle
<1>11. CASE SwitchFails
  BY <1>11
  DEF SwitchFails, LinkUp, Fault, PollFails, Fail, Used, MacOff, MacStops, PhyIdle
<1>12. CASE Head
  BY <1>12 DEF Head
<1>13. CASE Recheck
  BY <1>13 DEF Recheck, InterruptAsserted
<1>14. CASE Deadline
  BY <1>14 DEF Deadline, Due
<1>15. CASE Wake
  BY <1>15 DEF Wake
<1>16. CASE WaitTimesOut
  BY <1>16 DEF WaitTimesOut
<1>17. CASE WaitFails
  BY <1>17 DEF WaitFails, Fault, Fail
<1>18. CASE Serve
  BY <1>18 DEF Serve
<1>19. CASE Unhook
  BY <1>19 DEF Unhook
<1>20. CASE Forget
  BY <1>20 DEF Forget
<1>21. CASE TakeDown
  BY <1>21 DEF TakeDown
<1>22. CASE Report
  BY <1>22 DEF Report
<1>23. CASE Exti
  BY <1>23 DEF Exti
<1>24. CASE TxComplete
  BY <1>24 DEF TxComplete
<1>25. CASE Tick
  BY <1>25 DEF Tick, Less
<1>26. CASE Cable
  BY <1>26 DEF Cable, LinkChanges
<1>27. CASE Driver
  BY <1>27 DEF Driver
<1>28. ASSUME NEW error \in {"Ok", "PhyReadError"}, ApplyDown(error) PROVE TxIsNotified'
  BY <1>28
  DEF ApplyDown, LinkLost, MacOff, MacStops, Tolerated, PollEnds, PollFails, GoOn, Fail,
      Used, PhyIdle, Fault
<1>29. ASSUME NEW error \in {"Ok", "PhyReadError"}, StopFails(error) PROVE TxIsNotified'
  BY <1>29 DEF StopFails, LinkLost, Fault, PollFails, Fail, Used, PhyIdle
<1>30. CASE UNCHANGED vars
  BY <1>30 DEF vars
<1>. QED
  BY <1>1, <1>2, <1>3, <1>4, <1>5, <1>6, <1>7, <1>8, <1>9, <1>10, <1>11, <1>12, <1>13,
     <1>14, <1>15, <1>16, <1>17, <1>18, <1>19, <1>20, <1>21, <1>22, <1>23, <1>24, <1>25,
     <1>26, <1>27, <1>28, <1>29, <1>30
  DEF Next, Thread

(* A tick takes one from the deadline, modulo the range of the clock; a    *)
(* wait begins with what is left of it and a poll sets it anew.            *)
LEMMA StepDeadline == ASSUME TypeOK, OnDeadline, [Next]_vars PROVE OnDeadline'
<1>. USE TickAssumption DEF TypeOK, OnDeadline, Left, Failing, Forever, vars, thread,
    notify, timer, stack, phy, cable, chip, driver, out
<1>1. CASE Start
  BY <1>1 DEF Start
<1>2. CASE Publish
  BY <1>2 DEF Publish
<1>3. CASE Initialize
  BY <1>3 DEF Initialize, CallStart, Then, PhyIdle
<1>4. CASE PhyStarted
  BY <1>4 DEF PhyStarted, Fail, Used, PhyIdle
<1>5. CASE Hook
  BY <1>5 DEF Hook
<1>6. CASE Acknowledge
  BY <1>6 DEF Acknowledge, CallAcknowledge, Then, PhyIdle
<1>7. CASE Acknowledged
  BY <1>7 DEF Acknowledged, Fail, Used, GoOn, PhyIdle
<1>8. CASE Poll
  BY <1>8 DEF Poll, CallReadLink, Then, PhyIdle
<1>9. CASE ApplySame
  BY <1>9 DEF ApplySame, LinkUp, PollEnds, GoOn, Used, PhyIdle
<1>10. CASE ApplyMode
  BY <1>10 DEF ApplyMode, LinkUp, PollEnds, GoOn, Used, PhyIdle
<1>11. CASE SwitchFails
  BY <1>11
  DEF SwitchFails, LinkUp, Fault, PollFails, Fail, Used, MacOff, MacStops, PhyIdle
<1>12. CASE Head
  BY <1>12 DEF Head
<1>13. CASE Recheck
  <2>1. CASE InterruptAsserted /\ ~periodic
    BY <1>13, <2>1 DEF Recheck
  <2>2. CASE InterruptAsserted /\ periodic
    BY <1>13, <2>2 DEF Recheck
  <2>3. CASE ~InterruptAsserted
    BY <1>13, <2>3 DEF Recheck
  <2>. QED
    BY <2>1, <2>2, <2>3
<1>14. CASE Deadline
  BY <1>14 DEF Deadline, Due
<1>15. CASE Wake
  BY <1>15 DEF Wake
<1>16. CASE WaitTimesOut
  BY <1>16 DEF WaitTimesOut
<1>17. CASE WaitFails
  BY <1>17 DEF WaitFails, Fault, Fail
<1>18. CASE Serve
  BY <1>18 DEF Serve
<1>19. CASE Unhook
  BY <1>19 DEF Unhook
<1>20. CASE Forget
  BY <1>20 DEF Forget
<1>21. CASE TakeDown
  BY <1>21 DEF TakeDown
<1>22. CASE Report
  BY <1>22 DEF Report
<1>23. CASE Exti
  BY <1>23 DEF Exti
<1>24. CASE TxComplete
  BY <1>24 DEF TxComplete
<1>25. CASE Tick
  BY <1>25 DEF Tick, Less
<1>26. CASE Cable
  BY <1>26 DEF Cable, LinkChanges
<1>27. CASE Driver
  BY <1>27 DEF Driver
<1>28. ASSUME NEW error \in {"Ok", "PhyReadError"}, ApplyDown(error) PROVE OnDeadline'
  BY <1>28
  DEF ApplyDown, LinkLost, MacOff, MacStops, Tolerated, PollEnds, PollFails, GoOn, Fail,
      Used, PhyIdle, Fault
<1>29. ASSUME NEW error \in {"Ok", "PhyReadError"}, StopFails(error) PROVE OnDeadline'
  BY <1>29 DEF StopFails, LinkLost, Fault, PollFails, Fail, Used, PhyIdle
<1>30. CASE UNCHANGED vars
  BY <1>30 DEF vars
<1>. QED
  BY <1>1, <1>2, <1>3, <1>4, <1>5, <1>6, <1>7, <1>8, <1>9, <1>10, <1>11, <1>12, <1>13,
     <1>14, <1>15, <1>16, <1>17, <1>18, <1>19, <1>20, <1>21, <1>22, <1>23, <1>24, <1>25,
     <1>26, <1>27, <1>28, <1>29, <1>30
  DEF Next, Thread

-----------------------------------------------------------------------------
(* A platform that was not started yet satisfies the invariant. *)
LEMMA InitInv == Init => BoolOK /\ IInv
<1>. SUFFICES ASSUME Init PROVE BoolOK /\ IInv
  OBVIOUS
<1>1. BoolOK
  BY Zenon DEF Init, PhyInit, BoolOK
<1>2. TypeOK
  BY <1>1, TickAssumption, PhyAssumption
  DEF Init, PhyInit, BoolOK, TypeOK, PhyTypeOK, Links, Failing, Forever
<1>3. MacKnown /\ UpIsBacked
  BY DEF Init, MacKnown, UpIsBacked
<1>4. TxIsNotified /\ OnDeadline
  BY DEF Init, TxIsNotified, OnDeadline
<1>. QED
  BY <1>1, <1>2, <1>3, <1>4 DEF IInv

(* Every step of the thread, the driver, the interrupts and the clock     *)
(* keeps all of it.                                                        *)
LEMMA StepInv == ASSUME BoolOK, IInv, [Next]_vars PROVE BoolOK' /\ IInv'
<1>1. BoolOK' /\ TypeOK'
  BY StepBool, StepType DEF IInv
<1>. QED
  BY <1>1, StepMac, StepUp, StepTx, StepDeadline DEF IInv

(* Every reachable state of the link thread satisfies the invariant.       *)
THEOREM LinkInvariance == Spec => []IInv
<1>1. Spec => [](BoolOK /\ IInv)
  BY InitInv, StepInv, PTL DEF Spec
<1>. QED
  BY <1>1, PTL

(* The interface is up only with the MAC running in the applied mode and   *)
(* a thread that follows the link, whatever failed (poll(), fail()).       *)
THEOREM UpMeansRunningThm == Spec => []UpMeansRunning
<1>1. IInv => UpMeansRunning
  BY DEF IInv, MacKnown, UpIsBacked, UpMeansRunning
<1>. QED
  BY <1>1, LinkInvariance, PTL

(* A blocked thread has been told of every frame that was sent: between    *)
(* osThreadFlagsWait() and the next, no notification is lost (run()).      *)
THEOREM NoTxForgottenThm == Spec => []NoTxForgotten
<1>1. IInv => NoTxForgotten
  BY DEF IInv, TxIsNotified, NoTxForgotten
<1>. QED
  BY <1>1, LinkInvariance, PTL

(* No more than the delay and the thread's own lateness lies between two   *)
(* polls, for every width of the tick (run()).                             *)
THEOREM PollsOnTimeThm == Spec => []PollsOnTime
<1>1. IInv => PollsOnTime
  BY TickAssumption DEF IInv, TypeOK, OnDeadline, PollsOnTime
<1>. QED
  BY <1>1, LinkInvariance, PTL

=============================================================================
