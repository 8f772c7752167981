--------------------------- MODULE I2CUpdateManager ---------------------------
(***************************************************************************)
(* services/i2c_update_manager: one thread serves every periodic device of *)
(* one I2C bus, the earliest due first.  The application registers the     *)
(* devices, starts and stops the thread; each device runs Trigger -> Wait  *)
(* -> Read, and its Wait gives the bus to the others.                      *)
(*                                                                         *)
(* Times are HAL ticks (ms) that wrap at TickRange.  The clock runs at     *)
(* every control point of the thread; a device hook is a control point.    *)
(* What a device reads, whether it counts as online or valid, its failure  *)
(* count and the timestamps of its accesses are left out, and trigger_ms_  *)
(* and cycle_start_ms are 0 outside a round, where the code never reads    *)
(* them.                                                                   *)
(***************************************************************************)
EXTENDS Integers, Sequences, FiniteSets

CONSTANTS
  Devices, None,
  MaxDevices,   \* I2CUpdateManager::MaxDevices
  Period, Phase, Conversion,  \* period_ms, phase_ms, conversionMs() by device
  MaxSleep,     \* Config::max_sleep_ms
  TickRange,    \* HAL_GetTick() wraps here (2^32 in the code)
  TickFreq,     \* osKernelGetTickFreq(): kernel ticks in 1000 HAL ticks
  MaxBusy,      \* bound: ticks one turn of the loop may take, its sleep apart
  MaxLag        \* bound: ticks a device may be overdue

ASSUME DevicesAssumption ==
  /\ None \notin Devices
  /\ Period \in [Devices -> Nat \ {0}]
  /\ Phase \in [Devices -> Nat] /\ Conversion \in [Devices -> Nat]
ASSUME BoundsAssumption ==
  /\ MaxDevices \in Nat /\ MaxSleep \in Nat /\ MaxBusy \in Nat /\ MaxLag \in Nat
  /\ TickRange \in Nat /\ TickRange > 1 /\ TickFreq \in Nat \ {0}

(* What the rounding to kernel ticks adds to a sleep at most: a tick of    *)
(* theirs, in ticks of the HAL.                                            *)
Oversleep == (998 + TickFreq) \div TickFreq

(* How late a thread that slept may look at the clock again. *)
WakeLag == MaxBusy + Oversleep

(* A due time that is over and one to come lie less than half a range      *)
(* apart: tickReached() takes the sign of their difference.                *)
ASSUME SpanAssumption ==
  \A d \in Devices, b \in {MaxLag, WakeLag} :
    \A a \in {Period[d], Phase[d], Conversion[d]} : 2 * (a + b) < TickRange

VARIABLES
  clock,      \* HAL_GetTick()
  runFlag,    \* run_flag_
  handle,     \* task_handle_ is not null
  app,        \* where the application stands in start()
  worker,     \* where the thread stands in run(), "none" when there is none
  table,      \* entries_[0 .. entry_count_ - 1], by their devices
  entry,      \* the scheduling fields of each entry
  device,     \* the state of each I2CDevice
  now,        \* now_ms of the current turn
  current,    \* the entry being served
  wake,       \* when osDelay() ends
  spent,      \* ticks of the current turn
  origin,     \* ghost: the first due time of each entry, modulo its period
  waited      \* ghost: ticks since each device's trigger was sent

scheduler == <<runFlag, handle, app, table>>
turn      == <<now, current, wake>>
vars      == <<clock, scheduler, worker, entry, device, turn, spent, origin, waited>>

Sub(a, b) == (a - b) % TickRange

Add(a, b) == (a + b) % TickRange

(* now_ms is at or after due_ms, in the half of the range behind it. *)
TickReached(t, dueMs) == 2 * Sub(t, dueMs) < TickRange

Registered == {table[i] : i \in DOMAIN table}

Ready(t) == {d \in Registered : TickReached(t, entry[d].due)}

(* selectReadyEntry() keeps the later entry of two that are due together. *)
Selected(t, d) ==
  LET Place(e) == CHOOSE i \in DOMAIN table : table[i] = e
  IN  /\ d \in Ready(t)
      /\ \A e \in Ready(t) \ {d} :
           IF Place(e) < Place(d) THEN TickReached(entry[e].due, entry[d].due)
                                  ELSE ~TickReached(entry[d].due, entry[e].due)

SleepMs(t) ==
  LET waits == {MaxSleep} \cup {Sub(entry[d].due, t) : d \in Registered}
      least == CHOOSE w \in waits : \A v \in waits : w <= v
  IN  IF least = 0 THEN 1 ELSE least

(* Rounded up. A kernel that runs has a tick: the branch for a frequency   *)
(* of 0 is left out, and the one for 0 ms, which SleepMs never is.         *)
KernelTicksFromMs(ms) == (ms * TickFreq + 999) \div 1000

(* osDelay(n) ends with the n-th kernel tick to come, of which the first   *)
(* may come at once; this is how many HAL ticks can pass until then.       *)
DelayMs(n) == ((n - 1) * 1000) \div TickFreq .. (n * 1000 + TickFreq - 1) \div TickFreq

Init ==
  /\ clock = 0
  /\ runFlag = FALSE /\ handle = FALSE /\ app = "idle" /\ worker = "none"
  /\ table = <<>>
  /\ entry = [d \in Devices |->
       [due |-> 0, cycleStart |-> 0, initialized |-> FALSE, pending |-> FALSE]]
  /\ device = [d \in Devices |->
       [phase |-> "Trigger", triggerMs |-> 0]]
  /\ now = 0 /\ current = None /\ wake = 0 /\ spent = 0
  /\ origin = [d \in Devices |-> 0] /\ waited = [d \in Devices |-> 0]

-----------------------------------------------------------------------------
(* The application. *)

(* registerDevice(), each device once. *)
Register(d) ==
  /\ app = "idle"
  /\ ~runFlag /\ ~handle
  /\ Len(table) < MaxDevices /\ d \notin Registered
  /\ table' = Append(table, d)
  /\ entry' = [entry EXCEPT ![d].due = Add(clock, Phase[d])]
  /\ origin' = [origin EXCEPT ![d] = Add(clock, Phase[d]) % Period[d]]
  /\ UNCHANGED <<clock, runFlag, handle, app, worker, device, turn, spent, waited>>

Untimed == UNCHANGED <<clock, entry, device, turn, origin, waited>>

Start ==
  /\ app = "idle" /\ app' = "creating"
  /\ ~runFlag /\ ~handle
  /\ runFlag' = TRUE
  /\ UNCHANGED <<handle, table, worker, spent>> /\ Untimed

(* osThreadNew(): the thread may run before its handle is stored... *)
CreateThread ==
  /\ app = "creating" /\ app' = "created"
  /\ worker' = "loop" /\ spent' = 0
  /\ UNCHANGED <<runFlag, handle, table>> /\ Untimed

StoreHandle ==
  /\ app = "created" /\ app' = "idle"
  /\ handle' = TRUE
  /\ UNCHANGED <<runFlag, table, worker, spent>> /\ Untimed

(* ...or there is no thread. *)
CreateFails ==
  /\ app = "creating" /\ app' = "idle"
  /\ runFlag' = FALSE
  /\ UNCHANGED <<handle, table, worker, spent>> /\ Untimed

(* Any thread may stop the manager, a device hook too. *)
Stop ==
  /\ runFlag
  /\ runFlag' = FALSE
  /\ UNCHANGED <<handle, app, table, worker, spent>> /\ Untimed

-----------------------------------------------------------------------------
(* The thread: one turn of run() samples the clock once. *)

(* The fault CycleRestarted: the start of the cycle is overwritten. *)
CycleRestarted(d) == [entry[d] EXCEPT !.cycleStart = entry[d].due]

CycleBegun(d) ==
  IF entry[d].initialized /\ ~entry[d].pending
  THEN [entry[d] EXCEPT !.cycleStart = entry[d].due] ELSE entry[d]

Serve(d) ==
  /\ worker = "loop" /\ runFlag
  /\ Selected(clock, d)
  /\ worker' = IF ~entry[d].initialized THEN "init"
               ELSE IF device[d].phase = "Trigger" THEN "trigger" ELSE "wait"
  /\ now' = clock /\ current' = d
  /\ entry' = [entry EXCEPT ![d] = CycleBegun(d)]
  /\ UNCHANGED <<clock, scheduler, device, wake, spent, origin, waited>>

(* The turn is over, its locals with it: osThreadYield(), and the next. *)
EndTurn ==
  /\ worker' = "loop" /\ current' = None /\ now' = 0 /\ wake' = 0 /\ spent' = 0
  /\ UNCHANGED <<clock, scheduler, origin, waited>>

InitEnds(ok) ==
  /\ worker = "init"
  /\ entry' = [entry EXCEPT ![current].initialized = ok,
                            ![current].due = Add(@, Period[current])]
  /\ UNCHANGED device
  /\ EndTurn

(* The nominal time after now on the entry's own grid. *)
NextDue(d) ==
  LET missed == Sub(now, entry[d].cycleStart) \div Period[d]
  IN  Add(entry[d].cycleStart, (missed + 1) * Period[d])

(* The fault MissedCycleReplayed: a late round is followed by the next. *)
MissedCycleReplayed ==
  /\ entry' = [entry EXCEPT ![current].pending = FALSE, ![current].cycleStart = 0,
                            ![current].due = Add(entry[current].cycleStart, Period[current])]
  /\ device' = [device EXCEPT ![current].phase = "Trigger", ![current].triggerMs = 0]
  /\ EndTurn

(* Complete or Failed: the round is over. *)
EndRound ==
  /\ entry' = [entry EXCEPT ![current].pending = FALSE, ![current].cycleStart = 0,
                            ![current].due = NextDue(current)]
  /\ device' = [device EXCEPT ![current].phase = "Trigger", ![current].triggerMs = 0]
  /\ EndTurn

TriggerFails == worker = "trigger" /\ EndRound

(* A triggered device waits, unless it converts in no time. The code takes *)
(* the turn's sample of the clock for the time of the trigger, which was   *)
(* sent since.                                                             *)
TriggerSent ==
  /\ worker = "trigger" /\ worker' = "wait"
  /\ device' = [device EXCEPT ![current].triggerMs = now, ![current].phase = "Wait"]
  /\ waited' = [waited EXCEPT ![current] = 0]
  /\ UNCHANGED <<clock, scheduler, entry, turn, spent, origin>>

Converted == Sub(now, device[current].triggerMs) >= Conversion[current]

Pending ==
  /\ worker = "wait"
  /\ ~Converted
  /\ entry' = [entry EXCEPT ![current].pending = TRUE,
       ![current].due = Add(device[current].triggerMs, Conversion[current])]
  /\ UNCHANGED device
  /\ EndTurn

(* The fault ReadsAtOnce: the wait is left to the deadline alone. *)
ReadsAtOnce ==
  /\ worker = "wait" /\ worker' = "read"
  /\ device' = [device EXCEPT ![current].phase = "Read"]
  /\ UNCHANGED <<clock, scheduler, entry, turn, spent, origin, waited>>

BeginRead ==
  /\ worker = "wait" /\ worker' = "read"
  /\ Converted
  /\ device' = [device EXCEPT ![current].phase = "Read"]
  /\ UNCHANGED <<clock, scheduler, entry, turn, spent, origin, waited>>

ReadEnds == worker = "read" /\ EndRound

(* Nothing is due: computeSleepMs(), then osDelay(). *)
NothingReady ==
  /\ worker = "loop" /\ runFlag /\ worker' = "idle"
  /\ Ready(clock) = {}
  /\ now' = clock
  /\ UNCHANGED <<clock, scheduler, entry, device, current, wake, spent, origin, waited>>

Delay ==
  /\ worker = "idle" /\ worker' = "asleep"
  /\ \E ms \in DelayMs(KernelTicksFromMs(SleepMs(now))) : wake' = Add(clock, ms)
  /\ UNCHANGED <<clock, scheduler, entry, device, now, current, spent, origin, waited>>

(* The fault StoppedInSleep: a manager stopped in its sleep stays there. *)
StoppedInSleep ==
  /\ worker = "asleep" /\ clock = wake
  /\ runFlag
  /\ UNCHANGED <<entry, device>>
  /\ EndTurn

WakeUp ==
  /\ worker = "asleep" /\ clock = wake
  /\ UNCHANGED <<entry, device>>
  /\ EndTurn

LeaveLoop ==
  /\ worker = "loop" /\ ~runFlag /\ worker' = "leaving"
  /\ UNCHANGED <<scheduler, spent>> /\ Untimed

ClearRunFlag ==
  /\ worker = "leaving" /\ worker' = "left"
  /\ runFlag' = FALSE
  /\ UNCHANGED <<handle, app, table, spent>> /\ Untimed

ClearHandle ==
  /\ worker = "left" /\ worker' = "none"
  /\ handle' = FALSE
  /\ UNCHANGED <<runFlag, app, table, spent>> /\ Untimed

-----------------------------------------------------------------------------
(* Time passes while the thread sleeps and, up to the bounds, while it     *)
(* works or does not exist.                                                *)
Lagging == \E d \in Ready(clock) : Sub(clock, entry[d].due) >= MaxLag

Tick ==
  /\ \/ worker = "asleep" /\ clock # wake
     \/ worker = "none" /\ ~Lagging
     \/ worker \notin {"asleep", "none"} /\ spent < MaxBusy /\ ~Lagging
  /\ clock' = Add(clock, 1)
  /\ spent' = IF worker \in {"asleep", "none"} THEN spent ELSE spent + 1
  /\ waited' = [d \in Devices |-> IF waited[d] < Conversion[d] THEN waited[d] + 1 ELSE waited[d]]
  /\ UNCHANGED <<scheduler, worker, entry, device, turn, origin>>

App ==
  \/ \E d \in Devices : Register(d)
  \/ Start \/ CreateThread \/ StoreHandle \/ CreateFails

Run ==
  \/ \E d \in Devices : Serve(d)
  \/ \E ok \in BOOLEAN : InitEnds(ok)
  \/ TriggerFails \/ TriggerSent \/ Pending \/ BeginRead \/ ReadEnds
  \/ NothingReady \/ Delay \/ WakeUp
  \/ LeaveLoop \/ ClearRunFlag \/ ClearHandle

Next == App \/ Stop \/ Run \/ Tick

Spec == Init /\ [][Next]_vars

(* The thread is scheduled, its hooks return and the kernel tick goes on.  *)
(* The application owes nothing.                                           *)
FairSpec == Spec /\ WF_vars(Run) /\ WF_vars(Tick)

-----------------------------------------------------------------------------
Times == 0 .. (TickRange - 1)

TypeOK ==
  /\ clock \in Times /\ now \in Times /\ wake \in Times /\ spent \in 0 .. MaxBusy
  /\ runFlag \in BOOLEAN /\ handle \in BOOLEAN
  /\ app \in {"idle", "creating", "created"}
  /\ worker \in {"none", "loop", "init", "trigger", "wait", "read", "idle", "asleep",
                 "leaving", "left"}
  /\ table \in Seq(Devices) /\ Len(table) <= MaxDevices
  /\ entry \in [Devices -> [due : Times, cycleStart : Times,
                             initialized : BOOLEAN, pending : BOOLEAN]]
  /\ device \in [Devices -> [phase : {"Trigger", "Wait", "Read"}, triggerMs : Times]]
  /\ current \in Devices \cup {None}
  /\ origin \in [Devices -> Nat] /\ \A d \in Devices : origin[d] < Period[d]
  /\ waited \in [Devices -> Nat] /\ \A d \in Devices : waited[d] <= Conversion[d]

(* From the moment the trigger was really sent, a read waits for the       *)
(* conversion, less at most what the triggering turn had taken until then, *)
(* however the deadline was reached and wherever the tick stood: a longer  *)
(* delay, a stop and a wrap shorten it no further.  Between two turns the  *)
(* entry's pending_ and the device's own phase agree, a stop in the middle *)
(* of a round included.                                                    *)
ConversionWaited ==
  /\ worker = "read" => waited[current] + MaxBusy >= Conversion[current]
  /\ \A d \in Devices : d # current => entry[d].pending = (device[d].phase = "Wait")

(* What conversionMs() promises is more: it is the shortest time to wait   *)
(* after the trigger.  The code counts from a sample of the clock taken    *)
(* before onTrigger() talks to the device, so the time that takes is taken *)
(* off the conversion.                                                     *)
NeverReadEarly == worker = "read" => waited[current] >= Conversion[current]

(* The times whole periods away from t: beyond TickRange they repeat. *)
PeriodsFrom(t, p) == {Add(t, k * p) : k \in Times}

(* Rounds begin at the first due time plus whole periods, so a late round, *)
(* or one with a wait in it, does not move the rounds after it.            *)
OnGrid ==
  \A d \in Registered :
    LET start == IF entry[d].pending THEN entry[d].cycleStart ELSE entry[d].due
    IN  start \in PeriodsFrom(origin[d], Period[d])

(* The thread wakes for the earliest due time, late at most by the time it *)
(* had spent between sampling the clock and osDelay(), and by a kernel     *)
(* tick, to which the sleep is rounded up.                                 *)
WakesForTheNext ==
  worker = "asleep" => \A d \in Registered :
    TickReached(wake, entry[d].due) => Sub(wake, entry[d].due) <= WakeLag

(* A thread is created only where there is none: two would serve the       *)
(* devices at the same time.                                               *)
OneThread == app = "creating" => worker = "none"

(* One thread serves each device in its phase and oversleeps by no more    *)
(* than a kernel tick, whatever was late, failed, pending, stopped or      *)
(* started again.  Periods that divide TickRange make the grid one of few  *)
(* times.                                                                  *)
OnSchedule == OneThread /\ OnGrid /\ WakesForTheNext

Serves(d) == current = d /\ current' = None
Waiting(d) == d \in Registered /\ TickReached(now, entry[d].due)
Before(a, b) == ~TickReached(a, b)

(* A device that was served goes behind every device that was due with it, *)
(* so none is overtaken twice by the same one...                           *)
YieldsToTheWaiting ==
  [][\A d, e \in Devices :
       Serves(d) /\ entry[d].initialized /\ Waiting(e) /\ e # d
         => Before(entry[e].due, entry'[d].due)]_vars

(* ...and selectReadyEntry()'s comment says more, of every device: a short *)
(* period is not squeezed out by a longer one.  A device whose init()      *)
(* keeps failing replays its missed periods: served, it may still be ahead *)
(* of a working device of a shorter period that is already due.            *)
NotSqueezedOut ==
  [][\A d, e \in Devices :
       Serves(d) /\ Waiting(e) /\ entry[e].initialized /\ Period[e] < Period[d]
         => ~Before(entry'[d].due, entry[e].due)]_vars

(* A stop is obeyed: the thread ends, from its sleep too. *)
StopEnds == ~runFlag ~> worker = "none"
=============================================================================
