------------------------ MODULE I2CUpdateManager_proofs ------------------------
(***************************************************************************)
(* The I2C update manager, for any devices, periods, phases and conversion *)
(* times.                                                                  *)
(***************************************************************************)
EXTENDS I2CUpdateManager, WellFoundedInduction, TLAPS

-----------------------------------------------------------------------------
(* Ticks. *)

(* A difference of ticks goes around at most once. *)
LEMMA SubIs ==
  ASSUME NEW a \in Times, NEW b \in Times
  PROVE  /\ Sub(a, b) \in Times
         /\ Sub(a, b) = IF a >= b THEN a - b ELSE a - b + TickRange
  <1>1. CASE a >= b
    BY <1>1, BoundsAssumption DEF Sub, Times
  <1>2. CASE a < b
    <2>. DEFINE x == a - b + TickRange
    <2>1. x \in Times
      BY <1>2, BoundsAssumption DEF Times
    <2>2. (a - b) % TickRange = x
      BY <1>2, BoundsAssumption DEF Times
    <2>. QED BY <1>2, <2>1, <2>2, BoundsAssumption DEF Sub, Times
  <1>. QED BY <1>1, <1>2 DEF Times

(* Times add as the tick does: once around at most, and back. *)
LEMMA AddIs ==
  ASSUME NEW a \in Times
  PROVE  /\ \A b \in Int : Add(a, b) \in Times
         /\ \A b \in 0 .. TickRange :
              Add(a, b) = IF a + b < TickRange THEN a + b ELSE a + b - TickRange
  <1>1. \A b \in Int : Add(a, b) \in Times
    BY BoundsAssumption DEF Add, Times
  <1>2. ASSUME NEW b \in 0 .. TickRange
        PROVE  Add(a, b) = IF a + b < TickRange THEN a + b ELSE a + b - TickRange
    <2>1. CASE a + b < TickRange
      BY <2>1, BoundsAssumption DEF Add, Times
    <2>2. CASE a + b >= TickRange
      BY <2>2, BoundsAssumption DEF Add, Times
    <2>. QED BY <2>1, <2>2, BoundsAssumption DEF Times
  <1>. QED BY <1>1, <1>2

Less == {p \in Nat \X Nat : p[1] < p[2]}

(* Some of the waits computeSleepMs() compares is the least. *)
LEMMA LeastExists ==
  ASSUME NEW S, S \subseteq Nat, S # {}
  PROVE  \E w \in S : \A v \in S : w <= v
  <1>1. IsWellFoundedOn(Less, Nat)
    BY NatLessThanWellFounded, Zenon DEF Less, OpToRel
  <1>2. PICK w \in S : \A v \in S : ~(<<v, w>> \in Less)
    BY <1>1, WFMin
  <1>3. \A v \in S : ~(v < w)
    BY <1>2, Zenon DEF Less
  <1>. QED BY <1>3

-----------------------------------------------------------------------------
(* Division. *)

(* A multiple of a period is zero or at least a period away. *)
LEMMA MultipleBound ==
  ASSUME NEW p \in Nat \ {0}, NEW k \in Int
  PROVE  /\ p * k \in Int
         /\ k >= 1 => p * k >= p
         /\ k <= -1 => p * k <= -p
  BY SMT

(* Division with a remainder, of negative numbers too. *)
LEMMA Euclid ==
  ASSUME NEW x \in Int, NEW p \in Nat \ {0}
  PROVE  /\ x \div p \in Int /\ x % p \in 0 .. (p - 1)
         /\ x = p * (x \div p) + (x % p)
  <1>1. x = p * (x \div p) + (x % p)
    BY SMT
  <1>2. x \div p \in Int /\ x % p \in 0 .. (p - 1)
    BY SMT
  <1>. QED BY <1>1, <1>2

(* Multiples of a period differ by multiples. *)
LEMMA Distribute ==
  ASSUME NEW p \in Int, NEW a \in Int, NEW b \in Int
  PROVE  p * (a - b) = p * a - p * b
  BY SMT

(* The ticks of the kernel. *)

(* A tick of the kernel, in those of the HAL. *)
LEMMA OversleepIs ==
  /\ Oversleep \in Nat
  /\ \E y \in 0 .. (TickFreq - 1) : TickFreq * Oversleep + y = 998 + TickFreq
  <1>. DEFINE f == TickFreq
              r == Oversleep
              x == 998 + f
  <1>1. f \in Nat \ {0}
    BY BoundsAssumption
  <1>. HIDE DEF f
  <1>2. x \in Int /\ r = x \div f
    BY <1>1 DEF Oversleep, f
  <1>. HIDE DEF r
  <1>3. r \in Int /\ f * r + (x % f) = x /\ x % f \in 0 .. (f - 1)
    <2>. HIDE DEF x
    <2>. QED BY <1>1, <1>2, Euclid
  <1>4. PICK y \in 0 .. (f - 1) : f * r + y = 998 + f
    BY <1>3
  <1>5. f * r \in Int /\ (r <= -1 => f * r <= -f)
    BY <1>1, <1>3, MultipleBound
  <1>6. PICK fr \in Int : fr = f * r
    BY <1>5
  <1>7. r >= 0
    BY <1>1, <1>3, <1>4, <1>5, <1>6
  <1>. QED BY <1>3, <1>4, <1>7 DEF f, r

(* osDelay() of a sleep takes at most a tick of the kernel more than the   *)
(* sleep, whatever the kernel's frequency.                                 *)
LEMMA DelayBound ==
  ASSUME NEW ms \in Nat \ {0}, NEW w \in DelayMs(KernelTicksFromMs(ms))
  PROVE  w \in 0 .. (ms + Oversleep)
  <1>. DEFINE f == TickFreq
              n == KernelTicksFromMs(ms)
              low == ((n - 1) * 1000) \div f
              q == (n * 1000 + f - 1) \div f
              r == Oversleep
  <1>1. f \in Nat \ {0}
    BY BoundsAssumption
  <1>. HIDE DEF f
  <1>2. PICK p \in Nat : p = ms * f /\ p >= 1
    <2>1. f * ms \in Int /\ f * ms >= f
      BY <1>1, MultipleBound
    <2>2. ms * f = f * ms
      BY <1>1
    <2>. QED BY <1>1, <2>1, <2>2
  <1>3. n = (p + 999) \div 1000
    BY <1>2 DEF KernelTicksFromMs, f
  <1>4. n \in Nat /\ n >= 1 /\ n * 1000 <= p + 999
    <2>. HIDE DEF n
    <2>. QED BY <1>2, <1>3
  <1>5. w \in low .. q
    BY DEF DelayMs, f
  <1>. HIDE DEF n
  <1>6. /\ low \in Int /\ f * low + (((n - 1) * 1000) % f) = (n - 1) * 1000
        /\ ((n - 1) * 1000) % f \in 0 .. (f - 1)
    <2>. DEFINE x == (n - 1) * 1000
    <2>1. x \in Int
      BY <1>4
    <2>. HIDE DEF x
    <2>2. x \div f \in Int /\ f * (x \div f) + (x % f) = x /\ x % f \in 0 .. (f - 1)
      BY <1>1, <2>1, Euclid
    <2>. QED BY <2>2 DEF x
  <1>7. /\ q \in Int /\ f * q + ((n * 1000 + f - 1) % f) = n * 1000 + f - 1
        /\ (n * 1000 + f - 1) % f \in 0 .. (f - 1)
    <2>. DEFINE x == n * 1000 + f - 1
    <2>1. x \in Int
      BY <1>1, <1>4
    <2>. HIDE DEF x
    <2>2. x \div f \in Int /\ f * (x \div f) + (x % f) = x /\ x % f \in 0 .. (f - 1)
      BY <1>1, <2>1, Euclid
    <2>. QED BY <2>2 DEF x
  <1>8. PICK y \in 0 .. (f - 1) : f * r + y = 998 + f
    BY OversleepIs DEF f
  <1>9. r \in Nat
    BY OversleepIs
  <1>. HIDE DEF low, q, r
  <1>10. low >= 0
    <2>1. low <= -1 => f * low <= -f
      BY <1>1, <1>6, MultipleBound
    <2>2. f * low \in Int
      BY <1>1, <1>6, MultipleBound
    <2>3. PICK fl \in Int : fl = f * low
      BY <2>2
    <2>. QED BY <1>1, <1>4, <1>6, <2>1, <2>3
  <1>11. q <= ms + r
    <2>. DEFINE k == q - (ms + r)
    <2>1. k \in Int
      BY <1>7, <1>9
    <2>2. f * k = f * q - f * (ms + r)
      BY <1>1, <1>7, <1>9, Distribute
    <2>3. f * (ms + r) = p + f * r /\ f * r \in Int /\ f * q \in Int
      BY <1>1, <1>2, <1>7, <1>9, SMT
    <2>4. f * k \in Int /\ (k >= 1 => f * k >= f)
      BY <1>1, <2>1, MultipleBound
    <2>5. PICK fk \in Int, fq \in Int, fr \in Int : fk = f * k /\ fq = f * q /\ fr = f * r
      BY <2>3, <2>4
    <2>. HIDE DEF k
    <2>6. ~(k >= 1)
      BY <1>1, <1>2, <1>4, <1>7, <1>8, <1>9, <2>2, <2>3, <2>4, <2>5
    <2>. QED BY <1>7, <1>9, <2>1, <2>6 DEF k
  <1>. QED BY <1>5, <1>6, <1>7, <1>9, <1>10, <1>11 DEF r

-----------------------------------------------------------------------------
(* Types. *)

Flags == runFlag \in BOOLEAN /\ handle \in BOOLEAN

Entries == [due : Times, cycleStart : Times, initialized : BOOLEAN, pending : BOOLEAN]

(* The thread sleeps, and not beyond an entry that is not due yet. *)
LEMMA SleepLeast ==
  ASSUME NEW t \in Times, \A d \in Registered : entry[d].due \in Times
  PROVE  /\ SleepMs(t) \in Nat \ {0}
         /\ \A d \in Registered : Sub(entry[d].due, t) >= 1 => SleepMs(t) <= Sub(entry[d].due, t)
  <1>. DEFINE waits == {MaxSleep} \cup {Sub(entry[d].due, t) : d \in Registered}
              least == CHOOSE w \in waits : \A v \in waits : w <= v
  <1>1. \A d \in Registered : Sub(entry[d].due, t) \in Nat
    BY SubIs DEF Times
  <1>2. waits \subseteq Nat /\ waits # {}
    BY <1>1, BoundsAssumption
  <1>3. \E w \in waits : \A v \in waits : w <= v
    <2>. HIDE DEF waits
    <2>. QED BY <1>2, LeastExists
  <1>4. least \in waits /\ \A v \in waits : least <= v
    <2>. HIDE DEF waits
    <2>. QED BY <1>3
  <1>5. least \in Nat /\ \A d \in Registered : least <= Sub(entry[d].due, t)
    BY <1>2, <1>4
  <1>6. SleepMs(t) = IF least = 0 THEN 1 ELSE least
    BY DEF SleepMs
  <1>. HIDE DEF least
  <1>. QED BY <1>1, <1>5, <1>6

(* The run flag and the handle keep their types. *)
LEMMA StepFlags == Flags /\ [Next]_vars => Flags'
  BY DEF Flags, Next, vars, scheduler, turn, App, Run, Untimed, Register, Start, CreateThread,
     StoreHandle, CreateFails, Stop, Serve, EndTurn, InitEnds, EndRound, TriggerFails,
     TriggerSent, Pending, BeginRead, ReadEnds, NothingReady, Delay, WakeUp, LeaveLoop,
     ClearRunFlag, ClearHandle, Tick

(* Where the thread is decides whether an entry is being served. *)
Busy == worker \in {"init", "trigger", "wait", "read"}

Served ==
  /\ current \in Devices \cup {None}
  /\ Busy <=> current # None

Types ==
  /\ clock \in Times /\ now \in Times /\ wake \in Times /\ spent \in 0 .. MaxBusy
  /\ app \in {"idle", "creating", "created"}
  /\ worker \in {"none", "loop", "init", "trigger", "wait", "read", "idle", "asleep",
                 "leaving", "left"}
  /\ table \in Seq(Devices) /\ Len(table) <= MaxDevices
  /\ entry \in [Devices -> Entries]
  /\ device \in [Devices -> [phase : {"Trigger", "Wait", "Read"}, triggerMs : Times]]
  /\ origin \in [Devices -> Nat] /\ \A d \in Devices : origin[d] < Period[d]
  /\ waited \in [Devices -> Nat] /\ \A d \in Devices : waited[d] <= Conversion[d]

(* One thread: it exists from osThreadNew() until it has cleared the       *)
(* handle, which is stored or about to be stored all that time.            *)
Threads ==
  /\ worker # "none" => handle \/ app = "created"
  /\ app = "creating" => worker = "none"

(* The table names devices. *)
LEMMA RegisteredDevices ==
  ASSUME table \in Seq(Devices)
  PROVE  Registered \subseteq Devices
  BY DEF Registered

(* registerDevice() adds its device and no other. *)
LEMMA RegisteredAppend ==
  ASSUME NEW d, table \in Seq(Devices), table' = Append(table, d)
  PROVE  Registered' = Registered \cup {d}
  <1>1. /\ DOMAIN table = 1 .. Len(table) /\ Len(table) \in Nat
        /\ DOMAIN table' = 1 .. (Len(table) + 1)
    OBVIOUS
  <1>2. /\ \A i \in 1 .. Len(table) : table'[i] = table[i]
        /\ table'[Len(table) + 1] = d
    OBVIOUS
  <1>3. DOMAIN table' = DOMAIN table \cup {Len(table) + 1}
    BY <1>1
  <1>. QED BY <1>1, <1>2, <1>3 DEF Registered

(* The thread turns to a due device. *)
LEMMA ServeStep ==
  ASSUME Types, Served, NEW d \in Devices, Serve(d)
  PROVE  Types' /\ Served'
  <1>1. entry' \in [Devices -> Entries]
    <2>1. CycleBegun(d) \in Entries
      BY DEF CycleBegun, Types, Entries
    <2>. QED BY <2>1 DEF Serve, Types
  <1>2. worker' \in {"init", "trigger", "wait"} /\ current' = d /\ now' = clock
    BY DEF Serve
  <1>3. UNCHANGED <<clock, app, table, device, wake, spent, origin, waited>>
    BY DEF Serve, scheduler
  <1>. QED BY <1>1, <1>2, <1>3, DevicesAssumption DEF Types, Served, Busy

(* The end of a device's turn, whatever it has become. *)
LEMMA EndTurnStep ==
  ASSUME Types, EndTurn, entry' \in [Devices -> Entries],
         device' \in [Devices -> [phase : {"Trigger", "Wait", "Read"}, triggerMs : Times]]
  PROVE  Types' /\ Served'
  <1>1. /\ worker' = "loop" /\ current' = None /\ now' = 0 /\ wake' = 0 /\ spent' = 0
        /\ UNCHANGED <<clock, app, table, origin, waited>>
    BY DEF EndTurn, scheduler
  <1>. QED BY <1>1, BoundsAssumption DEF Types, Served, Busy, Times

(* A new due time is a time. *)
LEMMA NextDueTimes ==
  ASSUME Types, NEW d \in Devices
  PROVE  NextDue(d) \in Times
  <1>. DEFINE missed == Sub(now, entry[d].cycleStart) \div Period[d]
  <1>1. entry[d].cycleStart \in Times /\ now \in Times /\ Period[d] \in Nat \ {0}
    BY DevicesAssumption DEF Types, Entries
  <1>2. Sub(now, entry[d].cycleStart) \in Nat
    BY <1>1, SubIs DEF Times
  <1>3. missed \in Nat
    BY <1>1, <1>2
  <1>. HIDE DEF missed
  <1>4. (missed + 1) * Period[d] \in Int
    BY <1>1, <1>3
  <1>5. NextDue(d) = Add(entry[d].cycleStart, (missed + 1) * Period[d])
    BY DEF NextDue, missed
  <1>. QED BY <1>1, <1>4, <1>5, AddIs

(* The end of a round, to sleep or to stop. *)
LEMMA EndRoundStep ==
  ASSUME Types, Served, Busy, EndRound
  PROVE  Types' /\ Served'
  <1>1. current \in Devices
    BY DEF Served
  <1>2. NextDue(current) \in Times /\ 0 \in Times
    BY <1>1, NextDueTimes, BoundsAssumption DEF Times
  <1>3. entry' \in [Devices -> Entries]
    BY <1>1, <1>2 DEF EndRound, Types, Entries
  <1>4. device' \in [Devices -> [phase : {"Trigger", "Wait", "Read"}, triggerMs : Times]]
    BY <1>1, <1>2 DEF EndRound, Types
  <1>. QED BY <1>3, <1>4, EndTurnStep DEF EndRound

(* Every step keeps the types, and the device that is served. *)
LEMMA StepTypes ==
  ASSUME Types, Served, Threads, [Next]_vars
  PROVE  Types' /\ Served'
  <1>. USE BoundsAssumption, DevicesAssumption
  <1>1. ASSUME NEW d \in Devices, Register(d) PROVE Types' /\ Served'
    <2>1. Add(clock, Phase[d]) \in Times
      BY AddIs DEF Types
    <2>2. entry' \in [Devices -> Entries]
      BY <1>1, <2>1 DEF Register, Types, Entries
    <2>3. Add(clock, Phase[d]) % Period[d] \in Nat /\ Add(clock, Phase[d]) % Period[d] < Period[d]
      BY <2>1 DEF Times
    <2>4. origin' \in [Devices -> Nat] /\ \A e \in Devices : origin'[e] < Period[e]
      BY <1>1, <2>3 DEF Register, Types
    <2>5. table' \in Seq(Devices) /\ Len(table') <= MaxDevices
      BY <1>1 DEF Register, Types
    <2>6. UNCHANGED <<clock, app, worker, device, now, current, wake, spent, waited>>
      BY <1>1 DEF Register, turn
    <2>. QED BY <2>2, <2>4, <2>5, <2>6 DEF Types, Served, Busy
  <1>2. CASE Start \/ CreateThread \/ StoreHandle \/ CreateFails \/ Stop
             \/ LeaveLoop \/ ClearRunFlag \/ ClearHandle
    <2>1. UNCHANGED <<clock, entry, device, now, current, wake, origin, waited, table>>
      BY <1>2 DEF Start, CreateThread, StoreHandle, CreateFails, Stop, LeaveLoop, ClearRunFlag,
         ClearHandle, Untimed, turn, scheduler
    <2>2. app' \in {"idle", "creating", "created"} /\ spent' \in 0 .. MaxBusy
      BY <1>2 DEF Start, CreateThread, StoreHandle, CreateFails, Stop, LeaveLoop, ClearRunFlag,
         ClearHandle, scheduler, Types
    <2>3. worker' = worker \/ worker' \in {"loop", "leaving", "left", "none"}
      BY <1>2 DEF Start, CreateThread, StoreHandle, CreateFails, Stop, LeaveLoop, ClearRunFlag,
         ClearHandle
    <2>4. worker' # worker => ~Busy
      BY <1>2 DEF Start, CreateThread, StoreHandle, CreateFails, Stop, LeaveLoop, ClearRunFlag,
         ClearHandle, Busy, Threads
    <2>. QED BY <2>1, <2>2, <2>3, <2>4 DEF Types, Served, Busy
  <1>3. ASSUME NEW d \in Devices, Serve(d) PROVE Types' /\ Served'
    BY <1>3, ServeStep
  <1>4. ASSUME NEW ok \in BOOLEAN, InitEnds(ok) PROVE Types' /\ Served'
    <2>1. current \in Devices
      BY <1>4 DEF InitEnds, Served, Busy
    <2>2. Add(entry[current].due, Period[current]) \in Times
      BY <2>1, AddIs DEF Types, Entries
    <2>3. entry' \in [Devices -> Entries]
      BY <1>4, <2>1, <2>2 DEF InitEnds, Types, Entries
    <2>. QED BY <1>4, <2>3, EndTurnStep DEF InitEnds, Types
  <1>5. CASE TriggerFails \/ ReadEnds
    BY <1>5, EndRoundStep DEF TriggerFails, ReadEnds, Busy
  <1>6. CASE TriggerSent
    <2>1. device' \in [Devices -> [phase : {"Trigger", "Wait", "Read"}, triggerMs : Times]]
      BY <1>6 DEF TriggerSent, Types
    <2>2. /\ worker = "trigger" /\ worker' = "wait"
          /\ UNCHANGED <<clock, app, table, entry, now, current, wake, spent, origin>>
      BY <1>6 DEF TriggerSent, scheduler, turn
    <2>3. waited' \in [Devices -> Nat] /\ \A d \in Devices : waited'[d] <= Conversion[d]
      <3>1. /\ waited' = [waited EXCEPT ![current] = 0]
            /\ waited \in [Devices -> Nat] /\ \A d \in Devices : waited[d] <= Conversion[d]
        BY <1>6 DEF TriggerSent, Types
      <3>2. waited' \in [Devices -> Nat] /\ \A d \in Devices : waited'[d] \in {0, waited[d]}
        BY <3>1
      <3>. QED BY <3>1, <3>2
    <2>. QED BY <2>1, <2>2, <2>3 DEF Types, Served, Busy
  <1>7. CASE Pending
    <2>1. current \in Devices
      BY <1>7 DEF Pending, Served, Busy
    <2>2. Add(device[current].triggerMs, Conversion[current]) \in Times
      BY <2>1, AddIs DEF Types
    <2>3. entry' \in [Devices -> Entries]
      BY <1>7, <2>1, <2>2 DEF Pending, Types, Entries
    <2>. QED BY <1>7, <2>3, EndTurnStep DEF Pending, Types
  <1>8. CASE BeginRead
    <2>1. device' \in [Devices -> [phase : {"Trigger", "Wait", "Read"}, triggerMs : Times]]
      BY <1>8 DEF BeginRead, Types
    <2>2. /\ worker = "wait" /\ worker' = "read"
          /\ UNCHANGED <<clock, app, table, entry, now, current, wake, spent, origin, waited>>
      BY <1>8 DEF BeginRead, scheduler, turn
    <2>. QED BY <2>1, <2>2 DEF Types, Served, Busy
  <1>9. CASE NothingReady
    BY <1>9 DEF NothingReady, Types, Served, Busy, scheduler
  <1>10. CASE Delay
    <2>1. \A d \in Registered : entry[d].due \in Times
      BY RegisteredDevices DEF Types, Entries
    <2>2. PICK ms \in Nat \ {0} : ms = SleepMs(now)
      BY <2>1, SleepLeast DEF Types
    <2>3. wake' \in Times
      <3>1. PICK w \in DelayMs(KernelTicksFromMs(ms)) : wake' = Add(clock, w)
        BY <1>10, <2>2 DEF Delay
      <3>2. w \in Int
        BY <2>2, DelayBound
      <3>. QED BY <3>1, <3>2, AddIs DEF Types
    <2>4. /\ worker = "idle" /\ worker' = "asleep"
          /\ UNCHANGED <<clock, app, table, entry, device, now, current, spent, origin, waited>>
      BY <1>10 DEF Delay, scheduler
    <2>. QED BY <2>3, <2>4 DEF Types, Served, Busy
  <1>11. CASE WakeUp
    BY <1>11, EndTurnStep DEF WakeUp, Types
  <1>12. CASE Tick
    <2>1. clock' \in Times
      BY <1>12, AddIs DEF Tick, Types
    <2>2. spent' \in 0 .. MaxBusy
      BY <1>12 DEF Tick, Types
    <2>3. waited' \in [Devices -> Nat] /\ \A d \in Devices : waited'[d] <= Conversion[d]
      BY <1>12 DEF Tick, Types
    <2>4. UNCHANGED <<app, worker, table, entry, device, now, current, wake, origin>>
      BY <1>12 DEF Tick, scheduler, turn
    <2>. QED BY <2>1, <2>2, <2>3, <2>4 DEF Types, Served, Busy
  <1>13. CASE UNCHANGED vars
    BY <1>13 DEF vars, scheduler, turn, Types, Served, Busy
  <1>. QED BY <1>1, <1>2, <1>3, <1>4, <1>5, <1>6, <1>7, <1>8, <1>9, <1>10, <1>11, <1>12, <1>13
    DEF Next, App, Run

(* Every step keeps to one thread. *)
LEMMA StepThreads ==
  ASSUME Flags, Types, Served, Threads, [Next]_vars
  PROVE  Threads'
  <1>1. CASE Start \/ CreateThread \/ StoreHandle \/ CreateFails \/ Stop
             \/ LeaveLoop \/ ClearRunFlag \/ ClearHandle
    BY <1>1, Zenon DEF Start, CreateThread, StoreHandle, CreateFails, Stop, LeaveLoop, ClearRunFlag,
       ClearHandle, Threads, scheduler
  <1>2. ASSUME UNCHANGED <<handle, app>>, worker # "none" \/ worker' = worker
        PROVE  Threads'
    BY <1>2 DEF Threads
  <1>3. ASSUME NEW d \in Devices, Register(d) PROVE Threads'
    BY <1>2, <1>3 DEF Register
  <1>4. ASSUME NEW d \in Devices, Serve(d) PROVE Threads'
    BY <1>2, <1>4 DEF Serve, scheduler
  <1>5. ASSUME NEW ok \in BOOLEAN, InitEnds(ok) PROVE Threads'
    BY <1>2, <1>5 DEF InitEnds, EndTurn, scheduler
  <1>6. CASE TriggerFails \/ TriggerSent \/ Pending \/ BeginRead \/ ReadEnds
             \/ NothingReady \/ Delay \/ WakeUp
    BY <1>2, <1>6 DEF TriggerFails, TriggerSent, Pending, BeginRead, ReadEnds, EndRound,
       NothingReady, Delay, WakeUp, EndTurn, scheduler
  <1>7. CASE Tick \/ UNCHANGED vars
    BY <1>2, <1>7 DEF Tick, vars, scheduler
  <1>. QED BY <1>1, <1>3, <1>4, <1>5, <1>6, <1>7 DEF Next, App, Run

-----------------------------------------------------------------------------
(* The rounds of the devices. *)

(* The phase a device is in, between turns and within one. *)
Phases ==
  /\ \A d \in Devices : ~entry[d].initialized => ~entry[d].pending /\ device[d].phase = "Trigger"
  /\ \A d \in Devices : d # current =>
       (entry[d].pending <=> device[d].phase = "Wait") /\ device[d].phase # "Read"
  /\ worker = "init" => ~entry[current].initialized
  /\ worker = "trigger" =>
       device[current].phase = "Trigger" /\ ~entry[current].pending /\ entry[current].initialized
  /\ worker = "wait" => device[current].phase = "Wait" /\ entry[current].initialized
  /\ worker = "read" => device[current].phase = "Read" /\ entry[current].initialized

(* A turn that ends puts its device in step with its entry. *)
LEMMA EndTurnPhases ==
  ASSUME Types, Served, Phases, Busy, EndTurn,
         \A d \in Devices \ {current} : entry'[d] = entry[d] /\ device'[d] = device[d],
         entry'[current].pending <=> device'[current].phase = "Wait",
         device'[current].phase # "Read",
         ~entry'[current].initialized =>
           ~entry'[current].pending /\ device'[current].phase = "Trigger"
  PROVE  Phases'
  <1>1. worker' = "loop" /\ current \in Devices
    BY DEF EndTurn, Served
  <1>2. ASSUME NEW d \in Devices
        PROVE  /\ ~entry'[d].initialized => ~entry'[d].pending /\ device'[d].phase = "Trigger"
               /\ (entry'[d].pending <=> device'[d].phase = "Wait") /\ device'[d].phase # "Read"
    <2>1. CASE d = current
      BY <2>1
    <2>2. CASE d # current
      <3>1. entry'[d] = entry[d] /\ device'[d] = device[d]
        BY <2>2
      <3>2. /\ ~entry[d].initialized => ~entry[d].pending /\ device[d].phase = "Trigger"
            /\ (entry[d].pending <=> device[d].phase = "Wait") /\ device[d].phase # "Read"
        BY <2>2 DEF Phases
      <3>. QED BY <3>1, <3>2
    <2>. QED BY <2>1, <2>2
  <1>. QED BY <1>1, <1>2 DEF Phases

(* Every step keeps devices in the phase their thread left them in. *)
LEMMA StepPhases ==
  ASSUME Types, Served, Threads, Phases, [Next]_vars
  PROVE  Phases'
  <1>1. ASSUME NEW d \in Devices, Register(d) PROVE Phases'
    <2>1. \A e \in Devices : /\ entry'[e].initialized = entry[e].initialized
                             /\ entry'[e].pending = entry[e].pending
      BY <1>1 DEF Register, Types, Entries
    <2>2. UNCHANGED <<worker, device, current>> /\ ~Busy
      BY <1>1 DEF Register, turn, Threads, Busy
    <2>. QED BY <2>1, <2>2 DEF Phases, Busy
  <1>2. ASSUME UNCHANGED <<entry, device, current>>,
               worker' = worker \/ worker' \notin {"init", "trigger", "wait", "read"}
        PROVE  Phases'
    BY <1>2 DEF Phases
  <1>3. CASE Start \/ CreateThread \/ StoreHandle \/ CreateFails \/ Stop
             \/ LeaveLoop \/ ClearRunFlag \/ ClearHandle \/ NothingReady \/ Delay
             \/ Tick \/ UNCHANGED vars
    BY <1>2, <1>3 DEF Start, CreateThread, StoreHandle, CreateFails, Stop, LeaveLoop, ClearRunFlag,
       ClearHandle, NothingReady, Delay, Tick, vars, Untimed, turn, scheduler
  <1>4. ASSUME NEW d \in Devices, Serve(d) PROVE Phases'
    <2>1. /\ current = None /\ current' = d /\ device' = device
          /\ worker' = IF ~entry[d].initialized THEN "init"
                       ELSE IF device[d].phase = "Trigger" THEN "trigger" ELSE "wait"
      BY <1>4 DEF Serve, Served, Busy
    <2>2. \A e \in Devices : /\ entry'[e].initialized = entry[e].initialized
                             /\ entry'[e].pending = entry[e].pending
      BY <1>4 DEF Serve, CycleBegun, Types, Entries
    <2>3. d # None /\ device[d].phase \in {"Trigger", "Wait", "Read"}
      BY DevicesAssumption DEF Types
    <2>4. \A e \in Devices :
            (entry[e].pending <=> device[e].phase = "Wait") /\ device[e].phase # "Read"
      BY <2>1, DevicesAssumption DEF Phases
    <2>. QED BY <2>1, <2>2, <2>3, <2>4 DEF Phases
  <1>5. ASSUME NEW ok \in BOOLEAN, InitEnds(ok) PROVE Phases'
    <2>1. Busy /\ current \in Devices /\ ~entry[current].initialized
      BY <1>5 DEF InitEnds, Served, Busy, Phases
    <2>2. ~entry[current].pending /\ device[current].phase = "Trigger"
      BY <2>1 DEF Phases
    <2>3. /\ device' = device /\ entry'[current].pending = entry[current].pending
          /\ \A d \in Devices \ {current} : entry'[d] = entry[d]
      BY <1>5, <2>1 DEF InitEnds, Types, Entries
    <2>. QED BY <1>5, <2>1, <2>2, <2>3, EndTurnPhases DEF InitEnds
  <1>6. CASE TriggerFails \/ ReadEnds
    <2>1. Busy /\ current \in Devices /\ EndRound
      BY <1>6 DEF TriggerFails, ReadEnds, Served, Busy
    <2>2. /\ ~entry'[current].pending /\ device'[current].phase = "Trigger"
          /\ \A d \in Devices \ {current} : entry'[d] = entry[d] /\ device'[d] = device[d]
      BY <2>1 DEF EndRound, Types, Entries
    <2>. QED BY <2>1, <2>2, EndTurnPhases DEF EndRound
  <1>7. CASE TriggerSent
    <2>1. /\ current \in Devices /\ worker = "trigger" /\ worker' = "wait"
          /\ entry' = entry /\ current' = current
      BY <1>7 DEF TriggerSent, Served, Busy, turn
    <2>2. /\ device'[current].phase = "Wait"
          /\ \A d \in Devices \ {current} : device'[d] = device[d]
      BY <1>7, <2>1 DEF TriggerSent, Types
    <2>. QED BY <2>1, <2>2 DEF Phases
  <1>8. CASE Pending
    <2>1. /\ Busy /\ current \in Devices /\ device' = device
          /\ device[current].phase = "Wait" /\ entry[current].initialized
      BY <1>8 DEF Pending, Served, Busy, Phases
    <2>2. /\ entry'[current].pending /\ entry'[current].initialized = entry[current].initialized
          /\ \A d \in Devices \ {current} : entry'[d] = entry[d]
      BY <1>8, <2>1 DEF Pending, Types, Entries
    <2>. QED BY <1>8, <2>1, <2>2, EndTurnPhases DEF Pending
  <1>9. CASE BeginRead
    <2>1. /\ current \in Devices /\ worker = "wait" /\ worker' = "read"
          /\ entry' = entry /\ current' = current
      BY <1>9 DEF BeginRead, Served, Busy, turn
    <2>2. /\ device'[current].phase = "Read"
          /\ \A d \in Devices \ {current} : device'[d] = device[d]
      BY <1>9, <2>1 DEF BeginRead, Types
    <2>. QED BY <2>1, <2>2 DEF Phases
  <1>10. CASE WakeUp
    BY <1>2, <1>10 DEF WakeUp, EndTurn, Served, Busy
  <1>. QED BY <1>1, <1>3, <1>4, <1>5, <1>6, <1>7, <1>8, <1>9, <1>10 DEF Next, App, Run

-----------------------------------------------------------------------------
(* The conversion time. *)

(* Since the turn began no more ticks have passed than are counted for it. *)
Clocks ==
  /\ Busy \/ worker = "idle" => Sub(clock, now) <= spent
  /\ worker = "idle" => Ready(now) = {}
  /\ WakesForTheNext

(* A device has waited its conversion time, or for t ticks less those its  *)
(* trigger can have taken.                                                 *)
WaitedFor(d, t) == waited[d] >= Conversion[d] \/ waited[d] + MaxBusy >= t

(* Ticks are compared with the turn that triggered a device, whose number  *)
(* may have come round again: what has passed is never less than it says.  *)
Conversions ==
  /\ \A d \in Devices :
       device[d].phase = "Wait" => WaitedFor(d, Sub(clock, device[d].triggerMs))
  /\ worker = "wait" => WaitedFor(current, Sub(now, device[current].triggerMs))
  /\ worker = "read" => waited[current] + MaxBusy >= Conversion[current]

(* A tick adds one to a difference, unless it comes round to 0. *)
LEMMA SubTick ==
  ASSUME NEW a \in Times, NEW b \in Times
  PROVE  Sub(Add(a, 1), b) = IF Sub(a, b) = TickRange - 1 THEN 0 ELSE Sub(a, b) + 1
  <1>1. Add(a, 1) \in Times /\ Add(a, 1) = IF a + 1 < TickRange THEN a + 1 ELSE a + 1 - TickRange
    BY AddIs, BoundsAssumption
  <1>2. Sub(a, b) = IF a >= b THEN a - b ELSE a - b + TickRange
    BY SubIs
  <1>3. Sub(Add(a, 1), b) =
          IF Add(a, 1) >= b THEN Add(a, 1) - b ELSE Add(a, 1) - b + TickRange
    BY <1>1, SubIs
  <1>. QED BY <1>1, <1>2, <1>3, BoundsAssumption DEF Times

(* No time passes at once. *)
LEMMA SubSelf ==
  ASSUME NEW a \in Times
  PROVE  Sub(a, a) = 0
  BY SubIs, BoundsAssumption DEF Times

(* A pending conversion is not forgotten and its clock is not moved. *)
LEMMA StepConversions ==
  ASSUME Types, Served, Threads, Phases, Clocks, Conversions, [Next]_vars
  PROVE  Conversions'
  <1>. USE DevicesAssumption
  <1>t. /\ \A d \in Devices : waited[d] \in Nat /\ Conversion[d] \in Nat
        /\ clock \in Times /\ now \in Times /\ \A d \in Devices : device[d].triggerMs \in Times
        /\ spent \in 0 .. MaxBusy /\ MaxBusy \in Nat
    BY BoundsAssumption DEF Types
  <1>1. ASSUME UNCHANGED <<clock, device, current, waited, now>>,
               worker' = worker \/ worker' \notin {"wait", "read"}
        PROVE  Conversions'
    BY <1>1 DEF Conversions, WaitedFor
  <1>2. ASSUME NEW d \in Devices, Register(d) PROVE Conversions'
    BY <1>1, <1>2 DEF Register, turn
  <1>3. CASE Start \/ CreateThread \/ StoreHandle \/ CreateFails \/ Stop
             \/ LeaveLoop \/ ClearRunFlag \/ ClearHandle \/ Delay \/ UNCHANGED vars
    BY <1>1, <1>3 DEF Start, CreateThread, StoreHandle, CreateFails, Stop, LeaveLoop, ClearRunFlag,
       ClearHandle, Delay, vars, Untimed, turn, scheduler
  <1>4. CASE NothingReady
    BY <1>4 DEF NothingReady, Conversions, WaitedFor
  <1>5. ASSUME NEW d \in Devices, Serve(d) PROVE Conversions'
    <2>1. /\ current = None /\ current' = d /\ clock' = clock /\ now' = clock
          /\ UNCHANGED <<device, waited>>
          /\ worker' = IF ~entry[d].initialized THEN "init"
                       ELSE IF device[d].phase = "Trigger" THEN "trigger" ELSE "wait"
      BY <1>5 DEF Serve, Served, Busy
    <2>2. device[d].phase \in {"Trigger", "Wait"}
      BY <2>1 DEF Phases, Types
    <2>. QED BY <2>1, <2>2 DEF Conversions, WaitedFor
  <1>6. ASSUME EndTurn, \A d \in Devices :
                 device'[d].phase = "Wait" => device'[d] = device[d]
        PROVE  Conversions'
    BY <1>6 DEF EndTurn, Conversions, WaitedFor
  <1>7. ASSUME NEW ok \in BOOLEAN, InitEnds(ok) PROVE Conversions'
    BY <1>6, <1>7 DEF InitEnds
  <1>8. CASE TriggerFails \/ ReadEnds
    <2>1. EndTurn /\ current \in Devices /\ EndRound
      BY <1>8 DEF TriggerFails, ReadEnds, EndRound, Served, Busy
    <2>2. \A d \in Devices : device'[d].phase = "Wait" => device'[d] = device[d]
      BY <2>1 DEF EndRound, Types
    <2>. QED BY <1>6, <2>1, <2>2
  <1>9. CASE TriggerSent
    <2>1. /\ current \in Devices /\ worker = "trigger" /\ worker' = "wait"
          /\ UNCHANGED <<clock, now, current>>
      BY <1>9 DEF TriggerSent, Served, Busy, turn
    <2>2. /\ device'[current].triggerMs = now
          /\ \A d \in Devices \ {current} : device'[d] = device[d]
      BY <1>9, <2>1 DEF TriggerSent, Types
    <2>3. /\ waited'[current] = 0
          /\ \A d \in Devices \ {current} : waited'[d] = waited[d]
      BY <1>9, <2>1 DEF TriggerSent, Types
    <2>4. PICK s \in Nat : s = Sub(clock, now) /\ s <= MaxBusy
      <3>1. Sub(clock, now) \in Nat
        BY <1>t, SubIs DEF Times
      <3>2. Sub(clock, now) <= spent
        BY <2>1 DEF Clocks, Busy
      <3>. QED BY <1>t, <3>1, <3>2
    <2>5. Sub(now, now) = 0
      BY <1>t, SubSelf
    <2>6. \A e \in Devices :
            device'[e].phase = "Wait" => WaitedFor(e, Sub(clock, device[e].triggerMs))'
      <3>1. ASSUME NEW e \in Devices, e = current
            PROVE  WaitedFor(e, Sub(clock, device[e].triggerMs))'
        <4>1. device'[e].triggerMs = now /\ waited'[e] = 0 /\ clock' = clock
          BY <2>1, <2>2, <2>3, <3>1
        <4>. QED BY <1>t, <2>4, <4>1 DEF WaitedFor, Sub
      <3>2. ASSUME NEW e \in Devices, e # current, device'[e].phase = "Wait"
            PROVE  WaitedFor(e, Sub(clock, device[e].triggerMs))'
        <4>1. device'[e] = device[e] /\ waited'[e] = waited[e] /\ clock' = clock
          BY <2>1, <2>2, <2>3, <3>2
        <4>2. WaitedFor(e, Sub(clock, device[e].triggerMs))
          BY <3>2, <4>1 DEF Conversions
        <4>. QED BY <4>1, <4>2 DEF WaitedFor, Sub
      <3>. QED BY <3>1, <3>2
    <2>7. WaitedFor(current, Sub(now, device[current].triggerMs))'
      BY <1>t, <2>1, <2>2, <2>3, <2>5 DEF WaitedFor
    <2>. QED BY <2>1, <2>6, <2>7 DEF Conversions
  <1>10. CASE Pending
    BY <1>6, <1>10 DEF Pending
  <1>11. CASE BeginRead
    <2>1. /\ current \in Devices /\ worker = "wait" /\ worker' = "read" /\ Converted
          /\ UNCHANGED <<clock, now, current, waited>>
      BY <1>11 DEF BeginRead, Served, Busy, turn
    <2>2. /\ device'[current].phase = "Read"
          /\ \A d \in Devices \ {current} : device'[d] = device[d]
      BY <1>11, <2>1 DEF BeginRead, Types
    <2>3. Sub(now, device[current].triggerMs) \in Times
      BY <1>t, <2>1, SubIs
    <2>4. waited[current] + MaxBusy >= Conversion[current]
      BY <1>t, <2>1, <2>3 DEF Conversions, WaitedFor, Converted, Times
    <2>. QED BY <2>1, <2>2, <2>4 DEF Conversions, WaitedFor
  <1>12. CASE WakeUp
    BY <1>6, <1>12 DEF WakeUp
  <1>13. CASE Tick
    <2>1. /\ clock' = Add(clock, 1)
          /\ UNCHANGED <<worker, device, now, current>>
          /\ \A d \in Devices : waited'[d] =
               IF waited[d] < Conversion[d] THEN waited[d] + 1 ELSE waited[d]
      BY <1>13 DEF Tick, turn
    <2>2. \A e \in Devices :
            device'[e].phase = "Wait" => WaitedFor(e, Sub(clock, device[e].triggerMs))'
      <3>. SUFFICES ASSUME NEW e \in Devices, device[e].phase = "Wait"
                    PROVE  WaitedFor(e, Sub(clock, device[e].triggerMs))'
        BY <2>1
      <3>1. WaitedFor(e, Sub(clock, device[e].triggerMs))
        BY DEF Conversions
      <3>. DEFINE t == device[e].triggerMs
      <3>2. t \in Times
        BY <1>t
      <3>. HIDE DEF t
      <3>3. Sub(Add(clock, 1), t) \in {0, Sub(clock, t) + 1} /\ Sub(clock, t) \in Nat
        BY <1>t, <3>2, SubTick, SubIs DEF Times
      <3>. QED BY <1>t, <2>1, <3>1, <3>3 DEF WaitedFor, t
    <2>3. worker' = "wait" => WaitedFor(current, Sub(now, device[current].triggerMs))'
      <3>. SUFFICES ASSUME worker = "wait"
                    PROVE  WaitedFor(current, Sub(now, device[current].triggerMs))'
        BY <2>1
      <3>1. current \in Devices /\ WaitedFor(current, Sub(now, device[current].triggerMs))
        BY DEF Conversions, Served, Busy
      <3>2. Sub(now, device[current].triggerMs) \in Nat
        <4>. DEFINE t == device[current].triggerMs
        <4>1. t \in Times
          BY <1>t, <3>1
        <4>. HIDE DEF t
        <4>2. Sub(now, t) \in Nat
          BY <1>t, <4>1, SubIs DEF Times
        <4>. QED BY <4>2 DEF t
      <3>. QED BY <1>t, <2>1, <3>1, <3>2 DEF WaitedFor
    <2>4. worker' = "read" => waited'[current'] + MaxBusy >= Conversion[current']
      <3>. SUFFICES ASSUME worker = "read" PROVE waited'[current] + MaxBusy >= Conversion[current]
        BY <2>1
      <3>1. current \in Devices /\ waited[current] + MaxBusy >= Conversion[current]
        BY DEF Conversions, Served, Busy
      <3>. QED BY <1>t, <2>1, <3>1
    <2>. QED BY <2>2, <2>3, <2>4 DEF Conversions
  <1>. QED BY <1>2, <1>3, <1>4, <1>5, <1>7, <1>8, <1>9, <1>10, <1>11, <1>12, <1>13
    DEF Next, App, Run

-----------------------------------------------------------------------------
(* The sleep. *)

(* The sleep was computed for now, when nothing was due: it ends no later  *)
(* than the next due time, the ticks that had passed since and one of the  *)
(* kernel's.                                                               *)
LEMMA DelayWakes ==
  ASSUME Types, Clocks, Delay, NEW d \in Registered, TickReached(wake', entry[d].due)
  PROVE  Sub(wake', entry[d].due) <= WakeLag
  <1>. DEFINE due == entry[d].due
              s == SleepMs(now)
              x == Sub(due, now)
              passed == Sub(clock, now)
  <1>1. /\ clock \in Times /\ now \in Times /\ due \in Times /\ spent \in 0 .. MaxBusy
        /\ \A e \in Registered : entry[e].due \in Times
    BY RegisteredDevices DEF Types, Entries
  <1>2. worker = "idle" /\ passed <= spent /\ Ready(now) = {}
    BY DEF Delay, Clocks
  <1>3. s \in Nat \ {0} /\ (x >= 1 => s <= x)
    BY <1>1, SleepLeast
  <1>4. ~TickReached(now, due)
    BY <1>2 DEF Ready
  <1>. HIDE DEF due, s
  <1>5. Sub(now, due) \in Times /\ 2 * Sub(now, due) >= TickRange
    BY <1>1, <1>4, SubIs, BoundsAssumption DEF TickReached, Times
  <1>6. /\ x \in Times /\ x = IF due >= now THEN due - now ELSE due - now + TickRange
        /\ Sub(now, due) = IF now >= due THEN now - due ELSE now - due + TickRange
        /\ passed \in Times
        /\ passed = IF clock >= now THEN clock - now ELSE clock - now + TickRange
    BY <1>1, SubIs
  <1>7. x >= 1 /\ 2 * x <= TickRange
    BY <1>1, <1>5, <1>6, BoundsAssumption DEF Times
  <1>8. PICK w \in DelayMs(KernelTicksFromMs(s)) : wake' = Add(clock, w)
    BY DEF Delay, s
  <1>9. PICK o \in Nat : o = Oversleep /\ WakeLag = MaxBusy + o /\ 2 * (MaxBusy + o) < TickRange
    <2>1. Period[d] \in Nat /\ 2 * (Period[d] + WakeLag) < TickRange /\ WakeLag = MaxBusy + Oversleep
      BY RegisteredDevices, DevicesAssumption, SpanAssumption DEF Types, WakeLag
    <2>. HIDE DEF WakeLag
    <2>. QED BY <2>1, OversleepIs, BoundsAssumption
  <1>10. w \in 0 .. (x + o)
    <2>1. w \in 0 .. (s + o)
      BY <1>3, <1>8, <1>9, DelayBound
    <2>. QED BY <1>3, <1>7, <1>9, <2>1, <1>6, BoundsAssumption DEF Times
  <1>11. w \in 0 .. TickRange /\ 2 * w <= TickRange + 2 * o
    BY <1>6, <1>7, <1>9, <1>10, BoundsAssumption DEF Times
  <1>12. /\ wake' \in Times
         /\ wake' = IF clock + w < TickRange THEN clock + w ELSE clock + w - TickRange
    BY <1>1, <1>8, <1>11, AddIs
  <1>13. /\ Sub(wake', due) \in Times
         /\ Sub(wake', due) = IF wake' >= due THEN wake' - due ELSE wake' - due + TickRange
    BY <1>1, <1>12, SubIs
  <1>14. 2 * Sub(wake', due) < TickRange
    BY DEF TickReached, due
  <1>. HIDE DEF x, passed
  <1>15. Sub(wake', due) <= passed + o
    BY <1>1, <1>6, <1>7, <1>9, <1>10, <1>12, <1>13, <1>14, BoundsAssumption DEF Times
  <1>. QED BY <1>1, <1>2, <1>6, <1>9, <1>13, <1>15, BoundsAssumption DEF due, Times

(* A sleeping thread's wake-up stays no later than the next due time. *)
LEMMA StepClocks ==
  ASSUME Types, Served, Threads, Clocks, [Next]_vars
  PROVE  Clocks'
  <1>1. ASSUME UNCHANGED <<entry, table, wake, now, clock, spent>>,
               worker' = worker \/ worker' \notin {"init", "trigger", "wait", "read", "idle", "asleep"}
        PROVE  Clocks'
    BY <1>1 DEF Clocks, Busy, WakesForTheNext, Registered, Ready
  <1>2. ASSUME worker' \notin {"init", "trigger", "wait", "read", "idle", "asleep"}
        PROVE  Clocks'
    BY <1>2 DEF Clocks, Busy, WakesForTheNext
  <1>3. ASSUME NEW d \in Devices, Register(d) PROVE Clocks'
    BY <1>2, <1>3 DEF Register, Threads
  <1>4. CASE Start \/ CreateThread \/ StoreHandle \/ CreateFails \/ Stop
             \/ LeaveLoop \/ ClearRunFlag \/ ClearHandle \/ UNCHANGED vars
    <2>1. CASE CreateThread
      BY <1>2, <2>1 DEF CreateThread
    <2>2. CASE Start \/ StoreHandle \/ CreateFails \/ Stop
               \/ LeaveLoop \/ ClearRunFlag \/ ClearHandle \/ UNCHANGED vars
      BY <1>1, <2>2 DEF Start, StoreHandle, CreateFails, Stop, LeaveLoop, ClearRunFlag,
         ClearHandle, vars, Untimed, turn, scheduler
    <2>. QED BY <1>4, <2>1, <2>2
  <1>5. ASSUME NEW d \in Devices, Serve(d) PROVE Clocks'
    <2>1. Sub(clock, clock) = 0 /\ spent >= 0
      BY SubSelf, BoundsAssumption DEF Types
    <2>2. /\ worker' \in {"init", "trigger", "wait"} /\ now' = clock
          /\ clock' = clock /\ spent' = spent
      BY <1>5 DEF Serve
    <2>. QED BY <2>1, <2>2 DEF Clocks, Busy, WakesForTheNext
  <1>6. ASSUME NEW ok \in BOOLEAN, InitEnds(ok) PROVE Clocks'
    BY <1>2, <1>6 DEF InitEnds, EndTurn
  <1>7. CASE TriggerFails \/ Pending \/ ReadEnds \/ WakeUp
    BY <1>2, <1>7 DEF TriggerFails, Pending, ReadEnds, EndRound, WakeUp, EndTurn
  <1>8. CASE TriggerSent \/ BeginRead
    <2>1. /\ Busy /\ worker' \in {"wait", "read"}
          /\ UNCHANGED <<clock, now, spent>>
      BY <1>8 DEF TriggerSent, BeginRead, Busy, turn
    <2>. QED BY <2>1 DEF Clocks, Busy, WakesForTheNext
  <1>9. CASE NothingReady
    <2>1. Sub(clock, clock) = 0 /\ spent >= 0
      BY SubSelf, BoundsAssumption DEF Types
    <2>2. /\ worker' = "idle" /\ now' = clock /\ clock' = clock /\ spent' = spent
          /\ Ready(clock) = {} /\ entry' = entry /\ table' = table
      BY <1>9 DEF NothingReady, scheduler
    <2>3. Ready(clock)' = {}
      BY <2>2 DEF Ready, Registered
    <2>. QED BY <2>1, <2>2, <2>3 DEF Clocks, Busy, WakesForTheNext
  <1>10. CASE Delay
    <2>1. worker' = "asleep" /\ entry' = entry /\ Registered' = Registered
      BY <1>10 DEF Delay, scheduler, Registered
    <2>2. \A d \in Registered :
            TickReached(wake', entry[d].due) => Sub(wake', entry[d].due) <= WakeLag
      BY <1>10, DelayWakes
    <2>3. WakesForTheNext'
      BY <2>1, <2>2 DEF WakesForTheNext
    <2>. QED BY <2>1, <2>3 DEF Clocks, Busy
  <1>11. CASE Tick
    <2>1. /\ clock' = Add(clock, 1) /\ UNCHANGED <<worker, entry, table, wake, now>>
          /\ spent' = IF worker \in {"asleep", "none"} THEN spent ELSE spent + 1
      BY <1>11 DEF Tick, scheduler, turn
    <2>2. Sub(Add(clock, 1), now) \in {0, Sub(clock, now) + 1} /\ Sub(clock, now) \in Nat
      BY SubTick, SubIs DEF Types, Times
    <2>3. spent \in Nat
      BY BoundsAssumption DEF Types
    <2>4. Busy' \/ worker' = "idle" => Sub(clock', now') <= spent'
      BY <2>1, <2>2, <2>3 DEF Clocks, Busy
    <2>5. (worker' = "idle" => Ready(now)' = {}) /\ WakesForTheNext'
      BY <2>1 DEF Clocks, Ready, WakesForTheNext, Registered
    <2>. QED BY <2>4, <2>5 DEF Clocks
  <1>. QED BY <1>3, <1>4, <1>5, <1>6, <1>7, <1>8, <1>9, <1>10, <1>11 DEF Next, App, Run

-----------------------------------------------------------------------------
(* The grid of due times.                                                  *)

(* A remainder is the only one in its range. *)
LEMMA RemainderUnique ==
  ASSUME NEW p \in Nat \ {0}, NEW q \in Int, NEW r \in 0 .. (p - 1)
  PROVE  (p * q + r) % p = r
  <1>. DEFINE x == p * q + r
              k == q - (x \div p)
  <1>1. x \in Int
    BY SMT
  <1>2. x \div p \in Int /\ x % p \in 0 .. (p - 1) /\ x = p * (x \div p) + (x % p)
    BY <1>1, Euclid
  <1>3. k \in Int
    BY <1>2
  <1>4. p * k = p * q - p * (x \div p)
    BY <1>2, Distribute
  <1>5. /\ p * k \in Int /\ p * q \in Int /\ p * (x \div p) \in Int
        /\ k >= 1 => p * k >= p
        /\ k <= -1 => p * k <= -p
    BY <1>2, <1>3, MultipleBound
  <1>. DEFINE y == x % p
              pk == p * k
              pq == p * q
              pd == p * (x \div p)
  <1>6. pk = pq - pd /\ pq + r = pd + y /\ y \in 0 .. (p - 1)
        /\ pk \in Int /\ pq \in Int /\ pd \in Int
    BY <1>2, <1>4, <1>5
  <1>7. (k >= 1 => pk >= p) /\ (k <= -1 => pk <= -p)
    BY <1>5
  <1>8. k = 0 => pk = 0
    BY <1>3
  <1>. HIDE DEF k, pk, pq, pd, y
  <1>9. y = r
    BY <1>3, <1>6, <1>7, <1>8
  <1>. QED BY <1>9 DEF y

(* The ticks do not see whole turns of their range. *)
LEMMA WholeTurns ==
  ASSUME NEW x \in Int, NEW n \in Int
  PROVE  (x + TickRange * n) % TickRange = x % TickRange
  <1>. DEFINE q == x \div TickRange
              r == x % TickRange
  <1>1. q \in Int /\ r \in 0 .. (TickRange - 1) /\ x = TickRange * q + r
    BY BoundsAssumption, Euclid
  <1>. HIDE DEF q, r
  <1>2. TickRange * (q + n) = TickRange * q + TickRange * n
        /\ TickRange * q \in Int /\ TickRange * n \in Int
    BY <1>1, BoundsAssumption, SMT
  <1>3. (TickRange * (q + n) + r) % TickRange = r
    BY <1>1, BoundsAssumption, RemainderUnique
  <1>4. x + TickRange * n = TickRange * (q + n) + r
    BY <1>1, <1>2
  <1>. QED BY <1>3, <1>4 DEF r

(* Any multiple of a period will do: beyond TickRange they repeat. *)
LEMMA AnyMultiple ==
  ASSUME NEW o \in Int, NEW p \in Int, NEW k \in Int
  PROVE  Add(o, k * p) \in PeriodsFrom(o, p)
  <1>. DEFINE q == k \div TickRange
              j == k % TickRange
  <1>1. q \in Int /\ j \in Times /\ k = TickRange * q + j
    BY BoundsAssumption, Euclid DEF Times
  <1>. HIDE DEF q, j
  <1>2. j \in Int /\ j * p \in Int /\ q * p \in Int
    BY <1>1, BoundsAssumption, SMT DEF Times
  <1>3. k * p = j * p + TickRange * (q * p)
    <2>1. (TickRange * q + j) * p = j * p + TickRange * (q * p)
      BY <1>1, <1>2, BoundsAssumption, SMT
    <2>. QED BY <1>1, <2>1
  <1>. DEFINE jp == j * p
              qp == q * p
              kp == k * p
              tqp == TickRange * qp
  <1>4. jp \in Int /\ qp \in Int /\ tqp \in Int /\ kp = jp + tqp
    BY <1>2, <1>3, BoundsAssumption
  <1>5. ((o + jp) + tqp) % TickRange = (o + jp) % TickRange
    <2>. HIDE DEF jp, qp
    <2>. QED BY <1>4, WholeTurns
  <1>6. o + kp = (o + jp) + tqp
    <2>. HIDE DEF jp, kp, tqp
    <2>. QED BY <1>4
  <1>7. Add(o, k * p) = Add(o, j * p)
    BY <1>5, <1>6 DEF Add
  <1>. QED BY <1>1, <1>7 DEF PeriodsFrom

(* Periods added to a time on the grid stay on the grid. *)
LEMMA PeriodsClosed ==
  ASSUME NEW o \in Int, NEW p \in Int, NEW t \in PeriodsFrom(o, p), NEW i \in Int
  PROVE  Add(t, i * p) \in PeriodsFrom(o, p)
  <1>1. PICK k \in Times : t = Add(o, k * p)
    BY DEF PeriodsFrom
  <1>. DEFINE kp == k * p
              ip == i * p
              sp == (k + i) * p
  <1>2. k \in Int
    BY <1>1, BoundsAssumption DEF Times
  <1>3. kp \in Int /\ ip \in Int /\ sp = kp + ip
    BY <1>2, SMT
  <1>. HIDE DEF kp, ip, sp
  <1>. DEFINE n == (o + kp) \div TickRange
              turns == TickRange * n
  <1>4. n \in Int /\ o + kp = TickRange * n + t /\ t \in Int
    <2>1. t = (o + kp) % TickRange
      BY <1>1 DEF Add, kp
    <2>2. o + kp \in Int
      BY <1>3
    <2>. DEFINE y == o + kp
    <2>3. TickRange \in Nat \ {0} /\ y \in Int
      BY <2>2, BoundsAssumption
    <2>. HIDE DEF y
    <2>4. /\ y \div TickRange \in Int /\ y % TickRange \in 0 .. (TickRange - 1)
          /\ y = TickRange * (y \div TickRange) + (y % TickRange)
      BY <2>3, Euclid
    <2>5. y % TickRange \in Int
      BY <2>4
    <2>. QED BY <2>1, <2>4, <2>5 DEF y
  <1>. HIDE DEF n
  <1>5. turns \in Int /\ o + kp = turns + t
    BY <1>4, BoundsAssumption
  <1>6. ((t + ip) + turns) % TickRange = (t + ip) % TickRange
    BY <1>3, <1>4, WholeTurns
  <1>. HIDE DEF turns
  <1>7. o + sp = (t + ip) + turns
    BY <1>3, <1>4, <1>5
  <1>8. Add(o, sp) = Add(t, ip)
    BY <1>6, <1>7 DEF Add
  <1>9. Add(o, (k + i) * p) \in PeriodsFrom(o, p)
    <2>1. k + i \in Int
      BY <1>2
    <2>. QED BY <2>1, AnyMultiple
  <1>. QED BY <1>8, <1>9 DEF sp, ip

(* The round that is being served began on the grid, and nothing but a     *)
(* registered entry is served.                                             *)
Grid ==
  /\ OnGrid
  /\ \A d \in Devices \ Registered : ~entry[d].pending
  /\ Busy => current \in Registered
  /\ worker \in {"trigger", "wait", "read"} =>
       entry[current].cycleStart \in PeriodsFrom(origin[current], Period[current])

(* The first due time is on the grid of its remainder.                     *)
LEMMA FirstOnGrid ==
  ASSUME NEW t \in Times, NEW p \in Nat \ {0}
  PROVE  t \in PeriodsFrom(t % p, p)
  <1>. DEFINE k == t \div p
              kp == k * p
              r == t % p
  <1>1. k \in Int /\ r \in 0 .. (p - 1) /\ t = p * k + r
    BY Euclid, BoundsAssumption DEF Times
  <1>. HIDE DEF k, r
  <1>2. kp \in Int /\ p * k = kp
    BY <1>1, SMT
  <1>. HIDE DEF kp
  <1>3. r + kp = t /\ r \in Int
    BY <1>1, <1>2 DEF Times
  <1>4. t % TickRange = t
    BY BoundsAssumption DEF Times
  <1>5. Add(r, k * p) = t
    BY <1>3, <1>4 DEF Add, kp
  <1>6. Add(r, k * p) \in PeriodsFrom(r, p)
    BY <1>1, <1>3, AnyMultiple
  <1>. QED BY <1>5, <1>6 DEF r

(* The round that ends was on the grid, and so is the next.                *)
LEMMA NextOnGrid ==
  ASSUME Types, NEW d \in Devices, entry[d].cycleStart \in PeriodsFrom(origin[d], Period[d])
  PROVE  NextDue(d) \in PeriodsFrom(origin[d], Period[d])
  <1>. DEFINE missed == Sub(now, entry[d].cycleStart) \div Period[d]
              c == entry[d].cycleStart
  <1>1. c \in Times /\ now \in Times /\ Period[d] \in Nat \ {0} /\ origin[d] \in Nat
    BY DevicesAssumption DEF Types, Entries
  <1>2. missed + 1 \in Int
    <2>1. Sub(now, c) \in Nat
      BY <1>1, SubIs DEF Times
    <2>. QED BY <1>1, <2>1
  <1>3. NextDue(d) = Add(c, (missed + 1) * Period[d])
    BY DEF NextDue
  <1>. HIDE DEF missed, c
  <1>4. Add(c, (missed + 1) * Period[d]) \in PeriodsFrom(origin[d], Period[d])
    BY <1>1, <1>2, PeriodsClosed DEF c
  <1>. QED BY <1>3, <1>4

(* Every step moves due times along their own grid. *)
LEMMA StepGrid ==
  ASSUME Types, Served, Threads, Phases, Grid, [Next]_vars
  PROVE  Grid'
  <1>1. ASSUME UNCHANGED <<entry, table, origin, current>>,
               \/ worker' = worker
               \/ worker' \notin {"init", "trigger", "wait", "read"}
               \/ worker \in {"trigger", "wait"} /\ worker' \in {"wait", "read"}
        PROVE  Grid'
    <2>1. Registered' = Registered
      BY <1>1 DEF Registered
    <2>. QED BY <1>1, <2>1 DEF Grid, OnGrid, Busy
  <1>2. ASSUME NEW d \in Devices, Register(d) PROVE Grid'
    <2>1. /\ d \notin Registered /\ table' = Append(table, d) /\ ~Busy
          /\ worker' = worker
          /\ entry' = [entry EXCEPT ![d].due = Add(clock, Phase[d])]
          /\ origin' = [origin EXCEPT ![d] = Add(clock, Phase[d]) % Period[d]]
      BY <1>2 DEF Register, Threads, Busy
    <2>2. Registered' = Registered \cup {d}
      BY <2>1, RegisteredAppend DEF Types
    <2>3. /\ \A e \in Devices \ {d} : entry'[e] = entry[e] /\ origin'[e] = origin[e]
          /\ ~entry'[d].pending
          /\ entry'[d].due = Add(clock, Phase[d])
          /\ origin'[d] = Add(clock, Phase[d]) % Period[d]
      BY <2>1 DEF Types, Entries, Grid
    <2>4. Add(clock, Phase[d]) \in Times
      BY AddIs, DevicesAssumption DEF Types
    <2>5. entry'[d].due \in PeriodsFrom(origin'[d], Period[d])
      BY <2>3, <2>4, FirstOnGrid, DevicesAssumption
    <2>6. OnGrid'
      BY <2>2, <2>3, <2>5, RegisteredDevices DEF Grid, OnGrid, Types
    <2>7. \A e \in Devices \ Registered' : ~entry'[e].pending
      BY <2>2, <2>3 DEF Grid
    <2>. QED BY <2>1, <2>6, <2>7 DEF Grid, Busy
  <1>3. CASE Start \/ CreateThread \/ StoreHandle \/ CreateFails \/ Stop
             \/ LeaveLoop \/ ClearRunFlag \/ ClearHandle \/ NothingReady \/ Delay
             \/ Tick \/ UNCHANGED vars
    BY <1>1, <1>3 DEF Start, CreateThread, StoreHandle, CreateFails, Stop, LeaveLoop, ClearRunFlag,
       ClearHandle, NothingReady, Delay, Tick, vars, Untimed, turn, scheduler
  <1>4. CASE TriggerSent \/ BeginRead
    BY <1>1, <1>4 DEF TriggerSent, BeginRead, Busy, turn, scheduler
  <1>5. CASE WakeUp
    <2>1. current = None /\ current' = None
      BY <1>5 DEF WakeUp, EndTurn, Served, Busy
    <2>. QED BY <1>1, <1>5, <2>1 DEF WakeUp, EndTurn, scheduler
  <1>6. ASSUME NEW d \in Devices, Serve(d) PROVE Grid'
    <2>1. /\ current' = d /\ d \in Registered /\ UNCHANGED <<table, origin>>
          /\ worker' = IF ~entry[d].initialized THEN "init"
                       ELSE IF device[d].phase = "Trigger" THEN "trigger" ELSE "wait"
          /\ entry' = [entry EXCEPT ![d] = CycleBegun(d)]
      BY <1>6 DEF Serve, Selected, Ready, scheduler
    <2>2. Registered' = Registered
      BY <2>1 DEF Registered
    <2>3. /\ \A e \in Devices \ {d} : entry'[e] = entry[e]
          /\ entry'[d].pending = entry[d].pending /\ entry'[d].due = entry[d].due
          /\ entry'[d].cycleStart = IF entry[d].initialized /\ ~entry[d].pending
                                    THEN entry[d].due ELSE entry[d].cycleStart
      BY <2>1 DEF CycleBegun, Types, Entries
    <2>4. entry[d].initialized => entry'[d].cycleStart \in PeriodsFrom(origin[d], Period[d])
      BY <2>1, <2>3 DEF Grid, OnGrid
    <2>5. entry[d].pending => entry[d].initialized
      BY DEF Phases
    <2>6. OnGrid'
      BY <2>1, <2>2, <2>3, <2>4, <2>5, RegisteredDevices DEF Grid, OnGrid, Types
    <2>7. \A e \in Devices \ Registered' : ~entry'[e].pending
      BY <2>1, <2>2, <2>3 DEF Grid
    <2>. QED BY <2>1, <2>2, <2>4, <2>6, <2>7 DEF Grid, Busy
  <1>7. ASSUME EndTurn, Busy,
               \A d \in Devices \ {current} : entry'[d] = entry[d],
               (IF entry'[current].pending THEN entry'[current].cycleStart ELSE entry'[current].due)
                 \in PeriodsFrom(origin[current], Period[current])
        PROVE  Grid'
    <2>1. /\ worker' = "loop" /\ UNCHANGED <<table, origin>> /\ current \in Registered
      BY <1>7 DEF EndTurn, scheduler, Grid
    <2>2. Registered' = Registered
      BY <2>1 DEF Registered
    <2>3. OnGrid'
      <3>1. Registered \subseteq Devices
        BY RegisteredDevices DEF Types
      <3>2. ASSUME NEW d \in Registered
            PROVE  (IF entry'[d].pending THEN entry'[d].cycleStart ELSE entry'[d].due)
                     \in PeriodsFrom(origin[d], Period[d])
        <4>1. CASE d = current
          BY <1>7, <4>1
        <4>2. CASE d # current
          BY <1>7, <3>1, <4>2 DEF Grid, OnGrid
        <4>. QED BY <4>1, <4>2
      <3>. QED BY <2>1, <2>2, <3>2 DEF OnGrid
    <2>4. \A e \in Devices \ Registered' : ~entry'[e].pending
      BY <1>7, <2>1, <2>2 DEF Grid
    <2>. QED BY <2>1, <2>3, <2>4 DEF Grid, Busy
  <1>8. ASSUME NEW ok \in BOOLEAN, InitEnds(ok) PROVE Grid'
    <2>1. /\ Busy /\ current \in Registered /\ current \in Devices
          /\ ~entry[current].pending
      BY <1>8 DEF InitEnds, Busy, Grid, Served, Phases
    <2>2. /\ \A d \in Devices \ {current} : entry'[d] = entry[d]
          /\ entry'[current].pending = entry[current].pending
          /\ entry'[current].due = Add(entry[current].due, Period[current])
      BY <1>8, <2>1 DEF InitEnds, Types, Entries
    <2>3. entry[current].due \in PeriodsFrom(origin[current], Period[current])
      BY <2>1 DEF Grid, OnGrid
    <2>4. Add(entry[current].due, 1 * Period[current])
            \in PeriodsFrom(origin[current], Period[current])
      <3>1. Period[current] \in Int /\ origin[current] \in Int
        BY <2>1, DevicesAssumption DEF Types
      <3>2. \A i \in Int : Add(entry[current].due, i * Period[current])
                             \in PeriodsFrom(origin[current], Period[current])
        BY <2>3, <3>1, PeriodsClosed
      <3>3. 1 \in Int
        OBVIOUS
      <3>. QED BY <3>2, <3>3, Zenon
    <2>5. 1 * Period[current] = Period[current]
      BY <2>1, DevicesAssumption
    <2>. QED BY <1>7, <1>8, <2>1, <2>2, <2>4, <2>5 DEF InitEnds
  <1>9. CASE TriggerFails \/ ReadEnds
    <2>1. /\ Busy /\ current \in Devices /\ EndRound
          /\ entry[current].cycleStart \in PeriodsFrom(origin[current], Period[current])
      BY <1>9 DEF TriggerFails, ReadEnds, Busy, Served, Grid
    <2>2. /\ \A d \in Devices \ {current} : entry'[d] = entry[d]
          /\ ~entry'[current].pending /\ entry'[current].due = NextDue(current)
      BY <2>1 DEF EndRound, Types, Entries
    <2>3. NextDue(current) \in PeriodsFrom(origin[current], Period[current])
      BY <2>1, NextOnGrid
    <2>. QED BY <1>7, <2>1, <2>2, <2>3 DEF EndRound
  <1>10. CASE Pending
    <2>1. /\ Busy /\ current \in Devices
          /\ entry[current].cycleStart \in PeriodsFrom(origin[current], Period[current])
      BY <1>10 DEF Pending, Busy, Served, Grid
    <2>2. /\ \A d \in Devices \ {current} : entry'[d] = entry[d]
          /\ entry'[current].pending
          /\ entry'[current].cycleStart = entry[current].cycleStart
      BY <1>10, <2>1 DEF Pending, Types, Entries
    <2>. QED BY <1>7, <1>10, <2>1, <2>2 DEF Pending
  <1>. QED BY <1>2, <1>3, <1>4, <1>5, <1>6, <1>8, <1>9, <1>10 DEF Next, App, Run

-----------------------------------------------------------------------------
IInv == Flags /\ Types /\ Served /\ Threads /\ Phases /\ Conversions /\ Clocks /\ Grid

(* It holds before anything is registered. *)
LEMMA InitInv == Init => IInv
  <1>. SUFFICES ASSUME Init PROVE IInv
    OBVIOUS
  <1>. USE BoundsAssumption, DevicesAssumption
  <1>1. Flags /\ Threads
    BY DEF Init, Flags, Threads
  <1>2. Types
    <2>1. 0 \in Times
      BY DEF Times
    <2>2. table \in Seq(Devices) /\ Len(table) <= MaxDevices
      BY DEF Init
    <2>3. entry \in [Devices -> Entries]
      BY <2>1 DEF Init, Entries
    <2>4. device \in [Devices -> [phase : {"Trigger", "Wait", "Read"}, triggerMs : Times]]
      BY <2>1 DEF Init
    <2>. QED BY <2>1, <2>2, <2>3, <2>4 DEF Init, Types
  <1>3. Served /\ Phases /\ Conversions /\ Clocks
    BY DEF Init, Served, Phases, Conversions, Clocks, Busy, WakesForTheNext
  <1>4. Grid
    BY DEF Init, Grid, OnGrid, Registered, Busy
  <1>. QED BY <1>1, <1>2, <1>3, <1>4 DEF IInv

(* Every step keeps it. *)
LEMMA StepInv == IInv /\ [Next]_vars => IInv'
  BY StepFlags, StepTypes, StepThreads, StepPhases, StepConversions, StepClocks, StepGrid DEF IInv

(* What the manager keeps through every step, with any number of devices.  *)
THEOREM Invariance == Spec => []IInv
  BY InitInv, StepInv, PTL DEF Spec

(* The fields of the manager, its entries and its devices stay in their    *)
(* types; the table stays within MaxDevices.                               *)
THEOREM TypeCorrect == Spec => []TypeOK
  <1>1. IInv => TypeOK
    BY DEF IInv, Flags, Types, Served, TypeOK, Entries
  <1>. QED BY Invariance, <1>1, PTL

(* I2CDevice::update(): however a round was delayed, stopped or resumed,   *)
(* and even when the tick counter has come round in between, a device is   *)
(* read no earlier than its conversion time after its trigger was sent,    *)
(* less what the triggering turn had taken until then (at most MaxBusy,    *)
(* which the code's sample of the clock does not see); and between turns   *)
(* an entry is pending exactly when its device waits.                      *)
THEOREM ConversionWaitedThm == Spec => []ConversionWaited
  <1>1. IInv => ConversionWaited
    <2>. SUFFICES ASSUME IInv PROVE ConversionWaited
      OBVIOUS
    <2>1. \A d \in Devices : entry[d].pending \in BOOLEAN
      BY DEF IInv, Types, Entries
    <2>2. ASSUME NEW d \in Devices, d # current
          PROVE  entry[d].pending = (device[d].phase = "Wait")
      <3>1. entry[d].pending <=> device[d].phase = "Wait"
        BY <2>2 DEF IInv, Phases
      <3>. QED BY <2>1, <3>1
    <2>3. worker = "read" => waited[current] + MaxBusy >= Conversion[current]
      BY DEF IInv, Conversions
    <2>. QED BY <2>2, <2>3 DEF ConversionWaited
  <1>. QED BY Invariance, <1>1, PTL

(* start() and run(): there are never two threads on one bus.              *)
THEOREM OneThreadThm == Spec => []OneThread
  <1>1. IInv => OneThread
    BY DEF IInv, Threads, OneThread
  <1>. QED BY Invariance, <1>1, PTL

(* computeSleepMs() and kernelTicksFromMs(): the thread sleeps past a due  *)
(* time by no more ticks than it had worked since it sampled the clock and *)
(* the rounding to kernel ticks adds, for any kernel tick frequency and    *)
(* over the wrap too.                                                      *)
THEOREM WakesForTheNextThm == Spec => []WakesForTheNext
  <1>1. IInv => WakesForTheNext
    BY DEF IInv, Clocks
  <1>. QED BY Invariance, <1>1, PTL

(* run() and computeNextDue(): rounds never drift off their grid, however  *)
(* late they were served, whatever failed and wherever they waited, for    *)
(* any period, when the tick counter wraps too.                            *)
THEOREM OnGridThm == Spec => []OnGrid
  <1>1. IInv => OnGrid
    BY DEF IInv, Grid
  <1>. QED BY Invariance, <1>1, PTL

(* The scheduler's promise as a whole: one thread, rounds on their grid,   *)
(* and no sleep past a due time but for the ticks worked since the sample  *)
(* and the rounding to the kernel's tick.                                  *)
THEOREM OnScheduleThm == Spec => []OnSchedule
  <1>1. IInv => OnSchedule
    BY DEF IInv, Threads, Grid, Clocks, OnSchedule, OneThread
  <1>. QED BY Invariance, <1>1, PTL

-----------------------------------------------------------------------------
(* Who is due before whom. *)

(* How many ticks u comes after t, over the wrap, or before it. *)
Offset(t, u) == IF 2 * Sub(u, t) < TickRange THEN Sub(u, t) ELSE Sub(u, t) - TickRange

Larger(a, b) == IF a >= b THEN a ELSE b

(* How far a due time may be behind the clock, and how far ahead. *)
Lateness == Larger(MaxLag, WakeLag)
Reach(d) == Larger(Period[d], Larger(Phase[d], Conversion[d]))

(* Due times stay close to the clock, so that one that is over is never    *)
(* taken for one to come; a sleep ends close to the first of them; and a   *)
(* device that is being served is due.                                     *)
Near ==
  \A d \in Registered :
    /\ Offset(clock, entry[d].due) \in (-Lateness) .. Reach(d)
    /\ worker = "asleep" => Sub(wake, clock) <= Offset(clock, entry[d].due) + WakeLag
    /\ Busy /\ d = current => Offset(clock, entry[d].due) <= 0

(* The bounds by their values. *)
LEMMA SpanIs ==
  ASSUME NEW d \in Devices
  PROVE  /\ Lateness \in Nat /\ Lateness >= MaxLag /\ Lateness >= WakeLag
         /\ WakeLag \in Nat /\ WakeLag = MaxBusy + Oversleep /\ Lateness >= MaxBusy
         /\ Reach(d) \in Nat /\ Reach(d) >= 1
         /\ Reach(d) >= Period[d] /\ Reach(d) >= Phase[d] /\ Reach(d) >= Conversion[d]
         /\ 2 * (Reach(d) + Lateness) < TickRange
  <1>1. /\ Period[d] \in Nat \ {0} /\ Phase[d] \in Nat /\ Conversion[d] \in Nat
        /\ MaxLag \in Nat /\ MaxBusy \in Nat
    BY DevicesAssumption, BoundsAssumption
  <1>2. Lateness \in {MaxLag, WakeLag} /\ Reach(d) \in {Period[d], Phase[d], Conversion[d]}
    BY DEF Lateness, Reach, Larger
  <1>3. 2 * (Reach(d) + Lateness) < TickRange
    BY <1>2, SpanAssumption
  <1>4. WakeLag \in Nat /\ WakeLag = MaxBusy + Oversleep /\ WakeLag >= MaxBusy
    BY <1>1, OversleepIs DEF WakeLag
  <1>5. Lateness >= MaxLag /\ Lateness >= WakeLag /\ Lateness >= MaxBusy /\ Lateness \in Nat
    BY <1>1, <1>4 DEF Lateness, Larger
  <1>6. /\ Reach(d) \in Nat
        /\ Reach(d) >= Period[d] /\ Reach(d) >= Phase[d] /\ Reach(d) >= Conversion[d]
    BY <1>1 DEF Reach, Larger
  <1>. QED BY <1>1, <1>3, <1>4, <1>5, <1>6

(* An offset is the difference of the ticks, to a turn of their range. *)
LEMMA OffsetIs ==
  ASSUME NEW t \in Times, NEW u \in Times
  PROVE  /\ Offset(t, u) \in Int
         /\ -TickRange <= 2 * Offset(t, u) /\ 2 * Offset(t, u) < TickRange
         /\ Offset(t, u) \in {u - t, u - t + TickRange, u - t - TickRange}
  <1>1. Sub(u, t) \in Times /\ Sub(u, t) = IF u >= t THEN u - t ELSE u - t + TickRange
    BY SubIs
  <1>. QED BY <1>1, BoundsAssumption DEF Offset, Times

(* tickReached() by offsets. *)
LEMMA OffsetReached ==
  ASSUME NEW t \in Times, NEW u \in Times, -TickRange < 2 * Offset(t, u)
  PROVE  TickReached(t, u) <=> Offset(t, u) <= 0
  <1>1. /\ Sub(u, t) \in Times /\ Sub(u, t) = IF u >= t THEN u - t ELSE u - t + TickRange
        /\ Sub(t, u) \in Times /\ Sub(t, u) = IF t >= u THEN t - u ELSE t - u + TickRange
    BY SubIs
  <1>. QED BY <1>1, BoundsAssumption DEF Offset, TickReached, Times

(* Offsets add up. *)
LEMMA OffsetAdds ==
  ASSUME NEW t \in Times, NEW u \in Times, NEW v \in Times,
         -TickRange <= 2 * (Offset(t, u) + Offset(u, v)),
         2 * (Offset(t, u) + Offset(u, v)) < TickRange
  PROVE  Offset(t, v) = Offset(t, u) + Offset(u, v)
  <1>1. PICK x \in Int : x = Offset(t, u) /\ x \in {u - t, u - t + TickRange, u - t - TickRange}
    BY OffsetIs
  <1>2. PICK y \in Int : y = Offset(u, v) /\ y \in {v - u, v - u + TickRange, v - u - TickRange}
    BY OffsetIs
  <1>3. x + y \in {v - t, v - t + TickRange, v - t - TickRange,
                   v - t + 2 * TickRange, v - t - 2 * TickRange}
    BY <1>1, <1>2, BoundsAssumption DEF Times
  <1>4. PICK z \in Int : /\ z = Offset(t, v) /\ z \in {v - t, v - t + TickRange, v - t - TickRange}
                         /\ -TickRange <= 2 * z /\ 2 * z < TickRange
    BY OffsetIs
  <1>5. -TickRange <= 2 * (x + y) /\ 2 * (x + y) < TickRange
    BY <1>1, <1>2
  <1>6. z = x + y
    BY <1>3, <1>4, <1>5, BoundsAssumption DEF Times
  <1>. QED BY <1>1, <1>2, <1>4, <1>6

(* What is added to a time is its offset. *)
LEMMA OffsetOfAdd ==
  ASSUME NEW t \in Times, NEW k \in Nat, 2 * k < TickRange
  PROVE  Add(t, k) \in Times /\ Offset(t, Add(t, k)) = k
  <1>1. k \in 0 .. TickRange
    BY BoundsAssumption
  <1>2. /\ Add(t, k) \in Times
        /\ Add(t, k) = IF t + k < TickRange THEN t + k ELSE t + k - TickRange
    BY <1>1, AddIs
  <1>3. PICK s \in Times : s = Add(t, k)
    BY <1>2
  <1>4. Sub(s, t) = IF s >= t THEN s - t ELSE s - t + TickRange
    BY SubIs
  <1>5. Sub(s, t) = k
    BY <1>1, <1>2, <1>3, <1>4, BoundsAssumption DEF Times
  <1>. QED BY <1>3, <1>5 DEF Offset

(* A tick brings every time one closer, or takes it one further back. *)
LEMMA OffsetTick ==
  ASSUME NEW t \in Times, NEW u \in Times, -TickRange <= 2 * (Offset(t, u) - 1)
  PROVE  Offset(Add(t, 1), u) = Offset(t, u) - 1
  <1>1. PICK s \in Times : s = Add(t, 1) /\ s \in {t + 1, t + 1 - TickRange}
    BY AddIs, BoundsAssumption
  <1>2. PICK x \in Int : /\ x = Offset(t, u) /\ x \in {u - t, u - t + TickRange, u - t - TickRange}
                         /\ -TickRange <= 2 * x /\ 2 * x < TickRange
    BY OffsetIs
  <1>3. PICK z \in Int : /\ z = Offset(s, u) /\ z \in {u - s, u - s + TickRange, u - s - TickRange}
                         /\ -TickRange <= 2 * z /\ 2 * z < TickRange
    BY OffsetIs
  <1>4. -TickRange <= 2 * (x - 1)
    BY <1>2
  <1>5. z = x - 1
    BY <1>1, <1>2, <1>3, <1>4, BoundsAssumption DEF Times
  <1>. QED BY <1>1, <1>2, <1>3, <1>5

(* Where a time was counted from does not matter. *)
LEMMA CountedFrom ==
  ASSUME NEW c \in Times, NEW t \in Times, NEW k \in Nat
  PROVE  Add(c, Sub(t, c) + k) = Add(t, k)
  <1>1. Sub(t, c) = IF t >= c THEN t - c ELSE t - c + TickRange
    BY SubIs
  <1>2. CASE t >= c
    <2>1. c + (Sub(t, c) + k) = t + k
      BY <1>1, <1>2 DEF Times
    <2>. QED BY <2>1 DEF Add
  <1>3. CASE t < c
    <2>1. c + (Sub(t, c) + k) = (t + k) + TickRange * 1
      BY <1>1, <1>3, BoundsAssumption DEF Times
    <2>2. ((t + k) + TickRange * 1) % TickRange = (t + k) % TickRange
      <3>1. t + k \in Int
        BY DEF Times
      <3>. QED BY <3>1, WholeTurns
    <2>. QED BY <2>1, <2>2 DEF Add
  <1>. QED BY <1>2, <1>3 DEF Times

(* Behind by as much as the other is ahead. *)
LEMMA OffsetBack ==
  ASSUME NEW t \in Times, NEW u \in Times, -TickRange < 2 * Offset(t, u)
  PROVE  Offset(u, t) = -Offset(t, u)
  <1>1. /\ Sub(u, t) \in Times /\ Sub(u, t) = IF u >= t THEN u - t ELSE u - t + TickRange
        /\ Sub(t, u) \in Times /\ Sub(t, u) = IF t >= u THEN t - u ELSE t - u + TickRange
    BY SubIs
  <1>. QED BY <1>1, BoundsAssumption DEF Offset, Times

(* A finished round is due again within a period of now, whatever was missed. *)
LEMMA NextDueLater ==
  ASSUME Types, NEW d \in Devices
  PROVE  \E k \in 1 .. Period[d] : NextDue(d) = Add(now, k)
  <1>. DEFINE c == entry[d].cycleStart
              p == Period[d]
              s == Sub(now, c)
              m == s \div p
              r == s % p
              k == p - r
  <1>1. c \in Times /\ now \in Times /\ p \in Nat \ {0}
    BY DevicesAssumption DEF Types, Entries
  <1>2. s \in Int
    BY <1>1, SubIs DEF Times
  <1>3. m \in Int /\ r \in 0 .. (p - 1) /\ s = p * m + r
    <2>. HIDE DEF s, p
    <2>. QED BY <1>1, <1>2, Euclid
  <1>4. NextDue(d) = Add(c, (m + 1) * p)
    BY DEF NextDue
  <1>. HIDE DEF c, p, s, m, r
  <1>5. (m + 1) * p = s + k
    <2>1. (m + 1) * p = p * m + p /\ p * m \in Int
      BY <1>1, <1>3, SMT
    <2>. QED BY <1>1, <1>3, <2>1
  <1>6. k \in 1 .. p /\ k \in Nat
    BY <1>1, <1>3
  <1>. HIDE DEF k
  <1>7. Add(c, s + k) = Add(now, k)
    BY <1>1, <1>6, CountedFrom DEF s
  <1>. QED BY <1>4, <1>5, <1>6, <1>7 DEF p

(* The turn's sample of the clock is close behind it. *)
LEMMA SampleClose ==
  ASSUME Types, Clocks, Busy \/ worker = "idle", NEW d \in Devices
  PROVE  /\ Sub(clock, now) \in 0 .. MaxBusy
         /\ Offset(now, clock) = Sub(clock, now) /\ Offset(clock, now) = -Sub(clock, now)
  <1>1. clock \in Times /\ now \in Times /\ spent \in 0 .. MaxBusy
    BY DEF Types
  <1>2. PICK s \in Times : s = Sub(clock, now)
    BY <1>1, SubIs
  <1>3. s <= spent
    BY <1>2 DEF Clocks
  <1>4. s \in 0 .. MaxBusy /\ 2 * s < TickRange
    BY <1>1, <1>2, <1>3, SpanIs, BoundsAssumption DEF Times
  <1>5. Offset(now, clock) = s
    BY <1>2, <1>4 DEF Offset
  <1>6. Offset(clock, now) = -s
    <2>1. -TickRange < 2 * s
      BY <1>4, BoundsAssumption
    <2>. QED BY <1>1, <1>5, <2>1, OffsetBack
  <1>. QED BY <1>2, <1>4, <1>5, <1>6

(* What is due some time after the sample is close to the clock. *)
LEMMA DueAgain ==
  ASSUME Types, Clocks, Busy, NEW d \in Devices, NEW k \in 1 .. Reach(d)
  PROVE  /\ Add(now, k) \in Times /\ Offset(now, Add(now, k)) = k
         /\ Offset(clock, Add(now, k)) \in (-Lateness) .. Reach(d)
  <1>1. clock \in Times /\ now \in Times
    BY DEF Types
  <1>2. /\ Lateness \in Nat /\ Lateness >= MaxBusy /\ MaxBusy \in Nat
        /\ Reach(d) \in Nat /\ 2 * (Reach(d) + Lateness) < TickRange
    BY SpanIs, BoundsAssumption
  <1>. DEFINE L == Lateness
              R == Reach(d)
  <1>3. k \in Nat /\ k <= R /\ 2 * k < TickRange
    <2>. HIDE DEF R, L
    <2>1. k \in 1 .. R /\ R \in Nat /\ L \in Nat /\ 2 * (R + L) < TickRange /\ TickRange \in Nat
      BY <1>2, BoundsAssumption DEF R, L
    <2>. QED BY <2>1
  <1>4. Add(now, k) \in Times /\ Offset(now, Add(now, k)) = k
    BY <1>1, <1>3, OffsetOfAdd
  <1>5. PICK s \in 0 .. MaxBusy : Offset(clock, now) = -s
    BY SampleClose
  <1>6. -TickRange <= 2 * ((-s) + k) /\ 2 * ((-s) + k) < TickRange
        /\ (-s) + k \in (-L) .. R
    <2>. HIDE DEF R, L
    <2>1. /\ L \in Nat /\ L >= MaxBusy /\ MaxBusy \in Nat /\ TickRange \in Nat
          /\ R \in Nat /\ 2 * (R + L) < TickRange
      BY <1>2, BoundsAssumption DEF R, L
    <2>2. s \in Nat /\ s <= L
      BY <2>1
    <2>. QED BY <1>3, <2>1, <2>2
  <1>7. Offset(clock, Add(now, k)) = (-s) + k
    BY <1>1, <1>4, <1>5, <1>6, OffsetAdds
  <1>. QED BY <1>4, <1>6, <1>7

(* The same distance, from the sample. *)
LEMMA DueFromSample ==
  ASSUME Types, Clocks, Near, Busy \/ worker = "idle", NEW d \in Registered
  PROVE  /\ Offset(now, entry[d].due) = Sub(clock, now) + Offset(clock, entry[d].due)
         /\ Offset(now, entry[d].due) \in (-Lateness) .. (Reach(d) + MaxBusy)
         /\ -TickRange < 2 * Offset(now, entry[d].due)
  <1>1. clock \in Times /\ now \in Times /\ d \in Devices /\ entry[d].due \in Times
    BY RegisteredDevices DEF Types, Entries
  <1>2. /\ Lateness \in Nat /\ Lateness >= MaxBusy /\ MaxBusy \in Nat
        /\ Reach(d) \in Nat /\ 2 * (Reach(d) + Lateness) < TickRange
    BY <1>1, SpanIs, BoundsAssumption
  <1>3. PICK s \in 0 .. MaxBusy : s = Sub(clock, now) /\ Offset(now, clock) = s
    BY <1>1, SampleClose
  <1>4. PICK x \in (-Lateness) .. Reach(d) : x = Offset(clock, entry[d].due)
    BY DEF Near
  <1>. DEFINE L == Lateness
              R == Reach(d)
  <1>5. /\ -TickRange < 2 * (s + x) /\ -TickRange <= 2 * (s + x) /\ 2 * (s + x) < TickRange
        /\ s + x \in (-L) .. (R + MaxBusy)
    <2>. HIDE DEF R, L
    <2>1. /\ L \in Nat /\ L >= MaxBusy /\ MaxBusy \in Nat /\ TickRange \in Nat
          /\ R \in Nat /\ 2 * (R + L) < TickRange /\ x \in (-L) .. R
      BY <1>2, <1>4, BoundsAssumption DEF R, L
    <2>2. s \in Nat /\ s <= L /\ x \in Int /\ -L <= x /\ x <= R /\ TickRange > 1 /\ s <= MaxBusy
      BY <2>1, BoundsAssumption
    <2>. QED BY <2>1, <2>2
  <1>6. Offset(now, entry[d].due) = s + x
    BY <1>1, <1>3, <1>4, <1>5, OffsetAdds
  <1>. QED BY <1>3, <1>4, <1>5, <1>6

(* A turn ends: its device's new due time is close, the others' have not moved. *)
LEMMA EndTurnNear ==
  ASSUME Near, EndTurn,
         \A d \in Registered : d # current => entry'[d].due = entry[d].due,
         current \in Registered => Offset(clock, entry'[current].due) \in (-Lateness) .. Reach(current)
  PROVE  Near'
  <1>1. worker' = "loop" /\ clock' = clock /\ Registered' = Registered
    BY DEF EndTurn, scheduler, Registered
  <1>2. \A d \in Registered : Offset(clock, entry'[d].due) \in (-Lateness) .. Reach(d)
    BY DEF Near
  <1>3. \A d \in Registered : Offset(clock', entry'[d].due) \in (-Lateness) .. Reach(d)
    BY <1>1, <1>2
  <1>4. (Near)' <=> \A d \in Registered' :
            /\ Offset(clock', entry'[d].due) \in (-Lateness) .. Reach(d)
            /\ worker' = "asleep" => Sub(wake', clock') <= Offset(clock', entry'[d].due) + WakeLag
            /\ Busy' /\ d = current' => Offset(clock', entry'[d].due) <= 0
    BY DEF Near, Offset, Sub
  <1>. QED BY <1>1, <1>3, <1>4 DEF Busy

(* A thread that sleeps wakes close to every due time. *)
LEMMA DelayNear ==
  ASSUME Types, Clocks, Near, Delay, NEW d \in Registered
  PROVE  Sub(wake', clock) <= Offset(clock, entry[d].due) + WakeLag
  <1>1. /\ clock \in Times /\ now \in Times /\ d \in Devices /\ entry[d].due \in Times
        /\ \A e \in Registered : entry[e].due \in Times
    BY RegisteredDevices DEF Types, Entries
  <1>2. worker = "idle" /\ ~TickReached(now, entry[d].due)
    BY DEF Delay, Clocks, Ready
  <1>. DEFINE y == Offset(now, entry[d].due)
              x == Offset(clock, entry[d].due)
              r == SleepMs(now)
              L == Lateness
              R == Reach(d)
  <1>3. /\ L \in Nat /\ L >= MaxBusy /\ MaxBusy \in Nat /\ TickRange \in Nat /\ TickRange > 1
        /\ R \in Nat /\ 2 * (R + L) < TickRange
    BY <1>1, SpanIs, BoundsAssumption
  <1>o. PICK o \in Nat : o = Oversleep /\ WakeLag = MaxBusy + o /\ L >= MaxBusy + o
    BY <1>1, SpanIs, OversleepIs
  <1>4. PICK s \in 0 .. MaxBusy : s = Sub(clock, now)
    BY <1>1, <1>2, SampleClose
  <1>5. y = s + x /\ y \in (-L) .. (R + MaxBusy) /\ -TickRange < 2 * y
    BY <1>2, <1>4, DueFromSample
  <1>6. x \in (-L) .. R
    BY DEF Near
  <1>7. ~(y <= 0)
    BY <1>1, <1>2, <1>5, OffsetReached
  <1>8. Sub(entry[d].due, now) = IF y >= 0 THEN y ELSE y + TickRange
    <2>1. Sub(entry[d].due, now) \in Times
      BY <1>1, SubIs
    <2>. QED BY <2>1, BoundsAssumption DEF Offset, Times
  <1>9. /\ r \in Nat \ {0}
        /\ Sub(entry[d].due, now) >= 1 => r <= Sub(entry[d].due, now)
    BY <1>1, SleepLeast
  <1>. HIDE DEF y, x, r, L, R
  <1>10. y >= 1 /\ y \in Int
    BY <1>3, <1>5, <1>7
  <1>11. r \in Nat /\ r <= y
    BY <1>8, <1>9, <1>10
  <1>12. 2 * y < TickRange
    BY <1>3, <1>5, <1>10
  <1>13. PICK q \in DelayMs(KernelTicksFromMs(r)) : wake' = Add(clock, q)
    BY DEF Delay, r
  <1>14. q \in 0 .. (r + o)
    BY <1>9, <1>o, <1>13, DelayBound
  <1>15. q \in 0 .. TickRange /\ q < TickRange /\ q <= x + WakeLag
    BY <1>3, <1>4, <1>5, <1>6, <1>10, <1>11, <1>12, <1>o, <1>14
  <1>16. PICK w \in Times : /\ w = wake'
                           /\ w = IF clock + q < TickRange THEN clock + q
                                                           ELSE clock + q - TickRange
    BY <1>1, <1>13, <1>15, AddIs
  <1>17. Sub(w, clock) = IF w >= clock THEN w - clock ELSE w - clock + TickRange
    BY <1>1, SubIs
  <1>18. Sub(w, clock) = q
    BY <1>1, <1>3, <1>15, <1>16, <1>17 DEF Times
  <1>. QED BY <1>15, <1>16, <1>18 DEF x

(* The clock goes on: a device as late as may be stops it, or the sleep ends first. *)
LEMMA TickNear ==
  ASSUME Types, Near, Tick, NEW d \in Registered
  PROVE  /\ Offset(clock', entry[d].due) = Offset(clock, entry[d].due) - 1
         /\ Offset(clock', entry[d].due) \in (-Lateness) .. Reach(d)
         /\ worker = "asleep" => Sub(wake, clock') <= Offset(clock', entry[d].due) + WakeLag
  <1>1. clock \in Times /\ wake \in Times /\ d \in Devices /\ entry[d].due \in Times
    BY RegisteredDevices DEF Types, Entries
  <1>. DEFINE x == Offset(clock, entry[d].due)
              L == Lateness
              R == Reach(d)
  <1>2. /\ L \in Nat /\ L >= WakeLag /\ L >= MaxLag /\ WakeLag \in Nat /\ MaxLag \in Nat
        /\ TickRange \in Nat /\ TickRange > 1
        /\ R \in Nat /\ 2 * (R + L) < TickRange
    BY <1>1, SpanIs, BoundsAssumption
  <1>3. x \in (-L) .. R /\ (worker = "asleep" => Sub(wake, clock) <= x + WakeLag)
    BY DEF Near
  <1>4. /\ clock' = Add(clock, 1)
        /\ worker = "asleep" => clock # wake
        /\ worker # "asleep" => ~Lagging
    <2>1. \/ worker = "asleep" /\ clock # wake
          \/ worker = "none" /\ ~Lagging
          \/ worker # "asleep" /\ ~Lagging
      BY Zenon DEF Tick
    <2>2. worker = "none" => worker # "asleep"
      OBVIOUS
    <2>3. clock' = Add(clock, 1)
      BY Zenon DEF Tick
    <2>. QED BY <2>1, <2>2, <2>3, Zenon
  <1>5. worker = "asleep" => Sub(wake, clock) >= 1 /\ Sub(wake, clock') = Sub(wake, clock) - 1
    <2>1. SUFFICES ASSUME clock # wake
                   PROVE  Sub(wake, clock) >= 1 /\ Sub(wake, clock') = Sub(wake, clock) - 1
      BY <1>4
    <2>2. PICK c \in Times : c = clock' /\ c = IF clock + 1 < TickRange THEN clock + 1
                                                                    ELSE clock + 1 - TickRange
      <3>1. 1 \in Int /\ 1 \in 0 .. TickRange
        BY <1>2
      <3>2. Add(clock, 1) \in Times
        BY <1>1, <3>1, AddIs
      <3>3. Add(clock, 1) = IF clock + 1 < TickRange THEN clock + 1 ELSE clock + 1 - TickRange
        BY <1>1, <3>1, AddIs
      <3>. QED BY <1>4, <3>2, <3>3, Zenon
    <2>3. /\ Sub(wake, c) = IF wake >= c THEN wake - c ELSE wake - c + TickRange
          /\ Sub(wake, clock) = IF wake >= clock THEN wake - clock ELSE wake - clock + TickRange
      BY <1>1, SubIs
    <2>. QED BY <1>1, <1>2, <2>1, <2>2, <2>3 DEF Times
  <1>6. worker # "asleep" => x # -L
    <2>1. SUFFICES ASSUME ~Lagging, x = -L PROVE FALSE
      BY <1>4
    <2>2. -TickRange < 2 * (-L) /\ -L <= 0
      BY <1>2
    <2>3. TickReached(clock, entry[d].due)
      BY <1>1, <2>1, <2>2, OffsetReached
    <2>4. Sub(clock, entry[d].due) < MaxLag
      <3>1. ~(Sub(clock, entry[d].due) >= MaxLag)
        BY <2>1, <2>3 DEF Lagging, Ready
      <3>2. Sub(clock, entry[d].due) \in Nat
        <4>1. Sub(clock, entry[d].due) \in Times
          BY <1>1, SubIs
        <4>. QED BY <4>1 DEF Times
      <3>. QED BY <1>2, <3>1, <3>2
    <2>5. /\ Sub(entry[d].due, clock) = IF entry[d].due >= clock THEN entry[d].due - clock
                                        ELSE entry[d].due - clock + TickRange
          /\ Sub(clock, entry[d].due) = IF clock >= entry[d].due THEN clock - entry[d].due
                                        ELSE clock - entry[d].due + TickRange
          /\ x = IF 2 * Sub(entry[d].due, clock) < TickRange THEN Sub(entry[d].due, clock)
                                                       ELSE Sub(entry[d].due, clock) - TickRange
      BY <1>1, SubIs DEF Offset
    <2>6. PICK u \in Times : u = entry[d].due
      BY <1>1
    <2>. HIDE DEF x, L, R
    <2>. QED BY <1>1, <1>2, <2>1, <2>4, <2>5, <2>6 DEF Times
  <1>. HIDE DEF x, L, R
  <1>7. x \in Int /\ -L <= x - 1 /\ x - 1 <= R
    <2>1. x \in Int /\ -L <= x /\ x <= R
      BY <1>2, <1>3
    <2>2. CASE worker = "asleep"
      <3>1. PICK n \in Int : n = Sub(wake, clock)
        <4>1. Sub(wake, clock) \in Times
          BY <1>1, SubIs
        <4>. QED BY <4>1 DEF Times
      <3>2. n >= 1 /\ n <= x + WakeLag
        BY <1>3, <1>5, <2>2, <3>1
      <3>. QED BY <1>2, <2>1, <3>2
    <2>3. CASE worker # "asleep"
      BY <1>2, <1>6, <2>1, <2>3
    <2>. QED BY <2>2, <2>3
  <1>8. -TickRange <= 2 * (x - 1)
    BY <1>2, <1>7
  <1>9. Offset(clock', entry[d].due) = x - 1
    BY <1>1, <1>4, <1>8, OffsetTick DEF x
  <1>10. x - 1 \in (-L) .. R
    BY <1>2, <1>7
  <1>11. worker = "asleep" => Sub(wake, clock') <= (x - 1) + WakeLag
    <2>1. Sub(wake, clock) \in Int
      BY <1>1, SubIs DEF Times
    <2>. QED BY <1>2, <1>3, <1>5, <1>7, <2>1
  <1>. QED BY <1>9, <1>10, <1>11 DEF x, L, R

(* A device that has been served is due after now, but not long after. *)
LEMMA DueLater ==
  ASSUME Types, Served, TriggerFails \/ ReadEnds \/ Pending
  PROVE  \E k \in 1 .. Reach(current) : entry'[current].due = Add(now, k)
  <1>1. current \in Devices
    BY DEF Served, Busy, TriggerFails, ReadEnds, Pending
  <1>2. /\ Reach(current) \in Nat
        /\ Reach(current) >= Period[current] /\ Reach(current) >= Conversion[current]
        /\ Period[current] \in Nat \ {0} /\ Conversion[current] \in Nat
    BY <1>1, SpanIs, DevicesAssumption
  <1>3. CASE TriggerFails \/ ReadEnds
    <2>1. entry'[current].due = NextDue(current)
      BY <1>1, <1>3 DEF TriggerFails, ReadEnds, EndRound, Types, Entries
    <2>2. PICK k \in 1 .. Period[current] : NextDue(current) = Add(now, k)
      BY <1>1, NextDueLater
    <2>3. k \in 1 .. Reach(current)
      BY <1>2
    <2>. QED BY <2>1, <2>2, <2>3
  <1>4. CASE Pending
    <2>. DEFINE t == device[current].triggerMs
                c == Conversion[current]
    <2>1. entry'[current].due = Add(t, c) /\ ~(Sub(now, t) >= c)
      BY <1>1, <1>4 DEF Pending, Converted, Types, Entries
    <2>2. t \in Times /\ now \in Times
      BY <1>1 DEF Types
    <2>3. PICK s \in Nat : s = Sub(now, t)
      BY <2>2, SubIs DEF Times
    <2>. HIDE DEF t, c
    <2>4. c - s \in 1 .. Reach(current) /\ c - s \in Nat /\ s + (c - s) = c
      BY <1>2, <2>1, <2>3 DEF c
    <2>5. Add(t, s + (c - s)) = Add(now, c - s)
      BY <2>2, <2>3, <2>4, CountedFrom
    <2>. QED BY <2>1, <2>4, <2>5
  <1>. QED BY <1>3, <1>4

(* Every step keeps due times close to the clock. *)
LEMMA StepNear ==
  ASSUME Types, Served, Threads, Clocks, Grid, Near, [Next]_vars
  PROVE  Near'
  <1>1. Registered \subseteq Devices /\ \A d \in Registered : entry[d].due \in Times
    BY RegisteredDevices DEF Types, Entries
  <1>2. Near' <=> \A d \in Registered' :
          /\ Offset(clock', entry'[d].due) \in (-Lateness) .. Reach(d)
          /\ worker' = "asleep" => Sub(wake', clock') <= Offset(clock', entry'[d].due) + WakeLag
          /\ Busy' /\ d = current' => Offset(clock', entry'[d].due) <= 0
    BY DEF Near, Offset, Sub
  <1>3. ASSUME UNCHANGED <<entry, table, clock, wake, current>>,
               \/ worker' = worker
               \/ worker' \notin {"init", "trigger", "wait", "read", "asleep"}
               \/ Busy /\ worker' # "asleep"
        PROVE  Near'
    <2>1. Registered' = Registered
      BY <1>3 DEF Registered
    <2>. QED BY <1>2, <1>3, <2>1 DEF Near, Busy
  <1>4. ASSUME NEW d \in Devices, Register(d) PROVE Near'
    <2>1. /\ worker = "none" /\ worker' = "none"
          /\ Registered' = Registered \cup {d} /\ d \notin Registered
      BY <1>4, RegisteredAppend DEF Register, Threads, Types
    <2>2. clock' = clock /\ entry' = [entry EXCEPT ![d].due = Add(clock, Phase[d])]
      BY <1>4 DEF Register
    <2>3. \A e \in Registered : entry'[e].due = entry[e].due
      BY <1>1, <2>1, <2>2 DEF Types
    <2>4. entry'[d].due = Add(clock, Phase[d])
      BY <2>2 DEF Types, Entries
    <2>5. Offset(clock, Add(clock, Phase[d])) \in (-Lateness) .. Reach(d)
      <3>. DEFINE p == Phase[d]
      <3>1. /\ Lateness \in Nat /\ Reach(d) \in Nat /\ Reach(d) >= p
            /\ 2 * (Reach(d) + Lateness) < TickRange /\ p \in Nat
        BY SpanIs, DevicesAssumption
      <3>. HIDE DEF p
      <3>2. 2 * p < TickRange /\ p \in (-Lateness) .. Reach(d)
        BY <3>1, BoundsAssumption
      <3>3. clock \in Times
        BY DEF Types
      <3>4. Offset(clock, Add(clock, p)) = p
        BY <3>1, <3>2, <3>3, OffsetOfAdd
      <3>. QED BY <3>2, <3>4 DEF p
    <2>. QED BY <1>2, <2>1, <2>2, <2>3, <2>4, <2>5 DEF Near, Busy
  <1>5. CASE Start \/ CreateThread \/ StoreHandle \/ CreateFails \/ Stop
             \/ LeaveLoop \/ ClearRunFlag \/ ClearHandle \/ TriggerSent \/ BeginRead
             \/ NothingReady \/ UNCHANGED vars
    <2>1. CASE TriggerSent \/ BeginRead
      BY <1>3, <2>1 DEF TriggerSent, BeginRead, Busy, scheduler, turn
    <2>2. CASE CreateThread \/ LeaveLoop \/ ClearRunFlag \/ ClearHandle \/ NothingReady
      BY <1>3, <2>2 DEF CreateThread, LeaveLoop, ClearRunFlag, ClearHandle, NothingReady,
         Untimed, scheduler, turn
    <2>3. CASE Start \/ StoreHandle \/ CreateFails \/ Stop \/ UNCHANGED vars
      BY <1>3, <2>3 DEF Start, StoreHandle, CreateFails, Stop, Untimed, scheduler, turn, vars
    <2>. QED BY <1>5, <2>1, <2>2, <2>3
  <1>6. ASSUME NEW d \in Devices, Serve(d) PROVE Near'
    <2>1. /\ worker' # "asleep" /\ current' = d /\ clock' = clock /\ Registered' = Registered
          /\ entry' = [entry EXCEPT ![d] = CycleBegun(d)] /\ d \in Ready(clock)
      BY <1>6 DEF Serve, scheduler, Registered, Selected
    <2>2. \A e \in Registered : entry'[e].due = entry[e].due
      <3>1. CycleBegun(d).due = entry[d].due
        BY DEF CycleBegun, Types, Entries
      <3>. QED BY <1>1, <2>1, <3>1 DEF Types
    <2>3. Offset(clock, entry[d].due) <= 0
      <3>. DEFINE x == Offset(clock, entry[d].due)
      <3>1. d \in Registered /\ TickReached(clock, entry[d].due) /\ clock \in Times
        BY <2>1 DEF Ready, Types
      <3>2. x \in (-Lateness) .. Reach(d)
        BY <3>1 DEF Near
      <3>3. Lateness \in Nat /\ Reach(d) \in Nat /\ 2 * (Reach(d) + Lateness) < TickRange
        BY SpanIs
      <3>4. -TickRange < 2 * x
        <4>. HIDE DEF x
        <4>. QED BY <3>2, <3>3, BoundsAssumption
      <3>. QED BY <1>1, <3>1, <3>4, OffsetReached
    <2>. QED BY <1>2, <2>1, <2>2, <2>3 DEF Near
  <1>7. CASE WakeUp
    <2>1. EndTurn /\ entry' = entry
      BY <1>7 DEF WakeUp
    <2>2. current \in Registered => Offset(clock, entry'[current].due) \in (-Lateness) .. Reach(current)
      BY <2>1 DEF Near
    <2>. QED BY <2>1, <2>2, EndTurnNear
  <1>8. ASSUME NEW ok \in BOOLEAN, InitEnds(ok) PROVE Near'
    <2>1. /\ Busy /\ current \in Registered /\ current \in Devices /\ EndTurn
          /\ entry' = [entry EXCEPT ![current].initialized = ok,
                                    ![current].due = Add(@, Period[current])]
      BY <1>1, <1>8 DEF InitEnds, Busy, Grid
    <2>2. /\ \A d \in Registered : d # current => entry'[d].due = entry[d].due
          /\ entry'[current].due = Add(entry[current].due, Period[current])
      BY <1>1, <2>1 DEF Types, Entries
    <2>. DEFINE p == Period[current]
                x == Offset(clock, entry[current].due)
                L == Lateness
                R == Reach(current)
    <2>3. /\ L \in Nat /\ R \in Nat /\ 2 * (R + L) < TickRange /\ p \in Nat \ {0} /\ R >= p
          /\ TickRange \in Nat
      BY <2>1, SpanIs, DevicesAssumption, BoundsAssumption
    <2>4. x \in (-L) .. R /\ x <= 0
      BY <2>1 DEF Near
    <2>5. clock \in Times /\ entry[current].due \in Times
      BY <1>1, <2>1 DEF Types
    <2>. HIDE DEF p, x, L, R
    <2>6. 2 * p < TickRange /\ p \in Nat
      BY <2>3
    <2>7. x + p \in (-L) .. R /\ -TickRange <= 2 * (x + p) /\ 2 * (x + p) < TickRange
      BY <2>3, <2>4
    <2>8. /\ Add(entry[current].due, p) \in Times
          /\ Offset(entry[current].due, Add(entry[current].due, p)) = p
      BY <2>5, <2>6, OffsetOfAdd
    <2>9. Offset(clock, Add(entry[current].due, p)) = x + p
      BY <2>5, <2>7, <2>8, OffsetAdds DEF x
    <2>10. Offset(clock, entry'[current].due) \in (-Lateness) .. Reach(current)
      BY <2>2, <2>7, <2>9 DEF p, L, R
    <2>. QED BY <2>1, <2>2, <2>10, EndTurnNear
  <1>9. CASE TriggerFails \/ ReadEnds \/ Pending
    <2>1. Busy /\ current \in Registered /\ current \in Devices /\ EndTurn
      BY <1>1, <1>9 DEF TriggerFails, ReadEnds, Pending, EndRound, Busy, Grid
    <2>2. \A d \in Registered : d # current => entry'[d].due = entry[d].due
      BY <1>1, <1>9 DEF TriggerFails, ReadEnds, Pending, EndRound, Types
    <2>3. PICK k \in 1 .. Reach(current) : entry'[current].due = Add(now, k)
      BY <1>9, <2>1, DueLater
    <2>4. Offset(clock, entry'[current].due) \in (-Lateness) .. Reach(current)
      BY <2>1, <2>3, DueAgain
    <2>. QED BY <2>1, <2>2, <2>4, EndTurnNear
  <1>10. CASE Delay
    <2>1. worker' = "asleep" /\ entry' = entry /\ clock' = clock /\ Registered' = Registered
      BY <1>10 DEF Delay, scheduler, Registered
    <2>2. \A d \in Registered : Sub(wake', clock) <= Offset(clock, entry[d].due) + WakeLag
      BY <1>10, DelayNear
    <2>. QED BY <1>2, <2>1, <2>2 DEF Near, Busy
  <1>11. CASE Tick
    <2>1. UNCHANGED <<worker, entry, current, wake>> /\ Registered' = Registered
      BY <1>11 DEF Tick, scheduler, turn, Registered
    <2>2. \A d \in Registered :
            /\ Offset(clock', entry[d].due) = Offset(clock, entry[d].due) - 1
            /\ Offset(clock', entry[d].due) \in (-Lateness) .. Reach(d)
            /\ worker = "asleep" => Sub(wake, clock') <= Offset(clock', entry[d].due) + WakeLag
      BY <1>11, TickNear
    <2>3. \A d \in Registered : Offset(clock, entry[d].due) \in Int
      BY <1>1, OffsetIs DEF Types
    <2>4. \A d \in Registered : Busy /\ d = current => Offset(clock', entry[d].due) <= 0
      BY <2>2, <2>3 DEF Near
    <2>. QED BY <1>2, <2>1, <2>2, <2>4 DEF Busy
  <1>. QED BY <1>4, <1>5, <1>6, <1>7, <1>8, <1>9, <1>10, <1>11 DEF Next, App, Run

(* Due times stay close to the clock through every step. *)
THEOREM NearInvariance == Spec => []Near
  <1>1. Init => Near
    BY DEF Init, Near, Registered
  <1>2. IInv /\ Near /\ [Next]_vars => Near'
    BY StepNear DEF IInv
  <1>. QED BY <1>1, <1>2, Invariance, PTL DEF Spec

(* run(): a device that was served goes behind every device that was due   *)
(* with it, so that none is overtaken twice by the same one, for any       *)
(* devices; with more than half a tick range between two of them           *)
(* tickReached() would take the one that is over for one to come.          *)
THEOREM YieldsToTheWaitingThm == Spec => YieldsToTheWaiting
  <1>1. ASSUME IInv, Near, [Next]_vars, NEW d \in Devices, NEW e \in Devices,
               Serves(d), entry[d].initialized, Waiting(e), e # d
        PROVE  Before(entry[e].due, entry'[d].due)
    <2>1. Types /\ Served /\ Phases /\ Clocks
      BY <1>1 DEF IInv
    <2>2. current = d /\ current' = None /\ Busy /\ e \in Registered /\ TickReached(now, entry[e].due)
      BY <1>1, <2>1, DevicesAssumption DEF Serves, Waiting, Served
    <2>3. TriggerFails \/ ReadEnds \/ Pending
      <3>1. current' # current /\ worker # "init" /\ worker \in {"trigger", "wait", "read"}
        BY <1>1, <2>1, <2>2, DevicesAssumption DEF Phases, Busy
      <3>2. ~UNCHANGED vars /\ ~Tick /\ ~App /\ ~Stop
        BY <3>1 DEF vars, turn, Tick, App, Stop, Register, Start, CreateThread, StoreHandle,
           CreateFails, Untimed
      <3>3. Run
        BY <1>1, <3>2 DEF Next
      <3>. QED BY <3>1, <3>3 DEF Run, Serve, InitEnds, TriggerSent, BeginRead, NothingReady,
           Delay, WakeUp, LeaveLoop, ClearRunFlag, ClearHandle, turn
    <2>4. PICK k \in 1 .. Reach(d) : entry'[d].due = Add(now, k)
      BY <2>1, <2>2, <2>3, DueLater
    <2>5. Add(now, k) \in Times /\ Offset(now, Add(now, k)) = k
      BY <2>1, <2>2, DueAgain
    <2>6. now \in Times /\ entry[e].due \in Times
      BY <2>1 DEF Types, Entries
    <2>7. PICK y \in Int : /\ y = Offset(now, entry[e].due) /\ y \in (-Lateness) .. (Reach(e) + MaxBusy)
                           /\ -TickRange < 2 * y
      BY <1>1, <2>1, <2>2, <2>6, DueFromSample, OffsetIs
    <2>8. y <= 0
      BY <2>2, <2>6, <2>7, OffsetReached
    <2>9. Offset(entry[e].due, now) = -y
      BY <2>6, <2>7, OffsetBack
    <2>. DEFINE L == Lateness
                R == Reach(d)
    <2>10. (-y) + k \in 1 .. (L + R) /\ -TickRange <= 2 * ((-y) + k) /\ 2 * ((-y) + k) < TickRange
      <3>1. /\ L \in Nat /\ R \in Nat /\ 2 * (R + L) < TickRange /\ TickRange \in Nat
            /\ k \in 1 .. R
        BY SpanIs, BoundsAssumption
      <3>2. -L <= y
        BY <2>7, SpanIs
      <3>. HIDE DEF L, R
      <3>. QED BY <2>8, <3>1, <3>2
    <2>11. Offset(entry[e].due, Add(now, k)) = (-y) + k
      BY <2>5, <2>6, <2>9, <2>10, OffsetAdds
    <2>12. ~((-y) + k <= 0) /\ -TickRange < 2 * ((-y) + k)
      BY <2>8, BoundsAssumption
    <2>13. ~TickReached(entry[e].due, Add(now, k))
      BY <2>5, <2>6, <2>11, <2>12, OffsetReached
    <2>. QED BY <2>4, <2>13 DEF Before
  <1>2. IInv /\ Near /\ [Next]_vars =>
          [\A d, e \in Devices :
             Serves(d) /\ entry[d].initialized /\ Waiting(e) /\ e # d
               => Before(entry[e].due, entry'[d].due)]_vars
    BY <1>1
  <1>. QED BY Invariance, NearInvariance, <1>2, PTL DEF Spec, YieldsToTheWaiting
=============================================================================
