------------------------------ MODULE LwipPlatform ------------------------------
(***************************************************************************)
(* bsp/ethernet/lwip_platform over a DP83822: one thread starts the PHY,   *)
(* follows the link and switches the MAC and the network interface with    *)
(* it.  Interrupts only raise its thread flags.  Without an interrupt pin  *)
(* the thread polls; with one it waits for events, and polls as well while *)
(* the pin stays low.  What it does under LwIP's core lock is one step for *)
(* every other thread.                                                     *)
(***************************************************************************)
EXTENDS DP83822

CONSTANTS
  PollDelay,  \* kPollDelayTicks
  TickRange,  \* osKernelGetTickCount() wraps here (2^32 in the code)
  MaxBusy     \* bound: ticks the thread may take from one wait to the next

ASSUME TickAssumption ==
  /\ PollDelay \in Nat \ {0} /\ MaxBusy \in Nat /\ TickRange \in Nat
  /\ PollDelay + 2 * MaxBusy < TickRange

VARIABLES
  pc,          \* where the thread stands
  caller,      \* what it polls for
  published,   \* thread_id_ is not null
  hooked,      \* the PHY's event callback is set
  flags,       \* the thread flags
  got,         \* those the latest wait returned
  periodic,    \* the local variable of run()
  remaining,   \* next_poll - osKernelGetTickCount()
  timeout,     \* ticks until the wait ends, or Forever; Forever outside a wait
  result,      \* a PollResult
  macStarted,  \* mac_started_
  applied,     \* applied_state_
  up,          \* the network interface is up
  mac,         \* what the MAC really does: "off" or its mode
  done,        \* frames were sent whose buffers are not released
  spent,       \* ticks in which the thread was not blocked, since its latest wait
  since        \* ghost: ticks since the latest poll, or since polling began

thread == <<pc, caller, result>>
notify == <<published, hooked, flags>>
timer  == <<periodic, remaining, timeout>>
stack  == <<macStarted, applied, up, mac, done>>
phy    == <<cable, chip, driver, out, faults>>
vars   == <<thread, notify, got, timer, stack, spent, since, phy>>

(* osWaitForever: no limit, unlike any remaining time. *)
Forever == TickRange

Init ==
  /\ PhyInit
  /\ pc = "none" /\ caller = "first" /\ result = "Ok"
  /\ published = FALSE /\ hooked = FALSE /\ flags = {} /\ got = {}
  /\ periodic = FALSE /\ remaining = 0 /\ timeout = Forever
  /\ macStarted = FALSE /\ applied = "Down" /\ up \in BOOLEAN /\ mac = "off" /\ done = FALSE
  /\ spent = 0 /\ since = 0

-----------------------------------------------------------------------------
(* start() and the thread up to its loop. *)

(* The one call that counts; if it fails, there is never a thread. *)
Start ==
  /\ pc = "none" /\ pc' = "born"
  /\ UNCHANGED <<caller, result, notify, got, timer, stack, spent, since, phy>>

Publish ==
  /\ pc = "born" /\ pc' = "initialize"
  /\ published' = TRUE
  /\ UNCHANGED <<caller, result, hooked, flags, got, timer, stack, spent, since, phy>>

Initialize ==
  /\ pc = "initialize" /\ pc' = "starting"
  /\ up' = FALSE
  /\ CallStart
  /\ UNCHANGED <<caller, result, notify, got, timer, macStarted, applied, mac, done, spent,
                 since>>

(* fail() begins. *)
Fail(error) == pc' = "unhook" /\ result' = error /\ UNCHANGED caller

PhyStarted ==
  /\ pc = "starting" /\ PhyIdle
  /\ \/ answer = "Ok" /\ pc' = "hook" /\ UNCHANGED <<caller, result>>
     \/ answer # "Ok" /\ Fail("PhyStartError")
  /\ Used
  /\ UNCHANGED <<notify, got, timer, stack, spent, since, cable, chip, driver, faults>>

(* The callback is set; with interrupts the first look at the link is now. *)
Hook ==
  /\ pc = "hook"
  /\ pc' = IF hasPin THEN "acknowledge" ELSE "head"
  /\ caller' = "first"
  /\ hooked' = TRUE
  /\ periodic' = ~hasPin /\ remaining' = 0
  /\ since' = 0
  /\ UNCHANGED <<result, published, flags, got, timeout, stack, spent, phy>>

-----------------------------------------------------------------------------
(* handleLinkEvent() and poll() *)

Acknowledge ==
  /\ pc = "acknowledge" /\ pc' = "acknowledging"
  /\ CallAcknowledge
  /\ UNCHANGED <<caller, result, notify, got, timer, stack, spent, since>>

(* The thread goes on where it called handleLinkEvent() or pollPeriodic(). *)
GoOn == pc' = IF caller = "head" THEN "recheck" ELSE "head"

(* The fault NoSnapshot: the first look at the link waits for an event. *)
NoSnapshot ==
  /\ pc = "acknowledging" /\ PhyIdle
  /\ \/ answer # "Ok" /\ Fail("PhyInterruptError")
     \/ answer = "Ok" /\ changed /\ pc' = "poll" /\ UNCHANGED <<caller, result>>
     \/ answer = "Ok" /\ ~changed /\ GoOn /\ UNCHANGED <<caller, result>>
  /\ Used
  /\ UNCHANGED <<notify, got, timer, stack, spent, since, cable, chip, driver, faults>>

Acknowledged ==
  /\ pc = "acknowledging" /\ PhyIdle
  /\ \/ answer # "Ok" /\ Fail("PhyInterruptError")
     \/ answer = "Ok" /\ (changed \/ caller = "first") /\ pc' = "poll"
        /\ UNCHANGED <<caller, result>>
     \/ answer = "Ok" /\ ~(changed \/ caller = "first") /\ GoOn
        /\ UNCHANGED <<caller, result>>
  /\ Used
  /\ UNCHANGED <<notify, got, timer, stack, spent, since, cable, chip, driver, faults>>

Poll ==
  /\ pc = "poll" /\ pc' = "polling"
  /\ CallReadLink
  /\ UNCHANGED <<caller, result, notify, got, timer, stack, spent, since>>

(* A poll ends: a periodic one sets its next deadline, whatever it found. *)
PollEnds ==
  /\ GoOn /\ UNCHANGED <<caller, result>>
  /\ remaining' = IF caller = "periodic" THEN PollDelay ELSE remaining
  /\ since' = IF caller = "periodic" THEN 0 ELSE since
  /\ Used
  /\ UNCHANGED <<notify, got, periodic, timeout, spent, cable, chip, driver, faults>>

PollFails(error) ==
  /\ Fail(error)
  /\ Used
  /\ UNCHANGED <<notify, got, timer, spent, since, cable, chip, driver>>

(* HAL_ETH_Stop_IT() *)
MacStops == mac' = "off" /\ macStarted' = FALSE

(* No link, or none that could be read: the interface goes down first.     *)
LinkLost(error) ==
  /\ pc = "polling" /\ PhyIdle
  /\ error = IF answer = "Ok" THEN "Ok" ELSE "PhyReadError"
  /\ answer = "Ok" => state \in {"Down", "Negotiating"}
  /\ up' = FALSE /\ done' = FALSE /\ UNCHANGED applied

(* A polling thread tries again after a failed read. *)
Tolerated(error) == error = "Ok" \/ (~hasPin /\ caller = "periodic")

MacOff == IF macStarted THEN MacStops ELSE UNCHANGED <<mac, macStarted>>

ApplyDown(error) ==
  /\ LinkLost(error)
  /\ MacOff
  /\ IF Tolerated(error) THEN PollEnds ELSE PollFails(error) /\ UNCHANGED faults

StopFails(error) ==
  /\ LinkLost(error)
  /\ macStarted /\ Fault
  /\ UNCHANGED <<mac, macStarted>>
  /\ PollFails("MacStopError")

(* The link is up in a mode that poll() has to apply. *)
LinkUp == pc = "polling" /\ PhyIdle /\ answer = "Ok" /\ state \in Modes

ApplySame ==
  /\ LinkUp /\ macStarted /\ state = applied
  /\ up' = TRUE /\ done' = FALSE
  /\ UNCHANGED <<macStarted, applied, mac>>
  /\ PollEnds

(* The fault ModeKept: a MAC that runs is not stopped and set anew. *)
ModeKept ==
  /\ LinkUp
  /\ up' = TRUE /\ macStarted' = TRUE /\ applied' = state
  /\ mac' = IF macStarted THEN mac ELSE state
  /\ UNCHANGED done
  /\ PollEnds

ApplyMode ==
  /\ LinkUp /\ ~(macStarted /\ state = applied)
  /\ up' = TRUE /\ macStarted' = TRUE /\ applied' = state /\ mac' = state
  /\ UNCHANGED done
  /\ PollEnds

(* The old mode cannot be left, or the new one not be entered. *)
SwitchFails ==
  /\ LinkUp /\ ~(macStarted /\ state = applied) /\ Fault
  /\ up' = FALSE /\ UNCHANGED <<applied, done>>
  /\ \/ macStarted /\ UNCHANGED <<mac, macStarted>> /\ PollFails("MacStopError")
     \/ MacOff /\ PollFails("MacStartError")

-----------------------------------------------------------------------------
(* One turn of run(). *)

Head ==
  /\ pc = "head"
  /\ pc' = IF ~hasPin THEN "deadline" ELSE IF InterruptAsserted THEN "acknowledge" ELSE "recheck"
  /\ caller' = "head"
  /\ UNCHANGED <<result, notify, got, timer, stack, spent, since, phy>>

(* The pin is still low: no edge will come, so the thread polls. *)
Recheck ==
  /\ pc = "recheck" /\ pc' = "deadline"
  /\ periodic' = InterruptAsserted
  /\ remaining' = IF InterruptAsserted /\ ~periodic THEN PollDelay ELSE remaining
  /\ since' = IF InterruptAsserted /\ periodic THEN since ELSE 0
  /\ UNCHANGED <<caller, result, notify, got, timeout, stack, spent, phy>>

Due == remaining = 0 \/ remaining > PollDelay

Deadline ==
  /\ pc = "deadline"
  /\ pc' = IF periodic /\ Due THEN "poll" ELSE "wait"
  /\ caller' = "periodic"
  /\ timeout' = IF periodic /\ ~Due THEN remaining ELSE Forever
  /\ spent' = IF periodic /\ Due THEN spent ELSE 0
  /\ UNCHANGED <<result, notify, got, periodic, remaining, stack, since, phy>>

(* The flags that are set are returned, and cleared. *)
Wake ==
  /\ pc = "wait" /\ pc' = "serve"
  /\ flags # {}
  /\ got' = flags /\ flags' = {}
  /\ timeout' = Forever
  /\ UNCHANGED <<caller, result, published, hooked, periodic, remaining, stack, spent, since,
                 phy>>

(* Only a periodic wait has a limit. *)
WaitTimesOut ==
  /\ pc = "wait" /\ pc' = "poll"
  /\ flags = {} /\ timeout = 0 /\ timeout' = Forever
  /\ UNCHANGED <<caller, result, notify, got, periodic, remaining, stack, spent, since, phy>>

WaitFails ==
  /\ pc = "wait" /\ Fault
  /\ Fail("ThreadWaitError")
  /\ UNCHANGED <<notify, got, timer, stack, spent, since, cable, chip, driver, out>>

(* The fault DeadlineMoves: a notification sets the deadline anew. *)
DeadlineMoves ==
  /\ pc = "serve"
  /\ pc' = IF "Link" \in got /\ hasPin THEN "acknowledge" ELSE "head"
  /\ caller' = "flag" /\ got' = {}
  /\ done' = IF "Tx" \in got THEN FALSE ELSE done
  /\ remaining' = IF periodic THEN PollDelay ELSE remaining
  /\ UNCHANGED <<result, notify, periodic, timeout, macStarted, applied, up, mac, spent, since,
                 phy>>

(* The fault LinkFirst: of two flags only the link's is served. *)
LinkFirst ==
  /\ pc = "serve"
  /\ pc' = IF "Link" \in got /\ hasPin THEN "acknowledge" ELSE "head"
  /\ caller' = "flag" /\ got' = {}
  /\ done' = IF got = {"Tx"} THEN FALSE ELSE done
  /\ UNCHANGED <<result, notify, timer, macStarted, applied, up, mac, spent, since, phy>>

(* Sent buffers are released, then a link event is acknowledged. *)
Serve ==
  /\ pc = "serve"
  /\ pc' = IF "Link" \in got /\ hasPin THEN "acknowledge" ELSE "head"
  /\ caller' = "flag" /\ got' = {}
  /\ done' = IF "Tx" \in got THEN FALSE ELSE done
  /\ UNCHANGED <<result, notify, timer, macStarted, applied, up, mac, spent, since, phy>>

-----------------------------------------------------------------------------
(* fail(): nobody wakes the thread any more, and nobody sends. *)

Unhook ==
  /\ pc = "unhook" /\ pc' = "forget"
  /\ hooked' = FALSE
  /\ UNCHANGED <<caller, result, published, flags, got, timer, stack, spent, since, phy>>

Forget ==
  /\ pc = "forget" /\ pc' = "down"
  /\ published' = FALSE
  /\ UNCHANGED <<caller, result, hooked, flags, got, timer, stack, spent, since, phy>>

TakeDown ==
  /\ pc = "down" /\ pc' = "report"
  /\ up' = FALSE
  /\ UNCHANGED <<caller, result, notify, got, timer, macStarted, applied, mac, done, spent,
                 since, phy>>

(* on_error_(), then osThreadExit(). *)
Report ==
  /\ pc = "report" /\ pc' = "gone"
  /\ UNCHANGED <<caller, result, notify, got, timer, stack, spent, since, phy>>

-----------------------------------------------------------------------------
(* The interrupts, the clock and the cable. *)

(* DP83822Phy::onInterrupt(), onPhyEvent() *)
Exti ==
  /\ edge /\ edge' = FALSE
  /\ flags' = IF registered /\ hooked /\ published THEN flags \cup {"Link"} ELSE flags
  /\ UNCHANGED <<thread, published, hooked, got, timer, stack, spent, since, cable, dropped,
                 events, output, driver, out, faults>>

(* A frame has left: notifyTxComplete(). *)
TxComplete ==
  /\ mac # "off"
  /\ done' = TRUE
  /\ flags' = IF published THEN flags \cup {"Tx"} ELSE flags
  /\ UNCHANGED <<thread, published, hooked, got, timer, macStarted, applied, up, mac, spent,
                 since, phy>>

Less(ticks) == (ticks - 1) % TickRange

Failing == {"unhook", "forget", "down", "report", "gone"}

(* Only a thread that polls looks at the clock.  Preempted, it may begin   *)
(* its wait late, or wake late.                                            *)
Tick ==
  /\ periodic /\ pc \notin Failing
  /\ \/ pc = "wait" /\ flags = {} /\ timeout > 0 /\ timeout' = timeout - 1 /\ UNCHANGED spent
     \/ spent < MaxBusy /\ spent' = spent + 1 /\ UNCHANGED timeout
  /\ remaining' = Less(remaining)
  /\ since' = since + 1
  /\ UNCHANGED <<thread, notify, got, periodic, stack, phy>>

Driver == PhyStep /\ UNCHANGED <<thread, notify, got, timer, stack, spent, since>>

Cable ==
  /\ \E l \in Links : LinkChanges(l)
  /\ UNCHANGED <<thread, notify, got, timer, stack, spent, since>>

Thread ==
  \/ Publish \/ Initialize \/ PhyStarted \/ Hook \/ Driver
  \/ Acknowledge \/ Acknowledged \/ Poll
  \/ \E error \in {"Ok", "PhyReadError"} : ApplyDown(error) \/ StopFails(error)
  \/ ApplySame \/ ApplyMode \/ SwitchFails
  \/ Head \/ Recheck \/ Deadline \/ Wake \/ WaitTimesOut \/ Serve
  \/ Unhook \/ Forget \/ TakeDown \/ Report

Next == Start \/ Thread \/ WaitFails \/ Exti \/ TxComplete \/ Tick \/ Cable

Spec == Init /\ [][Next]_vars

(* A thread that was created is scheduled, a raised interrupt is served    *)
(* and the kernel ticks.  Accesses fail at most MaxFaults times.  Nobody   *)
(* need start the platform, plug in a cable or send, and no wait of a      *)
(* thread that is blocked need fail.                                       *)
FairSpec == Spec /\ WF_vars(Thread) /\ WF_vars(Exti) /\ WF_vars(Tick)

-----------------------------------------------------------------------------
TypeOK ==
  /\ PhyTypeOK
  /\ pc \in {"none", "born", "initialize", "starting", "hook", "acknowledge", "acknowledging",
             "poll", "polling", "head", "recheck", "deadline", "wait", "serve"} \cup Failing
  /\ caller \in {"first", "head", "periodic", "flag"}
  /\ result \in {"Ok", "PhyStartError", "PhyInterruptError", "PhyReadError", "MacStopError",
                 "MacStartError", "ThreadWaitError"}
  /\ published \in BOOLEAN /\ hooked \in BOOLEAN
  /\ flags \subseteq {"Link", "Tx"} /\ got \subseteq {"Link", "Tx"}
  /\ periodic \in BOOLEAN
  /\ remaining \in 0 .. (TickRange - 1) /\ timeout \in 0 .. Forever
  /\ macStarted \in BOOLEAN /\ applied \in Links /\ up \in BOOLEAN
  /\ mac \in {"off"} \cup Modes /\ done \in BOOLEAN
  /\ spent \in 0 .. MaxBusy /\ since \in Nat

(* The stack is never told the link is up while the MAC is off or in       *)
(* another mode than the one it was set to, whatever failed; and never by  *)
(* a thread that has ended.                                                *)
UpMeansRunning ==
  up /\ pc \notin {"none", "born", "initialize"} =>
    macStarted /\ mac = applied /\ pc \notin {"report", "gone"}

(* A thread that is blocked has no sent buffer left to release, unless the *)
(* notification is there to wake it: neither a flag that is cleared nor a  *)
(* poll in between loses one.                                              *)
NoTxForgotten == pc = "wait" /\ done => "Tx" \in flags

(* Between two polls no more than the delay and the thread's own lateness  *)
(* passes, however many notifications keep waking it, also across the wrap *)
(* of the tick.                                                            *)
PollsOnTime == since <= PollDelay + MaxBusy

Followed == IF link \in Modes THEN up /\ mac = link ELSE ~up /\ mac = "off"

(* No change of the link is missed: unless it changes for ever or the      *)
(* thread ended with an error, the MAC and the interface come to follow    *)
(* it, in both event modes.  Edges that came before the callback, between  *)
(* reading and acknowledging, or while the pin was still low included.     *)
LinkFollowed ==
  []<><<link' # link>>_vars \/ []<>(Followed \/ pc \in {"none", "gone"})
=============================================================================
