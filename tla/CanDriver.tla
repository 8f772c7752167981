------------------------------- MODULE CanDriver -------------------------------
(***************************************************************************)
(* bsp/can_driver2, the life of the Can objects: they share a registry of  *)
(* fixed size, each wants a peripheral for itself, and start() waits on    *)
(* the HAL with interrupts open, so that other tasks and the interrupts of *)
(* a bus run between its steps.  Everything under an ISRGuard is one step. *)
(* A call that is refused changes nothing and is no step.  What a started  *)
(* bus does with frames to send is CanTransmit.                            *)
(***************************************************************************)
EXTENDS Naturals, FiniteSets

CONSTANTS
  Cans,          \* the Can objects a program may build
  Handles,       \* HAL handles
  Peripherals,
  HandleOf,      \* the handle each Can borrows
  Wirings,       \* what handle.Instance may say of the handles
  Pair,          \* bxCAN: CAN1 and CAN2, which share their filter banks
  Host,          \* other code that starts a handle, an older driver say
  MaxInstances,  \* CAN_DRIVER_MAX_INSTANCES
  MaxCallbacks,  \* CAN_DRIVER_MAX_CALLBACKS
  MaxFrames      \* bound: frames delivered to each Can

ASSUME BoardAssumption ==
  /\ HandleOf \in [Cans -> Handles] /\ Wirings \subseteq [Handles -> Peripherals]
  /\ Pair \subseteq Peripherals /\ Host \notin Cans
  /\ MaxInstances \in Nat \ {0} /\ MaxCallbacks \in Nat \ {0} /\ MaxFrames \in Nat

VARIABLES
  backend,          \* which of the two backends is compiled in
  wiring,           \* handle.Instance
  live,             \* the Cans that exist
  instances,        \* the registry, at most MaxInstances of them
  starting,         \* those whose starting_ is set
  started,          \* those whose started_ is set
  hardwareStarted,  \* those whose hardware_started_ is set
  phase,            \* where each start() is
  callbacks,        \* callback_count_
  hal,              \* handle.State
  owner,            \* ghost: who started each handle's hardware
  irqOn,            \* the handles whose notifications are on
  installed,        \* the handles that carry the driver's callbacks
  config,           \* filters and delay compensation: flips when written
  frames            \* rx_frames_

start == <<starting, started, hardwareStarted, phase>>
chip  == <<hal, owner, irqOn, installed>>
board == <<backend, wiring>>
vars  == <<board, live, instances, start, callbacks, chip, config, frames>>

Peripheral(c) == wiring[HandleOf[c]]

Init ==
  /\ backend \in {"bxcan", "fdcan"} /\ wiring \in Wirings
  /\ live = Cans /\ instances = {} /\ starting = {} /\ started = {} /\ hardwareStarted = {}
  /\ phase = [c \in Cans |-> "idle"]
  /\ callbacks = [c \in Cans |-> 0]
  /\ hal = [h \in Handles |-> "ready"] /\ owner = [h \in Handles |-> Host]
  /\ irqOn = {} /\ installed = {}
  /\ config = [p \in Peripherals |-> FALSE]
  /\ frames = [c \in Cans |-> 0]

-----------------------------------------------------------------------------
(* start() *)

Unclaimed(c) == \A i \in instances : Peripheral(i) # Peripheral(c)

GoOn(c, to) == phase' = [phase EXCEPT ![c] = to]

Claim(c) ==
  /\ c \in live /\ phase[c] = "idle" /\ c \notin starting \cup started
  /\ Unclaimed(c) /\ Cardinality(instances) < MaxInstances
  /\ instances' = instances \cup {c}
  /\ starting' = starting \cup {c}
  /\ GoOn(c, "checking")
  /\ UNCHANGED <<board, live, started, hardwareStarted, callbacks, chip, config, frames>>

(* Only a handle that is initialised and not running; FDCAN also looks at  *)
(* the message RAM.                                                        *)
CheckReady(c) ==
  /\ phase[c] = "checking"
  /\ \/ hal[HandleOf[c]] = "ready" /\ GoOn(c, "installing")
     \/ (hal[HandleOf[c]] # "ready" \/ backend = "fdcan") /\ GoOn(c, "undoing")
  /\ UNCHANGED <<board, live, instances, starting, started, hardwareStarted,
                 callbacks, chip, config, frames>>

(* The HAL takes callbacks of a ready handle only; some may be installed   *)
(* when it gives up.                                                       *)
InstallCallbacks(c) ==
  LET h == HandleOf[c] IN
  /\ phase[c] = "installing"
  /\ \/ hal[h] = "ready" /\ installed' = installed \cup {h} /\ GoOn(c, "launching")
     \/ installed' \in {installed, installed \cup {h}} /\ GoOn(c, "undoing")
  /\ UNCHANGED <<board, live, instances, starting, started, hardwareStarted,
                 callbacks, hal, owner, irqOn, config, frames>>

(* HAL_CAN_Start(): the State is checked again, the bus may not come up. *)
StartHardware(c) ==
  LET h == HandleOf[c] IN
  /\ phase[c] = "launching"
  /\ \/ /\ hal[h] = "ready"
        /\ hal' = [hal EXCEPT ![h] = "running"] /\ owner' = [owner EXCEPT ![h] = c]
        /\ hardwareStarted' = hardwareStarted \cup {c}
        /\ GoOn(c, "publishing")
     \/ /\ hal' = [hal EXCEPT ![h] = IF @ = "ready" THEN "error" ELSE @]
        /\ GoOn(c, "undoing")
        /\ UNCHANGED <<owner, hardwareStarted>>
  /\ UNCHANGED <<board, live, instances, starting, started, callbacks, irqOn, installed,
                 config, frames>>

Publish(c) ==
  /\ phase[c] = "publishing"
  /\ \/ /\ started' = started \cup {c} /\ starting' = starting \ {c}
        /\ irqOn' = irqOn \cup {HandleOf[c]}
        /\ GoOn(c, "idle")
     \/ /\ GoOn(c, "undoing")   \* the HAL refuses to enable the notifications
        /\ UNCHANGED <<started, starting, irqOn>>
  /\ UNCHANGED <<board, live, instances, hardwareStarted, callbacks, hal, owner, installed,
                 config, frames>>

(* The fault StopsBlindly: rollback_start() stops whatever runs. *)
StopsBlindly(c) ==
  LET h == HandleOf[c] IN
  /\ phase[c] = "undoing" /\ GoOn(c, "leaving")
  /\ hardwareStarted' = hardwareStarted \ {c}
  /\ hal' = [hal EXCEPT ![h] = IF @ = "running" THEN "ready" ELSE @]
  /\ UNCHANGED <<board, live, instances, starting, started, callbacks, owner, irqOn,
                 installed, config, frames>>

(* rollback_start(); what the HAL answers to the stop is ignored. *)
RollbackStart(c) ==
  LET h == HandleOf[c] IN
  /\ phase[c] = "undoing" /\ GoOn(c, "leaving")
  /\ \/ c \notin hardwareStarted /\ UNCHANGED <<hardwareStarted, hal, irqOn>>
     \/ /\ c \in hardwareStarted
        /\ hardwareStarted' = hardwareStarted \ {c}
        /\ irqOn' = IF backend = "bxcan" THEN irqOn \ {h} ELSE irqOn
        /\ \E to \in {"ready", "error"} :
             hal' = [hal EXCEPT ![h] = IF @ = "running" THEN to ELSE @]
  /\ UNCHANGED <<board, live, instances, starting, started, callbacks, owner, installed,
                 config, frames>>

(* The fault KeepsSlot: a start() that failed forgets release_instance(). *)
KeepsSlot(c) ==
  /\ phase[c] = "leaving" /\ GoOn(c, "idle")
  /\ starting' = starting \ {c}
  /\ UNCHANGED <<board, live, instances, started, hardwareStarted, callbacks, chip, config,
                 frames>>

GiveUp(c) ==
  /\ phase[c] = "leaving" /\ GoOn(c, "idle")
  /\ starting' = starting \ {c} /\ instances' = instances \ {c}
  /\ UNCHANGED <<board, live, started, hardwareStarted, callbacks, chip, config, frames>>

-----------------------------------------------------------------------------
(* The other calls. *)

(* configure_filter() of bxCAN writes the banks of both controllers. *)
Domain(p) == IF backend = "bxcan" /\ p \in Pair THEN Pair ELSE {p}

(* The fault RunningOnly: a bus on its way up does not hold the filters. *)
RunningOnly(c) ==
  \E i \in instances \ {c} : {Peripheral(i), Peripheral(c)} \subseteq Pair /\ i \in started

(* shared_filter_bus_started() *)
SharedFilterBusStarted(c) ==
  \E i \in instances :
    /\ HandleOf[i] # HandleOf[c] /\ {Peripheral(i), Peripheral(c)} \subseteq Pair
    /\ i \in started \cup starting

Configurable(c) ==
  /\ c \in live \ (starting \cup started)
  /\ \A i \in instances \ {c} : Peripheral(i) # Peripheral(c)
  /\ hal[HandleOf[c]] = "ready"

Write(ps) == config' = [p \in Peripherals |-> IF p \in ps THEN ~config[p] ELSE config[p]]

ConfigureFilter(c) ==
  /\ Configurable(c)
  /\ backend = "bxcan" => ~SharedFilterBusStarted(c)
  /\ Write(Domain(Peripheral(c)))
  /\ UNCHANGED <<board, live, instances, start, callbacks, chip, frames>>

ConfigureTxDelayCompensation(c) ==
  /\ Configurable(c) /\ backend = "fdcan"
  /\ Write({Peripheral(c)})
  /\ UNCHANGED <<board, live, instances, start, callbacks, chip, frames>>

AddCallback(c) ==
  /\ c \in live \ (starting \cup started) /\ callbacks[c] < MaxCallbacks
  /\ callbacks' = [callbacks EXCEPT ![c] = @ + 1]
  /\ UNCHANGED <<board, live, instances, start, chip, config, frames>>

(* ~Can(): the host has stopped the hardware, and start() is not running. *)
Destroy(c) ==
  /\ c \in live /\ phase[c] = "idle"
  /\ c \in started => owner[HandleOf[c]] # c \/ hal[HandleOf[c]] # "running"
  /\ live' = live \ {c} /\ instances' = instances \ {c}
  /\ starting' = starting \ {c} /\ started' = started \ {c}
  /\ hardwareStarted' = hardwareStarted \ {c}
  /\ UNCHANGED <<board, phase, callbacks, chip, config, frames>>

(* The fault Unchecked: on_receive() does not ask whether the bus started. *)
Unchecked(h) ==
  /\ hal[h] = "running" /\ h \in irqOn \cap installed
  /\ \E c \in instances : HandleOf[c] = h /\ frames[c] < MaxFrames
                          /\ frames' = [frames EXCEPT ![c] = @ + 1]
  /\ UNCHANGED <<board, live, instances, start, callbacks, chip, config>>

(* The receive interrupt of a handle: find() and on_receive(). *)
OnReceive(h) ==
  /\ hal[h] = "running" /\ h \in irqOn \cap installed
  /\ \E c \in instances \cap started : HandleOf[c] = h /\ frames[c] < MaxFrames
                                       /\ frames' = [frames EXCEPT ![c] = @ + 1]
  /\ UNCHANGED <<board, live, instances, start, callbacks, chip, config>>

-----------------------------------------------------------------------------
(* The host's own use of a handle. *)

HostStarts(h) ==
  /\ hal[h] = "ready" /\ \A c \in started : HandleOf[c] # h
  /\ hal' = [hal EXCEPT ![h] = "running"] /\ owner' = [owner EXCEPT ![h] = Host]
  /\ UNCHANGED <<board, live, instances, start, callbacks, irqOn, installed, config, frames>>

(* Its own hardware at any time; a Can's once it is started and will not   *)
(* be used any more.  The notifications stay on.                           *)
HostStops(h) ==
  /\ hal[h] = "running" /\ (owner[h] = Host \/ owner[h] \in started)
  /\ hal' = [hal EXCEPT ![h] = "ready"]
  /\ UNCHANGED <<board, live, instances, start, callbacks, owner, irqOn, installed, config,
                 frames>>

(* HAL_CAN_DeInit() and HAL_CAN_Init(). *)
HostInits(h) ==
  /\ hal[h] = "error" /\ \A c \in starting \cup started : HandleOf[c] # h
  /\ hal' = [hal EXCEPT ![h] = "ready"]
  /\ irqOn' = irqOn \ {h} /\ installed' = installed \ {h}
  /\ UNCHANGED <<board, live, instances, start, callbacks, owner, config, frames>>

StartStep(c) ==
  \/ CheckReady(c) \/ InstallCallbacks(c) \/ StartHardware(c)
  \/ Publish(c) \/ RollbackStart(c) \/ GiveUp(c)

Call(c) ==
  \/ Claim(c) \/ ConfigureFilter(c) \/ ConfigureTxDelayCompensation(c)
  \/ AddCallback(c) \/ Destroy(c)

Next ==
  \/ \E c \in Cans : StartStep(c) \/ Call(c)
  \/ \E h \in Handles : OnReceive(h) \/ HostStarts(h) \/ HostStops(h) \/ HostInits(h)

Spec == Init /\ [][Next]_vars

-----------------------------------------------------------------------------
Phases == {"idle", "checking", "installing", "launching", "publishing", "undoing", "leaving"}

TypeOK ==
  /\ backend \in {"bxcan", "fdcan"} /\ wiring \in [Handles -> Peripherals]
  /\ live \subseteq Cans /\ instances \subseteq Cans
  /\ starting \subseteq Cans /\ started \subseteq Cans /\ hardwareStarted \subseteq Cans
  /\ phase \in [Cans -> Phases]
  /\ callbacks \in [Cans -> 0 .. MaxCallbacks]
  /\ hal \in [Handles -> {"ready", "running", "error"}]
  /\ owner \in [Handles -> Cans \cup {Host}]
  /\ irqOn \subseteq Handles /\ installed \subseteq Handles
  /\ config \in [Peripherals -> BOOLEAN]
  /\ frames \in [Cans -> 0 .. MaxFrames]

(* Two Cans that have a bus or are getting one never share a peripheral,   *)
(* not even through different handles.                                     *)
OnePerPeripheral ==
  \A c, d \in starting \cup started : Peripheral(c) = Peripheral(d) => c = d

(* The registry holds the Cans that start or have started and no others:   *)
(* no start() that failed and no destructor leaves a slot behind, and an   *)
(* interrupt never finds a Can that is gone.                               *)
RegistryExact == instances = starting \cup started /\ instances \subseteq live

(* rollback_start() stops only hardware this Can started itself. *)
StopsItsOwn ==
  [][\A c \in Cans : phase[c] = "undoing" /\ phase'[c] = "leaving" =>
       \A h \in Handles : hal'[h] # hal[h] => owner[h] = c]_vars

(* Filters, delay compensation and the callbacks the interrupt walks do   *)
(* not change once the start() of a bus has begun, through no Can, handle  *)
(* or neighbour in the shared banks.                                       *)
ConfigFrozen ==
  [][\A c \in starting \cup started :
       /\ config'[Peripheral(c)] = config[Peripheral(c)]
       /\ callbacks'[c] = callbacks[c]]_vars

(* A frame is delivered by a bus that is up, to the Can that brought it    *)
(* up, also when an earlier owner left the interrupts of the handle on.    *)
DeliveredByItsBus ==
  [][\A c \in Cans : frames'[c] # frames[c] =>
       c \in started /\ owner[HandleOf[c]] = c]_vars
=============================================================================
