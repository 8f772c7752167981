---------------------------- MODULE CanDriver_proofs ----------------------------
(***************************************************************************)
(* For every board, number of Cans and size of the registry: no peripheral *)
(* has two owners, no slot is lost, start() undoes only what it did, what  *)
(* it froze stays, and frames go to the Can that brought the bus up.       *)
(*                                                                         *)
(* The argument: the registry names the Cans that start or have started,   *)
(* at most one for each peripheral, so the handle of one that started its  *)
(* hardware is started by nobody else, the host included, until it is      *)
(* stopped.                                                                *)
(***************************************************************************)
EXTENDS CanDriver, TLAPS

(* start() is running where starting_ is set. *)
StartingRuns ==
  /\ starting \cap started = {}
  /\ \A c \in Cans : c \in starting <=> phase[c] # "idle"

(* A Can that started its hardware is the last to have done so, and while  *)
(* start() is still running nobody has stopped it; a start() that gives up *)
(* has undone it.                                                          *)
OwnsHardware ==
  /\ hardwareStarted \subseteq starting \cup started
  /\ started \subseteq hardwareStarted
  /\ \A c \in Cans : /\ phase[c] = "publishing" => c \in hardwareStarted
                     /\ phase[c] = "leaving" => c \notin hardwareStarted
  /\ \A c \in hardwareStarted :
       /\ owner[HandleOf[c]] = c
       /\ c \in starting => hal[HandleOf[c]] = "running"

IInv == TypeOK /\ RegistryExact /\ OnePerPeripheral /\ StartingRuns /\ OwnsHardware

(* Nothing is registered when the program begins. *)
LEMMA InitInv == Init => IInv
  BY BoardAssumption
  DEF Init, IInv, TypeOK, Phases, RegistryExact, OnePerPeripheral, StartingRuns, OwnsHardware

(* Each step keeps the types. *)
LEMMA StepType == TypeOK /\ [Next]_vars => TypeOK'
  <1>. SUFFICES ASSUME TypeOK, [Next]_vars PROVE TypeOK'
    OBVIOUS
  <1>. USE BoardAssumption DEF TypeOK, Phases, board, start, chip, GoOn
  <1>1. ASSUME NEW c \in Cans, StartStep(c) PROVE TypeOK'
    <2>1. CASE CheckReady(c)
      BY <2>1 DEF CheckReady
    <2>2. CASE InstallCallbacks(c)
      BY <2>2 DEF InstallCallbacks
    <2>3. CASE StartHardware(c)
      BY <2>3 DEF StartHardware
    <2>4. CASE Publish(c)
      BY <2>4 DEF Publish
    <2>5. CASE RollbackStart(c)
      BY <2>5 DEF RollbackStart
    <2>6. CASE GiveUp(c)
      BY <2>6 DEF GiveUp
    <2>. QED BY <1>1, <2>1, <2>2, <2>3, <2>4, <2>5, <2>6 DEF StartStep
  <1>2. ASSUME NEW c \in Cans, Call(c) PROVE TypeOK'
    <2>1. CASE Claim(c)
      BY <2>1 DEF Claim
    <2>2. CASE ConfigureFilter(c)
      BY <2>2 DEF ConfigureFilter, Write
    <2>3. CASE ConfigureTxDelayCompensation(c)
      BY <2>3 DEF ConfigureTxDelayCompensation, Write
    <2>4. CASE AddCallback(c)
      BY <2>4 DEF AddCallback
    <2>5. CASE Destroy(c)
      BY <2>5 DEF Destroy
    <2>. QED BY <1>2, <2>1, <2>2, <2>3, <2>4, <2>5 DEF Call
  <1>3. ASSUME NEW h \in Handles, OnReceive(h) PROVE TypeOK'
    BY <1>3 DEF OnReceive
  <1>4. ASSUME NEW h \in Handles, HostStarts(h) \/ HostStops(h) \/ HostInits(h) PROVE TypeOK'
    BY <1>4 DEF HostStarts, HostStops, HostInits
  <1>5. CASE UNCHANGED vars
    BY <1>5 DEF vars
  <1>. QED BY <1>1, <1>2, <1>3, <1>4, <1>5 DEF Next

(* Each step keeps the invariant. *)
LEMMA StepInv == IInv /\ [Next]_vars => IInv'
  <1>. SUFFICES ASSUME IInv, [Next]_vars PROVE IInv'
    OBVIOUS
  <1>. DEFINE Owners == RegistryExact /\ OnePerPeripheral /\ StartingRuns /\ OwnsHardware
  <1>1. TypeOK /\ TypeOK' /\ Owners
    BY StepType DEF IInv
  <1>. SUFFICES Owners'
    BY <1>1 DEF IInv
  <1>. USE <1>1, BoardAssumption
       DEF TypeOK, Phases, board, start, chip, GoOn, Peripheral,
           RegistryExact, OnePerPeripheral, StartingRuns, OwnsHardware
  <1>2. ASSUME NEW c \in Cans, StartStep(c) PROVE Owners'
    <2>1. CASE CheckReady(c)
      BY <2>1 DEF CheckReady
    <2>2. CASE InstallCallbacks(c)
      BY <2>2 DEF InstallCallbacks
    <2>3. CASE StartHardware(c)
      <3>1. c \in starting
        BY <2>3 DEF StartHardware
      <3>2. \A d \in hardwareStarted : d # c => HandleOf[d] # HandleOf[c]
        BY <3>1
      <3>3. /\ starting' = starting /\ started' = started
            /\ instances' = instances /\ live' = live /\ wiring' = wiring
        BY <2>3 DEF StartHardware
      <3>4. CASE hardwareStarted' = hardwareStarted \cup {c} /\ phase'[c] = "publishing"
        BY <2>3, <3>1, <3>2, <3>3, <3>4 DEF StartHardware
      <3>5. CASE UNCHANGED <<owner, hardwareStarted>> /\ phase'[c] = "undoing"
        BY <2>3, <3>1, <3>2, <3>3, <3>5 DEF StartHardware
      <3>6. \/ hardwareStarted' = hardwareStarted \cup {c} /\ phase'[c] = "publishing"
            \/ UNCHANGED <<owner, hardwareStarted>> /\ phase'[c] = "undoing"
        BY <2>3 DEF StartHardware
      <3>. QED BY <3>4, <3>5, <3>6
    <2>4. CASE Publish(c)
      BY <2>4 DEF Publish
    <2>5. CASE RollbackStart(c)
      <3>1. c \in starting
        BY <2>5 DEF RollbackStart
      <3>2. \A d \in hardwareStarted : d # c => HandleOf[d] # HandleOf[c]
        BY <3>1
      <3>. QED BY <2>5, <3>1, <3>2 DEF RollbackStart
    <2>6. CASE GiveUp(c)
      BY <2>6 DEF GiveUp
    <2>. QED BY <1>2, <2>1, <2>2, <2>3, <2>4, <2>5, <2>6 DEF StartStep
  <1>3. ASSUME NEW c \in Cans, Call(c) PROVE Owners'
    <2>1. CASE Claim(c)
      BY <2>1 DEF Claim, Unclaimed
    <2>2. CASE ConfigureFilter(c) \/ ConfigureTxDelayCompensation(c) \/ AddCallback(c)
      BY <2>2 DEF ConfigureFilter, ConfigureTxDelayCompensation, AddCallback
    <2>3. CASE Destroy(c)
      BY <2>3 DEF Destroy
    <2>. QED BY <1>3, <2>1, <2>2, <2>3 DEF Call
  <1>4. ASSUME NEW h \in Handles, OnReceive(h) PROVE Owners'
    BY <1>4 DEF OnReceive
  <1>5. ASSUME NEW h \in Handles, HostStarts(h) PROVE Owners'
    BY <1>5 DEF HostStarts
  <1>6. ASSUME NEW h \in Handles, HostStops(h) PROVE Owners'
    BY <1>6 DEF HostStops
  <1>7. ASSUME NEW h \in Handles, HostInits(h) PROVE Owners'
    BY <1>7 DEF HostInits
  <1>8. CASE UNCHANGED vars
    BY <1>8 DEF vars
  <1>. QED BY <1>2, <1>3, <1>4, <1>5, <1>6, <1>7, <1>8 DEF Next

(* The inductive invariant holds in every state. *)
THEOREM CanInvariance == Spec => []IInv
  BY InitInv, StepInv, PTL DEF Spec

(* Two Cans that start or have started never share a peripheral            *)
(* (claim_instance()).                                                     *)
THEOREM OnePerPeripheralThm == Spec => []OnePerPeripheral
  <1>1. IInv => OnePerPeripheral
    BY DEF IInv
  <1>. QED BY <1>1, CanInvariance, PTL

(* The registry names the Cans that start or have started, and those only  *)
(* (release_instance() on every way out).                                  *)
THEOREM RegistryExactThm == Spec => []RegistryExact
  <1>1. IInv => RegistryExact
    BY DEF IInv
  <1>. QED BY <1>1, CanInvariance, PTL

(* rollback_start() stops only hardware its own Can started. *)
THEOREM StopsItsOwnThm == Spec => StopsItsOwn
  <1>1. ASSUME IInv, [Next]_vars, NEW c \in Cans,
               phase[c] = "undoing", phase'[c] = "leaving",
               NEW h \in Handles, hal'[h] # hal[h]
        PROVE  owner[h] = c
    <2>. USE DEF IInv, TypeOK, GoOn
    <2>1. PICK d \in Cans : StartStep(d) \/ Call(d)
      BY <1>1
      DEF Next, vars, start, chip, OnReceive, HostStarts, HostStops, HostInits
    <2>2. RollbackStart(c)
      BY <1>1, <2>1
      DEF StartStep, Call, CheckReady, InstallCallbacks, StartHardware, Publish, RollbackStart,
          GiveUp, Claim, ConfigureFilter, ConfigureTxDelayCompensation, AddCallback, Destroy,
          start, chip
    <2>. QED BY <1>1, <2>2 DEF RollbackStart, OwnsHardware
  <1>2. IInv /\ [Next]_vars => [\A c \in Cans :
           phase[c] = "undoing" /\ phase'[c] = "leaving" =>
             \A h \in Handles : hal'[h] # hal[h] => owner[h] = c]_vars
    BY <1>1
  <1>. QED BY <1>2, CanInvariance, PTL DEF Spec, StopsItsOwn

(* What configure_filter(), configure_tx_delay_compensation() and          *)
(* add_callback() set stays from the claim of a bus on.                    *)
THEOREM ConfigFrozenThm == Spec => ConfigFrozen
  <1>1. ASSUME IInv, [Next]_vars, NEW c \in starting \cup started
        PROVE  config'[Peripheral(c)] = config[Peripheral(c)] /\ callbacks'[c] = callbacks[c]
    <2>1. c \in Cans /\ c \in instances /\ Peripheral(c) \in Peripherals
      BY <1>1, BoardAssumption DEF IInv, TypeOK, RegistryExact, Peripheral
    <2>2. ASSUME NEW d \in Cans, Configurable(d)
          PROVE  d # c /\ Peripheral(d) # Peripheral(c) /\ HandleOf[d] # HandleOf[c]
      BY <1>1, <2>1, <2>2 DEF Configurable, Peripheral
    <2>3. ASSUME NEW d \in Cans, ConfigureFilter(d)
          PROVE  config'[Peripheral(c)] = config[Peripheral(c)] /\ callbacks' = callbacks
      <3>1. Peripheral(c) \notin Domain(Peripheral(d))
        BY <1>1, <2>1, <2>2, <2>3 DEF ConfigureFilter, SharedFilterBusStarted, Domain
      <3>. QED BY <2>1, <2>3, <3>1 DEF ConfigureFilter, Write
    <2>4. ASSUME NEW d \in Cans, ConfigureTxDelayCompensation(d)
          PROVE  config'[Peripheral(c)] = config[Peripheral(c)] /\ callbacks' = callbacks
      BY <2>1, <2>2, <2>4 DEF ConfigureTxDelayCompensation, Write
    <2>5. ASSUME NEW d \in Cans, AddCallback(d)
          PROVE  config' = config /\ callbacks'[c] = callbacks[c]
      BY <1>1, <2>1, <2>5 DEF AddCallback, IInv, TypeOK
    <2>6. ASSUME NEW d \in Cans, StartStep(d) \/ Claim(d) \/ Destroy(d)
          PROVE  config' = config /\ callbacks' = callbacks
      BY <2>6
      DEF StartStep, CheckReady, InstallCallbacks, StartHardware, Publish, RollbackStart,
          GiveUp, Claim, Destroy
    <2>7. ASSUME NEW h \in Handles,
                 OnReceive(h) \/ HostStarts(h) \/ HostStops(h) \/ HostInits(h)
          PROVE  config' = config /\ callbacks' = callbacks
      BY <2>7 DEF OnReceive, HostStarts, HostStops, HostInits
    <2>. QED BY <1>1, <2>3, <2>4, <2>5, <2>6, <2>7 DEF Next, Call, vars
  <1>2. IInv /\ [Next]_vars => [\A c \in starting \cup started :
          /\ config'[Peripheral(c)] = config[Peripheral(c)]
          /\ callbacks'[c] = callbacks[c]]_vars
    BY <1>1
  <1>. QED BY <1>2, CanInvariance, PTL DEF Spec, ConfigFrozen

(* A frame is delivered by a bus that is up, to the Can that brought it up *)
(* (find() and on_receive()).                                              *)
THEOREM DeliveredByItsBusThm == Spec => DeliveredByItsBus
  <1>1. ASSUME IInv, [Next]_vars, NEW c \in Cans, frames'[c] # frames[c]
        PROVE  c \in started /\ owner[HandleOf[c]] = c
    <2>1. PICK h \in Handles : OnReceive(h)
      BY <1>1
      DEF Next, StartStep, Call, CheckReady, InstallCallbacks, StartHardware, Publish,
          RollbackStart, GiveUp, Claim, ConfigureFilter, ConfigureTxDelayCompensation,
          AddCallback, Destroy, HostStarts, HostStops, HostInits, vars
    <2>2. c \in started
      BY <1>1, <2>1 DEF OnReceive, IInv, TypeOK
    <2>. QED BY <1>1, <2>2 DEF IInv, OwnsHardware
  <1>2. IInv /\ [Next]_vars => [\A c \in Cans : frames'[c] # frames[c] =>
          c \in started /\ owner[HandleOf[c]] = c]_vars
    BY <1>1
  <1>. QED BY <1>2, CanInvariance, PTL DEF Spec, DeliveredByItsBus
=============================================================================
