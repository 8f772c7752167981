-------------------------------- MODULE DP83822 --------------------------------
(***************************************************************************)
(* bsp/ethernet/phy_drivers/dp83822: the PHY chip and its driver, as far   *)
(* as the link thread uses them: start(), readLink(), acknowledgeInterrupt *)
(* and the interrupt pin.  An operation is a sequence of register          *)
(* accesses, each of which may fail; the cable changes between them.       *)
(* The module has no specification of its own: its caller interleaves      *)
(* these actions with its own (LwipPlatform), one operation at a time.     *)
(***************************************************************************)
EXTENDS Naturals

CONSTANTS
  Modes,     \* the speeds and duplexes a link can have
  MaxFaults  \* bound: accesses and HAL calls that fail

ASSUME PhyAssumption == Modes \cap {"Down", "Negotiating", "off"} = {} /\ MaxFaults \in Nat

Links == {"Down", "Negotiating"} \cup Modes

VARIABLES
  hasPin,      \* an interrupt pin is wired and configured
  link,        \* the physical link; Negotiating: a signal, but no agreed mode yet
  dropped,     \* BMSR: the link was down since the last read
  events,      \* MISR1: a link event since the last read
  output,      \* MISR1, PHYSCR: events pull the pin down
  edge,        \* the pin fell and its EXTI interrupt was not served yet
  registered,  \* exti_registered_
  status,      \* status_
  step,        \* where the driver stands in an operation, "none" outside
  answer,      \* what the latest operation returned
  state,       \* the link it read
  changed,     \* the link_changed it reported
  faults       \* failures so far

cable  == <<hasPin, link>>
chip   == <<dropped, events, output, edge>>
driver == <<registered, status, step>>
out    == <<answer, state, changed>>

PhyInit ==
  /\ hasPin \in BOOLEAN /\ link \in Links
  /\ dropped \in BOOLEAN /\ events \in BOOLEAN /\ output \in BOOLEAN /\ edge = FALSE
  /\ registered = FALSE /\ status = "NotInitialized"
  /\ step = "none" /\ answer = "Ok" /\ state = "Down" /\ changed = FALSE
  /\ faults = 0

PhyIdle == step = "none"

(* The caller has used what the operation returned. *)
Used == answer' = "Ok" /\ state' = "Down" /\ changed' = FALSE

(* interruptAsserted() *)
InterruptAsserted == hasPin /\ output /\ events

-----------------------------------------------------------------------------
(* The chip. *)

LinkChanges(l) ==
  /\ link # l
  /\ link' = l
  /\ dropped' = (dropped \/ l = "Down")
  /\ events' = TRUE
  /\ edge' = (edge \/ (hasPin /\ output /\ ~events))
  /\ UNCHANGED <<hasPin, output, driver, out, faults>>

Fault == faults < MaxFaults /\ faults' = faults + 1

(* An access is done, or the operation is over. *)
Then(next) == step' = next /\ UNCHANGED answer
Return(result) == step' = "none" /\ answer' = result

(* A register cannot be read; the operation ends with the error. *)
ReadFails ==
  /\ step \in {"bmsr", "bmsr2", "physts", "bmcr", "misr1", "misr2"}
  /\ Fault
  /\ Return("ReadError")
  /\ UNCHANGED <<cable, chip, registered, status, state, changed>>

-----------------------------------------------------------------------------
(* start() *)

CallStart ==
  /\ PhyIdle
  /\ Then("setup")
  /\ registered' = FALSE /\ status' = "NotInitialized"
  /\ UNCHANGED <<cable, chip, state, changed, faults>>

StartFails ==
  /\ step \in {"setup", "clear", "enable"}
  /\ Fault
  /\ Return("Failed") /\ status' = "Failed"
  /\ UNCHANGED <<cable, chip, registered, state, changed>>

(* Reset, identification, capabilities and link configuration. *)
SetUp ==
  /\ step = "setup"
  /\ step' = IF hasPin THEN "clear" ELSE "register"
  /\ link' = "Down" /\ dropped' = TRUE /\ events' = FALSE /\ output' = FALSE
  /\ UNCHANGED <<hasPin, edge, registered, status, answer, state, changed, faults>>

(* configureInterrupt(): events so far are read away... *)
ClearEvents ==
  /\ step = "clear"
  /\ Then("enable")
  /\ events' = FALSE
  /\ UNCHANGED <<cable, dropped, output, edge, registered, status, state, changed, faults>>

(* ...and the pin becomes an interrupt output, low if one came since. *)
EnableOutput ==
  /\ step = "enable"
  /\ Then("register")
  /\ output' = TRUE
  /\ edge' = (edge \/ events)
  /\ UNCHANGED <<cable, dropped, events, registered, status, state, changed, faults>>

RegisterExti ==
  /\ step = "register"
  /\ Return("Ok") /\ status' = "Ok"
  /\ registered' = hasPin
  /\ UNCHANGED <<cable, chip, state, changed, faults>>

-----------------------------------------------------------------------------
(* readLink() *)

CallReadLink ==
  /\ PhyIdle /\ status = "Ok"
  /\ Then("bmsr")
  /\ UNCHANGED <<cable, chip, registered, status, state, changed, faults>>

LinkBit == ~dropped /\ link # "Down"

ReadsBmsr == dropped' = (link = "Down") /\ UNCHANGED <<cable, events, output, edge>>

ReadBmsr ==
  /\ step = "bmsr"
  /\ Then(IF LinkBit THEN "physts" ELSE "bmsr2")
  /\ ReadsBmsr
  /\ UNCHANGED <<registered, status, state, changed, faults>>

(* The bit latches low: the second read tells the present. *)
ReadBmsrAgain ==
  /\ step = "bmsr2"
  /\ \/ LinkBit /\ Then("physts") /\ UNCHANGED state
     \/ ~LinkBit /\ Return("Ok") /\ state' = "Down"
  /\ ReadsBmsr
  /\ UNCHANGED <<registered, status, changed, faults>>

ReadPhysts ==
  /\ step = "physts"
  /\ \/ link # "Down" /\ Then("bmcr")
     \/ link = "Down" /\ Return("Ok")
  /\ state' = link
  /\ UNCHANGED <<cable, chip, registered, status, changed, faults>>

(* Only whether the chip negotiates at all, which says what PHYSTS meant. *)
ReadBmcr ==
  /\ step = "bmcr"
  /\ Return("Ok")
  /\ UNCHANGED <<cable, chip, registered, status, state, changed, faults>>

-----------------------------------------------------------------------------
(* acknowledgeInterrupt() *)

CallAcknowledge ==
  /\ PhyIdle /\ status = "Ok" /\ hasPin
  /\ Then("misr1")
  /\ UNCHANGED <<cable, chip, registered, status, state, changed, faults>>

(* Reading clears the events and releases the pin. *)
ReadMisr1 ==
  /\ step = "misr1"
  /\ Then("misr2")
  /\ changed' = events /\ events' = FALSE
  /\ UNCHANGED <<cable, dropped, output, edge, registered, status, state, faults>>

ReadMisr2 ==
  /\ step = "misr2"
  /\ Return("Ok")
  /\ UNCHANGED <<cable, chip, registered, status, state, changed, faults>>

PhyStep ==
  \/ StartFails \/ SetUp \/ ClearEvents \/ EnableOutput \/ RegisterExti
  \/ ReadFails \/ ReadBmsr \/ ReadBmsrAgain \/ ReadPhysts \/ ReadBmcr
  \/ ReadMisr1 \/ ReadMisr2

PhyTypeOK ==
  /\ hasPin \in BOOLEAN /\ link \in Links
  /\ dropped \in BOOLEAN /\ events \in BOOLEAN /\ output \in BOOLEAN /\ edge \in BOOLEAN
  /\ registered \in BOOLEAN /\ status \in {"NotInitialized", "Ok", "Failed"}
  /\ step \in {"none", "setup", "clear", "enable", "register", "bmsr", "bmsr2", "physts",
               "bmcr", "misr1", "misr2"}
  /\ answer \in {"Ok", "Failed", "ReadError"} /\ state \in Links /\ changed \in BOOLEAN
  /\ faults \in 0 .. MaxFaults
=============================================================================
