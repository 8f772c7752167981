----------------------------- MODULE DP83822Setup -----------------------------
(***************************************************************************)
(* bsp/ethernet/phy_drivers/dp83822: how start(), configureLink() and      *)
(* restartAutoNegotiation() bring the chip into the mode they were asked   *)
(* for.  Each register access is a step and may fail; a write that fails   *)
(* may have reached the chip or not.  The chip resets and begins to        *)
(* negotiate in its own time.  (DP83822 models the same driver as the link *)
(* thread sees it: readLink() and the interrupt.)                          *)
(***************************************************************************)
EXTENDS Naturals, FiniteSets

CONSTANTS
  MaxAddress,  \* kAddressMax
  Modes,       \* PhyLinkMode
  Boards,      \* what the driver was built for and with
  LinkConfigs  \* what start() and configureLink() are asked for

(* A requested address is one of the chip's, one more to search for it, or  *)
(* refused; chips are at addresses.                                        *)
ASSUME SetupAssumption ==
  /\ MaxAddress \in Nat
  /\ \A b \in Boards :
       /\ b.dps \subseteq 0 .. MaxAddress
       /\ {b.resetPin, b.intPin, b.canAuto, b.strap.auto} \subseteq BOOLEAN
  /\ LinkConfigs # {} /\ \A c \in LinkConfigs : c.auto \in BOOLEAN

VARIABLES
  board,    \* [dps: addresses of DP83822s, requested, pinsOk, resetPin, intPin, modes, canAuto, strap]
  regs,     \* Address -> the registers of the chip there
  phy,      \* status_, address_, supported_modes_, autoneg_supported_, exti_registered_
  op,       \* the operation under way
  config,   \* what it was asked for
  access,   \* the register access it makes next, "none" outside
  found,    \* selectAddress(): the matches so far
  bmcr,     \* the BMCR and the ANAR it read
  anar,
  answer,   \* what the latest operation returned
  applied   \* ghost: what the latest operation that answered Ok was asked for

inputs    == <<op, config>>
locals    == <<found, bmcr, anar>>
setupVars == <<board, regs, phy, inputs, access, locals, answer, applied>>

Addresses == 0 .. MaxAddress

AutoAddress == MaxAddress + 1

NoPhy == [status |-> "NotInitialized", address |-> 0, supported |-> {}, canAuto |-> FALSE,
          registered |-> FALSE]

(* A chip after a reset, as its straps and its makers want it.             *)
Strapped ==
  [auto |-> board.strap.auto, mode |-> board.strap.mode, restarting |-> FALSE,
   anar |-> board.modes, negotiated |-> board.modes,
   mdix |-> {}, resetting |-> FALSE, events |-> "none", output |-> FALSE]

Bmcr(r) == [auto |-> r.auto, mode |-> r.mode, restarting |-> r.restarting]

NoBmcr == [auto |-> FALSE, mode |-> {}, restarting |-> FALSE]

SetupInit ==
  /\ board \in Boards
  /\ regs = [a \in Addresses |-> Strapped]
  /\ phy = NoPhy
  /\ op = "none" /\ config = CHOOSE c \in LinkConfigs : TRUE
  /\ access = "none" /\ found = {} /\ bmcr = NoBmcr /\ anar = {}
  /\ answer = "Ok" /\ applied = {}

-----------------------------------------------------------------------------
(* What may be asked for: validateConfig() and start()'s other checks.     *)

ValidConfig(c) ==
  /\ c.modes # {} /\ c.modes \subseteq Modes
  /\ c.auto \/ Cardinality(c.modes) = 1

(* validateConfigSupport() *)
Supports(p, c) ==
  IF c.auto THEN p.canAuto /\ c.modes \subseteq p.supported
            ELSE c.modes \cap p.supported # {}

ValidAddress == board.requested = AutoAddress \/ board.requested \in Addresses

-----------------------------------------------------------------------------
(* The chip. *)

Chip(a, r) ==
  /\ regs' = [regs EXCEPT ![a] = r]
  /\ UNCHANGED <<board, phy, inputs, access, locals, answer, applied>>

(* It has reset itself, *)
ChipResets(a) == regs[a].resetting /\ Chip(a, Strapped)

(* or begun to negotiate, which clears the bit that asked for it.          *)
ChipRestarts(a) == regs[a].restarting /\ Chip(a, [regs[a] EXCEPT !.restarting = FALSE])

-----------------------------------------------------------------------------
(* Accesses. *)

Finish(result) ==
  /\ access' = "none" /\ answer' = result
  /\ found' = {} /\ bmcr' = NoBmcr /\ anar' = {}
  /\ UNCHANGED <<board, inputs>>

(* Whatever stops start() leaves the object unusable. *)
StopWith(result) ==
  /\ Finish(result)
  /\ phy' = IF op = "start" THEN [phy EXCEPT !.status = result, !.address = 0] ELSE phy
  /\ UNCHANGED applied

GoOn(next) == access' = next /\ UNCHANGED <<board, inputs, answer, applied>>

Reading(s) == access = s /\ UNCHANGED regs

Read(s, next) == Reading(s) /\ GoOn(next) /\ UNCHANGED <<phy, locals>>

ReadFails ==
  /\ access \in {"id1", "id2", "phyrcr", "poll", "phycr", "cr1", "bmsr", "bmcr", "anar",
               "misr1", "misr2", "physcr", "renegotiate"}
  /\ Reading(access)
  /\ StopWith("ReadError")

Register == regs[phy.address]

(* failAfterWrite(): nobody knows what the chip does now. *)
Write(s, r, next) ==
  /\ access = s
  /\ \/ /\ regs' = [regs EXCEPT ![phy.address] = r]
        /\ GoOn(next) /\ UNCHANGED <<phy, locals>>
     \/ /\ regs' \in {regs, [regs EXCEPT ![phy.address] = r]}
        /\ Finish("WriteError")
        /\ phy' = [phy EXCEPT !.status = "WriteError", !.address = 0]
        /\ UNCHANGED applied

-----------------------------------------------------------------------------
(* start() *)

Begin(name, c) == access = "none" /\ op' = name /\ config' = c

StartRefused(c) ==
  /\ ~(ValidAddress /\ ValidConfig(c) /\ board.pinsOk)
  /\ Begin("start", c)
  /\ answer' = "InvalidArgument"
  /\ phy' = [NoPhy EXCEPT !.status = "InvalidArgument"]
  /\ UNCHANGED <<board, regs, access, locals, applied>>

(* The pin resets the chip at once, and there is time for it. *)
StartBegins(c) ==
  /\ ValidAddress /\ ValidConfig(c) /\ board.pinsOk
  /\ Begin("start", c)
  /\ access' = "id1"
  /\ phy' = [NoPhy EXCEPT !.address = IF board.requested = AutoAddress THEN 0 ELSE board.requested]
  /\ regs' = IF board.resetPin THEN [a \in Addresses |-> Strapped] ELSE regs
  /\ UNCHANGED <<board, locals, answer, applied>>

(* probeAddress() and selectAddress() *)
ReadId1 == Read("id1", "id2")

Matches == found \cup ({phy.address} \cap board.dps)

Selected(a) ==
  /\ phy' = [phy EXCEPT !.address = a]
  /\ GoOn(IF board.resetPin THEN "phycr" ELSE "phyrcr")
  /\ found' = {} /\ UNCHANGED <<bmcr, anar>>

ReadId2 ==
  /\ Reading("id2")
  /\ \/ Cardinality(Matches) > 1 /\ StopWith("AmbiguousAddress")
     \/ /\ Cardinality(Matches) <= 1 /\ board.requested = AutoAddress /\ phy.address < MaxAddress
        /\ GoOn("id1") /\ found' = Matches
        /\ phy' = [phy EXCEPT !.address = phy.address + 1]
        /\ UNCHANGED <<bmcr, anar>>
     \/ /\ Cardinality(Matches) <= 1
        /\ board.requested = AutoAddress => phy.address = MaxAddress
        /\ IF Matches = {} THEN StopWith("NotFound") ELSE \E a \in Matches : Selected(a)

(* softReset() *)
ReadPhyrcr  == Read("phyrcr", "reset")
WriteReset  == Write("reset", [Register EXCEPT !.resetting = TRUE], "poll")

PollReset ==
  /\ Reading("poll")
  /\ \/ ~Register.resetting /\ GoOn("phycr") /\ UNCHANGED <<phy, locals>>
     \/ Register.resetting /\ GoOn("poll") /\ UNCHANGED <<phy, locals>>
     \/ Register.resetting /\ StopWith("ResetTimeout")

(* configureAutoMdix() *)
ReadPhycr  == Read("phycr", "mdix")
WriteMdix  == Write("mdix", [Register EXCEPT !.mdix = @ \cup {"auto"}], "cr1")
ReadCr1    == Read("cr1", "robust")
WriteRobust == Write("robust", [Register EXCEPT !.mdix = @ \cup {"robust"}], "bmsr")

(* readAndCacheCapabilities(), then validateConfigSupport() *)
ReadBmsr ==
  /\ Reading("bmsr")
  /\ LET known == [phy EXCEPT !.supported = board.modes,
                              !.canAuto = board.modes # {} /\ board.canAuto]
     IN  IF Supports(known, config)
           THEN phy' = known /\ GoOn("bmcr") /\ UNCHANGED locals
           ELSE /\ phy' = [known EXCEPT !.status = "Unsupported", !.address = 0]
                /\ Finish("Unsupported") /\ UNCHANGED applied

-----------------------------------------------------------------------------
(* applyConfig(), from both operations *)

Applied == IF op = "start" /\ board.intPin THEN "misr1" ELSE "done"

ReadBmcr ==
  /\ Reading("bmcr")
  /\ GoOn("anar") /\ bmcr' = Bmcr(Register)
  /\ UNCHANGED <<phy, found, anar>>

Forced == [auto |-> FALSE, mode |-> config.modes, restarting |-> FALSE]

(* Nothing is written that is so already.                                  *)
ReadAnar ==
  /\ Reading("anar")
  /\ anar' = Register.anar
  /\ \/ ~config.auto /\ GoOn(IF bmcr = Forced THEN Applied ELSE "force")
     \/ config.auto /\ Register.anar # config.modes /\ GoOn("advertise")
     \/ /\ config.auto /\ Register.anar = config.modes
        /\ GoOn(IF bmcr.auto THEN Applied ELSE "negotiate")
  /\ UNCHANGED <<phy, found, bmcr>>

WithBmcr(r, b) ==
  [r EXCEPT !.auto = b.auto, !.mode = b.mode, !.restarting = b.restarting,
            !.negotiated = IF b.restarting THEN r.anar ELSE r.negotiated]

WriteForced == Write("force", WithBmcr(Register, Forced), Applied)

(* The fault NotRestarted: the chip goes on with what it negotiated.       *)
NotRestarted == Write("advertise", [Register EXCEPT !.anar = config.modes],
                      IF bmcr.auto THEN Applied ELSE "negotiate")

WriteAdvertisement == Write("advertise", [Register EXCEPT !.anar = config.modes], "negotiate")

WriteNegotiate ==
  Write("negotiate", WithBmcr(Register, [bmcr EXCEPT !.auto = TRUE, !.restarting = TRUE]), Applied)

-----------------------------------------------------------------------------
(* configureInterrupt() *)

ReadMisr1  == Read("misr1", "misr2")
ReadMisr2  == Read("misr2", "noevents")
WriteMisr2 == Write("noevents", Register, "events")
WriteMisr1 == Write("events", [Register EXCEPT !.events = "link"], "physcr")
ReadPhyscr == Read("physcr", "output")
WritePhyscr == Write("output", [Register EXCEPT !.output = TRUE], "done")

(* The operation is over: start() says so and registers its interrupt.     *)
Done ==
  /\ access = "done"
  /\ Finish("Ok")
  /\ phy' = IF op = "start" THEN [phy EXCEPT !.status = "Ok", !.registered = board.intPin] ELSE phy
  /\ applied' = {config}
  /\ UNCHANGED regs

-----------------------------------------------------------------------------
(* configureLink() and restartAutoNegotiation() *)

Refusal(c) ==
  IF phy.status # "Ok" THEN "NotInitialized"
  ELSE IF ~ValidConfig(c) THEN "InvalidArgument"
  ELSE IF ~Supports(phy, c) THEN "Unsupported" ELSE "none"

ConfigureLink(c) ==
  /\ Begin("configure", c)
  /\ \/ Refusal(c) # "none" /\ answer' = Refusal(c) /\ UNCHANGED access
     \/ Refusal(c) = "none" /\ access' = "bmcr" /\ UNCHANGED answer
  /\ UNCHANGED <<board, regs, phy, locals, applied>>

RestartAutoNegotiation ==
  /\ Begin("restart", config)
  /\ \/ phy.status # "Ok" /\ answer' = "NotInitialized" /\ UNCHANGED access
     \/ phy.status = "Ok" /\ access' = "renegotiate" /\ UNCHANGED answer
  /\ UNCHANGED <<board, regs, phy, locals, applied>>

ReadForRestart ==
  /\ Reading("renegotiate")
  /\ \/ ~Register.auto /\ StopWith("Unsupported")
     \/ /\ Register.auto /\ GoOn("restart") /\ bmcr' = Bmcr(Register)
        /\ UNCHANGED <<phy, found, anar>>

WriteRestart == Write("restart", WithBmcr(Register, [bmcr EXCEPT !.restarting = TRUE]), "restarted")

Restarted ==
  /\ access = "restarted"
  /\ Finish("Ok")
  /\ UNCHANGED <<regs, phy, applied>>

-----------------------------------------------------------------------------
SetupNext ==
  \/ \E a \in Addresses : ChipResets(a) \/ ChipRestarts(a)
  \/ \E c \in LinkConfigs : StartRefused(c) \/ StartBegins(c) \/ ConfigureLink(c)
  \/ ReadFails \/ ReadId1 \/ ReadId2
  \/ ReadPhyrcr \/ WriteReset \/ PollReset
  \/ ReadPhycr \/ WriteMdix \/ ReadCr1 \/ WriteRobust
  \/ ReadBmsr \/ ReadBmcr \/ ReadAnar \/ WriteForced \/ WriteAdvertisement \/ WriteNegotiate
  \/ ReadMisr1 \/ ReadMisr2 \/ WriteMisr2 \/ WriteMisr1 \/ ReadPhyscr \/ WritePhyscr \/ Done
  \/ RestartAutoNegotiation \/ ReadForRestart \/ WriteRestart \/ Restarted

SetupSpec == SetupInit /\ [][SetupNext]_setupVars

-----------------------------------------------------------------------------
SetupTypeOK ==
  /\ board \in Boards /\ config \in LinkConfigs /\ applied \subseteq LinkConfigs
  /\ op \in {"none", "start", "configure", "restart"}
  /\ phy.address \in Addresses /\ found \subseteq Addresses /\ anar \subseteq Modes

PhyReady == access = "none" /\ phy.status = "Ok"

(* After any history of failed accesses, time-outs and restarts, an object *)
(* that is ready drives the one DP83822 there is, and the chip does what   *)
(* the latest successful call asked for: it negotiates with the modes it   *)
(* advertises, or keeps the forced mode with no restart left in its        *)
(* register; the cable may be crossed and the events reach the pin.  No    *)
(* other chip on the bus is ever written to.                               *)
AsConfigured ==
  /\ \A a \in Addresses \ board.dps : regs[a] = Strapped
  /\ PhyReady => \E c \in applied :
      /\ IF board.requested = AutoAddress THEN board.dps = {phy.address}
                                     ELSE phy.address = board.requested /\ phy.address \in board.dps
      /\ Register.mdix = {"auto", "robust"} /\ ~Register.resetting
      /\ phy.registered = board.intPin
      /\ board.intPin => Register.events = "link" /\ Register.output
      /\ IF c.auto
           THEN Register.auto /\ Register.anar = c.modes /\ Register.negotiated = c.modes
           ELSE Bmcr(Register) = [auto |-> FALSE, mode |-> c.modes, restarting |-> FALSE]
=============================================================================
