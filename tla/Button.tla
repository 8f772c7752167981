--------------------------------- MODULE Button ---------------------------------
(***************************************************************************)
(* bsp/button over bsp/gpio_driver: an EXTI interrupt only counts, a task  *)
(* samples and debounces in update().  The level, the interrupt and the    *)
(* clock move between the snapshot of the count, the reading of the pin    *)
(* and the reading of the clock.  The object registers with the EXTI table *)
(* two fields at a time, and is destroyed and built again.                 *)
(***************************************************************************)
EXTENDS Naturals

CONSTANTS
  StableMs,   \* stable_ms_
  TickModulus, CountModulus,  \* both 2^32 in the code
  MaxGap      \* ms between two updates; updates also take less notifications than CountModulus

ASSUME ButtonAssumption == StableMs \in Nat /\ TickModulus \in Nat \ {0} /\ CountModulus \in Nat \ {0}

VARIABLES
  both,         \* EXTI fires on both edges, or when the button goes down only
  level,        \* the button is down
  pending,      \* an EXTI interrupt to be served
  tick,         \* HAL_GetTick()
  slot,         \* the line's entry in the EXTI table: which fields are set
  lifetime,     \* where construction or destruction stands
  notification, \* notification_
  button,       \* the fields only the task uses
  updating,     \* where update() is
  sample,       \* the level it read
  gap,          \* ms since the latest update
  held          \* ghost: ms since the first of the latest samples that agree, up to StableMs

buttonVars ==
  <<both, level, pending, tick, slot, lifetime, notification, button, updating, sample, gap, held>>

NewButton ==
  [observed |-> 0, changedAt |-> 0, sampling |-> TRUE, candidate |-> FALSE, stable |-> FALSE]

ButtonInit ==
  /\ both \in BOOLEAN /\ level \in BOOLEAN /\ pending = FALSE /\ tick = 0
  /\ slot = {} /\ lifetime = "unborn" /\ notification = 0 /\ button = NewButton
  /\ updating = "idle" /\ sample = FALSE /\ gap = 0 /\ held = 0

-----------------------------------------------------------------------------
(* The pin, the clock and the interrupt. *)

Unread == (notification + CountModulus - button.observed) % CountModulus

LevelChanges ==
  /\ level' = ~level
  /\ Unread + 2 < CountModulus
  /\ pending' = (pending \/ both \/ ~level)
  /\ UNCHANGED <<both, tick, slot, lifetime, notification, button, updating, sample, gap, held>>

Tick ==
  /\ gap < MaxGap
  /\ tick' = (tick + 1) % TickModulus
  /\ gap' = IF lifetime = "alive" THEN gap + 1 ELSE 0
  /\ held' = IF held < StableMs THEN held + 1 ELSE held
  /\ UNCHANGED <<both, level, pending, slot, lifetime, notification, button, updating, sample>>

(* DispatchExtiInterrupt() and on_exti() *)
Dispatch ==
  /\ pending /\ pending' = FALSE
  /\ notification' = IF slot = {"gpio", "callback"} THEN (notification + 1) % CountModulus
                                                    ELSE notification
  /\ UNCHANGED <<both, level, tick, slot, lifetime, button, updating, sample, gap, held>>

-----------------------------------------------------------------------------
(* The constructor and the destructor. *)

Life(from, to, s) ==
  /\ lifetime = from /\ lifetime' = to
  /\ updating = "idle" /\ slot' = s
  /\ UNCHANGED <<both, level, pending, tick, updating, sample>>

ConstructButton ==
  /\ Life("unborn", "registering", {"gpio"})
  /\ button' = NewButton /\ notification' = 0 /\ held' = 0 /\ gap' = 0

Constructed ==
  /\ Life("registering", "alive", {"gpio", "callback"})
  /\ UNCHANGED <<button, notification, held, gap>>

Destroy ==
  /\ Life("alive", "unregistering", {"callback"})
  /\ UNCHANGED <<button, notification, held, gap>>

Destroyed ==
  /\ Life("unregistering", "unborn", {})
  /\ UNCHANGED <<button, notification, held, gap>>

-----------------------------------------------------------------------------
(* update() *)

Update(from, to) ==
  /\ updating = from /\ updating' = to
  /\ UNCHANGED <<both, level, pending, tick, slot, lifetime, notification>>

Notified == notification # button.observed

(* The snapshot of the count. *)
Snapshot ==
  /\ lifetime = "alive"
  /\ Update("idle", IF button.sampling \/ Notified THEN "read" ELSE "idle")
  /\ button' = [button EXCEPT !.observed = notification, !.sampling = @ \/ Notified]
  /\ gap' = 0
  /\ UNCHANGED <<sample, held>>

ReadPin ==
  /\ Update("read", "decide")
  /\ sample' = level
  /\ UNCHANGED <<button, gap, held>>

Elapsed == (tick + TickModulus - button.changedAt) % TickModulus

Decide(b, h) ==
  /\ Update("decide", "idle")
  /\ button' = b /\ held' = h
  /\ sample' = FALSE
  /\ UNCHANGED gap

Changed == sample # button.candidate

(* The fault TimeKept: a change does not begin the time anew.              *)
TimeKept ==
  /\ Changed
  /\ Decide([button EXCEPT !.candidate = sample], 0)

CandidateChanges ==
  /\ Changed
  /\ Decide([button EXCEPT !.candidate = sample, !.changedAt = tick], 0)

(* Confirmed: released, the button sleeps until the next interrupt.        *)
Confirm ==
  /\ ~Changed /\ sample # button.stable /\ Elapsed >= StableMs
  /\ Decide([button EXCEPT !.stable = sample, !.sampling = sample], held)

(* The fault ObservedLater: the count is read again after the sample.      *)
ObservedLater ==
  /\ ~Changed /\ ~(sample # button.stable /\ Elapsed >= StableMs)
  /\ Decide([button EXCEPT !.sampling = @ /\ (sample \/ button.stable),
                            !.observed = notification], held)

NotYet ==
  /\ ~Changed /\ ~(sample # button.stable /\ Elapsed >= StableMs)
  /\ Decide([button EXCEPT !.sampling = @ /\ (sample \/ button.stable)], held)

ButtonNext ==
  \/ LevelChanges \/ Tick \/ Dispatch
  \/ ConstructButton \/ Constructed \/ Destroy \/ Destroyed
  \/ Snapshot \/ ReadPin \/ CandidateChanges \/ Confirm \/ NotYet

ButtonSpec == ButtonInit /\ [][ButtonNext]_buttonVars

(* Time passes, interrupts are served and the task calls update().         *)
FairButtonSpec ==
  /\ ButtonSpec
  /\ WF_buttonVars(Tick) /\ WF_buttonVars(Dispatch)
  /\ WF_buttonVars(Snapshot) /\ WF_buttonVars(ReadPin)
  /\ WF_buttonVars(CandidateChanges \/ Confirm \/ NotYet)

-----------------------------------------------------------------------------
Steady == updating = "decide" /\ button'.stable # button.stable => held >= StableMs

(* A state is confirmed only when every sample of at least StableMs agreed *)
(* with it, however the clock wraps and the task is delayed.               *)
Debounced == [][Steady]_buttonVars

Stays(down)     == lifetime = "alive" /\ level = down
Confirmed(down) == button.stable = down

(* A button that stays down is confirmed down, one that stays up is        *)
(* confirmed up: no bounce and no interrupt between two readings of        *)
(* update() lets it sleep on a press, not even while it registers, and     *)
(* with only one edge wired too.                                           *)
Settles == \A down \in BOOLEAN : <>[]Stays(down) => <>[]Confirmed(down)
=============================================================================
