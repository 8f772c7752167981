------------------------------- MODULE Controllers -------------------------------
(***************************************************************************)
(* libs/control: a PIDMotor, PD or MITPD, which a task calls with a target *)
(* and what was measured, and whose configuration changes between calls.   *)
(* Numbers are integers: the rounding of floats is not modelled.           *)
(***************************************************************************)
EXTENDS Integers

CONSTANTS
  Inputs,   \* targets, measurements and feed-forward values
  Gains,
  Limits    \* abs_output_max

ASSUME ControlAssumption ==
  Inputs \subseteq Int /\ Gains \subseteq Int /\ Limits \subseteq Nat

VARIABLES
  kind,      \* which controller the object is
  cfg,       \* cfg_
  prevError, \* prev_error_
  integral,  \* integral_
  output,    \* output_
  limit      \* ghost: the limit in force at the latest calc()

controlVars == <<kind, cfg, prevError, integral, output, limit>>

Configs == [Kp : Gains, Ki : Gains, Kd : Gains, max : Limits]

ControlInit ==
  /\ kind \in {"PIDMotor", "PD", "MITPD"} /\ cfg \in Configs
  /\ prevError = 0 /\ integral = 0 /\ output = 0 /\ limit = 0

Clamp(x, max) == IF x > max THEN max ELSE IF x < -max THEN -max ELSE x

Abs(x) == IF x < 0 THEN -x ELSE x

Put(k, o) ==
  /\ kind = k
  /\ output' = o /\ limit' = cfg.max
  /\ UNCHANGED <<kind, cfg>>

Main(error, ff) == Clamp(cfg.Kp * error + cfg.Kd * (error - prevError) + ff, cfg.max)

(* The fault FullIntegral: the integral may take all of the output.        *)
FullIntegral(error, ff) == Clamp(integral + cfg.Ki * error, cfg.max)

(* PIDMotor's integral gets what the other terms leave of the output.      *)
Integral(error, ff) == Clamp(integral + cfg.Ki * error, cfg.max - Abs(Main(error, ff)))

PidCalc(error, ff) ==
  /\ Put("PIDMotor", Main(error, ff) + Integral(error, ff))
  /\ integral' = Integral(error, ff) /\ prevError' = error

PdCalc(error) ==
  /\ Put("PD", Main(error, 0))
  /\ prevError' = error
  /\ UNCHANGED integral

MitCalc(position, velocity, ff) ==
  /\ Put("MITPD", Clamp(ff + cfg.Kp * position + cfg.Kd * velocity, cfg.max))
  /\ UNCHANGED <<prevError, integral>>

(* setConfig() and setOutputMax() leave the state alone. *)
SetConfig(c) == cfg' = c /\ UNCHANGED <<kind, prevError, integral, output, limit>>

Reset ==
  /\ prevError' = 0 /\ integral' = 0 /\ output' = 0
  /\ UNCHANGED <<kind, cfg, limit>>

Errors == {x - y : x, y \in Inputs}

ControlNext ==
  \/ \E e \in Errors, ff \in Inputs : PidCalc(e, ff)
  \/ \E e \in Errors : PdCalc(e)
  \/ \E e, v \in Errors, ff \in Inputs : MitCalc(e, v, ff)
  \/ \E c \in Configs : SetConfig(c)
  \/ Reset

ControlSpec == ControlInit /\ [][ControlNext]_controlVars

(* Whatever was integrated, configured and reset before, no output exceeds *)
(* the limit in force when it was computed, and what PIDMotor integrates   *)
(* never does: it holds no more than it may give.                          *)
OutputBounded == Abs(output) <= limit /\ Abs(integral) <= limit
=============================================================================
