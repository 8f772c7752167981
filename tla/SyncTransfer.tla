---------------------------- MODULE SyncTransfer ----------------------------
(***************************************************************************)
(* What a blocking bus driver promises its owner thread: a call covers at  *)
(* most one transfer, it answers TRUE only for a transfer that ended well, *)
(* and when it returns the hardware no longer touches the caller's buffer, *)
(* unless the driver was built without the means to abort a transfer.      *)
(***************************************************************************)

VARIABLES
  phase,      \* "idle" or "called": is the owner inside a transfer call
  active,     \* the hardware is moving bytes of a transfer
  outcome,    \* how the transfer of the latest call ended: none, ok, error
  reply,      \* what the latest finished call answered: none, true, false
  abortable   \* fixed when the bus is built: a transfer can be aborted

vars == <<phase, active, outcome, reply, abortable>>

Init ==
  /\ phase = "idle"
  /\ active = FALSE
  /\ outcome = "none"
  /\ reply = "none"
  /\ abortable \in BOOLEAN

Refuse ==
  /\ phase = "idle"
  /\ reply' = "false"
  /\ UNCHANGED <<phase, active, outcome, abortable>>

Begin ==
  /\ phase = "idle"
  /\ ~active
  /\ phase' = "called"
  /\ outcome' = "none"
  /\ reply' = "none"
  /\ UNCHANGED <<active, abortable>>

Start ==
  /\ phase = "called"
  /\ ~active
  /\ outcome = "none"
  /\ active' = TRUE
  /\ UNCHANGED <<phase, outcome, reply, abortable>>

End(o) ==
  /\ active
  /\ active' = FALSE
  /\ outcome' = o
  /\ UNCHANGED <<phase, reply, abortable>>

Abort ==
  /\ phase = "called"
  /\ active
  /\ abortable
  /\ active' = FALSE
  /\ UNCHANGED <<phase, outcome, reply, abortable>>

Succeed ==
  /\ phase = "called"
  /\ ~active
  /\ outcome = "ok"
  /\ phase' = "idle"
  /\ reply' = "true"
  /\ UNCHANGED <<active, outcome, abortable>>

Fail ==
  /\ phase = "called"
  /\ active => ~abortable
  /\ phase' = "idle"
  /\ reply' = "false"
  /\ UNCHANGED <<active, outcome, abortable>>

Next ==
  \/ Refuse
  \/ Begin
  \/ Start
  \/ \E o \in {"ok", "error"} : End(o)
  \/ Abort
  \/ Succeed
  \/ Fail

Spec == Init /\ [][Next]_vars
=============================================================================
