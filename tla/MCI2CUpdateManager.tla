-------------------------- MODULE MCI2CUpdateManager --------------------------
(***************************************************************************)
(* I2CUpdateManager with two devices: a quick one read at once and a slow  *)
(* one that converts.                                                      *)
(***************************************************************************)
EXTENDS I2CUpdateManager, TLC

CONSTANTS quick, slow

MCDevices    == {quick, slow}
MCPeriod     == quick :> 2 @@ slow :> 4
MCPhase      == quick :> 0 @@ slow :> 1
MCConversion == quick :> 0 @@ slow :> 2
=============================================================================
