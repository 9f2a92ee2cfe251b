---------------------------- MODULE MCRadioLoop -----------------------------
(***************************************************************************)
(* The radio loop with short timers: an interval of a few ticks, a beacon  *)
(* period that is no multiple of it, and few commands of a few kinds.      *)
(***************************************************************************)
EXTENDS RadioLoop

CommandOps == {"SendText", "SetTxDest", "SetMode", "SetName", "SetSf", "SetUhdEnabled"}
TextOps == {"SendText", "SetTxDest", "SetMode"}
TimerOps == {"SetIntervalMs", "SetAutoTx", "SetMode", "SetRunning", "SetUhdEnabled", "SendText"}
=============================================================================
