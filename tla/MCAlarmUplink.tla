--------------------------- MODULE MCAlarmUplink ---------------------------
(* AlarmUplink with short rings and timers. *)
EXTENDS AlarmUplink
=============================================================================
