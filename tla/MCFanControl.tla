---------------------------- MODULE MCFanControl ----------------------------
(* FanControl with two fans, three configurations and small temperatures; -1  *)
(* is the frost that reads 255.                                               *)
EXTENDS FanControl
Auto   == [mode |-> "auto",   on |-> {},  low |-> <<1, 2>>, high |-> <<3, 3>>]
Cooler == [mode |-> "auto",   on |-> {},  low |-> <<1, 1>>, high |-> <<2, 2>>]
Manual == [mode |-> "manual", on |-> {1}, low |-> <<1, 2>>, high |-> <<3, 3>>]
Degrees == {-1, 1, 2, 3}
AllConfigs == {Auto, Cooler, Manual}
TwoConfigs == {Auto, Manual}
=============================================================================
