----------------------------- MODULE MCCardMgmt -----------------------------
(* Model-checking instances of CardMgmt: slots 1, 2 (and 3), the last of them
   the agent's own, probed as the Gigabit switch. *)
EXTENDS CardMgmt
=============================================================================
