-------------------------- MODULE CommandService --------------------------
(***************************************************************************)
(* What a caller of comm::send_cmd expects of the command path: commands    *)
(* are executed one at a time; a call that succeeds has had its own command *)
(* executed exactly once before it returns; a call that fails has had no    *)
(* effect.                                                                  *)
(***************************************************************************)
CONSTANT Clients
VARIABLE phase

Init == phase = [c \in Clients |-> "idle"]

Ask(c) == /\ phase[c] = "idle"
          /\ phase' = [phase EXCEPT ![c] = "asked"]

\* The agent executes c's command; nobody else has one executed and not yet
\* returned.
Execute(c) == /\ phase[c] = "asked"
              /\ \A d \in Clients : phase[d] # "executed"
              /\ phase' = [phase EXCEPT ![c] = "executed"]

Return(c) == /\ phase[c] = "executed"
             /\ phase' = [phase EXCEPT ![c] = "idle"]

Fail(c) == /\ phase[c] = "asked"
           /\ phase' = [phase EXCEPT ![c] = "idle"]

Next == \E c \in Clients : Ask(c) \/ Execute(c) \/ Return(c) \/ Fail(c)

Spec == Init /\ [][Next]_phase
=============================================================================
