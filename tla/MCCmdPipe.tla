----------------------------- MODULE MCCmdPipe -----------------------------
(* CmdPipe with two or three CGI processes for TLC. *)
EXTENDS CmdPipe, TLC
Symmetry == Permutations(Clients)
=============================================================================
