--------------------------- MODULE MCRefreshCheck ---------------------------
(* RefreshCheck with two sessions, with ids of their own or with the same. *)
EXTENDS RefreshCheck
OwnIds == [s \in Sessions |-> IF s = 1 THEN 11 ELSE 12]
SameId == [s \in Sessions |-> 11]
=============================================================================
