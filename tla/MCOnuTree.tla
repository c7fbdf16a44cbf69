----------------------------- MODULE MCOnuTree -----------------------------
(* Instances of OnuTree for TLC: two ONUs, dark, in a ring, alone, on either   *)
(* side of a break, and in rings that are open in one direction.               *)
EXTENDS OnuTree

Both == Onus
MCLayouts == {<<{}, {}>>, <<Both, Both>>, <<{1}, {1}>>, <<{1}, {2}>>, <<Both, {1}>>, <<{2}, Both>>}
MCStart == {<<{1}, {1}>>}

\* One ONU that is there, on one fibre only, or not there.
OneLayouts == {<<{}, {}>>, <<{1}, {1}>>, <<{1}, {}>>}
=============================================================================
