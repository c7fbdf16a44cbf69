--------------------------- MODULE MCCardSettings ---------------------------
(* Small instances of CardSettings for TLC. *)
EXTENDS CardSettings

TwoPorts == << "p1", "p2" >>
TwoValues == { <<0, 1>>, <<1, 0>> }
MCFresh == <<1, 0>>
=============================================================================
