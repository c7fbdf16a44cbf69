----------------------------- MODULE MCIniFile -----------------------------
(* IniFile with a page that sets a key twice over, one that sets all keys,  *)
(* and one that only reads.                                                 *)
EXTENDS IniFile

MCKeys      == {"a"}
MCInstalled == [k \in MCKeys |-> 0]
MCRequests  == {Get, SetAtOnce(0), SetKeyByKey(<<"a", "a">>, 1)}
=============================================================================
