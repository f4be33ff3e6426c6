----------------------------- MODULE MCScanLoop -----------------------------
(* ScanLoop on up to four keys and two slots, the smallest report that can be     *)
(* full.  Key 2 sits on the right half of a Niphargus.                       *)
EXTENDS ScanLoop

MCNone    == {}
MCPlain   == {1, 3}
MCThree   == {1, 2, 3}
MCRight   == {2}
MCMod     == {7}
MCTap     == {9}
=============================================================================
