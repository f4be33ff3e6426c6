----------------------------- MODULE MCHidPath -----------------------------
(* HidPath on a keyboard with one key, released or pressed; the press may    *)
(* also be played by a tap.                                                  *)
EXTENDS HidPath

CONSTANTS r0, r1
MCReport == {r0, r1}
MCNoKeys == [r \in MCReport |-> r0]
MCTaps   == {r1}
=============================================================================
