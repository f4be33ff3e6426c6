----------------------------- MODULE MCRfLink ------------------------------
(* RfLink with one modifier and one key.  A key is pressed and released     *)
(* with its modifier, so a half-written report is neither of the two.       *)
EXTENDS RfLink

CONSTANTS m0, m1, k0, k1
MCMods   == {m0, m1}
MCKeys   == {k0, k1}
MCReport == {<<m0, k0>>, <<m1, k1>>}
MCEnvironments == {{"mouse"}, {"cable"}, {"pairing", "suspend", "deaf"}}
MCDeaf   == {"kbd"}
=============================================================================
