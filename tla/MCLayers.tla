----------------------------- MODULE MCLayers -------------------------------
(* Layers on a map of three layers.  Each key moves a layer in its own way  *)
(* and changes its nature with the layer; layer 9 does not exist.           *)
EXTENDS Layers

CONSTANTS shift, ctrl
No       == [kind |-> "no", layer |-> 0, mods |-> {}]
PlainKey == [kind |-> "plain", layer |-> 0, mods |-> {}]
MO(l)    == [kind |-> "mo", layer |-> l, mods |-> {}]
LM(l, m) == [kind |-> "lm", layer |-> l, mods |-> {m}]
TO(l)    == [kind |-> "to", layer |-> l, mods |-> {}]
LT(l)    == [kind |-> "lt", layer |-> l, mods |-> {}]
MT(m)    == [kind |-> "mt", layer |-> 0, mods |-> {m}]

MCKey == 1 .. 4
MCAsked == {2, 3}
MCNone  == {}
MCMod == {shift, ctrl}
MCKeyMap ==
  [l \in 0 .. 2 |->
     CASE l = 0 -> <<MO(1), LT(2), LT(1), PlainKey>>
       [] l = 1 -> <<No, TO(2), MT(shift), No>>
       [] l = 2 -> <<LM(1, ctrl), LT(9), TO(2), No>>]
=============================================================================
