--------------------------- MODULE MCKeyFeatures ----------------------------
(* A combo with one entry to defer a key in, a dance that one on the other  *)
(* half may interrupt, and sequences one of which begins another.           *)
EXTENDS KeyFeatures

CONSTANTS a, b, d1, d2, lead, ab
MCPlain     == {a, b}
MCDance     == {d1, d2}
MCLeaderKey == {lead}
MCFar       == {d2}
MCCombos    == <<[keys |-> {a, b}, result |-> ab]>>
MCActions   == [d \in MCDance |-> IF d = d1 THEN {1} ELSE {2}]
MCLeaderSeqs == {<<a>>, <<a, b>>}
=============================================================================
