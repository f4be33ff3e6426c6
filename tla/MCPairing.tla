----------------------------- MODULE MCPairing ------------------------------
(* A keyboard whose board names no slot (V2D, 0x03) and a mouse (0x02).     *)
EXTENDS Pairing, TLC

CONSTANTS v2d, mouse
MCBoth     == {v2d, mouse}
MCDeclares == [d \in Device |-> IF d = v2d THEN 3 ELSE 2]
MCAdverse  == {"refuse", "crash"}
=============================================================================
