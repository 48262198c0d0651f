----------------------------- MODULE MCGraphDefs -----------------------------
(* Definitions that redefine each other's names while synths use them.     *)
EXTENDS GraphDefs

CONSTANTS x, y, s1, s2
MCNames == {x, y}
MCSynths == {s1, s2}
=============================================================================
