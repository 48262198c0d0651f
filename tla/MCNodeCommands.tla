--------------------------- MODULE MCNodeCommands ---------------------------
(* Three groups, the root among them, and two synths: enough for a group   *)
(* with three children, for groups in groups and for a subtree of three.   *)
EXTENDS NodeCommands

CONSTANTS g0, g1, g2, s1, s2
MCGroups == {g0, g1, g2}
MCSynths == {s1, s2}
=============================================================================
