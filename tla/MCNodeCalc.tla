----------------------------- MODULE MCNodeCalc -----------------------------
(* Two groups and up to three synths, and sessions of two kinds: two synths *)
(* with everything that can happen, and three that only end one another.    *)
EXTENDS NodeCalc

CONSTANTS g0, g1, s1, s2, s3
MCGroups == {g0, g1}
MCSynths == {s1, s2, s3}
AllActions == 1 .. 14
(* Those that end nodes, but not the enclosing group.                      *)
EndingActions == {2, 3, 4, 5, 6, 7, 8, 11, 12, 13}

Anything == [done |-> AllActions, ctor |-> AllActions, pausing |-> TRUE,
             tracing |-> TRUE, nodes |-> {g0, g1, s1, s2}]
Ending   == [done |-> EndingActions, ctor |-> {}, pausing |-> FALSE,
             tracing |-> FALSE, nodes |-> {g0, g1, s1, s2, s3}]
MCSessions == {Anything, Ending}
(* For the runs that end in a counterexample.                              *)
Pausing == {[done |-> {}, ctor |-> {}, pausing |-> TRUE, tracing |-> FALSE,
             nodes |-> {g0, g1, s1}]}
=============================================================================
