---------------------------- MODULE MCNodeGraph ----------------------------
EXTENDS NodeGraph
CONSTANTS s1, s2, s3, g0, g1, g2, p1
TwoSynths   == {s1, s2}
ThreeSynths == {s1, s2, s3}
OneGroup    == {g0}
TwoGroups   == {g0, g1}
ThreeGroups == {g0, g1, g2}
OneParGroup == {p1}
Symmetry    == Permutations(ThreeSynths)
=============================================================================
