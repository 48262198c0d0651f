---------------------------- MODULE MCCollector -----------------------------
EXTENDS Collector, TLC
CONSTANTS a, b, t1, t2, s1, s2
MCArrays  == {a, b}
MCThreads == {t1, t2}
MCStacks  == {s1, s2}
MCStackOf(t) == IF t = t1 THEN s1 ELSE s2
Symmetry  == Permutations(MCArrays)
=============================================================================
