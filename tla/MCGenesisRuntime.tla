-------------------------- MODULE MCGenesisRuntime --------------------------
EXTENDS GenesisRuntime, TLC

CONSTANTS s1, s2, c1, c2, w1, w2

MCSessions == {s1, s2}
MCCallers == {c1, c2}
MCWorkers == {w1, w2}
MCBudgets == {<<5, 0, 0>>, <<0, 4, 1>>, <<1, 2, 0>>, <<2, 1, 1>>}
MCSymmetry == Permutations(MCSessions) \cup Permutations(MCCallers) \cup Permutations(MCWorkers)
=============================================================================
