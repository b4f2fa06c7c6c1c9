---------------------------- MODULE MCHolderScan ----------------------------
EXTENDS HolderScan

CONSTANTS w1, w2, w3, w4, w5, c1, c2

MCSymmetry == Permutations(Wallets) \cup Permutations(Callers)

\* One scan of a list that moves three times, or three calls while the caches
\* grow old.
MCScenarios == {[moves |-> 3, ticks |-> 0, calls |-> 1],
                [moves |-> 0, ticks |-> 5, calls |-> 3]}
=============================================================================
