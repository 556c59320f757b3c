---- MODULE MCObserveStore ----
EXTENDS ObserveStore, TLC
Symmetry == Permutations(EventIds)
WestOfUTC == {0, -2}
====
