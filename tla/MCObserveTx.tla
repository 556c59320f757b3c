---- MODULE MCObserveTx ----
EXTENDS ObserveTx, TLC
Symmetry == Permutations(Handlers) \cup Permutations(EventIds)
====
