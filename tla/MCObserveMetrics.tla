---- MODULE MCObserveMetrics ----
EXTENDS ObserveMetrics, TLC
Symmetry == Permutations(EventIds)
====
