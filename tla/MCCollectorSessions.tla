---- MODULE MCCollectorSessions ----
EXTENDS CollectorSessions, TLC
Symmetry == Permutations(Collectors)
====
