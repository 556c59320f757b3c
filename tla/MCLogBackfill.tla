---- MODULE MCLogBackfill ----
EXTENDS LogBackfill, TLC
Symmetry == Permutations(Requests)
Sharp == {0}
Skewed == {-1, 0, 2}
Ahead == {0, 5}
====
