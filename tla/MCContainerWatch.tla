---- MODULE MCContainerWatch ----
EXTENDS ContainerWatch, TLC
OneProject(c) == CHOOSE p \in Projects : TRUE
Symmetry == Permutations(Containers) \cup Permutations(Snapshotters)
====
