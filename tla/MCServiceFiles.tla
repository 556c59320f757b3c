---- MODULE MCServiceFiles ----
EXTENDS ServiceFiles, TLC
Provisioned == <<"rules", "slack">>
Symmetry == Permutations(Terminals)
====
