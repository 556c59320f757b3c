---- MODULE MCProjectRegistry ----
EXTENDS ProjectRegistry, TLC
\* dev holds web and api; api holds another web, and one the root may hide.
CONSTANTS dev, web, api, apiWeb, d1, d3, mine
Tree == (dev :> NoDir) @@ (web :> dev) @@ (api :> dev) @@ (apiWeb :> api)
Names == (api :> 1) @@ (dev :> 2) @@ (web :> 3) @@ (apiWeb :> 3)
Defaults == (1 :> d1) @@ (2 :> d1) @@ (3 :> d3)
\* The default domains of api and dev are the same, as of my-app and my_app.
Bare == dev :> {}
Matches == [r \in Dirs |-> Below[r]]
Put == {{"go"}, {"docker", "broken"}, {"docker"}}
Symmetry == Permutations(Terminals)
====
