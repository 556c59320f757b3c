-------------------------- MODULE MCObserveAttach --------------------------
EXTENDS ObserveAttach, TLC
CONSTANTS infra_web, infra_net, aang, web, app, queue

(* The project of docs/observe.md:86: the proxy reaches one service, two    *)
(* others use the shared services, all are on the private network.          *)
Measured ==
    aang :> (web :> {aang, infra_web}
             @@ app :> {aang, infra_net}
             @@ queue :> {aang, infra_net})

(* The same with one service of each kind.                                  *)
OneOfEach == aang :> (web :> {aang, infra_web} @@ app :> {aang, infra_net})

(* Some gateway may be passed as --addr, as cli/observe.go:1220 advises.    *)
Symmetry == Permutations(Gateways \ GivenAddrs)
=============================================================================
