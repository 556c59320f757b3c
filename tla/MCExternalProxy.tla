---- MODULE MCExternalProxy ----
EXTENDS ExternalProxy, TLC
\* Two projects with compose files in one parked directory.
CONSTANTS dev, web, api, dWeb, dApi, mine, aWeb, aApi, aMine
Tree == (dev :> NoDir) @@ (web :> dev) @@ (api :> dev)
Names == (api :> 1) @@ (dev :> 2) @@ (web :> 3)
Defaults == (1 :> dApi) @@ (2 :> dWeb) @@ (3 :> dWeb)
Matches == [r \in Dirs |-> Below[r]]
Work == (dev :> {}) @@ (web :> {"docker"}) @@ (api :> {"docker"})
Row(n, d) == [id |-> n, name |-> Names[d], path |-> d, framework |-> "docker"]
Registered == {Row(1, api), Row(2, web)}
\* That of dev names a compose file that is not there, that of api a domain.
Manifests == [d \in Dirs |->
    [files |-> {"docker"}, domain |-> IF d = api THEN mine ELSE NoDomain,
     published |-> d # dev]]
Aliased == (dWeb :> aWeb) @@ (dApi :> aApi) @@ (mine :> aMine)
\* A site of the user's own, and one for a domain DevHerd manages.
Own == {Site("user.test", "user:1"), Site(dApi, "user:2")}
====
