--------------------------- MODULE ObserveAttach ---------------------------
(* How the containers of a project find the Observe collector.              *)
(*                                                                          *)
(* `observe attach` writes an address into the compose override of a        *)
(* project; `observe start`, or the systemd unit, makes a collector listen; *)
(* `observe firewall --apply` lets a network through; `observe status`      *)
(* tells the user whether it works. Each command looks at Docker on its own *)
(* and at its own time, while projects go up and down and Docker gives      *)
(* networks their addresses. Whether an event arrives depends on all of     *)
(* them.                                                                    *)
(*                                                                          *)
(* A network is its name; its subnet is identified with the address of its  *)
(* gateway, as Docker allocates them together. The private network of a     *)
(* project carries the name of the project. Ports are left out: every       *)
(* address uses the same one.                                               *)
EXTENDS Naturals, FiniteSets

CONSTANTS Projects,        \* the projects, and the names of their networks
          Services,
          ComposeNetworks, \* [Projects -> [Services -> networks]]: the
                           \* compose file; no networks, no such service
          ProxyNetwork,    \* proxy.external_network of the configuration
          DefaultNetwork, SharedServicesNetwork,
          Gateways,        \* the addresses Docker has for gateways
          Loopback, AnyHost,
          GivenAddrs,      \* what users pass as --addr
          NotGiven, None

(* The networks DevHerd manages, in order of preference. The code drops a   *)
(* name that comes again; here its first place is the one that counts.      *)
SharedNetworkNames == <<ProxyNetwork, DefaultNetwork, SharedServicesNetwork>>

Addrs    == GivenAddrs \cup {NotGiven}
Shared   == {SharedNetworkNames[i] : i \in 1 .. 3}
Networks == Shared \cup Projects
Owners   == {"terminal", "daemon"}

ASSUME AttachConstants ==
    /\ IsFiniteSet(Services)
    /\ Shared \cap Projects = {}
    /\ ComposeNetworks \in [Projects -> [Services -> SUBSET Networks]]
    /\ {Loopback, AnyHost} \cap Gateways = {}
    /\ NotGiven \notin GivenAddrs

VARIABLES
    gateway,    \* [Networks -> Gateways or None]: Docker's networks
    override,   \* [Projects -> None or the file .devherd.observe.override.yml]
    up,         \* [Projects -> None or what its running containers carry]
    collectors, \* [Owners -> None or a process that listens]
    unit,       \* None or the --addr in the systemd unit file
    rules,      \* the gateways that `ufw allow` lets their subnet reach
    ufw         \* whether the host filters at all

vars == <<gateway, override, up, collectors, unit, rules, ufw>>

(***************************************************************************)
(* What a command sees of Docker.                                          *)
(***************************************************************************)

Exists(n) == gateway[n] # None

(* The services of p whose running containers carry its label. The label    *)
(* comes from the override that was in force at the last `up`.              *)
Labelled(p) == IF up[p] = None THEN {} ELSE up[p].services

(* For each network, how many containers of these services of p are on it.  *)
ProjectNetworkCoverage(p, services) ==
    [n \in Networks |-> Cardinality({s \in services : n \in ComposeNetworks[p][s]})]

ObservedNetworks ==
    UNION {UNION {ComposeNetworks[p][s] : s \in Labelled(p)} : p \in Projects}

(* Mutant: a network that cannot be inspected stays in the plan.            *)
PlanNetworksUnseen == Shared \cup ObservedNetworks

(* The networks of a plan: those that can be inspected.                     *)
PlanNetworks == {n \in Shared \cup ObservedNetworks : Exists(n)}

Earliest(names) ==
    SharedNetworkNames[CHOOSE i \in 1 .. 3 :
        /\ SharedNetworkNames[i] \in names
        /\ \A j \in 1 .. i - 1 : SharedNetworkNames[j] \notin names]

(* Networks[0]: the first shared network that exists, or else whichever     *)
(* network `docker ps` happens to bring first.                              *)
FirstNetworks ==
    LET shared == {n \in Shared : Exists(n)}
    IN IF shared # {} THEN {Earliest(shared)} ELSE PlanNetworks

(* Mutant: the network with most containers, whoever manages it.            *)
SelectByCoverage(coverage) ==
    CHOOSE n \in Networks : \A m \in Networks : coverage[m] <= coverage[n]

(* The networks of S that cover most, if any covers something.              *)
Best(coverage, S) ==
    {n \in S : coverage[n] > 0 /\ \A m \in S : coverage[m] <= coverage[n]}

(* The shared network that covers most, the earlier one of equals; another  *)
(* network only when no shared one covers anything. The code breaks ties    *)
(* among those by name: one fixed choice.                                   *)
SelectProjectNetwork(coverage) ==
    IF Best(coverage, Shared) # {} THEN Earliest(Best(coverage, Shared))
                                   ELSE CHOOSE n \in Best(coverage, Networks) : TRUE

(* The network of the DSN for a project, as selectMatch finds it.           *)
Matches(p) ==
    CASE PlanNetworks = {} -> {}
      [] PlanNetworks # {} /\ Labelled(p) = {} -> FirstNetworks
      [] OTHER -> {SelectProjectNetwork(ProjectNetworkCoverage(p, Labelled(p)))}

(* The addresses the plan may put into a DSN. --addr wins; without any      *)
(* network it is the default address, the loopback.                         *)
DSNs(p, given) ==
    CASE given # NotGiven -> {given}
      [] given = NotGiven /\ Matches(p) = {} -> {Loopback}
      [] OTHER -> {gateway[n] : n \in Matches(p)}

(* Mutant: the gateway of the network that the DSN would use, and no other. *)
ExtraBindsOfMatch(given) ==
    IF given # NotGiven THEN {} ELSE {gateway[n] : n \in FirstNetworks}

(* The addresses a plan adds to the first one for the collector.            *)
ExtraBinds(given) ==
    IF given # NotGiven THEN {} ELSE {gateway[n] : n \in PlanNetworks}

(***************************************************************************)
(* Docker, by way of the commands of DevHerd.                              *)
(***************************************************************************)

FreeGateways == Gateways \ {gateway[n] : n \in Networks}

NetworksOf(p) == UNION {ComposeNetworks[p][s] : s \in Services}

(* `proxy bootstrap` and `service start` create the shared networks; no     *)
(* command removes one.                                                     *)
CreateShared(n) ==
    /\ ~Exists(n)
    /\ \E g \in FreeGateways : gateway' = [gateway EXCEPT ![n] = g]
    /\ UNCHANGED <<override, up, collectors, unit, rules, ufw>>

(* What `up` passes to Compose: the override is used if the file exists.    *)
AppendObserveOverride(p) ==
    IF override[p] = None THEN [services |-> {}, dsn |-> None, counted |-> FALSE]
                          ELSE override[p]

(* `docker compose up` makes the private network if it is not there, and    *)
(* recreates the containers whose configuration changed: each carries what  *)
(* the override now says. The shared networks are external to the file.     *)
Up(p) ==
    /\ \A n \in NetworksOf(p) \ {p} : Exists(n)
    /\ IF Exists(p) \/ p \notin NetworksOf(p)
       THEN UNCHANGED gateway
       ELSE \E g \in FreeGateways : gateway' = [gateway EXCEPT ![p] = g]
    /\ up' = [up EXCEPT ![p] = AppendObserveOverride(p)]
    /\ UNCHANGED <<override, collectors, unit, rules, ufw>>

(* Stopped containers are not listed by `docker ps`; their network stays.   *)
Stop(p) ==
    /\ up[p] # None
    /\ up' = [up EXCEPT ![p] = None]
    /\ UNCHANGED <<gateway, override, collectors, unit, rules, ufw>>

(* `down` also removes the private network, and Docker will give the next   *)
(* one whatever subnet is free then.                                        *)
Down(p) ==
    /\ \A q \in Projects \ {p} : up[q] # None => p \notin NetworksOf(q)
    /\ up[p] # None \/ Exists(p)
    /\ up' = [up EXCEPT ![p] = None]
    /\ gateway' = [gateway EXCEPT ![p] = None]
    /\ UNCHANGED <<override, collectors, unit, rules, ufw>>

(***************************************************************************)
(* observe attach, detach.                                                 *)
(***************************************************************************)

ComposeServices(p) == {s \in Services : ComposeNetworks[p][s] # {}}

(* --service may be repeated; without it every service is attached.         *)
SelectAttachServices(p, requested) ==
    IF requested = {} THEN ComposeServices(p) ELSE requested

(* `counted` is history: the plan saw running containers of exactly the     *)
(* services it attaches, and found a shared network among theirs.           *)
BuildComposeOverride(p, services, given, dsn) ==
    [services |-> services,
     dsn      |-> dsn,
     counted  |-> /\ given = NotGiven
                  /\ Labelled(p) = services
                  /\ Shared \cap UNION {ComposeNetworks[p][s] : s \in services} # {}]

(* The file is written whole, over what another attach left.                *)
Attach(p, requested, given) ==
    /\ ComposeServices(p) # {}
    /\ requested \subseteq ComposeServices(p)
    /\ \E dsn \in DSNs(p, given) :
           override' = [override EXCEPT ![p] =
               BuildComposeOverride(p, SelectAttachServices(p, requested), given, dsn)]
    /\ UNCHANGED <<gateway, up, collectors, unit, rules, ufw>>

RemoveComposeOverride(p) ==
    /\ override[p] # None
    /\ override' = [override EXCEPT ![p] = None]
    /\ UNCHANGED <<gateway, up, collectors, unit, rules, ufw>>

(***************************************************************************)
(* Collectors: in a terminal, or under systemd.                            *)
(***************************************************************************)

(* An address cannot be bound while another socket holds it or all of them, *)
(* and one of Docker's only while a network has it.                         *)
Bindable(addr) ==
    /\ addr \in Gateways => \E n \in Networks : gateway[n] = addr
    /\ \A c \in Owners : collectors[c] # None =>
        /\ {addr, AnyHost} \cap collectors[c].bound = {}
        /\ addr # AnyHost

(* The first address is mandatory, the others are best effort: one that     *)
(* cannot be bound is logged and left out. `networks` and `others` are      *)
(* history: the shared networks there were at the start, and what the       *)
(* collectors that ran already had been given.                              *)
ListenAndServeOn(given) ==
    LET first == IF given = NotGiven THEN Loopback ELSE given
    IN IF Bindable(first)
       THEN [bound    |-> {first} \cup {a \in ExtraBinds(given) : Bindable(a)},
             given    |-> given,
             networks |-> {n \in Shared : Exists(n)},
             others   |-> {collectors[c].given :
                               c \in {d \in Owners : collectors[d] # None}}]
       ELSE None

(* `observe start`, until it is interrupted.                                *)
Start(given) ==
    /\ collectors["terminal"] = None
    /\ ListenAndServeOn(given) # None
    /\ collectors' = [collectors EXCEPT !["terminal"] = ListenAndServeOn(given)]
    /\ UNCHANGED <<gateway, override, up, unit, rules, ufw>>

(* The end of either process: an interrupt, a crash or a failed Serve.      *)
Exit(c) ==
    /\ collectors[c] # None
    /\ collectors' = [collectors EXCEPT ![c] = None]
    /\ UNCHANGED <<gateway, override, up, unit, rules, ufw>>

(* The unit is written and `enable --now` starts it, unless it runs: then   *)
(* the process goes on with the arguments it was started with.              *)
InstallDaemon(given) ==
    /\ unit' = given
    /\ collectors' = [collectors EXCEPT !["daemon"] =
                         IF @ = None THEN ListenAndServeOn(given) ELSE @]
    /\ UNCHANGED <<gateway, override, up, rules, ufw>>

(* Restart=on-failure, and the start at login.                              *)
RestartDaemon ==
    /\ unit # None
    /\ collectors["daemon"] = None
    /\ ListenAndServeOn(unit) # None
    /\ collectors' = [collectors EXCEPT !["daemon"] = ListenAndServeOn(unit)]
    /\ UNCHANGED <<gateway, override, up, unit, rules, ufw>>

UninstallDaemon ==
    /\ unit # None
    /\ unit' = None
    /\ collectors' = [collectors EXCEPT !["daemon"] = None]
    /\ UNCHANGED <<gateway, override, up, rules, ufw>>

(* observe daemon: `status` only reads.                                     *)
Daemon == UninstallDaemon \/ \E given \in Addrs : InstallDaemon(given)

(***************************************************************************)
(* observe firewall --apply: one rule per network of the plan.             *)
(***************************************************************************)

FirewallRules(infos) == {gateway[n] : n \in infos}

(* The shared networks come first in a plan, in their order.                *)
Precedes(m, n) ==
    /\ m \in Shared
    /\ n \in Shared => Earliest({m, n}) = m

(* One `sudo ufw` per rule; the first that fails ends the command, and the  *)
(* rules before it stay. `infos` are the networks of those that did not     *)
(* fail.                                                                    *)
ApplyFirewallRules(infos) ==
    /\ \A n \in infos, m \in PlanNetworks : Precedes(m, n) => m \in infos
    /\ rules' = rules \cup FirewallRules(infos)

(* Where nothing is filtered the rules are idle.                            *)
Firewall ==
    /\ ufw
    /\ \E infos \in SUBSET PlanNetworks : ApplyFirewallRules(infos)
    /\ UNCHANGED <<gateway, override, up, collectors, unit, ufw>>

(***************************************************************************)
(* observe status.                                                         *)
(***************************************************************************)

Listening(addr) ==
    \E c \in Owners : collectors[c] # None /\ {addr, AnyHost} \cap collectors[c].bound # {}

(* A request to addr from a container on these networks arrives: the host   *)
(* has the address, a collector listens there, and the filter lets the      *)
(* subnet through to its own gateway. Inside a container Loopback and       *)
(* AnyHost are the container; addresses the host has apart from Docker's    *)
(* are left out.                                                            *)
Arrives(networks, addr) ==
    /\ \E n \in Networks : gateway[n] = addr
    /\ addr \in Gateways
    /\ Listening(addr)
    /\ ufw => addr \in rules /\ \E n \in networks : gateway[n] = addr

(* Mutant: the probe runs on a shared network whatever the project.         *)
ProbeNetworksBlind(p) == FirstNetworks

(* The networks in which `status p` may run its probe, at their gateways.   *)
ProbeNetworks(p) == Matches(p)

(* A container on the network alone asks for /health. Without a local image *)
(* for it nothing runs, and the answer is "skipped", which is no "ok".      *)
ProbeFromContainer(network, addr) == Arrives({network}, addr)

(* `status p` says "ok at ...": the collector answers on the loopback, and  *)
(* a probe in the network of the project reaches it.                        *)
StatusSaysOk(p) ==
    /\ Listening(Loopback)
    /\ \E n \in ProbeNetworks(p) : ProbeFromContainer(n, gateway[n])

(***************************************************************************)
(* The specification.                                                      *)
(***************************************************************************)

Init ==
    /\ gateway = [n \in Networks |-> None]
    /\ override = [p \in Projects |-> None]
    /\ up = [p \in Projects |-> None]
    /\ collectors = [c \in Owners |-> None]
    /\ unit = None
    /\ rules = {}
    /\ ufw \in BOOLEAN

Next ==
    \/ \E n \in Shared : CreateShared(n)
    \/ \E p \in Projects :
           \/ Up(p) \/ Stop(p) \/ Down(p)
           \/ \E requested \in SUBSET Services, given \in Addrs : Attach(p, requested, given)
           \/ RemoveComposeOverride(p)
    \/ \E given \in Addrs : Start(given)
    \/ \E c \in Owners : Exit(c)
    \/ Daemon \/ RestartDaemon
    \/ Firewall

Spec == Init /\ [][Next]_vars

(***************************************************************************)
(* Properties.                                                             *)
(***************************************************************************)

(* Variables keep their types.                                              *)
Overrides ==
    [services : SUBSET Services,
     dsn      : Gateways \cup GivenAddrs \cup {Loopback, None},
     counted  : BOOLEAN]

AttachTypeOK ==
    /\ gateway \in [Networks -> Gateways \cup {None}]
    /\ override \in [Projects -> Overrides \cup {None}]
    /\ up \in [Projects -> Overrides \cup {None}]
    /\ collectors \in [Owners ->
           [bound : SUBSET (Gateways \cup GivenAddrs \cup {Loopback}),
            given : Addrs, networks : SUBSET Shared,
            others : SUBSET Addrs] \cup {None}]
    /\ unit \in Addrs \cup {None}
    /\ rules \subseteq Gateways

(* Why the selection prefers DevHerd's networks (network.go:192-200): an    *)
(* address that attach chose by looking at the containers stays good, for a *)
(* service it attached, however often the project is stopped, taken down    *)
(* and brought up again.                                                    *)
DSNOutlivesDown ==
    \A p \in Projects : override[p] # None /\ override[p].counted =>
        \E s \in override[p].services : \E n \in ComposeNetworks[p][s] :
            gateway[n] = override[p].dsn /\ n \in Shared

(* What attach writes and where a collector listens come from two plans,    *)
(* made by two processes at two times (planObserveAddrs). A collector that  *)
(* uses the defaults hears every shared network that there was when it      *)
(* started, whichever of them a project was given, but for an address that  *)
(* another collector had been given with --addr: its best-effort bind       *)
(* failed, and when the other one ends nobody hears that network            *)
(* (server.go:79-89).                                                       *)
AttachedIsHeard ==
    \A p \in Projects, c \in Owners :
        override[p] # None /\ collectors[c] # None /\ collectors[c].given = NotGiven =>
            \A n \in collectors[c].networks : override[p].dsn = gateway[n] =>
                override[p].dsn \in collectors[c].bound \cup collectors[c].others

(* An "ok" of `status p` means something for p (docs/observe.md:135): if    *)
(* its containers carry an address that attach chose by looking at them,    *)
(* events of one of its services arrive.                                    *)
OkMeansHeard ==
    \A p \in Projects : up[p] # None /\ up[p].counted /\ StatusSaysOk(p) =>
        \E s \in up[p].services : Arrives(ComposeNetworks[p][s], up[p].dsn)

(* docs/observe.md:125: `status p` verifies the result from inside a        *)
(* container, in the network of that project. Then its "ok" would mean that *)
(* events of an attached service arrive, however the address was chosen.    *)
(* It probes the address a new plan would use, not the one the containers   *)
(* carry.                                                                   *)
StatusMeansHeard ==
    \A p \in Projects :
        /\ up[p] # None /\ up[p].services # {} /\ up[p].dsn \in Gateways
        /\ StatusSaysOk(p)
        => \E s \in up[p].services : Arrives(ComposeNetworks[p][s], up[p].dsn)
=============================================================================
