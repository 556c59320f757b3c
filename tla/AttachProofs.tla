----------------------------- MODULE AttachProofs -----------------------------
(* For any projects, compose files and addresses: a collector that was      *)
(* started with the defaults hears the shared networks it found, but for    *)
(* what another one had been given, an address that attach chose by looking *)
(* at the containers stays good, and an "ok" of status means that events    *)
(* arrive.                                                                  *)
EXTENDS ObserveAttach, FiniteSetTheorems, WellFoundedInduction, TLAPS

(* AttachedIsHeard is not inductive. The extra addresses are best effort,   *)
(* so another collector may hold one of them. It does not hold the loopback *)
(* then, or the second would not start, so it was given an address and      *)
(* listens there alone. And the gateway of a shared network never changes,  *)
(* while that of the network of a project does.                             *)
BindsGiven(collector) ==
    IF collector.given = NotGiven THEN Loopback \in collector.bound
                                  ELSE collector.bound = {collector.given}

HearsShared(collector) ==
    collector.given = NotGiven =>
        \A n \in collector.networks :
            /\ n \in Shared /\ Exists(n)
            /\ gateway[n] \in collector.bound \cup collector.others

HeardInv ==
    /\ gateway \in [Networks -> Gateways \cup {None}]
    /\ collectors = [c \in Owners |-> collectors[c]]
    /\ \A c \in Owners : collectors[c] # None =>
        BindsGiven(collectors[c]) /\ HearsShared(collectors[c])

-------------------------------------------------------------------------------

(* Docker gives a shared network its gateway once and for all.              *)
LEMMA SharedStays ==
    ASSUME HeardInv, UNCHANGED collectors,
           \A n \in Shared : Exists(n) => gateway'[n] = gateway[n],
           gateway' \in [Networks -> Gateways \cup {None}]
    PROVE  HeardInv'
<1>1. /\ collectors' = [c \in Owners |-> collectors'[c]]
      /\ \A c \in Owners : collectors'[c] = collectors[c]
    BY DEF HeardInv
<1>2. ASSUME NEW c \in Owners, collectors[c] # None, collectors[c].given = NotGiven,
             NEW n \in collectors[c].networks
      PROVE  /\ n \in Shared /\ Exists(n)'
             /\ gateway'[n] \in collectors[c].bound \cup collectors[c].others
    BY <1>2 DEF HeardInv, HearsShared, Exists
<1>3. QED  BY <1>1, <1>2 DEF HeardInv, BindsGiven, HearsShared

(* A collector that starts without --addr gets every address of its plan    *)
(* that none was given.                                                     *)
LEMMA ListenHears ==
    ASSUME HeardInv, NEW given, ListenAndServeOn(given) # None
    PROVE  /\ BindsGiven(ListenAndServeOn(given))
           /\ HearsShared(ListenAndServeOn(given))
<1> DEFINE first == IF given = NotGiven THEN Loopback ELSE given
           listening ==
             [bound    |-> {first} \cup {a \in ExtraBinds(given) : Bindable(a)},
              given    |-> given,
              networks |-> {n \in Shared : Exists(n)},
              others   |-> {collectors[c].given :
                                c \in {d \in Owners : collectors[d] # None}}]
<1>1. Bindable(first) /\ ListenAndServeOn(given) = listening
    BY DEF ListenAndServeOn
<1>2. BindsGiven(listening)
    BY DEF BindsGiven, ExtraBinds
<1>3. ASSUME given = NotGiven, NEW n \in Shared, Exists(n)
      PROVE  gateway[n] \in listening.bound \cup listening.others
    <2>1. ASSUME NEW c \in Owners, collectors[c] # None
          PROVE  collectors[c].bound = {collectors[c].given} /\ collectors[c].given # AnyHost
        BY <1>1, <1>3, <2>1 DEF Bindable, HeardInv, BindsGiven
    <2>2. gateway[n] \in Gateways \ {AnyHost} /\ n \in Networks
        BY <1>3, AttachConstants DEF HeardInv, Exists, Networks
    <2>3. gateway[n] \in ExtraBinds(given)
        BY <1>3 DEF ExtraBinds, PlanNetworks
    <2>4. CASE Bindable(gateway[n])
        BY <2>3, <2>4
    <2>5. CASE ~Bindable(gateway[n])
        <3>1. PICK c \in Owners : collectors[c] # None /\ gateway[n] = collectors[c].given
            BY <2>1, <2>2, <2>5 DEF Bindable
        <3>2. QED  BY <3>1
    <2>6. QED  BY <2>4, <2>5
<1>4. HearsShared(listening)
    BY <1>3 DEF HearsShared
<1>5. QED  BY <1>1, <1>2, <1>4

(* A process starts to listen where none did.                               *)
LEMMA ListeningKept ==
    ASSUME HeardInv, NEW c \in Owners, NEW given \in Addrs, UNCHANGED gateway,
           ListenAndServeOn(given) # None,
           collectors' = [collectors EXCEPT ![c] = ListenAndServeOn(given)]
    PROVE  HeardInv'
<1>1. PICK new : new = ListenAndServeOn(given)
    OBVIOUS
<1>2. BindsGiven(new) /\ HearsShared(new)
    BY <1>1, ListenHears
<1>3. /\ collectors' = [d \in Owners |-> collectors'[d]]
      /\ \A d \in Owners : collectors'[d] = IF d = c THEN new ELSE collectors[d]
    BY <1>1 DEF HeardInv
<1>4. \A d \in Owners : collectors'[d] # None =>
        BindsGiven(collectors'[d]) /\ (HearsShared(collectors[d]) \/ d = c)
    BY <1>2, <1>3 DEF HeardInv
<1>5. ASSUME NEW d \in Owners, collectors'[d] # None, collectors'[d].given = NotGiven,
             NEW n \in collectors'[d].networks
      PROVE  /\ n \in Shared /\ Exists(n)
             /\ gateway[n] \in collectors'[d].bound \cup collectors'[d].others
    BY <1>2, <1>3, <1>4, <1>5 DEF HearsShared
<1>6. QED  BY <1>3, <1>4, <1>5 DEF HeardInv, BindsGiven, HearsShared, Exists

(* A process ends, or goes on.                                              *)
LEMMA EndingKept ==
    ASSUME HeardInv, NEW c \in Owners, UNCHANGED gateway,
           collectors' = [collectors EXCEPT ![c] = None] \/ UNCHANGED collectors
    PROVE  HeardInv'
<1>1. /\ collectors' = [d \in Owners |-> collectors'[d]]
      /\ \A d \in Owners : collectors'[d] # None => collectors'[d] = collectors[d]
    BY DEF HeardInv
<1>2. QED  BY <1>1 DEF HeardInv, BindsGiven, HearsShared, Exists

(* Projects come and go without touching the shared networks.               *)
LEMMA ProjectKeeps ==
    ASSUME HeardInv, NEW p \in Projects, Up(p) \/ Stop(p) \/ Down(p)
    PROVE  HeardInv'
<1>1. p \notin Shared
    BY AttachConstants
<1>2. \/ UNCHANGED gateway
      \/ \E g \in Gateways \cup {None} : gateway' = [gateway EXCEPT ![p] = g]
    BY DEF Up, Stop, Down, FreeGateways
<1>3. /\ gateway' \in [Networks -> Gateways \cup {None}]
      /\ \A n \in Shared : gateway'[n] = gateway[n]
    BY <1>1, <1>2 DEF HeardInv, Networks
<1>4. UNCHANGED collectors
    BY DEF Up, Stop, Down
<1>5. QED  BY <1>3, <1>4, SharedStays

(* The unit holds the --addr that some install was given.                   *)
UnitOK == unit \in Addrs \cup {None}

LEMMA UnitStays == UnitOK /\ [Next]_vars => UnitOK'
BY DEF UnitOK, Next, vars, CreateShared, Up, Stop, Down, Attach,
       RemoveComposeOverride, Start, Exit, Daemon, InstallDaemon,
       UninstallDaemon, RestartDaemon, Firewall

LEMMA NextHears == UnitOK /\ HeardInv /\ [Next]_vars => HeardInv'
<1> SUFFICES ASSUME UnitOK, HeardInv, [Next]_vars PROVE HeardInv'
    OBVIOUS
<1>1. CASE UNCHANGED <<gateway, collectors>>
    BY <1>1, EndingKept DEF Owners
<1>2. ASSUME NEW n \in Shared, CreateShared(n) PROVE HeardInv'
    <2>1. PICK g \in Gateways : gateway' = [gateway EXCEPT ![n] = g]
        BY <1>2 DEF CreateShared, FreeGateways
    <2>2. \A m \in Shared : Exists(m) => gateway'[m] = gateway[m]
        BY <1>2, <2>1 DEF CreateShared, HeardInv, Networks
    <2>3. gateway' \in [Networks -> Gateways \cup {None}] /\ UNCHANGED collectors
        BY <1>2, <2>1 DEF CreateShared, HeardInv
    <2>4. QED  BY <2>2, <2>3, SharedStays
<1>3. ASSUME NEW p \in Projects, Up(p) \/ Stop(p) \/ Down(p) PROVE HeardInv'
    BY <1>3, ProjectKeeps
<1>4. ASSUME NEW p \in Projects,
             \/ \E requested \in SUBSET Services, given \in Addrs : Attach(p, requested, given)
             \/ RemoveComposeOverride(p)
      PROVE  HeardInv'
    BY <1>1, <1>4 DEF Attach, RemoveComposeOverride
<1>5. ASSUME NEW given \in Addrs, Start(given) PROVE HeardInv'
    BY <1>5, ListeningKept DEF Start, Owners
<1>6. ASSUME NEW c \in Owners, Exit(c) PROVE HeardInv'
    BY <1>6, EndingKept DEF Exit
<1>7. ASSUME NEW given \in Addrs, InstallDaemon(given) PROVE HeardInv'
    <2>1. /\ UNCHANGED gateway
          /\ collectors' = [collectors EXCEPT !["daemon"] =
                IF collectors["daemon"] = None THEN ListenAndServeOn(given)
                                               ELSE collectors["daemon"]]
        BY <1>7 DEF InstallDaemon
    <2>2. CASE collectors["daemon"] = None /\ ListenAndServeOn(given) # None
        BY <2>1, <2>2, ListeningKept DEF Owners
    <2>3. CASE collectors["daemon"] = None /\ ListenAndServeOn(given) = None
        BY <2>1, <2>3, EndingKept DEF Owners
    <2>4. CASE collectors["daemon"] # None
        <3>1. UNCHANGED collectors
            BY <2>1, <2>4 DEF HeardInv
        <3>2. QED  BY <2>1, <3>1, EndingKept DEF Owners
    <2>5. QED  BY <2>2, <2>3, <2>4
<1>8. CASE UninstallDaemon
    BY <1>8, EndingKept DEF UninstallDaemon, Owners
<1>9. CASE RestartDaemon
    <2>1. unit \in Addrs
        BY <1>9 DEF RestartDaemon, UnitOK
    <2>2. QED  BY <1>9, <2>1, ListeningKept DEF RestartDaemon, Owners
<1>10. CASE Firewall
    BY <1>1, <1>10 DEF Firewall
<1>11. CASE UNCHANGED vars
    BY <1>1, <1>11 DEF vars
<1>12. QED
    BY <1>2, <1>3, <1>4, <1>5, <1>6, <1>7, <1>8, <1>9, <1>10, <1>11 DEF Next, Daemon

-------------------------------------------------------------------------------

(* What attach writes from a shared network, a collector that was started   *)
(* with the defaults hears, unless another collector had been given that    *)
(* address, at whatever times the commands looked at Docker                 *)
(* (planObserveAddrs, ListenAndServeOn).                                    *)
THEOREM AttachedHears == Spec => []AttachedIsHeard
<1>1. Init => UnitOK /\ HeardInv
    BY DEF Init, UnitOK, HeardInv, BindsGiven, HearsShared
<1>2. UnitOK /\ HeardInv /\ [Next]_vars => (UnitOK /\ HeardInv)'
    BY NextHears, UnitStays
<1>3. HeardInv => AttachedIsHeard
    BY DEF HeardInv, HearsShared, AttachedIsHeard
<1>4. QED  BY <1>1, <1>2, <1>3, PTL DEF Spec

-------------------------------------------------------------------------------

(* The choice of a network.                                                 *)

(* A bounded, non-empty set of naturals has a greatest element.             *)
LEMMA GreatestExists ==
    ASSUME NEW S \in SUBSET Nat, S # {}, NEW b \in Nat, \A k \in S : k <= b
    PROVE  \E m \in S : \A k \in S : k <= m
<1> DEFINE D == {b - k : k \in S}
<1>1. D \in SUBSET Nat /\ D # {}
  <2>1. \A k \in S : b - k \in Nat
      OBVIOUS
  <2>2. QED  BY <2>1
<1>2. PICK d \in D : \A e \in D : ~(<<e, d>> \in OpToRel(<, Nat))
    BY <1>1, NatLessThanWellFounded, WFMin
<1>3. \A e \in D : ~(e < d)
    BY <1>1, <1>2 DEF OpToRel
<1>4. PICK m \in S : d = b - m
    OBVIOUS
<1>5. \A k \in S : ~(b - k < b - m)
    BY <1>3, <1>4
<1>6. ASSUME NEW k \in S PROVE k <= m
    <2>1. k \in Nat /\ m \in Nat /\ ~(b - k < b - m)
        BY <1>5
    <2>2. QED  BY <2>1
<1>7. QED  BY <1>6

(* Coverage counts: it is positive where some service is.                   *)
LEMMA CoverageCounts ==
    ASSUME NEW p, NEW services \in SUBSET Services, NEW n \in Networks
    PROVE  LET count == ProjectNetworkCoverage(p, services)[n]
           IN /\ count \in Nat /\ count <= Cardinality(Services)
              /\ count > 0 <=> \E s \in services : n \in ComposeNetworks[p][s]
<1> DEFINE there == {s \in services : n \in ComposeNetworks[p][s]}
<1>1. IsFiniteSet(Services)
    BY AttachConstants
<1>2. IsFiniteSet(there) /\ Cardinality(there) <= Cardinality(Services)
    BY <1>1, FS_Subset
<1>3. Cardinality(there) \in Nat /\ Cardinality(Services) \in Nat
    BY <1>1, <1>2, FS_CardinalityType
<1>4. Cardinality(there) = 0 <=> there = {}
    BY <1>2, FS_EmptySet
<1>5. ProjectNetworkCoverage(p, services)[n] = Cardinality(there)
    BY DEF ProjectNetworkCoverage
<1>6. there # {} <=> \E s \in services : n \in ComposeNetworks[p][s]
    OBVIOUS
<1> HIDE DEF there
<1>7. QED  BY <1>2, <1>3, <1>4, <1>5, <1>6

(* Where something is covered, something is covered most.                   *)
LEMMA BestExists ==
    ASSUME NEW p, NEW services \in SUBSET Services, NEW S \in SUBSET Networks,
           \E n \in S : ProjectNetworkCoverage(p, services)[n] > 0
    PROVE  Best(ProjectNetworkCoverage(p, services), S) # {}
<1>1. PICK coverage : coverage = ProjectNetworkCoverage(p, services)
    OBVIOUS
<1>2. \A n \in S : coverage[n] \in Nat /\ coverage[n] <= Cardinality(Services)
    BY <1>1, CoverageCounts
<1>3. Cardinality(Services) \in Nat
    BY AttachConstants, FS_CardinalityType
<1> DEFINE counts == {coverage[n] : n \in S}
<1>4. counts \in SUBSET Nat /\ counts # {} /\ \A k \in counts : k <= Cardinality(Services)
    BY <1>1, <1>2
<1>5. PICK most \in counts : \A k \in counts : k <= most
    BY <1>3, <1>4, GreatestExists
<1>6. PICK n \in S : coverage[n] = most
    OBVIOUS
<1>7. \A m \in S : coverage[m] <= coverage[n]
    BY <1>5, <1>6
<1>8. coverage[n] > 0
    BY <1>1, <1>2, <1>7
<1>9. QED  BY <1>1, <1>7, <1>8 DEF Best

(* The earliest of some shared networks is one of them.                     *)
LEMMA EarliestIsOne ==
    ASSUME NEW names, names \cap Shared # {}
    PROVE  Earliest(names) \in names \cap Shared
<1>1. \E i \in 1 .. 3 : /\ SharedNetworkNames[i] \in names
                        /\ \A j \in 1 .. i - 1 : SharedNetworkNames[j] \notin names
    <2>1. PICK i \in 1 .. 3 : SharedNetworkNames[i] \in names
        BY DEF Shared
    <2>2. i = 1 \/ i = 2 \/ i = 3
        OBVIOUS
    <2>3. CASE SharedNetworkNames[1] \in names
        BY <2>3
    <2>4. CASE SharedNetworkNames[1] \notin names /\ SharedNetworkNames[2] \in names
        BY <2>4
    <2>5. CASE /\ SharedNetworkNames[1] \notin names
               /\ SharedNetworkNames[2] \notin names
        BY <2>1, <2>2, <2>5
    <2>6. QED  BY <2>3, <2>4, <2>5
<1>2. QED  BY <1>1 DEF Earliest, Shared

Chosen(p, services) == SelectProjectNetwork(ProjectNetworkCoverage(p, services))

(* The network that is chosen is one some service is on, and a shared one   *)
(* if any is.                                                               *)
LEMMA ChosenCovers ==
    ASSUME NEW p \in Projects, NEW services \in SUBSET Services,
           UNION {ComposeNetworks[p][s] : s \in services} # {}
    PROVE  /\ Chosen(p, services) \in Networks
           /\ \E s \in services : Chosen(p, services) \in ComposeNetworks[p][s]
           /\ Shared \cap UNION {ComposeNetworks[p][s] : s \in services} # {}
              => Chosen(p, services) \in Shared
<1> DEFINE coverage == ProjectNetworkCoverage(p, services)
<1>1. \A s \in services : ComposeNetworks[p][s] \subseteq Networks
    BY AttachConstants
<1>2. \A S \in SUBSET Networks : \A n \in Best(coverage, S) :
        n \in S /\ \E s \in services : n \in ComposeNetworks[p][s]
    BY CoverageCounts DEF Best
<1>3. CASE Best(coverage, Shared) # {}
    <2>1. Best(coverage, Shared) \subseteq Shared
        BY DEF Best
    <2>2. Chosen(p, services) \in Best(coverage, Shared)
        BY <1>3, <2>1, EarliestIsOne DEF Chosen, SelectProjectNetwork
    <2>3. Shared \in SUBSET Networks
        BY DEF Networks
    <2>4. QED  BY <1>2, <2>1, <2>2, <2>3
<1>4. CASE Best(coverage, Shared) = {}
    <2>1. \E n \in Networks : coverage[n] > 0
        BY <1>1, CoverageCounts
    <2>2. Best(coverage, Networks) # {}
        BY <2>1, BestExists
    <2>3. Chosen(p, services) \in Best(coverage, Networks)
        BY <1>4, <2>2 DEF Chosen, SelectProjectNetwork
    <2>4. Shared \cap UNION {ComposeNetworks[p][s] : s \in services} = {}
        <3>1. ASSUME NEW n \in Shared, NEW s \in services, n \in ComposeNetworks[p][s]
              PROVE  FALSE
            <4>1. coverage[n] > 0 /\ Shared \in SUBSET Networks
                BY <3>1, CoverageCounts DEF Networks
            <4>2. QED  BY <1>4, <4>1, BestExists
        <3>2. QED  BY <3>1
    <2>5. QED  BY <1>2, <2>3, <2>4
<1>5. QED  BY <1>3, <1>4

-------------------------------------------------------------------------------

(* What attach writes. DSNOutlivesDown is not inductive: it does not say    *)
(* which network the address came from, and only a shared one keeps its     *)
(* gateway. Kept names it: the network the plan chooses for the services of *)
(* the file.                                                                *)
Kept(g, p, file) ==
    LET n == Chosen(p, file.services)
    IN /\ n \in Shared /\ g[n] # None /\ file.dsn = g[n]
       /\ \E s \in file.services : n \in ComposeNetworks[p][s]

Sound(g, p, file) ==
    /\ file \in Overrides
    /\ \A s \in file.services : ComposeNetworks[p][s] # {}
    /\ file.counted => Kept(g, p, file)

Collector ==
    [bound : SUBSET (Gateways \cup GivenAddrs \cup {Loopback}), given : Addrs,
     networks : SUBSET Shared, others : SUBSET Addrs]

DockerOK == gateway \in [Networks -> Gateways \cup {None}]

FilesOK ==
    /\ override = [p \in Projects |-> override[p]]
    /\ up = [p \in Projects |-> up[p]]
    /\ \A p \in Projects :
        /\ override[p] = None \/ Sound(gateway, p, override[p])
        /\ up[p] = None \/ Sound(gateway, p, up[p])

(* Containers do not run without the networks that are external to them.    *)
NetworksUp ==
    \A p \in Projects : up[p] # None => \A n \in NetworksOf(p) \ {p} : Exists(n)

HostOK ==
    /\ collectors \in [Owners -> Collector \cup {None}]
    /\ rules \subseteq Gateways

AttachInv == DockerOK /\ FilesOK /\ NetworksUp /\ HostOK /\ UnitOK

(* The gateways of the shared networks are there to stay.                   *)
Lasting(g, h) == \A n \in Shared : g[n] # None => h[n] = g[n]

LEMMA SoundStays ==
    ASSUME NEW g, NEW h, Lasting(g, h), NEW p, NEW file, Sound(g, p, file)
    PROVE  Sound(h, p, file)
BY DEF Lasting, Sound, Kept

LEMMA FilesStay ==
    ASSUME FilesOK, UNCHANGED <<override, up>>, Lasting(gateway, gateway')
    PROVE  FilesOK'
BY SoundStays DEF FilesOK

LEMMA LabelledServices ==
    ASSUME AttachInv, NEW p \in Projects
    PROVE  /\ Labelled(p) \in SUBSET Services
           /\ \A s \in Labelled(p) : ComposeNetworks[p][s] # {}
BY DEF AttachInv, FilesOK, Sound, Overrides, Labelled

LEMMA PlanTypes ==
    ASSUME AttachInv
    PROVE  /\ PlanNetworks \subseteq Networks
           /\ {gateway[n] : n \in PlanNetworks} \subseteq Gateways
<1>1. ASSUME NEW p \in Projects, NEW s \in Labelled(p), NEW n \in ComposeNetworks[p][s]
      PROVE  n \in Networks
    <2>1. s \in Services
        BY <1>1, LabelledServices
    <2>2. QED  BY <1>1, <2>1, AttachConstants
<1>2. ObservedNetworks \subseteq Networks
    BY <1>1 DEF ObservedNetworks
<1>3. PlanNetworks \subseteq Networks
    BY <1>2 DEF PlanNetworks, Networks
<1>4. \A n \in PlanNetworks : gateway[n] \in Gateways
    BY <1>3 DEF PlanNetworks, Exists, AttachInv, DockerOK
<1>5. QED  BY <1>3, <1>4

(* Where containers of a project run that carry its label, the plan chooses *)
(* by what they cover.                                                      *)
LEMMA MatchesTypes ==
    ASSUME AttachInv, NEW p \in Projects
    PROVE  Matches(p) \subseteq Networks
<1>1. CASE PlanNetworks = {}
    BY <1>1 DEF Matches
<1>2. CASE PlanNetworks # {} /\ Labelled(p) = {}
    <2> DEFINE shared == {n \in Shared : Exists(n)}
    <2>1. shared # {} => Earliest(shared) \in shared
        BY EarliestIsOne
    <2>2. FirstNetworks \subseteq Networks
        BY <2>1, PlanTypes DEF FirstNetworks, Networks
    <2>3. QED  BY <1>2, <2>2 DEF Matches
<1>3. CASE PlanNetworks # {} /\ Labelled(p) # {}
    <2>1. UNION {ComposeNetworks[p][s] : s \in Labelled(p)} # {}
        BY <1>3, LabelledServices
    <2>2. Chosen(p, Labelled(p)) \in Networks
        BY <2>1, ChosenCovers, LabelledServices
    <2>3. QED  BY <1>3, <2>2 DEF Matches, Chosen
<1>4. QED  BY <1>1, <1>2, <1>3

(* With a shared network among theirs, the plan exists: containers do not   *)
(* run without it.                                                          *)
LEMMA MatchIsChosen ==
    ASSUME AttachInv, NEW p \in Projects,
           Shared \cap UNION {ComposeNetworks[p][s] : s \in Labelled(p)} # {}
    PROVE  /\ Matches(p) = {Chosen(p, Labelled(p))}
           /\ Chosen(p, Labelled(p)) \in Shared
           /\ Exists(Chosen(p, Labelled(p)))
           /\ \E s \in Labelled(p) : Chosen(p, Labelled(p)) \in ComposeNetworks[p][s]
<1> DEFINE n == Chosen(p, Labelled(p))
<1>1. n \in Shared /\ \E s \in Labelled(p) : n \in ComposeNetworks[p][s]
    BY ChosenCovers, LabelledServices
<1>2. up[p] # None /\ n \in NetworksOf(p)
    BY <1>1, LabelledServices DEF Labelled, NetworksOf
<1>3. n # p
    BY <1>1, AttachConstants
<1>4. Exists(n)
    BY <1>2, <1>3 DEF AttachInv, NetworksUp
<1>5. PlanNetworks # {} /\ Labelled(p) # {}
    BY <1>1, <1>4 DEF PlanNetworks
<1>6. Matches(p) = {n}
    BY <1>5 DEF Matches, Chosen
<1>7. QED  BY <1>1, <1>4, <1>6

LEMMA AttachWritesSound ==
    ASSUME AttachInv, NEW p \in Projects, NEW requested \in SUBSET Services,
           NEW given \in Addrs, requested \subseteq ComposeServices(p),
           NEW dsn \in DSNs(p, given)
    PROVE  Sound(gateway, p,
                 BuildComposeOverride(p, SelectAttachServices(p, requested), given, dsn))
<1>1. PICK services : services = SelectAttachServices(p, requested)
    OBVIOUS
<1>2. /\ services \in SUBSET Services
      /\ \A s \in services : ComposeNetworks[p][s] # {}
    BY <1>1 DEF SelectAttachServices, ComposeServices
<1>3. dsn \in Gateways \cup GivenAddrs \cup {Loopback, None}
    BY MatchesTypes, AttachConstants DEF DSNs, Addrs, AttachInv, DockerOK
<1>4. PICK counted \in BOOLEAN :
        /\ BuildComposeOverride(p, services, given, dsn) =
             [services |-> services, dsn |-> dsn, counted |-> counted]
        /\ counted => /\ given = NotGiven
                      /\ Labelled(p) = services
                      /\ Shared \cap UNION {ComposeNetworks[p][s] : s \in services} # {}
    BY Zenon DEF BuildComposeOverride
<1> DEFINE file == [services |-> services, dsn |-> dsn, counted |-> counted]
<1>5. file \in Overrides
    BY <1>2, <1>3 DEF Overrides
<1>6. ASSUME counted PROVE Kept(gateway, p, file)
    <2>1. /\ Matches(p) = {Chosen(p, services)}
          /\ Chosen(p, services) \in Shared
          /\ Exists(Chosen(p, services))
          /\ \E s \in services : Chosen(p, services) \in ComposeNetworks[p][s]
        BY <1>4, <1>6, MatchIsChosen
    <2>2. dsn = gateway[Chosen(p, services)]
        BY <1>4, <1>6, <2>1 DEF DSNs
    <2>3. QED  BY <2>1, <2>2 DEF Kept, Exists
<1>7. Sound(gateway, p, file)
    BY <1>2, <1>5, <1>6 DEF Sound
<1>8. QED  BY <1>1, <1>4, <1>7

LEMMA AttachStays ==
    ASSUME AttachInv, NEW p \in Projects, NEW requested \in SUBSET Services,
           NEW given \in Addrs, Attach(p, requested, given)
    PROVE  FilesOK'
<1>1. PICK file : /\ override' = [override EXCEPT ![p] = file]
                  /\ Sound(gateway, p, file)
    BY AttachWritesSound DEF Attach
<1>2. UNCHANGED <<gateway, up>>
    BY DEF Attach
<1>3. \A q \in Projects : override'[q] = IF q = p THEN file ELSE override[q]
    BY <1>1 DEF AttachInv, FilesOK
<1>4. override' = [q \in Projects |-> override'[q]]
    BY <1>1 DEF AttachInv, FilesOK
<1>5. QED  BY <1>1, <1>2, <1>3, <1>4 DEF AttachInv, FilesOK

-------------------------------------------------------------------------------

(* The steps.                                                               *)

LEMMA SharedIsCreated ==
    ASSUME AttachInv, NEW n \in Shared, CreateShared(n)
    PROVE  AttachInv'
<1>1. PICK g \in Gateways : gateway' = [gateway EXCEPT ![n] = g]
    BY DEF CreateShared, FreeGateways
<1>2. /\ UNCHANGED <<override, up, collectors, unit, rules>>
      /\ gateway[n] = None
    BY DEF CreateShared, Exists
<1>3. /\ \A m \in Networks \ {n} : gateway'[m] = gateway[m]
      /\ DockerOK'
    BY <1>1 DEF AttachInv, DockerOK
<1>4. Lasting(gateway, gateway')
    BY <1>2, <1>3 DEF Lasting, Networks
<1>5. FilesOK'
    BY <1>2, <1>4, FilesStay DEF AttachInv
<1>6. NetworksUp'
    <2>1. ASSUME NEW p \in Projects, up[p] # None, NEW m \in NetworksOf(p) \ {p}
          PROVE  gateway'[m] # None
        <3>1. gateway[m] # None
            BY <2>1 DEF AttachInv, NetworksUp, Exists
        <3>2. m \in Networks
            BY <2>1, AttachConstants DEF NetworksOf
        <3>3. QED  BY <1>2, <1>3, <3>1, <3>2
    <2>2. QED  BY <1>2, <2>1 DEF NetworksUp, Exists
<1>7. QED  BY <1>2, <1>3, <1>5, <1>6 DEF AttachInv, HostOK, UnitOK

(* The file that `up` reads is in force from then on.                       *)
LEMMA UpKeeps ==
    ASSUME AttachInv, NEW p \in Projects, Up(p)
    PROVE  AttachInv'
<1>1. UNCHANGED <<override, collectors, unit, rules>>
    BY DEF Up
<1>2. \/ UNCHANGED gateway
      \/ ~Exists(p) /\ \E g \in Gateways : gateway' = [gateway EXCEPT ![p] = g]
    BY DEF Up, FreeGateways
<1>3. DockerOK' /\ \A n \in Networks \ {p} : gateway'[n] = gateway[n]
    BY <1>2 DEF AttachInv, DockerOK
<1>4. Lasting(gateway, gateway')
    BY <1>3, AttachConstants DEF Lasting, Networks
<1>5. PICK file : up' = [up EXCEPT ![p] = file] /\ Sound(gateway, p, file)
    <2>1. up' = [up EXCEPT ![p] = AppendObserveOverride(p)]
        BY DEF Up
    <2>2. Sound(gateway, p, AppendObserveOverride(p))
        <3>1. CASE override[p] = None
            <4> DEFINE plain == [services |-> {}, dsn |-> None, counted |-> FALSE]
            <4>1. plain \in Overrides /\ plain.services = {} /\ ~plain.counted
                BY DEF Overrides
            <4>2. AppendObserveOverride(p) = plain
                BY <3>1 DEF AppendObserveOverride
            <4>3. QED  BY <4>1, <4>2 DEF Sound
        <3>2. CASE override[p] # None
            BY <3>2 DEF AppendObserveOverride, AttachInv, FilesOK
        <3>3. QED  BY <3>1, <3>2
    <2>3. QED  BY <2>1, <2>2, Zenon
<1>6. /\ up' = [q \in Projects |-> up'[q]]
      /\ \A q \in Projects : up'[q] = IF q = p THEN file ELSE up[q]
    BY <1>5 DEF AttachInv, FilesOK
<1>7. FilesOK'
    BY <1>1, <1>4, <1>5, <1>6, SoundStays DEF AttachInv, FilesOK
<1>8. NetworksUp'
    <2>1. ASSUME NEW q \in Projects, up'[q] # None, NEW n \in NetworksOf(q) \ {q}
          PROVE  gateway'[n] # None
        <3>1. n \in Networks
            BY <2>1, AttachConstants DEF NetworksOf
        <3>2. gateway[n] # None
            BY <1>6, <2>1 DEF Up, AttachInv, NetworksUp, Exists
        <3>3. n # p \/ gateway'[n] = gateway[n]
            BY <1>2, <3>2 DEF Exists
        <3>4. QED  BY <1>3, <3>1, <3>2, <3>3
    <2>2. QED  BY <2>1 DEF NetworksUp, Exists
<1>9. QED  BY <1>1, <1>3, <1>7, <1>8 DEF AttachInv, HostOK, UnitOK

(* A private network goes when no other project runs on it.                 *)
LEMMA StopKeeps ==
    ASSUME AttachInv, NEW p \in Projects, Stop(p) \/ Down(p)
    PROVE  AttachInv'
<1>1. /\ UNCHANGED <<override, collectors, unit, rules>>
      /\ up' = [up EXCEPT ![p] = None]
    BY DEF Stop, Down
<1>2. /\ up' = [q \in Projects |-> up'[q]]
      /\ \A q \in Projects : up'[q] = IF q = p THEN None ELSE up[q]
    BY <1>1 DEF AttachInv, FilesOK
<1>3. UNCHANGED gateway \/ gateway' = [gateway EXCEPT ![p] = None]
    BY DEF Stop, Down
<1>4. DockerOK' /\ \A n \in Networks \ {p} : gateway'[n] = gateway[n]
    BY <1>3 DEF AttachInv, DockerOK
<1>5. Lasting(gateway, gateway')
    BY <1>4, AttachConstants DEF Lasting, Networks
<1>6. FilesOK'
    BY <1>1, <1>2, <1>5, SoundStays DEF AttachInv, FilesOK
<1>7. NetworksUp'
    <2>1. ASSUME NEW q \in Projects, up'[q] # None, NEW n \in NetworksOf(q) \ {q}
          PROVE  gateway'[n] # None
        <3>1. q # p /\ up[q] # None /\ n \in Networks
            BY <1>2, <2>1, AttachConstants DEF NetworksOf
        <3>2. gateway[n] # None
            BY <2>1, <3>1 DEF AttachInv, NetworksUp, Exists
        <3>3. n # p \/ UNCHANGED gateway
            BY <2>1, <3>1 DEF Stop, Down
        <3>4. QED  BY <1>4, <3>1, <3>2, <3>3
    <2>2. QED  BY <2>1 DEF NetworksUp, Exists
<1>8. QED  BY <1>1, <1>4, <1>6, <1>7 DEF AttachInv, HostOK, UnitOK

LEMMA DetachKeeps ==
    ASSUME AttachInv, NEW p \in Projects, RemoveComposeOverride(p)
    PROVE  FilesOK'
<1>1. /\ override' = [override EXCEPT ![p] = None]
      /\ UNCHANGED <<gateway, up>>
    BY DEF RemoveComposeOverride
<1>2. /\ override' = [q \in Projects |-> override'[q]]
      /\ \A q \in Projects : override'[q] = IF q = p THEN None ELSE override[q]
    BY <1>1 DEF AttachInv, FilesOK
<1>3. QED  BY <1>1, <1>2 DEF AttachInv, FilesOK

LEMMA ListenType ==
    ASSUME AttachInv, NEW given \in Addrs
    PROVE  ListenAndServeOn(given) \in Collector \cup {None}
<1>1. ExtraBinds(given) \subseteq Gateways
    BY PlanTypes DEF ExtraBinds
<1>2. (IF given = NotGiven THEN Loopback ELSE given) \in GivenAddrs \cup {Loopback}
    BY DEF Addrs
<1>3. ASSUME NEW c \in Owners, collectors[c] # None
      PROVE  collectors[c].given \in Addrs
    BY <1>3 DEF AttachInv, HostOK, Collector
<1>4. QED  BY <1>1, <1>2, <1>3 DEF ListenAndServeOn, Collector

(* A collector starts, ends or goes on.                                     *)
LEMMA CollectorStep ==
    ASSUME AttachInv, NEW c \in Owners,
           NEW new \in Collector \cup {None},
           collectors' = [collectors EXCEPT ![c] = new]
    PROVE  collectors' \in [Owners -> Collector \cup {None}]
BY DEF AttachInv, HostOK

LEMMA CollectorsKept ==
    ASSUME AttachInv,
           \/ \E given \in Addrs : Start(given)
           \/ \E c \in Owners : Exit(c)
           \/ Daemon \/ RestartDaemon
    PROVE  HostOK'
<1>1. UNCHANGED rules
    BY DEF Start, Exit, Daemon, InstallDaemon, UninstallDaemon, RestartDaemon
<1>2. ASSUME NEW given \in Addrs, Start(given)
      PROVE  collectors' \in [Owners -> Collector \cup {None}]
    BY <1>2, ListenType, CollectorStep DEF Start, Owners
<1>3. ASSUME NEW c \in Owners, Exit(c)
      PROVE  collectors' \in [Owners -> Collector \cup {None}]
    BY <1>3, CollectorStep DEF Exit
<1>4. ASSUME NEW given \in Addrs, InstallDaemon(given)
      PROVE  collectors' \in [Owners -> Collector \cup {None}]
    <2>1. collectors' = [collectors EXCEPT !["daemon"] =
              IF collectors["daemon"] = None THEN ListenAndServeOn(given)
                                             ELSE collectors["daemon"]]
        BY <1>4 DEF InstallDaemon
    <2>2. collectors["daemon"] \in Collector \cup {None} /\ "daemon" \in Owners
        BY DEF AttachInv, HostOK, Owners
    <2>3. QED  BY <2>1, <2>2, ListenType, CollectorStep
<1>5. ASSUME UninstallDaemon
      PROVE  collectors' \in [Owners -> Collector \cup {None}]
    BY <1>5, CollectorStep DEF UninstallDaemon, Owners
<1>6. ASSUME RestartDaemon
      PROVE  collectors' \in [Owners -> Collector \cup {None}]
    <2>1. unit \in Addrs
        BY <1>6 DEF RestartDaemon, AttachInv, UnitOK
    <2>2. QED  BY <1>6, <2>1, ListenType, CollectorStep DEF RestartDaemon, Owners
<1>7. QED
    BY <1>1, <1>2, <1>3, <1>4, <1>5, <1>6 DEF Daemon, HostOK, AttachInv

LEMMA AttachInvStep == AttachInv /\ [Next]_vars => AttachInv'
<1> SUFFICES ASSUME AttachInv, [Next]_vars PROVE AttachInv'
    OBVIOUS
<1>1. UnitOK'
    BY UnitStays DEF AttachInv
<1>2. CASE UNCHANGED <<gateway, override, up>> /\ HostOK'
    <2>1. FilesOK'
        BY <1>2 DEF AttachInv, FilesOK
    <2>2. DockerOK' /\ NetworksUp'
        BY <1>2 DEF AttachInv, DockerOK, NetworksUp, Exists
    <2>3. QED  BY <1>1, <1>2, <2>1, <2>2 DEF AttachInv
<1>3. CASE UNCHANGED <<gateway, up, collectors, rules>> /\ FilesOK'
    BY <1>1, <1>3 DEF AttachInv, DockerOK, NetworksUp, Exists, HostOK
<1>4. ASSUME NEW p \in Projects, NEW requested \in SUBSET Services,
             NEW given \in Addrs, Attach(p, requested, given)
      PROVE  AttachInv'
    BY <1>3, <1>4, AttachStays DEF Attach
<1>5. ASSUME NEW p \in Projects, RemoveComposeOverride(p) PROVE AttachInv'
    BY <1>3, <1>5, DetachKeeps DEF RemoveComposeOverride
<1>6. CASE \/ \E given \in Addrs : Start(given)
           \/ \E c \in Owners : Exit(c)
           \/ Daemon \/ RestartDaemon
    <2>1. UNCHANGED <<gateway, override, up>>
        BY <1>6 DEF Start, Exit, Daemon, InstallDaemon, UninstallDaemon, RestartDaemon
    <2>2. QED  BY <1>2, <1>6, <2>1, CollectorsKept
<1>7. CASE Firewall
    <2>1. rules' \subseteq Gateways /\ UNCHANGED <<gateway, override, up, collectors>>
        BY <1>7, PlanTypes DEF Firewall, ApplyFirewallRules, FirewallRules,
                               AttachInv, HostOK
    <2>2. QED  BY <1>2, <2>1 DEF AttachInv, HostOK
<1>8. CASE UNCHANGED vars
    BY <1>2, <1>8 DEF vars, AttachInv, HostOK
<1>9. ASSUME NEW n \in Shared, CreateShared(n) PROVE AttachInv'
    BY <1>9, SharedIsCreated
<1>10. ASSUME NEW p \in Projects, Up(p) \/ Stop(p) \/ Down(p) PROVE AttachInv'
    BY <1>10, UpKeeps, StopKeeps
<1>11. QED
    BY <1>4, <1>5, <1>6, <1>7, <1>8, <1>9, <1>10 DEF Next

LEMMA AttachInvariant == Spec => []AttachInv
<1>1. Init => AttachInv
    BY DEF Init, AttachInv, DockerOK, FilesOK, NetworksUp, HostOK, UnitOK
<1>2. QED  BY <1>1, AttachInvStep, PTL DEF Spec

-------------------------------------------------------------------------------

(* The commands leave well-formed files, processes and rules, and every     *)
(* address they take from Docker is one Docker gave (planObserveAddrs).     *)
THEOREM AttachTyped == Spec => []AttachTypeOK
<1>1. AttachInv => AttachTypeOK
    BY DEF AttachInv, DockerOK, FilesOK, HostOK, UnitOK, Sound, Collector, AttachTypeOK
<1>2. QED  BY <1>1, AttachInvariant, PTL

(* An address that attach chose by looking at the containers is that of a   *)
(* shared network an attached service is on, and stays it however often the *)
(* project goes down (SelectProjectNetwork).                                *)
THEOREM AddressOutlivesDown == Spec => []DSNOutlivesDown
<1>1. ASSUME NEW p, NEW file, Sound(gateway, p, file), file.counted
      PROVE  \E s \in file.services : \E n \in ComposeNetworks[p][s] :
                gateway[n] = file.dsn /\ n \in Shared
    BY <1>1 DEF Sound, Kept
<1>2. AttachInv => DSNOutlivesDown
    BY <1>1 DEF AttachInv, FilesOK, DSNOutlivesDown
<1>3. QED  BY <1>2, AttachInvariant, PTL

(* The "ok" of `status p` is about the address its containers carry: the    *)
(* plan chooses the same network again, since the same services run         *)
(* (selectMatch, reportObserveReachability).                                *)
THEOREM OkIsHeard == Spec => []OkMeansHeard
<1>1. ASSUME AttachInv, NEW p \in Projects, up[p] # None, up[p].counted, StatusSaysOk(p)
      PROVE  \E s \in up[p].services : Arrives(ComposeNetworks[p][s], up[p].dsn)
    <2> DEFINE n == Chosen(p, up[p].services)
    <2>1. Kept(gateway, p, up[p])
        BY <1>1 DEF AttachInv, FilesOK, Sound
    <2>2. PICK s \in up[p].services : n \in ComposeNetworks[p][s]
        BY <2>1 DEF Kept
    <2>3. Labelled(p) = up[p].services /\ n \in Shared /\ up[p].dsn = gateway[n]
        BY <1>1, <2>1 DEF Labelled, Kept
    <2>4. Matches(p) = {n}
        BY <1>1, <2>2, <2>3, MatchIsChosen
    <2>5. Arrives({n}, gateway[n])
        BY <1>1, <2>4 DEF StatusSaysOk, ProbeNetworks, ProbeFromContainer
    <2>6. Arrives(ComposeNetworks[p][s], gateway[n])
        BY <2>2, <2>5 DEF Arrives
    <2>7. QED  BY <2>2, <2>3, <2>6
<1>2. AttachInv => OkMeansHeard
    BY <1>1 DEF OkMeansHeard
<1>3. QED  BY <1>2, AttachInvariant, PTL
===============================================================================
