---------------------------- MODULE ContainerWatch ----------------------------
(***************************************************************************)
(* The container side of DevHerd Observe: the tables `containers` and      *)
(* `container_events`, filled from snapshots of `docker inspect`.  The     *)
(* poller, the handler of every event (CorrelateEvent) and `observe scan`  *)
(* all take a snapshot first and store it later, so a snapshot can be      *)
(* stored after a newer one.                                               *)
(***************************************************************************)
EXTENDS AlertRules

CONSTANTS
    Containers,     \* container ids with the label devherd.observe
    ProjectOf(_),   \* their label devherd.project
    Snapshotters,   \* who takes snapshots at the same time
    MaxChanges,     \* bound: changes Docker makes
    MaxStores       \* bound: snapshots stored

ASSUME WatchConstants ==
    /\ Containers \subseteq Subject
    /\ \A c \in Containers : ProjectOf(c) \in Projects
    /\ {MaxChanges, MaxStores} \subseteq Nat

VARIABLES
    docker,      \* what Docker knows: the truth
    changes,     \* changes so far
    taken,       \* the snapshot each snapshotter holds
    containers,  \* rows of `containers`
    history,     \* rows of `container_events`
    stores       \* snapshots stored, numbers the rows of each transaction

truth == <<docker, changes>>
watchVars == <<containers, history, stores>>
allVars == <<alertVars, truth, taken, watchVars>>

Status == {"running", "exited"}
Nothing == {}

\* One container as `docker inspect` shows it, and as its row keeps it.
Seen == [container : Containers, status : Status, restarts : Nat]

Entry == [id : Nat, container : Containers, kind : {"seen", "status", "restart"},
          status : Status, restarts : Nat, at : Nat]

WatchTypeOK ==
    /\ AlertsTypeOK
    /\ docker \subseteq Seen
    /\ \A s \in Snapshotters : taken[s] \subseteq Seen
    /\ containers \subseteq Seen
    /\ history \subseteq Entry
    /\ \A e \in history : e.id < stores /\ e.at <= clock

Fresh(c) == [container |-> c, status |-> "running", restarts |-> 0]

\* The database is new; Docker may already run any of the containers.
WatchInit ==
    /\ AlertsInit
    /\ \E present \in SUBSET Containers : docker = {Fresh(c) : c \in present}
    /\ changes = 0
    /\ taken = [s \in Snapshotters |-> Nothing]
    /\ containers = {}
    /\ history = {}
    /\ stores = 1

-------------------------------------------------------------------------------

(***************************************************************************)
(* Docker.  RestartCount counts what the restart policy does.              *)
(***************************************************************************)
Change(before, after) ==
    /\ changes < MaxChanges
    /\ changes' = changes + 1
    /\ docker' = (docker \ before) \cup after

DockerActs ==
    /\ \/ \E c \in Containers, status \in Status :
            /\ \A d \in docker : d.container # c
            /\ \A r \in containers : r.container # c
            /\ \A s \in Snapshotters : \A d \in taken[s] : d.container # c
            /\ Change({}, {[Fresh(c) EXCEPT !.status = status]})
       \/ \E d \in docker :
            \/ d.status = "running" /\ Change({d}, {[d EXCEPT !.status = "exited"]})
            \/ d.status = "exited" /\ Change({d}, {[d EXCEPT !.status = "running"]})
            \/ Change({d}, {[d EXCEPT !.status = "running", !.restarts = @ + 1]})
            \/ Change({d}, {})
    /\ UNCHANGED <<alertVars, taken, watchVars>>

(***************************************************************************)
(* Snapshots.                                                              *)
(***************************************************************************)

\* The poller and `observe scan` ask for every container, a handler for those
\* of its project.  An empty answer or an error ends it there.
ObservedContainers(s) ==
    /\ taken[s] = Nothing
    /\ \E scope \in {Projects} \cup {{p} : p \in Projects} :
        taken' = [taken EXCEPT ![s] = {d \in docker : ProjectOf(d.container) \in scope}]
    /\ UNCHANGED <<alertVars, truth, watchVars>>

\* Mutant: only an exit is a change of status.
EntriesOfExits(d, now) ==
    LET known == {r \in containers : r.container = d.container}
        entry(kind) == [id |-> stores, container |-> d.container, kind |-> kind,
                        status |-> d.status, restarts |-> d.restarts, at |-> now]
    IN {entry(kind) : kind \in
          {k \in {"seen", "status", "restart"} :
             \/ k = "seen" /\ known = {}
             \/ /\ k = "status" /\ d.status = "exited"
                /\ \E r \in known : r.status = "running"
             \/ k = "restart" /\ \E r \in known : d.restarts > r.restarts}}

\* containerEventsForSnapshot: what one container's new state says.
EntriesFor(d, now) ==
    LET known == {r \in containers : r.container = d.container}
        entry(kind) == [id |-> stores, container |-> d.container, kind |-> kind,
                        status |-> d.status, restarts |-> d.restarts, at |-> now]
    IN {entry(kind) : kind \in
          {k \in {"seen", "status", "restart"} :
             \/ k = "seen" /\ known = {}
             \/ k = "status" /\ \E r \in known : r.status # d.status
             \/ k = "restart" /\ \E r \in known : d.restarts > r.restarts}}

\* Mutant: rules for every project are not matched.
SaysOwn(a, entry) ==
    /\ a.project = ProjectOf(entry.container)
    /\ \/ a.kind = "container-exit" /\ entry.kind = "status" /\ entry.status = "exited"
       \/ a.kind = "container-restart" /\ entry.kind = "restart"

Says(a, entry) ==
    /\ a \in MatchingAlerts(ProjectOf(entry.container))
    /\ \/ a.kind = "container-exit" /\ entry.kind = "status" /\ entry.status = "exited"
       \/ a.kind = "container-restart" /\ entry.kind = "restart"

Row(a, entry, now) ==
    [id |-> nextDelivery, alert |-> a.id, subject |-> entry.container, at |-> now]

\* Mutant: the silence is looked up once, before the first entry.
DeliverEveryEntry(entries, now) ==
    LET speaking == {a \in alerts : ~AlertIsSilenced(a, now)}
        spoken == {p \in speaking \X entries : Says(p[1], p[2])}
    IN /\ deliveries' = deliveries \cup {Row(p[1], p[2], now) : p \in spoken}
       /\ nextDelivery' = IF spoken = {} THEN nextDelivery ELSE nextDelivery + 1

\* A rule with a cooldown delivers for the first entry that concerns it (the
\* order is Docker's) and is silent for the rest of the transaction; one
\* without delivers for each.
DeliverEntries(entries, now) ==
    LET speaking == {a \in alerts : /\ \E e \in entries : Says(a, e)
                                    /\ ~AlertIsSilenced(a, now)}
        subjects(a) == {e \in entries : Says(a, e)}
    IN /\ \E first \in [speaking -> entries] :
            /\ \A a \in speaking : first[a] \in subjects(a)
            /\ deliveries' = deliveries \cup
                 UNION {IF a.cooldown > 0 THEN {Row(a, first[a], now)}
                        ELSE {Row(a, e, now) : e \in subjects(a)} : a \in speaking}
       /\ nextDelivery' = IF speaking = {} THEN nextDelivery ELSE nextDelivery + 1

\* One transaction; `now` is read before it begins.
StoreContainers(s, now) ==
    /\ taken[s] # Nothing
    /\ stores <= MaxStores
    /\ LET entries == UNION {EntriesFor(d, now) : d \in taken[s]}
       IN /\ containers' = taken[s] \cup
               {r \in containers : \A d \in taken[s] : d.container # r.container}
          /\ history' = history \cup entries
          /\ DeliverEntries(entries, now)
    /\ stores' = stores + 1
    /\ taken' = [taken EXCEPT ![s] = Nothing]
    /\ UNCHANGED <<clock, ruleVars, truth>>

\* The transaction fails, or the process dies between the two.
LoseSnapshot(s) ==
    /\ taken[s] # Nothing
    /\ taken' = [taken EXCEPT ![s] = Nothing]
    /\ UNCHANGED <<alertVars, truth, watchVars>>

\* Rows of `containers` never expire.
CleanupContainerEvents(cutoff) ==
    /\ ForgetDeliveries(cutoff)
    /\ history' = {e \in history : e.at >= cutoff}
    /\ UNCHANGED <<clock, ruleVars, truth, taken, containers, stores>>

others == <<truth, taken, watchVars>>

WatchNext ==
    \/ Tick /\ UNCHANGED <<ruleVars, deliveryVars, others>>
    \/ AddSomeAlert /\ UNCHANGED others
    \/ RemoveSomeAlert /\ UNCHANGED others
    \/ DockerActs
    \/ \E s \in Snapshotters :
        \/ ObservedContainers(s)
        \/ \E now \in Readings : StoreContainers(s, now)
        \/ LoseSnapshot(s)
    \/ \E days \in Retentions, now \in Readings : CleanupContainerEvents(now - days)

WatchSpec == WatchInit /\ [][WatchNext]_allVars

-------------------------------------------------------------------------------
(***************************************************************************)
(* Properties.                                                             *)
(***************************************************************************)

EntriesOf(c) == {e \in history : e.container = c}

\* The inventory has one row per container, and the timeline explains it:
\* the last entry of a container that is not a restart, if cleanup has left
\* any, carries the status of its row, whatever the order the snapshots were
\* stored in.  For MaxLag = 0: cleanup goes by the time of an entry.
TimelineAgrees ==
    /\ \A r, q \in containers : r.container = q.container => r = q
    /\ \A r \in containers, e \in history :
         \/ e.container # r.container \/ e.kind = "restart" \/ e.status = r.status
         \/ \E f \in EntriesOf(r.container) : f.id > e.id /\ f.status = r.status

\* An exit is announced: when the row of a container goes from running to
\* exited, each container-exit rule of its project delivers in that
\* transaction or delivered less than a cooldown ago.
ExitIsAnnounced ==
    [][\A r \in containers, q \in containers' :
        (r.container = q.container /\ r.status = "running" /\ q.status = "exited") =>
            \A a \in MatchingAlerts(ProjectOf(r.container)) :
                a.kind = "container-exit" =>
                    \/ \E d \in deliveries' \ deliveries : d.alert = a.id
                    \/ RecentlySpoke(a)]_allVars
===============================================================================
