---------------------------- MODULE ProjectRegistry ----------------------------
(***************************************************************************)
(* The registry of DevHerd: the tables `projects` and `project_domains`,   *)
(* and the commands `park` and `domain set`.  `park` is not one            *)
(* transaction but a run of them over what it read from the disk at its    *)
(* start, so the commands of two terminals interleave.  The table `parks`  *)
(* is written by it and read by nothing; it is left out.                   *)
(*                                                                         *)
(* Base names are numbered in alphabetical order.                          *)
(***************************************************************************)
EXTENDS Detection

CONSTANTS
    Terminals,      \* each runs one command at a time
    Name,           \* base name of each directory
    Domains,
    DefaultDomain,  \* primaryDomain(name, tld), for each name
    Like,           \* what `path LIKE root/%` matches, for each root
    InitialDisk,    \* what the disk holds at first
    InitialRows,    \* the projects registered at first, with default domains
    Contents,       \* what a user may put in a directory
    MaxChanges,     \* bound: changes of the disk
    MaxProjects,    \* bound: rows ever inserted
    Idle            \* no command runs

\* The directories below r, at any depth.
Below[r \in Dirs] ==
    LET under[n \in 0..Cardinality(Dirs)] ==
            IF n = 0 THEN {}
            ELSE {d \in Dirs : Parent[d] \in {r} \cup under[n - 1]}
    IN under[Cardinality(Dirs)]

\* LIKE ignores case and reads `_` as any character: it may match more.
ASSUME RegistryConstants ==
    /\ Name \in [Dirs -> Nat]
    /\ \A d \in Dirs : DefaultDomain[Name[d]] \in Domains
    /\ \A r \in Dirs : Below[r] \subseteq Like[r] /\ Like[r] \subseteq Dirs \ {r}
    /\ \A d \in Dirs : Parent[d] # NoDir => d \in Like[Parent[d]]
    /\ DOMAIN InitialDisk \subseteq Dirs
    /\ \A d \in DOMAIN InitialDisk : InitialDisk[d] \subseteq Mark
    /\ \A q \in InitialRows : q.id \in 1..Cardinality(InitialRows)
    /\ \A c \in Contents : c \subseteq Mark
    /\ MaxChanges \in Nat
    /\ MaxProjects \in Nat

VARIABLES
    changes,      \* changes of the disk so far
    projects,     \* rows of `projects`
    nextProject,  \* its AUTOINCREMENT counter
    domains,      \* rows of `project_domains`
    parking,      \* per terminal, the park command it runs
    calm          \* history: nothing else happened since that park started

tableVars == <<projects, nextProject, domains>>
registryVars == <<disk, changes, projects, nextProject, domains, parking, calm>>

Found == [name : Nat, path : Dirs, framework : Frameworks]
Project == [id : Nat, name : Nat, path : Dirs, framework : Frameworks]

\* The rows registered at first are rows that parks have left.
ASSUME InitialRowsAgree ==
    /\ InitialRows \subseteq Project /\ IsFiniteSet(InitialRows)
    /\ \A q \in InitialRows : q.name = Name[q.path]
    /\ \A q, r \in InitialRows :
        (\/ q.id = r.id
         \/ DefaultDomain[q.name] = DefaultDomain[r.name]) => q = r

ProjectDomain == [project : Nat, domain : Domains]

\* `keep` is what Discover found, `todo` what is still to be upserted.
Parking == [root : Dirs, todo : SUBSET Found, keep : SUBSET Dirs]

RegistryTypeOK ==
    /\ Existing \subseteq Dirs /\ \A d \in Existing : disk[d] \subseteq Mark
    /\ changes \in Nat
    /\ projects \subseteq Project
    /\ nextProject \in Nat
    /\ domains \subseteq ProjectDomain
    /\ \A t \in Terminals : parking[t] = Idle \/ parking[t] \in Parking
    /\ calm \subseteq Terminals

RegistryInit ==
    /\ disk = InitialDisk
    /\ changes = 0
    /\ projects = InitialRows
    /\ nextProject = Cardinality(InitialRows) + 1
    /\ domains = {[project |-> q.id, domain |-> DefaultDomain[q.name]] :
                    q \in InitialRows}
    /\ parking = [t \in Terminals |-> Idle]
    /\ calm = {}

-------------------------------------------------------------------------------
(***************************************************************************)
(* The user changes the disk.                                              *)
(***************************************************************************)
Change ==
    /\ changes < MaxChanges
    /\ changes' = changes + 1
    /\ calm' = {}
    /\ UNCHANGED <<tableVars, parking>>

Make(d, contents) ==
    /\ d \notin Existing
    /\ Parent[d] \in Existing
    /\ disk' = [e \in Existing \cup {d} |-> IF e = d THEN contents ELSE disk[e]]
    /\ Change

Delete(d) ==
    /\ d \in Existing /\ Parent[d] # NoDir
    /\ disk' = [e \in Existing \ ({d} \cup Below[d]) |-> disk[e]]
    /\ Change

-------------------------------------------------------------------------------
(***************************************************************************)
(* The tables.                                                             *)
(***************************************************************************)
At(path) == {q \in projects : q.path = path}
DomainsOf(id) == {r.domain : r \in {s \in domains : s.project = id}}

NameTaken(name, path) == \E q \in projects : q.name = name /\ q.path # path

DomainAvailable(id, domain) ==
    \A r \in domains : r.domain = domain => r.project = id

SetDomain(id, domain) ==
    domains' = {r \in domains : r.project # id}
                 \cup {[project |-> id, domain |-> domain]}

\* Mutant: the default domain replaces the user's.
PrimaryDomainReset(id, name) == DefaultDomain[name]

\* Mutant: the TLD is not appended.
PrimaryDomainBare(id, name) ==
    IF DomainsOf(id) = {} THEN name ELSE CHOOSE d \in DomainsOf(id) : TRUE

\* A row that has a domain keeps it.
PrimaryDomain(id, name) ==
    IF DomainsOf(id) = {} THEN DefaultDomain[name]
    ELSE CHOOSE d \in DomainsOf(id) : TRUE

RowId(path) == IF At(path) = {} THEN nextProject
               ELSE (CHOOSE q \in At(path) : TRUE).id

UpsertSucceeds(p) ==
    LET id == RowId(p.path)
    IN /\ ~NameTaken(p.name, p.path)
       /\ DomainAvailable(id, PrimaryDomain(id, p.name))

UpsertProject(p) ==
    LET id == RowId(p.path)
    IN /\ id <= MaxProjects
       /\ projects' = (projects \ At(p.path)) \cup
            {[id |-> id, name |-> p.name, path |-> p.path,
              framework |-> p.framework]}
       /\ nextProject' = IF id = nextProject THEN nextProject + 1
                                             ELSE nextProject
       /\ SetDomain(id, PrimaryDomain(id, p.name))

\* Mutant: the rows go, their domains stay.
RemoveProjectsOnly(gone) ==
    /\ projects' = projects \ gone
    /\ UNCHANGED <<nextProject, domains>>

\* ON DELETE CASCADE takes the domains with the rows.
RemoveProjects(gone) ==
    /\ projects' = projects \ gone
    /\ domains' = {r \in domains : \A q \in gone : q.id # r.project}
    /\ UNCHANGED nextProject

\* Mutant: the root itself is out of reach.
PruneBelow(root, keep) ==
    RemoveProjects({q \in projects : q.path \in Like[root] \ keep})

\* `status = 'detected'` holds of every row: nothing else is ever written.
PruneDetectedProjectsUnderPath(root, keep) ==
    RemoveProjects({q \in projects : /\ q.path \in {root} \cup Like[root]
                                     /\ q.path \notin keep})

-------------------------------------------------------------------------------
(***************************************************************************)
(* `devherd park root`.                                                    *)
(***************************************************************************)
Snapshot(d) == [name |-> Name[d], path |-> d, framework |-> Framework(Features(d))]

\* Detection fails as a whole or not at all.
ParkStart(t, root) ==
    /\ parking[t] = Idle
    /\ root \in Existing
    /\ parking' = [parking EXCEPT ![t] =
         IF DiscoverFails(root) THEN Idle
         ELSE [root |-> root, keep |-> Discover(root),
               todo |-> {Snapshot(d) : d \in Discover(root)}]]
    /\ calm' = calm \cup {t}
    /\ UNCHANGED <<disk, changes, tableVars>>

\* One transaction per project in order of name.  One that fails ends the
\* command: what came before stays, nothing is pruned.
ParkNext(t) ==
    /\ parking[t] # Idle
    /\ \E p \in parking[t].todo :
        /\ \A q \in parking[t].todo : p.name <= q.name
        /\ \/ /\ UpsertSucceeds(p)
              /\ UpsertProject(p)
              /\ parking' = [parking EXCEPT ![t].todo = @ \ {p}]
           \/ /\ ~UpsertSucceeds(p)
              /\ parking' = [parking EXCEPT ![t] = Idle]
              /\ UNCHANGED tableVars
    /\ calm' = calm \cap {t}
    /\ UNCHANGED <<disk, changes>>

ParkPrune(t) ==
    /\ parking[t] # Idle
    /\ parking[t].todo = {}
    /\ PruneDetectedProjectsUnderPath(parking[t].root, parking[t].keep)
    /\ parking' = [parking EXCEPT ![t] = Idle]
    /\ calm' = {}
    /\ UNCHANGED <<disk, changes>>

\* The user interrupts it, or the database is locked for longer than the
\* busy timeout.
ParkDies(t) ==
    /\ parking[t] # Idle
    /\ parking' = [parking EXCEPT ![t] = Idle]
    /\ calm' = calm \ {t}
    /\ UNCHANGED <<disk, changes, tableVars>>

Park(t) ==
    \/ \E root \in Existing : ParkStart(t, root)
    \/ ParkNext(t)
    \/ ParkPrune(t)
    \/ ParkDies(t)

\* `devherd domain set`, one transaction.
SetPrimaryDomain(name, domain) ==
    /\ \E q \in projects : /\ q.name = name
                           /\ DomainAvailable(q.id, domain)
                           /\ SetDomain(q.id, domain)
    /\ calm' = {}
    /\ UNCHANGED <<disk, changes, projects, nextProject, parking>>

RegistryNext ==
    \/ \E d \in Dirs, contents \in Contents : Make(d, contents)
    \/ \E d \in Dirs : Delete(d)
    \/ \E t \in Terminals : Park(t)
    \/ \E q \in projects, domain \in Domains : SetPrimaryDomain(q.name, domain)

RegistrySpec == RegistryInit /\ [][RegistryNext]_registryVars

-------------------------------------------------------------------------------
(***************************************************************************)
(* Properties.                                                             *)
(***************************************************************************)

\* The rows identify projects and agree with each other: names, paths and
\* domains are unique and every project has exactly one domain, whatever
\* parks fail halfway or run at the same time.
RegistryIntegrity ==
    /\ \A q, r \in projects :
        q.id = r.id \/ q.path = r.path \/ q.name = r.name => q = r
    /\ \A q \in projects : q.id < nextProject
    /\ \A q \in projects : Cardinality(DomainsOf(q.id)) = 1
    /\ \A r, s \in domains : r.domain = s.domain => r = s
    /\ \A r \in domains : \E q \in projects : q.id = r.project

ParkSteps(t) == parking'[t] # parking[t]

\* "Los dominios personalizados previos se conservan": no step of a park
\* changes the domain of a project that stays registered.
ParkKeepsDomains ==
    [][\A t \in Terminals : ParkSteps(t) =>
        \A q \in projects : (\E r \in projects' : r.id = q.id) =>
            DomainsOf(q.id)' = DomainsOf(q.id)]_registryVars

InScope(table, root) ==
    {q.path : q \in {r \in table : r.path \in {root} \cup Like[root]}}

StillProject(d) == d \in Existing /\ Features(d) # {}

\* A park that runs to its end while nothing else happens registers all that
\* Discover finds, keeps nothing in its reach that is no project any more, and
\* never takes a project that the disk still holds out of the two levels it
\* scanned, unless the root owns it; however many transactions it took and
\* whatever failed parks left behind.  A project further down it does take.
ParkMirrorsDisk ==
    [][\A t \in calm : ParkPrune(t) =>
        LET root == parking[t].root
        IN /\ Discover(root) \subseteq InScope(projects', root)
           /\ \A d \in InScope(projects', root) : StillProject(d)
           /\ \A q \in projects \ projects' :
                StillProject(q.path) /\ q.path \in Candidates(root) =>
                    OwnsChildren(root) /\ q.path # root
    ]_registryVars
===============================================================================
