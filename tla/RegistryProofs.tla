--------------------------- MODULE RegistryProofs ---------------------------
(***************************************************************************)
(* The registry for any tree of directories, any number of terminals and   *)
(* any interleaving of their transactions; and, on top of it, what the     *)
(* commands that publish projects do to the Caddyfile, to /etc/hosts and   *)
(* to what they have promised.                                             *)
(***************************************************************************)
EXTENDS ExternalProxy, FiniteSetTheorems, SequenceTheorems, TLAPS

-------------------------------------------------------------------------------
(***************************************************************************)
(* The invariant.  What a park still has to upsert carries the names of    *)
(* the disk; a park that runs undisturbed holds what the disk says now.    *)
(***************************************************************************)
CalmParks ==
    \A t \in calm : parking[t] # Idle =>
        /\ parking[t].root \in Existing
        /\ parking[t].keep = Discover(parking[t].root)
        /\ \A d \in parking[t].keep :
            (\E p \in parking[t].todo : p.path = d) \/ (\E q \in projects : q.path = d)

ParkingIsFunction == parking = [t \in Terminals |-> parking[t]]

OneDomainEach == \A q \in projects : \E d \in Domains : DomainsOf(q.id) = {d}

RowsAgree ==
    /\ \A q, r \in projects :
        q.id = r.id \/ q.path = r.path \/ q.name = r.name => q = r
    /\ \A q \in projects : q.id < nextProject
    /\ OneDomainEach
    /\ \A r, s \in domains : r.domain = s.domain => r = s
    /\ \A r \in domains : \E q \in projects : q.id = r.project

\* The parts that speak of the tables alone.
TablesOK == /\ projects \subseteq Project /\ nextProject \in Nat
            /\ domains \subseteq ProjectDomain
            /\ \A q \in projects : q.name = Name[q.path]
            /\ RowsAgree

ParksOK ==
    /\ ParkingIsFunction
    /\ \A t \in Terminals : parking[t] # Idle =>
        /\ parking[t] \in Parking
        /\ \A p \in parking[t].todo : p.name = Name[p.path]

DiskOK == /\ Existing \subseteq Dirs /\ \A d \in Existing : disk[d] \subseteq Mark
          /\ changes \in Nat /\ calm \subseteq Terminals

RegistryInv == TablesOK /\ ParksOK /\ DiskOK /\ CalmParks

LEMMA InvImplies == RegistryInv => RegistryTypeOK /\ RegistryIntegrity
<1> SUFFICES ASSUME RegistryInv PROVE RegistryTypeOK /\ RegistryIntegrity
    OBVIOUS
<1>1. RegistryTypeOK
    BY DEF RegistryInv, RegistryTypeOK, TablesOK, ParksOK, DiskOK
<1>2. \A q \in projects : Cardinality(DomainsOf(q.id)) = 1
    BY FS_Singleton DEF RegistryInv, TablesOK, RowsAgree, OneDomainEach
<1>3. QED  BY <1>1, <1>2 DEF RegistryInv, TablesOK, RowsAgree, RegistryIntegrity

-------------------------------------------------------------------------------
(***************************************************************************)
(* Detection.                                                              *)
(***************************************************************************)
LEMMA FrameworkIsNamed ==
    ASSUME NEW features
    PROVE  Framework(features) \in Frameworks
<1> DEFINE named == {i \in DOMAIN Precedence : Precedence[i] \in features}
<1>1. ASSUME named # {} PROVE \E i \in named : \A j \in named : i <= j
    BY <1>1, SMTT(30) DEF Precedence
<1>2. CASE {"vue", "flask"} \subseteq features
    <2>1. Framework(features) = "vue+flask"
        BY <1>2, Zenon DEF Framework
    <2>2. QED  BY <2>1 DEF Frameworks
<1>3. CASE ~({"vue", "flask"} \subseteq features) /\ named = {}
    <2>1. Framework(features) = "unknown"
        BY <1>3, Zenon DEF Framework
    <2>2. QED  BY <2>1 DEF Frameworks
<1>4. CASE ~({"vue", "flask"} \subseteq features) /\ named # {}
    <2> DEFINE least == CHOOSE i \in named : \A j \in named : i <= j
    <2>1. least \in DOMAIN Precedence
        BY <1>1, <1>4
    <2>2. Framework(features) = Precedence[least]
        BY <1>4, Zenon DEF Framework
    <2>3. QED  BY <2>1, <2>2 DEF Frameworks
<1>5. QED  BY <1>2, <1>3, <1>4

\* Discover finds directories in reach of the prune.
LEMMA DiscoverInReach ==
    ASSUME NEW root \in Dirs, Existing \subseteq Dirs
    PROVE  /\ Discover(root) \subseteq Dirs
           /\ Discover(root) \subseteq {root} \cup Like[root]
<1>1. Discover(root) \subseteq Candidates(root)
    BY DEF Discover
<1>2. Candidates(root) \subseteq Dirs
    BY DEF Candidates, Subdirectories
<1>3. Candidates(root) \subseteq {root} \cup Like[root]
    BY RegistryConstants, DetectionConstants DEF Candidates, Subdirectories
<1>4. QED  BY <1>1, <1>2, <1>3

LEMMA SnapshotIsFound ==
    ASSUME NEW d \in Dirs
    PROVE  /\ Snapshot(d) \in Found
           /\ Snapshot(d).name = Name[d] /\ Snapshot(d).path = d
<1>1. Framework(Features(d)) \in Frameworks
    BY FrameworkIsNamed
<1>2. Name[d] \in Nat
    BY RegistryConstants
<1>3. QED  BY <1>1, <1>2 DEF Snapshot, Found

-------------------------------------------------------------------------------
(***************************************************************************)
(* The tables: each operation on them keeps the rows well formed.          *)
(***************************************************************************)
LEMMA SetDomainEffect ==
    ASSUME domains \subseteq ProjectDomain, NEW id \in Nat, NEW d \in Domains,
           SetDomain(id, d)
    PROVE  /\ domains' \subseteq ProjectDomain
           /\ DomainsOf(id)' = {d}
           /\ \A i : i # id => DomainsOf(i)' = DomainsOf(i)
           /\ \A r \in domains' :
                \/ r.project = id /\ r.domain = d /\ r = [project |-> id, domain |-> d]
                \/ r \in domains /\ r.project # id
<1>1. domains' = {r \in domains : r.project # id} \cup {[project |-> id, domain |-> d]}
    BY DEF SetDomain
<1>2. domains' \subseteq ProjectDomain
    BY <1>1 DEF ProjectDomain
<1>3. DomainsOf(id)' = {d}
    <2> DEFINE own == {s \in domains' : s.project = id}
    <2>1. own = {[project |-> id, domain |-> d]}
        BY <1>1
    <2>2. {r.domain : r \in {[project |-> id, domain |-> d]}} = {d}
        OBVIOUS
    <2>3. QED  BY <2>1, <2>2, Zenon DEF DomainsOf
<1>4. ASSUME NEW i, i # id PROVE DomainsOf(i)' = DomainsOf(i)
    BY <1>1, <1>4 DEF DomainsOf
<1>5. QED  BY <1>1, <1>2, <1>3, <1>4

LEMMA UniqueAfterSet ==
    ASSUME domains \subseteq ProjectDomain, NEW id \in Nat, NEW d \in Domains,
           SetDomain(id, d), DomainAvailable(id, d),
           \A r, s \in domains : r.domain = s.domain => r = s
    PROVE  \A r, s \in domains' : r.domain = s.domain => r = s
<1> TAKE r, s \in domains'
<1>1. r \in domains \/ r = [project |-> id, domain |-> d]
    BY SetDomainEffect
<1>2. s \in domains \/ s = [project |-> id, domain |-> d]
    BY SetDomainEffect
<1>3. \A x \in domains' : x \in domains /\ x.domain = d => x = [project |-> id, domain |-> d]
    BY SetDomainEffect DEF DomainAvailable
<1>4. QED  BY <1>1, <1>2, <1>3

\* A project keeps its domain if it has one.
LEMMA DomainKept ==
    ASSUME TablesOK, NEW p, p.path \in Dirs, p.name = Name[p.path]
    PROVE  LET id == RowId(p.path) IN
           /\ id \in Nat
           /\ PrimaryDomain(id, p.name) \in Domains
           /\ At(p.path) = {} => id = nextProject
           /\ At(p.path) # {} =>
                \E q \in projects : /\ q.path = p.path /\ q.id = id
                                    /\ DomainsOf(id) = {PrimaryDomain(id, p.name)}
<1> DEFINE id == RowId(p.path)
<1> USE DEF TablesOK, RowsAgree
<1>1. DefaultDomain[p.name] \in Domains
    BY RegistryConstants
<1>2. DomainsOf(id) \subseteq Domains
    BY DEF DomainsOf, ProjectDomain
<1>3. PrimaryDomain(id, p.name) \in Domains
    BY <1>1, <1>2 DEF PrimaryDomain
<1>4. CASE At(p.path) = {}
    BY <1>3, <1>4 DEF RowId
<1>5. CASE At(p.path) # {}
    <2>1. PICK q \in projects : q.path = p.path /\ q.id = id
        BY <1>5 DEF RowId, At
    <2>2. PICK d \in Domains : DomainsOf(q.id) = {d}
        BY <2>1 DEF OneDomainEach
    <2>3. PrimaryDomain(id, p.name) = d
        BY <2>1, <2>2 DEF PrimaryDomain
    <2>4. id \in Nat
        BY <2>1 DEF Project
    <2>5. QED  BY <1>3, <1>5, <2>1, <2>2, <2>3, <2>4
<1>6. QED  BY <1>4, <1>5

LEMMA UpsertKeeps ==
    ASSUME TablesOK, NEW p \in Found, p.name = Name[p.path],
           UpsertSucceeds(p), UpsertProject(p)
    PROVE  /\ TablesOK'
           /\ \A q \in projects : q \in projects' \/ q.path = p.path
           /\ \E q \in projects' : q.path = p.path
           /\ \A q \in projects : DomainsOf(q.id)' = DomainsOf(q.id)
<1>1. PICK id \in Nat, d \in Domains :
        /\ id = RowId(p.path) /\ d = PrimaryDomain(id, p.name)
        /\ At(p.path) = {} => id = nextProject
        /\ At(p.path) # {} =>
            \E q \in projects : q.path = p.path /\ q.id = id /\ DomainsOf(id) = {d}
    BY DomainKept DEF Found
<1>2. PICK new : new = [id |-> id, name |-> p.name, path |-> p.path,
                        framework |-> p.framework]
    OBVIOUS
<1>3. /\ projects' = (projects \ At(p.path)) \cup {new}
      /\ nextProject' = IF id = nextProject THEN nextProject + 1 ELSE nextProject
      /\ SetDomain(id, d)
    BY <1>1, <1>2 DEF UpsertProject
<1>4. ~NameTaken(p.name, p.path) /\ DomainAvailable(id, d)
    BY <1>1 DEF UpsertSucceeds
<1>a. At(p.path) = {q \in projects : q.path = p.path}
    BY DEF At
<1>5. /\ new \in Project /\ new.id = id /\ new.name = p.name /\ new.path = p.path
    BY <1>1, <1>2 DEF Found, Project
<1>6. \A q \in projects : q.id = id <=> q.path = p.path
    <2>1. ASSUME NEW q \in projects, q.path = p.path PROVE q.id = id
        BY <1>1, <1>a, <2>1 DEF TablesOK, RowsAgree
    <2>2. ASSUME NEW q \in projects, q.id = id PROVE q.path = p.path
        <3>1. id # nextProject
            BY <2>2 DEF TablesOK, RowsAgree
        <3>2. QED  BY <1>1, <2>2, <3>1 DEF TablesOK, RowsAgree
    <2>3. QED  BY <2>1, <2>2
<1>7. id <= nextProject /\ (id = nextProject \/ id < nextProject)
    BY <1>1 DEF TablesOK, RowsAgree
<1>8. /\ domains' \subseteq ProjectDomain
      /\ DomainsOf(id)' = {d}
      /\ \A i : i # id => DomainsOf(i)' = DomainsOf(i)
      /\ \A r \in domains' : r.project = id \/ (r \in domains /\ r.project # id)
    BY <1>1, <1>3, SetDomainEffect DEF TablesOK
<1>9. \A q \in projects : DomainsOf(q.id)' = DomainsOf(q.id)
    <2> TAKE q \in projects
    <2>1. CASE q.id = id
        BY <1>1, <1>a, <1>6, <1>8, <2>1
    <2>2. CASE q.id # id
        BY <1>8, <2>2
    <2>3. QED  BY <2>1, <2>2
<1>10. /\ projects' \subseteq Project /\ nextProject' \in Nat
       /\ \A q \in projects' : q.name = Name[q.path]
    BY <1>3, <1>5 DEF TablesOK
<1>11. RowsAgree'
    <2>1. \A q, r \in projects' :
             q.id = r.id \/ q.path = r.path \/ q.name = r.name => q = r
        <3>1. \A q \in projects' : q = new \/ (q \in projects /\ q.path # p.path)
            BY <1>3, <1>a
        <3>2. \A q \in projects : q.path # p.path => q.id # id /\ q.name # p.name
            BY <1>4, <1>6 DEF NameTaken
        <3>3. QED  BY <1>5, <3>1, <3>2 DEF TablesOK, RowsAgree
    <2>2. \A q \in projects' : q.id < nextProject'
        BY <1>1, <1>3, <1>5, <1>7 DEF TablesOK, RowsAgree, Project
    <2>3. OneDomainEach'
        <3> SUFFICES ASSUME NEW q \in projects'
                     PROVE  \E e \in Domains : DomainsOf(q.id)' = {e}
            BY DEF OneDomainEach
        <3>1. CASE q = new
            BY <1>1, <1>5, <1>8, <3>1
        <3>2. CASE q \in projects
            BY <1>9, <3>2 DEF TablesOK, RowsAgree, OneDomainEach
        <3>3. QED  BY <1>3, <3>1, <3>2
    <2>4. \A r, s \in domains' : r.domain = s.domain => r = s
        BY <1>1, <1>3, <1>4, UniqueAfterSet DEF TablesOK, RowsAgree
    <2>5. \A r \in domains' : \E q \in projects' : q.id = r.project
        <3> TAKE r \in domains'
        <3>1. CASE r.project = id
            BY <1>3, <1>5, <3>1
        <3>2. CASE r \in domains /\ r.project # id
            <4>1. PICK q \in projects : q.id = r.project
                BY <3>2 DEF TablesOK, RowsAgree
            <4>2. q \in projects'
                BY <1>3, <1>a, <1>6, <3>2, <4>1
            <4>3. QED  BY <4>1, <4>2
        <3>3. QED  BY <1>8, <3>1, <3>2
    <2>6. QED  BY <2>1, <2>2, <2>3, <2>4, <2>5 DEF RowsAgree
<1>12. TablesOK'
    BY <1>8, <1>10, <1>11 DEF TablesOK
<1>13. QED  BY <1>3, <1>a, <1>5, <1>9, <1>12

LEMMA RemoveKeeps ==
    ASSUME TablesOK, NEW gone \in SUBSET projects, RemoveProjects(gone)
    PROVE  /\ TablesOK'
           /\ \A q \in projects' : DomainsOf(q.id)' = DomainsOf(q.id)
<1>1. /\ projects' = projects \ gone /\ nextProject' = nextProject
      /\ domains' = {r \in domains : \A q \in gone : q.id # r.project}
    BY DEF RemoveProjects
<1>2. \A q \in projects', r \in domains : r.project = q.id => r \in domains'
    BY <1>1 DEF TablesOK, RowsAgree
<1>3. \A q \in projects' : DomainsOf(q.id)' = DomainsOf(q.id)
    <2> TAKE q \in projects'
    <2>1. {s \in domains' : s.project = q.id} = {s \in domains : s.project = q.id}
        BY <1>1, <1>2
    <2>2. QED  BY <2>1 DEF DomainsOf
<1>4. OneDomainEach'
    BY <1>1, <1>3 DEF OneDomainEach, TablesOK, RowsAgree
<1>5. \A r \in domains' : \E q \in projects' : q.id = r.project
    BY <1>1 DEF TablesOK, RowsAgree
<1>6. RowsAgree'
    BY <1>1, <1>4, <1>5 DEF TablesOK, RowsAgree
<1>7. TablesOK'
    BY <1>1, <1>6 DEF TablesOK
<1>8. QED  BY <1>3, <1>7

LEMMA SetKeeps ==
    ASSUME TablesOK, NEW q \in projects, NEW d \in Domains,
           DomainAvailable(q.id, d), SetDomain(q.id, d), UNCHANGED <<projects, nextProject>>
    PROVE  TablesOK'
<1>1. q.id \in Nat
    BY DEF TablesOK, Project
<1>2. /\ domains' \subseteq ProjectDomain
      /\ DomainsOf(q.id)' = {d}
      /\ \A i : i # q.id => DomainsOf(i)' = DomainsOf(i)
      /\ \A r \in domains' : r.project = q.id \/ r \in domains
    BY <1>1, SetDomainEffect DEF TablesOK
<1>3. OneDomainEach'
    <2> SUFFICES ASSUME NEW r \in projects PROVE \E e \in Domains : DomainsOf(r.id)' = {e}
        BY DEF OneDomainEach
    <2>1. CASE r.id = q.id
        BY <1>2, <2>1
    <2>2. CASE r.id # q.id
        BY <1>2, <2>2 DEF TablesOK, RowsAgree, OneDomainEach
    <2>3. QED  BY <2>1, <2>2
<1>4. \A r, s \in domains' : r.domain = s.domain => r = s
    BY <1>1, UniqueAfterSet DEF TablesOK, RowsAgree
<1>5. \A r \in domains' : \E p \in projects : p.id = r.project
    BY <1>2 DEF TablesOK, RowsAgree
<1>6. RowsAgree'
    BY <1>3, <1>4, <1>5 DEF TablesOK, RowsAgree
<1>7. QED  BY <1>2, <1>6 DEF TablesOK

-------------------------------------------------------------------------------
(***************************************************************************)
(* The invariant holds at first and each action keeps it.                  *)
(***************************************************************************)
LEMMA InitEstablishes == RegistryInit => RegistryInv
<1> SUFFICES ASSUME RegistryInit PROVE RegistryInv
    OBVIOUS
<1> USE DEF RegistryInit
<1>1. InitialRows \subseteq Project /\ IsFiniteSet(InitialRows)
    BY InitialRowsAgree
<1>2. Cardinality(InitialRows) \in Nat
    BY <1>1, FS_CardinalityType
<1>3. \A q \in InitialRows : /\ q.id \in Nat /\ q.name = Name[q.path]
                             /\ q.id < nextProject
                             /\ DefaultDomain[q.name] \in Domains
    BY <1>1, <1>2, RegistryConstants, InitialRowsAgree DEF Project
<1>4. \A r \in domains : \E q \in InitialRows :
        r = [project |-> q.id, domain |-> DefaultDomain[q.name]]
    OBVIOUS
<1>5. domains \subseteq ProjectDomain
    BY <1>3 DEF ProjectDomain
<1>6. \A q, r \in InitialRows : q.path = r.path => q.name = r.name
    BY <1>3
<1>7. \A q, r \in InitialRows : q.id = r.id \/ q.path = r.path \/ q.name = r.name => q = r
    BY <1>6, InitialRowsAgree
<1>8. OneDomainEach
    <2> SUFFICES ASSUME NEW q \in InitialRows
                 PROVE  \E d \in Domains : DomainsOf(q.id) = {d}
        BY DEF OneDomainEach
    <2>1. [project |-> q.id, domain |-> DefaultDomain[q.name]] \in domains
        OBVIOUS
    <2>2. \A r \in domains : r.project = q.id => r.domain = DefaultDomain[q.name]
        BY <1>4, <1>7
    <2>3. DomainsOf(q.id) = {DefaultDomain[q.name]}
        BY <2>1, <2>2 DEF DomainsOf
    <2>4. QED  BY <1>3, <2>3
<1>9. \A r, s \in domains : r.domain = s.domain => r = s
    <2> TAKE r, s \in domains
    <2>1. PICK q \in InitialRows : r = [project |-> q.id, domain |-> DefaultDomain[q.name]]
        BY <1>4
    <2>2. PICK p \in InitialRows : s = [project |-> p.id, domain |-> DefaultDomain[p.name]]
        BY <1>4
    <2>3. r.domain = s.domain => q = p
        BY <2>1, <2>2, InitialRowsAgree
    <2>4. QED  BY <2>1, <2>2, <2>3
<1>10. \A r \in domains : \E q \in projects : q.id = r.project
    BY <1>4
<1>11. TablesOK
    BY <1>1, <1>2, <1>3, <1>5, <1>7, <1>8, <1>9, <1>10 DEF TablesOK, RowsAgree
<1>12. ParksOK
    BY DEF ParksOK, ParkingIsFunction
<1>13. DiskOK /\ CalmParks
    BY RegistryConstants DEF DiskOK, CalmParks, Existing
<1>14. QED  BY <1>11, <1>12, <1>13 DEF RegistryInv

\* What the tables and the parks say, when a step leaves them alone.
LEMMA TablesStay ==
    ASSUME TablesOK, UNCHANGED tableVars
    PROVE  TablesOK' /\ \A i : DomainsOf(i)' = DomainsOf(i)
BY DEF TablesOK, RowsAgree, OneDomainEach, DomainsOf, tableVars

LEMMA ParksStay ==
    ASSUME ParksOK, UNCHANGED parking
    PROVE  ParksOK'
BY DEF ParksOK, ParkingIsFunction

LEMMA DiskStays ==
    ASSUME DiskOK, UNCHANGED <<disk, changes>>, calm' \subseteq Terminals
    PROVE  /\ DiskOK' /\ Existing' = Existing
           /\ \A root : Discover(root)' = Discover(root)
BY DEF DiskOK, Existing, Discover, Candidates, Subdirectories, Features, OwnsChildren

LEMMA ChangeKeeps ==
    ASSUME RegistryInv, Change, Existing' \subseteq Dirs,
           \A d \in Existing' : disk'[d] \subseteq Mark
    PROVE  RegistryInv'
<1>1. TablesOK' /\ ParksOK'
    BY TablesStay, ParksStay DEF RegistryInv, Change
<1>2. DiskOK' /\ CalmParks'
    BY DEF RegistryInv, DiskOK, CalmParks, Change
<1>3. QED  BY <1>1, <1>2 DEF RegistryInv

LEMMA MakeKeeps ==
    ASSUME RegistryInv, NEW d \in Dirs, NEW contents \in Contents, Make(d, contents)
    PROVE  RegistryInv'
<1>1. /\ Existing' = Existing \cup {d}
      /\ \A e \in Existing' : disk'[e] = IF e = d THEN contents ELSE disk[e]
    BY DEF Make, Existing
<1>2. Existing' \subseteq Dirs /\ \A e \in Existing' : disk'[e] \subseteq Mark
    BY <1>1, RegistryConstants DEF RegistryInv, DiskOK
<1>3. QED  BY <1>2, ChangeKeeps DEF Make

LEMMA DeleteKeeps ==
    ASSUME RegistryInv, NEW d \in Dirs, Delete(d)
    PROVE  RegistryInv'
<1>1. /\ Existing' \subseteq Existing
      /\ \A e \in Existing' : disk'[e] = disk[e]
    BY DEF Delete, Existing
<1>2. Existing' \subseteq Dirs /\ \A e \in Existing' : disk'[e] \subseteq Mark
    BY <1>1 DEF RegistryInv, DiskOK
<1>3. QED  BY <1>2, ChangeKeeps DEF Delete

LEMMA ParkStartKeeps ==
    ASSUME RegistryInv, NEW t \in Terminals, NEW root \in Existing, ParkStart(t, root)
    PROVE  RegistryInv'
<1>1. root \in Dirs /\ Existing \subseteq Dirs
    BY DEF RegistryInv, DiskOK
<1> DEFINE begun == [root |-> root, keep |-> Discover(root),
                     todo |-> {Snapshot(d) : d \in Discover(root)}]
<1>2. Discover(root) \subseteq Dirs
    BY <1>1, DiscoverInReach
<1>3. /\ begun.root = root /\ begun.keep = Discover(root)
      /\ \A p \in begun.todo : p \in Found /\ p.name = Name[p.path]
      /\ \A d \in Discover(root) : \E p \in begun.todo : p.path = d
      /\ begun \in Parking
    BY <1>1, <1>2, SnapshotIsFound DEF Parking
<1>4. TablesOK' /\ DiskOK' /\ Existing' = Existing /\ \A r : Discover(r)' = Discover(r)
    BY TablesStay, DiskStays DEF RegistryInv, ParkStart, DiskOK
<1> HIDE DEF begun
<1>5. /\ \E now : /\ now = Idle \/ now = begun
                  /\ parking' = [parking EXCEPT ![t] = now]
      /\ calm' = calm \cup {t} /\ projects' = projects
    BY DEF ParkStart, begun, tableVars
<1>6. PICK now : (now = Idle \/ now = begun) /\ parking' = [parking EXCEPT ![t] = now]
    BY <1>5
<1>7. \A u \in Terminals : parking'[u] = IF u = t THEN now ELSE parking[u]
    BY <1>6 DEF RegistryInv, ParksOK, ParkingIsFunction
<1>8. ParkingIsFunction'
    BY <1>6 DEF RegistryInv, ParksOK, ParkingIsFunction
<1>9. ParksOK'
    BY <1>1, <1>2, <1>3, <1>6, <1>7, <1>8 DEF RegistryInv, ParksOK
<1>10. CalmParks'
    <2> SUFFICES ASSUME NEW u \in calm', parking'[u] # Idle
                 PROVE  /\ parking'[u].root \in Existing
                        /\ parking'[u].keep = Discover(parking'[u].root)
                        /\ \A d \in parking'[u].keep :
                             \/ \E p \in parking'[u].todo : p.path = d
                             \/ \E q \in projects : q.path = d
        BY <1>4, <1>5 DEF CalmParks
    <2>1. CASE u = t
        BY <1>3, <1>6, <1>7, <2>1
    <2>2. CASE u # t
        BY <1>5, <1>7, <2>2 DEF RegistryInv, CalmParks, DiskOK
    <2>3. QED  BY <2>1, <2>2
<1>11. QED  BY <1>4, <1>9, <1>10 DEF RegistryInv

LEMMA ParkNextKeeps ==
    ASSUME RegistryInv, NEW t \in Terminals, ParkNext(t)
    PROVE  /\ RegistryInv'
           /\ \A q \in projects : DomainsOf(q.id)' = DomainsOf(q.id)
<1>1. /\ parking[t] # Idle /\ parking[t] \in Parking
      /\ parking[t].todo \subseteq Found
      /\ \A p \in parking[t].todo : p.name = Name[p.path]
    BY DEF ParkNext, RegistryInv, ParksOK, Parking
<1>2. calm' \subseteq {t} /\ calm' \subseteq calm /\ UNCHANGED <<disk, changes>>
    BY DEF ParkNext
<1>3. DiskOK' /\ Existing' = Existing /\ \A r : Discover(r)' = Discover(r)
    BY <1>2, DiskStays DEF RegistryInv, DiskOK
<1>4. PICK p \in parking[t].todo :
        \/ /\ UpsertSucceeds(p) /\ UpsertProject(p)
           /\ parking' = [parking EXCEPT ![t].todo = @ \ {p}]
        \/ /\ parking' = [parking EXCEPT ![t] = Idle]
           /\ UNCHANGED tableVars
    BY DEF ParkNext
<1>5. CASE /\ UpsertSucceeds(p) /\ UpsertProject(p)
           /\ parking' = [parking EXCEPT ![t].todo = @ \ {p}]
    <2>1. p \in Found /\ p.name = Name[p.path]
        BY <1>1
    <2>2. /\ TablesOK'
          /\ \A q \in projects : q \in projects' \/ q.path = p.path
          /\ \E q \in projects' : q.path = p.path
          /\ \A q \in projects : DomainsOf(q.id)' = DomainsOf(q.id)
        BY <1>5, <2>1, UpsertKeeps DEF RegistryInv
    <2>3. PICK now \in Parking :
            /\ now.root = parking[t].root /\ now.keep = parking[t].keep
            /\ now.todo = parking[t].todo \ {p}
            /\ now = [parking[t] EXCEPT !.todo = parking[t].todo \ {p}]
        BY <1>1 DEF Parking
    <2>4. parking' = [parking EXCEPT ![t] = now]
        BY <1>5, <2>3
    <2>5. \A u \in Terminals : parking'[u] = IF u = t THEN now ELSE parking[u]
        BY <2>4 DEF RegistryInv, ParksOK, ParkingIsFunction
    <2>6. ParkingIsFunction'
        BY <2>4 DEF RegistryInv, ParksOK, ParkingIsFunction
    <2>7. ParksOK'
        BY <1>1, <2>3, <2>5, <2>6 DEF RegistryInv, ParksOK
    <2>8. CalmParks'
        <3> SUFFICES ASSUME t \in calm
                     PROVE  /\ parking'[t].root \in Existing
                            /\ parking'[t].keep = Discover(parking'[t].root)
                            /\ \A d \in parking'[t].keep :
                                 \/ \E o \in parking'[t].todo : o.path = d
                                 \/ \E q \in projects' : q.path = d
            BY <1>2, <1>3 DEF CalmParks
        <3>1. /\ parking[t].root \in Existing
              /\ parking[t].keep = Discover(parking[t].root)
              /\ \A d \in parking[t].keep :
                   \/ \E o \in parking[t].todo : o.path = d
                   \/ \E q \in projects : q.path = d
            BY <1>1 DEF RegistryInv, CalmParks
        <3>2. QED  BY <2>2, <2>3, <2>5, <3>1
    <2>9. QED  BY <1>3, <2>2, <2>7, <2>8 DEF RegistryInv
<1>6. CASE parking' = [parking EXCEPT ![t] = Idle] /\ UNCHANGED tableVars
    <2>1. TablesOK' /\ \A i : DomainsOf(i)' = DomainsOf(i)
        BY <1>6, TablesStay DEF RegistryInv
    <2>2. \A u \in Terminals : parking'[u] = IF u = t THEN Idle ELSE parking[u]
        BY <1>6 DEF RegistryInv, ParksOK, ParkingIsFunction
    <2>3. ParkingIsFunction'
        BY <1>6 DEF RegistryInv, ParksOK, ParkingIsFunction
    <2>4. ParksOK'
        BY <2>2, <2>3 DEF RegistryInv, ParksOK
    <2>5. CalmParks'
        BY <1>2, <2>2 DEF CalmParks
    <2>6. QED  BY <1>3, <2>1, <2>4, <2>5 DEF RegistryInv
<1>7. QED  BY <1>4, <1>5, <1>6

LEMMA ParkPruneKeeps ==
    ASSUME RegistryInv, NEW t \in Terminals, ParkPrune(t)
    PROVE  /\ RegistryInv'
           /\ \A q \in projects' : DomainsOf(q.id)' = DomainsOf(q.id)
<1>1. TablesOK' /\ \A q \in projects' : DomainsOf(q.id)' = DomainsOf(q.id)
    BY RemoveKeeps DEF RegistryInv, ParkPrune, PruneDetectedProjectsUnderPath
<1>2. parking' = [parking EXCEPT ![t] = Idle] /\ calm' = {}
    BY DEF ParkPrune
<1>3. ParksOK'
    BY <1>2 DEF RegistryInv, ParksOK, ParkingIsFunction
<1>4. DiskOK' /\ CalmParks'
    BY <1>2, DiskStays DEF RegistryInv, ParkPrune, CalmParks
<1>5. QED  BY <1>1, <1>3, <1>4 DEF RegistryInv

LEMMA ParkDiesKeeps ==
    ASSUME RegistryInv, NEW t \in Terminals, ParkDies(t)
    PROVE  RegistryInv'
<1>1. TablesOK'
    BY TablesStay DEF RegistryInv, ParkDies
<1>2. /\ parking' = [parking EXCEPT ![t] = Idle] /\ calm' = calm \ {t}
      /\ projects' = projects
    BY DEF ParkDies, tableVars
<1>3. \A u \in Terminals : parking'[u] = IF u = t THEN Idle ELSE parking[u]
    BY <1>2 DEF RegistryInv, ParksOK, ParkingIsFunction
<1>4. ParksOK'
    BY <1>2, <1>3 DEF RegistryInv, ParksOK, ParkingIsFunction
<1>5. DiskOK' /\ Existing' = Existing /\ \A r : Discover(r)' = Discover(r)
    BY <1>2, DiskStays DEF RegistryInv, ParkDies, DiskOK
<1>6. CalmParks'
    BY <1>2, <1>3, <1>5 DEF RegistryInv, CalmParks, DiskOK
<1>7. QED  BY <1>1, <1>4, <1>5, <1>6 DEF RegistryInv

LEMMA DomainSetKeeps ==
    ASSUME RegistryInv, NEW name, NEW domain \in Domains, SetPrimaryDomain(name, domain)
    PROVE  RegistryInv'
<1>1. TablesOK'
    BY SetKeeps DEF RegistryInv, SetPrimaryDomain
<1>2. ParksOK'
    BY ParksStay DEF RegistryInv, SetPrimaryDomain
<1>3. DiskOK' /\ CalmParks'
    BY DiskStays DEF RegistryInv, SetPrimaryDomain, CalmParks
<1>4. QED  BY <1>1, <1>2, <1>3 DEF RegistryInv

LEMMA StutterKeeps ==
    ASSUME RegistryInv, UNCHANGED registryVars
    PROVE  RegistryInv'
<1>1. TablesOK' /\ ParksOK'
    BY TablesStay, ParksStay DEF RegistryInv, registryVars, tableVars
<1>2. DiskOK' /\ Existing' = Existing /\ \A r : Discover(r)' = Discover(r)
    BY DiskStays DEF RegistryInv, registryVars, DiskOK
<1>3. CalmParks'
    BY <1>2 DEF RegistryInv, CalmParks, registryVars
<1>4. QED  BY <1>1, <1>2, <1>3 DEF RegistryInv

LEMMA NextKeeps == RegistryInv /\ [RegistryNext]_registryVars => RegistryInv'
<1> SUFFICES ASSUME RegistryInv, [RegistryNext]_registryVars PROVE RegistryInv'
    OBVIOUS
<1>1. CASE \E d \in Dirs, contents \in Contents : Make(d, contents)
    BY <1>1, MakeKeeps
<1>2. CASE \E d \in Dirs : Delete(d)
    BY <1>2, DeleteKeeps
<1>3. ASSUME NEW t \in Terminals, Park(t) PROVE RegistryInv'
    <2>1. CASE \E root \in Existing : ParkStart(t, root)
        BY <2>1, ParkStartKeeps
    <2>2. CASE ParkNext(t)
        BY <2>2, ParkNextKeeps
    <2>3. CASE ParkPrune(t)
        BY <2>3, ParkPruneKeeps
    <2>4. CASE ParkDies(t)
        BY <2>4, ParkDiesKeeps
    <2>5. QED  BY <1>3, <2>1, <2>2, <2>3, <2>4 DEF Park
<1>4. CASE \E q \in projects, domain \in Domains : SetPrimaryDomain(q.name, domain)
    BY <1>4, DomainSetKeeps
<1>5. CASE UNCHANGED registryVars
    BY <1>5, StutterKeeps
<1>6. QED  BY <1>1, <1>2, <1>3, <1>4, <1>5 DEF RegistryNext

THEOREM RegistryStays == RegistrySpec => []RegistryInv
<1>1. QED  BY InitEstablishes, NextKeeps, PTL DEF RegistrySpec

-------------------------------------------------------------------------------
(***************************************************************************)
(* The theorems.                                                           *)
(***************************************************************************)

\* The rows identify projects and every project has one domain of its own,
\* in whatever order the transactions of any number of parks interleave.
THEOREM RegistryAgrees == RegistrySpec => []RegistryIntegrity
<1>1. QED  BY RegistryStays, InvImplies, PTL

\* The rows, the files of the disk and what each park holds are well typed.
THEOREM RegistryTyped == RegistrySpec => []RegistryTypeOK
<1>1. QED  BY RegistryStays, InvImplies, PTL

\* No transaction of a park gives a project that stays another domain.
THEOREM DomainsStay == RegistrySpec => ParkKeepsDomains
<1> DEFINE kept == \A t \in Terminals : ParkSteps(t) =>
        \A q \in projects : (\E r \in projects' : r.id = q.id) =>
            DomainsOf(q.id)' = DomainsOf(q.id)
<1>1. ASSUME RegistryInv, [RegistryNext]_registryVars PROVE kept
    <2> SUFFICES ASSUME NEW q \in projects, NEW r \in projects', r.id = q.id,
                        parking' # parking
                 PROVE  DomainsOf(q.id)' = DomainsOf(q.id)
        BY DEF ParkSteps
    <2>1. PICK t \in Terminals : Park(t)
        BY <1>1 DEF RegistryNext, Make, Delete, Change, SetPrimaryDomain, registryVars
    <2>2. CASE (\E root \in Existing : ParkStart(t, root)) \/ ParkDies(t)
        BY <2>2 DEF ParkStart, ParkDies, tableVars, DomainsOf
    <2>3. CASE ParkNext(t)
        BY <1>1, <2>3, ParkNextKeeps
    <2>4. CASE ParkPrune(t)
        <3>1. DomainsOf(r.id)' = DomainsOf(r.id)
            BY <1>1, <2>4, ParkPruneKeeps
        <3>2. r \in projects
            BY <2>4 DEF ParkPrune, PruneDetectedProjectsUnderPath, RemoveProjects
        <3>3. r = q
            BY <1>1, <3>2 DEF RegistryInv, TablesOK, RowsAgree
        <3>4. QED  BY <3>1, <3>3
    <2>5. QED  BY <2>1, <2>2, <2>3, <2>4 DEF Park
<1>2. QED  BY <1>1, RegistryStays, PTL DEF RegistrySpec, ParkKeepsDomains

\* An undisturbed park leaves the rows Discover asks for, and what it takes
\* away though it is still a project lies deeper than Discover looks or belongs
\* to the root, for any tree and whatever LIKE matches beyond the root's own
\* children.
THEOREM ParkMirrors == RegistrySpec => ParkMirrorsDisk
<1> DEFINE mirrored(root) ==
        /\ Discover(root) \subseteq InScope(projects', root)
        /\ \A d \in InScope(projects', root) : StillProject(d)
        /\ \A q \in projects \ projects' :
             StillProject(q.path) /\ q.path \in Candidates(root) =>
                 OwnsChildren(root) /\ q.path # root
<1>1. ASSUME RegistryInv PROVE \A t \in calm : ParkPrune(t) => mirrored(parking[t].root)
    <2> SUFFICES ASSUME NEW t \in calm, ParkPrune(t)
                 PROVE  mirrored(parking[t].root)
        OBVIOUS
    <2>1. t \in Terminals /\ Existing \subseteq Dirs
        BY <1>1 DEF RegistryInv, DiskOK
    <2>2. PICK root \in Existing : root = parking[t].root
        BY <1>1, <2>1 DEF ParkPrune, RegistryInv, CalmParks
    <2>3. /\ parking[t].keep = Discover(root)
          /\ \A d \in Discover(root) : \E q \in projects : q.path = d
        BY <1>1, <2>2 DEF ParkPrune, RegistryInv, CalmParks
    <2>4. Discover(root) \subseteq {root} \cup Like[root]
        BY <2>1, DiscoverInReach
    <2>5. projects' = {q \in projects : \/ q.path \notin {root} \cup Like[root]
                                        \/ q.path \in Discover(root)}
        BY <2>2, <2>3 DEF ParkPrune, PruneDetectedProjectsUnderPath, RemoveProjects
    <2>6. InScope(projects', root) = Discover(root)
        BY <2>3, <2>4, <2>5 DEF InScope
    <2>7. \A d \in Discover(root) : StillProject(d)
        BY DEF Discover, Candidates, Subdirectories, StillProject
    <2>8. \A d \in Candidates(root) \ Discover(root) : StillProject(d) =>
            OwnsChildren(root) /\ d # root
        BY DEF Discover, StillProject, Candidates
    <2>9. \A q \in projects \ projects' : q.path \notin Discover(root)
        BY <2>5
    <2>10. QED  BY <2>2, <2>6, <2>7, <2>8, <2>9
<1>2. QED  BY <1>1, RegistryStays, PTL DEF ParkMirrorsDisk

-------------------------------------------------------------------------------
(***************************************************************************)
(* Selecting lines keeps their order.                                      *)
(***************************************************************************)
Rank(S, i) == Cardinality({j \in S : j <= i})

\* A non-empty set of naturals has a least element.
LEMMA LeastExists ==
    ASSUME NEW S \in SUBSET Nat, S # {}
    PROVE  \E m \in S : \A k \in S : m <= k
<1>1. PICK m \in S : \A k \in S : ~(<<k, m>> \in OpToRel(<, Nat))
    BY NatLessThanWellFounded, WFMin
<1>2. \A k \in S : ~(k < m)
    BY <1>1 DEF OpToRel
<1>3. QED  BY <1>2

LEMMA RankIsCount ==
    ASSUME NEW S \in SUBSET Nat, IsFiniteSet(S), NEW i \in S
    PROVE  /\ Rank(S, i) \in 1..Cardinality(S)
           /\ \A k \in S : i < k => Rank(S, i) < Rank(S, k)
           /\ i + 1 \in S => Rank(S, i + 1) = Rank(S, i) + 1
<1> DEFINE upTo(k) == {j \in S : j <= k}
<1>1. ASSUME NEW k \in S
      PROVE  /\ IsFiniteSet(upTo(k)) /\ Cardinality(upTo(k)) \in Nat
             /\ Cardinality(upTo(k)) <= Cardinality(S)
    BY FS_Subset, FS_CardinalityType
<1>0. \A j \in S : j \in Nat
    OBVIOUS
<1>2. Cardinality(upTo(i)) # 0
    <2>1. i \in upTo(i)
        BY <1>0
    <2>2. QED  BY <1>1, <2>1, FS_EmptySet
<1>3. ASSUME NEW k \in S, i < k PROVE Cardinality(upTo(i)) < Cardinality(upTo(k))
    <2>1. /\ \A j \in upTo(i) : j \in upTo(k)
          /\ k \in upTo(k) /\ k \notin upTo(i)
        BY <1>0, <1>3
    <2>2. /\ Cardinality(upTo(i)) <= Cardinality(upTo(k))
          /\ Cardinality(upTo(i)) # Cardinality(upTo(k))
        BY <1>1, <2>1, FS_Subset
    <2>3. QED  BY <1>1, <2>2
<1>4. ASSUME i + 1 \in S PROVE Cardinality(upTo(i + 1)) = Cardinality(upTo(i)) + 1
    <2>1. \A j \in S : j <= i + 1 <=> j <= i \/ j = i + 1
        BY <1>0
    <2>2. upTo(i + 1) = upTo(i) \cup {i + 1} /\ i + 1 \notin upTo(i)
        <3>1. \A j : j \in upTo(i + 1) <=> j \in upTo(i) \cup {i + 1}
            BY <1>4, <2>1
        <3>2. i + 1 \notin upTo(i)
            BY <1>0
        <3> HIDE DEF upTo
        <3>3. QED  BY <3>1, <3>2
    <2>3. QED  BY <1>1, <2>2, FS_AddElement
<1>5. Cardinality(S) \in Nat
    BY FS_CardinalityType
<1>6. QED  BY <1>1, <1>2, <1>3, <1>4, <1>5 DEF Rank

LEMMA RankHits ==
    ASSUME NEW S \in SUBSET Nat, IsFiniteSet(S), NEW n \in 1..Cardinality(S)
    PROVE  \E i \in S : Rank(S, i) = n
<1>0. Cardinality(S) \in Nat
    BY FS_CardinalityType
<1>a. \A j \in S : j \in Nat
    OBVIOUS
<1> DEFINE missed == {k \in 1..Cardinality(S) : \A i \in S : Rank(S, i) # k}
<1> SUFFICES ASSUME missed # {} PROVE FALSE
    OBVIOUS
<1>b. missed \in SUBSET Nat
    BY <1>0
<1> HIDE DEF missed
<1>1. PICK m \in missed : \A k \in missed : m <= k
    BY <1>b, LeastExists
<1>2. m \in 1..Cardinality(S) /\ \A i \in S : Rank(S, i) # m
    BY DEF missed
<1>3. CASE m = 1
    <2>1. S # {}
        BY <1>0, <1>2, FS_EmptySet
    <2>2. PICK i \in S : \A k \in S : i <= k
        BY <2>1, LeastExists
    <2>3. {j \in S : j <= i} = {i}
        <3>1. \A j \in S : j <= i <=> j = i
            BY <1>a, <2>2
        <3>2. QED  BY <3>1
    <2>4. QED  BY <1>2, <1>3, <2>3, FS_Singleton DEF Rank
<1>4. CASE m # 1
    <2>1. m - 1 \in 1..Cardinality(S) /\ m - 1 \notin missed
        BY <1>0, <1>1, <1>2, <1>4, <1>b
    <2>2. PICK i \in S : Rank(S, i) = m - 1
        BY <2>1 DEF missed
    <2> DEFINE low == {j \in S : j <= i}
    <2> DEFINE high == {j \in S : i < j}
    <2>3. IsFiniteSet(low) /\ Cardinality(low) = m - 1
        BY <2>2, FS_Subset DEF Rank
    <2>4. high # {}
        <3>1. SUFFICES ASSUME high = {} PROVE FALSE
            OBVIOUS
        <3>2. \A j \in S : ~(i < j)
            BY <3>1
        <3>a. \A j \in S : j <= i
            <4> TAKE j \in S
            <4>1. i \in Nat /\ j \in Nat /\ ~(i < j)
                BY <1>a, <3>2
            <4>2. QED  BY <4>1
        <3>3. \A j : j \in low <=> j \in S
            BY <3>a
        <3> HIDE DEF low
        <3>4. low = S
            BY <3>3
        <3>5. QED  BY <1>0, <1>2, <2>3, <3>4
    <2>5. PICK k \in S : i < k /\ \A j \in S : i < j => k <= j
        <3>1. high \in SUBSET Nat
            BY <1>a
        <3>2. QED  BY <2>4, <3>1, LeastExists
    <2>6. {j \in S : j <= k} = low \cup {k} /\ k \notin low
        <3>1. \A j \in S : j <= k <=> j <= i \/ j = k
            <4> TAKE j \in S
            <4>1. i \in Nat /\ j \in Nat /\ k \in Nat
                BY <1>a
            <4>2. QED  BY <2>5, <4>1
        <3>2. \A j : j \in {l \in S : l <= k} <=> j \in low \cup {k}
            BY <3>1
        <3>3. k \notin low
            BY <1>a, <2>5
        <3> DEFINE upTo == {l \in S : l <= k}
        <3> HIDE DEF low, upTo
        <3>4. upTo = low \cup {k}
            BY <3>2 DEF upTo
        <3>5. QED  BY <3>3, <3>4 DEF upTo
    <2>7. Cardinality(low \cup {k}) = (m - 1) + 1
        BY <2>3, <2>6, FS_AddElement
    <2>8. Rank(S, k) = m
        BY <1>2, <2>6, <2>7 DEF Rank
    <2>9. QED  BY <1>2, <2>8
<1>5. QED  BY <1>3, <1>4

LEMMA InOrderLists ==
    ASSUME NEW S \in SUBSET Nat, IsFiniteSet(S)
    PROVE  /\ DOMAIN InOrder(S) = 1..Cardinality(S)
           /\ Cardinality(S) \in Nat
           /\ \A n \in 1..Cardinality(S) :
                InOrder(S)[n] \in S /\ Rank(S, InOrder(S)[n]) = n
           /\ \A i \in S : InOrder(S)[Rank(S, i)] = i
<1>1. ASSUME NEW n \in 1..Cardinality(S)
      PROVE  InOrder(S)[n] \in S /\ Rank(S, InOrder(S)[n]) = n
    <2>1. InOrder(S)[n] = CHOOSE i \in S : Rank(S, i) = n
        BY DEF InOrder, Rank
    <2>2. QED  BY <2>1, RankHits
<1>2. ASSUME NEW i \in S PROVE InOrder(S)[Rank(S, i)] = i
    <2>1. Rank(S, i) \in 1..Cardinality(S)
        BY RankIsCount
    <2>2. PICK k \in S : k = InOrder(S)[Rank(S, i)] /\ Rank(S, k) = Rank(S, i)
        BY <1>1, <2>1
    <2>3. ~(i < k) /\ ~(k < i)
        BY <2>2, RankIsCount
    <2>4. QED  BY <2>2, <2>3
<1>3. QED  BY <1>1, <1>2, FS_CardinalityType DEF InOrder

LEMMA LinesAtKeeps ==
    ASSUME NEW L, NEW lines \in Seq(L), NEW P \in SUBSET (DOMAIN lines)
    PROVE  /\ LinesAt(lines, P) \in Seq(L)
           /\ \A i \in P : /\ Rank(P, i) \in DOMAIN LinesAt(lines, P)
                           /\ LinesAt(lines, P)[Rank(P, i)] = lines[i]
           /\ \A n \in DOMAIN LinesAt(lines, P) : \E i \in P :
                n = Rank(P, i) /\ LinesAt(lines, P)[n] = lines[i]
<1>1. IsFiniteSet(P) /\ P \in SUBSET Nat
    <2>1. DOMAIN lines = 1..Len(lines) /\ Len(lines) \in Nat
        OBVIOUS
    <2>2. IsFiniteSet(1..Len(lines))
        BY <2>1, FS_Interval
    <2>3. QED  BY <2>1, <2>2, FS_Subset
<1> DEFINE order == InOrder(P)
<1>2. /\ DOMAIN order = 1..Cardinality(P) /\ Cardinality(P) \in Nat
      /\ \A n \in 1..Cardinality(P) : order[n] \in P /\ Rank(P, order[n]) = n
      /\ \A i \in P : order[Rank(P, i)] = i /\ Rank(P, i) \in 1..Cardinality(P)
    BY <1>1, InOrderLists, RankIsCount
<1> HIDE DEF order
<1>3. LinesAt(lines, P) = [n \in 1..Cardinality(P) |-> lines[order[n]]]
    BY <1>2 DEF LinesAt, order
<1>4. \A n \in 1..Cardinality(P) : lines[order[n]] \in L
    BY <1>2
<1>5. LinesAt(lines, P) \in Seq(L)
    BY <1>2, <1>3, <1>4
<1>6. QED  BY <1>2, <1>3, <1>5

-------------------------------------------------------------------------------
(***************************************************************************)
(* The Caddyfile.  Every block DevHerd opens holds one site and is closed, *)
(* so stripping one touches nothing else.                                  *)
(***************************************************************************)
Published == Domains \cup {ServiceDomain}

Line == {Text("global options")} \cup UserLines
        \cup [kind : {"start", "end"}, domain : Published, target : {NoDomain}]
        \cup [kind : {"site"}, domain : Published, target : Aliases \cup {ServiceAlias}]

Closed(lines) ==
    \A i \in DOMAIN lines : lines[i].kind = "start" =>
        /\ i + 2 \in DOMAIN lines
        /\ lines[i + 1].kind = "site" /\ lines[i + 1].domain = lines[i].domain
        /\ lines[i + 2] = End(lines[i].domain)

LEMMA KindsOfLines ==
    ASSUME NEW l \in Line
    PROVE  /\ l.kind \in {"text", "site", "start", "end"}
           /\ l.kind = "start" => l = Start(l.domain)
           /\ l.kind = "end" => l = End(l.domain)
<1>1. CASE l \in UserLines
    BY <1>1, ProxyConstants
<1>2. CASE l = Text("global options")
    BY <1>2 DEF Text
<1>3. CASE l \in [kind : {"start", "end"}, domain : Published, target : {NoDomain}]
    BY <1>3 DEF Start, End
<1>4. CASE l \in [kind : {"site"}, domain : Published, target : Aliases \cup {ServiceAlias}]
    BY <1>4
<1>5. QED  BY <1>1, <1>2, <1>3, <1>4 DEF Line

LEMMA MarkedIsNear ==
    ASSUME NEW lines \in Seq(Line), Closed(lines), NEW D,
           NEW i \in DOMAIN lines, Marked(lines, i, D)
    PROVE  \E j \in DOMAIN lines : /\ lines[j].kind = "start" /\ lines[j].domain \in D
                                   /\ j <= i /\ i <= j + 2
<1>1. DOMAIN lines = 1..Len(lines) /\ Len(lines) \in Nat
    OBVIOUS
<1>2. PICK j \in 1..i : /\ lines[j] \in {Start(d) : d \in D}
                        /\ \A k \in j + 1..i - 1 : lines[k] \notin {End(d) : d \in D}
    BY DEF Marked, InBlock
<1>3. PICK d \in D : lines[j] = Start(d)
    BY <1>2
<1>4. lines[j].kind = "start" /\ lines[j].domain = d
    BY <1>3 DEF Start
<1>5. j \in DOMAIN lines
    BY <1>1, <1>2
<1>6. lines[j + 2] = End(d)
    BY <1>4, <1>5 DEF Closed
<1>7. j + 2 \notin j + 1..i - 1
    BY <1>2, <1>6
<1>8. QED  BY <1>1, <1>2, <1>4, <1>5, <1>7

\* What Strip keeps of a file: the positions.
KeptBy(lines, D) ==
    {i \in {k \in DOMAIN lines : ~Marked(lines, k, D)} :
        ~(lines[i].kind = "site" /\ lines[i].domain \in D)}

LEMMA StripIsSelection ==
    ASSUME NEW lines, NEW D
    PROVE  StripManagedDomains(lines, D) = LinesAt(lines, KeptBy(lines, D))
BY DEF StripManagedDomains, StripBraceDomains, KeptBy

\* Text and the sites of other domains stay.
LEMMA OthersStay ==
    ASSUME NEW lines \in Seq(Line), Closed(lines), NEW D, NEW i \in DOMAIN lines,
           \/ lines[i].kind = "text"
           \/ lines[i].kind = "site" /\ lines[i].domain \notin D
    PROVE  lines[i] \in ToSet(StripManagedDomains(lines, D))
<1>1. DOMAIN lines = 1..Len(lines) /\ Len(lines) \in Nat
    OBVIOUS
<1>2. ~Marked(lines, i, D)
    <2>1. SUFFICES ASSUME Marked(lines, i, D) PROVE FALSE
        OBVIOUS
    <2>2. PICK j \in DOMAIN lines : /\ lines[j].kind = "start" /\ lines[j].domain \in D
                                    /\ j <= i /\ i <= j + 2
        BY <2>1, MarkedIsNear
    <2>3. /\ lines[j + 1].kind = "site" /\ lines[j + 1].domain = lines[j].domain
          /\ lines[j + 2].kind = "end"
        <3>1. /\ lines[j + 1].kind = "site" /\ lines[j + 1].domain = lines[j].domain
              /\ lines[j + 2] = End(lines[j].domain)
            BY <2>2 DEF Closed
        <3>2. QED  BY <3>1 DEF End
    <2>4. i = j \/ i = j + 1 \/ i = j + 2
        BY <1>1, <2>2
    <2>5. QED  BY <2>2, <2>3, <2>4
<1>3. i \in KeptBy(lines, D)
    BY <1>2 DEF KeptBy
<1>4. KeptBy(lines, D) \in SUBSET (DOMAIN lines)
    BY DEF KeptBy
<1>5. QED  BY <1>3, <1>4, LinesAtKeeps, StripIsSelection DEF ToSet

LEMMA StripKeepsClosed ==
    ASSUME NEW lines \in Seq(Line), Closed(lines), NEW D
    PROVE  /\ StripManagedDomains(lines, D) \in Seq(Line)
           /\ Closed(StripManagedDomains(lines, D))
<1> DEFINE P == KeptBy(lines, D)
<1> DEFINE out == StripManagedDomains(lines, D)
<1>1. DOMAIN lines = 1..Len(lines) /\ Len(lines) \in Nat
    OBVIOUS
<1>2. P \in SUBSET (DOMAIN lines)
    BY DEF KeptBy
<1>3. /\ out \in Seq(Line)
      /\ \A i \in P : Rank(P, i) \in DOMAIN out /\ out[Rank(P, i)] = lines[i]
      /\ \A n \in DOMAIN out : \E i \in P : n = Rank(P, i) /\ out[n] = lines[i]
    BY <1>2, LinesAtKeeps, StripIsSelection
<1> HIDE DEF P, out
<1>4. P \in SUBSET Nat /\ IsFiniteSet(P)
    <2>1. IsFiniteSet(1..Len(lines))
        BY <1>1, FS_Interval
    <2>2. QED  BY <1>1, <1>2, <2>1, FS_Subset
<1>5. ASSUME NEW n \in DOMAIN out, out[n].kind = "start"
      PROVE  /\ n + 2 \in DOMAIN out
             /\ out[n + 1].kind = "site" /\ out[n + 1].domain = out[n].domain
             /\ out[n + 2] = End(out[n].domain)
    <2>1. PICK i \in P : n = Rank(P, i) /\ out[n] = lines[i]
        BY <1>3
    <2>2. i \in DOMAIN lines /\ lines[i].kind = "start" /\ lines[i] \in Line
        BY <1>2, <1>5, <2>1
    <2>3. /\ i + 2 \in DOMAIN lines /\ i + 1 \in DOMAIN lines
          /\ lines[i + 1].kind = "site" /\ lines[i + 1].domain = lines[i].domain
          /\ lines[i + 2] = End(lines[i].domain) /\ lines[i + 2].kind = "end"
        BY <1>1, <2>2 DEF Closed, End
    <2>4. lines[i].domain \notin D
        <3>1. SUFFICES ASSUME lines[i].domain \in D PROVE FALSE
            OBVIOUS
        <3>2. lines[i] \in {Start(d) : d \in D}
            BY <2>2, <3>1, KindsOfLines
        <3>3. i \in 1..i /\ \A k \in i + 1..i - 1 : FALSE
            BY <1>1, <2>2
        <3>4. Marked(lines, i, D)
            BY <3>2, <3>3 DEF Marked, InBlock
        <3>5. QED  BY <2>1, <3>4 DEF P, KeptBy
    <2>5. ASSUME NEW k \in {i + 1, i + 2} PROVE ~Marked(lines, k, D)
        <3>1. SUFFICES ASSUME Marked(lines, k, D) PROVE FALSE
            OBVIOUS
        <3>2. PICK j \in DOMAIN lines : /\ lines[j].kind = "start" /\ lines[j].domain \in D
                                        /\ j <= k /\ k <= j + 2
            BY <2>3, <3>1, MarkedIsNear
        <3>3. lines[j + 1].kind = "site"
            BY <3>2 DEF Closed
        <3>4. j = i - 1 \/ j = i \/ j = i + 1 \/ j = i + 2
            BY <1>1, <2>2, <3>2
        <3>5. j # i /\ j # i + 1 /\ j # i + 2
            BY <2>3, <2>4, <3>2
        <3>6. j # i - 1
            BY <1>1, <2>2, <3>3
        <3>7. QED  BY <3>4, <3>5, <3>6
    <2>6. i + 1 \in P /\ i + 2 \in P
        BY <2>3, <2>4, <2>5 DEF P, KeptBy
    <2>7. Rank(P, i + 1) = n + 1
        <3>1. i \in P /\ i + 1 \in P
            BY <2>1, <2>6
        <3>2. Rank(P, i + 1) = Rank(P, i) + 1
            BY <1>4, <3>1, RankIsCount
        <3>3. QED  BY <2>1, <3>2
    <2>8. Rank(P, (i + 1) + 1) = (n + 1) + 1
        <3>1. (i + 1) + 1 \in P /\ i + 1 \in Nat
            BY <1>1, <2>2, <2>6
        <3>2. Rank(P, (i + 1) + 1) = Rank(P, i + 1) + 1
            BY <1>4, <2>6, <3>1, RankIsCount
        <3>3. QED  BY <2>7, <3>2
    <2>9. n \in Nat
        BY <1>3
    <2>10. (i + 1) + 1 = i + 2 /\ (n + 1) + 1 = n + 2
        BY <1>1, <2>2, <2>9
    <2>11. QED  BY <1>3, <2>1, <2>3, <2>6, <2>7, <2>8, <2>10
<1>6. QED  BY <1>3, <1>5 DEF Closed, out

\* What DevHerd renders: a block for each site.
SiteOK(s) == s.domain \in Published /\ s.target \in Aliases \cup {ServiceAlias}

LEMMA RenderIsClosed ==
    ASSUME NEW S, \A s \in S : SiteOK(s), NEW sites \in Seq(S)
    PROVE  /\ RenderExternalSites(sites) \in Seq(Line)
           /\ Closed(RenderExternalSites(sites))
           /\ \A s \in ToSet(sites) :
                Site(s.domain, s.target) \in ToSet(RenderExternalSites(sites))
<1> DEFINE out == RenderExternalSites(sites)
<1> DEFINE m == Len(sites)
<1>1. m \in Nat /\ DOMAIN sites = 1..m /\ \A k \in 1..m : SiteOK(sites[k])
    BY DEF m
<1> HIDE DEF m
<1>2. out = [n \in 1..3 * m |->
                RenderExternalSite(sites[1 + ((n - 1) \div 3)])[1 + ((n - 1) % 3)]]
    BY DEF out, m, RenderExternalSites
<1> HIDE DEF out
<1>3. ASSUME NEW n \in 1..3 * m
      PROVE  \E k \in 1..m, r \in 1..3 :
                /\ n = 3 * (k - 1) + r
                /\ out[n] = RenderExternalSite(sites[k])[r]
    <2> DEFINE q == (n - 1) \div 3
    <2> DEFINE r == (n - 1) % 3
    <2>1. q \in Int /\ r \in 0..2 /\ n - 1 = 3 * q + r
        BY <1>1
    <2>2. q >= 0 /\ q < m
        BY <1>1, <2>1
    <2>3. out[n] = RenderExternalSite(sites[1 + q])[1 + r]
        BY <1>2
    <2> HIDE DEF q, r
    <2>4. 1 + q \in 1..m /\ 1 + r \in 1..3 /\ n = 3 * ((1 + q) - 1) + (1 + r)
        BY <1>1, <2>1, <2>2
    <2>5. QED  BY <2>3, <2>4
<1>4. ASSUME NEW k \in 1..m
      PROVE  /\ 3 * (k - 1) + 1 \in 1..3 * m /\ out[3 * (k - 1) + 1] = Start(sites[k].domain)
             /\ 3 * (k - 1) + 2 \in 1..3 * m
             /\ out[3 * (k - 1) + 2] = Site(sites[k].domain, sites[k].target)
             /\ 3 * (k - 1) + 3 \in 1..3 * m /\ out[3 * (k - 1) + 3] = End(sites[k].domain)
    <2>1. ASSUME NEW r \in 1..3
          PROVE  /\ 3 * (k - 1) + r \in 1..3 * m
                 /\ out[3 * (k - 1) + r] = RenderExternalSite(sites[k])[r]
        <3>1. 3 * (k - 1) + r \in 1..3 * m
            BY <1>1
        <3>2. PICK j \in 1..m, s \in 1..3 :
                /\ 3 * (k - 1) + r = 3 * (j - 1) + s
                /\ out[3 * (k - 1) + r] = RenderExternalSite(sites[j])[s]
            BY <1>3, <3>1
        <3>3. j = k /\ s = r
            BY <1>1, <3>2
        <3>4. QED  BY <3>1, <3>2, <3>3
    <2>2. /\ RenderExternalSite(sites[k])[1] = Start(sites[k].domain)
          /\ RenderExternalSite(sites[k])[2] = Site(sites[k].domain, sites[k].target)
          /\ RenderExternalSite(sites[k])[3] = End(sites[k].domain)
        BY DEF RenderExternalSite
    <2>3. QED  BY <2>1, <2>2
<1>5. ASSUME NEW n \in 1..3 * m PROVE out[n] \in Line
    <2>1. PICK k \in 1..m, r \in 1..3 : n = 3 * (k - 1) + r
        BY <1>3
    <2>2. /\ Start(sites[k].domain) \in Line /\ End(sites[k].domain) \in Line
          /\ Site(sites[k].domain, sites[k].target) \in Line
        BY <1>1 DEF Line, SiteOK, Start, End, Site
    <2>3. r = 1 \/ r = 2 \/ r = 3
        OBVIOUS
    <2>4. out[n] \in {Start(sites[k].domain), End(sites[k].domain),
                     Site(sites[k].domain, sites[k].target)}
        BY <1>4, <2>1, <2>3
    <2>5. QED  BY <2>2, <2>4
<1>6. out \in Seq(Line) /\ DOMAIN out = 1..3 * m
    BY <1>1, <1>2, <1>5
<1>7. ASSUME NEW n \in 1..3 * m, out[n].kind = "start"
      PROVE  /\ n + 2 \in 1..3 * m
             /\ out[n + 1].kind = "site" /\ out[n + 1].domain = out[n].domain
             /\ out[n + 2] = End(out[n].domain)
    <2>1. PICK k \in 1..m, r \in 1..3 : n = 3 * (k - 1) + r
        BY <1>3
    <2>2. r = 1
        <3>1. r = 2 => out[n] = Site(sites[k].domain, sites[k].target)
            BY <1>4, <2>1
        <3>2. r = 3 => out[n] = End(sites[k].domain)
            BY <1>4, <2>1
        <3>3. r = 1 \/ r = 2 \/ r = 3
            OBVIOUS
        <3>4. QED  BY <1>7, <3>1, <3>2, <3>3 DEF Site, End
    <2>3. n + 1 = 3 * (k - 1) + 2 /\ n + 2 = 3 * (k - 1) + 3
        BY <2>1, <2>2
    <2>4. /\ out[n] = Start(sites[k].domain) /\ n + 2 \in 1..3 * m
          /\ out[n + 1] = Site(sites[k].domain, sites[k].target)
          /\ out[n + 2] = End(sites[k].domain)
        BY <1>4, <2>1, <2>2, <2>3
    <2>5. QED  BY <2>4 DEF Start, Site
<1>8. ASSUME NEW s \in ToSet(sites) PROVE Site(s.domain, s.target) \in ToSet(out)
    <2>1. PICK k \in 1..m : s = sites[k]
        BY <1>1 DEF ToSet
    <2>2. QED  BY <1>4, <1>6, <2>1 DEF ToSet
<1>9. QED  BY <1>6, <1>7, <1>8 DEF Closed, out

LEMMA ConcatKeepsClosed ==
    ASSUME NEW one \in Seq(Line), Closed(one), NEW two \in Seq(Line), Closed(two)
    PROVE  /\ one \o two \in Seq(Line) /\ Closed(one \o two)
           /\ \A l : l \in ToSet(one \o two) <=> l \in ToSet(one) \/ l \in ToSet(two)
<1> DEFINE a == Len(one)
<1> DEFINE b == Len(two)
<1> DEFINE both == one \o two
<1>1. /\ a \in Nat /\ b \in Nat /\ DOMAIN one = 1..a /\ DOMAIN two = 1..b
      /\ both \in Seq(Line) /\ DOMAIN both = 1..(a + b)
      /\ \A i \in 1..a : both[i] = one[i]
      /\ \A i \in 1..b : both[a + i] = two[i]
    BY ConcatProperties, LenProperties
<1> HIDE DEF a, b, both
<1>2. ASSUME NEW n \in 1..(a + b)
      PROVE  n \in 1..a \/ \E k \in 1..b : n = a + k
    <2>1. CASE n <= a
        BY <1>1, <2>1
    <2>2. CASE n > a
        <3>1. n - a \in 1..b /\ n = a + (n - a)
            BY <1>1, <2>2
        <3>2. QED  BY <3>1
    <2>3. QED  BY <1>1, <2>1, <2>2
<1>3. ASSUME NEW n \in 1..(a + b), both[n].kind = "start"
      PROVE  /\ n + 2 \in 1..(a + b)
             /\ both[n + 1].kind = "site" /\ both[n + 1].domain = both[n].domain
             /\ both[n + 2] = End(both[n].domain)
    <2>1. CASE n \in 1..a
        <3>1. /\ n + 1 \in 1..a /\ n + 2 \in 1..a /\ both[n] = one[n]
              /\ one[n + 1].kind = "site" /\ one[n + 1].domain = one[n].domain
              /\ one[n + 2] = End(one[n].domain)
            <4>1. both[n] = one[n] /\ n \in DOMAIN one /\ one[n].kind = "start"
                BY <1>1, <1>3, <2>1
            <4>2. /\ n + 2 \in DOMAIN one
                  /\ one[n + 1].kind = "site" /\ one[n + 1].domain = one[n].domain
                  /\ one[n + 2] = End(one[n].domain)
                BY <4>1 DEF Closed
            <4>3. QED  BY <1>1, <2>1, <4>1, <4>2
        <3>2. QED  BY <1>1, <3>1
    <2>2. CASE \E k \in 1..b : n = a + k
        <3>1. PICK k \in 1..b : n = a + k
            BY <2>2
        <3>2. /\ k + 1 \in 1..b /\ k + 2 \in 1..b /\ both[n] = two[k]
              /\ two[k + 1].kind = "site" /\ two[k + 1].domain = two[k].domain
              /\ two[k + 2] = End(two[k].domain)
            <4>1. both[n] = two[k] /\ k \in DOMAIN two /\ two[k].kind = "start"
                BY <1>1, <1>3, <3>1
            <4>2. /\ k + 2 \in DOMAIN two
                  /\ two[k + 1].kind = "site" /\ two[k + 1].domain = two[k].domain
                  /\ two[k + 2] = End(two[k].domain)
                BY <4>1 DEF Closed
            <4>3. QED  BY <1>1, <3>1, <4>1, <4>2
        <3>3. n + 1 = a + (k + 1) /\ n + 2 = a + (k + 2)
            BY <1>1, <3>1
        <3>4. QED  BY <1>1, <3>2, <3>3
    <2>3. QED  BY <1>2, <2>1, <2>2
<1>4. ASSUME NEW l
      PROVE  l \in ToSet(both) <=> l \in ToSet(one) \/ l \in ToSet(two)
    <2>1. \A n \in 1..a : n \in 1..(a + b)
        BY <1>1
    <2>2. \A k \in 1..b : a + k \in 1..(a + b)
        BY <1>1
    <2>3. /\ l \in ToSet(both) <=> \E n \in 1..(a + b) : both[n] = l
          /\ l \in ToSet(one) <=> \E n \in 1..a : one[n] = l
          /\ l \in ToSet(two) <=> \E k \in 1..b : two[k] = l
        BY <1>1 DEF ToSet
    <2>4. ASSUME NEW n \in 1..(a + b), both[n] = l
          PROVE  (\E i \in 1..a : one[i] = l) \/ (\E k \in 1..b : two[k] = l)
        BY <1>1, <1>2, <2>4
    <2>5. (\E i \in 1..a : one[i] = l) => \E n \in 1..(a + b) : both[n] = l
        BY <1>1, <2>1
    <2>6. (\E k \in 1..b : two[k] = l) => \E n \in 1..(a + b) : both[n] = l
        BY <1>1, <2>2
    <2>7. QED  BY <2>3, <2>4, <2>5, <2>6
<1>5. QED  BY <1>1, <1>3, <1>4 DEF Closed, both

LEMMA MergeKeeps ==
    ASSUME NEW lines \in Seq(Line), Closed(lines),
           NEW S, \A s \in S : SiteOK(s), NEW sites \in Seq(S)
    PROVE  LET out == MergeExternalProxyConfig(lines, sites) IN
           /\ out \in Seq(Line) /\ Closed(out)
           /\ \A s \in ToSet(sites) : Site(s.domain, s.target) \in ToSet(out)
           /\ \A l \in ToSet(lines) :
                \/ l.kind = "text"
                \/ l.kind = "site" /\ l.domain \notin DomainsOfSites(sites)
                => l \in ToSet(out)
<1> DEFINE D == DomainsOfSites(sites)
<1> DEFINE base == StripManagedDomains(lines, D)
<1> DEFINE new == RenderExternalSites(sites)
<1>1. base \in Seq(Line) /\ Closed(base)
    BY StripKeepsClosed
<1>2. /\ new \in Seq(Line) /\ Closed(new)
      /\ \A s \in ToSet(sites) : Site(s.domain, s.target) \in ToSet(new)
    BY RenderIsClosed
<1>3. \A i \in DOMAIN lines :
        \/ lines[i].kind = "text"
        \/ lines[i].kind = "site" /\ lines[i].domain \notin D
        => lines[i] \in ToSet(base)
    BY OthersStay
<1>4. MergeExternalProxyConfig(lines, sites) = base \o new
    BY DEF MergeExternalProxyConfig
<1> HIDE DEF D, base, new
<1>5. /\ base \o new \in Seq(Line) /\ Closed(base \o new)
      /\ \A l : l \in ToSet(base \o new) <=> l \in ToSet(base) \/ l \in ToSet(new)
    BY <1>1, <1>2, ConcatKeepsClosed
<1>6. QED  BY <1>2, <1>3, <1>4, <1>5 DEF D, ToSet

LEMMA EditKeeps ==
    ASSUME NEW lines \in Seq(Line), Closed(lines), NEW l \in UserLines,
           NEW out \in {<<l>> \o lines, Append(lines, l)}
    PROVE  /\ out \in Seq(Line) /\ Closed(out)
           /\ \A k \in ToSet(lines) : k \in ToSet(out)
<1>1. l \in Line /\ l.kind # "start"
    BY ProxyConstants DEF Line
<1>2. <<l>> \in Seq(Line) /\ Closed(<<l>>)
    BY <1>1 DEF Closed
<1>3. out = <<l>> \o lines \/ out = lines \o <<l>>
    BY <1>1, AppendIsConcat
<1>4. QED  BY <1>2, <1>3, ConcatKeepsClosed

-------------------------------------------------------------------------------
(***************************************************************************)
(* /etc/hosts.                                                             *)
(***************************************************************************)
HostLine == {HostsStart, HostsEnd, HostsText("localhost"), HostsText("own")}
            \cup {HostsNames(names) : names \in SUBSET Domains}

HostsClosed(lines) ==
    \A i \in DOMAIN lines : lines[i].kind = "start" =>
        /\ i + 1 \in DOMAIN lines
        /\ \/ lines[i + 1] = HostsEnd
           \/ /\ lines[i + 1].kind = "names"
              /\ i + 2 \in DOMAIN lines /\ lines[i + 2] = HostsEnd

LEMMA KindsOfHostLines ==
    ASSUME NEW l \in HostLine
    PROVE  /\ l.kind \in {"start", "end", "names", "text"}
           /\ l.kind = "start" => l = HostsStart
BY DEF HostLine, HostsStart, HostsEnd, HostsText, HostsNames

LEMMA BlockIsClosed ==
    ASSUME NEW names \in SUBSET Domains
    PROVE  LET block == BuildManagedBlock(names) IN
           /\ block \in Seq(HostLine) /\ HostsClosed(block)
           /\ names # {} => HostsNames(names) \in ToSet(block)
<1>1. /\ HostsStart \in HostLine /\ HostsEnd \in HostLine
      /\ HostsNames(names) \in HostLine
    BY DEF HostLine
<1>2. /\ HostsStart.kind = "start" /\ HostsEnd.kind = "end"
      /\ HostsNames(names).kind = "names"
    BY DEF HostsStart, HostsEnd, HostsNames
<1>3. CASE names = {}
    <2> DEFINE block == <<HostsStart, HostsEnd>>
    <2>1. BuildManagedBlock(names) = block
        BY <1>3 DEF BuildManagedBlock
    <2>2. /\ block \in Seq(HostLine) /\ DOMAIN block = 1..2
          /\ block[1] = HostsStart /\ block[2] = HostsEnd
        BY <1>1
    <2> HIDE DEF block
    <2>3. HostsClosed(block)
        BY <1>2, <2>2 DEF HostsClosed
    <2>4. QED  BY <1>3, <2>1, <2>2, <2>3
<1>4. CASE names # {}
    <2> DEFINE block == <<HostsStart, HostsNames(names), HostsEnd>>
    <2>1. BuildManagedBlock(names) = block
        BY <1>4 DEF BuildManagedBlock
    <2>2. block \in Seq(HostLine) /\ DOMAIN block = 1..3
        BY <1>1
    <2>3. HostsClosed(block)
        BY <1>2, <2>2 DEF HostsClosed
    <2>4. block[2] \in ToSet(block)
        BY <2>2 DEF ToSet
    <2>5. QED  BY <2>1, <2>2, <2>3, <2>4
<1>5. QED  BY <1>3, <1>4

LEMMA HostsMergeKeeps ==
    ASSUME NEW lines \in Seq(HostLine), HostsClosed(lines), NEW names \in SUBSET Domains
    PROVE  LET out == MergeManagedBlock(lines, names) IN
           /\ out \in Seq(HostLine) /\ HostsClosed(out)
           /\ names \subseteq NamesIn(out)
           /\ \A l \in ToSet(lines) : l.kind = "text" => l \in ToSet(out)
<1> DEFINE P == {i \in DOMAIN lines : /\ ~InBlock(lines, i, {HostsStart}, {HostsEnd})
                                     /\ lines[i] # HostsEnd}
<1> DEFINE base == LinesAt(lines, P)
<1> DEFINE block == BuildManagedBlock(names)
<1>1. DOMAIN lines = 1..Len(lines) /\ Len(lines) \in Nat
    OBVIOUS
<1>2. ASSUME NEW i \in DOMAIN lines, lines[i].kind = "text" PROVE i \in P
    <2>1. lines[i] # HostsEnd
        BY <1>2 DEF HostsEnd
    <2>2. SUFFICES ASSUME InBlock(lines, i, {HostsStart}, {HostsEnd}) PROVE FALSE
        BY <2>1
    <2>3. PICK j \in 1..i : /\ lines[j] = HostsStart
                            /\ \A k \in j + 1..i - 1 : lines[k] # HostsEnd
        BY <2>2 DEF InBlock
    <2>4. j \in DOMAIN lines /\ lines[j].kind = "start"
        BY <1>1, <2>3 DEF HostsStart
    <2>5. \/ lines[j + 1] = HostsEnd
          \/ lines[j + 1].kind = "names" /\ lines[j + 2] = HostsEnd
        BY <2>4 DEF HostsClosed
    <2>6. i # j /\ i # j + 1
        BY <1>2, <2>4, <2>5 DEF HostsEnd
    <2>7. j + 1 \in j + 1..i - 1
        BY <1>1, <2>3, <2>6
    <2>8. lines[j + 2] = HostsEnd
        BY <2>3, <2>5, <2>7
    <2>9. i # j + 2
        BY <1>2, <2>8 DEF HostsEnd
    <2>10. j + 2 \in j + 1..i - 1
        BY <1>1, <2>3, <2>6, <2>9
    <2>11. QED  BY <2>3, <2>8, <2>10
<1>3. ASSUME NEW i \in P PROVE lines[i].kind # "start"
    <2>1. SUFFICES ASSUME lines[i].kind = "start" PROVE FALSE
        OBVIOUS
    <2>2. lines[i] = HostsStart
        BY <2>1, KindsOfHostLines
    <2>3. i \in 1..i /\ \A k \in i + 1..i - 1 : FALSE
        BY <1>1
    <2>4. QED  BY <2>2, <2>3 DEF InBlock
<1>4. /\ base \in Seq(HostLine)
      /\ \A i \in P : Rank(P, i) \in DOMAIN base /\ base[Rank(P, i)] = lines[i]
      /\ \A n \in DOMAIN base : \E i \in P : base[n] = lines[i]
    <2>1. P \in SUBSET (DOMAIN lines)
        OBVIOUS
    <2> HIDE DEF P
    <2>2. QED  BY <2>1, LinesAtKeeps
<1>5. MergeManagedBlock(lines, names) = base \o block
    BY DEF MergeManagedBlock
<1>6. /\ block \in Seq(HostLine) /\ HostsClosed(block)
      /\ names # {} => HostsNames(names) \in ToSet(block)
    BY BlockIsClosed
<1> HIDE DEF P, base, block
<1> DEFINE a == Len(base)
<1> DEFINE b == Len(block)
<1> DEFINE out == base \o block
<1>7. /\ a \in Nat /\ b \in Nat /\ DOMAIN base = 1..a /\ DOMAIN block = 1..b
      /\ out \in Seq(HostLine) /\ DOMAIN out = 1..(a + b)
      /\ \A i \in 1..a : out[i] = base[i]
      /\ \A k \in 1..b : out[a + k] = block[k]
    BY <1>4, <1>6, ConcatProperties, LenProperties
<1> HIDE DEF a, b, out
<1>8. ASSUME NEW n \in 1..(a + b), out[n].kind = "start"
      PROVE  /\ n + 1 \in 1..(a + b)
             /\ \/ out[n + 1] = HostsEnd
                \/ /\ out[n + 1].kind = "names"
                   /\ n + 2 \in 1..(a + b) /\ out[n + 2] = HostsEnd
    <2>1. n \notin 1..a
        BY <1>3, <1>4, <1>7, <1>8
    <2>2. n - a \in 1..b /\ n = a + (n - a)
        BY <1>7, <2>1
    <2>3. PICK k \in 1..b : n = a + k
        BY <2>2
    <2>4. k \in DOMAIN block /\ block[k].kind = "start"
        BY <1>7, <1>8, <2>3
    <2>5. /\ k + 1 \in 1..b
          /\ \/ block[k + 1] = HostsEnd
             \/ /\ block[k + 1].kind = "names"
                /\ k + 2 \in 1..b /\ block[k + 2] = HostsEnd
        BY <1>6, <1>7, <2>4 DEF HostsClosed
    <2>6. n + 1 = a + (k + 1) /\ n + 2 = a + (k + 2)
        BY <1>7, <2>3
    <2>7. QED  BY <1>7, <2>5, <2>6
<1>9. ASSUME NEW l, l \in ToSet(base) \/ l \in ToSet(block) PROVE l \in ToSet(out)
    <2>1. \A i \in 1..a : i \in 1..(a + b)
        BY <1>7
    <2>2. \A k \in 1..b : a + k \in 1..(a + b)
        BY <1>7
    <2>3. CASE l \in ToSet(base)
        BY <1>7, <2>1, <2>3 DEF ToSet
    <2>4. CASE l \in ToSet(block)
        BY <1>7, <2>2, <2>4 DEF ToSet
    <2>5. QED  BY <1>9, <2>3, <2>4
<1>10. names \subseteq NamesIn(out)
    <2>1. CASE names = {}
        BY <2>1
    <2>2. CASE names # {}
        <3>1. HostsNames(names) \in ToSet(out)
            BY <1>6, <1>9, <2>2
        <3>2. HostsNames(names).kind = "names" /\ HostsNames(names).names = names
            BY DEF HostsNames
        <3>3. HostsNames(names) \in {k \in ToSet(out) : k.kind = "names"}
            BY <3>1, <3>2
        <3>4. QED  BY <3>2, <3>3 DEF NamesIn
    <2>3. QED  BY <2>1, <2>2
<1>11. ASSUME NEW l \in ToSet(lines), l.kind = "text" PROVE l \in ToSet(out)
    <2>1. PICK i \in DOMAIN lines : l = lines[i]
        BY DEF ToSet
    <2>2. l \in ToSet(base)
        BY <1>2, <1>4, <1>11, <2>1 DEF ToSet
    <2>3. QED  BY <1>9, <2>2
<1>12. /\ out \in Seq(HostLine) /\ HostsClosed(out) /\ names \subseteq NamesIn(out)
       /\ \A l \in ToSet(lines) : l.kind = "text" => l \in ToSet(out)
    BY <1>7, <1>8, <1>10, <1>11 DEF HostsClosed
<1>13. MergeManagedBlock(lines, names) = out
    BY <1>5 DEF out
<1>14. QED  BY <1>12, <1>13

LEMMA HostsEditKeeps ==
    ASSUME NEW lines \in Seq(HostLine), HostsClosed(lines)
    PROVE  LET out == Append(lines, HostsText("own")) IN
           /\ out \in Seq(HostLine) /\ HostsClosed(out)
           /\ NamesIn(lines) \subseteq NamesIn(out)
<1> DEFINE out == Append(lines, HostsText("own"))
<1>1. HostsText("own") \in HostLine /\ HostsText("own").kind = "text"
    BY DEF HostLine, HostsText
<1>2. /\ out \in Seq(HostLine) /\ Len(out) = Len(lines) + 1 /\ Len(lines) \in Nat
      /\ \A i \in DOMAIN lines : out[i] = lines[i]
      /\ out[Len(lines) + 1].kind = "text"
      /\ DOMAIN out = 1..Len(lines) + 1 /\ DOMAIN lines = 1..Len(lines)
    BY <1>1, AppendProperties
<1> HIDE DEF out
<1>3. ASSUME NEW n \in DOMAIN out, out[n].kind = "start"
      PROVE  /\ n + 1 \in DOMAIN out
             /\ \/ out[n + 1] = HostsEnd
                \/ /\ out[n + 1].kind = "names"
                   /\ n + 2 \in DOMAIN out /\ out[n + 2] = HostsEnd
    <2>1. n \in DOMAIN lines /\ lines[n].kind = "start"
        BY <1>2, <1>3
    <2>2. /\ n + 1 \in DOMAIN lines
          /\ \/ lines[n + 1] = HostsEnd
             \/ /\ lines[n + 1].kind = "names"
                /\ n + 2 \in DOMAIN lines /\ lines[n + 2] = HostsEnd
        BY <2>1 DEF HostsClosed
    <2>3. QED  BY <1>2, <2>2
<1>4. ToSet(lines) \subseteq ToSet(out)
    BY <1>2 DEF ToSet
<1>5. QED  BY <1>2, <1>3, <1>4 DEF HostsClosed, NamesIn, out

-------------------------------------------------------------------------------
(***************************************************************************)
(* The sites a command publishes.                                          *)
(***************************************************************************)
ProjectSite == {s \in [path : Dirs, domain : Domains, target : Aliases] :
                  s.target = AliasOf[s.domain]}
ServiceSite == [domain |-> ServiceDomain, target |-> ServiceAlias]
Publication == ProjectSite \cup {ServiceSite}

LEMMA PublicationsAreSites == \A s \in Publication : SiteOK(s)
BY DEF Publication, ProjectSite, ServiceSite, SiteOK, Published

LEMMA DomainsResolve ==
    ASSUME TablesOK, NEW d \in Dirs
    PROVE  EffectiveDomain(d) \in Domains
<1>1. CASE HasManifest(d) /\ Manifest[d].domain # NoDomain
    <2>1. Manifest[d] \in [files : SUBSET Feature, domain : Domains \cup {NoDomain},
                           published : BOOLEAN]
        BY <1>1, ProxyConstants DEF HasManifest
    <2>2. QED  BY <1>1, <2>1 DEF EffectiveDomain
<1>2. CASE ~(HasManifest(d) /\ Manifest[d].domain # NoDomain) /\ At(d) # {}
    <2>1. PICK q \in projects : q.id = RowId(d)
        BY <1>2 DEF RowId, At
    <2>2. PICK e \in Domains : DomainsOf(RowId(d)) = {e}
        BY <2>1 DEF TablesOK, RowsAgree, OneDomainEach
    <2>3. QED  BY <1>2, <2>2 DEF EffectiveDomain
<1>3. CASE ~(HasManifest(d) /\ Manifest[d].domain # NoDomain) /\ At(d) = {}
    BY <1>3, ProxyConstants DEF EffectiveDomain
<1>4. QED  BY <1>1, <1>2, <1>3

LEMMA ExternalIsTyped ==
    ASSUME TablesOK, NEW d \in Dirs
    PROVE  External(d) \in ProjectSite
BY DomainsResolve DEF External, ProjectSite, Aliases

LEMMA ResolvedAreTyped ==
    ASSUME TablesOK, IsFiniteSet(projects), NEW rows \in SUBSET projects
    PROVE  ResolveExternalProjects(rows) \in Seq(ProjectSite)
<1> DEFINE resolved == {q \in rows : Resolvable(q.path)}
<1> DEFINE named == {q.name : q \in resolved}
<1> DEFINE names == InOrder(named)
<1> DEFINE site(n) == External((CHOOSE q \in resolved : q.name = names[n]).path)
<1>1. \A q \in resolved : q \in projects /\ q.name \in Nat /\ q.path \in Dirs
    BY DEF TablesOK, Project
<1>2. named \in SUBSET Nat
    BY <1>1
<1>3. IsFiniteSet(named)
    <2>1. IsFiniteSet(resolved)
        BY FS_Subset
    <2> DEFINE f == [q \in resolved |-> q.name]
    <2>2. f \in Surjection(resolved, named)
        BY DEF Surjection
    <2> HIDE DEF f
    <2>3. QED  BY <2>1, <2>2, FS_Surjection
<1>4. /\ DOMAIN names = 1..Cardinality(named) /\ Cardinality(named) \in Nat
      /\ \A n \in 1..Cardinality(named) : names[n] \in named
    BY <1>2, <1>3, InOrderLists
<1> HIDE DEF names
<1>5. ASSUME NEW n \in 1..Cardinality(named) PROVE site(n) \in ProjectSite
    <2>1. \E q \in resolved : q.name = names[n]
        BY <1>4
    <2>2. PICK q \in resolved : q = CHOOSE r \in resolved : r.name = names[n]
        BY <2>1
    <2>3. QED  BY <1>1, <2>2, ExternalIsTyped
<1>6. ResolveExternalProjects(rows) = [n \in 1..Cardinality(named) |-> site(n)]
    BY <1>4 DEF ResolveExternalProjects, names
<1> HIDE DEF site, named
<1>7. QED  BY <1>4, <1>5, <1>6

-------------------------------------------------------------------------------
(***************************************************************************)
(* The invariant: what every file and every command holds, for any number  *)
(* of terminals.  A file never holds half a block, and neither does what a *)
(* command is about to write.                                              *)
(***************************************************************************)
ProjectsOK ==
    /\ container \in [Dirs -> [state : {"absent", "running", "stopped"},
                               alias : Aliases]]
    /\ override \in [Dirs -> Aliases]
    /\ promised \in [Dirs -> Domains \cup {NoDomain}]

FilesOK ==
    /\ caddyfile \in Seq(Line) /\ Closed(caddyfile)
    /\ hosts \in Seq(HostLine) /\ HostsClosed(hosts)

CaddyOK ==
    caddy = Off \/ \A r \in caddy : r.target \in
        Aliases \cup {ServiceAlias} \cup {l.target : l \in UserLines}

Job == [step : {"connect", "merge", "write", "reload", "hosts", "copy"},
        kind : {"apply", "down", "publish"},
        todo : Seq(ProjectSite), sites : Seq(Publication), names : SUBSET Domains,
        content : Seq(Line) \cup Seq(HostLine)]

JobOK(j) ==
    /\ j \in Job
    /\ j.step = "write" => j.content \in Seq(Line) /\ Closed(j.content)
    /\ j.step = "copy" => j.content \in Seq(HostLine) /\ HostsClosed(j.content)

JobsOK ==
    /\ job = [t \in Terminals |-> job[t]]
    /\ \A t \in Terminals : job[t] = Idle \/ JobOK(job[t])
    /\ \A t \in Terminals : job[t] = Idle \/ parking[t] = Idle

RowsOK == RegistryInv /\ IsFiniteSet(projects)

ProxyInv == RowsOK /\ ProjectsOK /\ FilesOK /\ CaddyOK /\ JobsOK

LEMMA ProxyInvImplies == ProxyInv => ProxyTypeOK
BY InvImplies DEF ProxyInv, RowsOK, ProjectsOK, CaddyOK, JobsOK, ProxyTypeOK

LEMMA TemplateIsClosed == Template \in Seq(Line) /\ Closed(Template)
<1>1. Text("global options") \in Line /\ Text("global options").kind = "text"
    BY DEF Line, Text
<1>2. \A l \in Line : <<l>> \in Seq(Line) /\ \A i \in DOMAIN <<l>> : <<l>>[i] = l
    OBVIOUS
<1>3. /\ Template \in Seq(Line)
      /\ \A i \in DOMAIN Template : Template[i] = Text("global options")
    BY <1>1, <1>2 DEF Template
<1>4. QED  BY <1>1, <1>3 DEF Closed

LEMMA ProxyInitEstablishes == ProxyInit => ProxyInv
<1> SUFFICES ASSUME ProxyInit PROVE ProxyInv
    OBVIOUS
<1>1. RowsOK
    BY InitEstablishes, InitialRowsAgree DEF ProxyInit, RegistryInit, RowsOK
<1>2. ProjectsOK
    BY DEF ProxyInit, ProjectsOK, Absent, Aliases
<1>3. FilesOK
    <2>1. HostsText("localhost") \in HostLine /\ HostsText("localhost").kind = "text"
        BY DEF HostLine, HostsText
    <2>2. \A l : l = HostsText("localhost") =>
            <<l>> \in Seq(HostLine) /\ \A i \in DOMAIN <<l>> : <<l>>[i] = l
        BY <2>1
    <2>3. hosts \in Seq(HostLine) /\ HostsClosed(hosts)
        BY <2>1, <2>2 DEF ProxyInit, HostsClosed
    <2>4. QED  BY <2>3, TemplateIsClosed DEF ProxyInit, FilesOK
<1>4. CaddyOK /\ JobsOK
    BY DEF ProxyInit, CaddyOK, JobsOK, RegistryInit
<1>5. QED  BY <1>1, <1>2, <1>3, <1>4 DEF ProxyInv

\* The registry's part, when a step of a command leaves its variables alone.
LEMMA RowsStay ==
    ASSUME RowsOK, UNCHANGED registryVars
    PROVE  RowsOK'
<1>1. RegistryInv'
    BY StutterKeeps DEF RowsOK
<1>2. QED  BY <1>1 DEF RowsOK, registryVars, tableVars

LEMMA FilesStay ==
    ASSUME FilesOK, UNCHANGED <<caddyfile, hosts>>
    PROVE  FilesOK'
BY DEF FilesOK, Closed, HostsClosed

\* One terminal's command becomes another.
LEMMA JobChanges ==
    ASSUME JobsOK, UNCHANGED parking, NEW t \in Terminals, NEW j,
           job' = [job EXCEPT ![t] = j], j = Idle \/ JobOK(j),
           j = Idle \/ parking[t] = Idle
    PROVE  JobsOK'
<1>1. \A u \in Terminals : job'[u] = IF u = t THEN j ELSE job[u]
    BY DEF JobsOK
<1>2. job' = [u \in Terminals |-> job'[u]]
    BY DEF JobsOK
<1>3. QED  BY <1>1, <1>2 DEF JobsOK

LEMMA JobsStay ==
    ASSUME JobsOK, UNCHANGED <<job, parking>>
    PROVE  JobsOK'
BY DEF JobsOK

LEMMA RowsKept ==
    ASSUME RowsOK, RegistryNext
    PROVE  RowsOK'
<1>1. RegistryInv'
    BY NextKeeps DEF RowsOK
<1>2. CASE UNCHANGED projects
    BY <1>1, <1>2 DEF RowsOK
<1>3. ASSUME NEW t \in Terminals, ParkNext(t), ~UNCHANGED projects
      PROVE  IsFiniteSet(projects')
    <2>1. PICK p \in parking[t].todo : UpsertProject(p)
        BY <1>3 DEF ParkNext, tableVars
    <2>2. PICK new : projects' = (projects \ At(p.path)) \cup {new}
        BY <2>1 DEF UpsertProject
    <2>3. IsFiniteSet(projects \ At(p.path))
        BY FS_Difference DEF RowsOK
    <2>4. QED  BY <2>2, <2>3, FS_AddElement
<1>4. ASSUME NEW t \in Terminals, ParkPrune(t)
      PROVE  IsFiniteSet(projects')
    <2>1. projects' \subseteq projects
        BY <1>4 DEF ParkPrune, PruneDetectedProjectsUnderPath, RemoveProjects
    <2>2. QED  BY <2>1, FS_Subset DEF RowsOK
<1>5. UNCHANGED projects \/ \E t \in Terminals : ParkNext(t) \/ ParkPrune(t)
    BY DEF RegistryNext, Make, Delete, Change, Park, ParkStart, ParkDies,
           SetPrimaryDomain, tableVars
<1>6. QED  BY <1>1, <1>2, <1>3, <1>4, <1>5 DEF RowsOK

LEMMA RegistryKeeps ==
    ASSUME ProxyInv, Registry
    PROVE  ProxyInv'
<1>1. RowsOK'
    BY RowsKept DEF ProxyInv, Registry
<1>2. ProjectsOK'
    <2>1. promised' \in [Dirs -> Domains \cup {NoDomain}]
        BY DEF ProxyInv, Registry, ProjectsOK
    <2>2. QED  BY <2>1 DEF ProxyInv, Registry, ProjectsOK
<1>3. FilesOK' /\ CaddyOK'
    BY FilesStay DEF ProxyInv, Registry, CaddyOK
<1>4. JobsOK'
    BY DEF ProxyInv, Registry, JobsOK
<1>5. QED  BY <1>1, <1>2, <1>3, <1>4 DEF ProxyInv

LEMMA UpKeeps ==
    ASSUME ProxyInv, NEW t \in Terminals, NEW d \in Dirs, Up(t, d)
    PROVE  ProxyInv'
<1>1. RowsOK' /\ FilesOK' /\ CaddyOK' /\ JobsOK'
    BY RowsStay, FilesStay, JobsStay DEF ProxyInv, Up, CaddyOK, registryVars
<1> DEFINE alias == PrepareComposeProject(d)
<1>2. alias \in Aliases
    BY ExternalIsTyped DEF ProxyInv, RowsOK, RegistryInv, PrepareComposeProject,
                           ProjectSite, Aliases
<1> HIDE DEF alias
<1>3. PICK new : new = [state |-> "running", alias |-> alias]
    OBVIOUS
<1>4. /\ container' \in {container, [container EXCEPT ![d] = new]}
      /\ override' = [override EXCEPT ![d] = IF Resolvable(d) THEN alias ELSE @]
      /\ promised' = [promised EXCEPT ![d] =
            IF container'[d].alias = container[d].alias THEN @ ELSE NoDomain]
    BY <1>3 DEF Up, alias
<1>5. ProjectsOK'
    <2>1. container' \in [Dirs -> [state : {"absent", "running", "stopped"},
                                   alias : Aliases]]
        BY <1>2, <1>3, <1>4 DEF ProxyInv, ProjectsOK
    <2>2. override' \in [Dirs -> Aliases]
        BY <1>2, <1>4 DEF ProxyInv, ProjectsOK
    <2>3. promised' \in [Dirs -> Domains \cup {NoDomain}]
        BY <1>4 DEF ProxyInv, ProjectsOK
    <2>4. QED  BY <2>1, <2>2, <2>3 DEF ProjectsOK
<1>6. QED  BY <1>1, <1>5 DEF ProxyInv

LEMMA StopKeeps ==
    ASSUME ProxyInv, NEW t \in Terminals, NEW d \in Dirs, Stop(t, d)
    PROVE  ProxyInv'
<1>1. RowsOK' /\ FilesOK' /\ CaddyOK' /\ JobsOK'
    BY RowsStay, FilesStay, JobsStay DEF ProxyInv, Stop, CaddyOK, registryVars
<1>2. ProjectsOK'
    BY DEF ProxyInv, Stop, ProjectsOK
<1>3. QED  BY <1>1, <1>2 DEF ProxyInv

LEMMA DownKeeps ==
    ASSUME ProxyInv, NEW t \in Terminals, NEW d \in Dirs, Down(t, d)
    PROVE  ProxyInv'
<1>1. RowsOK' /\ FilesOK' /\ CaddyOK'
    BY RowsStay, FilesStay DEF ProxyInv, Down, CaddyOK
<1>2. ProjectsOK'
    <2>1. Absent \in [state : {"absent", "running", "stopped"}, alias : Aliases]
        BY DEF Absent, Aliases
    <2>2. promised' \in [Dirs -> Domains \cup {NoDomain}]
        BY DEF ProxyInv, ProjectsOK, Down
    <2>3. NoAlias \in Aliases
        BY DEF Aliases
    <2>4. QED  BY <2>1, <2>2, <2>3 DEF ProxyInv, ProjectsOK, Down
<1>3. External(d) \in Publication
    BY ExternalIsTyped DEF ProxyInv, RowsOK, RegistryInv, Publication
<1> DEFINE begun == [step |-> "merge", kind |-> "down", todo |-> <<>>,
                     sites |-> <<External(d)>>, names |-> {}, content |-> <<>>]
<1>4. JobOK(begun)
    BY <1>3 DEF JobOK, Job
<1> HIDE DEF begun
<1>5. PICK j \in {begun, Idle} : job' = [job EXCEPT ![t] = j]
    BY DEF Down, begun
<1>6. parking[t] = Idle /\ UNCHANGED parking
    BY DEF Down, Free, registryVars
<1>7. JobsOK'
    BY <1>4, <1>5, <1>6, JobChanges DEF ProxyInv
<1>8. QED  BY <1>1, <1>2, <1>7 DEF ProxyInv

LEMMA ApplyStartKeeps ==
    ASSUME ProxyInv, NEW t \in Terminals, NEW rows \in SUBSET projects,
           ApplyStart(t, rows)
    PROVE  ProxyInv'
<1>1. RowsOK' /\ ProjectsOK' /\ FilesOK' /\ CaddyOK'
    BY RowsStay, FilesStay DEF ProxyInv, ApplyStart, CaddyOK, ProjectsOK
<1> DEFINE sites == ResolveExternalProjects(rows)
<1>2. sites \in Seq(ProjectSite)
    BY ResolvedAreTyped DEF ProxyInv, RowsOK, RegistryInv
<1>3. sites \in Seq(Publication)
    BY <1>2 DEF Publication
<1>4. CollectDomains \in SUBSET Domains
    BY DEF ProxyInv, RowsOK, RegistryInv, TablesOK, CollectDomains, ProjectDomain
<1> HIDE DEF sites
<1> DEFINE begun == [step |-> "connect", kind |-> "apply", todo |-> sites,
                     sites |-> sites, names |-> CollectDomains, content |-> <<>>]
<1>5. JobOK(begun)
    BY <1>2, <1>3, <1>4 DEF JobOK, Job
<1>6. /\ job' = [job EXCEPT ![t] = begun]
      /\ parking[t] = Idle /\ UNCHANGED parking
    BY DEF ApplyStart, Free, registryVars, sites
<1> HIDE DEF begun
<1>7. JobsOK'
    BY <1>5, <1>6, JobChanges DEF ProxyInv
<1>8. QED  BY <1>1, <1>7 DEF ProxyInv

LEMMA PublishKeeps ==
    ASSUME ProxyInv, NEW t \in Terminals, PublishSharedService(t)
    PROVE  ProxyInv'
<1>1. RowsOK' /\ FilesOK' /\ CaddyOK'
    BY RowsStay, FilesStay DEF ProxyInv, PublishSharedService, CaddyOK
<1>2. ProjectsOK'
    <2>1. promised' = [d \in Dirs |-> IF promised[d] = ServiceDomain THEN NoDomain
                                      ELSE promised[d]]
        BY DEF PublishSharedService
    <2>2. promised' \in [Dirs -> Domains \cup {NoDomain}]
        BY <2>1 DEF ProxyInv, ProjectsOK
    <2>3. QED  BY <2>2 DEF ProxyInv, ProjectsOK, PublishSharedService
<1> DEFINE begun == [step |-> "connect", kind |-> "publish", todo |-> <<>>,
                     sites |-> <<ServiceSite>>, names |-> {}, content |-> <<>>]
<1>3. JobOK(begun)
    <2>1. ServiceSite \in Publication
        BY DEF Publication
    <2>2. QED  BY <2>1 DEF JobOK, Job
<1>4. /\ job' = [job EXCEPT ![t] = begun]
      /\ parking[t] = Idle /\ UNCHANGED parking
    BY DEF PublishSharedService, Free, registryVars, ServiceSite
<1> HIDE DEF begun
<1>5. JobsOK'
    BY <1>3, <1>4, JobChanges DEF ProxyInv
<1>6. QED  BY <1>1, <1>2, <1>5 DEF ProxyInv

LEMMA BootstrapKeeps ==
    ASSUME ProxyInv, NEW t \in Terminals, NEW force \in BOOLEAN, Bootstrap(t, force)
    PROVE  ProxyInv'
<1>1. RowsOK' /\ CaddyOK' /\ JobsOK'
    BY RowsStay, JobsStay DEF ProxyInv, Bootstrap, CaddyOK, registryVars
<1>2. ProjectsOK'
    BY DEF ProxyInv, Bootstrap, ProjectsOK
<1>3. FilesOK'
    <2>1. Template \in Seq(Line) /\ Closed(Template)
        BY TemplateIsClosed
    <2>2. (caddyfile' = Template \/ caddyfile' = caddyfile) /\ hosts' = hosts
        BY DEF Bootstrap, EnsureManagedFile
    <2>3. QED  BY <2>1, <2>2 DEF ProxyInv, FilesOK, Closed, HostsClosed
<1>4. QED  BY <1>1, <1>2, <1>3 DEF ProxyInv

LEMMA ConnectKeeps ==
    ASSUME ProxyInv, NEW t \in Terminals, ConnectProject(t)
    PROVE  ProxyInv'
<1>1. RowsOK' /\ FilesOK' /\ CaddyOK'
    BY RowsStay, FilesStay DEF ProxyInv, ConnectProject, CaddyOK
<1>2. JobOK(job[t]) /\ job[t] # Idle /\ job[t].todo # <<>> /\ job[t].step = "connect"
    BY DEF ProxyInv, JobsOK, ConnectProject
<1>3. PICK p \in ProjectSite : p = Head(job[t].todo)
    BY <1>2 DEF JobOK, Job
<1>4. /\ p.path \in Dirs /\ p.target \in Aliases
      /\ override' = [override EXCEPT ![p.path] = p.target]
      /\ container' = [container EXCEPT ![p.path] = Connected(@, p.target)]
    BY <1>3 DEF ConnectProject, ProjectSite
<1>5. ProjectsOK'
    <2>1. ASSUME NEW c \in [state : {"absent", "running", "stopped"}, alias : Aliases]
          PROVE  Connected(c, p.target) \in
                    [state : {"absent", "running", "stopped"}, alias : Aliases]
        BY <1>4 DEF Connected
    <2>2. container' \in [Dirs -> [state : {"absent", "running", "stopped"},
                                   alias : Aliases]]
        BY <1>4, <2>1 DEF ProxyInv, ProjectsOK
    <2>3. QED  BY <1>4, <2>2 DEF ProxyInv, ProjectsOK, ConnectProject
<1>6. PICK rest \in Seq(ProjectSite) : rest = Tail(job[t].todo)
    <2>1. job[t].todo \in Seq(ProjectSite)
        BY <1>2 DEF JobOK, Job
    <2>2. Tail(job[t].todo) \in Seq(ProjectSite)
        BY <1>2, <2>1, HeadTailProperties
    <2>3. QED  BY <2>2
<1>7. PICK j : j = [job[t] EXCEPT !.todo = rest]
    OBVIOUS
<1>8. job' = [job EXCEPT ![t] = j]
    BY <1>6, <1>7 DEF ConnectProject
<1>9. JobOK(j)
    <2>1. j \in Job /\ j.step = "connect"
        BY <1>2, <1>6, <1>7 DEF JobOK, Job
    <2>2. QED  BY <2>1 DEF JobOK
<1>10. parking[t] = Idle /\ UNCHANGED parking
    BY <1>2 DEF ProxyInv, JobsOK, ConnectProject, registryVars
<1>11. JobsOK'
    BY <1>8, <1>9, <1>10, JobChanges DEF ProxyInv
<1>12. QED  BY <1>1, <1>5, <1>11 DEF ProxyInv

Moved(j, step, content) == [j EXCEPT !.step = step, !.content = content]

\* A command takes its next step: what it carries stays as it was.
LEMMA JobMoves ==
    ASSUME NEW j \in Job, NEW step \in {"write", "reload", "hosts", "copy"},
           NEW content \in Seq(Line) \cup Seq(HostLine),
           step = "write" => content \in Seq(Line) /\ Closed(content),
           step = "copy" => content \in Seq(HostLine) /\ HostsClosed(content)
    PROVE  LET k == Moved(j, step, content) IN
           /\ JobOK(k)
           /\ k.step = step /\ k.content = content
           /\ k.kind = j.kind /\ k.sites = j.sites /\ k.names = j.names
<1>1. PICK k : k = [j EXCEPT !.step = step, !.content = content]
    OBVIOUS
<1>2. PICK half : half = [j EXCEPT !.step = step]
    OBVIOUS
<1>3. /\ half \in Job /\ half.step = step
      /\ half.kind = j.kind /\ half.sites = j.sites /\ half.names = j.names
    BY <1>2 DEF Job
<1>4. k = [half EXCEPT !.content = content]
    BY <1>1, <1>2
<1>5. /\ k \in Job /\ k.step = step /\ k.content = content
      /\ k.kind = j.kind /\ k.sites = j.sites /\ k.names = j.names
    BY <1>3, <1>4 DEF Job
<1>6. JobOK(k)
    BY <1>5 DEF JobOK
<1>7. k = Moved(j, step, content)
    BY <1>1 DEF Moved
<1>8. QED  BY <1>5, <1>6, <1>7

\* What a command reads of the Caddyfile and is about to write.
LEMMA ReadKeepsClosed ==
    ASSUME FilesOK, NEW j \in Job,
           NEW out, out = IF j.kind = "down"
                          THEN StripManagedDomains(caddyfile, DomainsOfSites(j.sites))
                          ELSE MergeExternalProxyConfig(caddyfile, j.sites)
    PROVE  /\ out \in Seq(Line) /\ Closed(out)
           /\ \A l \in ToSet(caddyfile) :
                \/ l.kind = "text"
                \/ l.kind = "site" /\ l.domain \notin DomainsOfSites(j.sites)
                => l \in ToSet(out)
           /\ j.kind # "down" =>
                \A s \in ToSet(j.sites) : Site(s.domain, s.target) \in ToSet(out)
<1>1. caddyfile \in Seq(Line) /\ Closed(caddyfile)
    BY DEF FilesOK
<1>2. j.sites \in Seq(Publication)
    BY DEF Job
<1>3. CASE j.kind = "down"
    <2>1. out = StripManagedDomains(caddyfile, DomainsOfSites(j.sites))
        BY <1>3
    <2>2. out \in Seq(Line) /\ Closed(out)
        BY <1>1, <2>1, StripKeepsClosed
    <2>3. \A i \in DOMAIN caddyfile :
            \/ caddyfile[i].kind = "text"
            \/ /\ caddyfile[i].kind = "site"
               /\ caddyfile[i].domain \notin DomainsOfSites(j.sites)
            => caddyfile[i] \in ToSet(out)
        BY <1>1, <2>1, OthersStay
    <2>4. QED  BY <1>3, <2>2, <2>3 DEF ToSet
<1>4. CASE j.kind # "down"
    <2>1. out = MergeExternalProxyConfig(caddyfile, j.sites)
        BY <1>4
    <2>2. QED  BY <1>1, <1>2, <2>1, MergeKeeps, PublicationsAreSites
<1>5. QED  BY <1>3, <1>4

LEMMA ReadCaddyfileKeeps ==
    ASSUME ProxyInv, NEW t \in Terminals, ReadCaddyfile(t)
    PROVE  ProxyInv'
<1>1. RowsOK' /\ ProjectsOK' /\ FilesOK' /\ CaddyOK'
    BY RowsStay, FilesStay DEF ProxyInv, ReadCaddyfile, CaddyOK, ProjectsOK
<1>2. job[t] # Idle /\ job[t] \in Job
    BY DEF ProxyInv, JobsOK, JobOK, ReadCaddyfile, Doing
<1>3. PICK out : out = IF job[t].kind = "down"
                       THEN StripManagedDomains(caddyfile, DomainsOfSites(job[t].sites))
                       ELSE MergeExternalProxyConfig(caddyfile, job[t].sites)
    OBVIOUS
<1>4. out \in Seq(Line) /\ Closed(out)
    BY <1>2, <1>3, ReadKeepsClosed DEF ProxyInv
<1>5. PICK j : j = Moved(job[t], "write", out)
    OBVIOUS
<1>6. JobOK(j)
    BY <1>2, <1>4, <1>5, JobMoves
<1>7. job' = [job EXCEPT ![t] = j]
    BY <1>3, <1>5 DEF ReadCaddyfile, Moved
<1>8. parking[t] = Idle /\ UNCHANGED parking
    BY <1>2 DEF ProxyInv, JobsOK, ReadCaddyfile, registryVars
<1>9. JobsOK'
    BY <1>6, <1>7, <1>8, JobChanges DEF ProxyInv
<1>10. QED  BY <1>1, <1>9 DEF ProxyInv

LEMMA WriteCaddyfileKeeps ==
    ASSUME ProxyInv, NEW t \in Terminals, WriteCaddyfile(t)
    PROVE  ProxyInv'
<1>1. RowsOK' /\ ProjectsOK' /\ CaddyOK'
    BY RowsStay DEF ProxyInv, WriteCaddyfile, CaddyOK, ProjectsOK
<1>2. job[t] # Idle /\ job[t] \in Job /\ job[t].step = "write" /\ JobOK(job[t])
    BY DEF ProxyInv, JobsOK, JobOK, WriteCaddyfile, Doing
<1>3. FilesOK'
    BY <1>2 DEF ProxyInv, WriteCaddyfile, FilesOK, JobOK, Closed, HostsClosed
<1>4. PICK j : j = Moved(job[t], "reload", <<>>)
    OBVIOUS
<1>5. JobOK(j)
    <2>1. <<>> \in Seq(Line) \cup Seq(HostLine)
        OBVIOUS
    <2>2. QED  BY <1>2, <1>4, <2>1, JobMoves
<1>6. job' = [job EXCEPT ![t] = j]
    BY <1>4 DEF WriteCaddyfile, Moved
<1>7. parking[t] = Idle /\ UNCHANGED parking
    BY <1>2 DEF ProxyInv, JobsOK, WriteCaddyfile, registryVars
<1>8. JobsOK'
    BY <1>5, <1>6, <1>7, JobChanges DEF ProxyInv
<1>9. QED  BY <1>1, <1>3, <1>8 DEF ProxyInv

LEMMA RoutesAreTyped ==
    ASSUME FilesOK
    PROVE  \A r \in Routes(caddyfile) : r.target \in
                Aliases \cup {ServiceAlias} \cup {l.target : l \in UserLines}
<1> TAKE r \in Routes(caddyfile)
<1>1. PICK l \in ToSet(caddyfile) : l.kind = "site" /\ r.target = l.target
    BY DEF Routes, SitesIn
<1>2. l \in Line
    BY DEF FilesOK, ToSet
<1>3. CASE l \in UserLines
    BY <1>1, <1>3
<1>4. CASE l \in [kind : {"site"}, domain : Published, target : Aliases \cup {ServiceAlias}]
    BY <1>1, <1>4
<1>5. CASE l \in [kind : {"start", "end"}, domain : Published, target : {NoDomain}]
    BY <1>1, <1>5
<1>6. CASE l = Text("global options")
    BY <1>1, <1>6 DEF Text
<1>7. QED  BY <1>2, <1>3, <1>4, <1>5, <1>6 DEF Line

LEMMA ReloadKeeps ==
    ASSUME ProxyInv, NEW t \in Terminals, ReloadCaddy(t)
    PROVE  ProxyInv'
<1>1. RowsOK' /\ ProjectsOK' /\ FilesOK'
    BY RowsStay, FilesStay DEF ProxyInv, ReloadCaddy, ProjectsOK
<1>2. CaddyOK'
    BY RoutesAreTyped DEF ProxyInv, ReloadCaddy, CaddyOK
<1>3. job[t] # Idle /\ JobOK(job[t])
    BY DEF ProxyInv, JobsOK, ReloadCaddy, Doing
<1>4. PICK j : j = [job[t] EXCEPT !.step = "hosts"]
    OBVIOUS
<1>5. j \in Job /\ j.step = "hosts"
    BY <1>3, <1>4 DEF JobOK, Job
<1>6. PICK k \in {j, Idle} : job' = [job EXCEPT ![t] = k]
    BY <1>4 DEF ReloadCaddy
<1>7. k = Idle \/ JobOK(k)
    BY <1>5, <1>6 DEF JobOK
<1>8. parking[t] = Idle /\ UNCHANGED parking
    BY <1>3 DEF ProxyInv, JobsOK, ReloadCaddy, registryVars
<1>9. JobsOK'
    BY <1>6, <1>7, <1>8, JobChanges DEF ProxyInv
<1>10. QED  BY <1>1, <1>2, <1>9 DEF ProxyInv

LEMMA ReadHostsKeeps ==
    ASSUME ProxyInv, NEW t \in Terminals, ReadHosts(t)
    PROVE  ProxyInv'
<1>1. RowsOK' /\ ProjectsOK' /\ FilesOK' /\ CaddyOK'
    BY RowsStay, FilesStay DEF ProxyInv, ReadHosts, CaddyOK, ProjectsOK
<1>2. job[t] # Idle /\ job[t] \in Job
    BY DEF ProxyInv, JobsOK, JobOK, ReadHosts, Doing
<1>3. PICK out : out = MergeManagedBlock(hosts, job[t].names)
    OBVIOUS
<1>4. out \in Seq(HostLine) /\ HostsClosed(out)
    <2>1. hosts \in Seq(HostLine) /\ HostsClosed(hosts) /\ job[t].names \in SUBSET Domains
        BY <1>2 DEF ProxyInv, FilesOK, Job
    <2>2. QED  BY <1>3, <2>1, HostsMergeKeeps
<1>5. PICK j : j = Moved(job[t], "copy", out)
    OBVIOUS
<1>6. JobOK(j)
    BY <1>2, <1>4, <1>5, JobMoves
<1>7. PICK k \in {j, Idle} : job' = [job EXCEPT ![t] = k]
    BY <1>3, <1>5 DEF ReadHosts, Moved
<1>8. parking[t] = Idle /\ UNCHANGED parking
    BY <1>2 DEF ProxyInv, JobsOK, ReadHosts, registryVars
<1>9. JobsOK'
    BY <1>6, <1>7, <1>8, JobChanges DEF ProxyInv
<1>10. QED  BY <1>1, <1>9 DEF ProxyInv

LEMMA CopyHostsKeeps ==
    ASSUME ProxyInv, NEW t \in Terminals, CopyHosts(t)
    PROVE  ProxyInv'
<1>1. RowsOK' /\ CaddyOK'
    BY RowsStay DEF ProxyInv, CopyHosts, CaddyOK
<1>2. job[t] # Idle /\ JobOK(job[t]) /\ job[t].step = "copy"
    BY DEF ProxyInv, JobsOK, CopyHosts, Doing
<1>3. FilesOK'
    BY <1>2 DEF ProxyInv, CopyHosts, FilesOK, JobOK, Closed, HostsClosed
<1>4. ProjectsOK'
    <2>1. \A p \in Applied(t) : p.domain \in Domains
        BY <1>2 DEF Applied, JobOK, Job
    <2>2. promised' \in [Dirs -> Domains \cup {NoDomain}]
        BY <2>1 DEF ProxyInv, ProjectsOK, CopyHosts
    <2>3. QED  BY <2>2 DEF ProxyInv, ProjectsOK, CopyHosts
<1>5. JobsOK'
    <2>1. job' = [job EXCEPT ![t] = Idle] /\ UNCHANGED parking
        BY DEF CopyHosts, registryVars
    <2>2. QED  BY <2>1, JobChanges DEF ProxyInv
<1>6. QED  BY <1>1, <1>3, <1>4, <1>5 DEF ProxyInv

LEMMA DiesKeeps ==
    ASSUME ProxyInv, NEW t \in Terminals, Dies(t)
    PROVE  ProxyInv'
<1>1. RowsOK' /\ ProjectsOK' /\ FilesOK' /\ CaddyOK'
    BY RowsStay, FilesStay DEF ProxyInv, Dies, CaddyOK, ProjectsOK
<1>2. job' = [job EXCEPT ![t] = Idle] /\ UNCHANGED parking
    BY DEF Dies, registryVars
<1>3. QED  BY <1>1, <1>2, JobChanges DEF ProxyInv

LEMMA CaddyRestartsKeeps ==
    ASSUME ProxyInv, CaddyRestarts
    PROVE  ProxyInv'
<1>1. RowsOK' /\ ProjectsOK' /\ FilesOK' /\ JobsOK'
    BY RowsStay, FilesStay, JobsStay DEF ProxyInv, CaddyRestarts, ProjectsOK, registryVars
<1>2. CaddyOK'
    BY RoutesAreTyped DEF ProxyInv, CaddyRestarts, Loaded, CaddyOK
<1>3. QED  BY <1>1, <1>2 DEF ProxyInv

LEMMA UserEditKeeps ==
    ASSUME ProxyInv, Edit
    PROVE  ProxyInv'
<1>1. RowsOK' /\ ProjectsOK' /\ CaddyOK' /\ JobsOK'
    BY RowsStay, JobsStay DEF ProxyInv, Edit, CaddyOK, ProjectsOK, registryVars
<1>2. FilesOK'
    <2>1. caddyfile \in Seq(Line) /\ Closed(caddyfile)
          /\ hosts \in Seq(HostLine) /\ HostsClosed(hosts)
        BY DEF ProxyInv, FilesOK
    <2>2. CASE \E line \in UserLines :
                 /\ caddyfile' \in {<<line>> \o caddyfile, Append(caddyfile, line)}
                 /\ UNCHANGED hosts
        BY <2>1, <2>2, EditKeeps DEF FilesOK, HostsClosed
    <2>3. CASE hosts' = Append(hosts, HostsText("own")) /\ UNCHANGED caddyfile
        BY <2>1, <2>3, HostsEditKeeps DEF FilesOK, Closed
    <2>4. QED  BY <2>2, <2>3 DEF Edit
<1>3. QED  BY <1>1, <1>2 DEF ProxyInv

LEMMA ProxyNextKeeps == ProxyInv /\ [Next]_vars => ProxyInv'
<1> SUFFICES ASSUME ProxyInv, [Next]_vars PROVE ProxyInv'
    OBVIOUS
<1>1. CASE Registry
    BY <1>1, RegistryKeeps
<1>2. ASSUME NEW t \in Terminals, Command(t) PROVE ProxyInv'
    <2>1. CASE \E d \in Dirs : Up(t, d) \/ Stop(t, d) \/ Down(t, d)
        BY <2>1, UpKeeps, StopKeeps, DownKeeps
    <2>2. CASE \E rows \in {projects} \cup {{q} : q \in projects} : ApplyStart(t, rows)
        <3>1. PICK rows \in SUBSET projects : ApplyStart(t, rows)
            BY <2>2
        <3>2. QED  BY <3>1, ApplyStartKeeps
    <2>3. CASE PublishSharedService(t)
        BY <2>3, PublishKeeps
    <2>4. CASE \E force \in BOOLEAN : Bootstrap(t, force)
        BY <2>4, BootstrapKeeps
    <2>5. QED  BY <1>2, <2>1, <2>2, <2>3, <2>4 DEF Command
<1>3. ASSUME NEW t \in Terminals, Step(t) PROVE ProxyInv'
    BY <1>3, ConnectKeeps, ReadCaddyfileKeeps, WriteCaddyfileKeeps, ReloadKeeps,
       ReadHostsKeeps, CopyHostsKeeps, DiesKeeps DEF Step
<1>4. CASE CaddyRestarts
    BY <1>4, CaddyRestartsKeeps
<1>5. CASE Edit
    BY <1>5, UserEditKeeps
<1>6. CASE UNCHANGED vars
    <2>1. UNCHANGED <<registryVars, proxyVars>>
        BY <1>6 DEF vars
    <2>2. RowsOK' /\ FilesOK' /\ JobsOK'
        BY <2>1, RowsStay, FilesStay, JobsStay DEF ProxyInv, proxyVars, registryVars
    <2>3. QED  BY <2>1, <2>2 DEF ProxyInv, ProjectsOK, CaddyOK, proxyVars
<1>7. QED  BY <1>1, <1>2, <1>3, <1>4, <1>5, <1>6 DEF Next

THEOREM ProxyStays == Spec => []ProxyInv
<1>1. QED  BY ProxyInitEstablishes, ProxyNextKeeps, PTL DEF Spec

-------------------------------------------------------------------------------
(***************************************************************************)
(* The theorems on the proxy.                                              *)
(***************************************************************************)

\* Containers, overrides, routes and promises are well typed, and no terminal
\* parks and publishes at once, for any number of terminals.
THEOREM ProxyTyped == Spec => []ProxyTypeOK
<1>1. QED  BY ProxyStays, ProxyInvImplies, PTL

\* Whatever commands run at the same time, fail or are interrupted: what one
\* writes back holds the user's own lines it read.
THEOREM UserLinesStay == Spec => UserLinesSurvive
<1> DEFINE kept(t) ==
        /\ ReadCaddyfile(t) =>
            {l \in UserLines \cap ToSet(caddyfile) :
                l.domain \notin DomainsOfSites(job[t].sites)}
                \subseteq ToSet(job'[t].content)
        /\ ReadHosts(t) /\ Doing(t, "copy")' =>
            {l \in ToSet(hosts) : l.kind = "text"} \subseteq ToSet(job'[t].content)
<1>1. ASSUME ProxyInv, NEW t \in Terminals, ReadCaddyfile(t)
      PROVE  {l \in UserLines \cap ToSet(caddyfile) :
                l.domain \notin DomainsOfSites(job[t].sites)}
                \subseteq ToSet(job'[t].content)
    <2>1. job[t] # Idle /\ job[t] \in Job
        BY <1>1 DEF ProxyInv, JobsOK, JobOK, ReadCaddyfile, Doing
    <2>2. PICK out : out = IF job[t].kind = "down"
                           THEN StripManagedDomains(caddyfile, DomainsOfSites(job[t].sites))
                           ELSE MergeExternalProxyConfig(caddyfile, job[t].sites)
        OBVIOUS
    <2>3. \A l \in ToSet(caddyfile) :
            \/ l.kind = "text"
            \/ l.kind = "site" /\ l.domain \notin DomainsOfSites(job[t].sites)
            => l \in ToSet(out)
        BY <1>1, <2>1, <2>2, ReadKeepsClosed DEF ProxyInv
    <2>4. \A l \in UserLines : l.kind \in {"text", "site"}
        BY ProxyConstants
    <2>5. job'[t].content = out
        <3>1. job' = [job EXCEPT ![t].step = "write", ![t].content = out]
            BY <1>1, <2>2 DEF ReadCaddyfile
        <3>2. PICK j : j = Moved(job[t], "write", out)
            OBVIOUS
        <3>3. job' = [job EXCEPT ![t] = j]
            BY <3>1, <3>2 DEF Moved
        <3>4. job'[t] = j /\ j.content = out
            BY <1>1, <2>1, <3>2, <3>3 DEF ProxyInv, JobsOK, Job, Moved
        <3>5. QED  BY <3>4
    <2>6. QED  BY <2>3, <2>4, <2>5
<1>2. ASSUME ProxyInv, NEW t \in Terminals, ReadHosts(t), Doing(t, "copy")'
      PROVE  {l \in ToSet(hosts) : l.kind = "text"} \subseteq ToSet(job'[t].content)
    <2>1. job[t] # Idle /\ job[t] \in Job
        BY <1>2 DEF ProxyInv, JobsOK, JobOK, ReadHosts, Doing
    <2>2. PICK out : out = MergeManagedBlock(hosts, job[t].names)
        OBVIOUS
    <2>3. \A l \in ToSet(hosts) : l.kind = "text" => l \in ToSet(out)
        <3>1. hosts \in Seq(HostLine) /\ HostsClosed(hosts) /\ job[t].names \in SUBSET Domains
            BY <1>2, <2>1 DEF ProxyInv, FilesOK, Job
        <3>2. QED  BY <2>2, <3>1, HostsMergeKeeps
    <2>4. PICK j : j = Moved(job[t], "copy", out)
        OBVIOUS
    <2>5. PICK k \in {j, Idle} : job' = [job EXCEPT ![t] = k]
        BY <1>2, <2>2, <2>4 DEF ReadHosts, Moved
    <2>6. job'[t] = k /\ k # Idle
        BY <1>2, <2>5 DEF ProxyInv, JobsOK, Doing
    <2>7. k.content = out
        BY <2>1, <2>4, <2>5, <2>6 DEF Job, Moved
    <2>8. QED  BY <2>3, <2>6, <2>7
<1>3. ProxyInv => \A t \in Terminals : kept(t)
    BY <1>1, <1>2
<1>4. QED  BY <1>3, ProxyStays, PTL DEF UserLinesSurvive

-------------------------------------------------------------------------------
(***************************************************************************)
(* What is promised, with one terminal.                                    *)
(***************************************************************************)
PromisedSite(d) == Site(promised[d], AliasOf[promised[d]])

PromisesOK ==
    \A d \in Dirs : promised[d] # NoDomain =>
        /\ container[d].alias = AliasOf[promised[d]]
        /\ PromisedSite(d) \in ToSet(caddyfile)
        /\ \/ caddy = Off
           \/ [domain |-> promised[d], target |-> AliasOf[promised[d]]] \in caddy
        /\ promised[d] \in NamesIn(hosts)
        /\ \E q \in At(d) : promised[d] \in DomainsOf(q.id)

\* What command j does not take from what is promised.
Respects(j) ==
    \A d \in Dirs : promised[d] # NoDomain =>
        /\ j.step = "write" => PromisedSite(d) \in ToSet(j.content)
        /\ j.kind = "apply" => promised[d] \in j.names
        /\ promised[d] \in DomainsOfSites(j.sites) => j.kind = "apply"

\* What it has published of its own, before it says so.
Publishes(j) ==
    /\ j.step \in {"hosts", "copy"} => j.kind = "apply"
    /\ j.step = "copy" => j.names \subseteq NamesIn(j.content)
    /\ j.kind = "apply" =>
        /\ j.sites \in Seq(ProjectSite)
        /\ \A s \in ToSet(j.sites) :
            /\ j.step = "write" => Site(s.domain, s.target) \in ToSet(j.content)
            /\ j.step \in {"reload", "hosts", "copy"} =>
                Site(s.domain, s.target) \in ToSet(caddyfile)
            /\ j.step \in {"hosts", "copy"} =>
                caddy = Off \/ [domain |-> s.domain, target |-> s.target] \in caddy

CommandsOK == \A t \in Terminals : job[t] # Idle => Respects(job[t]) /\ Publishes(job[t])

PromiseInv == ProxyInv /\ PromisesOK /\ CommandsOK

LEMMA SiteIsRouted ==
    ASSUME NEW lines, NEW domain, NEW target, Site(domain, target) \in ToSet(lines)
    PROVE  [domain |-> domain, target |-> target] \in Routes(lines)
<1>1. Site(domain, target) \in SitesIn(lines)
    BY DEF SitesIn, Site
<1>2. QED  BY <1>1 DEF Routes, Site

LEMMA PromiseInvImplies == PromiseInv => PromiseKept
<1> SUFFICES ASSUME PromiseInv, NEW d \in Dirs, promised[d] # NoDomain, caddy # Off
             PROVE  /\ [domain |-> promised[d], target |-> container[d].alias] \in caddy
                    /\ promised[d] \in NamesIn(hosts)
    BY DEF PromiseKept
<1>1. QED  BY DEF PromiseInv, PromisesOK

LEMMA PromiseInitEstablishes == ProxyInit => PromiseInv
<1> SUFFICES ASSUME ProxyInit PROVE PromiseInv
    OBVIOUS
<1>1. PromisesOK /\ CommandsOK
    BY DEF ProxyInit, PromisesOK, CommandsOK
<1>2. QED  BY <1>1, ProxyInitEstablishes DEF PromiseInv

\* The registry's part of a promise, when a step leaves the registry alone.
LEMMA OwnersStay ==
    ASSUME UNCHANGED registryVars
    PROVE  \A d : /\ At(d)' = At(d)
                  /\ \A q \in At(d) : DomainsOf(q.id)' = DomainsOf(q.id)
BY DEF At, DomainsOf, registryVars, tableVars

\* A step that makes no new promise keeps those it leaves.
LEMMA PromisesStay ==
    ASSUME PromisesOK,
           \A d \in Dirs : promised'[d] # NoDomain =>
                /\ promised'[d] = promised[d]
                /\ container'[d].alias = container[d].alias
                /\ PromisedSite(d) \in ToSet(caddyfile')
                /\ promised[d] \in NamesIn(hosts')
                /\ \E q \in At(d)' : promised[d] \in DomainsOf(q.id)',
           caddy' = caddy \/ caddy' = Off \/ caddy' = Routes(caddyfile')
    PROVE  PromisesOK'
<1> SUFFICES ASSUME NEW d \in Dirs, promised'[d] # NoDomain
             PROVE  /\ container'[d].alias = AliasOf[promised'[d]]
                    /\ PromisedSite(d)' \in ToSet(caddyfile')
                    /\ \/ caddy' = Off
                       \/ [domain |-> promised'[d], target |-> AliasOf[promised'[d]]]
                            \in caddy'
                    /\ promised'[d] \in NamesIn(hosts')
                    /\ \E q \in At(d)' : promised'[d] \in DomainsOf(q.id)'
    BY DEF PromisesOK
<1>1. /\ promised'[d] = promised[d] /\ promised[d] # NoDomain
      /\ container'[d].alias = container[d].alias
      /\ PromisedSite(d) \in ToSet(caddyfile')
      /\ promised[d] \in NamesIn(hosts')
      /\ \E q \in At(d)' : promised[d] \in DomainsOf(q.id)'
    OBVIOUS
<1>2. /\ container[d].alias = AliasOf[promised[d]]
      /\ \/ caddy = Off
         \/ [domain |-> promised[d], target |-> AliasOf[promised[d]]] \in caddy
    BY <1>1 DEF PromisesOK
<1>3. PromisedSite(d)' = PromisedSite(d)
    BY <1>1 DEF PromisedSite
<1>4. CASE caddy' = Routes(caddyfile')
    <2>1. [domain |-> promised[d], target |-> AliasOf[promised[d]]] \in Routes(caddyfile')
        BY <1>1, SiteIsRouted DEF PromisedSite
    <2>2. QED  BY <1>1, <1>2, <1>3, <1>4, <2>1
<1>5. QED  BY <1>1, <1>2, <1>3, <1>4

\* The same, of a step that touches neither files nor rows.
LEMMA PromisesHeld ==
    ASSUME PromisesOK, UNCHANGED <<registryVars, caddyfile, caddy, hosts>>,
           \A d \in Dirs : promised'[d] # NoDomain =>
                promised'[d] = promised[d] /\ container'[d].alias = container[d].alias
    PROVE  PromisesOK'
<1>1. ASSUME NEW d \in Dirs, promised'[d] # NoDomain
      PROVE  /\ PromisedSite(d) \in ToSet(caddyfile')
             /\ promised[d] \in NamesIn(hosts')
             /\ \E q \in At(d)' : promised[d] \in DomainsOf(q.id)'
    <2>1. /\ PromisedSite(d) \in ToSet(caddyfile) /\ promised[d] \in NamesIn(hosts)
          /\ \E q \in At(d) : promised[d] \in DomainsOf(q.id)
        BY <1>1 DEF PromisesOK
    <2>2. QED  BY <2>1, OwnersStay
<1>2. QED  BY <1>1, PromisesStay

\* A step that leaves the commands alone and takes no line of the Caddyfile.
LEMMA CommandsStay ==
    ASSUME CommandsOK, UNCHANGED job,
           \A d \in Dirs : promised'[d] # NoDomain => promised'[d] = promised[d],
           ToSet(caddyfile) \subseteq ToSet(caddyfile'),
           caddy' = caddy \/ caddy' = Off \/ caddy' = Routes(caddyfile')
    PROVE  CommandsOK'
<1> SUFFICES ASSUME NEW t \in Terminals, job[t] # Idle
             PROVE  Respects(job[t])' /\ Publishes(job[t])'
    BY DEF CommandsOK
<1>0. PICK j : j = job[t] /\ j = job'[t]
    OBVIOUS
<1>1. Respects(j) /\ Publishes(j)
    BY <1>0 DEF CommandsOK
<1>2. Respects(j)'
    BY <1>1 DEF Respects, PromisedSite
<1>3. Publishes(j)'
    <2>1. ASSUME j.kind = "apply", NEW s \in ToSet(j.sites), j.step \in {"hosts", "copy"}
          PROVE  caddy' = Off \/ [domain |-> s.domain, target |-> s.target] \in caddy'
        BY <1>1, <2>1, SiteIsRouted DEF Publishes
    <2>2. QED  BY <1>1, <2>1 DEF Publishes
<1>4. QED  BY <1>0, <1>2, <1>3

\* The only terminal's command becomes another.
LEMMA CommandChanges ==
    ASSUME \A t, u \in Terminals : t = u, NEW t \in Terminals, NEW j,
           job = [u \in Terminals |-> job[u]], job' = [job EXCEPT ![t] = j],
           j # Idle => Respects(j)' /\ Publishes(j)'
    PROVE  CommandsOK'
<1>1. \A u \in Terminals : job'[u] = j
    OBVIOUS
<1> SUFFICES ASSUME NEW u \in Terminals, job'[u] # Idle
             PROVE  Respects(job[u])' /\ Publishes(job[u])'
    BY DEF CommandsOK
<1>2. job'[u] = j
    BY <1>1
<1>3. QED  BY <1>2

LEMMA RowsKeepPath ==
    ASSUME TablesOK, RegistryNext,
           NEW q \in projects, NEW r \in projects', r.id = q.id
    PROVE  r.path = q.path
<1>1. CASE r \in projects
    BY <1>1 DEF TablesOK, RowsAgree
<1>2. CASE r \notin projects
    <2>1. PICK t \in Terminals : ParkNext(t)
        BY <1>2 DEF RegistryNext, Make, Delete, Change, Park, ParkStart, ParkDies,
           SetPrimaryDomain, tableVars, ParkPrune, PruneDetectedProjectsUnderPath,
           RemoveProjects
    <2>2. PICK p \in parking[t].todo : UpsertProject(p)
        BY <1>2, <2>1 DEF ParkNext, tableVars
    <2>3. r.id = RowId(p.path) /\ r.path = p.path
        BY <1>2, <2>2 DEF UpsertProject
    <2>4. RowId(p.path) # nextProject
        <3>1. q.id \in Nat /\ q.id < nextProject /\ nextProject \in Nat
            BY DEF TablesOK, RowsAgree, Project
        <3>2. QED  BY <2>3, <3>1
    <2>5. PICK o \in projects : o.path = p.path /\ o.id = RowId(p.path)
        BY <2>4 DEF RowId, At
    <2>6. o = q
        BY <2>3, <2>5 DEF TablesOK, RowsAgree
    <2>7. QED  BY <2>3, <2>5, <2>6
<1>3. QED  BY <1>1, <1>2

LEMMA RegistryPromises ==
    ASSUME PromiseInv, Registry
    PROVE  PromisesOK' /\ CommandsOK'
<1>1. promised' = [d \in Dirs |->
         IF \A q \in At(d) : /\ \E r \in projects' : r.id = q.id
                             /\ DomainsOf(q.id)' = DomainsOf(q.id)
         THEN promised[d] ELSE NoDomain]
      /\ UNCHANGED <<container, override, caddyfile, caddy, hosts, job, edits>>
      /\ RegistryNext
    BY DEF Registry
<1>2. \A d \in Dirs : promised'[d] # NoDomain =>
        /\ promised'[d] = promised[d]
        /\ \A q \in At(d) : /\ \E r \in projects' : r.id = q.id
                            /\ DomainsOf(q.id)' = DomainsOf(q.id)
    BY <1>1
<1>3. ASSUME NEW d \in Dirs, promised'[d] # NoDomain
      PROVE  \E q \in At(d)' : promised[d] \in DomainsOf(q.id)'
    <2>1. PICK q \in At(d) : promised[d] \in DomainsOf(q.id)
        BY <1>2, <1>3 DEF PromiseInv, PromisesOK
    <2>2. PICK r \in projects' : r.id = q.id
        BY <1>2, <1>3
    <2>3. q \in projects /\ q.path = d
        BY DEF At
    <2>4. r.path = d
        BY <1>1, <2>2, <2>3, RowsKeepPath DEF PromiseInv, ProxyInv, RowsOK, RegistryInv
    <2>5. promised[d] \in DomainsOf(r.id)'
        BY <1>2, <1>3, <2>1, <2>2
    <2>6. QED  BY <2>2, <2>4, <2>5 DEF At
<1>4. PromisesOK'
    BY <1>1, <1>2, <1>3, PromisesStay DEF PromiseInv, PromisesOK
<1>5. CommandsOK'
    BY <1>1, <1>2, CommandsStay DEF PromiseInv
<1>6. QED  BY <1>4, <1>5

LEMMA UpPromises ==
    ASSUME PromiseInv, NEW t \in Terminals, NEW d \in Dirs, Up(t, d)
    PROVE  PromisesOK' /\ CommandsOK'
<1>1. /\ promised' = [promised EXCEPT ![d] =
            IF container'[d].alias = container[d].alias THEN @ ELSE NoDomain]
      /\ \A e \in Dirs : e # d => container'[e] = container[e]
      /\ UNCHANGED <<registryVars, caddyfile, caddy, hosts, job>>
    BY DEF Up, PromiseInv, ProxyInv, ProjectsOK
<1>2. \A e \in Dirs : promised'[e] # NoDomain =>
        promised'[e] = promised[e] /\ container'[e].alias = container[e].alias
    BY <1>1 DEF PromiseInv, ProxyInv, ProjectsOK
<1>3. PromisesOK'
    BY <1>1, <1>2, PromisesHeld DEF PromiseInv
<1>4. CommandsOK'
    BY <1>1, <1>2, CommandsStay DEF PromiseInv
<1>5. QED  BY <1>3, <1>4

LEMMA StopPromises ==
    ASSUME PromiseInv, NEW t \in Terminals, NEW d \in Dirs, Stop(t, d)
    PROVE  PromisesOK' /\ CommandsOK'
<1>1. /\ \A e \in Dirs : container'[e].alias = container[e].alias
      /\ UNCHANGED <<registryVars, caddyfile, caddy, hosts, job, promised>>
    BY DEF Stop, PromiseInv, ProxyInv, ProjectsOK
<1>2. PromisesOK'
    BY <1>1, PromisesHeld DEF PromiseInv
<1>3. CommandsOK'
    BY <1>1, CommandsStay DEF PromiseInv
<1>4. QED  BY <1>2, <1>3

\* What down withdraws is no longer promised.
LEMMA DownPromises ==
    ASSUME PromiseInv, \A t, u \in Terminals : t = u,
           NEW t \in Terminals, NEW d \in Dirs, Down(t, d)
    PROVE  PromisesOK' /\ CommandsOK'
<1> DEFINE begun == [step |-> "merge", kind |-> "down", todo |-> <<>>,
                     sites |-> <<External(d)>>, names |-> {}, content |-> <<>>]
<1>1. /\ container' \in {container, [container EXCEPT ![d] = Absent]}
      /\ promised' = [e \in Dirs |->
            IF e = d \/ (Resolvable(d) /\ promised[e] = EffectiveDomain(d))
            THEN NoDomain ELSE promised[e]]
      /\ job' = [job EXCEPT ![t] = IF Resolvable(d) THEN begun ELSE Idle]
      /\ UNCHANGED <<registryVars, caddyfile, caddy, hosts>>
    BY DEF Down
<1>2. \A e \in Dirs : promised'[e] # NoDomain =>
        /\ promised'[e] = promised[e]
        /\ container'[e].alias = container[e].alias
        /\ Resolvable(d) => promised'[e] # EffectiveDomain(d)
    BY <1>1 DEF PromiseInv, ProxyInv, ProjectsOK
<1>3. PromisesOK'
    BY <1>1, <1>2, PromisesHeld DEF PromiseInv
<1>4. DomainsOfSites(begun.sites) = {EffectiveDomain(d)}
    <2>1. ToSet(<<External(d)>>) = {External(d)}
        BY DEF ToSet
    <2>2. QED  BY <2>1 DEF DomainsOfSites, External
<1>5. /\ begun.step = "merge" /\ begun.kind = "down"
    OBVIOUS
<1>6. PICK j : /\ job' = [job EXCEPT ![t] = j]
               /\ j = Idle \/ (j = begun /\ Resolvable(d))
    BY <1>1
<1> HIDE DEF begun
<1>7. j # Idle => Respects(j)' /\ Publishes(j)'
    <2>1. SUFFICES ASSUME j = begun, Resolvable(d) PROVE Respects(j)' /\ Publishes(j)'
        BY <1>6
    <2>2. j.step = "merge" /\ j.kind = "down" /\ DomainsOfSites(j.sites) = {EffectiveDomain(d)}
        BY <1>4, <1>5, <2>1
    <2>3. \A o \in Dirs : promised'[o] # NoDomain => promised'[o] \notin DomainsOfSites(j.sites)
        BY <1>2, <2>1, <2>2
    <2>4. QED  BY <2>2, <2>3 DEF Respects, Publishes
<1>8. CommandsOK'
    BY <1>6, <1>7, CommandChanges DEF PromiseInv, ProxyInv, JobsOK
<1>9. QED  BY <1>3, <1>8

\* What is promised has a domain in the registry, so apply reads it.
LEMMA ApplyPromises ==
    ASSUME PromiseInv, \A t, u \in Terminals : t = u,
           NEW t \in Terminals, NEW rows \in SUBSET projects, ApplyStart(t, rows)
    PROVE  PromisesOK' /\ CommandsOK'
<1>1. UNCHANGED <<registryVars, container, caddyfile, caddy, hosts, promised>>
    BY DEF ApplyStart
<1>2. PromisesOK'
    BY <1>1, PromisesHeld DEF PromiseInv
<1> DEFINE sites == ResolveExternalProjects(rows)
<1>3. sites \in Seq(ProjectSite)
    BY ResolvedAreTyped DEF PromiseInv, ProxyInv, RowsOK, RegistryInv
<1>4. \A d \in Dirs : promised[d] # NoDomain => promised[d] \in CollectDomains
    BY DEF PromiseInv, PromisesOK, CollectDomains, DomainsOf
<1> HIDE DEF sites
<1> DEFINE begun == [step |-> "connect", kind |-> "apply", todo |-> sites,
                     sites |-> sites, names |-> CollectDomains, content |-> <<>>]
<1>5. /\ begun.step = "connect" /\ begun.kind = "apply" /\ begun.sites = sites
      /\ begun.names = CollectDomains
    OBVIOUS
<1>6. job' = [job EXCEPT ![t] = begun]
    BY DEF ApplyStart, sites
<1>7. PICK j : j = begun
    OBVIOUS
<1> HIDE DEF begun
<1>8. Respects(j)' /\ Publishes(j)'
    BY <1>1, <1>3, <1>4, <1>5, <1>7 DEF Respects, Publishes
<1>9. CommandsOK'
    BY <1>6, <1>7, <1>8, CommandChanges DEF PromiseInv, ProxyInv, JobsOK
<1>10. QED  BY <1>2, <1>9

LEMMA PublishPromises ==
    ASSUME PromiseInv, \A t, u \in Terminals : t = u,
           NEW t \in Terminals, PublishSharedService(t)
    PROVE  PromisesOK' /\ CommandsOK'
<1>1. /\ UNCHANGED <<registryVars, container, caddyfile, caddy, hosts>>
      /\ promised' = [d \in Dirs |-> IF promised[d] = ServiceDomain THEN NoDomain
                                     ELSE promised[d]]
    BY DEF PublishSharedService
<1>2. \A d \in Dirs : promised'[d] # NoDomain =>
        promised'[d] = promised[d] /\ promised'[d] # ServiceDomain
    BY <1>1
<1>3. PromisesOK'
    BY <1>1, <1>2, PromisesHeld DEF PromiseInv
<1> DEFINE begun == [step |-> "connect", kind |-> "publish", todo |-> <<>>,
                     sites |-> <<ServiceSite>>, names |-> {}, content |-> <<>>]
<1>4. DomainsOfSites(begun.sites) = {ServiceDomain}
    <2>1. ToSet(<<ServiceSite>>) = {ServiceSite}
        BY DEF ToSet
    <2>2. QED  BY <2>1 DEF DomainsOfSites, ServiceSite
<1>5. begun.step = "connect" /\ begun.kind = "publish"
    OBVIOUS
<1>6. job' = [job EXCEPT ![t] = begun]
    BY DEF PublishSharedService, ServiceSite
<1>7. PICK j : j = begun
    OBVIOUS
<1> HIDE DEF begun
<1>8. Respects(j)' /\ Publishes(j)'
    BY <1>2, <1>4, <1>5, <1>7 DEF Respects, Publishes
<1>9. CommandsOK'
    BY <1>6, <1>7, <1>8, CommandChanges DEF PromiseInv, ProxyInv, JobsOK
<1>10. QED  BY <1>3, <1>9

LEMMA BootstrapPromises ==
    ASSUME PromiseInv, \A t, u \in Terminals : t = u,
           NEW t \in Terminals, NEW force \in BOOLEAN, Bootstrap(t, force)
    PROVE  PromisesOK' /\ CommandsOK'
<1>1. \A u \in Terminals : job'[u] = Idle
    BY DEF Bootstrap, Free
<1>2. CommandsOK'
    BY <1>1 DEF CommandsOK
<1>3. CASE force
    BY <1>2, <1>3 DEF Bootstrap, PromisesOK
<1>4. CASE ~force
    <2>1. UNCHANGED <<registryVars, container, caddyfile, caddy, hosts, promised>>
        BY <1>4 DEF Bootstrap, EnsureManagedFile
    <2>2. QED  BY <1>2, <2>1, PromisesHeld DEF PromiseInv
<1>5. QED  BY <1>2, <1>3, <1>4

\* Connecting gives an alias only to a container that has none.
LEMMA ConnectPromises ==
    ASSUME PromiseInv, \A t, u \in Terminals : t = u,
           NEW t \in Terminals, ConnectProject(t)
    PROVE  PromisesOK' /\ CommandsOK'
<1>1. job[t] # Idle /\ JobOK(job[t]) /\ job[t].todo # <<>> /\ job[t].step = "connect"
    BY DEF PromiseInv, ProxyInv, JobsOK, ConnectProject
<1>2. PICK p \in ProjectSite : p = Head(job[t].todo)
    BY <1>1 DEF JobOK, Job
<1>3. /\ container' = [container EXCEPT ![p.path] = Connected(@, p.target)]
      /\ p.path \in Dirs
      /\ UNCHANGED <<registryVars, caddyfile, caddy, hosts, promised>>
    BY <1>2 DEF ConnectProject, ProjectSite
<1>4. ASSUME NEW d \in Dirs, promised[d] # NoDomain
      PROVE  container'[d].alias = container[d].alias
    <2>1. container[d].alias # NoAlias
        <3>1. promised[d] \in Domains /\ container[d].alias = AliasOf[promised[d]]
            BY <1>4 DEF PromiseInv, ProxyInv, ProjectsOK, PromisesOK
        <3>2. QED  BY <3>1, ProxyConstants
    <2>2. CASE d = p.path
        <3>1. container'[d] = Connected(container[d], p.target)
            BY <1>3, <2>2 DEF PromiseInv, ProxyInv, ProjectsOK
        <3>2. QED  BY <2>1, <3>1 DEF Connected
    <2>3. CASE d # p.path
        BY <1>3, <2>3 DEF PromiseInv, ProxyInv, ProjectsOK
    <2>4. QED  BY <2>2, <2>3
<1>5. PromisesOK'
    BY <1>3, <1>4, PromisesHeld DEF PromiseInv
<1>6. PICK rest : rest = Tail(job[t].todo)
    OBVIOUS
<1>7. PICK j : j = [job[t] EXCEPT !.todo = rest]
    OBVIOUS
<1>8. job' = [job EXCEPT ![t] = j]
    BY <1>6, <1>7 DEF ConnectProject
<1>9. /\ j.step = "connect" /\ j.kind = job[t].kind /\ j.sites = job[t].sites
      /\ j.names = job[t].names
    BY <1>1, <1>7 DEF JobOK, Job
<1>10. Respects(job[t]) /\ Publishes(job[t])
    BY <1>1 DEF PromiseInv, CommandsOK
<1>11. Respects(j)' /\ Publishes(j)'
    BY <1>3, <1>9, <1>10 DEF Respects, Publishes
<1>12. CommandsOK'
    BY <1>8, <1>11, CommandChanges DEF PromiseInv, ProxyInv, JobsOK
<1>13. QED  BY <1>5, <1>12

\* What a command is about to write holds every site that is promised: the
\* merge renders those it publishes with the same alias and keeps the others.
LEMMA ReadPromises ==
    ASSUME PromiseInv, \A t, u \in Terminals : t = u,
           NEW t \in Terminals, ReadCaddyfile(t)
    PROVE  PromisesOK' /\ CommandsOK'
<1>1. job[t] # Idle /\ job[t] \in Job /\ Respects(job[t]) /\ Publishes(job[t])
    BY DEF PromiseInv, ProxyInv, JobsOK, JobOK, CommandsOK, ReadCaddyfile, Doing
<1>2. UNCHANGED <<registryVars, container, caddyfile, caddy, hosts, promised>>
    BY DEF ReadCaddyfile
<1>3. PromisesOK'
    BY <1>2, PromisesHeld DEF PromiseInv
<1>4. PICK out : out = IF job[t].kind = "down"
                       THEN StripManagedDomains(caddyfile, DomainsOfSites(job[t].sites))
                       ELSE MergeExternalProxyConfig(caddyfile, job[t].sites)
    OBVIOUS
<1>5. /\ out \in Seq(Line) /\ Closed(out)
      /\ \A l \in ToSet(caddyfile) :
            \/ l.kind = "text"
            \/ l.kind = "site" /\ l.domain \notin DomainsOfSites(job[t].sites)
            => l \in ToSet(out)
      /\ job[t].kind # "down" =>
            \A s \in ToSet(job[t].sites) : Site(s.domain, s.target) \in ToSet(out)
    BY <1>1, <1>4, ReadKeepsClosed DEF PromiseInv, ProxyInv
<1>6. PICK j : j = Moved(job[t], "write", out)
    OBVIOUS
<1>7. /\ j.step = "write" /\ j.content = out
      /\ j.kind = job[t].kind /\ j.sites = job[t].sites /\ j.names = job[t].names
    <2>1. out \in Seq(Line) /\ Closed(out)
        BY <1>5
    <2>2. QED  BY <1>1, <1>6, <2>1, JobMoves
<1>8. job' = [job EXCEPT ![t] = j]
    BY <1>4, <1>6 DEF ReadCaddyfile, Moved
<1>9. ASSUME NEW d \in Dirs, promised[d] # NoDomain
      PROVE  PromisedSite(d) \in ToSet(out)
    <2>1. /\ PromisedSite(d) \in ToSet(caddyfile)
          /\ PromisedSite(d).kind = "site" /\ PromisedSite(d).domain = promised[d]
        BY <1>9 DEF PromiseInv, PromisesOK, PromisedSite, Site
    <2>2. CASE promised[d] \notin DomainsOfSites(job[t].sites)
        BY <1>5, <2>1, <2>2
    <2>3. CASE promised[d] \in DomainsOfSites(job[t].sites)
        <3>1. job[t].kind = "apply"
            BY <1>1, <1>9, <2>3 DEF Respects
        <3>2. job[t].sites \in Seq(ProjectSite)
            BY <1>1, <3>1 DEF Publishes
        <3>3. PICK s \in ToSet(job[t].sites) : s.domain = promised[d]
            BY <2>3 DEF DomainsOfSites
        <3>4. s \in ProjectSite
            BY <3>2, <3>3 DEF ToSet
        <3>5. Site(s.domain, s.target) = PromisedSite(d)
            BY <3>3, <3>4 DEF ProjectSite, PromisedSite
        <3>6. QED  BY <1>5, <3>1, <3>3, <3>5
    <2>4. QED  BY <2>2, <2>3
<1>10. Respects(j)'
    <2>1. \A d \in Dirs : PromisedSite(d)' = PromisedSite(d) /\ promised'[d] = promised[d]
        BY <1>2 DEF PromisedSite
    <2>2. QED  BY <1>1, <1>7, <1>9, <2>1 DEF Respects
<1>11. Publishes(j)'
    BY <1>1, <1>5, <1>7 DEF Publishes
<1>12. CommandsOK'
    BY <1>8, <1>10, <1>11, CommandChanges DEF PromiseInv, ProxyInv, JobsOK
<1>13. QED  BY <1>3, <1>12

LEMMA WritePromises ==
    ASSUME PromiseInv, \A t, u \in Terminals : t = u,
           NEW t \in Terminals, WriteCaddyfile(t)
    PROVE  PromisesOK' /\ CommandsOK'
<1>1. /\ job[t] # Idle /\ job[t] \in Job /\ job[t].step = "write"
      /\ Respects(job[t]) /\ Publishes(job[t])
    BY DEF PromiseInv, ProxyInv, JobsOK, JobOK, CommandsOK, WriteCaddyfile, Doing
<1>2. /\ UNCHANGED <<registryVars, container, caddy, hosts, promised>>
      /\ caddyfile' = job[t].content
    BY DEF WriteCaddyfile
<1>3. ASSUME NEW d \in Dirs, promised'[d] # NoDomain
      PROVE  /\ PromisedSite(d) \in ToSet(caddyfile')
             /\ promised[d] \in NamesIn(hosts')
             /\ \E q \in At(d)' : promised[d] \in DomainsOf(q.id)'
    <2>1. /\ promised[d] \in NamesIn(hosts)
          /\ \E q \in At(d) : promised[d] \in DomainsOf(q.id)
        BY <1>2, <1>3 DEF PromiseInv, PromisesOK
    <2>2. PromisedSite(d) \in ToSet(caddyfile')
        BY <1>1, <1>2, <1>3 DEF Respects
    <2>3. QED  BY <1>2, <2>1, <2>2, OwnersStay
<1>4. PromisesOK'
    BY <1>2, <1>3, PromisesStay DEF PromiseInv
<1>5. PICK j : j = Moved(job[t], "reload", <<>>)
    OBVIOUS
<1>6. /\ j.step = "reload"
      /\ j.kind = job[t].kind /\ j.sites = job[t].sites /\ j.names = job[t].names
    <2>1. PICK none \in Seq(Line) : none = <<>>
        <3>1. <<>> \in Seq(Line)
            OBVIOUS
        <3>2. QED  BY <3>1
    <2>2. j = Moved(job[t], "reload", none)
        BY <1>5, <2>1
    <2>3. QED  BY <1>1, <2>2, JobMoves
<1>7. job' = [job EXCEPT ![t] = j]
    BY <1>5 DEF WriteCaddyfile, Moved
<1>8. Respects(j)' /\ Publishes(j)'
    BY <1>1, <1>2, <1>6 DEF Respects, Publishes
<1>9. CommandsOK'
    BY <1>7, <1>8, CommandChanges DEF PromiseInv, ProxyInv, JobsOK
<1>10. QED  BY <1>4, <1>9

LEMMA ReloadPromises ==
    ASSUME PromiseInv, \A t, u \in Terminals : t = u,
           NEW t \in Terminals, ReloadCaddy(t)
    PROVE  PromisesOK' /\ CommandsOK'
<1>1. /\ job[t] # Idle /\ job[t] \in Job /\ job[t].step = "reload"
      /\ Respects(job[t]) /\ Publishes(job[t])
    BY DEF PromiseInv, ProxyInv, JobsOK, JobOK, CommandsOK, ReloadCaddy, Doing
<1>2. /\ UNCHANGED <<registryVars, container, caddyfile, hosts, promised>>
      /\ caddy' = caddy \/ caddy' = Routes(caddyfile')
    BY DEF ReloadCaddy
<1>3. ASSUME NEW d \in Dirs, promised'[d] # NoDomain
      PROVE  /\ PromisedSite(d) \in ToSet(caddyfile')
             /\ promised[d] \in NamesIn(hosts')
             /\ \E q \in At(d)' : promised[d] \in DomainsOf(q.id)'
    <2>1. /\ PromisedSite(d) \in ToSet(caddyfile) /\ promised[d] \in NamesIn(hosts)
          /\ \E q \in At(d) : promised[d] \in DomainsOf(q.id)
        BY <1>2, <1>3 DEF PromiseInv, PromisesOK
    <2>2. QED  BY <1>2, <2>1, OwnersStay
<1>4. PromisesOK'
    BY <1>2, <1>3, PromisesStay DEF PromiseInv
<1>5. PICK k : k = [job[t] EXCEPT !.step = "hosts"]
    OBVIOUS
<1>6. /\ k.step = "hosts" /\ k.kind = job[t].kind /\ k.sites = job[t].sites
      /\ k.names = job[t].names
    BY <1>1, <1>5 DEF Job
<1>7. PICK j : /\ job' = [job EXCEPT ![t] = j]
               /\ j = Idle \/ (j = k /\ job[t].kind = "apply" /\ caddy' = Routes(caddyfile))
    BY <1>5 DEF ReloadCaddy
<1>8. j # Idle => Respects(j)' /\ Publishes(j)'
    <2> SUFFICES ASSUME j = k, job[t].kind = "apply", caddy' = Routes(caddyfile)
                 PROVE  Respects(j)' /\ Publishes(j)'
        BY <1>7
    <2>1. \A s \in ToSet(j.sites) :
            /\ Site(s.domain, s.target) \in ToSet(caddyfile)
            /\ [domain |-> s.domain, target |-> s.target] \in Routes(caddyfile)
        BY <1>1, <1>6, SiteIsRouted DEF Publishes
    <2>2. Publishes(j)'
        BY <1>1, <1>2, <1>6, <2>1 DEF Publishes
    <2>3. Respects(j)'
        BY <1>1, <1>2, <1>6 DEF Respects
    <2>4. QED  BY <2>2, <2>3
<1>9. CommandsOK'
    BY <1>7, <1>8, CommandChanges DEF PromiseInv, ProxyInv, JobsOK
<1>10. QED  BY <1>4, <1>9

LEMMA ReadHostsPromises ==
    ASSUME PromiseInv, \A t, u \in Terminals : t = u,
           NEW t \in Terminals, ReadHosts(t)
    PROVE  PromisesOK' /\ CommandsOK'
<1>1. /\ job[t] # Idle /\ job[t] \in Job /\ job[t].step = "hosts"
      /\ Respects(job[t]) /\ Publishes(job[t])
    BY DEF PromiseInv, ProxyInv, JobsOK, JobOK, CommandsOK, ReadHosts, Doing
<1>2. UNCHANGED <<registryVars, container, caddyfile, caddy, hosts, promised>>
    BY DEF ReadHosts
<1>3. PromisesOK'
    BY <1>2, PromisesHeld DEF PromiseInv
<1>4. PICK out : out = MergeManagedBlock(hosts, job[t].names)
    OBVIOUS
<1>5. /\ out \in Seq(HostLine) /\ HostsClosed(out)
      /\ job[t].names \subseteq NamesIn(out)
    <2>1. hosts \in Seq(HostLine) /\ HostsClosed(hosts) /\ job[t].names \in SUBSET Domains
        BY <1>1 DEF PromiseInv, ProxyInv, FilesOK, Job
    <2>2. QED  BY <1>4, <2>1, HostsMergeKeeps
<1>6. PICK k : k = Moved(job[t], "copy", out)
    OBVIOUS
<1>7. /\ k.step = "copy" /\ k.content = out
      /\ k.kind = job[t].kind /\ k.sites = job[t].sites /\ k.names = job[t].names
    <2>1. out \in Seq(HostLine) /\ HostsClosed(out)
        BY <1>5
    <2>2. QED  BY <1>1, <1>6, <2>1, JobMoves
<1>8. PICK j \in {k, Idle} : job' = [job EXCEPT ![t] = j]
    BY <1>4, <1>6 DEF ReadHosts, Moved
<1>9. Respects(k)' /\ Publishes(k)'
    BY <1>1, <1>2, <1>5, <1>7 DEF Respects, Publishes
<1>10. CommandsOK'
    BY <1>8, <1>9, CommandChanges DEF PromiseInv, ProxyInv, JobsOK
<1>11. QED  BY <1>3, <1>10

\* A new promise: the line, the route and the name are in place.
LEMMA CopyPromises ==
    ASSUME PromiseInv, \A t, u \in Terminals : t = u,
           NEW t \in Terminals, CopyHosts(t)
    PROVE  PromisesOK' /\ CommandsOK'
<1>1. /\ job[t] # Idle /\ job[t] \in Job /\ job[t].step = "copy"
      /\ Respects(job[t]) /\ Publishes(job[t])
    BY DEF PromiseInv, ProxyInv, JobsOK, JobOK, CommandsOK, CopyHosts, Doing
<1>2. /\ UNCHANGED <<registryVars, container, caddyfile, caddy>>
      /\ hosts' = job[t].content
      /\ job' = [job EXCEPT ![t] = Idle]
      /\ promised' = [d \in Dirs |->
            IF \E p \in Applied(t) : p.path = d
            THEN (CHOOSE p \in Applied(t) : p.path = d).domain
            ELSE promised[d]]
    BY DEF CopyHosts
<1>3. /\ job[t].kind = "apply" /\ job[t].sites \in Seq(ProjectSite)
      /\ job[t].names \subseteq NamesIn(hosts')
      /\ \A s \in ToSet(job[t].sites) :
            /\ Site(s.domain, s.target) \in ToSet(caddyfile)
            /\ caddy = Off \/ [domain |-> s.domain, target |-> s.target] \in caddy
    BY <1>1, <1>2 DEF Publishes
<1>4. ASSUME NEW d \in Dirs, promised'[d] # NoDomain
      PROVE  LET e == promised'[d] IN
             /\ container[d].alias = AliasOf[e]
             /\ Site(e, AliasOf[e]) \in ToSet(caddyfile)
             /\ caddy = Off \/ [domain |-> e, target |-> AliasOf[e]] \in caddy
             /\ e \in NamesIn(hosts')
             /\ \E q \in At(d) : e \in DomainsOf(q.id)
    <2>1. CASE \E p \in Applied(t) : p.path = d
        <3>1. PICK p \in Applied(t) : p.path = d /\ promised'[d] = p.domain
            BY <1>2, <2>1
        <3>2. /\ p \in ToSet(job[t].sites)
              /\ container[d].alias = p.target
              /\ p.domain \in job[t].names
              /\ p.domain \in DomainsOf(RowId(d))
            BY <3>1 DEF Applied
        <3>3. p \in ProjectSite
            BY <1>3, <3>2 DEF ToSet
        <3>4. p.target = AliasOf[p.domain]
            BY <3>3 DEF ProjectSite
        <3>5. \E q \in At(d) : p.domain \in DomainsOf(q.id)
            <4>1. PICK r \in domains : r.project = RowId(d)
                BY <3>2 DEF DomainsOf
            <4>2. PICK q \in projects : q.id = RowId(d)
                BY <4>1 DEF PromiseInv, ProxyInv, RowsOK, RegistryInv, TablesOK, RowsAgree
            <4>3. q.id # nextProject
                <5>1. q.id \in Nat /\ q.id < nextProject /\ nextProject \in Nat
                    BY DEF PromiseInv, ProxyInv, RowsOK, RegistryInv, TablesOK,
                           RowsAgree, Project
                <5>2. QED  BY <5>1
            <4>4. PICK o \in At(d) : o.id = RowId(d)
                BY <4>2, <4>3 DEF RowId
            <4>5. QED  BY <3>2, <4>4
        <3>6. QED  BY <1>3, <3>1, <3>2, <3>4, <3>5
    <2>2. CASE ~\E p \in Applied(t) : p.path = d
        <3>1. promised'[d] = promised[d]
            BY <1>2, <2>2
        <3>2. promised[d] \in job[t].names
            BY <1>1, <1>3, <1>4, <3>1 DEF Respects
        <3>3. QED  BY <1>3, <1>4, <3>1, <3>2 DEF PromiseInv, PromisesOK, PromisedSite
    <2>3. QED  BY <2>1, <2>2
<1>5. PromisesOK'
    <2> SUFFICES ASSUME NEW d \in Dirs, promised'[d] # NoDomain
                 PROVE  /\ container'[d].alias = AliasOf[promised'[d]]
                        /\ PromisedSite(d)' \in ToSet(caddyfile')
                        /\ \/ caddy' = Off
                           \/ [domain |-> promised'[d], target |-> AliasOf[promised'[d]]]
                                \in caddy'
                        /\ promised'[d] \in NamesIn(hosts')
                        /\ \E q \in At(d)' : promised'[d] \in DomainsOf(q.id)'
        BY DEF PromisesOK
    <2>1. PromisedSite(d)' = Site(promised'[d], AliasOf[promised'[d]])
        BY DEF PromisedSite
    <2>2. \E q \in At(d)' : promised'[d] \in DomainsOf(q.id)'
        <3>1. PICK q \in At(d) : promised'[d] \in DomainsOf(q.id)
            BY <1>4
        <3>2. QED  BY <1>2, <3>1, OwnersStay
    <2>3. QED  BY <1>2, <1>4, <2>1, <2>2
<1>6. PICK j : j = Idle
    OBVIOUS
<1>7. CommandsOK'
    BY <1>2, <1>6, CommandChanges DEF PromiseInv, ProxyInv, JobsOK
<1>8. QED  BY <1>5, <1>7

LEMMA DiesPromises ==
    ASSUME PromiseInv, \A t, u \in Terminals : t = u, NEW t \in Terminals, Dies(t)
    PROVE  PromisesOK' /\ CommandsOK'
<1>1. /\ UNCHANGED <<registryVars, container, caddyfile, caddy, hosts, promised>>
      /\ job' = [job EXCEPT ![t] = Idle]
    BY DEF Dies
<1>2. PromisesOK'
    BY <1>1, PromisesHeld DEF PromiseInv
<1>3. CommandsOK'
    BY <1>1, CommandChanges DEF PromiseInv, ProxyInv, JobsOK
<1>4. QED  BY <1>2, <1>3

LEMMA CaddyRestartsPromises ==
    ASSUME PromiseInv, CaddyRestarts
    PROVE  PromisesOK' /\ CommandsOK'
<1>1. /\ UNCHANGED <<registryVars, container, caddyfile, hosts, promised, job>>
      /\ caddy' = Off \/ caddy' = Routes(caddyfile')
    BY DEF CaddyRestarts, Loaded
<1>2. ASSUME NEW d \in Dirs, promised'[d] # NoDomain
      PROVE  /\ PromisedSite(d) \in ToSet(caddyfile')
             /\ promised[d] \in NamesIn(hosts')
             /\ \E q \in At(d)' : promised[d] \in DomainsOf(q.id)'
    <2>1. /\ PromisedSite(d) \in ToSet(caddyfile) /\ promised[d] \in NamesIn(hosts)
          /\ \E q \in At(d) : promised[d] \in DomainsOf(q.id)
        BY <1>1, <1>2 DEF PromiseInv, PromisesOK
    <2>2. QED  BY <1>1, <2>1, OwnersStay
<1>3. PromisesOK'
    BY <1>1, <1>2, PromisesStay DEF PromiseInv
<1>4. CommandsOK'
    BY <1>1, CommandsStay DEF PromiseInv
<1>5. QED  BY <1>3, <1>4

LEMMA UserEditPromises ==
    ASSUME PromiseInv, Edit
    PROVE  PromisesOK' /\ CommandsOK'
<1>1. UNCHANGED <<registryVars, container, caddy, job, promised>>
    BY DEF Edit
<1>2. /\ ToSet(caddyfile) \subseteq ToSet(caddyfile')
      /\ NamesIn(hosts) \subseteq NamesIn(hosts')
    <2>1. caddyfile \in Seq(Line) /\ Closed(caddyfile)
          /\ hosts \in Seq(HostLine) /\ HostsClosed(hosts)
        BY DEF PromiseInv, ProxyInv, FilesOK
    <2>2. CASE \E line \in UserLines :
                 /\ caddyfile' \in {<<line>> \o caddyfile, Append(caddyfile, line)}
                 /\ UNCHANGED hosts
        BY <2>1, <2>2, EditKeeps
    <2>3. CASE hosts' = Append(hosts, HostsText("own")) /\ UNCHANGED caddyfile
        BY <2>1, <2>3, HostsEditKeeps
    <2>4. QED  BY <2>2, <2>3 DEF Edit
<1>3. ASSUME NEW d \in Dirs, promised'[d] # NoDomain
      PROVE  /\ PromisedSite(d) \in ToSet(caddyfile')
             /\ promised[d] \in NamesIn(hosts')
             /\ \E q \in At(d)' : promised[d] \in DomainsOf(q.id)'
    <2>1. /\ PromisedSite(d) \in ToSet(caddyfile) /\ promised[d] \in NamesIn(hosts)
          /\ \E q \in At(d) : promised[d] \in DomainsOf(q.id)
        BY <1>1, <1>3 DEF PromiseInv, PromisesOK
    <2>2. QED  BY <1>1, <1>2, <2>1, OwnersStay
<1>4. PromisesOK'
    BY <1>1, <1>3, PromisesStay DEF PromiseInv
<1>5. CommandsOK'
    BY <1>1, <1>2, CommandsStay DEF PromiseInv
<1>6. QED  BY <1>4, <1>5

LEMMA PromiseNextKeeps ==
    ASSUME \A t, u \in Terminals : t = u
    PROVE  PromiseInv /\ [Next]_vars => PromiseInv'
<1> SUFFICES ASSUME PromiseInv, [Next]_vars PROVE PromisesOK' /\ CommandsOK'
    BY ProxyNextKeeps DEF PromiseInv
<1>1. CASE Registry
    BY <1>1, RegistryPromises
<1>2. ASSUME NEW t \in Terminals, Command(t) PROVE PromisesOK' /\ CommandsOK'
    <2>1. CASE \E d \in Dirs : Up(t, d) \/ Stop(t, d) \/ Down(t, d)
        BY <2>1, UpPromises, StopPromises, DownPromises
    <2>2. CASE \E rows \in {projects} \cup {{q} : q \in projects} : ApplyStart(t, rows)
        <3>1. PICK rows \in SUBSET projects : ApplyStart(t, rows)
            BY <2>2
        <3>2. QED  BY <3>1, ApplyPromises
    <2>3. CASE PublishSharedService(t)
        BY <2>3, PublishPromises
    <2>4. CASE \E force \in BOOLEAN : Bootstrap(t, force)
        BY <2>4, BootstrapPromises
    <2>5. QED  BY <1>2, <2>1, <2>2, <2>3, <2>4 DEF Command
<1>3. ASSUME NEW t \in Terminals, Step(t) PROVE PromisesOK' /\ CommandsOK'
    BY <1>3, ConnectPromises, ReadPromises, WritePromises, ReloadPromises,
       ReadHostsPromises, CopyPromises, DiesPromises DEF Step
<1>4. CASE CaddyRestarts
    BY <1>4, CaddyRestartsPromises
<1>5. CASE Edit
    BY <1>5, UserEditPromises
<1>6. CASE UNCHANGED vars
    <2>1. UNCHANGED <<registryVars, container, caddyfile, caddy, hosts, promised, job>>
        BY <1>6 DEF vars, proxyVars
    <2>2. QED  BY <2>1, PromisesHeld, CommandsStay DEF PromiseInv
<1>7. QED  BY <1>1, <1>2, <1>3, <1>4, <1>5, <1>6 DEF Next

\* With one terminal, what "applied" said of a project lasts until that
\* project changes or a shared service takes its domain: no step of any other
\* command, no interruption and no restart of Caddy takes its route, its alias
\* or its name away.  With two the Caddyfile is written from what was read
\* before the other wrote.
THEOREM PromisesLast ==
    ASSUME \A t, u \in Terminals : t = u
    PROVE  Spec => []PromiseKept
<1>1. QED  BY PromiseInitEstablishes, PromiseNextKeeps, PromiseInvImplies, PTL DEF Spec

===============================================================================
