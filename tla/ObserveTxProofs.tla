---------------------------- MODULE ObserveTxProofs ----------------------------
(***************************************************************************)
(* The transactions of the issue store implement its atomic operations,    *)
(* for any number of handlers, cleanups, rules and clients.                *)
(*                                                                         *)
(* A transaction works on a copy of the tables.  The argument is that the  *)
(* copy it commits is what the atomic operation makes of the tables that   *)
(* are committed then: while it holds the write lock nobody else commits,  *)
(* and it only takes the lock when nobody has committed since it first     *)
(* read.                                                                   *)
(***************************************************************************)
EXTENDS ObserveTx, TLAPS

-------------------------------------------------------------------------------
(***************************************************************************)
(* The tables.                                                             *)
(***************************************************************************)
Tables(alerts, nextAlert, deliveries, nextDelivery, issues, nextIssue, events) ==
    [alerts |-> alerts, nextAlert |-> nextAlert, deliveries |-> deliveries,
     nextDelivery |-> nextDelivery, issues |-> issues, nextIssue |-> nextIssue,
     events |-> events]

IsTables(d) ==
    d = Tables(d.alerts, d.nextAlert, d.deliveries, d.nextDelivery, d.issues,
               d.nextIssue, d.events)

IsIssue(i) ==
    i = [id |-> i.id, project |-> i.project, fingerprint |-> i.fingerprint,
         level |-> i.level, firstSeen |-> i.firstSeen, lastSeen |-> i.lastSeen,
         eventCount |-> i.eventCount]

\* An event belongs to one issue; a rule is known by its id; the number of the
\* next delivery is new.
Sound(d) ==
    /\ IsTables(d)
    /\ \A i \in d.issues : IsIssue(i)
    /\ \A i, j \in d.issues :
         i.project = j.project /\ i.fingerprint = j.fingerprint => i = j
    /\ d.nextAlert \in Nat
    /\ \A a \in d.alerts : a.id \in Nat /\ a.id < d.nextAlert
    /\ \A a, b \in d.alerts : a.id = b.id => a = b
    /\ d.nextDelivery \in Nat
    /\ \A v \in d.deliveries : v.id \in Nat /\ v.id < d.nextDelivery

Known(d, r) == View(d)!IssueOf(r.project, r.fingerprint)

New(d, r) == View(d)!OpenIssue(r.project, r.fingerprint, r.level, r.timestamp)

Touched(d, r, i) == View(d)!TouchIssue(i, r.level, r.timestamp)

Row(r, id) ==
    [eventId |-> r.eventId, project |-> r.project, issue |-> id,
     timestamp |-> r.timestamp, zone |-> r.zone]

\* The three tables an event is stored in.
Issues(d, r) ==
    IF Known(d, r) = {} THEN d.issues \cup {New(d, r)}
    ELSE (d.issues \ Known(d, r)) \cup {Touched(d, r, i) : i \in Known(d, r)}

NextIssue(d, r) == IF Known(d, r) = {} THEN d.nextIssue + 1 ELSE d.nextIssue

Events(d, r) ==
    d.events \cup
        (IF Known(d, r) = {} THEN {Row(r, d.nextIssue)}
         ELSE {Row(r, i.id) : i \in Known(d, r)})

Matching(d, r) == View(d)!MatchingAlerts(r.project)

\* The rules that speak of it, and what those in S say.
Speaking(d, r, now) ==
    {a \in View(d)!FiredBy(r.project, Known(d, r) = {}, Events(d, r), now) :
        ~View(d)!AlertIsSilenced(a, now)}

Said(d, r, now, S) ==
    {[id |-> d.nextDelivery, alert |-> a.id, subject |-> r.fingerprint,
      at |-> now] : a \in S}

\* The copy of a transaction that has delivered for the rules in S.
Filed(d, r, now, S, nextDelivery) ==
    Tables(d.alerts, d.nextAlert, d.deliveries \cup Said(d, r, now, S),
           nextDelivery, Issues(d, r), NextIssue(d, r), Events(d, r))

\* What the atomic StoreEvent makes of the tables.
Stored(d, r, now) ==
    LET S == Speaking(d, r, now)
    IN Filed(d, r, now, S,
             IF S = {} THEN d.nextDelivery ELSE d.nextDelivery + 1)

\* What the atomic Cleanup makes of them.
Stale(d, cutoff) == {i \in d.issues : i.lastSeen < cutoff}

Cleaned(d, cutoff) ==
    Tables(d.alerts, d.nextAlert, {v \in d.deliveries : v.at >= cutoff},
           d.nextDelivery, d.issues \ Stale(d, cutoff), d.nextIssue,
           {e \in d.events : /\ e.timestamp >= cutoff
                             /\ \A i \in Stale(d, cutoff) : e.issue # i.id})

-------------------------------------------------------------------------------
(***************************************************************************)
(* The operators on tables.                                                *)
(***************************************************************************)

LEMMA TablesFields ==
    ASSUME NEW alerts, NEW nextAlert, NEW deliveries, NEW nextDelivery,
           NEW issues, NEW nextIssue, NEW events, NEW d,
           d = Tables(alerts, nextAlert, deliveries, nextDelivery, issues,
                      nextIssue, events)
    PROVE  /\ IsTables(d)
           /\ d.alerts = alerts /\ d.nextAlert = nextAlert
           /\ d.deliveries = deliveries /\ d.nextDelivery = nextDelivery
           /\ d.issues = issues /\ d.nextIssue = nextIssue /\ d.events = events
BY DEF Tables, IsTables

\* What the upsert makes of an issue.
LEMMA NewFields ==
    ASSUME NEW d, NEW r
    PROVE  /\ New(d, r).id = d.nextIssue /\ IsIssue(New(d, r))
           /\ New(d, r).project = r.project
           /\ New(d, r).fingerprint = r.fingerprint
<1>1. New(d, r) =
        [id |-> d.nextIssue, project |-> r.project,
         fingerprint |-> r.fingerprint, level |-> r.level,
         firstSeen |-> r.timestamp, lastSeen |-> r.timestamp,
         eventCount |-> 1]
    BY DEF New, View!OpenIssue
<1>2. QED  BY <1>1 DEF IsIssue

LEMMA TouchedFields ==
    ASSUME NEW d, NEW r, NEW i, IsIssue(i)
    PROVE  /\ IsIssue(Touched(d, r, i)) /\ Touched(d, r, i).id = i.id
           /\ Touched(d, r, i).project = i.project
           /\ Touched(d, r, i).fingerprint = i.fingerprint
<1>1. Touched(d, r, i) =
        [id |-> i.id, project |-> i.project, fingerprint |-> i.fingerprint,
         level |-> r.level, firstSeen |-> i.firstSeen, lastSeen |-> r.timestamp,
         eventCount |-> i.eventCount + 1]
    <2>1. Touched(d, r, i) =
            [i EXCEPT !.level = r.level, !.lastSeen = r.timestamp,
                      !.eventCount = @ + 1]
        BY DEF Touched, View!TouchIssue
    <2>2. PICK id, project, fingerprint, level, firstSeen, lastSeen, count :
            i = [id |-> id, project |-> project, fingerprint |-> fingerprint,
                 level |-> level, firstSeen |-> firstSeen,
                 lastSeen |-> lastSeen, eventCount |-> count]
        BY DEF IsIssue
    <2>3. QED  BY <2>1, <2>2
<1>2. QED  BY <1>1 DEF IsIssue

\* The upsert is the one of the store, on a copy.
LEMMA UpsertedTables ==
    ASSUME NEW d, IsTables(d), NEW r
    PROVE  Upserted(d, r) =
             Tables(d.alerts, d.nextAlert, d.deliveries, d.nextDelivery,
                    Issues(d, r), NextIssue(d, r), d.events)
<1>1. CASE Known(d, r) = {}
    <2>1. PICK new : new = New(d, r)
        OBVIOUS
    <2>2. Upserted(d, r) = [d EXCEPT !.issues = d.issues \cup {new},
                                     !.nextIssue = d.nextIssue + 1]
        BY <1>1, <2>1 DEF Upserted, Known, New
    <2>3. QED
        BY <1>1, <2>1, <2>2 DEF IsTables, Tables, Issues, NextIssue
<1>2. CASE Known(d, r) # {}
    <2>1. PICK kept : kept = (d.issues \ Known(d, r)) \cup
                                {Touched(d, r, i) : i \in Known(d, r)}
        OBVIOUS
    <2>2. Upserted(d, r) = [d EXCEPT !.issues = kept]
        BY <1>2, <2>1 DEF Upserted, Known, Touched
    <2>3. QED
        BY <1>2, <2>1, <2>2 DEF IsTables, Tables, Issues, NextIssue
<1>3. QED  BY <1>1, <1>2

\* The event is filed under the issue the upsert opened or touched.
LEMMA RowsOfUpserted ==
    ASSUME NEW d, Sound(d), NEW r, NEW w, w.issues = Issues(d, r)
    PROVE  d.events \cup {Row(r, i.id) : i \in Known(w, r)} = Events(d, r)
<1>1. Known(d, r) = {i \in d.issues : /\ i.project = r.project
                                      /\ i.fingerprint = r.fingerprint}
    BY DEF Known, View!IssueOf
<1>2. Known(w, r) = {i \in Issues(d, r) : /\ i.project = r.project
                                          /\ i.fingerprint = r.fingerprint}
    BY DEF Known, View!IssueOf
<1>3. CASE Known(d, r) = {}
    <2>1. Known(w, r) = {New(d, r)}
        BY <1>1, <1>2, <1>3, NewFields DEF Issues
    <2>2. {Row(r, i.id) : i \in Known(w, r)} = {Row(r, d.nextIssue)}
        BY <2>1, NewFields
    <2>3. QED  BY <1>3, <2>2 DEF Events
<1>4. CASE Known(d, r) # {}
    <2>1. \A i \in Known(d, r) :
            /\ Touched(d, r, i).id = i.id
            /\ Touched(d, r, i).project = r.project
            /\ Touched(d, r, i).fingerprint = r.fingerprint
        BY <1>1, TouchedFields DEF Sound
    <2>2. Known(w, r) = {Touched(d, r, i) : i \in Known(d, r)}
        BY <1>1, <1>2, <1>4, <2>1 DEF Issues
    <2>3. {Row(r, i.id) : i \in Known(w, r)} = {Row(r, i.id) : i \in Known(d, r)}
        BY <2>1, <2>2
    <2>4. QED  BY <1>4, <2>3 DEF Events
<1>5. QED  BY <1>3, <1>4

\* A rule that has not had its turn yet sees its own deliveries only.
LEMMA SilencedAlike ==
    ASSUME NEW d, Sound(d), NEW r, NEW now, NEW S \in SUBSET d.alerts,
           NEW w, w.deliveries = d.deliveries \cup Said(d, r, now, S),
           NEW a \in d.alerts, a \notin S
    PROVE  View(w)!AlertIsSilenced(a, now) <=> View(d)!AlertIsSilenced(a, now)
<1>1. \A v \in Said(d, r, now, S) : v.alert # a.id
    BY DEF Sound, Said
<1>2. View(w)!OfRule(a) = View(d)!OfRule(a)
    BY <1>1 DEF View!OfRule
<1>3. View(w)!LastOfRule(a) = View(d)!LastOfRule(a)
    BY <1>2 DEF View!LastOfRule
<1>4. QED  BY <1>3 DEF View!AlertIsSilenced

LEMMA FiresAlike ==
    ASSUME NEW d, Sound(d), NEW r, NEW now, NEW S \in SUBSET d.alerts,
           NEW w, w.deliveries = d.deliveries \cup Said(d, r, now, S),
           w.alerts = d.alerts, w.events = Events(d, r),
           NEW isNew, isNew <=> Known(d, r) = {},
           NEW a \in Matching(d, r), a \notin S
    PROVE  /\ a \in View(w)!FiredBy(r.project, isNew, w.events, now)
           /\ ~View(w)!AlertIsSilenced(a, now)
           <=> a \in Speaking(d, r, now)
<1>1. a \in d.alerts
    BY DEF Matching, View!MatchingAlerts
<1>2. View(w)!AlertIsSilenced(a, now) <=> View(d)!AlertIsSilenced(a, now)
    BY <1>1, SilencedAlike
<1>3. PICK counted : counted = View(d)!InWindow(Events(d, r), r.project,
                                                 now - a.window)
    OBVIOUS
<1>4. counted = View(w)!InWindow(w.events, r.project, now - a.window)
    BY <1>3 DEF View!InWindow
<1>5. View(w)!Cardinality(counted) = View(d)!Cardinality(counted)
    BY DEF View!Cardinality
<1>6. a \in View(w)!FiredBy(r.project, isNew, w.events, now) <=>
        a \in View(d)!FiredBy(r.project, Known(d, r) = {}, Events(d, r), now)
    BY <1>3, <1>4, <1>5 DEF View!FiredBy, View!MatchingAlerts, Matching
<1>7. QED  BY <1>2, <1>6 DEF Speaking

LEMMA SpeakingMatch ==
    ASSUME NEW d, NEW r, NEW now
    PROVE  /\ Speaking(d, r, now) \subseteq Matching(d, r)
           /\ Matching(d, r) \subseteq d.alerts
BY DEF Speaking, Matching, View!FiredBy, View!MatchingAlerts

\* The transaction has nothing to number when nobody has spoken.
LEMMA SaidIsNew ==
    ASSUME NEW d, Sound(d), NEW r, NEW now, NEW S
    PROVE  d.deliveries \cup Said(d, r, now, S) = d.deliveries <=> S = {}
<1>1. ASSUME NEW a \in S, d.deliveries \cup Said(d, r, now, S) = d.deliveries
      PROVE  FALSE
    <2>1. PICK v : v = [id |-> d.nextDelivery, alert |-> a.id,
                        subject |-> r.fingerprint, at |-> now]
        OBVIOUS
    <2>2. v \in d.deliveries /\ v.id = d.nextDelivery
        BY <1>1, <2>1 DEF Said
    <2>3. QED  BY <2>2 DEF Sound
<1>2. S = {} => Said(d, r, now, S) = {}
    BY DEF Said
<1>3. QED  BY <1>1, <1>2

-------------------------------------------------------------------------------
(***************************************************************************)
(* What the operations make of sound tables is sound.                      *)
(***************************************************************************)

LEMMA StoredSound ==
    ASSUME NEW d, Sound(d), NEW r, NEW now, NEW w, w = Stored(d, r, now)
    PROVE  Sound(w)
<1>1. PICK S, next : /\ w = Filed(d, r, now, S, next)
                     /\ next = IF S = {} THEN d.nextDelivery
                                         ELSE d.nextDelivery + 1
    BY DEF Stored
<1>2. /\ IsTables(w) /\ w.alerts = d.alerts /\ w.nextAlert = d.nextAlert
      /\ w.deliveries = d.deliveries \cup Said(d, r, now, S)
      /\ w.nextDelivery = next /\ w.issues = Issues(d, r)
    BY <1>1, TablesFields DEF Filed
<1>3. /\ next \in Nat
      /\ \A v \in w.deliveries : v.id \in Nat /\ v.id < next
    BY <1>1, <1>2 DEF Sound, Said
<1>4. /\ \A i \in Issues(d, r) : IsIssue(i)
      /\ \A i, j \in Issues(d, r) :
           i.project = j.project /\ i.fingerprint = j.fingerprint => i = j
    <2>1. Known(d, r) = {i \in d.issues : /\ i.project = r.project
                                          /\ i.fingerprint = r.fingerprint}
        BY DEF Known, View!IssueOf
    <2>2. CASE Known(d, r) = {}
        <3>1. Issues(d, r) = d.issues \cup {New(d, r)}
            BY <2>2 DEF Issues
        <3>2. QED  BY <2>1, <2>2, <3>1, NewFields DEF Sound
    <2>3. CASE Known(d, r) # {}
        <3>1. PICK i \in Known(d, r) : Known(d, r) = {i}
            BY <2>1, <2>3 DEF Sound
        <3>2. Issues(d, r) = (d.issues \ {i}) \cup {Touched(d, r, i)}
            BY <2>3, <3>1 DEF Issues
        <3>3. /\ IsIssue(Touched(d, r, i))
              /\ Touched(d, r, i).project = i.project
              /\ Touched(d, r, i).fingerprint = i.fingerprint
            BY <2>1, TouchedFields DEF Sound
        <3>4. QED  BY <2>1, <3>1, <3>2, <3>3 DEF Sound
    <2>4. QED  BY <2>2, <2>3
<1>5. QED  BY <1>2, <1>3, <1>4 DEF Sound

LEMMA CleanedSound ==
    ASSUME NEW d, Sound(d), NEW cutoff, NEW w, w = Cleaned(d, cutoff)
    PROVE  Sound(w)
<1>1. /\ IsTables(w) /\ w.alerts = d.alerts /\ w.nextAlert = d.nextAlert
      /\ w.deliveries \subseteq d.deliveries
      /\ w.nextDelivery = d.nextDelivery /\ w.issues \subseteq d.issues
    BY TablesFields DEF Cleaned
<1>2. QED  BY <1>1 DEF Sound

-------------------------------------------------------------------------------
(***************************************************************************)
(* The invariant: where each process is in its transaction t, with d the   *)
(* committed tables and c the clock.                                       *)
(***************************************************************************)
Processes == Handlers \cup Cleaners

Asked(t, c) == t.request \in Request /\ t.now \in 0..c

Room(d) == /\ d.nextIssue <= MaxIssues
           /\ \A i \in d.issues : i.eventCount < MaxCount

\* What a snapshot says is still so unless somebody has committed.
LookedUp(t, d, c) ==
    /\ t = [step |-> "upsert", request |-> t.request, now |-> t.now,
            fresh |-> t.fresh, isNew |-> t.isNew]
    /\ Asked(t, c)
    /\ t.fresh => (t.isNew <=> Known(d, t.request) = {})

Upserting(t, d, c) ==
    /\ t.step = "insert"
    /\ Asked(t, c) /\ Room(d)
    /\ t.isNew <=> Known(d, t.request) = {}
    /\ t.work = Upserted(d, t.request)

Delivering(t, d, c) ==
    /\ t.step = "deliver"
    /\ Asked(t, c) /\ Room(d)
    /\ \A e \in d.events : e.eventId # t.request.eventId
    /\ t.isNew <=> Known(d, t.request) = {}
    /\ t.todo \subseteq Matching(d, t.request)
    /\ t.work = Filed(d, t.request, t.now,
                      Speaking(d, t.request, t.now) \ t.todo, d.nextDelivery)

Cleaning(t, d, c) ==
    /\ t.step = "clean"
    /\ \E days \in Retentions, now \in 0..c : t.cutoff = now - days
    /\ t.work = Tables(d.alerts, d.nextAlert,
                       {v \in d.deliveries : v.at >= t.cutoff},
                       d.nextDelivery, d.issues, d.nextIssue,
                       {e \in d.events : e.timestamp >= t.cutoff})

\* What is about to be committed.
StoresInto(d, r, now, w) ==
    /\ Room(d)
    /\ \A e \in d.events : e.eventId # r.eventId
    /\ w = Stored(d, r, now)

Committing(t, d, c) ==
    /\ t.step = "commit"
    /\ \/ \E r \in Request, now \in 0..c : StoresInto(d, r, now, t.work)
       \/ \E days \in Retentions, now \in 0..c :
            t.work = Cleaned(d, now - days)

Doing(t, d, c) ==
    \/ t.step \in {"idle", "over"}
    \/ t.step = "begin" /\ Asked(t, c)
    \/ LookedUp(t, d, c)
    \/ Upserting(t, d, c)
    \/ Delivering(t, d, c)
    \/ Cleaning(t, d, c)
    \/ Committing(t, d, c)

\* The process that has written, and only that one, holds the lock.
TxInv ==
    /\ clock \in Nat /\ clock <= MaxTime
    /\ Sound(db)
    /\ tx = [p \in Processes |-> tx[p]]
    /\ \A p \in Processes : tx[p].step \in Writing <=> writer = p
    /\ \A p \in Processes : Doing(tx[p], db, clock)

LEMMA ByStep ==
    ASSUME NEW t, NEW d, NEW c, Doing(t, d, c)
    PROVE  /\ t.step = "begin" => Asked(t, c)
           /\ t.step = "upsert" => LookedUp(t, d, c)
           /\ t.step = "insert" => Upserting(t, d, c)
           /\ t.step = "deliver" => Delivering(t, d, c)
           /\ t.step = "clean" => Cleaning(t, d, c)
           /\ t.step = "commit" => Committing(t, d, c)
<1>1. /\ LookedUp(t, d, c) => t.step = "upsert"
      /\ Upserting(t, d, c) => t.step = "insert"
      /\ Delivering(t, d, c) => t.step = "deliver"
      /\ Cleaning(t, d, c) => t.step = "clean"
      /\ Committing(t, d, c) => t.step = "commit"
    BY DEF LookedUp, Upserting, Delivering, Cleaning, Committing
<1>2. QED  BY <1>1 DEF Doing

\* Time passes for everybody.
LEMMA DoingLater ==
    ASSUME NEW t, NEW d, NEW c \in Nat, Doing(t, d, c)
    PROVE  Doing(t, d, c + 1)
<1>1. 0..c \subseteq 0..(c + 1)
    OBVIOUS
<1>2. Asked(t, c) => Asked(t, c + 1)
    BY <1>1 DEF Asked
<1>3. Cleaning(t, d, c) => Cleaning(t, d, c + 1)
    BY <1>1 DEF Cleaning
<1>4. Committing(t, d, c) => Committing(t, d, c + 1)
    BY <1>1 DEF Committing
<1>5. QED  BY <1>2, <1>3, <1>4 DEF Doing, LookedUp, Upserting, Delivering

\* A commit of somebody else only outdates who has not written.
LEMMA DoingOutdated ==
    ASSUME NEW t, NEW d, NEW c, Doing(t, d, c), t.step \notin Writing, NEW e,
           NEW now, now = IF t.step = "upsert" THEN [t EXCEPT !.fresh = FALSE]
                          ELSE t
    PROVE  now.step = t.step /\ Doing(now, e, c)
<1>1. CASE t.step # "upsert"
    BY <1>1 DEF Doing, LookedUp, Upserting, Delivering, Cleaning, Committing,
                Writing
<1>2. CASE t.step = "upsert"
    <2>1. LookedUp(t, d, c)
        BY <1>2, ByStep
    <2>2. PICK r, n, f, isNew :
            t = [step |-> "upsert", request |-> r, now |-> n, fresh |-> f,
                 isNew |-> isNew]
        BY <2>1 DEF LookedUp
    <2>3. now = [step |-> "upsert", request |-> r, now |-> n, fresh |-> FALSE,
                 isNew |-> isNew]
        BY <1>2, <2>2
    <2>4. LookedUp(now, e, c)
        BY <2>1, <2>2, <2>3 DEF LookedUp, Asked
    <2>5. QED  BY <1>2, <2>3, <2>4 DEF Doing
<1>3. QED  BY <1>1, <1>2

\* One process moves; nothing is committed.
LEMMA OneMoves ==
    ASSUME TxInv, NEW p \in Processes, NEW now, Doing(now, db, clock),
           tx' = [tx EXCEPT ![p] = now], UNCHANGED <<clock, db>>,
           writer' = IF now.step \in Writing THEN p
                     ELSE IF writer = p THEN Nobody ELSE writer,
           now.step \in Writing => writer \in {p, Nobody}
    PROVE  TxInv'
<1>1. Nobody \notin Processes
    BY TxConstants DEF Processes
<1>2. /\ tx' = [q \in Processes |-> tx'[q]] /\ tx'[p] = now
      /\ \A q \in Processes : q # p => tx'[q] = tx[q]
    BY DEF TxInv
<1>3. \A q \in Processes : tx'[q].step \in Writing <=> writer' = q
    BY <1>1, <1>2 DEF TxInv
<1>4. \A q \in Processes : Doing(tx'[q], db, clock)
    BY <1>2 DEF TxInv
<1>5. QED  BY <1>2, <1>3, <1>4 DEF TxInv

\* New tables are committed, by p if it is one of the processes.
LEMMA OneCommits ==
    ASSUME TxInv, NEW w, Sound(w), db' = w, UNCHANGED clock,
           NEW p \in Processes \cup {Nobody}, writer = p, writer' = Nobody,
           tx' = [q \in Processes |-> tx'[q]],
           \A q \in Processes : tx'[q] = IF q = p THEN Over
                                         ELSE OutdateReaders(tx)[q]
    PROVE  TxInv'
<1>1. Nobody \notin Processes
    BY TxConstants DEF Processes
<1>2. ASSUME NEW q \in Processes
      PROVE  tx'[q].step \notin Writing /\ Doing(tx'[q], w, clock)
    <2>1. CASE q = p
        BY <2>1 DEF Over, Doing, Writing
    <2>2. CASE q # p
        <3>1. tx[q].step \notin Writing /\ Doing(tx[q], db, clock)
            BY <2>2 DEF TxInv
        <3>2. tx'[q] = IF tx[q].step = "upsert"
                       THEN [tx[q] EXCEPT !.fresh = FALSE] ELSE tx[q]
            BY <2>2 DEF OutdateReaders, TxInv
        <3>3. QED  BY <3>1, <3>2, DoingOutdated
    <2>3. QED  BY <2>1, <2>2
<1>3. QED  BY <1>1, <1>2 DEF TxInv

-------------------------------------------------------------------------------
(***************************************************************************)
(* The statements of a transaction, one by one: what the copy holds.       *)
(***************************************************************************)

LEMMA ReceiveInv ==
    ASSUME TxInv, NEW h \in Processes, NEW request \in Request,
           Receive(h, request)
    PROVE  TxInv'
<1>1. PICK now : now = [step |-> "begin", request |-> request, now |-> clock]
    OBVIOUS
<1>2. tx' = [tx EXCEPT ![h] = now] /\ tx[h].step \notin Writing
    BY <1>1 DEF Receive, Writing
<1>3. Doing(now, db, clock)
    BY <1>1 DEF Doing, Asked, TxInv
<1>4. now.step \notin Writing /\ writer # h
    BY <1>1, <1>2 DEF Writing, TxInv
<1>5. QED  BY <1>2, <1>3, <1>4, OneMoves DEF Receive

LEMMA LookUpInv ==
    ASSUME TxInv, NEW h \in Processes, LookUpIssue(h)
    PROVE  TxInv'
<1>1. PICK r, n, isNew : /\ r = tx[h].request /\ n = tx[h].now
                         /\ isNew = View(db)!IssueIsNew(r.project, r.fingerprint)
    OBVIOUS
<1>2. PICK now : now = [step |-> "upsert", request |-> r, now |-> n,
                        fresh |-> TRUE, isNew |-> isNew]
    OBVIOUS
<1>3. tx' = [tx EXCEPT ![h] = now]
    BY <1>1, <1>2 DEF LookUpIssue
<1>4. Asked(tx[h], clock) /\ tx[h].step \notin Writing
    BY ByStep DEF LookUpIssue, TxInv, Writing
<1>5. isNew <=> Known(db, r) = {}
    BY <1>1 DEF View!IssueIsNew, Known
<1>6. Doing(now, db, clock)
    BY <1>1, <1>2, <1>4, <1>5 DEF Doing, LookedUp, Asked
<1>7. now.step \notin Writing /\ writer # h
    BY <1>2, <1>4 DEF Writing, TxInv
<1>8. QED  BY <1>3, <1>6, <1>7, OneMoves DEF LookUpIssue

LEMMA RollbackInv ==
    ASSUME TxInv, NEW p \in Processes, Rollback(p)
    PROVE  TxInv'
<1>1. PICK now : now = Over
    OBVIOUS
<1>2. Doing(now, db, clock) /\ now.step \notin Writing
    BY <1>1 DEF Doing, Over, Writing
<1>3. QED  BY <1>1, <1>2, OneMoves DEF Rollback

LEMMA UpsertInv ==
    ASSUME TxInv, NEW h \in Processes, UpsertIssue(h)
    PROVE  TxInv'
<1>1. CASE ~MayWrite(h)
    BY <1>1, RollbackInv DEF UpsertIssue
<1>2. CASE MayWrite(h)
    <2>1. PICK r, n, isNew, work :
            /\ r = tx[h].request /\ n = tx[h].now /\ isNew = tx[h].isNew
            /\ work = Upserted(db, r)
        OBVIOUS
    <2>2. PICK now : now = [step |-> "insert", request |-> r, now |-> n,
                            isNew |-> isNew, work |-> work]
        OBVIOUS
    <2>3. /\ tx' = [tx EXCEPT ![h] = now] /\ writer' = h
          /\ Room(db) /\ UNCHANGED <<clock, db>>
        BY <1>2, <2>1, <2>2 DEF UpsertIssue, Room
    <2>4. LookedUp(tx[h], db, clock)
        BY ByStep DEF UpsertIssue, TxInv
    <2>5. tx[h].fresh /\ writer = Nobody
        BY <1>2 DEF MayWrite
    <2>6. Doing(now, db, clock)
        BY <2>1, <2>2, <2>3, <2>4, <2>5 DEF Doing, LookedUp, Upserting, Asked
    <2>7. now.step \in Writing
        BY <2>2 DEF Writing
    <2>8. QED  BY <2>3, <2>5, <2>6, <2>7, OneMoves
<1>3. QED  BY <1>1, <1>2

LEMMA InsertInv ==
    ASSUME TxInv, NEW h \in Processes, InsertEvent(h)
    PROVE  TxInv'
<1>1. PICK r, n, isNew, work :
        /\ r = tx[h].request /\ n = tx[h].now /\ isNew = tx[h].isNew
        /\ work = tx[h].work
    OBVIOUS
<1>2. Upserting(tx[h], db, clock)
    BY ByStep DEF InsertEvent, TxInv
<1>3. IsTables(db) /\ Sound(db)
    BY DEF TxInv, Sound
<1>4. work = Tables(db.alerts, db.nextAlert, db.deliveries, db.nextDelivery,
                    Issues(db, r), NextIssue(db, r), db.events)
    BY <1>1, <1>2, <1>3, UpsertedTables DEF Upserting
<1>5. /\ work.alerts = db.alerts /\ work.issues = Issues(db, r)
      /\ work.events = db.events
    BY <1>4, TablesFields
<1>6. CASE \E e \in work.events : e.eventId = r.eventId
    BY <1>1, <1>6, RollbackInv DEF InsertEvent
<1>7. CASE \A e \in work.events : e.eventId # r.eventId
    <2>1. PICK events, todo, filed :
            /\ events = work.events \cup {Row(r, i.id) : i \in Known(work, r)}
            /\ todo = View(work)!MatchingAlerts(r.project)
            /\ filed = [work EXCEPT !.events = events]
        OBVIOUS
    <2>2. PICK now : now = [step |-> "deliver", request |-> r, now |-> n,
                            isNew |-> isNew, todo |-> todo, work |-> filed]
        OBVIOUS
    <2>3. tx' = [tx EXCEPT ![h] = now] /\ UNCHANGED <<clock, db, writer>>
        BY <1>1, <1>7, <2>1, <2>2 DEF InsertEvent, Row, Known
    <2>4. events = Events(db, r)
        BY <1>3, <1>5, <2>1, RowsOfUpserted
    <2>5. todo = Matching(db, r)
        BY <1>5, <2>1 DEF Matching, View!MatchingAlerts
    <2>6. Speaking(db, r, n) \ todo = {}
        BY <2>5, SpeakingMatch
    <2>7. Said(db, r, n, {}) = {}
        BY DEF Said
    <2>8. filed = Filed(db, r, n, {}, db.nextDelivery)
        BY <1>4, <2>1, <2>4, <2>7 DEF Filed, Tables
    <2>9. Delivering(now, db, clock)
        BY <1>1, <1>2, <1>5, <1>7, <2>2, <2>5, <2>6, <2>8
           DEF Delivering, Upserting, Asked
    <2>10. now.step \in Writing /\ writer = h
        BY <2>2 DEF Writing, InsertEvent, TxInv
    <2>11. Doing(now, db, clock)
        BY <2>9 DEF Doing
    <2>12. QED  BY <2>3, <2>10, <2>11, OneMoves
<1>8. QED  BY <1>6, <1>7

LEMMA DeliverInv ==
    ASSUME TxInv, NEW h \in Processes, DeliverNext(h)
    PROVE  TxInv'
<1>1. Delivering(tx[h], db, clock) /\ Sound(db)
    BY ByStep DEF DeliverNext, TxInv
<1>2. PICK r, n, isNew, todo, work :
        /\ r = tx[h].request /\ n = tx[h].now /\ isNew = tx[h].isNew
        /\ todo = tx[h].todo /\ work = tx[h].work
    OBVIOUS
<1>3. PICK S : S = Speaking(db, r, n) \ todo
    OBVIOUS
<1>4. /\ work = Filed(db, r, n, S, db.nextDelivery)
      /\ todo \subseteq Matching(db, r)
      /\ isNew <=> Known(db, r) = {}
    BY <1>1, <1>2, <1>3 DEF Delivering
<1>5. /\ work.deliveries = db.deliveries \cup Said(db, r, n, S)
      /\ work.alerts = db.alerts /\ work.events = Events(db, r)
      /\ work.nextDelivery = db.nextDelivery
    BY <1>4, TablesFields DEF Filed
<1>6. PICK a \in todo :
        tx' = [tx EXCEPT ![h] =
          [step |-> "deliver", request |-> r, now |-> n, isNew |-> isNew,
           todo |-> todo \ {a},
           work |-> IF Fires(h, a)
             THEN [work EXCEPT !.deliveries = @ \cup
                     {[id |-> work.nextDelivery, alert |-> a.id,
                       subject |-> r.fingerprint, at |-> n]}]
             ELSE work]]
    BY <1>2 DEF DeliverNext
<1>7. PICK said : said = [id |-> work.nextDelivery, alert |-> a.id,
                          subject |-> r.fingerprint, at |-> n]
    OBVIOUS
<1>8. PICK deliveries :
        deliveries = IF Fires(h, a) THEN work.deliveries \cup {said}
                                    ELSE work.deliveries
    OBVIOUS
<1>9. PICK filed :
        filed = IF Fires(h, a) THEN [work EXCEPT !.deliveries = @ \cup {said}]
                               ELSE work
    OBVIOUS
<1>10. PICK now : now = [step |-> "deliver", request |-> r, now |-> n,
                         isNew |-> isNew, todo |-> todo \ {a}, work |-> filed]
    OBVIOUS
<1>11. tx' = [tx EXCEPT ![h] = now]
    BY <1>6, <1>7, <1>9, <1>10
<1>12. PICK T : T = Speaking(db, r, n) \ (todo \ {a})
    OBVIOUS
<1>13. S \in SUBSET db.alerts /\ a \notin S /\ a \in Matching(db, r)
    BY <1>2, <1>3, <1>4, <1>6, SpeakingMatch
<1>14. Fires(h, a) <=> a \in Speaking(db, r, n)
    <2>1. Fires(h, a) <=>
            /\ a \in View(work)!FiredBy(r.project, isNew, work.events, n)
            /\ ~View(work)!AlertIsSilenced(a, n)
        BY <1>2 DEF Fires
    <2>2. QED  BY <1>1, <1>4, <1>5, <1>13, <2>1, FiresAlike
<1>15. deliveries = db.deliveries \cup Said(db, r, n, T)
    <2>1. CASE Fires(h, a)
        <3>1. T = S \cup {a}
            BY <1>2, <1>3, <1>6, <1>12, <1>14, <2>1
        <3>2. Said(db, r, n, T) = Said(db, r, n, S) \cup {said}
            BY <1>5, <1>7, <3>1 DEF Said
        <3>3. QED  BY <1>5, <1>8, <2>1, <3>2
    <2>2. CASE ~Fires(h, a)
        <3>1. T = S
            BY <1>2, <1>3, <1>6, <1>12, <1>14, <2>2
        <3>2. QED  BY <1>5, <1>8, <2>2, <3>1
    <2>3. QED  BY <2>1, <2>2
<1>16. filed = Filed(db, r, n, T, db.nextDelivery)
    <2>1. filed = [work EXCEPT !.deliveries = deliveries]
        BY <1>4, <1>5, <1>7, <1>8, <1>9 DEF Filed, Tables
    <2>2. QED  BY <1>4, <1>15, <2>1 DEF Filed, Tables
<1>17. Delivering(now, db, clock)
    BY <1>1, <1>2, <1>4, <1>10, <1>12, <1>16 DEF Delivering, Asked
<1>18. Doing(now, db, clock) /\ now.step \in Writing /\ writer = h
    BY <1>10, <1>17 DEF Doing, Writing, TxInv, DeliverNext
<1>19. QED  BY <1>11, <1>18, OneMoves DEF DeliverNext

LEMMA DeliveredInv ==
    ASSUME TxInv, NEW h \in Processes, Delivered(h)
    PROVE  TxInv'
<1>1. Delivering(tx[h], db, clock) /\ Sound(db)
    BY ByStep DEF Delivered, TxInv
<1>2. PICK r, n, S : /\ r = tx[h].request /\ n = tx[h].now
                     /\ S = Speaking(db, r, n)
    OBVIOUS
<1>3. PICK work : /\ work = tx[h].work
                  /\ work = Filed(db, r, n, S, db.nextDelivery)
    BY <1>1, <1>2 DEF Delivering, Delivered
<1>4. /\ work.deliveries = db.deliveries \cup Said(db, r, n, S)
      /\ work.nextDelivery = db.nextDelivery
    BY <1>3, TablesFields DEF Filed
<1>5. PICK next, filed :
        /\ next = IF S = {} THEN db.nextDelivery ELSE db.nextDelivery + 1
        /\ filed = [work EXCEPT !.nextDelivery = next]
    OBVIOUS
<1>6. filed = Stored(db, r, n)
    BY <1>2, <1>3, <1>5 DEF Stored, Filed, Tables
<1>7. PICK now : now = [step |-> "commit", work |-> filed]
    OBVIOUS
<1>8. tx' = [tx EXCEPT ![h] = now] /\ UNCHANGED <<clock, db, writer>>
    <2>1. work.deliveries = db.deliveries <=> S = {}
        BY <1>1, <1>4, SaidIsNew
    <2>2. next = IF work.deliveries = db.deliveries THEN work.nextDelivery
                                                    ELSE work.nextDelivery + 1
        BY <1>4, <1>5, <2>1
    <2>3. QED  BY <1>3, <1>5, <1>7, <2>2 DEF Delivered
<1>9. r \in Request /\ n \in 0..clock /\ StoresInto(db, r, n, filed)
    BY <1>1, <1>2, <1>6 DEF Delivering, Asked, StoresInto
<1>10. Doing(now, db, clock)
    BY <1>7, <1>9 DEF Doing, Committing
<1>11. now.step \in Writing /\ writer = h
    BY <1>7 DEF Writing, TxInv, Delivered
<1>12. QED  BY <1>8, <1>10, <1>11, OneMoves

LEMMA CleanupBeginInv ==
    ASSUME TxInv, NEW c \in Processes, NEW days \in Retentions,
           CleanupBegin(c, days)
    PROVE  TxInv'
<1>1. PICK cutoff : cutoff = clock - days
    OBVIOUS
<1>2. PICK deliveries, events, work :
        /\ deliveries = {v \in db.deliveries : v.at >= cutoff}
        /\ events = {e \in db.events : e.timestamp >= cutoff}
        /\ work = [db EXCEPT !.deliveries = deliveries, !.events = events]
    OBVIOUS
<1>3. PICK now : now = [step |-> "clean", cutoff |-> cutoff, work |-> work]
    OBVIOUS
<1>4. tx' = [tx EXCEPT ![c] = now]
    BY <1>1, <1>2, <1>3 DEF CleanupBegin
<1>5. work = Tables(db.alerts, db.nextAlert, deliveries, db.nextDelivery,
                    db.issues, db.nextIssue, events)
    <2>1. IsTables(db)
        BY DEF TxInv, Sound
    <2>2. QED  BY <1>2, <2>1 DEF IsTables, Tables
<1>6. clock \in 0..clock
    BY DEF TxInv
<1>7. Cleaning(now, db, clock)
    BY <1>1, <1>2, <1>3, <1>5, <1>6 DEF Cleaning
<1>8. Doing(now, db, clock) /\ now.step \in Writing
    BY <1>3, <1>7 DEF Doing, Writing
<1>9. QED  BY <1>4, <1>8, OneMoves DEF CleanupBegin

LEMMA CleanupIssuesInv ==
    ASSUME TxInv, NEW c \in Processes, CleanupIssues(c)
    PROVE  TxInv'
<1>1. Cleaning(tx[c], db, clock)
    BY ByStep DEF CleanupIssues, TxInv
<1>2. PICK cutoff, work : cutoff = tx[c].cutoff /\ work = tx[c].work
    OBVIOUS
<1>3. PICK stale, issues, events :
        /\ stale = {i \in work.issues : i.lastSeen < cutoff}
        /\ issues = work.issues \ stale
        /\ events = {e \in work.events : \A i \in stale : e.issue # i.id}
    OBVIOUS
<1>4. PICK cleaned : cleaned = [work EXCEPT !.issues = issues, !.events = events]
    OBVIOUS
<1>5. PICK now : now = [step |-> "commit", work |-> cleaned]
    OBVIOUS
<1>6. tx' = [tx EXCEPT ![c] = now] /\ UNCHANGED <<clock, db, writer>>
    BY <1>2, <1>3, <1>4, <1>5 DEF CleanupIssues
<1>7. work = Tables(db.alerts, db.nextAlert,
                    {v \in db.deliveries : v.at >= cutoff}, db.nextDelivery,
                    db.issues, db.nextIssue,
                    {e \in db.events : e.timestamp >= cutoff})
    BY <1>1, <1>2 DEF Cleaning
<1>8. /\ work.issues = db.issues
      /\ work.events = {e \in db.events : e.timestamp >= cutoff}
    BY <1>7, TablesFields
<1>9. cleaned = Cleaned(db, cutoff)
    <2>1. stale = Stale(db, cutoff) /\ issues = db.issues \ Stale(db, cutoff)
        BY <1>3, <1>8 DEF Stale
    <2>2. events = {e \in db.events :
                      /\ e.timestamp >= cutoff
                      /\ \A i \in Stale(db, cutoff) : e.issue # i.id}
        BY <1>3, <1>8, <2>1
    <2>3. QED  BY <1>4, <1>7, <2>1, <2>2 DEF Cleaned, Tables
<1>10. Committing(now, db, clock)
    BY <1>1, <1>2, <1>5, <1>9 DEF Cleaning, Committing
<1>11. Doing(now, db, clock) /\ now.step \in Writing /\ writer = c
    BY <1>5, <1>10 DEF Doing, Writing, TxInv, CleanupIssues
<1>12. QED  BY <1>6, <1>11, OneMoves

LEMMA CommitInv ==
    ASSUME TxInv, NEW p \in Processes, Commit(p)
    PROVE  TxInv'
<1>1. PICK w : w = tx[p].work
    OBVIOUS
<1>2. /\ db' = w /\ writer' = Nobody /\ UNCHANGED clock
      /\ tx' = [OutdateReaders(tx) EXCEPT ![p] = Over]
    BY <1>1 DEF Commit
<1>3. Committing(tx[p], db, clock) /\ Sound(db)
    BY ByStep DEF Commit, TxInv
<1>4. Sound(w)
    BY <1>1, <1>3, StoredSound, CleanedSound DEF Committing, StoresInto
<1>5. writer = p
    BY DEF Commit, TxInv, Writing
<1>6. DOMAIN tx = Processes
    BY DEF TxInv
<1>7. /\ tx' = [q \in Processes |-> tx'[q]]
      /\ \A q \in Processes : tx'[q] = IF q = p THEN Over
                                       ELSE OutdateReaders(tx)[q]
    BY <1>2, <1>6 DEF OutdateReaders
<1>8. QED  BY <1>2, <1>4, <1>5, <1>7, OneCommits

LEMMA AutocommitInv ==
    ASSUME TxInv, NEW w, Sound(w), Autocommit(w)
    PROVE  TxInv'
<1>1. Nobody \notin Processes
    BY TxConstants DEF Processes
<1>2. DOMAIN tx = Processes
    BY DEF TxInv
<1>3. /\ tx' = [q \in Processes |-> tx'[q]]
      /\ \A q \in Processes : tx'[q] = IF q = Nobody THEN Over
                                       ELSE OutdateReaders(tx)[q]
    BY <1>1, <1>2 DEF Autocommit, OutdateReaders
<1>4. QED  BY <1>3, OneCommits DEF Autocommit

LEMMA AddAlertInv ==
    ASSUME TxInv, NEW project, NEW kind, NEW threshold, NEW window,
           NEW cooldown, AddAlert(project, kind, threshold, window, cooldown)
    PROVE  TxInv'
<1>1. PICK ws, cs, a :
        /\ ws = View(db)!Seconds(window)
        /\ cs = IF cooldown = NotGiven
                THEN View(db)!DefaultCooldownSeconds(kind, ws)
                ELSE View(db)!Seconds(cooldown)
        /\ a = View(db)!NewAlert(project, kind, threshold, ws, cs)
    OBVIOUS
<1>2. PICK alerts, w :
        /\ alerts = db.alerts \cup {a}
        /\ w = [db EXCEPT !.alerts = alerts, !.nextAlert = db.nextAlert + 1]
    OBVIOUS
<1>3. Autocommit(w)
    BY <1>1, <1>2 DEF AddAlert
<1>4. a.id = db.nextAlert
    BY <1>1 DEF View!NewAlert
<1>5. Sound(db)
    BY DEF TxInv
<1>6. w = Tables(alerts, db.nextAlert + 1, db.deliveries, db.nextDelivery,
                 db.issues, db.nextIssue, db.events)
    BY <1>2, <1>5 DEF Sound, IsTables, Tables
<1>7. /\ IsTables(w) /\ w.alerts = db.alerts \cup {a}
      /\ w.nextAlert = db.nextAlert + 1 /\ w.issues = db.issues
      /\ w.deliveries = db.deliveries /\ w.nextDelivery = db.nextDelivery
    BY <1>2, <1>6, TablesFields
<1>8. Sound(w)
    BY <1>4, <1>5, <1>7 DEF Sound
<1>9. QED  BY <1>3, <1>8, AutocommitInv

LEMMA RemoveAlertInv ==
    ASSUME TxInv, NEW id, RemoveAlert(id)
    PROVE  TxInv'
<1>1. PICK alerts, deliveries, w :
        /\ alerts = {a \in db.alerts : a.id # id}
        /\ deliveries = {d \in db.deliveries : d.alert # id}
        /\ w = [db EXCEPT !.alerts = alerts, !.deliveries = deliveries]
    OBVIOUS
<1>2. Autocommit(w)
    BY <1>1 DEF RemoveAlert
<1>3. Sound(db)
    BY DEF TxInv
<1>4. w = Tables(alerts, db.nextAlert, deliveries, db.nextDelivery,
                 db.issues, db.nextIssue, db.events)
    BY <1>1, <1>3 DEF Sound, IsTables, Tables
<1>5. /\ IsTables(w) /\ w.alerts = alerts /\ w.nextAlert = db.nextAlert
      /\ w.issues = db.issues /\ w.deliveries = deliveries
      /\ w.nextDelivery = db.nextDelivery
    BY <1>4, TablesFields
<1>6. Sound(w)
    BY <1>1, <1>3, <1>5 DEF Sound
<1>7. QED  BY <1>2, <1>6, AutocommitInv

LEMMA TickInv ==
    ASSUME TxInv, Tick
    PROVE  TxInv'
<1>1. clock \in Nat /\ clock' = clock + 1 /\ clock' <= MaxTime
    BY TxConstants DEF Tick, TxInv
<1>2. \A p \in Processes : Doing(tx[p], db, clock + 1)
    BY <1>1, DoingLater DEF TxInv
<1>3. QED  BY <1>1, <1>2 DEF TxInv, Tick

LEMMA StutterInv ==
    ASSUME TxInv, UNCHANGED vars
    PROVE  TxInv'
BY DEF TxInv, vars

-------------------------------------------------------------------------------
(***************************************************************************)
(* The steps of the store.                                                 *)
(***************************************************************************)

\* Whatever an operation reads of the clock is recent enough for the store.
LEMMA ReadingsCover ==
    ASSUME TxInv, NEW now \in 0..clock
    PROVE  now \in Store!Readings
BY TxConstants DEF TxInv, Store!Readings

\* The commit of a handler is the atomic StoreEvent.
LEMMA CommitStores ==
    ASSUME TxInv, NEW r \in Request, NEW now \in 0..clock,
           StoresInto(db, r, now, db'), UNCHANGED clock
    PROVE  Store!StoreSomeEvent
<1>1. PICK S, next :
        /\ S = Speaking(db, r, now)
        /\ next = IF S = {} THEN db.nextDelivery ELSE db.nextDelivery + 1
    OBVIOUS
<1>2. db' = Filed(db, r, now, S, next)
    BY <1>1 DEF StoresInto, Stored
<1>3. /\ db'.alerts = db.alerts /\ db'.nextAlert = db.nextAlert
      /\ db'.deliveries = db.deliveries \cup Said(db, r, now, S)
      /\ db'.nextDelivery = next /\ db'.issues = Issues(db, r)
      /\ db'.nextIssue = NextIssue(db, r) /\ db'.events = Events(db, r)
    BY <1>2, TablesFields DEF Filed
<1>4. Known(db, r) = Store!IssueOf(r.project, r.fingerprint)
    BY DEF Known, View!IssueOf, Store!IssueOf
<1>5. PICK isNew : isNew = Store!IssueIsNew(r.project, r.fingerprint)
    OBVIOUS
<1>6. isNew <=> Known(db, r) = {}
    BY <1>4, <1>5 DEF Store!IssueIsNew
<1>7. Store!Deliver(Store!FiredBy(r.project, isNew, db'.events, now),
                    r.fingerprint, now)
    <2>1. ASSUME NEW a \in db.alerts
          PROVE  Store!AlertIsSilenced(a, now) <=> View(db)!AlertIsSilenced(a, now)
        BY DEF Store!AlertIsSilenced, Store!LastOfRule, Store!OfRule,
               View!AlertIsSilenced, View!LastOfRule, View!OfRule
    <2>2. ASSUME NEW a \in db.alerts
          PROVE  a \in Store!FiredBy(r.project, isNew, db'.events, now) <=>
                 a \in View(db)!FiredBy(r.project, Known(db, r) = {},
                                        Events(db, r), now)
        <3>1. PICK counted :
                counted = Store!InWindow(db'.events, r.project, now - a.window)
            OBVIOUS
        <3>2. counted = View(db)!InWindow(Events(db, r), r.project,
                                          now - a.window)
            BY <1>3, <3>1 DEF Store!InWindow, View!InWindow
        <3>3. Store!Cardinality(counted) = View(db)!Cardinality(counted)
            BY DEF Store!Cardinality, View!Cardinality
        <3>4. QED  BY <1>6, <3>1, <3>2, <3>3
                      DEF Store!FiredBy, Store!MatchingAlerts,
                          View!FiredBy, View!MatchingAlerts
    <2>3. Store!FiredBy(r.project, isNew, db'.events, now) \subseteq db.alerts
        BY DEF Store!FiredBy, Store!MatchingAlerts
    <2>4. S = {a \in Store!FiredBy(r.project, isNew, db'.events, now) :
                ~Store!AlertIsSilenced(a, now)}
        BY <1>1, <2>1, <2>2, <2>3, SpeakingMatch DEF Speaking
    <2>5. QED  BY <1>1, <1>3, <2>4 DEF Store!Deliver, Said
<1>8. \/ /\ isNew
         /\ db.nextIssue <= MaxIssues
         /\ db'.issues = db.issues \cup
              {Store!OpenIssue(r.project, r.fingerprint, r.level, r.timestamp)}
         /\ db'.nextIssue = db.nextIssue + 1
         /\ db'.events = db.events \cup {Row(r, db.nextIssue)}
      \/ \E i \in Store!IssueOf(r.project, r.fingerprint) :
           /\ i.eventCount < MaxCount
           /\ db'.issues = (db.issues \ {i}) \cup
                {Store!TouchIssue(i, r.level, r.timestamp)}
           /\ db'.nextIssue = db.nextIssue
           /\ db'.events = db.events \cup {Row(r, i.id)}
    <2>1. CASE Known(db, r) = {}
        BY <1>3, <1>6, <2>1 DEF StoresInto, Room, Issues, NextIssue, Events, New,
                                View!OpenIssue, Store!OpenIssue
    <2>2. CASE Known(db, r) # {}
        <3>1. PICK i \in Known(db, r) : Known(db, r) = {i}
            BY <2>2 DEF TxInv, Sound, Known, View!IssueOf
        <3>2. i \in db.issues
            BY <3>1 DEF Known, View!IssueOf
        <3>3. Touched(db, r, i) = Store!TouchIssue(i, r.level, r.timestamp)
            BY DEF Touched, View!TouchIssue, Store!TouchIssue
        <3>4. QED  BY <1>3, <1>4, <2>2, <3>1, <3>2, <3>3
                      DEF StoresInto, Room, Issues, NextIssue, Events
    <2>3. QED  BY <2>1, <2>2
<1>9. Store!StoreEvent(r.eventId, r.project, r.fingerprint, r.level,
                       r.timestamp, r.zone, now)
    BY <1>3, <1>5, <1>7, <1>8
       DEF Store!StoreEvent, Store!ruleVars, Row, StoresInto
<1>10. now \in Store!Readings
    BY ReadingsCover
<1>11. QED  BY <1>9, <1>10 DEF Store!StoreSomeEvent, Request

\* That of a cleanup is the atomic Cleanup.
LEMMA CommitCleans ==
    ASSUME TxInv, NEW days \in Retentions, NEW now \in 0..clock,
           db' = Cleaned(db, now - days), UNCHANGED clock
    PROVE  Store!CleanupSome
<1>1. PICK cutoff : cutoff = now - days
    OBVIOUS
<1>2. /\ db'.alerts = db.alerts /\ db'.nextAlert = db.nextAlert
      /\ db'.deliveries = {v \in db.deliveries : v.at >= cutoff}
      /\ db'.nextDelivery = db.nextDelivery
      /\ db'.issues = db.issues \ Stale(db, cutoff)
      /\ db'.nextIssue = db.nextIssue
      /\ db'.events = {e \in db.events :
                         /\ e.timestamp >= cutoff
                         /\ \A i \in Stale(db, cutoff) : e.issue # i.id}
    BY <1>1, TablesFields DEF Cleaned
<1>3. Store!Cleanup(cutoff)
    BY <1>2 DEF Store!Cleanup, Store!ForgetDeliveries, Store!ruleVars, Stale
<1>4. QED  BY <1>1, <1>3, ReadingsCover DEF Store!CleanupSome

LEMMA CommitRefines ==
    ASSUME TxInv, NEW p \in Processes, Commit(p)
    PROVE  Store!Next
<1>1. Committing(tx[p], db, clock)
    BY ByStep DEF Commit, TxInv
<1>2. db' = tx[p].work /\ UNCHANGED clock
    BY DEF Commit
<1>3. QED  BY <1>1, <1>2, CommitStores, CommitCleans DEF Committing, Store!Next

LEMMA AddAlertRefines ==
    ASSUME TxInv, NEW project \in Projects \cup {AnyProject},
           NEW kind \in KindArgs, NEW threshold \in ThresholdArgs,
           NEW window \in WindowArgs, NEW cooldown \in CooldownArgs \cup {NotGiven},
           AddAlert(project, kind, threshold, window, cooldown)
    PROVE  Store!Next
<1>1. PICK ws, cs, alerts :
        /\ ws = Store!Seconds(window)
        /\ cs = IF cooldown = NotGiven
                THEN Store!DefaultCooldownSeconds(kind, ws)
                ELSE Store!Seconds(cooldown)
        /\ alerts = db.alerts \cup
             {Store!NewAlert(project, kind, threshold, ws, cs)}
    OBVIOUS
<1>2. db' = [db EXCEPT !.alerts = alerts, !.nextAlert = db.nextAlert + 1]
    BY <1>1 DEF AddAlert, Autocommit, View!Seconds, Store!Seconds,
                View!DefaultCooldownSeconds, Store!DefaultCooldownSeconds,
                View!NewAlert, Store!NewAlert
<1>3. db' = Tables(alerts, db.nextAlert + 1, db.deliveries, db.nextDelivery,
                   db.issues, db.nextIssue, db.events)
    BY <1>2 DEF TxInv, Sound, IsTables, Tables
<1>4. /\ db'.alerts = alerts /\ db'.nextAlert = db.nextAlert + 1
      /\ db'.deliveries = db.deliveries
      /\ db'.nextDelivery = db.nextDelivery /\ db'.issues = db.issues
      /\ db'.nextIssue = db.nextIssue /\ db'.events = db.events
    BY <1>3, TablesFields
<1>5. /\ window > 0 /\ cooldown \in {NotGiven} \cup Nat
      /\ db.nextAlert <= MaxAlerts /\ UNCHANGED clock
    BY DEF AddAlert, Autocommit
<1>6. Store!AddAlert(project, kind, threshold, window, cooldown)
    BY <1>1, <1>4, <1>5 DEF Store!AddAlert, Store!deliveryVars
<1>7. QED  BY <1>4, <1>6 DEF Store!Next, Store!AddSomeAlert, Store!issueVars

LEMMA RemoveAlertRefines ==
    ASSUME TxInv, NEW a \in db.alerts, RemoveAlert(a.id)
    PROVE  Store!Next
<1>1. PICK alerts, deliveries :
        /\ alerts = {b \in db.alerts : b.id # a.id}
        /\ deliveries = {d \in db.deliveries : d.alert # a.id}
    OBVIOUS
<1>2. /\ db' = [db EXCEPT !.alerts = alerts, !.deliveries = deliveries]
      /\ UNCHANGED clock
    BY <1>1 DEF RemoveAlert, Autocommit
<1>3. db' = Tables(alerts, db.nextAlert, deliveries, db.nextDelivery,
                   db.issues, db.nextIssue, db.events)
    BY <1>2 DEF TxInv, Sound, IsTables, Tables
<1>4. /\ db'.alerts = alerts /\ db'.nextAlert = db.nextAlert
      /\ db'.deliveries = deliveries
      /\ db'.nextDelivery = db.nextDelivery /\ db'.issues = db.issues
      /\ db'.nextIssue = db.nextIssue /\ db'.events = db.events
    BY <1>3, TablesFields
<1>5. Store!RemoveAlert(a.id)
    BY <1>1, <1>2, <1>4 DEF Store!RemoveAlert
<1>6. QED  BY <1>4, <1>5 DEF Store!Next, Store!RemoveSomeAlert, Store!issueVars

-------------------------------------------------------------------------------

LEMMA InitTx == Init => TxInv /\ Store!Init
<1> SUFFICES ASSUME Init PROVE TxInv /\ Store!Init
  OBVIOUS
<1>1. Store!Init
  BY DEF Init, Store!Init, Store!AlertsInit, Empty
<1>2. Sound(db)
  BY DEF Init, Empty, Sound, IsTables, Tables
<1>3. /\ tx = [p \in Processes |-> NotStarted] /\ Nobody \notin Processes
      /\ clock = 0 /\ writer = Nobody
  BY TxConstants DEF Init, Processes
<1>4. \A p \in Processes : tx[p].step = "idle"
  BY <1>3 DEF NotStarted
<1>5. \A p \in Processes : /\ tx[p].step \notin Writing
                           /\ Doing(tx[p], db, clock)
  BY <1>4 DEF Writing, Doing
<1> QED
  BY <1>1, <1>2, <1>3, <1>5, TxConstants DEF TxInv

\* Every step keeps the invariant and is a step of the store or none.
LEMMA StepTx == TxInv /\ [Next]_vars => TxInv' /\ [Store!Next]_(Store!vars)
<1> SUFFICES ASSUME TxInv, [Next]_vars
             PROVE  TxInv' /\ [Store!Next]_(Store!vars)
  OBVIOUS
<1>1. ASSUME UNCHANGED <<clock, db>>
      PROVE  UNCHANGED Store!vars
  BY <1>1 DEF Store!vars, Store!alertVars, Store!issueVars
<1>2. CASE Tick
  <2>1. TxInv'
    BY <1>2, TickInv
  <2>2. Store!Next
    BY <1>2 DEF Tick, Store!Tick, Store!Next, Store!ruleVars, Store!deliveryVars,
                Store!issueVars
  <2>3. QED  BY <2>1, <2>2
<1>3. ASSUME NEW h \in Handlers, Handle(h)
      PROVE  TxInv' /\ UNCHANGED <<clock, db>>
  <2>1. h \in Processes
    BY DEF Processes
  <2>2. TxInv'
    BY <1>3, <2>1, ReceiveInv, LookUpInv, UpsertInv, InsertInv, DeliverInv,
       DeliveredInv DEF Handle
  <2>3. UNCHANGED <<clock, db>>
    BY <1>3 DEF Handle, Receive, LookUpIssue, UpsertIssue, InsertEvent,
                DeliverNext, Delivered, Rollback
  <2>4. QED  BY <2>2, <2>3
<1>4. ASSUME NEW c \in Cleaners, Clean(c)
      PROVE  TxInv' /\ UNCHANGED <<clock, db>>
  <2>1. c \in Processes
    BY DEF Processes
  <2>2. TxInv'
    BY <1>4, <2>1, CleanupBeginInv, CleanupIssuesInv DEF Clean
  <2>3. UNCHANGED <<clock, db>>
    BY <1>4 DEF Clean, CleanupBegin, CleanupIssues
  <2>4. QED  BY <2>2, <2>3
<1>5. ASSUME NEW p \in Processes, Commit(p)
      PROVE  TxInv' /\ Store!Next
  BY <1>5, CommitInv, CommitRefines
<1>6. ASSUME NEW p \in Processes, Dies(p)
      PROVE  TxInv' /\ UNCHANGED <<clock, db>>
  BY <1>6, RollbackInv DEF Dies, Rollback
<1>7. ASSUME NEW project \in Projects \cup {AnyProject}, NEW kind \in KindArgs,
             NEW threshold \in ThresholdArgs, NEW window \in WindowArgs,
             NEW cooldown \in CooldownArgs \cup {NotGiven},
             AddAlert(project, kind, threshold, window, cooldown)
      PROVE  TxInv' /\ Store!Next
  BY <1>7, AddAlertInv, AddAlertRefines
<1>8. ASSUME NEW a \in db.alerts, RemoveAlert(a.id)
      PROVE  TxInv' /\ Store!Next
  BY <1>8, RemoveAlertInv, RemoveAlertRefines
<1>9. CASE UNCHANGED vars
  BY <1>1, <1>9, StutterInv DEF vars
<1> QED
  BY <1>1, <1>2, <1>3, <1>4, <1>5, <1>6, <1>7, <1>8, <1>9 DEF Next, Processes

\* The statement-level system implements the store: RefinesStore.
THEOREM TransactionsAreAtomic == Spec => RefinesStore
<1>1. TxInv /\ [][Next]_vars => [][Store!Next]_(Store!vars)
  BY StepTx, PTL
<1>2. QED
  BY <1>1, InitTx, PTL DEF Spec, RefinesStore, Store!Spec
===============================================================================
