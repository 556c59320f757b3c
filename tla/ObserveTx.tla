------------------------------- MODULE ObserveTx -------------------------------
(***************************************************************************)
(* The issue store statement by statement.  Its transactions are deferred  *)
(* and the database is in WAL mode: a transaction reads the snapshot of    *)
(* its first statement, one connection at a time holds the write lock, and *)
(* a transaction that has read before it writes is refused at once         *)
(* (SQLITE_BUSY) if somebody holds the lock or has committed since.        *)
(* ObserveStore takes a transaction as one step; this module shows that it *)
(* may.                                                                    *)
(***************************************************************************)
EXTENDS Integers, FiniteSets

CONSTANTS
    Projects, AnyProject, Subject, NotGiven, KindArgs, ThresholdArgs,
    WindowArgs, CooldownArgs, TicksPerSecond, DefaultWindow,
    DefaultNonRateCooldown, MaxAlerts, MaxTime, MaxLag, Fingerprints,
    EventIds, Levels, Timestamps, Zones, Retentions, MaxIssues, MaxCount,
    Handlers,   \* requests of clients; each stores one event
    Cleaners,   \* runs of `observe cleanup`
    Nobody

ASSUME TxConstants ==
    /\ MaxTime \in Nat /\ MaxLag \in Nat /\ MaxTime <= MaxLag
    /\ Handlers \cap Cleaners = {}
    /\ Nobody \notin Handlers \cup Cleaners

VARIABLES
    clock,    \* wall clock
    db,       \* the committed tables
    writer,   \* the connection that holds the write lock, or Nobody
    tx        \* what each handler and cleaner is doing

vars == <<clock, db, writer, tx>>

\* The operators of the store, over any copy of the tables.
View(d) == INSTANCE ObserveStore WITH
    alerts <- d.alerts, nextAlert <- d.nextAlert,
    deliveries <- d.deliveries, nextDelivery <- d.nextDelivery,
    issues <- d.issues, nextIssue <- d.nextIssue, events <- d.events

\* The refinement mapping: the abstract tables are the committed ones.
Store == INSTANCE ObserveStore WITH
    alerts <- db.alerts, nextAlert <- db.nextAlert,
    deliveries <- db.deliveries, nextDelivery <- db.nextDelivery,
    issues <- db.issues, nextIssue <- db.nextIssue, events <- db.events

Empty == [alerts |-> {}, nextAlert |-> 1, deliveries |-> {}, nextDelivery |-> 1,
          issues |-> {}, nextIssue |-> 1, events |-> {}]

Request == [eventId : EventIds, project : Projects, fingerprint : Fingerprints,
            level : Levels, timestamp : Timestamps, zone : Zones]

Writing == {"insert", "deliver", "clean", "commit"}

\* `fresh`: nobody has committed since the snapshot was taken.
NotStarted == [step |-> "idle"]
Over == [step |-> "over"]

Init ==
    /\ clock = 0
    /\ db = Empty
    /\ writer = Nobody
    /\ tx = [p \in Handlers \cup Cleaners |-> NotStarted]

Tick ==
    /\ clock < MaxTime
    /\ clock' = clock + 1
    /\ UNCHANGED <<db, writer, tx>>

-------------------------------------------------------------------------------
(***************************************************************************)
(* Transactions.                                                           *)
(***************************************************************************)

\* Whoever has read and not yet written holds an old snapshot from now on.
OutdateReaders(table) ==
    [p \in DOMAIN table |->
        IF table[p].step = "upsert" THEN [table[p] EXCEPT !.fresh = FALSE]
        ELSE table[p]]

Commit(p) ==
    /\ tx[p].step = "commit"
    /\ db' = tx[p].work
    /\ writer' = Nobody
    /\ tx' = [OutdateReaders(tx) EXCEPT ![p] = Over]
    /\ UNCHANGED clock

\* What was written is forgotten; the caller answers 500.
Rollback(p) ==
    /\ tx' = [tx EXCEPT ![p] = Over]
    /\ writer' = IF writer = p THEN Nobody ELSE writer
    /\ UNCHANGED <<clock, db>>

\* The request is cancelled, a statement fails, or the process dies.
Dies(p) ==
    /\ tx[p].step \notin {"idle", "over"}
    /\ Rollback(p)

-------------------------------------------------------------------------------
(***************************************************************************)
(* StoreEvent.                                                             *)
(***************************************************************************)

\* The time is read when the call enters.
Receive(h, request) ==
    /\ tx[h].step = "idle"
    /\ tx' = [tx EXCEPT ![h] = [step |-> "begin", request |-> request,
                                now |-> clock]]
    /\ UNCHANGED <<clock, db, writer>>

\* The first statement of the transaction takes the snapshot.
LookUpIssue(h) ==
    /\ tx[h].step = "begin"
    /\ LET r == tx[h].request
       IN tx' = [tx EXCEPT ![h] =
            [step |-> "upsert", request |-> r, now |-> tx[h].now, fresh |-> TRUE,
             isNew |-> View(db)!IssueIsNew(r.project, r.fingerprint)]]
    /\ UNCHANGED <<clock, db, writer>>

\* Mutant: the issue is looked up before the transaction begins.
MayWriteUnlocked(h) == writer = Nobody

MayWrite(h) == writer = Nobody /\ tx[h].fresh

Upserted(d, r) ==
    LET known == View(d)!IssueOf(r.project, r.fingerprint)
    IN IF known = {}
       THEN [d EXCEPT !.issues = @ \cup
                {View(d)!OpenIssue(r.project, r.fingerprint, r.level, r.timestamp)},
                      !.nextIssue = @ + 1]
       ELSE [d EXCEPT !.issues = (@ \ known) \cup
                {View(d)!TouchIssue(i, r.level, r.timestamp) : i \in known}]

UpsertIssue(h) ==
    /\ tx[h].step = "upsert"
    /\ LET r == tx[h].request
       IN IF MayWrite(h)
          THEN /\ db.nextIssue <= MaxIssues
               /\ \A i \in db.issues : i.eventCount < MaxCount
               /\ tx' = [tx EXCEPT ![h] =
                    [step |-> "insert", request |-> r, now |-> tx[h].now,
                     isNew |-> tx[h].isNew, work |-> Upserted(db, r)]]
               /\ writer' = h
               /\ UNCHANGED <<clock, db>>
          ELSE Rollback(h)

\* A repeated event_id breaks UNIQUE.
InsertEvent(h) ==
    /\ tx[h].step = "insert"
    /\ LET r == tx[h].request
           work == tx[h].work
           row(i) == [eventId |-> r.eventId, project |-> r.project,
                      issue |-> i.id, timestamp |-> r.timestamp, zone |-> r.zone]
       IN IF \E e \in work.events : e.eventId = r.eventId
          THEN Rollback(h)
          ELSE /\ tx' = [tx EXCEPT ![h] =
                    [step |-> "deliver", request |-> r, now |-> tx[h].now,
                     isNew |-> tx[h].isNew,
                     todo |-> View(work)!MatchingAlerts(r.project),
                     work |-> [work EXCEPT !.events = @ \cup
                       {row(i) : i \in View(work)!IssueOf(r.project, r.fingerprint)}]]]
               /\ UNCHANGED <<clock, db, writer>>

Fires(h, a) ==
    LET r == tx[h].request
        work == tx[h].work
    IN /\ a \in View(work)!FiredBy(r.project, tx[h].isNew, work.events, tx[h].now)
       /\ ~View(work)!AlertIsSilenced(a, tx[h].now)

\* One rule after another: its last delivery is read, and one is inserted.
DeliverNext(h) ==
    /\ tx[h].step = "deliver"
    /\ \E a \in tx[h].todo :
        LET t == tx[h]
            delivery == [id |-> t.work.nextDelivery, alert |-> a.id,
                         subject |-> t.request.fingerprint, at |-> t.now]
        IN tx' = [tx EXCEPT ![h] =
             [step |-> "deliver", request |-> t.request, now |-> t.now,
              isNew |-> t.isNew, todo |-> t.todo \ {a},
              work |-> IF Fires(h, a)
                       THEN [t.work EXCEPT !.deliveries = @ \cup {delivery}]
                       ELSE t.work]]
    /\ UNCHANGED <<clock, db, writer>>

\* The transaction's deliveries share a number.
Delivered(h) ==
    /\ tx[h].step = "deliver" /\ tx[h].todo = {}
    /\ tx' = [tx EXCEPT ![h] =
         [step |-> "commit",
          work |-> [tx[h].work EXCEPT !.nextDelivery =
                      IF tx[h].work.deliveries = db.deliveries THEN @ ELSE @ + 1]]]
    /\ UNCHANGED <<clock, db, writer>>

-------------------------------------------------------------------------------
(***************************************************************************)
(* Cleanup and the commands on rules.                                      *)
(***************************************************************************)

\* Its first statement writes, so it waits for the lock (busy_timeout), and
\* what it sees cannot be old.
CleanupBegin(c, days) ==
    /\ tx[c].step = "idle"
    /\ writer = Nobody
    /\ writer' = c
    /\ LET cutoff == clock - days
       IN tx' = [tx EXCEPT ![c] =
            [step |-> "clean", cutoff |-> cutoff,
             work |-> [db EXCEPT !.deliveries = {d \in @ : d.at >= cutoff},
                                 !.events = {e \in @ : e.timestamp >= cutoff}]]]
    /\ UNCHANGED <<clock, db>>

CleanupIssues(c) ==
    /\ tx[c].step = "clean"
    /\ LET work == tx[c].work
           stale == {i \in work.issues : i.lastSeen < tx[c].cutoff}
       IN tx' = [tx EXCEPT ![c] =
            [step |-> "commit",
             work |-> [work EXCEPT
               !.issues = @ \ stale,
               !.events = {e \in @ : \A i \in stale : e.issue # i.id}]]]
    /\ UNCHANGED <<clock, db, writer>>

\* A statement on its own is its own transaction.
Autocommit(tables) ==
    /\ writer = Nobody
    /\ db' = tables
    /\ tx' = OutdateReaders(tx)
    /\ UNCHANGED <<clock, writer>>

AddAlert(project, kind, threshold, window, cooldown) ==
    /\ window > 0
    /\ cooldown \in {NotGiven} \cup Nat
    /\ db.nextAlert <= MaxAlerts
    /\ LET ws == View(db)!Seconds(window)
           cs == IF cooldown = NotGiven
                 THEN View(db)!DefaultCooldownSeconds(kind, ws)
                 ELSE View(db)!Seconds(cooldown)
       IN Autocommit([db EXCEPT
            !.alerts = @ \cup
                {View(db)!NewAlert(project, kind, threshold, ws, cs)},
            !.nextAlert = @ + 1])

RemoveAlert(id) ==
    Autocommit([db EXCEPT !.alerts = {a \in @ : a.id # id},
                          !.deliveries = {d \in @ : d.alert # id}])

Handle(h) ==
    \/ \E request \in Request : Receive(h, request)
    \/ LookUpIssue(h) \/ UpsertIssue(h) \/ InsertEvent(h)
    \/ DeliverNext(h) \/ Delivered(h)

Clean(c) ==
    \/ \E days \in Retentions : CleanupBegin(c, days)
    \/ CleanupIssues(c)

Next ==
    \/ Tick
    \/ \E h \in Handlers : Handle(h)
    \/ \E c \in Cleaners : Clean(c)
    \/ \E p \in Handlers \cup Cleaners : Commit(p) \/ Dies(p)
    \/ \E project \in Projects \cup {AnyProject}, kind \in KindArgs,
          threshold \in ThresholdArgs, window \in WindowArgs,
          cooldown \in CooldownArgs \cup {NotGiven} :
        AddAlert(project, kind, threshold, window, cooldown)
    \/ \E a \in db.alerts : RemoveAlert(a.id)

Spec == Init /\ [][Next]_vars

-------------------------------------------------------------------------------

\* Every transaction is one step of the store or none: whatever other
\* commands do between its statements, an event is filed, counted and
\* announced as if it had been alone, or leaves no trace.
RefinesStore == Store!Spec
===============================================================================
