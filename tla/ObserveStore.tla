----------------------------- MODULE ObserveStore -----------------------------
(***************************************************************************)
(* The issue store of DevHerd Observe: the tables `issues` and `events`,   *)
(* with the alert rules the events fire.  Each operation is one SQLite     *)
(* transaction; the collector's handlers and the CLI commands run them in  *)
(* any order.                                                              *)
(***************************************************************************)
EXTENDS AlertRules

CONSTANTS
    Fingerprints,   \* what groups events into issues
    EventIds,       \* event_id values clients send
    Levels,         \* event levels
    Timestamps,     \* instants clients stamp on events, past or future
    Zones,          \* UTC offsets clients write them with
    MaxIssues,      \* bound: issues ever opened
    MaxCount        \* bound: events ever filed under one issue

ASSUME StoreConstants ==
    /\ Fingerprints \subseteq Subject
    /\ Timestamps \subseteq Int
    /\ Zones \subseteq Int
    /\ MaxIssues \in Nat
    /\ MaxCount \in Nat

VARIABLES
    issues,      \* rows of `issues`
    nextIssue,   \* its AUTOINCREMENT counter
    events       \* rows of `events`

issueVars == <<issues, nextIssue, events>>
vars == <<alertVars, issueVars>>

Issue == [id : Nat, project : Projects, fingerprint : Fingerprints,
          level : Levels, firstSeen : Int, lastSeen : Int, eventCount : Nat]

\* `zone` is the offset the client wrote: the column keeps the client's text.
Event == [eventId : EventIds, project : Projects, issue : Nat,
          timestamp : Int, zone : Zones]

TypeOK ==
    /\ AlertsTypeOK
    /\ issues \subseteq Issue
    /\ nextIssue \in Nat
    /\ events \subseteq Event

Init ==
    /\ AlertsInit
    /\ issues = {}
    /\ nextIssue = 1
    /\ events = {}

-------------------------------------------------------------------------------

IssueOf(project, fingerprint) ==
    {i \in issues : i.project = project /\ i.fingerprint = fingerprint}

EventsOf(i) == {e \in events : e.issue = i.id}

IssueIsNew(project, fingerprint) == IssueOf(project, fingerprint) = {}

\* The upsert: a known issue takes the level and the time of the event that
\* arrived last, which need not be the latest one.
OpenIssue(project, fingerprint, level, timestamp) ==
    [id |-> nextIssue, project |-> project, fingerprint |-> fingerprint,
     level |-> level, firstSeen |-> timestamp, lastSeen |-> timestamp,
     eventCount |-> 1]

\* Mutant: the upsert does not count.
TouchIssueUncounted(i, level, timestamp) ==
    [i EXCEPT !.level = level, !.lastSeen = timestamp]

\* Mutant: the upsert overwrites first_seen.
TouchIssueAnew(i, level, timestamp) ==
    [i EXCEPT !.level = level, !.firstSeen = timestamp, !.lastSeen = timestamp,
              !.eventCount = @ + 1]

TouchIssue(i, level, timestamp) ==
    [i EXCEPT !.level = level, !.lastSeen = timestamp, !.eventCount = @ + 1]

\* `timestamp >= ?` compares text: the client's local time against a UTC
\* bound.
InWindow(table, project, start) ==
    {e \in table : e.project = project /\ e.timestamp + e.zone >= start}

\* Mutant: the threshold is passed, not reached.
FiredAbove(project, wasNew, table, now) ==
    {a \in MatchingAlerts(project) :
        \/ a.kind = "new-issue" /\ wasNew
        \/ /\ a.kind = "error-rate"
           /\ Cardinality(InWindow(table, project, now - a.window)) > a.threshold}

\* Mutant: the threshold holds back rules of every kind.
FiredAtThreshold(project, wasNew, table, now) ==
    {a \in MatchingAlerts(project) :
        /\ a.kind = "error-rate" \/ wasNew
        /\ Cardinality(InWindow(table, project, now - a.window)) >= a.threshold}

FiredBy(project, wasNew, table, now) ==
    {a \in MatchingAlerts(project) :
        \/ a.kind = "new-issue" /\ wasNew
        \/ /\ a.kind = "error-rate"
           /\ Cardinality(InWindow(table, project, now - a.window))
                >= a.threshold}

\* A repeated event_id breaks UNIQUE and rolls everything back.
StoreEvent(eventId, project, fingerprint, level, timestamp, zone, now) ==
    /\ \A e \in events : e.eventId # eventId
    /\ LET isNew == IssueIsNew(project, fingerprint)
           row(id) == [eventId |-> eventId, project |-> project, issue |-> id,
                       timestamp |-> timestamp, zone |-> zone]
       IN /\ \/ /\ isNew
                /\ nextIssue <= MaxIssues
                /\ issues' = issues \cup
                     {OpenIssue(project, fingerprint, level, timestamp)}
                /\ nextIssue' = nextIssue + 1
                /\ events' = events \cup {row(nextIssue)}
             \/ \E i \in IssueOf(project, fingerprint) :
                  /\ i.eventCount < MaxCount
                  /\ issues' = (issues \ {i}) \cup
                       {TouchIssue(i, level, timestamp)}
                  /\ nextIssue' = nextIssue
                  /\ events' = events \cup {row(i.id)}
          /\ Deliver(FiredBy(project, isNew, events', now), fingerprint, now)
    /\ UNCHANGED <<clock, ruleVars>>

StoreSomeEvent ==
    \E eventId \in EventIds, project \in Projects,
       fingerprint \in Fingerprints, level \in Levels,
       timestamp \in Timestamps, zone \in Zones, now \in Readings :
        StoreEvent(eventId, project, fingerprint, level, timestamp, zone, now)

\* Mutant: deleting an issue leaves its events behind.
CleanupNoCascade(cutoff) ==
    /\ ForgetDeliveries(cutoff)
    /\ issues' = {i \in issues : i.lastSeen >= cutoff}
    /\ events' = {e \in events : e.timestamp >= cutoff}
    /\ UNCHANGED <<clock, ruleVars, nextIssue>>

\* Mutant: `<=` for events and `<` for issues.
CleanupUneven(cutoff) ==
    LET stale == {i \in issues : i.lastSeen < cutoff}
    IN /\ ForgetDeliveries(cutoff)
       /\ issues' = issues \ stale
       /\ events' = {e \in events : /\ e.timestamp > cutoff
                                    /\ \A i \in stale : e.issue # i.id}
       /\ UNCHANGED <<clock, ruleVars, nextIssue>>

\* Deleting an issue cascades to its events, whatever their own timestamp.
Cleanup(cutoff) ==
    LET stale == {i \in issues : i.lastSeen < cutoff}
    IN /\ ForgetDeliveries(cutoff)
       /\ issues' = issues \ stale
       /\ events' = {e \in events : /\ e.timestamp >= cutoff
                                    /\ \A i \in stale : e.issue # i.id}
       /\ UNCHANGED <<clock, ruleVars, nextIssue>>

CleanupSome ==
    \E days \in Retentions, now \in Readings : Cleanup(now - days)

Next ==
    \/ Tick /\ UNCHANGED <<ruleVars, deliveryVars, issueVars>>
    \/ AddSomeAlert /\ UNCHANGED issueVars
    \/ RemoveSomeAlert /\ UNCHANGED issueVars
    \/ StoreSomeEvent
    \/ CleanupSome

Spec == Init /\ [][Next]_vars

-------------------------------------------------------------------------------
(***************************************************************************)
(* Safety.                                                                 *)
(***************************************************************************)

\* Rows refer to rows that exist and agree with them: one issue per project
\* and fingerprint, one event per event_id, every event filed under an issue
\* of its own project, after any interleaving of ingestion and cleanup.
StoreIntegrity ==
    /\ \A i, j \in issues :
        i.id = j.id \/ (i.project = j.project /\ i.fingerprint = j.fingerprint)
            => i = j
    /\ \A i \in issues : i.id < nextIssue
    /\ \A e, f \in events : e.eventId = f.eventId => e = f
    /\ \A e \in events :
        \E i \in issues : i.id = e.issue /\ i.project = e.project

\* No hollow issue: the event an issue's last_seen was taken from is still
\* stored, so `observe issues` never lists an issue without evidence.  Two
\* tables that Cleanup trims by different columns have to stay in step.
LastSeenIsStored ==
    \A i \in issues : \E e \in EventsOf(i) : e.timestamp = i.lastSeen

\* event_count never claims fewer events than the issue still holds.
CountCoversEvents ==
    \A i \in issues : Cardinality(EventsOf(i)) <= i.eventCount

(***************************************************************************)
(* Action properties.                                                      *)
(***************************************************************************)

Excused(a) ==
    \/ \E d \in deliveries' \ deliveries : d.alert = a.id
    \/ RecentlySpoke(a)

\* An issue is never opened in silence: each new-issue rule that covers its
\* project delivers in that very transaction or delivered less than a
\* cooldown ago.
NewIssueIsAnnounced ==
    [][\A i \in issues' : i.id = nextIssue =>
        \A a \in MatchingAlerts(i.project) :
            a.kind = "new-issue" => Excused(a)]_vars

\* When an arriving event leaves `threshold` events of the project inside
\* the window, an error-rate rule delivers or is in its cooldown.  With every
\* client in UTC.
ErrorRateIsAnnounced ==
    [][\A e \in events' \ events : \A a \in MatchingAlerts(e.project) :
        /\ a.kind = "error-rate"
        /\ Cardinality({f \in events' : /\ f.project = e.project
                                        /\ f.timestamp >= clock - a.window})
             >= a.threshold
        => Excused(a)]_vars

\* An issue that is reopened after a cleanup is a new row; one that stays
\* keeps its identity, its first_seen and never loses count.
IssueHistoryGrows ==
    [][\A i \in issues, j \in issues' : i.id = j.id =>
        /\ i.project = j.project /\ i.fingerprint = j.fingerprint
        /\ i.firstSeen = j.firstSeen
        /\ i.eventCount <= j.eventCount]_vars
===============================================================================
