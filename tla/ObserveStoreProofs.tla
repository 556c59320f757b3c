-------------------------- MODULE ObserveStoreProofs --------------------------
(***************************************************************************)
(* The safety of the two stores that call the alert engine, for every set  *)
(* of projects, fingerprints, clients, containers, rules and retentions.   *)
(* The alert part of both invariants is the one of AlertRulesProofs; the   *)
(* parts proved here tie the tables `issues` and `events` together, and    *)
(* then `containers` and `container_events`.                               *)
(***************************************************************************)
EXTENDS ObserveStore, ContainerWatch, AlertRulesProofs, FiniteSetTheorems

StoreInv ==
    /\ issues \subseteq Issue
    /\ nextIssue \in Nat
    /\ events \subseteq Event
    /\ IsFiniteSet(events)
    /\ StoreIntegrity
    /\ LastSeenIsStored
    /\ CountCoversEvents

IInv == EngineInv /\ StoreInv

-------------------------------------------------------------------------------

\* The store starts empty.
LEMMA InitIInv == Init => IInv
<1> SUFFICES ASSUME Init PROVE IInv
  OBVIOUS
<1>1. EngineInv
  BY AlertsInitEngine DEF Init
<1>2. IsFiniteSet(events)
  BY FS_EmptySet DEF Init
<1> QED
  BY <1>1, <1>2 DEF Init, IInv, StoreInv, StoreIntegrity, LastSeenIsStored,
                    CountCoversEvents

\* A step that leaves issues and events alone keeps their part.
LEMMA UnchangedStore == StoreInv /\ UNCHANGED issueVars => StoreInv'
BY DEF StoreInv, issueVars, StoreIntegrity, LastSeenIsStored,
       CountCoversEvents, EventsOf

\* The only rules an event can fire are stored rules.
LEMMA FiredAreRules ==
    ASSUME NEW project, NEW wasNew, NEW table, NEW now
    PROVE  FiredBy(project, wasNew, table, now) \subseteq alerts
BY DEF FiredBy, MatchingAlerts

\* Whatever event is stored, the alert tables change by one Deliver.
LEMMA StoreEventEngine == EngineInv /\ StoreSomeEvent => EngineInv'
<1> SUFFICES ASSUME EngineInv,
                    NEW eventId \in EventIds, NEW project \in Projects,
                    NEW fingerprint \in Fingerprints, NEW level \in Levels,
                    NEW timestamp \in Timestamps, NEW zone \in Zones,
                    NEW now \in Readings,
                    StoreEvent(eventId, project, fingerprint, level,
                               timestamp, zone, now)
             PROVE  EngineInv'
  BY DEF StoreSomeEvent
<1> DEFINE fired == FiredBy(project, IssueIsNew(project, fingerprint),
                            events', now)
<1>1. Deliver(fired, fingerprint, now) /\ UNCHANGED <<clock, ruleVars>>
  BY DEF StoreEvent
<1>2. fired \in SUBSET alerts
  BY FiredAreRules
<1>3. now \in Nat /\ fingerprint \in Subject
  BY StoreConstants DEF Readings
<1> HIDE DEF fired
<1> QED
  BY <1>1, <1>2, <1>3, DeliverEngine

\* Storing an event that opens an issue.
LEMMA OpenIssueStore ==
    ASSUME StoreInv,
           NEW eventId \in EventIds, NEW project \in Projects,
           NEW fingerprint \in Fingerprints, NEW level \in Levels,
           NEW timestamp \in Int, NEW zone \in Zones,
           \A e \in events : e.eventId # eventId,
           IssueIsNew(project, fingerprint),
           issues' = issues \cup
                {OpenIssue(project, fingerprint, level, timestamp)},
           nextIssue' = nextIssue + 1,
           NEW row, row = [eventId |-> eventId, project |-> project,
                           issue |-> nextIssue, timestamp |-> timestamp,
                           zone |-> zone],
           events' = events \cup {row}
    PROVE  StoreInv'
<1> PICK new : new = OpenIssue(project, fingerprint, level, timestamp)
  OBVIOUS
<1>1. /\ new \in Issue
      /\ new.id = nextIssue /\ new.project = project
      /\ new.fingerprint = fingerprint
      /\ new.lastSeen = timestamp /\ new.eventCount = 1
  BY DEF OpenIssue, Issue, StoreInv
<1>2. row \in Event
  BY DEF Event, StoreInv
<1>3. IsFiniteSet(events')
  BY FS_AddElement DEF StoreInv
<1>4. \A i \in issues : i.id < nextIssue
  BY DEF StoreInv, StoreIntegrity
<1>5. \A e \in events : e.issue # nextIssue
  BY <1>4 DEF StoreInv, StoreIntegrity, Issue
<1>6. \A i \in issues : i.project # project \/ i.fingerprint # fingerprint
  BY DEF IssueIsNew, IssueOf
<1>7. StoreIntegrity'
  <2>1. ASSUME NEW i \in issues', NEW j \in issues',
               \/ i.id = j.id
               \/ i.project = j.project /\ i.fingerprint = j.fingerprint
        PROVE  i = j
    BY <1>1, <1>4, <1>6, <2>1 DEF StoreInv, StoreIntegrity, Issue
  <2>2. \A i \in issues' : i.id < nextIssue'
    BY <1>1, <1>4 DEF StoreInv, Issue
  <2>3. \A e, f \in events' : e.eventId = f.eventId => e = f
    BY DEF StoreInv, StoreIntegrity
  <2>4. \A e \in events' :
            \E i \in issues' : i.id = e.issue /\ i.project = e.project
    BY <1>1 DEF StoreInv, StoreIntegrity
  <2> QED
    BY <2>1, <2>2, <2>3, <2>4 DEF StoreIntegrity
<1>8. \A i \in issues : i.id # nextIssue
  BY <1>4 DEF StoreInv, Issue
<1>9. \A i \in issues : EventsOf(i)' = EventsOf(i)
  BY <1>8 DEF EventsOf
<1>10. EventsOf(new)' = {row}
  BY <1>1, <1>5 DEF EventsOf
<1>11. LastSeenIsStored'
  BY <1>1, <1>9, <1>10 DEF StoreInv, LastSeenIsStored
<1>12. CountCoversEvents'
  <2>1. Cardinality({row}) = 1
    BY FS_Singleton
  <2>2. Cardinality(EventsOf(new)') <= new.eventCount
    BY <1>1, <1>10, <2>1
  <2> QED
    BY <1>9, <2>2 DEF StoreInv, CountCoversEvents
<1> QED
  BY <1>1, <1>2, <1>3, <1>7, <1>11, <1>12 DEF StoreInv

\* Storing an event that belongs to an issue already there.
LEMMA TouchIssueStore ==
    ASSUME StoreInv,
           NEW eventId \in EventIds, NEW project \in Projects,
           NEW fingerprint \in Fingerprints, NEW level \in Levels,
           NEW timestamp \in Int, NEW zone \in Zones,
           \A e \in events : e.eventId # eventId,
           NEW i \in IssueOf(project, fingerprint),
           issues' = (issues \ {i}) \cup {TouchIssue(i, level, timestamp)},
           nextIssue' = nextIssue,
           NEW row, row = [eventId |-> eventId, project |-> project,
                           issue |-> i.id, timestamp |-> timestamp,
                           zone |-> zone],
           events' = events \cup {row}
    PROVE  StoreInv'
<1> PICK new : new = TouchIssue(i, level, timestamp)
  OBVIOUS
<1>1. /\ i \in issues /\ i \in Issue
      /\ i.project = project /\ i.fingerprint = fingerprint
  BY DEF IssueOf, StoreInv
<1>2. /\ new \in Issue
      /\ new.id = i.id /\ new.project = project
      /\ new.fingerprint = fingerprint
      /\ new.lastSeen = timestamp /\ new.eventCount = i.eventCount + 1
  <2>1. i.eventCount \in Nat
    BY <1>1 DEF Issue
  <2>2. new = [id |-> i.id, project |-> i.project,
               fingerprint |-> i.fingerprint, level |-> level,
               firstSeen |-> i.firstSeen, lastSeen |-> timestamp,
               eventCount |-> i.eventCount + 1]
    BY <1>1 DEF TouchIssue, Issue
  <2> QED
    BY <1>1, <2>1, <2>2 DEF Issue
<1>3. row \in Event
  BY <1>1 DEF Event, Issue
<1>4. IsFiniteSet(events')
  BY FS_AddElement DEF StoreInv
<1>5. StoreIntegrity'
  <2>1. ASSUME NEW j \in issues', NEW k \in issues',
               \/ j.id = k.id
               \/ j.project = k.project /\ j.fingerprint = k.fingerprint
        PROVE  j = k
    BY <1>1, <1>2, <2>1 DEF StoreInv, StoreIntegrity
  <2>2. \A j \in issues' : j.id < nextIssue'
    BY <1>1, <1>2 DEF StoreInv, StoreIntegrity
  <2>3. \A e, f \in events' : e.eventId = f.eventId => e = f
    BY DEF StoreInv, StoreIntegrity
  <2>4. ASSUME NEW e \in events'
        PROVE  \E j \in issues' : j.id = e.issue /\ j.project = e.project
    <3>1. PICK j \in issues : j.id = e.issue /\ j.project = e.project
      BY <1>1 DEF StoreInv, StoreIntegrity
    <3> QED
      BY <1>1, <1>2, <3>1
  <2> QED
    BY <2>1, <2>2, <2>3, <2>4 DEF StoreIntegrity
<1>6. \A j \in issues \ {i} : EventsOf(j)' = EventsOf(j)
  BY <1>1 DEF EventsOf, StoreInv, StoreIntegrity
<1>7. EventsOf(new)' = EventsOf(i) \cup {row}
  BY <1>2 DEF EventsOf
<1>8. LastSeenIsStored'
  BY <1>2, <1>6, <1>7 DEF StoreInv, LastSeenIsStored
<1>9. Cardinality(EventsOf(new)') <= new.eventCount
  <2>1. IsFiniteSet(EventsOf(i))
    BY FS_Subset DEF StoreInv, EventsOf
  <2>2. /\ Cardinality(EventsOf(i)) \in Nat
        /\ Cardinality(EventsOf(i) \cup {row})
             <= Cardinality(EventsOf(i)) + 1
    <3>1. Cardinality(EventsOf(i)) \in Nat
      BY <2>1, FS_CardinalityType
    <3>2. \/ Cardinality(EventsOf(i) \cup {row}) = Cardinality(EventsOf(i))
          \/ Cardinality(EventsOf(i) \cup {row})
               = Cardinality(EventsOf(i)) + 1
      BY <2>1, FS_AddElement
    <3> QED
      BY <3>1, <3>2
  <2>3. Cardinality(EventsOf(i)) <= i.eventCount /\ i.eventCount \in Nat
    BY <1>1 DEF StoreInv, CountCoversEvents, Issue
  <2>4. Cardinality(EventsOf(i) \cup {row}) \in Nat
    BY <2>1, FS_AddElement, FS_CardinalityType
  <2> QED
    BY <1>2, <1>7, <2>2, <2>3, <2>4
<1>10. CountCoversEvents'
  BY <1>6, <1>9 DEF StoreInv, CountCoversEvents
<1> QED
  BY <1>2, <1>3, <1>4, <1>5, <1>8, <1>10 DEF StoreInv

\* Storing an event, either way.
LEMMA StoreEventStore == StoreInv /\ StoreSomeEvent => StoreInv'
<1> SUFFICES ASSUME StoreInv,
                    NEW eventId \in EventIds, NEW project \in Projects,
                    NEW fingerprint \in Fingerprints, NEW level \in Levels,
                    NEW timestamp \in Timestamps, NEW zone \in Zones,
                    NEW now \in Readings,
                    StoreEvent(eventId, project, fingerprint, level,
                               timestamp, zone, now)
             PROVE  StoreInv'
  BY DEF StoreSomeEvent
<1>1. timestamp \in Int /\ \A e \in events : e.eventId # eventId
  BY StoreConstants DEF StoreEvent
<1>2. CASE /\ IssueIsNew(project, fingerprint)
           /\ issues' = issues \cup
                {OpenIssue(project, fingerprint, level, timestamp)}
           /\ nextIssue' = nextIssue + 1
           /\ events' = events \cup
                {[eventId |-> eventId, project |-> project,
                  issue |-> nextIssue, timestamp |-> timestamp,
                  zone |-> zone]}
  BY <1>1, <1>2, OpenIssueStore
<1>3. ASSUME NEW i \in IssueOf(project, fingerprint),
             /\ issues' = (issues \ {i}) \cup
                  {TouchIssue(i, level, timestamp)}
             /\ nextIssue' = nextIssue
             /\ events' = events \cup
                  {[eventId |-> eventId, project |-> project,
                    issue |-> i.id, timestamp |-> timestamp, zone |-> zone]}
      PROVE  StoreInv'
  BY <1>1, <1>3, TouchIssueStore
<1> QED
  BY <1>2, <1>3 DEF StoreEvent

\* Cleanup drops an event by its own timestamp and an issue by its
\* last_seen.  The two agree on the event last_seen came from.
LEMMA CleanupStore ==
    ASSUME StoreInv, NEW cutoff \in Int, Cleanup(cutoff)
    PROVE  StoreInv'
<1> DEFINE stale == {i \in issues : i.lastSeen < cutoff}
<1>1. /\ issues' = issues \ stale
      /\ events' = {e \in events : /\ e.timestamp >= cutoff
                                   /\ \A i \in stale : e.issue # i.id}
      /\ nextIssue' = nextIssue
  BY DEF Cleanup
<1>2. events' \subseteq events /\ IsFiniteSet(events')
  BY <1>1, FS_Subset DEF StoreInv
<1>3. StoreIntegrity'
  BY <1>1 DEF StoreInv, StoreIntegrity
<1>4. ASSUME NEW i \in issues'
      PROVE  /\ \E e \in EventsOf(i)' : e.timestamp = i.lastSeen
             /\ Cardinality(EventsOf(i)') <= i.eventCount
  <2>1. i \in issues /\ i.lastSeen >= cutoff
    BY <1>1 DEF StoreInv, Issue
  <2>2. EventsOf(i)' = {e \in EventsOf(i) : e.timestamp >= cutoff}
    BY <1>1, <2>1 DEF EventsOf, StoreInv, StoreIntegrity
  <2>3. \E e \in EventsOf(i)' : e.timestamp = i.lastSeen
    BY <2>1, <2>2 DEF StoreInv, LastSeenIsStored
  <2>4. IsFiniteSet(EventsOf(i))
    BY FS_Subset DEF StoreInv, EventsOf
  <2>5. /\ Cardinality(EventsOf(i)') \in Nat
        /\ Cardinality(EventsOf(i)) \in Nat
        /\ Cardinality(EventsOf(i)') <= Cardinality(EventsOf(i))
    BY <2>2, <2>4, FS_Subset, FS_CardinalityType
  <2>6. Cardinality(EventsOf(i)) <= i.eventCount /\ i.eventCount \in Nat
    BY <2>1 DEF StoreInv, CountCoversEvents, Issue
  <2> QED
    BY <2>3, <2>5, <2>6
<1> QED
  BY <1>1, <1>2, <1>3, <1>4
     DEF StoreInv, LastSeenIsStored, CountCoversEvents

\* Each action preserves the whole invariant.
LEMMA NextIInv == IInv /\ [Next]_vars => IInv'
<1> SUFFICES ASSUME IInv, [Next]_vars PROVE IInv'
  OBVIOUS
<1> USE DEF IInv
<1>1. CASE Tick /\ UNCHANGED <<ruleVars, deliveryVars, issueVars>>
  <2>1. clock' \in Nat
    BY <1>1 DEF Tick, EngineInv, AlertsTypeOK
  <2> QED
    BY <1>1, <2>1, TickEngine, UnchangedStore
<1>2. CASE AddSomeAlert /\ UNCHANGED issueVars
  BY <1>2, AddAlertEngine, UnchangedStore
<1>3. CASE RemoveSomeAlert /\ UNCHANGED issueVars
  BY <1>3, RemoveAlertEngine, UnchangedStore DEF RemoveSomeAlert
<1>4. CASE StoreSomeEvent
  BY <1>4, StoreEventEngine, StoreEventStore
<1>5. CASE CleanupSome
  <2>1. PICK days \in Retentions, now \in Readings : Cleanup(now - days)
    BY <1>5 DEF CleanupSome
  <2>2. now - days \in Int
    BY AlertConstants DEF Readings
  <2>3. EngineInv'
    BY <2>1, <2>2, ForgetEngine DEF Cleanup
  <2> QED
    BY <2>1, <2>2, <2>3, CleanupStore
<1>6. CASE UNCHANGED vars
  <2>1. clock' \in Nat /\ UNCHANGED <<ruleVars, deliveryVars, issueVars>>
    BY <1>6 DEF vars, alertVars, ruleVars, deliveryVars, EngineInv,
                AlertsTypeOK
  <2> QED
    BY <2>1, TickEngine, UnchangedStore
<1> QED
  BY <1>1, <1>2, <1>3, <1>4, <1>5, <1>6 DEF Next

\* The invariant holds in every reachable state.
THEOREM StoreInvariant == Spec => []IInv
BY InitIInv, NextIInv, PTL DEF Spec

\* Type correctness of all the tables.
THEOREM TypeCorrect == Spec => []TypeOK
<1>1. IInv => TypeOK
  BY DEF IInv, EngineInv, StoreInv, TypeOK
<1> QED
  BY <1>1, StoreInvariant, PTL

\* Two deliveries of a rule are never closer than its cooldown.
THEOREM SpacingHolds == Spec => []CooldownSpacing
<1>1. IInv => CooldownSpacing
  BY EngineSpacing DEF IInv
<1> QED
  BY <1>1, StoreInvariant, PTL

\* The foreign keys and unique constraints hold together.
THEOREM IntegrityHolds == Spec => []StoreIntegrity
<1>1. IInv => StoreIntegrity
  BY DEF IInv, StoreInv
<1> QED
  BY <1>1, StoreInvariant, PTL

\* So do those of the rules and their deliveries, with the cascade of
\* `observe alert remove` and the deletions of cleanup.
THEOREM AlertRowsAgree == Spec => []AlertIntegrity
<1>1. IInv => AlertIntegrity
  BY DEF IInv, EngineInv
<1> QED
  BY <1>1, StoreInvariant, PTL

\* No issue is ever listed without the event it was last seen in.
THEOREM NoHollowIssue == Spec => []LastSeenIsStored
<1>1. IInv => LastSeenIsStored
  BY DEF IInv, StoreInv
<1> QED
  BY <1>1, StoreInvariant, PTL

\* event_count is at least the number of events still stored.
THEOREM CountCovers == Spec => []CountCoversEvents
<1>1. IInv => CountCoversEvents
  BY DEF IInv, StoreInv
<1> QED
  BY <1>1, StoreInvariant, PTL

-------------------------------------------------------------------------------

\* What a step may do to the row of an issue.
Grew(i, j) ==
    /\ i.project = j.project /\ i.fingerprint = j.fingerprint
    /\ i.firstSeen = j.firstSeen
    /\ i.eventCount <= j.eventCount

\* The row of an issue is kept, or counts one event more.
LEMMA StepGrows ==
    ASSUME IInv, [Next]_vars, NEW i \in issues, NEW j \in issues', i.id = j.id
    PROVE  Grew(i, j)
<1>1. /\ i \in Issue /\ i.id < nextIssue /\ i.id \in Nat
      /\ i.eventCount \in Nat
      /\ nextIssue \in Nat
      /\ \A k \in issues : k.id = i.id => k = i
  BY DEF IInv, StoreInv, StoreIntegrity, Issue
<1>2. CASE j \in issues
  BY <1>1, <1>2 DEF Grew
<1>3. CASE j \notin issues
  <2>1. StoreSomeEvent
    BY <1>3 DEF Next, vars, issueVars, CleanupSome, Cleanup
  <2>2. PICK eventId \in EventIds, project \in Projects,
             fingerprint \in Fingerprints, level \in Levels,
             timestamp \in Timestamps, zone \in Zones, now \in Readings :
             StoreEvent(eventId, project, fingerprint, level, timestamp,
                        zone, now)
    BY <2>1 DEF StoreSomeEvent
  <2>3. j.id # nextIssue
    BY <1>1
  <2>4. j # OpenIssue(project, fingerprint, level, timestamp)
    BY <2>3 DEF OpenIssue
  <2>5. PICK k \in issues : j = TouchIssue(k, level, timestamp)
    BY <1>3, <2>2, <2>4 DEF StoreEvent, IssueOf
  <2>6. k \in Issue
    BY DEF IInv, StoreInv
  <2>7. j = [id |-> k.id, project |-> k.project,
             fingerprint |-> k.fingerprint, level |-> level,
             firstSeen |-> k.firstSeen, lastSeen |-> timestamp,
             eventCount |-> k.eventCount + 1]
    BY <2>5, <2>6 DEF TouchIssue, Issue
  <2>8. k = i
    BY <1>1, <2>7
  <2> QED
    BY <1>1, <2>7, <2>8 DEF Grew
<1> QED
  BY <1>2, <1>3

\* An issue keeps its identity and its first_seen and never loses count.
THEOREM HistoryGrows == Spec => IssueHistoryGrows
<1> DEFINE Grows ==
        \A i \in issues, j \in issues' : i.id = j.id =>
            /\ i.project = j.project /\ i.fingerprint = j.fingerprint
            /\ i.firstSeen = j.firstSeen
            /\ i.eventCount <= j.eventCount
<1>1. IInv /\ [Next]_vars => [Grows]_vars
  BY StepGrows DEF Grew
<1> QED
  BY <1>1, StoreInvariant, PTL DEF Spec, IssueHistoryGrows

\* A rule that fired delivers in this step or has delivered less than a
\* cooldown before the reading, which is at most MaxLag old.
LEMMA FiredIsExcused ==
    ASSUME EngineInv, NEW fired \in SUBSET alerts, NEW subject,
           NEW now \in Readings, Deliver(fired, subject, now),
           NEW a \in fired
    PROVE  Excused(a)
<1> DEFINE row(b) == [id |-> nextDelivery, alert |-> b.id,
                      subject |-> subject, at |-> now]
<1>1. CASE AlertIsSilenced(a, now)
  BY <1>1, SilencedSpokeRecently DEF Excused
<1>2. CASE ~AlertIsSilenced(a, now)
  <2>1. row(a) \in deliveries'
    BY <1>2 DEF Deliver
  <2>2. row(a) \notin deliveries
    BY DEF EngineInv, AlertsTypeOK, AlertIntegrity, Delivery
  <2> QED
    BY <2>1, <2>2 DEF Excused
<1> QED
  BY <1>1, <1>2

\* The issue a step opens was not there, so the step stored an event of its
\* project and fingerprint and saw the issue as new.
LEMMA OpeningStep ==
    ASSUME IInv, [Next]_vars, NEW i \in issues', i.id = nextIssue
    PROVE  \E fired \in SUBSET alerts, now \in Readings :
             /\ Deliver(fired, i.fingerprint, now)
             /\ \A a \in MatchingAlerts(i.project) :
                    a.kind = "new-issue" => a \in fired
<1>1. \A j \in issues : j.id # nextIssue
  BY DEF IInv, StoreInv, StoreIntegrity, Issue
<1>2. i \notin issues
  BY <1>1
<1>3. CASE StoreSomeEvent
  <2>1. PICK eventId \in EventIds, project \in Projects,
             fingerprint \in Fingerprints, level \in Levels,
             timestamp \in Timestamps, zone \in Zones, now \in Readings :
             StoreEvent(eventId, project, fingerprint, level, timestamp,
                        zone, now)
    BY <1>3 DEF StoreSomeEvent
  <2> DEFINE isNew == IssueIsNew(project, fingerprint)
             fired == FiredBy(project, isNew, events', now)
  <2>2. Deliver(fired, fingerprint, now)
    BY <2>1 DEF StoreEvent
  <2>3. \A j \in IssueOf(project, fingerprint) :
            TouchIssue(j, level, timestamp).id = j.id
    BY DEF TouchIssue, IssueOf, IInv, StoreInv, Issue
  <2>4. /\ isNew
        /\ i = OpenIssue(project, fingerprint, level, timestamp)
    BY <1>1, <1>2, <2>1, <2>3 DEF StoreEvent, IssueOf
  <2>5. i.project = project /\ i.fingerprint = fingerprint
    BY <2>4 DEF OpenIssue
  <2>6. \A a \in MatchingAlerts(project) :
            a.kind = "new-issue" => a \in fired
    BY <2>4 DEF FiredBy
  <2>7. fired \in SUBSET alerts
    BY FiredAreRules
  <2> HIDE DEF fired, isNew
  <2> QED
    BY <2>2, <2>5, <2>6, <2>7
<1>4. CASE ~StoreSomeEvent
  <2>1. issues' \subseteq issues
    BY <1>4 DEF Next, vars, issueVars, CleanupSome, Cleanup
  <2> QED
    BY <1>2, <2>1
<1> QED
  BY <1>3, <1>4

\* No issue is opened in silence.
THEOREM NewIssueAnnounced == Spec => NewIssueIsAnnounced
<1> DEFINE Announced ==
        \A i \in issues' : i.id = nextIssue =>
            \A a \in MatchingAlerts(i.project) :
                a.kind = "new-issue" => Excused(a)
<1>1. IInv /\ [Next]_vars => [Announced]_vars
  BY OpeningStep, FiredIsExcused DEF IInv
<1> QED
  BY <1>1, StoreInvariant, PTL DEF Spec, NewIssueIsAnnounced

\* With clients in UTC the text comparison of the window is the comparison
\* of instants, and a reading older than the clock only widens the window.
LEMMA WindowCoversRecent ==
    ASSUME Zones = {0}, IInv', NEW project, NEW now \in Readings, IInv,
           NEW window \in Nat
    PROVE  /\ Cardinality({f \in events' : /\ f.project = project
                                           /\ f.timestamp >= clock - window})
                <= Cardinality(InWindow(events', project, now - window))
           /\ Cardinality(InWindow(events', project, now - window)) \in Nat
           /\ Cardinality({f \in events' : /\ f.project = project
                                           /\ f.timestamp >= clock - window})
                \in Nat
<1> DEFINE recent == {f \in events' : /\ f.project = project
                                      /\ f.timestamp >= clock - window}
           seen == InWindow(events', project, now - window)
<1>1. clock \in Nat /\ now \in Nat /\ now <= clock
  BY DEF Readings, IInv, EngineInv, AlertsTypeOK
<1>2. \A f \in events' : f.timestamp \in Int /\ f.zone = 0
  BY DEF IInv, StoreInv, Event
<1>3. recent \subseteq seen
  BY <1>1, <1>2 DEF InWindow
<1>4. IsFiniteSet(events')
  BY DEF IInv, StoreInv
<1>5. IsFiniteSet(seen)
  BY <1>4, FS_Subset DEF InWindow
<1> HIDE DEF recent, seen
<1>6. IsFiniteSet(recent) /\ Cardinality(recent) <= Cardinality(seen)
  BY <1>3, <1>5, FS_Subset
<1> QED
  BY <1>5, <1>6, FS_CardinalityType DEF recent, seen

\* When enough events are in the window, an error-rate rule does not stay
\* quiet.
THEOREM ErrorRateAnnounced ==
    ASSUME Zones = {0}
    PROVE  Spec => ErrorRateIsAnnounced
<1> DEFINE Announced ==
        \A e \in events' \ events : \A a \in MatchingAlerts(e.project) :
            /\ a.kind = "error-rate"
            /\ Cardinality({f \in events' :
                                /\ f.project = e.project
                                /\ f.timestamp >= clock - a.window})
                 >= a.threshold
            => Excused(a)
<1>1. IInv /\ IInv' /\ [Next]_vars => [Announced]_vars
  <2> SUFFICES ASSUME IInv, IInv', [Next]_vars,
                      NEW e \in events' \ events,
                      NEW a \in MatchingAlerts(e.project),
                      a.kind = "error-rate",
                      Cardinality({f \in events' :
                                      /\ f.project = e.project
                                      /\ f.timestamp >= clock - a.window})
                        >= a.threshold
               PROVE  Excused(a)
    OBVIOUS
  <2>1. StoreSomeEvent
    BY DEF Next, vars, issueVars, CleanupSome, Cleanup
  <2>2. PICK eventId \in EventIds, project \in Projects,
             fingerprint \in Fingerprints, level \in Levels,
             timestamp \in Timestamps, zone \in Zones, now \in Readings :
             StoreEvent(eventId, project, fingerprint, level, timestamp,
                        zone, now)
    BY <2>1 DEF StoreSomeEvent
  <2> DEFINE fired == FiredBy(project, IssueIsNew(project, fingerprint),
                              events', now)
  <2>3. Deliver(fired, fingerprint, now)
    BY <2>2 DEF StoreEvent
  <2>4. e.project = project
    BY <2>2 DEF StoreEvent
  <2>5. a \in alerts /\ a.window \in Nat /\ a.threshold \in Nat
    BY DEF MatchingAlerts, IInv, EngineInv, AlertsTypeOK, Alert
  <2>6. Cardinality(InWindow(events', project, now - a.window))
          >= a.threshold
    BY <2>4, <2>5, WindowCoversRecent
  <2>7. a \in fired
    BY <2>4, <2>6 DEF FiredBy
  <2>8. fired \in SUBSET alerts
    BY FiredAreRules
  <2> HIDE DEF fired
  <2> QED
    BY <2>3, <2>7, <2>8, FiredIsExcused DEF IInv
<1> QED
  BY <1>1, StoreInvariant, PTL DEF Spec, ErrorRateIsAnnounced

-------------------------------------------------------------------------------
(***************************************************************************)
(* The inventory of containers.                                            *)
(***************************************************************************)

OneRowEach(rows) == \A r, q \in rows : r.container = q.container => r = q

InventoryInv ==
    /\ docker \subseteq Seen /\ OneRowEach(docker)
    /\ taken = [s \in Snapshotters |-> taken[s]]
    /\ \A s \in Snapshotters : taken[s] \subseteq Seen /\ OneRowEach(taken[s])
    /\ containers \subseteq Seen /\ OneRowEach(containers)
    /\ history \subseteq Entry /\ stores \in Nat
    /\ \A e \in history : e.id < stores /\ e.at <= clock

\* Later entries have later times, so that Cleanup, which goes by the time,
\* deletes none without the ones before it.
HistoryInOrder == \A e, f \in history : e.id <= f.id => e.at <= f.at

WatchInv == EngineInv /\ InventoryInv

\* The step of one snapshot, in the terms of what it adds.
EntriesOfSnapshot(s, now) == UNION {EntriesFor(d, now) : d \in taken[s]}

LEMMA EntryFields ==
    ASSUME NEW d \in Seen, NEW now \in Nat, stores \in Nat,
           NEW e \in EntriesFor(d, now)
    PROVE  /\ e \in Entry /\ e.id = stores /\ e.container = d.container
           /\ e.status = d.status /\ e.restarts = d.restarts /\ e.at = now
<1>1. PICK kind \in {"seen", "status", "restart"} :
        e = [id |-> stores, container |-> d.container, kind |-> kind,
             status |-> d.status, restarts |-> d.restarts, at |-> now]
    BY DEF EntriesFor
<1>2. QED  BY <1>1 DEF Entry, Seen

\* A container whose row is new or changes its status gets an entry.
LEMMA ChangeIsEntered ==
    ASSUME NEW d \in Seen, NEW now \in Nat,
           \A r \in containers : r.container = d.container =>
                r.status # d.status
    PROVE  EntriesFor(d, now) # {}
<1>1. PICK known : known = {r \in containers : r.container = d.container}
    OBVIOUS
<1>2. CASE known = {}
    <2>1. [id |-> stores, container |-> d.container, kind |-> "seen",
           status |-> d.status, restarts |-> d.restarts, at |-> now]
             \in EntriesFor(d, now)
        BY <1>1, <1>2 DEF EntriesFor
    <2>2. QED  BY <2>1
<1>3. CASE known # {}
    <2>1. \E r \in known : r.status # d.status
        BY <1>1, <1>3
    <2>2. [id |-> stores, container |-> d.container, kind |-> "status",
           status |-> d.status, restarts |-> d.restarts, at |-> now]
             \in EntriesFor(d, now)
        BY <1>1, <2>1 DEF EntriesFor
    <2>3. QED  BY <2>2
<1>4. QED  BY <1>2, <1>3

LEMMA SnapshotEntries ==
    ASSUME InventoryInv, NEW s \in Snapshotters, NEW now \in Nat,
           NEW e \in EntriesOfSnapshot(s, now)
    PROVE  /\ e \in Entry /\ e.id = stores /\ e.at = now
           /\ \E d \in taken[s] : e.container = d.container /\ e.status = d.status
<1>1. PICK d \in taken[s] : e \in EntriesFor(d, now)
    BY DEF EntriesOfSnapshot
<1>2. d \in Seen /\ stores \in Nat
    BY DEF InventoryInv
<1>3. QED  BY <1>1, <1>2, EntryFields

\* What the rules say of a snapshot spaces their deliveries like any other.
LEMMA DeliverEntriesEngine ==
    ASSUME EngineInv, NEW entries \in SUBSET Entry, NEW now \in Nat,
           DeliverEntries(entries, now), UNCHANGED <<clock, ruleVars>>
    PROVE  EngineInv'
<1>1. PICK speaking : speaking = {a \in alerts : /\ \E e \in entries : Says(a, e)
                                                 /\ ~AlertIsSilenced(a, now)}
    OBVIOUS
<1>2. PICK first \in [speaking -> entries] :
        /\ \A a \in speaking : Says(a, first[a])
        /\ deliveries' = deliveries \cup
             UNION {IF a.cooldown > 0 THEN {Row(a, first[a], now)}
                    ELSE {Row(a, e, now) : e \in {e \in entries : Says(a, e)}} :
                    a \in speaking}
    BY <1>1 DEF DeliverEntries
<1>3. nextDelivery' = IF speaking = {} THEN nextDelivery ELSE nextDelivery + 1
    BY <1>1 DEF DeliverEntries
<1>4. PICK said :
        said = UNION {IF a.cooldown > 0 THEN {Row(a, first[a], now)}
                      ELSE {Row(a, e, now) : e \in {e \in entries : Says(a, e)}} :
                      a \in speaking}
    OBVIOUS
<1>5. ASSUME NEW a \in alerts, NEW e \in entries
      PROVE  /\ Row(a, e, now) \in Delivery
             /\ Row(a, e, now).id = nextDelivery /\ Row(a, e, now).at = now
             /\ Row(a, e, now).alert = a.id
    BY WatchConstants DEF Row, Delivery, Entry, EngineInv, AlertsTypeOK, Alert
<1>6. ASSUME NEW v \in said
      PROVE  \E a \in speaking, e \in entries :
                /\ v = Row(a, e, now)
                /\ a.cooldown > 0 => e = first[a]
    <2>1. PICK a \in speaking :
            v \in IF a.cooldown > 0 THEN {Row(a, first[a], now)}
                  ELSE {Row(a, e, now) : e \in {e \in entries : Says(a, e)}}
        BY <1>4, <1>6
    <2>2. QED  BY <1>2, <2>1
<1>7. said \in SUBSET Delivery
    BY <1>1, <1>5, <1>6
<1>8. \A v \in said : v.id = nextDelivery /\ v.at = now
    BY <1>1, <1>5, <1>6
<1>9. \A v \in said : \E a \in alerts :
            a.id = v.alert /\ ~AlertIsSilenced(a, now)
    BY <1>1, <1>5, <1>6
<1>10. ASSUME NEW a \in alerts, NEW v \in said, NEW w \in said,
              a.cooldown > 0, v.alert = a.id, w.alert = a.id
       PROVE  v = w
    <2>1. \A b \in speaking : b.id = a.id => b = a
        BY <1>1 DEF EngineInv, AlertIntegrity
    <2>2. v = Row(a, first[a], now) /\ w = Row(a, first[a], now)
        BY <1>1, <1>5, <1>6, <1>10, <2>1
    <2>3. QED  BY <2>2
<1>11. speaking = {} <=> said = {}
    <2>1. ASSUME NEW a \in speaking
          PROVE  said # {}
        <3>1. PICK spoken : spoken =
                IF a.cooldown > 0 THEN {Row(a, first[a], now)}
                ELSE {Row(a, e, now) : e \in {e \in entries : Says(a, e)}}
            OBVIOUS
        <3>2. spoken # {}
            BY <1>2, <3>1
        <3>3. spoken \subseteq said
            BY <1>4, <3>1
        <3>4. QED  BY <3>2, <3>3
    <2>2. QED  BY <1>6, <2>1
<1>12. nextDelivery' = IF said = {} THEN nextDelivery ELSE nextDelivery + 1
    BY <1>3, <1>11
<1>13. deliveries' = deliveries \cup said
    BY <1>2, <1>4
<1>14. \A a \in alerts : \A v, w \in said :
            a.cooldown > 0 /\ v.alert = a.id /\ w.alert = a.id => v = w
    BY <1>10
<1>15. QED
    BY <1>7, <1>8, <1>9, <1>12, <1>13, <1>14, SpeakEngine

\* Every step, with an unbounded delay between a snapshot and its storing.
LEMMA InitWatch == WatchInit => WatchInv /\ TimelineAgrees /\ HistoryInOrder
<1> SUFFICES ASSUME WatchInit
             PROVE  WatchInv /\ TimelineAgrees /\ HistoryInOrder
    OBVIOUS
<1>1. EngineInv
    BY AlertsInitEngine DEF WatchInit
<1>2. docker \subseteq Seen /\ OneRowEach(docker)
    BY DEF WatchInit, Fresh, Seen, Status, OneRowEach
<1>3. InventoryInv
    BY <1>2 DEF WatchInit, InventoryInv, Nothing, OneRowEach
<1>4. QED
    BY <1>1, <1>3 DEF WatchInit, WatchInv, TimelineAgrees, HistoryInOrder

\* The operations on the tables, one by one.
LEMMA DockerKeeps ==
    ASSUME WatchInv, DockerActs
    PROVE  WatchInv'
<1>1. UNCHANGED <<alertVars, taken, watchVars>>
    BY DEF DockerActs
<1>2. EngineInv'
    BY <1>1, TickEngine DEF WatchInv, EngineInv, AlertsTypeOK, alertVars, ruleVars,
                            deliveryVars
<1>3. ASSUME NEW d \in docker, NEW new \in Seen, new.container = d.container,
             docker' = (docker \ {d}) \cup {new}
      PROVE  docker' \subseteq Seen /\ OneRowEach(docker')
    BY <1>3 DEF WatchInv, InventoryInv, OneRowEach
<1>4. docker' \subseteq Seen /\ OneRowEach(docker')
    <2>1. CASE \E c \in Containers, status \in Status :
                 /\ \A d \in docker : d.container # c
                 /\ Change({}, {[Fresh(c) EXCEPT !.status = status]})
        <3>1. PICK c \in Containers, status \in Status :
                /\ \A d \in docker : d.container # c
                /\ docker' = docker \cup {[Fresh(c) EXCEPT !.status = status]}
            BY <2>1 DEF Change
        <3>2. [Fresh(c) EXCEPT !.status = status] =
                [container |-> c, status |-> status, restarts |-> 0]
            BY DEF Fresh
        <3>3. QED
            BY <3>1, <3>2 DEF WatchInv, InventoryInv, OneRowEach, Seen
    <2>2. ASSUME NEW d \in docker,
                 \/ Change({d}, {[d EXCEPT !.status = "exited"]})
                 \/ Change({d}, {[d EXCEPT !.status = "running"]})
                 \/ Change({d}, {[d EXCEPT !.status = "running", !.restarts = @ + 1]})
                 \/ Change({d}, {})
          PROVE  docker' \subseteq Seen /\ OneRowEach(docker')
        <3>1. d \in Seen
            BY DEF WatchInv, InventoryInv
        <3>2. \A status \in Status :
                /\ [d EXCEPT !.status = status] \in Seen
                /\ [d EXCEPT !.status = status].container = d.container
            BY <3>1 DEF Seen
        <3>3. /\ [d EXCEPT !.status = "running", !.restarts = @ + 1] \in Seen
              /\ [d EXCEPT !.status = "running", !.restarts = @ + 1].container
                   = d.container
            <4>1. PICK e : e = [d EXCEPT !.status = "running"]
                OBVIOUS
            <4>2. e \in Seen /\ e.container = d.container /\ e.restarts = d.restarts
                BY <3>1, <4>1 DEF Seen, Status
            <4>3. PICK n \in Nat : n = d.restarts + 1
                BY <3>1 DEF Seen
            <4>4. /\ [e EXCEPT !.restarts = n] \in Seen
                  /\ [e EXCEPT !.restarts = n].container = d.container
                BY <4>2, <4>3 DEF Seen
            <4>5. [d EXCEPT !.status = "running", !.restarts = @ + 1] =
                    [e EXCEPT !.restarts = n]
                BY <4>1, <4>3
            <4>6. QED  BY <4>4, <4>5
        <3>4. {"running", "exited"} \subseteq Status
            BY DEF Status
        <3>5. CASE Change({d}, {})
            BY <3>5 DEF Change, WatchInv, InventoryInv, OneRowEach
        <3>6. CASE Change({d}, {[d EXCEPT !.status = "exited"]})
            BY <1>3, <3>2, <3>4, <3>6 DEF Change
        <3>7. CASE Change({d}, {[d EXCEPT !.status = "running"]})
            BY <1>3, <3>2, <3>4, <3>7 DEF Change
        <3>8. CASE Change({d}, {[d EXCEPT !.status = "running",
                                          !.restarts = @ + 1]})
            BY <1>3, <3>3, <3>8 DEF Change
        <3>9. QED  BY <2>2, <3>5, <3>6, <3>7, <3>8
    <2>3. QED  BY <2>1, <2>2 DEF DockerActs
<1>5. QED
    BY <1>1, <1>2, <1>4 DEF WatchInv, InventoryInv, alertVars, watchVars

\* Storing a snapshot: each container in it gets the row it shows.
LEMMA StoreKeeps ==
    ASSUME WatchInv, NEW s \in Snapshotters, NEW now \in Readings,
           StoreContainers(s, now)
    PROVE  WatchInv'
<1>1. PICK entries : entries = EntriesOfSnapshot(s, now)
    OBVIOUS
<1>2. /\ containers' = taken[s] \cup
             {r \in containers : \A d \in taken[s] : d.container # r.container}
      /\ history' = history \cup entries /\ stores' = stores + 1
      /\ DeliverEntries(entries, now)
      /\ taken' = [taken EXCEPT ![s] = Nothing]
      /\ UNCHANGED <<clock, ruleVars, truth>>
    BY <1>1 DEF StoreContainers, EntriesOfSnapshot
<1>3. /\ now \in Nat /\ now <= clock /\ clock \in Nat
    BY DEF Readings, WatchInv, EngineInv, AlertsTypeOK
<1>4. \A e \in entries : e \in Entry /\ e.id = stores /\ e.at = now
    BY <1>1, <1>3, SnapshotEntries DEF WatchInv
<1>5. EngineInv'
    BY <1>2, <1>3, <1>4, DeliverEntriesEngine DEF WatchInv
<1>6. containers' \subseteq Seen /\ OneRowEach(containers')
    BY <1>2 DEF WatchInv, InventoryInv, OneRowEach
<1>7. /\ taken' = [p \in Snapshotters |-> taken'[p]]
      /\ \A p \in Snapshotters : taken'[p] \subseteq Seen /\ OneRowEach(taken'[p])
    BY <1>2 DEF WatchInv, InventoryInv, OneRowEach, Nothing
<1>8. /\ history' \subseteq Entry /\ stores' \in Nat
      /\ \A e \in history' : e.id < stores' /\ e.at <= clock'
    BY <1>2, <1>3, <1>4 DEF WatchInv, InventoryInv, Entry
<1>9. QED
    BY <1>2, <1>5, <1>6, <1>7, <1>8 DEF WatchInv, InventoryInv, truth

\* The other steps leave the inventory alone.
LEMMA OthersKeep ==
    ASSUME WatchInv, EngineInv', clock' \in Nat, clock <= clock',
           UNCHANGED others
    PROVE  WatchInv'
BY DEF WatchInv, InventoryInv, others, truth, watchVars, EngineInv, AlertsTypeOK,
       Entry

LEMMA NextWatch == WatchInv /\ [WatchNext]_allVars => WatchInv'
<1> SUFFICES ASSUME WatchInv, [WatchNext]_allVars PROVE WatchInv'
    OBVIOUS
<1>1. clock \in Nat /\ EngineInv
    BY DEF WatchInv, EngineInv, AlertsTypeOK
<1>2. CASE Tick /\ UNCHANGED <<ruleVars, deliveryVars, others>>
    <2>1. clock' \in Nat /\ clock <= clock'
        BY <1>1, <1>2 DEF Tick
    <2>2. QED  BY <1>1, <1>2, <2>1, TickEngine, OthersKeep
<1>3. CASE AddSomeAlert /\ UNCHANGED others
    BY <1>1, <1>3, AddAlertEngine, OthersKeep DEF AddSomeAlert, AddAlert
<1>4. CASE RemoveSomeAlert /\ UNCHANGED others
    BY <1>1, <1>4, RemoveAlertEngine, OthersKeep DEF RemoveSomeAlert, RemoveAlert
<1>5. CASE DockerActs
    BY <1>5, DockerKeeps
<1>6. ASSUME NEW s \in Snapshotters, ObservedContainers(s) \/ LoseSnapshot(s)
      PROVE  WatchInv'
    <2>1. UNCHANGED <<alertVars, truth, watchVars>>
        BY <1>6 DEF ObservedContainers, LoseSnapshot
    <2>2. EngineInv'
        BY <1>1, <2>1, TickEngine DEF alertVars, ruleVars, deliveryVars
    <2>3. PICK rows : rows \subseteq docker /\ taken' = [taken EXCEPT ![s] = rows]
        BY <1>6 DEF ObservedContainers, LoseSnapshot, Nothing
    <2>4. QED
        BY <2>1, <2>2, <2>3 DEF WatchInv, InventoryInv, OneRowEach, alertVars,
                                truth, watchVars
<1>7. ASSUME NEW s \in Snapshotters, NEW now \in Readings, StoreContainers(s, now)
      PROVE  WatchInv'
    BY <1>7, StoreKeeps
<1>8. ASSUME NEW days \in Retentions, NEW now \in Readings,
             CleanupContainerEvents(now - days)
      PROVE  WatchInv'
    <2>1. now - days \in Int
        BY AlertConstants DEF Readings
    <2>2. EngineInv'
        BY <1>1, <1>8, <2>1, ForgetEngine DEF CleanupContainerEvents
    <2>3. QED
        BY <1>8, <2>2 DEF CleanupContainerEvents, WatchInv, InventoryInv, truth
<1>9. CASE UNCHANGED allVars
    <2>1. EngineInv'
        BY <1>1, <1>9, TickEngine DEF allVars, alertVars, ruleVars, deliveryVars
    <2>2. QED  BY <1>1, <1>9, <2>1, OthersKeep DEF allVars, alertVars, others
<1>10. QED
    BY <1>2, <1>3, <1>4, <1>5, <1>6, <1>7, <1>8, <1>9 DEF WatchNext

\* Types, one row per container, and entries no newer than the clock, in every
\* reachable state.
THEOREM WatchInvariant == WatchSpec => []WatchInv
BY InitWatch, NextWatch, PTL DEF WatchSpec

\* The timeline explains the inventory, when the delay between reading the
\* time and committing is negligible: Cleanup goes by the times.
TimelineInv == TimelineAgrees /\ HistoryInOrder

LEMMA StoreTimeline ==
    ASSUME MaxLag = 0, WatchInv, TimelineInv, NEW s \in Snapshotters,
           NEW now \in Readings, StoreContainers(s, now)
    PROVE  TimelineInv'
<1>1. PICK entries : entries = EntriesOfSnapshot(s, now)
    OBVIOUS
<1>2. /\ containers' = taken[s] \cup
             {r \in containers : \A d \in taken[s] : d.container # r.container}
      /\ history' = history \cup entries
    BY <1>1 DEF StoreContainers, EntriesOfSnapshot
<1>3. now \in Nat /\ now = clock
    BY DEF Readings, WatchInv, EngineInv, AlertsTypeOK
<1>4. /\ stores \in Nat
      /\ \A e \in history : e.id \in Nat /\ e.id < stores /\ e.at <= clock
    BY DEF WatchInv, InventoryInv, Entry
<1>5. \A e \in entries :
        /\ e.id = stores /\ e.at = now
        /\ \E d \in taken[s] : e.container = d.container /\ e.status = d.status
    BY <1>1, <1>3, SnapshotEntries DEF WatchInv
<1>6. HistoryInOrder'
    BY <1>2, <1>3, <1>4, <1>5 DEF TimelineInv, HistoryInOrder
<1>7. \A r, q \in containers' : r.container = q.container => r = q
    BY <1>2 DEF WatchInv, InventoryInv, OneRowEach
<1>8. ASSUME NEW r \in containers', NEW e \in history',
             e.container = r.container, e.kind # "restart",
             e.status # r.status
      PROVE  \E f \in history' : /\ f.container = r.container
                                 /\ f.id > e.id /\ f.status = r.status
    <2>1. e \in history
        BY <1>2, <1>5, <1>7, <1>8
    <2>2. CASE r \in containers
        <3>1. PICK f \in EntriesOf(r.container) : f.id > e.id /\ f.status = r.status
            BY <1>8, <2>1, <2>2 DEF TimelineInv, TimelineAgrees
        <3>2. QED  BY <1>2, <3>1 DEF EntriesOf
    <2>3. CASE r \notin containers
        <3>1. r \in taken[s] /\ r \in Seen
            BY <1>2, <2>3 DEF WatchInv, InventoryInv
        <3>2. CASE \A q \in containers : q.container = r.container =>
                        q.status # r.status
            <4>1. PICK f \in EntriesFor(r, now) : TRUE
                BY <1>3, <3>1, <3>2, ChangeIsEntered
            <4>2. f \in entries
                BY <1>1, <3>1, <4>1 DEF EntriesOfSnapshot
            <4>3. /\ f.id = stores /\ f.container = r.container
                  /\ f.status = r.status
                BY <1>3, <1>4, <3>1, <4>1, EntryFields
            <4>4. QED  BY <1>2, <1>4, <2>1, <4>2, <4>3
        <3>3. CASE \E q \in containers : /\ q.container = r.container
                                         /\ q.status = r.status
            <4>1. PICK q \in containers : /\ q.container = r.container
                                          /\ q.status = r.status
                BY <3>3
            <4>2. PICK f \in EntriesOf(q.container) : /\ f.id > e.id
                                                      /\ f.status = q.status
                BY <1>8, <2>1, <4>1 DEF TimelineInv, TimelineAgrees
            <4>3. QED  BY <1>2, <4>1, <4>2 DEF EntriesOf
        <3>4. QED  BY <3>2, <3>3
    <2>4. QED  BY <2>2, <2>3
<1>9. TimelineAgrees'
    BY <1>7, <1>8 DEF TimelineAgrees, EntriesOf
<1>10. QED  BY <1>6, <1>9 DEF TimelineInv

LEMMA CleanupTimeline ==
    ASSUME WatchInv, TimelineInv, NEW cutoff \in Int,
           CleanupContainerEvents(cutoff)
    PROVE  TimelineInv'
<1>1. containers' = containers /\ history' = {e \in history : e.at >= cutoff}
    BY DEF CleanupContainerEvents
<1>2. \A e \in history : e.id \in Nat /\ e.at \in Nat
    BY DEF WatchInv, InventoryInv, Entry
<1>3. HistoryInOrder'
    BY <1>1 DEF TimelineInv, HistoryInOrder
<1>4. ASSUME NEW r \in containers, NEW e \in history', NEW f \in history,
             f.id > e.id
      PROVE  f \in history'
    BY <1>1, <1>2, <1>4 DEF TimelineInv, HistoryInOrder
<1>5. TimelineAgrees'
    BY <1>1, <1>4 DEF TimelineInv, TimelineAgrees, EntriesOf
<1>6. QED  BY <1>3, <1>5 DEF TimelineInv

\* Snapshots may be stored in any order and entries trimmed at any time.
THEOREM TimelineHolds ==
    ASSUME MaxLag = 0
    PROVE  WatchSpec => []TimelineAgrees
<1>1. WatchInv /\ TimelineInv /\ [WatchNext]_allVars => TimelineInv'
    <2> SUFFICES ASSUME WatchInv, TimelineInv, [WatchNext]_allVars
                 PROVE  TimelineInv'
        OBVIOUS
    <2>1. ASSUME UNCHANGED <<containers, history>>
          PROVE  TimelineInv'
        BY <2>1 DEF TimelineInv, TimelineAgrees, HistoryInOrder, EntriesOf
    <2>2. ASSUME NEW s \in Snapshotters, NEW now \in Readings,
                 StoreContainers(s, now)
          PROVE  TimelineInv'
        BY <2>2, StoreTimeline
    <2>3. ASSUME NEW days \in Retentions, NEW now \in Readings,
                 CleanupContainerEvents(now - days)
          PROVE  TimelineInv'
        BY <2>3, CleanupTimeline, AlertConstants DEF Readings
    <2>4. QED
        BY <2>1, <2>2, <2>3 DEF WatchNext, allVars, watchVars, others, DockerActs,
           ObservedContainers, LoseSnapshot
<1>2. WatchInv /\ TimelineAgrees /\ HistoryInOrder => TimelineInv
    BY DEF TimelineInv
<1>3. TimelineInv => TimelineAgrees
    BY DEF TimelineInv
<1>4. QED
    BY <1>1, <1>2, <1>3, InitWatch, WatchInvariant, PTL DEF WatchSpec

\* The deliveries about containers keep their distance like those about
\* events, and rules and deliveries stay consistent.
THEOREM WatchSpacing == WatchSpec => []CooldownSpacing
<1>1. WatchInv => CooldownSpacing
    BY EngineSpacing DEF WatchInv
<1>2. QED  BY <1>1, WatchInvariant, PTL

\* A container that is seen to have exited is announced by every rule that
\* asks for it, unless the rule is in its cooldown.
THEOREM ExitAnnounced == WatchSpec => ExitIsAnnounced
<1> DEFINE Announced ==
        \A r \in containers, q \in containers' :
            (r.container = q.container /\ r.status = "running" /\ q.status = "exited") =>
                \A a \in MatchingAlerts(ProjectOf(r.container)) :
                    a.kind = "container-exit" =>
                        \/ \E d \in deliveries' \ deliveries : d.alert = a.id
                        \/ RecentlySpoke(a)
<1>1. WatchInv /\ [WatchNext]_allVars => [Announced]_allVars
    <2> SUFFICES ASSUME WatchInv, [WatchNext]_allVars,
                        NEW r \in containers, NEW q \in containers',
                        r.container = q.container, r.status = "running",
                        q.status = "exited",
                        NEW a \in MatchingAlerts(ProjectOf(r.container)),
                        a.kind = "container-exit"
                 PROVE  \/ \E d \in deliveries' \ deliveries : d.alert = a.id
                        \/ RecentlySpoke(a)
        OBVIOUS
    <2>1. q \notin containers
        BY DEF WatchInv, InventoryInv, OneRowEach
    <2>2. PICK s \in Snapshotters, now \in Readings : StoreContainers(s, now)
        BY <2>1 DEF WatchNext, allVars, watchVars, others, DockerActs,
           ObservedContainers, LoseSnapshot, CleanupContainerEvents
    <2>3. q \in taken[s] /\ q \in Seen
        BY <2>1, <2>2 DEF StoreContainers, WatchInv, InventoryInv
    <2>4. PICK e : e = [id |-> stores, container |-> q.container,
                        kind |-> "status", status |-> q.status,
                        restarts |-> q.restarts, at |-> now]
        OBVIOUS
    <2>5. e \in EntriesFor(q, now)
        BY <2>4 DEF EntriesFor
    <2>6. PICK entries : /\ entries = EntriesOfSnapshot(s, now)
                         /\ DeliverEntries(entries, now)
        BY <2>2 DEF StoreContainers, EntriesOfSnapshot
    <2>7. e \in entries
        BY <2>3, <2>5, <2>6 DEF EntriesOfSnapshot
    <2>8. Says(a, e)
        BY <2>4 DEF Says
    <2>9. a \in alerts
        BY DEF MatchingAlerts
    <2>10. CASE AlertIsSilenced(a, now)
        BY <2>9, <2>10, SilencedSpokeRecently DEF WatchInv
    <2>11. CASE ~AlertIsSilenced(a, now)
        <3>1. PICK spoken \in SUBSET deliveries' :
                /\ spoken # {}
                /\ \A d \in spoken : \E f \in entries : d = Row(a, f, now)
            <4>1. PICK speaking :
                    speaking = {b \in alerts : /\ \E f \in entries : Says(b, f)
                                               /\ ~AlertIsSilenced(b, now)}
                OBVIOUS
            <4>2. a \in speaking
                BY <2>7, <2>8, <2>9, <2>11, <4>1
            <4>3. PICK first \in [speaking -> entries] :
                    deliveries' = deliveries \cup
                      UNION {IF b.cooldown > 0 THEN {Row(b, first[b], now)}
                             ELSE {Row(b, f, now) :
                                     f \in {g \in entries : Says(b, g)}} :
                             b \in speaking}
                BY <2>6, <4>1 DEF DeliverEntries
            <4>4. PICK spoken :
                    spoken = IF a.cooldown > 0 THEN {Row(a, first[a], now)}
                             ELSE {Row(a, f, now) :
                                     f \in {g \in entries : Says(a, g)}}
                OBVIOUS
            <4>5. spoken \subseteq deliveries'
                BY <4>2, <4>3, <4>4
            <4>6. spoken # {}
                BY <2>7, <2>8, <4>4
            <4>7. \A d \in spoken : \E f \in entries : d = Row(a, f, now)
                BY <4>2, <4>4
            <4>8. QED  BY <4>5, <4>6, <4>7
        <3>2. PICK d \in spoken : d.id = nextDelivery /\ d.alert = a.id
            BY <3>1 DEF Row
        <3>3. d \notin deliveries
            BY <3>2 DEF WatchInv, EngineInv, AlertsTypeOK, AlertIntegrity, Delivery
        <3>4. QED  BY <3>1, <3>2, <3>3
    <2>12. QED  BY <2>10, <2>11
<1>2. QED
    BY <1>1, WatchInvariant, PTL DEF WatchSpec, ExitIsAnnounced
===============================================================================
