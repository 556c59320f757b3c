----------------------- MODULE CollectorSessionsProofs ------------------------
(***************************************************************************)
(* The record of the collector is true, and no outage is hidden, for any   *)
(* number of collectors that start, stop, crash and lose writes.           *)
(***************************************************************************)
EXTENDS CollectorSessions, WellFoundedInduction, TLAPS

\* The inductive invariant: a session that a live collector is writing has
\* been heard without a break since it started, which is what makes it true
\* to move its last_seen up to the clock.
SessionInv ==
    /\ TypeOK
    /\ SessionsAreTrue
    /\ \A s, t \in sessions : s.id = t.id => s = t
    /\ \A s \in sessions : s.id < nextSession
    /\ \A c \in Collectors : process[c].phase \in {"beating", "closing"} =>
         \A s \in sessions : s.id = process[c].session =>
            \A t \in s.started..(clock - 1) : t \in heard

\* Heartbeat keeps every session but the collector's own, whose last_seen it
\* moves to the clock.
LEMMA HeartbeatKeeps ==
    ASSUME SessionInv, NEW c \in Collectors,
           process[c].phase \in {"beating", "closing"},
           Heartbeat(process[c].session), UNCHANGED <<clock, nextSession, heard>>
    PROVE  /\ sessions' \subseteq {s \in Session : s.started <= s.lastSeen /\ s.lastSeen <= clock}
           /\ SessionsAreTrue'
           /\ \A s, t \in sessions' : s.id = t.id => s = t
           /\ \A s \in sessions' : s.id < nextSession
           /\ \A s \in sessions' : \E r \in sessions : r.id = s.id /\ r.started = s.started
<1> USE DEF SessionInv, TypeOK, Session
<1> DEFINE N(s) == IF s.id = process[c].session THEN [s EXCEPT !.lastSeen = clock] ELSE s
<1>1. sessions' = {N(s) : s \in sessions}
    BY DEF Heartbeat
<1>2. \A s \in sessions : /\ N(s) \in Session
                          /\ N(s).id = s.id
                          /\ N(s).started = s.started
                          /\ N(s).started <= N(s).lastSeen
                          /\ N(s).lastSeen <= clock
    OBVIOUS
<1>3. ASSUME NEW s \in sessions, NEW t \in N(s).started..(N(s).lastSeen - 1)
      PROVE  t \in heard
  <2>1. CASE s.id = process[c].session
    <3>1. t \in s.started..(clock - 1)
        BY <2>1
    <3> QED BY <2>1, <3>1
  <2>2. CASE s.id # process[c].session
    <3>1. t \in s.started..(s.lastSeen - 1)
        BY <2>2
    <3> QED BY <3>1 DEF SessionsAreTrue
  <2> QED BY <2>1, <2>2
<1>4. SessionsAreTrue'
    BY <1>1, <1>3 DEF SessionsAreTrue
<1> HIDE DEF N
<1>5. sessions' \subseteq {s \in Session : s.started <= s.lastSeen /\ s.lastSeen <= clock}
    BY <1>1, <1>2
<1>6. \A s, t \in sessions' : s.id = t.id => s = t
    BY <1>1, <1>2
<1>7. \A s \in sessions' : s.id < nextSession
    BY <1>1, <1>2
<1>8. \A s \in sessions' : \E r \in sessions : r.id = s.id /\ r.started = s.started
    BY <1>1, <1>2
<1> QED BY <1>4, <1>5, <1>6, <1>7, <1>8

\* SessionInv holds in every reachable state.
THEOREM SessionInvariant == Spec => []SessionInv
<1> USE CollectorConstants
<1>1. Init => SessionInv
    BY DEF Init, SessionInv, TypeOK, SessionsAreTrue, Session, Off, Phases
<1>2. SessionInv /\ [Next]_vars => SessionInv'
  <2> SUFFICES ASSUME SessionInv, [Next]_vars
               PROVE  SessionInv'
      OBVIOUS
  <2> USE DEF SessionInv, TypeOK
  <2>1. CASE UNCHANGED vars
      BY <2>1 DEF vars, SessionsAreTrue, Session
  <2>2. CASE Tick
    <3> USE <2>2 DEF Tick
    <3>1. heard \subseteq heard' /\ heard' \subseteq Nat
        OBVIOUS
    <3>2. SessionsAreTrue'
        BY <3>1 DEF SessionsAreTrue
    <3>3. ASSUME NEW c \in Collectors, process'[c].phase \in {"beating", "closing"}
          PROVE  \A s \in sessions' : s.id = process'[c].session =>
                    \A t \in s.started..(clock' - 1) : t \in heard'
      <4>1. /\ process[c].phase = "beating"
            /\ process'[c].session = process[c].session
          BY <3>3
      <4>2. clock \in heard'
          BY <4>1
      <4>3. ASSUME NEW s \in sessions, s.id = process[c].session,
                   NEW t \in s.started..clock
            PROVE  t \in heard'
        <5>1. s.started \in Nat
            BY DEF Session
        <5>2. CASE t = clock
            BY <4>2, <5>2
        <5>3. CASE t # clock
          <6>1. t \in s.started..(clock - 1)
              BY <5>1, <5>3
          <6> QED BY <3>1, <4>1, <4>3, <6>1
        <5> QED BY <5>2, <5>3
      <4> QED BY <4>1, <4>3
    <3>4. process' \in [Collectors -> [phase : Phases, session : Nat, due : BOOLEAN]]
        OBVIOUS
    <3>5. TypeOK'
        BY <3>1, <3>4 DEF Session
    <3> QED BY <3>2, <3>3, <3>5
  <2>3. ASSUME NEW c \in Collectors, Listen(c)
        PROVE  SessionInv'
      BY <2>3 DEF Listen, SessionsAreTrue, Phases
  <2>4. ASSUME NEW c \in Collectors, StartCollectorSession(c)
        PROVE  SessionInv'
    <3> USE <2>4 DEF StartCollectorSession, Session
    <3> DEFINE new == [id |-> nextSession, started |-> clock, lastSeen |-> clock]
    <3>1. sessions' = sessions \cup {new}
        OBVIOUS
    <3>2. TypeOK'
      <4>1. new \in {s \in Session : s.started <= s.lastSeen /\ s.lastSeen <= clock}
          OBVIOUS
      <4>2. process' \in [Collectors -> [phase : Phases, session : Nat, due : BOOLEAN]]
        <5>1. process[c] \in [phase : Phases, session : Nat, due : BOOLEAN]
            OBVIOUS
        <5> DEFINE opened == [process[c] EXCEPT !.phase = "beating", !.session = nextSession]
        <5>2. opened \in [phase : Phases, session : Nat, due : BOOLEAN]
            BY <5>1 DEF Phases
        <5>3. process' = [process EXCEPT ![c] = opened]
            OBVIOUS
        <5> QED BY <5>2, <5>3
      <4> QED BY <3>1, <4>1, <4>2
    <3>3. SessionsAreTrue'
        BY DEF SessionsAreTrue
    <3>4. /\ \A s, t \in sessions' : s.id = t.id => s = t
          /\ \A s \in sessions' : s.id < nextSession'
        OBVIOUS
    <3>5. ASSUME NEW d \in Collectors, process'[d].phase \in {"beating", "closing"},
                 NEW s \in sessions', s.id = process'[d].session,
                 NEW t \in s.started..(clock' - 1)
          PROVE  t \in heard'
      <4>1. s # new
          OBVIOUS
      <4>2. s \in sessions /\ d # c
          BY <4>1, <3>1, <3>5
      <4> QED BY <4>2, <3>5
    <3> QED BY <3>2, <3>3, <3>4, <3>5
  <2>5. ASSUME NEW c \in Collectors, StartFails(c)
        PROVE  SessionInv'
      BY <2>5 DEF StartFails, Fails, SessionsAreTrue, Phases
  <2>6. ASSUME NEW c \in Collectors, Beat(c)
        PROVE  SessionInv'
    <3>1. /\ process' \in [Collectors -> [phase : Phases, session : Nat, due : BOOLEAN]]
          /\ \A d \in Collectors : /\ process'[d].phase = process[d].phase
                                   /\ process'[d].session = process[d].session
        BY <2>6 DEF Beat
    <3>2. CASE Fails /\ UNCHANGED sessions
        BY <2>6, <3>1, <3>2 DEF Beat, Fails, SessionsAreTrue
    <3>3. CASE Heartbeat(process[c].session) /\ UNCHANGED lost
      <4>1. /\ process[c].phase \in {"beating", "closing"}
            /\ UNCHANGED <<clock, nextSession, heard>>
          BY <2>6 DEF Beat
      <4>2. /\ sessions' \subseteq {s \in Session : s.started <= s.lastSeen /\ s.lastSeen <= clock}
            /\ SessionsAreTrue'
            /\ \A s, t \in sessions' : s.id = t.id => s = t
            /\ \A s \in sessions' : s.id < nextSession
            /\ \A s \in sessions' : \E r \in sessions : r.id = s.id /\ r.started = s.started
          BY <3>3, <4>1, HeartbeatKeeps
      <4>3. ASSUME NEW d \in Collectors, process'[d].phase \in {"beating", "closing"},
                   NEW s \in sessions', s.id = process'[d].session
            PROVE  \A t \in s.started..(clock' - 1) : t \in heard'
          BY <3>1, <4>1, <4>2, <4>3
      <4> QED BY <3>1, <3>3, <4>1, <4>2, <4>3
    <3> QED BY <2>6, <3>2, <3>3 DEF Beat
  <2>7. ASSUME NEW c \in Collectors, Stop(c)
        PROVE  SessionInv'
    <3>1. process' \in [Collectors -> [phase : Phases, session : Nat, due : BOOLEAN]]
        BY <2>7 DEF Stop, Phases, Off
    <3>2. \A d \in Collectors : process'[d].phase \in {"beating", "closing"} =>
            /\ process[d].phase \in {"beating", "closing"}
            /\ process'[d].session = process[d].session
        BY <2>7 DEF Stop, Off
    <3> QED BY <2>7, <3>1, <3>2 DEF Stop, SessionsAreTrue
  <2>8. ASSUME NEW c \in Collectors, FinalBeat(c)
        PROVE  SessionInv'
    <3>1. /\ process' \in [Collectors -> [phase : Phases, session : Nat, due : BOOLEAN]]
          /\ \A d \in Collectors : process'[d].phase \in {"beating", "closing"} =>
                /\ process[d].phase \in {"beating", "closing"}
                /\ process'[d].session = process[d].session
        BY <2>8 DEF FinalBeat, Off, Phases
    <3>2. CASE UNCHANGED sessions
        BY <2>8, <3>1, <3>2 DEF FinalBeat, Fails, SessionsAreTrue
    <3>3. CASE Heartbeat(process[c].session) /\ UNCHANGED lost
      <4>1. /\ process[c].phase \in {"beating", "closing"}
            /\ UNCHANGED <<clock, nextSession, heard>>
          BY <2>8 DEF FinalBeat
      <4>2. /\ sessions' \subseteq {s \in Session : s.started <= s.lastSeen /\ s.lastSeen <= clock}
            /\ SessionsAreTrue'
            /\ \A s, t \in sessions' : s.id = t.id => s = t
            /\ \A s \in sessions' : s.id < nextSession
            /\ \A s \in sessions' : \E r \in sessions : r.id = s.id /\ r.started = s.started
          BY <3>3, <4>1, HeartbeatKeeps
      <4>3. ASSUME NEW d \in Collectors, process'[d].phase \in {"beating", "closing"},
                   NEW s \in sessions', s.id = process'[d].session
            PROVE  \A t \in s.started..(clock' - 1) : t \in heard'
          BY <3>1, <4>1, <4>2, <4>3
      <4> QED BY <3>1, <3>3, <4>1, <4>2, <4>3
    <3> QED BY <2>8, <3>2, <3>3 DEF FinalBeat
  <2>9. ASSUME NEW c \in Collectors, Crash(c)
        PROVE  SessionInv'
      BY <2>9 DEF Crash, Off, SessionsAreTrue, Phases
  <2> QED BY <2>1, <2>2, <2>3, <2>4, <2>5, <2>6, <2>7, <2>8, <2>9 DEF Next
<1> QED BY <1>1, <1>2, PTL DEF Spec

-------------------------------------------------------------------------------
(***************************************************************************)
(* Reading the record.                                                     *)
(***************************************************************************)

\* A set of rows fit to be ordered: typed, bounded, with distinct ids.
Rows(T) ==
    /\ T \subseteq sessions
    /\ T # {}

\* A non-empty set of naturals has a least element.
LEMMA LeastExists ==
    ASSUME NEW S \in SUBSET Nat, S # {}
    PROVE  \E m \in S : \A k \in S : m <= k
<1>1. PICK m \in S : \A k \in S : ~(<<k, m>> \in OpToRel(<, Nat))
    BY NatLessThanWellFounded, WFMin
<1>2. \A k \in S : ~(k < m)
    BY <1>1 DEF OpToRel
<1> QED BY <1>2

\* One with a bound has a greatest element: the least distance to the bound.
LEMMA GreatestExists ==
    ASSUME NEW S \in SUBSET Nat, S # {}, NEW b \in Nat, \A k \in S : k <= b
    PROVE  \E m \in S : \A k \in S : k <= m
<1> DEFINE D == {b - k : k \in S}
<1>1. \A k \in S : b - k \in Nat
    OBVIOUS
<1>a. D \in SUBSET Nat /\ D # {}
    BY <1>1
<1>2. PICK d \in D : \A e \in D : d <= e
    BY <1>a, LeastExists
<1>3. PICK m \in S : d = b - m
    OBVIOUS
<1>4. \A k \in S : b - m <= b - k
    BY <1>2, <1>3
<1> QED BY <1>4

\* Some row of a non-empty part of the table comes first.
LEMMA FirstExists ==
    ASSUME SessionInv, NEW T, Rows(T)
    PROVE  First(T) # {}
<1> USE DEF Rows, SessionInv, TypeOK, Session
<1>1. PICK m \in {s.started : s \in T} : \A k \in {s.started : s \in T} : m <= k
  <2>1. {s.started : s \in T} \in SUBSET Nat /\ {s.started : s \in T} # {}
      OBVIOUS
  <2> QED BY <2>1, LeastExists
<1> DEFINE E == {s \in T : s.started = m}
<1>2. PICK i \in {s.id : s \in E} : \A k \in {s.id : s \in E} : i <= k
  <2>1. {s.id : s \in E} \in SUBSET Nat /\ {s.id : s \in E} # {}
      BY <1>1
  <2> QED BY <2>1, LeastExists
<1>3. PICK f \in E : f.id = i
    OBVIOUS
<1>4. ASSUME NEW t \in T \ {f}
      PROVE  Before(f, t)
  <2>1. m <= t.started /\ f.started = m
      BY <1>1
  <2>2. CASE t.started = m
    <3>1. i <= t.id
        BY <1>2, <2>2
    <3>2. t.id # f.id
        OBVIOUS
    <3> QED BY <1>3, <2>1, <2>2, <3>1, <3>2 DEF Before
  <2>3. CASE t.started # m
      BY <2>1, <2>3 DEF Before
  <2> QED BY <2>2, <2>3
<1> QED BY <1>4 DEF First

\* Some row of a non-empty part of the table comes last.
LEMMA LastExists ==
    ASSUME SessionInv, NEW T, Rows(T)
    PROVE  \E l \in T : \A t \in T \ {l} : Before(t, l)
<1> USE DEF Rows, SessionInv, TypeOK, Session
<1>1. PICK m \in {s.started : s \in T} : \A k \in {s.started : s \in T} : k <= m
  <2>1. /\ {s.started : s \in T} \in SUBSET Nat /\ {s.started : s \in T} # {}
        /\ \A k \in {s.started : s \in T} : k <= clock
      OBVIOUS
  <2> QED BY <2>1, GreatestExists
<1> DEFINE E == {s \in T : s.started = m}
<1>2. PICK i \in {s.id : s \in E} : \A k \in {s.id : s \in E} : k <= i
  <2>1. /\ {s.id : s \in E} \in SUBSET Nat /\ {s.id : s \in E} # {}
        /\ \A k \in {s.id : s \in E} : k <= nextSession
      BY <1>1
  <2> QED BY <2>1, GreatestExists
<1>3. PICK l \in E : l.id = i
    OBVIOUS
<1>4. ASSUME NEW t \in T \ {l}
      PROVE  Before(t, l)
  <2>1. t.started <= m /\ l.started = m
      BY <1>1
  <2>2. CASE t.started = m
    <3>1. t.id <= i
        BY <1>2, <2>2
    <3>2. t.id # l.id
        OBVIOUS
    <3> QED BY <1>3, <2>1, <2>2, <3>1, <3>2 DEF Before
  <2>3. CASE t.started # m
      BY <2>1, <2>3 DEF Before
  <2> QED BY <2>2, <2>3
<1> QED BY <1>4

\* An outage that ended is inside a reported gap: either the window begins
\* with it, or the last session before it and the first one after it are
\* next to each other.
LEMMA OutageIsInAGap ==
    ASSUME SessionInv,
           NEW from \in (clock - Window)..clock, NEW to \in (clock - Window)..clock,
           to - from > MinGap, Deaf(from, to),
           NEW after \in sessions, after.started >= to
    PROVE  \E g \in Gaps : g.from <= from /\ to <= g.to
<1> USE CollectorConstants DEF SessionInv, TypeOK, Session
<1> DEFINE since == clock - Window
           T == CollectorSessionsSince(since)
           Late == {s \in T : s.started >= to}
           Early == T \ Late
<1>0. since \in Int /\ from \in Int /\ to \in Int /\ since <= from /\ from < to
    OBVIOUS
<1>1. \A s \in sessions : s.started >= to \/ (s.started <= from /\ s.lastSeen <= from)
  <2> SUFFICES ASSUME NEW s \in sessions, ~(s.started >= to)
               PROVE  s.started <= from /\ s.lastSeen <= from
      OBVIOUS
  <2>1. s.started <= from
      BY <1>0 DEF Deaf
  <2>2. CASE s.lastSeen > from
    <3>1. from \in s.started..(s.lastSeen - 1)
        BY <1>0, <2>1, <2>2
    <3>2. from \in heard
        BY <3>1 DEF SessionsAreTrue
    <3>3. from \in from..(to - 1)
        BY <1>0
    <3> QED BY <3>2, <3>3 DEF Deaf
  <2> QED BY <1>0, <2>1, <2>2
<1>2. after \in Late
    BY <1>0 DEF CollectorSessionsSince
<1>3. PICK n \in Late : \A s \in Late \ {n} : Before(n, s)
  <2>1. Rows(Late)
      BY <1>2 DEF Rows, CollectorSessionsSince
  <2> HIDE DEF Late, SessionInv
  <2>2. First(Late) # {}
      BY <2>1, FirstExists
  <2> QED BY <2>2 DEF First
<1>4. n \in T /\ n.started >= to /\ n.started \in Nat
    BY DEF CollectorSessionsSince
<1>5. CASE Early = {}
  <2>1. n \in First(T)
      BY <1>3, <1>4, <1>5 DEF First
  <2> DEFINE g == [from |-> since, to |-> n.started]
  <2>2. g \in Gaps
      BY <1>0, <1>4, <2>1 DEF Gaps, CoverageGaps
  <2> QED BY <1>0, <1>4, <2>2
<1>6. CASE Early # {}
  <2>1. Rows(Early)
      BY <1>6 DEF Rows, CollectorSessionsSince
  <2>2. PICK p \in Early : \A s \in Early \ {p} : Before(s, p)
      BY <2>1, LastExists
  <2>3. /\ p \in T /\ p \in sessions
        /\ p.started <= from /\ p.lastSeen <= from
        /\ p.started \in Nat /\ p.lastSeen \in Nat
      BY <1>1 DEF CollectorSessionsSince
  <2>4. Before(p, n)
      BY <1>0, <1>4, <2>3 DEF Before
  <2>5. ASSUME NEW s \in T, Before(p, s), Before(s, n)
        PROVE  FALSE
    <3>1. /\ s.started \in Nat /\ s.id \in Nat /\ n.id \in Nat /\ p.id \in Nat
        BY DEF CollectorSessionsSince
    <3>2. CASE s \in Late
      <4>1. s = n \/ Before(n, s)
          BY <1>3, <3>2
      <4> QED BY <1>4, <2>5, <3>1, <4>1 DEF Before
    <3>3. CASE s \in Early
      <4>1. s = p \/ Before(s, p)
          BY <2>2, <3>3
      <4> QED BY <2>3, <2>5, <3>1, <4>1 DEF Before
    <3> QED BY <3>2, <3>3
  <2>6. <<p, n>> \in Adjacent(T)
      BY <1>4, <2>3, <2>4, <2>5 DEF Adjacent
  <2> DEFINE g == [from |-> p.lastSeen, to |-> n.started]
  <2>7. g \in Gaps
      BY <1>0, <1>4, <2>3, <2>6 DEF Gaps, CoverageGaps
  <2> QED BY <1>0, <1>4, <2>3, <2>7
<1> QED BY <1>5, <1>6

\* The table, the processes and the counters are well typed, and a session
\* never ends before it starts nor after now.
THEOREM SessionsTyped == Spec => []TypeOK
<1>1. SessionInv => TypeOK
    BY DEF SessionInv
<1> QED BY <1>1, SessionInvariant, PTL

\* The record claims no more than what happened: a session only covers time
\* in which a collector was listening (StartCollectorSession, Heartbeat).
THEOREM RecordIsTrue == Spec => []SessionsAreTrue
<1>1. SessionInv => SessionsAreTrue
    BY DEF SessionInv
<1> QED BY <1>1, SessionInvariant, PTL

\* No outage is hidden from `observe status` and /metrics: CoverageGaps covers
\* every stretch longer than MinGap with no collector that has ended.
THEOREM NoHiddenOutage == Spec => []OutagesAreReported
<1>1. SessionInv => OutagesAreReported
    BY OutageIsInAGap DEF OutagesAreReported
<1> QED BY <1>1, SessionInvariant, PTL

\* Sorted consecutive pairs leave gaps that follow one another.
LEMMA GapsInOrder ==
    ASSUME SessionInv
    PROVE  GapsAreDisjoint
<1> USE CollectorConstants
<1> DEFINE since == clock - Window
           T == CollectorSessionsSince(since)
<1>1. \A s \in T : /\ s \in sessions
                   /\ s.id \in Nat /\ s.started \in Nat /\ s.lastSeen \in Nat
                   /\ s.started <= s.lastSeen /\ s.lastSeen <= clock
                   /\ since <= s.lastSeen
    BY DEF CollectorSessionsSince, SessionInv, TypeOK, Session
<1>2. \A s, t \in T : s = t \/ Before(s, t) \/ Before(t, s)
    BY <1>1 DEF SessionInv, Before
<1>3. \A s, t \in T : Before(s, t) => s.started <= t.started
    BY <1>1 DEF Before
<1>4. clock \in Int /\ since \in Int
    BY DEF SessionInv, TypeOK
<1>5. ASSUME NEW g \in Metrics.gaps
      PROVE  \/ \E f \in First(T) : g = [from |-> since, to |-> f.started]
             \/ \E p \in Adjacent(T) : g = [from |-> p[1].lastSeen, to |-> p[2].started]
    BY DEF Metrics, CoverageGaps
<1>6. ASSUME NEW f \in First(T), NEW s \in T
      PROVE  f \in T /\ f.started <= s.started
    BY <1>1, <1>3 DEF First
<1>7. ASSUME NEW p \in Adjacent(T)
      PROVE  /\ p[1] \in T /\ p[2] \in T
             /\ \A s \in T : \/ s = p[1] \/ s = p[2]
                            \/ Before(s, p[1]) \/ Before(p[2], s)
    BY <1>2 DEF Adjacent
<1>8. ASSUME NEW g \in Metrics.gaps
      PROVE  /\ since <= g.from /\ g.to <= clock
             /\ g.from \in Int /\ g.to \in Int
  <2>1. CASE \E f \in First(T) : g = [from |-> since, to |-> f.started]
    <3>1. PICK f \in First(T) : g = [from |-> since, to |-> f.started]
        BY <2>1
    <3>2. f \in T
        BY DEF First
    <3> QED BY <1>1, <1>4, <3>1, <3>2
  <2>2. CASE \E p \in Adjacent(T) : g = [from |-> p[1].lastSeen, to |-> p[2].started]
    <3>1. PICK p \in Adjacent(T) : g = [from |-> p[1].lastSeen, to |-> p[2].started]
        BY <2>2
    <3>2. p[1] \in T /\ p[2] \in T
        BY <1>7
    <3> QED BY <1>1, <1>4, <3>1, <3>2
  <2> QED BY <1>5, <2>1, <2>2
<1>9. ASSUME NEW f \in First(T), NEW p \in Adjacent(T)
      PROVE  f.started <= p[1].lastSeen
  <2>1. p[1] \in T
      BY <1>7
  <2>2. f \in T /\ f.started <= p[1].started
      BY <2>1, <1>6
  <2> QED BY <1>1, <2>1, <2>2
<1>10. ASSUME NEW p \in Adjacent(T), NEW q \in Adjacent(T), Before(p[1], q[1])
       PROVE  p[2].started <= q[1].lastSeen
  <2>1. p[1] \in T /\ p[2] \in T /\ q[1] \in T
      BY <1>7
  <2>2. q[1] # p[1] /\ ~Before(q[1], p[1])
      BY <1>1, <1>10, <2>1 DEF Before
  <2>3. q[1] = p[2] \/ Before(p[2], q[1])
      BY <1>7, <2>1, <2>2
  <2>4. p[2].started <= q[1].started
      BY <1>1, <1>3, <2>1, <2>3
  <2> QED BY <1>1, <2>1, <2>4
<1>11. ASSUME NEW p \in Adjacent(T), NEW q \in Adjacent(T), p[1] = q[1]
       PROVE  p[2] = q[2]
  <2>1. p[2] \in T /\ q[2] \in T
      BY <1>7
  <2> QED BY <1>2, <1>11, <2>1 DEF Adjacent
<1>12. ASSUME NEW g \in Metrics.gaps, NEW h \in Metrics.gaps
       PROVE  g = h \/ g.to <= h.from \/ h.to <= g.from
  <2>1. CASE \E f \in First(T) : g = [from |-> since, to |-> f.started]
    <3>1. PICK f \in First(T) : g = [from |-> since, to |-> f.started]
        BY <2>1
    <3>2. CASE \E e \in First(T) : h = [from |-> since, to |-> e.started]
      <4>1. PICK e \in First(T) : h = [from |-> since, to |-> e.started]
          BY <3>2
      <4>2. e.started = f.started
          BY <1>1, <1>6 DEF First
      <4> QED BY <3>1, <4>1, <4>2
    <3>3. CASE \E p \in Adjacent(T) : h = [from |-> p[1].lastSeen, to |-> p[2].started]
        BY <3>1, <3>3, <1>9
    <3> QED BY <1>5, <3>2, <3>3
  <2>2. CASE \E p \in Adjacent(T) : g = [from |-> p[1].lastSeen, to |-> p[2].started]
    <3>1. PICK p \in Adjacent(T) : g = [from |-> p[1].lastSeen, to |-> p[2].started]
        BY <2>2
    <3>2. CASE \E f \in First(T) : h = [from |-> since, to |-> f.started]
        BY <3>1, <3>2, <1>9
    <3>3. CASE \E q \in Adjacent(T) : h = [from |-> q[1].lastSeen, to |-> q[2].started]
      <4>1. PICK q \in Adjacent(T) : h = [from |-> q[1].lastSeen, to |-> q[2].started]
          BY <3>3
      <4>2. p[1] = q[1] \/ Before(p[1], q[1]) \/ Before(q[1], p[1])
          BY <1>2, <1>7
      <4> QED BY <3>1, <4>1, <4>2, <1>10, <1>11
    <3> QED BY <1>5, <3>2, <3>3
  <2> QED BY <1>5, <2>1, <2>2
<1> QED BY <1>8, <1>12 DEF GapsAreDisjoint

\* The gaps never overlap and never leave the window, so the seconds without
\* coverage that /metrics adds up are at most the window.
THEOREM GapsNeverOverlap == Spec => []GapsAreDisjoint
<1>1. SessionInv => GapsAreDisjoint
    BY GapsInOrder
<1> QED BY <1>1, SessionInvariant, PTL

-------------------------------------------------------------------------------
(***************************************************************************)
(* What was heard is in the record, but for the writes that were lost.     *)
(***************************************************************************)
Pending(c) == IF process[c].due THEN 1 ELSE 0

\* The session of a live collector lags behind the clock by one interval that
\* is due and by one for each lost write; so does what was heard.
RecordFollows ==
    /\ \A c \in Collectors : process[c].phase \in {"beating", "closing"} =>
         \E s \in sessions : /\ s.id = process[c].session
                             /\ clock <= s.lastSeen + lost + Pending(c)
    /\ \A t \in heard : \E s \in sessions : s.started <= t /\ t <= s.lastSeen + lost

\* A heartbeat only moves rows forward, its own up to the clock.
LEMMA HeartbeatRaises ==
    ASSUME SessionInv, NEW id, Heartbeat(id)
    PROVE  \A s \in sessions : \E r \in sessions' :
             /\ r.id = s.id /\ r.started = s.started
             /\ s.lastSeen <= r.lastSeen /\ r.lastSeen \in Nat
             /\ s.id = id => r.lastSeen = clock
<1> USE DEF SessionInv, TypeOK, Session
<1> TAKE s \in sessions
<1>1. CASE s.id = id
    <2>1. [s EXCEPT !.lastSeen = clock] \in sessions'
        BY <1>1 DEF Heartbeat
    <2> QED BY <2>1
<1>2. CASE s.id # id
    <2>1. s \in sessions'
        BY <1>2 DEF Heartbeat
    <2> QED BY <1>2, <2>1
<1> QED BY <1>1, <1>2

\* A step that adds no time keeps what was heard in the record if rows only
\* move forward.
LEMMA HeardKept ==
    ASSUME SessionInv, RecordFollows, UNCHANGED heard,
           lost' \in Nat, lost <= lost',
           \A s \in sessions : \E r \in sessions' :
               r.started = s.started /\ s.lastSeen <= r.lastSeen /\ r.lastSeen \in Nat
    PROVE  \A t \in heard' : \E s \in sessions' : s.started <= t /\ t <= s.lastSeen + lost'
<1> USE DEF SessionInv, TypeOK, Session
<1> TAKE t \in heard'
<1>1. PICK s \in sessions : s.started <= t /\ t <= s.lastSeen + lost
    BY DEF RecordFollows
<1>2. PICK r \in sessions' : r.started = s.started /\ s.lastSeen <= r.lastSeen /\ r.lastSeen \in Nat
    OBVIOUS
<1>3. t \in Nat /\ s.lastSeen \in Nat /\ lost \in Nat
    OBVIOUS
<1>4. t <= r.lastSeen + lost'
    BY <1>1, <1>2, <1>3
<1> QED BY <1>1, <1>2, <1>4

LEMMA TickFollows ==
    ASSUME SessionInv, RecordFollows, Tick
    PROVE  RecordFollows'
<1> USE DEF SessionInv, TypeOK, Session, Tick
<1>1. ASSUME NEW c \in Collectors, process'[c].phase \in {"beating", "closing"}
      PROVE  \E s \in sessions' : /\ s.id = process'[c].session
                                  /\ clock' <= s.lastSeen + lost' + Pending(c)'
    <2>1. process[c].phase = "beating" /\ ~process[c].due /\ process'[c].due
        BY <1>1
    <2>2. PICK s \in sessions : s.id = process[c].session /\ clock <= s.lastSeen + lost + Pending(c)
        BY <2>1 DEF RecordFollows
    <2>3. Pending(c) = 0 /\ Pending(c)' = 1
        BY <2>1 DEF Pending
    <2>4. s.id = process'[c].session /\ clock' <= s.lastSeen + lost' + Pending(c)'
        BY <2>2, <2>3
    <2> QED BY <2>4
<1>2. ASSUME NEW t \in heard'
      PROVE  \E s \in sessions' : s.started <= t /\ t <= s.lastSeen + lost'
    <2>1. CASE t \in heard
        BY <2>1 DEF RecordFollows
    <2>2. CASE t \notin heard
        <3>1. PICK c \in Collectors : process[c].phase = "beating" /\ ~process[c].due
            BY <1>2, <2>2
        <3>2. t = clock
            BY <1>2, <2>2
        <3>3. PICK s \in sessions : clock <= s.lastSeen + lost + Pending(c)
            BY <3>1 DEF RecordFollows
        <3>4. Pending(c) = 0
            BY <3>1 DEF Pending
        <3>5. s.started <= t /\ t <= s.lastSeen + lost'
            BY <3>2, <3>3, <3>4
        <3> QED BY <3>5
    <2> QED BY <2>1, <2>2
<1> QED BY <1>1, <1>2 DEF RecordFollows

LEMMA BeatFollows ==
    ASSUME SessionInv, RecordFollows, NEW c \in Collectors, Beat(c) \/ FinalBeat(c)
    PROVE  RecordFollows'
<1> USE DEF SessionInv, TypeOK, Session
<1>1. /\ UNCHANGED <<clock, heard>>
      /\ \/ Heartbeat(process[c].session) /\ lost' = lost
         \/ lost' = lost + 1 /\ sessions' = sessions
      /\ \/ process' = [process EXCEPT ![c].due = FALSE]
         \/ process' = [process EXCEPT ![c] = Off]
    BY DEF Beat, FinalBeat, Fails
<1>2. lost' \in Nat /\ lost <= lost' /\ lost \in Nat /\ clock \in Nat
    BY <1>1
<1>3. \A s \in sessions : \E r \in sessions' :
        /\ r.id = s.id /\ r.started = s.started
        /\ s.lastSeen <= r.lastSeen /\ r.lastSeen \in Nat
        /\ s.id = process[c].session => \/ r.lastSeen = clock
                                        \/ r.lastSeen = s.lastSeen /\ lost' = lost + 1
    <2>1. CASE Heartbeat(process[c].session)
        BY <2>1, HeartbeatRaises
    <2>2. CASE lost' = lost + 1 /\ sessions' = sessions
        BY <2>2
    <2> QED BY <1>1, <2>1, <2>2
<1>4. \A t \in heard' : \E s \in sessions' : s.started <= t /\ t <= s.lastSeen + lost'
    BY <1>1, <1>2, <1>3, HeardKept
<1>5. ASSUME NEW d \in Collectors, process'[d].phase \in {"beating", "closing"}
      PROVE  \E s \in sessions' : /\ s.id = process'[d].session
                                  /\ clock' <= s.lastSeen + lost' + Pending(d)'
    <2>1. /\ process[d].phase \in {"beating", "closing"}
          /\ process'[d].session = process[d].session
          /\ d # c => process'[d].due = process[d].due
        BY <1>1, <1>5 DEF Off
    <2>2. PICK s \in sessions : s.id = process[d].session /\ clock <= s.lastSeen + lost + Pending(d)
        BY <2>1 DEF RecordFollows
    <2>3. PICK r \in sessions' :
            /\ r.id = s.id /\ s.lastSeen <= r.lastSeen /\ r.lastSeen \in Nat
            /\ s.id = process[c].session => \/ r.lastSeen = clock
                                            \/ r.lastSeen = s.lastSeen /\ lost' = lost + 1
        BY <1>3
    <2>4. Pending(d) \in 0..1 /\ Pending(d)' \in 0..1
        BY DEF Pending
    <2>5. CASE d = c
        BY <1>1, <1>2, <2>1, <2>2, <2>3, <2>4, <2>5
    <2>6. CASE d # c
        <3>1. Pending(d)' = Pending(d)
            BY <2>1, <2>6 DEF Pending
        <3>2. clock' <= r.lastSeen + lost' + Pending(d)'
            BY <1>1, <1>2, <2>2, <2>3, <2>4, <3>1
        <3> QED BY <2>1, <2>2, <2>3, <3>2
    <2> QED BY <2>5, <2>6
<1> QED BY <1>4, <1>5 DEF RecordFollows

LEMMA OpenFollows ==
    ASSUME SessionInv, RecordFollows, NEW c \in Collectors, StartCollectorSession(c)
    PROVE  RecordFollows'
<1> USE DEF SessionInv, TypeOK, Session
<1>1. PICK new : new = [id |-> nextSession, started |-> clock, lastSeen |-> clock]
    OBVIOUS
<1>2. /\ sessions' = sessions \cup {new} /\ UNCHANGED <<clock, heard, lost>>
      /\ process' = [process EXCEPT ![c].phase = "beating", ![c].session = nextSession]
    BY <1>1 DEF StartCollectorSession
<1>3. ASSUME NEW d \in Collectors, process'[d].phase \in {"beating", "closing"}
      PROVE  \E s \in sessions' : /\ s.id = process'[d].session
                                  /\ clock' <= s.lastSeen + lost' + Pending(d)'
    <2>1. CASE d = c
        <3>1. process'[d].session = nextSession
            BY <1>2, <2>1
        <3>2. Pending(d)' \in 0..1
            BY DEF Pending
        <3>3. new.id = nextSession /\ new.lastSeen = clock /\ clock \in Nat /\ lost \in Nat
            BY <1>1
        <3> QED BY <1>2, <3>1, <3>2, <3>3
    <2>2. CASE d # c
        <3>1. process'[d] = process[d]
            BY <1>2, <2>2
        <3>2. Pending(d)' = Pending(d)
            BY <3>1 DEF Pending
        <3> QED BY <1>2, <1>3, <3>1, <3>2 DEF RecordFollows
    <2> QED BY <2>1, <2>2
<1> QED BY <1>2, <1>3 DEF RecordFollows

\* RecordFollows holds in every reachable state.
THEOREM RecordIsFresh == Spec => []RecordFollows
<1>1. Init => RecordFollows
    BY DEF Init, RecordFollows, Off
<1>2. SessionInv /\ RecordFollows /\ [Next]_vars => RecordFollows'
    <2> SUFFICES ASSUME SessionInv, RecordFollows, [Next]_vars PROVE RecordFollows'
        OBVIOUS
    <2>1. CASE UNCHANGED vars
        BY <2>1 DEF vars, RecordFollows, Pending
    <2>2. ASSUME NEW c \in Collectors, Listen(c) \/ Stop(c) \/ Crash(c) \/ StartFails(c)
          PROVE  RecordFollows'
        <3>1. /\ UNCHANGED <<clock, sessions, heard>>
              /\ lost' \in Nat /\ lost \in Nat /\ lost <= lost'
            BY <2>2 DEF Listen, Stop, Crash, StartFails, Fails, SessionInv, TypeOK
        <3>2. \A d \in Collectors : process'[d].phase \in {"beating", "closing"} =>
                /\ process[d].phase \in {"beating", "closing"}
                /\ process'[d].session = process[d].session
                /\ process'[d].due = process[d].due
            BY <2>2 DEF Listen, Stop, Crash, StartFails, Off, SessionInv, TypeOK
        <3>3. \A t \in heard' : \E s \in sessions' : s.started <= t /\ t <= s.lastSeen + lost'
            BY <3>1, HeardKept DEF SessionInv, TypeOK, Session
        <3>4. ASSUME NEW d \in Collectors, process'[d].phase \in {"beating", "closing"}
              PROVE  \E s \in sessions' : /\ s.id = process'[d].session
                                          /\ clock' <= s.lastSeen + lost' + Pending(d)'
            <4>1. PICK s \in sessions : s.id = process[d].session /\ clock <= s.lastSeen + lost + Pending(d)
                BY <3>2, <3>4 DEF RecordFollows
            <4>2. Pending(d)' = Pending(d) /\ Pending(d) \in 0..1
                BY <3>2, <3>4 DEF Pending
            <4>3. s.lastSeen \in Nat /\ clock \in Nat
                BY DEF SessionInv, TypeOK, Session
            <4>4. clock' <= s.lastSeen + lost' + Pending(d)'
                BY <3>1, <4>1, <4>2, <4>3
            <4> QED BY <3>1, <3>2, <3>4, <4>1, <4>4
        <3> QED BY <3>3, <3>4 DEF RecordFollows
    <2> QED BY <2>1, <2>2, TickFollows, BeatFollows, OpenFollows DEF Next
<1>3. Spec => []SessionInv
    BY SessionInvariant
<1> QED BY <1>1, <1>2, <1>3, PTL DEF Spec

\* No outage is invented: inside a gap that `observe status` reports no
\* recorded collector was listening (CoverageGaps compares neighbours only).
THEOREM NoInventedOutage == Spec => []GapsAreDeaf
<1>1. ASSUME SessionInv, RecordFollows, ~Nested, NEW g \in Gaps,
             NEW t \in (g.from + 1 + MaxLost)..(g.to - 1), t \in heard
      PROVE  FALSE
    <2> USE CollectorConstants DEF SessionInv, TypeOK, Session
    <2> DEFINE since == clock - Window
               T == CollectorSessionsSince(since)
    <2>1. PICK s \in sessions : s.started <= t /\ t <= s.lastSeen + lost
        BY <1>1 DEF RecordFollows
    <2>2. s.started \in Nat /\ s.lastSeen \in Nat /\ s.id \in Nat /\ t \in Nat
          /\ lost \in Nat /\ lost <= MaxLost /\ MaxLost \in Nat /\ since \in Int
        BY <1>1
    <2>3. CASE \E f \in First(T) : g = [from |-> since, to |-> f.started]
        <3>1. PICK f \in First(T) : g = [from |-> since, to |-> f.started]
            BY <2>3
        <3>2. f \in sessions /\ f.started \in Nat /\ f.id \in Nat
            BY <1>1 DEF First, CollectorSessionsSince
        <3>3. s.lastSeen > since /\ s.started < f.started
            BY <1>1, <2>1, <2>2, <3>1, <3>2
        <3>4. s \in T
            BY <2>2, <3>3 DEF CollectorSessionsSince
        <3>5. Before(f, s)
            BY <3>3, <3>4, <2>2, <3>2 DEF First
        <3> QED BY <2>2, <3>2, <3>3, <3>5 DEF Before
    <2>4. CASE \E p \in Adjacent(T) : g = [from |-> p[1].lastSeen, to |-> p[2].started]
        <3>1. PICK p \in Adjacent(T) : g = [from |-> p[1].lastSeen, to |-> p[2].started]
            BY <2>4
        <3>2. /\ p[1] \in sessions /\ p[2] \in sessions /\ p[1].lastSeen >= since
              /\ \A r \in T : ~(Before(p[1], r) /\ Before(r, p[2]))
            BY DEF Adjacent, CollectorSessionsSince
        <3>3. /\ p[1].lastSeen \in Nat /\ p[1].started \in Nat /\ p[1].id \in Nat
              /\ p[2].started \in Nat /\ p[2].id \in Nat
            BY <1>1, <3>2
        <3>4. s.lastSeen > p[1].lastSeen /\ s.started < p[2].started
            BY <1>1, <2>1, <2>2, <3>1, <3>3
        <3>5. s \in T /\ Before(s, p[2])
            BY <2>2, <3>2, <3>3, <3>4 DEF CollectorSessionsSince, Before
        <3>6. s.id # p[1].id
            BY <1>1, <2>2, <3>2, <3>3, <3>4
        <3>7. Before(s, p[1])
            BY <2>2, <3>2, <3>3, <3>5, <3>6 DEF Before
        <3> QED BY <1>1, <3>2, <3>4, <3>7, <2>2, <3>3 DEF Nested
    <2> QED BY <1>1, <2>3, <2>4 DEF Gaps, CoverageGaps
<1>2. SessionInv /\ RecordFollows => GapsAreDeaf
    BY <1>1 DEF GapsAreDeaf, DeafGap
<1> QED BY <1>2, SessionInvariant, RecordIsFresh, PTL

\* A live collector is reported as running (LastCollectorSession and the
\* comparison with minReportedGap).
THEOREM LiveIsReported == Spec => []LiveIsRunning
<1>1. ASSUME SessionInv, RecordFollows, MaxLost < MinGap, ~Nested,
             NEW c \in Collectors, process[c].phase = "beating"
      PROVE  Metrics.running
    <2> USE CollectorConstants
    <2>1. PICK s \in sessions : clock <= s.lastSeen + lost + Pending(c)
        BY <1>1 DEF RecordFollows
    <2>2. PICK l \in sessions : \A r \in sessions \ {l} : Before(r, l)
        BY <1>1, <2>1, LastExists DEF Rows
    <2>3. s.lastSeen \in Nat /\ l.lastSeen \in Nat /\ clock \in Nat /\ lost \in 0..MaxLost
          /\ Pending(c) \in 0..1
        BY <1>1 DEF SessionInv, TypeOK, Session, Pending
    <2>4. s.lastSeen <= l.lastSeen
        BY <1>1, <2>2, <2>3 DEF Nested
    <2>5. clock - l.lastSeen <= MinGap
        BY <1>1, <2>1, <2>3, <2>4
    <2>6. l \in LastCollectorSession
        BY <2>2 DEF LastCollectorSession
    <2> QED BY <2>5, <2>6 DEF Metrics
<1>2. SessionInv /\ RecordFollows => LiveIsRunning
    BY <1>1 DEF LiveIsRunning
<1> QED BY <1>2, SessionInvariant, RecordIsFresh, PTL

===============================================================================
