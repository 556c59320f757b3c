-------------------------- MODULE CollectorSessions ---------------------------
(***************************************************************************)
(* The availability record of the collector: the table                     *)
(* `collector_sessions`, the goroutine that writes it (Server.beat), and   *)
(* what `observe status` and `/metrics` read out of it.                    *)
(*                                                                         *)
(* The unit of time is heartbeatInterval (10 s).  A start, a heartbeat or  *)
(* a shutdown writes one row with timeouts well under that, so the clock   *)
(* waits for a write that is due.                                          *)
(***************************************************************************)
EXTENDS Integers, FiniteSets

CONSTANTS
    Collectors,    \* one per listen address; two cannot hold the same one
    Window,        \* how far back status and metrics look, in heartbeats
    MinGap,        \* metricsGapFloor = minReportedGap, in heartbeats
    MaxSessions,   \* bound: sessions ever opened
    MaxLost,       \* bound: writes to the database that fail
    MaxTime        \* bound: the clock

ASSUME CollectorConstants ==
    /\ Window \in Nat \ {0}
    /\ MinGap \in Nat \ {0}
    /\ MaxSessions \in Nat
    /\ MaxLost \in Nat
    /\ MaxTime \in Nat

VARIABLES
    clock,        \* wall clock
    sessions,     \* rows of `collector_sessions`
    nextSession,  \* its AUTOINCREMENT counter
    process,      \* what each collector is doing
    lost,         \* writes that have failed so far
    heard         \* history: the instants t such that, from t to t + 1, a
                  \* collector that has a session was listening

vars == <<clock, sessions, nextSession, process, lost, heard>>

Phases == {"off", "opening", "beating", "unrecorded", "closing"}

Session == [id : Nat, started : Nat, lastSeen : Nat]

TypeOK ==
    /\ clock \in Nat
    /\ sessions \subseteq {s \in Session : s.started <= s.lastSeen /\ s.lastSeen <= clock}
    /\ nextSession \in Nat
    /\ process \in [Collectors -> [phase : Phases, session : Nat, due : BOOLEAN]]
    /\ lost \in 0..MaxLost
    /\ heard \subseteq Nat

Off == [phase |-> "off", session |-> 0, due |-> FALSE]

Init ==
    /\ clock = 0
    /\ sessions = {}
    /\ nextSession = 1
    /\ process = [c \in Collectors |-> Off]
    /\ lost = 0
    /\ heard = {}

-------------------------------------------------------------------------------
(***************************************************************************)
(* The collector.                                                          *)
(***************************************************************************)

Fails ==
    /\ lost < MaxLost
    /\ lost' = lost + 1

\* ListenAndServeOn: it listens, then `go s.beat`.
Listen(c) ==
    /\ process[c].phase = "off"
    /\ process' = [process EXCEPT ![c].phase = "opening"]
    /\ UNCHANGED <<clock, sessions, nextSession, lost, heard>>

StartCollectorSession(c) ==
    /\ process[c].phase = "opening"
    /\ nextSession <= MaxSessions
    /\ sessions' = sessions \cup
         {[id |-> nextSession, started |-> clock, lastSeen |-> clock]}
    /\ nextSession' = nextSession + 1
    /\ process' = [process EXCEPT ![c].phase = "beating",
                                  ![c].session = nextSession]
    /\ UNCHANGED <<clock, lost, heard>>

\* beat gives up: the collector listens for the rest of its life unrecorded.
StartFails(c) ==
    /\ process[c].phase = "opening"
    /\ Fails
    /\ process' = [process EXCEPT ![c].phase = "unrecorded"]
    /\ UNCHANGED <<clock, sessions, nextSession, heard>>

\* Mutant: the UPDATE writes started_at.
HeartbeatWrongColumn(session) ==
    sessions' = {IF s.id = session THEN [s EXCEPT !.started = clock] ELSE s :
                 s \in sessions}

\* Mutant: the UPDATE has no WHERE.
HeartbeatEverywhere(session) ==
    sessions' = {[s EXCEPT !.lastSeen = clock] : s \in sessions}

Heartbeat(session) ==
    sessions' = {IF s.id = session THEN [s EXCEPT !.lastSeen = clock] ELSE s :
                 s \in sessions}

Beat(c) ==
    /\ process[c].phase = "beating"
    /\ process[c].due
    /\ \/ Heartbeat(process[c].session) /\ UNCHANGED lost
       \/ Fails /\ UNCHANGED sessions
    /\ process' = [process EXCEPT ![c].due = FALSE]
    /\ UNCHANGED <<clock, nextSession, heard>>

\* The context is cancelled.  A tick that is pending may lose the select.
Stop(c) ==
    /\ process[c].phase \in {"beating", "unrecorded"}
    /\ process' = [process EXCEPT
         ![c] = IF @.phase = "beating" THEN [@ EXCEPT !.phase = "closing"]
                                       ELSE Off]
    /\ UNCHANGED <<clock, sessions, nextSession, lost, heard>>

FinalBeat(c) ==
    /\ process[c].phase = "closing"
    /\ \/ Heartbeat(process[c].session) /\ UNCHANGED lost
       \/ Fails /\ UNCHANGED sessions
    /\ process' = [process EXCEPT ![c] = Off]
    /\ UNCHANGED <<clock, nextSession, heard>>

Crash(c) ==
    /\ process[c].phase # "off"
    /\ process' = [process EXCEPT ![c] = Off]
    /\ UNCHANGED <<clock, sessions, nextSession, lost, heard>>

Tick ==
    /\ clock < MaxTime
    /\ \A c \in Collectors :
        process[c].phase \notin {"opening", "closing"} /\ ~process[c].due
    /\ clock' = clock + 1
    /\ heard' = IF \E c \in Collectors : process[c].phase = "beating"
                THEN heard \cup {clock} ELSE heard
    /\ process' = [c \in Collectors |->
         [process[c] EXCEPT !.due = process[c].phase = "beating"]]
    /\ UNCHANGED <<sessions, nextSession, lost>>

Next ==
    \/ Tick
    \/ \E c \in Collectors :
        \/ Listen(c) \/ StartCollectorSession(c) \/ StartFails(c)
        \/ Beat(c) \/ Stop(c) \/ FinalBeat(c) \/ Crash(c)

Spec == Init /\ [][Next]_vars

-------------------------------------------------------------------------------
(***************************************************************************)
(* What is read out of the record.                                         *)
(***************************************************************************)

\* ORDER BY started_at, id.
Before(s, t) == s.started < t.started \/ (s.started = t.started /\ s.id < t.id)

\* Mutant: sessions that ended before the window are read too.
CollectorSessionsEver(since) == sessions

CollectorSessionsSince(since) == {s \in sessions : s.lastSeen >= since}

First(table) == {s \in table : \A t \in table \ {s} : Before(s, t)}

Adjacent(table) ==
    {p \in table \X table : /\ Before(p[1], p[2])
                            /\ \A s \in table : ~(Before(p[1], s) /\ Before(s, p[2]))}

\* Mutant: ORDER BY started_at ASC.
OldestSession == {s \in sessions : \A t \in sessions \ {s} : Before(s, t)}

LastCollectorSession == {s \in sessions : \A t \in sessions \ {s} : Before(t, s)}

\* Mutant: the gap before the first session is forgotten.
InnerGaps(since, minGap) ==
    {g \in {[from |-> p[1].lastSeen, to |-> p[2].started] :
            p \in Adjacent(CollectorSessionsSince(since))} :
        g.to - g.from > minGap}

\* Mutant: a gap begins where the previous session began.
GapsFromStart(since, minGap) ==
    {g \in {[from |-> p[1].started, to |-> p[2].started] :
            p \in Adjacent(CollectorSessionsSince(since))} :
        g.to - g.from > minGap}

\* From the start of the window to the first session, and from the last
\* heartbeat of each session to the start of the next one.
CoverageGaps(since, minGap) ==
    LET table == CollectorSessionsSince(since)
        leading == {[from |-> since, to |-> s.started] : s \in First(table)}
        inner == {[from |-> p[1].lastSeen, to |-> p[2].started] :
                  p \in Adjacent(table)}
    IN {g \in leading \cup inner : g.to > g.from /\ g.to - g.from > minGap}

\* What `observe status` warns about.
Gaps == CoverageGaps(clock - Window, MinGap)

\* The reading of /metrics, with the window and the threshold of status by
\* default.  When no collector runs it leaves out the uptime; the seconds
\* without one are the sum of the gaps.
Metrics ==
    [running |-> \E s \in LastCollectorSession : clock - s.lastSeen <= MinGap,
     gaps    |-> CoverageGaps(clock - Window, MinGap)]

-------------------------------------------------------------------------------
(***************************************************************************)
(* Safety.                                                                 *)
(***************************************************************************)

\* The record claims no more than what happened: at every instant between
\* the start of a session and its last heartbeat a collector was listening,
\* across crashes, restarts and lost heartbeats.
SessionsAreTrue ==
    \A s \in sessions : \A t \in s.started..(s.lastSeen - 1) : t \in heard

\* A stretch in which no session was open and none was opened.
Deaf(from, to) ==
    /\ \A t \in from..(to - 1) : t \notin heard
    /\ \A s \in sessions : ~(from < s.started /\ s.started < to)

\* No outage is hidden: whatever the collectors did, a stretch of the window
\* longer than MinGap in which none was listening, and that one of them
\* ended, is inside a gap that status and metrics report.
OutagesAreReported ==
    \A from, to \in (clock - Window)..clock :
        /\ to - from > MinGap
        /\ Deaf(from, to)
        /\ \E s \in sessions : s.started >= to
        => \E g \in Gaps : g.from <= from /\ to <= g.to

\* A session that ended before one that had started earlier did.
Nested == \E s, t \in sessions : Before(s, t) /\ t.lastSeen < s.lastSeen

DeafGap(g) == \A t \in (g.from + 1 + MaxLost)..(g.to - 1) : t \notin heard

\* No outage is invented: inside a reported gap no recorded collector was
\* listening, but for the intervals a crash and lost heartbeats leave
\* unwritten at its start.  The code compares neighbours only, so it needs
\* that no session is nested in another.
GapsAreDeaf == ~Nested => \A g \in Gaps : DeafGap(g)

\* The gaps do not overlap and lie inside the window, so that their sum
\* (`devherd_observe_collector_gap_seconds`) is at most the window.
GapsAreDisjoint ==
    \A g \in Metrics.gaps :
        /\ clock - Window <= g.from /\ g.to <= clock
        /\ \A h \in Metrics.gaps : g = h \/ g.to <= h.from \/ h.to <= g.from

\* A collector that is listening and beating is reported as running, unless
\* it has lost so many heartbeats that it looks dead.  Only the session that
\* started last is looked at, so this too needs that none is nested.
LiveIsRunning ==
    MaxLost < MinGap /\ ~Nested =>
        \A c \in Collectors : process[c].phase = "beating" => Metrics.running
===============================================================================
