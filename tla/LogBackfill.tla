----------------------------- MODULE LogBackfill ------------------------------
(***************************************************************************)
(* The capture of container logs in two passes.  The handler that ingests  *)
(* an event takes the lines around it; half of that window is still in the *)
(* future, so a poller comes back for it once it has passed.  The handler  *)
(* (handleAPI), the poller (pollObservedContainers) and the stop or crash  *)
(* of the collector interleave at every call to Docker and to SQLite.      *)
(*                                                                         *)
(* The unit of time is one tick of the poller (10 s).  A line of output is *)
(* the instant at which the container printed it.                          *)
(***************************************************************************)
EXTENDS Integers, FiniteSets

CONSTANTS
    Collectors,   \* processes on one database
    Requests,     \* events that clients send, each once
    Offsets,      \* client clock minus ours, in ticks
    Half,         \* logCaptureWindow (30 s)
    MaxAge,       \* logBackfillMaxAge (5 min)
    Batch,        \* logBackfillBatch (25)
    LineLimit,    \* logCaptureLimit (200)
    MaxRound,     \* ticks a request or a round may outlast the one it began in
    MaxLines,     \* bound: lines printed
    MaxFaults,    \* bound: calls to Docker or SQLite that fail
    MaxStops,     \* bound: stops and crashes
    MaxTime       \* bound: the clock

ASSUME BackfillConstants ==
    /\ Offsets \subseteq Int
    /\ {Half, MaxAge, Batch, LineLimit} \subseteq Nat \ {0}
    /\ {MaxRound, MaxLines, MaxFaults, MaxStops, MaxTime} \subseteq Nat

VARIABLES
    clock,     \* wall clock
    printed,   \* instants at which the container printed a line
    events,    \* rows of `events`
    logs,      \* rows of `container_logs`; `copy` tells equal rows apart
    request,   \* the handler of each event
    poller,    \* the poller of each collector
    running,   \* the collectors that are up
    faults,    \* calls that have failed
    stops,     \* stops so far
    crowded    \* history: events a round left for the next, its batch full

rows == <<events, logs>>
world == <<clock, printed>>
vars == <<clock, printed, events, logs, request, poller, running, faults,
          stops, crowded>>

Pending == 0
Done == 1
Skipped == 2

Row == [id : Nat, request : Requests, at : Int, named : BOOLEAN, state : 0..2]

\* What a handler and a poller hold between their calls.
Sending == [phase : {"unsent", "storing", "logging", "ended"},
            by : Collectors \cup {""}, at : Int, named : BOOLEAN,
            lines : SUBSET Nat, lag : Nat]
Round == [phase : {"idle", "fetch", "store", "mark"}, queue : SUBSET Row,
          lines : SUBSET Nat, verdict : 0..2, lag : 0..MaxRound, due : BOOLEAN]

Idle == [phase |-> "idle", queue |-> {}, lines |-> {}, verdict |-> Pending,
         lag |-> 0, due |-> FALSE]
Waiting == [Idle EXCEPT !.due = TRUE]
NotSent == [phase |-> "unsent", by |-> "", at |-> 0, named |-> FALSE,
            lines |-> {}, lag |-> 0]
Ended == [NotSent EXCEPT !.phase = "ended"]

TypeOK ==
    /\ clock \in Nat
    /\ printed \subseteq 0..clock
    /\ events \subseteq Row
    /\ logs \subseteq [request : Requests, line : printed, copy : Nat]
    /\ request \in [Requests -> Sending]
    /\ \A r \in Requests : request[r].lines \subseteq printed
    /\ poller \in [Collectors -> Round]
    /\ \A c \in Collectors :
        /\ poller[c].phase # "idle" => c \in running /\ poller[c].queue # {}
        /\ poller[c].lines \subseteq printed
    /\ running \subseteq Collectors
    /\ crowded \subseteq Requests

Init ==
    /\ clock = 0
    /\ printed = {}
    /\ events = {}
    /\ logs = {}
    /\ request = [r \in Requests |-> NotSent]
    /\ poller = [c \in Collectors |-> Idle]
    /\ running = {}
    /\ faults = 0
    /\ stops = 0
    /\ crowded = {}

-------------------------------------------------------------------------------

Fault ==
    /\ faults < MaxFaults
    /\ faults' = faults + 1

\* docker logs --since --until --tail, at this instant: Docker takes the tail
\* of the whole log first, and filters by time what is left.
LogsBetween(since, until) ==
    {l \in printed : /\ since <= l /\ l <= until
                     /\ Cardinality({m \in printed : m > l}) < LineLimit}

\* Mutant: a plain INSERT.
FreshAll(r, lines) == lines

\* INSERT ... WHERE NOT EXISTS.
Fresh(r, lines) ==
    {l \in lines : \A row \in logs : row.request # r \/ row.line # l}

StoreContainerLogs(r, lines) ==
    logs' = logs \cup
        {[request |-> r, line |-> l,
          copy |-> Cardinality({row \in logs : row.request = r /\ row.line = l})] :
         l \in Fresh(r, lines)}

(***************************************************************************)
(* Ingestion.                                                              *)
(***************************************************************************)

\* CorrelateEvent: the container may be found, named by the client only, or
\* not at all; without it, or when Docker fails, there are no lines.
Receive(c, r) ==
    /\ c \in running
    /\ request[r].phase = "unsent"
    /\ \E at \in {clock + offset : offset \in Offsets}, named \in BOOLEAN,
          answers \in BOOLEAN :
        /\ answers => named
        /\ at + Half <= MaxTime
        /\ request' = [request EXCEPT ![r] =
             [phase |-> "storing", by |-> c, at |-> at, named |-> named,
              lines |-> IF answers THEN LogsBetween(at - Half, at + Half) ELSE {},
              lag |-> 0]]
    /\ UNCHANGED <<world, rows, poller, running, faults, stops, crowded>>

StoreEvent(r) ==
    /\ request[r].phase = "storing"
    /\ \/ /\ events' = events \cup
               {[id |-> Cardinality(events) + 1, request |-> r,
                 at |-> request[r].at, named |-> request[r].named,
                 state |-> Pending]}
          /\ request' = [request EXCEPT ![r].phase = "logging"]
          /\ UNCHANGED faults
       \/ /\ Fault
          /\ request' = [request EXCEPT ![r] = Ended]
          /\ UNCHANGED events
    /\ UNCHANGED <<world, logs, poller, running, stops, crowded>>

StoreFirstPass(r) ==
    /\ request[r].phase = "logging"
    /\ \/ StoreContainerLogs(r, request[r].lines) /\ UNCHANGED faults
       \/ Fault /\ request[r].lines # {} /\ UNCHANGED logs
    /\ request' = [request EXCEPT ![r] = Ended]
    /\ UNCHANGED <<world, events, poller, running, stops, crowded>>

(***************************************************************************)
(* The poller.                                                             *)
(***************************************************************************)

\* Mutant: the query does not look at the state.
AllRows == events

PendingRows == {e \in events : e.state = Pending}

\* ORDER BY id LIMIT Batch.
BatchOf(table) == {e \in table : Cardinality({f \in table : f.id < e.id}) < Batch}

\* Mutant: the second pass does not wait for the window.
WindowIgnored(e) == clock < e.at

WindowOpen(e) == clock < e.at + Half

\* Mutant: the window is taken for the maximum age.
ExpiredEarly(e) == ~e.named \/ clock > e.at + Half

Expired(e) == ~e.named \/ (~WindowOpen(e) /\ clock > e.at + MaxAge)

\* Mutant: giving an event up is not written down.
MarkDoneOnly(requests, state) ==
    events' = {IF e.request \in requests /\ state = Done
               THEN [e EXCEPT !.state = state] ELSE e : e \in events}

Mark(requests, state) ==
    events' = {IF e.request \in requests THEN [e EXCEPT !.state = state] ELSE e :
               e \in events}

\* The expired rows are marked one by one; a failure in the middle ends the
\* round.
PendingLogBackfills(c) ==
    /\ c \in running /\ poller[c].phase = "idle" /\ poller[c].due
    /\ LET batch == BatchOf(PendingRows)
           expired == {e \in batch : Expired(e)}
           ready == {e \in batch : ~Expired(e) /\ ~WindowOpen(e)}
           left == {e \in PendingRows \ batch : ~WindowOpen(e)}
       IN /\ crowded' = crowded \cup {e.request : e \in left}
          /\ \/ /\ Mark({e.request : e \in expired}, Skipped)
                /\ poller' = [poller EXCEPT
                     ![c] = IF ready = {} THEN Idle
                            ELSE [Idle EXCEPT !.phase = "fetch", !.queue = ready,
                                              !.lag = poller[c].lag]]
                /\ UNCHANGED faults
             \/ \E failed \in expired :
                /\ Fault
                /\ Mark({e.request : e \in {f \in expired : f.id < failed.id}}, Skipped)
                /\ poller' = [poller EXCEPT ![c] = Idle]
    /\ UNCHANGED <<world, logs, request, running, stops>>

\* The rows of a round are taken in the order of their ids.
HeadOf(queue) == CHOOSE e \in queue : \A f \in queue : e.id <= f.id

Target(c) == HeadOf(poller[c].queue)

\* Mutant: the round does not end with its last event.
AdvanceOn(c) ==
    poller' = [poller EXCEPT ![c].phase = "fetch", ![c].queue = @ \ {Target(c)},
                             ![c].lines = {}]

Advance(c) ==
    LET rest == poller[c].queue \ {Target(c)}
        next == IF rest = {} THEN [Idle EXCEPT !.due = poller[c].due]
                ELSE [poller[c] EXCEPT !.phase = "fetch", !.queue = rest, !.lines = {}]
    IN poller' = [poller EXCEPT ![c] = next]

\* Docker is asked for the second half; its failure gives the event up.
Fetch(c) ==
    /\ poller[c].phase = "fetch"
    /\ \/ /\ poller' = [poller EXCEPT
               ![c].phase = "store", ![c].verdict = Done,
               ![c].lines = LogsBetween(Target(c).at, Target(c).at + Half)]
          /\ UNCHANGED faults
       \/ /\ Fault
          /\ poller' = [poller EXCEPT ![c].phase = "mark", ![c].verdict = Skipped]
    /\ UNCHANGED <<world, rows, request, running, stops, crowded>>

\* A failure to write leaves the event pending for the next round.
StoreSecondPass(c) ==
    /\ poller[c].phase = "store"
    /\ \/ /\ StoreContainerLogs(Target(c).request, poller[c].lines)
          /\ poller' = [poller EXCEPT ![c].phase = "mark"]
          /\ UNCHANGED faults
       \/ /\ poller[c].lines # {}
          /\ Fault
          /\ Advance(c)
          /\ UNCHANGED logs
    /\ UNCHANGED <<world, events, request, running, stops, crowded>>

MarkLogBackfill(c) ==
    /\ poller[c].phase = "mark"
    /\ \/ Mark({Target(c).request}, poller[c].verdict) /\ UNCHANGED faults
       \/ Fault /\ UNCHANGED events
    /\ Advance(c)
    /\ UNCHANGED <<world, logs, request, running, stops, crowded>>

(***************************************************************************)
(* The process and its environment.                                        *)
(***************************************************************************)

\* The first round does not wait for the ticker.
Start(c) ==
    /\ c \notin running
    /\ running' = running \cup {c}
    /\ poller' = [poller EXCEPT ![c] = Waiting]
    /\ UNCHANGED <<world, rows, request, faults, stops, crowded>>

\* Stop or crash: what was in flight is lost.  On a cancelled context the
\* call to Docker fails, but so does the write that would give the event up.
Stop(c) ==
    /\ c \in running
    /\ stops < MaxStops
    /\ stops' = stops + 1
    /\ running' = running \ {c}
    /\ poller' = [poller EXCEPT ![c] = Idle]
    /\ request' = [r \in Requests |-> IF request[r].by = c THEN Ended ELSE request[r]]
    /\ UNCHANGED <<world, rows, faults, crowded>>

PrintLine ==
    /\ Cardinality(printed) < MaxLines
    /\ clock \notin printed
    /\ printed' = printed \cup {clock}
    /\ UNCHANGED <<clock, rows, request, poller, running, faults, stops, crowded>>

\* A ticker holds one tick at most: a round that outlasts it is followed by
\* another at once.  At MaxTime the clock stands still and the ticker goes on.
Tick ==
    /\ \A c \in running : poller[c].phase # "idle" \/ poller[c].due
                            => poller[c].lag < MaxRound
    /\ \A r \in Requests : request[r].phase \in {"storing", "logging"}
                            => request[r].lag < MaxRound
    /\ clock' = IF clock < MaxTime THEN clock + 1 ELSE clock
    /\ poller' = [c \in Collectors |->
         IF c \notin running THEN poller[c]
         ELSE IF poller[c].phase = "idle" /\ ~poller[c].due THEN Waiting
         ELSE [poller[c] EXCEPT !.due = TRUE, !.lag = @ + 1]]
    /\ request' = [r \in Requests |->
         IF request[r].phase \in {"storing", "logging"}
         THEN [request[r] EXCEPT !.lag = @ + 1] ELSE request[r]]
    /\ UNCHANGED <<printed, rows, running, faults, stops, crowded>>

Handle(r) == StoreEvent(r) \/ StoreFirstPass(r)

Poll(c) ==
    \/ PendingLogBackfills(c) \/ Fetch(c) \/ StoreSecondPass(c) \/ MarkLogBackfill(c)

Next ==
    \/ \E c \in Collectors, r \in Requests : Receive(c, r)
    \/ \E r \in Requests : Handle(r)
    \/ \E c \in Collectors : Poll(c) \/ Start(c) \/ Stop(c)
    \/ PrintLine
    \/ Tick

Spec == Init /\ [][Next]_vars

\* The goroutines of a running collector make progress, and time passes.
\* Nothing restarts a collector.
FairSpec ==
    /\ Spec
    /\ WF_vars(Tick)
    /\ \A r \in Requests : WF_vars(Handle(r))
    /\ \A c \in Collectors : WF_vars(Poll(c))

-------------------------------------------------------------------------------
(***************************************************************************)
(* Properties.                                                             *)
(***************************************************************************)

Captured(r) == {row.line : row \in {l \in logs : l.request = r}}

\* The passes overlap, a round repeats what an earlier one stored before it
\* could mark it, and a line still appears once per event.
NoDuplicateLines == \A row \in logs : row.copy = 0

\* An event is only called filled when its second half is: every line the
\* container printed after the event and before the end of its window is
\* stored, unless the container has printed LineLimit lines since, inside the
\* window or after it.
DoneMeansCaptured ==
    \A e \in events : e.state = Done =>
        LogsBetween(e.at, e.at + Half) \ {e.at + Half} \subseteq Captured(e.request)

\* Done and skipped both mean "do not try again": the verdict is final.
VerdictIsFinal ==
    [][\A e \in events, f \in events' :
        e.request = f.request /\ e.state # Pending => e = f]_vars

\* As long as the collector has stayed up and no call has failed, an event
\* with a container is not given up, unless some round had a full batch of
\* others before it.  For clients that are not MaxAge late.
HealthyMeansFilled ==
    faults = 0 /\ stops = 0 =>
        \A e \in events : e.named /\ e.request \notin crowded => e.state # Skipped

InQueue(r) == \E e \in events : e.request = r /\ e.state = Pending

\* If some collector stays up, every event leaves the queue: rounds that fail
\* are repeated, and an event ahead in the queue only delays the others.
EventuallySettled ==
    (\E c \in Collectors : <>[](c \in running)) =>
        \A r \in Requests : InQueue(r) ~> ~InQueue(r)
===============================================================================
