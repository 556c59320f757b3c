-------------------------- MODULE LogBackfillProofs ---------------------------
(***************************************************************************)
(* The two passes never store a line twice, and an event is only called    *)
(* filled when its second half is stored, for any number of collectors,    *)
(* events, failures, stops and crashes.  With one collector a verdict is   *)
(* final; two of them on one database may overrule each other.  Without    *)
(* failures and stops no event with a container is given up but one that   *)
(* has waited behind a full batch.                                         *)
(***************************************************************************)
EXTENDS LogBackfill, FiniteSetTheorems, WellFoundedInduction, TLAPS

\* What the second pass has to bring for an event.
SecondHalf(e) == LogsBetween(e.at, e.at + Half) \ {e.at + Half}

\* The window of `e` is over and its second half is stored.
Filled(e) ==
    /\ e.at + Half <= clock
    /\ SecondHalf(e) \subseteq Captured(e.request)

EventsOK ==
    /\ IsFiniteSet(events)
    /\ \A e, f \in events : e.request = f.request => e = f
    /\ \A r \in Requests : request[r].phase \in {"unsent", "storing"} =>
         \A e \in events : e.request # r
    /\ \A e \in events : e.state = Done => Filled(e)

\* A round works on copies of rows: the rows are still there and their time
\* has not changed, and what the poller holds for the head of its queue is
\* the whole second half.
RoundOK(p) ==
    /\ \A e \in p.queue :
         /\ e.at + Half <= clock
         /\ \E f \in events : f.request = e.request /\ f.at = e.at
    /\ p.phase = "store" => /\ p.verdict = Done
                            /\ SecondHalf(HeadOf(p.queue)) \subseteq p.lines
    /\ p.phase = "mark" => p.verdict \in {Done, Skipped}
    /\ p.phase = "mark" /\ p.verdict = Done =>
         SecondHalf(HeadOf(p.queue)) \subseteq Captured(HeadOf(p.queue).request)

IInv ==
    /\ TypeOK
    /\ NoDuplicateLines
    /\ EventsOK
    /\ \A c \in Collectors : RoundOK(poller[c])

-------------------------------------------------------------------------------

LEMMA PrintedIsFinite == TypeOK => IsFiniteSet(printed)
<1> SUFFICES ASSUME TypeOK PROVE IsFiniteSet(printed)
  OBVIOUS
<1>1. IsFiniteSet(0..clock)
  BY FS_Interval DEF TypeOK
<1> QED
  BY <1>1, FS_Subset DEF TypeOK

\* A non-empty set of naturals has a least element.
LEMMA LeastExists ==
    ASSUME NEW S \in SUBSET Nat, S # {}
    PROVE  \E m \in S : \A k \in S : m <= k
<1>1. PICK m \in S : \A k \in S : ~(<<k, m>> \in OpToRel(<, Nat))
    BY NatLessThanWellFounded, WFMin
<1>2. \A k \in S : ~(k < m)
    BY <1>1 DEF OpToRel
<1> QED BY <1>2

\* The head of a queue is in it.
LEMMA HeadIsInQueue ==
    ASSUME NEW queue \in SUBSET Row, queue # {}
    PROVE  HeadOf(queue) \in queue
<1> DEFINE ids == {e.id : e \in queue}
<1>1. ids \in SUBSET Nat /\ ids # {}
  BY DEF Row
<1> HIDE DEF ids
<1>2. PICK m \in ids : \A k \in ids : m <= k
  BY <1>1, LeastExists
<1>3. PICK e \in queue : \A f \in queue : e.id <= f.id
  BY <1>2 DEF ids
<1> QED
  BY <1>3 DEF HeadOf

\* docker logs returns lines that were printed.
LEMMA LogsWerePrinted ==
    ASSUME NEW since, NEW until
    PROVE  LogsBetween(since, until) \subseteq printed
BY DEF LogsBetween

\* A line printed once the window is over is not in its second half; it only
\* pushes older lines out of the tail.
LEMMA SecondHalfShrinks ==
    ASSUME TypeOK, NEW e \in Row, e.at + Half <= clock,
           printed' \subseteq printed \cup {clock}, printed \subseteq printed'
    PROVE  SecondHalf(e)' \subseteq SecondHalf(e)
<1> DEFINE later(table, l) == {m \in table : m > l}
<1>1. IsFiniteSet(printed) /\ IsFiniteSet(printed')
  <2>1. IsFiniteSet(printed)
    BY PrintedIsFinite
  <2>2. IsFiniteSet(printed \cup {clock})
    BY <2>1, FS_AddElement
  <2> QED
    BY <2>1, <2>2, FS_Subset
<1>2. SUFFICES ASSUME NEW l \in SecondHalf(e)'
               PROVE  l \in SecondHalf(e)
  OBVIOUS
<1>3. /\ l \in printed' /\ e.at <= l /\ l <= e.at + Half /\ l # e.at + Half
      /\ Cardinality(later(printed', l)) < LineLimit
  BY <1>2 DEF SecondHalf, LogsBetween
<1>4. l \in printed
  BY <1>3, BackfillConstants DEF TypeOK, Row
<1>5. later(printed, l) \subseteq later(printed', l)
  OBVIOUS
<1>6. IsFiniteSet(later(printed', l))
  <2>1. later(printed', l) \subseteq printed'
    OBVIOUS
  <2> QED
    BY <1>1, <2>1, FS_Subset
<1>7. /\ Cardinality(later(printed, l)) <= Cardinality(later(printed', l))
      /\ Cardinality(later(printed, l)) \in Nat
      /\ Cardinality(later(printed', l)) \in Nat
  <2>1. IsFiniteSet(later(printed, l))
    BY <1>5, <1>6, FS_Subset
  <2> QED
    BY <1>5, <1>6, <2>1, FS_Subset, FS_CardinalityType
<1>8. Cardinality(later(printed, l)) < LineLimit
  BY <1>3, <1>7, BackfillConstants
<1> QED
  BY <1>3, <1>4, <1>8 DEF SecondHalf, LogsBetween

-------------------------------------------------------------------------------

\* What happens elsewhere does not disturb a round: time passes, lines are
\* printed after its windows, log lines are added, rows keep their time.
LEMMA RoundKeeps ==
    ASSUME TypeOK, clock' \in Nat, clock <= clock',
           printed' \subseteq printed \cup {clock}, printed \subseteq printed',
           logs \subseteq logs',
           \A e \in events : \E f \in events' : f.request = e.request /\ f.at = e.at,
           NEW p \in Round, p.phase # "idle" => p.queue # {}, RoundOK(p)
    PROVE  RoundOK(p)'
<1>1. \A e \in p.queue : e \in Row /\ e.at + Half <= clock
  BY DEF RoundOK, Round
<1>2. \A r : Captured(r) \subseteq Captured(r)'
  BY DEF Captured
<1>3. \A e \in p.queue : SecondHalf(e)' \subseteq SecondHalf(e)
  BY <1>1, SecondHalfShrinks
<1>4. p.phase # "idle" => HeadOf(p.queue) \in p.queue
  BY HeadIsInQueue DEF Round
<1>5. \A e \in p.queue : e.at + Half <= clock'
  BY <1>1, BackfillConstants DEF TypeOK, Row
<1>6. \A e \in p.queue : \E f \in events' : f.request = e.request /\ f.at = e.at
  BY DEF RoundOK
<1>7. ASSUME p.phase = "store" PROVE SecondHalf(HeadOf(p.queue))' \subseteq p.lines
  BY <1>3, <1>4, <1>7 DEF RoundOK
<1>8. ASSUME p.phase = "mark", p.verdict = Done
      PROVE  SecondHalf(HeadOf(p.queue))' \subseteq Captured(HeadOf(p.queue).request)'
  BY <1>2, <1>3, <1>4, <1>8 DEF RoundOK
<1> QED
  BY <1>5, <1>6, <1>7, <1>8 DEF RoundOK

\* Nor does it disturb an event that is filled.
LEMMA FilledKeeps ==
    ASSUME TypeOK, clock' \in Nat, clock <= clock',
           printed' \subseteq printed \cup {clock}, printed \subseteq printed',
           logs \subseteq logs',
           NEW e \in Row, Filled(e)
    PROVE  Filled(e)'
<1>1. Captured(e.request) \subseteq Captured(e.request)'
  BY DEF Captured
<1>2. SecondHalf(e)' \subseteq SecondHalf(e)
  BY SecondHalfShrinks DEF Filled
<1>3. e.at + Half <= clock'
  BY BackfillConstants DEF Filled, TypeOK, Row
<1> QED
  BY <1>1, <1>2, <1>3 DEF Filled

\* The events are well kept if their rows stay and no request goes back.
LEMMA EventsKeep ==
    ASSUME TypeOK, EventsOK, clock' \in Nat, clock <= clock',
           printed' \subseteq printed \cup {clock}, printed \subseteq printed',
           logs \subseteq logs', events' = events,
           \A r \in Requests : request'[r].phase \in {"unsent", "storing"} =>
                request[r].phase \in {"unsent", "storing"}
    PROVE  EventsOK'
<1>1. \A e \in events : e.state = Done => Filled(e)'
  BY FilledKeeps DEF EventsOK, TypeOK
<1> QED
  BY <1>1 DEF EventsOK

\* Inserting lines where they do not exist adds no second copy of any.
LEMMA InsertKeeps ==
    ASSUME TypeOK, NoDuplicateLines, NEW r \in Requests,
           NEW lines \in SUBSET printed, StoreContainerLogs(r, lines),
           printed' = printed
    PROVE  /\ logs \subseteq logs'
           /\ logs' \subseteq [request : Requests, line : printed', copy : Nat]
           /\ NoDuplicateLines'
           /\ lines \subseteq Captured(r)'
<1> DEFINE present(l) == {row \in logs : row.request = r /\ row.line = l}
           new == {[request |-> r, line |-> l, copy |-> Cardinality(present(l))] :
                   l \in Fresh(r, lines)}
<1>1. logs' = logs \cup new
  BY DEF StoreContainerLogs
<1>2. \A l \in Fresh(r, lines) : present(l) = {}
  BY DEF Fresh
<1>3. \A l \in Fresh(r, lines) : Cardinality(present(l)) = 0
  BY <1>2, FS_EmptySet
<1>4. new = {[request |-> r, line |-> l, copy |-> 0] : l \in Fresh(r, lines)}
  BY <1>3
<1> HIDE DEF new
<1>5. Fresh(r, lines) \subseteq lines
  BY DEF Fresh
<1>6. logs' \subseteq [request : Requests, line : printed', copy : Nat]
  <2>1. new \subseteq [request : Requests, line : printed', copy : Nat]
    BY <1>4, <1>5
  <2> QED
    BY <1>1, <2>1 DEF TypeOK
<1>7. NoDuplicateLines'
  BY <1>1, <1>4 DEF NoDuplicateLines
<1>8. ASSUME NEW l \in lines PROVE l \in Captured(r)'
  <2>1. CASE l \in Fresh(r, lines)
    <3>1. [request |-> r, line |-> l, copy |-> 0] \in logs'
      BY <2>1, <1>1, <1>4
    <3> QED
      BY <3>1 DEF Captured
  <2>2. CASE l \notin Fresh(r, lines)
    BY <2>2, <1>1 DEF Captured, Fresh
  <2> QED
    BY <2>1, <2>2
<1> QED
  BY <1>1, <1>6, <1>7, <1>8

-------------------------------------------------------------------------------

\* What every step does to the world, and what the lemmas above ask for.
WorldGrows ==
    /\ clock' \in Nat /\ clock <= clock'
    /\ printed \subseteq printed' /\ printed' \subseteq printed \cup {clock}
    /\ logs \subseteq logs'
    /\ \A e \in events : \E f \in events' : f.request = e.request /\ f.at = e.at

\* A step that only changes what handlers and pollers hold.
LEMMA StillWorld == TypeOK /\ UNCHANGED <<world, rows>> => WorldGrows
BY DEF TypeOK, world, rows, WorldGrows

\* The poller of a collector that does not step.
LEMMA OtherRoundKeeps ==
    ASSUME TypeOK, WorldGrows, NEW d \in Collectors, RoundOK(poller[d]),
           poller'[d] = poller[d]
    PROVE  RoundOK(poller[d])'
<1> PICK p : p = poller[d]
  OBVIOUS
<1>1. p \in Round /\ (p.phase # "idle" => p.queue # {})
  BY DEF TypeOK
<1>2. RoundOK(p)'
  BY <1>1, RoundKeeps DEF WorldGrows
<1> QED
  BY <1>2 DEF RoundOK

\* A poller between two calls, or with rows still to fetch.
LEMMA RestingRoundOK ==
    ASSUME NEW q, q.phase \notin {"store", "mark"},
           \A e \in q.queue :
             /\ e.at + Half <= clock'
             /\ \E f \in events' : f.request = e.request /\ f.at = e.at
    PROVE  RoundOK(q)'
BY DEF RoundOK

\* Going on to the next row of a round, or ending it.
LEMMA AdvanceKeeps ==
    ASSUME TypeOK, WorldGrows, NEW c \in Collectors, RoundOK(poller[c]),
           poller[c].phase # "idle", running' = running, printed' = printed,
           Advance(c)
    PROVE  /\ poller' \in [Collectors -> Round]
           /\ poller'[c].phase # "idle" => c \in running' /\ poller'[c].queue # {}
           /\ poller'[c].lines \subseteq printed'
           /\ RoundOK(poller[c])'
           /\ \A d \in Collectors \ {c} : poller'[d] = poller[d]
<1> PICK p : p = poller[c]
  OBVIOUS
<1> PICK q : q = poller'[c]
  OBVIOUS
<1>1. p \in Round /\ p.queue # {} /\ c \in running
  BY DEF TypeOK
<1> DEFINE rest == p.queue \ {HeadOf(p.queue)}
<1>2. rest \in SUBSET Row
  BY <1>1 DEF Round
<1>3. poller' = [poller EXCEPT ![c] =
        IF rest = {} THEN [Idle EXCEPT !.due = p.due]
        ELSE [p EXCEPT !.phase = "fetch", !.queue = rest, !.lines = {}]]
  BY DEF Advance, Target
<1>4. q = IF rest = {} THEN [Idle EXCEPT !.due = p.due]
          ELSE [p EXCEPT !.phase = "fetch", !.queue = rest, !.lines = {}]
  BY <1>3 DEF TypeOK
<1>5. \/ q = [Idle EXCEPT !.due = p.due]
      \/ rest # {} /\ q = [p EXCEPT !.phase = "fetch", !.queue = rest, !.lines = {}]
  BY <1>4
<1> HIDE DEF rest
<1>6. /\ q \in Round /\ q.queue \subseteq rest
      /\ q.phase \in {"idle", "fetch"} /\ q.lines = {}
      /\ q.phase # "idle" => q.queue # {}
  <2>1. 0 \in 0..MaxRound /\ 0 \in 0..2
    BY BackfillConstants
  <2>2. CASE q = [Idle EXCEPT !.due = p.due]
    BY <1>1, <2>1, <2>2 DEF Round, Idle, Pending
  <2>3. CASE /\ rest # {}
             /\ q = [p EXCEPT !.phase = "fetch", !.queue = rest, !.lines = {}]
    BY <1>1, <1>2, <2>3 DEF Round
  <2> QED
    BY <1>5, <2>2, <2>3
<1>7. RoundOK(p)'
  BY <1>1, RoundKeeps DEF WorldGrows
<1>8. \A e \in q.queue :
         /\ e.at + Half <= clock'
         /\ \E f \in events' : f.request = e.request /\ f.at = e.at
  BY <1>6, <1>7 DEF RoundOK, rest
<1>9. RoundOK(q)'
  BY <1>6, <1>8, RestingRoundOK
<1>10. RoundOK(poller[c])'
  BY <1>9 DEF RoundOK
<1>11. poller' \in [Collectors -> Round] /\ \A d \in Collectors \ {c} : poller'[d] = poller[d]
  BY <1>3, <1>4, <1>6 DEF TypeOK
<1> QED
  BY <1>1, <1>6, <1>10, <1>11

\* Marking rows keeps them apart and in time; a row may only be marked done
\* when it is filled.
LEMMA MarkKeeps ==
    ASSUME TypeOK, EventsOK, NEW requests, NEW state \in {Done, Skipped},
           Mark(requests, state), UNCHANGED <<world, logs, request>>,
           state = Done => \A e \in events : e.request \in requests => Filled(e)
    PROVE  EventsOK' /\ events' \subseteq Row /\ WorldGrows
<1> DEFINE N(e) == IF e.request \in requests THEN [e EXCEPT !.state = state] ELSE e
<1>1. events' = {N(e) : e \in events}
  BY DEF Mark
<1>2. \A e \in events : /\ N(e) \in Row
                        /\ N(e).request = e.request
                        /\ N(e).at = e.at
                        /\ N(e).state = state \/ N(e) = e
                        /\ N(e).state = Done /\ state # Done => e.state = Done
                        /\ e.request \notin requests => N(e) = e
  BY DEF TypeOK, Row, Done, Skipped
<1>3. IsFiniteSet(events')
  <2> DEFINE f == [e \in events |-> N(e)]
  <2>1. f \in Surjection(events, events')
    BY <1>1 DEF Surjection
  <2> QED
    BY <2>1, FS_Surjection DEF EventsOK
<1> HIDE DEF N
<1>4. \A e, f \in events' : e.request = f.request => e = f
  BY <1>1, <1>2 DEF EventsOK
<1>5. \A r \in Requests : request'[r].phase \in {"unsent", "storing"} =>
         \A e \in events' : e.request # r
  BY <1>1, <1>2 DEF EventsOK
<1>6. ASSUME NEW g \in events', g.state = Done PROVE Filled(g)'
  <2>1. PICK e \in events : g = N(e)
    BY <1>1
  <2>2. Filled(e)
    <3>1. CASE e.request \in requests /\ state = Done
      BY <3>1
    <3>2. CASE e.request \in requests /\ state # Done
      BY <3>2, <2>1, <1>2, <1>6 DEF EventsOK
    <3>3. CASE e.request \notin requests
      BY <3>3, <2>1, <1>2, <1>6 DEF EventsOK
    <3> QED
      BY <3>1, <3>2, <3>3
  <2>3. Filled(e)'
    BY <2>2, FilledKeeps DEF TypeOK, world
  <2> QED
    BY <2>1, <2>3, <1>2 DEF Filled, SecondHalf
<1>7. EventsOK'
  BY <1>3, <1>4, <1>5, <1>6 DEF EventsOK
<1>8. events' \subseteq Row
  BY <1>1, <1>2
<1>9. WorldGrows
  BY <1>1, <1>2 DEF WorldGrows, world, TypeOK
<1> QED
  BY <1>7, <1>8, <1>9

-------------------------------------------------------------------------------

\* The database is empty and everything is off.
LEMMA InitIInv == Init => IInv
<1> SUFFICES ASSUME Init PROVE IInv
  OBVIOUS
<1>1. 0 \in 0..MaxRound /\ 0 \in 0..2
  BY BackfillConstants
<1>2. Idle \in Round /\ NotSent \in Sending
  BY <1>1 DEF Idle, Round, NotSent, Sending, Pending
<1>3. TypeOK
  BY <1>2 DEF Init, TypeOK, Idle, NotSent
<1>4. EventsOK
  BY FS_EmptySet DEF Init, EventsOK
<1>5. \A c \in Collectors : RoundOK(poller[c])
  BY DEF Init, RoundOK, Idle
<1> QED
  BY <1>3, <1>4, <1>5 DEF IInv, Init, NoDuplicateLines

\* A handler that has ended holds nothing.
LEMMA EndedIsSending ==
    Ended \in Sending /\ Ended.lines = {} /\ Ended.phase = "ended"
<1>1. NotSent \in Sending
  BY DEF NotSent, Sending
<1> QED
  BY <1>1 DEF Ended, NotSent, Sending

\* A step of a handler that stores nothing.
LEMMA ReceiveKeeps ==
    ASSUME IInv, NEW c \in Collectors, NEW r \in Requests, Receive(c, r)
    PROVE  IInv'
<1>1. PICK at \in {clock + offset : offset \in Offsets}, named \in BOOLEAN,
           answers \in BOOLEAN :
        request' = [request EXCEPT ![r] =
            [phase |-> "storing", by |-> c, at |-> at, named |-> named,
             lines |-> IF answers THEN LogsBetween(at - Half, at + Half) ELSE {},
             lag |-> 0]]
  BY DEF Receive
<1> PICK lines : lines = IF answers THEN LogsBetween(at - Half, at + Half) ELSE {}
  OBVIOUS
<1>2. lines \subseteq printed
  BY LogsWerePrinted
<1>3. at \in Int /\ lines \in SUBSET Nat
  <2>1. clock \in Nat /\ printed \in SUBSET Nat
    BY DEF IInv, TypeOK
  <2>2. PICK offset \in Offsets : at = clock + offset
    OBVIOUS
  <2>3. offset \in Int
    BY BackfillConstants
  <2>4. at \in Int
    BY <2>1, <2>2, <2>3
  <2> QED
    BY <1>2, <2>1, <2>4
<1>4. [phase |-> "storing", by |-> c, at |-> at, named |-> named,
       lines |-> lines, lag |-> 0] \in Sending
  BY <1>3 DEF Sending
<1>5. /\ request' \in [Requests -> Sending]
      /\ \A s \in Requests : request'[s].lines \subseteq printed
      /\ \A s \in Requests : request'[s].phase \in {"unsent", "storing"} =>
            request[s].phase \in {"unsent", "storing"}
  BY <1>1, <1>2, <1>4 DEF IInv, TypeOK, Receive
<1>6. TypeOK'
  BY <1>5 DEF IInv, TypeOK, Receive, world, rows
<1>7. WorldGrows
  BY StillWorld DEF IInv, Receive
<1>8. EventsOK'
  BY <1>5, <1>7, EventsKeep DEF IInv, WorldGrows, Receive, rows
<1>9. \A d \in Collectors : RoundOK(poller[d])'
  BY <1>7, OtherRoundKeeps DEF IInv, Receive
<1> QED
  BY <1>6, <1>8, <1>9 DEF IInv, NoDuplicateLines, Receive, rows

\* The event of a request that is being stored is not stored yet.
LEMMA StoreEventKeeps ==
    ASSUME IInv, NEW r \in Requests, StoreEvent(r)
    PROVE  IInv'
<1> DEFINE row == [id |-> Cardinality(events) + 1, request |-> r,
                   at |-> request[r].at, named |-> request[r].named,
                   state |-> Pending]
<1>1. CASE /\ events' = events \cup {row}
           /\ request' = [request EXCEPT ![r].phase = "logging"]
  <2>1. Cardinality(events) \in Nat
    BY FS_CardinalityType DEF IInv, EventsOK
  <2>2. row \in Row
    <3> PICK named : named = request[r].named
      OBVIOUS
    <3>1. request[r].at \in Int /\ named \in BOOLEAN
      BY DEF IInv, TypeOK, Sending
    <3> QED
      BY <2>1, <3>1 DEF Row, Pending
  <2> HIDE DEF row
  <2>3. row.request = r /\ row.state = Pending
    BY DEF row
  <2>4. \A e \in events : e.request # r
    BY DEF IInv, EventsOK, StoreEvent
  <2>5. TypeOK'
    BY <1>1, <2>2 DEF IInv, TypeOK, Sending, StoreEvent, world
  <2>6. WorldGrows
    BY <1>1 DEF WorldGrows, StoreEvent, world, IInv, TypeOK
  <2>7. EventsOK'
    <3>1. IsFiniteSet(events')
      BY <1>1, FS_AddElement DEF IInv, EventsOK
    <3>2. \A e, f \in events' : e.request = f.request => e = f
      BY <1>1, <2>3, <2>4 DEF IInv, EventsOK
    <3>3. \A s \in Requests : request'[s].phase \in {"unsent", "storing"} =>
            \A e \in events' : e.request # s
      BY <1>1, <2>3 DEF IInv, EventsOK, TypeOK, Sending
    <3>4. \A e \in events' : e.state = Done => e \in events
      BY <1>1, <2>3 DEF Pending, Done
    <3>5. \A e \in events' : e.state = Done => Filled(e)'
      BY <2>6, <3>4, FilledKeeps DEF IInv, EventsOK, TypeOK, WorldGrows
    <3> QED
      BY <3>1, <3>2, <3>3, <3>5 DEF EventsOK
  <2>8. \A d \in Collectors : RoundOK(poller[d])'
    BY <2>6, OtherRoundKeeps DEF IInv, StoreEvent
  <2> QED
    BY <2>5, <2>7, <2>8 DEF IInv, NoDuplicateLines, StoreEvent
<1>2. CASE events' = events /\ request' = [request EXCEPT ![r] = Ended]
  <2>1. Ended \in Sending /\ Ended.lines = {} /\ Ended.phase = "ended"
    BY EndedIsSending
  <2>2. TypeOK'
    BY <1>2, <2>1 DEF IInv, TypeOK, StoreEvent, world
  <2>3. WorldGrows
    BY <1>2, StillWorld DEF IInv, StoreEvent, rows
  <2>4. EventsOK'
    BY <1>2, <2>1, <2>3, EventsKeep DEF IInv, WorldGrows, TypeOK
  <2>5. \A d \in Collectors : RoundOK(poller[d])'
    BY <2>3, OtherRoundKeeps DEF IInv, StoreEvent
  <2> QED
    BY <2>2, <2>4, <2>5 DEF IInv, NoDuplicateLines, StoreEvent
<1> QED
  BY <1>1, <1>2 DEF StoreEvent

\* The first pass inserts what the handler was given by Docker.
LEMMA StoreFirstPassKeeps ==
    ASSUME IInv, NEW r \in Requests, StoreFirstPass(r)
    PROVE  IInv'
<1>1. Ended \in Sending /\ Ended.lines = {} /\ Ended.phase = "ended"
  BY EndedIsSending
<1>2. /\ logs \subseteq logs'
      /\ logs' \subseteq [request : Requests, line : printed', copy : Nat]
      /\ NoDuplicateLines'
  <2>1. CASE StoreContainerLogs(r, request[r].lines)
    BY <2>1, InsertKeeps DEF IInv, TypeOK, StoreFirstPass, world
  <2>2. CASE logs' = logs
    BY <2>2 DEF IInv, TypeOK, StoreFirstPass, world, NoDuplicateLines
  <2> QED
    BY <2>1, <2>2 DEF StoreFirstPass
<1>3. TypeOK'
  BY <1>1, <1>2 DEF IInv, TypeOK, StoreFirstPass, world
<1>4. WorldGrows
  BY <1>2 DEF WorldGrows, IInv, TypeOK, StoreFirstPass, world
<1>5. EventsOK'
  BY <1>1, <1>4, EventsKeep DEF IInv, WorldGrows, TypeOK, StoreFirstPass
<1>6. \A d \in Collectors : RoundOK(poller[d])'
  BY <1>4, OtherRoundKeeps DEF IInv, StoreFirstPass
<1> QED
  BY <1>2, <1>3, <1>5, <1>6 DEF IInv

-------------------------------------------------------------------------------

\* A round begins with rows whose window is over.
LEMMA PendingLogBackfillsKeeps ==
    ASSUME IInv, NEW c \in Collectors, PendingLogBackfills(c)
    PROVE  IInv'
<1> DEFINE ready == {e \in BatchOf(PendingRows) : ~Expired(e) /\ ~WindowOpen(e)}
<1>1. PICK requests, q :
        /\ Mark(requests, Skipped)
        /\ poller' = [poller EXCEPT ![c] = q]
        /\ \/ q = Idle
           \/ /\ ready # {}
              /\ q = [Idle EXCEPT !.phase = "fetch", !.queue = ready,
                                  !.lag = poller[c].lag]
  BY DEF PendingLogBackfills
<1>2. UNCHANGED <<world, logs, request, running, stops>> /\ c \in running
  BY DEF PendingLogBackfills
<1>3. EventsOK' /\ events' \subseteq Row /\ WorldGrows
  BY <1>1, <1>2, MarkKeeps DEF IInv, Skipped, Done
<1>4. ready \subseteq events
  BY DEF BatchOf, PendingRows
<1>5. \A e \in ready : e \in Row /\ e.at + Half <= clock
  BY <1>4, BackfillConstants DEF IInv, TypeOK, Row, WindowOpen
<1>6. poller[c].lag \in 0..MaxRound
  BY DEF IInv, TypeOK, Round
<1>7. 0 \in 0..MaxRound /\ 0 \in 0..2
  BY BackfillConstants
<1> HIDE DEF ready
<1>8. /\ q \in Round /\ q.lines = {} /\ q.queue \subseteq ready
      /\ q.phase \in {"idle", "fetch"}
      /\ q.phase # "idle" => q.queue # {}
  <2>1. CASE q = Idle
    BY <1>7, <2>1 DEF Idle, Round, Pending
  <2>2. CASE /\ ready # {}
             /\ q = [Idle EXCEPT !.phase = "fetch", !.queue = ready,
                                 !.lag = poller[c].lag]
    <3>1. ready \in SUBSET Row
      BY <1>5
    <3> QED
      BY <1>6, <1>7, <2>2, <3>1 DEF Idle, Round, Pending
  <2> QED
    BY <1>1, <2>1, <2>2
<1>9. TypeOK'
  <2>1. crowded' \subseteq Requests
    <3>1. PendingRows \subseteq Row
      BY DEF PendingRows, IInv, TypeOK
    <3>2. \A e \in PendingRows : e.request \in Requests
      BY <3>1 DEF Row
    <3>3. crowded \subseteq Requests
      BY DEF IInv, TypeOK
    <3> QED
      BY <3>2, <3>3 DEF PendingLogBackfills
  <2> QED
    BY <1>1, <1>2, <1>3, <1>8, <2>1 DEF IInv, TypeOK, world
<1>10. RoundOK(q)'
  <2>1. \A e \in q.queue :
          /\ e.at + Half <= clock'
          /\ \E f \in events' : f.request = e.request /\ f.at = e.at
    BY <1>2, <1>3, <1>4, <1>5, <1>8 DEF world, WorldGrows
  <2> QED
    BY <1>8, <2>1, RestingRoundOK
<1>11. \A d \in Collectors : RoundOK(poller[d])'
  <2> SUFFICES ASSUME NEW d \in Collectors PROVE RoundOK(poller[d])'
    OBVIOUS
  <2>1. CASE d = c
    BY <1>1, <1>10, <2>1 DEF IInv, TypeOK, RoundOK
  <2>2. CASE d # c
    BY <1>1, <1>3, <2>2, OtherRoundKeeps DEF IInv, TypeOK
  <2> QED
    BY <2>1, <2>2
<1> QED
  BY <1>2, <1>3, <1>9, <1>11 DEF IInv, NoDuplicateLines

\* The target of a poller that works is a row of its queue, whose event is
\* still there.
LEMMA TargetIsKnown ==
    ASSUME IInv, NEW c \in Collectors, poller[c].phase # "idle"
    PROVE  /\ Target(c) \in Row /\ Target(c) \in poller[c].queue
           /\ Target(c).at + Half <= clock
           /\ \A e \in events : e.request = Target(c).request => e.at = Target(c).at
<1>1. poller[c].queue \in SUBSET Row /\ poller[c].queue # {}
  BY DEF IInv, TypeOK, Round
<1>2. Target(c) \in poller[c].queue
  BY <1>1, HeadIsInQueue DEF Target
<1>3. Target(c).at + Half <= clock
  BY <1>2 DEF IInv, RoundOK
<1>4. \E f \in events : f.request = Target(c).request /\ f.at = Target(c).at
  BY <1>2 DEF IInv, RoundOK
<1> QED
  BY <1>1, <1>2, <1>3, <1>4 DEF IInv, EventsOK

\* Docker returns the whole second half, or the event will be given up.
LEMMA FetchKeeps ==
    ASSUME IInv, NEW c \in Collectors, Fetch(c)
    PROVE  IInv'
<1> PICK p : p = poller[c]
  OBVIOUS
<1>1. /\ p \in Round /\ p.queue # {} /\ p.lines \subseteq printed
      /\ c \in running /\ RoundOK(p)
  BY DEF IInv, TypeOK, Fetch, RoundOK
<1> PICK got : got = LogsBetween(Target(c).at, Target(c).at + Half)
  OBVIOUS
<1>2. got \subseteq printed /\ got \in SUBSET Nat
  <2>1. got \subseteq printed
    BY LogsWerePrinted
  <2>2. printed \subseteq Nat
    BY DEF IInv, TypeOK
  <2> QED
    BY <2>1, <2>2
<1> PICK q : q = poller'[c]
  OBVIOUS
<1>3. /\ poller' = [poller EXCEPT ![c] = q]
      /\ \/ q = [p EXCEPT !.phase = "store", !.verdict = Done, !.lines = got]
         \/ q = [p EXCEPT !.phase = "mark", !.verdict = Skipped]
  <2>1. c \in DOMAIN poller
    BY DEF IInv, TypeOK
  <2>2. CASE poller' = [poller EXCEPT
               ![c].phase = "store", ![c].verdict = Done,
               ![c].lines = LogsBetween(Target(c).at, Target(c).at + Half)]
    BY <2>1, <2>2
  <2>3. CASE poller' = [poller EXCEPT ![c].phase = "mark", ![c].verdict = Skipped]
    BY <2>1, <2>3
  <2> QED
    BY <2>2, <2>3 DEF Fetch
<1>4. /\ q \in Round /\ q.queue = p.queue /\ q.lines \subseteq printed
      /\ \/ q.phase = "store" /\ q.lines = got /\ q.verdict = Done
         \/ q.phase = "mark" /\ q.verdict = Skipped
  <2>1. 1 \in 0..2 /\ 2 \in 0..2
    OBVIOUS
  <2>2. CASE q = [p EXCEPT !.phase = "store", !.verdict = Done, !.lines = got]
    BY <1>1, <1>2, <2>1, <2>2 DEF Round, Done
  <2>3. CASE q = [p EXCEPT !.phase = "mark", !.verdict = Skipped]
    BY <1>1, <2>1, <2>3 DEF Round, Skipped
  <2> QED
    BY <1>3, <2>2, <2>3
<1>5. UNCHANGED <<world, rows, request, running, stops, crowded>>
  BY DEF Fetch
<1>6. TypeOK'
  BY <1>1, <1>3, <1>4, <1>5 DEF IInv, TypeOK, world, rows
<1>7. WorldGrows
  BY <1>5, StillWorld DEF IInv
<1>8. RoundOK(q)
  <2>1. Target(c) = HeadOf(q.queue)
    BY <1>4 DEF Target
  <2>2. SecondHalf(HeadOf(q.queue)) \subseteq got
    BY <2>1 DEF SecondHalf
  <2> QED
    BY <1>1, <1>4, <2>2 DEF RoundOK, Done, Skipped
<1>9. RoundOK(q)'
  BY <1>1, <1>4, <1>7, <1>8, RoundKeeps DEF IInv, WorldGrows
<1>10. \A d \in Collectors : RoundOK(poller[d])'
  <2> SUFFICES ASSUME NEW d \in Collectors PROVE RoundOK(poller[d])'
    OBVIOUS
  <2>1. CASE d = c
    BY <1>3, <1>9, <2>1 DEF IInv, TypeOK, RoundOK
  <2>2. CASE d # c
    BY <1>3, <1>7, <2>2, OtherRoundKeeps DEF IInv, TypeOK
  <2> QED
    BY <2>1, <2>2
<1>11. EventsOK'
  BY <1>5, <1>7, EventsKeep DEF IInv, WorldGrows, rows
<1> QED
  BY <1>5, <1>6, <1>10, <1>11 DEF IInv, NoDuplicateLines, rows

\* Either the lines of the second pass are inserted, or the row is left for
\* another round.
LEMMA StoreSecondPassKeeps ==
    ASSUME IInv, NEW c \in Collectors, StoreSecondPass(c)
    PROVE  IInv'
<1> PICK p : p = poller[c]
  OBVIOUS
<1>1. /\ p \in Round /\ p.queue # {} /\ p.lines \in SUBSET printed
      /\ p.phase = "store" /\ c \in running /\ RoundOK(p)
  BY DEF IInv, TypeOK, StoreSecondPass, RoundOK
<1>2. UNCHANGED <<world, events, request, running, stops, crowded>>
  BY DEF StoreSecondPass
<1> PICK r : r = Target(c).request
  OBVIOUS
<1>3. r = HeadOf(p.queue).request /\ r \in Requests
  BY <1>1, TargetIsKnown DEF Target, Row
<1>4. CASE /\ StoreContainerLogs(r, p.lines)
           /\ poller' = [poller EXCEPT ![c].phase = "mark"]
  <2>1. /\ logs \subseteq logs'
        /\ logs' \subseteq [request : Requests, line : printed', copy : Nat]
        /\ NoDuplicateLines'
        /\ p.lines \subseteq Captured(r)'
    BY <1>1, <1>2, <1>3, <1>4, InsertKeeps DEF IInv, world
  <2>2. WorldGrows
    BY <1>2, <2>1 DEF WorldGrows, IInv, TypeOK, world
  <2> PICK q : q = poller'[c]
    OBVIOUS
  <2>3. q = [p EXCEPT !.phase = "mark"] /\ poller' = [poller EXCEPT ![c] = q]
    BY <1>4 DEF IInv, TypeOK
  <2>4. /\ q \in Round /\ q.queue = p.queue /\ q.lines = p.lines
        /\ q.phase = "mark" /\ q.verdict = p.verdict
    BY <1>1, <2>3 DEF Round
  <2>5. TypeOK'
    BY <1>1, <1>2, <2>1, <2>3, <2>4 DEF IInv, TypeOK, world
  <2>6. RoundOK(p)'
    BY <1>1, <2>2, RoundKeeps DEF IInv, WorldGrows
  <2>7. RoundOK(q)'
    BY <1>1, <1>3, <2>1, <2>4, <2>6 DEF RoundOK
  <2>8. \A d \in Collectors : RoundOK(poller[d])'
    <3> SUFFICES ASSUME NEW d \in Collectors PROVE RoundOK(poller[d])'
      OBVIOUS
    <3>1. CASE d = c
      BY <2>7, <3>1 DEF RoundOK
    <3>2. CASE d # c
      BY <2>2, <2>3, <3>2, OtherRoundKeeps DEF IInv, TypeOK
    <3> QED
      BY <3>1, <3>2
  <2>9. EventsOK'
    BY <1>2, <2>2, EventsKeep DEF IInv, WorldGrows
  <2> QED
    BY <2>1, <2>5, <2>8, <2>9 DEF IInv
<1>5. CASE Advance(c) /\ logs' = logs
  <2>1. WorldGrows
    BY <1>2, <1>5, StillWorld DEF IInv, rows
  <2>2. /\ poller' \in [Collectors -> Round]
        /\ poller'[c].phase # "idle" => c \in running' /\ poller'[c].queue # {}
        /\ poller'[c].lines \subseteq printed'
        /\ RoundOK(poller[c])'
        /\ \A d \in Collectors \ {c} : poller'[d] = poller[d]
    <3>1. RoundOK(poller[c]) /\ poller[c].phase # "idle"
      BY <1>1 DEF IInv, StoreSecondPass
    <3> QED
      BY <1>2, <1>5, <2>1, <3>1, AdvanceKeeps DEF IInv, world
  <2>3. TypeOK'
    BY <1>2, <1>5, <2>2 DEF IInv, TypeOK, world
  <2>4. \A d \in Collectors : RoundOK(poller[d])'
    BY <2>1, <2>2, OtherRoundKeeps DEF IInv
  <2>5. EventsOK'
    BY <1>2, <2>1, EventsKeep DEF IInv, WorldGrows
  <2> QED
    BY <1>5, <2>3, <2>4, <2>5 DEF IInv, NoDuplicateLines
<1> QED
  BY <1>4, <1>5 DEF StoreSecondPass

\* A row is marked done when what the poller held for it is stored.
LEMMA MarkLogBackfillKeeps ==
    ASSUME IInv, NEW c \in Collectors, MarkLogBackfill(c)
    PROVE  IInv'
<1> PICK p : p = poller[c]
  OBVIOUS
<1> PICK verdict : verdict = p.verdict
  OBVIOUS
<1>1. UNCHANGED <<world, logs, request, running, stops, crowded>> /\ Advance(c)
  BY DEF MarkLogBackfill
<1>2. /\ RoundOK(poller[c]) /\ RoundOK(p)
      /\ p.phase = "mark" /\ poller[c].phase # "idle"
      /\ verdict \in {Done, Skipped}
  BY DEF IInv, MarkLogBackfill, RoundOK
<1>3. ASSUME verdict = Done, NEW e \in events, e.request = Target(c).request
      PROVE  Filled(e)
  <2>1. e.at = Target(c).at /\ Target(c).at + Half <= clock
    BY <1>2, <1>3, TargetIsKnown
  <2>2. SecondHalf(Target(c)) \subseteq Captured(Target(c).request)
    BY <1>2, <1>3 DEF RoundOK, Target
  <2> QED
    BY <1>3, <2>1, <2>2 DEF Filled, SecondHalf
<1>4. EventsOK' /\ events' \subseteq Row /\ WorldGrows
  <2>1. CASE Mark({Target(c).request}, verdict)
    BY <1>1, <1>2, <1>3, <2>1, MarkKeeps DEF IInv
  <2>2. CASE events' = events
    <3>1. WorldGrows
      BY <1>1, <2>2, StillWorld DEF IInv, rows
    <3> QED
      BY <1>1, <2>2, <3>1, EventsKeep DEF IInv, WorldGrows, TypeOK
  <2> QED
    BY <2>1, <2>2 DEF MarkLogBackfill
<1>5. /\ poller' \in [Collectors -> Round]
      /\ poller'[c].phase # "idle" => c \in running' /\ poller'[c].queue # {}
      /\ poller'[c].lines \subseteq printed'
      /\ RoundOK(poller[c])'
      /\ \A d \in Collectors \ {c} : poller'[d] = poller[d]
  BY <1>1, <1>2, <1>4, AdvanceKeeps DEF IInv, world
<1>6. TypeOK'
  BY <1>1, <1>4, <1>5 DEF IInv, TypeOK, world
<1>7. \A d \in Collectors : RoundOK(poller[d])'
  BY <1>4, <1>5, OtherRoundKeeps DEF IInv
<1> QED
  BY <1>1, <1>4, <1>6, <1>7 DEF IInv, NoDuplicateLines

-------------------------------------------------------------------------------

\* A poller that does nothing, whether its ticker has fired or not.
LEMMA IdleIsRound ==
    ASSUME NEW q \in {Idle, Waiting}
    PROVE  q \in Round /\ q.phase = "idle" /\ q.queue = {} /\ q.lines = {}
<1>1. 0 \in 0..MaxRound /\ 0 \in 0..2
  BY BackfillConstants
<1>2. Idle \in Round /\ Idle.phase = "idle" /\ Idle.queue = {} /\ Idle.lines = {}
  BY <1>1 DEF Idle, Round, Pending
<1>3. /\ Waiting \in Round /\ Waiting.phase = "idle" /\ Waiting.queue = {}
      /\ Waiting.lines = {}
  BY <1>2 DEF Waiting, Round
<1> QED
  BY <1>2, <1>3

\* A collector starts with nothing to do.
LEMMA StartKeeps ==
    ASSUME IInv, NEW c \in Collectors, Start(c)
    PROVE  IInv'
<1>1. WorldGrows
  BY StillWorld DEF IInv, Start
<1>2. /\ Waiting \in Round /\ Waiting.phase = "idle" /\ Waiting.queue = {}
      /\ Waiting.lines = {}
  BY IdleIsRound
<1>3. TypeOK'
  BY <1>2 DEF IInv, TypeOK, Start, world, rows
<1>4. \A d \in Collectors : RoundOK(poller[d])'
  <2> SUFFICES ASSUME NEW d \in Collectors PROVE RoundOK(poller[d])'
    OBVIOUS
  <2>1. CASE d = c
    BY <1>2, <2>1 DEF IInv, TypeOK, RoundOK, Start
  <2>2. CASE d # c
    BY <1>1, <2>2, OtherRoundKeeps DEF IInv, TypeOK, Start
  <2> QED
    BY <2>1, <2>2
<1>5. EventsOK'
  BY <1>1, EventsKeep DEF IInv, WorldGrows, Start, rows
<1> QED
  BY <1>3, <1>4, <1>5 DEF IInv, NoDuplicateLines, Start, rows

\* What a collector held is lost when it stops; the rows are not.
LEMMA StopKeeps ==
    ASSUME IInv, NEW c \in Collectors, Stop(c)
    PROVE  IInv'
<1>1. WorldGrows
  BY StillWorld DEF IInv, Stop
<1>2. /\ Idle \in Round /\ Idle.phase = "idle" /\ Idle.queue = {}
      /\ Idle.lines = {}
  BY IdleIsRound
<1>3. Ended \in Sending /\ Ended.lines = {} /\ Ended.phase = "ended"
  BY EndedIsSending
<1>4. \A r \in Requests : request'[r] \in {request[r], Ended}
  BY DEF Stop
<1>5. /\ request' \in [Requests -> Sending]
      /\ \A r \in Requests : request'[r].lines \subseteq printed
      /\ \A r \in Requests : request'[r].phase \in {"unsent", "storing"} =>
            request[r].phase \in {"unsent", "storing"}
  <2>1. request' = [r \in Requests |-> request'[r]]
    BY DEF Stop
  <2>2. \A r \in Requests : request[r] \in Sending /\ request[r].lines \subseteq printed
    BY DEF IInv, TypeOK
  <2> QED
    BY <1>3, <1>4, <2>1, <2>2
<1>6. TypeOK'
  BY <1>2, <1>5 DEF IInv, TypeOK, Stop, world, rows
<1>7. \A d \in Collectors : RoundOK(poller[d])'
  <2> SUFFICES ASSUME NEW d \in Collectors PROVE RoundOK(poller[d])'
    OBVIOUS
  <2>1. CASE d = c
    BY <1>2, <2>1 DEF IInv, TypeOK, RoundOK, Stop
  <2>2. CASE d # c
    BY <1>1, <2>2, OtherRoundKeeps DEF IInv, TypeOK, Stop
  <2> QED
    BY <2>1, <2>2
<1>8. EventsOK'
  BY <1>1, <1>5, EventsKeep DEF IInv, WorldGrows, Stop, rows
<1> QED
  BY <1>6, <1>7, <1>8 DEF IInv, NoDuplicateLines, Stop, rows

\* A line is printed now, when every window that matters is over.
LEMMA PrintLineKeeps ==
    ASSUME IInv, PrintLine
    PROVE  IInv'
<1>1. WorldGrows
  BY DEF WorldGrows, PrintLine, IInv, TypeOK, rows
<1>2. printed' \subseteq 0..clock'
  <2>1. clock \in 0..clock
    BY DEF IInv, TypeOK
  <2> QED
    BY <2>1 DEF PrintLine, IInv, TypeOK
<1>3. logs' \subseteq [request : Requests, line : printed', copy : Nat]
  BY <1>1 DEF PrintLine, IInv, TypeOK, rows, WorldGrows
<1>4. TypeOK'
  BY <1>1, <1>2, <1>3 DEF PrintLine, IInv, TypeOK, rows, WorldGrows
<1>5. \A d \in Collectors : RoundOK(poller[d])'
  BY <1>1, OtherRoundKeeps DEF IInv, PrintLine
<1>6. EventsOK'
  BY <1>1, EventsKeep DEF IInv, WorldGrows, PrintLine, rows
<1> QED
  BY <1>4, <1>5, <1>6 DEF IInv, NoDuplicateLines, PrintLine, rows

\* Time passes and tickers fire; nothing else changes in a round.
LEMMA TickKeeps ==
    ASSUME IInv, Tick
    PROVE  IInv'
<1>1. /\ clock' \in Nat /\ clock <= clock'
      /\ UNCHANGED <<printed, rows, running, faults, stops, crowded>>
  <2>1. clock \in Nat /\ MaxTime \in Nat
    BY BackfillConstants DEF IInv, TypeOK
  <2>2. clock' = IF clock < MaxTime THEN clock + 1 ELSE clock
    BY DEF Tick
  <2>3. clock' \in Nat /\ clock <= clock'
    BY <2>1, <2>2
  <2> QED
    BY <2>3 DEF Tick
<1>2. WorldGrows
  BY <1>1 DEF WorldGrows, rows
<1>3. ASSUME NEW d \in Collectors
      PROVE  /\ poller'[d] \in Round
             /\ poller'[d].phase # "idle" => d \in running /\ poller'[d].queue # {}
             /\ poller'[d].lines \subseteq printed
             /\ RoundOK(poller[d])'
  <2> PICK p : p = poller[d]
    OBVIOUS
  <2> PICK q : q = poller'[d]
    OBVIOUS
  <2>1. /\ p \in Round /\ RoundOK(p) /\ p.lines \subseteq printed
        /\ p.phase # "idle" => d \in running /\ p.queue # {}
    BY DEF IInv, TypeOK, RoundOK
  <2>2. RoundOK(p)'
    BY <1>2, <2>1, RoundKeeps DEF IInv, WorldGrows
  <2>3. \/ q = p
        \/ q = Waiting
        \/ /\ q = [p EXCEPT !.due = TRUE, !.lag = p.lag + 1]
           /\ p.lag < MaxRound
    <3>1. p.due \in BOOLEAN
      BY <2>1 DEF Round
    <3>2. CASE d \notin running
      BY <3>2 DEF Tick
    <3>3. CASE d \in running /\ p.phase = "idle" /\ ~p.due
      BY <3>3 DEF Tick
    <3>4. CASE d \in running /\ ~(p.phase = "idle" /\ ~p.due)
      <4>1. p.lag < MaxRound
        BY <3>4, Zenon DEF Tick
      <4>2. q = [p EXCEPT !.due = TRUE, !.lag = @ + 1]
        BY <3>4, Zenon DEF Tick
      <4> QED
        BY <4>1, <4>2
    <3> QED
      BY <3>1, <3>2, <3>3, <3>4
  <2>4. CASE q = p
    BY <1>1, <2>1, <2>2, <2>4 DEF RoundOK
  <2>5. CASE q = Waiting
    <3>1. q \in Round /\ q.phase = "idle" /\ q.queue = {} /\ q.lines = {}
      BY <2>5, IdleIsRound
    <3> QED
      BY <3>1 DEF RoundOK
  <2>6. CASE /\ q = [p EXCEPT !.due = TRUE, !.lag = p.lag + 1]
             /\ p.lag < MaxRound
    <3>1. p.lag + 1 \in 0..MaxRound
      BY <2>1, <2>6, BackfillConstants DEF Round
    <3>2. /\ q \in Round /\ q.phase = p.phase /\ q.queue = p.queue
          /\ q.lines = p.lines /\ q.verdict = p.verdict
      BY <2>1, <2>6, <3>1 DEF Round
    <3> QED
      BY <2>1, <2>2, <3>2 DEF RoundOK
  <2> QED
    BY <2>3, <2>4, <2>5, <2>6
<1>4. ASSUME NEW r \in Requests
      PROVE  /\ request'[r] \in Sending
             /\ request'[r].lines \subseteq printed
             /\ request'[r].phase = request[r].phase
  <2> PICK s : s = request[r]
    OBVIOUS
  <2>1. s \in Sending /\ s.lines \subseteq printed
    BY DEF IInv, TypeOK
  <2>2. request'[r] = s \/ request'[r] = [s EXCEPT !.lag = s.lag + 1]
    BY DEF Tick
  <2>3. s.lag + 1 \in Nat
    <3>1. s.lag \in Nat
      BY <2>1, Zenon DEF Sending
    <3> QED
      BY <3>1
  <2>4. CASE request'[r] = [s EXCEPT !.lag = s.lag + 1]
    BY <2>1, <2>3, <2>4 DEF Sending
  <2> QED
    BY <2>1, <2>2, <2>4
<1>5. TypeOK'
  <2>1. poller' \in [Collectors -> Round] /\ request' \in [Requests -> Sending]
    BY <1>3, <1>4 DEF Tick
  <2>2. printed' \subseteq 0..clock'
    BY <1>1 DEF IInv, TypeOK
  <2> QED
    BY <1>1, <1>3, <1>4, <2>1, <2>2 DEF IInv, TypeOK, rows
<1>6. EventsOK'
  BY <1>1, <1>2, <1>4, EventsKeep DEF IInv, WorldGrows, rows
<1> QED
  BY <1>1, <1>3, <1>5, <1>6 DEF IInv, NoDuplicateLines, rows

\* One step per action.
LEMMA NextIInv == IInv /\ [Next]_vars => IInv'
<1> SUFFICES ASSUME IInv, [Next]_vars PROVE IInv'
  OBVIOUS
<1>1. ASSUME NEW c \in Collectors, NEW r \in Requests, Receive(c, r) PROVE IInv'
  BY <1>1, ReceiveKeeps
<1>2. ASSUME NEW r \in Requests, Handle(r) PROVE IInv'
  BY <1>2, StoreEventKeeps, StoreFirstPassKeeps DEF Handle
<1>3. ASSUME NEW c \in Collectors, Poll(c) PROVE IInv'
  BY <1>3, PendingLogBackfillsKeeps, FetchKeeps, StoreSecondPassKeeps,
     MarkLogBackfillKeeps DEF Poll
<1>4. ASSUME NEW c \in Collectors, Start(c) PROVE IInv'
  BY <1>4, StartKeeps
<1>5. ASSUME NEW c \in Collectors, Stop(c) PROVE IInv'
  BY <1>5, StopKeeps
<1>6. CASE PrintLine
  BY <1>6, PrintLineKeeps
<1>7. CASE Tick
  BY <1>7, TickKeeps
<1>8. CASE UNCHANGED vars
  <2>1. UNCHANGED <<clock, printed, events, logs, request, poller, running, crowded>>
    BY <1>8 DEF vars
  <2>2. WorldGrows
    BY <2>1, StillWorld DEF IInv, world, rows
  <2>3. EventsOK'
    BY <2>1, <2>2, EventsKeep DEF IInv, WorldGrows
  <2>4. \A d \in Collectors : RoundOK(poller[d])'
    BY <2>1, <2>2, OtherRoundKeeps DEF IInv
  <2> QED
    BY <2>1, <2>3, <2>4 DEF IInv, TypeOK, NoDuplicateLines
<1> QED
  BY <1>1, <1>2, <1>3, <1>4, <1>5, <1>6, <1>7, <1>8 DEF Next

-------------------------------------------------------------------------------

\* The invariant of the two passes: rows and rounds agree on the events, and
\* what a poller holds or has stored is the second half it was sent for.
THEOREM BackfillInvariant == Spec => []IInv
  BY InitIInv, NextIInv, PTL DEF Spec

\* The rows, handlers and pollers have their types, and only the poller of a
\* running collector is in the middle of a round.
THEOREM BackfillTypes == Spec => []TypeOK
<1>1. IInv => TypeOK
  BY DEF IInv
<1> QED
  BY <1>1, BackfillInvariant, PTL

\* However the two passes, several collectors, repeated rounds and crashes
\* interleave, a line is stored once per event.
THEOREM NeverTwice == Spec => []NoDuplicateLines
<1>1. IInv => NoDuplicateLines
  BY DEF IInv
<1> QED
  BY <1>1, BackfillInvariant, PTL

\* An event is only marked done with the second half of its window stored,
\* and lines printed later do not change that.
THEOREM DoneIsCaptured == Spec => []DoneMeansCaptured
<1>1. IInv => DoneMeansCaptured
  BY DEF IInv, EventsOK, Filled, SecondHalf, DoneMeansCaptured
<1> QED
  BY <1>1, BackfillInvariant, PTL

-------------------------------------------------------------------------------
(***************************************************************************)
(* One collector alone: what its round holds is still pending, for nobody  *)
(* else marks rows, and it takes a row out of its queue as it marks it.    *)
(***************************************************************************)
QueueInv ==
    \A c \in Collectors : \A e \in poller[c].queue :
        e \in events /\ e.state = Pending

Final ==
    \A e \in events, f \in events' :
        e.request = f.request /\ e.state # Pending => e = f

\* Rounds that only get shorter, over rows that stay.
LEMMA QueuesShrink ==
    ASSUME QueueInv, events \subseteq events',
           \A c \in Collectors : poller'[c].queue \subseteq poller[c].queue
    PROVE  QueueInv'
BY DEF QueueInv

\* Marking rows that are pending leaves the verdicts there were, and the rows
\* of other requests.
LEMMA MarkIsFinal ==
    ASSUME IInv, NEW requests, NEW state, Mark(requests, state),
           \A e \in events : e.request \in requests => e.state = Pending
    PROVE  Final /\ \A e \in events : e.request \notin requests => e \in events'
<1>1. ASSUME NEW e \in events, NEW f \in events', e.request = f.request,
             e.state # Pending
      PROVE  e = f
  <2>1. PICK g \in events :
          f = IF g.request \in requests THEN [g EXCEPT !.state = state] ELSE g
    BY DEF Mark
  <2>2. g \in Row
    BY DEF IInv, TypeOK
  <2>3. f.request = g.request
    BY <2>1, <2>2 DEF Row
  <2>4. e = g
    BY <1>1, <2>3 DEF IInv, EventsOK
  <2> QED
    BY <1>1, <2>1, <2>4
<1>2. ASSUME NEW e \in events, e.request \notin requests PROVE e \in events'
  BY <1>2 DEF Mark
<1> QED
  BY <1>1, <1>2 DEF Final

LEMMA PendingIsFinal ==
    ASSUME \A c, d \in Collectors : c = d,
           IInv, QueueInv, NEW c \in Collectors, PendingLogBackfills(c)
    PROVE  Final /\ QueueInv'
<1> DEFINE batch == BatchOf(PendingRows)
           ready == {e \in batch : ~Expired(e) /\ ~WindowOpen(e)}
<1>1. PICK marked, q :
        /\ marked \subseteq {e \in batch : Expired(e)}
        /\ Mark({e.request : e \in marked}, Skipped)
        /\ poller' = [poller EXCEPT ![c] = q]
        /\ q.queue = {} \/ q.queue = ready
  <2>1. Idle.queue = {} /\ [Idle EXCEPT !.phase = "fetch", !.queue = ready,
                                        !.lag = poller[c].lag].queue = ready
    BY DEF Idle
  <2> DEFINE expired == {e \in batch : Expired(e)}
  <2>2. CASE /\ Mark({e.request : e \in expired}, Skipped)
             /\ poller' = [poller EXCEPT
                  ![c] = IF ready = {} THEN Idle
                         ELSE [Idle EXCEPT !.phase = "fetch", !.queue = ready,
                                           !.lag = poller[c].lag]]
    BY <2>1, <2>2
  <2>3. CASE \E failed \in expired :
             /\ Mark({e.request : e \in {f \in expired : f.id < failed.id}}, Skipped)
             /\ poller' = [poller EXCEPT ![c] = Idle]
    <3>1. PICK failed \in expired :
             /\ Mark({e.request : e \in {f \in expired : f.id < failed.id}}, Skipped)
             /\ poller' = [poller EXCEPT ![c] = Idle]
      BY <2>3
    <3>2. {f \in expired : f.id < failed.id} \in SUBSET expired
      OBVIOUS
    <3> QED
      BY <2>1, <3>1, <3>2
  <2> QED
    BY <2>2, <2>3 DEF PendingLogBackfills
<1>2. /\ \A e \in batch : e \in events /\ e.state = Pending
      /\ \A e, f \in events : e.request = f.request => e = f
  BY DEF BatchOf, PendingRows, IInv, EventsOK
<1> DEFINE requests == {e.request : e \in marked}
<1>3. \A e \in events : e.request \in requests => e.state = Pending
  BY <1>1, <1>2
<1>4. \A e \in ready : e.request \notin requests
  BY <1>1, <1>2
<1> HIDE DEF requests
<1>5. Final /\ \A e \in events : e.request \notin requests => e \in events'
  BY <1>1, <1>3, MarkIsFinal DEF requests
<1>6. \A e \in ready : e \in events' /\ e.state = Pending
  BY <1>2, <1>4, <1>5
<1>7. poller'[c].queue = {} \/ poller'[c].queue = ready
  BY <1>1 DEF IInv, TypeOK
<1> QED
  BY <1>5, <1>6, <1>7 DEF QueueInv

LEMMA MarkBackfillIsFinal ==
    ASSUME \A c, d \in Collectors : c = d,
           IInv, QueueInv, NEW c \in Collectors, MarkLogBackfill(c)
    PROVE  Final /\ QueueInv'
<1>1. Target(c) \in poller[c].queue /\ Target(c) \in events /\ Target(c).state = Pending
  BY TargetIsKnown DEF MarkLogBackfill, QueueInv
<1>2. \A e, f \in events : e.request = f.request => e = f
  BY DEF IInv, EventsOK
<1>3. poller'[c].queue = poller[c].queue \ {Target(c)}
  <2> DEFINE rest == poller[c].queue \ {Target(c)}
             next == IF rest = {} THEN [Idle EXCEPT !.due = poller[c].due]
                     ELSE [poller[c] EXCEPT !.phase = "fetch", !.queue = rest,
                                            !.lines = {}]
  <2>1. poller' = [poller EXCEPT ![c] = next]
    BY DEF MarkLogBackfill, Advance
  <2>2. next.queue = rest
    <3>1. poller[c] \in Round
      BY DEF IInv, TypeOK
    <3> HIDE DEF rest
    <3>2. CASE rest = {}
      BY <3>2 DEF Idle
    <3>3. CASE rest # {}
      BY <3>1, <3>3 DEF Round
    <3> QED
      BY <3>2, <3>3
  <2> QED
    BY <2>1, <2>2 DEF IInv, TypeOK
<1>4. Final /\ \A e \in poller'[c].queue : e \in events'
  <2>1. CASE events' = events
    BY <1>2, <1>3, <2>1 DEF Final, QueueInv
  <2>2. CASE Mark({Target(c).request}, poller[c].verdict)
    <3>1. /\ Final
          /\ \A e \in events : e.request \notin {Target(c).request} => e \in events'
      BY <1>1, <1>2, <2>2, MarkIsFinal
    <3> QED
      BY <1>1, <1>2, <1>3, <3>1 DEF QueueInv
  <2> QED
    BY <2>1, <2>2 DEF MarkLogBackfill
<1> QED
  BY <1>3, <1>4 DEF QueueInv

\* A stored event is a new row: its handler stores it once.
LEMMA StoreIsFinal ==
    ASSUME IInv, QueueInv, NEW r \in Requests, StoreEvent(r)
    PROVE  Final /\ QueueInv'
<1>1. \A e, f \in events : e.request = f.request => e = f
  BY DEF IInv, EventsOK
<1>2. \A e \in events : e.request # r
  BY DEF IInv, EventsOK, StoreEvent
<1>3. \/ events' = events
      \/ events' = events \cup {[id |-> Cardinality(events) + 1, request |-> r,
                                at |-> request[r].at, named |-> request[r].named,
                                state |-> Pending]}
  BY DEF StoreEvent
<1>4. Final
  BY <1>1, <1>2, <1>3 DEF Final
<1>5. events \subseteq events' /\ poller' = poller
  BY <1>3 DEF StoreEvent
<1> QED
  BY <1>4, <1>5, QueuesShrink

\* The steps that do not touch the rows.
LEMMA RestIsFinal ==
    ASSUME IInv, QueueInv, events' = events,
           \A c \in Collectors : poller'[c].queue \subseteq poller[c].queue
    PROVE  Final /\ QueueInv'
<1>1. Final
  BY DEF Final, IInv, EventsOK
<1> QED
  BY <1>1, QueuesShrink

LEMMA StepIsFinal ==
    ASSUME \A c, d \in Collectors : c = d, IInv, QueueInv, [Next]_vars
    PROVE  Final /\ QueueInv'
<1>1. ASSUME NEW c \in Collectors, NEW r \in Requests, Receive(c, r)
      PROVE  Final /\ QueueInv'
  BY <1>1, RestIsFinal DEF Receive, rows
<1>2. ASSUME NEW r \in Requests, Handle(r) PROVE Final /\ QueueInv'
  <2>1. CASE StoreFirstPass(r)
    BY <2>1, RestIsFinal DEF StoreFirstPass
  <2> QED
    BY <1>2, <2>1, StoreIsFinal DEF Handle
<1>3. ASSUME NEW c \in Collectors, Fetch(c) PROVE Final /\ QueueInv'
  <2>1. PICK p \in Round : p = poller[c]
    BY DEF IInv, TypeOK
  <2>2. PICK q : poller' = [poller EXCEPT ![c] = q] /\ q.queue = p.queue
    <3>1. CASE poller' = [poller EXCEPT
               ![c].phase = "store", ![c].verdict = Done,
               ![c].lines = LogsBetween(Target(c).at, Target(c).at + Half)]
      <4>1. PICK got : got = LogsBetween(Target(c).at, Target(c).at + Half)
        OBVIOUS
      <4> DEFINE q == [p EXCEPT !.phase = "store", !.verdict = Done, !.lines = got]
      <4>2. poller' = [poller EXCEPT ![c] = q]
        BY <2>1, <3>1, <4>1 DEF IInv, TypeOK
      <4>3. q.queue = p.queue
        BY <2>1 DEF Round
      <4> QED
        BY <4>2, <4>3
    <3>2. CASE poller' = [poller EXCEPT ![c].phase = "mark", ![c].verdict = Skipped]
      <4> DEFINE q == [p EXCEPT !.phase = "mark", !.verdict = Skipped]
      <4>1. poller' = [poller EXCEPT ![c] = q]
        BY <2>1, <3>2 DEF IInv, TypeOK
      <4>2. q.queue = p.queue
        BY <2>1 DEF Round
      <4> QED
        BY <4>1, <4>2
    <3> QED
      BY <1>3, <3>1, <3>2 DEF Fetch
  <2>3. \A d \in Collectors : poller'[d].queue = poller[d].queue
    BY <2>1, <2>2 DEF IInv, TypeOK
  <2> QED
    BY <1>3, <2>3, RestIsFinal DEF Fetch, rows
<1>4. ASSUME NEW c \in Collectors, StoreSecondPass(c) PROVE Final /\ QueueInv'
  <2>1. CASE poller' = [poller EXCEPT ![c].phase = "mark"]
    <3>1. \A d \in Collectors : poller'[d].queue = poller[d].queue
      BY <2>1 DEF IInv, TypeOK, Round
    <3> QED
      BY <1>4, <3>1, RestIsFinal DEF StoreSecondPass
  <2>2. CASE Advance(c)
    <3> DEFINE rest == poller[c].queue \ {Target(c)}
               next == IF rest = {} THEN [Idle EXCEPT !.due = poller[c].due]
                       ELSE [poller[c] EXCEPT !.phase = "fetch", !.queue = rest,
                                              !.lines = {}]
    <3>1. poller' = [poller EXCEPT ![c] = next]
      BY <2>2 DEF Advance
    <3>2. next.queue \subseteq poller[c].queue
      <4>1. poller[c] \in Round
        BY DEF IInv, TypeOK
      <4>2. rest \subseteq poller[c].queue
        OBVIOUS
      <4> HIDE DEF rest
      <4>3. CASE rest = {}
        BY <4>3 DEF Idle
      <4>4. CASE rest # {}
        BY <4>1, <4>2, <4>4 DEF Round
      <4> QED
        BY <4>3, <4>4
    <3> HIDE DEF next
    <3>3. \A d \in Collectors : poller'[d].queue \subseteq poller[d].queue
      BY <3>1, <3>2 DEF IInv, TypeOK
    <3> QED
      BY <1>4, <3>3, RestIsFinal DEF StoreSecondPass
  <2> QED
    BY <1>4, <2>1, <2>2 DEF StoreSecondPass
<1>5. ASSUME NEW c \in Collectors, Start(c) \/ Stop(c) PROVE Final /\ QueueInv'
  <2>1. \A d \in Collectors : poller'[d].queue \subseteq poller[d].queue
    BY <1>5, IdleIsRound DEF Start, Stop, IInv, TypeOK
  <2> QED
    BY <1>5, <2>1, RestIsFinal DEF Start, Stop, rows
<1>6. CASE PrintLine
  BY <1>6, RestIsFinal DEF PrintLine, rows
<1>7. CASE Tick
  <2>1. ASSUME NEW d \in Collectors PROVE poller'[d].queue \subseteq poller[d].queue
    <3>1. PICK p \in Round : p = poller[d]
      BY DEF IInv, TypeOK
    <3>2. \/ poller'[d] = p
          \/ poller'[d] = Waiting
          \/ poller'[d] = [p EXCEPT !.due = TRUE, !.lag = @ + 1]
      BY <1>7, <3>1, Zenon DEF Tick
    <3>3. [p EXCEPT !.due = TRUE, !.lag = @ + 1].queue = p.queue
      BY <3>1 DEF Round
    <3> QED
      BY <3>1, <3>2, <3>3, IdleIsRound
  <2> QED
    BY <1>7, <2>1, RestIsFinal DEF Tick, rows
<1>8. CASE UNCHANGED vars
  BY <1>8, RestIsFinal DEF vars
<1> QED
  BY <1>1, <1>2, <1>3, <1>4, <1>5, <1>6, <1>7, <1>8, PendingIsFinal,
     MarkBackfillIsFinal DEF Next, Poll

\* Done and skipped both mean "do not try again": with one collector on the
\* database a row that has a verdict never changes again, whatever fails and
\* whenever the collector stops (Store.PendingLogBackfills, MarkLogBackfill).
THEOREM VerdictsStand ==
    ASSUME \A c, d \in Collectors : c = d
    PROVE  Spec => VerdictIsFinal
<1>1. Init => QueueInv
  BY DEF Init, QueueInv, Idle
<1>2. IInv /\ QueueInv /\ [Next]_vars => QueueInv'
  BY StepIsFinal
<1>3. IInv /\ QueueInv /\ [Next]_vars => [Final]_vars
  BY StepIsFinal
<1>4. [Final]_vars <=>
      [\A e \in events, f \in events' :
        e.request = f.request /\ e.state # Pending => e = f]_vars
  BY DEF Final
<1> QED
  BY <1>1, <1>2, <1>3, <1>4, BackfillInvariant, PTL DEF Spec, VerdictIsFinal

-------------------------------------------------------------------------------
(***************************************************************************)
(* Nothing fails and nobody stops.  A poller comes back for a row before   *)
(* its deadline: it may be in a round that began without the row, which    *)
(* takes MaxRound ticks at most, and so does the next one, from the tick   *)
(* that asks for it to its end.                                            *)
(***************************************************************************)

\* What may pass until the poller has taken a row whose window is over.
EnoughFor(room) == 2 * MaxRound <= room /\ MaxRound + 1 <= room

\* Captures and rounds are quick beside MaxAge, and clients not too late.
RoundsKeepUp ==
    /\ EnoughFor(MaxAge - Half)
    /\ \A offset \in Offsets : EnoughFor(MaxAge + offset - MaxRound)

\* What poller `p` does at time `now` lets it come for `e` in time.
Reached(now, p, e) ==
    LET limit == e.at + MaxAge
    IN \/ now < e.at + Half
       \/ /\ p.phase # "idle" /\ e \in p.queue
          /\ now + MaxRound - p.lag <= limit
       \/ /\ p.phase = "idle" /\ p.due
          /\ now + MaxRound - p.lag <= limit
       \/ /\ p.phase = "idle" /\ ~p.due
          /\ now + MaxRound + 1 <= limit
       \/ /\ p.phase # "idle"
          /\ now + 2 * MaxRound - p.lag <= limit
          /\ p.due \/ now + MaxRound + 1 <= limit

RowsInTime ==
    \A e \in events : e.named /\ e.request \notin crowded /\ e.state = Pending =>
        \E c \in running : Reached(clock, poller[c], e)

\* Handler `s` will have stored its event early enough.
Early(s) ==
    /\ s.by \in running /\ s.lag <= MaxRound
    /\ EnoughFor(s.at + MaxAge - (clock - s.lag + MaxRound))

RequestsInTime ==
    \A r \in Requests : request[r].phase = "storing" => Early(request[r])

RoundsFill ==
    \A c \in Collectors : poller[c].phase \in {"store", "mark"} => poller[c].verdict = Done

NoneGivenUp ==
    \A e \in events : e.named /\ e.request \notin crowded => e.state # Skipped

AllInTime == NoneGivenUp /\ RoundsFill /\ RowsInTime /\ RequestsInTime

Untroubled == faults = 0 /\ stops = 0

HealthInv ==
    /\ faults \in Nat /\ stops \in Nat
    /\ Untroubled => AllInTime

-------------------------------------------------------------------------------

LEMMA ReachedInTime ==
    ASSUME RoundsKeepUp, NEW now \in Nat, NEW p \in Round, NEW e \in Row, Reached(now, p, e)
    PROVE  now <= e.at + MaxAge
<1>1. e.at \in Int /\ p.lag \in 0..MaxRound
  BY DEF Row, Round
<1>2. Half + 2 * MaxRound <= MaxAge
  BY BackfillConstants DEF RoundsKeepUp, EnoughFor
<1> QED
  BY <1>1, <1>2, BackfillConstants DEF Reached

\* Whatever a poller is doing, there are two rounds left.
LEMMA WithTimeToSpare ==
    ASSUME NEW now \in Nat, NEW p \in Round, NEW e \in Row,
           EnoughFor(e.at + MaxAge - now)
    PROVE  Reached(now, p, e)
<1>1. e.at \in Int /\ p.lag \in 0..MaxRound /\ p.due \in BOOLEAN
  BY DEF Row, Round
<1>2. now + 2 * MaxRound <= e.at + MaxAge /\ now + MaxRound + 1 <= e.at + MaxAge
  BY <1>1, BackfillConstants DEF EnoughFor
<1>3. /\ now + 2 * MaxRound - p.lag <= e.at + MaxAge
      /\ now + MaxRound - p.lag <= e.at + MaxAge
  BY <1>1, <1>2, BackfillConstants
<1> QED
  BY <1>1, <1>2, <1>3 DEF Reached

\* A round goes on.
LEMMA ReachedGoesOn ==
    ASSUME NEW now \in Nat, NEW p \in Round, NEW q \in Round, NEW e \in Row,
           Reached(now, p, e),
           q.lag = p.lag, q.due = p.due, (q.phase = "idle") = (p.phase = "idle"),
           e \in p.queue => e \in q.queue
    PROVE  Reached(now, q, e)
BY DEF Reached

\* A round ends, without having held `e`.
LEMMA ReachedNextTime ==
    ASSUME NEW now \in Nat, NEW p \in Round, NEW e \in Row,
           Reached(now, p, e), p.phase # "idle", e \notin p.queue
    PROVE  Reached(now, [Idle EXCEPT !.due = p.due], e)
<1>1. e.at \in Int /\ p.lag \in 0..MaxRound /\ p.due \in BOOLEAN
  BY DEF Row, Round
<1> DEFINE q == [Idle EXCEPT !.due = p.due]
<1>2. q.phase = "idle" /\ q.due = p.due /\ q.lag = 0
  BY DEF Idle
<1> HIDE DEF q
<1>3. Reached(now, q, e)
  BY <1>1, <1>2, BackfillConstants DEF Reached
<1> QED
  BY <1>3 DEF q

\* The clock ticks, and so does the ticker.
LEMMA ReachedTicks ==
    ASSUME RoundsKeepUp, NEW now \in Nat, NEW next \in Nat, next <= now + 1,
           NEW p \in Round, NEW q \in Round, NEW e \in Row, Reached(now, p, e),
           \/ p.phase = "idle" /\ ~p.due /\ q = Waiting
           \/ /\ p.phase # "idle" \/ p.due
              /\ p.lag < MaxRound
              /\ q = [p EXCEPT !.due = TRUE, !.lag = @ + 1]
    PROVE  Reached(next, q, e)
<1>1. e.at \in Int /\ p.lag \in 0..MaxRound /\ p.due \in BOOLEAN
  BY DEF Row, Round
<1>2. \/ /\ p.phase = "idle" /\ ~p.due
         /\ q.phase = "idle" /\ q.due /\ q.lag = 0
      \/ /\ p.phase # "idle" \/ p.due
         /\ p.lag < MaxRound
         /\ q.phase = p.phase /\ q.due /\ q.lag = p.lag + 1 /\ q.queue = p.queue
  <2>1. Waiting.phase = "idle" /\ Waiting.due /\ Waiting.lag = 0
    BY DEF Waiting, Idle
  <2>2. CASE p.phase = "idle" /\ ~p.due /\ q = Waiting
    BY <2>1, <2>2
  <2>3. CASE /\ p.phase # "idle" \/ p.due
             /\ p.lag < MaxRound
             /\ q = [p EXCEPT !.due = TRUE, !.lag = @ + 1]
    BY <2>3 DEF Round
  <2> QED
    BY <2>1, <2>2, <2>3
<1>3. Half + 2 * MaxRound <= MaxAge /\ Half + MaxRound + 1 <= MaxAge
  BY BackfillConstants DEF RoundsKeepUp, EnoughFor
<1>4. CASE next < e.at + Half
  BY <1>4 DEF Reached
<1>5. CASE now < e.at + Half /\ e.at + Half <= next
  <2>1. next <= e.at + Half
    BY <1>1, <1>5, BackfillConstants
  <2>2. EnoughFor(e.at + MaxAge - next)
    BY <1>1, <1>3, <2>1, BackfillConstants DEF EnoughFor
  <2> QED
    BY <2>2, WithTimeToSpare
<1>6. CASE e.at + Half <= now
  BY <1>1, <1>2, <1>6, BackfillConstants DEF Reached
<1> QED
  BY <1>1, <1>4, <1>5, <1>6, BackfillConstants

\* The rows that wait are in time if they waited before and the pollers will
\* come for them still.
LEMMA RowsStayInTime ==
    ASSUME RowsInTime, running \subseteq running', crowded \subseteq crowded',
           \A e \in events' : e.named /\ e.state = Pending => e \in events,
           \A e \in events' : e.named /\ e.request \notin crowded' /\ e.state = Pending =>
                \A c \in running : Reached(clock, poller[c], e) => Reached(clock', poller'[c], e)
    PROVE  RowsInTime'
BY DEF RowsInTime

LEMMA ReceiveInTime ==
    ASSUME RoundsKeepUp, IInv, AllInTime, NEW c \in Collectors, NEW r \in Requests,
           Receive(c, r)
    PROVE  AllInTime'
<1>1. UNCHANGED <<clock, events, poller, running, crowded>>
  BY DEF Receive, world, rows
<1>2. (NoneGivenUp /\ RoundsFill /\ RowsInTime)'
  BY <1>1 DEF AllInTime, NoneGivenUp, RoundsFill, RowsInTime
<1>a. PICK offset \in Offsets : \E s :
        /\ request' = [request EXCEPT ![r] = s]
        /\ s.by = c /\ s.lag = 0 /\ s.at = clock + offset
  <2>1. PICK at \in {clock + offset : offset \in Offsets}, named \in BOOLEAN,
             answers \in BOOLEAN :
          request' = [request EXCEPT ![r] =
             [phase |-> "storing", by |-> c, at |-> at, named |-> named,
              lines |-> IF answers THEN LogsBetween(at - Half, at + Half) ELSE {},
              lag |-> 0]]
    BY Zenon DEF Receive
  <2>2. PICK offset \in Offsets : at = clock + offset
    OBVIOUS
  <2>3. PICK lines : lines = IF answers THEN LogsBetween(at - Half, at + Half) ELSE {}
    OBVIOUS
  <2> DEFINE s == [phase |-> "storing", by |-> c, at |-> at, named |-> named,
                   lines |-> lines, lag |-> 0]
  <2>4. request' = [request EXCEPT ![r] = s]
    BY <2>1, <2>3
  <2>5. s.by = c /\ s.lag = 0 /\ s.at = clock + offset
    BY <2>2
  <2> QED
    BY <2>4, <2>5
<1>3. PICK s :
        /\ request' = [request EXCEPT ![r] = s]
        /\ s.by = c /\ s.lag = 0 /\ s.at = clock + offset
  BY <1>a
<1>4. Early(s)'
  <2>1. EnoughFor(MaxAge + offset - MaxRound) /\ offset \in Int /\ clock \in Nat
    BY BackfillConstants DEF RoundsKeepUp, IInv, TypeOK
  <2>2. EnoughFor(clock + offset + MaxAge - (clock - 0 + MaxRound))
    BY <2>1, BackfillConstants DEF EnoughFor
  <2>3. s.by \in running' /\ s.lag <= MaxRound
    BY <1>1, <1>3, BackfillConstants DEF Receive
  <2> QED
    BY <1>1, <1>3, <2>2, <2>3 DEF Early
<1>5. \A q \in Requests : request'[q] = IF q = r THEN s ELSE request[q]
  BY <1>3 DEF IInv, TypeOK
<1>6. \A q \in Requests : request'[q].phase = "storing" => Early(request[q])'
  BY <1>1, <1>4, <1>5 DEF AllInTime, RequestsInTime, Early
<1> QED
  BY <1>2, <1>6 DEF AllInTime, RequestsInTime

LEMMA HandlerTypes ==
    ASSUME NEW s \in Sending
    PROVE  s.at \in Int /\ s.named \in BOOLEAN /\ s.lag \in Nat
BY Zenon DEF Sending

\* A handler stores its event with two rounds to spare.
LEMMA StoreEventInTime ==
    ASSUME IInv, AllInTime, NEW r \in Requests, StoreEvent(r),
           faults \in Nat, faults' = faults
    PROVE  AllInTime'
<1>1. PICK e : /\ events' = events \cup {e}
               /\ e = [id |-> Cardinality(events) + 1, request |-> r,
                       at |-> request[r].at, named |-> request[r].named,
                       state |-> Pending]
               /\ request' = [request EXCEPT ![r].phase = "logging"]
  <2>1. ~Fault
    BY DEF Fault
  <2> QED
    BY <2>1 DEF StoreEvent
<1>2. UNCHANGED <<clock, poller, running, crowded>>
  BY DEF StoreEvent, world
<1>3. request[r] \in Sending /\ request[r].phase = "storing" /\ Early(request[r])
  BY DEF StoreEvent, AllInTime, RequestsInTime, IInv, TypeOK
<1>4. PICK c \in running : c = request[r].by
  BY <1>3 DEF Early
<1>5. poller[c] \in Round /\ clock \in Nat
  BY DEF IInv, TypeOK
<1>6. e \in Row /\ e.at = request[r].at
  <2>1. Cardinality(events) \in Nat
    BY FS_CardinalityType DEF IInv, EventsOK
  <2>2. request[r].at \in Int /\ request[r].named \in BOOLEAN
    BY <1>3, HandlerTypes
  <2> QED
    BY <1>1, <2>1, <2>2 DEF Row, Pending
<1>7. EnoughFor(e.at + MaxAge - clock)
  <2>1. e.at \in Int
    BY <1>6 DEF Row
  <2>2. request[r].lag \in Nat
    BY <1>3, HandlerTypes
  <2> QED
    BY <1>3, <1>5, <1>6, <2>1, <2>2, BackfillConstants DEF Early, EnoughFor
<1>8. Reached(clock', poller'[c], e)
  BY <1>2, <1>5, <1>6, <1>7, WithTimeToSpare
<1>9. \A f \in events : f.named /\ f.request \notin crowded /\ f.state = Pending =>
        \E d \in running : Reached(clock', poller'[d], f)
  BY <1>2 DEF AllInTime, RowsInTime
<1>10. RowsInTime'
  BY <1>1, <1>2, <1>8, <1>9 DEF RowsInTime
<1>11. (NoneGivenUp /\ RoundsFill)'
  BY <1>1, <1>2 DEF AllInTime, NoneGivenUp, RoundsFill, Pending, Skipped
<1>12. \A q \in Requests : request'[q].phase = "storing" => Early(request[q])'
  <2>1. ASSUME NEW q \in Requests, request'[q].phase = "storing" PROVE q # r
    BY <1>1, <2>1 DEF IInv, TypeOK
  <2>2. \A q \in Requests : q # r => request'[q] = request[q]
    BY <1>1 DEF IInv, TypeOK
  <2> QED
    BY <1>2, <2>1, <2>2 DEF AllInTime, RequestsInTime, Early
<1> QED
  BY <1>10, <1>11, <1>12 DEF AllInTime, RequestsInTime

LEMMA FirstPassInTime ==
    ASSUME IInv, AllInTime, NEW r \in Requests, StoreFirstPass(r)
    PROVE  AllInTime'
<1>1. UNCHANGED <<clock, events, poller, running, crowded>>
  BY DEF StoreFirstPass, world
<1>2. (NoneGivenUp /\ RoundsFill /\ RowsInTime)'
  BY <1>1 DEF AllInTime, NoneGivenUp, RoundsFill, RowsInTime
<1>3. \A q \in Requests : request'[q] = IF q = r THEN Ended ELSE request[q]
  BY DEF StoreFirstPass, IInv, TypeOK
<1>4. Ended.phase = "ended"
  BY DEF Ended, NotSent
<1>5. \A q \in Requests : request'[q].phase = "storing" => request'[q] = request[q]
  BY <1>3, <1>4
<1>6. \A q \in Requests : request'[q].phase = "storing" => Early(request[q])'
  BY <1>1, <1>5 DEF AllInTime, RequestsInTime, Early
<1> QED
  BY <1>2, <1>6 DEF AllInTime, RequestsInTime

\* A row of the table after some were marked is one of those, or untouched.
LEMMA MarkedRows ==
    ASSUME NEW requests, NEW state, Mark(requests, state), NEW f \in events'
    PROVE  \/ f \in events /\ f.request \notin requests
           \/ \E g \in events : /\ g.request \in requests
                                /\ f = [g EXCEPT !.state = state]
BY DEF Mark

\* A row that waits has not expired: some poller will still come in time.
LEMMA NoneExpires ==
    ASSUME RoundsKeepUp, IInv, AllInTime, NEW e \in PendingRows, e.named,
           e.request \notin crowded
    PROVE  ~Expired(e)
<1>1. PICK c \in running : Reached(clock, poller[c], e)
  BY DEF AllInTime, RowsInTime, PendingRows
<1>2. poller[c] \in Round /\ e \in Row /\ clock \in Nat
  BY DEF IInv, TypeOK, PendingRows
<1>3. clock <= e.at + MaxAge
  BY <1>1, <1>2, ReachedInTime
<1>4. e.at \in Int
  BY <1>2 DEF Row
<1> QED
  BY <1>2, <1>3, <1>4, BackfillConstants DEF Expired

\* A round that begins takes every row whose window is over with it, or its
\* batch is full and the row crowded out.
LEMMA PendingInTime ==
    ASSUME RoundsKeepUp, IInv, AllInTime, NEW c \in Collectors,
           PendingLogBackfills(c), faults \in Nat, faults' = faults
    PROVE  AllInTime'
<1> DEFINE batch == BatchOf(PendingRows)
           expired == {e \in batch : Expired(e)}
           ready == {e \in batch : ~Expired(e) /\ ~WindowOpen(e)}
           left == {e \in PendingRows \ batch : ~WindowOpen(e)}
           begun == [Idle EXCEPT !.phase = "fetch", !.queue = ready,
                                 !.lag = poller[c].lag]
           q == IF ready = {} THEN Idle ELSE begun
<1>1. /\ Mark({e.request : e \in expired}, Skipped)
      /\ poller' = [poller EXCEPT ![c] = q]
      /\ crowded' = crowded \cup {e.request : e \in left}
  <2>1. ~Fault
    BY DEF Fault
  <2> QED
    BY <2>1 DEF PendingLogBackfills
<1>2. poller[c].phase = "idle" /\ poller[c].due /\ UNCHANGED <<clock, request, running>>
  BY DEF PendingLogBackfills, world
<1>3. \A e \in expired : (~e.named \/ e.request \in crowded) /\ e \in events
  <2>1. batch \subseteq PendingRows /\ PendingRows \subseteq events
    BY DEF BatchOf, PendingRows
  <2> QED
    BY <2>1, NoneExpires
<1>4. \A d \in Collectors : poller'[d] = IF d = c THEN q ELSE poller[d]
  BY <1>1 DEF IInv, TypeOK
<1>5. /\ Idle.phase = "idle" /\ begun.phase = "fetch" /\ begun.queue = ready
      /\ begun.lag = poller[c].lag
  BY DEF Idle
<1> DEFINE marked == {e.request : e \in expired}
<1>6. ASSUME NEW f \in events'
      PROVE  \/ f \in events
             \/ (~f.named \/ f.request \in crowded) /\ f.state = Skipped
  <2>1. CASE \E g \in events : g.request \in marked /\ f = [g EXCEPT !.state = Skipped]
    <3>1. PICK g \in events, e \in expired :
            e.request = g.request /\ f = [g EXCEPT !.state = Skipped]
      BY <2>1
    <3>2. g = e
      BY <1>3, <3>1 DEF IInv, EventsOK
    <3>3. g \in Row
      BY DEF IInv, TypeOK
    <3> QED
      BY <1>3, <3>1, <3>2, <3>3 DEF Row
  <2> QED
    BY <1>1, <2>1, MarkedRows
<1>7. NoneGivenUp'
  BY <1>1, <1>6 DEF AllInTime, NoneGivenUp
<1> HIDE DEF begun, marked
<1>8. RoundsFill'
  BY <1>4, <1>5 DEF AllInTime, RoundsFill
<1>9. ASSUME NEW e \in events', e.named, e.request \notin crowded',
             e.state = Pending, Reached(clock, poller[c], e)
      PROVE  Reached(clock', q, e)
  <2>1. e \in PendingRows /\ ~Expired(e) /\ e \notin left
    BY <1>1, <1>6, <1>9, NoneExpires DEF PendingRows, Pending, Skipped
  <2>2. CASE WindowOpen(e)
    <3>1. clock' < e.at + Half
      BY <1>2, <2>2 DEF WindowOpen
    <3> QED
      BY <3>1 DEF Reached
  <2>3. CASE ~WindowOpen(e)
    <3>1. e \in ready
      BY <2>1, <2>3
    <3>2. q = begun
      BY <3>1
    <3>3. Reached(clock', begun, e)
      BY <1>2, <1>5, <1>9, <2>3, <3>1 DEF Reached, WindowOpen
    <3> QED
      BY <3>2, <3>3
  <2> QED
    BY <2>2, <2>3
<1> HIDE DEF q
<1>10. ASSUME NEW e \in events', e.named, e.request \notin crowded',
              e.state = Pending, NEW d \in running, Reached(clock, poller[d], e)
       PROVE  Reached(clock', poller'[d], e)
  <2>1. d \in Collectors
    BY DEF IInv, TypeOK
  <2>2. CASE d = c
    BY <1>4, <1>9, <1>10, <2>1, <2>2 DEF Reached
  <2>3. CASE d # c
    BY <1>2, <1>4, <1>10, <2>1, <2>3 DEF Reached
  <2> QED
    BY <2>2, <2>3
<1>11. RowsInTime'
  <2>1. \A e \in events' : e.named /\ e.state = Pending => e \in events
    BY <1>6 DEF Pending, Skipped
  <2> QED
    BY <1>1, <1>2, <1>10, <2>1, RowsStayInTime DEF AllInTime
<1>12. RequestsInTime'
  BY <1>2 DEF AllInTime, RequestsInTime, Early
<1> QED
  BY <1>7, <1>8, <1>11, <1>12 DEF AllInTime

\* A step of poller `c` that leaves the table alone and goes on with its round.
LEMMA RoundInTime ==
    ASSUME IInv, AllInTime, NEW c \in Collectors, NEW q \in Round,
           poller' = [poller EXCEPT ![c] = q],
           UNCHANGED <<clock, events, request, running, crowded>>,
           poller[c].phase # "idle", q.phase # "idle", q.lag = poller[c].lag,
           q.due = poller[c].due, q.queue = poller[c].queue,
           q.phase \in {"store", "mark"} => q.verdict = Done
    PROVE  AllInTime'
<1>1. \A d \in Collectors : poller'[d] = IF d = c THEN q ELSE poller[d]
  BY DEF IInv, TypeOK
<1>2. RoundsFill'
  BY <1>1 DEF AllInTime, RoundsFill
<1>3. ASSUME NEW e \in events, NEW d \in running, Reached(clock, poller[d], e)
      PROVE  Reached(clock', poller'[d], e)
  <2>1. d \in Collectors /\ poller[d] \in Round /\ clock \in Nat /\ e \in Row
    BY DEF IInv, TypeOK
  <2>2. CASE d = c
    BY <1>1, <1>3, <2>1, <2>2, ReachedGoesOn
  <2>3. CASE d # c
    BY <1>1, <1>3, <2>1, <2>3
  <2> QED
    BY <2>2, <2>3
<1>4. RowsInTime'
  BY <1>3, RowsStayInTime DEF AllInTime
<1>5. (NoneGivenUp /\ RequestsInTime)'
  BY DEF AllInTime, NoneGivenUp, RequestsInTime, Early
<1> QED
  BY <1>2, <1>4, <1>5 DEF AllInTime

LEMMA FetchInTime ==
    ASSUME IInv, AllInTime, NEW c \in Collectors, Fetch(c),
           faults \in Nat, faults' = faults
    PROVE  AllInTime'
<1>1. PICK p \in Round : p = poller[c]
  BY DEF IInv, TypeOK
<1>2. PICK got : got = LogsBetween(Target(c).at, Target(c).at + Half)
  OBVIOUS
<1> DEFINE q == [p EXCEPT !.phase = "store", !.verdict = Done, !.lines = got]
<1>3. poller' = [poller EXCEPT ![c] = q]
  <2>1. ~Fault
    BY DEF Fault
  <2> QED
    BY <1>1, <1>2, <2>1 DEF Fetch, IInv, TypeOK
<1>4. /\ q.phase = "store" /\ q.verdict = Done /\ q.lag = p.lag
      /\ q.due = p.due /\ q.queue = p.queue
  BY <1>1 DEF Round
<1>5. q \in Round
  <2>1. poller' \in [Collectors -> Round]
    BY FetchKeeps DEF IInv, TypeOK
  <2> QED
    BY <1>3, <2>1 DEF IInv, TypeOK
<1> HIDE DEF q
<1> QED
  BY <1>1, <1>3, <1>4, <1>5, RoundInTime DEF Fetch, world, rows

LEMMA SecondPassInTime ==
    ASSUME IInv, AllInTime, NEW c \in Collectors, StoreSecondPass(c),
           faults \in Nat, faults' = faults
    PROVE  AllInTime'
<1>1. PICK p \in Round : p = poller[c]
  BY DEF IInv, TypeOK
<1> DEFINE q == [p EXCEPT !.phase = "mark"]
<1>2. poller' = [poller EXCEPT ![c] = q] /\ p.phase = "store"
  <2>1. ~Fault
    BY DEF Fault
  <2> QED
    BY <1>1, <2>1 DEF StoreSecondPass, IInv, TypeOK
<1>3. /\ q.phase = "mark" /\ q.verdict = p.verdict /\ q.lag = p.lag
      /\ q.due = p.due /\ q.queue = p.queue
  BY <1>1 DEF Round
<1>4. q \in Round
  BY <1>1 DEF Round
<1>5. p.verdict = Done
  BY <1>1, <1>2 DEF AllInTime, RoundsFill
<1> HIDE DEF q
<1> QED
  BY <1>1, <1>2, <1>3, <1>4, <1>5, RoundInTime DEF StoreSecondPass, world

\* A poller takes the row it marks out of its round, and no other.
LEMMA MarkBackfillInTime ==
    ASSUME IInv, AllInTime, NEW c \in Collectors, MarkLogBackfill(c),
           faults \in Nat, faults' = faults
    PROVE  AllInTime'
<1>1. PICK p \in Round : p = poller[c]
  BY DEF IInv, TypeOK
<1> DEFINE rest == p.queue \ {Target(c)}
           on == [p EXCEPT !.phase = "fetch", !.queue = rest, !.lines = {}]
           q == IF rest = {} THEN [Idle EXCEPT !.due = p.due] ELSE on
<1>2. /\ Mark({Target(c).request}, Done)
      /\ poller' = [poller EXCEPT ![c] = q]
      /\ p.phase = "mark" /\ UNCHANGED <<clock, request, running, crowded>>
  <2>1. ~Fault
    BY DEF Fault
  <2>2. poller[c].verdict = Done
    BY DEF MarkLogBackfill, AllInTime, RoundsFill
  <2> QED
    BY <1>1, <2>1, <2>2 DEF MarkLogBackfill, Advance, world
<1>3. \A d \in Collectors : poller'[d] = IF d = c THEN q ELSE poller[d]
  BY <1>2 DEF IInv, TypeOK
<1>4. on \in Round /\ on.phase = "fetch" /\ on.lag = p.lag /\ on.due = p.due /\ on.queue = rest
  BY <1>1 DEF Round
<1>5. [Idle EXCEPT !.due = p.due].phase = "idle"
  BY DEF Idle
<1>6. ASSUME NEW f \in events'
      PROVE  (f \in events /\ f.request # Target(c).request) \/ f.state = Done
  <2>1. CASE \E g \in events : f = [g EXCEPT !.state = Done]
    BY <2>1 DEF IInv, TypeOK, Row
  <2> QED
    BY <1>2, <2>1, MarkedRows
<1>7. NoneGivenUp'
  BY <1>2, <1>6 DEF AllInTime, NoneGivenUp, Done, Skipped
<1>8. RoundsFill'
  BY <1>3, <1>4, <1>5 DEF AllInTime, RoundsFill
<1> HIDE DEF on
<1>9. ASSUME NEW e \in events', e.named, e.state = Pending,
             NEW d \in running, Reached(clock, poller[d], e)
      PROVE  Reached(clock', poller'[d], e)
  <2>1. d \in Collectors /\ clock \in Nat
    BY DEF IInv, TypeOK
  <2>2. e \in events /\ e # Target(c)
    BY <1>6, <1>9 DEF Pending, Done
  <2>3. e \in Row
    BY <2>2 DEF IInv, TypeOK
  <2>4. CASE d = c /\ rest = {}
    <3>1. e \notin p.queue
      BY <2>2, <2>4
    <3>2. Reached(clock, [Idle EXCEPT !.due = p.due], e)
      BY <1>1, <1>2, <1>9, <2>1, <2>3, <2>4, <3>1, ReachedNextTime
    <3> QED
      BY <1>2, <1>3, <2>1, <2>4, <3>2
  <2>5. CASE d = c /\ rest # {}
    <3>1. Reached(clock, on, e)
      BY <1>1, <1>2, <1>4, <1>9, <2>1, <2>2, <2>3, <2>5, ReachedGoesOn
    <3> QED
      BY <1>2, <1>3, <2>1, <2>5, <3>1
  <2>6. CASE d # c
    BY <1>2, <1>3, <1>9, <2>1, <2>6
  <2> QED
    BY <2>4, <2>5, <2>6
<1> HIDE DEF q
<1>10. RowsInTime'
  <2>1. \A e \in events' : e.named /\ e.state = Pending => e \in events
    BY <1>6 DEF Pending, Done
  <2> QED
    BY <1>2, <1>9, <2>1, RowsStayInTime DEF AllInTime
<1>11. RequestsInTime'
  BY <1>2 DEF AllInTime, RequestsInTime, Early
<1> QED
  BY <1>7, <1>8, <1>10, <1>11 DEF AllInTime

\* A second collector does not delay the first.
LEMMA StartInTime ==
    ASSUME IInv, AllInTime, NEW c \in Collectors, Start(c)
    PROVE  AllInTime'
<1>1. /\ c \notin running /\ running' = running \cup {c}
      /\ poller' = [poller EXCEPT ![c] = Waiting]
      /\ UNCHANGED <<clock, events, request, crowded>>
  BY DEF Start, world, rows
<1>2. \A d \in Collectors : poller'[d] = IF d = c THEN Waiting ELSE poller[d]
  BY <1>1 DEF IInv, TypeOK
<1>3. RoundsFill'
  BY <1>2, IdleIsRound DEF AllInTime, RoundsFill
<1>4. \A d \in running : d \in Collectors /\ poller'[d] = poller[d]
  BY <1>1, <1>2 DEF IInv, TypeOK
<1>5. RowsInTime'
  BY <1>1, <1>4, RowsStayInTime DEF AllInTime
<1>6. (NoneGivenUp /\ RequestsInTime)'
  BY <1>1 DEF AllInTime, NoneGivenUp, RequestsInTime, Early
<1> QED
  BY <1>3, <1>5, <1>6 DEF AllInTime

\* Time does not pass over a round or a handler that has had its share.
LEMMA TickInTime ==
    ASSUME RoundsKeepUp, IInv, AllInTime, Tick
    PROVE  AllInTime'
<1>1. clock \in Nat /\ clock' \in Nat /\ clock' <= clock + 1
  <2>1. clock \in Nat
    BY DEF IInv, TypeOK
  <2>2. clock' = IF clock < MaxTime THEN clock + 1 ELSE clock
    BY DEF Tick
  <2> QED
    BY <2>1, <2>2
<1>2. UNCHANGED <<events, running, crowded>>
  BY DEF Tick, rows
<1>3. ASSUME NEW d \in Collectors
      PROVE  /\ poller'[d] \in Round
             /\ poller'[d].phase \in {"store", "mark"} =>
                    poller'[d].phase = poller[d].phase /\ poller'[d].verdict = poller[d].verdict
             /\ d \in running =>
                  \/ /\ poller[d].phase = "idle" /\ ~poller[d].due
                     /\ poller'[d] = Waiting
                  \/ /\ poller[d].phase # "idle" \/ poller[d].due
                     /\ poller[d].lag < MaxRound
                     /\ poller'[d] = [poller[d] EXCEPT !.due = TRUE, !.lag = @ + 1]
  <2>1. PICK p \in Round : p = poller[d]
    BY DEF IInv, TypeOK
  <2>2. poller'[d] \in Round
    BY TickKeeps DEF IInv, TypeOK
  <2>3. p.due \in BOOLEAN
    BY DEF Round
  <2>4. d \notin running => poller'[d] = p
    BY <2>1 DEF Tick
  <2>5. d \in running /\ p.phase = "idle" /\ ~p.due => poller'[d] = Waiting
    BY <2>1 DEF Tick
  <2>6. ASSUME d \in running, p.phase # "idle" \/ p.due
        PROVE  p.lag < MaxRound /\ poller'[d] = [p EXCEPT !.due = TRUE, !.lag = @ + 1]
    BY <2>1, <2>6, Zenon DEF Tick
  <2>7. LET q == [p EXCEPT !.due = TRUE, !.lag = @ + 1]
        IN q.phase = p.phase /\ q.verdict = p.verdict
    BY DEF Round
  <2>8. Waiting.phase = "idle"
    BY IdleIsRound
  <2> QED
    BY <2>1, <2>2, <2>3, <2>4, <2>5, <2>6, <2>7, <2>8
<1>4. RoundsFill'
  BY <1>3 DEF AllInTime, RoundsFill
<1>5. ASSUME NEW e \in events, NEW d \in running, Reached(clock, poller[d], e)
      PROVE  Reached(clock', poller'[d], e)
  <2>1. d \in Collectors /\ poller[d] \in Round /\ e \in Row
    BY DEF IInv, TypeOK
  <2> QED
    BY <1>1, <1>3, <1>5, <2>1, ReachedTicks
<1>6. RowsInTime'
  BY <1>2, <1>5, RowsStayInTime DEF AllInTime
<1>7. ASSUME NEW r \in Requests, request'[r].phase = "storing"
      PROVE  Early(request[r])'
  <2>1. PICK s \in Sending : s = request[r]
    BY DEF IInv, TypeOK
  <2>2. s.phase = "storing" => /\ s.lag < MaxRound
                               /\ request'[r] = [s EXCEPT !.lag = @ + 1]
    BY <2>1, Zenon DEF Tick
  <2>3. s.phase \notin {"storing", "logging"} => request'[r] = s
    BY <2>1, Zenon DEF Tick
  <2>4. s.phase = "logging" => request'[r] = [s EXCEPT !.lag = @ + 1]
    BY <2>1, Zenon DEF Tick
  <2>5. PICK later : later = [s EXCEPT !.lag = @ + 1]
    OBVIOUS
  <2>6. later.phase = s.phase /\ later.by = s.by /\ later.at = s.at /\ later.lag = s.lag + 1
    BY <2>5 DEF Sending
  <2>7. s.phase = "storing"
    BY <1>7, <2>2, <2>3, <2>4, <2>5, <2>6
  <2>8. Early(s) /\ s.at \in Int /\ s.lag \in Nat
    BY <2>1, <2>7, HandlerTypes DEF AllInTime, RequestsInTime
  <2>9. EnoughFor(s.at + MaxAge - (clock' - (s.lag + 1) + MaxRound))
    BY <1>1, <2>8, BackfillConstants DEF Early, EnoughFor
  <2>10. s.lag + 1 <= MaxRound
    BY <2>2, <2>7, <2>8, BackfillConstants
  <2>11. request'[r] = later
    BY <2>2, <2>5, <2>7
  <2> QED
    BY <1>2, <2>6, <2>8, <2>9, <2>10, <2>11 DEF Early
<1>8. NoneGivenUp'
  BY <1>2 DEF AllInTime, NoneGivenUp
<1> QED
  BY <1>4, <1>6, <1>7, <1>8 DEF AllInTime, RequestsInTime

LEMMA UnchangedInTime ==
    ASSUME AllInTime, UNCHANGED <<clock, events, request, poller, running, crowded>>
    PROVE  AllInTime'
BY DEF AllInTime, NoneGivenUp, RoundsFill, RowsInTime, RequestsInTime, Early

\* Failures and stops are only counted up.
LEMMA CountsGrow ==
    ASSUME faults \in Nat, stops \in Nat, [Next]_vars
    PROVE  /\ faults' = faults \/ faults' = faults + 1
           /\ \/ stops' = stops
              \/ stops' = stops + 1 /\ \E c \in Collectors : Stop(c)
<1>1. ASSUME NEW c \in Collectors, Poll(c)
      PROVE  stops' = stops /\ (faults' = faults \/ faults' = faults + 1)
  BY <1>1 DEF Poll, PendingLogBackfills, Fetch, StoreSecondPass, MarkLogBackfill, Fault
<1>2. ASSUME NEW r \in Requests, Handle(r)
      PROVE  stops' = stops /\ (faults' = faults \/ faults' = faults + 1)
  BY <1>2 DEF Handle, StoreEvent, StoreFirstPass, Fault
<1>3. ASSUME NEW c \in Collectors, NEW r \in Requests, Receive(c, r)
      PROVE  stops' = stops /\ faults' = faults
  BY <1>3 DEF Receive
<1>4. ASSUME NEW c \in Collectors, Start(c) PROVE stops' = stops /\ faults' = faults
  BY <1>4 DEF Start
<1>5. ASSUME NEW c \in Collectors, Stop(c) PROVE stops' = stops + 1 /\ faults' = faults
  BY <1>5 DEF Stop
<1>6. CASE PrintLine
  BY <1>6 DEF PrintLine
<1>7. CASE Tick
  BY <1>7 DEF Tick
<1>8. CASE UNCHANGED vars
  BY <1>8 DEF vars
<1> QED
  BY <1>1, <1>2, <1>3, <1>4, <1>5, <1>6, <1>7, <1>8 DEF Next

\* One step per action, none of which fails or stops.
LEMMA StepInTime ==
    ASSUME RoundsKeepUp, IInv, HealthInv, [Next]_vars
    PROVE  HealthInv'
<1>1. /\ faults \in Nat /\ stops \in Nat
      /\ faults' = faults \/ faults' = faults + 1
      /\ \/ stops' = stops
         \/ stops' = stops + 1 /\ \E c \in Collectors : Stop(c)
  BY CountsGrow DEF HealthInv
<1>2. SUFFICES ASSUME Untroubled'
               PROVE  AllInTime'
  BY <1>1 DEF HealthInv
<1>3. faults' = faults /\ stops' = stops /\ AllInTime
  BY <1>1, <1>2 DEF HealthInv, Untroubled
<1>4. ASSUME NEW c \in Collectors, NEW r \in Requests, Receive(c, r) PROVE AllInTime'
  BY <1>3, <1>4, ReceiveInTime
<1>5. ASSUME NEW r \in Requests, Handle(r) PROVE AllInTime'
  BY <1>1, <1>3, <1>5, StoreEventInTime, FirstPassInTime DEF Handle
<1>6. ASSUME NEW c \in Collectors, Poll(c) PROVE AllInTime'
  BY <1>1, <1>3, <1>6, PendingInTime, FetchInTime, SecondPassInTime, MarkBackfillInTime
     DEF Poll
<1>7. ASSUME NEW c \in Collectors, Start(c) PROVE AllInTime'
  BY <1>3, <1>7, StartInTime
<1>8. ASSUME NEW c \in Collectors, Stop(c) PROVE FALSE
  BY <1>1, <1>3, <1>8 DEF Stop
<1>9. CASE PrintLine
  BY <1>3, <1>9, UnchangedInTime DEF PrintLine, rows
<1>10. CASE Tick
  BY <1>3, <1>10, TickInTime
<1>11. CASE UNCHANGED vars
  BY <1>3, <1>11, UnchangedInTime DEF vars
<1> QED
  BY <1>4, <1>5, <1>6, <1>7, <1>8, <1>9, <1>10, <1>11 DEF Next

\* As long as nothing fails and the collectors stay up, no event with a
\* container is given up, however many collectors share the database and
\* however requests, rounds and ticks interleave, unless a round has left it
\* behind a full batch: if a capture and a round take MaxRound ticks at most
\* beside MaxAge, and clients are not too far behind (pollObservedContainers,
\* Store.PendingLogBackfills).
THEOREM HealthyAreFilled ==
    ASSUME RoundsKeepUp
    PROVE  Spec => []HealthyMeansFilled
<1>1. Init => HealthInv
  <2>1. Idle.phase = "idle" /\ NotSent.phase = "unsent"
    BY DEF Idle, NotSent
  <2>2. Init => RoundsFill /\ RequestsInTime
    BY <2>1 DEF Init, RoundsFill, RequestsInTime
  <2>3. Init => NoneGivenUp /\ RowsInTime
    BY DEF Init, NoneGivenUp, RowsInTime
  <2> QED
    BY <2>2, <2>3 DEF Init, HealthInv, AllInTime
<1>2. IInv /\ HealthInv /\ [Next]_vars => HealthInv'
  BY StepInTime
<1>3. HealthInv => HealthyMeansFilled
  BY DEF HealthInv, Untroubled, AllInTime, NoneGivenUp, HealthyMeansFilled
<1> QED
  BY <1>1, <1>2, <1>3, BackfillInvariant, PTL DEF Spec
===============================================================================
