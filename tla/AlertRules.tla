------------------------------ MODULE AlertRules ------------------------------
(***************************************************************************)
(* The alert engine of DevHerd Observe: the tables `alerts` and            *)
(* `alert_deliveries` of the SQLite database, and the operations that the  *)
(* event path (ObserveStore) and the container path (ContainerWatch)       *)
(* share.  A delivery is a row; nothing is ever sent anywhere.             *)
(*                                                                         *)
(* Tables are sets of rows.  Ids come from AUTOINCREMENT counters, so they *)
(* grow and are never reused.  All the deliveries one transaction inserts  *)
(* share its number: the code compares delivery ids only to find the last  *)
(* row of one rule.                                                        *)
(***************************************************************************)
EXTENDS Integers, FiniteSets

CONSTANTS
    Projects,        \* project names that report to Observe
    AnyProject,      \* the empty project of a rule that matches every project
    Subject,         \* what a delivery is about: a fingerprint, a container
    NotGiven,        \* the --cooldown flag was not on the command line
    KindArgs,        \* --on values used in this instance
    ThresholdArgs,   \* --threshold values
    WindowArgs,      \* --window durations, in ticks
    CooldownArgs,    \* --cooldown durations, in ticks
    TicksPerSecond,  \* resolution of a duration argument
    DefaultWindow,   \* 300 s in the code
    DefaultNonRateCooldown, \* 900 s in the code
    Retentions,      \* values of cleanup --days, in seconds
    MaxAlerts,       \* bound: rules ever added
    MaxTime,         \* bound: the clock, in seconds
    MaxLag           \* seconds between reading the time and committing

Kinds == {"new-issue", "error-rate", "container-exit", "container-restart"}

ASSUME AlertConstants ==
    /\ AnyProject \notin Projects
    /\ KindArgs \subseteq Kinds
    /\ ThresholdArgs \subseteq Int
    /\ WindowArgs \subseteq Int
    /\ CooldownArgs \subseteq Int
    /\ NotGiven \notin Int
    /\ TicksPerSecond \in Nat \ {0}
    /\ DefaultWindow \in Nat \ {0}
    /\ DefaultNonRateCooldown \in Nat \ {0}
    /\ Retentions \subseteq Nat \ {0}
    /\ MaxAlerts \in Nat
    /\ MaxTime \in Nat
    /\ MaxLag \in Nat

VARIABLES
    clock,         \* wall clock, seconds
    alerts,        \* rows of `alerts`
    nextAlert,     \* its AUTOINCREMENT counter
    deliveries,    \* rows of `alert_deliveries`
    nextDelivery   \* its counter, advanced once per inserting transaction

ruleVars == <<alerts, nextAlert>>
deliveryVars == <<deliveries, nextDelivery>>
alertVars == <<clock, alerts, nextAlert, deliveries, nextDelivery>>

Alert == [id : Nat, project : Projects \cup {AnyProject}, kind : Kinds,
          threshold : Nat \ {0}, window : Nat \ {0}, cooldown : Nat]

Delivery == [id : Nat, alert : Nat, subject : Subject, at : Nat]

AlertsTypeOK ==
    /\ clock \in Nat
    /\ alerts \subseteq Alert
    /\ nextAlert \in Nat
    /\ deliveries \subseteq Delivery
    /\ nextDelivery \in Nat

AlertsInit ==
    /\ clock = 0
    /\ alerts = {}
    /\ nextAlert = 1
    /\ deliveries = {}
    /\ nextDelivery = 1

(***************************************************************************)
(* Time.  An operation reads the time when it enters and commits later, so *)
(* its `now` lags the clock; two operations may commit in the opposite     *)
(* order of their readings.                                                *)
(***************************************************************************)
Tick ==
    /\ clock < MaxTime
    /\ clock' = clock + 1

Readings == {t \in 0..clock : clock - t <= MaxLag}

(***************************************************************************)
(* Rules: `observe alert add` and `observe alert remove`.                  *)
(***************************************************************************)
Seconds(duration) == duration \div TicksPerSecond

DefaultCooldownSeconds(kind, window) ==
    IF kind = "error-rate" THEN window ELSE DefaultNonRateCooldown

\* Mutant: the defaults of AddAlert are forgotten.
NewAlertAsGiven(project, kind, threshold, window, cooldown) ==
    [id |-> nextAlert, project |-> project, kind |-> kind,
     threshold |-> threshold, window |-> window, cooldown |-> cooldown]

NewAlert(project, kind, threshold, window, cooldown) ==
    LET stored == IF window <= 0 THEN DefaultWindow ELSE window
    IN [id |-> nextAlert,
        project |-> project,
        kind |-> kind,
        threshold |-> IF threshold <= 0 THEN 1 ELSE threshold,
        window |-> stored,
        cooldown |-> IF cooldown < 0
                     THEN DefaultCooldownSeconds(kind, stored)
                     ELSE cooldown]

AddAlert(project, kind, threshold, window, cooldown) ==
    /\ window > 0
    /\ cooldown \in {NotGiven} \cup Nat
    /\ nextAlert <= MaxAlerts
    /\ LET windowSeconds == Seconds(window)
           cooldownSeconds == IF cooldown = NotGiven
                              THEN DefaultCooldownSeconds(kind, windowSeconds)
                              ELSE Seconds(cooldown)
       IN alerts' = alerts \cup
            {NewAlert(project, kind, threshold, windowSeconds, cooldownSeconds)}
    /\ nextAlert' = nextAlert + 1
    /\ UNCHANGED <<clock, deliveryVars>>

AddSomeAlert ==
    \E project \in Projects \cup {AnyProject}, kind \in KindArgs,
       threshold \in ThresholdArgs, window \in WindowArgs,
       cooldown \in CooldownArgs \cup {NotGiven} :
        AddAlert(project, kind, threshold, window, cooldown)

\* Mutant: foreign keys are off, nothing cascades.
RemoveAlertOnly(id) ==
    /\ \E a \in alerts : a.id = id
    /\ alerts' = {a \in alerts : a.id # id}
    /\ UNCHANGED <<clock, nextAlert, deliveryVars>>

\* ON DELETE CASCADE takes the deliveries of the rule with it.
RemoveAlert(id) ==
    /\ \E a \in alerts : a.id = id
    /\ alerts' = {a \in alerts : a.id # id}
    /\ deliveries' = {d \in deliveries : d.alert # id}
    /\ UNCHANGED <<clock, nextAlert, nextDelivery>>

\* An id nobody has is "not found" and changes nothing.
RemoveSomeAlert == \E a \in alerts : RemoveAlert(a.id)

(***************************************************************************)
(* Delivering.                                                             *)
(***************************************************************************)
MatchingAlerts(project) ==
    {a \in alerts : a.project \in {AnyProject, project}}

OfRule(a) == {d \in deliveries : d.alert = a.id}

LastOfRule(a) == {d \in OfRule(a) : \A e \in OfRule(a) : e.id <= d.id}

\* Mutant: the window is taken for the cooldown.
AlertIsSilencedByWindow(a, now) ==
    /\ a.cooldown > 0
    /\ \E last \in LastOfRule(a) : now - last.at < a.window

AlertIsSilenced(a, now) ==
    /\ a.cooldown > 0
    /\ \E last \in LastOfRule(a) : now - last.at < a.cooldown

\* The rules in `fired` each have one thing to say about `subject`.
Deliver(fired, subject, now) ==
    LET speaking == {a \in fired : ~AlertIsSilenced(a, now)}
    IN /\ deliveries' = deliveries \cup
            {[id |-> nextDelivery, alert |-> a.id, subject |-> subject,
              at |-> now] : a \in speaking}
       /\ nextDelivery' = IF speaking = {} THEN nextDelivery
                                           ELSE nextDelivery + 1

\* The part of Cleanup that touches this table.
ForgetDeliveries(cutoff) ==
    /\ deliveries' = {d \in deliveries : d.at >= cutoff}
    /\ UNCHANGED nextDelivery

(***************************************************************************)
(* Properties of the engine, whatever calls it.                            *)
(***************************************************************************)

\* The rows are well formed: rules have one id each, every delivery belongs
\* to a rule that still exists, and the counters are ahead of the ids.
AlertIntegrity ==
    /\ \A a, b \in alerts : a.id = b.id => a = b
    /\ \A a \in alerts : a.id < nextAlert
    /\ \A d \in deliveries : d.id < nextDelivery
    /\ \A d \in deliveries : \E a \in alerts : a.id = d.alert

\* A rule with a cooldown never keeps two deliveries closer than the
\* cooldown, in the order of their ids, even when the operations that made
\* them read the time in the opposite order (alertIsSilenced).
CooldownSpacing ==
    \A a \in alerts : \A d, e \in deliveries :
        /\ d.alert = a.id /\ e.alert = a.id
        /\ a.cooldown > 0 /\ d # e /\ d.id <= e.id
        => e.at - d.at >= a.cooldown

\* `a` is excused from delivering: it delivered less than a cooldown ago.
\* The reading that decided so may be MaxLag older than the commit.
RecentlySpoke(a) ==
    /\ a.cooldown > 0
    /\ \E d \in deliveries :
        d.alert = a.id /\ clock - d.at < a.cooldown + MaxLag
=============================================================================
