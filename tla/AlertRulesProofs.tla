--------------------------- MODULE AlertRulesProofs ---------------------------
(***************************************************************************)
(* Every operation of the alert engine preserves the spacing of the        *)
(* deliveries of a rule.  The lemmas are about single actions, so that the *)
(* specifications that call the engine use them for their own Next.        *)
(***************************************************************************)
EXTENDS AlertRules, TLAPS

\* alertIsSilenced looks at one row, the last by id.  It is enough because
\* a rule that has deliveries has a last one; that Cleanup, which deletes by
\* time and not by id, cannot break this follows from the spacing itself.
LastDeliveryExists ==
    \A a \in alerts :
        a.cooldown > 0 /\ OfRule(a) # {} => LastOfRule(a) # {}

\* CooldownSpacing, one rule at a time.
SpacingByRule ==
    \A a \in alerts : \A d, e \in OfRule(a) :
        a.cooldown > 0 /\ d # e /\ d.id <= e.id => e.at - d.at >= a.cooldown

EngineInv ==
    /\ AlertsTypeOK
    /\ AlertIntegrity
    /\ SpacingByRule
    /\ LastDeliveryExists

-------------------------------------------------------------------------------

\* The invariant of the engine contains the spacing the runs check.
LEMMA EngineSpacing == EngineInv => CooldownSpacing
BY DEF EngineInv, SpacingByRule, CooldownSpacing, OfRule

\* A duration on the command line becomes a whole number of seconds.
LEMMA SecondsIsNat ==
    ASSUME NEW d \in Nat
    PROVE  Seconds(d) \in Nat
BY AlertConstants DEF Seconds

\* The engine starts with empty tables.
LEMMA AlertsInitEngine == AlertsInit => EngineInv
BY DEF AlertsInit, EngineInv, AlertsTypeOK, AlertIntegrity, SpacingByRule,
       LastDeliveryExists, OfRule

\* What add_alert stores is a well-formed rule with a fresh id.
LEMMA NewAlertIsAlert ==
    ASSUME NEW project \in Projects \cup {AnyProject}, NEW kind \in KindArgs,
           NEW threshold \in ThresholdArgs, NEW window \in Nat,
           NEW cooldown \in Nat, nextAlert \in Nat
    PROVE  /\ NewAlert(project, kind, threshold, window, cooldown) \in Alert
           /\ NewAlert(project, kind, threshold, window, cooldown).id = nextAlert
BY AlertConstants DEF NewAlert, Alert, DefaultCooldownSeconds

\* Adding a rule: the new id is above every delivery's rule, so the new rule
\* has no deliveries yet.
LEMMA AddAlertEngine == EngineInv /\ AddSomeAlert => EngineInv'
<1> SUFFICES ASSUME EngineInv,
                    NEW project \in Projects \cup {AnyProject},
                    NEW kind \in KindArgs, NEW threshold \in ThresholdArgs,
                    NEW window \in WindowArgs,
                    NEW cooldown \in CooldownArgs \cup {NotGiven},
                    AddAlert(project, kind, threshold, window, cooldown)
             PROVE  EngineInv'
  BY DEF AddSomeAlert
<1> DEFINE windowSeconds == Seconds(window)
           cooldownSeconds == IF cooldown = NotGiven
                              THEN DefaultCooldownSeconds(kind, windowSeconds)
                              ELSE Seconds(cooldown)
           new == NewAlert(project, kind, threshold, windowSeconds,
                           cooldownSeconds)
<1>1. window \in Nat /\ (cooldown = NotGiven \/ cooldown \in Nat)
  BY AlertConstants DEF AddAlert
<1>2. windowSeconds \in Nat /\ cooldownSeconds \in Nat
  BY <1>1, SecondsIsNat, AlertConstants DEF DefaultCooldownSeconds
<1>3. /\ alerts' = alerts \cup {new}
      /\ nextAlert' = nextAlert + 1
      /\ UNCHANGED <<clock, deliveries, nextDelivery>>
  BY DEF AddAlert, deliveryVars
<1> HIDE DEF windowSeconds, cooldownSeconds
<1>4. new \in Alert /\ new.id = nextAlert
  BY <1>2, NewAlertIsAlert DEF EngineInv, AlertsTypeOK
<1> HIDE DEF new
<1>5. AlertsTypeOK'
  BY <1>3, <1>4 DEF EngineInv, AlertsTypeOK
<1>6. AlertIntegrity'
  BY <1>3, <1>4 DEF EngineInv, AlertsTypeOK, AlertIntegrity, Alert, Delivery
<1>7. \A d \in deliveries : d.alert # new.id
  BY <1>4 DEF EngineInv, AlertsTypeOK, AlertIntegrity, Alert, Delivery
<1>8. SpacingByRule'
  BY <1>3, <1>7 DEF EngineInv, SpacingByRule, OfRule
<1>9. LastDeliveryExists'
  BY <1>3, <1>7 DEF EngineInv, LastDeliveryExists, OfRule, LastOfRule
<1> QED
  BY <1>5, <1>6, <1>8, <1>9 DEF EngineInv

\* Removing a rule takes its deliveries and nobody else's.
LEMMA RemoveAlertEngine ==
    ASSUME EngineInv, NEW id, RemoveAlert(id)
    PROVE  EngineInv'
<1>1. /\ alerts' = {a \in alerts : a.id # id}
      /\ deliveries' = {d \in deliveries : d.alert # id}
      /\ UNCHANGED <<clock, nextAlert, nextDelivery>>
  BY DEF RemoveAlert
<1>2. AlertsTypeOK' /\ AlertIntegrity'
  BY <1>1 DEF EngineInv, AlertsTypeOK, AlertIntegrity
<1>3. \A a \in alerts' : a \in alerts /\ OfRule(a)' = OfRule(a)
  BY <1>1 DEF OfRule
<1>4. SpacingByRule'
  BY <1>3 DEF EngineInv, SpacingByRule
<1>5. LastDeliveryExists'
  BY <1>3 DEF EngineInv, LastDeliveryExists, LastOfRule
<1> QED
  BY <1>2, <1>4, <1>5 DEF EngineInv

\* Speaking: a rule that speaks had no delivery, or its last one, which is
\* also its latest, is at least a cooldown old.  What one transaction says
\* is `said`; a rule with a cooldown speaks once in it.
LEMMA SpeakEngine ==
    ASSUME EngineInv, NEW now \in Nat, NEW said \in SUBSET Delivery,
           \A v \in said : v.id = nextDelivery /\ v.at = now,
           \A v \in said : \E a \in alerts :
                a.id = v.alert /\ ~AlertIsSilenced(a, now),
           \A a \in alerts : \A v, w \in said :
                a.cooldown > 0 /\ v.alert = a.id /\ w.alert = a.id => v = w,
           deliveries' = deliveries \cup said,
           nextDelivery' = IF said = {} THEN nextDelivery ELSE nextDelivery + 1,
           UNCHANGED <<clock, ruleVars>>
    PROVE  EngineInv'
<1> DEFINE new(a) == {v \in said : v.alert = a.id}
<1>1. UNCHANGED <<clock, alerts, nextAlert>>
  BY DEF ruleVars
<1>2. AlertsTypeOK'
  BY <1>1 DEF EngineInv, AlertsTypeOK
<1>3. \A d \in deliveries : d.id < nextDelivery
  BY DEF EngineInv, AlertIntegrity
<1>4. AlertIntegrity'
  <2>1. \A d \in deliveries' : d.id < nextDelivery'
    BY <1>3 DEF EngineInv, AlertsTypeOK, Delivery
  <2>2. \A d \in deliveries' : \E a \in alerts : a.id = d.alert
    BY DEF EngineInv, AlertIntegrity
  <2> QED
    BY <1>1, <2>1, <2>2 DEF EngineInv, AlertIntegrity
<1>5. \A a \in alerts : OfRule(a)' = OfRule(a) \cup new(a)
  BY DEF OfRule
<1>6. ASSUME NEW a \in alerts, new(a) # {}
      PROVE  ~AlertIsSilenced(a, now)
  BY <1>6 DEF EngineInv, AlertIntegrity
<1>7. ASSUME NEW a \in alerts, new(a) # {}, a.cooldown > 0, NEW d \in OfRule(a)
      PROVE  now - d.at >= a.cooldown
  <2>1. PICK last \in LastOfRule(a) : TRUE
    BY <1>7 DEF EngineInv, LastDeliveryExists
  <2>2. last \in OfRule(a) /\ d.id <= last.id
    BY <1>7, <2>1 DEF LastOfRule
  <2>3. /\ a.cooldown \in Nat /\ d.at \in Nat /\ last.at \in Nat
    BY <1>7, <2>2 DEF EngineInv, AlertsTypeOK, Alert, Delivery, OfRule
  <2>4. now - last.at >= a.cooldown
    BY <1>6, <1>7, <2>1, <2>3 DEF AlertIsSilenced
  <2>5. d = last \/ last.at - d.at >= a.cooldown
    BY <1>7, <2>2 DEF EngineInv, SpacingByRule
  <2> QED
    BY <2>3, <2>4, <2>5
<1>8. SpacingByRule'
  <2> SUFFICES ASSUME NEW a \in alerts, NEW d \in OfRule(a)',
                      NEW e \in OfRule(a)',
                      a.cooldown > 0, d # e, d.id <= e.id
               PROVE  e.at - d.at >= a.cooldown
    BY <1>1 DEF SpacingByRule
  <2>1. CASE d \in OfRule(a) /\ e \in OfRule(a)
    BY <2>1 DEF EngineInv, SpacingByRule
  <2>2. CASE d \in OfRule(a) /\ e \in new(a)
    BY <1>7, <2>2
  <2>3. CASE d \in new(a) /\ e \in OfRule(a)
    BY <1>3, <2>3 DEF OfRule, EngineInv, AlertsTypeOK, Delivery
  <2>4. CASE d \in new(a) /\ e \in new(a)
    BY <2>4
  <2> QED
    BY <1>5, <2>1, <2>2, <2>3, <2>4
<1>9. LastDeliveryExists'
  <2> SUFFICES ASSUME NEW a \in alerts, a.cooldown > 0, OfRule(a)' # {}
               PROVE  LastOfRule(a)' # {}
    BY <1>1 DEF LastDeliveryExists
  <2>1. CASE new(a) = {}
    BY <1>5, <2>1 DEF EngineInv, LastDeliveryExists, LastOfRule
  <2>2. CASE new(a) # {}
    <3>1. PICK v \in new(a) : v \in OfRule(a)'
      BY <1>5, <2>2
    <3>2. \A e \in OfRule(a)' : e.id <= v.id
      BY <1>3, <1>5, <3>1 DEF OfRule, EngineInv, AlertsTypeOK, Delivery
    <3> QED
      BY <3>1, <3>2 DEF LastOfRule
  <2> QED
    BY <2>1, <2>2
<1> QED
  BY <1>2, <1>4, <1>8, <1>9 DEF EngineInv

\* The rules an event has fired speak about one subject.
LEMMA DeliverEngine ==
    ASSUME EngineInv, NEW fired \in SUBSET alerts, NEW subject \in Subject,
           NEW now \in Nat, Deliver(fired, subject, now),
           UNCHANGED <<clock, ruleVars>>
    PROVE  EngineInv'
<1> DEFINE speaking == {a \in fired : ~AlertIsSilenced(a, now)}
           row(a) == [id |-> nextDelivery, alert |-> a.id,
                      subject |-> subject, at |-> now]
           said == {row(a) : a \in speaking}
<1>1. /\ deliveries' = deliveries \cup said
      /\ nextDelivery' = IF speaking = {} THEN nextDelivery
                                          ELSE nextDelivery + 1
  BY DEF Deliver
<1>2. said \in SUBSET Delivery
  BY DEF EngineInv, AlertsTypeOK, Alert, Delivery
<1>3. nextDelivery' = IF said = {} THEN nextDelivery ELSE nextDelivery + 1
  BY <1>1
<1>4. /\ \A v \in said : v.id = nextDelivery /\ v.at = now
      /\ \A v \in said : \E a \in alerts :
            a.id = v.alert /\ ~AlertIsSilenced(a, now)
      /\ \A a \in alerts : \A v, w \in said :
            a.cooldown > 0 /\ v.alert = a.id /\ w.alert = a.id => v = w
  OBVIOUS
<1> HIDE DEF said, speaking
<1> QED
  BY <1>1, <1>2, <1>3, <1>4, SpeakEngine

\* The reading by which a rule was silenced is at most MaxLag old.
LEMMA SilencedSpokeRecently ==
    ASSUME EngineInv, NEW a \in alerts, NEW now \in Readings,
           AlertIsSilenced(a, now)
    PROVE  RecentlySpoke(a)
<1>1. PICK last \in LastOfRule(a) : now - last.at < a.cooldown
  BY DEF AlertIsSilenced
<1>2. last \in OfRule(a)
  BY <1>1 DEF LastOfRule
<1>3. /\ clock \in Nat /\ now \in Nat /\ clock - now <= MaxLag
      /\ last.at \in Nat /\ a.cooldown \in Nat
  BY <1>2 DEF Readings, OfRule, EngineInv, AlertsTypeOK, Alert, Delivery
<1>4. clock - last.at < a.cooldown + MaxLag
  BY <1>1, <1>3, AlertConstants
<1> QED
  BY <1>2, <1>4 DEF AlertIsSilenced, RecentlySpoke, OfRule

\* Cleanup deletes by time.  If it leaves a rule any delivery it leaves the
\* last one, because with a cooldown the last by id is the latest.
LEMMA ForgetEngine ==
    ASSUME EngineInv, NEW cutoff \in Int, ForgetDeliveries(cutoff),
           UNCHANGED <<clock, ruleVars>>
    PROVE  EngineInv'
<1>1. /\ deliveries' = {d \in deliveries : d.at >= cutoff}
      /\ UNCHANGED <<clock, alerts, nextAlert, nextDelivery>>
  BY DEF ForgetDeliveries, ruleVars
<1>2. AlertsTypeOK' /\ AlertIntegrity'
  BY <1>1 DEF EngineInv, AlertsTypeOK, AlertIntegrity
<1>3. \A a \in alerts : OfRule(a)' = {d \in OfRule(a) : d.at >= cutoff}
  BY <1>1 DEF OfRule
<1>4. SpacingByRule'
  BY <1>1, <1>3 DEF EngineInv, SpacingByRule
<1>5. LastDeliveryExists'
  <2> SUFFICES ASSUME NEW a \in alerts, a.cooldown > 0,
                      NEW d \in OfRule(a), d.at >= cutoff
               PROVE  LastOfRule(a)' # {}
    BY <1>1, <1>3 DEF LastDeliveryExists
  <2>1. PICK last \in LastOfRule(a) : TRUE
    BY DEF EngineInv, LastDeliveryExists
  <2>2. last \in OfRule(a) /\ \A e \in OfRule(a) : e.id <= last.id
    BY <2>1 DEF LastOfRule
  <2>3. a.cooldown \in Nat /\ d.at \in Nat /\ last.at \in Nat
    BY <2>2 DEF EngineInv, AlertsTypeOK, Alert, Delivery, OfRule
  <2>4. d = last \/ last.at - d.at >= a.cooldown
    BY <2>2 DEF EngineInv, SpacingByRule
  <2>5. last.at >= cutoff
    BY <2>3, <2>4
  <2> QED
    BY <1>3, <2>2, <2>5 DEF LastOfRule
<1> QED
  BY <1>2, <1>4, <1>5 DEF EngineInv

\* Steps that leave the rules and the deliveries alone.
LEMMA TickEngine ==
    ASSUME EngineInv, clock' \in Nat, UNCHANGED <<ruleVars, deliveryVars>>
    PROVE  EngineInv'
BY DEF EngineInv, AlertsTypeOK, AlertIntegrity, SpacingByRule,
       LastDeliveryExists, OfRule, LastOfRule, ruleVars, deliveryVars
=============================================================================
