----------------------- MODULE OperationsCascadeProofs -----------------------
(***************************************************************************)
(* The theorems about OperationsCascade, for any catalogue, schedules,     *)
(* delays and draws: first what each builder returns, then the groups,     *)
(* then the steps.                                                         *)
(***************************************************************************)
EXTENDS OperationsCascade, TLAPS, FiniteSetTheorems, WellFoundedInduction

-----------------------------------------------------------------------------
(* Extremes of sets of times.                                              *)

LEMMA EarliestExists ==
    ASSUME NEW T, T \subseteq Nat, T # {}
    PROVE  \E t \in T : \A u \in T : t <= u
<1>1. PICK t \in T : \A u \in T : ~ (<<u, t>> \in OpToRel(<, Nat))
  BY NatLessThanWellFounded, WFMin
<1>2. \A u \in T : <<u, t>> \in Nat \X Nat
  OBVIOUS
<1>3. \A u \in T : ~ (u < t)
  BY <1>1, <1>2 DEF OpToRel
<1>4. QED
  BY <1>3

\* Finitely many cleared alarms have a last one: the number of those that
\* cleared after it is least.
LEMMA LatestExists ==
    ASSUME NEW T, IsFiniteSet(T), T # {}, \A a \in T : a.cleared_at \in Nat
    PROVE  \E a \in T : \A b \in T : b.cleared_at <= a.cleared_at
<1> DEFINE After(a) == {b \in T : b.cleared_at > a.cleared_at}
           Counts == {Cardinality(After(a)) : a \in T}
<1>1. \A a \in T : IsFiniteSet(After(a)) /\ Cardinality(After(a)) \in Nat
  BY FS_Subset, FS_CardinalityType
<1>2. Counts \subseteq Nat /\ Counts # {}
  BY <1>1
<1>3. PICK n \in Counts : \A m \in Counts : n <= m
  <2> HIDE DEF Counts
  <2> QED
    BY <1>2, EarliestExists
<1>4. PICK a \in T : n = Cardinality(After(a))
  OBVIOUS
<1>5. ASSUME NEW b \in T, b.cleared_at > a.cleared_at
      PROVE  FALSE
  <2>1. After(b) \in SUBSET After(a)
    BY <1>5
  <2>2. Cardinality(After(a)) <= Cardinality(After(b))
    BY <1>3, <1>4
  <2>3. Cardinality(After(b)) <= Cardinality(After(a))
    BY <1>1, <2>1, FS_Subset
  <2>4. Cardinality(After(a)) = Cardinality(After(b))
    <3> HIDE DEF After
    <3> QED
      BY <1>1, <2>2, <2>3
  <2>5. After(a) = After(b)
    BY <1>1, <2>1, <2>4, FS_Subset
  <2>6. b \in After(a) /\ b \notin After(b)
    BY <1>5
  <2> QED
    BY <2>5, <2>6
<1>6. QED
  BY <1>5

-----------------------------------------------------------------------------
(* The builders.                                                           *)

\* A clearance, when there is one, is not before the raise.
LEMMA ClearFits ==
    ASSUME NEW e \in Event, NEW d \in Definition, NEW raised \in Nat, NEW isNuisance
    PROVE  LET cleared == ClearTimestamp(e, d, raised, isNuisance)
           IN  cleared = None \/ (cleared \in Nat /\ cleared >= raised)
<1> DEFINE delay == d.clear + (IF d.behaviour = "manual_clear" THEN ManualExtra ELSE 0)
           lasting == Later(5, Sooner(30, IF delay = 0 THEN 15 ELSE delay))
           candidate == IF isNuisance THEN raised + lasting ELSE e.end + delay
<1>1. delay \in Nat
  BY CascadeConstants DEF Definition
<1>2. lasting \in Nat
  BY <1>1 DEF Later, Sooner
<1>3. candidate \in Nat
  BY <1>1, <1>2 DEF Event
<1>4. Later(candidate, raised) \in Nat /\ Later(candidate, raised) >= raised
  BY <1>3 DEF Later
<1>5. \/ ClearTimestamp(e, d, raised, isNuisance) = None
      \/ ClearTimestamp(e, d, raised, isNuisance) = Later(candidate, raised)
  BY DEF ClearTimestamp
<1>6. QED
  BY <1>4, <1>5

\* An alarm's lifecycle has the right type and fits model and table.
LEMMA AlarmFits ==
    ASSUME events \in Seq(Event), NEW i \in DOMAIN events, NEW d \in Catalogue,
           NEW copy \in 0..MaxNuisance, NEW alarm \in BuildCandidate(i, d, copy)
    PROVE  /\ alarm \in AlarmRow
           /\ Alarms!DomainAccepts(alarm) /\ Alarms!AlarmChecks(alarm)
<1> DEFINE e == events[i]
<1>1. e \in Event /\ d \in Definition /\ MaxNuisance \in Nat
  BY CascadeConstants
<1>2. PICK raised \in Nat, delay \in Nat \cup {None} :
        alarm = AlarmLifecycle(i, d, copy, raised, delay)
  <2> DEFINE raises == IF copy = 0
                       THEN {t \in {e.start + d.trigger} : t < e.end}
                       ELSE {e.start + d.trigger + delay : delay \in Delays["nuisance"]}
  <2>1. Delays["nuisance"] \subseteq Nat /\ Delays["acknowledgement"] \subseteq Nat
    BY CascadeConstants DEF DelayKinds
  <2>2. raises \subseteq Nat
    BY <1>1, <2>1 DEF Event, Definition
  <2>3. alarm \in {AlarmLifecycle(i, d, copy, raised, delay) :
                      raised \in raises, delay \in Delays["acknowledgement"] \cup {None}}
    BY DEF BuildCandidate
  <2> HIDE DEF raises
  <2> QED
    BY <2>1, <2>2, <2>3
<1> DEFINE cleared == ClearTimestamp(e, d, raised, copy # 0)
           acknowledged == AcknowledgementTimestamp(raised, cleared, delay)
           status == StatusForTimestamps(acknowledged, cleared)
           severity == ResolveSeverity(e, d, copy # 0)
<1>3. cleared = None \/ (cleared \in Nat /\ cleared >= raised)
  BY <1>1, ClearFits
<1>4. \/ acknowledged = None
      \/ /\ acknowledged \in Nat /\ acknowledged >= raised
         /\ cleared # None => acknowledged <= cleared
  <2> HIDE DEF cleared
  <2> QED
    BY <1>3 DEF AcknowledgementTimestamp
<1>5. severity \in Severity
  BY <1>1 DEF ResolveSeverity, Event, Definition, Severity, Warning, Later
<1>6. alarm = [event |-> i, code |-> d.code, copy |-> copy, plant |-> e.plant,
               event_start |-> e.start, raised_at |-> raised,
               acknowledged_at |-> acknowledged, cleared_at |-> cleared,
               status |-> status, severity |-> severity,
               nuisance |-> copy # 0, eligible |-> d.eligible]
  BY <1>2 DEF AlarmLifecycle
<1> HIDE DEF cleared, acknowledged, severity
<1>7. /\ status = "active" => cleared = None
      /\ status = "acknowledged" => acknowledged # None /\ cleared = None
      /\ status = "cleared" => cleared # None
      /\ status \in {"active", "acknowledged", "cleared"}
  BY DEF StatusForTimestamps
<1> HIDE DEF status
<1>8. alarm \in AlarmRow
  BY <1>1, <1>3, <1>4, <1>5, <1>6, <1>7
  DEF AlarmRow, Event, Definition, Alarms!AlarmStatus
<1>9. /\ alarm.raised_at = raised /\ alarm.acknowledged_at = acknowledged
      /\ alarm.cleared_at = cleared /\ alarm.status = status
  BY <1>6
<1>10. None \notin Nat
  BY CascadeConstants
<1>11. QED
  BY <1>3, <1>4, <1>7, <1>8, <1>9, <1>10
  DEF Alarms!DomainAccepts, Alarms!AlarmChecks, Alarms!AlarmStatus,
      Alarms!AlarmTimeChecks, Alarms!AlarmStatusChecks, Alarms!NotBefore

\* The last clearance of a finite group bounds every clearance in it.
LEMMA LastClearFits ==
    ASSUME NEW group, IsFiniteSet(group), \A a \in group : a.cleared_at \in Nat \cup {None}
    PROVE  /\ LastClear(group) \in Nat \cup {None}
           /\ \A a \in group : a.cleared_at # None =>
                  LastClear(group) # None /\ a.cleared_at <= LastClear(group)
<1> DEFINE cleared == {a.cleared_at : a \in group} \ {None}
           Last == CHOOSE t \in cleared : \A u \in cleared : u <= t
<1>1. CASE cleared = {}
  <2>1. LastClear(group) = None
    BY <1>1 DEF LastClear
  <2>2. \A a \in group : a.cleared_at = None
    BY <1>1
  <2> QED
    BY <2>1, <2>2
<1>2. CASE cleared # {}
  <2> DEFINE T == {a \in group : a.cleared_at # None}
  <2>1. IsFiniteSet(T) /\ T # {} /\ \A a \in T : a.cleared_at \in Nat
    <3>1. T \in SUBSET group
      OBVIOUS
    <3>2. IsFiniteSet(T)
      BY <3>1, FS_Subset
    <3> QED
      BY <1>2, <3>2
  <2>2. PICK last \in T : \A b \in T : b.cleared_at <= last.cleared_at
    <3> HIDE DEF T
    <3> QED
      BY <2>1, LatestExists
  <2>3. last.cleared_at \in cleared /\ \A u \in cleared : u <= last.cleared_at
    BY <2>2
  <2>4. Last \in cleared /\ \A u \in cleared : u <= Last
    <3> HIDE DEF cleared
    <3> QED
      BY <2>3
  <2>5. LastClear(group) = Last
    BY <1>2 DEF LastClear
  <2>6. \A a \in group : a.cleared_at # None => a.cleared_at \in cleared
    OBVIOUS
  <2>7. cleared \subseteq Nat /\ None \notin cleared
    OBVIOUS
  <2> HIDE DEF cleared, Last
  <2> QED
    BY <2>4, <2>5, <2>6, <2>7
<1>3. QED
  BY <1>1, <1>2

\* An incident built from a finite, non-empty group of alarms has the right
\* type, fits model and table, and outlasts and outranks its alarms.
LEMMA IncidentFits ==
    ASSUME alarms \subseteq AlarmRow, NEW group \in SUBSET alarms, IsFiniteSet(group),
           NEW primary \in PrimaryAlarms(group), NEW delay \in IncidentDelays
    PROVE  LET incident == BuildIncident(group, primary, delay)
           IN  /\ incident \in IncidentRow
               /\ incident.alarms = group /\ incident.plant = primary.plant
               /\ incident.severity = primary.severity
               /\ Incidents!DomainLifecycle(incident) /\ Incidents!IncidentChecks(incident)
               /\ incident.resolved_at # None => incident.closed_at # None
               /\ \A a \in group :
                      /\ a.severity <= incident.severity
                      /\ a.cleared_at # None =>
                             /\ incident.resolved_at # None
                             /\ a.cleared_at <= incident.resolved_at
<1> DEFINE starts == {a.event_start : a \in group}
           occurred == CHOOSE t \in starts : \A u \in starts : t <= u
           detected == occurred + delay.detection
           assigned == detected + delay.assignment
           investigating == assigned + delay.investigation
           clear == LastClear(group)
           restored == IF clear = None THEN None
                       ELSE Later(clear, investigating) + delay.restoration
           closed == IF clear = None THEN None ELSE restored + delay.closure
           status == IF clear = None THEN "investigating" ELSE "resolved"
           incident == BuildIncident(group, primary, delay)
<1>0. None \notin Nat
  BY CascadeConstants
<1>1. /\ delay.detection \in Nat /\ delay.assignment \in Nat /\ delay.investigation \in Nat
      /\ delay.restoration \in Nat /\ delay.closure \in Nat
  BY CascadeConstants DEF IncidentDelays, DelayKinds
<1>2. \A a \in group : /\ a \in alarms /\ a.event_start \in Nat /\ a.severity \in Severity
                       /\ a.cleared_at \in Nat \cup {None} /\ a.plant \in STRING
  BY DEF AlarmRow
<1>3. /\ primary \in group
      /\ \A a \in group : a.severity <= primary.severity
  BY <1>2 DEF PrimaryAlarms, Severity
<1>4. occurred \in Nat
  <2>1. starts \subseteq Nat /\ starts # {}
    BY <1>2, <1>3
  <2>2. \E t \in starts : \A u \in starts : t <= u
    <3> HIDE DEF starts
    <3> QED
      BY <2>1, EarliestExists
  <2>3. occurred \in starts
    <3> HIDE DEF starts
    <3> QED
      BY <2>2
  <2> QED
    BY <2>1, <2>3
<1>5. incident = [alarms |-> group, primary |-> primary, plant |-> primary.plant,
                  severity |-> primary.severity, occurred_at |-> occurred,
                  detected_at |-> detected, assigned_at |-> assigned,
                  investigation_started_at |-> investigating, resolved_at |-> restored,
                  closed_at |-> closed, status |-> status]
  BY DEF BuildIncident
<1>6. /\ clear \in Nat \cup {None}
      /\ \A a \in group : a.cleared_at # None => clear # None /\ a.cleared_at <= clear
  BY <1>2, LastClearFits
<1> HIDE DEF occurred, clear, incident
<1>7. /\ detected \in Nat /\ assigned \in Nat /\ investigating \in Nat
      /\ detected >= occurred /\ assigned >= detected /\ investigating >= assigned
  BY <1>1, <1>4
<1> HIDE DEF detected, assigned, investigating
<1>8. \/ /\ clear = None /\ restored = None /\ closed = None /\ status = "investigating"
      \/ /\ clear \in Nat /\ restored \in Nat /\ closed \in Nat /\ status = "resolved"
         /\ restored >= investigating /\ restored >= clear /\ closed >= restored
  <2>1. CASE clear = None
    BY <2>1
  <2>2. CASE clear \in Nat
    <3>1. clear # None
      BY <1>0, <2>2
    <3>2. Later(clear, investigating) \in Nat /\ Later(clear, investigating) >= clear
          /\ Later(clear, investigating) >= investigating
      BY <1>7, <2>2 DEF Later
    <3>3. restored = Later(clear, investigating) + delay.restoration
      BY <3>1
    <3>4. closed = restored + delay.closure /\ status = "resolved"
      BY <3>1
    <3> QED
      BY <1>1, <1>7, <2>2, <3>2, <3>3, <3>4
  <2> QED
    BY <1>6, <2>1, <2>2
<1> HIDE DEF restored, closed, status
<1>9. incident \in IncidentRow
  BY <1>2, <1>3, <1>4, <1>5, <1>7, <1>8 DEF IncidentRow, Incidents!IncidentStatus
<1>10. /\ incident.occurred_at = occurred /\ incident.detected_at = detected
       /\ incident.resolved_at = restored /\ incident.closed_at = closed
       /\ incident.status = status /\ incident.alarms = group
       /\ incident.severity = primary.severity /\ incident.plant = primary.plant
  BY <1>5
<1>11. Incidents!DomainLifecycle(incident) /\ Incidents!IncidentChecks(incident)
  BY <1>0, <1>4, <1>7, <1>8, <1>10
  DEF Incidents!DomainLifecycle, Incidents!IncidentChecks, Incidents!IncidentStatus,
      Incidents!IncidentTimeChecks, Incidents!IncidentStatusChecks, Incidents!NotBefore
<1>12. incident.resolved_at # None => incident.closed_at # None
  BY <1>0, <1>8, <1>10
<1>13. \A a \in group : a.cleared_at # None =>
           incident.resolved_at # None /\ a.cleared_at <= incident.resolved_at
  BY <1>0, <1>2, <1>6, <1>8, <1>10
<1>14. QED
  BY <1>3, <1>9, <1>10, <1>11, <1>12, <1>13 DEF incident

\* A work order fits model and table, whichever status it is given, and is
\* completed only after a closure.
LEMMA OrderFits ==
    ASSUME incidents \subseteq IncidentRow, NEW incident \in incidents,
           Incidents!DomainLifecycle(incident),
           incident.resolved_at # None => incident.closed_at # None,
           NEW delay \in OrderDelays, NEW isCancelled \in BOOLEAN
    PROVE  LET order == BuildRecord(incident, delay, isCancelled)
           IN  /\ order \in OrderRow /\ order.incident = incident
               /\ WorkOrders!DomainAccepts(order) /\ WorkOrders!WorkOrderChecks(order)
               /\ order.status = "completed" =>
                      incident.resolved_at # None /\ incident.status = "resolved"
                      /\ incident.closed_at <= order.completed_at
               /\ incident.status # "resolved" => order.status \in {"in_progress", "cancelled"}
<1> DEFINE created == incident.assigned_at
           scheduled == created + 60 * delay.schedule
           started == scheduled + 60 * delay.start
           finished == Completion(incident, started + 60 * delay.duration)
           status == IF isCancelled THEN "cancelled"
                     ELSE IF incident.resolved_at # None THEN "completed"
                     ELSE IF Incidents!OpenByDomain(incident) THEN "in_progress"
                     ELSE "assigned"
           startedAt == IF status \in {"cancelled", "assigned"} THEN None ELSE started
           completedAt == IF status = "completed" THEN finished ELSE None
           cancelledAt == IF isCancelled THEN scheduled ELSE None
           order == BuildRecord(incident, delay, isCancelled)
<1>0. None \notin Nat /\ Team # None
  BY CascadeConstants
<1>1. delay.schedule \in Nat /\ delay.start \in Nat /\ delay.duration \in Nat
  BY CascadeConstants DEF OrderDelays, DelayKinds
<1>2. /\ created \in Nat /\ incident.resolved_at \in Nat \cup {None}
      /\ incident.closed_at \in Nat \cup {None}
      /\ incident.status \in {"open", "investigating", "resolved"}
  BY DEF IncidentRow, Incidents!IncidentStatus
<1>3. incident.resolved_at # None <=> incident.status = "resolved"
  BY <1>2 DEF Incidents!DomainLifecycle
<1>4. Incidents!OpenByDomain(incident) <=> incident.status # "resolved"
  BY <1>2 DEF Incidents!OpenByDomain
<1>5. order = [incident |-> incident, status |-> status, assigned_team |-> Team,
               created_at |-> created, scheduled_at |-> scheduled, started_at |-> startedAt,
               completed_at |-> completedAt, cancelled_at |-> cancelledAt]
  BY DEF BuildRecord
<1>6. /\ scheduled \in Nat /\ started \in Nat /\ started + 60 * delay.duration \in Nat
      /\ scheduled >= created /\ started >= scheduled
      /\ started + 60 * delay.duration >= started
  BY <1>1, <1>2
<1>7. ASSUME incident.closed_at \in Nat
      PROVE  finished \in Nat /\ finished >= started /\ finished >= incident.closed_at
  BY <1>6, <1>7 DEF Completion, Later
<1>8. \/ /\ status = "cancelled" /\ startedAt = None /\ completedAt = None
         /\ cancelledAt = scheduled
      \/ /\ status = "completed" /\ startedAt = started /\ completedAt = finished
         /\ cancelledAt = None /\ incident.status = "resolved"
      \/ /\ status = "in_progress" /\ startedAt = started /\ completedAt = None
         /\ cancelledAt = None /\ incident.status # "resolved"
  BY <1>3, <1>4
<1>9. incident.status = "resolved" => incident.closed_at \in Nat
  BY <1>2, <1>3
<1> HIDE DEF created, scheduled, started, finished, status, startedAt, completedAt,
             cancelledAt, order
<1>10. order \in OrderRow
  BY <1>2, <1>5, <1>6, <1>7, <1>8, <1>9 DEF OrderRow, WorkOrders!WorkOrderStatus
<1>11. /\ order.incident = incident /\ order.status = status /\ order.assigned_team = Team
       /\ order.created_at = created /\ order.scheduled_at = scheduled
       /\ order.started_at = startedAt /\ order.completed_at = completedAt
       /\ order.cancelled_at = cancelledAt
  BY <1>5
<1>12. \A f \in {"scheduled_at", "started_at", "completed_at", "cancelled_at"} :
           order[f] # None => order[f] >= order.created_at
  <2>1. scheduled >= created /\ (startedAt # None => startedAt >= created)
        /\ (completedAt # None => completedAt >= created)
        /\ (cancelledAt # None => cancelledAt >= created)
    BY <1>2, <1>6, <1>7, <1>8, <1>9
  <2> QED
    BY <1>11, <2>1
<1>13. startedAt # None /\ completedAt # None => completedAt >= startedAt
  BY <1>6, <1>7, <1>8, <1>9
<1>14. startedAt # None => startedAt >= scheduled
  BY <1>6, <1>8
<1>15. /\ started # None /\ scheduled # None
       /\ incident.status = "resolved" => finished # None
  BY <1>0, <1>6, <1>7, <1>9
<1>16. WorkOrders!DomainAccepts(order)
  BY <1>0, <1>8, <1>11, <1>12, <1>13, <1>14, <1>15 DEF WorkOrders!DomainAccepts
<1>17. WorkOrders!WorkOrderChecks(order)
  <2>1. WorkOrders!WorkOrderTimeChecks(order)
    BY <1>11, <1>12, <1>13, <1>14 DEF WorkOrders!WorkOrderTimeChecks, WorkOrders!NotBefore
  <2>2. order.status \in WorkOrders!WorkOrderStatus
    BY <1>8, <1>11 DEF WorkOrders!WorkOrderStatus
  <2>3. /\ WorkOrders!UnstartedChecks(order) /\ WorkOrders!InProgressChecks(order)
        /\ WorkOrders!FinishedChecks(order)
    BY <1>0, <1>8, <1>11, <1>15
    DEF WorkOrders!UnstartedChecks, WorkOrders!InProgressChecks, WorkOrders!FinishedChecks
  <2> QED
    BY <2>1, <2>2, <2>3 DEF WorkOrders!WorkOrderChecks
<1>18. order.status = "completed" =>
           incident.resolved_at # None /\ incident.status = "resolved"
           /\ incident.closed_at <= order.completed_at
  BY <1>3, <1>7, <1>8, <1>9, <1>11
<1>19. incident.status # "resolved" => order.status \in {"in_progress", "cancelled"}
  BY <1>8, <1>11
<1>20. QED
  BY <1>10, <1>11, <1>16, <1>17, <1>18, <1>19 DEF order

-----------------------------------------------------------------------------
(* The groups are the classes of an equivalence.                           *)

LEMMA RelatedReflexive ==
    ASSUME alarms \subseteq AlarmRow, NEW a \in Eligible
    PROVE  Related(a, a)
<1>1. a.raised_at \in Nat
  BY DEF Eligible, AlarmRow
<1>2. \A c \in Eligible : ~ (/\ Sooner(a.raised_at, a.raised_at) <= c.raised_at
                             /\ c.raised_at < Later(a.raised_at, a.raised_at))
  <2>1. \A c \in Eligible : c.raised_at \in Nat
    BY DEF Eligible, AlarmRow
  <2> QED
    BY <1>1, <2>1 DEF Later, Sooner
<1>3. QED
  BY <1>2 DEF Related, Chained

LEMMA RelatedSymmetric ==
    ASSUME alarms \subseteq AlarmRow, NEW a \in Eligible, NEW b \in Eligible, Related(a, b)
    PROVE  Related(b, a)
<1>1. a.raised_at \in Nat /\ b.raised_at \in Nat
  BY DEF Eligible, AlarmRow
<1>2. /\ Later(a.raised_at, b.raised_at) = Later(b.raised_at, a.raised_at)
      /\ Sooner(a.raised_at, b.raised_at) = Sooner(b.raised_at, a.raised_at)
  BY <1>1 DEF Later, Sooner
<1>3. CASE byTruth
  BY <1>3 DEF Related
<1>4. CASE ~byTruth
  BY <1>2, <1>4 DEF Related, Chained
<1>5. QED
  BY <1>3, <1>4

\* An alarm between a and b lies between a and c or between c and b.
LEMMA RelatedTransitive ==
    ASSUME alarms \subseteq AlarmRow, NEW a \in Eligible, NEW b \in Eligible, NEW c \in Eligible,
           Related(a, c), Related(c, b)
    PROVE  Related(a, b)
<1>1. CASE byTruth
  BY <1>1 DEF Related
<1>2. CASE ~byTruth
  <2>1. Chained(a, c) /\ Chained(c, b)
    BY <1>2 DEF Related
  <2>2. a.plant = c.plant /\ c.plant = b.plant
    BY <2>1 DEF Chained
  <2>3. ASSUME NEW x \in Eligible, x.plant = a.plant,
               Sooner(a.raised_at, b.raised_at) <= x.raised_at,
               x.raised_at < Later(a.raised_at, b.raised_at)
        PROVE  \E d \in Eligible : /\ d.plant = a.plant /\ x.raised_at < d.raised_at
                                   /\ d.raised_at <= x.raised_at + Window
    <3>1. /\ a.raised_at \in Nat /\ b.raised_at \in Nat /\ c.raised_at \in Nat
          /\ x.raised_at \in Nat
      BY DEF Eligible, AlarmRow
    <3>2. \/ /\ Sooner(a.raised_at, c.raised_at) <= x.raised_at
             /\ x.raised_at < Later(a.raised_at, c.raised_at)
          \/ /\ Sooner(c.raised_at, b.raised_at) <= x.raised_at
             /\ x.raised_at < Later(c.raised_at, b.raised_at)
      BY <2>3, <3>1 DEF Later, Sooner
    <3>3. QED
      BY <2>1, <2>2, <2>3, <3>2 DEF Chained
  <2>4. Chained(a, b)
    BY <2>2, <2>3 DEF Chained
  <2> QED
    BY <1>2, <2>4 DEF Related
<1>3. QED
  BY <1>1, <1>2

\* The groups are disjoint, and every eligible alarm is in one.
LEMMA GroupsPartition ==
    ASSUME alarms \subseteq AlarmRow
    PROVE  /\ \A g \in BuildAlarmGroups :
                  /\ g \in SUBSET alarms /\ g # {}
                  /\ \A a \in g : a.eligible /\ ~a.nuisance /\ \A b \in g : a.plant = b.plant
                  /\ \A h \in BuildAlarmGroups \ {g} : g \cap h = {}
           /\ \A a \in Eligible : \E g \in BuildAlarmGroups : a \in g
<1> DEFINE Class(a) == {b \in Eligible : Related(a, b)}
<1>1. BuildAlarmGroups = {Class(a) : a \in Eligible}
  BY DEF BuildAlarmGroups
<1>2. \A a \in Eligible : a \in Class(a)
  BY RelatedReflexive
<1>3. ASSUME NEW a \in Eligible, NEW b \in Eligible, NEW c \in Class(a), c \in Class(b)
      PROVE  Class(a) \subseteq Class(b)
  <2>1. c \in Eligible /\ Related(a, c) /\ Related(b, c)
    BY <1>3
  <2>2. Related(c, a)
    BY <2>1, RelatedSymmetric
  <2>3. Related(b, a)
    BY <2>1, <2>2, RelatedTransitive
  <2>4. \A x \in Eligible : Related(a, x) => Related(b, x)
    BY <2>3, RelatedTransitive
  <2> QED
    BY <2>4
<1>4. \A a, b \in Eligible : Class(a) \cap Class(b) # {} => Class(a) = Class(b)
  <2> HIDE DEF Class
  <2> QED
    BY <1>3
<1>5. \A a \in Eligible : /\ Class(a) \subseteq Eligible
                          /\ \A x, y \in Class(a) : x.plant = y.plant
  BY DEF Related, Chained
<1>6. Eligible \subseteq alarms /\ \A a \in Eligible : a.eligible /\ ~a.nuisance
  BY DEF Eligible
<1> HIDE DEF Class
<1>7. QED
  BY <1>1, <1>2, <1>4, <1>5, <1>6

-----------------------------------------------------------------------------
(* The inductive invariant.                                                *)

LEMMA CascadeInit == Init => CascadeInv
<1> SUFFICES ASSUME Init PROVE CascadeInv
  OBVIOUS
<1>1. events \in Schedules /\ events \in Seq(Event)
  BY CascadeConstants DEF Init
<1>2. \A p \in pending : p[1] \in DOMAIN events /\ p[2] \in Catalogue /\ p[3] \in 0..MaxNuisance
  BY DEF Init, DefinitionsForEvent
<1>3. TypeOK
  BY <1>2 DEF Init, TypeOK
<1>4. IsFiniteSet({})
  BY FS_EmptySet
<1>5. QED
  BY <1>3, <1>4
  DEF Init, CascadeInv, StageInv, AlarmsInv, GroupsInv, IncidentsInv, OrdersInv, CriticalInv,
      Eligible, OneIncidentPerAlarm, OrdersFollowIncidents

LEMMA GenerateAlarmKeeps ==
    ASSUME CascadeInv, GenerateAlarm
    PROVE  CascadeInv'
<1>1. /\ stage = "alarms" /\ groups = {} /\ incidents = {} /\ backlog = {} /\ orders = {}
      /\ UNCHANGED <<stage, events, byTruth, groups, incidents, backlog, orders>>
  BY DEF GenerateAlarm, CascadeInv, StageInv
<1>2. PICK p \in pending :
          /\ pending' = pending \ {p}
          /\ \/ \E alarm \in BuildCandidate(p[1], p[2], p[3]) : alarms' = alarms \cup {alarm}
             \/ alarms' = alarms
  BY DEF GenerateAlarm
<1>3. /\ p[1] \in DOMAIN events /\ p[2] \in Catalogue /\ p[3] \in 0..MaxNuisance
      /\ events \in Schedules /\ events \in Seq(Event)
  BY CascadeConstants DEF CascadeInv, TypeOK
<1>4. \/ alarms' = alarms
      \/ \E alarm \in AlarmRow : /\ Alarms!DomainAccepts(alarm) /\ Alarms!AlarmChecks(alarm)
                                 /\ alarms' = alarms \cup {alarm}
  BY <1>2, <1>3, AlarmFits
<1>5. AlarmRow' = AlarmRow
  BY <1>1 DEF AlarmRow
<1>6. TypeOK'
  BY <1>1, <1>2, <1>4, <1>5 DEF CascadeInv, TypeOK
<1>7. AlarmsInv'
  <2>1. IsFiniteSet(alarms')
    BY <1>4, FS_AddElement DEF CascadeInv, AlarmsInv
  <2> QED
    BY <1>4, <2>1 DEF CascadeInv, AlarmsInv
<1>8. CriticalInv'
  BY <1>1 DEF CriticalInv, Waiting
<1>9. QED
  BY <1>1, <1>6, <1>7, <1>8
  DEF CascadeInv, StageInv, GroupsInv, IncidentsInv, OrdersInv, OneIncidentPerAlarm,
      OrdersFollowIncidents

LEMMA FrameAlarmsKeeps ==
    ASSUME CascadeInv, FrameAlarms
    PROVE  CascadeInv'
<1>1. /\ stage = "alarms" /\ groups = {} /\ incidents = {} /\ backlog = {} /\ orders = {}
      /\ UNCHANGED <<events, byTruth, pending, alarms, incidents, backlog, orders>>
  BY DEF FrameAlarms, CascadeInv, StageInv
<1>2. stage' = "incidents" /\ groups' = BuildAlarmGroups
  BY DEF FrameAlarms, CascadeInv, AlarmsInv
<1>3. alarms \subseteq AlarmRow
  BY DEF CascadeInv, TypeOK
<1>4. GroupsInv'
  BY <1>1, <1>2, <1>3, GroupsPartition DEF GroupsInv
<1>5. \A a \in Eligible' : \E g \in groups' : a \in g
  <2>1. Eligible' = Eligible
    BY <1>1 DEF Eligible
  <2> QED
    BY <1>2, <1>3, <2>1, GroupsPartition
<1>6. CriticalInv'
  BY <1>2, <1>5 DEF CriticalInv, Waiting
<1>7. TypeOK'
  <2>1. AlarmRow' = AlarmRow
    BY <1>1 DEF AlarmRow
  <2>2. groups' \subseteq SUBSET alarms'
    BY <1>1, <1>2, <1>3, GroupsPartition
  <2> QED
    BY <1>1, <1>2, <2>1, <2>2 DEF CascadeInv, TypeOK
<1>8. QED
  BY <1>1, <1>2, <1>4, <1>6, <1>7
  DEF CascadeInv, StageInv, AlarmsInv, IncidentsInv, OrdersInv, OneIncidentPerAlarm,
      OrdersFollowIncidents

LEMMA ConvertGroupKeeps ==
    ASSUME CascadeInv, ConvertGroup
    PROVE  CascadeInv'
<1>1. /\ stage = "incidents" /\ backlog = {} /\ orders = {}
      /\ UNCHANGED <<stage, events, byTruth, pending, alarms, backlog, orders>>
  BY DEF ConvertGroup, CascadeInv, StageInv
<1>2. PICK group \in groups, delay \in IncidentDelays :
      \E primary \in PrimaryAlarms(group) :
          /\ groups' = groups \ {group}
          /\ \/ /\ TRUE \in Draw["incident"][primary.severity]
                /\ incidents' = incidents \cup {BuildIncident(group, primary, delay)}
             \/ FALSE \in Draw["incident"][primary.severity] /\ UNCHANGED incidents
  BY DEF ConvertGroup
<1>3. PICK primary \in PrimaryAlarms(group) :
          /\ groups' = groups \ {group}
          /\ \/ /\ TRUE \in Draw["incident"][primary.severity]
                /\ incidents' = incidents \cup {BuildIncident(group, primary, delay)}
             \/ FALSE \in Draw["incident"][primary.severity] /\ UNCHANGED incidents
  BY <1>2
<1> DEFINE incident == BuildIncident(group, primary, delay)
<1>4. /\ alarms \subseteq AlarmRow /\ group \in SUBSET alarms /\ IsFiniteSet(group)
      /\ primary \in group /\ primary \in AlarmRow
  <2>1. group \in SUBSET alarms /\ alarms \subseteq AlarmRow
    BY DEF CascadeInv, TypeOK
  <2>2. IsFiniteSet(group)
    BY <2>1, FS_Subset DEF CascadeInv, AlarmsInv
  <2>3. primary \in group
    BY DEF PrimaryAlarms
  <2> QED
    BY <2>1, <2>2, <2>3
<1>5. /\ incident \in IncidentRow
      /\ incident.alarms = group /\ incident.plant = primary.plant
      /\ incident.severity = primary.severity
      /\ Incidents!DomainLifecycle(incident) /\ Incidents!IncidentChecks(incident)
      /\ incident.resolved_at # None => incident.closed_at # None
      /\ \A a \in group :
             /\ a.severity <= incident.severity
             /\ a.cleared_at # None =>
                    incident.resolved_at # None /\ a.cleared_at <= incident.resolved_at
  BY <1>4, IncidentFits
<1> HIDE DEF incident
<1>6. incidents' = incidents \cup {incident} \/ incidents' = incidents
  BY <1>3 DEF incident
<1>7. AlarmRow' = AlarmRow /\ IncidentRow' = IncidentRow
  BY <1>1 DEF AlarmRow, IncidentRow
<1>8. TypeOK'
  BY <1>1, <1>3, <1>5, <1>6, <1>7 DEF CascadeInv, TypeOK
<1>9. GroupsInv'
  <2>1. \A h \in groups' : h \in groups /\ h # group
    BY <1>3
  <2>2. \A h \in groups' : h \cap group = {}
    BY <2>1 DEF CascadeInv, GroupsInv
  <2>3. \A h \in groups', i \in incidents' : h \cap i.alarms = {}
    BY <1>5, <1>6, <2>1, <2>2 DEF CascadeInv, GroupsInv
  <2> QED
    BY <2>1, <2>3 DEF CascadeInv, GroupsInv
<1>10. IncidentsInv'
  BY <1>5, <1>6 DEF CascadeInv, IncidentsInv
<1>11. OneIncidentPerAlarm'
  <2>1. \A i \in incidents : i.alarms \cap group = {}
    BY DEF CascadeInv, GroupsInv
  <2>2. \A a \in group : a.eligible /\ ~a.nuisance /\ a.plant = incident.plant
    BY <1>4, <1>5 DEF CascadeInv, GroupsInv
  <2> QED
    BY <1>5, <1>6, <2>1, <2>2 DEF CascadeInv, OneIncidentPerAlarm
<1>12. CriticalInv'
  <2> SUFFICES ASSUME CertainAtTop, NEW a \in Eligible, a.severity = Critical
               PROVE  Waiting(a)'
    BY <1>1 DEF CriticalInv, CertainAtTop, Eligible
  <2>1. Waiting(a)
    BY DEF CascadeInv, CriticalInv
  <2>2. (\E g \in groups : a \in g) \/ (\E i \in incidents : a \in i.alarms)
    BY <1>1, <2>1 DEF Waiting
  <2>3. ASSUME a \in group
        PROVE  incident \in incidents'
    <3>1. primary.severity = Critical
      <4>1. primary.severity \in 0..3 /\ a.severity <= primary.severity
        BY <1>4, <1>5, <2>3 DEF AlarmRow, Severity
      <4> QED
        BY <4>1 DEF Critical
    <3>2. FALSE \notin Draw["incident"][primary.severity]
      BY <3>1 DEF CertainAtTop
    <3> QED
      BY <1>3, <3>2 DEF incident
  <2>4. (\E g \in groups' : a \in g) \/ (\E i \in incidents' : a \in i.alarms)
    BY <1>3, <1>5, <1>6, <2>2, <2>3
  <2> QED
    BY <1>1, <2>4 DEF Waiting
<1>13. QED
  BY <1>1, <1>8, <1>9, <1>10, <1>11, <1>12
  DEF CascadeInv, StageInv, AlarmsInv, OrdersInv, OrdersFollowIncidents

LEMMA FrameIncidentsKeeps ==
    ASSUME CascadeInv, FrameIncidents
    PROVE  CascadeInv'
<1>1. /\ stage = "incidents" /\ groups = {} /\ orders = {}
      /\ UNCHANGED <<events, byTruth, pending, alarms, groups, incidents, orders>>
  BY DEF FrameIncidents, CascadeInv, StageInv
<1>2. stage' = "work_orders" /\ backlog' = Ordered
  BY DEF FrameIncidents, CascadeInv, IncidentsInv
<1>3. Ordered \subseteq incidents
  BY DEF Ordered
<1>4. TypeOK'
  <2>1. AlarmRow' = AlarmRow /\ IncidentRow' = IncidentRow /\ OrderRow' = OrderRow
    BY <1>1 DEF AlarmRow, IncidentRow, OrderRow
  <2> QED
    BY <1>1, <1>2, <1>3, <2>1 DEF CascadeInv, TypeOK
<1>5. CriticalInv'
  <2> SUFFICES ASSUME CertainAtTop, NEW a \in Eligible, a.severity = Critical
               PROVE  Waiting(a)'
    BY <1>1 DEF CriticalInv, CertainAtTop, Eligible
  <2>1. Ordered = incidents
    BY DEF CertainAtTop, Ordered
  <2>2. \E i \in incidents : a \in i.alarms
    BY <1>1 DEF CascadeInv, CriticalInv, Waiting
  <2> QED
    BY <1>2, <2>1, <2>2 DEF Waiting
<1>6. QED
  BY <1>1, <1>2, <1>4, <1>5
  DEF CascadeInv, StageInv, AlarmsInv, GroupsInv, IncidentsInv, OrdersInv,
      OneIncidentPerAlarm, OrdersFollowIncidents

LEMMA ConvertIncidentKeeps ==
    ASSUME CascadeInv, ConvertIncident
    PROVE  CascadeInv'
<1>1. /\ stage = "work_orders" /\ groups = {}
      /\ UNCHANGED <<events, byTruth, pending, alarms, groups, incidents>>
  BY DEF ConvertIncident, CascadeInv, StageInv
<1>2. PICK incident \in backlog, delay \in OrderDelays, isCancelled \in BOOLEAN :
          LET order == BuildRecord(incident, delay, isCancelled)
          IN  \/ /\ TRUE \in Draw["work_order"][incident.severity]
                 /\ backlog' = backlog \ {incident}
                 /\ IF WorkOrders!DomainAccepts(order)
                    THEN orders' = orders \cup {order} /\ UNCHANGED stage
                    ELSE stage' = "raised" /\ UNCHANGED orders
              \/ /\ FALSE \in Draw["work_order"][incident.severity]
                 /\ backlog' = backlog \ {incident}
                 /\ UNCHANGED <<stage, orders>>
  BY DEF ConvertIncident
<1> DEFINE order == BuildRecord(incident, delay, isCancelled)
<1>3. incident \in incidents /\ incidents \subseteq IncidentRow
  BY DEF CascadeInv, TypeOK
<1>4. /\ Incidents!DomainLifecycle(incident)
      /\ incident.resolved_at # None => incident.closed_at # None
      /\ \A a \in incident.alarms :
             /\ a.severity <= incident.severity
             /\ a.cleared_at # None =>
                    incident.resolved_at # None /\ a.cleared_at <= incident.resolved_at
  BY <1>3 DEF CascadeInv, IncidentsInv
<1>5. /\ order \in OrderRow /\ order.incident = incident
      /\ WorkOrders!DomainAccepts(order) /\ WorkOrders!WorkOrderChecks(order)
      /\ order.status = "completed" =>
             incident.resolved_at # None /\ incident.status = "resolved"
             /\ incident.closed_at <= order.completed_at
      /\ incident.status # "resolved" => order.status \in {"in_progress", "cancelled"}
  BY <1>3, <1>4, OrderFits
<1> HIDE DEF order
<1>6. /\ stage' = stage /\ backlog' = backlog \ {incident}
      /\ \/ orders' = orders \cup {order}
         \/ FALSE \in Draw["work_order"][incident.severity] /\ orders' = orders
  BY <1>2, <1>5 DEF order
<1>7. TypeOK'
  <2>1. AlarmRow' = AlarmRow /\ IncidentRow' = IncidentRow /\ OrderRow' = OrderRow
    BY <1>1 DEF AlarmRow, IncidentRow, OrderRow
  <2> QED
    BY <1>1, <1>5, <1>6, <2>1 DEF CascadeInv, TypeOK
<1>8. OrdersInv'
  BY <1>5, <1>6 DEF CascadeInv, OrdersInv
<1> DEFINE Follows(o) ==
      /\ o.status = "completed" =>
             /\ o.incident.status = "resolved" /\ o.incident.closed_at <= o.completed_at
             /\ \A a \in o.incident.alarms :
                    a.cleared_at # None => a.cleared_at <= o.incident.resolved_at
      /\ o.incident.status # "resolved" => o.status \in {"in_progress", "cancelled"}
<1>9. OrdersFollowIncidents'
  <2>1. \A o \in orders : Follows(o)
    BY DEF CascadeInv, OrdersFollowIncidents
  <2>2. Follows(order)
    BY <1>4, <1>5
  <2>3. \A o \in orders' : Follows(o)
    <3> HIDE DEF Follows
    <3> QED
      BY <1>6, <2>1, <2>2
  <2> QED
    BY <2>3 DEF OrdersFollowIncidents
<1>10. CriticalInv'
  <2> SUFFICES ASSUME CertainAtTop, NEW a \in Eligible, a.severity = Critical
               PROVE  Waiting(a)'
    BY <1>1 DEF CriticalInv, CertainAtTop, Eligible
  <2>1. (\E i \in backlog : a \in i.alarms) \/ (\E o \in orders : a \in o.incident.alarms)
    BY <1>1 DEF CascadeInv, CriticalInv, Waiting
  <2>2. ASSUME a \in incident.alarms
        PROVE  orders' = orders \cup {order}
    <3>1. incident.severity = Critical
      <4>1. incident.severity \in 0..3 /\ a.severity <= incident.severity
        BY <1>3, <1>4, <2>2 DEF IncidentRow, Severity
      <4> QED
        BY <4>1 DEF Critical
    <3> QED
      BY <1>6, <3>1 DEF CertainAtTop
  <2>3. (\E i \in backlog' : a \in i.alarms) \/ (\E o \in orders' : a \in o.incident.alarms)
    BY <1>5, <1>6, <2>1, <2>2
  <2> QED
    BY <1>1, <1>6, <2>3 DEF Waiting
<1>11. QED
  BY <1>1, <1>6, <1>7, <1>8, <1>9, <1>10
  DEF CascadeInv, StageInv, AlarmsInv, GroupsInv, IncidentsInv, OneIncidentPerAlarm

LEMMA FrameOrdersKeeps ==
    ASSUME CascadeInv, FrameOrders
    PROVE  CascadeInv'
<1>1. /\ stage = "work_orders" /\ stage' = "done" /\ backlog = {} /\ groups = {}
      /\ UNCHANGED <<events, byTruth, pending, alarms, groups, incidents, backlog, orders>>
  BY DEF FrameOrders, CascadeInv, StageInv
<1>2. TypeOK'
  BY <1>1 DEF CascadeInv, TypeOK, AlarmRow, IncidentRow, OrderRow
<1>3. CriticalInv'
  BY <1>1 DEF CascadeInv, CriticalInv, CertainAtTop, Eligible, Waiting
<1>4. QED
  BY <1>1, <1>2, <1>3
  DEF CascadeInv, StageInv, AlarmsInv, GroupsInv, IncidentsInv, OrdersInv,
      OneIncidentPerAlarm, OrdersFollowIncidents

LEMMA CascadeStep == CascadeInv /\ [Next]_vars => CascadeInv'
<1> SUFFICES ASSUME CascadeInv, [Next]_vars PROVE CascadeInv'
  OBVIOUS
<1>1. CASE Next
  BY <1>1, GenerateAlarmKeeps, FrameAlarmsKeeps, ConvertGroupKeeps, FrameIncidentsKeeps,
     ConvertIncidentKeeps, FrameOrdersKeeps DEF Next
<1>2. CASE UNCHANGED vars
  BY <1>2
  DEF vars, CascadeInv, TypeOK, StageInv, AlarmsInv, GroupsInv, IncidentsInv, OrdersInv,
      OneIncidentPerAlarm, OrdersFollowIncidents, CriticalInv, CertainAtTop, Eligible,
      Waiting, AlarmRow, IncidentRow, OrderRow
<1>3. QED
  BY <1>1, <1>2

\* Every reachable state of the cascade satisfies the inductive invariant.
THEOREM CascadeInvariant == Spec => []CascadeInv
<1>1. QED
  BY CascadeInit, CascadeStep, PTL DEF Spec

-----------------------------------------------------------------------------
(* What follows from it.                                                   *)

\* Rows, groups and backlog are of the generator's types.
THEOREM CascadeTypes == Spec => []TypeOK
<1>1. CascadeInv => TypeOK
  BY DEF CascadeInv
<1>2. QED
  BY <1>1, CascadeInvariant, PTL

\* No domain model refuses a generated row, and every row passes the CHECK
\* constraints of its table, for every catalogue, schedule, delay and draw.
THEOREM CascadeRowsFit == Spec => []RowsFitModelAndTable
<1>1. CascadeInv => RowsFitModelAndTable
  BY DEF CascadeInv, StageInv, AlarmsInv, IncidentsInv, OrdersInv, RowsFitModelAndTable
<1>2. QED
  BY <1>1, CascadeInvariant, PTL

\* An alarm is linked to one incident at most, whichever grouping is used.
THEOREM CascadeOneIncident == Spec => []OneIncidentPerAlarm
<1>1. CascadeInv => OneIncidentPerAlarm
  BY DEF CascadeInv
<1>2. QED
  BY <1>1, CascadeInvariant, PTL

\* With certain conversion at the top, a critical alarm ends in a work order.
THEOREM CascadeCriticalWork == Spec => []CriticalAlarmsGetWork
<1>1. CascadeInv => CriticalAlarmsGetWork
  BY DEF CascadeInv, StageInv, CriticalInv, Waiting, CriticalAlarmsGetWork
<1>2. QED
  BY <1>1, CascadeInvariant, PTL

\* In the code's order of the stages, which is not the plan's, an order is
\* completed after its incident is closed, and that is closed after each
\* clearance among its alarms.
THEOREM CascadeOrdersFollow == Spec => []OrdersFollowIncidents
<1>1. CascadeInv => OrdersFollowIncidents
  BY DEF CascadeInv
<1>2. QED
  BY <1>1, CascadeInvariant, PTL
=============================================================================
