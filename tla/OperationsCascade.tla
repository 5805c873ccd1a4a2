-------------------------- MODULE OperationsCascade --------------------------
(***************************************************************************)
(* The operations stages of the synthetic generator                        *)
(* (synthetic/operations/): scheduled events become alarms, alarms become  *)
(* incidents, incidents become work orders.  Times are minutes.  A random  *)
(* draw is a choice from the set of its outcomes; identifiers follow the   *)
(* final sort and are left out, so ties of the sort are broken either way. *)
(* The domain models' constructors (AlarmRecords, IncidentRecords,         *)
(* WorkOrderRecords) judge every row, and a refusal ends the run.          *)
(***************************************************************************)
EXTENDS Naturals, Sequences, FiniteSets

CONSTANTS
    None,
    Schedules,          \* the event sequences the scheduler may hand over
    Catalogue,          \* alarm definitions
    ObservationEnd,     \* the end of the data set, or None
    Delays,             \* for each kind of delay, the minutes it may take
    ManualExtra,        \* manual_clear_extra_minutes
    MaxNuisance,        \* maximum_nuisance_alarms_per_event
    Draw,               \* Draw[stage][severity]: the outcomes of a conversion
    Groupings,          \* the values of group_by_ground_truth_event
    Window,             \* grouping_window_minutes
    IncludeOpen, IncludeResolved,   \* the incidents that get work orders
    Team

Alarms     == INSTANCE AlarmRecords
Incidents  == INSTANCE IncidentRecords
WorkOrders == INSTANCE WorkOrderRecords

DelayKinds == {"acknowledgement", "nuisance", "detection", "assignment", "investigation",
               "restoration", "closure", "schedule", "start", "duration"}

\* informational .. critical of alarms, low .. critical of events and
\* incidents, p4 .. p1 and low .. critical of work orders.
Severity == 0..3
Warning  == 1
Critical == 3

Behaviours == {"auto_clear", "clear_with_event", "manual_clear", "latched", "no_clear"}

Definition == [code : STRING, types : SUBSET STRING, severity : Severity,
               behaviour : Behaviours, trigger : Nat, clear : Nat,
               rules : SUBSET STRING, eligible : BOOLEAN, nuisance : BOOLEAN]

Event == {e \in [type : STRING, expected : STRING \cup {None}, plant : STRING,
                 start : Nat, end : Nat, severity : Severity, rules : SUBSET STRING] :
              e.start < e.end}

ASSUME CascadeConstants ==
    /\ Catalogue \subseteq Definition
    /\ Schedules \subseteq Seq(Event)
    /\ ObservationEnd \in Nat \cup {None}
    /\ Delays \in [DelayKinds -> SUBSET Nat]
    /\ ManualExtra \in Nat /\ MaxNuisance \in Nat /\ Window \in Nat
    /\ Draw \in [{"incident", "work_order"} -> [Severity -> SUBSET BOOLEAN]]
    /\ Groupings \cup {IncludeOpen, IncludeResolved} \subseteq BOOLEAN
    /\ Team # None /\ None \notin Nat

VARIABLES
    stage,      \* "alarms", "incidents", "work_orders", "done"; "raised": an exception
    events,     \* the schedule
    byTruth,    \* the configured group_by_ground_truth_event
    pending,    \* <<event, definition, copy>> still to be turned into alarms
    alarms,
    groups,     \* alarm groups still to be turned into incidents
    incidents,
    backlog,    \* incidents still to be turned into work orders
    orders

vars == <<stage, events, byTruth, pending, alarms, groups, incidents, backlog, orders>>

Later(s, t) == IF s >= t THEN s ELSE t
Sooner(s, t) == IF s <= t THEN s ELSE t

-----------------------------------------------------------------------------
(* Alarms: alarms.py                                                       *)

\* An expected code the catalogue knows decides alone.
DefinitionsForEvent(e) ==
    LET expected == {d \in Catalogue : d.code = e.expected}
    IN  IF expected # {} THEN expected ELSE {d \in Catalogue : e.type \in d.types}

IsSuppressed(e, d) == e.rules \cap d.rules # {}

ClearTimestamp(e, d, raised, isNuisance) ==
    LET delay == d.clear + (IF d.behaviour = "manual_clear" THEN ManualExtra ELSE 0)
        lasting == Later(5, Sooner(30, IF delay = 0 THEN 15 ELSE delay))
        candidate == IF isNuisance THEN raised + lasting ELSE e.end + delay
    IN  IF \/ d.behaviour \in {"latched", "no_clear"}
           \/ ObservationEnd # None /\ candidate > ObservationEnd
        THEN None
        ELSE Later(candidate, raised)

\* Mutant: the acknowledgement drawn is kept whatever the clearance.
AcknowledgementAlways(raised, cleared, delay) ==
    IF delay = None THEN None ELSE raised + delay

\* delay is None when no acknowledgement is drawn.
AcknowledgementTimestamp(raised, cleared, delay) ==
    IF delay = None \/ (cleared # None /\ raised + delay > cleared) THEN None
    ELSE raised + delay

ResolveSeverity(e, d, isNuisance) ==
    IF isNuisance THEN Warning ELSE Later(d.severity, e.severity)

StatusForTimestamps(acknowledged, cleared) ==
    IF cleared # None THEN "cleared"
    ELSE IF acknowledged # None THEN "acknowledged" ELSE "active"

AlarmLifecycle(i, d, copy, raised, delay) ==
    LET e == events[i]
        cleared == ClearTimestamp(e, d, raised, copy # 0)
        acknowledged == AcknowledgementTimestamp(raised, cleared, delay)
    IN  [event |-> i, code |-> d.code, copy |-> copy, plant |-> e.plant,
         event_start |-> e.start, raised_at |-> raised,
         acknowledged_at |-> acknowledged, cleared_at |-> cleared,
         status |-> StatusForTimestamps(acknowledged, cleared),
         severity |-> ResolveSeverity(e, d, copy # 0),
         nuisance |-> copy # 0, eligible |-> d.eligible]

\* The alarms that event i and definition d may lead to: copy 0 is the alarm
\* itself, dropped when the event is over first; the others are nuisances.
BuildCandidate(i, d, copy) ==
    LET e == events[i]
        raises == IF copy = 0
                  THEN {t \in {e.start + d.trigger} : t < e.end}
                  ELSE {e.start + d.trigger + delay : delay \in Delays["nuisance"]}
    IN  IF IsSuppressed(e, d) \/ (copy # 0 /\ ~d.nuisance) THEN {}
        ELSE {AlarmLifecycle(i, d, copy, raised, delay) :
                 raised \in raises, delay \in Delays["acknowledgement"] \cup {None}}

\* Events are taken in the order of their start.
GenerateAlarm ==
    /\ stage = "alarms"
    /\ \E p \in pending :
           LET candidates == BuildCandidate(p[1], p[2], p[3])
           IN  /\ \A q \in pending : p[1] <= q[1]
               /\ pending' = pending \ {p}
               /\ \/ \E alarm \in candidates : alarms' = alarms \cup {alarm}
                  \/ /\ candidates = {} \/ p[3] # 0     \* a nuisance need not be drawn
                     /\ UNCHANGED alarms
    /\ UNCHANGED <<stage, events, byTruth, groups, incidents, backlog, orders>>

-----------------------------------------------------------------------------
(* Incidents: incidents.py                                                 *)

Eligible == {a \in alarms : a.eligible /\ ~a.nuisance}

\* No gap longer than the window separates the two among the alarms of the
\* plant.  (The mutant asks only how far apart the two are.)
ChainedDirectly(a, b) ==
    a.plant = b.plant /\ Later(a.raised_at, b.raised_at)
                             - Sooner(a.raised_at, b.raised_at) <= Window

Chained(a, b) ==
    /\ a.plant = b.plant
    /\ \A c \in Eligible :
           /\ c.plant = a.plant
           /\ Sooner(a.raised_at, b.raised_at) <= c.raised_at
           /\ c.raised_at < Later(a.raised_at, b.raised_at)
           => \E d \in Eligible : /\ d.plant = a.plant /\ c.raised_at < d.raised_at
                                  /\ d.raised_at <= c.raised_at + Window

Related(a, b) ==
    IF byTruth THEN a.plant = b.plant /\ a.event = b.event ELSE Chained(a, b)

BuildAlarmGroups == {{b \in Eligible : Related(a, b)} : a \in Eligible}

\* The end of generate_alarms: the domain model judges every row.
FrameAlarms ==
    /\ stage = "alarms" /\ pending = {}
    /\ IF \A a \in alarms : Alarms!DomainAccepts(a)
       THEN stage' = "incidents" /\ groups' = BuildAlarmGroups
       ELSE stage' = "raised" /\ UNCHANGED groups
    /\ UNCHANGED <<events, byTruth, pending, alarms, incidents, backlog, orders>>

\* Mutant: the earliest alarm leads, whatever its severity.
PrimaryAlarmsEarliest(group) ==
    {a \in group : \A b \in group : a.raised_at <= b.raised_at}

\* The alarms that may lead the group: the most severe, and of those the
\* earliest (a tie goes by identifier).
PrimaryAlarms(group) ==
    {a \in group : \A b \in group :
         a.severity > b.severity \/ (a.severity = b.severity /\ a.raised_at <= b.raised_at)}

\* Mutant: the first clearance of the group counts.
LastClearFirst(group) ==
    LET cleared == {a.cleared_at : a \in group} \ {None}
    IN  IF cleared = {} THEN None ELSE CHOOSE t \in cleared : \A u \in cleared : t <= u

LastClear(group) ==
    LET cleared == {a.cleared_at : a \in group} \ {None}
    IN  IF cleared = {} THEN None ELSE CHOOSE t \in cleared : \A u \in cleared : u <= t

\* delay: one outcome of each of the delays.
BuildIncident(group, primary, delay) ==
    LET starts == {a.event_start : a \in group}
        occurred == CHOOSE t \in starts : \A u \in starts : t <= u
        detected == occurred + delay.detection
        assigned == detected + delay.assignment
        investigating == assigned + delay.investigation
        clear == LastClear(group)
        restored == IF clear = None THEN None
                    ELSE Later(clear, investigating) + delay.restoration
    IN  [alarms |-> group, primary |-> primary, plant |-> primary.plant,
         severity |-> primary.severity, occurred_at |-> occurred, detected_at |-> detected,
         assigned_at |-> assigned, investigation_started_at |-> investigating,
         resolved_at |-> restored,
         closed_at |-> IF clear = None THEN None ELSE restored + delay.closure,
         status |-> IF clear = None THEN "investigating" ELSE "resolved"]

IncidentDelays ==
    [detection : Delays["detection"], assignment : Delays["assignment"],
     investigation : Delays["investigation"], restoration : Delays["restoration"],
     closure : Delays["closure"]]

ConvertGroup ==
    /\ stage = "incidents"
    /\ \E group \in groups, delay \in IncidentDelays :
       \E primary \in PrimaryAlarms(group) :
           /\ groups' = groups \ {group}
           /\ \/ /\ TRUE \in Draw["incident"][primary.severity]
                 /\ incidents' = incidents \cup {BuildIncident(group, primary, delay)}
              \/ FALSE \in Draw["incident"][primary.severity] /\ UNCHANGED incidents
    /\ UNCHANGED <<stage, events, byTruth, pending, alarms, backlog, orders>>

\* The incidents include_open_incidents and include_resolved_incidents leave.
Ordered ==
    {i \in incidents : IF Incidents!OpenByDomain(i) THEN IncludeOpen ELSE IncludeResolved}

FrameIncidents ==
    /\ stage = "incidents" /\ groups = {}
    /\ IF \A i \in incidents : Incidents!DomainLifecycle(i)
       THEN stage' = "work_orders" /\ backlog' = Ordered
       ELSE stage' = "raised" /\ UNCHANGED backlog
    /\ UNCHANGED <<events, byTruth, pending, alarms, groups, incidents, orders>>

-----------------------------------------------------------------------------
(* Work orders: work_orders.py                                             *)

Completion(incident, planned) == Later(planned, incident.closed_at)

BuildRecord(incident, delay, isCancelled) ==
    LET created == incident.assigned_at
        scheduled == created + 60 * delay.schedule
        started == scheduled + 60 * delay.start
        status == IF isCancelled THEN "cancelled"
                  ELSE IF incident.resolved_at # None THEN "completed"
                  ELSE IF Incidents!OpenByDomain(incident) THEN "in_progress"
                  ELSE "assigned"
    IN  [incident |-> incident, status |-> status, assigned_team |-> Team,
         created_at |-> created, scheduled_at |-> scheduled,
         started_at |-> IF status \in {"cancelled", "assigned"} THEN None ELSE started,
         completed_at |-> IF status = "completed"
                          THEN Completion(incident, started + 60 * delay.duration) ELSE None,
         cancelled_at |-> IF isCancelled THEN scheduled ELSE None]

OrderDelays ==
    [schedule : Delays["schedule"], start : Delays["start"], duration : Delays["duration"]]

ConvertIncident ==
    /\ stage = "work_orders"
    /\ \E incident \in backlog, delay \in OrderDelays, isCancelled \in BOOLEAN :
           LET order == BuildRecord(incident, delay, isCancelled)
           IN  \/ /\ TRUE \in Draw["work_order"][incident.severity]
                  /\ backlog' = backlog \ {incident}
                  /\ IF WorkOrders!DomainAccepts(order)
                     THEN orders' = orders \cup {order} /\ UNCHANGED stage
                     ELSE stage' = "raised" /\ UNCHANGED orders
               \/ /\ FALSE \in Draw["work_order"][incident.severity]
                  /\ backlog' = backlog \ {incident}
                  /\ UNCHANGED <<stage, orders>>
    /\ UNCHANGED <<events, byTruth, pending, alarms, groups, incidents>>

FrameOrders ==
    /\ stage = "work_orders" /\ backlog = {}
    /\ stage' = "done"
    /\ UNCHANGED <<events, byTruth, pending, alarms, groups, incidents, backlog, orders>>

-----------------------------------------------------------------------------
Init ==
    /\ stage = "alarms"
    /\ events \in Schedules /\ byTruth \in Groupings
    /\ pending = UNION {{<<i, d, copy>> : d \in DefinitionsForEvent(events[i]),
                                         copy \in 0..MaxNuisance} : i \in DOMAIN events}
    /\ alarms = {} /\ groups = {} /\ incidents = {} /\ backlog = {} /\ orders = {}

Next ==
    \/ GenerateAlarm \/ FrameAlarms
    \/ ConvertGroup \/ FrameIncidents
    \/ ConvertIncident \/ FrameOrders

Spec == Init /\ [][Next]_vars

-----------------------------------------------------------------------------
AlarmRow == [event : DOMAIN events, code : STRING, copy : 0..MaxNuisance, plant : STRING,
             event_start : Nat, raised_at : Nat, acknowledged_at : Nat \cup {None},
             cleared_at : Nat \cup {None}, status : Alarms!AlarmStatus,
             severity : Severity, nuisance : BOOLEAN, eligible : BOOLEAN]

IncidentRow == [alarms : SUBSET alarms, primary : alarms, plant : STRING,
                severity : Severity, occurred_at : Nat, detected_at : Nat,
                assigned_at : Nat, investigation_started_at : Nat,
                resolved_at : Nat \cup {None}, closed_at : Nat \cup {None},
                status : Incidents!IncidentStatus]

OrderRow == [incident : incidents, status : WorkOrders!WorkOrderStatus, assigned_team : {Team},
             created_at : Nat, scheduled_at : Nat, started_at : Nat \cup {None},
             completed_at : Nat \cup {None}, cancelled_at : Nat \cup {None}]

TypeOK ==
    /\ stage \in {"alarms", "incidents", "work_orders", "done", "raised"}
    /\ events \in Schedules /\ byTruth \in Groupings
    /\ \A p \in pending : p[1] \in DOMAIN events /\ p[2] \in Catalogue /\ p[3] \in 0..MaxNuisance
    /\ alarms \subseteq AlarmRow
    /\ groups \subseteq SUBSET alarms
    /\ incidents \subseteq IncidentRow
    /\ backlog \subseteq incidents
    /\ orders \subseteq OrderRow

\* Whatever the draws, the delays and the end of the observation, the domain
\* models refuse no generated row, so no run ends in an exception, and every
\* row passes the CHECK constraints of the table it is loaded into.
RowsFitModelAndTable ==
    /\ stage # "raised"
    /\ \A a \in alarms : Alarms!DomainAccepts(a) /\ Alarms!AlarmChecks(a)
    /\ \A i \in incidents : Incidents!DomainLifecycle(i) /\ Incidents!IncidentChecks(i)
    /\ \A o \in orders : WorkOrders!DomainAccepts(o) /\ WorkOrders!WorkOrderChecks(o)

\* The groups are a partition: an alarm is linked to one incident at most, a
\* nuisance or ineligible one to none, and an incident has one plant.
OneIncidentPerAlarm ==
    \A i \in incidents :
        /\ \A a \in i.alarms : a.eligible /\ ~a.nuisance /\ a.plant = i.plant
        /\ \A j \in incidents \ {i} : i.alarms \cap j.alarms = {}

\* With conversion certain for critical incidents and for P1 orders (the
\* defaults), a critical alarm is never left without a work order, however
\* it is grouped with less severe ones.
CertainAtTop ==
    /\ Draw["incident"][Critical] = {TRUE} /\ Draw["work_order"][Critical] = {TRUE}
    /\ IncludeOpen /\ IncludeResolved

CriticalAlarmsGetWork ==
    CertainAtTop /\ stage = "done" =>
        \A a \in Eligible : a.severity = Critical => \E o \in orders : a \in o.incident.alarms

\* The order the code gives the stages, which the plan reverses ("Corrective
\* completion normally precedes incident closure"): an order is completed at
\* the later of its planned end and the closure of its incident, so never
\* before it, and an incident is resolved only after every clearance among its
\* alarms; an order of an incident that is still open is in progress or
\* cancelled, whatever its own plan says.
OrdersFollowIncidents ==
    \A o \in orders :
        /\ o.status = "completed" =>
               /\ o.incident.status = "resolved" /\ o.incident.closed_at <= o.completed_at
               /\ \A a \in o.incident.alarms :
                      a.cleared_at # None => a.cleared_at <= o.incident.resolved_at
        /\ o.incident.status # "resolved" => o.status \in {"in_progress", "cancelled"}

-----------------------------------------------------------------------------
(* Why: the inductive invariant.                                           *)

StageInv ==
    /\ stage # "raised"
    /\ stage = "alarms" => groups = {} /\ incidents = {}
    /\ stage \in {"alarms", "incidents"} => backlog = {} /\ orders = {}
    /\ stage \in {"work_orders", "done"} => groups = {}
    /\ stage = "done" => backlog = {}

AlarmsInv ==
    /\ IsFiniteSet(alarms)
    /\ \A a \in alarms : Alarms!DomainAccepts(a) /\ Alarms!AlarmChecks(a)

\* Groups are disjoint from each other and from the incidents made already.
GroupsInv ==
    /\ \A g \in groups :
           /\ g # {}
           /\ \A a \in g : a.eligible /\ ~a.nuisance /\ \A b \in g : a.plant = b.plant
           /\ \A h \in groups \ {g} : g \cap h = {}
           /\ \A i \in incidents : g \cap i.alarms = {}

\* An incident is resolved after each clearance, and as severe as its alarms.
IncidentsInv ==
    \A i \in incidents :
        /\ Incidents!DomainLifecycle(i) /\ Incidents!IncidentChecks(i)
        /\ i.resolved_at # None => i.closed_at # None
        /\ \A a \in i.alarms :
               /\ a.severity <= i.severity
               /\ a.cleared_at # None => i.resolved_at # None /\ a.cleared_at <= i.resolved_at

OrdersInv ==
    \A o \in orders : WorkOrders!DomainAccepts(o) /\ WorkOrders!WorkOrderChecks(o)

\* Where a critical alarm is on its way to a work order.
Waiting(a) ==
    CASE stage = "incidents" ->
             (\E g \in groups : a \in g) \/ (\E i \in incidents : a \in i.alarms)
      [] stage \in {"work_orders", "done"} ->
             (\E i \in backlog : a \in i.alarms) \/ (\E o \in orders : a \in o.incident.alarms)
      [] OTHER -> TRUE

CriticalInv == CertainAtTop => \A a \in Eligible : a.severity = Critical => Waiting(a)

CascadeInv ==
    /\ TypeOK /\ StageInv /\ AlarmsInv /\ GroupsInv /\ IncidentsInv /\ OrdersInv
    /\ OneIncidentPerAlarm /\ OrdersFollowIncidents /\ CriticalInv
==============================================================================
