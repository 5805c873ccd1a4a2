--------------------------- MODULE OperationalRows ----------------------------
(***************************************************************************)
(* The rows of the three operational tables as their column types allow    *)
(* them, and what the tables' modules take as parameters.                  *)
(***************************************************************************)
EXTENDS RecordColumns

CONSTANT MaxTime    \* timestamps are 1..MaxTime

Times == 1..MaxTime

Nullable == Times \cup {None}

ASSUME TimestampConstants == MaxTime \in Nat /\ None \notin Times

CONSTANTS
    Sessions, Ids,
    NewAlarms, NewIncidents, NewWorkOrders, \* the rows callers hand to create
    Team,           \* the team of assign_team (which one does not matter)
    Deleted

AlarmRow == [status : AlarmStatus, raised_at : Times,
             acknowledged_at : Nullable, cleared_at : Nullable]

\* Root-cause texts: a text, and the empty string, which update_root_cause
\* and resolve take as well.
RootCauses == {"text", "empty"}

IncidentRow == [status : IncidentStatus, occurred_at : Times,
                detected_at : Nullable, resolved_at : Nullable,
                root_cause : RootCauses \cup {None}]

WorkOrderRow == [status : WorkOrderStatus, assigned_team : {Team, None},
                 created_at : Times, scheduled_at : Nullable, started_at : Nullable,
                 completed_at : Nullable, cancelled_at : Nullable]

ASSUME AlarmConstants ==
    /\ NewAlarms \subseteq AlarmRow
    /\ None \notin AlarmRow \cup {Deleted}
    /\ Deleted \notin AlarmRow

ASSUME IncidentConstants ==
    /\ NewIncidents \subseteq IncidentRow
    /\ None \notin IncidentRow \cup RootCauses \cup {Deleted}
    /\ Deleted \notin IncidentRow

ASSUME WorkOrderConstants ==
    /\ NewWorkOrders \subseteq WorkOrderRow
    /\ None \notin WorkOrderRow \cup {Team, Deleted}
    /\ Deleted \notin WorkOrderRow
===============================================================================
