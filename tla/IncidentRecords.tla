-------------------------- MODULE IncidentRecords ---------------------------
(***************************************************************************)
(* One incident record: the statuses, the CHECK constraints of             *)
(* database/models/incident.py, the readers that ask whether it is open, and*)
(* the domain model (synthetic/models/incident.py).                        *)
(***************************************************************************)
EXTENDS RecordColumns

\* The CHECK constraints that read the lifecycle columns; none reads
\* root_cause.  (The mutant has one constraint less.)
IncidentTimeChecks(row) ==
    /\ NotBefore(row.detected_at, row.occurred_at)
    /\ NotBefore(row.resolved_at, row.occurred_at)
    /\ NotBefore(row.resolved_at, row.detected_at)

IncidentStatusChecksReopened(row) ==
    /\ row.status = "open" => row.resolved_at = None
    /\ row.status = "investigating" => row.detected_at # None
    /\ row.status = "resolved" => row.resolved_at # None

IncidentStatusChecks(row) ==
    /\ row.status = "open" => row.resolved_at = None
    /\ row.status = "investigating" => row.detected_at # None
    /\ row.status = "investigating" => row.resolved_at = None
    /\ row.status = "resolved" => row.resolved_at # None

IncidentChecks(row) ==
    row.status \in IncidentStatus /\ IncidentTimeChecks(row) /\ IncidentStatusChecks(row)

\* How the readers tell an open incident: repository and analytics query,
\* ORM and domain model, open-events view.
OpenByQuery(row)  == row.resolved_at = None
OpenByDomain(row) == row.status \in {"open", "investigating"}
OpenByView(row)   == row.status # "resolved"

\* What the domain model's constructor demands of the lifecycle columns.
DomainLifecycle(row) ==
    /\ row.detected_at # None => row.detected_at >= row.occurred_at
    /\ row.resolved_at # None => row.resolved_at >= row.occurred_at
    /\ row.resolved_at # None /\ row.detected_at # None =>
           row.resolved_at >= row.detected_at
    /\ row.status = "open" => row.resolved_at = None
    /\ row.status = "investigating" =>
           row.detected_at # None /\ row.resolved_at = None
    /\ row.status = "resolved" => row.resolved_at # None
=============================================================================
