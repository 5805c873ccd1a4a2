-------------------------- MODULE WorkOrderRecords --------------------------
(***************************************************************************)
(* One work order record: the statuses, the CHECK constraints of           *)
(* database/models/work_order.py, the readers that ask whether it is open, *)
(* and the domain model (synthetic/models/work_order.py).                  *)
(***************************************************************************)
EXTENDS RecordColumns

\* The CHECK constraints that read the lifecycle columns.  (The mutant takes
\* any status.)
WorkOrderTimeChecks(row) ==
    /\ \A f \in {"scheduled_at", "started_at", "completed_at", "cancelled_at"} :
           NotBefore(row[f], row.created_at)
    /\ NotBefore(row.started_at, row.scheduled_at)
    /\ NotBefore(row.completed_at, row.started_at)

UnstartedChecks(row) ==
    /\ row.status = "open" =>
           row.started_at = None /\ row.completed_at = None /\ row.cancelled_at = None
    /\ row.status = "assigned" => row.assigned_team # None /\ row.started_at = None

InProgressChecks(row) ==
    row.status = "in_progress" =>
        /\ row.assigned_team # None /\ row.started_at # None
        /\ row.completed_at = None /\ row.cancelled_at = None

FinishedChecks(row) ==
    /\ row.status = "completed" =>
           row.started_at # None /\ row.completed_at # None /\ row.cancelled_at = None
    /\ row.status = "cancelled" => row.cancelled_at # None /\ row.completed_at = None

WorkOrderChecksAnyStatus(row) ==
    WorkOrderTimeChecks(row) /\ UnstartedChecks(row) /\ InProgressChecks(row) /\ FinishedChecks(row)

WorkOrderChecks(row) ==
    /\ row.status \in WorkOrderStatus /\ WorkOrderTimeChecks(row)
    /\ UnstartedChecks(row) /\ InProgressChecks(row) /\ FinishedChecks(row)

\* How the readers tell an open work order: repository query and open-events
\* view; ORM and domain model.
OpenByQuery(row)  == row.status \notin {"completed", "cancelled"}
OpenByDomain(row) == row.status \in {"open", "assigned", "in_progress"}

\* What the domain model's constructor demands of the lifecycle columns.
DomainAccepts(row) ==
    /\ \A f \in {"scheduled_at", "started_at", "completed_at", "cancelled_at"} :
           row[f] # None => row[f] >= row.created_at
    /\ row.scheduled_at # None /\ row.started_at # None =>
           row.started_at >= row.scheduled_at
    /\ row.started_at # None /\ row.completed_at # None =>
           row.completed_at >= row.started_at
    /\ row.status = "open" =>
           row.started_at = None /\ row.completed_at = None /\ row.cancelled_at = None
    /\ row.status = "assigned" =>
           row.assigned_team # None /\ row.started_at = None
    /\ row.status = "in_progress" =>
           /\ row.assigned_team # None /\ row.started_at # None
           /\ row.completed_at = None /\ row.cancelled_at = None
    /\ row.status = "completed" =>
           row.started_at # None /\ row.completed_at # None /\ row.cancelled_at = None
    /\ row.status = "cancelled" =>
           row.cancelled_at # None /\ row.completed_at = None
=============================================================================
