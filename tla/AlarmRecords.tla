---------------------------- MODULE AlarmRecords ----------------------------
(***************************************************************************)
(* One alarm record: the statuses, the CHECK constraints of                *)
(* database/models/alarm.py, the readers that ask whether it is open, and  *)
(* the domain model (synthetic/models/alarm.py).                           *)
(***************************************************************************)
EXTENDS RecordColumns

\* The CHECK constraints of the table that read the lifecycle columns.  (The mutant has
\* one constraint less.)
AlarmTimeChecksClearedEarly(row) ==
    /\ NotBefore(row.acknowledged_at, row.raised_at)
    /\ NotBefore(row.cleared_at, row.raised_at)

AlarmTimeChecks(row) ==
    /\ NotBefore(row.acknowledged_at, row.raised_at)
    /\ NotBefore(row.cleared_at, row.raised_at)
    /\ NotBefore(row.cleared_at, row.acknowledged_at)

AlarmStatusChecks(row) ==
    /\ row.status = "active" => row.cleared_at = None
    /\ row.status = "acknowledged" => row.acknowledged_at # None
    /\ row.status = "acknowledged" => row.cleared_at = None
    /\ row.status = "cleared" => row.cleared_at # None

AlarmChecks(row) ==
    row.status \in AlarmStatus /\ AlarmTimeChecks(row) /\ AlarmStatusChecks(row)

\* How the platform's readers tell an open alarm: the repository and the
\* analytics query, the domain model, and the open-events view.
OpenByQuery(row)  == row.cleared_at = None
OpenByDomain(row) == row.status \in {"active", "acknowledged"}
OpenByView(row)   == row.status # "cleared"

\* What the domain model's constructor demands of the lifecycle columns.
DomainAccepts(row) ==
    /\ row.acknowledged_at # None => row.acknowledged_at >= row.raised_at
    /\ row.cleared_at # None => row.cleared_at >= row.raised_at
    /\ row.cleared_at # None /\ row.acknowledged_at # None =>
           row.cleared_at >= row.acknowledged_at
    /\ row.status = "active" => row.cleared_at = None
    /\ row.status = "acknowledged" =>
           row.acknowledged_at # None /\ row.cleared_at = None
    /\ row.status = "cleared" => row.cleared_at # None
=============================================================================
