---------------------------- MODULE RecordColumns -----------------------------
(***************************************************************************)
(* The lifecycle columns of the operational records: the statuses, and two *)
(* timestamps either of which may be missing (SQL NULL, Python None).  Only*)
(* the order of timestamps matters to the code.                            *)
(***************************************************************************)
EXTENDS Naturals

CONSTANT None

\* "later IS NULL OR earlier IS NULL OR later >= earlier"
NotBefore(later, earlier) == later # None /\ earlier # None => later >= earlier

AlarmStatus == {"active", "acknowledged", "cleared"}

IncidentStatus == {"open", "investigating", "resolved"}

WorkOrderStatus == {"open", "assigned", "in_progress", "completed", "cancelled"}
===============================================================================
