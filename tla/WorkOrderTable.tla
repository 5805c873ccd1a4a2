--------------------------- MODULE WorkOrderTable ---------------------------
(***************************************************************************)
(* The work_orders table under concurrent requests: WorkOrderService       *)
(* (database/services/work_order.py) over the session machinery of         *)
(* RowSessions, judged by the CHECK constraints of                         *)
(* database/models/work_order.py, and read back through the domain model   *)
(* (synthetic/models/work_order.py).                                       *)
(***************************************************************************)
EXTENDS OperationalRows, WorkOrderRecords

\* update_status takes any string; schedule writes one that is no status.
AnyStatus == WorkOrderStatus \cup {"scheduled"}

WorkOrderFields == {"status", "assigned_team", "created_at", "scheduled_at",
                    "started_at", "completed_at", "cancelled_at"}

\* What every WorkOrderService method keeps from a version of a row to the
\* next.
WorkOrderFollows(old, new) ==
    /\ new.created_at = old.created_at
    /\ \A f \in WorkOrderFields \ {"status"} : old[f] # None => new[f] # None

VARIABLES table, session

\* RowSessions, with the lemmas about it.
INSTANCE RowSessions WITH
    Fields <- WorkOrderFields, Row <- WorkOrderRow, Valid <- WorkOrderChecks, Follows <- WorkOrderFollows

vars == <<table, session>>

-----------------------------------------------------------------------------
Init ==
    /\ table = [id \in Ids |-> None]
    /\ SessionsInit

Create(s) == \E row \in NewWorkOrders : FlushInsert(s, row)

UpdateStatus(s, status) ==
    FlushUpdate(s, [session[s].copy EXCEPT !.status = status])

AssignTeam(s) == FlushUpdate(s, [session[s].copy EXCEPT !.assigned_team = Team])

Schedule(s, at) ==
    FlushUpdate(s, [session[s].copy EXCEPT !.scheduled_at = at, !.status = "scheduled"])

\* Mutant: starting an order anew takes its completion back.
StartAnew(s, at) ==
    /\ NotBefore(at, session[s].copy.scheduled_at)
    /\ FlushUpdate(s, [session[s].copy EXCEPT
           !.started_at = at, !.status = "in_progress", !.completed_at = None])

Start(s, at) ==
    /\ NotBefore(at, session[s].copy.scheduled_at)
    /\ FlushUpdate(s, [session[s].copy EXCEPT !.started_at = at, !.status = "in_progress"])

\* Labour hours, cost and notes are not modelled; when only they change, the
\* flush rewrites the row all the same.
Complete(s, at) ==
    /\ NotBefore(at, session[s].copy.started_at)
    /\ \/ FlushUpdate(s, [session[s].copy EXCEPT !.completed_at = at,
                                                 !.status = "completed"])
       \/ /\ session[s].copy.status = "completed" /\ session[s].copy.completed_at = at
          /\ FlushOther(s)

Cancel(s, at) ==
    FlushUpdate(s, [session[s].copy EXCEPT !.cancelled_at = at, !.status = "cancelled"])

Delete(s) == FlushDelete(s)

Next ==
    \E s \in Sessions :
        \/ \E id \in Ids : Load(s, id) \/ CheckAbsent(s, id)
        \/ Reload(s)
        \/ Create(s)
        \/ HasCopy(s) /\ \E status \in AnyStatus : UpdateStatus(s, status)
        \/ HasCopy(s) /\ AssignTeam(s)
        \/ HasCopy(s) /\ \E at \in Times :
               Schedule(s, at) \/ Start(s, at) \/ Complete(s, at) \/ Cancel(s, at)
        \/ Delete(s)
        \/ Commit(s)
        \/ Rollback(s)

Spec == Init /\ [][Next]_vars

-----------------------------------------------------------------------------
Stored(id) == table[id] # None

\* Every stored row can be read back, and its readers agree on whether it is
\* open, whatever requests interleaved to produce it.
StoredRowsConvert ==
    \A id \in Ids : Stored(id) =>
        /\ DomainAccepts(table[id])
        /\ OpenByQuery(table[id]) <=> OpenByDomain(table[id])

\* A completed work order stays completed: start, cancel and update_status
\* have no guard on the status, and a request may hold an older copy.
CompletedIsFinal ==
    [][\A id \in Ids : Stored(id) /\ table[id].status = "completed" =>
           table'[id] = None \/ table'[id].status = "completed"]_vars

\* Work that was started is never reported as not started again, unless the
\* order is deleted: started_at survives every later request.
StartSurvives ==
    [][\A id \in Ids : Stored(id) /\ table[id].started_at # None =>
           \/ table'[id] = None
           \/ table'[id].started_at # None /\ table'[id].status \notin {"open", "assigned"}]_vars
=============================================================================
