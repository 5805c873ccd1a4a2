------------------------- MODULE OperationalTables --------------------------
(***************************************************************************)
(* The three operational tables side by side.  A session scope works on    *)
(* rows of one table, and the tables' services never meet in a transaction,*)
(* so that a behaviour is followed for one table at a time: kind says      *)
(* which one.  The properties are those every table must have.             *)
(***************************************************************************)
EXTENDS OperationalRows

VARIABLES kind, table, session

A == INSTANCE AlarmTable
I == INSTANCE IncidentTable
W == INSTANCE WorkOrderTable

vars == <<kind, table, session>>

Init ==
    \/ kind = "alarm" /\ A!Init
    \/ kind = "incident" /\ I!Init
    \/ kind = "work_order" /\ W!Init

Next ==
    /\ \/ kind = "alarm" /\ A!Next
       \/ kind = "incident" /\ I!Next
       \/ kind = "work_order" /\ W!Next
    /\ UNCHANGED kind

Spec == Init /\ [][Next]_vars

-----------------------------------------------------------------------------
\* Rows, copies and uncommitted versions have the types of their table.
TypeOK ==
    /\ kind = "alarm" => A!TypeOK
    /\ kind = "incident" => I!TypeOK
    /\ kind = "work_order" => W!TypeOK

\* An uncommitted version was made from the row that is committed now: the
\* methods of the services write from copies that may be stale, and no
\* interleaving of two of them loses what the other one has recorded.
WritesFollow ==
    /\ kind = "alarm" => A!WritesFollow
    /\ kind = "incident" => I!WritesFollow
    /\ kind = "work_order" => W!WritesFollow

\* Repository and analytics query, domain model and view agree on which
\* alarms and incidents are open, for every row any requests can produce.
OpenDefinitionsAgree ==
    /\ kind = "alarm" => A!OpenDefinitionsAgree
    /\ kind = "incident" => I!OpenDefinitionsAgree

\* Every stored row can be read back through its domain model, although the
\* services' guards look at stale copies and only the constraints judge rows.
StoredRowsConvert ==
    /\ kind = "alarm" => A!StoredRowsConvert
    /\ kind = "incident" => I!StoredRowsConvert
    /\ kind = "work_order" => W!StoredRowsConvert

\* What a committed row records is not taken back by another request's stale
\* copy: an acknowledgement, a root cause, a start, a completion.
RecordsSurvive ==
    [][\A id \in Ids : table[id] # None /\ table'[id] # None =>
           /\ kind = "alarm" /\ table[id].acknowledged_at # None =>
                  table'[id].acknowledged_at # None
           /\ kind = "incident" /\ table[id].root_cause # None =>
                  table'[id].root_cause # None
           /\ kind = "work_order" =>
                  /\ table[id].status = "completed" => table'[id].status = "completed"
                  /\ table[id].started_at # None =>
                         /\ table'[id].started_at # None
                         /\ table'[id].status \notin {"open", "assigned"}]_vars

\* Alarms and incidents implement the record lifecycle: neither acknowledge
\* nor update_status has a guard, and no closed record ever opens again.
Phase(row) ==
    CASE row = None -> "absent"
      [] kind = "alarm" /\ row # None -> A!Phase(row)
      [] kind # "alarm" /\ row # None -> I!Phase(row)

Lifecycle == INSTANCE RecordLifecycle WITH
    phase <- [id \in Ids |-> IF kind = "work_order" THEN "absent" ELSE Phase(table[id])]

ImplementsLifecycle == Lifecycle!LifecycleSpec

\* acknowledge: "Mark an alarm as acknowledged."  When it returns after an
\* UPDATE, the version this request is about to commit is acknowledged.  (It
\* fails: with a copy that is acknowledged already, only acknowledged_at is
\* sent, also to a row another request has cleared since.)
AcknowledgeIsStored ==
    [][\A s \in Sessions, at \in Times :
           kind = "alarm" /\ A!HasCopy(s) /\ A!Acknowledge(s, at) /\ A!IsOpen(s)'
             /\ session'[s].written # None
           => session'[s].written.status = "acknowledged"]_vars

\* schedule: "Schedule a work order."  An open order, read up to date, is
\* scheduled for a time not before its creation: the flush is not refused.
\* (It fails: the status schedule writes is none of the table's.)
ScheduleTakesEffect ==
    [][\A s \in Sessions, at \in Times :
           /\ kind = "work_order" /\ W!HasCopy(s) /\ session[s].copy.status = "open"
           /\ W!Current(s) = session[s].copy
           /\ W!Schedule(s, at) /\ at >= session[s].copy.created_at
           => W!IsOpen(s)']_vars
=============================================================================
