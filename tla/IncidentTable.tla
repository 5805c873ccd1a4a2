--------------------------- MODULE IncidentTable ---------------------------
(***************************************************************************)
(* The incidents table under concurrent requests: IncidentService          *)
(* (database/services/incident.py) over the session machinery of           *)
(* RowSessions, judged by the CHECK constraints of                         *)
(* database/models/incident.py, and read back through the domain model     *)
(* (synthetic/models/incident.py).                                         *)
(***************************************************************************)
EXTENDS OperationalRows, IncidentRecords

\* update_status takes any string; one that is no status stands for the rest.
AnyStatus == IncidentStatus \cup {"closed"}

IncidentFields == {"status", "occurred_at", "detected_at", "resolved_at", "root_cause"}

\* What every IncidentService method keeps from a version of a row to the next.
IncidentFollows(old, new) ==
    /\ new.occurred_at = old.occurred_at /\ new.detected_at = old.detected_at
    /\ old.resolved_at # None => new.resolved_at # None
    /\ old.root_cause # None => new.root_cause # None

VARIABLES table, session

\* RowSessions, with the lemmas about it.
INSTANCE RowSessions WITH
    Fields <- IncidentFields, Row <- IncidentRow, Valid <- IncidentChecks, Follows <- IncidentFollows

vars == <<table, session>>

-----------------------------------------------------------------------------
Init ==
    /\ table = [id \in Ids |-> None]
    /\ SessionsInit

Create(s) == \E row \in NewIncidents : FlushInsert(s, row)

\* No transition rules: the constraints alone decide.
UpdateStatus(s, status) ==
    FlushUpdate(s, [session[s].copy EXCEPT !.status = status])

\* Mutant: an omitted root cause is written as well.
ResolveOverwrites(s, at, cause) ==
    /\ at >= session[s].copy.occurred_at
    /\ FlushUpdate(s, [session[s].copy EXCEPT
           !.resolved_at = at, !.status = "resolved", !.root_cause = cause])

\* cause is None when the caller passes no root cause.
Resolve(s, at, cause) ==
    LET copy == session[s].copy IN
    /\ at >= copy.occurred_at
    /\ FlushUpdate(s, [copy EXCEPT
           !.resolved_at = at,
           !.status = "resolved",
           !.root_cause = IF cause = None THEN copy.root_cause ELSE cause])

UpdateRootCause(s, cause) ==
    FlushUpdate(s, [session[s].copy EXCEPT !.root_cause = cause])

\* The description is not modelled; its UPDATE locks the row all the same.
UpdateDescription(s) == FlushOther(s)

Delete(s) == FlushDelete(s)

Next ==
    \E s \in Sessions :
        \/ \E id \in Ids : Load(s, id) \/ CheckAbsent(s, id)
        \/ Reload(s)
        \/ Create(s)
        \/ HasCopy(s) /\ \E status \in AnyStatus : UpdateStatus(s, status)
        \/ HasCopy(s) /\ \E at \in Times, cause \in RootCauses \cup {None} :
               Resolve(s, at, cause)
        \/ HasCopy(s) /\ \E cause \in RootCauses : UpdateRootCause(s, cause)
        \/ UpdateDescription(s)
        \/ Delete(s)
        \/ Commit(s)
        \/ Rollback(s)

Spec == Init /\ [][Next]_vars

-----------------------------------------------------------------------------
Stored(id) == table[id] # None

\* The readers agree on which incidents are open, for every stored row and
\* whatever requests interleaved to produce it.
OpenDefinitionsAgree ==
    \A id \in Ids : Stored(id) =>
        /\ OpenByQuery(table[id]) <=> OpenByDomain(table[id])
        /\ OpenByQuery(table[id]) <=> OpenByView(table[id])

\* The lifecycle columns of every stored row satisfy the domain model.
StoredRowsConvert == \A id \in Ids : Stored(id) => DomainLifecycle(table[id])

\* A root cause one request recorded is not wiped by another one's lifecycle
\* update from a copy that has none.
RootCauseSurvives ==
    [][\A id \in Ids : Stored(id) /\ table[id].root_cause # None =>
           table'[id] = None \/ table'[id].root_cause # None]_vars

\* The incidents table implements the record lifecycle: update_status has no
\* transition rules, and still no stale request reopens a resolved incident.
Phase(row) ==
    IF row = None THEN "absent" ELSE IF OpenByQuery(row) THEN "open" ELSE "closed"

Lifecycle == INSTANCE RecordLifecycle WITH phase <- [id \in Ids |-> Phase(table[id])]

ImplementsLifecycle == Lifecycle!LifecycleSpec
=============================================================================
