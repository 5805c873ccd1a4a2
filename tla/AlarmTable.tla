----------------------------- MODULE AlarmTable -----------------------------
(***************************************************************************)
(* The alarms table under concurrent requests: AlarmService                *)
(* (database/services/alarm.py) over the session machinery of RowSessions, *)
(* with the CHECK constraints of AlarmRecords as the only judge of what is *)
(* stored, and the domain model's rules applied to what is read.           *)
(***************************************************************************)
EXTENDS OperationalRows, AlarmRecords

AlarmFields == {"status", "raised_at", "acknowledged_at", "cleared_at"}

\* What every AlarmService method keeps from a version of a row to the next.
AlarmFollows(old, new) ==
    /\ new.raised_at = old.raised_at
    /\ old.acknowledged_at # None => new.acknowledged_at # None
    /\ old.cleared_at # None => new.cleared_at # None

VARIABLES table, session

\* RowSessions, with the lemmas about it.
INSTANCE RowSessions WITH
    Fields <- AlarmFields, Row <- AlarmRow, Valid <- AlarmChecks, Follows <- AlarmFollows

vars == <<table, session>>

-----------------------------------------------------------------------------
Init ==
    /\ table = [id \in Ids |-> None]
    /\ SessionsInit

Create(s) == \E row \in NewAlarms : FlushInsert(s, row)

\* Mutant: an acknowledgement reopens the alarm.
AcknowledgeReopens(s, at) ==
    FlushUpdate(s, [session[s].copy EXCEPT
        !.acknowledged_at = at, !.status = "acknowledged", !.cleared_at = None])

\* No guard: whatever the alarm's state, acknowledge writes both columns.
Acknowledge(s, at) ==
    FlushUpdate(s, [session[s].copy EXCEPT !.acknowledged_at = at,
                                           !.status = "acknowledged"])

\* The guard reads the session's copy; a ValueError leaves the scope by
\* Rollback, or leaves everything as it was when the caller handles it.
Clear(s, at) ==
    /\ NotBefore(at, session[s].copy.acknowledged_at)
    /\ FlushUpdate(s, [session[s].copy EXCEPT !.cleared_at = at,
                                              !.status = "cleared"])

\* The message is not modelled; its UPDATE locks the row all the same.
UpdateMessage(s) == FlushOther(s)

Delete(s) == FlushDelete(s)

Next ==
    \E s \in Sessions :
        \/ \E id \in Ids : Load(s, id) \/ CheckAbsent(s, id)
        \/ Reload(s)
        \/ Create(s)
        \/ HasCopy(s) /\ \E at \in Times : Acknowledge(s, at) \/ Clear(s, at)
        \/ UpdateMessage(s)
        \/ Delete(s)
        \/ Commit(s)
        \/ Rollback(s)

Spec == Init /\ [][Next]_vars

-----------------------------------------------------------------------------
Stored(id) == table[id] # None

\* The four readers agree on which alarms are open, for every stored row and
\* whatever requests interleaved to produce it.
OpenDefinitionsAgree ==
    \A id \in Ids : Stored(id) =>
        /\ OpenByQuery(table[id]) <=> OpenByDomain(table[id])
        /\ OpenByQuery(table[id]) <=> OpenByView(table[id])

\* Every stored row can be read back: to_domain does not raise.
StoredRowsConvert == \A id \in Ids : Stored(id) => DomainAccepts(table[id])

\* No request wipes an acknowledgement that another one recorded, although a
\* request may write from a copy in which the alarm is not acknowledged yet.
AcknowledgementSurvives ==
    [][\A id \in Ids : Stored(id) /\ table[id].acknowledged_at # None =>
           table'[id] = None \/ table'[id].acknowledged_at # None]_vars

\* The alarms table implements the record lifecycle: acknowledge has no guard
\* and a request may hold a copy from before the clearance, but a cleared
\* alarm never opens again.
Phase(row) ==
    IF row = None THEN "absent" ELSE IF OpenByQuery(row) THEN "open" ELSE "closed"

Lifecycle == INSTANCE RecordLifecycle WITH phase <- [id \in Ids |-> Phase(table[id])]

ImplementsLifecycle == Lifecycle!LifecycleSpec
=============================================================================
