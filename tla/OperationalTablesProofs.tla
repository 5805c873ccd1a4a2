------------------------ MODULE OperationalTablesProofs ------------------------
(***************************************************************************)
(* The theorems about the three operational tables, for any number of      *)
(* sessions, rows and timestamps.  SessionInv of RowSessions is the        *)
(* inductive invariant of each table; what is particular to a table is     *)
(* that the changes of each service method, merged into any valid row,     *)
(* give a row that follows it.  The sections on alarms, incidents and work *)
(* orders prove that, and what the readers of a table rely on; the last    *)
(* one draws the theorems about OperationalTables from them.               *)
(***************************************************************************)
EXTENDS OperationalTables, TLAPS

-----------------------------------------------------------------------------
\* The assumptions on the constants, as the instance A of the table's module
\* states them.
LEMMA AlarmAssumptions ==
    /\ A!TimestampConstants /\ A!AlarmConstants
    /\ A!IncidentConstants /\ A!WorkOrderConstants
<1>1. A!TimestampConstants
  BY TimestampConstants DEF Times, A!Times, A!TimestampConstants
<1>2. A!AlarmConstants
  BY AlarmConstants
     DEF A!AlarmConstants, AlarmRow, A!AlarmRow, AlarmStatus, A!AlarmStatus, Times,
         A!Times, Nullable, A!Nullable
<1>3. A!IncidentConstants
  BY IncidentConstants
     DEF A!IncidentConstants, IncidentRow, A!IncidentRow, IncidentStatus, A!IncidentStatus,
         RootCauses, A!RootCauses, Times, A!Times, Nullable, A!Nullable
<1>4. A!WorkOrderConstants
  BY WorkOrderConstants
     DEF A!WorkOrderConstants, WorkOrderRow, A!WorkOrderRow, WorkOrderStatus,
         A!WorkOrderStatus, Times, A!Times, Nullable, A!Nullable
<1>5. QED
  BY <1>1, <1>2, <1>3, <1>4

\* The laws the session lemmas ask of the table hold of alarm rows.
LEMMA AlarmLaws == A!RowLaws(A!AlarmRow)
BY AlarmAssumptions DEF A!AlarmConstants, A!RowLaws, A!AlarmRow, A!AlarmFollows

\* acknowledge and clear keep what AlarmFollows names, from whatever copy they
\* write: neither ever writes None.
LEMMA AcknowledgeFollows ==
    ASSUME NEW s \in Sessions, NEW at \in A!Times, session[s].copy \in A!AlarmRow
    PROVE  A!UpdateFollows(s, [session[s].copy EXCEPT !.acknowledged_at = at,
                                                    !.status = "acknowledged"])
<1> DEFINE copy == session[s].copy
           new == [copy EXCEPT !.acknowledged_at = at, !.status = "acknowledged"]
<1>1. new \in A!AlarmRow /\ at # None
  BY AlarmAssumptions DEF A!TimestampConstants, A!AlarmRow, A!AlarmStatus, A!Nullable
<1>2. SUFFICES ASSUME NEW row \in A!AlarmRow
               PROVE  LET merged == A!Merge(row, copy, new) IN
                          merged \in A!AlarmRow /\ A!AlarmFollows(row, merged)
  BY <1>1 DEF A!UpdateFollows
<1>3. A!Merge(row, copy, new) \in A!AlarmRow
  BY <1>1 DEF A!Merge, A!Changed, A!AlarmRow, A!AlarmFields
<1>4. A!AlarmFollows(row, A!Merge(row, copy, new))
  BY <1>1 DEF A!Merge, A!Changed, A!AlarmRow, A!AlarmFields, A!AlarmFollows
<1>5. QED
  BY <1>3, <1>4
LEMMA ClearFollows ==
    ASSUME NEW s \in Sessions, NEW at \in A!Times, session[s].copy \in A!AlarmRow
    PROVE  A!UpdateFollows(s, [session[s].copy EXCEPT !.cleared_at = at,
                                                      !.status = "cleared"])
<1> DEFINE copy == session[s].copy
           new == [copy EXCEPT !.cleared_at = at, !.status = "cleared"]
<1>1. new \in A!AlarmRow /\ at # None
  BY AlarmAssumptions DEF A!TimestampConstants, A!AlarmRow, A!AlarmStatus, A!Nullable
<1>2. SUFFICES ASSUME NEW row \in A!AlarmRow
               PROVE  LET merged == A!Merge(row, copy, new) IN
                          merged \in A!AlarmRow /\ A!AlarmFollows(row, merged)
  BY <1>1 DEF A!UpdateFollows
<1>3. A!Merge(row, copy, new) \in A!AlarmRow
  BY <1>1 DEF A!Merge, A!Changed, A!AlarmRow, A!AlarmFields
<1>4. A!AlarmFollows(row, A!Merge(row, copy, new))
  BY <1>1 DEF A!Merge, A!Changed, A!AlarmRow, A!AlarmFields, A!AlarmFollows
<1>5. QED
  BY <1>3, <1>4
-----------------------------------------------------------------------------
\* No alarm, no request: the invariant holds at the start.
LEMMA AlarmInitInv == A!Init => A!SessionInv
BY DEF A!Init, A!SessionsInit, A!SessionInv, A!TypeOK, A!OneWriter, A!VersionsValid,
   A!WritesFollow, A!IsRow, A!IsOpen, A!Locks
LEMMA AlarmCopyIsRow ==
    ASSUME A!SessionInv, NEW s \in Sessions, A!HasCopy(s)
    PROVE  session[s].copy \in A!AlarmRow
BY DEF A!SessionInv, A!TypeOK, A!HasCopy, A!IsOpen

\* One case for each action of a session.
LEMMA AlarmNextInv == A!SessionInv /\ [A!Next]_A!vars => A!SessionInv'
<1> SUFFICES ASSUME A!SessionInv, [A!Next]_A!vars PROVE A!SessionInv'
  OBVIOUS
<1> USE AlarmLaws
<1>1. CASE UNCHANGED A!vars
  BY <1>1 DEF A!vars, A!SessionInv, A!TypeOK, A!OneWriter, A!VersionsValid, A!WritesFollow,
     A!IsRow, A!IsOpen, A!Locks
<1>2. ASSUME NEW s \in Sessions, NEW id \in Ids, A!Load(s, id) \/ A!CheckAbsent(s, id)
      PROVE  A!SessionInv'
  BY <1>2, A!ReadKeepsInv, AlarmAssumptions
<1>3. ASSUME NEW s \in Sessions, A!Reload(s) PROVE A!SessionInv'
  BY <1>3, A!ReloadKeepsInv, AlarmAssumptions
<1>4. ASSUME NEW s \in Sessions, A!Create(s) PROVE A!SessionInv'
  BY <1>4, A!FlushInsertKeepsInv, AlarmAssumptions DEF A!AlarmConstants, A!Create
<1>5. ASSUME NEW s \in Sessions, NEW at \in A!Times, A!HasCopy(s), A!Acknowledge(s, at)
      PROVE  A!SessionInv'
  BY <1>5, AlarmCopyIsRow, AcknowledgeFollows, A!FlushUpdateKeepsInv, AlarmAssumptions DEF
     A!Acknowledge
<1>6. ASSUME NEW s \in Sessions, NEW at \in A!Times, A!HasCopy(s), A!Clear(s, at)
      PROVE  A!SessionInv'
  BY <1>6, AlarmCopyIsRow, ClearFollows, A!FlushUpdateKeepsInv, AlarmAssumptions DEF A!Clear
<1>7. ASSUME NEW s \in Sessions, A!UpdateMessage(s) PROVE A!SessionInv'
  BY <1>7, A!FlushOtherKeepsInv, AlarmAssumptions DEF A!UpdateMessage
<1>8. ASSUME NEW s \in Sessions, A!Delete(s) PROVE A!SessionInv'
  BY <1>8, A!FlushDeleteKeepsInv, AlarmAssumptions DEF A!Delete
<1>9. ASSUME NEW s \in Sessions, A!Commit(s) PROVE A!SessionInv'
  BY <1>9, A!CommitKeepsInv, AlarmAssumptions
<1>10. ASSUME NEW s \in Sessions, A!Rollback(s) PROVE A!SessionInv'
  BY <1>10, A!RollbackKeepsInv, AlarmAssumptions
<1>11. QED
  BY <1>1, <1>2, <1>3, <1>4, <1>5, <1>6, <1>7, <1>8, <1>9, <1>10 DEF A!Next

\* The invariant of the session machinery holds of the alarms table for every
\* number of concurrent requests.
THEOREM AlarmSessions == A!Spec => []A!SessionInv
BY AlarmInitInv, AlarmNextInv, PTL DEF A!Spec
\* Every variable of the alarm table keeps its type.
THEOREM AlarmTypes == A!Spec => []A!TypeOK
<1>1. A!SessionInv => A!TypeOK
  BY DEF A!SessionInv
<1>2. QED
  BY <1>1, AlarmSessions, PTL
-----------------------------------------------------------------------------
\* The CHECK constraints are strong enough for the readers: a row they accept
\* is open for all of them or for none, and the domain model takes it.
LEMMA AlarmValidRowsRead ==
    ASSUME NEW row \in A!AlarmRow, A!AlarmChecks(row)
    PROVE  /\ A!OpenByQuery(row) <=> A!OpenByDomain(row)
           /\ A!OpenByQuery(row) <=> A!OpenByView(row)
           /\ A!DomainAccepts(row)
BY AlarmAssumptions DEF A!TimestampConstants, A!AlarmRow, A!AlarmStatus, A!AlarmChecks,
   A!AlarmTimeChecks, A!AlarmStatusChecks, A!NotBefore, A!OpenByQuery, A!OpenByDomain,
   A!OpenByView, A!DomainAccepts
LEMMA AlarmStoredRows ==
    ASSUME A!SessionInv, NEW id \in Ids, A!Stored(id)
    PROVE  table[id] \in A!AlarmRow /\ A!AlarmChecks(table[id])
BY AlarmLaws DEF A!SessionInv, A!TypeOK, A!VersionsValid, A!IsRow, A!Stored, A!RowLaws

\* Whatever requests interleave, repository, analytics, domain model and view
\* report the same alarms as open.
THEOREM AlarmReadersAgree == A!Spec => []A!OpenDefinitionsAgree
<1>1. A!SessionInv => A!OpenDefinitionsAgree
  BY AlarmStoredRows, AlarmValidRowsRead DEF A!OpenDefinitionsAgree
<1>2. QED
  BY <1>1, AlarmSessions, PTL

\* Whatever requests interleave, every stored alarm converts to the domain
\* model.
THEOREM AlarmRowsConvert == A!Spec => []A!StoredRowsConvert
<1>1. A!SessionInv => A!StoredRowsConvert
  BY AlarmStoredRows, AlarmValidRowsRead DEF A!StoredRowsConvert
<1>2. QED
  BY <1>1, AlarmSessions, PTL
-----------------------------------------------------------------------------
\* A step leaves the table alone or replaces one row by None or by a valid row
\* that follows it.
LEMMA AlarmStepFollows ==
    ASSUME A!SessionInv, A!Next
    PROVE  \/ UNCHANGED table
           \/ \E id \in Ids, row \in A!AlarmRow \cup {None} :
                  /\ table' = [table EXCEPT ![id] = row]
                  /\ row # None => A!AlarmChecks(row)
                  /\ row # None /\ table[id] # None => A!AlarmFollows(table[id], row)
<1>1. ASSUME NEW s \in Sessions, A!Commit(s)
      PROVE  \/ UNCHANGED table
             \/ \E id \in Ids, row \in A!AlarmRow \cup {None} :
                    /\ table' = [table EXCEPT ![id] = row]
                    /\ row # None => A!AlarmChecks(row)
                    /\ row # None /\ table[id] # None => A!AlarmFollows(table[id], row)
  BY <1>1, AlarmLaws, A!CommitFollows, AlarmAssumptions
<1>2. ASSUME A!Next, ~\E s \in Sessions : A!Commit(s)
      PROVE  UNCHANGED table
  BY <1>2, A!FlushStoresNothing, AlarmAssumptions DEF A!Next, A!Load, A!CheckAbsent,
     A!Reload, A!Create, A!FlushInsert, A!Acknowledge, A!Clear, A!UpdateMessage,
     A!FlushOther, A!Delete, A!FlushDelete, A!Rollback
<1>3. QED
  BY <1>1, <1>2

\* No step takes an acknowledgement back.
LEMMA AlarmStepSurvives ==
    ASSUME A!SessionInv, A!Next, NEW id \in Ids, A!Stored(id),
           table[id].acknowledged_at # None
    PROVE  table'[id] = None \/ table'[id].acknowledged_at # None
BY AlarmStepFollows DEF A!SessionInv, A!TypeOK, A!AlarmFollows, A!Stored

\* An acknowledgement once committed stays until the alarm is deleted.
THEOREM AlarmAcknowledgements == A!Spec => A!AcknowledgementSurvives
<1> DEFINE Step == \A id \in Ids : A!Stored(id) /\ table[id].acknowledged_at # None =>
                       table'[id] = None \/ table'[id].acknowledged_at # None
<1>1. ASSUME A!SessionInv, [A!Next]_A!vars PROVE [Step]_A!vars
  BY <1>1, AlarmStepSurvives
<1>2. QED
  BY <1>1, AlarmSessions, PTL DEF A!Spec, A!AcknowledgementSurvives

\* A step of the table is a step of the lifecycle, or leaves the phases alone.
LEMMA AlarmLifecycleStep ==
    ASSUME A!SessionInv, [A!Next]_A!vars
    PROVE  [A!Lifecycle!LifecycleNext]_[id \in Ids |-> A!Phase(table[id])]
<1> DEFINE phase == [id \in Ids |-> A!Phase(table[id])]
<1>1. CASE UNCHANGED table
  BY <1>1
<1>2. ASSUME NEW id \in Ids, NEW row \in A!AlarmRow \cup {None},
             table' = [table EXCEPT ![id] = row],
             row # None /\ table[id] # None => A!AlarmFollows(table[id], row)
      PROVE  \/ UNCHANGED phase
             \/ A!Lifecycle!CreateRecord(id) \/ A!Lifecycle!CloseRecord(id)
             \/ A!Lifecycle!DeleteRecord(id)
  <2>1. phase' = [phase EXCEPT ![id] = A!Phase(row)]
    BY <1>2 DEF A!SessionInv, A!TypeOK
  <2>2. phase[id] = A!Phase(table[id])
    OBVIOUS
  <2>3. table[id] \in A!AlarmRow \cup {None}
    BY DEF A!SessionInv, A!TypeOK
  <2>4. CASE row = None
    BY <2>1, <2>2, <2>4 DEF A!Phase, A!Lifecycle!DeleteRecord
  <2>5. CASE row # None /\ table[id] = None
    BY <2>1, <2>2, <2>5 DEF A!Phase, A!Lifecycle!CreateRecord
  <2>6. CASE row # None /\ table[id] # None
    BY <1>2, <2>1, <2>2, <2>6 DEF A!Phase, A!OpenByQuery, A!AlarmFollows,
       A!Lifecycle!CloseRecord
  <2>7. QED
    BY <2>4, <2>5, <2>6
<1>3. CASE A!Next
  BY <1>1, <1>2, <1>3, AlarmStepFollows DEF A!Lifecycle!LifecycleNext
<1>4. QED
  BY <1>1, <1>3 DEF A!vars

\* The alarms table implements the record lifecycle.
THEOREM AlarmLifecycle == A!Spec => A!ImplementsLifecycle
<1>1. A!Init => A!Lifecycle!LifecycleInit
  BY DEF A!Init, A!Lifecycle!LifecycleInit, A!Phase
<1>2. QED
  BY <1>1, AlarmLifecycleStep, AlarmSessions, PTL
     DEF A!Spec, A!ImplementsLifecycle, A!Lifecycle!LifecycleSpec

-----------------------------------------------------------------------------
\* The assumptions on the constants, as the instance I of the table's module
\* states them.
LEMMA IncidentAssumptions ==
    /\ I!TimestampConstants /\ I!AlarmConstants
    /\ I!IncidentConstants /\ I!WorkOrderConstants
<1>1. I!TimestampConstants
  BY TimestampConstants DEF Times, I!Times, I!TimestampConstants
<1>2. I!AlarmConstants
  BY AlarmConstants
     DEF I!AlarmConstants, AlarmRow, I!AlarmRow, AlarmStatus, I!AlarmStatus, Times,
         I!Times, Nullable, I!Nullable
<1>3. I!IncidentConstants
  BY IncidentConstants
     DEF I!IncidentConstants, IncidentRow, I!IncidentRow, IncidentStatus, I!IncidentStatus,
         RootCauses, I!RootCauses, Times, I!Times, Nullable, I!Nullable
<1>4. I!WorkOrderConstants
  BY WorkOrderConstants
     DEF I!WorkOrderConstants, WorkOrderRow, I!WorkOrderRow, WorkOrderStatus,
         I!WorkOrderStatus, Times, I!Times, Nullable, I!Nullable
<1>5. QED
  BY <1>1, <1>2, <1>3, <1>4

\* The laws the session lemmas ask of the table hold of incident rows.
LEMMA IncidentLaws == I!RowLaws(I!IncidentRow)
BY IncidentAssumptions DEF I!IncidentConstants, I!RowLaws, I!IncidentRow, I!IncidentFollows

\* Whatever status the caller asks for, the merged row is a row when the
\* constraints accept it, and nothing but the status changed.
LEMMA UpdateStatusFollows ==
    ASSUME NEW s \in Sessions, NEW status \in I!AnyStatus, session[s].copy \in I!IncidentRow
    PROVE  I!UpdateFollows(s, [session[s].copy EXCEPT !.status = status])
<1> DEFINE copy == session[s].copy
           new == [copy EXCEPT !.status = status]
<1>1. SUFFICES ASSUME NEW row \in I!IncidentRow, I!IncidentChecks(I!Merge(row, copy, new))
               PROVE  LET merged == I!Merge(row, copy, new) IN
                          new \in I!IncidentRow /\ merged \in I!IncidentRow
                            /\ I!IncidentFollows(row, merged)
  BY DEF I!UpdateFollows
<1>2. I!Merge(row, copy, new).status =
          IF status # copy.status THEN status ELSE row.status
  BY DEF I!Merge, I!Changed, I!IncidentRow, I!IncidentFields
<1>3. new \in I!IncidentRow
  BY <1>1, <1>2 DEF I!IncidentChecks, I!IncidentRow
<1>4. I!Merge(row, copy, new) \in I!IncidentRow
  BY <1>1, <1>3 DEF I!Merge, I!Changed, I!IncidentRow, I!IncidentFields
<1>5. I!IncidentFollows(row, I!Merge(row, copy, new))
  BY <1>3 DEF I!Merge, I!Changed, I!IncidentRow, I!IncidentFields, I!IncidentFollows
<1>6. QED
  BY <1>3, <1>4, <1>5

\* resolve never writes None over a resolution time or a root cause.
LEMMA ResolveFollows ==
    ASSUME NEW s \in Sessions, NEW at \in I!Times, NEW cause \in I!RootCauses \cup {None},
           session[s].copy \in I!IncidentRow
    PROVE  I!UpdateFollows(s, [session[s].copy EXCEPT
               !.resolved_at = at,
               !.status = "resolved",
               !.root_cause = IF cause = None THEN session[s].copy.root_cause ELSE cause])
<1> DEFINE copy == session[s].copy
           text == IF cause = None THEN copy.root_cause ELSE cause
           new == [copy EXCEPT !.resolved_at = at, !.status = "resolved",
                               !.root_cause = text]
<1>1. new \in I!IncidentRow /\ at # None /\ (text # copy.root_cause => text # None)
  BY IncidentAssumptions DEF I!TimestampConstants, I!IncidentRow, I!IncidentStatus,
     I!Nullable
<1>2. SUFFICES ASSUME NEW row \in I!IncidentRow
               PROVE  LET merged == I!Merge(row, copy, new) IN
                          merged \in I!IncidentRow /\ I!IncidentFollows(row, merged)
  BY <1>1 DEF I!UpdateFollows
<1>3. I!Merge(row, copy, new) \in I!IncidentRow
  BY <1>1 DEF I!Merge, I!Changed, I!IncidentRow, I!IncidentFields
<1>4. I!IncidentFollows(row, I!Merge(row, copy, new))
  BY <1>1 DEF I!Merge, I!Changed, I!IncidentRow, I!IncidentFields, I!IncidentFollows
<1>5. QED
  BY <1>3, <1>4
LEMMA UpdateRootCauseFollows ==
    ASSUME NEW s \in Sessions, NEW cause \in I!RootCauses, session[s].copy \in I!IncidentRow
    PROVE  I!UpdateFollows(s, [session[s].copy EXCEPT !.root_cause = cause])
<1> DEFINE copy == session[s].copy
           new == [copy EXCEPT !.root_cause = cause]
<1>1. new \in I!IncidentRow /\ cause # None
  BY IncidentAssumptions DEF I!IncidentConstants, I!IncidentRow
<1>2. SUFFICES ASSUME NEW row \in I!IncidentRow
               PROVE  LET merged == I!Merge(row, copy, new) IN
                          merged \in I!IncidentRow /\ I!IncidentFollows(row, merged)
  BY <1>1 DEF I!UpdateFollows
<1>3. I!Merge(row, copy, new) \in I!IncidentRow
  BY <1>1 DEF I!Merge, I!Changed, I!IncidentRow, I!IncidentFields
<1>4. I!IncidentFollows(row, I!Merge(row, copy, new))
  BY <1>1 DEF I!Merge, I!Changed, I!IncidentRow, I!IncidentFields, I!IncidentFollows
<1>5. QED
  BY <1>3, <1>4
-----------------------------------------------------------------------------
\* No incident, no request: the invariant holds at the start.
LEMMA IncidentInitInv == I!Init => I!SessionInv
BY DEF I!Init, I!SessionsInit, I!SessionInv, I!TypeOK, I!OneWriter, I!VersionsValid,
   I!WritesFollow, I!IsRow, I!IsOpen, I!Locks
LEMMA IncidentCopyIsRow ==
    ASSUME I!SessionInv, NEW s \in Sessions, I!HasCopy(s)
    PROVE  session[s].copy \in I!IncidentRow
BY DEF I!SessionInv, I!TypeOK, I!HasCopy, I!IsOpen

\* One case for each action of a session.
LEMMA IncidentNextInv == I!SessionInv /\ [I!Next]_I!vars => I!SessionInv'
<1> SUFFICES ASSUME I!SessionInv, [I!Next]_I!vars PROVE I!SessionInv'
  OBVIOUS
<1> USE IncidentLaws
<1>1. CASE UNCHANGED I!vars
  BY <1>1 DEF I!vars, I!SessionInv, I!TypeOK, I!OneWriter, I!VersionsValid, I!WritesFollow,
     I!IsRow, I!IsOpen, I!Locks
<1>2. ASSUME NEW s \in Sessions, NEW id \in Ids, I!Load(s, id) \/ I!CheckAbsent(s, id)
      PROVE  I!SessionInv'
  BY <1>2, I!ReadKeepsInv, IncidentAssumptions
<1>3. ASSUME NEW s \in Sessions, I!Reload(s) PROVE I!SessionInv'
  BY <1>3, I!ReloadKeepsInv, IncidentAssumptions
<1>4. ASSUME NEW s \in Sessions, I!Create(s) PROVE I!SessionInv'
  BY <1>4, I!FlushInsertKeepsInv, IncidentAssumptions DEF I!IncidentConstants, I!Create
<1>5. ASSUME NEW s \in Sessions, NEW status \in I!AnyStatus, I!HasCopy(s),
             I!UpdateStatus(s, status)
      PROVE  I!SessionInv'
  BY <1>5, IncidentCopyIsRow, UpdateStatusFollows, I!FlushUpdateKeepsInv,
     IncidentAssumptions DEF I!UpdateStatus
<1>6. ASSUME NEW s \in Sessions, NEW at \in I!Times, NEW cause \in I!RootCauses \cup {None},
             I!HasCopy(s), I!Resolve(s, at, cause)
      PROVE  I!SessionInv'
  <2>1. PICK new : I!FlushUpdate(s, new) /\ I!UpdateFollows(s, new)
    <3>1. session[s].copy \in I!IncidentRow
      BY <1>6, IncidentCopyIsRow
    <3>2. QED
      BY <1>6, <3>1, ResolveFollows DEF I!Resolve
  <2>2. QED
    BY <2>1, I!FlushUpdateKeepsInv, IncidentAssumptions
<1>7. ASSUME NEW s \in Sessions, NEW cause \in I!RootCauses, I!HasCopy(s),
             I!UpdateRootCause(s, cause)
      PROVE  I!SessionInv'
  BY <1>7, IncidentCopyIsRow, UpdateRootCauseFollows, I!FlushUpdateKeepsInv,
     IncidentAssumptions DEF I!UpdateRootCause
<1>8. ASSUME NEW s \in Sessions, I!UpdateDescription(s) PROVE I!SessionInv'
  BY <1>8, I!FlushOtherKeepsInv, IncidentAssumptions DEF I!UpdateDescription
<1>9. ASSUME NEW s \in Sessions, I!Delete(s) PROVE I!SessionInv'
  BY <1>9, I!FlushDeleteKeepsInv, IncidentAssumptions DEF I!Delete
<1>10. ASSUME NEW s \in Sessions, I!Commit(s) PROVE I!SessionInv'
  BY <1>10, I!CommitKeepsInv, IncidentAssumptions
<1>11. ASSUME NEW s \in Sessions, I!Rollback(s) PROVE I!SessionInv'
  BY <1>11, I!RollbackKeepsInv, IncidentAssumptions
<1>12. QED
  BY <1>1, <1>2, <1>3, <1>4, <1>5, <1>6, <1>7, <1>8, <1>9, <1>10, <1>11 DEF I!Next

\* The invariant of the session machinery holds of the incidents table for every
\* number of concurrent requests.
THEOREM IncidentSessions == I!Spec => []I!SessionInv
BY IncidentInitInv, IncidentNextInv, PTL DEF I!Spec
\* Every variable of the incident table keeps its type.
THEOREM IncidentTypes == I!Spec => []I!TypeOK
<1>1. I!SessionInv => I!TypeOK
  BY DEF I!SessionInv
<1>2. QED
  BY <1>1, IncidentSessions, PTL
-----------------------------------------------------------------------------
\* The CHECK constraints are strong enough for the readers: a row they accept
\* is open for all of them or for none, and the domain model takes it.
LEMMA IncidentValidRowsRead ==
    ASSUME NEW row \in I!IncidentRow, I!IncidentChecks(row)
    PROVE  /\ I!OpenByQuery(row) <=> I!OpenByDomain(row)
           /\ I!OpenByQuery(row) <=> I!OpenByView(row)
           /\ I!DomainLifecycle(row)
BY IncidentAssumptions DEF I!TimestampConstants, I!IncidentRow, I!IncidentStatus,
   I!IncidentChecks, I!IncidentTimeChecks, I!IncidentStatusChecks, I!NotBefore,
   I!OpenByQuery, I!OpenByDomain, I!OpenByView, I!DomainLifecycle
LEMMA IncidentStoredRows ==
    ASSUME I!SessionInv, NEW id \in Ids, I!Stored(id)
    PROVE  table[id] \in I!IncidentRow /\ I!IncidentChecks(table[id])
BY IncidentLaws DEF I!SessionInv, I!TypeOK, I!VersionsValid, I!IsRow, I!Stored, I!RowLaws

\* Whatever requests interleave, repository, analytics, domain model and view
\* report the same incidents as open.
THEOREM IncidentReadersAgree == I!Spec => []I!OpenDefinitionsAgree
<1>1. I!SessionInv => I!OpenDefinitionsAgree
  BY IncidentStoredRows, IncidentValidRowsRead DEF I!OpenDefinitionsAgree
<1>2. QED
  BY <1>1, IncidentSessions, PTL

\* Whatever requests interleave, the lifecycle columns of every stored
\* incident convert to the domain model.
THEOREM IncidentRowsConvert == I!Spec => []I!StoredRowsConvert
<1>1. I!SessionInv => I!StoredRowsConvert
  BY IncidentStoredRows, IncidentValidRowsRead DEF I!StoredRowsConvert
<1>2. QED
  BY <1>1, IncidentSessions, PTL
-----------------------------------------------------------------------------
\* A step leaves the table alone or replaces one row by None or by a valid row
\* that follows it.
LEMMA IncidentStepFollows ==
    ASSUME I!SessionInv, I!Next
    PROVE  \/ UNCHANGED table
           \/ \E id \in Ids, row \in I!IncidentRow \cup {None} :
                  /\ table' = [table EXCEPT ![id] = row]
                  /\ row # None => I!IncidentChecks(row)
                  /\ row # None /\ table[id] # None => I!IncidentFollows(table[id], row)
<1>1. ASSUME NEW s \in Sessions, I!Commit(s)
      PROVE  \/ UNCHANGED table
             \/ \E id \in Ids, row \in I!IncidentRow \cup {None} :
                    /\ table' = [table EXCEPT ![id] = row]
                    /\ row # None => I!IncidentChecks(row)
                    /\ row # None /\ table[id] # None => I!IncidentFollows(table[id], row)
  BY <1>1, IncidentLaws, I!CommitFollows, IncidentAssumptions
<1>2. ASSUME I!Next, ~\E s \in Sessions : I!Commit(s)
      PROVE  UNCHANGED table
  BY <1>2, I!FlushStoresNothing, IncidentAssumptions DEF I!Next, I!Load, I!CheckAbsent,
     I!Reload, I!Create, I!FlushInsert, I!UpdateStatus, I!Resolve, I!UpdateRootCause,
     I!UpdateDescription, I!FlushOther, I!Delete, I!FlushDelete, I!Rollback
<1>3. QED
  BY <1>1, <1>2

\* No step takes a root cause back.
LEMMA IncidentStepSurvives ==
    ASSUME I!SessionInv, I!Next, NEW id \in Ids, I!Stored(id), table[id].root_cause # None
    PROVE  table'[id] = None \/ table'[id].root_cause # None
BY IncidentStepFollows DEF I!SessionInv, I!TypeOK, I!IncidentFollows, I!Stored

\* A root cause once committed stays, with this or a later text, until the
\* incident is deleted.
THEOREM IncidentRootCauses == I!Spec => I!RootCauseSurvives
<1> DEFINE Step == \A id \in Ids : I!Stored(id) /\ table[id].root_cause # None =>
                       table'[id] = None \/ table'[id].root_cause # None
<1>1. ASSUME I!SessionInv, [I!Next]_I!vars PROVE [Step]_I!vars
  BY <1>1, IncidentStepSurvives
<1>2. QED
  BY <1>1, IncidentSessions, PTL DEF I!Spec, I!RootCauseSurvives

\* A step of the table is a step of the lifecycle, or leaves the phases alone.
LEMMA IncidentLifecycleStep ==
    ASSUME I!SessionInv, [I!Next]_I!vars
    PROVE  [I!Lifecycle!LifecycleNext]_[id \in Ids |-> I!Phase(table[id])]
<1> DEFINE phase == [id \in Ids |-> I!Phase(table[id])]
<1>1. CASE UNCHANGED table
  BY <1>1
<1>2. ASSUME NEW id \in Ids, NEW row \in I!IncidentRow \cup {None},
             table' = [table EXCEPT ![id] = row],
             row # None /\ table[id] # None => I!IncidentFollows(table[id], row)
      PROVE  \/ UNCHANGED phase
             \/ I!Lifecycle!CreateRecord(id) \/ I!Lifecycle!CloseRecord(id)
             \/ I!Lifecycle!DeleteRecord(id)
  <2>1. phase' = [phase EXCEPT ![id] = I!Phase(row)]
    BY <1>2 DEF I!SessionInv, I!TypeOK
  <2>2. phase[id] = I!Phase(table[id])
    OBVIOUS
  <2>3. table[id] \in I!IncidentRow \cup {None}
    BY DEF I!SessionInv, I!TypeOK
  <2>4. CASE row = None
    BY <2>1, <2>2, <2>4 DEF I!Phase, I!Lifecycle!DeleteRecord
  <2>5. CASE row # None /\ table[id] = None
    BY <2>1, <2>2, <2>5 DEF I!Phase, I!Lifecycle!CreateRecord
  <2>6. CASE row # None /\ table[id] # None
    BY <1>2, <2>1, <2>2, <2>6 DEF I!Phase, I!OpenByQuery, I!IncidentFollows,
       I!Lifecycle!CloseRecord
  <2>7. QED
    BY <2>4, <2>5, <2>6
<1>3. CASE I!Next
  BY <1>1, <1>2, <1>3, IncidentStepFollows DEF I!Lifecycle!LifecycleNext
<1>4. QED
  BY <1>1, <1>3 DEF I!vars

\* The incidents table implements the record lifecycle.
THEOREM IncidentLifecycle == I!Spec => I!ImplementsLifecycle
<1>1. I!Init => I!Lifecycle!LifecycleInit
  BY DEF I!Init, I!Lifecycle!LifecycleInit, I!Phase
<1>2. QED
  BY <1>1, IncidentLifecycleStep, IncidentSessions, PTL
     DEF I!Spec, I!ImplementsLifecycle, I!Lifecycle!LifecycleSpec

-----------------------------------------------------------------------------
\* The assumptions on the constants, as the instance W of the table's module
\* states them.
LEMMA WorkOrderAssumptions ==
    /\ W!TimestampConstants /\ W!AlarmConstants
    /\ W!IncidentConstants /\ W!WorkOrderConstants
<1>1. W!TimestampConstants
  BY TimestampConstants DEF Times, W!Times, W!TimestampConstants
<1>2. W!AlarmConstants
  BY AlarmConstants
     DEF W!AlarmConstants, AlarmRow, W!AlarmRow, AlarmStatus, W!AlarmStatus, Times,
         W!Times, Nullable, W!Nullable
<1>3. W!IncidentConstants
  BY IncidentConstants
     DEF W!IncidentConstants, IncidentRow, W!IncidentRow, IncidentStatus, W!IncidentStatus,
         RootCauses, W!RootCauses, Times, W!Times, Nullable, W!Nullable
<1>4. W!WorkOrderConstants
  BY WorkOrderConstants
     DEF W!WorkOrderConstants, WorkOrderRow, W!WorkOrderRow, WorkOrderStatus,
         W!WorkOrderStatus, Times, W!Times, Nullable, W!Nullable
<1>5. QED
  BY <1>1, <1>2, <1>3, <1>4

\* The laws the session lemmas ask of the table hold of work-order rows.
LEMMA WorkOrderLaws == W!RowLaws(W!WorkOrderRow)
BY WorkOrderAssumptions DEF W!WorkOrderConstants, W!RowLaws, W!WorkOrderRow,
   W!WorkOrderFollows, W!WorkOrderFields

\* Every update writes a column f, never None over a value, and a status; the
\* constraints see to it that the merged status is one.
LEMMA OneColumnFollows ==
    ASSUME NEW s \in Sessions, NEW status, NEW new,
           NEW f \in W!WorkOrderFields \ {"status", "created_at"}, NEW value,
           session[s].copy \in W!WorkOrderRow,
           value # None \/ value = session[s].copy[f],
           [session[s].copy EXCEPT ![f] = value] \in W!WorkOrderRow,
           new = [session[s].copy EXCEPT ![f] = value, !["status"] = status]
    PROVE  W!UpdateFollows(s, new)
<1> DEFINE copy == session[s].copy
<1>1. SUFFICES ASSUME NEW row \in W!WorkOrderRow, W!WorkOrderChecks(W!Merge(row, copy, new))
               PROVE  LET merged == W!Merge(row, copy, new) IN
                          new \in W!WorkOrderRow /\ merged \in W!WorkOrderRow
                            /\ W!WorkOrderFollows(row, merged)
  BY DEF W!UpdateFollows
<1>2. W!Merge(row, copy, new).status = IF status # copy.status THEN status ELSE row.status
  BY DEF W!Merge, W!Changed, W!WorkOrderRow, W!WorkOrderFields
<1>3. status \in W!WorkOrderStatus
  BY <1>1, <1>2 DEF W!WorkOrderChecks, W!WorkOrderRow
<1>4. new \in W!WorkOrderRow
  BY <1>3 DEF W!WorkOrderRow, W!WorkOrderFields
<1>5. W!Merge(row, copy, new) \in W!WorkOrderRow
  BY <1>1, <1>4 DEF W!Merge, W!Changed, W!WorkOrderRow, W!WorkOrderFields
<1>6. W!WorkOrderFollows(row, W!Merge(row, copy, new))
  BY <1>4 DEF W!Merge, W!Changed, W!WorkOrderRow, W!WorkOrderFields, W!WorkOrderFollows
<1>7. QED
  BY <1>4, <1>5, <1>6
\* What each method writes, as the lemma above takes it.
LEMMA WorkOrderMethodsFollow ==
    ASSUME NEW s \in Sessions, session[s].copy \in W!WorkOrderRow
    PROVE  /\ \A status \in W!AnyStatus :
                  W!UpdateFollows(s, [session[s].copy EXCEPT !.status = status])
           /\ W!UpdateFollows(s, [session[s].copy EXCEPT !.assigned_team = Team])
           /\ \A at \in W!Times :
                  /\ W!UpdateFollows(s, [session[s].copy EXCEPT !.scheduled_at = at,
                                                              !.status = "scheduled"])
                  /\ W!UpdateFollows(s, [session[s].copy EXCEPT !.started_at = at,
                                                              !.status = "in_progress"])
                  /\ W!UpdateFollows(s, [session[s].copy EXCEPT !.completed_at = at,
                                                              !.status = "completed"])
                  /\ W!UpdateFollows(s, [session[s].copy EXCEPT !.cancelled_at = at,
                                                              !.status = "cancelled"])
<1> DEFINE copy == session[s].copy
<1>1. None \notin W!Times /\ Team # None
  BY WorkOrderAssumptions DEF W!TimestampConstants, W!WorkOrderConstants
<1>2. ASSUME NEW status \in W!AnyStatus
      PROVE  W!UpdateFollows(s, [copy EXCEPT !.status = status])
  <2>1. [copy EXCEPT !.status = status] =
            [copy EXCEPT !["assigned_team"] = copy.assigned_team, !["status"] = status]
    BY DEF W!WorkOrderRow
  <2>2. [copy EXCEPT !["assigned_team"] = copy.assigned_team] \in W!WorkOrderRow
    BY DEF W!WorkOrderRow
  <2>3. QED
    BY <2>1, <2>2, OneColumnFollows DEF W!WorkOrderFields
<1>3. W!UpdateFollows(s, [copy EXCEPT !.assigned_team = Team])
  <2>1. [copy EXCEPT !.assigned_team = Team] =
            [copy EXCEPT !["assigned_team"] = Team, !["status"] = copy.status]
    BY DEF W!WorkOrderRow
  <2>2. [copy EXCEPT !["assigned_team"] = Team] \in W!WorkOrderRow
    BY DEF W!WorkOrderRow
  <2>3. QED
    BY <1>1, <2>1, <2>2, OneColumnFollows DEF W!WorkOrderFields
<1>4. ASSUME NEW at \in W!Times,
             NEW f \in {"scheduled_at", "started_at", "completed_at", "cancelled_at"}
      PROVE  \A status : W!UpdateFollows(s, [copy EXCEPT ![f] = at, !["status"] = status])
  <2>1. [copy EXCEPT ![f] = at] \in W!WorkOrderRow
    BY DEF W!WorkOrderRow, W!Nullable
  <2>2. QED
    BY <1>1, <2>1, OneColumnFollows DEF W!WorkOrderFields
<1>5. QED
  BY <1>2, <1>3, <1>4
-----------------------------------------------------------------------------
\* No work order, no request: the invariant holds at the start.
LEMMA WorkOrderInitInv == W!Init => W!SessionInv
BY DEF W!Init, W!SessionsInit, W!SessionInv, W!TypeOK, W!OneWriter, W!VersionsValid,
   W!WritesFollow, W!IsRow, W!IsOpen, W!Locks
LEMMA WorkOrderCopyIsRow ==
    ASSUME W!SessionInv, NEW s \in Sessions, W!HasCopy(s)
    PROVE  session[s].copy \in W!WorkOrderRow
BY DEF W!SessionInv, W!TypeOK, W!HasCopy, W!IsOpen

\* One case for each action of a session.
LEMMA WorkOrderNextInv == W!SessionInv /\ [W!Next]_W!vars => W!SessionInv'
<1> SUFFICES ASSUME W!SessionInv, [W!Next]_W!vars PROVE W!SessionInv'
  OBVIOUS
<1> USE WorkOrderLaws
<1>1. CASE UNCHANGED W!vars
  BY <1>1 DEF W!vars, W!SessionInv, W!TypeOK, W!OneWriter, W!VersionsValid, W!WritesFollow,
     W!IsRow, W!IsOpen, W!Locks
<1>2. ASSUME NEW s \in Sessions, NEW id \in Ids, W!Load(s, id) \/ W!CheckAbsent(s, id)
      PROVE  W!SessionInv'
  BY <1>2, W!ReadKeepsInv, WorkOrderAssumptions
<1>3. ASSUME NEW s \in Sessions, W!Reload(s) PROVE W!SessionInv'
  BY <1>3, W!ReloadKeepsInv, WorkOrderAssumptions
<1>4. ASSUME NEW s \in Sessions, W!Create(s) PROVE W!SessionInv'
  BY <1>4, W!FlushInsertKeepsInv, WorkOrderAssumptions DEF W!WorkOrderConstants, W!Create
<1>5. ASSUME NEW s \in Sessions, W!HasCopy(s),
             \/ \E status \in W!AnyStatus : W!UpdateStatus(s, status)
             \/ W!AssignTeam(s)
             \/ \E at \in W!Times : W!Schedule(s, at) \/ W!Start(s, at) \/ W!Cancel(s, at)
      PROVE  W!SessionInv'
  <2>1. PICK new : W!FlushUpdate(s, new) /\ W!UpdateFollows(s, new)
    <3>1. session[s].copy \in W!WorkOrderRow
      BY <1>5, WorkOrderCopyIsRow
    <3>2. QED
      BY <1>5, <3>1, WorkOrderMethodsFollow DEF W!UpdateStatus, W!AssignTeam, W!Schedule,
         W!Start, W!Cancel
  <2>2. QED
    BY <2>1, W!FlushUpdateKeepsInv, WorkOrderAssumptions
<1>6. ASSUME NEW s \in Sessions, W!HasCopy(s), NEW at \in W!Times, W!Complete(s, at)
      PROVE  W!SessionInv'
  <2>1. CASE W!FlushOther(s)
    BY <2>1, W!FlushOtherKeepsInv, WorkOrderAssumptions
  <2>2. CASE ~W!FlushOther(s)
    <3>1. PICK new : W!FlushUpdate(s, new) /\ W!UpdateFollows(s, new)
      <4>1. session[s].copy \in W!WorkOrderRow
        BY <1>6, WorkOrderCopyIsRow
      <4>2. QED
        BY <1>6, <2>2, <4>1, WorkOrderMethodsFollow DEF W!Complete
    <3>2. QED
      BY <3>1, W!FlushUpdateKeepsInv, WorkOrderAssumptions
  <2>3. QED
    BY <2>1, <2>2
<1>7. ASSUME NEW s \in Sessions, W!Delete(s) PROVE W!SessionInv'
  BY <1>7, W!FlushDeleteKeepsInv, WorkOrderAssumptions DEF W!Delete
<1>8. ASSUME NEW s \in Sessions, W!Commit(s) PROVE W!SessionInv'
  BY <1>8, W!CommitKeepsInv, WorkOrderAssumptions
<1>9. ASSUME NEW s \in Sessions, W!Rollback(s) PROVE W!SessionInv'
  BY <1>9, W!RollbackKeepsInv, WorkOrderAssumptions
<1>10. QED
  BY <1>1, <1>2, <1>3, <1>4, <1>5, <1>6, <1>7, <1>8, <1>9 DEF W!Next

\* The invariant of the session machinery holds of the work_orders table for every
\* number of concurrent requests.
THEOREM WorkOrderSessions == W!Spec => []W!SessionInv
BY WorkOrderInitInv, WorkOrderNextInv, PTL DEF W!Spec
\* Every variable of the work-order table keeps its type.
THEOREM WorkOrderTypes == W!Spec => []W!TypeOK
<1>1. W!SessionInv => W!TypeOK
  BY DEF W!SessionInv
<1>2. QED
  BY <1>1, WorkOrderSessions, PTL
-----------------------------------------------------------------------------
\* The CHECK constraints are strong enough for the readers: a row they accept
\* is open for all of them or for none, and the domain model takes it.
LEMMA WorkOrderValidRowsRead ==
    ASSUME NEW row \in W!WorkOrderRow, W!WorkOrderChecks(row)
    PROVE  W!DomainAccepts(row) /\ (W!OpenByQuery(row) <=> W!OpenByDomain(row))
BY WorkOrderAssumptions DEF W!TimestampConstants, W!WorkOrderRow, W!WorkOrderStatus,
   W!WorkOrderChecks, W!WorkOrderTimeChecks, W!UnstartedChecks, W!InProgressChecks,
   W!FinishedChecks, W!NotBefore, W!OpenByQuery, W!OpenByDomain, W!DomainAccepts
LEMMA WorkOrderStoredRows ==
    ASSUME W!SessionInv, NEW id \in Ids, W!Stored(id)
    PROVE  table[id] \in W!WorkOrderRow /\ W!WorkOrderChecks(table[id])
BY WorkOrderLaws DEF W!SessionInv, W!TypeOK, W!VersionsValid, W!IsRow, W!Stored, W!RowLaws

\* Whatever requests interleave, every stored work order converts to the
\* domain model, and query, view and model agree on whether it is open.
THEOREM WorkOrderRowsConvert == W!Spec => []W!StoredRowsConvert
<1>1. W!SessionInv => W!StoredRowsConvert
  BY WorkOrderStoredRows, WorkOrderValidRowsRead DEF W!StoredRowsConvert
<1>2. QED
  BY <1>1, WorkOrderSessions, PTL
-----------------------------------------------------------------------------
\* A step leaves the table alone or replaces one row by None or by a valid row
\* that follows it.
LEMMA WorkOrderStepFollows ==
    ASSUME W!SessionInv, W!Next
    PROVE  \/ UNCHANGED table
           \/ \E id \in Ids, row \in W!WorkOrderRow \cup {None} :
                  /\ table' = [table EXCEPT ![id] = row]
                  /\ row # None => W!WorkOrderChecks(row)
                  /\ row # None /\ table[id] # None => W!WorkOrderFollows(table[id], row)
<1>1. ASSUME NEW s \in Sessions, W!Commit(s)
      PROVE  \/ UNCHANGED table
             \/ \E id \in Ids, row \in W!WorkOrderRow \cup {None} :
                    /\ table' = [table EXCEPT ![id] = row]
                    /\ row # None => W!WorkOrderChecks(row)
                    /\ row # None /\ table[id] # None => W!WorkOrderFollows(table[id], row)
  BY <1>1, WorkOrderLaws, W!CommitFollows, WorkOrderAssumptions
<1>2. ASSUME W!Next, ~\E s \in Sessions : W!Commit(s)
      PROVE  UNCHANGED table
  BY <1>2, W!FlushStoresNothing, WorkOrderAssumptions DEF W!Next, W!Load, W!CheckAbsent,
     W!Reload, W!Create, W!FlushInsert, W!UpdateStatus, W!AssignTeam, W!Schedule, W!Start,
     W!Complete, W!Cancel, W!FlushOther, W!Delete, W!FlushDelete, W!Rollback
<1>3. QED
  BY <1>1, <1>2
LEMMA WorkOrderRowSteps ==
    ASSUME W!SessionInv, W!Next, NEW id \in Ids, W!Stored(id)
    PROVE  /\ table[id] \in W!WorkOrderRow /\ W!WorkOrderChecks(table[id])
           /\ \/ table'[id] = None
              \/ /\ table'[id] \in W!WorkOrderRow /\ W!WorkOrderChecks(table'[id])
                 /\ W!WorkOrderFollows(table[id], table'[id])
<1>1. table[id] \in W!WorkOrderRow /\ W!WorkOrderChecks(table[id])
  BY WorkOrderStoredRows
<1>2. CASE UNCHANGED table
  BY <1>1, <1>2, WorkOrderLaws DEF W!RowLaws
<1>3. CASE ~UNCHANGED table
  <2>1. PICK i \in Ids, row \in W!WorkOrderRow \cup {None} :
            /\ table' = [table EXCEPT ![i] = row]
            /\ row # None => W!WorkOrderChecks(row)
            /\ row # None /\ table[i] # None => W!WorkOrderFollows(table[i], row)
    BY <1>3, WorkOrderStepFollows
  <2>2. table'[id] = IF id = i THEN row ELSE table[id]
    BY <2>1 DEF W!SessionInv, W!TypeOK
  <2>3. QED
    BY <1>1, <2>1, <2>2, WorkOrderLaws DEF W!RowLaws, W!Stored
<1>4. QED
  BY <1>2, <1>3

\* completed_at and started_at are kept from version to version, and the
\* constraints leave a row that has both no status but completed.
LEMMA WorkOrderStepCompletes ==
    ASSUME W!SessionInv, W!Next, NEW id \in Ids, W!Stored(id), table[id].status = "completed"
    PROVE  table'[id] = None \/ table'[id].status = "completed"
<1>1. ASSUME NEW old \in W!WorkOrderRow, NEW new \in W!WorkOrderRow,
             W!WorkOrderChecks(old), W!WorkOrderChecks(new), W!WorkOrderFollows(old, new),
             old.status = "completed"
      PROVE  new.status = "completed"
  BY <1>1 DEF W!WorkOrderRow, W!WorkOrderStatus, W!WorkOrderChecks, W!UnstartedChecks,
              W!InProgressChecks, W!FinishedChecks, W!WorkOrderFollows, W!WorkOrderFields
<1>2. QED
  BY <1>1, WorkOrderRowSteps

\* A completed work order stays completed until it is deleted.
THEOREM WorkOrderCompletion == W!Spec => W!CompletedIsFinal
<1> DEFINE Step == \A id \in Ids : W!Stored(id) /\ table[id].status = "completed" =>
                       table'[id] = None \/ table'[id].status = "completed"
<1>1. ASSUME W!SessionInv, [W!Next]_W!vars PROVE [Step]_W!vars
  BY <1>1, WorkOrderStepCompletes
<1>2. QED
  BY <1>1, WorkOrderSessions, PTL DEF W!Spec, W!CompletedIsFinal

\* started_at is kept, and the constraints leave a row that has it neither open
\* nor assigned.
LEMMA WorkOrderStepStarts ==
    ASSUME W!SessionInv, W!Next, NEW id \in Ids, W!Stored(id), table[id].started_at # None
    PROVE  \/ table'[id] = None
           \/ table'[id].started_at # None /\ table'[id].status \notin {"open", "assigned"}
<1>1. ASSUME NEW old \in W!WorkOrderRow, NEW new \in W!WorkOrderRow,
             W!WorkOrderChecks(old), W!WorkOrderChecks(new), W!WorkOrderFollows(old, new),
             old.started_at # None
      PROVE  new.started_at # None /\ new.status \notin {"open", "assigned"}
  BY <1>1 DEF W!WorkOrderChecks, W!UnstartedChecks, W!WorkOrderFollows, W!WorkOrderFields
<1>2. QED
  BY <1>1, WorkOrderRowSteps

\* A start once committed stays, and the order is never open or assigned again.
THEOREM WorkOrderStarts == W!Spec => W!StartSurvives
<1> DEFINE Step == \A id \in Ids : W!Stored(id) /\ table[id].started_at # None =>
                       \/ table'[id] = None
                       \/ table'[id].started_at # None
                            /\ table'[id].status \notin {"open", "assigned"}
<1>1. ASSUME W!SessionInv, [W!Next]_W!vars PROVE [Step]_W!vars
  BY <1>1, WorkOrderStepStarts
<1>2. QED
  BY <1>1, WorkOrderSessions, PTL DEF W!Spec, W!StartSurvives

-----------------------------------------------------------------------------
\* A behaviour of OperationalTables is one of the table it is about.
TableInv ==
    /\ kind \in {"alarm", "incident", "work_order"}
    /\ kind = "alarm" => A!SessionInv
    /\ kind = "incident" => I!SessionInv
    /\ kind = "work_order" => W!SessionInv

LEMMA TableInitInv == Init => TableInv
BY AlarmInitInv, IncidentInitInv, WorkOrderInitInv DEF Init, TableInv

LEMMA TableNextInv == TableInv /\ [Next]_vars => TableInv'
BY AlarmNextInv, IncidentNextInv, WorkOrderNextInv
DEF TableInv, Next, vars, A!vars, I!vars, W!vars

\* The three tables together: a step is one table's and leaves the other two
\* as they are, so each keeps its invariant.
THEOREM TableSessions == Spec => []TableInv
BY TableInitInv, TableNextInv, PTL DEF Spec

\* Rows, copies and uncommitted versions have the types of their table.
THEOREM TableTypes == Spec => []TypeOK
<1>1. TableInv => TypeOK
  BY DEF TableInv, TypeOK, A!SessionInv, I!SessionInv, W!SessionInv
<1>2. QED
  BY <1>1, TableSessions, PTL

\* No interleaving of two services' methods loses what the other has recorded:
\* an uncommitted version follows the row that is committed now.
THEOREM TableWritesFollow == Spec => []WritesFollow
<1>1. TableInv => WritesFollow
  BY DEF TableInv, WritesFollow, A!SessionInv, I!SessionInv, W!SessionInv
<1>2. QED
  BY <1>1, TableSessions, PTL

\* Every reader of a table agrees with the others on which rows are open.
THEOREM TableReadersAgree == Spec => []OpenDefinitionsAgree
<1>1. TableInv => OpenDefinitionsAgree
  BY AlarmStoredRows, AlarmValidRowsRead, IncidentStoredRows, IncidentValidRowsRead
     DEF TableInv, OpenDefinitionsAgree, A!OpenDefinitionsAgree, I!OpenDefinitionsAgree
<1>2. QED
  BY <1>1, TableSessions, PTL

\* Every stored row converts to its domain model.
THEOREM TableRowsConvert == Spec => []StoredRowsConvert
<1>1. TableInv => StoredRowsConvert
  BY AlarmStoredRows, AlarmValidRowsRead, IncidentStoredRows, IncidentValidRowsRead,
     WorkOrderStoredRows, WorkOrderValidRowsRead
     DEF TableInv, StoredRowsConvert, A!StoredRowsConvert, I!StoredRowsConvert,
         W!StoredRowsConvert
<1>2. QED
  BY <1>1, TableSessions, PTL

\* No request takes back what another one has committed.
THEOREM TableRecordsSurvive == Spec => RecordsSurvive
<1> DEFINE Step ==
        \A id \in Ids : table[id] # None /\ table'[id] # None =>
           /\ kind = "alarm" /\ table[id].acknowledged_at # None =>
                  table'[id].acknowledged_at # None
           /\ kind = "incident" /\ table[id].root_cause # None =>
                  table'[id].root_cause # None
           /\ kind = "work_order" =>
                  /\ table[id].status = "completed" => table'[id].status = "completed"
                  /\ table[id].started_at # None =>
                         /\ table'[id].started_at # None
                         /\ table'[id].status \notin {"open", "assigned"}
<1>1. ASSUME TableInv, Next, NEW id \in Ids, table[id] # None, table'[id] # None,
             kind = "alarm", table[id].acknowledged_at # None
      PROVE  table'[id].acknowledged_at # None
  BY <1>1, AlarmStepSurvives DEF TableInv, Next, A!Stored
<1>2. ASSUME TableInv, Next, NEW id \in Ids, table[id] # None, table'[id] # None,
             kind = "incident", table[id].root_cause # None
      PROVE  table'[id].root_cause # None
  BY <1>2, IncidentStepSurvives DEF TableInv, Next, I!Stored
<1>3. ASSUME TableInv, Next, NEW id \in Ids, table[id] # None, table'[id] # None,
             kind = "work_order"
      PROVE  /\ table[id].status = "completed" => table'[id].status = "completed"
             /\ table[id].started_at # None =>
                    /\ table'[id].started_at # None
                    /\ table'[id].status \notin {"open", "assigned"}
  BY <1>3, WorkOrderStepCompletes, WorkOrderStepStarts DEF TableInv, Next, W!Stored
<1>4. TableInv /\ [Next]_vars => [Step]_vars
  BY <1>1, <1>2, <1>3
<1>5. QED
  BY <1>4, TableSessions, PTL DEF Spec, RecordsSurvive

\* The alarms and the incidents table implement the record lifecycle: created
\* open or closed, closed for good, then deleted.
THEOREM TableLifecycle == Spec => ImplementsLifecycle
<1> DEFINE phase == [id \in Ids |-> IF kind = "work_order" THEN "absent" ELSE Phase(table[id])]
<1>1. Init => Lifecycle!LifecycleInit
  BY DEF Init, A!Init, I!Init, W!Init, Lifecycle!LifecycleInit, Phase
<1>2. ASSUME TableInv, [Next]_vars
      PROVE  [Lifecycle!LifecycleNext]_phase
  <2>1. CASE UNCHANGED <<kind, table>>
    BY <2>1 DEF Phase, A!Phase, I!Phase, A!OpenByQuery, I!OpenByQuery
  <2>2. CASE kind = "alarm" /\ kind' = kind /\ [A!Next]_A!vars
    <3>1. phase = [id \in Ids |-> A!Phase(table[id])]
      BY <2>2 DEF Phase, A!Phase
    <3>2. phase' = [id \in Ids |-> A!Phase(table'[id])]
      BY <2>2 DEF Phase, A!Phase
    <3>3. [A!Lifecycle!LifecycleNext]_[id \in Ids |-> A!Phase(table[id])]
      BY <1>2, <2>2, AlarmLifecycleStep DEF TableInv
    <3>4. QED
      BY <3>1, <3>2, <3>3
         DEF Lifecycle!LifecycleNext, Lifecycle!CreateRecord, Lifecycle!CloseRecord,
             Lifecycle!DeleteRecord, A!Lifecycle!LifecycleNext, A!Lifecycle!CreateRecord,
             A!Lifecycle!CloseRecord, A!Lifecycle!DeleteRecord
  <2>3. CASE kind = "incident" /\ kind' = kind /\ [I!Next]_I!vars
    <3>1. phase = [id \in Ids |-> I!Phase(table[id])]
      BY <2>3 DEF Phase, I!Phase
    <3>2. phase' = [id \in Ids |-> I!Phase(table'[id])]
      BY <2>3 DEF Phase, I!Phase
    <3>3. [I!Lifecycle!LifecycleNext]_[id \in Ids |-> I!Phase(table[id])]
      BY <1>2, <2>3, IncidentLifecycleStep DEF TableInv
    <3>4. QED
      BY <3>1, <3>2, <3>3
         DEF Lifecycle!LifecycleNext, Lifecycle!CreateRecord, Lifecycle!CloseRecord,
             Lifecycle!DeleteRecord, I!Lifecycle!LifecycleNext, I!Lifecycle!CreateRecord,
             I!Lifecycle!CloseRecord, I!Lifecycle!DeleteRecord
  <2>4. CASE kind = "work_order" /\ kind' = kind
    BY <2>4
  <2>5. QED
    BY <1>2, <2>1, <2>2, <2>3, <2>4 DEF Next, vars
<1>3. QED
  BY <1>1, <1>2, TableSessions, PTL DEF Spec, ImplementsLifecycle, Lifecycle!LifecycleSpec
=============================================================================
