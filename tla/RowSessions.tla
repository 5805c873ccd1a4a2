----------------------------- MODULE RowSessions ------------------------------
(***************************************************************************)
(* One table of the operational database as the service layer uses it:     *)
(* every request runs in a session_scope (database/session.py), reads a    *)
(* row into the session's identity map with get_required, changes          *)
(* attributes of that copy and flushes.  The flush sends an UPDATE of the  *)
(* attributes that changed with respect to the copy, which PostgreSQL      *)
(* applies at READ COMMITTED to the newest committed row, under a row      *)
(* lock that is kept to the end of the transaction, and the CHECK          *)
(* constraints judge the row that results.                                 *)
(*                                                                         *)
(* A table module (AlarmTable, IncidentTable, WorkOrderTable) instantiates *)
(* this one and adds an action for each service method.  A session touches *)
(* one row in its life; it may call several methods on it.                 *)
(***************************************************************************)
EXTENDS TLAPS

CONSTANTS
    Sessions,   \* the concurrent session scopes
    Ids,        \* primary keys
    Fields,     \* the columns of the table that are modelled
    Row,        \* the rows the columns' types allow
    Valid(_),   \* the CHECK constraints: what a stored row must satisfy
    Follows(_, _),  \* what the service's methods keep from a version of a
                    \* row to the next
    None,       \* no row / no value (SQL NULL, Python None)
    Deleted     \* a row the session's transaction has deleted

VARIABLES
    table,      \* committed rows: table[id] is a row, or None
    session     \* open session scopes: session[s] is a record, or None

\* What a session keeps: the key it is about, its identity-map copy (None when
\* the key was not found), and the uncommitted version it wrote (None before
\* its first write).
SessionState(id, copy, written) == [id |-> id, copy |-> copy, written |-> written]

IsOpen(s) == session[s] # None

\* The scope found its row, and has not deleted it.
HasCopy(s) == IsOpen(s) /\ session[s].copy \notin {None, Deleted}

\* s holds the row lock of id from its first write to the end of the scope.
Locks(s, id) == IsOpen(s) /\ session[s].id = id /\ session[s].written # None

\* No other transaction has an uncommitted version of the row.
LockFree(s, id) == \A other \in Sessions \ {s} : ~Locks(other, id)

\* UPDATE and DELETE wait for the lock of a row they can see; an INSERT waits
\* for any uncommitted version of its key.
MayWrite(s, id) == table[id] = None \/ LockFree(s, id)

\* The row an UPDATE of session s applies to: its own uncommitted version,
\* else the newest committed one.
Current(s) ==
    LET id == session[s].id IN
    IF session[s].written = None THEN table[id]
    ELSE IF session[s].written = Deleted THEN None ELSE session[s].written

Changed(old, new) == {f \in Fields : new[f] # old[f]}

Merge(row, old, new) ==
    [f \in Fields |-> IF f \in Changed(old, new) THEN new[f] ELSE row[f]]

Close(s) == session' = [session EXCEPT ![s] = None]

-----------------------------------------------------------------------------
SessionsInit == session = [s \in Sessions |-> None]

\* get_required of the first method called in the scope: SELECT by key.
\* A missing row raises LookupError, which ends the scope with a rollback.
Load(s, id) ==
    /\ ~IsOpen(s)
    /\ table[id] # None
    /\ session' = [session EXCEPT ![s] = SessionState(id, table[id], None)]
    /\ UNCHANGED table

\* The identity map holds its objects weakly: when the caller has dropped the
\* copy, the next get_required of the scope reads the row again.
Reload(s) ==
    /\ IsOpen(s) /\ Current(s) # None
    /\ session' = [session EXCEPT ![s] = SessionState(@.id, Current(s), @.written)]
    /\ UNCHANGED table

\* create's exists check: the key is not in the table as this session reads
\* it; the INSERT is a later step.
CheckAbsent(s, id) ==
    /\ ~IsOpen(s)
    /\ table[id] = None
    /\ session' = [session EXCEPT ![s] = SessionState(id, None, None)]
    /\ UNCHANGED table

\* session.add and flush: the INSERT waits for an uncommitted INSERT of the
\* same key, then fails on a key that has been committed meanwhile.
FlushInsert(s, row) ==
    /\ IsOpen(s) /\ session[s].copy = None
    /\ LockFree(s, session[s].id)
    /\ IF table[session[s].id] = None /\ Valid(row)
       THEN session' = [session EXCEPT ![s] = SessionState(@.id, row, row)]
       ELSE Close(s)
    /\ UNCHANGED table

\* A service method changed its copy to new and flushed.  Nothing is sent
\* when no attribute changed.  An UPDATE that matches no row (StaleDataError)
\* or yields a row the constraints reject (IntegrityError) ends the scope.
FlushUpdate(s, new) ==
    /\ HasCopy(s)
    /\ LET old == session[s].copy
           row == Merge(Current(s), old, new)
           accepted == Current(s) # None /\ Valid(row)
       IN \/ /\ Changed(old, new) = {}
             /\ UNCHANGED session
          \/ /\ Changed(old, new) # {} /\ MayWrite(s, session[s].id) /\ accepted
             /\ session' = [session EXCEPT ![s] = SessionState(@.id, new, row)]
          \/ /\ Changed(old, new) # {} /\ MayWrite(s, session[s].id) /\ ~accepted
             /\ Close(s)
    /\ UNCHANGED table

\* A flush that changes only columns the model leaves out: the row is locked
\* and rewritten with the modelled columns of its newest version.
FlushOther(s) ==
    /\ HasCopy(s)
    /\ MayWrite(s, session[s].id)
    /\ IF Current(s) # None
       THEN session' = [session EXCEPT ![s] = SessionState(@.id, @.copy, Current(s))]
       ELSE Close(s)
    /\ UNCHANGED table

\* repository.delete: a DELETE that matches no row is only a warning.
FlushDelete(s) ==
    /\ HasCopy(s)
    /\ MayWrite(s, session[s].id)
    /\ session' = [session EXCEPT ![s] =
           SessionState(@.id, Deleted, IF Current(s) = None THEN @.written ELSE Deleted)]
    /\ UNCHANGED table

\* session_scope: commit at the end of the with-block ...
Commit(s) ==
    /\ IsOpen(s)
    /\ table' = IF session[s].written = None THEN table
                ELSE [table EXCEPT ![session[s].id] = Current(s)]
    /\ Close(s)

\* ... rollback on any exception of the caller's code in the block, or when
\* the process dies with the transaction open.
Rollback(s) ==
    /\ IsOpen(s)
    /\ Close(s)
    /\ UNCHANGED table

-----------------------------------------------------------------------------
TypeOK ==
    /\ table \in [Ids -> Row \cup {None}]
    /\ session \in [Sessions -> {None} \cup
           [id : Ids, copy : Row \cup {None, Deleted}, written : Row \cup {None, Deleted}]]

IsRow(version) == version \notin {None, Deleted}

\* The row lock is exclusive: at most one open scope holds an uncommitted
\* version of a row.
OneWriter ==
    \A s1, s2 \in Sessions, id \in Ids : Locks(s1, id) /\ Locks(s2, id) => s1 = s2

\* What the constraints have accepted stays accepted: every committed row and
\* every uncommitted version satisfies them.
VersionsValid ==
    /\ \A id \in Ids : IsRow(table[id]) => Valid(table[id])
    /\ \A s \in Sessions : IsOpen(s) /\ IsRow(session[s].written) =>
           Valid(session[s].written)

\* An uncommitted version was made from the row that is committed now, not
\* from one that somebody else has replaced since: the lost-update hazard of
\* writing from a copy.
WritesFollow ==
    \A s \in Sessions :
        IsOpen(s) /\ IsRow(session[s].written) /\ IsRow(table[session[s].id]) =>
            Follows(table[session[s].id], session[s].written)

SessionInv == TypeOK /\ OneWriter /\ VersionsValid /\ WritesFollow

-----------------------------------------------------------------------------
(***************************************************************************)
(* The lemmas the table modules' theorems rest on: every                   *)
(* step of a session scope keeps SessionInv, and only a commit changes the *)
(* table, to a version that follows the committed one.                     *)
(***************************************************************************)

\* What the lemmas ask of the table: a row is neither None nor Deleted, and
\* Follows is a preorder.
RowLaws(rows) ==
    /\ None \notin rows /\ Deleted \notin rows /\ None # Deleted
    /\ \A a \in rows : Follows(a, a)
    /\ \A a, b, c \in rows : Follows(a, b) /\ Follows(b, c) => Follows(a, c)

\* What they ask of an update: whatever version the copy's changes are merged
\* into, a result that the constraints accept is a row that follows it.
UpdateFollows(s, new) ==
    \A row \in Row :
        LET merged == Merge(row, session[s].copy, new) IN
        Valid(row) /\ Valid(merged) => new \in Row /\ merged \in Row /\ Follows(row, merged)

-----------------------------------------------------------------------------
\* The three ways a step of s can leave its own entry: it closes the scope, it
\* opens it or replaces the copy, or it writes a version while no other scope
\* has one.  The first two keep the invariant whatever the copy is.
LEMMA CloseKeepsInv ==
    ASSUME SessionInv, NEW s \in Sessions, Close(s), UNCHANGED table
    PROVE  SessionInv'
BY DEF SessionInv, TypeOK, OneWriter, VersionsValid, WritesFollow, IsRow, Close, IsOpen, Locks

LEMMA ReadKeepsInv ==
    ASSUME SessionInv, NEW s \in Sessions, NEW id \in Ids,
           Load(s, id) \/ CheckAbsent(s, id)
    PROVE  SessionInv'
BY DEF SessionInv, TypeOK, OneWriter, VersionsValid, WritesFollow, IsRow, Load, CheckAbsent,
       SessionState, IsOpen, Locks

\* A write of version keeps it when s has the lock or may take it, and the
\* version is None, Deleted or a valid row that follows the committed one.
LEMMA WriteKeepsInv ==
    ASSUME SessionInv, NEW s \in Sessions, IsOpen(s),
           NEW copy \in Row \cup {None, Deleted}, NEW version \in Row \cup {None, Deleted},
           session' = [session EXCEPT ![s] = SessionState(@.id, copy, version)],
           UNCHANGED table,
           version # None => session[s].written # None \/ LockFree(s, session[s].id),
           IsRow(version) => Valid(version),
           IsRow(version) /\ IsRow(table[session[s].id]) =>
               Follows(table[session[s].id], version)
    PROVE  SessionInv'
<1>1. TypeOK'
  BY DEF SessionInv, TypeOK, SessionState, IsOpen
<1>2. OneWriter'
  BY DEF SessionInv, TypeOK, OneWriter, SessionState, IsOpen, Locks, LockFree
<1>3. VersionsValid'
  BY DEF SessionInv, TypeOK, VersionsValid, SessionState, IsOpen, IsRow
<1>4. WritesFollow'
  BY DEF SessionInv, TypeOK, WritesFollow, SessionState, IsOpen, IsRow
<1>5. QED
  BY <1>1, <1>2, <1>3, <1>4 DEF SessionInv

\* The row an UPDATE applies to, when there is one, is a valid row that
\* follows the committed one.
LEMMA CurrentFollows ==
    ASSUME SessionInv, RowLaws(Row), NEW s \in Sessions, IsOpen(s)
    PROVE  /\ Current(s) \in Row \cup {None}
           /\ Current(s) # None => Valid(Current(s))
           /\ Current(s) # None /\ table[session[s].id] # None =>
                  Follows(table[session[s].id], Current(s))
BY DEF SessionInv, TypeOK, VersionsValid, WritesFollow, RowLaws, IsRow, IsOpen, Current

LEMMA ReloadKeepsInv ==
    ASSUME SessionInv, RowLaws(Row), NEW s \in Sessions, Reload(s)
    PROVE  SessionInv'
<1>1. IsOpen(s) /\ session[s].written \in Row \cup {None, Deleted}
  BY DEF SessionInv, TypeOK, Reload, IsOpen
<1>2. Current(s) \in Row \cup {None, Deleted}
  BY <1>1, CurrentFollows
<1>3. /\ IsRow(session[s].written) => Valid(session[s].written)
      /\ IsRow(session[s].written) /\ IsRow(table[session[s].id]) =>
             Follows(table[session[s].id], session[s].written)
  BY <1>1 DEF SessionInv, VersionsValid, WritesFollow
<1>4. QED
  BY <1>1, <1>2, <1>3, WriteKeepsInv DEF Reload

LEMMA FlushInsertKeepsInv ==
    ASSUME SessionInv, RowLaws(Row), NEW s \in Sessions, NEW row \in Row, FlushInsert(s, row)
    PROVE  SessionInv'
<1>1. CASE table[session[s].id] = None /\ Valid(row)
  BY <1>1, WriteKeepsInv DEF FlushInsert, IsRow
<1>2. CASE ~(table[session[s].id] = None /\ Valid(row))
  BY <1>2, CloseKeepsInv DEF FlushInsert
<1>3. QED
  BY <1>1, <1>2

\* s may write its row only with the lock, or without a row to lock.
LEMMA MayWriteLocks ==
    ASSUME SessionInv, RowLaws(Row), NEW s \in Sessions, IsOpen(s),
           MayWrite(s, session[s].id), Current(s) # None
    PROVE  session[s].written # None \/ LockFree(s, session[s].id)
BY DEF MayWrite, Current

LEMMA FlushUpdateKeepsInv ==
    ASSUME SessionInv, RowLaws(Row), NEW s \in Sessions, NEW new, FlushUpdate(s, new),
           UpdateFollows(s, new)
    PROVE  SessionInv'
<1> DEFINE old == session[s].copy
           row == Merge(Current(s), old, new)
           accepted == Current(s) # None /\ Valid(row)
<1>1. IsOpen(s) /\ UNCHANGED table
  BY DEF FlushUpdate, HasCopy
<1>2. CASE Changed(old, new) = {} /\ UNCHANGED session
  BY <1>1, <1>2 DEF SessionInv, TypeOK, OneWriter, VersionsValid, WritesFollow, IsRow, IsOpen,
                    Locks
<1>3. CASE /\ MayWrite(s, session[s].id) /\ accepted
           /\ session' = [session EXCEPT ![s] = SessionState(@.id, new, row)]
  <2>1. /\ Current(s) \in Row /\ Valid(Current(s))
        /\ table[session[s].id] # None => Follows(table[session[s].id], Current(s))
    BY <1>1, <1>3, CurrentFollows
  <2>2. new \in Row /\ row \in Row /\ Follows(Current(s), row)
    BY <1>3, <2>1 DEF UpdateFollows
  <2>3. table[session[s].id] \in Row \cup {None}
    BY <1>1 DEF SessionInv, TypeOK, IsOpen
  <2>4. IsRow(table[session[s].id]) => Follows(table[session[s].id], row)
    BY <2>1, <2>2, <2>3 DEF RowLaws, IsRow
  <2>5. session[s].written # None \/ LockFree(s, session[s].id)
    BY <1>1, <1>3, MayWriteLocks
  <2>6. QED
    BY <1>1, <1>3, <2>2, <2>4, <2>5, WriteKeepsInv
<1>4. CASE Close(s)
  BY <1>1, <1>4, CloseKeepsInv
<1>5. QED
  BY <1>2, <1>3, <1>4 DEF FlushUpdate

LEMMA FlushOtherKeepsInv ==
    ASSUME SessionInv, RowLaws(Row), NEW s \in Sessions, FlushOther(s)
    PROVE  SessionInv'
<1>1. IsOpen(s) /\ MayWrite(s, session[s].id) /\ UNCHANGED table
  BY DEF FlushOther, HasCopy
<1>2. CASE Current(s) # None
  <2>1. /\ Current(s) \in Row /\ Valid(Current(s))
        /\ IsRow(table[session[s].id]) => Follows(table[session[s].id], Current(s))
    BY <1>1, <1>2, CurrentFollows DEF IsRow
  <2>2. session[s].copy \in Row \cup {None, Deleted}
    BY <1>1 DEF SessionInv, TypeOK, IsOpen
  <2>3. session[s].written # None \/ LockFree(s, session[s].id)
    BY <1>1, <1>2, MayWriteLocks
  <2>4. QED
    BY <1>1, <1>2, <2>1, <2>2, <2>3, WriteKeepsInv DEF FlushOther
<1>3. CASE Current(s) = None
  BY <1>1, <1>3, CloseKeepsInv DEF FlushOther
<1>4. QED
  BY <1>2, <1>3

LEMMA FlushDeleteKeepsInv ==
    ASSUME SessionInv, RowLaws(Row), NEW s \in Sessions, FlushDelete(s)
    PROVE  SessionInv'
<1>1. IsOpen(s) /\ MayWrite(s, session[s].id) /\ UNCHANGED table
  BY DEF FlushDelete, HasCopy
<1>2. CASE Current(s) = None
  <2>1. /\ session[s].written \in Row \cup {None, Deleted}
        /\ IsRow(session[s].written) => Valid(session[s].written)
        /\ IsRow(session[s].written) /\ IsRow(table[session[s].id]) =>
               Follows(table[session[s].id], session[s].written)
    BY <1>1 DEF SessionInv, TypeOK, VersionsValid, WritesFollow, IsOpen
  <2>2. session' = [session EXCEPT ![s] = SessionState(@.id, Deleted, @.written)]
    BY <1>2 DEF FlushDelete
  <2>3. QED
    BY <1>1, <2>1, <2>2, WriteKeepsInv
<1>3. CASE Current(s) # None
  <2>1. session[s].written # None \/ LockFree(s, session[s].id)
    BY <1>1, <1>3, MayWriteLocks
  <2>2. session' = [session EXCEPT ![s] = SessionState(@.id, Deleted, Deleted)]
    BY <1>3 DEF FlushDelete
  <2>3. QED
    BY <1>1, <2>1, <2>2, WriteKeepsInv DEF IsRow
<1>4. QED
  BY <1>2, <1>3

LEMMA RollbackKeepsInv ==
    ASSUME SessionInv, NEW s \in Sessions, Rollback(s)
    PROVE  SessionInv'
BY CloseKeepsInv DEF Rollback

\* A commit publishes the version of the scope that holds the lock; no other
\* scope has a version of that row to compare with the new one.
LEMMA CommitKeepsInv ==
    ASSUME SessionInv, RowLaws(Row), NEW s \in Sessions, Commit(s)
    PROVE  SessionInv'
<1> DEFINE id == session[s].id
<1>1. IsOpen(s) /\ id \in Ids /\ table[id] \in Row \cup {None}
  BY DEF SessionInv, TypeOK, Commit, IsOpen
<1>2. /\ Current(s) \in Row \cup {None}
      /\ Current(s) # None => Valid(Current(s))
      /\ Current(s) # None /\ table[id] # None => Follows(table[id], Current(s))
  BY <1>1, CurrentFollows
<1>3. CASE session[s].written = None
  BY <1>3, CloseKeepsInv DEF Commit
<1>4. CASE session[s].written # None
  <2>1. table' = [table EXCEPT ![id] = Current(s)]
    BY <1>4 DEF Commit
  <2>2. TypeOK'
    <3>1. table' \in [Ids -> Row \cup {None}]
      BY <1>2, <2>1 DEF SessionInv, TypeOK
    <3>2. QED
      BY <3>1 DEF SessionInv, TypeOK, Commit, Close
  <2>3. OneWriter'
    BY DEF SessionInv, TypeOK, OneWriter, Commit, Close, IsOpen, Locks
  <2>4. VersionsValid'
    <3>1. ASSUME NEW i \in Ids, IsRow(table'[i]) PROVE Valid(table'[i])
      BY <1>1, <1>2, <2>1, <3>1 DEF SessionInv, TypeOK, VersionsValid, IsRow
    <3>2. ASSUME NEW t \in Sessions, IsOpen(t)', IsRow(session'[t].written)
          PROVE  Valid(session'[t].written)
      BY <3>2 DEF SessionInv, TypeOK, VersionsValid, Commit, Close, IsOpen
    <3>3. QED
      BY <3>1, <3>2 DEF VersionsValid, IsRow
  <2>5. \A other \in Sessions \ {s} : ~Locks(other, id)
    BY <1>1, <1>4 DEF SessionInv, OneWriter, Locks
  <2>6. WritesFollow'
    BY <1>1, <2>1, <2>5 DEF SessionInv, TypeOK, WritesFollow, Commit, Close, IsOpen, IsRow, Locks
  <2>7. QED
    BY <2>2, <2>3, <2>4, <2>6 DEF SessionInv
<1>5. QED
  BY <1>3, <1>4

-----------------------------------------------------------------------------
\* A flush stores nothing: its version is in the scope until the commit.
LEMMA FlushStoresNothing ==
    ASSUME NEW s \in Sessions, NEW new, FlushUpdate(s, new)
    PROVE  UNCHANGED table
BY DEF FlushUpdate

\* The one row a commit changes is deleted, or stored as a valid row that
\* follows the one that was there.
LEMMA CommitFollows ==
    ASSUME SessionInv, RowLaws(Row), NEW s \in Sessions, Commit(s)
    PROVE  \/ UNCHANGED table
           \/ \E id \in Ids, row \in Row \cup {None} :
                  /\ table' = [table EXCEPT ![id] = row]
                  /\ row # None => Valid(row)
                  /\ row # None /\ table[id] # None => Follows(table[id], row)
<1> DEFINE id == session[s].id
<1>1. IsOpen(s) /\ id \in Ids
  BY DEF SessionInv, TypeOK, Commit, IsOpen
<1>2. /\ Current(s) \in Row \cup {None}
      /\ Current(s) # None => Valid(Current(s))
      /\ Current(s) # None /\ table[id] # None => Follows(table[id], Current(s))
  BY <1>1, CurrentFollows
<1>3. table' = table \/ table' = [table EXCEPT ![id] = Current(s)]
  BY DEF Commit
<1>4. QED
  BY <1>1, <1>2, <1>3
===============================================================================
