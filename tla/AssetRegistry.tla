--------------------------- MODULE AssetRegistry ----------------------------
(***************************************************************************)
(* Plants, equipment and what refers to them: the foreign keys of the      *)
(* schema, the plant and equipment services, and the bulk loaders of       *)
(* telemetry.  Sessions run one service call or one load per transaction;  *)
(* what a session has flushed is its draft until it commits.               *)
(***************************************************************************)
EXTENDS Naturals, Sequences, FiniteSets, Functions

CONSTANTS
    Ids,        \* the keys of all tables
    Candidates, \* Candidates[id]: the rows a caller may create with this key
    Loads,      \* sequences of keys: records given to a bulk loader
    BatchSize,
    Sessions,
    None

VARIABLES
    rows,       \* committed: key -> row or None
    session     \* session -> what it does, its draft, the batches to come

vars == <<rows, session>>

\* Mutant: alarms are deleted with their equipment.
OnDeleteCascades ==
    [equipment       |-> [plant |-> "restrict", parent |-> "set null"],
     scada           |-> [plant |-> "restrict", equipment |-> "cascade"],
     alarms          |-> [plant |-> "restrict", equipment |-> "cascade"],
     incidents       |-> [plant |-> "restrict", equipment |-> "restrict", alarm |-> "set null"]]

\* What happens to a row when the row it refers to is deleted.
OnDelete ==
    [equipment       |-> [plant |-> "restrict", parent |-> "set null"],
     tariffs         |-> [plant |-> "restrict"],
     budgets         |-> [plant |-> "restrict"],
     weather         |-> [plant |-> "restrict"],
     scada           |-> [plant |-> "restrict", equipment |-> "cascade"],
     ground_truth    |-> [plant |-> "restrict", equipment |-> "set null"],
     alarms          |-> [plant |-> "restrict", equipment |-> "restrict"],
     incidents       |-> [plant |-> "restrict", equipment |-> "restrict", alarm |-> "set null"],
     work_orders     |-> [plant |-> "restrict", equipment |-> "restrict",
                          incident |-> "set null"]]

\* The keys of a table.
KeysOf(table) == {id \in Ids : \E row \in Candidates[id] : row.table = table}

Idle == [op |-> None, target |-> None, draft |-> <<>>, queue |-> <<>>, load |-> <<>>]

-----------------------------------------------------------------------------
\* The version of a row session s reads: its own, or the committed one.
Version(s, id) == IF id \in DOMAIN session[s].draft THEN session[s].draft[id] ELSE rows[id]

\* The fields in which row refers to id.
RefersBy(row, id) == IF row = None THEN {} ELSE {f \in DOMAIN row.refs : row.refs[f] = id}

Rule(row, f) == OnDelete[row.table][f]

\* The rows a deletion of id touches, as s sees them.
Referrers(s, id) == {x \in Ids : RefersBy(Version(s, x), id) # {}}

\* Another session has an uncommitted version of id, or of a row with its
\* serial number: a statement that needs the row waits.
Held(s, id) == \E o \in Sessions \ {s} : id \in DOMAIN session[o].draft

\* Another session's uncommitted row refers to id and keeps it.
Kept(s, id) ==
    \E o \in Sessions \ {s} : \E x \in DOMAIN session[o].draft :
        RefersBy(session[o].draft[x], id) # {}

SameSerial(row, other) ==
    row # None /\ other # None /\ row.serial # None /\ row.serial = other.serial

Doing(op, target, draft) ==
    [op |-> op, target |-> target, draft |-> draft, queue |-> <<>>, load |-> <<>>]

Begin(s, op, target, draft) ==
    session' = [session EXCEPT ![s] = Doing(op, target, draft)]

Rollback(s) == session' = [session EXCEPT ![s] = Idle] /\ UNCHANGED rows

-----------------------------------------------------------------------------
\* An INSERT waits for versions other sessions hold of its key, its serial
\* number and the rows it refers to, ...
InsertWaits(s, id, row) ==
    \/ Held(s, id)
    \/ \E o \in Sessions \ {s} : \E x \in DOMAIN session[o].draft :
           SameSerial(row, session[o].draft[x])
    \/ \E f \in DOMAIN row.refs : row.refs[f] # None /\ Held(s, row.refs[f])

\* ... and succeeds when key and serial number are new and the rows exist.
InsertSucceeds(s, id, row) ==
    /\ Version(s, id) = None
    /\ \A x \in Ids : ~SameSerial(row, Version(s, x))
    /\ \A f \in DOMAIN row.refs : row.refs[f] = None \/ Version(s, row.refs[f]) # None

\* create: the check that the key is new, and the insert with its flush.
Create(s, id, row) ==
    /\ session[s] = Idle
    /\ ~InsertWaits(s, id, row)
    /\ IF InsertSucceeds(s, id, row)
       THEN Begin(s, "create", id, [x \in {id} |-> row]) /\ UNCHANGED rows
       ELSE Rollback(s)

\* update: the columns that are given; the references are not among them.
Update(s, id, status) ==
    /\ session[s] = Idle
    /\ rows[id] # None /\ ~Held(s, id)
    /\ Begin(s, "update", id, [x \in {id} |-> [rows[id] EXCEPT !.status = status]])
    /\ UNCHANGED rows

\* Mutant: references to a deleted row are left as they are.
AfterDeleteDangling(row, id) ==
    IF \E f \in RefersBy(row, id) : Rule(row, f) = "cascade" THEN None ELSE row

\* What DELETE makes of a row that refers to id.
AfterDelete(row, id) ==
    IF \E f \in RefersBy(row, id) : Rule(row, f) = "cascade" THEN None
    ELSE [row EXCEPT !.refs =
             [f \in DOMAIN row.refs |-> IF row.refs[f] = id THEN None ELSE row.refs[f]]]

\* delete: refused while a restricting reference exists.
Delete(s, id) ==
    /\ session[s] = Idle
    /\ rows[id] # None
    /\ ~Held(s, id) /\ ~Kept(s, id) /\ \A x \in Referrers(s, id) : ~Held(s, x)
    /\ IF \E x \in Referrers(s, id) : \E f \in RefersBy(rows[x], id) :
              Rule(rows[x], f) = "restrict"
       THEN Rollback(s)
       ELSE /\ Begin(s, "delete", id,
                     [x \in {id} \cup Referrers(s, id) |->
                          IF x = id THEN None ELSE AfterDelete(rows[x], id)])
            /\ UNCHANGED rows

-----------------------------------------------------------------------------
\* The part of a load that is flushed, and the keys to come.
Loading(load, draft, queue) ==
    [op |-> "load", target |-> None, draft |-> draft, queue |-> queue, load |-> load]

\* A load (of SCADA or of weather rows) is refused as a whole when a record
\* lacks a column or has no proper timestamp; Candidates[id] is empty for such
\* a record.
StartLoad(s, load) ==
    /\ session[s] = Idle /\ load # <<>>
    /\ \A id \in Range(load) : Candidates[id] # {}
    /\ session' = [session EXCEPT ![s] = Loading(load, <<>>, load)]
    /\ UNCHANGED rows

\* One batch, one INSERT: a record that is refused takes the whole load along.
LoadBatch(s) ==
    LET queue == session[s].queue
        size  == IF Len(queue) < BatchSize THEN Len(queue) ELSE BatchSize
        batch == SubSeq(queue, 1, size)
        Row(id) == CHOOSE row \in Candidates[id] : TRUE IN
    /\ queue # <<>>
    /\ \A id \in Range(batch) : ~InsertWaits(s, id, Row(id))
    /\ IF IsInjective(batch) /\ \A id \in Range(batch) : InsertSucceeds(s, id, Row(id))
       THEN session' = [session EXCEPT ![s] = Loading(session[s].load,
                [x \in DOMAIN session[s].draft \cup Range(batch) |->
                    IF x \in Range(batch) THEN Row(x) ELSE session[s].draft[x]],
                SubSeq(queue, size + 1, Len(queue)))]
            /\ UNCHANGED rows
       ELSE Rollback(s)

\* Mutant: a load is committed batch by batch.
CommitEarly(s) ==
    /\ session[s].op # None /\ session[s].draft # <<>>
    /\ rows' = [id \in Ids |-> Version(s, id)]
    /\ session' = [session EXCEPT ![s] = Idle]

Commit(s) ==
    /\ session[s].op # None /\ session[s].queue = <<>>
    /\ rows' = [id \in Ids |-> Version(s, id)]
    /\ session' = [session EXCEPT ![s] = Idle]

\* The block of session_scope raises after the flush, or the process dies.
Abort(s) == session[s].op # None /\ Rollback(s)

-----------------------------------------------------------------------------
Init == rows = [id \in Ids |-> None] /\ session = [s \in Sessions |-> Idle]

\* A caller of one of the services; the three operational ones share create
\* and delete here, their updates are in AlarmTable and its siblings.
PlantService(s) ==
    \E id \in KeysOf("plants") :
        \/ \E row \in Candidates[id] : Create(s, id, row)
        \/ Update(s, id, "decommissioned")
        \/ Delete(s, id)

EquipmentService(s) ==
    \E id \in KeysOf("equipment") :
        \/ \E row \in Candidates[id] : Create(s, id, row)
        \/ Update(s, id, "decommissioned")
        \/ Delete(s, id)

OperationalService(s) ==
    \E id \in KeysOf("alarms") \cup KeysOf("incidents") \cup KeysOf("work_orders") :
        \/ \E row \in Candidates[id] : Create(s, id, row)
        \/ Delete(s, id)

Next ==
    \E s \in Sessions :
        \/ PlantService(s) \/ EquipmentService(s) \/ OperationalService(s)
        \/ \E load \in Loads : StartLoad(s, load)
        \/ LoadBatch(s) \/ Commit(s) \/ Abort(s)

Spec == Init /\ [][Next]_vars

-----------------------------------------------------------------------------
\* A session has a draft or batches to come only while it does something.
TypeOK ==
    /\ \A id \in Ids : rows[id] # None =>
           \E c \in Candidates[id] : rows[id].table = c.table /\ rows[id].serial = c.serial
    /\ \A s \in Sessions :
           /\ session[s].op \in {None, "create", "update", "delete", "load"}
           /\ session[s].op = None => session[s] = Idle
           /\ session[s].queue # <<>> => session[s].op = "load"

\* Every committed reference leads to a committed row, whatever creations,
\* deletions and loads ran into each other.
ReferencesResolve ==
    \A id \in Ids : rows[id] # None =>
        \A f \in DOMAIN rows[id].refs :
            rows[id].refs[f] # None => rows[rows[id].refs[f]] # None

\* No equipment is its own ancestor, also when a deleted parent comes back as
\* a child: among any equipment there is one whose parent is not among it.
HierarchyIsAcyclic ==
    \A group \in SUBSET {id \in Ids : rows[id] # None /\ rows[id].table = "equipment"} :
        group # {} => \E e \in group : rows[e].refs.parent \notin group

\* A step: a row vanishes because a caller deleted it, or as telemetry of deleted
\* equipment; the others keep the plant and the equipment they were about.
HistoryOutlivesAssets ==
    \A id \in Ids : rows[id] # None =>
        LET deleted == \E s \in Sessions : session[s].op = "delete" /\ session[s].target = id IN
        /\ rows'[id] = None => deleted \/ rows[id].table = "scada"
        /\ rows[id].table \in {"alarms", "incidents", "work_orders"} /\ rows'[id] # None =>
               \A f \in {"plant", "equipment"} : rows'[id].refs[f] = rows[id].refs[f]

\* A step: of a bulk load all records become visible together, or none.
LoadsAreAtomic ==
    \A s \in Sessions : session[s].op = "load" /\ rows' # rows /\ session'[s] = Idle =>
        \A id \in Range(session[s].load) : rows[id] = None /\ rows'[id] # None
-----------------------------------------------------------------------------
(* The inductive invariant.  First the rows: those a caller may create, in *)
(* which later the status changes and references are set to NULL.          *)

Nulled(refs) ==
    {r \in [DOMAIN refs -> {refs[f] : f \in DOMAIN refs} \cup {None}] :
        \A f \in DOMAIN refs : r[f] \in {refs[f], None}}

Versions(id) ==
    UNION {[table : {c.table}, serial : {c.serial}, status : {c.status, "decommissioned"},
            refs : Nulled(c.refs)] : c \in Candidates[id]}

\* The table a reference leads to.
LeadsTo ==
    [plant |-> "plants", equipment |-> "equipment", parent |-> "equipment",
     alarm |-> "alarms", incident |-> "incidents"]

Telemetry == {"scada", "weather"}

\* Keys are those of one table, whose rows have the references of its foreign
\* keys; a bulk load is one of telemetry.
CandidatesFit ==
    \A id \in Ids :
        /\ None \notin Versions(id)
        /\ \A c \in Candidates[id] :
               /\ c \in Versions(id)
               /\ \A d \in Candidates[id] : d.table = c.table
               /\ DOMAIN c.refs = IF c.table = "plants" THEN {} ELSE DOMAIN OnDelete[c.table]
               /\ c.table \in {"plants"} \cup DOMAIN OnDelete
               /\ \A f \in DOMAIN c.refs : c.refs[f] # None =>
                      /\ c.refs[f] \in Ids
                      /\ \A d \in Candidates[c.refs[f]] : d.table = LeadsTo[f]

LoadsFit ==
    \A load \in Loads :
        /\ load \in Seq(Ids)
        /\ \A id \in Range(load) : \A c \in Candidates[id] : c.table \in Telemetry

RowsInv ==
    /\ rows = [id \in Ids |-> rows[id]]
    /\ \A id \in Ids : rows[id] # None => rows[id] \in Versions(id)

\* What a session does, with the rows it has drafted and the keys to come.
IsSession(r) ==
    /\ r = [op |-> r.op, target |-> r.target, draft |-> r.draft,
            queue |-> r.queue, load |-> r.load]
    /\ r.op \in {None, "create", "update", "delete", "load"}
    /\ DOMAIN r.draft \subseteq Ids
    /\ \A x \in DOMAIN r.draft : r.draft[x] \in Versions(x) \cup {None}
    /\ r.queue \in Seq(Ids) /\ r.load \in Seq(Ids)

SessionType ==
    session = [s \in Sessions |-> session[s]] /\ \A s \in Sessions : IsSession(session[s])

\* What the draft of session s has to do with the committed rows: a creation
\* drafts a new row that does not refer to itself, ...
CreateInv(s) ==
    LET target == session[s].target
        draft == session[s].draft IN
    /\ target \in Ids /\ DOMAIN draft = {target}
    /\ rows[target] = None /\ draft[target] \in Candidates[target]
    /\ \A f \in DOMAIN draft[target].refs : draft[target].refs[f] # target

\* ... an update the row with another status, ...
UpdateInv(s) ==
    LET target == session[s].target
        draft == session[s].draft IN
    /\ target \in Ids /\ DOMAIN draft = {target}
    /\ rows[target] # None
    /\ draft[target] = [rows[target] EXCEPT !.status = "decommissioned"]

\* ... a deletion the end of its target and what becomes of all rows that
\* refer to it, none of which restricts it, ...
Touched(s) == {x \in Ids : RefersBy(rows[x], session[s].target) # {}}

DeleteInv(s) ==
    LET target == session[s].target
        draft == session[s].draft IN
    /\ target \in Ids /\ DOMAIN draft = {target} \cup Touched(s)
    /\ rows[target] # None /\ draft[target] = None
    /\ \A x \in Touched(s) :
           /\ x # target => draft[x] = AfterDelete(rows[x], target)
           /\ \A f \in RefersBy(rows[x], target) : Rule(rows[x], f) # "restrict"

\* ... and a load new telemetry, the rest of which is still to come.
LoadInv(s) ==
    LET draft == session[s].draft IN
    /\ Range(session[s].load) = DOMAIN draft \cup Range(session[s].queue)
    /\ \A x \in DOMAIN draft : rows[x] = None /\ draft[x] \in Candidates[x]
    /\ \A x \in Range(session[s].load) :
           Candidates[x] # {} /\ \A c \in Candidates[x] : c.table \in Telemetry

DraftInv(s) ==
    /\ session[s].op = None => session[s] = Idle
    /\ session[s].op # "load" => session[s].queue = <<>>
    /\ session[s].op = "create" => CreateInv(s)
    /\ session[s].op = "update" => UpdateInv(s)
    /\ session[s].op = "delete" => DeleteInv(s)
    /\ session[s].op = "load" => LoadInv(s)

\* No two sessions hold a row, ...
LocksInv ==
    \A s, o \in Sessions : s # o => DOMAIN session[s].draft \cap DOMAIN session[o].draft = {}

\* ... and what a draft refers to is there and stays, whoever commits next.
KeptInv(s) ==
    LET draft == session[s].draft IN
    \A x \in DOMAIN draft : draft[x] # None =>
        \A f \in DOMAIN draft[x].refs :
            LET y == draft[x].refs[f] IN
            y # None =>
                /\ Version(s, y) # None
                /\ \A o \in Sessions \ {s} :
                       y \in DOMAIN session[o].draft => session[o].draft[y] # None

RegistryInv ==
    /\ RowsInv /\ SessionType /\ LocksInv
    /\ \A s \in Sessions : DraftInv(s) /\ KeptInv(s)
    /\ ReferencesResolve /\ HierarchyIsAcyclic
=============================================================================
