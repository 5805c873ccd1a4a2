---------------------------- MODULE StoredRuns ------------------------------
(***************************************************************************)
(* Stored forecasts and anomaly runs, and a client of the HTTP API that    *)
(* pages through them.  A store writes or deletes a run and its values in  *)
(* one transaction; a request reads them with several statements, each of  *)
(* which sees what is committed when it runs, and the pages of a listing   *)
(* are requests of their own.                                              *)
(***************************************************************************)
EXTENDS Naturals, Sequences, FiniteSets, Functions

CONSTANTS
    Runs,           \* the identifiers uuid4 gives to runs
    Frames,         \* result frames: sequences of <<timestamp, is_anomaly>>
    MaxGenerated,   \* generated_at of a run: 1..MaxGenerated
    Limit,          \* of a page
    Horizon,        \* values of a forecast that are wanted
    None

VARIABLES
    runs,           \* forecast_runs, anomaly_runs: identifier -> metadata or None
    values,         \* forecast_values, anomaly_values: rows
    client          \* the client and the request it is in

vars == <<runs, values, client>>

Stored == {r \in Runs : runs[r] # None}

Flagged(frame) == {k \in DOMAIN frame : frame[k][2]}

Metadata(frame, generated_at) ==
    [generated_at |-> generated_at, row_count |-> Len(frame),
     anomaly_count |-> Cardinality(Flagged(frame))]

Rows(r, frame) == {[run |-> r, at |-> frame[k][1], flagged |-> frame[k][2]] : k \in DOMAIN frame}

RowsOf(r) == {v \in values : v.run = r}

Earlier(v, rows) == {w \in rows : w.at < v.at}

\* The first Horizon values of a run in the order of their timestamps.
FirstValues(rows) == {v \in rows : Cardinality(Earlier(v, rows)) < Horizon}

-----------------------------------------------------------------------------
\* save: refused by the validation (no rows) or by the primary key of the
\* values (a timestamp twice), it leaves nothing behind.
Save(r, frame, generated_at) ==
    /\ runs[r] = None /\ client.used \cap {r} = {}
    /\ frame # <<>> /\ IsInjective([k \in DOMAIN frame |-> frame[k][1]])
    /\ runs' = [runs EXCEPT ![r] = Metadata(frame, generated_at)]
    /\ values' = values \cup Rows(r, frame)
    /\ client' = [client EXCEPT !.used = @ \cup {r},
           !.disturbed = @ \/ \E old \in Stored : runs[old].generated_at >= generated_at]

\* Mutant: the values stay behind.
DeleteRunOnly(r) ==
    /\ runs[r] # None
    /\ runs' = [runs EXCEPT ![r] = None]
    /\ client' = [client EXCEPT !.disturbed = TRUE]
    /\ UNCHANGED values

\* delete: the values, then the run, in one transaction.
Delete(r) ==
    /\ runs[r] # None
    /\ runs' = [runs EXCEPT ![r] = None]
    /\ values' = values \ RowsOf(r)
    /\ client' = [client EXCEPT !.disturbed = TRUE]

-----------------------------------------------------------------------------
NewClient ==
    [stage |-> "idle", used |-> {}, offset |-> 0, before |-> {}, disturbed |-> FALSE,
     seen |-> {}, total |-> 0, todo |-> <<>>, items |-> <<>>]

\* The orders "generated_at DESC" allows: ties come in any order.
Listings(S) ==
    {o \in [1..Cardinality(S) -> S] :
        /\ IsInjective(o)
        /\ \A i, j \in DOMAIN o : i < j => runs[o[i]].generated_at >= runs[o[j]].generated_at}

\* list_forecasts, first statement: how many there are.
CountRuns ==
    /\ client.stage \in {"idle", "paging"}
    /\ client' = [client EXCEPT !.stage = "counted", !.total = Cardinality(Stored),
           !.items = <<>>,
           !.before = IF client.stage = "idle" THEN Stored ELSE @,
           !.disturbed = IF client.stage = "idle"
                         THEN \E r, q \in Stored : r # q /\ runs[r].generated_at = runs[q].generated_at
                         ELSE @]
    /\ UNCHANGED <<runs, values>>

\* Second statement: the metadata of one page.
SelectPage ==
    /\ client.stage = "counted"
    /\ \E o \in Listings(Stored) :
           LET last == client.offset + Limit
               page == SubSeq(o, client.offset + 1, IF last < Len(o) THEN last ELSE Len(o)) IN
           client' = [client EXCEPT !.stage = "selected",
               !.todo = [k \in DOMAIN page |-> [run |-> page[k], metadata |-> runs[page[k]]]]]
    /\ UNCHANGED <<runs, values>>

\* One more statement for each of them: its values.
SelectValues ==
    /\ client.stage = "selected" /\ client.todo # <<>>
    /\ LET next == Head(client.todo) IN
       client' = [client EXCEPT !.todo = Tail(@),
           !.seen = @ \cup {next.run},
           !.items = Append(@, [run |-> next.run, metadata |-> next.metadata,
                                values |-> FirstValues(RowsOf(next.run))])]
    /\ UNCHANGED <<runs, values>>

\* The response; the client asks for the next page until one is not full.
Respond ==
    /\ client.stage = "selected" /\ client.todo = <<>>
    /\ client' = [client EXCEPT
           !.stage = IF Len(client.items) < Limit THEN "done" ELSE "paging",
           !.offset = @ + Limit]
    /\ UNCHANGED <<runs, values>>

-----------------------------------------------------------------------------
Init == runs = [r \in Runs |-> None] /\ values = {} /\ client = NewClient

Next ==
    \/ \E r \in Runs, frame \in Frames, at \in 1..MaxGenerated : Save(r, frame, at)
    \/ \E r \in Runs : Delete(r)
    \/ CountRuns \/ SelectPage \/ SelectValues \/ Respond

Spec == Init /\ [][Next]_vars

-----------------------------------------------------------------------------
TypeOK ==
    /\ \A r \in Stored : runs[r].generated_at \in 1..MaxGenerated
    /\ client.stage \in {"idle", "counted", "selected", "paging", "done"}
    /\ client.seen \subseteq client.used /\ client.before \subseteq client.used

\* A run is stored with exactly the values its metadata counts, and values
\* are never stored without their run.
StoredIsWhole ==
    /\ \A r \in Stored :
           /\ Cardinality(RowsOf(r)) = runs[r].row_count
           /\ Cardinality({v \in RowsOf(r) : v.flagged}) = runs[r].anomaly_count
    /\ \A v \in values : v.run \in Stored

\* A forecast in a response has all the values that are wanted of it, or,
\* when it was deleted while the request was being answered, none at all.
ForecastsAreWhole ==
    \A k \in DOMAIN client.items :
        LET item == client.items[k]
            wanted == IF item.metadata.row_count < Horizon THEN item.metadata.row_count
                      ELSE Horizon IN
        \/ Cardinality(item.values) = wanted
        \/ item.values = {} /\ runs[item.run] = None

\* A client that reads page after page misses no run that was there when it
\* began, although new runs push the old ones back between its requests - as
\* long as runs differ in generated_at, new ones are the newest, and nothing
\* is deleted meanwhile.
NothingIsMissed ==
    client.stage = "done" /\ ~client.disturbed => client.before \subseteq client.seen
-----------------------------------------------------------------------------
(* The inductive invariant.                                                *)

FramesFit == \A frame \in Frames : frame \in Seq(Nat \X BOOLEAN)

RunMetadata == [generated_at : 1..MaxGenerated, row_count : Nat, anomaly_count : Nat]

RunValue == [run : Runs, at : Nat, flagged : BOOLEAN]

Client ==
    [stage : {"idle", "counted", "selected", "paging", "done"}, used : SUBSET Runs,
     offset : Nat, before : SUBSET Runs, disturbed : BOOLEAN, seen : SUBSET Runs, total : Nat,
     todo : Seq([run : Runs, metadata : RunMetadata]),
     items : Seq([run : Runs, metadata : RunMetadata, values : SUBSET RunValue])]

\* What is stored of a run came from one frame.
StoredInv ==
    /\ runs \in [Runs -> RunMetadata \cup {None}] /\ values \subseteq RunValue
    /\ \A v \in values : v.run \in Stored
    /\ \A r \in Stored : \E frame \in Frames, at \in 1..MaxGenerated :
           /\ IsInjective([k \in DOMAIN frame |-> frame[k][1]])
           /\ runs[r] = Metadata(frame, at) /\ RowsOf(r) = Rows(r, frame)

\* A request speaks of runs that are stored as they were, or deleted for good.
RequestInv ==
    /\ client \in Client
    /\ IsFiniteSet(client.used) /\ Stored \subseteq client.used
    /\ client.seen \subseteq client.used /\ client.before \subseteq client.used
    /\ \A k \in DOMAIN client.todo :
           /\ client.todo[k].run \in client.used
           /\ runs[client.todo[k].run] \in {None, client.todo[k].metadata}
    /\ \A k \in DOMAIN client.items : client.items[k].run \in client.used
    /\ ForecastsAreWhole

\* The runs a listing shows before r, and those of the page still to be read.
Newer(r) == {q \in Stored : runs[q].generated_at > runs[r].generated_at}

Pending == {client.todo[k].run : k \in DOMAIN client.todo}

\* Up to the page it reads the client has seen the old runs; what is new moves
\* them to later pages only.
PagingInv ==
    /\ client.stage = "idle" => client.offset = 0 /\ client.seen = {}
    /\ client.stage = "counted" => client.items = <<>>
    /\ client.stage # "idle" /\ ~client.disturbed =>
           /\ client.before \subseteq Stored
           /\ \A r, q \in Stored : r # q => runs[r].generated_at # runs[q].generated_at
    /\ client.stage \in {"counted", "paging"} /\ ~client.disturbed =>
           \A r \in client.before :
               Cardinality(Newer(r)) < client.offset => r \in client.seen
    /\ client.stage = "selected" /\ ~client.disturbed =>
           /\ \A r \in client.before : Cardinality(Newer(r)) < client.offset + Limit =>
                  r \in client.seen \cup Pending
           /\ Len(client.items) + Len(client.todo) < Limit =>
                  client.before \subseteq client.seen \cup Pending
    /\ NothingIsMissed

RunsInv == StoredInv /\ RequestInv /\ PagingInv
=============================================================================
