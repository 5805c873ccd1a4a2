----------------------------- MODULE EtlPipeline ------------------------------
(***************************************************************************)
(* eoip.etl.pipeline.ETLPipeline.run and the caller that feeds it.         *)
(*                                                                         *)
(* run takes frames that were read already and the checkpoints the caller  *)
(* kept, and takes the datasets in the order of their names (1 .. DatasetCount)*)
(* through validation, cleaning, transformation and incremental            *)
(* processing.  Its audit log, its lineage and its results are local: they *)
(* leave run only when every dataset went through.  An exception is        *)
(* audited as the run's and raised again, and audited as its stage's if it *)
(* comes from the stage itself, and not from what is done before or after. *)
(*                                                                         *)
(* The caller is not part of the package (the tests and its users play     *)
(* it): it reads the whole source, runs the pipeline, stores each output   *)
(* frame by business key, then keeps the checkpoint.  It may crash between *)
(* any two steps, and source rows arrive at any time.                      *)
(***************************************************************************)
EXTENDS Integers, FiniteSets, Sequences

(***************************************************************************)
(* What one pass of the ETL pipeline does to the rows of one dataset:      *)
(* eoip.etl.cleaning, eoip.etl.transformation and eoip.etl.incremental.    *)
(*                                                                         *)
(* A frame is a set of rows.  A row has its business key, its watermark    *)
(* (`time`) and its place in the frame (`pos`, the number of the batch it  *)
(* arrived in: a batch holds one row per key, so rows of one key never     *)
(* share a place).  The other columns are left out: cleaning rewrites them *)
(* without adding or dropping a row.                                       *)
(***************************************************************************)
CONSTANTS Keys,        \* business keys
          MaxTime,     \* bound on watermark values
          MaxBatches,  \* bound on the batches of one dataset
          None,        \* no watermark yet, no row yet
          LoadMode,    \* ETLConfig.load_mode
          Inclusive,   \* IncrementalConfig.inclusive_watermark
          PrimaryKey,  \* IncrementalConfig.primary_key and drop_duplicate_keys
          SortBy,      \* CleaningConfig or TransformationConfig sort by the watermark
          KeepFirst    \* TransformationConfig.drop_duplicate_keys

Times == 0 .. MaxTime

ASSUME RowConstants ==
  /\ MaxTime \in Nat /\ MaxBatches \in Nat
  /\ None \notin Times
  /\ LoadMode \in {"full", "incremental"}
  /\ Inclusive \in BOOLEAN /\ PrimaryKey \in BOOLEAN
  /\ SortBy \in BOOLEAN /\ KeepFirst \in BOOLEAN

Row == [key : Keys, time : Times, pos : 1 .. MaxBatches]

ASSUME NoneIsNoRow == None \notin Row
ASSUME FiniteKeys == IsFiniteSet(Keys)

\* A checkpoint; a dataset that was never loaded has none, which process
\* treats as one without watermark and with no rows processed.
DatasetCheckpoint == [watermark : Times \union {None}, processed : Nat]
NoCheckpoint == [watermark |-> None, processed |-> 0]

\* The order of rows in the frame that reaches drop_duplicates.
Precedes(r, q) ==
  IF SortBy THEN r.time < q.time \/ (r.time = q.time /\ r.pos < q.pos)
            ELSE r.pos < q.pos

FirstOfKey(rows) ==
  {r \in rows : \A q \in rows : q.key = r.key /\ q # r => Precedes(r, q)}
LastOfKey(rows) ==
  {r \in rows : \A q \in rows : q.key = r.key /\ q # r => Precedes(q, r)}

\* The transformation keeps the first row of each business key.
TransformDuplicates(rows) == IF KeepFirst THEN FirstOfKey(rows) ELSE rows

\* Slips: the comparison the other way round, or always inclusive.
IsNewerReversed(r, watermark) == r.time < watermark
IsNewerInclusive(r, watermark) == r.time >= watermark

\* Rows the watermark lets through.
IsNewer(r, watermark) ==
  IF Inclusive THEN r.time >= watermark ELSE r.time > watermark

Select(rows, watermark) ==
  IF LoadMode = "full" \/ watermark = None
    THEN rows
    ELSE {r \in rows : IsNewer(r, watermark)}

\* A slip: pandas' default, keep="first".
DeduplicateFirst(rows) == IF PrimaryKey THEN FirstOfKey(rows) ELSE rows

\* Incremental processing keeps the last row of each key.
Deduplicate(rows) == IF PrimaryKey THEN LastOfKey(rows) ELSE rows

Output(rows, watermark) == Deduplicate(Select(rows, watermark))

\* A slip: an empty selection has no watermark.
MaximumWatermarkNoFallback(rows, fallback) ==
  IF rows = {} THEN None
  ELSE CHOOSE t \in {r.time : r \in rows} : \A r \in rows : r.time <= t

MaximumWatermark(rows, fallback) ==
  IF rows = {} THEN fallback
  ELSE CHOOSE t \in {r.time : r \in rows} : \A r \in rows : r.time <= t

\* IncrementalProcessor.process: the rows to load and the next checkpoint.
Process(rows, checkpoint) ==
  LET output == Output(rows, checkpoint.watermark)
  IN  [frame |-> output,
       checkpoint |->
         [watermark |-> MaximumWatermark(output, checkpoint.watermark),
          processed |-> checkpoint.processed + Cardinality(output)]]

\* The caller stores the output frame (sorted by watermark) by business key:
\* the last row of a key is the one that stays.
Upsert(table, rows) ==
  [k \in Keys |->
     LET ofKey == {r \in rows : r.key = k}
         last  == {r \in ofKey : \A q \in ofKey :
                     q.time < r.time \/ (q.time = r.time /\ q.pos <= r.pos)}
     IN  IF ofKey = {} THEN table[k] ELSE CHOOSE r \in last : TRUE]

-----------------------------------------------------------------------------
(* The pipeline and its caller.                                           *)

CONSTANTS DatasetCount,   \* number of configured datasets
          MaxProcessed,   \* bound: no run starts past this many processed rows
          LateRows        \* may rows arrive behind rows already there?

ASSUME EtlConstants ==
  /\ DatasetCount \in Nat \ {0}
  /\ MaxProcessed \in Nat
  /\ LateRows \in BOOLEAN

Datasets == 1 .. DatasetCount
Stages == <<"validation", "cleaning", "transformation", "incremental">>

VARIABLES source,    \* the rows each dataset's source holds
          batches,   \* how many batches each source received
          store,     \* the checkpoints the caller keeps
          sink,      \* the loaded row of each business key
          phase,     \* of the run: idle, running, returned or raised
          at,        \* the dataset the run is at
          stage,     \* and its stage (an index of Stages)
          frames,    \* the frames given to run
          given,     \* the checkpoints given to run
          frame,     \* the working frame of the dataset at hand
          passed,    \* whether it met its contract: reported, and never looked at
          results,   \* what run will return
          delivered, \* datasets whose output the caller stored
          saved,     \* and whose checkpoint it kept
          audit,     \* the run's audit events
          lineage    \* and lineage records

callerVars == <<store, sink, delivered, saved>>
runVars == <<phase, at, stage, frames, given, frame, passed, results, audit, lineage>>
sourceVars == <<source, batches>>
vars == <<sourceVars, callerVars, runVars>>

Result == [passed : BOOLEAN, frame : SUBSET Row, checkpoint : DatasetCheckpoint]
NoResult == [passed |-> FALSE, frame |-> {}, checkpoint |-> NoCheckpoint]

AuditEvent ==
  [stage : {"pipeline"} \union {Stages[n] : n \in DOMAIN Stages},
   status : {"started", "succeeded", "failed"},
   dataset : Datasets \union {0}]
LineageRecord ==
  [stage : {Stages[n] : n \in DOMAIN Stages}, dataset : Datasets]

TypeOK ==
  /\ source \in [Datasets -> SUBSET Row]
  /\ batches \in [Datasets -> 0 .. MaxBatches]
  /\ store \in [Datasets -> DatasetCheckpoint]
  /\ sink \in [Datasets -> [Keys -> Row \union {None}]]
  /\ phase \in {"idle", "running", "returned", "raised"}
  /\ at \in Datasets
  /\ stage \in DOMAIN Stages
  /\ frames \in [Datasets -> SUBSET Row]
  /\ given \in [Datasets -> DatasetCheckpoint]
  /\ frame \in SUBSET Row
  /\ passed \in BOOLEAN
  /\ results \in [Datasets -> Result]
  /\ delivered \subseteq Datasets
  /\ saved \subseteq delivered
  /\ audit \in Seq(AuditEvent)
  /\ lineage \in Seq(LineageRecord)

Init ==
  /\ source = [d \in Datasets |-> {}]
  /\ batches = [d \in Datasets |-> 0]
  /\ store = [d \in Datasets |-> NoCheckpoint]
  /\ sink = [d \in Datasets |-> [k \in Keys |-> None]]
  /\ phase = "idle" /\ at = 1 /\ stage = 1
  /\ frames = [d \in Datasets |-> {}]
  /\ given = [d \in Datasets |-> NoCheckpoint]
  /\ frame = {} /\ passed = FALSE
  /\ results = [d \in Datasets |-> NoResult]
  /\ delivered = {} /\ saved = {}
  /\ audit = <<>> /\ lineage = <<>>
-----------------------------------------------------------------------------
(* The source.  Unless LateRows, a batch is not older than any row already *)
(* there; behind an exclusive watermark it must be newer.                  *)

InOrder(d, t) ==
  \A r \in source[d] : IF Inclusive THEN r.time <= t ELSE r.time < t

Arrive(d, ks, t) ==
  /\ batches[d] < MaxBatches
  /\ LateRows \/ InOrder(d, t)
  /\ batches' = [batches EXCEPT ![d] = batches[d] + 1]
  /\ source' = [source EXCEPT ![d] =
                  source[d] \union {[key |-> k, time |-> t, pos |-> batches[d] + 1] : k \in ks}]
  /\ UNCHANGED <<callerVars, runVars>>
-----------------------------------------------------------------------------
(* The run.                                                                *)

Event(s, status, d) == [stage |-> s, status |-> status, dataset |-> d]

RunStarts ==
  /\ phase \in {"idle", "raised"}
  /\ \A d \in Datasets : store[d].processed <= MaxProcessed
  /\ phase' = "running" /\ at' = 1 /\ stage' = 1
  /\ frames' = source
  /\ given' = store
  /\ frame' = source[1]
  /\ passed' = FALSE
  /\ results' = [d \in Datasets |-> NoResult]
  /\ delivered' = {} /\ saved' = {}
  /\ audit' = <<Event("pipeline", "started", 0)>>
  /\ lineage' = <<>>
  /\ UNCHANGED <<sourceVars, store, sink>>

\* The stage at hand succeeds: its audit event, then its lineage record.
Succeeds ==
  /\ phase = "running"
  /\ lineage' = Append(lineage, [stage |-> Stages[stage], dataset |-> at])
  /\ UNCHANGED <<sourceVars, callerVars, frames, given>>

\* Validation collects issues and never stops the run by itself.
Validate ==
  /\ Stages[stage] = "validation"
  /\ Succeeds
  /\ passed' \in BOOLEAN
  /\ stage' = stage + 1
  /\ audit' = Append(audit, Event(Stages[stage], "succeeded", at))
  /\ UNCHANGED <<phase, at, frame, results>>

Clean ==
  /\ Stages[stage] = "cleaning"
  /\ Succeeds
  /\ stage' = stage + 1
  /\ audit' = Append(audit, Event(Stages[stage], "succeeded", at))
  /\ UNCHANGED <<phase, at, frame, passed, results>>

Transform ==
  /\ Stages[stage] = "transformation"
  /\ Succeeds
  /\ frame' = TransformDuplicates(frame)
  /\ stage' = stage + 1
  /\ audit' = Append(audit, Event(Stages[stage], "succeeded", at))
  /\ UNCHANGED <<phase, at, passed, results>>

\* The dataset's result is complete; run goes to the next one or returns.
Incremental ==
  /\ Stages[stage] = "incremental"
  /\ Succeeds
  /\ LET done == Process(frame, given[at])
     IN  results' = [results EXCEPT ![at] =
           [passed |-> passed, frame |-> done.frame, checkpoint |-> done.checkpoint]]
  /\ LET succeeded == Append(audit, Event(Stages[stage], "succeeded", at))
     IN  IF at < DatasetCount
           THEN /\ at' = at + 1 /\ frame' = frames[at + 1]
                /\ stage' = 1 /\ phase' = phase
                /\ audit' = succeeded
           ELSE /\ phase' = "returned"
                /\ audit' = Append(succeeded, Event("pipeline", "succeeded", 0))
                /\ UNCHANGED <<at, stage, frame>>
  /\ passed' = FALSE

\* The exception goes to the caller, and everything local is gone with it.
Raises ==
  /\ phase = "running"
  /\ phase' = "raised"
  /\ results' = [d \in Datasets |-> NoResult]
  /\ UNCHANGED <<sourceVars, callerVars, at, stage, frames, given, frame, passed, lineage>>

\* Slips: the run's failure is not audited, or the stage's has a status of its own.
StageFailsSilently ==
  /\ Raises
  /\ audit' = Append(audit, Event(Stages[stage], "failed", at))

StageFailsUnknown ==
  /\ Raises
  /\ audit' = audit \o <<Event(Stages[stage], "error", at), Event("pipeline", "failed", 0)>>

\* What the stage calls raises: the stage and the run are audited as failed.
StageFails ==
  /\ Raises
  /\ audit' = audit \o <<Event(Stages[stage], "failed", at), Event("pipeline", "failed", 0)>>

\* What run is given for a dataset is not a frame, or cannot be copied or
\* described: no stage of it has begun.
DatasetFails ==
  /\ stage = 1
  /\ Raises
  /\ audit' = Append(audit, Event("pipeline", "failed", 0))

\* The stage is audited as succeeded when its lineage cannot be recorded.
LineageFails ==
  /\ Raises
  /\ audit' = audit \o <<Event(Stages[stage], "succeeded", at), Event("pipeline", "failed", 0)>>

RunFails == StageFails \/ DatasetFails \/ LineageFails
-----------------------------------------------------------------------------
(* The caller.                                                             *)

\* The run and all it computed are gone.
Forget ==
  /\ phase' = "idle" /\ at' = 1 /\ stage' = 1
  /\ frames' = [d \in Datasets |-> {}]
  /\ given' = [d \in Datasets |-> NoCheckpoint]
  /\ frame' = {} /\ passed' = FALSE
  /\ results' = [d \in Datasets |-> NoResult]
  /\ audit' = <<>> /\ lineage' = <<>>

Deliver(d) ==
  /\ phase = "returned" /\ d \notin delivered
  /\ sink' = [sink EXCEPT ![d] = Upsert(sink[d], results[d].frame)]
  /\ delivered' = delivered \union {d}
  /\ UNCHANGED <<sourceVars, store, saved, runVars>>

SaveCheckpoint(d) ==
  /\ phase = "returned" /\ d \in delivered /\ d \notin saved
  /\ store' = [store EXCEPT ![d] = results[d].checkpoint]
  /\ saved' = saved \union {d}
  /\ IF saved' = Datasets THEN Forget ELSE UNCHANGED runVars
  /\ UNCHANGED <<sourceVars, sink, delivered>>

Crash ==
  /\ phase \in {"running", "returned"}
  /\ Forget
  /\ UNCHANGED <<sourceVars, callerVars>>

RunSteps == RunStarts \/ Validate \/ Clean \/ Transform \/ Incremental \/ RunFails

CallerSteps ==
  \/ \E d \in Datasets : Deliver(d) \/ SaveCheckpoint(d)
  \/ Crash

Next ==
  \/ \E d \in Datasets, ks \in (SUBSET Keys) \ {{}}, t \in Times : Arrive(d, ks, t)
  \/ RunSteps
  \/ CallerSteps

Spec == Init /\ [][Next]_vars

\* A started run goes on, and a caller that keeps calling run until it has
\* stored what the run returned; after some time neither fails any more.
\* (The package starts no run by itself: the schedule is the deployment's.)
Fairness ==
  /\ WF_vars(RunStarts)
  /\ WF_vars(Validate \/ Clean \/ Transform \/ Incremental)
  /\ WF_vars(\E d \in Datasets : Deliver(d) \/ SaveCheckpoint(d))
  /\ <>[][~(RunFails \/ Crash)]_vars

FairSpec == Spec /\ Fairness
-----------------------------------------------------------------------------
(* Properties.                                                             *)

\* Rows the next run will not select again.
Covered(r, checkpoint) ==
  /\ checkpoint.watermark # None
  /\ IF Inclusive THEN r.time < checkpoint.watermark
                  ELSE r.time <= checkpoint.watermark

\* The loaded table has row r or a later one of its key.
Loaded(d, r) == sink[d][r.key] # None /\ sink[d][r.key].pos >= r.pos

\* A kept checkpoint never claims more than was stored: whatever crashed,
\* failed or arrived in between, every row it covers was loaded, or a later
\* row of its key was (process, _filter_incremental_rows, _deduplicate,
\* _maximum_watermark together).
NothingLost ==
  \A d \in Datasets : \A r \in source[d] : Covered(r, store[d]) => Loaded(d, r)

\* Loading again after a crash or a failure never puts an older row back in
\* the place of a newer one.
SinkForward ==
  [][\A d \in Datasets, k \in Keys :
       sink[d][k] # None => sink'[d][k] # None /\ sink'[d][k].pos >= sink[d][k].pos]_vars

\* A dataset's kept watermark never goes back, even when rows arrive late
\* (an empty selection keeps the previous watermark).
WatermarkForward ==
  [][\A d \in Datasets :
       store[d].watermark # None =>
         store'[d].watermark # None /\ store'[d].watermark >= store[d].watermark]_vars

\* The caller catches up: once failures have stopped, every row that has
\* arrived, or a later one of its key, gets loaded and stays so.
CatchesUp ==
  <>[](\A d \in Datasets : \A r \in source[d] : Loaded(d, r))

\* processed_rows counts a row at most once, across crashes and late rows.
CountedOnce ==
  \A d \in Datasets :
    store[d].processed <=
      Cardinality({r \in source[d] : store[d].watermark # None /\ r.time <= store[d].watermark})

\* The audit log and the lineage tell the same story: a lineage record per
\* stage that succeeded, in order; then, in a run that raised, one stage more
\* at most: the next, which failed, or which succeeded but for its lineage; it
\* is missing only where a dataset was about to begin.  The run's own failure
\* is the last thing told; a returned run has the four stages of each dataset.
Succeeded ==
  [n \in DOMAIN lineage |-> Event(lineage[n].stage, "succeeded", lineage[n].dataset)]

Ended(status) == Event("pipeline", status, 0)

Endings ==
  CASE phase = "running"  -> {<<>>}
    [] phase = "returned" -> {<<Ended("succeeded")>>}
    [] phase = "raised"   ->
         {<<Event(Stages[stage], status, at), Ended("failed")>> : status \in {"failed", "succeeded"}}
         \union (IF stage = 1 THEN {<<Ended("failed")>>} ELSE {})

Story == <<Event("pipeline", "started", 0)>> \o Succeeded

AuditAccountsForRun ==
  /\ phase = "idle" => audit = <<>> /\ lineage = <<>>
  /\ phase # "idle" => \E ending \in Endings : audit = Story \o ending
  /\ phase \in {"running", "raised"} => Len(lineage) = (at - 1) * Len(Stages) + stage - 1
  /\ phase = "returned" =>
       \A d \in Datasets : [n \in DOMAIN Stages |-> lineage[(d - 1) * Len(Stages) + n]]
                             = [n \in DOMAIN Stages |-> [stage |-> Stages[n], dataset |-> d]]

-----------------------------------------------------------------------------
(* The inductive invariants.  First, what holds in every mode of the       *)
(* pipeline: frames are finite, so that their rows can be counted, and a   *)
(* run's results come from what it read and from the checkpoints kept.     *)

Reading == phase \in {"running", "returned"}

FiniteInv ==
  /\ \A d \in Datasets : IsFiniteSet(source[d]) /\ IsFiniteSet(frames[d])
  /\ IsFiniteSet(frame)

\* The run has gone through dataset d.
Processed(d) == phase = "returned" \/ (phase = "running" /\ d < at)

CountInv ==
  /\ Reading => \A d \in Datasets :
       /\ frames[d] \subseteq source[d]
       /\ d \notin saved => given[d] = store[d]
  /\ phase = "running" => frame \subseteq frames[at] /\ delivered = {} /\ saved = {}
  /\ \A d \in Datasets : Processed(d) =>
       /\ results[d].frame \subseteq Select(frames[d], given[d].watermark)
       /\ results[d].checkpoint =
            [watermark |-> MaximumWatermark(results[d].frame, given[d].watermark),
             processed |-> given[d].processed + Cardinality(results[d].frame)]

\* The lineage is where the run is: stage by stage, dataset by dataset.
LineageInv ==
  /\ phase = "idle" => audit = <<>> /\ lineage = <<>>
  /\ phase # "idle" => \E ending \in Endings : audit = Story \o ending
  /\ phase \in {"running", "raised"} => Len(lineage) = (at - 1) * Len(Stages) + stage - 1
  /\ phase = "returned" => Len(lineage) = DatasetCount * Len(Stages)
  /\ \A d \in Datasets, n \in DOMAIN Stages :
       (d - 1) * Len(Stages) + n <= Len(lineage) =>
         lineage[(d - 1) * Len(Stages) + n] = [stage |-> Stages[n], dataset |-> d]

-----------------------------------------------------------------------------
(* Why nothing is lost, for batches in order and transformations that keep *)
(* every row.                                                              *)

Earlier(r, q) == IF Inclusive THEN r.time <= q.time ELSE r.time < q.time

\* Batches are numbered as they arrive, and later batches are not older.
SourceInv ==
  \A d \in Datasets :
    /\ IsFiniteSet(source[d])
    /\ \A r \in source[d] : r.pos <= batches[d]
    /\ \A r, q \in source[d] :
         /\ r.key = q.key /\ r.pos = q.pos => r = q
         /\ r.pos < q.pos => Earlier(r, q)

\* A run works on what the source held when it started and on the
\* checkpoints that are still kept.
RunInv ==
  /\ Reading => \A d \in Datasets :
       /\ frames[d] \subseteq source[d]
       /\ \A r \in frames[d], q \in source[d] \ frames[d] : r.pos < q.pos
       /\ d \notin saved => given[d] = store[d]
       /\ given[d].watermark # None => \E r \in frames[d] : r.time = given[d].watermark
  /\ phase = "running" => frame = frames[at] /\ delivered = {} /\ saved = {}

\* Its results are what process makes of them.
ResultsInv ==
  \A d \in Datasets : Processed(d) =>
    /\ results[d].frame = Process(frames[d], given[d]).frame
    /\ results[d].checkpoint = Process(frames[d], given[d]).checkpoint

\* The watermark kept is that of some row.
StoreInv ==
  \A d \in Datasets :
    store[d].watermark # None => \E r \in source[d] : r.time = store[d].watermark

\* What is loaded came from the source, before the run or by it.
SinkInv ==
  \A d \in Datasets, k \in Keys : sink[d][k] # None =>
    /\ sink[d][k] \in source[d] /\ sink[d][k].key = k
    /\ Reading /\ d \notin delivered => sink[d][k] \in frames[d]

DeliveredInv ==
  phase = "returned" =>
    \A d \in delivered : \A r \in Select(frames[d], given[d].watermark) : Loaded(d, r)

LoadInv == /\ TypeOK /\ SourceInv /\ RunInv /\ ResultsInv /\ StoreInv
           /\ SinkInv /\ DeliveredInv /\ NothingLost
===============================================================================
