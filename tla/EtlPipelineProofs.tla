-------------------------- MODULE EtlPipelineProofs --------------------------
(***************************************************************************)
(* The theorems about EtlPipeline, for any datasets, keys, batches and     *)
(* bounds.  First what the row operators give for a frame whose later      *)
(* batches are not older, then the steps of the run and of its caller.     *)
(***************************************************************************)
EXTENDS EtlPipeline, TLAPS, FiniteSetTheorems, SequenceTheorems, WellFoundedInduction

-----------------------------------------------------------------------------
(* Frames.                                                                 *)

LEMMA LeastExists ==
    ASSUME NEW T, T \subseteq Nat, T # {}
    PROVE  \E t \in T : \A y \in T : t <= y
<1>1. PICK t \in T : \A y \in T : ~ (<<y, t>> \in OpToRel(<, Nat))
  BY NatLessThanWellFounded, WFMin
<1>2. \A y \in T : <<y, t>> \in Nat \X Nat
  OBVIOUS
<1>3. \A y \in T : ~ (y < t)
  BY <1>1, <1>2 DEF OpToRel
<1>4. QED
  BY <1>3

\* A bounded, non-empty set of naturals has a greatest element: the distance
\* to the bound is least there.
LEMMA GreatestExists ==
    ASSUME NEW N \in Nat, NEW S, S \subseteq 0 .. N, S # {}
    PROVE  \E m \in S : \A x \in S : x <= m
<1> DEFINE T == {N - x : x \in S}
<1>1. T \subseteq Nat /\ T # {}
  <2>1. \A x \in S : N - x \in Nat
    OBVIOUS
  <2>2. T \subseteq Nat
    BY <2>1
  <2>3. PICK x \in S : TRUE
    OBVIOUS
  <2>4. N - x \in T
    BY <2>3
  <2> QED
    BY <2>2, <2>4
<1>2. PICK t \in T : \A y \in T : t <= y
  <2> HIDE DEF T
  <2> QED
    BY <1>1, LeastExists
<1>4. PICK m \in S : t = N - m
  BY <1>2
<1>5. \A x \in S : x <= m
  BY <1>2, <1>4
<1>6. QED
  BY <1>5

\* Rows of a frame in order: a key has one row per batch, and later batches
\* are not older.
Ordered(rows) ==
    /\ rows \subseteq Row
    /\ \A r, q \in rows : r.key = q.key /\ r.pos = q.pos => r = q
    /\ \A r, q \in rows : r.pos < q.pos => r.time <= q.time

\* Of the rows of one key, one comes in the latest batch.
LEMMA LatestExists ==
    ASSUME NEW rows, Ordered(rows), NEW r \in rows
    PROVE  \E m \in rows : /\ m.key = r.key
                           /\ \A q \in rows : q.key = r.key => q.pos <= m.pos
<1> DEFINE S == {q.pos : q \in {p \in rows : p.key = r.key}}
<1>1. S \subseteq 0 .. MaxBatches /\ S # {}
  BY RowConstants DEF Ordered, Row
<1>2. PICK n \in S : \A x \in S : x <= n
  <2> HIDE DEF S
  <2> QED
    BY <1>1, GreatestExists, RowConstants
<1>3. PICK m \in rows : m.key = r.key /\ m.pos = n
  BY <1>2
<1>4. QED
  BY <1>2, <1>3

\* Incremental processing puts out, for every row it selects, that row or a
\* later one of its key.
LEMMA DeduplicateCovers ==
    ASSUME NEW rows, Ordered(rows), NEW r \in rows
    PROVE  \E o \in Deduplicate(rows) : o.key = r.key /\ o.pos >= r.pos
<1>1. PICK m \in rows : /\ m.key = r.key
                        /\ \A q \in rows : q.key = r.key => q.pos <= m.pos
  BY LatestExists
<1>2. \A q \in rows : q.key = m.key /\ q # m => Precedes(q, m)
  <2> SUFFICES ASSUME NEW q \in rows, q.key = m.key, q # m
               PROVE  Precedes(q, m)
    OBVIOUS
  <2>1. q.pos \in Nat /\ m.pos \in Nat /\ q.time \in Nat /\ m.time \in Nat
    BY RowConstants DEF Ordered, Row, Times
  <2>2. q.pos < m.pos
    BY <1>1, <2>1 DEF Ordered
  <2>3. q.time <= m.time
    BY <2>2 DEF Ordered
  <2> QED
    BY <2>1, <2>2, <2>3 DEF Precedes
<1>3. m \in Deduplicate(rows)
  BY <1>2 DEF Deduplicate, LastOfKey
<1>4. r.pos <= m.pos /\ r.pos \in Nat /\ m.pos \in Nat
  BY <1>1, RowConstants DEF Ordered, Row
<1>5. QED
  BY <1>1, <1>3, <1>4

LEMMA DeduplicateIsSubset ==
    ASSUME NEW rows
    PROVE  Deduplicate(rows) \subseteq rows
BY DEF Deduplicate, LastOfKey

\* The part of an ordered frame is ordered.
LEMMA OrderedSubset ==
    ASSUME NEW rows, Ordered(rows), NEW part, part \subseteq rows
    PROVE  Ordered(part)
BY DEF Ordered

\* Storing a frame leaves, for each of its keys, a row of that key that no
\* row of the frame is later than, and the other keys as they are.
LEMMA UpsertKeepsLatest ==
    ASSUME NEW table, NEW rows, Ordered(rows), NEW k \in Keys
    PROVE  LET new == Upsert(table, rows)[k] IN
           /\ (\A r \in rows : r.key # k) => new = table[k]
           /\ (\E r \in rows : r.key = k) =>
                /\ new \in rows /\ new.key = k
                /\ \A r \in rows : r.key = k => r.pos <= new.pos
<1> DEFINE new == Upsert(table, rows)[k]
           ofKey == {r \in rows : r.key = k}
           last == {r \in ofKey : \A q \in ofKey :
                      q.time < r.time \/ (q.time = r.time /\ q.pos <= r.pos)}
<1>1. new = IF ofKey = {} THEN table[k] ELSE CHOOSE r \in last : TRUE
  BY DEF Upsert
<1>2. ASSUME \A r \in rows : r.key # k
      PROVE  new = table[k]
  BY <1>1, <1>2
<1>3. ASSUME NEW r \in rows, r.key = k
      PROVE  /\ new \in rows /\ new.key = k
             /\ \A q \in rows : q.key = k => q.pos <= new.pos
  <2>1. PICK m \in rows : m.key = k /\ \A q \in rows : q.key = k => q.pos <= m.pos
    BY <1>3, LatestExists
  <2>2. \A q \in rows : q.pos \in Nat /\ q.time \in Nat
    BY RowConstants DEF Ordered, Row, Times
  <2>3. \A q \in ofKey : q # m => q.pos < m.pos /\ q.time <= m.time
    BY <2>1, <2>2 DEF Ordered
  <2>4. m \in last
    BY <2>1, <2>2, <2>3
  <2>5. \A q \in last : q = m
    <3> TAKE q \in last
    <3>1. m.time < q.time \/ (m.time = q.time /\ m.pos <= q.pos)
      BY <2>1
    <3> QED
      BY <3>1, <2>1, <2>2, <2>3
  <2>6. new \in last
    BY <1>1, <2>1, <2>4
  <2>7. new = m
    BY <2>5, <2>6
  <2> QED
    BY <2>1, <2>7
<1>4. QED
  BY <1>2, <1>3

\* The new watermark is the greatest of the output, or the previous one.
LEMMA MaximumIsGreatest ==
    ASSUME NEW rows, rows \subseteq Row, NEW fallback
    PROVE  /\ rows = {} => MaximumWatermark(rows, fallback) = fallback
           /\ rows # {} =>
                /\ \E r \in rows : r.time = MaximumWatermark(rows, fallback)
                /\ \A r \in rows : r.time <= MaximumWatermark(rows, fallback)
<1>1. CASE rows = {}
  BY <1>1 DEF MaximumWatermark
<1>2. CASE rows # {}
  <2> DEFINE S == {r.time : r \in rows}
  <2>1. S \subseteq 0 .. MaxTime /\ S # {}
    BY <1>2 DEF Row, Times
  <2>2. \E t \in S : \A x \in S : x <= t
    <3> HIDE DEF S
    <3> QED
      BY <2>1, GreatestExists, RowConstants
  <2>3. \E t \in S : \A r \in rows : r.time <= t
    BY <2>2
  <2>4. MaximumWatermark(rows, fallback) = CHOOSE t \in S : \A r \in rows : r.time <= t
    BY <1>2 DEF MaximumWatermark
  <2> HIDE DEF S
  <2>5. /\ MaximumWatermark(rows, fallback) \in S
        /\ \A r \in rows : r.time <= MaximumWatermark(rows, fallback)
    BY <2>3, <2>4
  <2> QED
    BY <1>2, <2>5 DEF S
<1>3. QED
  BY <1>1, <1>2

\* process puts out rows of the frame and a proper checkpoint.
LEMMA ProcessType ==
    ASSUME NEW rows, rows \subseteq Row, IsFiniteSet(rows),
           NEW checkpoint \in DatasetCheckpoint
    PROVE  /\ Output(rows, checkpoint.watermark) \subseteq rows
           /\ Process(rows, checkpoint).frame = Output(rows, checkpoint.watermark)
           /\ Process(rows, checkpoint).checkpoint \in DatasetCheckpoint
           /\ Process(rows, checkpoint).checkpoint.watermark
                = MaximumWatermark(Output(rows, checkpoint.watermark), checkpoint.watermark)
<1> DEFINE output == Output(rows, checkpoint.watermark)
           maximum == MaximumWatermark(output, checkpoint.watermark)
<1>1. output \subseteq rows
  BY DeduplicateIsSubset DEF Output, Select
<1>2. Cardinality(output) \in Nat
  BY <1>1, FS_Subset, FS_CardinalityType
<1>3. maximum \in Times \union {None}
  <2>1. output \subseteq Row
    BY <1>1
  <2>2. \A r \in output : r.time \in Times
    BY <2>1 DEF Row
  <2> QED
    BY <2>1, <2>2, MaximumIsGreatest DEF DatasetCheckpoint
<1> HIDE DEF output, maximum
<1>4. [watermark |-> maximum, processed |-> checkpoint.processed + Cardinality(output)]
        \in DatasetCheckpoint
  BY <1>2, <1>3 DEF DatasetCheckpoint
<1>5. Process(rows, checkpoint) =
        [frame |-> output,
         checkpoint |-> [watermark |-> maximum,
                         processed |-> checkpoint.processed + Cardinality(output)]]
  BY DEF Process, output, maximum
<1>6. QED
  BY <1>1, <1>4, <1>5 DEF output, maximum

\* Any rows at all have one with the greatest watermark and, among those, the
\* latest batch.
LEMMA GreatestRowExists ==
    ASSUME NEW rows, rows \subseteq Row, rows # {}
    PROVE  \E r \in rows : \A q \in rows :
               q.time < r.time \/ (q.time = r.time /\ q.pos <= r.pos)
<1>1. PICK t \in {r.time : r \in rows} : \A x \in {r.time : r \in rows} : x <= t
  <2> DEFINE S == {r.time : r \in rows}
  <2>1. S \subseteq 0 .. MaxTime /\ S # {}
    BY DEF Row, Times
  <2> HIDE DEF S
  <2>2. \E t \in S : \A x \in S : x <= t
    BY <2>1, GreatestExists, RowConstants
  <2> QED
    BY <2>2 DEF S
<1> DEFINE top == {r \in rows : r.time = t}
           P == {r.pos : r \in top}
<1>2. P \subseteq 0 .. MaxBatches /\ P # {}
  BY <1>1, RowConstants DEF Row
<1>3. \E p \in P : \A x \in P : x <= p
  <2> HIDE DEF P
  <2> QED
    BY <1>2, GreatestExists, RowConstants
<1>4. PICK r \in top : \A q \in top : q.pos <= r.pos
  BY <1>3
<1>5. \A q \in rows : q.time \in Nat /\ q.time <= t /\ t \in Nat
  BY <1>1, RowConstants DEF Row, Times
<1>6. ASSUME NEW q \in rows
      PROVE  q.time < r.time \/ (q.time = r.time /\ q.pos <= r.pos)
  BY <1>4, <1>5
<1>7. QED
  BY <1>4, <1>6

LEMMA UpsertType ==
    ASSUME NEW table \in [Keys -> Row \union {None}], NEW rows, rows \subseteq Row
    PROVE  Upsert(table, rows) \in [Keys -> Row \union {None}]
<1>1. ASSUME NEW k \in Keys PROVE Upsert(table, rows)[k] \in Row \union {None}
  <2> DEFINE ofKey == {r \in rows : r.key = k}
             last == {r \in ofKey : \A q \in ofKey :
                        q.time < r.time \/ (q.time = r.time /\ q.pos <= r.pos)}
  <2>1. Upsert(table, rows)[k] = IF ofKey = {} THEN table[k] ELSE CHOOSE r \in last : TRUE
    BY DEF Upsert
  <2>2. ofKey \subseteq Row
    OBVIOUS
  <2>3. ofKey # {} => last # {}
    <3> HIDE DEF ofKey
    <3> QED
      BY <2>2, GreatestRowExists
  <2>4. last \subseteq Row
    BY <2>2
  <2> HIDE DEF ofKey, last
  <2> QED
    BY <2>1, <2>3, <2>4
<1>2. QED
  BY <1>1 DEF Upsert

-----------------------------------------------------------------------------
(* Types, in every mode of the pipeline.  That the frames are finite is    *)
(* part of them: a checkpoint counts the rows of its output.               *)

BaseInv == TypeOK /\ FiniteInv

LEMMA NoResultType == NoCheckpoint \in DatasetCheckpoint /\ NoResult \in Result
BY DEF NoCheckpoint, NoResult, Result, DatasetCheckpoint

LEMMA InitTypes == Init => BaseInv
<1> SUFFICES ASSUME Init PROVE BaseInv
  OBVIOUS
<1>1. 1 \in Datasets /\ 1 \in DOMAIN Stages /\ 0 \in 0 .. MaxBatches
  BY EtlConstants, RowConstants DEF Datasets, Stages
<1>2. /\ source \in [Datasets -> SUBSET Row] /\ batches \in [Datasets -> 0 .. MaxBatches]
      /\ store \in [Datasets -> DatasetCheckpoint]
      /\ sink \in [Datasets -> [Keys -> Row \union {None}]]
  BY <1>1, NoResultType DEF Init
<1>3. /\ phase \in {"idle", "running", "returned", "raised"} /\ at \in Datasets
      /\ stage \in DOMAIN Stages /\ frames \in [Datasets -> SUBSET Row]
      /\ given \in [Datasets -> DatasetCheckpoint] /\ frame \in SUBSET Row
      /\ passed \in BOOLEAN /\ results \in [Datasets -> Result]
  BY <1>1, NoResultType DEF Init
<1>4. /\ delivered \subseteq Datasets /\ saved \subseteq delivered
      /\ audit \in Seq(AuditEvent) /\ lineage \in Seq(LineageRecord)
  BY DEF Init
<1>5. FiniteInv
  BY FS_EmptySet DEF Init, FiniteInv
<1>6. QED
  BY <1>2, <1>3, <1>4, <1>5 DEF BaseInv, TypeOK

\* A batch is a finite set of rows.
LEMMA BatchType ==
    ASSUME BaseInv, NEW d \in Datasets, NEW ks \in (SUBSET Keys) \ {{}}, NEW t \in Times,
           Arrive(d, ks, t)
    PROVE  LET n == batches[d] + 1
               batch == {[key |-> k, time |-> t, pos |-> n] : k \in ks}
           IN  n \in 1 .. MaxBatches /\ batch \subseteq Row /\ IsFiniteSet(batch)
<1> DEFINE n == batches[d] + 1
           batch == {[key |-> k, time |-> t, pos |-> n] : k \in ks}
           f == [k \in ks |-> [key |-> k, time |-> t, pos |-> n]]
<1>1. n \in 1 .. MaxBatches /\ batches[d] \in Nat
  BY RowConstants DEF BaseInv, TypeOK, Arrive
<1>2. batch \subseteq Row
  BY <1>1 DEF Row
<1>3. IsFiniteSet(ks)
  BY FiniteKeys, FS_Subset
<1>4. f \in Surjection(ks, batch)
  BY DEF Surjection
<1>5. QED
  BY <1>1, <1>2, <1>3, <1>4, FS_Surjection

LEMMA ArriveTypes ==
    ASSUME BaseInv, NEW d \in Datasets, NEW ks \in (SUBSET Keys) \ {{}}, NEW t \in Times,
           Arrive(d, ks, t)
    PROVE  BaseInv'
<1> DEFINE n == batches[d] + 1
           batch == {[key |-> k, time |-> t, pos |-> n] : k \in ks}
<1>1. n \in 1 .. MaxBatches /\ batch \subseteq Row /\ IsFiniteSet(batch)
  BY BatchType
<1>2. /\ source' = [source EXCEPT ![d] = source[d] \union batch]
      /\ batches' = [batches EXCEPT ![d] = n]
      /\ UNCHANGED <<callerVars, runVars>>
  BY DEF Arrive
<1> HIDE DEF n, batch
<1>3. TypeOK'
  <2>1. source' \in [Datasets -> SUBSET Row] /\ batches' \in [Datasets -> 0 .. MaxBatches]
    BY <1>1, <1>2 DEF BaseInv, TypeOK
  <2> QED
    BY <1>2, <2>1 DEF BaseInv, TypeOK, callerVars, runVars
<1>4. FiniteInv'
  <2>1. IsFiniteSet(source[d] \union batch)
    BY <1>1, FS_Union DEF BaseInv, FiniteInv
  <2> QED
    BY <1>2, <2>1 DEF BaseInv, TypeOK, FiniteInv, runVars
<1>5. QED
  BY <1>3, <1>4 DEF BaseInv

LEMMA RunStartsTypes ==
    ASSUME BaseInv, RunStarts
    PROVE  BaseInv'
<1>1. 1 \in Datasets /\ 1 \in DOMAIN Stages
  BY EtlConstants DEF Datasets, Stages
<1>2. Event("pipeline", "started", 0) \in AuditEvent
  BY DEF Event, AuditEvent
<1>3. UNCHANGED <<source, batches, store, sink>>
  BY DEF RunStarts, sourceVars
<1>4. audit' \in Seq(AuditEvent) /\ lineage' \in Seq(LineageRecord)
  BY <1>2 DEF RunStarts
<1>5. /\ source' \in [Datasets -> SUBSET Row] /\ batches' \in [Datasets -> 0 .. MaxBatches]
      /\ store' \in [Datasets -> DatasetCheckpoint]
      /\ sink' \in [Datasets -> [Keys -> Row \union {None}]]
      /\ frames' \in [Datasets -> SUBSET Row]
      /\ given' \in [Datasets -> DatasetCheckpoint]
  BY <1>3 DEF BaseInv, TypeOK, RunStarts
<1>6. /\ phase' \in {"idle", "running", "returned", "raised"} /\ at' \in Datasets
      /\ stage' \in DOMAIN Stages /\ frame' \in SUBSET Row
      /\ passed' \in BOOLEAN /\ results' \in [Datasets -> Result]
      /\ delivered' \subseteq Datasets /\ saved' \subseteq delivered'
  BY <1>1, NoResultType DEF BaseInv, TypeOK, RunStarts
<1>7. FiniteInv'
  BY <1>1, <1>3 DEF BaseInv, FiniteInv, RunStarts
<1>8. QED
  BY <1>4, <1>5, <1>6, <1>7 DEF BaseInv, TypeOK

LEMMA LogType ==
    ASSUME TypeOK, Succeeds
    PROVE  /\ lineage' \in Seq(LineageRecord)
           /\ Append(audit, Event(Stages[stage], "succeeded", at)) \in Seq(AuditEvent)
<1>1. Stages[stage] \in {Stages[n] : n \in DOMAIN Stages}
  BY DEF TypeOK
<1> DEFINE names == {Stages[n] : n \in DOMAIN Stages}
           name == Stages[stage]
<1>2. [stage |-> name, dataset |-> at] \in LineageRecord
  BY <1>1 DEF LineageRecord, TypeOK
<1>3. [stage |-> name, status |-> "succeeded", dataset |-> at] \in AuditEvent
  BY <1>1 DEF AuditEvent, TypeOK
<1>4. QED
  BY <1>2, <1>3 DEF Succeeds, Event, TypeOK

\* Transformation can only drop rows.
LEMMA StageTypes ==
    ASSUME BaseInv, Validate \/ Clean \/ Transform
    PROVE  BaseInv'
<1>1. stage + 1 \in DOMAIN Stages /\ stage' = stage + 1
  BY DEF Validate, Clean, Transform, BaseInv, TypeOK, Stages
<1>2. frame' \subseteq frame
  BY DEF Validate, Clean, Transform, TransformDuplicates, FirstOfKey
<1>3. IsFiniteSet(frame')
  BY <1>2, FS_Subset DEF BaseInv, FiniteInv
<1>4. /\ UNCHANGED <<source, batches, store, sink, delivered, saved, frames, given>>
      /\ UNCHANGED <<phase, at, results>> /\ passed' \in BOOLEAN /\ Succeeds
      /\ audit' = Append(audit, Event(Stages[stage], "succeeded", at))
  BY DEF Validate, Clean, Transform, Succeeds, sourceVars, callerVars, BaseInv, TypeOK
<1>5. lineage' \in Seq(LineageRecord) /\ audit' \in Seq(AuditEvent)
  BY <1>4, LogType DEF BaseInv
<1>6. TypeOK'
  BY <1>1, <1>2, <1>4, <1>5 DEF BaseInv, TypeOK
<1>7. FiniteInv'
  BY <1>3, <1>4 DEF BaseInv, FiniteInv
<1>8. QED
  BY <1>6, <1>7 DEF BaseInv

\* What Incremental does to the state besides the logs.
LEMMA IncrementalStep ==
    ASSUME BaseInv, Incremental
    PROVE  /\ phase = "running" /\ at \in 1 .. DatasetCount /\ DatasetCount \in Nat
           /\ UNCHANGED <<source, batches, store, sink, delivered, saved, frames, given>>
           /\ results' = [results EXCEPT ![at] =
                [passed |-> passed, frame |-> Process(frame, given[at]).frame,
                 checkpoint |-> Process(frame, given[at]).checkpoint]]
           /\ passed' = FALSE
           /\ \/ /\ at < DatasetCount /\ phase' = phase
                 /\ at' = at + 1 /\ frame' = frames[at + 1] /\ stage' = 1
              \/ at = DatasetCount /\ phase' = "returned" /\ UNCHANGED <<at, stage, frame>>
<1>1. at \in 1 .. DatasetCount /\ DatasetCount \in Nat
  BY EtlConstants DEF BaseInv, TypeOK, Datasets
<1>2. QED
  BY <1>1 DEF Incremental, Succeeds, sourceVars, callerVars

LEMMA IncrementalTypes ==
    ASSUME BaseInv, Incremental
    PROVE  BaseInv'
<1> DEFINE done == Process(frame, given[at])
           result == [passed |-> passed, frame |-> done.frame, checkpoint |-> done.checkpoint]
<1>1. at \in Datasets /\ given[at] \in DatasetCheckpoint
  BY DEF BaseInv, TypeOK
<1>2. done.frame \subseteq Row /\ done.checkpoint \in DatasetCheckpoint
  <2>1. frame \subseteq Row /\ IsFiniteSet(frame)
    BY DEF BaseInv, TypeOK, FiniteInv
  <2> HIDE DEF done
  <2>2. /\ Output(frame, given[at].watermark) \subseteq frame
        /\ done.frame = Output(frame, given[at].watermark)
        /\ done.checkpoint \in DatasetCheckpoint
    BY Zenon, <1>1, <2>1, ProcessType DEF done
  <2> QED
    BY <2>1, <2>2
<1>3. result \in Result
  <2> HIDE DEF done
  <2> QED
    BY <1>2 DEF Result, BaseInv, TypeOK
<1>4. results' = [results EXCEPT ![at] = result]
  BY IncrementalStep
<1> HIDE DEF result, done
<1>5. lineage' \in Seq(LineageRecord) /\ audit' \in Seq(AuditEvent)
  <2> DEFINE succeeded == Append(audit, Event(Stages[stage], "succeeded", at))
             finished == Event("pipeline", "succeeded", 0)
  <2>1. lineage' \in Seq(LineageRecord) /\ succeeded \in Seq(AuditEvent)
    BY LogType DEF BaseInv, Incremental
  <2>2. finished \in AuditEvent
    BY DEF Event, AuditEvent
  <2>3. audit' = succeeded \/ audit' = Append(succeeded, finished)
    BY DEF Incremental
  <2> HIDE DEF succeeded, finished
  <2> QED
    BY <2>1, <2>2, <2>3
<1>6. results' \in [Datasets -> Result]
  BY <1>3, <1>4 DEF BaseInv, TypeOK
<1>7. /\ at' \in Datasets /\ frame' \in SUBSET Row /\ stage' \in DOMAIN Stages
      /\ phase' \in {"idle", "running", "returned", "raised"} /\ IsFiniteSet(frame')
  <2>1. /\ at \in 1 .. DatasetCount /\ DatasetCount \in Nat /\ phase = "running"
        /\ \/ /\ at < DatasetCount /\ phase' = phase
              /\ at' = at + 1 /\ frame' = frames[at + 1] /\ stage' = 1
           \/ at = DatasetCount /\ phase' = "returned" /\ UNCHANGED <<at, stage, frame>>
    BY IncrementalStep
  <2>2. CASE at < DatasetCount /\ at' = at + 1 /\ frame' = frames[at + 1] /\ stage' = 1
             /\ phase' = phase
    <3>1. at + 1 \in Datasets /\ 1 \in DOMAIN Stages
      BY <2>1, <2>2 DEF Datasets, Stages
    <3> QED
      BY <2>1, <2>2, <3>1 DEF BaseInv, TypeOK, FiniteInv
  <2>3. CASE phase' = "returned" /\ UNCHANGED <<at, stage, frame>>
    BY <2>3 DEF BaseInv, TypeOK, FiniteInv
  <2> QED
    BY <2>1, <2>2, <2>3
<1>8. /\ UNCHANGED <<source, batches, store, sink, delivered, saved, frames, given>>
      /\ passed' = FALSE
  BY IncrementalStep
<1>9. TypeOK'
  BY <1>5, <1>6, <1>7, <1>8 DEF BaseInv, TypeOK
<1>10. FiniteInv'
  BY <1>7, <1>8 DEF BaseInv, FiniteInv
<1>11. QED
  BY <1>9, <1>10 DEF BaseInv

\* However a run fails, the exception ends it.
LEMMA RunRaises == RunFails => Raises
BY DEF RunFails, StageFails, DatasetFails, LineageFails

LEMMA RunFailsTypes ==
    ASSUME BaseInv, RunFails
    PROVE  BaseInv'
<1> DEFINE name == Stages[stage]
           told == {"failed", "succeeded"}
           failure(status) == <<Event(name, status, at), Event("pipeline", "failed", 0)>>
<1>1. name \in {Stages[n] : n \in DOMAIN Stages} /\ at \in Datasets
  BY DEF BaseInv, TypeOK
<1>2. /\ audit \in Seq(AuditEvent) /\ Raises
      /\ \/ \E status \in told : audit' = audit \o failure(status)
         \/ audit' = Append(audit, Event("pipeline", "failed", 0))
  BY DEF RunFails, StageFails, DatasetFails, LineageFails, BaseInv, TypeOK
<1>3. Event("pipeline", "failed", 0) \in AuditEvent
  BY DEF Event, AuditEvent
<1>4. ASSUME NEW status \in told
      PROVE  failure(status) \in Seq(AuditEvent)
  <2> HIDE DEF name
  <2>1. Event(name, status, at) \in AuditEvent
    BY <1>1 DEF Event, AuditEvent
  <2>2. \A e, f \in AuditEvent : <<e, f>> \in Seq(AuditEvent)
    OBVIOUS
  <2> DEFINE e == Event(name, status, at)
             f == Event("pipeline", "failed", 0)
  <2>3. e \in AuditEvent /\ f \in AuditEvent
    BY <1>3, <2>1
  <2> HIDE DEF e, f
  <2>4. <<e, f>> \in Seq(AuditEvent)
    BY <2>2, <2>3
  <2> QED
    BY <2>4 DEF e, f
<1> HIDE DEF failure, told
<1>5. audit' \in Seq(AuditEvent)
  <2>1. ASSUME NEW status \in told, audit' = audit \o failure(status)
        PROVE  audit' \in Seq(AuditEvent)
    <3>1. failure(status) \in Seq(AuditEvent)
      BY <1>4
    <3> QED
      BY <1>2, <2>1, <3>1, ConcatProperties
  <2>2. CASE audit' = Append(audit, Event("pipeline", "failed", 0))
    BY <1>2, <1>3, <2>2, AppendProperties
  <2> QED
    BY <1>2, <2>1, <2>2
<1>6. TypeOK'
  BY <1>2, <1>5, NoResultType DEF BaseInv, TypeOK, Raises, sourceVars, callerVars
<1>7. FiniteInv'
  BY <1>2 DEF BaseInv, FiniteInv, Raises, sourceVars
<1>8. QED
  BY <1>6, <1>7 DEF BaseInv

LEMMA ForgetType ==
    ASSUME TypeOK, Forget
    PROVE  /\ phase' = "idle" /\ at' \in Datasets /\ stage' \in DOMAIN Stages
           /\ frames' \in [Datasets -> SUBSET Row]
           /\ given' \in [Datasets -> DatasetCheckpoint]
           /\ frame' \in SUBSET Row /\ passed' \in BOOLEAN
           /\ results' \in [Datasets -> Result]
           /\ audit' \in Seq(AuditEvent) /\ lineage' \in Seq(LineageRecord)
<1>1. 1 \in Datasets /\ 1 \in DOMAIN Stages
  BY EtlConstants DEF Datasets, Stages
<1>2. audit' = <<>> /\ lineage' = <<>>
  BY DEF Forget
<1>3. audit' \in Seq(AuditEvent) /\ lineage' \in Seq(LineageRecord)
  BY <1>2
<1>4. /\ frames' \in [Datasets -> SUBSET Row]
      /\ given' \in [Datasets -> DatasetCheckpoint]
      /\ results' \in [Datasets -> Result]
  BY NoResultType DEF Forget
<1>5. QED
  BY <1>1, <1>3, <1>4 DEF Forget

LEMMA CallerTypes ==
    ASSUME BaseInv, CallerSteps
    PROVE  BaseInv'
<1>1. ASSUME NEW d \in Datasets, Deliver(d)
      PROVE  BaseInv'
  <2>1. results[d].frame \subseteq Row
    BY DEF BaseInv, TypeOK, Result
  <2>2. sink[d] \in [Keys -> Row \union {None}]
    BY DEF BaseInv, TypeOK
  <2>3. Upsert(sink[d], results[d].frame) \in [Keys -> Row \union {None}]
    BY <2>1, <2>2, UpsertType
  <2>4. sink' \in [Datasets -> [Keys -> Row \union {None}]]
    BY <1>1, <2>3 DEF BaseInv, TypeOK, Deliver
  <2>5. delivered' \subseteq Datasets /\ saved' \subseteq delivered'
    BY <1>1 DEF BaseInv, TypeOK, Deliver
  <2>6. UNCHANGED <<sourceVars, store, runVars>>
    BY <1>1 DEF Deliver
  <2> QED
    BY <2>4, <2>5, <2>6 DEF BaseInv, TypeOK, FiniteInv, sourceVars, runVars
<1>2. ASSUME NEW d \in Datasets, SaveCheckpoint(d)
      PROVE  BaseInv'
  <2>1. results[d].checkpoint \in DatasetCheckpoint
    BY DEF BaseInv, TypeOK, Result
  <2>2. store' \in [Datasets -> DatasetCheckpoint]
    BY <1>2, <2>1 DEF BaseInv, TypeOK, SaveCheckpoint
  <2>3. /\ saved' \subseteq delivered' /\ UNCHANGED <<sourceVars, sink, delivered>>
        /\ Forget \/ UNCHANGED runVars
    BY <1>2 DEF BaseInv, TypeOK, SaveCheckpoint
  <2>4. CASE UNCHANGED runVars
    BY <2>2, <2>3, <2>4 DEF BaseInv, TypeOK, FiniteInv, sourceVars, runVars
  <2>5. CASE Forget
    <3>1. TypeOK'
      BY <2>2, <2>3, <2>5, ForgetType DEF BaseInv, TypeOK, sourceVars
    <3>2. FiniteInv'
      BY <2>3, <2>5, FS_EmptySet DEF BaseInv, FiniteInv, Forget, sourceVars
    <3> QED
      BY <3>1, <3>2 DEF BaseInv
  <2> QED
    BY <2>3, <2>4, <2>5
<1>3. ASSUME Crash
      PROVE  BaseInv'
  <2>1. Forget /\ UNCHANGED <<sourceVars, callerVars>>
    BY <1>3 DEF Crash
  <2>2. TypeOK'
    BY <2>1, ForgetType DEF BaseInv, TypeOK, sourceVars, callerVars
  <2>3. FiniteInv'
    BY <2>1, FS_EmptySet DEF BaseInv, FiniteInv, Forget, sourceVars
  <2> QED
    BY <2>2, <2>3 DEF BaseInv
<1>4. QED
  BY <1>1, <1>2, <1>3 DEF CallerSteps

LEMMA StepTypes == BaseInv /\ [Next]_vars => BaseInv'
<1> SUFFICES ASSUME BaseInv, [Next]_vars PROVE BaseInv'
  OBVIOUS
<1>1. CASE RunSteps
  BY <1>1, RunStartsTypes, StageTypes, IncrementalTypes, RunFailsTypes DEF RunSteps
<1>2. CASE UNCHANGED vars
  BY <1>2 DEF vars, sourceVars, callerVars, runVars, BaseInv, TypeOK, FiniteInv
<1>3. QED
  BY <1>1, <1>2, ArriveTypes, CallerTypes DEF Next

\* Types, and every frame finite, in every mode of the pipeline.
THEOREM EtlBase == Spec => []BaseInv
BY InitTypes, StepTypes, PTL DEF Spec

\* Every variable of the pipeline and its caller keeps its type.
THEOREM EtlTypes == Spec => []TypeOK
<1>1. BaseInv => TypeOK
  BY DEF BaseInv
<1>2. QED
  BY EtlBase, <1>1, PTL

-----------------------------------------------------------------------------
(* The invariant, for batches in order and transformations that keep every *)
(* row.                                                                    *)

LEMMA SourceOrdered ==
    ASSUME TypeOK, SourceInv, NEW d \in Datasets
    PROVE  Ordered(source[d])
<1>1. source[d] \subseteq Row
  BY DEF TypeOK
<1>2. \A r \in Row : r.time \in Nat
  BY RowConstants DEF Row, Times
<1>3. \A r, q \in source[d] : r.pos < q.pos => r.time <= q.time
  BY <1>1, <1>2 DEF SourceInv, Earlier
<1>4. QED
  BY <1>1, <1>3 DEF Ordered, SourceInv

\* What a run reads, selects and puts out is in order, too.
LEMMA OutputOrdered ==
    ASSUME LoadInv, Reading, NEW d \in Datasets
    PROVE  /\ frames[d] \subseteq source[d] /\ Ordered(frames[d])
           /\ IsFiniteSet(frames[d]) /\ frames[d] \subseteq Row
           /\ Ordered(Select(frames[d], given[d].watermark))
           /\ Output(frames[d], given[d].watermark) \subseteq frames[d]
           /\ Ordered(Output(frames[d], given[d].watermark))
<1>1. frames[d] \subseteq source[d]
  BY DEF LoadInv, RunInv
<1>2. Ordered(frames[d])
  BY <1>1, SourceOrdered, OrderedSubset DEF LoadInv
<1>3. IsFiniteSet(frames[d])
  BY <1>1, FS_Subset DEF LoadInv, SourceInv
<1>4. Select(frames[d], given[d].watermark) \subseteq frames[d]
  BY DEF Select
<1>5. Output(frames[d], given[d].watermark) \subseteq frames[d]
  BY <1>4, DeduplicateIsSubset DEF Output
<1>6. QED
  BY <1>1, <1>2, <1>3, <1>4, <1>5, OrderedSubset DEF Ordered

LEMMA InitLoad == Init => LoadInv
<1> SUFFICES ASSUME Init PROVE LoadInv
  OBVIOUS
<1>1. TypeOK
  BY InitTypes DEF BaseInv
<1>2. SourceInv
  BY FS_EmptySet DEF Init, SourceInv
<1>3. RunInv /\ ResultsInv /\ StoreInv /\ SinkInv /\ DeliveredInv /\ NothingLost
  BY DEF Init, RunInv, Reading, ResultsInv, Processed, StoreInv, SinkInv, DeliveredInv,
         NothingLost, NoCheckpoint
<1>4. QED
  BY <1>1, <1>2, <1>3 DEF LoadInv

\* A batch: what is read, kept and loaded stays; its rows are later than all
\* that is there, so no checkpoint covers them.
LEMMA ArriveKeeps ==
    ASSUME ~LateRows, BaseInv, BaseInv', LoadInv, NEW d \in Datasets, NEW ks \in (SUBSET Keys) \ {{}},
           NEW t \in Times, Arrive(d, ks, t)
    PROVE  LoadInv'
<1> DEFINE n == batches[d] + 1
           batch == {[key |-> k, time |-> t, pos |-> n] : k \in ks}
<1>1. n \in 1 .. MaxBatches /\ batches[d] \in Nat
  <2>1. batches[d] \in Nat
    BY RowConstants DEF LoadInv, TypeOK
  <2> QED
    BY <2>1, BatchType
<1>2. batch \subseteq Row
  BY BatchType
<1>3. IsFiniteSet(batch)
  BY BatchType
<1>4. /\ source'[d] = source[d] \union batch
      /\ \A e \in Datasets : e # d => source'[e] = source[e] /\ batches'[e] = batches[e]
      /\ batches'[d] = n
      /\ UNCHANGED <<callerVars, runVars>>
  BY DEF Arrive, LoadInv, TypeOK
<1>5. TypeOK'
  BY DEF BaseInv
<1>6. \A r \in source[d] : r.pos < n /\ r.pos \in Nat /\ r.time \in Nat
  BY <1>1, RowConstants DEF LoadInv, SourceInv, TypeOK, Row, Times
<1>7. \A r \in source[d], q \in batch : r.pos < q.pos /\ Earlier(r, q)
  BY <1>6 DEF Arrive, InOrder, Earlier
<1>8. \A r, q \in batch : r.pos = q.pos /\ (r.key = q.key => r = q)
  OBVIOUS
<1> HIDE DEF batch
<1>9. SourceInv'
  <2> SUFFICES ASSUME NEW e \in Datasets
               PROVE  /\ IsFiniteSet(source'[e])
                      /\ \A r \in source'[e] : r.pos <= batches'[e]
                      /\ \A r, q \in source'[e] :
                           /\ r.key = q.key /\ r.pos = q.pos => r = q
                           /\ r.pos < q.pos => Earlier(r, q)
    BY DEF SourceInv, Earlier
  <2>1. CASE e # d
    BY <2>1, <1>4 DEF LoadInv, SourceInv
  <2>2. CASE e = d
    <3>1. IsFiniteSet(source'[d])
      <4>1. IsFiniteSet(source[d])
        BY DEF LoadInv, SourceInv
      <4>2. IsFiniteSet(source[d] \union batch)
        BY <1>3, <4>1, FS_Union
      <4> QED
        BY <1>4, <4>2
    <3>2. \A q \in batch : q.pos = n
      BY DEF batch
    <3>3. \A r \in source'[d] : r.pos <= n
      BY <1>1, <1>4, <1>6, <3>2
    <3>4. ASSUME NEW r \in source'[d], NEW q \in source'[d]
          PROVE  /\ r.key = q.key /\ r.pos = q.pos => r = q
                 /\ r.pos < q.pos => Earlier(r, q)
      <4>1. CASE r \in source[d] /\ q \in source[d]
        BY <4>1 DEF LoadInv, SourceInv
      <4>2. CASE r \in source[d] /\ q \in batch
        BY <4>2, <1>6, <1>7, <3>2, <1>1
      <4>3. CASE r \in batch /\ q \in source[d]
        BY <4>3, <1>6, <3>2, <1>1
      <4>4. CASE r \in batch /\ q \in batch
        BY <4>4, <1>8, <3>2, <1>1
      <4> QED
        BY <1>4, <4>1, <4>2, <4>3, <4>4
    <3> QED
      BY <2>2, <1>4, <3>1, <3>3, <3>4
  <2> QED
    BY <2>1, <2>2
<1>10. \A e \in Datasets : source[e] \subseteq source'[e]
  BY <1>4
<1>11. RunInv'
  <2>1. ASSUME Reading', NEW e \in Datasets
        PROVE  /\ frames'[e] \subseteq source'[e]
               /\ \A r \in frames'[e], q \in source'[e] \ frames'[e] : r.pos < q.pos
               /\ e \notin saved' => given'[e] = store'[e]
               /\ given'[e].watermark # None =>
                    \E r \in frames'[e] : r.time = given'[e].watermark
    <3>1. Reading
      BY <2>1, <1>4 DEF Reading, runVars
    <3>2. frames[e] \subseteq source[e]
      BY <3>1 DEF LoadInv, RunInv
    <3>3. \A r \in frames[e], q \in source'[e] \ frames[e] : r.pos < q.pos
      BY <3>1, <3>2, <1>4, <1>7 DEF LoadInv, RunInv
    <3> QED
      BY <3>1, <3>2, <3>3, <1>4, <1>10 DEF LoadInv, RunInv, runVars, callerVars
  <2> QED
    BY <2>1, <1>4 DEF LoadInv, RunInv, runVars, callerVars
<1>12. ResultsInv'
  BY <1>4 DEF LoadInv, ResultsInv, Processed, runVars
<1>13. StoreInv'
  BY <1>4, <1>10 DEF LoadInv, StoreInv, callerVars
<1>14. SinkInv'
  BY <1>4, <1>10 DEF LoadInv, SinkInv, Reading, runVars, callerVars
<1>15. DeliveredInv'
  BY <1>4 DEF LoadInv, DeliveredInv, Loaded, runVars, callerVars
<1>16. NothingLost'
  <2> SUFFICES ASSUME NEW e \in Datasets, NEW r \in source'[e], Covered(r, store[e])
               PROVE  Loaded(e, r)
    BY <1>4 DEF NothingLost, Covered, Loaded, callerVars
  <2>1. CASE r \in source[e]
    BY <2>1 DEF LoadInv, NothingLost
  <2>2. CASE r \notin source[e]
    <3>1. e = d /\ r \in batch
      BY <2>2, <1>4
    <3>2. PICK q \in source[d] : q.time = store[d].watermark
      BY <3>1 DEF Covered, LoadInv, StoreInv
    <3>3. Earlier(q, r) /\ q.time \in Nat /\ r.time \in Nat
      BY <1>2, <1>6, <1>7, <3>1, RowConstants DEF Row, Times
    <3> QED
      BY <3>1, <3>2, <3>3 DEF Covered, Earlier
  <2> QED
    BY <2>1, <2>2
<1>17. QED
  BY <1>5, <1>9, <1>11, <1>12, <1>13, <1>14, <1>15, <1>16 DEF LoadInv

\* A run reads the whole source and starts from what is kept.
LEMMA RunStartsKeeps ==
    ASSUME LoadInv, TypeOK', RunStarts
    PROVE  LoadInv'
<1>1. SourceInv'
  BY DEF LoadInv, SourceInv, Earlier, RunStarts, sourceVars
<1>2. RunInv'
  BY DEF LoadInv, RunInv, StoreInv, RunStarts, sourceVars
<1>3. ResultsInv'
  <2>1. phase' = "running" /\ at' = 1
    BY DEF RunStarts
  <2> QED
    BY <2>1 DEF ResultsInv, Processed, Datasets
<1>4. StoreInv' /\ NothingLost'
  BY DEF LoadInv, StoreInv, NothingLost, Covered, Loaded, RunStarts, sourceVars
<1>5. SinkInv' /\ DeliveredInv'
  BY DEF LoadInv, SinkInv, DeliveredInv, RunStarts, sourceVars
<1>6. QED
  BY <1>1, <1>2, <1>3, <1>4, <1>5 DEF LoadInv

\* A stage that leaves the frame as it is leaves everything but the log.
LEMMA StageKeeps ==
    ASSUME LoadInv, phase = "running", TypeOK',
           UNCHANGED <<sourceVars, callerVars, frames, given, phase, at, frame, results>>
    PROVE  LoadInv'
<1>1. SourceInv' /\ StoreInv' /\ NothingLost'
  BY DEF LoadInv, SourceInv, Earlier, StoreInv, NothingLost, Covered, Loaded,
         sourceVars, callerVars
<1>2. RunInv'
  BY DEF LoadInv, RunInv, Reading, sourceVars, callerVars
<1>3. ResultsInv'
  BY DEF LoadInv, ResultsInv, Processed
<1>4. SinkInv'
  BY DEF LoadInv, SinkInv, Reading, sourceVars, callerVars
<1>5. DeliveredInv'
  BY DEF DeliveredInv
<1>6. QED
  BY <1>1, <1>2, <1>3, <1>4, <1>5 DEF LoadInv

LEMMA ValidateKeeps ==
    ASSUME LoadInv, TypeOK', Validate \/ Clean
    PROVE  LoadInv'
BY StageKeeps DEF Validate, Clean, Succeeds

LEMMA TransformKeeps ==
    ASSUME ~KeepFirst, LoadInv, TypeOK', Transform
    PROVE  LoadInv'
<1>1. frame' = frame
  BY DEF Transform, TransformDuplicates
<1>2. QED
  BY <1>1, StageKeeps DEF Transform, Succeeds

\* The dataset at hand gets the result of process on what was read for it.
LEMMA IncrementalKeeps ==
    ASSUME BaseInv, TypeOK', LoadInv, Incremental
    PROVE  LoadInv'
<1> DEFINE done == Process(frame, given[at])
           result == [passed |-> passed, frame |-> done.frame, checkpoint |-> done.checkpoint]
<1>1. /\ phase = "running" /\ Reading
      /\ frame = frames[at] /\ delivered = {} /\ saved = {}
      /\ UNCHANGED <<sourceVars, callerVars, frames, given>>
      /\ results' = [results EXCEPT ![at] = result]
  BY IncrementalStep DEF LoadInv, RunInv, Reading, sourceVars, callerVars
<1>2. at \in Datasets /\ DatasetCount \in Nat \ {0} /\ at \in 1 .. DatasetCount
  BY EtlConstants DEF LoadInv, TypeOK, Datasets
<1>3. \/ /\ at < DatasetCount /\ phase' = phase
         /\ at' = at + 1 /\ frame' = frames[at + 1] /\ stage' = 1
      \/ at = DatasetCount /\ phase' = "returned" /\ UNCHANGED <<at, stage, frame>>
  BY IncrementalStep
<1> HIDE DEF result, done
<1>4. SourceInv' /\ StoreInv' /\ NothingLost'
  BY <1>1 DEF LoadInv, SourceInv, Earlier, StoreInv, NothingLost, Covered, Loaded,
              sourceVars, callerVars
<1>5. RunInv'
  <2>1. phase' = "running" => frame' = frames'[at'] /\ delivered' = {} /\ saved' = {}
    BY <1>1, <1>3 DEF callerVars
  <2> QED
    BY <1>1, <2>1 DEF LoadInv, RunInv, sourceVars, callerVars
<1>6. ResultsInv'
  <2> SUFFICES ASSUME NEW d \in Datasets,
                      Processed(d)'
               PROVE  /\ results'[d].frame = Process(frames[d], given[d]).frame
                      /\ results'[d].checkpoint = Process(frames[d], given[d]).checkpoint
    BY <1>1 DEF ResultsInv, Processed
  <2>1. d \in 1 .. DatasetCount
    BY DEF Datasets
  <2>2. d < at \/ d = at
    BY <1>1, <1>2, <1>3, <2>1 DEF Processed
  <2>3. CASE d = at
    BY <1>1, <1>2, <2>3 DEF result, done, LoadInv, TypeOK
  <2>4. CASE d < at
    BY <1>1, <1>2, <2>1, <2>4 DEF LoadInv, ResultsInv, Processed, TypeOK
  <2> QED
    BY <2>2, <2>3, <2>4
<1>7. SinkInv'
  BY <1>1, <1>3 DEF LoadInv, SinkInv, Reading, sourceVars, callerVars
<1>8. DeliveredInv'
  BY <1>1 DEF DeliveredInv, callerVars
<1>9. QED
  BY <1>4, <1>5, <1>6, <1>7, <1>8 DEF LoadInv

\* Nothing kept depends on a run that is over.
LEMMA RunOverKeeps ==
    ASSUME LoadInv, TypeOK', phase' \in {"idle", "raised"},
           UNCHANGED <<sourceVars, callerVars>>
    PROVE  LoadInv'
<1>1. SourceInv' /\ StoreInv' /\ NothingLost'
  BY DEF LoadInv, SourceInv, Earlier, StoreInv, NothingLost, Covered, Loaded,
         sourceVars, callerVars
<1>2. RunInv' /\ ResultsInv' /\ DeliveredInv'
  BY DEF RunInv, ResultsInv, Processed, DeliveredInv, Reading
<1>3. SinkInv'
  BY DEF LoadInv, SinkInv, Reading, sourceVars, callerVars
<1>4. QED
  BY <1>1, <1>2, <1>3 DEF LoadInv

-----------------------------------------------------------------------------
(* The caller's steps.                                                     *)

\* What Deliver stores is the selection of what was read.
LEMMA DeliverStores ==
    ASSUME LoadInv, NEW d \in Datasets, Deliver(d)
    PROVE  LET output == Output(frames[d], given[d].watermark) IN
           /\ results[d].frame = output
           /\ sink'[d] = Upsert(sink[d], output)
           /\ \A e \in Datasets : e # d => sink'[e] = sink[e]
           /\ sink' \in [Datasets -> [Keys -> Row \union {None}]]
           /\ sink'[d] \in [Keys -> Row \union {None}]
<1> DEFINE output == Output(frames[d], given[d].watermark)
<1>1. Reading /\ sink' = [sink EXCEPT ![d] = Upsert(sink[d], results[d].frame)]
  BY DEF Deliver, Reading
<1>2. output \subseteq frames[d] /\ IsFiniteSet(frames[d]) /\ frames[d] \subseteq Row
  BY <1>1, OutputOrdered
<1>3. results[d].frame = output
  <2>1. given[d] \in DatasetCheckpoint
    BY DEF LoadInv, TypeOK
  <2>2. Process(frames[d], given[d]).frame = output
    BY <1>2, <2>1, ProcessType
  <2> QED
    BY <2>2 DEF LoadInv, ResultsInv, Processed, Deliver
<1>4. sink \in [Datasets -> [Keys -> Row \union {None}]]
  BY DEF LoadInv, TypeOK
<1>5. Upsert(sink[d], output) \in [Keys -> Row \union {None}]
  <2>1. sink[d] \in [Keys -> Row \union {None}]
    BY <1>4
  <2>2. output \subseteq Row
    BY <1>2
  <2> HIDE DEF output
  <2> QED
    BY <2>1, <2>2, UpsertType
<1> HIDE DEF output
<1>6. QED
  BY <1>1, <1>3, <1>4, <1>5 DEF output

\* Storing a frame never goes back: a loaded row that the selection leaves
\* out is older than the watermark, so it came before what is selected.
LEMMA DeliverForward ==
    ASSUME LoadInv, NEW d \in Datasets, Deliver(d), NEW k \in Keys
    PROVE  LET output == Output(frames[d], given[d].watermark) IN
           /\ sink'[d] = Upsert(sink[d], output)
           /\ sink'[d][k] # sink[d][k] => sink'[d][k] \in output /\ sink'[d][k].key = k
           /\ \A o \in output : o.key = k => sink'[d][k] # None /\ sink'[d][k].pos >= o.pos
           /\ sink[d][k] # None => sink'[d][k] # None /\ sink'[d][k].pos >= sink[d][k].pos
<1> DEFINE w == given[d].watermark
           output == Output(frames[d], w)
<1>1. Reading /\ d \notin delivered
  BY DEF Deliver, Reading
<1>2. /\ Ordered(frames[d]) /\ output \subseteq frames[d] /\ Ordered(output)
      /\ Ordered(Select(frames[d], w)) /\ frames[d] \subseteq Row /\ IsFiniteSet(frames[d])
      /\ frames[d] \subseteq source[d]
  BY <1>1, OutputOrdered
<1> DEFINE new == Upsert(sink[d], output)[k]
<1>4. sink'[d] = Upsert(sink[d], output)
  BY DeliverStores
<1>5. /\ (\A r \in output : r.key # k) => new = sink[d][k]
      /\ (\E r \in output : r.key = k) =>
           new \in output /\ new.key = k /\ \A r \in output : r.key = k => r.pos <= new.pos
  <2> HIDE DEF output
  <2> QED
    BY <1>2, UpsertKeepsLatest
<1>6. \A r \in frames[d] : r # None /\ r.pos \in Nat /\ r.time \in Nat
  BY <1>2, RowConstants, NoneIsNoRow DEF Row, Times
<1> HIDE DEF new, output
<1>7. new # sink[d][k] => new \in output /\ new.key = k
  BY <1>5
<1>8. \A o \in output : o.key = k => new # None /\ new.pos >= o.pos
  BY <1>2, <1>5, <1>6
<1>9. ASSUME sink[d][k] # None
      PROVE  new # None /\ new.pos >= sink[d][k].pos
  <2> DEFINE s == sink[d][k]
  <2>1. s \in frames[d] /\ s.key = k
    BY <1>1, <1>9 DEF LoadInv, SinkInv
  <2>2. CASE \A r \in output : r.key # k
    BY <1>5, <1>6, <1>9, <2>1, <2>2
  <2>3. CASE \E r \in output : r.key = k
    <3>1. new \in output /\ new \in frames[d] /\ new.key = k
      BY <1>2, <1>5, <2>3
    <3>2. CASE s \in Select(frames[d], w)
      <4>1. PICK o \in output : o.key = k /\ o.pos >= s.pos
        BY <1>2, <2>1, <3>2, DeduplicateCovers DEF output, Output
      <4> QED
        BY <1>2, <1>6, <1>8, <2>1, <3>1, <4>1
    <3>3. CASE s \notin Select(frames[d], w)
      <4>1. w # None /\ ~ IsNewer(s, w)
        BY <2>1, <3>3 DEF Select
      <4>2. IsNewer(new, w)
        BY <3>1, <4>1, <3>3, <2>1, DeduplicateIsSubset DEF output, Output, Select
      <4>3. w \in Nat
        BY <4>1, RowConstants DEF LoadInv, TypeOK, DatasetCheckpoint, Times
      <4>4. s.time < new.time
        BY <1>6, <2>1, <3>1, <4>1, <4>2, <4>3 DEF IsNewer
      <4>5. ~ (new.pos < s.pos)
        BY <1>2, <1>6, <2>1, <3>1, <4>4 DEF Ordered
      <4> QED
        BY <1>6, <2>1, <3>1, <4>5
    <3> QED
      BY <3>2, <3>3
  <2> QED
    BY <2>2, <2>3
<1>10. sink'[d][k] = new
  BY <1>4 DEF new
<1>11. QED
  BY <1>4, <1>7, <1>8, <1>9, <1>10 DEF output

\* Once loaded, a row stays loaded.
LEMMA DeliverKeepsLoaded ==
    ASSUME LoadInv, NEW d \in Datasets, Deliver(d), NEW e \in Datasets, NEW r \in Row,
           Loaded(e, r)
    PROVE  Loaded(e, r)'
<1>1. r.key \in Keys /\ r.pos \in Nat
  BY RowConstants DEF Row
<1>2. CASE e # d
  BY <1>1, <1>2 DEF Loaded, Deliver, LoadInv, TypeOK
<1>3. CASE e = d
  <2>1. sink[d][r.key] \in Row
    BY <1>1, <1>3 DEF Loaded, LoadInv, TypeOK
  <2>2. sink'[d][r.key] # None /\ sink'[d][r.key].pos >= sink[d][r.key].pos
    BY <1>1, <1>3, DeliverForward DEF Loaded
  <2>3. sink'[d] = Upsert(sink[d], Output(frames[d], given[d].watermark))
    BY <1>1, DeliverForward
  <2>4. Ordered(Output(frames[d], given[d].watermark))
    BY OutputOrdered DEF Deliver, Reading
  <2>5. sink'[d] \in [Keys -> Row \union {None}]
    BY DeliverStores
  <2>6. sink'[d][r.key].pos \in Nat /\ sink[d][r.key].pos \in Nat
    BY <1>1, <2>1, <2>2, <2>5, RowConstants DEF Row
  <2> QED
    BY <1>1, <1>3, <2>2, <2>6 DEF Loaded
<1>4. QED
  BY <1>2, <1>3

LEMMA DeliverKeeps ==
    ASSUME LoadInv, TypeOK', NEW d \in Datasets, Deliver(d)
    PROVE  LoadInv'
<1> DEFINE output == Output(frames[d], given[d].watermark)
<1>1. /\ phase = "returned" /\ d \notin delivered
      /\ delivered' = delivered \union {d}
      /\ UNCHANGED <<sourceVars, store, saved, runVars>>
  BY DEF Deliver
<1>2. /\ output \subseteq frames[d] /\ Ordered(output)
      /\ Ordered(Select(frames[d], given[d].watermark))
      /\ frames[d] \subseteq source[d] /\ frames[d] \subseteq Row
  BY <1>1, OutputOrdered DEF Reading
<1>3. SourceInv' /\ ResultsInv' /\ StoreInv'
  BY <1>1 DEF LoadInv, SourceInv, Earlier, ResultsInv, Processed, StoreInv, sourceVars, runVars
<1>4. RunInv'
  BY <1>1 DEF LoadInv, RunInv, Reading, sourceVars, runVars
<1>5. SinkInv'
  <2> SUFFICES ASSUME NEW e \in Datasets, NEW k \in Keys, sink'[e][k] # None
               PROVE  /\ sink'[e][k] \in source[e] /\ sink'[e][k].key = k
                      /\ e \notin delivered' => sink'[e][k] \in frames[e]
    BY <1>1 DEF SinkInv, sourceVars, runVars
  <2>1. CASE e # d
    BY <1>1, <2>1, DeliverStores DEF LoadInv, SinkInv, Reading
  <2>2. CASE e = d /\ sink'[d][k] = sink[d][k]
    BY <1>1, <2>2 DEF LoadInv, SinkInv
  <2>3. CASE e = d /\ sink'[d][k] # sink[d][k]
    <3>1. sink'[d][k] \in output /\ sink'[d][k].key = k
      BY <2>3, DeliverForward
    <3> QED
      BY <1>1, <1>2, <2>3, <3>1
  <2> QED
    BY <2>1, <2>2, <2>3
<1>6. DeliveredInv'
  <2> SUFFICES ASSUME NEW e \in delivered',
                      NEW r \in Select(frames[e], given[e].watermark)
               PROVE  Loaded(e, r)'
    BY <1>1 DEF DeliveredInv, runVars
  <2>1. CASE e # d
    <3>1. e \in delivered /\ e \in Datasets /\ Loaded(e, r)
      BY <1>1, <2>1 DEF LoadInv, TypeOK, DeliveredInv
    <3>2. r \in Row
      BY <3>1 DEF Select, LoadInv, TypeOK
    <3> QED
      BY <3>1, <3>2, DeliverKeepsLoaded
  <2>2. CASE e = d
    <3>1. PICK o \in output : o.key = r.key /\ o.pos >= r.pos
      BY <1>2, <2>2, DeduplicateCovers DEF Output
    <3>2. r \in Row /\ o \in Row
      BY <1>2, <2>2, <3>1 DEF Ordered
    <3>3. sink'[d][r.key] # None /\ sink'[d][r.key].pos >= o.pos
      BY <3>1, <3>2, DeliverForward DEF Row
    <3>4. sink'[d][r.key] \in Row
      BY <3>2, <3>3, DeliverStores DEF Row
    <3>5. sink'[d][r.key].pos \in Nat /\ o.pos \in Nat /\ r.pos \in Nat
      BY <3>2, <3>4, RowConstants DEF Row
    <3> QED
      BY <2>2, <3>1, <3>3, <3>5 DEF Loaded
  <2> QED
    BY <2>1, <2>2
<1>7. NothingLost'
  <2> SUFFICES ASSUME NEW e \in Datasets, NEW r \in source[e], Covered(r, store[e])
               PROVE  Loaded(e, r)'
    BY <1>1 DEF NothingLost, Covered, sourceVars
  <2>1. r \in Row /\ Loaded(e, r)
    BY DEF LoadInv, TypeOK, NothingLost
  <2> QED
    BY <2>1, DeliverKeepsLoaded
<1>8. QED
  BY <1>3, <1>4, <1>5, <1>6, <1>7 DEF LoadInv

\* The checkpoint of a run covers only what the run stored or found covered:
\* rows that arrived after it started are later than all it read.
LEMMA CheckpointCoversLoaded ==
    ASSUME LoadInv, NEW d \in Datasets, phase = "returned", d \in delivered, d \notin saved,
           NEW r \in source[d], Covered(r, results[d].checkpoint)
    PROVE  Loaded(d, r)
<1> DEFINE w == given[d].watermark
           output == Output(frames[d], w)
           maximum == results[d].checkpoint.watermark
<1>1. /\ frames[d] \subseteq Row /\ IsFiniteSet(frames[d]) /\ frames[d] \subseteq source[d]
      /\ output \subseteq frames[d]
  BY OutputOrdered DEF Reading
<1>2. given[d] \in DatasetCheckpoint /\ given[d] = store[d]
  BY DEF LoadInv, TypeOK, RunInv, Reading
<1>3. maximum = MaximumWatermark(output, w)
  BY <1>1, <1>2, ProcessType DEF LoadInv, ResultsInv, Processed
<1>4. \A q \in source[d] : q \in Row /\ q.time \in Nat /\ q.pos \in Nat
  BY RowConstants DEF LoadInv, TypeOK, Row, Times
<1>5. maximum # None
  BY DEF Covered
<1>6. \E q \in frames[d] : q.time = maximum
  <2>1. output \subseteq Row
    BY <1>1
  <2>2. CASE output = {}
    BY <1>3, <1>5, <2>1, <2>2, MaximumIsGreatest DEF LoadInv, RunInv, Reading
  <2>3. CASE output # {}
    <3> HIDE DEF output, maximum, w
    <3>1. PICK q \in output : q.time = MaximumWatermark(output, w)
      BY <2>1, <2>3, MaximumIsGreatest
    <3> QED
      BY <1>1, <1>3, <3>1
  <2> QED
    BY <2>2, <2>3
<1> HIDE DEF output, maximum
<1>7. r \in frames[d]
  <2> SUFFICES ASSUME r \notin frames[d]
               PROVE  FALSE
    OBVIOUS
  <2>1. PICK q \in frames[d] : q.time = maximum
    BY <1>6
  <2>2. q.pos < r.pos
    BY <2>1 DEF LoadInv, RunInv, Reading
  <2>3. Earlier(q, r)
    BY <1>1, <2>1, <2>2 DEF LoadInv, SourceInv
  <2> QED
    BY <1>1, <1>4, <2>1, <2>3 DEF Covered, Earlier, maximum
<1>8. CASE r \in Select(frames[d], w)
  BY <1>8 DEF LoadInv, DeliveredInv
<1>9. CASE r \notin Select(frames[d], w)
  <2>1. w # None /\ ~ IsNewer(r, w)
    BY <1>7, <1>9 DEF Select
  <2>2. w \in Nat
    BY <1>2, <2>1, RowConstants DEF DatasetCheckpoint, Times
  <2>3. Covered(r, store[d])
    BY <1>2, <1>4, <2>1, <2>2 DEF Covered, IsNewer
  <2> QED
    BY <2>3 DEF LoadInv, NothingLost
<1>10. QED
  BY <1>8, <1>9

\* The watermark of a result is that of some row the run read.
LEMMA ResultWatermarkIsRead ==
    ASSUME LoadInv, NEW d \in Datasets, phase = "returned"
    PROVE  /\ results[d].checkpoint \in DatasetCheckpoint
           /\ results[d].checkpoint.watermark # None =>
                \E q \in source[d] : q.time = results[d].checkpoint.watermark
<1> DEFINE w == given[d].watermark
           output == Output(frames[d], w)
<1>1. /\ frames[d] \subseteq Row /\ IsFiniteSet(frames[d]) /\ frames[d] \subseteq source[d]
      /\ output \subseteq frames[d]
  BY OutputOrdered DEF Reading
<1>2. given[d] \in DatasetCheckpoint
  BY DEF LoadInv, TypeOK
<1>3. /\ results[d].checkpoint \in DatasetCheckpoint
      /\ results[d].checkpoint.watermark = MaximumWatermark(output, w)
  BY <1>1, <1>2, ProcessType DEF LoadInv, ResultsInv, Processed
<1>4. output \subseteq Row
  BY <1>1
<1>5. CASE output = {}
  <2>1. results[d].checkpoint.watermark = w
    BY <1>3, <1>4, <1>5, MaximumIsGreatest
  <2>2. w # None => \E q \in frames[d] : q.time = w
    BY DEF LoadInv, RunInv, Reading
  <2> QED
    BY <1>1, <1>3, <2>1, <2>2
<1>6. CASE output # {}
  <2> HIDE DEF output
  <2>1. \E q \in output : q.time = MaximumWatermark(output, w)
    BY <1>4, <1>6, MaximumIsGreatest
  <2> QED
    BY <1>1, <1>3, <2>1
<1>7. QED
  BY <1>5, <1>6

LEMMA SaveCheckpointKeeps ==
    ASSUME LoadInv, TypeOK', NEW d \in Datasets, SaveCheckpoint(d)
    PROVE  LoadInv'
<1>1. /\ phase = "returned" /\ d \in delivered /\ d \notin saved
      /\ store' = [store EXCEPT ![d] = results[d].checkpoint]
      /\ saved' = saved \union {d}
      /\ UNCHANGED <<sourceVars, sink, delivered>>
      /\ Forget \/ UNCHANGED runVars
  BY DEF SaveCheckpoint
<1>2. /\ store'[d] = results[d].checkpoint
      /\ \A e \in Datasets : e # d => store'[e] = store[e]
  BY <1>1 DEF LoadInv, TypeOK
<1>4. SourceInv'
  BY <1>1 DEF LoadInv, SourceInv, Earlier, sourceVars
<1>5. StoreInv'
  <2> SUFFICES ASSUME NEW e \in Datasets, store'[e].watermark # None
               PROVE  \E r \in source[e] : r.time = store'[e].watermark
    BY <1>1 DEF StoreInv, sourceVars
  <2>1. CASE e # d
    BY <1>2, <2>1 DEF LoadInv, StoreInv
  <2>2. CASE e = d
    BY <1>1, <1>2, <2>2, ResultWatermarkIsRead
  <2> QED
    BY <2>1, <2>2
<1>6. NothingLost'
  <2> SUFFICES ASSUME NEW e \in Datasets, NEW r \in source[e], Covered(r, store'[e])
               PROVE  Loaded(e, r)
    BY <1>1 DEF NothingLost, Covered, Loaded, sourceVars
  <2>1. CASE e # d
    BY <1>2, <2>1 DEF LoadInv, NothingLost
  <2>2. CASE e = d
    BY <1>1, <1>2, <2>2, CheckpointCoversLoaded
  <2> QED
    BY <2>1, <2>2
<1>7. CASE UNCHANGED runVars
  <2>2. RunInv'
    BY <1>1, <1>2, <1>7 DEF LoadInv, RunInv, Reading, sourceVars, runVars
  <2>3. ResultsInv'
    BY <1>7 DEF LoadInv, ResultsInv, Processed, runVars
  <2>4. SinkInv'
    BY <1>1, <1>7 DEF LoadInv, SinkInv, Reading, sourceVars, runVars
  <2>5. DeliveredInv'
    BY <1>1, <1>7 DEF LoadInv, DeliveredInv, Loaded, sourceVars, runVars
  <2> QED
    BY <1>4, <1>5, <1>6, <2>2, <2>3, <2>4, <2>5 DEF LoadInv
<1>8. CASE Forget
  <2>1. phase' = "idle"
    BY <1>8 DEF Forget
  <2>3. RunInv' /\ ResultsInv' /\ DeliveredInv'
    BY <2>1 DEF RunInv, ResultsInv, Processed, DeliveredInv, Reading
  <2>4. SinkInv'
    BY <1>1, <2>1 DEF LoadInv, SinkInv, Reading, sourceVars
  <2> QED
    BY <1>4, <1>5, <1>6, <2>3, <2>4 DEF LoadInv
<1>9. QED
  BY <1>1, <1>7, <1>8

-----------------------------------------------------------------------------
(* The theorems, for batches in order and transformations that keep every  *)
(* row: behind a watermark a late row is never selected, and a             *)
(* transformation that keeps the first row of a key drops the later one.   *)

LEMMA StepKeeps ==
    ASSUME ~LateRows, ~KeepFirst, BaseInv, BaseInv', LoadInv, [Next]_vars
    PROVE  LoadInv'
<1>1. ASSUME NEW d \in Datasets, NEW ks \in (SUBSET Keys) \ {{}}, NEW t \in Times,
             Arrive(d, ks, t)
      PROVE  LoadInv'
  BY <1>1, ArriveKeeps
<1>2. TypeOK'
  BY DEF BaseInv
<1>3. CASE RunFails \/ Crash
  BY <1>2, <1>3, RunOverKeeps, RunRaises DEF Raises, Crash, Forget
<1>4. CASE RunSteps
  BY <1>2, <1>3, <1>4, RunStartsKeeps, ValidateKeeps, TransformKeeps, IncrementalKeeps
     DEF RunSteps
<1>5. CASE CallerSteps
  BY <1>2, <1>3, <1>5, DeliverKeeps, SaveCheckpointKeeps DEF CallerSteps
<1>6. CASE UNCHANGED vars
  <2>1. SourceInv' /\ RunInv' /\ ResultsInv' /\ StoreInv'
    BY <1>6 DEF vars, sourceVars, callerVars, runVars, LoadInv, SourceInv, Earlier,
                RunInv, ResultsInv, Processed, StoreInv, Reading
  <2>2. SinkInv' /\ DeliveredInv' /\ NothingLost'
    BY <1>6 DEF vars, sourceVars, callerVars, runVars, LoadInv, SinkInv, DeliveredInv,
                NothingLost, Covered, Loaded, Reading
  <2> QED
    BY <1>2, <2>1, <2>2 DEF LoadInv
<1>7. QED
  BY <1>1, <1>4, <1>5, <1>6 DEF Next

\* What the source, the run, its results and the loaded table have to do with
\* each other, whatever step crashed, failed or was repeated.
THEOREM EtlLoadInv ==
    ASSUME ~LateRows, ~KeepFirst
    PROVE  Spec => []LoadInv
<1>1. BaseInv /\ BaseInv' /\ LoadInv /\ [Next]_vars => LoadInv'
  BY StepKeeps
<1>2. QED
  BY InitLoad, EtlBase, <1>1, PTL DEF Spec

\* Whatever crashed, failed or arrived in between, a kept checkpoint covers
\* only rows whose key was loaded with that row or a later one.
THEOREM EtlNothingLost ==
    ASSUME ~LateRows, ~KeepFirst
    PROVE  Spec => []NothingLost
<1>1. LoadInv => NothingLost
  BY DEF LoadInv
<1>2. QED
  BY EtlLoadInv, <1>1, PTL

\* A step never puts an older row in the place of a loaded one.
LEMMA StepForward ==
    ASSUME LoadInv, [Next]_vars, NEW e \in Datasets, NEW k \in Keys, sink[e][k] # None
    PROVE  sink'[e][k] # None /\ sink'[e][k].pos >= sink[e][k].pos
<1>1. sink[e][k] \in Row
  BY DEF LoadInv, TypeOK
<1>2. sink[e][k].pos >= sink[e][k].pos
  BY <1>1, RowConstants DEF Row
<1>3. ASSUME NEW d \in Datasets, Deliver(d)
      PROVE  sink'[e][k] # None /\ sink'[e][k].pos >= sink[e][k].pos
  <2>1. CASE e = d
    BY <1>3, <2>1, DeliverForward
  <2>2. CASE e # d
    BY <1>2, <1>3, <2>2, DeliverStores
  <2> QED
    BY <2>1, <2>2
<1>4. CASE UNCHANGED sink
  BY <1>2, <1>4
<1>5. RunSteps => UNCHANGED sink
  BY DEF RunSteps, RunStarts, Validate, Clean, Transform, Incremental, RunFails, StageFails,
         DatasetFails, LineageFails, Raises, Succeeds,
         callerVars
<1>6. Crash => UNCHANGED sink
  BY DEF Crash, callerVars
<1>7. \A d \in Datasets : SaveCheckpoint(d) => UNCHANGED sink
  BY DEF SaveCheckpoint
<1>8. \A d \in Datasets, ks \in (SUBSET Keys) \ {{}}, t \in Times :
        Arrive(d, ks, t) => UNCHANGED sink
  BY DEF Arrive, callerVars
<1>9. QED
  BY <1>3, <1>4, <1>5, <1>6, <1>7, <1>8 DEF Next, CallerSteps, vars, callerVars

\* Loading again after a crash or a failed stage never takes a loaded key
\* back to an older row.
THEOREM EtlSinkForward ==
    ASSUME ~LateRows, ~KeepFirst
    PROVE  Spec => SinkForward
<1>1. LoadInv /\ [Next]_vars =>
        [\A d \in Datasets, k \in Keys :
           sink[d][k] # None => sink'[d][k] # None /\ sink'[d][k].pos >= sink[d][k].pos]_vars
  BY StepForward
<1>2. QED
  BY EtlLoadInv, <1>1, PTL DEF Spec, SinkForward

-----------------------------------------------------------------------------
(* What a run counts, in every mode: its results come from what it read    *)
(* and from the checkpoints that are still kept.                           *)

LEMMA SelectGrows ==
    ASSUME NEW rows, NEW more, rows \subseteq more, NEW w
    PROVE  Select(rows, w) \subseteq Select(more, w) /\ Select(rows, w) \subseteq rows
BY DEF Select

LEMMA InitCounts == Init => CountInv
BY DEF Init, CountInv, Reading, Processed

LEMMA IncrementalCounts ==
    ASSUME BaseInv, CountInv, Incremental
    PROVE  CountInv'
<1> DEFINE output == Output(frame, given[at].watermark)
           checkpoint == [watermark |-> MaximumWatermark(output, given[at].watermark),
                          processed |-> given[at].processed + Cardinality(output)]
<1>1. /\ phase = "running" /\ at \in 1 .. DatasetCount /\ DatasetCount \in Nat
      /\ UNCHANGED <<source, batches, store, sink, delivered, saved, frames, given>>
      /\ \/ /\ at < DatasetCount /\ phase' = phase
            /\ at' = at + 1 /\ frame' = frames[at + 1]
         \/ at = DatasetCount /\ phase' = "returned" /\ UNCHANGED <<at, frame>>
  BY IncrementalStep
<1>2. results' = [results EXCEPT ![at] =
        [passed |-> passed, frame |-> output, checkpoint |-> checkpoint]]
  BY IncrementalStep DEF Process
<1>3. frame \subseteq frames[at] /\ delivered = {} /\ saved = {}
  BY <1>1 DEF CountInv
<1>4. output \subseteq Select(frames[at], given[at].watermark)
  <2>1. output \subseteq Select(frame, given[at].watermark)
    BY DeduplicateIsSubset DEF Output
  <2> QED
    BY <1>3, <2>1, SelectGrows
<1> HIDE DEF output
<1>5. ASSUME NEW d \in Datasets, Processed(d)'
      PROVE  /\ results'[d].frame \subseteq Select(frames[d], given[d].watermark)
             /\ results'[d].checkpoint =
                  [watermark |-> MaximumWatermark(results'[d].frame, given[d].watermark),
                   processed |-> given[d].processed + Cardinality(results'[d].frame)]
  <2>1. d \in 1 .. DatasetCount
    BY DEF Datasets
  <2>2. d < at \/ d = at
    BY <1>1, <1>5, <2>1 DEF Processed
  <2>3. CASE d = at
    BY <1>2, <1>4, <2>3 DEF BaseInv, TypeOK
  <2>4. CASE d < at
    <3>1. Processed(d) /\ results'[d] = results[d]
      BY <1>1, <1>2, <2>1, <2>4 DEF Processed, BaseInv, TypeOK
    <3> QED
      BY <3>1 DEF CountInv
  <2> QED
    BY <2>2, <2>3, <2>4
<1>6. phase' = "running" => frame' \subseteq frames'[at'] /\ delivered' = {} /\ saved' = {}
  BY <1>1, <1>3
<1>7. Reading' => \A d \in Datasets :
        frames'[d] \subseteq source'[d] /\ (d \notin saved' => given'[d] = store'[d])
  BY <1>1 DEF CountInv, Reading
<1>8. QED
  BY <1>1, <1>5, <1>6, <1>7 DEF CountInv

LEMMA CallerCounts ==
    ASSUME BaseInv, CountInv, CallerSteps
    PROVE  CountInv'
<1>1. ASSUME Forget
      PROVE  CountInv'
  BY <1>1 DEF Forget, CountInv, Reading, Processed
<1>2. ASSUME NEW d \in Datasets, Deliver(d)
      PROVE  CountInv'
  BY <1>2 DEF Deliver, CountInv, Reading, Processed, sourceVars, runVars
<1>3. ASSUME NEW d \in Datasets, SaveCheckpoint(d)
      PROVE  CountInv'
  <2>1. CASE UNCHANGED runVars
    <3>1. /\ phase = "returned" /\ saved' = saved \union {d} /\ UNCHANGED sourceVars
          /\ \A e \in Datasets : e # d => store'[e] = store[e]
      BY <1>3 DEF SaveCheckpoint, BaseInv, TypeOK
    <3>2. Reading' => \A e \in Datasets :
            frames'[e] \subseteq source'[e] /\ (e \notin saved' => given'[e] = store'[e])
      BY <2>1, <3>1 DEF CountInv, Reading, sourceVars, runVars
    <3> QED
      BY <2>1, <3>1, <3>2 DEF CountInv, Processed, runVars
  <2> QED
    BY <1>1, <1>3, <2>1 DEF SaveCheckpoint
<1>4. QED
  BY <1>1, <1>2, <1>3 DEF CallerSteps, Crash

LEMMA StepCounts ==
    ASSUME BaseInv, CountInv, [Next]_vars
    PROVE  CountInv'
<1>1. ASSUME NEW d \in Datasets, NEW ks \in (SUBSET Keys) \ {{}}, NEW t \in Times,
             Arrive(d, ks, t)
      PROVE  CountInv'
  <2>1. /\ \A e \in Datasets : source[e] \subseteq source'[e]
        /\ UNCHANGED <<callerVars, runVars>>
    BY <1>1 DEF Arrive, BaseInv, TypeOK
  <2> QED
    BY <2>1 DEF CountInv, Reading, Processed, callerVars, runVars
<1>2. CASE RunStarts
  <2>1. /\ phase' = "running" /\ at' = 1 /\ frame' = source[1] /\ frames' = source
        /\ given' = store /\ delivered' = {} /\ saved' = {}
        /\ UNCHANGED <<source, store>>
    BY <1>2 DEF RunStarts, sourceVars
  <2>2. \A d \in Datasets : ~ Processed(d)'
    BY <2>1, EtlConstants DEF Processed, Datasets
  <2> QED
    BY <2>1, <2>2 DEF CountInv
<1>3. CASE Validate \/ Clean \/ Transform
  <2>1. frame' \subseteq frame
    BY <1>3 DEF Validate, Clean, Transform, TransformDuplicates, FirstOfKey
  <2>2. UNCHANGED <<source, store, delivered, saved, frames, given, phase, at, results>>
    BY <1>3 DEF Validate, Clean, Transform, Succeeds, sourceVars, callerVars
  <2> QED
    BY <2>1, <2>2 DEF CountInv, Reading, Processed
<1>4. CASE RunFails
  BY <1>4, RunRaises DEF Raises, CountInv, Reading, Processed
<1>5. CASE UNCHANGED vars
  BY <1>5 DEF vars, sourceVars, callerVars, runVars, CountInv, Reading, Processed
<1>6. QED
  BY <1>1, <1>2, <1>3, <1>4, <1>5, IncrementalCounts, CallerCounts DEF Next, RunSteps

\* The results of a run are the rows it selected, counted on top of the
\* checkpoint it started from, whatever the mode.
THEOREM EtlCounts == Spec => []CountInv
<1>1. BaseInv /\ CountInv /\ [Next]_vars => CountInv'
  BY StepCounts
<1>2. QED
  BY InitCounts, EtlBase, <1>1, PTL DEF Spec

\* What saving the checkpoint of a returned run claims.
LEMMA SavedCheckpoint ==
    ASSUME LoadMode = "incremental", BaseInv, CountInv, NEW d \in Datasets,
           phase = "returned", d \notin saved
    PROVE  LET w == store[d].watermark
               new == results[d].checkpoint.watermark
               loaded == results[d].frame
           IN  /\ loaded \subseteq source[d]
               /\ results[d].checkpoint.processed = store[d].processed + Cardinality(loaded)
               /\ w # None => new # None /\ new >= w
               /\ loaded = {} => new = w
               /\ \A r \in loaded : /\ new # None /\ r.time <= new
                                    /\ ~ Inclusive /\ w # None => r.time > w
<1> DEFINE w == store[d].watermark
           new == results[d].checkpoint.watermark
           loaded == results[d].frame
<1>1. /\ frames[d] \subseteq source[d] /\ given[d] = store[d]
      /\ loaded \subseteq Select(frames[d], w)
      /\ results[d].checkpoint = [watermark |-> MaximumWatermark(loaded, w),
                                  processed |-> store[d].processed + Cardinality(loaded)]
  BY DEF CountInv, Reading, Processed
<1>2. new = MaximumWatermark(loaded, w)
  BY <1>1
<1>3. loaded \subseteq frames[d] /\ loaded \subseteq Row
  BY <1>1, SelectGrows DEF BaseInv, TypeOK
<1>4. /\ w # None => w \in Nat
      /\ \A r \in loaded : r.time \in Nat /\ r.time # None
  BY <1>3, RowConstants DEF BaseInv, TypeOK, DatasetCheckpoint, Row, Times
<1>5. \A r \in loaded : w # None => IsNewer(r, w)
  BY <1>1 DEF Select
<1> HIDE DEF loaded, w
<1>6. /\ loaded = {} => new = w
      /\ loaded # {} => /\ \E r \in loaded : r.time = new
                        /\ \A r \in loaded : r.time <= new
  BY <1>2, <1>3, MaximumIsGreatest
<1> HIDE DEF new
<1>7. \A r \in loaded : new # None /\ r.time <= new /\ (~ Inclusive /\ w # None => r.time > w)
  BY <1>4, <1>5, <1>6 DEF IsNewer
<1>8. w # None => new # None /\ new >= w
  <2>1. CASE loaded = {}
    BY <1>4, <1>6, <2>1
  <2>2. CASE loaded # {}
    <3>1. PICK r \in loaded : r.time = new
      BY <1>6, <2>2
    <3> QED
      BY <1>4, <1>5, <3>1 DEF IsNewer
  <2> QED
    BY <2>1, <2>2
<1>9. QED
  BY <1>1, <1>3, <1>6, <1>7, <1>8 DEF loaded, w, new

\* The rows a checkpoint counts among those of its source.
CountedRows(d) ==
  {r \in source[d] : store[d].watermark # None /\ r.time <= store[d].watermark}

LEMMA StepCountsOnce ==
    ASSUME LoadMode = "incremental", ~ Inclusive, BaseInv, BaseInv', CountInv, CountedOnce,
           [Next]_vars
    PROVE  CountedOnce'
<1> SUFFICES ASSUME NEW e \in Datasets
             PROVE  store'[e].processed <= Cardinality(CountedRows(e)')
  BY DEF CountedOnce, CountedRows
<1>1. /\ IsFiniteSet(CountedRows(e)) /\ IsFiniteSet(CountedRows(e)')
      /\ Cardinality(CountedRows(e)) \in Nat /\ Cardinality(CountedRows(e)') \in Nat
  BY FS_Subset, FS_CardinalityType DEF CountedRows, BaseInv, FiniteInv
<1>2. store[e].processed <= Cardinality(CountedRows(e)) /\ store[e].processed \in Nat
  BY DEF CountedOnce, CountedRows, BaseInv, TypeOK, DatasetCheckpoint
<1>3. ASSUME UNCHANGED store, \A d \in Datasets : source[d] \subseteq source'[d]
      PROVE  store'[e].processed <= Cardinality(CountedRows(e)')
  <2>1. CountedRows(e) \subseteq CountedRows(e)'
    BY <1>3 DEF CountedRows
  <2>2. Cardinality(CountedRows(e)) <= Cardinality(CountedRows(e)')
    BY <1>1, <2>1, FS_Subset
  <2> QED
    BY <1>1, <1>2, <1>3, <2>2
<1>4. ASSUME NEW d \in Datasets, SaveCheckpoint(d)
      PROVE  store'[e].processed <= Cardinality(CountedRows(e)')
  <2> DEFINE loaded == results[d].frame
  <2>1. /\ phase = "returned" /\ d \notin saved /\ UNCHANGED source
        /\ store' = [store EXCEPT ![d] = results[d].checkpoint]
    BY <1>4 DEF SaveCheckpoint, sourceVars
  <2>2. CASE e # d
    <3>1. store'[e] = store[e]
      BY <2>1, <2>2 DEF BaseInv, TypeOK
    <3>2. CountedRows(e)' = CountedRows(e)
      BY <2>1, <3>1 DEF CountedRows
    <3> QED
      BY <1>2, <3>1, <3>2
  <2>3. CASE e = d
    <3>1. store'[d] = results[d].checkpoint
      BY <2>1 DEF BaseInv, TypeOK
    <3>2. /\ loaded \subseteq source[d]
          /\ store'[d].processed = store[d].processed + Cardinality(loaded)
          /\ store[d].watermark # None =>
               store'[d].watermark # None /\ store'[d].watermark >= store[d].watermark
          /\ \A r \in loaded : /\ store'[d].watermark # None /\ r.time <= store'[d].watermark
                               /\ store[d].watermark # None => r.time > store[d].watermark
      BY <2>1, <3>1, SavedCheckpoint
    <3>3. /\ \A r \in source[d] : r.time \in Nat
          /\ store[d].watermark # None => store[d].watermark \in Nat
          /\ store'[d].watermark # None => store'[d].watermark \in Nat
      <4>1. /\ source[d] \subseteq Row /\ store[d] \in DatasetCheckpoint
            /\ store'[d] \in DatasetCheckpoint
        BY DEF BaseInv, TypeOK
      <4> QED
        BY <4>1, RowConstants DEF DatasetCheckpoint, Row, Times
    <3> HIDE DEF loaded
    <3>4. CountedRows(d) \intersect loaded = {}
      BY <3>2, <3>3 DEF CountedRows
    <3>5. CountedRows(d) \union loaded \subseteq CountedRows(d)'
      BY <2>1, <3>2, <3>3 DEF CountedRows
    <3>6. IsFiniteSet(loaded) /\ Cardinality(loaded) \in Nat
      BY <3>2, FS_Subset, FS_CardinalityType DEF BaseInv, FiniteInv
    <3>7. /\ IsFiniteSet(CountedRows(d) \union loaded)
          /\ Cardinality(CountedRows(d) \union loaded)
               = Cardinality(CountedRows(d)) + Cardinality(loaded)
               - Cardinality(CountedRows(d) \intersect loaded)
      BY <1>1, <2>3, <3>6, FS_Union
    <3>8. Cardinality(CountedRows(d) \intersect loaded) = 0
      BY <3>4, FS_EmptySet
    <3>9. Cardinality(CountedRows(d) \union loaded) <= Cardinality(CountedRows(d)')
      BY <1>1, <2>3, <3>5, FS_Subset
    <3> QED
      BY <1>1, <1>2, <2>3, <3>2, <3>6, <3>7, <3>8, <3>9
  <2> QED
    BY <2>2, <2>3
<1>5. CASE UNCHANGED <<store, source>>
  BY <1>3, <1>5
<1>6. RunSteps \/ Crash => UNCHANGED <<store, source>>
  BY DEF RunSteps, RunStarts, Validate, Clean, Transform, Incremental, RunFails, StageFails,
         DatasetFails, LineageFails, Raises, Succeeds,
         Crash, callerVars, sourceVars
<1>7. \A d \in Datasets : Deliver(d) => UNCHANGED <<store, source>>
  BY DEF Deliver, sourceVars
<1>8. ASSUME NEW d \in Datasets, NEW ks \in (SUBSET Keys) \ {{}}, NEW t \in Times,
             Arrive(d, ks, t)
      PROVE  store'[e].processed <= Cardinality(CountedRows(e)')
  <2>1. UNCHANGED store /\ \A x \in Datasets : source[x] \subseteq source'[x]
    BY <1>8 DEF Arrive, callerVars, BaseInv, TypeOK
  <2> QED
    BY <1>3, <2>1
<1>9. QED
  BY <1>4, <1>5, <1>6, <1>7, <1>8 DEF Next, CallerSteps, vars, callerVars, sourceVars

\* Behind an exclusive watermark processed_rows counts a row at most once,
\* however often runs crash, fail or are repeated, and whatever arrives late.
THEOREM EtlCountedOnce ==
    ASSUME LoadMode = "incremental", ~ Inclusive
    PROVE  Spec => []CountedOnce
<1>1. Init => CountedOnce
  <2> SUFFICES ASSUME Init PROVE CountedOnce
    OBVIOUS
  <2>1. \A d \in Datasets : store[d].processed = 0 /\ source[d] = {}
    BY DEF Init, NoCheckpoint
  <2>2. \A d \in Datasets :
          {r \in source[d] : store[d].watermark # None /\ r.time <= store[d].watermark} = {}
    BY <2>1
  <2> QED
    BY <2>1, <2>2, FS_EmptySet DEF CountedOnce
<1>2. BaseInv /\ BaseInv' /\ CountInv /\ CountedOnce /\ [Next]_vars => CountedOnce'
  BY StepCountsOnce
<1>3. QED
  BY EtlBase, EtlCounts, <1>1, <1>2, PTL DEF Spec

\* A dataset's kept watermark never goes back, in incremental mode: not for
\* a run that selected nothing, nor for rows that arrived late.
THEOREM EtlWatermarkForward ==
    ASSUME LoadMode = "incremental"
    PROVE  Spec => WatermarkForward
<1>1. ASSUME BaseInv, CountInv, [Next]_vars, NEW e \in Datasets, store[e].watermark # None
      PROVE  store'[e].watermark # None /\ store'[e].watermark >= store[e].watermark
  <2>1. store[e].watermark \in Nat
    BY <1>1, RowConstants DEF BaseInv, TypeOK, DatasetCheckpoint, Times
  <2>2. ASSUME NEW d \in Datasets, SaveCheckpoint(d)
        PROVE  store'[e].watermark # None /\ store'[e].watermark >= store[e].watermark
    <3>1. /\ phase = "returned" /\ d \notin saved
          /\ store' = [store EXCEPT ![d] = results[d].checkpoint]
      BY <2>2 DEF SaveCheckpoint
    <3>2. CASE e = d
      <4>1. store'[d] = results[d].checkpoint
        BY <1>1, <3>1 DEF BaseInv, TypeOK
      <4> QED
        BY <1>1, <3>1, <3>2, <4>1, SavedCheckpoint
    <3>3. CASE e # d
      BY <1>1, <2>1, <3>1, <3>3 DEF BaseInv, TypeOK
    <3> QED
      BY <3>2, <3>3
  <2>3. CASE UNCHANGED store
    BY <1>1, <2>1, <2>3
  <2>4. RunSteps \/ Crash => UNCHANGED store
    BY DEF RunSteps, RunStarts, Validate, Clean, Transform, Incremental, RunFails, StageFails,
         DatasetFails, LineageFails, Raises, Succeeds,
           Crash, callerVars
  <2>5. /\ \A d \in Datasets : Deliver(d) => UNCHANGED store
        /\ \A d \in Datasets, ks \in (SUBSET Keys) \ {{}}, t \in Times :
             Arrive(d, ks, t) => UNCHANGED store
    BY DEF Deliver, Arrive, callerVars
  <2> QED
    BY <1>1, <2>2, <2>3, <2>4, <2>5 DEF Next, CallerSteps, vars, callerVars
<1>2. BaseInv /\ CountInv /\ [Next]_vars =>
        [\A d \in Datasets : store[d].watermark # None =>
           store'[d].watermark # None /\ store'[d].watermark >= store[d].watermark]_vars
  BY <1>1
<1>3. QED
  BY EtlBase, EtlCounts, <1>2, PTL DEF Spec, WatermarkForward
-----------------------------------------------------------------------------
(* The audit log and the lineage.                                          *)

LEMMA FourStages == Len(Stages) = 4 /\ DOMAIN Stages = 1 .. 4
BY DEF Stages

SucceededTyped ==
  /\ Succeeded \in Seq(AuditEvent) /\ Len(Succeeded) = Len(lineage)
  /\ \A n \in 1 .. Len(lineage) :
       Succeeded[n] = Event(lineage[n].stage, "succeeded", lineage[n].dataset)

LEMMA SucceededType == TypeOK => SucceededTyped
<1> SUFFICES ASSUME TypeOK PROVE SucceededTyped
  OBVIOUS
<1>1. lineage \in Seq(LineageRecord) /\ Len(lineage) \in Nat /\ DOMAIN lineage = 1 .. Len(lineage)
  BY DEF TypeOK
<1>2. \A n \in 1 .. Len(lineage) :
        Event(lineage[n].stage, "succeeded", lineage[n].dataset) \in AuditEvent
  <2> TAKE n \in 1 .. Len(lineage)
  <2>1. lineage[n] \in LineageRecord
    BY <1>1
  <2> QED
    BY <2>1 DEF LineageRecord, AuditEvent, Event
<1> DEFINE N == Len(lineage)
           e(n) == Event(lineage[n].stage, "succeeded", lineage[n].dataset)
<1>3. Succeeded = [n \in 1 .. N |-> e(n)]
  BY <1>1 DEF Succeeded
<1>4. N \in Nat /\ \A n \in 1 .. N : e(n) \in AuditEvent
  BY <1>1, <1>2
<1> HIDE DEF N, e
<1>5. /\ Succeeded \in Seq(AuditEvent) /\ Len(Succeeded) = N
      /\ \A n \in 1 .. N : Succeeded[n] = e(n)
  BY <1>3, <1>4
<1>6. QED
  BY <1>5 DEF N, e, SucceededTyped

\* A stage that succeeds adds its event where it adds its record.
LEMMA SucceededGrows ==
    ASSUME TypeOK, TypeOK', NEW s, NEW d, lineage' = Append(lineage, [stage |-> s, dataset |-> d])
    PROVE  Succeeded' = Append(Succeeded, Event(s, "succeeded", d))
<1>1. /\ Succeeded \in Seq(AuditEvent) /\ Len(Succeeded) = Len(lineage)
      /\ \A n \in 1 .. Len(lineage) :
           Succeeded[n] = Event(lineage[n].stage, "succeeded", lineage[n].dataset)
  BY SucceededType DEF SucceededTyped
<1>2. /\ Succeeded' \in Seq(AuditEvent) /\ Len(Succeeded') = Len(lineage')
      /\ \A n \in 1 .. Len(lineage') :
           Succeeded'[n] = Event(lineage'[n].stage, "succeeded", lineage'[n].dataset)
  <2>1. TypeOK' => SucceededTyped'
    BY SucceededType, PTL
  <2> QED
    BY <2>1 DEF SucceededTyped
<1>3. /\ Len(lineage) \in Nat /\ Len(lineage') = Len(lineage) + 1
      /\ \A n \in 1 .. Len(lineage) : lineage'[n] = lineage[n]
      /\ lineage'[Len(lineage) + 1] = [stage |-> s, dataset |-> d]
  BY DEF TypeOK
<1> DEFINE last == Event(s, "succeeded", d)
<1>4. Succeeded'[Len(lineage) + 1] = last
  BY <1>2, <1>3
<1>5. last \in AuditEvent
  BY <1>2, <1>3, <1>4
<1> HIDE DEF last
<1>6. /\ Append(Succeeded, last) \in Seq(AuditEvent)
      /\ Len(Append(Succeeded, last)) = Len(lineage) + 1
      /\ \A n \in 1 .. Len(lineage) : Append(Succeeded, last)[n] = Succeeded[n]
      /\ Append(Succeeded, last)[Len(lineage) + 1] = last
  BY <1>1, <1>3, <1>5
<1>7. \A n \in 1 .. Len(lineage) + 1 : Succeeded'[n] = Append(Succeeded, last)[n]
  BY <1>1, <1>2, <1>3, <1>4, <1>6
<1>8. QED
  BY <1>2, <1>3, <1>6, <1>7, SeqEqual DEF last

\* A record added where the run is.
LEMMA LineageGrows ==
    ASSUME BaseInv, LineageInv, Succeeds
    PROVE  /\ Len(lineage') = (at - 1) * 4 + stage
           /\ \A d \in Datasets, n \in 1 .. 4 :
                (d - 1) * 4 + n <= Len(lineage') =>
                  lineage'[(d - 1) * 4 + n] = [stage |-> Stages[n], dataset |-> d]
<1> DEFINE record == [stage |-> Stages[stage], dataset |-> at]
<1>1. /\ phase = "running" /\ lineage' = Append(lineage, record)
      /\ lineage \in Seq(LineageRecord) /\ at \in Nat \ {0} /\ stage \in 1 .. 4
  BY FourStages, EtlConstants DEF Succeeds, BaseInv, TypeOK, Datasets
<1>2. record \in LineageRecord
  BY FourStages DEF BaseInv, TypeOK, LineageRecord
<1>3. Len(lineage) = (at - 1) * 4 + stage - 1
  BY <1>1, FourStages DEF LineageInv
<1>4. \A d \in Datasets, n \in 1 .. 4 :
        (d - 1) * 4 + n <= Len(lineage) =>
          lineage[(d - 1) * 4 + n] = [stage |-> Stages[n], dataset |-> d]
  BY FourStages DEF LineageInv
<1> HIDE DEF record
<1>5. /\ Len(lineage) \in Nat /\ Len(lineage') = Len(lineage) + 1
      /\ \A i \in 1 .. Len(lineage) : lineage'[i] = lineage[i]
      /\ lineage'[Len(lineage) + 1] = record
  BY <1>1, <1>2
<1>6. ASSUME NEW d \in Datasets, NEW n \in 1 .. 4, (d - 1) * 4 + n <= Len(lineage')
      PROVE  lineage'[(d - 1) * 4 + n] = [stage |-> Stages[n], dataset |-> d]
  <2>1. d \in Nat \ {0}
    BY EtlConstants DEF Datasets
  <2>2. CASE (d - 1) * 4 + n <= Len(lineage)
    <3>1. (d - 1) * 4 + n \in 1 .. Len(lineage)
      BY <1>5, <2>1, <2>2
    <3>2. lineage'[(d - 1) * 4 + n] = lineage[(d - 1) * 4 + n]
      BY <1>5, <3>1
    <3> QED
      BY <1>4, <2>2, <3>2
  <2>3. CASE (d - 1) * 4 + n = Len(lineage) + 1
    <3>1. d = at /\ n = stage
      BY <1>1, <1>3, <2>1, <2>3
    <3> QED
      BY <1>5, <2>3, <3>1 DEF record
  <2> QED
    BY <1>5, <1>6, <2>1, <2>2, <2>3
<1>7. Len(lineage') = (at - 1) * 4 + stage
  BY <1>1, <1>3, <1>5
<1>8. \A d \in Datasets, n \in 1 .. 4 :
        (d - 1) * 4 + n <= Len(lineage') =>
          lineage'[(d - 1) * 4 + n] = [stage |-> Stages[n], dataset |-> d]
  BY <1>6
<1>9. QED
  BY <1>7, <1>8

LEMMA StageLineage ==
    ASSUME BaseInv, BaseInv', LineageInv, Validate \/ Clean \/ Transform \/ Incremental
    PROVE  LineageInv'
<1> DEFINE started == <<Event("pipeline", "started", 0)>>
           event == Event(Stages[stage], "succeeded", at)
           finished == Event("pipeline", "succeeded", 0)
<1>1. /\ Succeeds /\ phase = "running" /\ at \in 1 .. DatasetCount /\ DatasetCount \in Nat
      /\ stage \in 1 .. 4
      /\ \/ /\ phase' = "running" /\ at' = at /\ stage' = stage + 1
            /\ audit' = Append(audit, event)
         \/ /\ at < DatasetCount /\ stage = 4
            /\ phase' = "running" /\ at' = at + 1 /\ stage' = 1
            /\ audit' = Append(audit, event)
         \/ /\ at = DatasetCount /\ stage = 4
            /\ phase' = "returned" /\ audit' = Append(Append(audit, event), finished)
  <2>1. at \in 1 .. DatasetCount /\ DatasetCount \in Nat /\ stage \in 1 .. 4
    BY EtlConstants, FourStages DEF BaseInv, TypeOK, Datasets
  <2>2. Stages[stage] = "incremental" => stage = 4
    BY <2>1 DEF Stages
  <2>3. Succeeds /\ phase = "running"
    BY DEF Validate, Clean, Transform, Incremental, Succeeds
  <2>4. CASE Validate \/ Clean \/ Transform
    BY <2>1, <2>3, <2>4 DEF Validate, Clean, Transform
  <2>5. CASE Incremental
    BY <2>1, <2>2, <2>3, <2>5 DEF Incremental
  <2> QED
    BY <2>4, <2>5
<1>2. /\ Len(lineage') = (at - 1) * 4 + stage
      /\ \A d \in Datasets, n \in 1 .. 4 :
           (d - 1) * 4 + n <= Len(lineage') =>
             lineage'[(d - 1) * 4 + n] = [stage |-> Stages[n], dataset |-> d]
  BY <1>1, LineageGrows
<1>3. Succeeded' = Append(Succeeded, event)
  BY <1>1, SucceededGrows DEF BaseInv, Succeeds
<1>4. /\ started \in Seq(AuditEvent) /\ Succeeded \in Seq(AuditEvent)
      /\ event \in AuditEvent /\ finished \in AuditEvent
  <2>1. Stages[stage] \in {Stages[n] : n \in DOMAIN Stages} /\ at \in Datasets
    BY DEF BaseInv, TypeOK
  <2>2. event \in AuditEvent /\ finished \in AuditEvent
        /\ Event("pipeline", "started", 0) \in AuditEvent
    BY <2>1 DEF AuditEvent, Event
  <2> HIDE DEF event, finished
  <2> QED
    BY <2>2, SucceededType DEF BaseInv, SucceededTyped
<1>5. audit = started \o Succeeded \o <<>>
  BY <1>1 DEF LineageInv, Endings, Story
<1>6. /\ phase' = "running" => <<>> \in Endings'
      /\ phase' = "returned" => <<finished>> \in Endings'
      /\ Story' = started \o Succeeded'
  BY DEF Endings, Ended, Story
<1> HIDE DEF started, event, finished
<1>7. /\ Append(audit, event) = started \o Append(Succeeded, event)
      /\ Append(audit, event) = started \o Append(Succeeded, event) \o <<>>
      /\ Append(Append(audit, event), finished)
           = started \o Append(Succeeded, event) \o <<finished>>
  <2>1. Append(Succeeded, event) \in Seq(AuditEvent)
    BY <1>4
  <2>2. /\ started \o Succeeded \in Seq(AuditEvent)
        /\ started \o Append(Succeeded, event) \in Seq(AuditEvent)
    BY <1>4, <2>1, ConcatProperties
  <2>3. audit = started \o Succeeded
    BY <1>5, <2>2, ConcatEmptySeq
  <2>4. Append(started \o Succeeded, event) = started \o Append(Succeeded, event)
    <3>1. /\ Append(started \o Succeeded, event) = (started \o Succeeded) \o <<event>>
          /\ Append(Succeeded, event) = Succeeded \o <<event>>
      BY <1>4, <2>2, AppendIsConcat
    <3>2. <<event>> \in Seq(AuditEvent)
      BY <1>4
    <3>3. (started \o Succeeded) \o <<event>> = started \o (Succeeded \o <<event>>)
      BY <1>4, <3>2, ConcatAssociative
    <3> QED
      BY <3>1, <3>3
  <2>5. (started \o Append(Succeeded, event)) \o <<>> = started \o Append(Succeeded, event)
    BY <2>2, ConcatEmptySeq
  <2>6. Append(started \o Append(Succeeded, event), finished)
          = (started \o Append(Succeeded, event)) \o <<finished>>
    BY <1>4, <2>2, AppendIsConcat
  <2> QED
    BY <2>3, <2>4, <2>5, <2>6
<1>8. phase' \in {"running", "returned"} =>
        \E ending \in Endings' : audit' = started \o Succeeded' \o ending
  BY <1>1, <1>3, <1>6, <1>7
<1>9. /\ phase' \in {"running", "returned"}
      /\ phase' = "running" => Len(lineage') = (at' - 1) * 4 + stage' - 1
      /\ phase' = "returned" => Len(lineage') = DatasetCount * 4
  BY <1>1, <1>2
<1>10. phase' # "idle" => \E ending \in Endings' : audit' = Story' \o ending
  BY <1>6, <1>8, <1>9
<1>11. QED
  BY <1>2, <1>9, <1>10, FourStages DEF LineageInv

\* A started run and a failed one.
LEMMA RunStartsLineage ==
    ASSUME BaseInv', RunStarts
    PROVE  LineageInv'
<1> DEFINE started == <<Event("pipeline", "started", 0)>>
<1>1. /\ phase' = "running" /\ at' = 1 /\ stage' = 1 /\ audit' = started /\ lineage' = <<>>
  BY DEF RunStarts
<1>2. Succeeded' = <<>> /\ <<>> \in Endings' /\ Len(lineage') = 0
  BY <1>1 DEF Succeeded, Endings
<1>3. started \in Seq({Event("pipeline", "started", 0)})
  OBVIOUS
<1> HIDE DEF started
<1>4. started \o <<>> \o <<>> = started
  BY <1>3, ConcatEmptySeq
<1>5. \E ending \in Endings' : audit' = started \o Succeeded' \o ending
  BY <1>1, <1>2, <1>4
<1>6. ASSUME NEW d \in Datasets, NEW n \in 1 .. 4
      PROVE  ~ ((d - 1) * 4 + n <= 0)
  <2>1. d \in Nat \ {0}
    BY EtlConstants DEF Datasets
  <2> QED
    BY <2>1
<1>7. QED
  BY <1>1, <1>2, <1>5, <1>6, FourStages DEF LineageInv, started, Story

LEMMA RunFailsLineage ==
    ASSUME BaseInv, LineageInv, RunFails
    PROVE  LineageInv'
<1> DEFINE failed == Event("pipeline", "failed", 0)
           told(status) == <<Event(Stages[stage], status, at), failed>>
<1>1. /\ phase = "running" /\ phase' = "raised"
      /\ UNCHANGED <<at, stage, lineage>>
  BY RunRaises DEF Raises
<1>2. \/ \E status \in {"failed", "succeeded"} : audit' = audit \o told(status)
      \/ stage = 1 /\ audit' = Append(audit, failed)
  BY DEF RunFails, StageFails, DatasetFails, LineageFails
<1>3. /\ \A status \in {"failed", "succeeded"} : told(status) \in Endings'
      /\ stage = 1 => <<failed>> \in Endings'
  <2>1. Endings' = {<<Event(Stages[stage], status, at), failed>> : status \in {"failed", "succeeded"}}
                       \union (IF stage = 1 THEN {<<failed>>} ELSE {})
    BY <1>1 DEF Endings, Ended
  <2> QED
    BY <2>1
<1>4. Story \in Seq(AuditEvent) /\ Story' = Story
  <2>1. Event("pipeline", "started", 0) \in AuditEvent
    BY DEF AuditEvent, Event
  <2>2. <<Event("pipeline", "started", 0)>> \in Seq(AuditEvent) /\ Succeeded \in Seq(AuditEvent)
    BY <2>1, SucceededType DEF BaseInv, SucceededTyped
  <2> QED
    BY <1>1, <2>2 DEF Story, Succeeded
<1>5. audit = Story
  <2>1. audit = Story \o <<>>
    BY <1>1 DEF LineageInv, Endings
  <2> QED
    BY <1>4, <2>1, ConcatEmptySeq
<1>6. Append(audit, failed) = Story \o <<failed>>
  BY <1>4, <1>5, AppendIsConcat
<1> HIDE DEF failed, told
<1>7. \E ending \in Endings' : audit' = Story' \o ending
  BY <1>2, <1>3, <1>4, <1>5, <1>6
<1>8. Len(lineage') = (at' - 1) * Len(Stages) + stage' - 1
  BY <1>1 DEF LineageInv
<1>9. \A d \in Datasets, n \in DOMAIN Stages :
        (d - 1) * Len(Stages) + n <= Len(lineage') =>
          lineage'[(d - 1) * Len(Stages) + n] = [stage |-> Stages[n], dataset |-> d]
  BY <1>1 DEF LineageInv
<1>10. QED
  BY <1>1, <1>7, <1>8, <1>9 DEF LineageInv

LEMMA StepLineage ==
    ASSUME BaseInv, BaseInv', LineageInv, [Next]_vars
    PROVE  LineageInv'
<1>1. CASE UNCHANGED runVars
  <2>1. UNCHANGED <<phase, at, stage, audit, lineage>>
    BY <1>1 DEF runVars
  <2>2. Endings' = Endings /\ Story' = Story
    BY <2>1 DEF Endings, Story, Succeeded
  <2> QED
    BY <2>1, <2>2 DEF LineageInv
<1>2. CASE Forget
  <2>1. phase' = "idle" /\ audit' = <<>> /\ lineage' = <<>> /\ Len(lineage') = 0
    BY <1>2 DEF Forget
  <2>2. ASSUME NEW d \in Datasets, NEW n \in 1 .. 4
        PROVE  ~ ((d - 1) * 4 + n <= 0)
    <3>1. d \in Nat \ {0}
      BY EtlConstants DEF Datasets
    <3> QED
      BY <3>1
  <2> QED
    BY <2>1, <2>2, FourStages DEF LineageInv
<1>3. CASE RunSteps
  BY <1>3, RunStartsLineage, StageLineage, RunFailsLineage DEF RunSteps
<1>4. CASE CallerSteps
  BY <1>1, <1>2, <1>4 DEF CallerSteps, Deliver, SaveCheckpoint, Crash
<1>5. CASE UNCHANGED vars
  BY <1>1, <1>5 DEF vars
<1>6. CASE \E d \in Datasets, ks \in (SUBSET Keys) \ {{}}, t \in Times : Arrive(d, ks, t)
  BY <1>1, <1>6 DEF Arrive
<1>7. QED
  BY <1>3, <1>4, <1>5, <1>6 DEF Next

\* The audit log tells the run: its start, an event for each record of the
\* lineage, and how it ended; a returned run has the four stages of every
\* dataset in order.
THEOREM EtlAuditAccounts == Spec => []AuditAccountsForRun
<1>1. Init => LineageInv
  <2> SUFFICES ASSUME Init PROVE LineageInv
    OBVIOUS
  <2>1. phase = "idle" /\ audit = <<>> /\ lineage = <<>> /\ Len(lineage) = 0
    BY DEF Init
  <2>2. ASSUME NEW d \in Datasets, NEW n \in 1 .. 4
        PROVE  ~ ((d - 1) * 4 + n <= 0)
    <3>1. d \in Nat \ {0}
      BY EtlConstants DEF Datasets
    <3> QED
      BY <3>1
  <2> QED
    BY <2>1, <2>2, FourStages DEF LineageInv
<1>2. BaseInv /\ BaseInv' /\ LineageInv /\ [Next]_vars => LineageInv'
  BY StepLineage
<1>3. LineageInv => AuditAccountsForRun
  <2> SUFFICES ASSUME LineageInv, phase = "returned", NEW d \in Datasets, NEW n \in DOMAIN Stages
               PROVE  lineage[(d - 1) * Len(Stages) + n] = [stage |-> Stages[n], dataset |-> d]
    BY DEF LineageInv, AuditAccountsForRun
  <2>1. d \in 1 .. DatasetCount /\ DatasetCount \in Nat /\ n \in 1 .. 4
    BY EtlConstants, FourStages DEF Datasets
  <2>2. (d - 1) * 4 + n <= DatasetCount * 4
    BY <2>1
  <2>3. (d - 1) * Len(Stages) + n <= Len(lineage)
    BY <2>2, FourStages DEF LineageInv
  <2> QED
    BY <2>3 DEF LineageInv
<1>4. QED
  BY EtlBase, <1>1, <1>2, <1>3, PTL DEF Spec
=============================================================================
