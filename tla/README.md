# Verification of the Energy Operations Intelligence Platform

TLA+ modules, TLC configurations and TLAPS proofs for the platform in `src/src/eoip`
(paths below are relative to it unless they start with `src/`). The platform generates
synthetic operating data of solar plants, loads it through an ETL pipeline, keeps alarms,
incidents and work orders in PostgreSQL, and computes KPIs, forecasts, anomalies and
recommendations over them, read through an HTTP API and a Streamlit application.

The models follow what keeps state or whose result depends on an order or a boundary: the
operational tables under concurrent requests, the asset registry and its foreign keys, stored
runs beside their readers, the ETL pipeline from a frame's validation to its checkpoint, the
synthetic run from its settings to its published directory, governance, retries, and the
analyses that rank what to do. Physics, metrics and presentation are left out.

## 1. Inventory

| Component | State | Operations | What is hard | What makes it correct |
|---|---|---|---|---|
| Session scope, repositories (`database/session.py`, `repositories/`) | a transaction, an identity map, row locks | get, add, flush, commit, rollback, delete | a row is read in one statement and written from the copy in a later one | no lost update; what is stored satisfies the constraints |
| Alarm, incident and work-order services (`database/services/`) | three tables | create, acknowledge, clear, resolve, update, schedule, start, complete, cancel, delete | guards compare with a copy; most methods have no guard on the status | closed records stay closed; what one request recorded survives another; every row converts; all readers agree on what is open |
| Record contracts (`synthetic/models/`, `database/models/`) | one record and its row | construct, `from_domain`, insert, `to_domain` | two lists of rules in two languages; constructors that look at today's date | what the constructor accepts is stored and read back as it was |
| Asset registry, bulk loaders (`services/plant.py`, `equipment.py`, `bulk/`) | plants, equipment, what refers to them | create, update, delete, load in batches | three kinds of foreign keys; creation beside deletion; a batch that is refused | references resolve; a load is seen as a whole; history outlives assets |
| Forecast and anomaly run stores, HTTP API (`*/database_store.py`, `api/`) | runs and their values; a client's pages | save, load, delete; list page by page | several statements per request; a listing that grows while it is paged | a reader gets a run with its values or none; nothing is skipped |
| Governance (`governance/models.py`) | recommendations and audit events in memory | transition, assign owner, add note | the recommendation is replaced before the event is built, which strips its texts and may raise; long chains of calls | the history replays to the present state, as far as events were made; nothing is done without approval |
| ETL pipeline (`etl/pipeline.py`, `incremental.py`, `audit.py`, `lineage.py`) | working frame, results, audit and lineage of a run; checkpoints and tables of its caller | validate, clean, transform, select by watermark, deduplicate, return checkpoints | failures in a stage, before the first and after one that succeeded, crashes of the caller, rows that arrive during a run, rows at or behind the watermark | no row is lost; nothing goes backwards; the source is caught up with; the audit tells what happened |
| ETL frames (`etl/validation.py`, `cleaning.py`, `transformation.py`) | one frame, its issues | judge, clean, transform | counts per column against a limit in rows; the verdict precedes the cleaning; order of the steps | a verdict fits the rows and does not go stale; rows are kept |
| ETL retry (`etl/retry.py`) | attempts | call, wait, repeat | a timeout found only after the call has finished; subclasses of errors | the history tells what happened; attempts end |
| Synthetic settings and stages (`synthetic/config.py`, `generator.py`, `generators/`) | portfolio, readings, registers, tariffs, budgets | generate stage by stage | settings each stage reads its own way; half-open windows; tariffs dated in UTC and read on local clocks; records that refuse a reading | nothing generated is refused; energy adds up; an instant has one price on its plant's clock, a month one budget |
| Random streams, reproducibility (`synthetic/random.py`, `reproducibility.py`) | cached generators; two datasets and a report | derive a stream; compare and report | names put together from identifiers | decisions are repeatable and independent; reports are right |
| Event scheduler (`synthetic/events/scheduler.py`) | candidate, accepted and numbered events | draw, resolve conflicts, number | greedy resolution, two rules, boundary gaps, order of three passes | kept events obey the rules; drops are justified; numbers follow the order |
| Event effects (`synthetic/events/effects.py`) | a frame of telemetry | mask, limit, derate, lose, distort | several events on one row, each overwriting | an outage leaves nothing, whatever came before or after; the last in the order of precedence marks the row |
| Synthetic operations (`synthetic/operations/`) | alarms, incidents, work orders of a run | build alarms, group and convert them, create orders | timestamps drawn independently; grouping by event and by rolling window | the rows fit model and table; one incident per alarm; critical alarms lead to work; orders follow their incident |
| Synthetic validation (`synthetic/validation.py`) | a dataset and its report | check every rule | the rules have to foresee what the tables will refuse | what passes can be loaded |
| Run publication and ingestion (`synthetic/io.py`, `metadata.py`, `etl/ingestion.py`) | `.staging/` and `runs/` directories, manifests | create, write, publish, clean up; load, discover, read | exceptions and kills between any two file operations, three overwrite policies, readers meanwhile | a published run is whole; failures publish nothing; a reader sees one run |
| Maintenance, optimization (`maintenance/`, `optimization/`) | a frame that gains columns | score, classify, price, recommend, rank, validate | ties and zeros, a row that refuses the frame, three programs for one decision | the urgent comes first; the analyses agree |
| Failure labels, back-testing (`maintenance/`, `forecasting/`) | a dataset, folds, splits | label, add features, split; fit, predict, compare | positions that stand for times; labels look ahead, features back | the future shows in labels only, as far as their window reaches |
| KPI calculations (`analytics/kpi/`) | results for one window | sum, average, relate, price | starts in the window but ends outside; overlaps; one shortfall under two names; NaN and gaps | indicators of one window agree |
| Anomaly detection, application, backup, core | none, or of the UI | - | arithmetic on floats, libraries, I/O | not modelled, see 6 |

Interactions: the generator runs measurement, scheduler, effects, the operations cascade and the
commercial generators in that order, is validated, and publishes the result. Ingestion reads
`runs/`, the ETL pipeline is given the frames. Services, analytics and API share the operational
tables, whose keys lead to the asset registry. Forecasts and anomalies are stored beside them.
Governance is reached only from tests; maintenance, optimization and back-testing from tests and
evidence scripts.

`PROJECT.json` lists every component with its files and status, and the hazards at the lines
where they bite with the properties that cover them.

## 2. Modules

**Operational tables**

| Module | Models | Correspondence |
|---|---|---|
| `RecordColumns`, `OperationalRows` | statuses, time columns, rows of the three tables | small naturals; NULL is `None` |
| `AlarmRecords`, `IncidentRecords`, `WorkOrderRecords` | CHECK constraints of the tables, rules of the domain models, the definitions of "open" (repository, domain, SQL view) | one predicate per constraint set, shared by tables and cascade |
| `RowSessions` | a table under session scopes, and the lemmas about it | `table` is committed; `session[s]` is the identity-map copy and the uncommitted version. `Load`, `Reload`, `FlushInsert`, `FlushUpdate`, `FlushOther`, `FlushDelete`, `Commit`, `Rollback` |
| `AlarmTable`, `IncidentTable`, `WorkOrderTable` | the services over `RowSessions` | one action per method; a method's flush is its `FlushUpdate` |
| `RecordLifecycle` | what the platform expects of a record | abstract: absent, open, closed; a closed record is only deleted |
| `OperationalTables` | the three tables in one specification; `kind` says which one a behaviour follows | the properties every table must have |

**Pipeline and synthetic run**

| Module | Models | Correspondence |
|---|---|---|
| `EtlPipeline` | watermark selection, deduplication and checkpoints as operators over sets of rows; `ETLPipeline.run` stage by stage, and its caller | one action per stage that succeeds, with its audit event and lineage record; `StageFails` for an exception in any, `DatasetFails` for what raises outside the stages (`pipeline.py:434-440`), `LineageFails` for one between the audit of a success and its lineage record; `Deliver`, `SaveCheckpoint`, `Crash` are the caller |
| `FramePreparation` | one frame through validation, cleaning and transformation | a cell is a kind of value (a token that reads as null, a padded text, a number out of range); the contract's rules are operators on the rows they find |
| `RetryExecution` | `execute_with_retry` | `Call`, `Return`, `Raise`, `Wake`, `Interrupt`; errors with their classes |
| `GenerationStages` | settings of a profile with replacements, and the stages that read them; tariffs and budgets | instants (twelve to a day), days and months as numbers; `Offsets` are the distances of plants' clocks from UTC |
| `MeasurementChain` | portfolio, weather, inverters, plant readings, meter registers | one interval of one plant per step; every random draw is a choice within its clamps |
| `EventScheduler` | `EventScheduler.schedule` and `EventConflictResolver` | `DrawCandidate`, `NextDefinition`, `Resolve`, `AssignId` |
| `EventEffects` | `apply_*_events` on one target with all nineteen types of events, and the assembly of the dataset | the frame is folded over the events in ascending precedence, ties by start and asset; a row has the assets its scopes compare with (the generator's inverter frames have no feeder and no transformer, `generator.py:592-593`, so a trip of either matches only rows that name one); `Assemble` is one step |
| `OperationsCascade` | `alarms.py`, `incidents.py`, `work_orders.py` | one alarm candidate, group or incident per step; every random draw is a choice |
| `SyntheticValidation` | `SyntheticDatasetValidator` | each rule is the set of the rows it finds |
| `RandomStreams` | `RandomContext`, and the keys of the operations' decisions | texts are sequences of atoms, so that joining is not injective where the code's is not |
| `ReproducibilityVerification` | `verify_same_seed`, `verify_different_seed` | a hash stands for what it is taken of |
| `RunPublication` | `StagedRunDirectory`, `DatasetWriter`, manifest, `ingest_run` | a directory is the set of its files, tagged by the attempt that wrote them; one file operation per step |

**Stores and analyses**

| Module | Models | Correspondence |
|---|---|---|
| `DomainRecords` | for each of ten records: constructor, CHECK constraints, column types, `from_domain`, `to_domain` | values are numbers at and next to each bound, and kinds of text |
| `RecordStore` | one record between domain model and table, over days | `Construct`, `Store`, `NextDay`, `Read` |
| `AssetRegistry` | plants, equipment, dependants, telemetry; services and bulk loader in sessions | `rows` is committed; a session's `draft` is what it has flushed |
| `StoredRuns` | forecast and anomaly stores, a client that pages through the API | every statement is a step |
| `GovernanceStore` | recommendations and audit events, which strip their new value | one action per method; a transition from or to the text of a status, which raises after the recommendation was replaced (`models.py:398-409`), leaves the change without an event, kept in the history variable `missed` |
| `MaintenanceRanking`, `OptimizationChain` | health, risk, priority; the analyses from energy loss to the validation of outputs | one analysis per step, each refusing or widening the frame |
| `KpiCalculations` | every calculator of `analytics/kpi/` | from the window to the percentages and the money, a group of calculators per step, each from valid results only |
| `FailureLabels` | labels, dataset, features, chronological split | one step per function that is called; observations of one or two pieces of equipment |
| `ForecastBacktest` | dataset builder, folds with naive and seasonal models, comparison | one fold per step |
| `PlatformData`, `Platform` | the parts that meet in no transaction, in one specification | `subject` says which part a behaviour follows; the variables of the others are `None` |

`*Proofs` hold the theorems (see 5; those of `RowSessions` are in it), `MC*` the instances for TLC.

Composition: a table module combines its record module with `RowSessions`, so that lemmas are
proved once for the three tables. `OperationsCascade` instantiates the three record modules: what
the generator produces is judged by the constraints and domain rules the tables use. In the same
way `MeasurementChain` judges readings by `DomainRecords`, and `OptimizationChain` uses the risk
levels of `MaintenanceRanking`. `AlarmTable` and `IncidentTable` implement `RecordLifecycle` under
`phase <- Phase(table[id])`. `WorkOrderTable` does not: the constraints allow `assigned` on a row
that keeps its `cancelled_at`, so `update_status` may open a cancelled order that was never started
again (no document says that it may not). What does hold of orders is stated by `CompletedIsFinal`
and `StartSurvives`.

In each module, an operator commented "Mutant" is a plausible mistake in the code it stands
before. No specification uses it; replacing the operator by it makes the named property fail,
which shows that the property depends on the code. A property of several parts has one for each
of its important parts, of which `PROJECT.json` lists one.

## 3. Runs

`tlc -workers 2 -config X.cfg M` in this directory.

| Run | What it shows | Bounds and why they are enough |
|---|---|---|
| `operational_tables` | types, no update from a stale version (`WritesFollow`), readers agree, rows convert, recorded facts survive, lifecycle refinement | 2 sessions, 1 row, few times. Conflicts are between two scopes on one row: a third would wait for the same lock. Times distinguish before, equal, after |
| `acknowledge_cleared_alarm` (violated) | `acknowledge` from an acknowledged copy sends the time alone; on a row cleared meanwhile it commits a cleared row and returns an acknowledged object | as above |
| `schedule_is_refused` (violated) | `schedule` writes a status the table has no room for | as above |
| `etl_exclusive` | nothing lost, no key goes back, audit and lineage tell how far a run came and how it ended (with a failed stage, with none, or after one that succeeded), and the source is caught up with | 2 datasets, 2 keys, 2 batches, 2 instants: one dataset can fail after the other; a key can be updated; a batch can arrive in a run |
| `etl_late_rows` | rows in any order: the watermark never goes back, `processed_rows` counts no row twice | 1 dataset, 3 batches, 3 instants, the transformation keeping the first row of a key |
| `cascade` | rows fit, one incident per alarm, critical alarms get work, orders follow incidents | 4 schedules of 2 or 3 events: overlap on one plant and on two, suppression, explicit codes, an end of observation inside an event; both groupings |
| `publication` | published runs are whole and stay, failures publish nothing, ingestion sees one run | 3 attempts of one id: leftovers of a killed attempt, a version, and a version beside it; a partitioned data set and a plain one; all three policies |
| `replace_is_not_atomic` (violated) | REPLACE killed while removing the old run leaves a part of it | 2 attempts of one id, 1 of another |
| `scheduler` | rules hold pairwise, drops are justified, numbers follow the order | 3 definitions, 2 candidates each, 4 steps, a year boundary; portfolio, plant and two inverters, each rule on and off |
| `platform` | the promises of the seventeen parts of `Platform`, see below | sets of inputs in `MCPlatform`: a sound base, and everything that differs from it in one or two places |
| `events_leave_no_trace` (violated) | an inverter goes on producing in the dataset during its own outage | as `platform` |
| `gap_is_not_dominant` (violated) | a row lost in a telemetry gap is marked as suspect by a sensor that drifts meanwhile | as `platform` |

### The properties of `platform`

| Property | Says | Inputs |
|---|---|---|
| `RecordsRoundTrip` | an accepted record is stored, but for the cases `Unbounded` lists, and is read back as it was on any later day, but for active tariffs past their last day | ten records; any two fields replaced by values at and beside each bound, NaN, and text of every kind; 3 days |
| `ReferencesResolve` | committed references lead to committed rows, equipment has no cycle | 2 sessions; a plant, two pieces of equipment either of which may be the other's parent, an alarm, its incident, two observations |
| `HistoryOutlivesAssets` | a step removes what a caller deleted, or telemetry of deleted equipment; operations keep their plant and equipment | same |
| `LoadsAreAtomic` | all of a load becomes visible in one step, or nothing | loads of two rows in batches of one: both good, one refused, one twice |
| `ForecastsAreWhole` | a run has exactly the values it counts; a response has all it wants of a run, or none if the run went; an undisturbed paging client misses nothing | 3 runs, pages of one |
| `HistoryExplainsState` | replaying the audit gives the status, unless a transition raised before its event, and the owner's name without the space around it; nothing is carried out unapproved; what is over stays over | 2 recommendations, 3 owners (two of one name but for the space around it), statuses and texts of them, 2 roles, 4 writes |
| `RetriesAreHonest`, `RetriesEnd` | the history says what happened, work is repeated only when it was late; no delay passes the maximum, and delays shrink for a multiplier below one only; a caller is answered | 0 to 2 retries, growing, constant and shrinking delays, errors from `ConnectionError` to `KeyboardInterrupt` |
| `VerdictsAreRight` | what passes has no bad row, too many bad rows always fail; the verdict outlives cleaning but for two named causes; rows are neither invented nor lost | frames of up to three rows of every kind of cell; contracts, cleanings and transformations with up to two deviations |
| `EffectsCompose` | outside windows nothing changes; a row is marked with the last event in the order of application; an outage leaves nothing, whatever is applied before or after it, unless a stuck sensor repeats another row; a gap leaves no value; no more is exported than the inverters give; quality is lost to gaps and sensors only | 3 targets, each of the nineteen event types alone and in pairs, every scope, three intervals |
| `GeneratedDataIsSound` | no draw ends a run, registers add up, never two prices, and none only where the local day is no date of the run or on weekend evenings, one budget a month, accepted settings fail for three known reasons only; a synthetic dataset that passed validation is accepted by the tables, but for what no rule looks at | portfolios, skies and draws at their clamps; ranges that begin and end anywhere in months of three days; clocks at UTC and ahead of it; datasets with up to two flaws |
| `RunsAreRepeatable` | a decision hangs on seed and subject only, no two hang on one number, reports say what was compared | two runs sharing a decision, contexts of their own, one, or a child; datasets that differ in a value, an order, a column |
| `UrgencyDecides` | worse equipment comes first, every row has a place, three programs for one decision agree, sound frames are reported but for two known reasons | two rows; ties, zeros, values out of range, weights that do not sum to one |
| `FutureIsInLabelsOnly` | features are of the rows before; a label goes with its row and tells whether a failure is ahead within the window, its end included and its start not; the sets of a split are apart in time, folds predict from the past, comparisons are fair | four observations in every order, gaps, times given twice; five values, up to three models |
| `IndicatorsAgree` | total downtime is the time down in the window if and only if downtimes are disjoint and end in it; with the availability it makes up the window; the mean time between failures spans first to last in any order; earned and lost make up what could be earned; percentages are refused only for overlap, for what lies outside, or for a shortfall counted twice; NaN refuses nothing | up to three downtimes around a window of four hours, hours unseen; series of up to two energies with gaps, negatives and NaN |

The exceptions in these properties are what the code does and the documents do not
exclude; they are stated as narrowly as TLC lets them be, so that a change which adds another shows.

`CHECK_DEADLOCK FALSE` stands in the configurations of programs that end (cascade, publication,
scheduler, platform) or whose source and processed rows are bounded (ETL). The tables are checked
for deadlock: every session can always close. A session touches one row, so a cycle of locks over
two rows is outside the model.

The constants that only bound a run are `MaxTime`, `MaxBatches`, `MaxProcessed`, `MaxVersion`,
`MaxNuisance`, `MaxEvents`, `Steps`, `MaxDay`, `MaxGenerated`, `MaxOccurred`, `MaxHistory`,
`MaxPlant`, `MaxStation` and `MaxEquipment`. `MaxProcessed` never blocks in `etl_exclusive`: it is
the number of rows a source can hold there, and each is counted at most once.

### Fairness

`EtlPipeline` states fairness in `FairSpec`, for `CatchesUp`: weak fairness of starting
a run, of the next stage of a started run (`run` is synchronous, so a started run goes on
unless a stage raises), and of the caller's storing what `run` returned; and the assumption
that failures and crashes stop at some time. The package starts no run by itself: that runs are
repeated is an assumption about the deployment (`ETLConfig` carries Prefect's flow
retries for it), and `CatchesUp` says what follows from it. Arrival of rows is not assumed.

`Platform` states weak fairness of a retried call's progress, for `RetriesEnd`: `execute_with_retry`
is sequential code, its loop is bounded by the policy, and the assumption is that the call it is given
returns or raises, and that a sleep ends. The other properties are safety properties; the other
programs end by their structure, or wait for requests nobody is obliged to make.

## 4. Where code and documents disagree

Shown by runs:

- `acknowledge` "Mark an alarm as acknowledged" (`database/services/alarm.py:56`): see
  `acknowledge_cleared_alarm`.
- `schedule` "Schedule a work order" (`database/services/work_order.py:84`): the CHECK
  constraint refuses its status; the unit test mocks the session.
- "Writes are atomic at run level" (`src/PHASE_2_IMPLEMENTATION_PLAN.md:905`): not with REPLACE.
- "Events cause consistent SCADA, alarm, incident, and work-order effects"
  (`src/PHASE_2_IMPLEMENTATION_PLAN.md:141`): the generator drops the frames the effects were
  applied to (`synthetic/generator.py:224-275`).
- "missing telemetry dominates measurement drift" (`synthetic/events/effects.py:25`,
  `src/PHASE_2_IMPLEMENTATION_PLAN.md:869`): see `gap_is_not_dominant`. Events are applied in ascending
  precedence, each overwriting (`effects.py:719-725`), so the event with the *largest* number marks the row.
  The same order lets a curtailment overwrite the outage's event identifier, a derated inverter that has
  tripped is `derated` with the derating's identifier, and the identifier `_stamp_event_id` leaves
  (line 1186) is not the dominant event's. Power is zero all the same, which `EffectsCompose` shows.

Met while modelling; they are exceptions in the properties above or choices in the models:

- ETL: "Critical validation failures must block downstream publication" (`src/SYSTEM_ARCHITECTURE.md:418`), and
  `should_fail` is to "Return whether validation should fail pipeline execution." (`etl/validation.py:480`): `ETLPipeline`
  never asks it, and a dataset that fails validation is returned with the verdict (`pipeline.py:643`). A run may be
  audited as failed without a failed stage: when it is given something that is no frame
  (`pipeline.py:434-440`), and when a lineage record raises after the audit of its stage's success (lines 503, 518, 543).
- Governance: audit events "preserve recommendation ID, prior and new values"
  (`src/docs/governance/PHASE_M_RECOMMENDATION_GOVERNANCE.md:39-41`): the event strips its new value (`governance/models.py:207`) and
  the owner keeps its name as it was entered (126-139), so the next event's previous value may differ from it; and a
  transition from or to a status given as plain text replaces the recommendation (398) and raises at `.value` before there is an event.
- Cascade: "Corrective completion normally precedes incident closure" (`src/PHASE_2_IMPLEMENTATION_PLAN.md:885`), and closure
  "may occur later after documentation" (line 1145): a completed order is completed at the later of its planned end and the
  incident's closure (`work_orders.py:434-438`), never before it. `OrdersFollowIncidents` states the code's order.
- Tariffs: windows are clock times of the plant (`tariffs.py:215-244`), effective dates those of the run in UTC
  (391-415). Where the clock is ahead of UTC the last hours of a run fall on a local day without a tariff, in spite of
  "complete effective-date coverage" (`src/PHASE_2_IMPLEMENTATION_PLAN.md:893`), and weekend evenings are those of the local clock.
  Generated plants are stored with the timezone `UTC` (`models/plant.py:44`, which `plant_generator.py:168-182` leaves as it is) though
  they lie five hours ahead; the model is checked with clocks at and ahead of UTC, and the theorem holds for every offset.
- Settings: generation fails unless the range starts on the first of a month
  (`budgets.py:267`), spans a whole day and has 15-minute intervals, although `TimeRangeConfig`
  accepts 5, 10, 30 and 60; a last fraction of a day is not measured. The time-of-use windows
  leave weekend evenings without a price (`tariffs.py:215-244`).
  `config.events.enabled`, `config.weather` and `config.physics` are not read by the generator.
- Plant readings: one inverter without telemetry makes `grid_available` false and the export
  zero for its plant (`plant_scada_generator.py:231`).
- Effects: a stuck sensor gives lost rows a value again; outages turn NA into 0;
  the meter register is not adjusted by outages.
- Records: texts longer than their columns, currencies that are no codes and an AC capacity of NaN pass
  the constructor and not the table; an active tariff whose `effective_to` has passed cannot be
  read (`database/models/tariff.py:234`). `update_root_cause` and `resolve` store an empty root cause, which
  the domain model refuses (`services/incident.py:97`).
- Frames: validation precedes cleaning, so `passed_validation` may be about other values than those
  delivered; each missing column counts as one failure toward `max_bad_records`.
- Retry: a call that returns late has done its work and is repeated; an interrupt while waiting loses the
  history, a multiplier below one shrinks the delays.
- Synthetic validation: plants in lower case and the equipment of operations are not looked at; a missing
  lifecycle column raises `KeyError`.
- Verification: `verify_different_seed` validates only the left dataset (`reproducibility.py:824`) where
  its documentation says both (line 766).
- Random: the meter and inverter generators use Python's `random` seeded by base and position, so the k-th
  of each share a seed, where `random.py` says that no generator does.
- Analyses: a free intervention that helps gets an infinite ratio (`cost.py:89`), which the result's own class
  refuses, and the whole frame with it; a tiny impact is counted both as positive or negative and as zero
  (`validation.py:159-168`) and then refused; a split by extreme fractions leaves the validation set empty; labels just before
  a split tell of failures after it, as far as the prediction window reaches: the split leaves no gap.
- Runs: listings have no second sort key, so paging may skip a row when times tie; a `get_anomaly` sees the newest
  1000 only; the audit shows owners by a label two of them may share.

## 5. Theorems

`tlapm M.tla` for each proof module; every obligation is proved, for all values of the constants
that satisfy the modules' named assumptions.

**Tables** (`RowSessions`, `OperationalTablesProofs`). The argument is `SessionInv`: types; at most one open scope holds an uncommitted
version of a row (`OneWriter`); all versions satisfy the constraints (`VersionsValid`); an
uncommitted version was made from the row committed now (`WritesFollow`). The last is what
makes writing from a stale copy harmless: an UPDATE merges the changed columns into the newest
row, and its lock keeps that row the newest until the commit. `RowSessions` proves that
each session action preserves it, for any constraints and any reflexive and transitive "follows"
relation; a section per table then only shows that each service method's change follows.
The last section lifts this to `OperationalTables`: all properties of the run `operational_tables`
are theorems, `TypeOK`, `WritesFollow`, `OpenDefinitionsAgree`, `StoredRowsConvert`, `RecordsSurvive`, and
`ImplementsLifecycle`, that the alarms and incidents tables implement `RecordLifecycle`.
Assumptions: `AlarmConstants`, `IncidentConstants`, `WorkOrderConstants`, `TimestampConstants`.

**ETL** (`EtlPipelineProofs`). Three invariants. `BaseInv`, types and finite frames, needs no hypothesis; it makes
`TypeOK` and `AuditAccountsForRun` hold in every mode. For the latter `LineageInv` says
that the lineage is where the run is, stage by stage of dataset by dataset, and that the audit is
the start, one success per lineage record, and one of the `Endings`: a failed stage, a stage that succeeded but left no
lineage, or neither before a dataset's first stage, each with the failed run; or the run's success. `CountInv` adds that a run's frames are part of the source, and
that results are what `Process` makes of the checkpoint still kept: `CountedOnce` follows for
incremental loads behind an exclusive watermark (an inclusive one counts the newest rows
again), and `WatermarkForward` for incremental loads, both with rows in any order and transformations that drop rows.
`LoadInv` adds to the types: batches arrive in order (`SourceInv`); a run's frames and
checkpoints are a prefix of the source and the checkpoints still kept (`RunInv`); results are
what `Process` makes of them (`ResultsInv`); a kept watermark is that of some row (`StoreInv`);
loaded rows come from the source (`SinkInv`); what was delivered is in the sink
(`DeliveredInv`). `NothingLost` and `SinkForward` follow for full and incremental loads, inclusive
and exclusive watermarks, under `~LateRows` and `~KeepFirst`: with rows behind the watermark,
or a transformation that drops the newer row of a key, they do not hold. The
runs check the exclusive instance. Assumptions:
`RowConstants`, `NoneIsNoRow`, `FiniteKeys`, `EtlConstants`.

**Stores and data** (`PlatformDataProofs`, lemmas; `PlatformProofs`, the theorems of `Platform`, and the lemmas about
records, measurements, verification and retries, for which the former would be too large).
- *Registry.* References are checked at the flush, against what is committed and the session's own rows. What keeps
  them true until the commit is `KeptInv`: no other session has deleted what a draft refers to, because
  the reference locks it; `LocksInv`: no two sessions hold one row; and `DraftInv`, what a draft
  contains for each kind of operation: a deletion in particular covers every row that refers to its target. Hierarchies
  stay acyclic because a draft's parent was there before. `ReferencesResolve`, `HistoryOutlivesAssets` and
  `LoadsAreAtomic` follow from `RegistryInv`. Assumption: `RegistryConstants` (an identifier belongs to one table, and
  a reference column leads to one table).
- *Runs.* `RunsInv`: what is stored of a run came from one frame (`StoredInv`); a page's items and those to come are what
  was listed (`RequestInv`); and every run that was there before the client began is on an earlier page, pending in this one,
  or at or behind the next offset, as long as nothing disturbed it (`PagingInv`), which counts the runs newer than each.
  Assumption: `RunsConstants`.
- *Governance.* `GovernanceInv` adds to the properties that each non-empty set of events has a last one, and
  that what is approved was under review before, for recommendations without a missed event. Histories are compared after
  stripping, the state as it is. Assumption: `GovernanceConstants`, statuses and notes have no space around them.
- *Records.* `RecordsInv`: whatever is submitted, stored or read has the fields and types of its table. A table's
  read-back record agrees with the accepted one field by field (a lemma per table, `PlantAgrees` to
  `WorkOrderAgrees`), because what the constructor normalizes it normalizes to itself (`NormalizedFacts`), and what the
  table refuses of an accepted record is what `Unbounded` lists. `RecordsRoundTrip` follows from it.
  Assumption: `RecordsConstants`, what is submitted has the parameters of its table's constructor.
- *Retry.* `RetryInv` adds to the property what the attempts of an unfinished call have in common (`GoesOn`), and that
  each delay is the policy's for its number (`DelaysFollowPolicy`). That delays grow (`RetriesBackOff`, a part of
  `RetriesAreHonest`) is an induction on that number. The library states induction and recursion for operators given
  as parameters, which the installed provers cannot instantiate, so `PlatformDataProofs` has a set form of
  induction and a theorem on recursive functions on the numbers, both proved from the well-foundedness
  of `<` on `Nat`, and applies them to the powers of the multiplier.
  Assumption: `RetryConstants`, the policies are policies.

- *Random streams.* `StreamsInv`: a draw for an entity is what its seed, stream and key give (`DrawFits`), one from a
  shared stream has a position that has been passed, and no two draws of one stream have one position. That no two
  decisions share a number is then a matter of texts: what stands after prefixes of one length is the same only if
  all of it is (`SameTail`), so seeds are the same for the same root, stream and key only
  (`EntitySeeds`, `StreamSeeds`, `RootFacts`), an entity has no stream's seed (`SeedsDiffer`, by length), and what is asked
  for determines what is decided (`RequestsDiffer`, by separators and the word `primary`).
  Assumption: `StreamsConstants`, identifiers have no blank at their ends and do not hold the separator, which
  the generators of `src/` guarantee: they number them.
- *Verification.* `VerifierInv`: what is compared are the datasets, and validation found the left one sound or not;
  fingerprints are the same exactly for the same rows and columns (`ComparisonFacts`). `RunsAreRepeatable` follows.
  Assumption: `VerificationConstants`, datasets are rows or frames of rows.

- *Stages of a generation.* `StagesInv`: each stage that is behind has left what its settings give (`Passed`), and
  what failed had settings that are `Unsuitable`. Then the properties are calendar arithmetic: instants
  fall into days and those into months (`Multiples`, `MonthFacts`), a tariff's windows partition the day but for weekend
  evenings, whatever the offset of the clock it is read on, its dates are those of the run, and every
  month of the period has a first day on which some tariff is in force. Assumption: `StagesConstants`, times,
  offsets and numbers of plants are integers.
- *Measurements.* `ChainInv`: every plant has one reading for each interval that is over, and its registers are the
  sums of what these say (`PlantCounted`); the group of inverters being measured is one whose records are accepted
  (`GroupSound`). The sums are folds over finite sets. Their values are found by induction over a subset that is
  least among those for which the claim fails, from which one element is taken (`SumTakesOut`); on these rest
  `AppendCounts`, one more reading is counted where it belongs and nowhere else, and the counts of a portfolio's equipment.
  Assumption: `ChainConstants`, counts, losses and capacities are numbers and losses are below a half.
- *Datasets.* `SyntheticInv`: a report is the one of its dataset and settings. A report that passes has no failure of a
  rule (`RuleHolds`, `RulesHold`): failures are counted, and the sets that are counted are finite (`TableFacts`). From the
  rules follows what the tables need: a register that falls between any two readings of a plant falls between two
  that follow each other (`RegistersRise`), times on the grid and in the range are the points of the range
  (`GridPoints`). Assumption: `DatasetsConstants`, tables are sequences, times and registers numbers, and ranges begin
  and end on the grid, which `TimeRangeConfig` demands.
- *Failure datasets.* `LabelsInv`: each stage keeps the rows it was given, in another order and with what it added
  (`Rearranged`), and their labels, which are those of their equipment and time (`Told`). A row is sorted into the place that has as many rows before it; `Ranks`, `RanksFound` and `Sorting`
  prove by counting that each place then has exactly one row, and that places are in order. A shifted value is that of the row
  with `lag - 1` rows of its equipment between, which is unique and earlier (`ShiftedFacts`, `FeaturesShow`).
  A chronological split cuts the set of times at two of them (`TimesFacts`), and no part is empty (`Shares`).
  Assumption: `LabelsConstants`, equipment, times, also of failures, and values are numbers unless they are missing.
- *Back-testing.* `BacktestInv`: the rows are those of the frame, one at a time (`TimesApart`, `GaplessRows`); the folds so
  far are those of the points so far (`FoldsSoFar`, `FoldFacts`), and every model judged has all `NumberOf(rows)` of them
  (`FoldsFit`, `JudgedFacts`), which is why models are compared on equal terms. The first of a ranking has the least error
  (`ModelsAreRanked`, `FirstIsLeast`). `FutureIsInLabelsOnly` follows from both. Assumption: `BacktestConstants`, as above, and
  the models to compare are a non-empty sequence.

`Platform` runs one part at a time: `SubjectSteps` turns a step of it into a step of the part in question or a stutter.

**Cascade.** `CascadeInv`: alarms, incidents and orders satisfy domain rules and constraints when they are
built; groups are disjoint from each other and from the incidents made before (`GroupsInv`: being chained by
the rolling window is an equivalence, so its classes partition the alarms); an incident is as severe as each
of its alarms and closed after each clearance (`IncidentsInv`); a critical alarm is always in a group,
an incident or an order (`CriticalInv`). All five properties follow. Assumption: `CascadeConstants`.

**Publication.** `PublicationInv`: a running attempt has a staging directory of its own id,
holding exactly what it wrote (`StagingInv`); it replaces only under REPLACE (`TargetInv`); the reader
holds the part of its run that it has read (`ReaderInv`). Assumption: `PublicationConstants`.

**Scheduler.** `SchedulerInv`: a definition and an ordinal name one candidate (`DrawInv`); the resolver
and the numbering go through the events in order (`ResolveInv`, `NumberInv`). The resolver compares a later
candidate with earlier ones only; `NoConflictObeys` shows that the absence of a conflict gives
the rules in both directions. Assumption: `SchedulerConstants`.

Only model-checked:

- `CatchesUp` and `RetriesEnd`, which are liveness: out of the prover's reach, as is ENABLED.
- `VerdictsAreRight`, `EffectsCompose`, `UrgencyDecides` and `IndicatorsAgree`: what calculations give that fold over
  sequences or chain a dozen steps on one frame. Those folds and sorts are recursive operators or `CHOOSE` over permutations
  in the community modules, of which the library has no theorems.

## 6. What the models leave out

- Tables: columns other than those of the lifecycle, root cause and team in `*Table`; creating
  again a key deleted in the same scope; two rows in one scope. READ COMMITTED, row
  locks and SQLAlchemy's partial UPDATE are external, modelled as the code relies on them.
- Registry and stores: SQL errors other than those of constraints; the encoding of the file stores.
- ETL: in `EtlPipeline` payload columns, output order and rows with a null watermark, which raise
  and are covered by `StageFails`; its verdict is a free choice, and the clock does not go back within a run. `FramePreparation` has one frame of
  three or four columns. Two runs at once; audit and lineage queries.
- Cascade: identifiers, messages, SLA, cost and labour; frames that the generators did not build;
  grouping when no row has a ground-truth event. An incident is resolved once any of its alarms has cleared
  (`incidents.py:588`); no document says whether that is intended.
- Publication: contents and checksums; two attempts of one id at once, which would share a staging
  directory (`io.py:199`); a `StagedRunDirectory` that was never created; `latest_pointer`, which compares
  modification times.
- Scheduler: severities, modifiers, the recorded duration, which is not cut at the end of the grid;
  malformed grids and portfolios.
- Effects and measurements: floating point; values are small integers that divide as far as ratios are taken.
- KPI calculations: rounding, units and messages.
- Anomaly detection, Prophet, the failure predictor and its explanations: arithmetic on
  floats or calls of a library. A model would restate the formula.
- Materialized views, which no code refreshes; backup command lines; the Streamlit application; tokens and roles of the API;
  start-up, logging and evidence scripts.

## 7. Plan

Modelling is complete as far as it changes what can go wrong. What is left of the proofs are the calculations on one frame:
the verdicts on frames, the effects of events, the rankings of maintenance and optimization, and the indicators. Those that sort can be
stated by the number of earlier rows, as `FailureLabels` and `ForecastBacktest` are, and then use `Sorting`; those that fold over
a sequence of events or analyses need a sum or composition by position instead, as `SumTakesOut` does for sets.
