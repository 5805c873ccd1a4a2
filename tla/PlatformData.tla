----------------------------- MODULE PlatformData -----------------------------
(***************************************************************************)
(* What the platform keeps besides its operational tables: the records of  *)
(* all tables and the rules they are judged by, the asset registry and its *)
(* telemetry, the stored forecasts and anomaly runs, and the governed      *)
(* recommendations.  And how its data are generated, measured and compared,*)
(* and how models learn from them and are judged, which keeps nothing: a   *)
(* state machine over input and state.  They meet in no transaction; a     *)
(* behaviour follows the one subject says, and the variables of the others *)
(* stay None.                                                              *)
(***************************************************************************)
EXTENDS DomainRecords

CONSTANTS
    Arguments(_), MaxDay,                                       \* RecordStore
    Ids, Candidates, Loads, BatchSize, Sessions,                \* AssetRegistry
    Runs, Frames, MaxGenerated, Limit, Horizon,                 \* StoredRuns
    Recommendations, Owners, Roles, MaxOccurred, MaxHistory, Required(_),   \* GovernanceStore
    Datasets, Settings,                                         \* SyntheticValidation
    MeasurementInputs, MaxPlant, MaxStation, MaxEquipment,      \* MeasurementChain
    Profiles, GenerationInputs, MonthDays, Weekend, Offsets,    \* GenerationStages
    RunInputs,                                                  \* RandomStreams
    VerificationInputs, Tuples, DataFrames, Stochastic,         \* ReproducibilityVerification
    LabelInputs, BacktestInputs                                 \* FailureLabels, ForecastBacktest

VARIABLES
    subject,
    input, state,   \* of the parts that have just these
    rows, session,
    runs, values, client,
    recommendations, events, missed

Records    == INSTANCE RecordStore
Registry   == INSTANCE AssetRegistry
RunStores  == INSTANCE StoredRuns
Governance == INSTANCE GovernanceStore
Synthetic  == INSTANCE SyntheticValidation
Chain      == INSTANCE MeasurementChain
Stages     == INSTANCE GenerationStages
Streams    == INSTANCE RandomStreams
Verifier   == INSTANCE ReproducibilityVerification
Labels     == INSTANCE FailureLabels
Backtest   == INSTANCE ForecastBacktest

ASSUME RecordsConstants == Records!ArgumentsFit

ASSUME RegistryConstants ==
    /\ None \notin Ids \cup {"create", "update", "delete", "load"}
    /\ BatchSize \in Nat \ {0}
    /\ Registry!CandidatesFit /\ Registry!LoadsFit

ASSUME RunsConstants ==
    /\ RunStores!FramesFit
    /\ MaxGenerated \in Nat /\ Limit \in Nat \ {0} /\ Horizon \in Nat
    /\ None \notin RunStores!RunMetadata

ASSUME GovernanceConstants == Governance!GovernanceFits

ASSUME DatasetsConstants == Synthetic!DatasetsFit

ASSUME ChainConstants == Chain!MeasurementFits

ASSUME StagesConstants == Stages!StagesFit

ASSUME StreamsConstants == Streams!RunsFit

ASSUME VerificationConstants == Verifier!VerificationFits

ASSUME LabelsConstants == Labels!LabelsFit

ASSUME BacktestConstants == Backtest!BacktestFits

records    == <<input, state>>
registry   == <<rows, session>>
runStores  == <<runs, values, client>>
governance == <<recommendations, events, missed>>

NoState      == input = None /\ state = None
NoRegistry   == rows = None /\ session = None
NoRunStores  == runs = None /\ values = None /\ client = None
NoGovernance == recommendations = None /\ events = None /\ missed = None

StoresInit ==
    \/ /\ subject = "records" /\ Records!Init
       /\ NoRegistry /\ NoRunStores /\ NoGovernance
    \/ /\ subject = "registry" /\ Registry!Init
       /\ NoState /\ NoRunStores /\ NoGovernance
    \/ /\ subject = "runs" /\ RunStores!Init
       /\ NoState /\ NoRegistry /\ NoGovernance
    \/ /\ subject = "governance" /\ Governance!Init
       /\ NoState /\ NoRegistry /\ NoRunStores

StoresNext ==
    \/ subject = "records" /\ Records!Next
       /\ UNCHANGED <<subject, registry, runStores, governance>>
    \/ subject = "registry" /\ Registry!Next
       /\ UNCHANGED <<subject, records, runStores, governance>>
    \/ subject = "runs" /\ RunStores!Next
       /\ UNCHANGED <<subject, records, registry, governance>>
    \/ subject = "governance" /\ Governance!Next
       /\ UNCHANGED <<subject, records, registry, runStores>>

GenerationInit ==
    \/ subject = "dataset" /\ Synthetic!Init
    \/ subject = "measurement" /\ Chain!Init
    \/ subject = "generation" /\ Stages!Init
    \/ subject = "streams" /\ Streams!Init
    \/ subject = "verification" /\ Verifier!Init
    \/ subject = "labels" /\ Labels!Init
    \/ subject = "backtest" /\ Backtest!Init

GenerationNext ==
    \/ subject = "dataset" /\ Synthetic!Next
    \/ subject = "measurement" /\ Chain!Next
    \/ subject = "generation" /\ Stages!Next
    \/ subject = "streams" /\ Streams!Next
    \/ subject = "verification" /\ Verifier!Next
    \/ subject = "labels" /\ Labels!Next
    \/ subject = "backtest" /\ Backtest!Next

-----------------------------------------------------------------------------
\* A record its constructor accepts is stored, but for the few cases listed
\* in Unbounded: two lists of rules in two languages agree.  And it is read
\* back as it was on any later day, but for active tariffs whose last day has
\* passed, which cannot be read at all.
RecordsRoundTrip ==
    subject = "records" =>
        Records!TypeOK /\ Records!AcceptedIsStored /\ Records!StoredReadsBack

\* References lead to committed rows and no equipment is its own ancestor,
\* whatever creations, deletions and loads ran into each other.
ReferencesResolve ==
    subject = "registry" =>
        Registry!TypeOK /\ Registry!ReferencesResolve /\ Registry!HierarchyIsAcyclic

\* Deleting equipment takes its telemetry along and nothing else.
HistoryOutlivesAssets ==
    [][subject = "registry" => Registry!HistoryOutlivesAssets]_<<subject, registry>>

\* A bulk load is visible as a whole or not at all.
LoadsAreAtomic == [][subject = "registry" => Registry!LoadsAreAtomic]_<<subject, registry>>

\* Runs and values are stored and delivered together, and paging through a
\* growing listing misses nothing.
ForecastsAreWhole ==
    subject = "runs" =>
        /\ RunStores!TypeOK /\ RunStores!StoredIsWhole
        /\ RunStores!ForecastsAreWhole /\ RunStores!NothingIsMissed

\* Replaying the audit history gives the state, but for space around the names
\* of owners and for transitions that raised after their write; nothing is
\* carried out that was not approved, and what is over stays over.
HistoryExplainsState ==
    subject = "governance" =>
        Governance!TypeOK /\ Governance!HistoryExplainsState /\ Governance!ReviewedBeforeDone

\* A run that measures a sound portfolio never makes a reading its own record
\* refuses, and its meters count what was exported and imported.  Each plant
\* has one price at a time on its own clock, but for two known reasons, and one
\* budget a month, and accepted settings can be generated from but for three.  What passes the validation
\* of a dataset can be loaded.
GeneratedDataIsSound ==
    /\ subject = "measurement" =>
           Chain!NothingIsRefused /\ Chain!EnergyIsAccountedFor /\ Chain!MastersAreSound
    /\ subject = "generation" =>
           Stages!InstantsHaveOnePrice /\ Stages!EveryMonthHasABudget
               /\ Stages!AcceptedSettingsGenerate
    /\ subject = "dataset" => Synthetic!PassedIsLoadable

\* A decision of a synthetic run hangs on its seed and on what it is about,
\* and on nothing that others draw; no two hang on the same number; and a
\* report on two generations says what they are.
RunsAreRepeatable ==
    /\ subject = "streams" => Streams!DecisionsAreRepeatable /\ Streams!DecisionsAreIndependent
    /\ subject = "verification" => Verifier!ReportsAreRight

\* What a failure or a forecasting model predicts with is known before what it
\* predicts: what is after a row shows in its label only, as far as the
\* prediction window reaches; and comparisons are fair.
FutureIsInLabelsOnly ==
    /\ subject = "labels" =>
           Labels!FeaturesSeeThePast /\ Labels!LabelsTellWhatIsAhead /\ Labels!SplitsAreApart
    /\ subject = "backtest" => Backtest!FoldsSeeNoFuture /\ Backtest!ComparisonIsFair
===============================================================================
