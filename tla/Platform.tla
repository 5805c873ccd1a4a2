------------------------------- MODULE Platform -------------------------------
(***************************************************************************)
(* The data and the calculations of the platform beside its operational    *)
(* tables and its pipeline.  They meet in no transaction; a behaviour      *)
(* follows the one subject says, and the variables of the others are None. *)
(*                                                                         *)
(* What the platform computes without keeping anything - a call that is    *)
(* retried, the verdict on a frame, the effects of events - is a state     *)
(* machine over input and state.                                           *)
(***************************************************************************)
EXTENDS PlatformData

CONSTANTS
    RetryPolicies, Additions,               \* RetryExecution
    FrameInputs,                            \* FramePreparation
    Observations, EventSets, Recovery,      \* EventEffects
    MaintenanceInputs, OptimizationInputs,  \* MaintenanceRanking, OptimizationChain
    KpiInputs                               \* KpiCalculations

Retry     == INSTANCE RetryExecution WITH Policies <- RetryPolicies
Frame     == INSTANCE FramePreparation
Effects   == INSTANCE EventEffects
Ranking   == INSTANCE MaintenanceRanking
Decisions == INSTANCE OptimizationChain
Kpi       == INSTANCE KpiCalculations

ASSUME RetryConstants == Retry!PoliciesFit

CalculationInit ==
    \/ GenerationInit
    \/ subject = "retry" /\ Retry!Init
    \/ subject = "frame" /\ Frame!Init
    \/ subject = "effects" /\ Effects!Init
    \/ subject = "ranking" /\ Ranking!Init
    \/ subject = "decisions" /\ Decisions!Init
    \/ subject = "kpi" /\ Kpi!Init

CalculationNext ==
    \/ GenerationNext
    \/ subject = "retry" /\ Retry!Next
    \/ subject = "frame" /\ Frame!Next
    \/ subject = "effects" /\ Effects!Next
    \/ subject = "ranking" /\ Ranking!Next
    \/ subject = "decisions" /\ Decisions!Next
    \/ subject = "kpi" /\ Kpi!Next

-----------------------------------------------------------------------------
vars == <<subject, records, registry, runStores, governance>>

Init ==
    \/ StoresInit
    \/ CalculationInit /\ NoRegistry /\ NoRunStores /\ NoGovernance

Next ==
    \/ StoresNext
    \/ CalculationNext /\ UNCHANGED <<subject, registry, runStores, governance>>

\* A call that is retried ends, and so does the sleep after it: attempts
\* are sequential code.
Fairness == WF_vars(subject = "retry" /\ Retry!Progress
                    /\ UNCHANGED <<subject, registry, runStores, governance>>)

Spec == Init /\ [][Next]_vars /\ Fairness

-----------------------------------------------------------------------------
\* The history of a retried call is what happened, and what was done twice
\* had been too slow; it waits longer and longer, up to a maximum.
RetriesAreHonest ==
    subject = "retry" =>
        /\ Retry!TypeOK /\ Retry!AttemptsTellWhatHappened
        /\ Retry!RepeatedWorkWasLate /\ Retry!RetriesBackOff

\* A retried call is answered, if it always ends.
RetriesEnd == <>(subject = "retry" => Retry!Answered)

\* What passes the validation of a frame is sound, and too many bad rows
\* always fail; the verdict outlives the cleaning of the frame, which loses no
\* row but for repeated keys.
VerdictsAreRight ==
    subject = "frame" =>
        Frame!VerdictFitsTheRows /\ Frame!VerdictStillHolds /\ Frame!RowsAreKept

\* Events act on the rows in their windows and on no others, in the order the
\* code sorts them in; the last one marks the row, but an outage leaves nothing
\* to it.
EffectsCompose ==
    subject = "effects" => Effects!EffectsCompose /\ Effects!ModifiersBound

\* What needs maintenance more is ranked first, by health and risk as by what
\* it would save; the analyses that decide agree, and sound frames get a
\* report but for two known reasons.
UrgencyDecides ==
    /\ subject = "ranking" => Ranking!WorseIsRankedFirst /\ Ranking!EachHasAPlace
    /\ subject = "decisions" =>
           Decisions!AnalysesAgree /\ Decisions!UrgentIsRankedFirst /\ Decisions!SoundFramesAreReported

\* Indicators that are computed apart from one window agree, and each means
\* what it says but for downtimes that overlap or outlast the window, for a
\* shortfall that is counted twice, and for NaN.
IndicatorsAgree == subject = "kpi" => Kpi!ReliabilityAgrees /\ Kpi!LossesAgree


\* "Events cause consistent SCADA effects".
OutagesStopProduction == subject = "effects" => Effects!OutagesStopProduction
===============================================================================
