--------------------------- MODULE OptimizationChain ---------------------------
(***************************************************************************)
(* What to do about each piece of equipment: a frame goes from what energy *)
(* is lost through what of it can be recovered and what maintenance would  *)
(* cost and save to a recommendation, a rank and the validation of all.    *)
(* A row that is refused refuses the frame.                                *)
(*                                                                         *)
(* A row is [equipment, actual, expected, factor, risk, probability,       *)
(* failure_cost, effectiveness, cost, price, saving]; factors, risks,      *)
(* probabilities and effectiveness count quarters of one, recoverable      *)
(* energy quarters, money sixteenths.  Floating point may leave a residue  *)
(* of money that cancels out.                                              *)
(***************************************************************************)
EXTENDS Integers, Sequences, SequencesExt

CONSTANTS None, NaN,
    OptimizationInputs  \* [rows, labels, weights, residue]

VARIABLES input, state

Ranking == INSTANCE MaintenanceRanking WITH MaintenanceInputs <- {}

-----------------------------------------------------------------------------
Amount(v) == v # NaN /\ v >= 0
IsRatio(v) == Ranking!IsRatio(v)

WithColumns(row, columns) == Ranking!WithColumns(row, columns)

Larger(a, b) == IF a >= b THEN a ELSE b

\* What is left of two sums of money that are equal but for rounding.
Residue(money) == IF money = 0 THEN 0 ELSE input.residue

Positive(gross, cost) == gross > cost \/ (gross = cost /\ Residue(gross) > 0)
Negative(gross, cost) == gross < cost \/ (gross = cost /\ Residue(gross) < 0)

-----------------------------------------------------------------------------
LossAccepted(row) == Amount(row.actual) /\ Amount(row.expected)

WithLoss(row) ==
    LET loss == Larger(row.expected - row.actual, 0) IN
    WithColumns(row, [energy_loss |-> loss,
        loss_percentage |-> IF row.expected = 0 THEN 0 ELSE (loss * 100) \div row.expected])

FactorAccepted(row) == Amount(row.energy_loss) /\ IsRatio(row.factor)

WithRecoverable(row) ==
    LET recoverable == row.energy_loss * row.factor IN
    WithColumns(row, [recoverable |-> recoverable,
                      unrecoverable |-> 4 * row.energy_loss - recoverable])

-----------------------------------------------------------------------------
CostsAccepted(row) ==
    /\ row.equipment # 0 /\ Amount(row.cost) /\ Amount(row.failure_cost)
    /\ IsRatio(row.probability) /\ IsRatio(row.effectiveness)

ExpectedFailureCost(row) == 4 * row.probability * row.failure_cost

AvoidedCost(row) == row.probability * row.failure_cost * row.effectiveness

\* The return on an intervention that costs nothing is 0.
ReturnOn(gross, cost) == IF cost = 0 THEN 0 ELSE ((gross - cost) * 100) \div cost

WithCostBenefit(row) ==
    LET avoided == AvoidedCost(row) IN
    WithColumns(row,
        [expected_failure_cost |-> ExpectedFailureCost(row), expected_avoided_cost |-> avoided,
         roi_percentage |-> ReturnOn(avoided, 16 * row.cost),
         economically_justified |-> Positive(avoided, 16 * row.cost)])

\* The ratio of a benefit that costs nothing is infinite, and the result is
\* refused for it.
RatioFinite(row) == row.cost = 0 => AvoidedCost(row) = 0

CostAccepted(row) == CostsAccepted(row) /\ RatioFinite(row)

\* Mutant: what a failure costs is avoided, however likely it is.
InterveneForAnyFailure(row) ==
    WithColumns(row,
        [expected_loss_avoided |-> AvoidedCost(row),
         should_intervene |-> Positive(4 * row.failure_cost * row.effectiveness, 16 * row.cost)])

WithIntervention(row) ==
    WithColumns(row,
        [expected_loss_avoided |-> AvoidedCost(row),
         should_intervene |-> Positive(AvoidedCost(row), 16 * row.cost)])

-----------------------------------------------------------------------------
ImpactAccepted(row) ==
    /\ Amount(row.recoverable) /\ Amount(row.price) /\ Amount(row.expected_avoided_cost)
    /\ Amount(row.saving) /\ Amount(row.cost)

WithImpact(row) ==
    LET value == 4 * row.recoverable * row.price
        gross == value + row.expected_avoided_cost + 16 * row.saving IN
    WithColumns(row,
        [recovered_value |-> value, gross_benefit |-> gross, net_impact |-> gross - 16 * row.cost,
         impact_roi |-> ReturnOn(gross, 16 * row.cost)])

\* The frame compares going on as before with intervening: the energy that is
\* produced, the money that is spent, and the risk.
Scenarios(row) ==
    [baseline |-> [energy |-> 4 * row.actual, cost |-> row.expected_failure_cost, risk |-> 4 * row.risk],
     intervention |->
         [energy |-> 4 * row.actual + row.recoverable, risk |-> row.risk * (4 - row.effectiveness),
          cost |-> row.expected_failure_cost - row.expected_avoided_cost + 16 * row.cost]]

ScenarioAccepted(row) ==
    IsRatio(row.risk) /\ \A s \in {"baseline", "intervention"} :
        Amount(Scenarios(row)[s].energy) /\ Amount(Scenarios(row)[s].cost)

WithScenario(row) ==
    LET s == Scenarios(row) IN
    WithColumns(row,
        [energy_gain |-> s.intervention.energy - s.baseline.energy,
         cost_saving |-> s.baseline.cost - s.intervention.cost,
         risk_reduction |-> s.baseline.risk - s.intervention.risk])

-----------------------------------------------------------------------------
RecommendationAccepted(row) ==
    /\ row.equipment # 0 /\ IsRatio(row.risk)
    /\ Amount(row.recoverable) /\ Amount(row.expected_avoided_cost)

RecommendationType(row) ==
    CASE row.economically_justified /\ row.risk >= 2 -> "maintenance"
      [] ~(row.economically_justified /\ row.risk >= 2) ->
             IF row.recoverable > 0 THEN "performance_recovery"
             ELSE IF row.risk >= 1 THEN "monitor" ELSE "no_action"

WithRecommendation(row) == WithColumns(row, [recommendation |-> RecommendationType(row)])

TypeScores == [maintenance |-> 100, performance_recovery |-> 75, monitor |-> 40, no_action |-> 0]

DefaultRecommendationWeights ==
    [risk_score |-> 40, expected_benefit |-> 30, recoverable_energy |-> 20, recommendation_type |-> 10]

Largest(rows, column) ==
    LET values == {rows[k][column] : k \in DOMAIN rows} \cup {0} IN
    CHOOSE v \in values : \A u \in values : v >= u

\* Benefits and energies are taken relative to the largest of the frame.
RecommendationScore(row, rows, w) ==
    LET benefit == Larger(Largest(rows, "expected_avoided_cost"), 1)
        energy  == Larger(Largest(rows, "recoverable"), 1) IN
    25 * row.risk * w.risk_score * benefit * energy
        + 100 * row.expected_avoided_cost * w.expected_benefit * energy
        + 100 * row.recoverable * w.recoverable_energy * benefit
        + TypeScores[row.recommendation] * w.recommendation_type * benefit * energy

Prioritized(rows, w) ==
    Ranking!Ranked([k \in DOMAIN rows |->
        WithColumns(rows[k], [priority |-> RecommendationScore(rows[k], rows, w)])])

-----------------------------------------------------------------------------
Sum(rows, column) == FoldFunction(+, 0, [k \in DOMAIN rows |-> rows[k][column]])
Count(rows, Test(_)) == Len(SelectSeq(rows, Test))

\* Amounts that are close to zero are zero here, and may be above it as well.
Counts(rows) ==
    [row_count |-> Len(rows),
     recommendation_count |-> Count(rows, LAMBDA row : row.recommendation # "no_action"),
     positive |-> Count(rows, LAMBDA row : Positive(row.gross_benefit, 16 * row.cost)),
     negative |-> Count(rows, LAMBDA row : Negative(row.gross_benefit, 16 * row.cost)),
     zero |-> Count(rows, LAMBDA row : row.net_impact = 0),
     intervention_count |-> Count(rows, LAMBDA row : row.economically_justified),
     total_recoverable |-> Sum(rows, "recoverable"), total_impact |-> Sum(rows, "net_impact")]

CountsAccepted(c) ==
    /\ c.positive + c.negative + c.zero = c.row_count
    /\ c.recommendation_count <= c.row_count /\ c.intervention_count <= c.row_count

-----------------------------------------------------------------------------
Init ==
    /\ input \in OptimizationInputs
    /\ state = [phase |-> "given", refused |-> FALSE, rows |-> input.rows,
                labels |-> input.labels, report |-> None]

LabelsUnique == \A j, k \in DOMAIN state.labels : state.labels[j] = state.labels[k] => j = k

All(Accepted(_)) == state.rows # <<>> /\ \A k \in DOMAIN state.rows : Accepted(state.rows[k])

\* The rows with more columns, or a ValueError; phase names the last analysis
\* that was called.
Analyze(from, to, accepted, With(_)) ==
    /\ state.phase = from /\ ~state.refused
    /\ state' = IF accepted
                THEN [state EXCEPT !.phase = to, !.rows = [k \in DOMAIN @ |-> With(@[k])]]
                ELSE [state EXCEPT !.phase = to, !.refused = TRUE]
    /\ UNCHANGED input

AnalyzeEnergyLosses == Analyze("given", "losses", All(LossAccepted), WithLoss)

AnalyzeRecoverable == Analyze("losses", "recoverable", All(FactorAccepted), WithRecoverable)

\* Rows are looked up by their labels, and a label of two rows finds no cell.
AnalyzeCostBenefits ==
    Analyze("recoverable", "cost_benefit", LabelsUnique /\ All(CostsAccepted), WithCostBenefit)

OptimizeCosts == Analyze("cost_benefit", "costs", All(CostAccepted), WithIntervention)

EstimateFinancialImpacts ==
    Analyze("costs", "impacts", LabelsUnique /\ All(ImpactAccepted), WithImpact)

AnalyzeScenarios == Analyze("impacts", "scenarios", LabelsUnique /\ All(ScenarioAccepted), WithScenario)

GenerateRecommendations ==
    Analyze("scenarios", "recommended", LabelsUnique /\ All(RecommendationAccepted), WithRecommendation)

\* The ranked rows have new labels.
PrioritizeRecommendations ==
    /\ state.phase = "recommended" /\ ~state.refused
    /\ state' = IF Ranking!WeightsAccepted(input.weights)
                THEN [state EXCEPT !.phase = "ranked", !.rows = Prioritized(@, input.weights),
                                   !.labels = [k \in DOMAIN @ |-> k - 1]]
                ELSE [state EXCEPT !.phase = "ranked", !.refused = TRUE]
    /\ UNCHANGED input

ValidateOutputs ==
    /\ state.phase = "ranked" /\ ~state.refused
    /\ state' = [state EXCEPT !.phase = "validated", !.refused = ~CountsAccepted(Counts(state.rows)),
                    !.report = IF CountsAccepted(Counts(state.rows)) THEN Counts(state.rows) ELSE None]
    /\ UNCHANGED input

Next ==
    \/ AnalyzeEnergyLosses \/ AnalyzeRecoverable \/ AnalyzeCostBenefits \/ OptimizeCosts
    \/ EstimateFinancialImpacts \/ AnalyzeScenarios
    \/ GenerateRecommendations \/ PrioritizeRecommendations \/ ValidateOutputs

Spec == Init /\ [][Next]_<<input, state>>

-----------------------------------------------------------------------------
Analyzed == state.phase = "validated" \/ (state.phase = "ranked" /\ ~state.refused)

SoundRow(row) ==
    /\ row.equipment # 0
    /\ \A c \in {"actual", "expected", "failure_cost", "cost", "price", "saving"} : Amount(row[c])
    /\ \A c \in {"factor", "risk", "probability", "effectiveness"} : IsRatio(row[c])

SoundFrame ==
    /\ input.rows # <<>> /\ Ranking!WeightsAccepted(input.weights)
    /\ \A j, k \in DOMAIN input.labels : input.labels[j] = input.labels[k] => j = k
    /\ \A k \in DOMAIN input.rows : SoundRow(input.rows[k])

\* The analysis of costs, that of cost and benefit, and the comparison of the
\* scenarios are three programs for one decision.
AnalysesAgree ==
    Analyzed =>
        \A k \in DOMAIN state.rows :
            LET row == state.rows[k] IN
            /\ row.should_intervene = row.economically_justified
            /\ row.cost_saving > 0 => row.should_intervene
            /\ row.should_intervene => row.cost_saving >= 0
            /\ row.energy_gain = row.recoverable /\ row.recoverable <= 4 * row.expected

\* Equipment that is at more risk, would save more and could recover more,
\* and whose maintenance pays if the other's does, is not ranked after it;
\* and what is to be maintained is at high risk by the maintenance levels.
UrgentIsRankedFirst ==
    Analyzed =>
        \A j, k \in DOMAIN state.rows :
            LET a == state.rows[j] b == state.rows[k] IN
            /\ (\A c \in {"risk", "expected_avoided_cost", "recoverable"} : a[c] >= b[c])
                   /\ (b.economically_justified => a.economically_justified)
                   /\ a.equipment < b.equipment => j < k
            /\ a.recommendation = "maintenance" =>
                   a.should_intervene /\ Ranking!RiskLevel(a.risk, 4) \in {"high", "critical"}

\* A frame of sound values and unique labels is refused only for an
\* intervention that costs nothing and helps, or for an impact that rounding
\* alone leaves; and the report on any frame adds up.
SoundFramesAreReported ==
    /\ SoundFrame /\ state.refused =>
           CASE state.phase = "costs" ->
                    \E k \in DOMAIN input.rows :
                        input.rows[k].cost = 0 /\ input.rows[k].effectiveness > 0
             [] state.phase = "validated" ->
                    input.residue # 0 /\ \E k \in DOMAIN state.rows : state.rows[k].net_impact = 0
             [] state.phase \notin {"costs", "validated"} -> FALSE
    /\ state.report # None =>
           /\ state.report.total_recoverable <= 4 * Sum(state.rows, "energy_loss")
           /\ Count(state.rows, LAMBDA row : row.recommendation = "maintenance")
                  <= state.report.intervention_count
=============================================================================
