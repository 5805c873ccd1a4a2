-------------------------- MODULE MaintenanceRanking --------------------------
(***************************************************************************)
(* The equipment to maintain first: a frame of equipment is given health   *)
(* scores, then risks, then priorities and their ranks.  A row that is     *)
(* refused refuses the frame.                                              *)
(*                                                                         *)
(* Indicators count quarters of one, weights are percent: a degradation is *)
(* then out of 400, a risk out of 40000, a priority out of 4000000.        *)
(* Equipment 0 has a blank identifier.                                     *)
(***************************************************************************)
EXTENDS Integers, Sequences, SequencesExt

CONSTANTS None, NaN,
    MaintenanceInputs   \* [rows, health_weights, risk_weights, priority_weights]

VARIABLES input, state

-----------------------------------------------------------------------------
Indicators ==
    {"failure_probability", "anomaly_rate", "alarm_burden", "temperature_stress",
     "performance_loss"}

DefaultHealthWeights ==
    [failure_probability |-> 35, anomaly_rate |-> 20, alarm_burden |-> 15,
     temperature_stress |-> 15, performance_loss |-> 15]

DefaultRiskWeights == [health |-> 40, failure_probability |-> 60]

DefaultPriorityWeights ==
    [risk_score |-> 40, failure_probability |-> 30, health_degradation |-> 20, criticality |-> 10]

WeightsAccepted(w) == (\A c \in DOMAIN w : w[c] >= 0) /\ FoldFunction(+, 0, w) = 100

Weighted(values, w) == FoldFunction(+, 0, [c \in DOMAIN w |-> w[c] * values[c]])

Whole == 4
IsRatio(v) == v # NaN /\ v \in 0..Whole

-----------------------------------------------------------------------------
\* One value tells no trend, so it is not looked at.
TrendKnown(history) ==
    /\ history # NaN
    /\ history # None => (Len(history) >= 2 => \A k \in DOMAIN history : history[k] # NaN)

\* By more than a twentieth of the larger end, or of one.
Trend(history) ==
    IF history = None THEN "stable"
    ELSE IF Len(history) < 2 THEN "stable"
    ELSE LET first == Head(history)
             last  == history[Len(history)]
             scale == CHOOSE s \in {first, last, 1} : \A t \in {first, last, 1} : s >= t IN
         CASE 20 * (last - first) > scale -> "improving"
           [] 20 * (first - last) > scale -> "degrading"
           [] 20 * (last - first) \in -scale..scale -> "stable"

FullHealth == 100 * Whole

Degradation(row, w) == Weighted(row, w)

HealthAccepted(row) ==
    row.equipment # 0 /\ TrendKnown(row.history) /\ \A c \in Indicators : IsRatio(row[c])

\* Columns added to a row; there are no others with their names.
WithColumns(row, columns) == columns @@ row

WithHealth(row, w) ==
    LET degradation == Degradation(row, w) IN
    WithColumns(row,
        [contributions |-> [c \in Indicators |-> w[c] * row[c]], degradation |-> degradation,
         health |-> FullHealth - degradation, confidence |-> FullHealth - degradation,
         trend |-> Trend(row.history)])

-----------------------------------------------------------------------------
\* score out of full
RiskLevel(score, full) ==
    CASE 4 * score >= 3 * full -> "critical"
      [] 4 * score \in 2 * full..3 * full - 1 -> "high"
      [] 4 * score \in full..2 * full - 1 -> "moderate"
      [] 4 * score < full -> "low"

\* Mutant: the health counts instead of what it lacks.
HealthIsRisk(row, w) ==
    row.health * w.health + 100 * row.failure_probability * w.failure_probability

RiskScore(row, w) ==
    (FullHealth - row.health) * w.health + 100 * row.failure_probability * w.failure_probability

WithRisk(row, w) ==
    LET score == RiskScore(row, w) IN
    WithColumns(row, [risk_score |-> score, risk_level |-> RiskLevel(score, 100 * FullHealth)])

-----------------------------------------------------------------------------
PriorityAccepted(row) == IsRatio(row.criticality)

PriorityScore(row, w) ==
    Weighted([risk_score |-> row.risk_score,
              failure_probability |-> 10000 * row.failure_probability,
              health_degradation |-> 100 * (FullHealth - row.health),
              criticality |-> 10000 * row.criticality], w)

\* Higher scores first, then identifiers in order; the sort is stable.
Ranked(rows) ==
    LET Before(j, k) ==
            \/ rows[j].priority > rows[k].priority
            \/ rows[j].priority = rows[k].priority
               /\ (\/ rows[j].equipment < rows[k].equipment
                   \/ rows[j].equipment = rows[k].equipment /\ j < k)
        order == SetToSortSeq(DOMAIN rows, Before) IN
    [k \in DOMAIN rows |-> WithColumns(rows[order[k]], [rank |-> k])]

-----------------------------------------------------------------------------
Init ==
    /\ input \in MaintenanceInputs
    /\ state = [phase |-> "given", rows |-> input.rows]

\* The frame goes from one phase to the next, or is refused.
Evaluate(from, to, accepted, rows) ==
    /\ state.phase = from
    /\ state' = IF accepted THEN [phase |-> to, rows |-> rows] ELSE [state EXCEPT !.phase = "refused"]
    /\ UNCHANGED input

CalculateHealthScores ==
    Evaluate("given", "scored",
        state.rows # <<>> /\ WeightsAccepted(input.health_weights)
            /\ \A k \in DOMAIN state.rows : HealthAccepted(state.rows[k]),
        [k \in DOMAIN state.rows |-> WithHealth(state.rows[k], input.health_weights)])

ClassifyRisks ==
    Evaluate("scored", "classified", WeightsAccepted(input.risk_weights),
        [k \in DOMAIN state.rows |-> WithRisk(state.rows[k], input.risk_weights)])

PrioritizeMaintenance ==
    Evaluate("classified", "ranked",
        WeightsAccepted(input.priority_weights)
            /\ \A k \in DOMAIN state.rows :
                   "criticality" \in DOMAIN state.rows[k] /\ PriorityAccepted(state.rows[k]),
        Ranked([k \in DOMAIN state.rows |->
            WithColumns(state.rows[k],
                [priority |-> PriorityScore(state.rows[k], input.priority_weights)])]))

Next == CalculateHealthScores \/ ClassifyRisks \/ PrioritizeMaintenance

Spec == Init /\ [][Next]_<<input, state>>

-----------------------------------------------------------------------------
Levels == [low |-> 0, moderate |-> 1, high |-> 2, critical |-> 3]

\* Equipment that is in a worse state by every indicator has no lower risk
\* level, and comes before the other unless they tie and its name is later.
WorseIsRankedFirst ==
    state.phase = "ranked" =>
        \A j, k \in DOMAIN state.rows :
            LET a == state.rows[j] b == state.rows[k] IN
            (\A c \in Indicators \cup {"criticality"} : a[c] >= b[c]) =>
                /\ Levels[a.risk_level] >= Levels[b.risk_level]
                /\ a.equipment < b.equipment => a.rank < b.rank

\* Every row of the frame has exactly one place among the ranks.
EachHasAPlace ==
    state.phase = "ranked" =>
        /\ \A k \in DOMAIN state.rows : state.rows[k].rank = k
        /\ \A j \in DOMAIN input.rows :
               LET given == input.rows[j]
                   Same(row) == \A c \in DOMAIN given : row[c] = given[c] IN
               Len(SelectSeq(state.rows, Same)) = Len(SelectSeq(input.rows, Same))
=============================================================================
