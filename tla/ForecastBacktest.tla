---------------------------- MODULE ForecastBacktest ----------------------------
(***************************************************************************)
(* How a forecasting model is judged: source rows become a dataset, a      *)
(* model is fitted to the rows before each of several points and predicts  *)
(* those after it, and its errors are compared with those of another model.*)
(* Predictions have the times that follow the last one the model saw; what *)
(* they are compared with is the rows that follow it.                      *)
(*                                                                         *)
(* A row is [time, value]; the interval of the data is 1.  A model is the  *)
(* number of its seasonal periods.                                         *)
(***************************************************************************)
EXTENDS Integers, Sequences, FiniteSets, Functions

CONSTANTS None, NaN,
    BacktestInputs      \* [frame, models, initial, horizon, step]

VARIABLES input, state

-----------------------------------------------------------------------------
DatasetAccepted(frame) ==
    /\ frame # <<>>
    /\ \A k \in DOMAIN frame : frame[k].time # None /\ frame[k].value # NaN
    /\ \A j, k \in DOMAIN frame : frame[j].time = frame[k].time => j = k

\* In each place the row that has as many earlier ones.
SortedByTime(frame) ==
    LET Before(j) == {i \in DOMAIN frame : frame[i].time < frame[j].time} IN
    [k \in DOMAIN frame |-> frame[CHOOSE j \in DOMAIN frame : Cardinality(Before(j)) = k - 1]]

BacktestAccepted(frame) ==
    /\ frame # <<>> /\ input.initial >= 1 /\ input.horizon >= 1 /\ input.step >= 1
    /\ Len(frame) >= input.initial + input.horizon

-----------------------------------------------------------------------------
\* The naive model repeats the last value it saw, as a season of one would.
Naive == 1

FitAccepted(model, train) == model >= Naive /\ train # <<>> /\ Len(train) >= model

\* What the model keeps of the rows it saw.
Fit(model, train) ==
    [last |-> train[Len(train)].time,
     history |-> [k \in 1..model |-> train[Len(train) - model + k].value]]

Predict(model, fitted, horizon) ==
    [k \in 1..horizon |->
        [time |-> fitted.last + k, prediction |-> fitted.history[((k - 1) % model) + 1]]]

\* The rows before the point, and the horizon's rows after it.
TrainRows(rows, point) == [k \in 1..point |-> rows[k]]

TestRows(rows, point) == [k \in 1..input.horizon |-> rows[point + k]]

FoldOf(model, rows, point) ==
    [point |-> point, actuals |-> TestRows(rows, point),
     forecast |-> Predict(model, Fit(model, TrainRows(rows, point)), input.horizon)]

-----------------------------------------------------------------------------
Abs(v) == IF v >= 0 THEN v ELSE -v

\* Predictions and actuals are compared place by place, over all folds.
Pairs(folds) ==
    [x \in (DOMAIN folds) \X (1..input.horizon) |->
        <<folds[x[1]].actuals[x[2]].value, folds[x[1]].forecast[x[2]].prediction>>]

\* The sums the metrics are made of; a metric relative to nothing is None.
Summary(model, folds) ==
    LET pairs == Pairs(folds)
        absolute == SumFunction([x \in DOMAIN pairs |-> Abs(pairs[x][1] - pairs[x][2])])
        squared == SumFunction([x \in DOMAIN pairs |-> (pairs[x][1] - pairs[x][2]) * (pairs[x][1] - pairs[x][2])])
        actual == SumFunction([x \in DOMAIN pairs |-> Abs(pairs[x][1])]) IN
    [model |-> model, folds |-> Len(folds), samples |-> Cardinality(DOMAIN pairs),
     mae |-> absolute, rmse |-> squared,
     wape |-> IF actual = 0 THEN None ELSE <<absolute, actual>>,
     mape_defined |-> \E x \in DOMAIN pairs : pairs[x][1] # 0]

ComparisonAccepted(candidate, baseline) ==
    candidate.folds = baseline.folds /\ candidate.samples = baseline.samples

\* How much of the baseline's error the candidate saves, in percent.
Improvement(baseline, candidate) ==
    IF baseline = 0 THEN None ELSE ((baseline - candidate) * 100) \div baseline

\* The summaries by mean absolute error; sorting is stable.
RankedModels(summaries) ==
    LET Before(k) == {j \in DOMAIN summaries :
            \/ summaries[j].mae < summaries[k].mae
            \/ summaries[j].mae = summaries[k].mae /\ j < k} IN
    [k \in DOMAIN summaries |-> summaries[CHOOSE j \in DOMAIN summaries : Cardinality(Before(j)) = k - 1]]

-----------------------------------------------------------------------------
Init ==
    /\ input \in BacktestInputs
    /\ state = [phase |-> "given", rows |-> input.frame, point |-> input.initial, folds |-> <<>>,
                summaries |-> <<>>, ranking |-> <<>>, improvement |-> None]

Refused == state' = [state EXCEPT !.phase = "refused"]

BuildForecastDataset ==
    /\ state.phase = "given"
    /\ IF DatasetAccepted(state.rows)
       THEN state' = [state EXCEPT !.phase = "dataset", !.rows = SortedByTime(@)]
       ELSE Refused
    /\ UNCHANGED input

\* Each model is a new one for each fold.
Model == input.models[Len(state.summaries) + 1]

StartBacktest ==
    /\ state.phase = "dataset" /\ Len(state.summaries) < Len(input.models)
    /\ IF BacktestAccepted(state.rows)
       THEN state' = [state EXCEPT !.phase = "backtest", !.rows = SortedByTime(@),
                          !.point = input.initial, !.folds = <<>>]
       ELSE Refused
    /\ UNCHANGED input

BacktestFold ==
    /\ state.phase = "backtest" /\ state.point + input.horizon <= Len(state.rows)
    /\ IF FitAccepted(Model, TrainRows(state.rows, state.point))
       THEN state' = [state EXCEPT !.point = @ + input.step,
                          !.folds = Append(@, FoldOf(Model, state.rows, state.point))]
       ELSE Refused
    /\ UNCHANGED input

AggregateBacktestMetrics ==
    /\ state.phase = "backtest" /\ state.point + input.horizon > Len(state.rows)
    /\ state' = [state EXCEPT !.phase = "dataset", !.summaries = Append(@, Summary(Model, state.folds))]
    /\ UNCHANGED input

\* The last model is the candidate, the first the baseline.
CompareModels ==
    /\ state.phase = "dataset" /\ Len(state.summaries) = Len(input.models)
    /\ LET baseline == Head(state.summaries) candidate == state.summaries[Len(state.summaries)] IN
       IF ComparisonAccepted(candidate, baseline)
       THEN state' = [state EXCEPT !.phase = "compared", !.ranking = RankedModels(state.summaries),
                          !.improvement = Improvement(baseline.mae, candidate.mae)]
       ELSE Refused
    /\ UNCHANGED input

Next ==
    \/ BuildForecastDataset \/ StartBacktest \/ BacktestFold
    \/ AggregateBacktestMetrics \/ CompareModels

Spec == Init /\ [][Next]_<<input, state>>

-----------------------------------------------------------------------------
\* No observation of the input is missing between its first and its last.
Gapless ==
    LET times == {input.frame[k].time : k \in DOMAIN input.frame} IN
    \A t \in times : t + 1 \in times \/ \A u \in times : u <= t

\* What is predicted at a fold hangs on values from before everything it is
\* tested on; with no gap in the data it is for the times it is compared at,
\* and the value of the same place in an earlier season.
FoldsSeeNoFuture ==
    state.phase = "backtest" => \A f \in DOMAIN state.folds : \A k \in DOMAIN state.folds[f].forecast :
        LET fold == state.folds[f]
            p == fold.forecast[k] a == fold.actuals[k] IN
        /\ \E row \in Range(input.frame) :
               /\ row.value = p.prediction /\ \A j \in DOMAIN fold.actuals : row.time < fold.actuals[j].time
               /\ Gapless => p.time = a.time /\ (p.time - row.time) % Model = 0
        /\ p.time <= a.time

\* Models that are compared were tested on the same rows as often, and one is
\* ranked above another that errs more.
ComparisonIsFair ==
    state.phase = "compared" =>
        /\ \A j, k \in DOMAIN state.ranking : j < k => state.ranking[j].mae <= state.ranking[k].mae
        /\ \A j \in DOMAIN state.ranking :
               state.ranking[j].samples
                   = input.horizon * (((Len(input.frame) - input.initial - input.horizon) \div input.step) + 1)
        /\ state.improvement # None =>
               (state.improvement > 0 =>
                    Head(state.ranking).model # Head(input.models) \/ Len(input.models) = 1)

-----------------------------------------------------------------------------
(* What the two properties rest on.                                        *)

\* Times and values are numbers unless they are missing; something is compared.
BacktestFits ==
    /\ None \notin Int
    /\ \A i \in BacktestInputs :
           /\ Len(i.frame) \in Nat /\ DOMAIN i.frame = 1..Len(i.frame)
           /\ \A k \in DOMAIN i.frame :
                  LET r == i.frame[k] IN
                  (r.time # None => r.time \in Int) /\ (r.value # NaN => r.value \in Int)
           /\ i.models \in Seq(Int) /\ i.models # <<>>
           /\ {i.initial, i.horizon, i.step} \subseteq Int

\* Rows of the frame, one at a time and each once.
Ordered(rows, frame) ==
    /\ DOMAIN rows = DOMAIN frame /\ Range(rows) = Range(frame) /\ SortedByTime(rows) = rows
    /\ \A k \in DOMAIN rows : rows[k].time \in Int /\ rows[k].value \in Int
    /\ \A j, k \in DOMAIN rows : j < k <=> rows[j].time < rows[k].time

PointOf(f) == input.initial + (f - 1) * input.step

\* The first folds of a backtest, and how many there are in all.
FoldsOf(model, rows, number) == [f \in 1..number |-> FoldOf(model, rows, PointOf(f))]

NumberOf(rows) == ((Len(rows) - input.initial - input.horizon) \div input.step) + 1

SummaryOf(model, rows) == Summary(model, FoldsOf(model, rows, NumberOf(rows)))

\* The folds there are were accepted, and there was room for them.
FoldsSoFar(number) ==
    /\ state.point = PointOf(number + 1) /\ state.folds = FoldsOf(Model, state.rows, number)
    /\ \A f \in 1..number : /\ PointOf(f) + input.horizon <= Len(state.rows)
                             /\ Model >= Naive /\ Model <= PointOf(f)

BacktestInv ==
    /\ input \in BacktestInputs
    /\ DOMAIN state = {"phase", "rows", "point", "folds", "summaries", "ranking", "improvement"}
    /\ state.phase = "given" => state.rows = input.frame /\ state.summaries = <<>>
    /\ state.phase \in {"dataset", "backtest", "compared"} =>
           /\ Ordered(state.rows, input.frame)
           /\ \E n \in 0..Len(input.models) :
                  /\ state.summaries = [j \in 1..n |-> SummaryOf(input.models[j], state.rows)]
                  /\ n > 0 => \A j \in 1..n : input.models[j] >= Naive /\ input.models[j] <= input.initial
                  /\ n > 0 \/ state.phase = "backtest" => BacktestAccepted(state.rows)
                  /\ state.phase = "backtest" => n < Len(input.models)
                  /\ state.phase = "compared" => n = Len(input.models)
    /\ state.phase = "backtest" => \E number \in 0..Len(state.rows) : FoldsSoFar(number)
    /\ state.phase = "compared" =>
           LET baseline == state.summaries[1] candidate == state.summaries[Len(state.summaries)] IN
           /\ state.ranking = RankedModels(state.summaries)
           /\ state.improvement = Improvement(baseline.mae, candidate.mae)
===============================================================================
