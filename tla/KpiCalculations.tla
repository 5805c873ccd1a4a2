--------------------------- MODULE KpiCalculations ---------------------------
(***************************************************************************)
(* The indicators of analytics/kpi: reliability and availability from the  *)
(* downtimes of a window, losses and money from the energy of its          *)
(* intervals.  Each result is valid, or says that there are too few data or*)
(* that they are wrong; who computes one from others goes on from valid    *)
(* ones.                                                                   *)
(*                                                                         *)
(* Time goes in hours.  A downtime is [from, to, aware]; an energy is an   *)
(* integer, NaN, or None where nothing was measured; a mean, a factor or a *)
(* percentage is the pair of what is divided and by what.  Numbers are     *)
(* exact.  One list of downtimes serves all that the code gives intervals: *)
(* repairs, failures by their starts, and alarms until acknowledged.       *)
(***************************************************************************)
EXTENDS Integers, Sequences, SequencesExt

CONSTANTS None, NaN,
    KpiInputs   \* [kind : {"downtime"}, start, end, downtimes, unseen] or [kind : {"energy"}, ...]

VARIABLES input, state

-----------------------------------------------------------------------------
Result(status, value, count) == [status |-> status, value |-> value, count |-> count]

Valid(value, count) == Result("valid", value, count)
Insufficient(count) == Result("insufficient_data", None, count)
Invalid             == Result("invalid_input", None, 0)

IsValid(result) == result.status = "valid"

\* Comparisons with NaN are false, and arithmetic with it gives NaN.
Below(a, b) == a # NaN /\ b # NaN /\ a < b
Plus(a, b)  == IF NaN \in {a, b} THEN NaN ELSE a + b
Minus(a, b) == IF NaN \in {a, b} THEN NaN ELSE a - b
Times(a, b) == IF NaN \in {a, b} THEN NaN ELSE a * b
Over(a, b)  == IF NaN \in {a, b} THEN NaN ELSE <<a, b>>

\* max(value, 0.0): what is not below 0, NaN included
Clamped(value) == IF Below(value, 0) THEN 0 ELSE value

Total(values) == FoldSeq(Plus, 0, values)

Known(values) == SelectSeq(values, LAMBDA v : v # None)

-----------------------------------------------------------------------------
(* Results of one shape *)

\* A part of a whole that has to be positive.
Percentage(part, whole) ==
    IF Below(part, 0) \/ Below(whole, 1) THEN Invalid ELSE Valid(Over(part, whole), 1)

\* The same, of a part that must not exceed the whole.
Share(part, whole) == IF Below(whole, part) THEN Invalid ELSE Percentage(part, whole)

Product(a, b)    == IF Below(a, 0) \/ Below(b, 0) THEN Invalid ELSE Valid(Times(a, b), 1)
Difference(a, b) == IF Below(a, 0) \/ Below(b, 0) THEN Invalid ELSE Valid(Minus(a, b), 1)

-----------------------------------------------------------------------------
(* Reliability *)

WindowAccepted == input.start < input.end

Hours == input.end - input.start

InWindow(t) == input.start <= t /\ t < input.end

\* Only the start of a downtime has to be in the window.
DowntimesAccepted(downtimes, least) ==
    \A k \in DOMAIN downtimes :
        /\ downtimes[k].aware /\ InWindow(downtimes[k].from)
        /\ downtimes[k].to - downtimes[k].from >= least

Durations(downtimes) == [k \in DOMAIN downtimes |-> downtimes[k].to - downtimes[k].from]

\* The sum of the durations, each of which is at least the least.
TotalOf(downtimes, least) ==
    IF downtimes = <<>> THEN Insufficient(0)
    ELSE IF ~DowntimesAccepted(downtimes, least) THEN Invalid
    ELSE Valid(Total(Durations(downtimes)), Len(downtimes))

MeanOf(total) == IF IsValid(total) THEN [total EXCEPT !.value = Over(@, total.count)] ELSE total

TotalDowntime(downtimes) == TotalOf(downtimes, 1)

DowntimePercentage(hours) == Share(hours, Hours)

MeanTimeToRepair(downtimes) == MeanOf(TotalOf(downtimes, 1))

\* An alarm may be acknowledged when it is raised.
MeanTimeToAcknowledge(downtimes) == MeanOf(TotalOf(downtimes, 0))

\* Mutant: the times are taken as they come.
UnsortedGaps(times) == [k \in 1..(Len(times) - 1) |-> times[k + 1] - times[k]]

Gaps(times) ==
    LET sorted == SortSeq(times, <) IN [k \in 1..(Len(times) - 1) |-> sorted[k + 1] - sorted[k]]

MeanTimeBetweenFailures(failures) ==
    LET gaps == Gaps([k \in DOMAIN failures |-> failures[k].from]) IN
    IF Len(failures) < 2 THEN Insufficient(Len(failures))
    ELSE IF \E k \in DOMAIN failures : ~failures[k].aware \/ ~InWindow(failures[k].from) THEN Invalid
    ELSE IF \E k \in DOMAIN gaps : gaps[k] <= 0 THEN Invalid
    ELSE Valid(Over(Total(gaps), Len(gaps)), Len(gaps))

\* The share of the observations that say available.
GridAvailability(observations) ==
    LET known == Known(observations) IN
    IF known = <<>> THEN Insufficient(0)
    ELSE IF \E k \in DOMAIN known : known[k] \notin BOOLEAN THEN Invalid
    ELSE Valid(Over(Len(SelectSeq(known, LAMBDA v : v)), Len(known)), Len(known))

TechnicalAvailability(observations) == GridAvailability(observations)

-----------------------------------------------------------------------------
(* Energy *)

ActualEnergy(series) ==
    LET known == Known(series) IN
    IF known = <<>> THEN Insufficient(0)
    ELSE IF \E k \in DOMAIN known : Below(known[k], 0) THEN Invalid
    ELSE Valid(Total(known), Len(known))

ExpectedEnergy(series) == ActualEnergy(series)

\* Mutant: what an interval yields above its potential makes up for another.
NetLosses(pairs) == [k \in DOMAIN pairs |-> Minus(pairs[k][1], pairs[k][2])]

Losses(pairs) == [k \in DOMAIN pairs |-> Clamped(Minus(pairs[k][1], pairs[k][2]))]

CurtailedEnergy(potential, actual) ==
    LET pairs == SelectSeq(Zip(potential, actual), LAMBDA p : p[1] # None /\ p[2] # None) IN
    IF Len(potential) # Len(actual) THEN Invalid
    ELSE IF pairs = <<>> THEN Insufficient(0)
    ELSE IF \E k \in DOMAIN pairs : Below(pairs[k][1], 0) \/ Below(pairs[k][2], 0) THEN Invalid
    ELSE Valid(Total(Losses(pairs)), Len(pairs))

ClippingLoss(unconstrained, delivered) == CurtailedEnergy(unconstrained, delivered)

SoilingLoss(clean, soiled) ==
    IF Below(clean, 0) \/ Below(soiled, 0) THEN Invalid ELSE Valid(Clamped(Minus(clean, soiled)), 1)

EnergyVariance(actual, expected)      == Difference(actual, expected)
EnergyAchievement(actual, expected)   == Percentage(actual, expected)
PerformanceRatio(actual, reference)   == Percentage(actual, reference)
CapacityFactor(actual, rated)         == Percentage(actual, Times(rated, Hours))
CurtailmentPercentage(loss, energy)   == Share(loss, energy)
ClippingPercentage(loss, energy)      == Share(loss, energy)

SoilingPercentage(clean, soiled) ==
    IF Below(clean, 1) \/ Below(soiled, 0) THEN Invalid
    ELSE Valid(Over(Clamped(Minus(clean, soiled)), clean), 1)

RecoverableEnergy(losses) ==
    IF \E k \in DOMAIN losses : Below(losses[k], 0) THEN Invalid ELSE Valid(Total(losses), Len(losses))

RecoverablePercentage(energy, expected) == Share(energy, expected)

-----------------------------------------------------------------------------
(* Money *)

Revenue(energy, tariff)            == Product(energy, tariff)
RevenueLoss(energy, tariff)        == Product(energy, tariff)
RecoverableRevenue(energy, tariff) == Product(energy, tariff)
BudgetVariance(cost, budget)       == Difference(cost, budget)
BudgetUtilization(cost, budget)    == Percentage(cost, budget)

-----------------------------------------------------------------------------
Init == input \in KpiInputs /\ state = [phase |-> "given", results |-> [r \in {} |-> None]]

\* A window that ends where it starts is a ValueError.
ConstructWindow ==
    /\ state.phase = "given"
    /\ state' = [state EXCEPT !.phase = IF WindowAccepted THEN "window" ELSE "refused"]
    /\ UNCHANGED input

Measure(from, to, kind, results) ==
    /\ state.phase = from /\ input.kind = kind
    /\ state' = [phase |-> to, results |-> results @@ state.results]
    /\ UNCHANGED input

\* The equipment is down between the start and the end of a downtime.
Down(t) == \E k \in DOMAIN input.downtimes : input.downtimes[k].from <= t /\ t < input.downtimes[k].to

\* Its hourly observations, some of which are missing, or NaN as in a frame.
HourlyObservations ==
    [k \in 1..Hours |->
        LET t == input.start + k - 1 IN
        IF t \in DOMAIN input.unseen THEN input.unseen[t] ELSE ~Down(t)]

MeasureReliability ==
    Measure("window", "reliability", "downtime",
        [downtime |-> TotalDowntime(input.downtimes),
         mttr     |-> MeanTimeToRepair(input.downtimes),
         mtta     |-> MeanTimeToAcknowledge(input.downtimes),
         mtbf     |-> MeanTimeBetweenFailures(input.downtimes),
         grid     |-> GridAvailability(HourlyObservations),
         technical |-> TechnicalAvailability(HourlyObservations)])

RelateDowntime ==
    /\ state.phase = "reliability" /\ IsValid(state.results.downtime)
    /\ Measure("reliability", "related", "downtime",
           [percentage |-> DowntimePercentage(state.results.downtime.value)])

MeasureEnergy ==
    Measure("window", "energy", "energy",
        [actual    |-> ActualEnergy(input.actual),
         expected  |-> ExpectedEnergy(input.potential),
         curtailed |-> CurtailedEnergy(input.potential, input.actual),
         clipped   |-> ClippingLoss(input.potential, input.actual),
         soiling   |-> SoilingLoss(input.clean, input.soiled),
         soiling_percentage |-> SoilingPercentage(input.clean, input.soiled)])

\* Both reasons for which energy falls short are looked for in one series.
RelateEnergy ==
    /\ state.phase = "energy"
    /\ \A r \in {"actual", "expected", "curtailed", "clipped", "soiling"} : IsValid(state.results[r])
    /\ LET r == state.results
           actual == r.actual.value
           expected == r.expected.value IN
       Measure("energy", "losses", "energy",
           [variance          |-> EnergyVariance(actual, expected),
            achievement       |-> EnergyAchievement(actual, expected),
            performance_ratio |-> PerformanceRatio(actual, input.clean),
            capacity_factor   |-> CapacityFactor(actual, input.rated),
            curtailment       |-> CurtailmentPercentage(r.curtailed.value, expected),
            clipping          |-> ClippingPercentage(r.clipped.value, expected),
            recoverable       |->
                RecoverableEnergy(<<r.curtailed.value, r.soiling.value, r.clipped.value, input.lost>>)])

ValueEnergy ==
    /\ state.phase = "losses" /\ IsValid(state.results.recoverable)
    /\ LET r == state.results IN
       Measure("losses", "valued", "energy",
           [opportunity  |-> RecoverablePercentage(r.recoverable.value, r.expected.value),
            revenue      |-> Revenue(r.actual.value, input.tariff),
            potential    |-> Revenue(r.expected.value, input.tariff),
            loss         |-> RevenueLoss(r.curtailed.value, input.tariff),
            recoverable_revenue |-> RecoverableRevenue(r.recoverable.value, input.tariff),
            budget_variance     |-> BudgetVariance(input.cost, input.budget),
            budget_utilization  |-> BudgetUtilization(input.cost, input.budget)])

Next ==
    \/ ConstructWindow \/ MeasureReliability \/ RelateDowntime
    \/ MeasureEnergy \/ RelateEnergy \/ ValueEnergy

Spec == Init /\ [][Next]_<<input, state>>

-----------------------------------------------------------------------------
HasResult(r) == r \in DOMAIN state.results

Answered(r) == HasResult(r) /\ IsValid(state.results[r])

Value(r) == state.results[r].value

Disjoint ==
    \A j, k \in DOMAIN input.downtimes : j # k =>
        input.downtimes[j].to <= input.downtimes[k].from \/ input.downtimes[k].to <= input.downtimes[j].from

EndInWindow == \A k \in DOMAIN input.downtimes : input.downtimes[k].to <= input.end

DownHours == {t \in input.start..(input.end - 1) : Down(t)}

FailureTimes == {input.downtimes[k].from : k \in DOMAIN input.downtimes}

\* The total downtime is the time the equipment was down in the window if,
\* and only if, no two downtimes overlap and none goes on after the window;
\* for other downtimes it is more, and only then is its percentage refused.
\* Where every hour was seen, it and the availability make up the window.
\* Repairs take as long as the downtimes, whose starts the mean time between
\* failures spans, in whatever order they come.
ReliabilityAgrees ==
    /\ Answered("downtime") =>
           /\ Value("downtime") >= Cardinality(DownHours)
           /\ (Value("downtime") = Cardinality(DownHours)) <=> (Disjoint /\ EndInWindow)
           /\ Value("mttr") = <<Value("downtime"), Len(input.downtimes)>>
           /\ state.results.mtta = state.results.mttr
           /\ Answered("mtbf") <=>
                  Len(input.downtimes) >= 2 /\ Cardinality(FailureTimes) = Len(input.downtimes)
    /\ Answered("mtbf") =>
           \A s, t \in FailureTimes :
               (\A u \in FailureTimes : s <= u /\ u <= t) =>
                   Value("mtbf") = <<t - s, Cardinality(FailureTimes) - 1>>
    /\ HasResult("percentage") /\ ~Answered("percentage") => ~(Disjoint /\ EndInWindow)
    /\ Answered("percentage") /\ Answered("technical") /\ input.unseen = <<>> =>
           /\ Value("technical")[1] + Value("downtime") >= Hours
           /\ (Value("technical")[1] + Value("downtime") = Hours) <=> (Disjoint /\ EndInWindow)
    /\ HasResult("grid") => state.results.grid = state.results.technical

Complete == \A k \in DOMAIN input.actual : (input.actual[k] = None) <=> (input.potential[k] = None)

OverDelivers ==
    \E k \in DOMAIN input.actual :
        input.actual[k] # None /\ input.potential[k] # None /\ input.actual[k] > input.potential[k]

Numeric ==
    NaN \notin ToSet(input.actual) \cup ToSet(input.potential)
                   \cup {input.clean, input.soiled, input.lost, input.tariff, input.rated}

\* Where both series have the same gaps, what was earned and what was lost
\* make at least what could have been earned, and exactly that unless an
\* interval yields more than its potential.  Losses of the expected energy
\* are a share of it; together they are refused only because curtailment and
\* clipping count one shortfall twice, or for losses from elsewhere.  A NaN
\* is no reason to refuse anything, and the only way to a valid result that
\* is no number.
LossesAgree ==
    /\ HasResult("curtailment") /\ Numeric /\ Value("expected") > 0 =>
           \A r \in {"curtailment", "clipping"} :
               Answered(r) /\ Value(r)[1] <= Value(r)[2] /\ Value(r)[1] >= 0
    /\ HasResult("opportunity") /\ Numeric /\ Value("expected") > 0 /\ ~Answered("opportunity") =>
           \/ 2 * Value("curtailed") > Value("expected") /\ Value("curtailed") = Value("clipped")
           \/ Value("soiling") > 0 \/ input.lost > 0
    /\ Answered("revenue") /\ Answered("loss") /\ Numeric /\ Complete =>
           /\ Value("revenue") + Value("loss") >= Value("potential")
           /\ input.tariff > 0 =>
                  (Value("revenue") + Value("loss") = Value("potential") <=> ~OverDelivers)
    /\ Answered("achievement") /\ Numeric =>
           (Value("variance") < 0 <=> Value("achievement")[1] < Value("achievement")[2])
    /\ Answered("budget_utilization") =>
           (Value("budget_variance") > 0 <=>
               Value("budget_utilization")[1] > Value("budget_utilization")[2])
    /\ HasResult("recoverable") /\ NaN \in ToSet(input.actual) =>
           /\ \A r \in {"actual", "variance", "achievement", "performance_ratio"} :
                  Answered(r) => Value(r) = NaN
           /\ Answered("variance")
    /\ HasResult("curtailed") /\ Numeric => \A r \in DOMAIN state.results : Answered(r) => Value(r) # NaN
=============================================================================
