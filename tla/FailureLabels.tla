----------------------------- MODULE FailureLabels -----------------------------
(***************************************************************************)
(* The data a failure model learns from: observations of equipment are     *)
(* labelled with whether it fails soon, made a dataset, given features of  *)
(* earlier observations, and split by time.  What comes after a row may    *)
(* show in its label alone, as far as the prediction window: a label       *)
(* just before a split tells of failures after it.                         *)
(*                                                                         *)
(* An observation is [equipment, time, value]; equipment 0 has a blank     *)
(* identifier.  Fractions are percent.                                     *)
(***************************************************************************)
EXTENDS Integers, Sequences, FiniteSets, Functions

CONSTANTS None,
    LabelInputs     \* [observations, failures, window, lag, train, validation]

VARIABLES input, state

-----------------------------------------------------------------------------
LabelsAccepted(rows) ==
    /\ rows # <<>> /\ input.failures # {} /\ input.window > 0
    /\ \A k \in DOMAIN rows : rows[k].time # None /\ rows[k].equipment # 0
    /\ \A f \in input.failures : f.time # None /\ f.equipment # 0

\* Mutant: the window is closed at its start and open at its end.
FailsFromNow(row) ==
    \E f \in input.failures :
        f.equipment = row.equipment /\ f.time \in row.time..row.time + input.window - 1

\* A failure at the time of the observation is not ahead of it.
FailsSoon(row) ==
    \E f \in input.failures :
        f.equipment = row.equipment /\ f.time \in row.time + 1..row.time + input.window

Labelled(row) ==
    [equipment |-> row.equipment, time |-> row.time, value |-> row.value, label |-> FailsSoon(row)]

\* Equipment and time identify an observation.
DatasetAccepted(rows) ==
    \A j, k \in DOMAIN rows :
        (rows[j].equipment = rows[k].equipment /\ rows[j].time = rows[k].time) => j = k

\* In each place the row that has as many rows before it.
SortedDataset(rows) ==
    LET Before(j) == {i \in DOMAIN rows :
            \/ rows[i].equipment < rows[j].equipment
            \/ rows[i].equipment = rows[j].equipment /\ rows[i].time < rows[j].time} IN
    [k \in DOMAIN rows |-> rows[CHOOSE j \in DOMAIN rows : Cardinality(Before(j)) = k - 1]]

-----------------------------------------------------------------------------
\* The rows of the same equipment between two, in the frame's order.
Between(rows, j, k) == {i \in (j + 1)..(k - 1) : rows[i].equipment = rows[k].equipment}

\* The value so many rows of the same equipment above.
Shifted(rows, k, lag) ==
    LET places == {j \in 1..(k - 1) : /\ rows[j].equipment = rows[k].equipment
                                       /\ Cardinality(Between(rows, j, k)) = lag - 1} IN
    IF places = {} THEN None ELSE rows[CHOOSE j \in places : TRUE].value

\* What the row above changed to; the features are differences from the row
\* above and the sum of as many rows above as the lag says, when there are.
Delta(rows, k) ==
    IF Shifted(rows, k, 1) = None THEN None ELSE rows[k].value - Shifted(rows, k, 1)

RollingSum(rows, k, window) ==
    IF Shifted(rows, k, window) = None THEN None
    ELSE SumFunction([j \in 1..window |-> Shifted(rows, k, j)])

WithFeatures(rows, k) ==
    LET row == rows[k] IN
    [equipment |-> row.equipment, time |-> row.time, value |-> row.value, label |-> row.label,
     lagged |-> Shifted(rows, k, input.lag), delta |-> Delta(rows, k),
     rolling |-> RollingSum(rows, k, input.lag)]

-----------------------------------------------------------------------------
Times(rows) == {rows[k].time : k \in DOMAIN rows}

\* The n-th time, from 1 on.
NthTime(rows, n) == CHOOSE t \in Times(rows) : Cardinality({u \in Times(rows) : u <= t}) = n

Larger(a, b) == IF a >= b THEN a ELSE b
Smaller(a, b) == IF a <= b THEN a ELSE b

SplitAccepted(rows) ==
    /\ input.train \in 1..99 /\ input.validation \in 1..99 /\ input.train + input.validation < 100
    /\ Cardinality(Times(rows)) >= 3

ChronologicalSplit(rows) ==
    LET n == Cardinality(Times(rows))
        train == Larger(1, (n * input.train) \div 100)
        validation == Smaller(n - 1, Larger(train + 1, (n * (input.train + input.validation)) \div 100))
        trainEnd == NthTime(rows, train)
        validationEnd == NthTime(rows, validation) IN
    [train |-> {row \in Range(rows) : row.time <= trainEnd},
     validation |-> {row \in Range(rows) : trainEnd < row.time /\ row.time <= validationEnd},
     test |-> {row \in Range(rows) : row.time > validationEnd}]

-----------------------------------------------------------------------------
Init ==
    /\ input \in LabelInputs
    /\ state = [phase |-> "given", rows |-> input.observations, split |-> None]

Prepare(from, to, accepted, rows) ==
    /\ state.phase = from
    /\ state' = IF accepted THEN [state EXCEPT !.phase = to, !.rows = rows]
                ELSE [state EXCEPT !.phase = "refused"]
    /\ UNCHANGED input

LabelFailureWindows ==
    Prepare("given", "labelled", LabelsAccepted(state.rows),
        [k \in DOMAIN state.rows |-> Labelled(state.rows[k])])

BuildMaintenanceDataset ==
    Prepare("labelled", "dataset", DatasetAccepted(state.rows), SortedDataset(state.rows))

AddFeatures ==
    Prepare("dataset", "features", input.lag >= 1,
        [k \in DOMAIN state.rows |-> WithFeatures(state.rows, k)])

Split ==
    /\ state.phase = "features"
    /\ state' = IF SplitAccepted(state.rows)
                THEN [state EXCEPT !.phase = "split", !.split = ChronologicalSplit(state.rows)]
                ELSE [state EXCEPT !.phase = "refused"]
    /\ UNCHANGED input

Next == LabelFailureWindows \/ BuildMaintenanceDataset \/ AddFeatures \/ Split

Spec == Init /\ [][Next]_<<input, state>>

-----------------------------------------------------------------------------
\* The observations of the equipment of a row before its time, of the input.
Past(row) ==
    {o \in Range(input.observations) : o.equipment = row.equipment /\ o.time < row.time}

\* A feature is of the observations just before the row's, whatever the order
\* they came in, and is missing only where there are too few.
FeaturesSeeThePast ==
    state.phase \in {"features", "split"} =>
        \A k \in DOMAIN state.rows :
            LET row == state.rows[k] IN
            IF Cardinality(Past(row)) < input.lag THEN row.lagged = None /\ row.rolling = None
            ELSE \E o \in Past(row) :
                     /\ Cardinality({q \in Past(row) : q.time > o.time}) = input.lag - 1
                     /\ row.lagged = o.value
                     /\ input.lag = 1 => row.rolling = o.value /\ row.delta = row.value - o.value

\* The failures of the equipment of a row after it.
Ahead(row) == {f \in input.failures : f.equipment = row.equipment /\ f.time > row.time}

\* A label stays with its row and tells whether a failure ahead is in reach
\* of the window, its end included: so a row that is labelled as failing is
\* followed by none that is not before the failure has come.
LabelsTellWhatIsAhead ==
    state.phase \in {"labelled", "dataset", "features", "split"} =>
        \A a \in Range(state.rows) :
            /\ a.label = \E f \in Ahead(a) : f.time - a.time <= input.window
            /\ \A b \in Range(state.rows) :
                   (a.label /\ a.time < b.time /\ Ahead(b) = Ahead(a) /\ Ahead(a) # {}) => b.label

\* The sets share no time and leave out no row; what is trained on is before
\* what is validated and tested on, and neither it nor the test is empty.
SplitsAreApart ==
    state.split # None =>
        LET s == state.split IN
        /\ s.train \cup s.validation \cup s.test = Range(state.rows)
        /\ \A a \in s.train, b \in s.validation, c \in s.test :
               a.time < b.time /\ b.time < c.time
        /\ \A a \in s.train, c \in s.test : a.time < c.time
        /\ s.train # {} /\ s.test # {}

-----------------------------------------------------------------------------
(* What the three properties rest on.                                      *)

\* Equipment, times and values are numbers; a time may be missing, of a
\* failure too.
LabelsFit ==
    /\ None \notin Int
    /\ \A i \in LabelInputs :
           /\ Len(i.observations) \in Nat /\ DOMAIN i.observations = 1..Len(i.observations)
           /\ \A k \in DOMAIN i.observations :
                  LET o == i.observations[k] IN
                  /\ DOMAIN o = {"equipment", "time", "value"}
                  /\ o.equipment \in Int /\ o.value \in Int /\ (o.time # None => o.time \in Int)
           /\ {i.lag, i.train, i.validation, i.window} \subseteq Int
           /\ \A f \in i.failures : f.time # None => f.time \in Int

\* Rows and observations are the same, up to columns and order: what is in a
\* place comes from another, of its own.
Agree(row, observation) ==
    /\ row.equipment = observation.equipment /\ row.time = observation.time
    /\ row.value = observation.value /\ row.time \in Int

Rearranged(rows, observations) ==
    /\ DOMAIN rows = DOMAIN observations
    /\ \E p \in [DOMAIN rows -> DOMAIN rows] :
           \A k \in DOMAIN rows :
               Agree(rows[k], observations[p[k]]) /\ \A j \in DOMAIN rows : p[j] = p[k] => j = k

InOrder(rows) ==
    \A j, k \in DOMAIN rows :
        j < k <=> \/ rows[j].equipment < rows[k].equipment
                  \/ rows[j].equipment = rows[k].equipment /\ rows[j].time < rows[k].time

Featured(rows, lag) ==
    \A k \in DOMAIN rows :
        /\ rows[k].lagged = Shifted(rows, k, lag)
        /\ rows[k].delta = Delta(rows, k)
        /\ rows[k].rolling = RollingSum(rows, k, lag)

\* Failures have a time, and a row is labelled with those ahead of it.
Told(rows) ==
    /\ \A f \in input.failures : f.time # None
    /\ \A k \in DOMAIN rows : rows[k].label = FailsSoon(rows[k])

LabelsInv ==
    /\ input \in LabelInputs
    /\ DOMAIN state = {"phase", "rows", "split"}
    /\ state.phase = "given" => state.rows = input.observations
    /\ state.phase \in {"labelled", "dataset", "features", "split"} =>
           Rearranged(state.rows, input.observations) /\ Told(state.rows)
    /\ state.phase \in {"dataset", "features", "split"} => InOrder(state.rows)
    /\ state.phase \in {"features", "split"} => input.lag >= 1 /\ Featured(state.rows, input.lag)
    /\ state.phase # "split" => state.split = None
    /\ state.phase = "split" =>
           SplitAccepted(state.rows) /\ state.split = ChronologicalSplit(state.rows)
=============================================================================
