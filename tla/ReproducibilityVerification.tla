---------------------- MODULE ReproducibilityVerification ----------------------
(***************************************************************************)
(* Whether two generations give the same datasets: two runs of one seed    *)
(* must not differ, two of different seeds must.  A dataset is a tuple of  *)
(* records or a frame [columns, index, rows]; a row is [value, time, run], *)
(* run standing for the columns that name the run.  A hash stands for what *)
(* it is taken of.                                                         *)
(***************************************************************************)
EXTENDS Integers, Sequences, FiniteSets

CONSTANTS
    VerificationInputs,  \* [kind, validate, left, right, valid]
    Tuples, DataFrames,  \* the names of the datasets
    Stochastic           \* those that are expected to differ with the seed

VARIABLES input, state

vars == <<input, state>>

Names == Tuples \cup DataFrames

-----------------------------------------------------------------------------
\* Mutant: the values are fingerprinted with the name of their run.
WithRun(row) == row

Sanitized(row) == [value |-> row.value, time |-> row.time]

FingerprintTuple(records) == <<"tuple", Len(records), [k \in DOMAIN records |-> Sanitized(records[k])]>>

\* The columns are all fingerprinted, the index is not.
FingerprintDataFrame(frame) ==
    <<"dataframe", Len(frame.rows), frame.columns,
      [k \in DOMAIN frame.rows |-> Sanitized(frame.rows[k])]>>

Fingerprint(name, dataset) ==
    IF name \in Tuples THEN FingerprintTuple(dataset) ELSE FingerprintDataFrame(dataset)

Count(name, dataset) == IF name \in Tuples THEN Len(dataset) ELSE Len(dataset.rows)

Increasing(frame) ==
    \A k \in 1..(Len(frame.rows) - 1) : frame.rows[k].time <= frame.rows[k + 1].time

Times(frame) == [k \in DOMAIN frame.rows |-> frame.rows[k].time]

\* _compare_dataframe_ordering
OrderingEqual(l, r) ==
    /\ Len(l.rows) = Len(r.rows)
    /\ l.index = r.index
    /\ Increasing(l) <=> Increasing(r)
    /\ Increasing(l) => Times(l) = Times(r)

\* The schema of tuples is how many there are.
CompareOne(name, l, r) ==
    [left_row_count |-> Count(name, l), right_row_count |-> Count(name, r),
     schema_equal |-> IF name \in Tuples THEN Len(l) = Len(r) ELSE l.columns = r.columns,
     ordering_equal |-> name \in Tuples \/ OrderingEqual(l, r),
     values_equal |-> Fingerprint(name, l) = Fingerprint(name, r)]

CompareDatasets(left, right) == [n \in Names |-> CompareOne(n, left[n], right[n])]

Summary(dataset) == [n \in Names |-> Count(n, dataset[n])]

-----------------------------------------------------------------------------
\* The outcome of generating and of validating, each of which may raise.
Init ==
    /\ input \in VerificationInputs
    /\ state = [phase |-> "started", comparisons |-> <<>>, summary_match |-> FALSE,
                validation |-> "passed", status |-> "none", changed |-> {}, preserved |-> {}]

Failed(s) == [s EXCEPT !.phase = "reported", !.status = "error", !.validation = "failed"]

\* One generation after the other; the first that raises ends it.
Generate ==
    /\ state.phase = "started"
    /\ \E raises \in {"none", "left", "right"} :
           state' = IF raises = "none"
                    THEN [state EXCEPT !.phase = "generated",
                                       !.comparisons = CompareDatasets(input.left, input.right)]
                    ELSE Failed(state)
    /\ UNCHANGED input

\* Only the left dataset is validated.
Validate ==
    /\ state.phase = "generated"
    /\ \E raises \in BOOLEAN :
           /\ raises => input.validate
           /\ state' = [state EXCEPT !.phase = "validated",
                            !.summary_match = input.kind = "same_seed"
                                              /\ Summary(input.left) = Summary(input.right),
                            !.validation = CASE raises -> "raised"
                                             [] ~raises /\ (input.validate => input.valid) -> "passed"
                                             [] ~raises /\ input.validate /\ ~input.valid -> "failed"]
    /\ UNCHANGED input

SameSeedStatus(s) ==
    CASE s.validation = "raised" -> "error"
      [] s.validation # "raised" ->
             IF /\ s.summary_match /\ s.validation = "passed"
                /\ \A n \in Names : s.comparisons[n].values_equal
             THEN "passed" ELSE "failed"

Changed(s) == {n \in Stochastic : ~s.comparisons[n].values_equal}

DifferentSeedStatus(s) ==
    CASE s.validation = "raised" -> "error"
      [] s.validation # "raised" ->
             IF /\ s.validation = "passed" /\ Changed(s) # {}
                /\ \A n \in Names : s.comparisons[n].schema_equal
             THEN "passed" ELSE "failed"

\* The families that are called preserved are all of them.
Report ==
    /\ state.phase = "validated"
    /\ state' = [state EXCEPT !.phase = "reported", !.preserved = Names,
                    !.status = IF input.kind = "same_seed" THEN SameSeedStatus(state)
                                                           ELSE DifferentSeedStatus(state),
                    !.changed = IF input.kind = "same_seed" THEN {} ELSE Changed(state)]
    /\ UNCHANGED input

Next == Generate \/ Validate \/ Report

Spec == Init /\ [][Next]_vars

-----------------------------------------------------------------------------
Rows(name, dataset) == IF name \in Tuples THEN dataset ELSE dataset.rows

\* The same rows in the same order, as far as they tell of the plant and not
\* of the run that made them.
SameRows(name) ==
    LET l == Rows(name, input.left[name])
        r == Rows(name, input.right[name]) IN
    /\ Len(l) = Len(r)
    /\ \A k \in DOMAIN l : l[k].value = r[k].value /\ l[k].time = r[k].time

SameColumns(name) == name \in DataFrames => input.left[name].columns = input.right[name].columns

Sound == input.validate => input.valid

\* A report says "passed" for one seed exactly when the datasets are the same
\* and the first is valid; for different seeds, when a dataset that depends
\* on chance differs and no frame has other columns.  It is an error exactly
\* when something was raised, and what it lists is what was compared.
ReportsAreRight ==
    state.phase = "reported" =>
        /\ state.status = "error" <=> state.comparisons = <<>> \/ state.validation = "raised"
        /\ input.kind = "same_seed" /\ state.status # "error" =>
               (state.status = "passed" <=> Sound /\ \A n \in Names : SameRows(n) /\ SameColumns(n))
        /\ input.kind = "different_seed" /\ state.status = "passed" =>
               /\ Sound /\ \A n \in Names : SameColumns(n)
               /\ \E n \in Stochastic : ~(SameRows(n) /\ SameColumns(n))
        /\ state.comparisons # <<>> =>
               \A n \in Names :
                   /\ state.comparisons[n].values_equal /\ n \in Stochastic => n \notin state.changed
                   /\ SameRows(n) => state.comparisons[n].left_row_count
                                         = state.comparisons[n].right_row_count
-----------------------------------------------------------------------------
(* What the proofs assume of the inputs, and the inductive invariant.      *)

Row == [value : Int, time : Int, run : STRING]

Frame == [columns : Seq(STRING), index : Seq(Int), rows : Seq(Row)]

Dataset(d) ==
    /\ \A n \in Tuples : d[n] \in Seq(Row)
    /\ \A n \in DataFrames : d[n] \in Frame

VerificationFits ==
    /\ Tuples # {} /\ Tuples \cap DataFrames = {} /\ Stochastic \subseteq Names
    /\ \A i \in VerificationInputs :
           /\ i.kind \in {"same_seed", "different_seed"}
           /\ i.validate \in BOOLEAN /\ i.valid \in BOOLEAN
           /\ Dataset(i.left) /\ Dataset(i.right)

\* What validation found.
ValidationFits(s) ==
    /\ s.validation \in {"passed", "failed", "raised"}
    /\ s.validation = "passed" => Sound
    /\ s.validation = "failed" => ~Sound

VerifierInv ==
    /\ input \in VerificationInputs
    /\ DOMAIN state = {"phase", "comparisons", "summary_match", "validation", "status",
                       "changed", "preserved"}
    /\ state.phase \in {"started", "generated", "validated", "reported"}
    /\ state.phase = "started" =>
           state.comparisons = <<>> /\ state.validation = "passed" /\ state.changed = {}
    /\ state.phase \in {"generated", "validated"} =>
           state.comparisons = CompareDatasets(input.left, input.right) /\ state.changed = {}
    /\ state.phase = "validated" =>
           /\ ValidationFits(state)
           /\ state.summary_match <=>
                  input.kind = "same_seed" /\ Summary(input.left) = Summary(input.right)
    /\ ReportsAreRight
=============================================================================
