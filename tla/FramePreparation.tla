--------------------------- MODULE FramePreparation ---------------------------
(***************************************************************************)
(* What the ETL pipeline does to one frame before the incremental stage:   *)
(* it is validated, cleaned and transformed.  The verdict is about the     *)
(* frame as it came, stops nothing, and is kept with the prepared frame.   *)
(*                                                                         *)
(* A row is [cells, origin]: its cells by column, and its place in the     *)
(* frame as it came.                                                       *)
(***************************************************************************)
EXTENDS Naturals, Sequences, FiniteSets, FiniteSetsExt, SequencesExt

(***************************************************************************)
(* ETLValidator: a frame is judged against the contract of its dataset,    *)
(* column by column, and the configured policy says what follows.          *)
(*                                                                         *)
(* A frame has a sequence of column names, and rows that give each name a  *)
(* cell.  Cells are kinds of values: null; texts, of which token reads as  *)
(* null once stripped and blank once stripped is empty, numeric is the     *)
(* text of a number and date that of a time; numbers below, in and above   *)
(* the bounds of their column; two times.                                  *)
(***************************************************************************)

Numbers == {"below", "in", "above", "infinite"}
TimeCells == {"time", "later"}

ContractAccepted(contract) ==
    contract.nullable \cup contract.unique_key \cup contract.timestamps
        \cup contract.finite \cup contract.ranges \subseteq contract.required

ToNumeric(cell) ==
    CASE cell \in Numbers -> cell
      [] cell = "numeric" -> "in"
      [] cell \notin Numbers \cup {"numeric"} -> "null"

ToDatetime(cell) ==
    CASE cell \in TimeCells -> cell
      [] cell \in {"date", "below", "in", "above"} -> "time"
      [] cell \notin TimeCells \cup {"date", "below", "in", "above"} -> "null"

Issue(rule, column, count) == [rule |-> rule, column |-> column, failure_count |-> count]

Columns(frame) == {frame.columns[k] : k \in DOMAIN frame.columns}

DuplicatedColumns(frame) ==
    {k \in DOMAIN frame.columns : \E j \in 1..(k - 1) : frame.columns[j] = frame.columns[k]}

StructureIssues(frame, contract) ==
    LET missing == contract.required \ Columns(frame) IN
    (IF frame.rows = <<>> /\ ~contract.allow_empty
     THEN {Issue("empty_dataset", "none", 1)} ELSE {})
    \cup (IF DuplicatedColumns(frame) # {}
          THEN {Issue("duplicate_columns", "none", Cardinality(DuplicatedColumns(frame)))} ELSE {})
    \cup (IF missing # {} THEN {Issue("required_columns", "none", Cardinality(missing))} ELSE {})

\* An issue for each of the columns that has rows in its mask.
MaskIssues(rule, columns, Mask(_)) ==
    {Issue(rule, c, Cardinality(Mask(c))) : c \in {d \in columns : Mask(d) # {}}}

NullIssues(frame, contract) ==
    LET NullMask(c) == {k \in DOMAIN frame.rows : frame.rows[k][c] = "null"} IN
    MaskIssues("null_values", contract.required \ contract.nullable, NullMask)

\* Mutant: duplicated(keep="first").
UniqueKeyIssuesOfLater(frame, contract) ==
    LET Mask(c) == {k \in DOMAIN frame.rows : \E j \in 1..(k - 1) :
                        \A d \in contract.unique_key : frame.rows[k][d] = frame.rows[j][d]} IN
    IF contract.unique_key = {} THEN {} ELSE MaskIssues("unique_key", {"key"}, Mask)

\* Every row of a repeated key; nulls are equal.
UniqueKeyIssues(frame, contract) ==
    LET Mask(c) == {k \in DOMAIN frame.rows : \E j \in DOMAIN frame.rows \ {k} :
                        \A d \in contract.unique_key : frame.rows[k][d] = frame.rows[j][d]} IN
    IF contract.unique_key = {} THEN {} ELSE MaskIssues("unique_key", {"key"}, Mask)

TimestampIssues(frame, contract) ==
    LET Mask(c) == {k \in DOMAIN frame.rows :
                        frame.rows[k][c] # "null" /\ ToDatetime(frame.rows[k][c]) = "null"} IN
    MaskIssues("timestamp_parse", contract.timestamps, Mask)

FiniteNumericIssues(frame, contract) ==
    LET Mask(c) == {k \in DOMAIN frame.rows :
                        /\ frame.rows[k][c] # "null"
                        /\ ToNumeric(frame.rows[k][c]) \in {"null", "infinite"}} IN
    MaskIssues("numeric_finite", contract.finite, Mask)

NumericRangeIssues(frame, contract) ==
    LET Below(c) == {k \in DOMAIN frame.rows : ToNumeric(frame.rows[k][c]) = "below"}
        Above(c) == {k \in DOMAIN frame.rows :
                         ToNumeric(frame.rows[k][c]) \in {"above", "infinite"}} IN
    MaskIssues("minimum_value", contract.ranges, Below)
    \cup MaskIssues("maximum_value", contract.ranges, Above)

\* The rules on columns need all columns, each once.
ValidateDataset(frame, contract) ==
    StructureIssues(frame, contract)
    \cup IF contract.required \subseteq Columns(frame) /\ DuplicatedColumns(frame) = {}
         THEN NullIssues(frame, contract) \cup UniqueKeyIssues(frame, contract)
              \cup TimestampIssues(frame, contract) \cup FiniteNumericIssues(frame, contract)
              \cup NumericRangeIssues(frame, contract)
         ELSE {}

\* Every issue is an error.
Passed(issues) == issues = {}

ShouldQuarantine(issues, policy) ==
    ~Passed(issues) /\ policy.failure_policy = "quarantine"

FailureRows(issues) == MapThenSumSet(LAMBDA i : i.failure_count, issues)

ShouldFail(issues, policy) ==
    ~Passed(issues) /\ (policy.failure_policy = "fail_fast"
                        \/ FailureRows(issues) > policy.max_bad_records)

-----------------------------------------------------------------------------
\* What a contract asks of a frame, said of its rows and not of its columns.

WellFormed(frame, contract) ==
    /\ contract.required \subseteq Columns(frame)
    /\ \A j, k \in DOMAIN frame.columns : frame.columns[j] = frame.columns[k] => j = k
    /\ frame.rows = <<>> => contract.allow_empty

\* A text in a column with bounds that is not listed as finite is let through.
CleanCells(row, contract) ==
    \A c \in contract.required :
        IF row[c] = "null" THEN c \in contract.nullable
        ELSE /\ c \in contract.timestamps => ToDatetime(row[c]) # "null"
             /\ c \in contract.finite => ToNumeric(row[c]) \in Numbers \ {"infinite"}
             /\ c \in contract.ranges => ToNumeric(row[c]) \in {"in", "null"}

BadRows(frame, contract) ==
    {k \in DOMAIN frame.rows :
        \/ ~CleanCells(frame.rows[k], contract)
        \/ /\ contract.unique_key # {}
           /\ \E j \in DOMAIN frame.rows \ {k} :
                  \A c \in contract.unique_key : frame.rows[j][c] = frame.rows[k][c]}

Sound(frame, contract) == WellFormed(frame, contract) /\ BadRows(frame, contract) = {}

-----------------------------------------------------------------------------
CONSTANT FrameInputs    \* [contract, policy, frame, cleaning, transformation]

VARIABLES input, state

vars == <<input, state>>

-----------------------------------------------------------------------------
\* CleaningConfig.__post_init__, TransformationConfig.__post_init__
CleaningAccepted(c) == c.uppercase \cap c.lowercase = {}

TransformationAccepted(t) == Range(t.select) \cap t.drop = {}

\* The names differ in case, spaces and separators from those they become.
Standardized(column) == IF column = "K" THEN "k" ELSE column

\* A mapping of columns to the names they get, applied at once.
Renamed(columns, renames) ==
    [k \in DOMAIN columns |->
        IF columns[k] \in DOMAIN renames THEN renames[columns[k]] ELSE columns[k]]

\* The frame with its k-th column called names[k].
WithNames(frame, names) ==
    [columns |-> names,
     rows |-> [k \in DOMAIN frame.rows |->
         [frame.rows[k] EXCEPT !.cells =
             [c \in Range(names) |->
                 @[frame.columns[CHOOSE j \in DOMAIN names : names[j] = c]]]]]]

Unique(names) == \A j, k \in DOMAIN names : names[j] = names[k] => j = k

\* Op applied to the cells of the columns.
OnCells(frame, columns, Op(_)) ==
    [frame EXCEPT !.rows = [k \in DOMAIN @ |->
        [@[k] EXCEPT !.cells = [c \in DOMAIN @ |-> IF c \in columns THEN Op(@[c]) ELSE @[c]]]]]

Strip(cell) ==
    CASE cell = "padded" -> "text" [] cell = "blank" -> "empty"
      [] cell \notin {"padded", "blank"} -> cell

NullToken(cell) == IF cell \in {"token", "empty"} THEN "null" ELSE cell

Upper(cell) == IF cell = "text" THEN "upper" ELSE cell
Lower(cell) == IF cell = "upper" THEN "text" ELSE cell

\* Times in order, nulls last; the sort is stable.
SortRows(frame, columns) ==
    LET Rank(row) == LET cell == row.cells[Head(columns)] IN
            CASE cell = "time" -> 1 [] cell = "later" -> 2 [] cell \notin TimeCells -> 3
        Of(r) == SelectSeq(frame.rows, LAMBDA row : Rank(row) = r) IN
    IF columns = <<>> THEN frame ELSE [frame EXCEPT !.rows = Of(1) \o Of(2) \o Of(3)]

\* Mutant: null tokens are looked for before texts are stripped.
CleanedTokensFirst(frame, c) ==
    LET nulled   == IF c.tokens THEN OnCells(frame, Columns(frame), NullToken) ELSE frame
        stripped == IF c.strip THEN OnCells(nulled, Columns(frame), Strip) ELSE nulled
        cased    == OnCells(OnCells(stripped, c.uppercase, Upper), c.lowercase, Lower)
        typed    == OnCells(OnCells(cased, c.timestamps, ToDatetime), c.numeric, ToNumeric) IN
    SortRows(typed, c.sort_by)

\* The steps on cells and rows, in their order.
Cleaned(frame, c) ==
    LET stripped == IF c.strip THEN OnCells(frame, Columns(frame), Strip) ELSE frame
        nulled   == IF c.tokens THEN OnCells(stripped, Columns(frame), NullToken) ELSE stripped
        cased    == OnCells(OnCells(nulled, c.uppercase, Upper), c.lowercase, Lower)
        typed    == OnCells(OnCells(cased, c.timestamps, ToDatetime), c.numeric, ToNumeric) IN
    SortRows(typed, c.sort_by)

CleanNames(columns, c) ==
    Renamed(IF c.standardize THEN [k \in DOMAIN columns |-> Standardized(columns[k])] ELSE columns,
            c.renames)

\* Names that become equal are a ValueError, a missing column of the sort is
\* a KeyError; so is every repeated name, at the latest when texts are
\* stripped.
CleanSucceeds(frame, c) ==
    LET names == CleanNames(frame.columns, c) IN
    Unique(frame.columns) /\ Unique(names) /\ Range(c.sort_by) \subseteq Range(names)

Clean(frame, c) == Cleaned(WithNames(frame, CleanNames(frame.columns, c)), c)

-----------------------------------------------------------------------------
Selected(columns, t) ==
    SelectSeq(IF t.select = <<>> THEN columns ELSE t.select, LAMBDA c : c \notin t.drop)

\* A derived column takes its values from another one, whatever it replaces.
Derive(frame, derived) ==
    FoldLeft(LAMBDA f, d :
                 [columns |-> IF d.target \in Columns(f) THEN f.columns ELSE Append(f.columns, d.target),
                  rows |-> [k \in DOMAIN f.rows |->
                      [f.rows[k] EXCEPT !.cells =
                          [c \in DOMAIN @ \cup {d.target} |->
                              IF c = d.target THEN @[d.source] ELSE @[c]]]]],
             frame, derived)

SameKey(r, q, keys) == \A c \in keys : r.cells[c] = q.cells[c]

\* The first row of each key stays; nulls are equal.
DropDuplicates(frame, keys) ==
    IF keys = {} THEN frame
    ELSE [frame EXCEPT !.rows =
             FoldLeft(LAMBDA kept, row :
                          IF \E k \in DOMAIN kept : SameKey(kept[k], row, keys)
                          THEN kept ELSE Append(kept, row),
                      <<>>, @)]

Restricted(frame, columns) ==
    [columns |-> columns,
     rows |-> [k \in DOMAIN frame.rows |->
         [frame.rows[k] EXCEPT !.cells = [c \in Range(columns) |-> @[c]]]]]

TransformNames(frame, t) == Renamed(Selected(frame.columns, t), t.renames)

TransformSucceeds(frame, t) ==
    /\ Range(t.select) \subseteq Columns(frame)
    /\ Unique(TransformNames(frame, t))
    /\ LET derived == {t.derived[k].target : k \in DOMAIN t.derived} IN
       /\ {t.derived[k].source : k \in DOMAIN t.derived} \subseteq Range(TransformNames(frame, t))
       /\ t.keys \cup Range(t.sort_by) \subseteq Range(TransformNames(frame, t)) \cup derived

Transform(frame, t) ==
    LET selected == Restricted(frame, Selected(frame.columns, t))
        renamed  == WithNames(selected, TransformNames(frame, t))
        derived  == Derive(renamed, t.derived) IN
    SortRows(DropDuplicates(derived, t.keys), t.sort_by)

-----------------------------------------------------------------------------
Plain(frame) == [columns |-> frame.columns,
                 rows |-> [k \in DOMAIN frame.rows |-> frame.rows[k].cells]]

Given == [input.frame EXCEPT !.rows = [k \in DOMAIN @ |-> [cells |-> @[k], origin |-> k]]]

Init ==
    /\ input \in {i \in FrameInputs :
           /\ ContractAccepted(i.contract)
           /\ CleaningAccepted(i.cleaning) /\ TransformationAccepted(i.transformation)}
    /\ state = [phase |-> "given",
                frame |-> Given,
                issues |-> {}, quarantine |-> FALSE, fail |-> FALSE]

Validate ==
    /\ state.phase = "given"
    /\ LET issues == ValidateDataset(input.frame, input.contract) IN
       state' = [state EXCEPT !.phase = "validated", !.issues = issues,
                              !.quarantine = ShouldQuarantine(issues, input.policy),
                              !.fail = ShouldFail(issues, input.policy)]
    /\ UNCHANGED input

Stage(from, to, succeeds, frame) ==
    /\ state.phase = from
    /\ state' = IF succeeds THEN [state EXCEPT !.phase = to, !.frame = frame]
                            ELSE [state EXCEPT !.phase = "raised"]
    /\ UNCHANGED input

Next ==
    \/ Validate
    \/ Stage("validated", "cleaned", CleanSucceeds(state.frame, input.cleaning),
             Clean(state.frame, input.cleaning))
    \/ Stage("cleaned", "transformed", TransformSucceeds(state.frame, input.transformation),
             Transform(state.frame, input.transformation))

Spec == Init /\ [][Next]_vars

-----------------------------------------------------------------------------
\* What passes is exactly what is well formed and has no bad row, and what
\* has more bad rows than the configuration allows fails under any policy:
\* the issues may count a row twice, but none is left out of the count.
VerdictFitsTheRows ==
    state.phase = "validated" =>
        /\ state.issues = {} <=> Sound(input.frame, input.contract)
        /\ WellFormed(input.frame, input.contract)
               /\ Cardinality(BadRows(input.frame, input.contract)) > input.policy.max_bad_records
           => state.fail
        /\ state.issues = {} => ~state.fail /\ ~state.quarantine

\* The value a cell stands for in a cleaned frame, however it is spelt.
StandsForNull(c, cell) ==
    \/ cell \in {"null", "token", "blank"}
    \/ c \in input.cleaning.numeric /\ ToNumeric(cell) = "null"
    \/ c \in input.cleaning.timestamps /\ ToDatetime(cell) = "null"

StandsFor(c, cell) ==
    CASE StandsForNull(c, cell) -> "null"
      [] ~StandsForNull(c, cell) /\ c \in input.cleaning.numeric -> ToNumeric(cell)
      [] ~StandsForNull(c, cell) /\ c \in input.cleaning.timestamps -> ToDatetime(cell)
      [] ~StandsForNull(c, cell) /\ c \notin input.cleaning.numeric \cup input.cleaning.timestamps ->
             IF cell \in {"padded", "upper"} THEN "text" ELSE cell

MistakenForValue ==
    \E k \in DOMAIN input.frame.rows, c \in input.contract.required \ input.contract.nullable :
        StandsForNull(c, input.frame.rows[k][c])

SpeltTwice ==
    \E j, k \in DOMAIN input.frame.rows :
        /\ j # k
        /\ \A c \in input.contract.unique_key :
               StandsFor(c, input.frame.rows[j][c]) = StandsFor(c, input.frame.rows[k][c])

\* The verdict is older than the frame it is kept with.  A frame that passed
\* breaks its contract after cleaning only where a text was taken for a
\* value: it stands for null in a column that must not have nulls, or it is
\* another spelling of the key of another row.
VerdictStillHolds ==
    state.phase = "cleaned" /\ state.issues = {} /\ input.cleaning.renames = <<>> =>
        Sound(Plain(state.frame), input.contract) \/ MistakenForValue \/ SpeltTwice

Origins(frame) == {frame.rows[k].origin : k \in DOMAIN frame.rows}

\* Rows are neither invented nor lost: cleaning reorders them, and once
\* more it changes nothing; transforming drops a row only when an earlier
\* one of its key stays, and then no key is there twice.
RowsAreKept ==
    /\ state.phase = "cleaned" =>
           /\ Origins(state.frame) = DOMAIN input.frame.rows
           /\ Range(input.cleaning.renames) \cap DOMAIN input.cleaning.renames = {} =>
                  Clean(state.frame, input.cleaning) = state.frame
    /\ state.phase = "transformed" =>
           LET keys    == input.transformation.keys
               cleaned == Clean(Given, input.cleaning)
               all     == Transform(cleaned, [input.transformation EXCEPT !.keys = {}])
               Place(row) == CHOOSE k \in DOMAIN cleaned.rows : cleaned.rows[k].origin = row.origin IN
           /\ Range(state.frame.rows) \subseteq Range(all.rows)
           /\ \A row \in Range(all.rows) \ Range(state.frame.rows) :
                  \E first \in Range(state.frame.rows) :
                      SameKey(first, row, keys) /\ Place(first) < Place(row)
           /\ keys # {} => \A r, q \in Range(state.frame.rows) : SameKey(r, q, keys) => r = q
    /\ \A j, k \in DOMAIN state.frame.rows :
           j < k /\ state.frame.rows[j].cells = state.frame.rows[k].cells =>
               state.frame.rows[j].origin < state.frame.rows[k].origin
===============================================================================
