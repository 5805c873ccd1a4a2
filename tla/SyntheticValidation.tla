------------------------- MODULE SyntheticValidation -------------------------
(***************************************************************************)
(* SyntheticDatasetValidator: a generated dataset is put through all rules *)
(* and a report says whether it may be used.                               *)
(*                                                                         *)
(* A dataset has sequences of records, and for each table of operations    *)
(* the columns its frame has.  There, a plant may be spelt in lower case:  *)
(* plant is [id, lower].  Times are numbers or None; the grid has a point  *)
(* at every multiple of the interval.                                      *)
(***************************************************************************)
EXTENDS Integers, Sequences, FiniteSets

CONSTANTS
    Datasets,
    Settings,   \* [start, end, interval, plant_count, fail_on_warning]
    None, NaN

VARIABLES input, state

vars == <<input, state>>

Operations == {"alarms", "incidents", "work_orders"}

Values(records, field) == {records[k][field] : k \in DOMAIN records}

\* The records that repeat an earlier one in the fields.
Repeats(records, fields) ==
    {k \in DOMAIN records : \E j \in 1..(k - 1) :
        \A f \in fields : records[j][f] = records[k][f]}

Negative(x) == x # NaN /\ x < 0

\* str.upper of the plant identifiers of a frame
Upper(plants) == {p.id : p \in plants}

Result(rule, severity, failures) ==
    [rule |-> rule, severity |-> severity, failed_count |-> Cardinality(failures)]

Abs(n) == IF n < 0 THEN -n ELSE n

\* The lifecycle columns a frame must have; other columns likewise.
Schema(d) ==
    {Result("SCH-001", "error", {"begun", "ended"} \ d.columns[t]) : t \in Operations}

\* Mutant: equipment identifiers are not looked at.
IdentifiersOfPlants(d) ==
    {Result("ID-001", "error", Repeats(d.plants, {"id"}))}
    \cup {Result("ID-003", "error", Repeats(d[t], {"id"})) : t \in Operations}

Identifiers(d) ==
    {Result("ID-001", "error", Repeats(d.plants, {"id"})),
     Result("ID-002", "error", Repeats(d.equipment, {"id"}))}
    \cup {Result("ID-003", "error", Repeats(d[t], {"id"})) : t \in Operations}

\* The equipment an operation refers to is not looked up.
ReferentialIntegrity(d) ==
    LET plants == Values(d.plants, "id") IN
    {Result("REF-001", "error", Values(d.equipment, "plant") \ plants),
     Result("REF-002", "error", Values(d.inverter_scada, "plant") \ plants),
     Result("REF-003", "error", Values(d.inverter_scada, "equipment") \ Values(d.equipment, "id")),
     Result("REF-004", "error", Values(d.plant_scada, "plant") \ plants),
     Result("REF-005", "error", Values(d.plant_scada, "meter") \ Values(d.meters, "id"))}
    \cup {Result("REF-007", "error", Upper(Values(d[t], "plant")) \ plants) : t \in Operations}

Temporal(d, s) ==
    LET times == Values(d.inverter_scada, "time") IN
    {Result("TMP-001", "error", Repeats(d.inverter_scada, {"equipment", "time"})),
     Result("TMP-002", "error", {t \in times : ~(s.start <= t /\ t < s.end)}),
     Result("TMP-003", "error", {t \in times : t % s.interval # 0}),
     Result("TMP-004", "error", Repeats(d.plant_scada, {"plant", "time"}))}

\* Plants without a meter are in no group.
Volumes(d, s) ==
    LET rows == s.plant_count * ((s.end - s.start) \div s.interval)
        MetersOf(p) == {k \in DOMAIN d.meters : d.meters[k].plant = p} IN
    {Result("VOL-001", "error", 1..Abs(Len(d.plant_scada) - rows)),
     Result("VOL-002", "warning", 1..Abs(Len(d.weather) - rows)),
     Result("VOL-003", "error", {p \in Values(d.meters, "plant") : Cardinality(MetersOf(p)) # 1})}

\* A meter reading is compared with the one before it of the same plant.
NumericPhysics(d) ==
    LET o == d.plant_scada
        Falls(p) == {k \in DOMAIN o : \E j \in 1..(k - 1) :
            /\ o[j].plant = p /\ o[k].plant = p /\ o[k].cumulative < o[j].cumulative
            /\ \A i \in (j + 1)..(k - 1) : o[i].plant # p} IN
    {Result("PHY-001", "error", {k \in DOMAIN d.inverter_scada :
                LET x == d.inverter_scada[k].power IN x = NaN \/ x < 0}),
     Result("PHY-002", "error", {k \in DOMAIN d.inverter_scada : Negative(d.inverter_scada[k].energy)}),
     Result("PHY-003", "error", {k \in DOMAIN d.plant_scada : Negative(d.plant_scada[k].export)}),
     Result("PHY-005", "error", {k \in DOMAIN d.weather : Negative(d.weather[k].ghi)})}
    \cup {Result("PHY-004", "error", Falls(p)) : p \in Values(d.plant_scada, "plant")}

\* Comparisons with a missing time are false.
Lifecycle(d) ==
    {Result("LFC-001", "error", {k \in DOMAIN d[t] :
        LET r == d[t][k] IN r.ended # None /\ r.begun # None /\ r.ended < r.begun})
     : t \in Operations}

\* A frame with rows but without a lifecycle column is a KeyError.
CanRun(d) == \A t \in Operations : d[t] # <<>> => {"begun", "ended"} \subseteq d.columns[t]

Report(d, s) ==
    {r \in Schema(d) \cup Identifiers(d) \cup ReferentialIntegrity(d) \cup Temporal(d, s)
           \cup Volumes(d, s) \cup NumericPhysics(d) \cup Lifecycle(d) : r.failed_count > 0}

Passed(issues, s) ==
    /\ ~\E r \in issues : r.severity = "error"
    /\ ~(s.fail_on_warning /\ \E r \in issues : r.severity = "warning")

-----------------------------------------------------------------------------
Init ==
    /\ input \in [dataset : Datasets, settings : Settings]
    /\ state = [phase |-> "given"]

Next ==
    /\ state.phase = "given"
    /\ state' = IF CanRun(input.dataset)
                THEN LET issues == Report(input.dataset, input.settings) IN
                     [phase |-> "reported", issues |-> issues,
                      passed |-> Passed(issues, input.settings)]
                ELSE [phase |-> "raised"]
    /\ UNCHANGED input

Spec == Init /\ [][Next]_vars

-----------------------------------------------------------------------------
\* The rows the constraints of the database refuse, in the tables the records
\* are loaded into: a key that is there twice, a reference to nothing.
NoKey(records, fields) == Repeats(records, fields) # {}

\* Identifiers are compared as they are spelt.
Dangling(t, d) ==
    {k \in DOMAIN d[t] : d[t][k].plant.lower \/ d[t][k].plant.id \notin Values(d.plants, "id")}

Unassigned(t, d) ==
    {k \in DOMAIN d[t] : d[t][k].equipment \notin Values(d.equipment, "id")}

Refused(d) ==
    {t \in {"plants", "equipment"} : NoKey(d[t], {"id"})}
    \cup {t \in {"inverter_scada"} : NoKey(d[t], {"equipment", "time"})}
    \cup {t \in {"equipment", "inverter_scada"} : ~(Values(d[t], "plant") \subseteq Values(d.plants, "id"))}
    \cup {t \in {"inverter_scada"} : ~(Values(d[t], "equipment") \subseteq Values(d.equipment, "id"))}
    \cup {t \in Operations : NoKey(d[t], {"id"}) \/ Dangling(t, d) # {} \/ Unassigned(t, d) # {}}

\* The rules do not look at the spelling of plants, nor at the equipment of
\* operations: tables with such rows are refused although the report passed.
NotLookedAt(d) ==
    {t \in Operations : Unassigned(t, d) # {} \/ \E k \in DOMAIN d[t] : d[t][k].plant.lower}

\* What passes can be loaded, up to what the rules do not look at: no key is
\* repeated and no reference leads nowhere; each reading of an inverter is a
\* point of the grid; the meter of a plant never counts backwards; nothing
\* ended before it began.  An error is never outvoted by the settings.
PassedIsLoadable ==
    state.phase = "reported" /\ state.passed =>
        LET d == input.dataset
            s == input.settings IN
        /\ Refused(d) \subseteq NotLookedAt(d)
        /\ Values(d.inverter_scada, "time")
               \subseteq {s.start + k * s.interval : k \in 0..((s.end - s.start) \div s.interval - 1)}
        /\ \A j, k \in DOMAIN d.plant_scada :
               j < k /\ d.plant_scada[j].plant = d.plant_scada[k].plant =>
                   d.plant_scada[j].cumulative <= d.plant_scada[k].cumulative
        /\ Len(d.plant_scada) = s.plant_count * ((s.end - s.start) \div s.interval)
        /\ \A t \in Operations : \A r \in {d[t][k] : k \in DOMAIN d[t]} :
               r.begun # None /\ r.ended # None => r.begun <= r.ended

-----------------------------------------------------------------------------
(* What the property rests on.                                             *)

Tables == {"plants", "equipment", "meters", "inverter_scada", "plant_scada", "weather"} \cup Operations

\* Tables are sequences, times and registers numbers; a range begins and ends
\* at a point of the grid, as TimeRangeConfig demands.
DatasetsFit ==
    /\ \A d \in Datasets :
           /\ \A t \in Tables : Len(d[t]) \in Nat /\ DOMAIN d[t] = 1..Len(d[t])
           /\ \A k \in DOMAIN d.inverter_scada : d.inverter_scada[k].time \in Int
           /\ \A k \in DOMAIN d.plant_scada : d.plant_scada[k].cumulative \in Int
           /\ \A t \in Operations : \A k \in DOMAIN d[t] :
                  /\ d[t][k].begun # None => d[t][k].begun \in Int
                  /\ d[t][k].ended # None => d[t][k].ended \in Int
    /\ \A s \in Settings :
           /\ s.start \in Int /\ s.end \in Int /\ s.interval \in Nat \ {0} /\ s.plant_count \in Nat
           /\ s.start <= s.end /\ s.start % s.interval = 0 /\ s.end % s.interval = 0

SyntheticInv ==
    /\ input \in [dataset : Datasets, settings : Settings]
    /\ state.phase = "reported" =>
           /\ state.issues = Report(input.dataset, input.settings)
           /\ state.passed = Passed(state.issues, input.settings)
=============================================================================
