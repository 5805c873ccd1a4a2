---------------------------- MODULE EventEffects ----------------------------
(***************************************************************************)
(* The effects of scheduled events on the frames of telemetry, and the     *)
(* assembly of a dataset by the generator that asks for them.              *)
(*                                                                         *)
(* A frame is a sequence of rows, one target at a time.  One column stands *)
(* for those that are treated alike: power for the powers, currents and    *)
(* the energy of an inverter, ghi for the irradiances; a storm's wind and  *)
(* rain are left out.  Values are small numbers or None for NA, ratios are *)
(* in per mille, and the values divide as far as ratios are taken.         *)
(***************************************************************************)
EXTENDS Integers, Sequences, FiniteSets, Folds

CONSTANTS
    Observations,   \* [target, rows]: what the generators produced
    EventSets,      \* sets of events, each with its own ground_truth_event_id
    Recovery,       \* the minutes of a recovery, as steps of the grid
    None

VARIABLES input, state

vars == <<input, state>>

Events == input.events
Target == input.observed.target
Rows == input.observed.rows

precedence ==
    <<"TELEMETRY_GAP", "GRID_OUTAGE", "PLANT_TRIP", "FEEDER_TRIP", "TRANSFORMER_TRIP",
      "INVERTER_TRIP", "MAINTENANCE_OUTAGE", "GRID_CURTAILMENT", "INVERTER_DERATING",
      "THERMAL_DERATING", "MPPT_FAULT", "DC_STRING_LOSS", "SOILING_ACCUMULATION",
      "CLEANING_RECOVERY", "STORM_EVENT", "HIGH_TEMPERATURE_STRESS",
      "SENSOR_STUCK", "SENSOR_DRIFT", "METER_RESET">>

PlantOutages == {"GRID_OUTAGE", "PLANT_TRIP", "MAINTENANCE_OUTAGE"}
Outages == PlantOutages \cup {"FEEDER_TRIP", "TRANSFORMER_TRIP", "INVERTER_TRIP"}
Deratings == {"INVERTER_DERATING", "THERMAL_DERATING", "MPPT_FAULT", "DC_STRING_LOSS"}
Signals == {"TELEMETRY_GAP", "SENSOR_STUCK", "SENSOR_DRIFT"}

\* The types of events each of the three functions looks at.
AppliedTo ==
    [weather        |-> Signals \cup {"STORM_EVENT", "HIGH_TEMPERATURE_STRESS"},
     inverter_scada |-> Outages \cup Signals \cup Deratings,
     plant_scada    |-> PlantOutages \cup Signals
                        \cup {"GRID_CURTAILMENT", "SOILING_ACCUMULATION", "CLEANING_RECOVERY",
                              "STORM_EVENT", "METER_RESET"}]

Rank(e) == CHOOSE k \in DOMAIN precedence : precedence[k] = e.type

\* The sort key of events that are applied; identifiers are numbers here, so
\* that they have an order.
SortKey(e) == <<Rank(e), e.start, e.asset, e.id>>

Before(a, b) ==
    \E k \in 1..4 :
        /\ SortKey(a)[k] < SortKey(b)[k]
        /\ \A j \in 1..(k - 1) : SortKey(a)[j] = SortKey(b)[j]

Last(events) == CHOOSE e \in events : \A other \in events \ {e} : Before(other, e)

\* What is left of x when the events have acted on it, one after another.
After(events, Acted(_, _), x) ==
    MapThenFoldSet(LAMBDA e, left : Acted(left, e), x, LAMBDA e : e, Last, events)

\* The rows of an event: its window is half open.  Rows are looked up in the
\* column of the scope, assets being what a frame has columns for: it may have
\* none, or, as the frames the generator makes, feeders that are all NA.  A
\* sensor is looked up among the meters of plants, and stands for its plant
\* elsewhere.
InScope(e, target, row) ==
    \/ e.scope = "portfolio"
    \/ /\ row.plant = e.plant
       /\ \/ e.scope = "plant"
          \/ e.scope = "sensor" /\ target # "plant_scada"
          \/ e.scope \in DOMAIN row.assets /\ row.assets[e.scope] = e.asset

MaskClosed(e, target, rows) ==
    {k \in DOMAIN rows : /\ e.start <= rows[k].time /\ rows[k].time <= e.end
                         /\ InScope(e, target, rows[k])}

Mask(e, target, rows) ==
    {k \in DOMAIN rows : /\ e.start <= rows[k].time /\ rows[k].time < e.end
                         /\ InScope(e, target, rows[k])}

Times(value, ratio) == IF value = None THEN None ELSE (value * ratio) \div 1000

\* np.minimum, np.maximum
Least(a, b) == IF a = None \/ b = None THEN None ELSE IF a < b THEN a ELSE b
OrZero(a, b) == IF a = None \/ b = None THEN None ELSE IF a > b THEN a - b ELSE 0

First(S) == CHOOSE k \in S : \A j \in S : k <= j

\* The new values of a row, by what the type of event does to the target.
TripEffect(row, type) ==
    [c \in DOMAIN row.values |->
        CASE c = "cumulative" -> row.values[c]
          [] c = "operating"  -> IF type = "MAINTENANCE_OUTAGE" THEN "maintenance" ELSE "fault"
          [] OTHER            -> 0]

DeratingEffect(row, ratio) ==
    [c \in DOMAIN row.values |->
        CASE c \in {"power", "ghi", "gross", "export", "energy"} -> Times(row.values[c], ratio)
          [] c = "availability" -> Least(row.values[c], ratio)
          [] c = "operating"    -> "derated"
          [] OTHER              -> row.values[c]]

Uplift == 8

HighTemperature(row) ==
    [row.values EXCEPT !.temperature = IF @ = None THEN None ELSE @ + Uplift]

\* The energy of a limited interval is a quarter of its power, as if every
\* interval had fifteen minutes.
GridCurtailment(row, ratio) ==
    LET gross == row.values.gross
        limited == Times(gross, ratio)
        export == Least(row.values.export, limited) IN
    [row.values EXCEPT !.export = export, !.loss = OrZero(gross, limited),
                       !.energy = Times(export, 250)]

\* ramp = linspace(0, bias, n); one row has no ramp.
SensorDrift(row, e, position, n) ==
    IF e.channel \notin DOMAIN row.values THEN row.values
    ELSE [row.values EXCEPT ![e.channel] =
             IF n = 1 THEN @ ELSE Times(@, 1000 + (e.bias * (position - 1)) \div (n - 1))]

SensorStuck(row, e, first) ==
    IF e.channel \notin DOMAIN row.values THEN row.values
    ELSE [row.values EXCEPT ![e.channel] = first.values[e.channel]]

TelemetryGap(row) == [c \in DOMAIN row.values |-> None]

MeterReset(row, first) ==
    [row.values EXCEPT !.cumulative =
        IF @ = None \/ first.values.cumulative = None THEN None
        ELSE @ - first.values.cumulative]

NewValues(e, target, rows, mask, k) ==
    LET row == rows[k]
        first == rows[First(mask)] IN
    CASE e.type \in Outages            -> TripEffect(row, e.type)
      [] e.type = "GRID_CURTAILMENT"   -> GridCurtailment(row, e.modifier)
      [] e.type \in Deratings \cup {"STORM_EVENT", "SOILING_ACCUMULATION"} ->
             DeratingEffect(row, e.modifier)
      [] e.type = "HIGH_TEMPERATURE_STRESS" -> HighTemperature(row)
      [] e.type = "CLEANING_RECOVERY"  -> DeratingEffect(row, 1000)
      [] e.type = "SENSOR_DRIFT"       ->
             SensorDrift(row, e, Cardinality({j \in mask : j <= k}), Cardinality(mask))
      [] e.type = "SENSOR_STUCK"       -> SensorStuck(row, e, first)
      [] e.type = "TELEMETRY_GAP"      -> TelemetryGap(row)
      [] e.type = "METER_RESET"        -> MeterReset(row, first)

\* Over weather, the flag is set with the channel; over the others, always.
Quality(e, target, row) ==
    CASE e.type = "TELEMETRY_GAP" -> "missing"
      [] e.type = "SENSOR_STUCK" /\ (target = "weather" => e.channel \in DOMAIN row.values) -> "stuck"
      [] e.type = "SENSOR_DRIFT" /\ (target = "weather" => e.channel \in DOMAIN row.values) -> "suspect"
      [] OTHER -> row.quality

ApplyEvent(target, rows, e) ==
    LET mask == Mask(e, target, rows) IN
    IF e.type \notin AppliedTo[target] THEN rows
    ELSE [k \in DOMAIN rows |->
             IF k \notin mask THEN rows[k]
             ELSE [rows[k] EXCEPT !.values = NewValues(e, target, rows, mask, k),
                                  !.quality = Quality(e, target, rows[k]),
                                  !.event = e.id]]

ApplyEvents(target, rows, events) ==
    After(events, LAMBDA frame, e : ApplyEvent(target, frame, e), rows)

-----------------------------------------------------------------------------
\* The ratio of an event at a time: exp(-4 f) after f of the recovery.
Exp == <<1000, 135>>

RecoveryCurve(e, t) ==
    LET elapsed == t - e.end IN
    CASE e.start <= t /\ t < e.end -> e.modifier
      [] t < e.start \/ elapsed >= Recovery -> 1000
      [] 0 <= elapsed /\ elapsed < Recovery ->
             CASE e.recovery = "linear_ramp" ->
                      e.modifier + ((1000 - e.modifier) * elapsed) \div Recovery
               [] e.recovery = "exponential" ->
                      1000 - ((1000 - e.modifier) * Exp[elapsed + 1]) \div 1000
               [] e.recovery = "manual_reset" -> e.modifier
               [] e.recovery = "instant" -> 1000

\* assets: the identifiers of the asset asked about and of those above it.
MatchesAsset(e, plant, assets) ==
    \/ e.scope = "portfolio"
    \/ /\ e.plant = plant
       /\ e.scope = "plant" \/ (e.scope \in DOMAIN assets /\ e.asset = assets[e.scope])

\* Only the window of an event is multiplied: its recovery is lost here.
PowerAvailability(events, t, plant, assets) ==
    After(events,
          LAMBDA ratio, e :
              IF e.modifier # None /\ MatchesAsset(e, plant, assets) /\ e.start <= t /\ t < e.end
              THEN Times(ratio, RecoveryCurve(e, t)) ELSE ratio,
          1000)

GridExportLimit(events, t, plant, capacity) ==
    After(events,
          LAMBDA limit, e :
              IF /\ e.plant = plant /\ e.modifier # None /\ e.start <= t /\ t < e.end
                 /\ e.type \in {"GRID_OUTAGE", "GRID_CURTAILMENT", "PLANT_TRIP"}
              THEN Least(limit, Times(capacity, e.modifier)) ELSE limit,
          capacity)

-----------------------------------------------------------------------------
Init ==
    /\ input \in [observed : Observations, events : EventSets]
    /\ state = [phase |-> "generated"]

\* The dataset is made of the observations, not of the frames.
Assemble ==
    /\ state.phase = "generated"
    /\ state' = [phase |-> "assembled", frame |-> ApplyEvents(Target, Rows, Events),
                 dataset |-> Rows]
    /\ UNCHANGED input

Next == Assemble

Spec == Init /\ [][Next]_vars

-----------------------------------------------------------------------------
Assembled == state.phase = "assembled"

\* An event covers the rows of its plant or asset from its start on and up
\* to its end, where the next interval may already belong to another event.
Covers(e, k) ==
    LET row == Rows[k] IN
    /\ e.type \in AppliedTo[Target]
    /\ row.time \in e.start..(e.end - 1)
    /\ e.scope # "portfolio" => row.plant = e.plant
    /\ e.scope \in {"inverter", "feeder", "transformer"} =>
           Target = "inverter_scada" /\ row.assets[e.scope] = e.asset
    /\ e.scope = "sensor" /\ Target = "plant_scada" => row.assets.sensor = e.asset

Covering(k, types) == {e \in Events : e.type \in types /\ Covers(e, k)}

\* Composition of effects.  A row outside the windows is as it was generated.
\* A row inside is marked with the event that acted last, which is the one
\* latest in the order of application, a storm or a sensor rather than the
\* outage it comes with.  Its values are the outage's all the same: nothing is
\* produced in an outage, whatever else limits, derates, scales or loses the
\* row before or after, unless a stuck sensor reports another row's power; no
\* outage leaves a curtailment loss, and a gap leaves no value but where there
\* is an outage or a stuck sensor.  No more is exported than the inverters
\* give, unless a sensor distorts the one or the other.  Quality is lost only
\* to gaps and sensors.
EffectsCompose ==
    Assembled =>
        \A k \in DOMAIN Rows :
            LET row == state.frame[k]
                measured == DOMAIN row.values \ {"cumulative", "operating"}
                outage == Covering(k, Outages) # {}
                stuck == Covering(k, {"SENSOR_STUCK"}) # {} IN
            /\ Covering(k, AppliedTo[Target]) = {} => row = Rows[k]
            /\ \A e \in Covering(k, AppliedTo[Target]) : row.event = e.id \/
                   \E later \in Covering(k, AppliedTo[Target]) : row.event = later.id /\ Before(e, later)
            /\ outage /\ ~stuck => \A c \in measured : row.values[c] = 0
            /\ Covering(k, {"TELEMETRY_GAP"}) # {} /\ ~outage /\ ~stuck =>
                   \A c \in measured : row.values[c] = None
            /\ Target = "plant_scada" /\ row.values.gross # None
                 /\ Covering(k, {"SENSOR_STUCK", "SENSOR_DRIFT"}) = {} =>
                   row.values.export <= row.values.gross
            /\ row.quality # Rows[k].quality => Covering(k, Signals) # {}

\* The limits of a plant and the availability of an asset bound what its
\* events leave: an event can only lower them, and they are never negative.
ModifiersBound ==
    \A e \in Events : e.modifier # None =>
        \A k \in DOMAIN Rows :
            LET less == Events \ {e}
                t == Rows[k].time
                assets == Rows[k].assets IN
            /\ PowerAvailability(Events, t, e.plant, assets)
                   \in 0..PowerAvailability(less, t, e.plant, assets)
            /\ GridExportLimit(Events, t, e.plant, 8) \in 0..GridExportLimit(less, t, e.plant, 8)
            /\ RecoveryCurve(e, t) \in e.modifier..1000
            /\ t >= e.end => RecoveryCurve(e, t) <= RecoveryCurve(e, t + 1)


\* "Events cause consistent SCADA effects": in the dataset, a plant or an
\* inverter produces nothing during its outages.
OutagesStopProduction ==
    Assembled /\ Target = "inverter_scada" =>
        \A k \in DOMAIN Rows : Covering(k, Outages) # {} => state.dataset[k].values.power \in {0, None}
=============================================================================
