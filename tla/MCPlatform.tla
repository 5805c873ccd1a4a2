------------------------------ MODULE MCPlatform ------------------------------
(***************************************************************************)
(* Platform for TLC: assets, runs and owners; the arguments of             *)
(* constructors; the inputs of calculations.                               *)
(***************************************************************************)
EXTENDS Platform, Sequences, FiniteSets, TLC

CONSTANTS p1, e1, e2, a1, i1, t1, t2, bad

RegistryRow(table, refs) ==
    [table |-> table, refs |-> refs, serial |-> None, status |-> "operational"]

RegistryAsset(parent, serial) ==
    [RegistryRow("equipment", [plant |-> p1, parent |-> parent]) EXCEPT !.serial = serial]

\* A plant with two pieces of equipment, either of which may be the other's
\* parent and have its serial number; an alarm, the incident it caused, one
\* observation of each equipment, and a telemetry record without a timestamp.
MCIds == {p1, e1, e2, a1, i1, t1, t2, bad}

MCCandidates ==
    (p1 :> {RegistryRow("plants", <<>>)})
    @@ (e1 :> {RegistryAsset(None, 1), RegistryAsset(e2, 1)})
    @@ (e2 :> {RegistryAsset(e1, 1), RegistryAsset(e1, 2)})
    @@ (a1 :> {RegistryRow("alarms", [plant |-> p1, equipment |-> e1])})
    @@ (i1 :> {RegistryRow("incidents", [plant |-> p1, equipment |-> e1, alarm |-> a1])})
    @@ (t1 :> {RegistryRow("scada", [plant |-> p1, equipment |-> e1])})
    @@ (t2 :> {RegistryRow("scada", [plant |-> p1, equipment |-> e2])})
    @@ (bad :> {})

MCLoads == {<<t1, t2>>, <<t1, bad>>, <<t2, t2>>}

\* A result of two rows, and one with the same timestamp twice.
MCFrames == {<<<<1, FALSE>>, <<2, TRUE>>>>, <<<<2, TRUE>>, <<2, TRUE>>>>}

\* Two of the owners have the same name but for a space.
MCOwners ==
    {[owner_id |-> 1, display_name |-> "A"], [owner_id |-> 2, display_name |-> " A"],
     [owner_id |-> 3, display_name |-> "B"]}

MCRequired(text) == IF text = " A" THEN "A" ELSE text

-----------------------------------------------------------------------------
(***************************************************************************)
(* Constructor arguments for RecordStore: for each table a few records     *)
(* that are accepted, with any two of their fields replaced by any of the  *)
(* values the rules tell apart: at, next to and far from each bound, and   *)
(* of every kind a caller can pass.                                        *)
(***************************************************************************)

IdValues       == {"good", "lower", "bad"}
TextValues     == {"empty", "blank", "padded", "plain", "long"}
OptionalTexts  == {None} \cup TextValues
AmountValues   == {-1, 0, 1, 1000, NaN}
OptionalAmount == {None, 0, -1, 1000, NaN}
PercentValues  == {-1, 0, 100, 101, NaN}

\* base with one or two fields replaced
Variations(base, choices) ==
    UNION {{(f :> v) @@ (g :> w) @@ base : v \in choices[f], w \in choices[g]} :
               f, g \in DOMAIN choices}

Same(fields, S) == [f \in fields |-> S]

-----------------------------------------------------------------------------
PlantArguments ==
    Variations(
        [plant_id |-> "good", plant_name |-> "plain", region |-> "plain", latitude |-> 0,
         longitude |-> 0, dc_capacity_mw |-> 5, ac_capacity_mw |-> 4,
         commissioning_date |-> 1, status |-> "operational", timezone_name |-> "plain"],
        [plant_id |-> IdValues, latitude |-> {-91, -90, 90, 91, NaN},
         longitude |-> {-181, -180, 180, 181, NaN}, dc_capacity_mw |-> {0, 4, 3, 1000, NaN},
         ac_capacity_mw |-> {-1, 0, 5, 1000, NaN}, commissioning_date |-> {0, 1, 2},
         status |-> {"decommissioned", "retired"}]
        @@ Same({"plant_name", "region", "timezone_name"}, TextValues))

EquipmentArguments ==
    Variations(
        [equipment_id |-> "good", plant_id |-> "good", equipment_name |-> "plain",
         equipment_type |-> "transformer", manufacturer |-> "plain",
         model_number |-> "plain", serial_number |-> "plain", commissioning_date |-> 1,
         rated_power_kw |-> 1, parent_equipment_id |-> None, status |-> "operational"],
        [equipment_id |-> IdValues, plant_id |-> IdValues,
         equipment_type |-> {"feeder", "battery"}, commissioning_date |-> {0, 1, 2},
         rated_power_kw |-> OptionalAmount,
         parent_equipment_id |-> {"self"} \cup IdValues,
         status |-> {"forced_outage", "retired"}]
        @@ Same({"equipment_name", "manufacturer", "model_number", "serial_number"},
                TextValues))

TariffArguments ==
    UNION {Variations(
        [tariff_id |-> "good", plant_id |-> "good", tariff_name |-> "plain",
         tariff_type |-> "fixed", currency_code |-> "good", energy_rate_per_kwh |-> 1,
         effective_from |-> 1, effective_to |-> dates, demand_rate_per_kw |-> None,
         escalation_rate_pct |-> 0, status |-> status, contract_reference |-> None,
         notes |-> None],
        [tariff_id |-> IdValues, tariff_name |-> TextValues,
         currency_code |-> {"good", "lower", "short", "long"},
         energy_rate_per_kwh |-> AmountValues, effective_from |-> {0, 2},
         effective_to |-> {None, 0, 2, 3}, demand_rate_per_kw |-> OptionalAmount,
         escalation_rate_pct |-> PercentValues, contract_reference |-> OptionalTexts,
         notes |-> OptionalTexts]) :
        status \in {"draft", "active", "expired", "cancelled", "open"}, dates \in {None, 1}}

BudgetArguments ==
    UNION {Variations(
        [budget_id |-> "good", plant_id |-> "good", budget_name |-> "plain",
         category |-> "capex", fiscal_year |-> 2026, allocated_amount |-> 5,
         spent_amount |-> 1, currency_code |-> "good", approved_on |-> on,
         status |-> status],
        [budget_id |-> IdValues, plant_id |-> IdValues, budget_name |-> TextValues,
         category |-> {"opex", "payroll"}, fiscal_year |-> {1999, 2000, 2100, 2101},
         allocated_amount |-> {0} \cup AmountValues, spent_amount |-> {5, 6} \cup AmountValues,
         currency_code |-> {"lower", "long"}]) :
        status \in {"draft", "approved", "closed", "open"}, on \in {None, 1}}

-----------------------------------------------------------------------------
SCADAArguments ==
    UNION {Variations(
        [plant_id |-> "good", equipment_id |-> "good", timestamp |-> "grid",
         active_power_kw |-> power, interval_energy_kwh |-> power, dc_voltage_v |-> 1,
         dc_current_a |-> 1, ac_voltage_v |-> 1, ac_current_a |-> 1, frequency_hz |-> 50,
         power_factor |-> 1, equipment_available |-> TRUE, grid_available |-> TRUE,
         operating_state |-> "derated", quality |-> "valid"],
        [plant_id |-> IdValues, timestamp |-> {"grid", "between", "naive"},
         active_power_kw |-> {-1, 50, 51, NaN, 1000},
         interval_energy_kwh |-> {-1, 12, 13, NaN, 1000},
         dc_voltage_v |-> {-1, 2, 3, NaN}, dc_current_a |-> {-1, 10, 11},
         ac_voltage_v |-> {-1, 50, 51}, ac_current_a |-> {-1, 10, 11, NaN},
         frequency_hz |-> {-1, 70, 71}, power_factor |-> {-2, -1, 2, NaN},
         equipment_available |-> {FALSE}, grid_available |-> {FALSE},
         operating_state |-> {"normal", "stopped", "fault", "night", "idle"},
         quality |-> {"estimated", "good"}]) :
        power \in {0, 1}}

WeatherArguments ==
    Variations(
        [plant_id |-> "good", weather_station_id |-> "good", timestamp |-> "grid",
         ghi_wm2 |-> 0, dni_wm2 |-> 0, dhi_wm2 |-> 0, ambient_temperature_c |-> 20,
         module_temperature_c |-> 20, wind_speed_ms |-> 1, relative_humidity_pct |-> 50,
         quality |-> "valid"],
        [plant_id |-> IdValues, weather_station_id |-> IdValues,
         timestamp |-> {"between", "naive"},
         ambient_temperature_c |-> {-41, -40, 70, 71, NaN},
         module_temperature_c |-> {-41, -40, 120, 121, NaN},
         wind_speed_ms |-> {-1, 0, 70, 71, NaN}, relative_humidity_pct |-> PercentValues,
         quality |-> {"missing", "good"}]
        @@ Same({"ghi_wm2", "dni_wm2", "dhi_wm2"}, {-1, 150, 151, NaN}))

GroundTruthArguments ==
    Variations(
        [ground_truth_id |-> "good", plant_id |-> "good", event_type |-> "soiling",
         severity |-> "low", started_at |-> 1, ended_at |-> 2, equipment_id |-> None,
         expected_power_loss_pct |-> 10, expected_energy_loss_kwh |-> 1,
         description |-> None],
        [ground_truth_id |-> IdValues, plant_id |-> IdValues,
         event_type |-> {"grid_outage", "flood"}, severity |-> {"critical", "major"},
         started_at |-> {2, 3}, ended_at |-> {1, 3}, equipment_id |-> IdValues,
         expected_power_loss_pct |-> PercentValues,
         expected_energy_loss_kwh |-> AmountValues, description |-> OptionalTexts])

-----------------------------------------------------------------------------
AlarmArguments ==
    Variations(
        [alarm_id |-> "good", plant_id |-> "good", equipment_id |-> "good",
         alarm_code |-> "good", alarm_name |-> "plain", category |-> "grid",
         severity |-> "major", message |-> None],
        Same({"alarm_id", "plant_id", "equipment_id"}, IdValues)
        @@ [alarm_code |-> {"lower", "bad", "long"}, alarm_name |-> OptionalTexts \ {None},
            category |-> {"safety", "soil"}, severity |-> {"warning", "low"},
            message |-> OptionalTexts])

IncidentArguments ==
    Variations(
        [incident_id |-> "good", plant_id |-> "good", equipment_id |-> "good",
         incident_name |-> "plain", category |-> "grid_event", severity |-> "low",
         description |-> None, root_cause |-> None, linked_alarm_id |-> None],
        Same({"incident_id", "plant_id", "equipment_id", "linked_alarm_id"}, IdValues)
        @@ [incident_name |-> TextValues, category |-> {"safety_event", "safety"},
            severity |-> {"critical", "major"}]
        @@ Same({"description", "root_cause"}, OptionalTexts))

WorkOrderArguments ==
    Variations(
        [work_order_id |-> "good", plant_id |-> "good", equipment_id |-> "good",
         work_order_name |-> "plain", work_order_type |-> "corrective", priority |-> "low",
         linked_incident_id |-> None, assigned_team |-> None,
         estimated_labor_hours |-> None, actual_labor_hours |-> None,
         estimated_cost |-> 1, actual_cost |-> None, description |-> None,
         completion_notes |-> None],
        Same({"work_order_id", "plant_id", "equipment_id", "linked_incident_id"}, IdValues)
        @@ [work_order_name |-> TextValues, work_order_type |-> {"emergency", "repair"},
            priority |-> {"high", "major"}]
        @@ Same({"assigned_team", "description", "completion_notes"}, OptionalTexts)
        @@ Same({"estimated_labor_hours", "actual_labor_hours", "estimated_cost",
                 "actual_cost"}, OptionalAmount))

MCArguments(table) ==
    CASE table = "plants" -> PlantArguments
      [] table = "equipment" -> EquipmentArguments
      [] table = "tariffs" -> TariffArguments
      [] table = "budgets" -> BudgetArguments
      [] table = "scada_observations" -> SCADAArguments
      [] table = "weather_observations" -> WeatherArguments
      [] table = "ground_truth_events" -> GroundTruthArguments
      [] table = "alarms" -> AlarmArguments
      [] table = "incidents" -> IncidentArguments
      [] table = "work_orders" -> WorkOrderArguments

-----------------------------------------------------------------------------
(***************************************************************************)
(* Arguments for the calculations: a base that is sound, and what differs  *)
(* from it in one or two places.                                           *)
(***************************************************************************)

\* f with up to one of the fields of alternatives replaced.
Variant(f, alternatives) ==
    {f} \cup UNION {{[f EXCEPT ![x] = v] : v \in alternatives[x]} : x \in DOMAIN alternatives}

\* f with up to two of the fields of alternatives replaced.
Variants(f, alternatives) ==
    LET Once(g) == Variant(g, alternatives) IN Once(f) \cup UNION {Once(g) : g \in Once(f)}

-----------------------------------------------------------------------------
\* Retries: none to two, delays that grow, stay, shrink or reach the maximum.
MCRetryPolicies ==
    [maximum_retries : 0..2, retry_delay : {4}, timeout : {1}, backoff_multiplier : {1, 2, 4},
     maximum_retry_delay : {3, 10},
     retryable : {{"ConnectionError"}, {"OSError"}, {"BaseException"}},
     non_retryable : {{}, {"ValueError", "KeyboardInterrupt"}}]

MCAdditions == {{}, {"ValueError"}, {"TimeoutError"}}

-----------------------------------------------------------------------------
\* Frames of a key, a time and a value, judged by several contracts and
\* prepared in the usual way, or judged once and prepared in several ways.
BaseContract ==
    [required |-> {"k", "t", "v"}, nullable |-> {}, unique_key |-> {"k"},
     timestamps |-> {"t"}, finite |-> {"v"}, ranges |-> {"v"}, allow_empty |-> FALSE]

MCContracts ==
    Variants(BaseContract,
             [nullable |-> {{"v"}, {"k", "t"}, {"w"}}, unique_key |-> {{}, {"k", "t"}},
              finite |-> {{}}, allow_empty |-> {TRUE}])

MCRow == [k : {"text", "padded", "token", "null"}, t : {"time", "date", "text", "null"},
          v : {"in", "below", "above", "infinite", "numeric", "text", "blank", "null"}]

MCRawFrames ==
    LET base == [k |-> "text", t |-> "later", v |-> "in"]
        other == [k |-> "upper", t |-> "time", v |-> "in"] IN
    {[columns |-> <<"k", "t", "v">>, rows |-> given] :
        given \in {<<>>, <<base, other>>, <<base, other, base>>,
                     <<base, [other EXCEPT !.k = "blank"], base>>}
                 \cup {<<base, r>> : r \in MCRow}
                 \cup {<<r, r, base>> : r \in {q \in MCRow : q.v \in {"in", "text"}}}}
    \cup {[columns |-> columns, rows |-> given] :
              columns \in {<<"k", "t">>, <<"k", "t", "v", "t">>}, given \in {<<>>, <<base>>}}
    \cup {[columns |-> <<"K", "t", "v">>, rows |-> <<[K |-> "text", t |-> "time", v |-> "in"]>>],
          [columns |-> <<"K", "k", "t", "v">>,
           rows |-> <<[K |-> "text", k |-> "text", t |-> "time", v |-> "in"]>>]}

MCEtlPolicies ==
    [failure_policy : {"fail_fast", "quarantine", "continue"}, max_bad_records : 0..1]

BaseCleaning ==
    [standardize |-> TRUE, strip |-> TRUE, tokens |-> TRUE, uppercase |-> {}, lowercase |-> {},
     timestamps |-> {"t"}, numeric |-> {"v"}, renames |-> <<>>, sort_by |-> <<"t">>]

MCCleanings ==
    Variant(BaseCleaning,
            [standardize |-> {FALSE}, tokens |-> {FALSE}, uppercase |-> {{"k"}},
              lowercase |-> {{"k"}}, numeric |-> {{}}, sort_by |-> {<<>>, <<"w">>},
              renames |-> {[v |-> "w"], [k |-> "v"], [k |-> "v", v |-> "k"]}])

BaseTransformation ==
    [select |-> <<>>, drop |-> {}, renames |-> <<>>, derived |-> <<>>, keys |-> {"k"},
     sort_by |-> <<"t">>]

MCTransformations ==
    Variant(BaseTransformation,
            [select |-> {<<"t", "k">>, <<"k", "u">>}, drop |-> {{"v", "u"}, {"k"}},
              renames |-> {[k |-> "t"], [v |-> "w"]},
              derived |-> {<<[target |-> "k", source |-> "v"]>>, <<[target |-> "u", source |-> "w"]>>},
              keys |-> {{}, {"k", "t"}}, sort_by |-> {<<>>}])

MCFrameInputs ==
    [contract : MCContracts, policy : MCEtlPolicies, frame : MCRawFrames,
     cleaning : {BaseCleaning}, transformation : {BaseTransformation}]
    \cup
    [contract : {BaseContract}, policy : {[failure_policy |-> "continue", max_bad_records |-> 0]},
     frame : {f \in MCRawFrames : Len(f.rows) # 2}, cleaning : MCCleanings,
     transformation : MCTransformations]

-----------------------------------------------------------------------------
\* A plant with an inverter and a meter over two intervals, an alarm, an
\* incident and a work order about it.
AssetOf(id, plant) == [id |-> id, plant |-> plant]

Reading(equipment, time, power) ==
    [plant |-> "P", equipment |-> equipment, time |-> time, power |-> power, energy |-> power]

Export(plant, time, cumulative) ==
    [plant |-> plant, meter |-> "M", time |-> time, cumulative |-> cumulative, export |-> 1]

Operation(id, plant, lower, equipment, begun, ended) ==
    [id |-> id, plant |-> [id |-> plant, lower |-> lower], equipment |-> equipment,
     begun |-> begun, ended |-> ended]

SoundDataset ==
    LET operation == <<Operation("O", "P", FALSE, "I", 0, 1)>> IN
    [plants |-> <<[id |-> "P"]>>, equipment |-> <<AssetOf("I", "P")>>, meters |-> <<AssetOf("M", "P")>>,
     inverter_scada |-> <<Reading("I", 0, 1), Reading("I", 2, 0)>>,
     plant_scada |-> <<Export("P", 0, 1), Export("P", 2, 2)>>,
     weather |-> <<[ghi |-> 1], [ghi |-> 0]>>,
     alarms |-> operation, incidents |-> operation, work_orders |-> <<>>,
     columns |-> [t \in {"alarms", "incidents", "work_orders"} |-> {"begun", "ended"}]]

MCDatasets ==
    Variants(SoundDataset,
        [plants |-> {<<>>, <<[id |-> "P"], [id |-> "P"]>>, <<[id |-> "P"], [id |-> "Q"]>>},
         equipment |-> {<<>>, <<AssetOf("I", "P"), AssetOf("I", "P")>>, <<AssetOf("I", "Q")>>},
         meters |-> {<<>>, <<AssetOf("M", "P"), AssetOf("N", "P")>>},
         inverter_scada |->
             {<<Reading("I", 0, x)>> : x \in {NaN, 0 - 1}}
             \cup {<<Reading("J", 0, 1)>>, <<Reading("I", 1, 1)>>, <<Reading("I", 4, 1)>>,
                   <<Reading("I", 0, 1), Reading("I", 0, 1)>>},
         plant_scada |->
             {<<Export("P", 0, 2), Export("P", 2, 1)>>, <<Export("P", 0, 1)>>,
              <<Export("P", 0, 1), Export("P", 0, 1)>>, <<Export("Q", 0, 1), Export("P", 0, 1)>>},
         weather |-> {<<>>, <<[ghi |-> 0 - 1], [ghi |-> NaN]>>},
         alarms |->
             {<<>>} \cup {<<Operation("O", "P", lower, "I", begun, 0)>> :
                             lower \in BOOLEAN, begun \in {None, 1}}
             \cup {<<Operation("O", "Q", FALSE, "I", 0, None)>>, <<Operation("O", "P", FALSE, "J", 0, 0)>>,
                   <<Operation("O", "P", FALSE, "I", 0, 0), Operation("O", "P", FALSE, "I", 0, 0)>>},
         columns |-> {[SoundDataset.columns EXCEPT !.alarms = {"begun"}]}])

MCSettings ==
    [start : {0}, end : {4}, interval : {2}, plant_count : {1}, fail_on_warning : BOOLEAN]

-----------------------------------------------------------------------------
\* Three intervals of a plant, or of an inverter and two of its neighbours;
\* the frames of the generator know no feeder and no transformer.
MCTargetValues ==
    [weather        |-> [ghi |-> 8, temperature |-> 8],
     inverter_scada |-> [power |-> 8, availability |-> 1000, operating |-> "running"],
     plant_scada    |-> [gross |-> 8, export |-> 8, loss |-> 0, energy |-> 8, cumulative |-> 8]]

MCAssets(target, number, feeder) ==
    CASE target = "weather"        -> [station |-> number]
      [] target = "inverter_scada" -> [inverter |-> number, feeder |-> feeder, transformer |-> feeder]
      [] target = "plant_scada"    -> [sensor |-> number]

ObservedRow(target, plant, number, feeder, time) ==
    [plant |-> plant, assets |-> MCAssets(target, number, feeder), time |-> time,
     values |-> MCTargetValues[target], quality |-> "good", event |-> None]

MCObservations ==
    {[target |-> target,
      rows |-> <<ObservedRow(target, "P", 1, feeder, 0), ObservedRow(target, "P", 1, feeder, 1),
                 ObservedRow(target, "P", 2, feeder, 1), ObservedRow(target, "P", 1, feeder, 2),
                 ObservedRow(target, "Q", 3, None, 1)>>] :
        target \in DOMAIN MCTargetValues, feeder \in {None, 1}}

EventOf(type, scope, modifier, channel) ==
    [type |-> type, scope |-> scope, plant |-> "P", asset |-> 1, modifier |-> modifier,
     channel |-> channel, bias |-> 500, recovery |-> "instant"]

Recovering(type, scope, ratio) ==
    {[EventOf(type, scope, ratio, "none") EXCEPT !.recovery = r] :
        r \in {"instant", "linear_ramp", "exponential", "manual_reset"}}

EventKinds ==
    {EventOf(kind[1], kind[2], kind[3], "none") :
        kind \in {<<"GRID_OUTAGE", "portfolio", 0>>, <<"PLANT_TRIP", "plant", 0>>,
                  <<"FEEDER_TRIP", "feeder", 0>>, <<"TRANSFORMER_TRIP", "transformer", 0>>,
                  <<"INVERTER_TRIP", "inverter", 0>>, <<"MAINTENANCE_OUTAGE", "inverter", 0>>,
                  <<"MAINTENANCE_OUTAGE", "plant", 0>>, <<"MPPT_FAULT", "inverter", 500>>,
                  <<"DC_STRING_LOSS", "inverter", 500>>, <<"SOILING_ACCUMULATION", "plant", 500>>,
                  <<"CLEANING_RECOVERY", "plant", 1000>>, <<"STORM_EVENT", "portfolio", 250>>,
                  <<"HIGH_TEMPERATURE_STRESS", "plant", 500>>, <<"TELEMETRY_GAP", "plant", None>>,
                  <<"TELEMETRY_GAP", "inverter", None>>, <<"METER_RESET", "sensor", None>>}}
    \cup {[EventOf("INVERTER_TRIP", "inverter", 0, "none") EXCEPT !.asset = 2]}
    \cup Recovering("GRID_CURTAILMENT", "plant", 500) \cup {EventOf("INVERTER_DERATING", "inverter", 500, "none")}
    \cup Recovering("THERMAL_DERATING", "inverter", 250)
    \cup {EventOf(type, "sensor", None, channel) :
              type \in {"SENSOR_STUCK", "SENSOR_DRIFT"}, channel \in {"ghi", "export", "power", "none"}}

Windows == {<<0, 1>>, <<0, 2>>, <<1, 3>>}

Event(kind, id, window) ==
    kind @@ [id |-> id, start |-> window[1], end |-> window[2]]

MCEventSets ==
    {{}} \cup {{Event(k, 1, w)} : k \in EventKinds, w \in Windows}
    \cup {{Event(j, 1, v), Event(k, 2, w)} :
              j \in EventKinds, k \in EventKinds, v \in Windows, w \in {<<0, 2>>, <<1, 3>>}}
-----------------------------------------------------------------------------
\* Portfolios of two plants or one; an inverter rated for more than the 50 MW a
\* reading may show; capacities that do not divide evenly among the inverters;
\* and counts that do not fit the identifiers, or give a plant no inverter or
\* two meters.
MCPortfolio(plants, inverters, capacity) ==
    [plants |-> plants, transformers |-> 1, feeders |-> 2, inverters |-> inverters,
     stations |-> 1, meters |-> 1, relays |-> 1, capacity |-> capacity]

MCMeasured(portfolio, intervals, skies, losses) ==
    [portfolio |-> portfolio, intervals |-> intervals, skies |-> skies, losses |-> losses,
     auxiliary |-> 1]

MCMeasurementInputs ==
    {MCMeasured(MCPortfolio(1, 2, 63), 1, 0..2, 1), MCMeasured(MCPortfolio(1, 1, 64), 2, {0, 2}, 0),
     MCMeasured(MCPortfolio(2, 1, 32), 1, {0, 2}, 1), MCMeasured(MCPortfolio(1, 3, 95), 1, {2}, 1)}
    \cup {MCMeasured([MCPortfolio(2, i, 32) EXCEPT !.transformers = t, !.feeders = f,
                                                   !.meters = m, !.stations = s], 1, {0}, 0) :
             i \in 0..1, t \in 1..3, f \in {1, 3}, m \in 1..2, s \in {1, 3}}
-----------------------------------------------------------------------------
\* Runs of up to three months of three days, which begin and end anywhere in
\* a month or a day.
MCProfiles ==
    [unit |-> [start |-> 0, end |-> 24, plants |-> 1], smoke |-> [start |-> 0, end |-> 60, plants |-> 2],
     default |-> [start |-> 0, end |-> 72, plants |-> 2],
     extended |-> [start |-> 0, end |-> 108, plants |-> 2]]

MCWeekend == {1, 4, 5}

MCGenerationInputs ==
    LET times == [start : {0, 3, 12, 36, 45, 48}, end : {3, 9, 12, 24, 36, 40, 45, 48, 72, 75, 80}]
                 \cup [start : {0, 12, 15, 36, 39}] \cup [interval : {1, 2, 3, 4, 6, 12}]
                 \cup [interval : {1, 2, 6, 12}, end : {12, 24, 36, 40, 42}] IN
    [profile : DOMAIN MCProfiles,
     overrides : {<<>>, [seeds |-> 1]} \cup [time : times] \cup [plants : 0..2]
                 \cup [profile_name : {"unit", "default", "extended", "other"}]
                 \cup [profile_name : {"extended"}, time : times, plants : {1}]]
-----------------------------------------------------------------------------
\* Two runs that share a decision and differ in another, with contexts of
\* their own, one context, or the second in a child context.
MCDecisions ==
    [about : {"event type"}, type : {"T"}] \cup [about : {"tariff", "budget"}, plant : {"P", "Q"}]
    \cup [about : {"primary alarm", "nuisance alarm"}, event : {"E", "F"}, code : {"C"}]
    \cup [about : {"incident"}, event : {"E"}, alarm : {"A", "B"}, group : {"1", "2"}]
    \cup [about : {"work order"}, incident : {"I"}]
    \cup [about : {"stream"}, name : {"alarms", "Alarms", "weather", "other"}]

MCRunInputs ==
    LET fresh(id) == [id |-> id, namespace |-> None]
        child     == [id |-> 3, namespace |-> <<"what-if">>]
        other     == [about : {"stream"}, name : {"Alarms", "weather"}]
                     \cup [about : {"nuisance alarm"}, event : {"E"}, code : {"C"}] IN
    [decisions : {<<{a, b}, {a, c}>> : a \in MCDecisions, b \in MCDecisions, c \in other},
     contexts : {<<fresh(1), c>> : c \in {fresh(1), fresh(2), child}}]

-----------------------------------------------------------------------------
\* A tuple and a frame that depend on chance, and one of each that do not.
MCVerificationInputs ==
    LET Of(value, time, run) == [value |-> value, time |-> time, run |-> run]
        given  == <<Of(1, 1, "R"), Of(2, 2, "R")>>
        frame == [columns |-> <<"value", "time", "run">>, index |-> <<0, 1>>, rows |-> given]
        base  == [plants |-> given, weather |-> given, alarms |-> frame, tariffs |-> frame]
        otherRows ==
            {<<>>, <<Of(1, 1, "R")>>, <<Of(1, 1, "S"), Of(2, 2, "S")>>, <<Of(2, 2, "R"), Of(1, 1, "R")>>,
             <<Of(1, 1, "R"), Of(3, 2, "R")>>, <<Of(1, 1, "R"), Of(2, 3, "R")>>}
        otherFrames ==
            {[frame EXCEPT !.rows = r] : r \in otherRows}
            \cup {[frame EXCEPT !.columns = <<"time", "value", "run">>], [frame EXCEPT !.index = <<1, 0>>]} IN
    {[kind |-> kind, validate |-> validity # "unknown", valid |-> validity = "valid",
      left |-> left, right |-> right] :
        kind \in {"same_seed", "different_seed"}, validity \in {"unknown", "valid", "invalid"},
        left \in {base, [base EXCEPT !.weather = <<>>]},
        right \in Variants(base, [plants |-> otherRows, weather |-> otherRows,
                                  alarms |-> otherFrames, tariffs |-> otherFrames])}
-----------------------------------------------------------------------------
\* Frames of two pieces of equipment, which may be one twice; one row that is
\* refused, or histories of which some tell no trend; weights that do not sum
\* to one, and one that is negative.
MCEquipment(e, p, others, criticality, history) ==
    [equipment |-> e, failure_probability |-> p, anomaly_rate |-> others, alarm_burden |-> others,
     temperature_stress |-> 1, performance_loss |-> others, criticality |-> criticality,
     history |-> history]

MCMaintenanceInputs ==
    LET sound == {MCEquipment(e, p, o, c, None) : e \in 1..2, p \in {0, 2, 4}, o \in {0, 4}, c \in {0, 3}}
        base == MCEquipment(1, 2, 2, 1, None)
        histories == {None, NaN, <<NaN>>, <<80, NaN>>, <<80, 84>>, <<80, 90>>, <<4, 0>>}
        odd == {[base EXCEPT !.history = h] : h \in histories}
               \cup {[base EXCEPT !.equipment = 0], [base EXCEPT !.criticality = NaN]}
               \cup {[base EXCEPT !.anomaly_rate = v] : v \in {NaN, 5}}
        health == [failure_probability |-> 35, anomaly_rate |-> 20, alarm_burden |-> 15,
                   temperature_stress |-> 15, performance_loss |-> 15]
        risk == [health |-> 40, failure_probability |-> 60]
        priority == [risk_score |-> 40, failure_probability |-> 30, health_degradation |-> 20,
                     criticality |-> 10]
        Of(given, h, r, p) ==
            [rows |-> given, health_weights |-> h, risk_weights |-> r, priority_weights |-> p] IN
    {Of(<<a, b>>, health, risk, priority) : a \in sound, b \in sound}
    \cup {Of(given, health, risk, priority) : given \in {<<>>} \cup {<<a>> : a \in odd} \cup {<<base, a>> : a \in odd}}
    \cup {Of(<<base>>, h, r, p) : h \in {health, [health EXCEPT !.anomaly_rate = 0]},
              r \in {risk, [risk EXCEPT !.health = 30]},
              p \in {priority, [priority EXCEPT !.criticality = -10, !.risk_score = 60]}}

\* Equipment that loses energy or not, at three risks, whose maintenance costs
\* nothing, little or as much as it saves; every value out of its range.
MCOptimizationInputs ==
    LET Asset(e, expected, risk, p, cost) ==
            [equipment |-> e, actual |-> 1, expected |-> expected, factor |-> 2, risk |-> risk,
             probability |-> p, failure_cost |-> 4, effectiveness |-> 4, cost |-> cost,
             price |-> 1, saving |-> 0]
        sound == {Asset(e, x, r, p, c) : e \in 1..2, x \in {0, 3}, r \in 0..2, p \in {0, 2}, c \in {0, 1, 3}}
        base == Asset(1, 3, 2, 2, 1)
        odd == {[base EXCEPT ![c] = v] : c \in DOMAIN base \ {"equipment"}, v \in {NaN, -1, 5, 0}}
               \cup {[base EXCEPT !.equipment = 0], [base EXCEPT !.cost = 2, !.expected = 0]}
        weights == [risk_score |-> 40, expected_benefit |-> 30, recoverable_energy |-> 20,
                    recommendation_type |-> 10]
        Of(given, labels, w, residue) ==
            [rows |-> given, labels |-> labels, weights |-> w, residue |-> residue] IN
    {Of(<<a, b>>, <<0, 1>>, weights, 0) : a \in sound, b \in sound}
    \cup {Of(<<a>>, <<0>>, weights, r) : a \in sound \cup odd, r \in -1..1}
    \cup {Of(<<base, a>>, <<0, 1>>, weights, 0) : a \in odd}
    \cup {Of(<<>>, <<>>, weights, 0), Of(<<base, base>>, <<0, 0>>, weights, 0),
          Of(<<base>>, <<0>>, [weights EXCEPT !.risk_score = 30], 0)}
-----------------------------------------------------------------------------
\* Four observations in every order, of one or of two pieces of equipment, with
\* a gap or a time twice; fractions that leave no validation set.
MCLabelInputs ==
    LET Obs(e, t, v) == [equipment |-> e, time |-> t, value |-> v]
        four == {<<Obs(1, 1, 5), Obs(1, 2, 7), Obs(1, 4, 6), Obs(2, 2, 1)>>,
                 <<Obs(1, 2, 5), Obs(1, 3, 7), Obs(2, 1, 6), Obs(2, 2, 1)>>,
                 <<Obs(1, 1, 5), Obs(1, 2, 7), Obs(1, 3, 6), Obs(1, 4, 1)>>,
                 <<Obs(1, 1, 5), Obs(1, 1, 7), Obs(1, 3, 6), Obs(1, 4, 1)>>}
        orders == {q \in [1..4 -> 1..4] : \A j, k \in 1..4 : q[j] = q[k] => j = k}
        Of(o, f, w, lag, t, v) ==
            [observations |-> o, failures |-> f, window |-> w, lag |-> lag, train |-> t, validation |-> v] IN
    {Of([k \in 1..4 |-> s[q[k]]], f, w, lag, t, v) :
        s \in four, q \in orders, f \in {{Obs(1, 3, 0)}, {Obs(1, 2, 0), Obs(2, 4, 0)}}, w \in 1..2,
        lag \in 1..2, t \in {20, 60, 98}, v \in {1, 20}}
    \cup {Of(o, f, w, lag, 60, 20) :
        o \in four \cup {<<>>, <<Obs(0, 1, 1)>>, <<Obs(1, None, 1)>>},
        f \in {{}, {Obs(1, 2, 0)}, {Obs(0, 2, 0)}}, w \in 0..1, lag \in 0..1}

\* Five values in order, out of order, and with a gap; up to three models.
MCBacktestInputs ==
    LET Row(t, v) == [time |-> t, value |-> v]
        choices == <<3, 1, 4, 0, 5>>
        frames == {[k \in 1..5 |-> Row(times[k], choices[k])] :
                      times \in {<<1, 2, 3, 4, 5>>, <<2, 1, 3, 5, 4>>, <<1, 2, 4, 5, 6>>, <<5, 4, 3, 2, 1>>}}
        odd == {<<>>, <<Row(1, 1), Row(1, 2), Row(2, 2)>>, <<Row(None, 1)>>, <<Row(1, NaN)>>,
                <<Row(1, 0), Row(2, 0), Row(3, 0)>>}
        Of(f, m, i, h, s) == [frame |-> f, models |-> m, initial |-> i, horizon |-> h, step |-> s] IN
    {Of(f, m, i, h, s) : f \in frames, m \in {<<1, 2>>, <<2, 1>>, <<1>>, <<1, 2, 3>>},
        i \in 0..3, h \in 0..3, s \in 0..2}
    \cup {Of(f, <<1, 2>>, 2, 1, 1) : f \in odd}

-----------------------------------------------------------------------------
\* Up to two downtimes that begin before, in and after a window of four hours
\* and end up to beyond it, three that follow each other or do not, hours
\* nobody saw; and the energies of up to two intervals.
MCKpiInputs ==
    LET Downtime(s, e, aware) == [from |-> s, to |-> e, aware |-> aware]
        some  == {Downtime(s, e, TRUE) : s \in -1..4, e \in -1..6} \cup {Downtime(1, 2, FALSE)}
        short == {Downtime(s, s + 1, TRUE) : s \in 0..3} \cup {Downtime(0, 2, TRUE), Downtime(3, 6, TRUE)}
        Of(d, end, unseen) ==
            [kind |-> "downtime", start |-> 0, end |-> end, downtimes |-> d, unseen |-> unseen]
        series == UNION {[1..n -> {None, -1, 0, 1, 3, NaN}] : n \in 0..2}
        energy == [kind |-> "energy", start |-> 0, end |-> 2, potential |-> <<3, 1>>, actual |-> <<1, 1>>,
                   clean |-> 2, soiled |-> 2, lost |-> 0, rated |-> 2, tariff |-> 2, cost |-> 2, budget |-> 2]
        amounts == {-1, 0, 1, 5} IN
    {Of(d, 4, <<>>) : d \in {<<>>} \cup {<<a>> : a \in some} \cup (some \X some) \cup (short \X short \X short)}
    \cup {Of(<<a>>, end, unseen) : a \in short, end \in {0, 4},
             unseen \in {0 :> None, 0 :> NaN, (0 :> None) @@ (1 :> None), [t \in 0..3 |-> None]}}
    \cup {[energy EXCEPT !.potential = p, !.actual = q] : p \in series, q \in series}
    \cup Variants(energy, [clean |-> amounts \cup {NaN}, soiled |-> amounts \cup {NaN},
             lost |-> amounts \cup {NaN}, rated |-> {-1, 0, NaN}, tariff |-> amounts \cup {NaN},
             cost |-> amounts, budget |-> amounts, end |-> {0},
             actual |-> {<<3, 1>>, <<3, 3>>, <<0, 0>>}])
===============================================================================
