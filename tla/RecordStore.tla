---------------------------- MODULE RecordStore -----------------------------
(***************************************************************************)
(* The life of one record between the domain model and its table: a caller *)
(* constructs it, from_domain turns it into a row, the database judges the *)
(* row, days go by, and to_domain constructs it again from the row.  Three *)
(* independent judges - constructor, constraints, column types - must      *)
(* agree for that to work, and the constructor looks at the calendar.      *)
(***************************************************************************)
EXTENDS DomainRecords

CONSTANTS
    Arguments(_),   \* the constructor arguments to try, for each table
    MaxDay

Tables == {"plants", "equipment", "tariffs", "budgets", "scada_observations",
           "weather_observations", "ground_truth_events", "alarms", "incidents", "work_orders"}

VARIABLES
    input,  \* the table and the arguments of the constructor
    state   \* the stage the record has reached, the row, the day

vars == <<input, state>>

Normal(table, r) ==
    CASE table = "plants" -> PlantNormal(r)
      [] table = "equipment" -> EquipmentNormal(r)
      [] table = "tariffs" -> TariffNormal(r)
      [] table = "budgets" -> BudgetNormal(r)
      [] table = "scada_observations" -> SCADANormal(r)
      [] table = "weather_observations" -> WeatherNormal(r)
      [] table = "ground_truth_events" -> GroundTruthNormal(r)
      [] table = "alarms" -> AlarmNormal(r)
      [] table = "incidents" -> IncidentNormal(r)
      [] table = "work_orders" -> WorkOrderNormal(r)

Accepted(table, r, today) ==
    CASE table = "plants" -> PlantAccepted(r, today)
      [] table = "equipment" -> EquipmentAccepted(r, today)
      [] table = "tariffs" -> TariffAccepted(r, today)
      [] table = "budgets" -> BudgetAccepted(r, today)
      [] table = "scada_observations" -> SCADAAccepted(r, today)
      [] table = "weather_observations" -> WeatherAccepted(r, today)
      [] table = "ground_truth_events" -> GroundTruthAccepted(r, today)
      [] table = "alarms" -> AlarmAccepted(r, today)
      [] table = "incidents" -> IncidentAccepted(r, today)
      [] table = "work_orders" -> WorkOrderAccepted(r, today)

FromDomain(table, r) ==
    CASE table = "plants" -> PlantRow(r)
      [] table = "equipment" -> EquipmentRow(r)
      [] table = "tariffs" -> TariffRow(r)
      [] table = "budgets" -> BudgetRow(r)
      [] table = "scada_observations" -> SCADARow(r)
      [] table = "weather_observations" -> WeatherRow(r)
      [] table = "ground_truth_events" -> GroundTruthRow(r)
      [] table = "alarms" -> AlarmRow(r)
      [] table = "incidents" -> IncidentRow(r)
      [] table = "work_orders" -> WorkOrderRow(r)

ToDomain(table, row) ==
    CASE table = "plants" -> PlantRead(row)
      [] table = "equipment" -> EquipmentRead(row)
      [] table = "tariffs" -> TariffRead(row)
      [] table = "budgets" -> BudgetRead(row)
      [] table = "scada_observations" -> SCADARead(row)
      [] table = "weather_observations" -> WeatherRead(row)
      [] table = "ground_truth_events" -> GroundTruthRead(row)
      [] table = "alarms" -> AlarmRead(row)
      [] table = "incidents" -> IncidentRead(row)
      [] table = "work_orders" -> WorkOrderRead(row)

\* The database takes the row: CHECK constraints and column types.
Taken(table, row) ==
    CASE table = "plants" -> PlantChecks(row) /\ PlantColumns(row)
      [] table = "equipment" -> EquipmentChecks(row) /\ EquipmentColumns(row)
      [] table = "tariffs" -> TariffChecks(row) /\ TariffColumns(row)
      [] table = "budgets" -> BudgetChecks(row) /\ BudgetColumns(row)
      [] table = "scada_observations" -> SCADAChecks(row)
      [] table = "weather_observations" -> WeatherChecks(row)
      [] table = "ground_truth_events" -> GroundTruthChecks(row) /\ GroundTruthColumns(row)
      [] table = "alarms" -> AlarmChecks(row) /\ AlarmColumns(row)
      [] table = "incidents" -> IncidentChecks(row) /\ IncidentColumns(row)
      [] table = "work_orders" -> WorkOrderChecks(row) /\ WorkOrderColumns(row)

-----------------------------------------------------------------------------
Init ==
    /\ \E table \in Tables : \E r \in Arguments(table) : input = [table |-> table, record |-> r]
    /\ state = [stage |-> "new", row |-> None, today |-> 1]

Construct ==
    /\ state.stage = "new"
    /\ state' = [state EXCEPT !.stage =
           IF Accepted(input.table, input.record, state.today) THEN "accepted" ELSE "refused"]
    /\ UNCHANGED input

Store ==
    /\ state.stage = "accepted"
    /\ LET row == FromDomain(input.table, Normal(input.table, input.record)) IN
       state' = IF Taken(input.table, row)
                THEN [state EXCEPT !.stage = "stored", !.row = row]
                ELSE [state EXCEPT !.stage = "rejected"]
    /\ UNCHANGED input

NextDay ==
    /\ state.stage = "stored" /\ state.today < MaxDay
    /\ state' = [state EXCEPT !.today = @ + 1]
    /\ UNCHANGED input

Read ==
    /\ state.stage = "stored"
    /\ state' = [state EXCEPT !.stage =
           IF Accepted(input.table, ToDomain(input.table, state.row), state.today)
           THEN "read" ELSE "unreadable"]
    /\ UNCHANGED input

Next == Construct \/ Store \/ NextDay \/ Read

Spec == Init /\ [][Next]_vars

-----------------------------------------------------------------------------
TypeOK ==
    /\ input.table \in Tables
    /\ state.stage \in {"new", "accepted", "refused", "stored", "rejected", "read", "unreadable"}
    /\ state.today \in 1..MaxDay
    /\ state.stage \in {"stored", "read", "unreadable"} =>
           DOMAIN state.row = DOMAIN input.record

\* What a constructor accepts and its table still refuses: texts longer than
\* their columns, where the model has no maximum; a currency that is no code;
\* an AC capacity that is not a number, which PostgreSQL finds larger than
\* any DC capacity.
Unbounded(table, r) ==
    CASE table = "plants" -> ~PlantColumns(r) \/ r.ac_capacity_mw = NaN
      [] table = "equipment" -> ~EquipmentColumns(r)
      [] table = "budgets" -> ~BudgetColumns(r)
      [] table \notin {"plants", "equipment", "budgets"} -> FALSE

\* Constructor and table agree but for these cases: an accepted record is
\* stored.  The two lists of rules are written apart and in two languages.
AcceptedIsStored == state.stage = "rejected" => Unbounded(input.table, input.record)

\* A stored record is read back as it was, on any later day, unless it is an
\* active tariff whose last day has passed: that one cannot be read at all.
StoredReadsBack ==
    /\ state.stage = "unreadable" =>
           /\ input.table = "tariffs" /\ state.row.status = "active"
           /\ ~RowIsCurrent(state.row, state.today)
    /\ state.stage = "read" =>
           ToDomain(input.table, state.row) = Normal(input.table, input.record)
-----------------------------------------------------------------------------
(* The inductive invariant.                                                *)

Texts       == {"empty", "blank", "padded", "plain", "long"}
Identifiers == {"good", "lower", "bad", "self", "short", "long"}
Numbers     == Int \cup {NaN}
Times       == {"grid", "between", "naive"}
OrNone(S)   == S \cup {None}

\* What can be passed to the constructors.
PlantParameters ==
    [plant_id : Identifiers, plant_name : Texts, region : Texts, latitude : Numbers,
     longitude : Numbers, dc_capacity_mw : Numbers, ac_capacity_mw : Numbers,
     commissioning_date : Int, status : STRING, timezone_name : Texts]

EquipmentParameters ==
    [equipment_id : Identifiers, plant_id : Identifiers, equipment_name : Texts,
     equipment_type : STRING, manufacturer : Texts, model_number : Texts,
     serial_number : Texts, commissioning_date : Int, rated_power_kw : OrNone(Numbers),
     parent_equipment_id : OrNone(Identifiers), status : STRING]

TariffParameters ==
    [tariff_id : Identifiers, plant_id : Identifiers, tariff_name : Texts,
     tariff_type : STRING, currency_code : Identifiers, energy_rate_per_kwh : Numbers,
     effective_from : Int, effective_to : OrNone(Int), demand_rate_per_kw : OrNone(Numbers),
     escalation_rate_pct : Numbers, status : STRING, contract_reference : OrNone(Texts),
     notes : OrNone(Texts)]

BudgetParameters ==
    [budget_id : Identifiers, plant_id : Identifiers, budget_name : Texts, category : STRING,
     fiscal_year : Int, allocated_amount : Numbers, spent_amount : Numbers,
     currency_code : Identifiers, approved_on : OrNone(Int), status : STRING]

SCADAParameters ==
    [plant_id : Identifiers, equipment_id : Identifiers, timestamp : Times,
     active_power_kw : Numbers, interval_energy_kwh : Numbers, dc_voltage_v : Numbers,
     dc_current_a : Numbers, ac_voltage_v : Numbers, ac_current_a : Numbers,
     frequency_hz : Numbers, power_factor : Numbers, equipment_available : BOOLEAN,
     grid_available : BOOLEAN, operating_state : STRING, quality : STRING]

WeatherParameters ==
    [plant_id : Identifiers, weather_station_id : Identifiers, timestamp : Times,
     ghi_wm2 : Numbers, dni_wm2 : Numbers, dhi_wm2 : Numbers, ambient_temperature_c : Numbers,
     module_temperature_c : Numbers, wind_speed_ms : Numbers, relative_humidity_pct : Numbers,
     quality : STRING]

GroundTruthParameters ==
    [ground_truth_id : Identifiers, plant_id : Identifiers, event_type : STRING,
     severity : STRING, started_at : Int, ended_at : Int, equipment_id : OrNone(Identifiers),
     expected_power_loss_pct : Numbers, expected_energy_loss_kwh : Numbers,
     description : OrNone(Texts)]

AlarmParameters ==
    [alarm_id : Identifiers, plant_id : Identifiers, equipment_id : Identifiers,
     alarm_code : Identifiers, alarm_name : Texts, category : STRING, severity : STRING,
     message : OrNone(Texts)]

IncidentParameters ==
    [incident_id : Identifiers, plant_id : Identifiers, equipment_id : Identifiers,
     incident_name : Texts, category : STRING, severity : STRING, description : OrNone(Texts),
     root_cause : OrNone(Texts), linked_alarm_id : OrNone(Identifiers)]

WorkOrderParameters ==
    [work_order_id : Identifiers, plant_id : Identifiers, equipment_id : Identifiers,
     work_order_name : Texts, work_order_type : STRING, priority : STRING,
     linked_incident_id : OrNone(Identifiers), assigned_team : OrNone(Texts),
     estimated_labor_hours : OrNone(Numbers), actual_labor_hours : OrNone(Numbers),
     estimated_cost : OrNone(Numbers), actual_cost : OrNone(Numbers),
     description : OrNone(Texts), completion_notes : OrNone(Texts)]

Parameters(table) ==
    CASE table = "plants" -> PlantParameters
      [] table = "equipment" -> EquipmentParameters
      [] table = "tariffs" -> TariffParameters
      [] table = "budgets" -> BudgetParameters
      [] table = "scada_observations" -> SCADAParameters
      [] table = "weather_observations" -> WeatherParameters
      [] table = "ground_truth_events" -> GroundTruthParameters
      [] table = "alarms" -> AlarmParameters
      [] table = "incidents" -> IncidentParameters
      [] table = "work_orders" -> WorkOrderParameters

ArgumentsFit ==
    /\ NaN \notin Int \cup {None} /\ None \notin Int \cup Texts \cup Identifiers
    /\ MaxDay \in Nat \ {0}
    /\ \A table \in Tables : \A r \in Arguments(table) : r \in Parameters(table)

\* A record that got past its constructor was accepted on the first day, and
\* what is stored was made from it.
RecordsInv ==
    /\ input.table \in Tables /\ input.record \in Parameters(input.table)
    /\ TypeOK /\ DOMAIN state = {"stage", "row", "today"}
    /\ state.stage \in {"new", "accepted"} => state.today = 1
    /\ state.stage \notin {"new", "refused"} => Accepted(input.table, input.record, 1)
    /\ state.stage \in {"stored", "read", "unreadable"} =>
           state.row = FromDomain(input.table, Normal(input.table, input.record))
    /\ AcceptedIsStored /\ StoredReadsBack
=============================================================================
