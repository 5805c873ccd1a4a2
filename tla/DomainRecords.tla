---------------------------- MODULE DomainRecords -----------------------------
(***************************************************************************)
(* The domain records of the platform.  For each of them                   *)
(*   ...Normal    what the domain model's constructor makes of its         *)
(*                arguments (synthetic/models),                            *)
(*   ...Fields    the columns that hold a field of the record,             *)
(*   ...Accepted  whether the constructor accepts them, on a given day,    *)
(*   ...Checks    the CHECK constraints (database/models), and             *)
(*   ...Columns   the column types of the migration that creates the table.*)
(*   ...Row       from_domain,                                             *)
(*   ...Read      to_domain, before the constructor judges what it gets.   *)
(***************************************************************************)
EXTENDS Integers

(***************************************************************************)
(* The values of domain records and table columns, as far as a validation  *)
(* rule or a column type tells them apart.                                 *)
(*                                                                         *)
(* Text: empty; blank (spaces only); padded (text with spaces around it);  *)
(* plain; short (fits, but is no well-formed code); long (longer than its  *)
(* column).  Identifier or code: good (the pattern of its model), lower    *)
(* (good once upper-cased), bad.  Number: an integer, Infinity or NaN.     *)
(***************************************************************************)
CONSTANTS None, NaN

Infinity == 1000

\* str.strip
Stripped(text) ==
    CASE text = "blank"  -> "empty"
      [] text = "padded" -> "plain"
      [] text \notin {"blank", "padded"} -> text

\* str.strip().upper() of an identifier or a code
Code(id) == IF id = "lower" THEN "good" ELSE id

\* The constructor strips the texts of a record and upper-cases its codes.
Normalized(r, codes, texts) ==
    [f \in DOMAIN r |-> IF r[f] = None THEN None
                        ELSE IF f \in codes THEN Code(r[f])
                        ELSE IF f \in texts THEN Stripped(r[f]) ELSE r[f]]

\* Python compares false with NaN; PostgreSQL sorts it above every number.
PyAtMost(a, b)  == a # NaN /\ b # NaN /\ a <= b
PyAbove(a, b)   == a # NaN /\ b # NaN /\ a > b
SqlAtMost(a, b) == b = NaN \/ (a # NaN /\ b # NaN /\ a <= b)
SqlAbove(a, b)  == ~SqlAtMost(a, b)

\* math.isfinite, and at least minimum
FiniteFrom(minimum, x) == x \notin {NaN, Infinity} /\ PyAtMost(minimum, x)

\* from_domain, to_domain: the named fields, one by one.
Copied(fields, x) == [f \in fields |-> x[f]]

\* A VARCHAR column takes what is not longer than the column.
FitsColumn(text) == text # "long"

-----------------------------------------------------------------------------
(***************************************************************************)
(* The asset registry: plants, equipment, tariffs and budgets.             *)
(***************************************************************************)

PlantStatus == {"operational", "planned_outage", "decommissioned"}

EquipmentType == {"string_inverter", "central_inverter", "transformer", "feeder",
                  "weather_station", "revenue_meter", "protection_relay"}

EquipmentStatus == {"operational", "planned_outage", "forced_outage", "maintenance",
                    "decommissioned"}

TariffType == {"fixed", "time_of_use", "feed_in", "power_purchase_agreement", "merchant"}

TariffStatus == {"draft", "active", "expired", "cancelled"}

BudgetCategory == {"operations", "maintenance", "capex", "opex", "other"}

BudgetStatus == {"draft", "approved", "closed"}

-----------------------------------------------------------------------------
PlantNormal(p) ==
    Normalized(p, {"plant_id"}, {"plant_name", "region", "timezone_name"})

PlantAccepted(p, today) ==
    LET n == PlantNormal(p) IN
    /\ n.plant_id = "good"
    /\ \A f \in {"plant_name", "region", "timezone_name"} : n[f] # "empty"
    /\ PyAtMost(-90, p.latitude) /\ PyAtMost(p.latitude, 90)
    /\ PyAtMost(-180, p.longitude) /\ PyAtMost(p.longitude, 180)
    /\ ~PyAtMost(p.dc_capacity_mw, 0) /\ ~PyAtMost(p.ac_capacity_mw, 0)
    /\ ~PyAbove(p.ac_capacity_mw, p.dc_capacity_mw)
    /\ p.commissioning_date <= today
    /\ p.status \in PlantStatus

PlantFields ==
    {"plant_id", "plant_name", "region", "latitude", "longitude",
     "dc_capacity_mw", "ac_capacity_mw", "commissioning_date", "status",
     "timezone_name"}

PlantRow(r) == Copied(PlantFields, r)

PlantRead(row) == Copied(PlantFields, row)

PlantChecks(row) ==
    /\ SqlAtMost(-90, row.latitude) /\ SqlAtMost(row.latitude, 90)
    /\ SqlAtMost(-180, row.longitude) /\ SqlAtMost(row.longitude, 180)
    /\ SqlAbove(row.dc_capacity_mw, 0) /\ SqlAbove(row.ac_capacity_mw, 0)
    /\ SqlAtMost(row.ac_capacity_mw, row.dc_capacity_mw)
    /\ row.status \in PlantStatus

PlantColumns(row) == \A f \in {"plant_name", "region", "timezone_name"} : FitsColumn(row[f])

-----------------------------------------------------------------------------
EquipmentNormal(e) ==
    Normalized(e, {"equipment_id", "plant_id", "parent_equipment_id"},
                  {"equipment_name", "manufacturer", "model_number", "serial_number"})

\* "self" is the equipment's own identifier as its parent.
EquipmentAccepted(e, today) ==
    LET n == EquipmentNormal(e) IN
    /\ n.equipment_id = "good" /\ n.plant_id = "good"
    /\ \A f \in {"equipment_name", "manufacturer", "model_number", "serial_number"} :
           n[f] # "empty"
    /\ e.equipment_type \in EquipmentType
    /\ e.commissioning_date <= today
    /\ e.rated_power_kw = None \/ PyAbove(e.rated_power_kw, 0)
    /\ n.parent_equipment_id \in {None, "good"}
    /\ e.status \in EquipmentStatus

EquipmentFields ==
    {"equipment_id", "plant_id", "equipment_name", "equipment_type",
     "manufacturer", "model_number", "serial_number", "commissioning_date",
     "rated_power_kw", "parent_equipment_id", "status"}

EquipmentRow(r) == Copied(EquipmentFields, r)

EquipmentRead(row) == Copied(EquipmentFields, row)

EquipmentChecks(row) ==
    /\ row.rated_power_kw = None \/ SqlAbove(row.rated_power_kw, 0)
    /\ row.parent_equipment_id # "self"
    /\ row.equipment_type \in EquipmentType
    /\ row.status \in EquipmentStatus

EquipmentColumns(row) ==
    \A f \in {"equipment_name", "manufacturer", "model_number", "serial_number"} :
        FitsColumn(row[f])

-----------------------------------------------------------------------------
TariffNormal(t) ==
    Normalized(t, {"tariff_id", "plant_id", "currency_code"},
                  {"tariff_name", "contract_reference", "notes"})

TariffTextsAccepted(n) ==
    /\ n.tariff_id = "good" /\ n.plant_id = "good" /\ n.currency_code = "good"
    /\ \A f \in {"tariff_name", "contract_reference", "notes"} : n[f] \notin {"empty", "long"}

\* An active tariff must be in force on the day the constructor runs.
TariffDatesAccepted(t, today) ==
    /\ t.effective_to # None => t.effective_to >= t.effective_from
    /\ t.status = "expired" => t.effective_to # None
    /\ t.status = "active" =>
           /\ t.effective_from <= today
           /\ t.effective_to # None => t.effective_to >= today

TariffNumbersAccepted(t) ==
    /\ FiniteFrom(0, t.energy_rate_per_kwh)
    /\ t.demand_rate_per_kw = None \/ FiniteFrom(0, t.demand_rate_per_kw)
    /\ FiniteFrom(0, t.escalation_rate_pct) /\ t.escalation_rate_pct <= 100

TariffAccepted(t, today) ==
    /\ TariffTextsAccepted(TariffNormal(t))
    /\ t.tariff_type \in TariffType /\ t.status \in TariffStatus
    /\ TariffDatesAccepted(t, today)
    /\ TariffNumbersAccepted(t)

TariffFields ==
    {"tariff_id", "plant_id", "tariff_name", "tariff_type", "currency_code",
     "energy_rate_per_kwh", "effective_from", "effective_to",
     "demand_rate_per_kw", "escalation_rate_pct", "status",
     "contract_reference", "notes"}

\* Mutant: from_domain leaves the notes out.
TariffRowWithoutNotes(r) == [Copied(TariffFields, r) EXCEPT !.notes = None]

TariffRow(r) == Copied(TariffFields, r)

TariffRead(row) == Copied(TariffFields, row)

TariffChecks(row) ==
    /\ row.tariff_type \in TariffType /\ row.status \in TariffStatus
    /\ SqlAtMost(0, row.energy_rate_per_kwh)
    /\ row.demand_rate_per_kw = None \/ SqlAtMost(0, row.demand_rate_per_kw)
    /\ SqlAtMost(0, row.escalation_rate_pct) /\ SqlAtMost(row.escalation_rate_pct, 100)
    /\ row.effective_to = None \/ row.effective_to >= row.effective_from
    /\ row.status # "expired" \/ row.effective_to # None

TariffColumns(row) ==
    /\ FitsColumn(row.tariff_name) /\ FitsColumn(row.currency_code)
    /\ FitsColumn(row.contract_reference) /\ FitsColumn(row.notes)

\* is_current of the stored row
RowIsCurrent(row, today) ==
    /\ row.status = "active" /\ row.effective_from <= today
    /\ row.effective_to = None \/ today <= row.effective_to

-----------------------------------------------------------------------------
BudgetNormal(b) ==
    Normalized(b, {"budget_id", "plant_id", "currency_code"}, {"budget_name"})

\* Mutant: the amount spent is not compared with the amount allocated.
BudgetAcceptedOverspent(b, today) ==
    LET n == BudgetNormal(b) IN
    /\ n.budget_id = "good" /\ n.plant_id = "good" /\ n.budget_name # "empty"
    /\ b.category \in BudgetCategory /\ b.status \in BudgetStatus
    /\ b.fiscal_year \in 2000..2100
    /\ FiniteFrom(0, b.allocated_amount) /\ FiniteFrom(0, b.spent_amount)
    /\ b.status = "approved" => b.approved_on # None

\* The currency is not looked at.
BudgetAccepted(b, today) ==
    LET n == BudgetNormal(b) IN
    /\ n.budget_id = "good" /\ n.plant_id = "good" /\ n.budget_name # "empty"
    /\ b.category \in BudgetCategory /\ b.status \in BudgetStatus
    /\ b.fiscal_year \in 2000..2100
    /\ FiniteFrom(0, b.allocated_amount) /\ FiniteFrom(0, b.spent_amount)
    /\ b.spent_amount <= b.allocated_amount
    /\ b.status = "approved" => b.approved_on # None

BudgetFields ==
    {"budget_id", "plant_id", "budget_name", "category", "fiscal_year",
     "allocated_amount", "spent_amount", "currency_code", "approved_on",
     "status"}

BudgetRow(r) == Copied(BudgetFields, r)

BudgetRead(row) == Copied(BudgetFields, row)

BudgetChecks(row) ==
    /\ row.category \in BudgetCategory /\ row.status \in BudgetStatus
    /\ row.fiscal_year >= 2000 /\ row.fiscal_year <= 2100
    /\ SqlAtMost(0, row.allocated_amount) /\ SqlAtMost(0, row.spent_amount)
    /\ SqlAtMost(row.spent_amount, row.allocated_amount)
    /\ row.status # "approved" \/ row.approved_on # None

BudgetColumns(row) == FitsColumn(row.budget_name) /\ FitsColumn(row.currency_code)

-----------------------------------------------------------------------------
(***************************************************************************)
(* The records of what is measured and what was injected: SCADA and        *)
(* weather observations and ground-truth events.                           *)
(* Of a timestamp it matters whether it has a time zone and *)
(* lies on the 15-minute grid: "grid", "between" or "naive".               *)
(***************************************************************************)

SCADAOperatingState == {"normal", "derated", "stopped", "fault", "maintenance", "night"}

Quality == {"valid", "estimated", "missing"}

GroundTruthEventType == {"equipment_failure", "performance_degradation", "grid_outage",
    "communication_loss", "sensor_fault", "curtailment", "soiling", "maintenance"}

GroundTruthSeverity == {"low", "moderate", "high", "critical"}

NonGenerating == {"stopped", "fault", "maintenance", "night"}

\* The measurements with their ranges, the large ones in thousands (SCADA) and
\* tens (irradiance) of their unit.
SCADARange ==
    [active_power_kw |-> <<0, 50>>, interval_energy_kwh |-> <<0, 12>>,
     dc_voltage_v |-> <<0, 2>>, dc_current_a |-> <<0, 10>>, ac_voltage_v |-> <<0, 50>>,
     ac_current_a |-> <<0, 10>>, frequency_hz |-> <<0, 70>>, power_factor |-> <<-1, 1>>]

WeatherRange ==
    [ghi_wm2 |-> <<0, 150>>, dni_wm2 |-> <<0, 150>>, dhi_wm2 |-> <<0, 150>>,
     ambient_temperature_c |-> <<-40, 70>>, module_temperature_c |-> <<-40, 120>>,
     wind_speed_ms |-> <<0, 70>>, relative_humidity_pct |-> <<0, 100>>]

-----------------------------------------------------------------------------
Idle(r) == ~PyAbove(r.active_power_kw, 0) /\ ~PyAbove(r.interval_energy_kwh, 0)

SCADANormal(r) ==
    Normalized(r, {"plant_id", "equipment_id"}, {})

SCADAMeasured(r) ==
    \A f \in DOMAIN SCADARange :
        /\ r[f] \notin {NaN, Infinity}
        /\ PyAtMost(SCADARange[f][1], r[f]) /\ PyAtMost(r[f], SCADARange[f][2])

\* What the plant's state allows: no generation without the equipment, the
\* grid or a generating state.
SCADAConsistent(r) ==
    /\ ~r.equipment_available => Idle(r)
    /\ ~r.grid_available => Idle(r)
    /\ r.operating_state \in NonGenerating => Idle(r)
    /\ r.operating_state = "normal" => r.equipment_available /\ r.grid_available

SCADAAccepted(r, today) ==
    /\ SCADANormal(r).plant_id = "good" /\ SCADANormal(r).equipment_id = "good"
    /\ r.timestamp = "grid"
    /\ SCADAMeasured(r)
    /\ r.operating_state \in SCADAOperatingState /\ r.quality \in Quality
    /\ SCADAConsistent(r)

SCADAFields ==
    {"plant_id", "equipment_id", "timestamp", "active_power_kw",
     "interval_energy_kwh", "dc_voltage_v", "dc_current_a", "ac_voltage_v",
     "ac_current_a", "frequency_hz", "power_factor", "equipment_available",
     "grid_available", "operating_state", "quality"}

SCADARow(r) == Copied(SCADAFields, r)

SCADARead(row) == Copied(SCADAFields, row)

SCADAChecks(row) ==
    /\ \A f \in DOMAIN SCADARange :
           SqlAtMost(SCADARange[f][1], row[f]) /\ SqlAtMost(row[f], SCADARange[f][2])
    /\ row.operating_state \in SCADAOperatingState /\ row.quality \in Quality
    /\ LET silent == row.active_power_kw = 0 /\ row.interval_energy_kwh = 0 IN
       /\ row.equipment_available \/ silent
       /\ row.grid_available \/ silent
       /\ row.operating_state \notin NonGenerating \/ silent
    /\ \/ row.operating_state # "normal"
       \/ row.equipment_available /\ row.grid_available
    /\ row.timestamp # "between"

-----------------------------------------------------------------------------
WeatherNormal(r) ==
    Normalized(r, {"plant_id", "weather_station_id"}, {})

\* No grid: any time with a time zone will do.
WeatherAccepted(r, today) ==
    /\ WeatherNormal(r).plant_id = "good" /\ WeatherNormal(r).weather_station_id = "good"
    /\ r.timestamp # "naive"
    /\ \A f \in DOMAIN WeatherRange :
           PyAtMost(WeatherRange[f][1], r[f]) /\ PyAtMost(r[f], WeatherRange[f][2])
    /\ r.quality \in Quality

WeatherFields ==
    {"plant_id", "weather_station_id", "timestamp", "ghi_wm2", "dni_wm2",
     "dhi_wm2", "ambient_temperature_c", "module_temperature_c",
     "wind_speed_ms", "relative_humidity_pct", "quality"}

WeatherRow(r) == Copied(WeatherFields, r)

WeatherRead(row) == Copied(WeatherFields, row)

WeatherChecks(row) ==
    /\ \A f \in DOMAIN WeatherRange :
           SqlAtMost(WeatherRange[f][1], row[f]) /\ SqlAtMost(row[f], WeatherRange[f][2])
    /\ row.quality \in Quality

-----------------------------------------------------------------------------
GroundTruthNormal(e) ==
    Normalized(e, {"ground_truth_id", "plant_id", "equipment_id"}, {"description"})

\* started_at and ended_at are points in time here, with their time zones.
GroundTruthAccepted(e, today) ==
    LET n == GroundTruthNormal(e) IN
    /\ n.ground_truth_id = "good" /\ n.plant_id = "good" /\ n.equipment_id \in {None, "good"}
    /\ e.event_type \in GroundTruthEventType /\ e.severity \in GroundTruthSeverity
    /\ e.ended_at > e.started_at
    /\ FiniteFrom(0, e.expected_power_loss_pct) /\ e.expected_power_loss_pct <= 100
    /\ FiniteFrom(0, e.expected_energy_loss_kwh)
    /\ n.description \notin {"empty", "long"}

GroundTruthFields ==
    {"ground_truth_id", "plant_id", "event_type", "severity", "started_at",
     "ended_at", "equipment_id", "expected_power_loss_pct",
     "expected_energy_loss_kwh", "description"}

GroundTruthRow(r) == Copied(GroundTruthFields, r)

GroundTruthRead(row) == Copied(GroundTruthFields, row)

GroundTruthChecks(row) ==
    /\ row.event_type \in GroundTruthEventType /\ row.severity \in GroundTruthSeverity
    /\ row.ended_at > row.started_at
    /\ SqlAtMost(0, row.expected_power_loss_pct) /\ SqlAtMost(row.expected_power_loss_pct, 100)
    /\ SqlAtMost(0, row.expected_energy_loss_kwh)

GroundTruthColumns(row) == FitsColumn(row.description)

-----------------------------------------------------------------------------
(***************************************************************************)
(* Alarms, incidents and work orders as records: their texts, links and    *)
(* quantities.  (Their lifecycle columns are                               *)
(* in AlarmRecords, IncidentRecords and WorkOrderRecords.)                 *)
(***************************************************************************)

AlarmCategory == {"equipment", "grid", "communication", "environmental", "performance",
                  "safety"}

AlarmSeverity == {"informational", "warning", "major", "critical"}

IncidentCategory == {"equipment_failure", "grid_event", "communication_failure",
                     "performance_degradation", "environmental_event", "safety_event",
                     "planned_maintenance"}

IncidentSeverity == {"low", "moderate", "high", "critical"}

WorkOrderType == {"corrective", "preventive", "predictive", "inspection", "emergency"}

WorkOrderPriority == {"low", "medium", "high", "critical"}

\* An optional text: absent, or neither empty nor longer than its column.
OptionalText(text) == text \notin {"empty", "long"}

RequiredText(text) == text # None /\ OptionalText(text)

-----------------------------------------------------------------------------
AlarmNormal(a) ==
    Normalized(a, {"alarm_id", "plant_id", "equipment_id", "alarm_code"},
                  {"alarm_name", "message"})

AlarmAccepted(a, today) ==
    LET n == AlarmNormal(a) IN
    /\ \A f \in {"alarm_id", "plant_id", "equipment_id", "alarm_code"} : n[f] = "good"
    /\ RequiredText(n.alarm_name) /\ OptionalText(n.message)
    /\ a.category \in AlarmCategory /\ a.severity \in AlarmSeverity

AlarmFields ==
    {"alarm_id", "plant_id", "equipment_id", "alarm_code", "alarm_name",
     "category", "severity", "message"}

AlarmRow(r) == Copied(AlarmFields, r)

AlarmRead(row) == Copied(AlarmFields, row)

AlarmChecks(row) == row.category \in AlarmCategory /\ row.severity \in AlarmSeverity

AlarmColumns(row) == \A f \in {"alarm_code", "alarm_name", "message"} : FitsColumn(row[f])

-----------------------------------------------------------------------------
IncidentNormal(i) ==
    Normalized(i, {"incident_id", "plant_id", "equipment_id", "linked_alarm_id"},
                  {"incident_name", "description", "root_cause"})

IncidentAccepted(i, today) ==
    LET n == IncidentNormal(i) IN
    /\ \A f \in {"incident_id", "plant_id", "equipment_id"} : n[f] = "good"
    /\ n.linked_alarm_id \in {None, "good"}
    /\ RequiredText(n.incident_name)
    /\ OptionalText(n.description) /\ OptionalText(n.root_cause)
    /\ i.category \in IncidentCategory /\ i.severity \in IncidentSeverity

IncidentFields ==
    {"incident_id", "plant_id", "equipment_id", "incident_name", "category",
     "severity", "description", "root_cause", "linked_alarm_id"}

IncidentRow(r) == Copied(IncidentFields, r)

IncidentRead(row) == Copied(IncidentFields, row)

IncidentChecks(row) == row.category \in IncidentCategory /\ row.severity \in IncidentSeverity

IncidentColumns(row) ==
    \A f \in {"incident_name", "description", "root_cause"} : FitsColumn(row[f])

-----------------------------------------------------------------------------
WorkOrderNormal(w) ==
    Normalized(w, {"work_order_id", "plant_id", "equipment_id", "linked_incident_id"},
                  {"work_order_name", "assigned_team", "description", "completion_notes"})

WorkOrderTextsAccepted(n) ==
    /\ \A f \in {"work_order_id", "plant_id", "equipment_id"} : n[f] = "good"
    /\ n.linked_incident_id \in {None, "good"}
    /\ RequiredText(n.work_order_name)
    /\ \A f \in {"assigned_team", "description", "completion_notes"} : OptionalText(n[f])

WorkOrderNumbersAccepted(w) ==
    \A f \in {"estimated_labor_hours", "actual_labor_hours", "estimated_cost", "actual_cost"} :
        w[f] = None \/ FiniteFrom(0, w[f])

WorkOrderAccepted(w, today) ==
    /\ WorkOrderTextsAccepted(WorkOrderNormal(w))
    /\ w.work_order_type \in WorkOrderType /\ w.priority \in WorkOrderPriority
    /\ WorkOrderNumbersAccepted(w)

WorkOrderFields ==
    {"work_order_id", "plant_id", "equipment_id", "work_order_name",
     "work_order_type", "priority", "linked_incident_id", "assigned_team",
     "estimated_labor_hours", "actual_labor_hours", "estimated_cost",
     "actual_cost", "description", "completion_notes"}

WorkOrderRow(r) == Copied(WorkOrderFields, r)

WorkOrderRead(row) == Copied(WorkOrderFields, row)

WorkOrderChecks(row) ==
    /\ row.work_order_type \in WorkOrderType /\ row.priority \in WorkOrderPriority
    /\ \A f \in {"estimated_labor_hours", "actual_labor_hours", "estimated_cost", "actual_cost"} :
           row[f] = None \/ SqlAtMost(0, row[f])

WorkOrderColumns(row) ==
    \A f \in {"work_order_name", "assigned_team", "description", "completion_notes"} :
        FitsColumn(row[f])
===============================================================================
