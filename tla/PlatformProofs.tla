---------------------------- MODULE PlatformProofs ----------------------------
(***************************************************************************)
(* What is proved of the platform, as theorems of the specification:       *)
(* whichever subject a behaviour is about, the variables of that subject   *)
(* satisfy its invariant.  The proofs about most of the subjects are those *)
(* of PlatformDataProofs; here are those about records, about the          *)
(* measurements that are judged as records, about the reports on two       *)
(* generations and about retried calls.                                    *)
(***************************************************************************)
EXTENDS PlatformDataProofs, Platform

-----------------------------------------------------------------------------
(* Records between domain model and table: for each of the ten, what its   *)
(* constructor accepts on a day, it accepts again as it was normalised, on *)
(* that day and any later one, and the table takes it.                     *)

\* Codes and texts are normalised once and for all.
LEMMA CodeFacts ==
    /\ \A x : /\ Records!Code(Records!Code(x)) = Records!Code(x)
              /\ Records!Code(x) = "good" \/ Records!Code(x) = x
    /\ \A x : x # None => Records!Code(x) # None
BY RecordsConstants DEF Records!Code, Records!ArgumentsFit, Records!Identifiers

\* Stripping keeps what is too long.
LEMMA StrippedFacts ==
    \A x \in Records!Texts :
        /\ Records!Stripped(x) \in Records!Texts
        /\ Records!Stripped(Records!Stripped(x)) = Records!Stripped(x)
        /\ Records!Stripped(x) = "long" <=> x = "long"
BY DEF Records!Texts, Records!Stripped

\* What normalisation does to a record; doing it twice changes nothing more.
LEMMA NormalizedFacts ==
    ASSUME NEW r, NEW codes, NEW texts,
           \A f \in texts \cap DOMAIN r : r[f] \in Records!OrNone(Records!Texts)
    PROVE  LET n == Records!Normalized(r, codes, texts) IN
           /\ DOMAIN n = DOMAIN r
           /\ Records!Copied(DOMAIN r, n) = n
           /\ Records!Normalized(n, codes, texts) = n
           /\ \A f \in DOMAIN r :
                  n[f] = IF r[f] = None THEN None
                         ELSE IF f \in codes THEN Records!Code(r[f])
                         ELSE IF f \in texts THEN Records!Stripped(r[f]) ELSE r[f]
<1> DEFINE n == Records!Normalized(r, codes, texts)
           m == Records!Normalized(n, codes, texts)
<1>1. /\ n = [f \in DOMAIN r |-> n[f]] /\ DOMAIN n = DOMAIN r
      /\ m = [f \in DOMAIN r |-> m[f]] /\ DOMAIN m = DOMAIN r
  BY DEF Records!Normalized
<1>2. \A f \in DOMAIN r :
        /\ n[f] = IF r[f] = None THEN None
                  ELSE IF f \in codes THEN Records!Code(r[f])
                  ELSE IF f \in texts THEN Records!Stripped(r[f]) ELSE r[f]
        /\ m[f] = IF n[f] = None THEN None
                  ELSE IF f \in codes THEN Records!Code(n[f])
                  ELSE IF f \in texts THEN Records!Stripped(n[f]) ELSE n[f]
  BY <1>1 DEF Records!Normalized
<1> HIDE DEF n, m
<1>3. \A f \in DOMAIN r : m[f] = n[f]
  <2> SUFFICES ASSUME NEW f \in DOMAIN r PROVE m[f] = n[f]
    OBVIOUS
  <2>1. CASE r[f] = None
    BY <1>2, <2>1
  <2>2. CASE r[f] # None /\ f \in codes
    BY <1>2, <2>2, CodeFacts
  <2>3. CASE r[f] # None /\ f \notin codes /\ f \in texts
    <3>1. r[f] \in Records!Texts
      BY <2>3 DEF Records!OrNone
    <3> QED
      BY <1>2, <2>3, <3>1, StrippedFacts
  <2>4. CASE r[f] # None /\ f \notin codes /\ f \notin texts
    BY <1>2, <2>4
  <2> QED
    BY <2>1, <2>2, <2>3, <2>4
<1>4. m = n /\ Records!Copied(DOMAIN r, n) = n
  BY <1>1, <1>3 DEF Records!Copied
<1>5. QED
  BY <1>1, <1>2, <1>4 DEF n, m

\* Plants.
LEMMA PlantAgrees ==
    ASSUME NEW r \in Records!PlantParameters, NEW day \in Int,
           Records!PlantAccepted(r, day)
    PROVE  LET n == Records!PlantNormal(r) IN
           /\ DOMAIN n = DOMAIN r /\ Records!PlantRow(n) = n /\ Records!PlantRead(n) = n
           /\ \A later \in Int : day <= later => Records!PlantAccepted(n, later)
           /\ Records!PlantColumns(r) /\ r.ac_capacity_mw # NaN =>
                  Records!PlantChecks(n) /\ Records!PlantColumns(n)
<1> DEFINE n == Records!PlantNormal(r)
           texts == {"plant_name", "region", "timezone_name"}
           codes == {"plant_id"}
<1>1. /\ DOMAIN r = Records!PlantFields
      /\ \A f \in texts : r[f] \in Records!OrNone(Records!Texts)
  BY DEF Records!PlantParameters, Records!PlantFields, Records!OrNone
<1>2. n = Records!Normalized(r, codes, texts)
  BY DEF Records!PlantNormal
<1>3. Records!PlantNormal(n) = Records!Normalized(n, codes, texts)
  BY DEF Records!PlantNormal
<1>4. /\ DOMAIN n = Records!PlantFields /\ Records!Copied(Records!PlantFields, n) = n
      /\ Records!PlantNormal(n) = n
      /\ \A f \in Records!PlantFields :
             n[f] = IF r[f] = None THEN None
                    ELSE IF f \in codes THEN Records!Code(r[f])
                    ELSE IF f \in texts THEN Records!Stripped(r[f]) ELSE r[f]
  BY <1>1, <1>2, <1>3, NormalizedFacts
<1> HIDE DEF n
<1>5. DOMAIN n = DOMAIN r /\ Records!PlantRow(n) = n /\ Records!PlantRead(n) = n
  BY <1>1, <1>4 DEF Records!PlantRow, Records!PlantRead
<1>6. /\ n.plant_id = Records!Code(r.plant_id)
      /\ n.plant_name = Records!Stripped(r.plant_name)
      /\ n.region = Records!Stripped(r.region)
      /\ n.latitude = r.latitude
      /\ n.longitude = r.longitude
      /\ n.dc_capacity_mw = r.dc_capacity_mw
      /\ n.ac_capacity_mw = r.ac_capacity_mw
      /\ n.commissioning_date = r.commissioning_date
      /\ n.status = r.status
      /\ n.timezone_name = Records!Stripped(r.timezone_name)
  BY <1>4, RecordsConstants
     DEF Records!PlantParameters, Records!PlantFields, Records!ArgumentsFit,
         Records!Identifiers, Records!Texts, Records!OrNone, Records!Numbers, Records!Times
<1>7. Records!PlantAccepted(r, day)
  OBVIOUS
<1>8. \A later \in Int : day <= later => Records!PlantAccepted(n, later)
  BY <1>4, <1>6, <1>7, RecordsConstants
     DEF n, Records!ArgumentsFit, Records!PlantParameters, Records!PlantAccepted,
         Records!Identifiers, Records!Texts, Records!FitsColumn, Records!PyAtMost,
         Records!PyAbove, Records!SqlAtMost, Records!SqlAbove, Records!Numbers,
         Records!Infinity, Records!FiniteFrom, Records!OrNone
<1>9. Records!PlantColumns(r) /\ r.ac_capacity_mw # NaN =>
          Records!PlantChecks(n) /\ Records!PlantColumns(n)
  BY <1>4, <1>6, <1>7, StrippedFacts, CodeFacts, RecordsConstants
     DEF n, Records!ArgumentsFit, Records!PlantParameters, Records!PlantAccepted,
         Records!PlantChecks, Records!PlantColumns, Records!Identifiers, Records!Texts,
         Records!FitsColumn, Records!PyAtMost, Records!PyAbove, Records!SqlAtMost,
         Records!SqlAbove, Records!Numbers, Records!Infinity, Records!FiniteFrom, Records!OrNone
<1>10. QED
  BY <1>5, <1>8, <1>9 DEF n

\* Equipment.
LEMMA EquipmentAgrees ==
    ASSUME NEW r \in Records!EquipmentParameters, NEW day \in Int,
           Records!EquipmentAccepted(r, day)
    PROVE  LET n == Records!EquipmentNormal(r) IN
           /\ DOMAIN n = DOMAIN r /\ Records!EquipmentRow(n) = n /\ Records!EquipmentRead(n) = n
           /\ \A later \in Int : day <= later => Records!EquipmentAccepted(n, later)
           /\ Records!EquipmentColumns(r) =>
                  Records!EquipmentChecks(n) /\ Records!EquipmentColumns(n)
<1> DEFINE n == Records!EquipmentNormal(r)
           texts == {"equipment_name", "manufacturer", "model_number", "serial_number"}
           codes == {"equipment_id", "plant_id", "parent_equipment_id"}
<1>1. /\ DOMAIN r = Records!EquipmentFields
      /\ \A f \in texts : r[f] \in Records!OrNone(Records!Texts)
  BY DEF Records!EquipmentParameters, Records!EquipmentFields, Records!OrNone
<1>2. n = Records!Normalized(r, codes, texts)
  BY DEF Records!EquipmentNormal
<1>3. Records!EquipmentNormal(n) = Records!Normalized(n, codes, texts)
  BY DEF Records!EquipmentNormal
<1>4. /\ DOMAIN n = Records!EquipmentFields /\ Records!Copied(Records!EquipmentFields, n) = n
      /\ Records!EquipmentNormal(n) = n
      /\ \A f \in Records!EquipmentFields :
             n[f] = IF r[f] = None THEN None
                    ELSE IF f \in codes THEN Records!Code(r[f])
                    ELSE IF f \in texts THEN Records!Stripped(r[f]) ELSE r[f]
  BY <1>1, <1>2, <1>3, NormalizedFacts
<1> HIDE DEF n
<1>5. DOMAIN n = DOMAIN r /\ Records!EquipmentRow(n) = n /\ Records!EquipmentRead(n) = n
  BY <1>1, <1>4 DEF Records!EquipmentRow, Records!EquipmentRead
<1>6. /\ n.equipment_id = Records!Code(r.equipment_id)
      /\ n.plant_id = Records!Code(r.plant_id)
      /\ n.equipment_name = Records!Stripped(r.equipment_name)
      /\ n.equipment_type = r.equipment_type
      /\ n.manufacturer = Records!Stripped(r.manufacturer)
      /\ n.model_number = Records!Stripped(r.model_number)
      /\ n.serial_number = Records!Stripped(r.serial_number)
      /\ n.commissioning_date = r.commissioning_date
      /\ n.rated_power_kw = r.rated_power_kw
      /\ n.parent_equipment_id = IF r.parent_equipment_id = None THEN None
                                 ELSE Records!Code(r.parent_equipment_id)
      /\ n.status = r.status
  BY <1>4, RecordsConstants
     DEF Records!EquipmentParameters, Records!EquipmentFields, Records!ArgumentsFit,
         Records!Identifiers, Records!Texts, Records!OrNone, Records!Numbers, Records!Times
<1>7. Records!EquipmentAccepted(r, day)
  OBVIOUS
<1>8. \A later \in Int : day <= later => Records!EquipmentAccepted(n, later)
  BY <1>4, <1>6, <1>7, RecordsConstants
     DEF n, Records!ArgumentsFit, Records!EquipmentParameters, Records!EquipmentAccepted,
         Records!Identifiers, Records!Texts, Records!FitsColumn, Records!PyAtMost,
         Records!PyAbove, Records!SqlAtMost, Records!SqlAbove, Records!Numbers,
         Records!Infinity, Records!FiniteFrom, Records!OrNone
<1>9. Records!EquipmentColumns(r) => Records!EquipmentChecks(n) /\ Records!EquipmentColumns(n)
  BY <1>4, <1>6, <1>7, StrippedFacts, CodeFacts, RecordsConstants
     DEF n, Records!ArgumentsFit, Records!EquipmentParameters, Records!EquipmentAccepted,
         Records!EquipmentChecks, Records!EquipmentColumns, Records!Identifiers, Records!Texts,
         Records!FitsColumn, Records!PyAtMost, Records!PyAbove, Records!SqlAtMost,
         Records!SqlAbove, Records!Numbers, Records!Infinity, Records!FiniteFrom, Records!OrNone
<1>10. QED
  BY <1>5, <1>8, <1>9 DEF n

\* Tariffs, of which the active ones must be in force on the day.
LEMMA TariffAgrees ==
    ASSUME NEW r \in Records!TariffParameters, NEW day \in Int,
           Records!TariffAccepted(r, day)
    PROVE  LET n == Records!TariffNormal(r) IN
           /\ DOMAIN n = DOMAIN r /\ Records!TariffRow(n) = n /\ Records!TariffRead(n) = n
           /\ \A later \in Int : day <= later =>
                  \/ Records!TariffAccepted(n, later)
                  \/ n.status = "active" /\ ~Records!RowIsCurrent(n, later)
           /\ Records!TariffChecks(n) /\ Records!TariffColumns(n)
<1> DEFINE n == Records!TariffNormal(r)
           texts == {"tariff_name", "contract_reference", "notes"}
           codes == {"tariff_id", "plant_id", "currency_code"}
<1>1. /\ DOMAIN r = Records!TariffFields
      /\ \A f \in texts : r[f] \in Records!OrNone(Records!Texts)
  BY DEF Records!TariffParameters, Records!TariffFields, Records!OrNone
<1>2. n = Records!Normalized(r, codes, texts)
  BY DEF Records!TariffNormal
<1>3. Records!TariffNormal(n) = Records!Normalized(n, codes, texts)
  BY DEF Records!TariffNormal
<1>4. /\ DOMAIN n = Records!TariffFields /\ Records!Copied(Records!TariffFields, n) = n
      /\ Records!TariffNormal(n) = n
      /\ \A f \in Records!TariffFields :
             n[f] = IF r[f] = None THEN None
                    ELSE IF f \in codes THEN Records!Code(r[f])
                    ELSE IF f \in texts THEN Records!Stripped(r[f]) ELSE r[f]
  BY <1>1, <1>2, <1>3, NormalizedFacts
<1> HIDE DEF n
<1>5. DOMAIN n = DOMAIN r /\ Records!TariffRow(n) = n /\ Records!TariffRead(n) = n
  BY <1>1, <1>4 DEF Records!TariffRow, Records!TariffRead
<1>6. /\ n.tariff_id = Records!Code(r.tariff_id)
      /\ n.plant_id = Records!Code(r.plant_id)
      /\ n.tariff_name = Records!Stripped(r.tariff_name)
      /\ n.tariff_type = r.tariff_type
      /\ n.currency_code = Records!Code(r.currency_code)
      /\ n.energy_rate_per_kwh = r.energy_rate_per_kwh
      /\ n.effective_from = r.effective_from
      /\ n.effective_to = r.effective_to
      /\ n.demand_rate_per_kw = r.demand_rate_per_kw
      /\ n.escalation_rate_pct = r.escalation_rate_pct
      /\ n.status = r.status
      /\ n.contract_reference = IF r.contract_reference = None THEN None
                                ELSE Records!Stripped(r.contract_reference)
      /\ n.notes = IF r.notes = None THEN None ELSE Records!Stripped(r.notes)
  BY <1>4, RecordsConstants
     DEF Records!TariffParameters, Records!TariffFields, Records!ArgumentsFit,
         Records!Identifiers, Records!Texts, Records!OrNone, Records!Numbers, Records!Times
<1>7. Records!TariffAccepted(r, day)
  OBVIOUS
<1>8. ASSUME NEW later \in Int, day <= later, Records!RowIsCurrent(n, later) \/ n.status # "active"
      PROVE  Records!TariffAccepted(n, later)
  <2>1. Records!TariffTextsAccepted(Records!TariffNormal(n))
    BY <1>4, <1>7 DEF Records!TariffAccepted, n
  <2>2. n.tariff_type \in Records!TariffType /\ n.status \in Records!TariffStatus
    BY <1>6, <1>7 DEF Records!TariffAccepted
  <2>3. Records!TariffDatesAccepted(n, later)
    BY <1>6, <1>7, <1>8, RecordsConstants
       DEF Records!TariffAccepted, Records!TariffDatesAccepted, Records!RowIsCurrent,
           Records!TariffParameters, Records!OrNone, Records!ArgumentsFit
  <2>4. Records!TariffNumbersAccepted(n)
    BY <1>6, <1>7 DEF Records!TariffAccepted, Records!TariffNumbersAccepted
  <2> QED
    BY <2>1, <2>2, <2>3, <2>4 DEF Records!TariffAccepted
<1>9. Records!TariffChecks(n) /\ Records!TariffColumns(n)
  BY <1>4, <1>6, <1>7, StrippedFacts, CodeFacts, RecordsConstants
     DEF n, Records!ArgumentsFit, Records!TariffParameters, Records!TariffAccepted,
         Records!TariffChecks, Records!TariffColumns, Records!Identifiers, Records!Texts,
         Records!FitsColumn, Records!PyAtMost, Records!PyAbove, Records!SqlAtMost,
         Records!SqlAbove, Records!Numbers, Records!Infinity, Records!FiniteFrom,
         Records!OrNone, Records!TariffTextsAccepted, Records!TariffDatesAccepted,
         Records!TariffNumbersAccepted, Records!RowIsCurrent
<1>10. QED
  BY <1>5, <1>8, <1>9 DEF n

\* Budgets.
LEMMA BudgetAgrees ==
    ASSUME NEW r \in Records!BudgetParameters, NEW day \in Int,
           Records!BudgetAccepted(r, day)
    PROVE  LET n == Records!BudgetNormal(r) IN
           /\ DOMAIN n = DOMAIN r /\ Records!BudgetRow(n) = n /\ Records!BudgetRead(n) = n
           /\ \A later \in Int : day <= later => Records!BudgetAccepted(n, later)
           /\ Records!BudgetColumns(r) => Records!BudgetChecks(n) /\ Records!BudgetColumns(n)
<1> DEFINE n == Records!BudgetNormal(r)
           texts == {"budget_name"}
           codes == {"budget_id", "plant_id", "currency_code"}
<1>1. /\ DOMAIN r = Records!BudgetFields
      /\ \A f \in texts : r[f] \in Records!OrNone(Records!Texts)
  BY DEF Records!BudgetParameters, Records!BudgetFields, Records!OrNone
<1>2. n = Records!Normalized(r, codes, texts)
  BY DEF Records!BudgetNormal
<1>3. Records!BudgetNormal(n) = Records!Normalized(n, codes, texts)
  BY DEF Records!BudgetNormal
<1>4. /\ DOMAIN n = Records!BudgetFields /\ Records!Copied(Records!BudgetFields, n) = n
      /\ Records!BudgetNormal(n) = n
      /\ \A f \in Records!BudgetFields :
             n[f] = IF r[f] = None THEN None
                    ELSE IF f \in codes THEN Records!Code(r[f])
                    ELSE IF f \in texts THEN Records!Stripped(r[f]) ELSE r[f]
  BY <1>1, <1>2, <1>3, NormalizedFacts
<1> HIDE DEF n
<1>5. DOMAIN n = DOMAIN r /\ Records!BudgetRow(n) = n /\ Records!BudgetRead(n) = n
  BY <1>1, <1>4 DEF Records!BudgetRow, Records!BudgetRead
<1>6. /\ n.budget_id = Records!Code(r.budget_id)
      /\ n.plant_id = Records!Code(r.plant_id)
      /\ n.budget_name = Records!Stripped(r.budget_name)
      /\ n.category = r.category
      /\ n.fiscal_year = r.fiscal_year
      /\ n.allocated_amount = r.allocated_amount
      /\ n.spent_amount = r.spent_amount
      /\ n.currency_code = Records!Code(r.currency_code)
      /\ n.approved_on = r.approved_on
      /\ n.status = r.status
  BY <1>4, RecordsConstants
     DEF Records!BudgetParameters, Records!BudgetFields, Records!ArgumentsFit,
         Records!Identifiers, Records!Texts, Records!OrNone, Records!Numbers, Records!Times
<1>7. Records!BudgetAccepted(r, day)
  OBVIOUS
<1>8. \A later \in Int : day <= later => Records!BudgetAccepted(n, later)
  BY <1>4, <1>6, <1>7, RecordsConstants
     DEF n, Records!ArgumentsFit, Records!BudgetParameters, Records!BudgetAccepted,
         Records!Identifiers, Records!Texts, Records!FitsColumn, Records!PyAtMost,
         Records!PyAbove, Records!SqlAtMost, Records!SqlAbove, Records!Numbers,
         Records!Infinity, Records!FiniteFrom, Records!OrNone
<1>9. Records!BudgetColumns(r) => Records!BudgetChecks(n) /\ Records!BudgetColumns(n)
  BY <1>4, <1>6, <1>7, StrippedFacts, CodeFacts, RecordsConstants
     DEF n, Records!ArgumentsFit, Records!BudgetParameters, Records!BudgetAccepted,
         Records!BudgetChecks, Records!BudgetColumns, Records!Identifiers, Records!Texts,
         Records!FitsColumn, Records!PyAtMost, Records!PyAbove, Records!SqlAtMost,
         Records!SqlAbove, Records!Numbers, Records!Infinity, Records!FiniteFrom, Records!OrNone
<1>10. QED
  BY <1>5, <1>8, <1>9 DEF n

\* Observations of equipment ...
LEMMA SCADAAgrees ==
    ASSUME NEW r \in Records!SCADAParameters, NEW day \in Int,
           Records!SCADAAccepted(r, day)
    PROVE  LET n == Records!SCADANormal(r) IN
           /\ DOMAIN n = DOMAIN r /\ Records!SCADARow(n) = n /\ Records!SCADARead(n) = n
           /\ \A later \in Int : day <= later => Records!SCADAAccepted(n, later)
           /\ Records!SCADAChecks(n)
<1> DEFINE n == Records!SCADANormal(r)
           texts == {}
           codes == {"plant_id", "equipment_id"}
<1>1. /\ DOMAIN r = Records!SCADAFields
      /\ \A f \in texts : r[f] \in Records!OrNone(Records!Texts)
  BY DEF Records!SCADAParameters, Records!SCADAFields, Records!OrNone
<1>2. n = Records!Normalized(r, codes, texts)
  BY DEF Records!SCADANormal
<1>3. Records!SCADANormal(n) = Records!Normalized(n, codes, texts)
  BY DEF Records!SCADANormal
<1>4. /\ DOMAIN n = Records!SCADAFields /\ Records!Copied(Records!SCADAFields, n) = n
      /\ Records!SCADANormal(n) = n
      /\ \A f \in Records!SCADAFields :
             n[f] = IF r[f] = None THEN None
                    ELSE IF f \in codes THEN Records!Code(r[f])
                    ELSE IF f \in texts THEN Records!Stripped(r[f]) ELSE r[f]
  BY <1>1, <1>2, <1>3, NormalizedFacts
<1> HIDE DEF n
<1>5. DOMAIN n = DOMAIN r /\ Records!SCADARow(n) = n /\ Records!SCADARead(n) = n
  BY <1>1, <1>4 DEF Records!SCADARow, Records!SCADARead
<1>6. /\ n.plant_id = Records!Code(r.plant_id)
      /\ n.equipment_id = Records!Code(r.equipment_id)
      /\ n.timestamp = r.timestamp
      /\ n.active_power_kw = r.active_power_kw
      /\ n.interval_energy_kwh = r.interval_energy_kwh
      /\ n.dc_voltage_v = r.dc_voltage_v
      /\ n.dc_current_a = r.dc_current_a
      /\ n.ac_voltage_v = r.ac_voltage_v
      /\ n.ac_current_a = r.ac_current_a
      /\ n.frequency_hz = r.frequency_hz
      /\ n.power_factor = r.power_factor
      /\ n.equipment_available = r.equipment_available
      /\ n.grid_available = r.grid_available
      /\ n.operating_state = r.operating_state
      /\ n.quality = r.quality
  BY <1>4, RecordsConstants
     DEF Records!SCADAParameters, Records!SCADAFields, Records!ArgumentsFit,
         Records!Identifiers, Records!Texts, Records!OrNone, Records!Numbers, Records!Times
<1>7. Records!SCADAAccepted(r, day)
  OBVIOUS
<1>8. \A later \in Int : day <= later => Records!SCADAAccepted(n, later)
  BY <1>4, <1>6, <1>7, RecordsConstants
     DEF n, Records!ArgumentsFit, Records!SCADAParameters, Records!SCADAAccepted,
         Records!Identifiers, Records!Texts, Records!FitsColumn, Records!PyAtMost,
         Records!PyAbove, Records!SqlAtMost, Records!SqlAbove, Records!Numbers,
         Records!Infinity, Records!FiniteFrom, Records!OrNone, Records!SCADARange,
         Records!SCADAMeasured, Records!SCADAConsistent, Records!Idle, Records!Times,
         Records!SCADANormal
<1>9. Records!SCADAChecks(n)
  BY <1>4, <1>6, <1>7, StrippedFacts, CodeFacts, RecordsConstants
     DEF n, Records!ArgumentsFit, Records!SCADAParameters, Records!SCADAAccepted,
         Records!SCADAChecks, Records!Identifiers, Records!Texts, Records!FitsColumn,
         Records!PyAtMost, Records!PyAbove, Records!SqlAtMost, Records!SqlAbove,
         Records!Numbers, Records!Infinity, Records!FiniteFrom, Records!OrNone,
         Records!SCADARange, Records!SCADAMeasured, Records!SCADAConsistent, Records!Idle,
         Records!Times, Records!SCADANormal
<1>10. QED
  BY <1>5, <1>8, <1>9 DEF n

\* ... and of the weather.
LEMMA WeatherAgrees ==
    ASSUME NEW r \in Records!WeatherParameters, NEW day \in Int,
           Records!WeatherAccepted(r, day)
    PROVE  LET n == Records!WeatherNormal(r) IN
           /\ DOMAIN n = DOMAIN r /\ Records!WeatherRow(n) = n /\ Records!WeatherRead(n) = n
           /\ \A later \in Int : day <= later => Records!WeatherAccepted(n, later)
           /\ Records!WeatherChecks(n)
<1> DEFINE n == Records!WeatherNormal(r)
           texts == {}
           codes == {"plant_id", "weather_station_id"}
<1>1. /\ DOMAIN r = Records!WeatherFields
      /\ \A f \in texts : r[f] \in Records!OrNone(Records!Texts)
  BY DEF Records!WeatherParameters, Records!WeatherFields, Records!OrNone
<1>2. n = Records!Normalized(r, codes, texts)
  BY DEF Records!WeatherNormal
<1>3. Records!WeatherNormal(n) = Records!Normalized(n, codes, texts)
  BY DEF Records!WeatherNormal
<1>4. /\ DOMAIN n = Records!WeatherFields /\ Records!Copied(Records!WeatherFields, n) = n
      /\ Records!WeatherNormal(n) = n
      /\ \A f \in Records!WeatherFields :
             n[f] = IF r[f] = None THEN None
                    ELSE IF f \in codes THEN Records!Code(r[f])
                    ELSE IF f \in texts THEN Records!Stripped(r[f]) ELSE r[f]
  BY <1>1, <1>2, <1>3, NormalizedFacts
<1> HIDE DEF n
<1>5. DOMAIN n = DOMAIN r /\ Records!WeatherRow(n) = n /\ Records!WeatherRead(n) = n
  BY <1>1, <1>4 DEF Records!WeatherRow, Records!WeatherRead
<1>6. /\ n.plant_id = Records!Code(r.plant_id)
      /\ n.weather_station_id = Records!Code(r.weather_station_id)
      /\ n.timestamp = r.timestamp
      /\ n.ghi_wm2 = r.ghi_wm2
      /\ n.dni_wm2 = r.dni_wm2
      /\ n.dhi_wm2 = r.dhi_wm2
      /\ n.ambient_temperature_c = r.ambient_temperature_c
      /\ n.module_temperature_c = r.module_temperature_c
      /\ n.wind_speed_ms = r.wind_speed_ms
      /\ n.relative_humidity_pct = r.relative_humidity_pct
      /\ n.quality = r.quality
  BY <1>4, RecordsConstants
     DEF Records!WeatherParameters, Records!WeatherFields, Records!ArgumentsFit,
         Records!Identifiers, Records!Texts, Records!OrNone, Records!Numbers, Records!Times
<1>7. Records!WeatherAccepted(r, day)
  OBVIOUS
<1>8. \A later \in Int : day <= later => Records!WeatherAccepted(n, later)
  BY <1>4, <1>6, <1>7, RecordsConstants
     DEF n, Records!ArgumentsFit, Records!WeatherParameters, Records!WeatherAccepted,
         Records!Identifiers, Records!Texts, Records!FitsColumn, Records!PyAtMost,
         Records!PyAbove, Records!SqlAtMost, Records!SqlAbove, Records!Numbers,
         Records!Infinity, Records!FiniteFrom, Records!OrNone, Records!WeatherRange,
         Records!Times
<1>9. Records!WeatherChecks(n)
  BY <1>4, <1>6, <1>7, StrippedFacts, CodeFacts, RecordsConstants
     DEF n, Records!ArgumentsFit, Records!WeatherParameters, Records!WeatherAccepted,
         Records!WeatherChecks, Records!Identifiers, Records!Texts, Records!FitsColumn,
         Records!PyAtMost, Records!PyAbove, Records!SqlAtMost, Records!SqlAbove,
         Records!Numbers, Records!Infinity, Records!FiniteFrom, Records!OrNone,
         Records!WeatherRange, Records!Times
<1>10. QED
  BY <1>5, <1>8, <1>9 DEF n

\* Injected events.
LEMMA GroundTruthAgrees ==
    ASSUME NEW r \in Records!GroundTruthParameters, NEW day \in Int,
           Records!GroundTruthAccepted(r, day)
    PROVE  LET n == Records!GroundTruthNormal(r) IN
           /\ DOMAIN n = DOMAIN r /\ Records!GroundTruthRow(n) = n /\ Records!GroundTruthRead(n) = n
           /\ \A later \in Int : day <= later => Records!GroundTruthAccepted(n, later)
           /\ Records!GroundTruthChecks(n) /\ Records!GroundTruthColumns(n)
<1> DEFINE n == Records!GroundTruthNormal(r)
           texts == {"description"}
           codes == {"ground_truth_id", "plant_id", "equipment_id"}
<1>1. /\ DOMAIN r = Records!GroundTruthFields
      /\ \A f \in texts : r[f] \in Records!OrNone(Records!Texts)
  BY DEF Records!GroundTruthParameters, Records!GroundTruthFields, Records!OrNone
<1>2. n = Records!Normalized(r, codes, texts)
  BY DEF Records!GroundTruthNormal
<1>3. Records!GroundTruthNormal(n) = Records!Normalized(n, codes, texts)
  BY DEF Records!GroundTruthNormal
<1>4. /\ DOMAIN n = Records!GroundTruthFields /\ Records!Copied(Records!GroundTruthFields, n) = n
      /\ Records!GroundTruthNormal(n) = n
      /\ \A f \in Records!GroundTruthFields :
             n[f] = IF r[f] = None THEN None
                    ELSE IF f \in codes THEN Records!Code(r[f])
                    ELSE IF f \in texts THEN Records!Stripped(r[f]) ELSE r[f]
  BY <1>1, <1>2, <1>3, NormalizedFacts
<1> HIDE DEF n
<1>5. DOMAIN n = DOMAIN r /\ Records!GroundTruthRow(n) = n /\ Records!GroundTruthRead(n) = n
  BY <1>1, <1>4 DEF Records!GroundTruthRow, Records!GroundTruthRead
<1>6. /\ n.ground_truth_id = Records!Code(r.ground_truth_id)
      /\ n.plant_id = Records!Code(r.plant_id)
      /\ n.event_type = r.event_type
      /\ n.severity = r.severity
      /\ n.started_at = r.started_at
      /\ n.ended_at = r.ended_at
      /\ n.equipment_id = IF r.equipment_id = None THEN None ELSE Records!Code(r.equipment_id)
      /\ n.expected_power_loss_pct = r.expected_power_loss_pct
      /\ n.expected_energy_loss_kwh = r.expected_energy_loss_kwh
      /\ n.description = IF r.description = None THEN None ELSE Records!Stripped(r.description)
  BY <1>4, RecordsConstants
     DEF Records!GroundTruthParameters, Records!GroundTruthFields, Records!ArgumentsFit,
         Records!Identifiers, Records!Texts, Records!OrNone, Records!Numbers, Records!Times
<1>7. Records!GroundTruthAccepted(r, day)
  OBVIOUS
<1>8. \A later \in Int : day <= later => Records!GroundTruthAccepted(n, later)
  BY <1>4, <1>6, <1>7, RecordsConstants
     DEF n, Records!ArgumentsFit, Records!GroundTruthParameters, Records!GroundTruthAccepted,
         Records!Identifiers, Records!Texts, Records!FitsColumn, Records!PyAtMost,
         Records!PyAbove, Records!SqlAtMost, Records!SqlAbove, Records!Numbers,
         Records!Infinity, Records!FiniteFrom, Records!OrNone
<1>9. Records!GroundTruthChecks(n) /\ Records!GroundTruthColumns(n)
  BY <1>4, <1>6, <1>7, StrippedFacts, CodeFacts, RecordsConstants
     DEF n, Records!ArgumentsFit, Records!GroundTruthParameters, Records!GroundTruthAccepted,
         Records!GroundTruthChecks, Records!GroundTruthColumns, Records!Identifiers,
         Records!Texts, Records!FitsColumn, Records!PyAtMost, Records!PyAbove,
         Records!SqlAtMost, Records!SqlAbove, Records!Numbers, Records!Infinity,
         Records!FiniteFrom, Records!OrNone
<1>10. QED
  BY <1>5, <1>8, <1>9 DEF n

\* Alarms, ...
LEMMA AlarmAgrees ==
    ASSUME NEW r \in Records!AlarmParameters, NEW day \in Int,
           Records!AlarmAccepted(r, day)
    PROVE  LET n == Records!AlarmNormal(r) IN
           /\ DOMAIN n = DOMAIN r /\ Records!AlarmRow(n) = n /\ Records!AlarmRead(n) = n
           /\ \A later \in Int : day <= later => Records!AlarmAccepted(n, later)
           /\ Records!AlarmChecks(n) /\ Records!AlarmColumns(n)
<1> DEFINE n == Records!AlarmNormal(r)
           texts == {"alarm_name", "message"}
           codes == {"alarm_id", "plant_id", "equipment_id", "alarm_code"}
<1>1. /\ DOMAIN r = Records!AlarmFields
      /\ \A f \in texts : r[f] \in Records!OrNone(Records!Texts)
  BY DEF Records!AlarmParameters, Records!AlarmFields, Records!OrNone
<1>2. n = Records!Normalized(r, codes, texts)
  BY DEF Records!AlarmNormal
<1>3. Records!AlarmNormal(n) = Records!Normalized(n, codes, texts)
  BY DEF Records!AlarmNormal
<1>4. /\ DOMAIN n = Records!AlarmFields /\ Records!Copied(Records!AlarmFields, n) = n
      /\ Records!AlarmNormal(n) = n
      /\ \A f \in Records!AlarmFields :
             n[f] = IF r[f] = None THEN None
                    ELSE IF f \in codes THEN Records!Code(r[f])
                    ELSE IF f \in texts THEN Records!Stripped(r[f]) ELSE r[f]
  BY <1>1, <1>2, <1>3, NormalizedFacts
<1> HIDE DEF n
<1>5. DOMAIN n = DOMAIN r /\ Records!AlarmRow(n) = n /\ Records!AlarmRead(n) = n
  BY <1>1, <1>4 DEF Records!AlarmRow, Records!AlarmRead
<1>6. /\ n.alarm_id = Records!Code(r.alarm_id)
      /\ n.plant_id = Records!Code(r.plant_id)
      /\ n.equipment_id = Records!Code(r.equipment_id)
      /\ n.alarm_code = Records!Code(r.alarm_code)
      /\ n.alarm_name = Records!Stripped(r.alarm_name)
      /\ n.category = r.category
      /\ n.severity = r.severity
      /\ n.message = IF r.message = None THEN None ELSE Records!Stripped(r.message)
  BY <1>4, RecordsConstants
     DEF Records!AlarmParameters, Records!AlarmFields, Records!ArgumentsFit,
         Records!Identifiers, Records!Texts, Records!OrNone, Records!Numbers, Records!Times
<1>7. Records!AlarmAccepted(r, day)
  OBVIOUS
<1>8. \A later \in Int : day <= later => Records!AlarmAccepted(n, later)
  BY <1>4, <1>6, <1>7, RecordsConstants
     DEF n, Records!ArgumentsFit, Records!AlarmParameters, Records!AlarmAccepted,
         Records!Identifiers, Records!Texts, Records!FitsColumn, Records!PyAtMost,
         Records!PyAbove, Records!SqlAtMost, Records!SqlAbove, Records!Numbers,
         Records!Infinity, Records!FiniteFrom, Records!OrNone, Records!RequiredText,
         Records!OptionalText
<1>9. Records!AlarmChecks(n) /\ Records!AlarmColumns(n)
  BY <1>4, <1>6, <1>7, StrippedFacts, CodeFacts, RecordsConstants
     DEF n, Records!ArgumentsFit, Records!AlarmParameters, Records!AlarmAccepted,
         Records!AlarmChecks, Records!AlarmColumns, Records!Identifiers, Records!Texts,
         Records!FitsColumn, Records!PyAtMost, Records!PyAbove, Records!SqlAtMost,
         Records!SqlAbove, Records!Numbers, Records!Infinity, Records!FiniteFrom,
         Records!OrNone, Records!RequiredText, Records!OptionalText
<1>10. QED
  BY <1>5, <1>8, <1>9 DEF n

\* ... incidents ...
LEMMA IncidentAgrees ==
    ASSUME NEW r \in Records!IncidentParameters, NEW day \in Int,
           Records!IncidentAccepted(r, day)
    PROVE  LET n == Records!IncidentNormal(r) IN
           /\ DOMAIN n = DOMAIN r /\ Records!IncidentRow(n) = n /\ Records!IncidentRead(n) = n
           /\ \A later \in Int : day <= later => Records!IncidentAccepted(n, later)
           /\ Records!IncidentChecks(n) /\ Records!IncidentColumns(n)
<1> DEFINE n == Records!IncidentNormal(r)
           texts == {"incident_name", "description", "root_cause"}
           codes == {"incident_id", "plant_id", "equipment_id", "linked_alarm_id"}
<1>1. /\ DOMAIN r = Records!IncidentFields
      /\ \A f \in texts : r[f] \in Records!OrNone(Records!Texts)
  BY DEF Records!IncidentParameters, Records!IncidentFields, Records!OrNone
<1>2. n = Records!Normalized(r, codes, texts)
  BY DEF Records!IncidentNormal
<1>3. Records!IncidentNormal(n) = Records!Normalized(n, codes, texts)
  BY DEF Records!IncidentNormal
<1>4. /\ DOMAIN n = Records!IncidentFields /\ Records!Copied(Records!IncidentFields, n) = n
      /\ Records!IncidentNormal(n) = n
      /\ \A f \in Records!IncidentFields :
             n[f] = IF r[f] = None THEN None
                    ELSE IF f \in codes THEN Records!Code(r[f])
                    ELSE IF f \in texts THEN Records!Stripped(r[f]) ELSE r[f]
  BY <1>1, <1>2, <1>3, NormalizedFacts
<1> HIDE DEF n
<1>5. DOMAIN n = DOMAIN r /\ Records!IncidentRow(n) = n /\ Records!IncidentRead(n) = n
  BY <1>1, <1>4 DEF Records!IncidentRow, Records!IncidentRead
<1>6. /\ n.incident_id = Records!Code(r.incident_id)
      /\ n.plant_id = Records!Code(r.plant_id)
      /\ n.equipment_id = Records!Code(r.equipment_id)
      /\ n.incident_name = Records!Stripped(r.incident_name)
      /\ n.category = r.category
      /\ n.severity = r.severity
      /\ n.description = IF r.description = None THEN None ELSE Records!Stripped(r.description)
      /\ n.root_cause = IF r.root_cause = None THEN None ELSE Records!Stripped(r.root_cause)
      /\ n.linked_alarm_id = IF r.linked_alarm_id = None THEN None
                             ELSE Records!Code(r.linked_alarm_id)
  BY <1>4, RecordsConstants
     DEF Records!IncidentParameters, Records!IncidentFields, Records!ArgumentsFit,
         Records!Identifiers, Records!Texts, Records!OrNone, Records!Numbers, Records!Times
<1>7. Records!IncidentAccepted(r, day)
  OBVIOUS
<1>8. \A later \in Int : day <= later => Records!IncidentAccepted(n, later)
  BY <1>4, <1>6, <1>7, RecordsConstants
     DEF n, Records!ArgumentsFit, Records!IncidentParameters, Records!IncidentAccepted,
         Records!Identifiers, Records!Texts, Records!FitsColumn, Records!PyAtMost,
         Records!PyAbove, Records!SqlAtMost, Records!SqlAbove, Records!Numbers,
         Records!Infinity, Records!FiniteFrom, Records!OrNone, Records!RequiredText,
         Records!OptionalText
<1>9. Records!IncidentChecks(n) /\ Records!IncidentColumns(n)
  BY <1>4, <1>6, <1>7, StrippedFacts, CodeFacts, RecordsConstants
     DEF n, Records!ArgumentsFit, Records!IncidentParameters, Records!IncidentAccepted,
         Records!IncidentChecks, Records!IncidentColumns, Records!Identifiers, Records!Texts,
         Records!FitsColumn, Records!PyAtMost, Records!PyAbove, Records!SqlAtMost,
         Records!SqlAbove, Records!Numbers, Records!Infinity, Records!FiniteFrom,
         Records!OrNone, Records!RequiredText, Records!OptionalText
<1>10. QED
  BY <1>5, <1>8, <1>9 DEF n

\* ... and work orders.
LEMMA WorkOrderAgrees ==
    ASSUME NEW r \in Records!WorkOrderParameters, NEW day \in Int,
           Records!WorkOrderAccepted(r, day)
    PROVE  LET n == Records!WorkOrderNormal(r) IN
           /\ DOMAIN n = DOMAIN r /\ Records!WorkOrderRow(n) = n /\ Records!WorkOrderRead(n) = n
           /\ \A later \in Int : day <= later => Records!WorkOrderAccepted(n, later)
           /\ Records!WorkOrderChecks(n) /\ Records!WorkOrderColumns(n)
<1> DEFINE n == Records!WorkOrderNormal(r)
           texts == {"work_order_name", "assigned_team", "description", "completion_notes"}
           codes == {"work_order_id", "plant_id", "equipment_id", "linked_incident_id"}
<1>1. /\ DOMAIN r = Records!WorkOrderFields
      /\ \A f \in texts : r[f] \in Records!OrNone(Records!Texts)
  BY DEF Records!WorkOrderParameters, Records!WorkOrderFields, Records!OrNone
<1>2. n = Records!Normalized(r, codes, texts)
  BY DEF Records!WorkOrderNormal
<1>3. Records!WorkOrderNormal(n) = Records!Normalized(n, codes, texts)
  BY DEF Records!WorkOrderNormal
<1>4. /\ DOMAIN n = Records!WorkOrderFields /\ Records!Copied(Records!WorkOrderFields, n) = n
      /\ Records!WorkOrderNormal(n) = n
      /\ \A f \in Records!WorkOrderFields :
             n[f] = IF r[f] = None THEN None
                    ELSE IF f \in codes THEN Records!Code(r[f])
                    ELSE IF f \in texts THEN Records!Stripped(r[f]) ELSE r[f]
  BY <1>1, <1>2, <1>3, NormalizedFacts
<1> HIDE DEF n
<1>5. DOMAIN n = DOMAIN r /\ Records!WorkOrderRow(n) = n /\ Records!WorkOrderRead(n) = n
  BY <1>1, <1>4 DEF Records!WorkOrderRow, Records!WorkOrderRead
<1>6. /\ n.work_order_id = Records!Code(r.work_order_id)
      /\ n.plant_id = Records!Code(r.plant_id)
      /\ n.equipment_id = Records!Code(r.equipment_id)
      /\ n.work_order_name = Records!Stripped(r.work_order_name)
      /\ n.work_order_type = r.work_order_type
      /\ n.priority = r.priority
      /\ n.linked_incident_id = IF r.linked_incident_id = None THEN None
                                ELSE Records!Code(r.linked_incident_id)
      /\ n.assigned_team = IF r.assigned_team = None THEN None
                           ELSE Records!Stripped(r.assigned_team)
      /\ n.estimated_labor_hours = r.estimated_labor_hours
      /\ n.actual_labor_hours = r.actual_labor_hours
      /\ n.estimated_cost = r.estimated_cost
      /\ n.actual_cost = r.actual_cost
      /\ n.description = IF r.description = None THEN None ELSE Records!Stripped(r.description)
      /\ n.completion_notes = IF r.completion_notes = None THEN None
                              ELSE Records!Stripped(r.completion_notes)
  BY <1>4, RecordsConstants
     DEF Records!WorkOrderParameters, Records!WorkOrderFields, Records!ArgumentsFit,
         Records!Identifiers, Records!Texts, Records!OrNone, Records!Numbers, Records!Times
<1>7. Records!WorkOrderAccepted(r, day)
  OBVIOUS
<1>8. \A later \in Int : day <= later => Records!WorkOrderAccepted(n, later)
  BY <1>4, <1>6, <1>7, RecordsConstants
     DEF n, Records!ArgumentsFit, Records!WorkOrderParameters, Records!WorkOrderAccepted,
         Records!Identifiers, Records!Texts, Records!FitsColumn, Records!PyAtMost,
         Records!PyAbove, Records!SqlAtMost, Records!SqlAbove, Records!Numbers,
         Records!Infinity, Records!FiniteFrom, Records!OrNone, Records!RequiredText,
         Records!OptionalText, Records!WorkOrderTextsAccepted, Records!WorkOrderNumbersAccepted
<1>9. Records!WorkOrderChecks(n) /\ Records!WorkOrderColumns(n)
  BY <1>4, <1>6, <1>7, StrippedFacts, CodeFacts, RecordsConstants
     DEF n, Records!ArgumentsFit, Records!WorkOrderParameters, Records!WorkOrderAccepted,
         Records!WorkOrderChecks, Records!WorkOrderColumns, Records!Identifiers, Records!Texts,
         Records!FitsColumn, Records!PyAtMost, Records!PyAbove, Records!SqlAtMost,
         Records!SqlAbove, Records!Numbers, Records!Infinity, Records!FiniteFrom,
         Records!OrNone, Records!RequiredText, Records!OptionalText,
         Records!WorkOrderTextsAccepted, Records!WorkOrderNumbersAccepted
<1>10. QED
  BY <1>5, <1>8, <1>9 DEF n

\* All ten at once.
LEMMA RecordsAgree ==
    ASSUME NEW table \in Records!Tables, NEW r \in Records!Parameters(table), NEW day \in Int,
           Records!Accepted(table, r, day)
    PROVE  LET n == Records!Normal(table, r) IN
           /\ DOMAIN n = DOMAIN r
           /\ Records!FromDomain(table, n) = n /\ Records!ToDomain(table, n) = n
           /\ \A later \in Int : day <= later =>
                  \/ Records!Accepted(table, n, later)
                  \/ table = "tariffs" /\ n.status = "active" /\ ~Records!RowIsCurrent(n, later)
           /\ Records!Taken(table, n) \/ Records!Unbounded(table, r)
<1>1. CASE table = "plants"
  <2>1. r \in Records!PlantParameters /\ Records!PlantAccepted(r, day)
    BY <1>1 DEF Records!Parameters, Records!Accepted
  <2> QED
    BY <1>1, <2>1, PlantAgrees
       DEF Records!Normal, Records!FromDomain, Records!ToDomain, Records!Accepted,
           Records!Taken, Records!Unbounded
<1>2. CASE table = "equipment"
  <2>1. r \in Records!EquipmentParameters /\ Records!EquipmentAccepted(r, day)
    BY <1>2 DEF Records!Parameters, Records!Accepted
  <2> QED
    BY <1>2, <2>1, EquipmentAgrees
       DEF Records!Normal, Records!FromDomain, Records!ToDomain, Records!Accepted,
           Records!Taken, Records!Unbounded
<1>3. CASE table = "tariffs"
  <2>1. r \in Records!TariffParameters /\ Records!TariffAccepted(r, day)
    BY <1>3 DEF Records!Parameters, Records!Accepted
  <2> QED
    BY <1>3, <2>1, TariffAgrees
       DEF Records!Normal, Records!FromDomain, Records!ToDomain, Records!Accepted,
           Records!Taken, Records!Unbounded
<1>4. CASE table = "budgets"
  <2>1. r \in Records!BudgetParameters /\ Records!BudgetAccepted(r, day)
    BY <1>4 DEF Records!Parameters, Records!Accepted
  <2> QED
    BY <1>4, <2>1, BudgetAgrees
       DEF Records!Normal, Records!FromDomain, Records!ToDomain, Records!Accepted,
           Records!Taken, Records!Unbounded
<1>5. CASE table = "scada_observations"
  <2>1. r \in Records!SCADAParameters /\ Records!SCADAAccepted(r, day)
    BY <1>5 DEF Records!Parameters, Records!Accepted
  <2> QED
    BY <1>5, <2>1, SCADAAgrees
       DEF Records!Normal, Records!FromDomain, Records!ToDomain, Records!Accepted,
           Records!Taken, Records!Unbounded
<1>6. CASE table = "weather_observations"
  <2>1. r \in Records!WeatherParameters /\ Records!WeatherAccepted(r, day)
    BY <1>6 DEF Records!Parameters, Records!Accepted
  <2> QED
    BY <1>6, <2>1, WeatherAgrees
       DEF Records!Normal, Records!FromDomain, Records!ToDomain, Records!Accepted,
           Records!Taken, Records!Unbounded
<1>7. CASE table = "ground_truth_events"
  <2>1. r \in Records!GroundTruthParameters /\ Records!GroundTruthAccepted(r, day)
    BY <1>7 DEF Records!Parameters, Records!Accepted
  <2> QED
    BY <1>7, <2>1, GroundTruthAgrees
       DEF Records!Normal, Records!FromDomain, Records!ToDomain, Records!Accepted,
           Records!Taken, Records!Unbounded
<1>8. CASE table = "alarms"
  <2>1. r \in Records!AlarmParameters /\ Records!AlarmAccepted(r, day)
    BY <1>8 DEF Records!Parameters, Records!Accepted
  <2> QED
    BY <1>8, <2>1, AlarmAgrees
       DEF Records!Normal, Records!FromDomain, Records!ToDomain, Records!Accepted,
           Records!Taken, Records!Unbounded
<1>9. CASE table = "incidents"
  <2>1. r \in Records!IncidentParameters /\ Records!IncidentAccepted(r, day)
    BY <1>9 DEF Records!Parameters, Records!Accepted
  <2> QED
    BY <1>9, <2>1, IncidentAgrees
       DEF Records!Normal, Records!FromDomain, Records!ToDomain, Records!Accepted,
           Records!Taken, Records!Unbounded
<1>10. CASE table = "work_orders"
  <2>1. r \in Records!WorkOrderParameters /\ Records!WorkOrderAccepted(r, day)
    BY <1>10 DEF Records!Parameters, Records!Accepted
  <2> QED
    BY <1>10, <2>1, WorkOrderAgrees
       DEF Records!Normal, Records!FromDomain, Records!ToDomain, Records!Accepted,
           Records!Taken, Records!Unbounded
<1> QED
  BY <1>1, <1>2, <1>3, <1>4, <1>5, <1>6, <1>7, <1>8, <1>9, <1>10 DEF Records!Tables

\* A record as it is passed to the constructor satisfies the invariant ...
LEMMA RecordsInitial == Records!Init => Records!RecordsInv
<1> SUFFICES ASSUME Records!Init PROVE Records!RecordsInv
  OBVIOUS
<1>1. PICK table \in Records!Tables : \E r \in Arguments(table) :
          input = [table |-> table, record |-> r]
  BY DEF Records!Init
<1>2. PICK r \in Arguments(table) : input = [table |-> table, record |-> r]
  BY <1>1
<1>3. input.table \in Records!Tables /\ input.record \in Records!Parameters(input.table)
  BY <1>2, RecordsConstants DEF Records!ArgumentsFit
<1>4. state = [stage |-> "new", row |-> None, today |-> 1] /\ 1 \in 1..MaxDay
  BY RecordsConstants DEF Records!Init, Records!ArgumentsFit
<1> QED
  BY <1>3, <1>4 DEF Records!RecordsInv, Records!TypeOK, Records!AcceptedIsStored,
                    Records!StoredReadsBack

\* ... and every step of its life keeps it.
LEMMA RecordsNext ==
    ASSUME Records!RecordsInv, Records!Next \/ UNCHANGED records
    PROVE  Records!RecordsInv'
<1> DEFINE n == Records!Normal(input.table, input.record)
<1>1. /\ input.table \in Records!Tables /\ input.record \in Records!Parameters(input.table)
      /\ state.today \in 1..MaxDay /\ DOMAIN state = {"stage", "row", "today"}
  BY DEF Records!RecordsInv, Records!TypeOK
<1>2. ASSUME Records!Accepted(input.table, input.record, 1)
      PROVE  /\ DOMAIN n = DOMAIN input.record
             /\ Records!FromDomain(input.table, n) = n /\ Records!ToDomain(input.table, n) = n
             /\ Records!Taken(input.table, n) \/ Records!Unbounded(input.table, input.record)
             /\ \A later \in Int : 1 <= later =>
                    \/ Records!Accepted(input.table, n, later)
                    \/ /\ input.table = "tariffs" /\ n.status = "active"
                       /\ ~Records!RowIsCurrent(n, later)
  BY <1>1, <1>2, RecordsAgree
<1> HIDE DEF n
<1>3. CASE Records!Construct
  <2>1. /\ input' = input /\ state.stage = "new" /\ state.today = 1
        /\ state'.stage = IF Records!Accepted(input.table, input.record, 1)
                          THEN "accepted" ELSE "refused"
        /\ state'.today = 1 /\ DOMAIN state' = {"stage", "row", "today"}
    BY <1>1, <1>3 DEF Records!Construct, Records!RecordsInv
  <2> QED
    BY <1>1, <2>1 DEF Records!RecordsInv, Records!TypeOK, Records!AcceptedIsStored,
                      Records!StoredReadsBack
<1>4. CASE Records!Store
  <2>1. Records!Accepted(input.table, input.record, 1) /\ state.today = 1
    BY <1>4 DEF Records!Store, Records!RecordsInv
  <2>2. /\ input' = input /\ state'.today = 1 /\ DOMAIN state' = {"stage", "row", "today"}
        /\ \/ state'.stage = "stored" /\ state'.row = n
           \/ /\ state'.stage = "rejected"
              /\ Records!Unbounded(input.table, input.record)
    BY <1>1, <1>2, <1>4, <2>1 DEF Records!Store, n
  <2> QED
    BY <1>1, <1>2, <2>1, <2>2
       DEF Records!RecordsInv, Records!TypeOK, Records!AcceptedIsStored,
           Records!StoredReadsBack, n
<1>5. CASE Records!NextDay
  <2>1. /\ input' = input /\ state.stage = "stored" /\ state'.stage = "stored"
        /\ state'.row = state.row /\ state'.today = state.today + 1
        /\ state.today < MaxDay /\ DOMAIN state' = {"stage", "row", "today"}
    BY <1>1, <1>5 DEF Records!NextDay
  <2>2. state'.today \in 1..MaxDay
    BY <1>1, <2>1, RecordsConstants DEF Records!ArgumentsFit
  <2> QED
    BY <1>1, <2>1, <2>2
       DEF Records!RecordsInv, Records!TypeOK, Records!AcceptedIsStored,
           Records!StoredReadsBack
<1>6. CASE Records!Read
  <2>1. /\ Records!Accepted(input.table, input.record, 1)
        /\ state.row = Records!FromDomain(input.table, n) /\ DOMAIN state.row = DOMAIN input.record
    BY <1>6 DEF Records!Read, Records!RecordsInv, Records!TypeOK, n
  <2>2. state.row = n /\ Records!ToDomain(input.table, state.row) = n
    BY <1>2, <2>1
  <2>3. /\ input' = input /\ state'.row = n /\ state'.today = state.today
        /\ DOMAIN state' = {"stage", "row", "today"}
        /\ state'.stage = IF Records!Accepted(input.table, n, state.today)
                          THEN "read" ELSE "unreadable"
    BY <1>1, <1>6, <2>2 DEF Records!Read
  <2>4. state'.stage = "unreadable" =>
          /\ input.table = "tariffs" /\ n.status = "active"
          /\ ~Records!RowIsCurrent(n, state.today)
    BY <1>1, <1>2, <2>1, <2>3, RecordsConstants DEF Records!ArgumentsFit
  <2> QED
    BY <1>1, <1>2, <2>1, <2>2, <2>3, <2>4
       DEF Records!RecordsInv, Records!TypeOK, Records!AcceptedIsStored,
           Records!StoredReadsBack, n
<1>7. CASE UNCHANGED records
  BY <1>7 DEF records, Records!RecordsInv, Records!TypeOK, Records!AcceptedIsStored,
              Records!StoredReadsBack
<1> QED
  BY <1>3, <1>4, <1>5, <1>6, <1>7 DEF Records!Next

-----------------------------------------------------------------------------
(* The master data of a portfolio, and how its plants are measured.        *)

\* The module of the measurements counts and sums as this one does.
LEMMA ChainCounts ==
    /\ \A S : Chain!Cardinality(S) = Cardinality(S)
    /\ \A S : Chain!IsFiniteSet(S) <=> IsFiniteSet(S)
    /\ \A f, S : Chain!SumFunctionOnSet(f, S) = SumFunctionOnSet(f, S)
    /\ \A f : Chain!SumFunction(f) = SumFunctionOnSet(f, DOMAIN f)
<1>1. \A S : Chain!Cardinality(S) = Cardinality(S)
  BY Zenon DEF Chain!Cardinality, Cardinality
<1>2. \A S : Chain!IsFiniteSet(S) <=> IsFiniteSet(S)
  BY Zenon DEF Chain!IsFiniteSet, IsFiniteSet
<1>3. \A f, S : Chain!SumFunctionOnSet(f, S) = SumFunctionOnSet(f, S)
  BY Zenon DEF Chain!SumFunctionOnSet, SumFunctionOnSet, Chain!FoldFunctionOnSet, FoldFunctionOnSet,
               Chain!MapThenFoldSet, MapThenFoldSet
<1>4. \A f : Chain!SumFunction(f) = Chain!SumFunctionOnSet(f, DOMAIN f)
  BY Zenon DEF Chain!SumFunction
<1> QED
  BY <1>1, <1>2, <1>3, <1>4

\* The weather of an interval has a quality, and no less sun than none.
LEMMA WeatherFacts ==
    ASSUME NEW sky \in Nat, NEW quality \in Chain!Quality
    PROVE  LET weather == Chain!WeatherObservation(sky, quality) IN
           weather.ghi \in Nat /\ weather.quality \in Chain!Quality
BY DEF Chain!WeatherObservation

\* What an inverter reports has a quality.
LEMMA QualityFacts ==
    ASSUME NEW weather, weather.quality \in Chain!Quality, NEW drawn \in Chain!Quality
    PROVE  Chain!SampleQuality(weather, drawn) \in Chain!Quality
BY DEF Chain!SampleQuality, Chain!Quality

\* An inverter delivers no more than a reading may say, and nothing where it
\* does not generate.
LEMMA InverterPower ==
    ASSUME NEW unit, unit.rated \in Nat, NEW weather, weather.ghi \in Nat,
           NEW drawn \in {"normal", "derated", "fault", "maintenance"}
    PROVE  LET operating == Chain!SampleOperatingState(weather, drawn)
               power == Chain!ActivePower(unit, weather, operating) IN
           /\ operating \in {"normal", "derated", "fault", "maintenance", "night"}
           /\ power \in 0..50 /\ (operating \in Chain!NonGenerating => power = 0)
<1> DEFINE operating == Chain!SampleOperatingState(weather, drawn)
           power == Chain!ActivePower(unit, weather, operating)
           least == Chain!Smaller(50, unit.rated)
<1>1. operating \in {"normal", "derated", "fault", "maintenance", "night"}
  BY DEF Chain!SampleOperatingState
<1>2. least \in 0..50
  BY DEF Chain!Smaller
<1>3. unit.rated * weather.ghi \in Nat
  OBVIOUS
<1>4. ASSUME NEW n \in Nat PROVE Chain!Smaller(least, n) \in 0..50
  BY <1>2 DEF Chain!Smaller
<1>5. (unit.rated * weather.ghi) \div 4 \in Nat /\ (unit.rated * weather.ghi) \div 2 \in Nat
  BY <1>3
<1>6. CASE operating \in Chain!NonGenerating
  <2>1. power = 0
    BY <1>6 DEF Chain!ActivePower, Chain!NonGenerating
  <2> QED
    BY <1>1, <2>1
<1>7. CASE operating \notin Chain!NonGenerating
  <2>1. operating \in {"normal", "derated"}
    BY <1>1, <1>7 DEF Chain!NonGenerating
  <2>2. power = Chain!Smaller(least, (unit.rated * weather.ghi) \div 4)
        \/ power = Chain!Smaller(least, (unit.rated * weather.ghi) \div 2)
    BY <2>1 DEF Chain!ActivePower, Chain!NonGenerating
  <2>3. power \in 0..50
    BY <1>4, <1>5, <2>2
  <2> QED
    BY <1>1, <1>7, <2>3
<1> QED
  BY <1>6, <1>7

\* A reading that is made of such power is one its own record accepts, and
\* its table takes.
LEMMA ReadingFacts ==
    ASSUME NEW power \in 0..50, NEW quality \in Chain!Quality,
           NEW operating \in {"normal", "derated", "fault", "maintenance", "night"},
           operating \in Chain!NonGenerating => power = 0
    PROVE  LET r == Chain!Reading(power, operating, quality) IN
           /\ r.active_power_kw \in Nat /\ r.quality = quality
           /\ r.equipment_available \in BOOLEAN /\ r.grid_available = (quality # "missing")
           /\ ~ r.equipment_available => r.active_power_kw = 0
           /\ quality = "missing" => r.active_power_kw = 0
           /\ Chain!SCADAAccepted(r, 0) /\ Chain!SCADAChecks(Chain!SCADARow(r))
<1> DEFINE r == Chain!Reading(power, operating, quality)
           lost == quality = "missing"
           measured == IF lost THEN 0 ELSE power
           ranged == {"active_power_kw", "interval_energy_kwh", "dc_voltage_v", "dc_current_a",
                      "ac_voltage_v", "ac_current_a", "frequency_hz", "power_factor"}
<1>1. /\ DOMAIN r = {"plant_id", "equipment_id", "timestamp", "active_power_kw",
                     "interval_energy_kwh", "dc_voltage_v", "dc_current_a", "ac_voltage_v",
                     "ac_current_a", "frequency_hz", "power_factor", "equipment_available",
                     "grid_available", "operating_state", "quality"}
      /\ r.plant_id = "good" /\ r.equipment_id = "good" /\ r.timestamp = "grid"
      /\ r.active_power_kw = measured /\ r.interval_energy_kwh = measured \div 4
      /\ r.dc_voltage_v \in 0..1 /\ r.dc_current_a \in 0..1 /\ r.ac_voltage_v \in 0..1
      /\ r.ac_current_a \in 0..1 /\ r.frequency_hz \in {0, 50} /\ r.power_factor \in 0..1
      /\ r.equipment_available = (~ lost /\ operating \notin {"fault", "maintenance"})
      /\ r.grid_available = ~ lost
      /\ r.operating_state = (IF lost THEN "stopped" ELSE operating)
      /\ r.quality = quality
  BY DEF Chain!Reading
<1>2. measured \in 0..50 /\ measured \div 4 \in 0..12
  OBVIOUS
<1>3. NaN \notin Int /\ None \notin {"good"} /\ None # "good"
  BY RecordsConstants DEF Records!ArgumentsFit, Records!Identifiers
<1> HIDE DEF r
<1>4. DOMAIN Chain!SCADARange = ranged
  BY DEF Chain!SCADARange
<1>5. \A f \in ranged : /\ r[f] \in Int /\ Chain!SCADARange[f][1] \in Int
                        /\ Chain!SCADARange[f][2] \in Int
                        /\ Chain!SCADARange[f][1] <= r[f] /\ r[f] <= Chain!SCADARange[f][2]
                        /\ r[f] # 1000
  BY <1>1, <1>2 DEF Chain!SCADARange
<1>6. Chain!SCADAMeasured(r)
  BY <1>3, <1>4, <1>5 DEF Chain!SCADAMeasured, Chain!PyAtMost, Chain!Infinity
<1>7. /\ ~ r.equipment_available \/ ~ r.grid_available \/ r.operating_state \in Chain!NonGenerating
             => r.active_power_kw = 0 /\ r.interval_energy_kwh = 0
      /\ r.operating_state = "normal" => r.equipment_available /\ r.grid_available
      /\ r.operating_state \in Chain!SCADAOperatingState
  <2>1. lost \/ operating \in Chain!NonGenerating
            => r.active_power_kw = 0 /\ r.interval_energy_kwh = 0
    BY <1>1
  <2>2. ~ lost /\ operating \notin Chain!NonGenerating
            => /\ r.equipment_available = TRUE /\ r.grid_available = TRUE
               /\ r.operating_state = operating
    BY <1>1 DEF Chain!NonGenerating
  <2>3. r.operating_state = "normal" => ~ lost /\ operating \notin Chain!NonGenerating
    BY <1>1 DEF Chain!NonGenerating
  <2>4. r.operating_state \in Chain!SCADAOperatingState
    BY <1>1 DEF Chain!SCADAOperatingState
  <2> QED
    BY <2>1, <2>2, <2>3, <2>4
<1>8. Chain!SCADAConsistent(r)
  BY <1>7 DEF Chain!SCADAConsistent, Chain!Idle, Chain!PyAbove
<1>9. Chain!SCADANormal(r).plant_id = "good" /\ Chain!SCADANormal(r).equipment_id = "good"
  BY <1>1, <1>3 DEF Chain!SCADANormal, Chain!Normalized, Chain!Code
<1>10. Chain!SCADAAccepted(r, 0)
  BY <1>1, <1>6, <1>7, <1>8, <1>9 DEF Chain!SCADAAccepted
<1>11. \A f \in DOMAIN r : Chain!SCADARow(r)[f] = r[f]
  BY <1>1 DEF Chain!SCADARow, Chain!Copied, Chain!SCADAFields
<1> DEFINE row == Chain!SCADARow(r)
<1>12. /\ \A f \in ranged : row[f] = r[f]
       /\ row.active_power_kw = r.active_power_kw /\ row.interval_energy_kwh = r.interval_energy_kwh
       /\ row.operating_state = r.operating_state /\ row.quality = r.quality
       /\ row.timestamp = r.timestamp /\ row.equipment_available = r.equipment_available
       /\ row.grid_available = r.grid_available
  BY <1>1, <1>11
<1> HIDE DEF row
<1>13. Chain!SCADAChecks(row)
  <2>1. \A f \in DOMAIN Chain!SCADARange :
          Chain!SqlAtMost(Chain!SCADARange[f][1], row[f]) /\ Chain!SqlAtMost(row[f], Chain!SCADARange[f][2])
    BY <1>3, <1>4, <1>5, <1>12 DEF Chain!SqlAtMost
  <2> QED
    BY <1>1, <1>7, <1>12, <2>1 DEF Chain!SCADAChecks
<1> QED
  BY <1>1, <1>2, <1>7, <1>10, <1>13 DEF row, r

\* A portfolio that counts its plants, and at least one of all else in each.
PortfolioFits(c) ==
    /\ \A k \in Chain!Counts : c[k] \in Nat \ {0}
    /\ c.capacity \in Nat

\* The piece of equipment of a plant that has a place among its own.
UnitAt(c, p, o) ==
    LET base == (p - 1) * Chain!PerPlant(c)
        feeders == c.transformers + c.feeders
        inverters == feeders + c.inverters
        stations == inverters + c.stations
        meters == stations + c.meters
        Unit(type, parent, rated) ==
            [id |-> base + o, type |-> type, parent |-> parent, rated |-> rated, plant |-> p] IN
    IF o <= c.transformers
    THEN Unit("transformer", 0, Chain!RoundedQuotient(c.capacity, c.transformers))
    ELSE IF o <= feeders
    THEN Unit("feeder", Chain!TakingTurns(base + 1, c.transformers, o - c.transformers), 0)
    ELSE IF o <= inverters
    THEN Unit("inverter", Chain!TakingTurns(base + c.transformers + 1, c.feeders, o - feeders),
              Chain!RoundedQuotient(c.capacity, c.inverters))
    ELSE IF o <= stations THEN Unit("station", 0, 0)
    ELSE IF o <= meters THEN Unit("meter", 0, 0)
    ELSE Unit("relay", Chain!TakingTurns(base + 1, c.transformers, o - meters), 0)

\* What there is in a plant is the sum of what there is of each kind.
LEMMA CountFacts ==
    ASSUME NEW c, PortfolioFits(c)
    PROVE  /\ c.plants \in Nat \ {0} /\ c.transformers \in Nat \ {0} /\ c.feeders \in Nat \ {0}
           /\ c.inverters \in Nat \ {0} /\ c.stations \in Nat \ {0} /\ c.meters \in Nat \ {0}
           /\ c.relays \in Nat \ {0} /\ c.capacity \in Nat
           /\ Chain!PerPlant(c) = c.transformers + c.feeders + c.inverters + c.stations + c.meters + c.relays
           /\ Chain!PerPlant(c) \in Nat \ {0}
<1>1. /\ c.plants \in Nat \ {0} /\ c.transformers \in Nat \ {0} /\ c.feeders \in Nat \ {0}
      /\ c.inverters \in Nat \ {0} /\ c.stations \in Nat \ {0} /\ c.meters \in Nat \ {0}
      /\ c.relays \in Nat \ {0} /\ c.capacity \in Nat
  BY DEF PortfolioFits, Chain!Counts
<1> QED
  BY <1>1 DEF Chain!PerPlant

\* The equipment of a plant is what has the places from the first to the last.
LEMMA UnitsOfPlant ==
    ASSUME NEW c, PortfolioFits(c), NEW p \in Int
    PROVE  {[id |-> u.id, type |-> u.type, parent |-> u.parent, rated |-> u.rated, plant |-> p]
                : u \in Chain!EquipmentAfter((p - 1) * Chain!PerPlant(c), c)}
           = {UnitAt(c, p, o) : o \in 1..Chain!PerPlant(c)}
<1> DEFINE N == Chain!PerPlant(c)
           base == (p - 1) * N
           feeder == c.transformers
           inverter == feeder + c.feeders
           station == inverter + c.inverters
           meter == station + c.stations
           relay == meter + c.meters
           share == Chain!RoundedQuotient(c.capacity, c.transformers)
           part == Chain!RoundedQuotient(c.capacity, c.inverters)
           First(k) == Chain!TakingTurns(base + 1, c.transformers, k)
           Fed(k) == Chain!TakingTurns(base + feeder + 1, c.feeders, k)
           Unit(type, number, parent, rated) ==
               [id |-> number, type |-> type, parent |-> parent, rated |-> rated]
           Own(u) == [id |-> u.id, type |-> u.type, parent |-> u.parent, rated |-> u.rated, plant |-> p]
           all == Chain!EquipmentAfter(base, c)
<1>1. /\ c.transformers \in Nat \ {0} /\ c.feeders \in Nat \ {0} /\ c.inverters \in Nat \ {0}
      /\ c.stations \in Nat \ {0} /\ c.meters \in Nat \ {0} /\ c.relays \in Nat \ {0}
      /\ N = relay + c.relays /\ N \in Nat
  BY CountFacts
<1>2. /\ base \in Int /\ feeder \in Nat /\ inverter \in Nat /\ station \in Nat /\ meter \in Nat
      /\ relay \in Nat
      /\ feeder < inverter /\ inverter < station /\ station < meter /\ meter < relay
  BY <1>1
<1>3. \A u : u \in all <=>
         \/ \E k \in 1..c.transformers : u = Unit("transformer", base + k, 0, share)
         \/ \E k \in 1..c.feeders : u = Unit("feeder", base + (feeder + k), First(k), 0)
         \/ \E k \in 1..c.inverters : u = Unit("inverter", base + (inverter + k), Fed(k), part)
         \/ \E k \in 1..c.stations : u = Unit("station", base + (station + k), 0, 0)
         \/ \E k \in 1..c.meters : u = Unit("meter", base + (meter + k), 0, 0)
         \/ \E k \in 1..c.relays : u = Unit("relay", base + (relay + k), First(k), 0)
  BY <1>1, <1>2 DEF Chain!EquipmentAfter
<1>4. \A o : UnitAt(c, p, o) = Own(
         IF o <= feeder THEN Unit("transformer", base + o, 0, share)
         ELSE IF o <= inverter THEN Unit("feeder", base + o, First(o - feeder), 0)
         ELSE IF o <= station THEN Unit("inverter", base + o, Fed(o - inverter), part)
         ELSE IF o <= meter THEN Unit("station", base + o, 0, 0)
         ELSE IF o <= relay THEN Unit("meter", base + o, 0, 0)
         ELSE Unit("relay", base + o, First(o - relay), 0))
  BY DEF UnitAt
<1>5. /\ \A k \in 1..c.transformers : k <= feeder /\ k \in 1..N
      /\ \A k \in 1..c.feeders :
             /\ ~ feeder + k <= feeder /\ feeder + k <= inverter
             /\ (feeder + k) - feeder = k /\ feeder + k \in 1..N
      /\ \A k \in 1..c.inverters :
             /\ ~ inverter + k <= feeder /\ ~ inverter + k <= inverter /\ inverter + k <= station
             /\ (inverter + k) - inverter = k /\ inverter + k \in 1..N
      /\ \A k \in 1..c.stations :
             /\ ~ station + k <= feeder /\ ~ station + k <= inverter /\ ~ station + k <= station
             /\ station + k <= meter /\ station + k \in 1..N
      /\ \A k \in 1..c.meters :
             /\ ~ meter + k <= feeder /\ ~ meter + k <= inverter /\ ~ meter + k <= station
             /\ ~ meter + k <= meter /\ meter + k <= relay /\ meter + k \in 1..N
      /\ \A k \in 1..c.relays :
             /\ ~ relay + k <= feeder /\ ~ relay + k <= inverter /\ ~ relay + k <= station
             /\ ~ relay + k <= meter /\ ~ relay + k <= relay
             /\ (relay + k) - relay = k /\ relay + k \in 1..N
  BY <1>1, <1>2
<1>6. ASSUME NEW o \in 1..N
      PROVE
         \/ \E k \in 1..c.transformers : o = k
         \/ \E k \in 1..c.feeders : o = feeder + k
         \/ \E k \in 1..c.inverters : o = inverter + k
         \/ \E k \in 1..c.stations : o = station + k
         \/ \E k \in 1..c.meters : o = meter + k
         \/ \E k \in 1..c.relays : o = relay + k
  <2>1. \/ o - 0 \in 1..c.transformers \/ o - feeder \in 1..c.feeders
        \/ o - inverter \in 1..c.inverters \/ o - station \in 1..c.stations
        \/ o - meter \in 1..c.meters \/ o - relay \in 1..c.relays
    BY <1>1, <1>2
  <2>2. \A m \in Nat : o = m + (o - m)
    OBVIOUS
  <2> QED
    BY <1>2, <2>1, <2>2
<1> HIDE DEF base, feeder, inverter, station, meter, relay, all, N, Unit, Own, First, Fed, share, part
<1>7. \A k \in 1..c.transformers :
         UnitAt(c, p, k) = Own(Unit("transformer", base + k, 0, share)) /\ k \in 1..N
  BY <1>4, <1>5
<1>8. \A k \in 1..c.feeders :
         UnitAt(c, p, feeder + k) = Own(Unit("feeder", base + (feeder + k), First(k), 0)) /\ feeder + k \in 1..N
  BY <1>4, <1>5
<1>9. \A k \in 1..c.inverters :
         UnitAt(c, p, inverter + k) = Own(Unit("inverter", base + (inverter + k), Fed(k), part)) /\ inverter + k \in 1..N
  BY <1>4, <1>5
<1>10. \A k \in 1..c.stations :
         UnitAt(c, p, station + k) = Own(Unit("station", base + (station + k), 0, 0)) /\ station + k \in 1..N
  BY <1>4, <1>5
<1>11. \A k \in 1..c.meters :
         UnitAt(c, p, meter + k) = Own(Unit("meter", base + (meter + k), 0, 0)) /\ meter + k \in 1..N
  BY <1>4, <1>5
<1>12. \A k \in 1..c.relays :
         UnitAt(c, p, relay + k) = Own(Unit("relay", base + (relay + k), First(k), 0)) /\ relay + k \in 1..N
  BY <1>4, <1>5
<1>13. \A u \in all : \E o \in 1..N : Own(u) = UnitAt(c, p, o)
  BY <1>3, <1>7, <1>8, <1>9, <1>10, <1>11, <1>12
<1>14. \A o \in 1..N : \E u \in all : Own(u) = UnitAt(c, p, o)
  <2> TAKE o \in 1..N
  <2>1. CASE \E k \in 1..c.transformers : o = k
    BY <1>3, <1>7, <2>1
  <2>2. CASE \E k \in 1..c.feeders : o = feeder + k
    BY <1>3, <1>8, <2>2
  <2>3. CASE \E k \in 1..c.inverters : o = inverter + k
    BY <1>3, <1>9, <2>3
  <2>4. CASE \E k \in 1..c.stations : o = station + k
    BY <1>3, <1>10, <2>4
  <2>5. CASE \E k \in 1..c.meters : o = meter + k
    BY <1>3, <1>11, <2>5
  <2>6. CASE \E k \in 1..c.relays : o = relay + k
    BY <1>3, <1>12, <2>6
  <2> QED
    BY Zenon, <1>6, <2>1, <2>2, <2>3, <2>4, <2>5, <2>6
<1>15. {Own(u) : u \in all} = {UnitAt(c, p, o) : o \in 1..N}
  BY Zenon, <1>13, <1>14
<1> QED
  BY Zenon, <1>15 DEF Own, all, base, N

\* What a portfolio has of equipment is what has a place in one of its plants.
LEMMA EquipmentPlaces ==
    ASSUME NEW c, PortfolioFits(c)
    PROVE  \A u : u \in Chain!Equipment(c)
               <=> \E p \in 1..c.plants : \E o \in 1..Chain!PerPlant(c) : u = UnitAt(c, p, o)
<1> DEFINE N == Chain!PerPlant(c)
           Plant(p) == {[id |-> u.id, type |-> u.type, parent |-> u.parent, rated |-> u.rated, plant |-> p]
                           : u \in Chain!EquipmentAfter((p - 1) * Chain!PerPlant(c), c)}
<1>1. Chain!Equipment(c) = UNION {Plant(p) : p \in 1..c.plants}
  BY Zenon DEF Chain!Equipment
<1>2. ASSUME NEW p \in 1..c.plants PROVE Plant(p) = {UnitAt(c, p, o) : o \in 1..N}
  <2>1. p \in Int
    OBVIOUS
  <2> QED
    BY Zenon, UnitsOfPlant, <2>1
<1> HIDE DEF N, Plant
<1>3. \A u : u \in Chain!Equipment(c) <=> \E p \in 1..c.plants : \E o \in 1..N : u = UnitAt(c, p, o)
  BY Zenon, <1>1, <1>2
<1> QED
  BY Zenon, <1>3 DEF N

\* The number of a piece of equipment counts the places before it.
LEMMA UnitNumbers ==
    ASSUME NEW c, PortfolioFits(c), NEW p \in Int, NEW o \in 1..Chain!PerPlant(c)
    PROVE  LET u == UnitAt(c, p, o) IN
           /\ u.id = (p - 1) * Chain!PerPlant(c) + o /\ u.plant = p
           /\ u.type = IF o <= c.transformers THEN "transformer"
                       ELSE IF o <= c.transformers + c.feeders THEN "feeder"
                       ELSE IF o <= c.transformers + c.feeders + c.inverters THEN "inverter"
                       ELSE IF o <= c.transformers + c.feeders + c.inverters + c.stations THEN "station"
                       ELSE IF o <= c.transformers + c.feeders + c.inverters + c.stations + c.meters
                       THEN "meter" ELSE "relay"
           /\ u.parent =
                  IF u.type \in {"feeder", "relay"}
                  THEN Chain!TakingTurns((p - 1) * Chain!PerPlant(c) + 1, c.transformers,
                           IF u.type = "feeder" THEN o - c.transformers
                           ELSE o - (c.transformers + c.feeders + c.inverters + c.stations + c.meters))
                  ELSE IF u.type = "inverter"
                  THEN Chain!TakingTurns((p - 1) * Chain!PerPlant(c) + c.transformers + 1, c.feeders,
                                         o - (c.transformers + c.feeders))
                  ELSE 0
           /\ u.rated = IF u.type = "transformer" THEN Chain!RoundedQuotient(c.capacity, c.transformers)
                        ELSE IF u.type = "inverter" THEN Chain!RoundedQuotient(c.capacity, c.inverters)
                        ELSE 0
BY DEF UnitAt

\* A place in a plant is a number of the portfolio, of no other place.
LEMMA PlacesNumbered ==
    ASSUME NEW n \in Nat \ {0}, NEW m \in Nat
    PROVE  /\ \A p \in 1..m, o \in 1..n : (p - 1) * n + o \in 1..(m * n)
           /\ \A p \in 1..m, o \in 1..n, q \in 1..m, r \in 1..n :
                  (p - 1) * n + o = (q - 1) * n + r => p = q /\ o = r
           /\ \A x \in 1..(m * n) : \E p \in 1..m, o \in 1..n : x = (p - 1) * n + o
<1>1. ASSUME NEW a \in Int, NEW b \in Int, a <= b PROVE a * n <= b * n
  BY <1>1
<1>2. m * n \in Nat
  OBVIOUS
<1>3. ASSUME NEW p \in 1..m, NEW o \in 1..n PROVE (p - 1) * n + o \in 1..(m * n)
  <2>1. p - 1 \in Nat /\ p <= m /\ p \in Int
    OBVIOUS
  <2>2. p * n <= m * n /\ (p - 1) * n \in Nat /\ p * n \in Nat
    BY <1>1, <2>1
  <2>3. p * n = (p - 1) * n + n
    OBVIOUS
  <2> QED
    BY <1>2, <2>2, <2>3
<1>4. ASSUME NEW p \in Int, NEW o \in 1..n, NEW q \in Int, NEW r \in 1..n, p + 1 <= q
      PROVE  (p - 1) * n + o < (q - 1) * n + r
  <2>1. p * n <= (q - 1) * n
    BY <1>1, <1>4
  <2>2. p * n = (p - 1) * n + n /\ (p - 1) * n \in Int /\ (q - 1) * n \in Int
    OBVIOUS
  <2> QED
    BY <2>1, <2>2
<1>5. ASSUME NEW p \in 1..m, NEW o \in 1..n, NEW q \in 1..m, NEW r \in 1..n,
             (p - 1) * n + o = (q - 1) * n + r
      PROVE  p = q /\ o = r
  <2>1. (p - 1) * n \in Int /\ (q - 1) * n \in Int
    OBVIOUS
  <2>2. ~ p + 1 <= q /\ ~ q + 1 <= p
    BY <1>4, <1>5, <2>1
  <2>3. p = q
    BY <2>2
  <2> QED
    BY <1>5, <2>1, <2>3
<1>6. ASSUME NEW x \in 1..(m * n) PROVE \E p \in 1..m, o \in 1..n : x = (p - 1) * n + o
  <2> DEFINE k == (x - 1) \div n
             j == (x - 1) % n
  <2>1. x \in Int /\ 1 <= x /\ x <= m * n
    BY <1>2
  <2>2. x - 1 \in Int
    BY <2>1
  <2>3. /\ k \in Int /\ j \in 0..(n - 1) /\ x - 1 = k * n + j
        /\ \A b \in Int : b * n <= x - 1 <=> b <= k
    BY Zenon, <2>2, Quotients
  <2> HIDE DEF k, j
  <2>4. 0 * n = 0
    OBVIOUS
  <2>5. k + 1 \in 1..m /\ j + 1 \in 1..n
    BY <1>2, <2>1, <2>3, <2>4
  <2>6. k * n \in Int /\ (k + 1) - 1 = k
    BY <2>3
  <2>7. x = ((k + 1) - 1) * n + (j + 1)
    BY <2>1, <2>3, <2>6
  <2> QED
    BY Zenon, <2>5, <2>7
<1> QED
  BY <1>3, <1>5, <1>6

\* The equipment is numbered from one on, no number given twice.
LEMMA EquipmentNumbered ==
    ASSUME NEW c, PortfolioFits(c)
    PROVE  /\ {u.id : u \in Chain!Equipment(c)} = 1..(c.plants * Chain!PerPlant(c))
           /\ IsFiniteSet(Chain!Equipment(c))
           /\ Cardinality(Chain!Equipment(c)) = c.plants * Chain!PerPlant(c)
<1> DEFINE N == Chain!PerPlant(c)
           P == c.plants
           equipment == Chain!Equipment(c)
<1>1. N \in Nat \ {0} /\ P \in Nat /\ P * N \in Nat
  BY CountFacts
<1>2. \A u : u \in equipment <=> \E p \in 1..P : \E o \in 1..N : u = UnitAt(c, p, o)
  BY Zenon, EquipmentPlaces
<1> DEFINE At(p, o) == (p - 1) * N + o
<1>3. \A p \in 1..P, o \in 1..N : UnitAt(c, p, o).id = At(p, o)
  BY UnitNumbers
<1>n. /\ \A p \in 1..P, o \in 1..N : At(p, o) \in 1..(P * N)
      /\ \A p \in 1..P, o \in 1..N, q \in 1..P, r \in 1..N : At(p, o) = At(q, r) => p = q /\ o = r
      /\ \A x \in 1..(P * N) : \E p \in 1..P, o \in 1..N : x = At(p, o)
  BY Zenon, <1>1, PlacesNumbered
<1> HIDE DEF N, P, equipment, At
<1>4. \A u \in equipment : u.id \in 1..(P * N)
  BY <1>2, <1>3, <1>n
<1>5. \A x \in 1..(P * N) : \E u \in equipment : u.id = x
  <2> TAKE x \in 1..(P * N)
  <2>1. PICK p \in 1..P, o \in 1..N : x = At(p, o)
    BY <1>n
  <2> QED
    BY <1>2, <1>3, <2>1
<1>6. \A u, v \in equipment : u.id = v.id => u = v
  <2> TAKE u, v \in equipment
  <2>1. PICK p \in 1..P, o \in 1..N : u = UnitAt(c, p, o)
    BY <1>2
  <2>2. PICK q \in 1..P, r \in 1..N : v = UnitAt(c, q, r)
    BY <1>2
  <2>3. u.id = At(p, o) /\ v.id = At(q, r)
    BY <1>3, <2>1, <2>2
  <2>4. At(p, o) = At(q, r) => p = q /\ o = r
    BY <1>n, <2>1, <2>2
  <2> QED
    BY Zenon, <2>1, <2>2, <2>3, <2>4
<1>7. {u.id : u \in equipment} = 1..(P * N)
  BY Zenon, <1>4, <1>5
<1> DEFINE T == 1..(P * N)
           f == [x \in T |-> CHOOSE u \in equipment : u.id = x]
<1>8. \A x \in T : f[x] \in equipment /\ f[x].id = x
  BY Zenon, <1>5
<1>9. \A u \in equipment : u.id \in T /\ f[u.id] = u
  BY Zenon, <1>4, <1>6, <1>8
<1>10. f \in Bijection(T, equipment)
  <2> HIDE DEF T
  <2>1. f \in [T -> equipment]
    BY Zenon, <1>8
  <2> HIDE DEF f
  <2>2. \A x, y \in T : f[x] = f[y] => x = y
    BY Zenon, <1>8
  <2>3. \A u \in equipment : \E x \in T : f[x] = u
    BY Zenon, <1>9
  <2> QED
    BY <2>1, <2>2, <2>3 DEF Bijection, Injection, IsInjective, Surjection
<1> HIDE DEF f
<1>11. IsFiniteSet(T) /\ Cardinality(T) = P * N
  <2>1. 1 \in Int /\ P * N \in Int /\ (1 > P * N => P * N = 0) /\ P * N - 1 + 1 = P * N
    BY <1>1
  <2> QED
    BY <2>1, FS_Interval
<1>12. IsFiniteSet(equipment) /\ Cardinality(equipment) = Cardinality(T)
  <2> HIDE DEF T
  <2>1. ExistsBijection(T, equipment)
    BY Zenon, <1>10 DEF ExistsBijection
  <2> QED
    BY Zenon, <1>11, <2>1, FS_Bijection
<1> QED
  BY Zenon, <1>7, <1>11, <1>12 DEF N, P, equipment

\* Who takes turns gets one of the parents.
LEMMA TurnsTaken ==
    ASSUME NEW first \in Int, NEW n \in Nat \ {0}, NEW k \in Int
    PROVE  Chain!TakingTurns(first, n, k) - first \in 0..(n - 1)
<1>1. k - 1 \in Int
  OBVIOUS
<1>2. (k - 1) % n \in 0..(n - 1)
  BY Zenon, <1>1, Quotients
<1> QED
  BY <1>2 DEF Chain!TakingTurns

\* A quotient is rounded by half of one at most.
LEMMA QuotientRounded ==
    ASSUME NEW a \in Nat, NEW d \in Nat \ {0}
    PROVE  LET r == Chain!RoundedQuotient(a, d) IN
           /\ r \in Nat
           /\ 2 * (r * d - a) <= d /\ 2 * (r * d - a) >= 0 - d
<1> DEFINE r == Chain!RoundedQuotient(a, d)
           x == 2 * a + d
           e == 2 * d
<1>1. x \in Int /\ e \in Nat \ {0} /\ 0 * e <= x
  OBVIOUS
<1>2. r = x \div e
  BY DEF Chain!RoundedQuotient
<1> HIDE DEF r, x, e
<1>3. r \in Int /\ x % e \in 0..(e - 1) /\ x = r * e + (x % e)
      /\ \A n \in Int : n * e <= x <=> n <= r
  BY Zenon, <1>1, <1>2, Quotients
<1>4. r * e = 2 * (r * d) /\ r * d \in Int
  BY <1>3 DEF e
<1>5. r \in Nat
  BY <1>1, <1>3
<1> QED
  BY <1>3, <1>4, <1>5 DEF r, x, e

\* A feeder and a relay belong to a transformer of their plant, an inverter
\* to a feeder: what comes before them in it.
LEMMA ParentsFeed ==
    ASSUME NEW c, PortfolioFits(c), NEW u \in Chain!Equipment(c)
    PROVE  IF u.type \in {"feeder", "relay", "inverter"}
           THEN \E q \in Chain!Equipment(c) :
                    /\ q.id = u.parent /\ q.plant = u.plant /\ q.id < u.id
                    /\ IF u.type = "inverter" THEN q.type = "feeder" ELSE q.type = "transformer"
           ELSE u.parent = 0
<1> DEFINE N == Chain!PerPlant(c)
           feeder == c.transformers
           inverter == feeder + c.feeders
           station == inverter + c.inverters
           meter == station + c.stations
           relay == meter + c.meters
<1>1. /\ feeder \in Nat \ {0} /\ c.feeders \in Nat \ {0} /\ c.inverters \in Nat \ {0}
      /\ c.stations \in Nat \ {0} /\ c.meters \in Nat \ {0} /\ c.relays \in Nat \ {0}
      /\ N = relay + c.relays
  BY CountFacts
<1>2. /\ inverter \in Nat /\ station \in Nat /\ meter \in Nat /\ relay \in Nat /\ N \in Nat
      /\ 0 < feeder /\ feeder < inverter /\ inverter < station /\ station < meter /\ meter < relay
      /\ relay < N
  BY <1>1
<1>3. PICK p \in 1..c.plants, o \in 1..N : u = UnitAt(c, p, o)
  BY EquipmentPlaces
<1> DEFINE base == (p - 1) * N
<1>4. base \in Int
  BY <1>2
<1>5. /\ u.id = base + o /\ u.plant = p
      /\ u.type = IF o <= feeder THEN "transformer" ELSE IF o <= inverter THEN "feeder"
                  ELSE IF o <= station THEN "inverter" ELSE IF o <= meter THEN "station"
                  ELSE IF o <= relay THEN "meter" ELSE "relay"
      /\ u.parent = IF u.type \in {"feeder", "relay"}
                    THEN Chain!TakingTurns(base + 1, feeder, IF u.type = "feeder" THEN o - feeder
                                                             ELSE o - relay)
                    ELSE IF u.type = "inverter"
                    THEN Chain!TakingTurns(base + feeder + 1, c.feeders, o - inverter) ELSE 0
  BY <1>3, UnitNumbers
<1>6. ASSUME NEW k \in 1..N
      PROVE  LET q == UnitAt(c, p, k) IN
             /\ q \in Chain!Equipment(c) /\ q.id = base + k /\ q.plant = p
             /\ k <= feeder => q.type = "transformer"
             /\ k > feeder /\ k <= inverter => q.type = "feeder"
  <2>1. UnitAt(c, p, k) \in Chain!Equipment(c)
    BY Zenon, <1>3, EquipmentPlaces
  <2> QED
    BY <1>1, <1>2, <2>1, UnitNumbers
<1>7. \A k \in Int : /\ Chain!TakingTurns(base + 1, feeder, k) - (base + 1) \in 0..(feeder - 1)
                     /\ Chain!TakingTurns(base + feeder + 1, c.feeders, k) - (base + feeder + 1)
                            \in 0..(c.feeders - 1)
                     /\ Chain!TakingTurns(base + 1, feeder, k) \in Int
                     /\ Chain!TakingTurns(base + feeder + 1, c.feeders, k) \in Int
  <2> TAKE k \in Int
  <2>1. base + 1 \in Int /\ base + feeder + 1 \in Int
    BY <1>1, <1>4
  <2>2. /\ Chain!TakingTurns(base + 1, feeder, k) - (base + 1) \in 0..(feeder - 1)
        /\ Chain!TakingTurns(base + feeder + 1, c.feeders, k) - (base + feeder + 1) \in 0..(c.feeders - 1)
    BY Zenon, <1>1, <2>1, TurnsTaken
  <2>3. (k - 1) % feeder \in Int /\ (k - 1) % c.feeders \in Int
    BY <1>1
  <2> QED
    BY <2>1, <2>2, <2>3 DEF Chain!TakingTurns
<1> HIDE DEF base, feeder, inverter, station, meter, relay, N
<1>8. CASE u.type \in {"feeder", "relay"}
  <2> DEFINE k == u.parent - base
  <2>1. u.parent \in Int /\ u.parent - (base + 1) \in 0..(feeder - 1)
    <3>1. o - feeder \in Int /\ o - relay \in Int
      BY <1>1, <1>2
    <3> QED
      BY <1>5, <1>7, <1>8, <3>1
  <2>2. k \in 1..N /\ k <= feeder /\ base + k = u.parent /\ k < o
    BY <1>1, <1>2, <1>4, <1>5, <1>8, <2>1
  <2> HIDE DEF k
  <2>3. base + k < base + o
    BY <1>4, <2>2
  <2> QED
    BY <1>5, <1>6, <1>8, <2>2, <2>3
<1>9. CASE u.type = "inverter"
  <2> DEFINE k == u.parent - base
  <2>1. u.parent \in Int /\ u.parent - (base + feeder + 1) \in 0..(c.feeders - 1)
    <3>1. o - inverter \in Int
      BY <1>1, <1>2
    <3> QED
      BY <1>5, <1>7, <1>9, <3>1
  <2>2. inverter = feeder + c.feeders
    BY DEF inverter
  <2>3. k \in 1..N /\ k > feeder /\ k <= inverter /\ base + k = u.parent /\ k < o
    BY <1>1, <1>2, <1>4, <1>5, <1>9, <2>1, <2>2
  <2> HIDE DEF k
  <2>4. base + k < base + o
    BY <1>4, <2>3
  <2> QED
    BY <1>5, <1>6, <1>9, <2>3, <2>4
<1>10. CASE u.type \notin {"feeder", "relay", "inverter"}
  BY <1>5, <1>10
<1> QED
  BY <1>8, <1>9, <1>10

\* The master data of a portfolio whose counts fit is sound.
LEMMA PortfolioSound ==
    ASSUME NEW c, PortfolioFits(c),
           Chain!ReferencesValid(1..c.plants, Chain!Equipment(c), Chain!Meters(c))
    PROVE  Chain!PortfolioIsSound(c)
<1> DEFINE equipment == Chain!Equipment(c)
           Inverters(p) == {u \in Chain!OfType(equipment, "inverter") : u.plant = p}
<1>1. UNION {Chain!Feeds[t] : t \in DOMAIN Chain!Feeds} = {"feeder", "relay", "inverter"}
  <2>1. /\ DOMAIN Chain!Feeds = {"transformer", "feeder"}
        /\ Chain!Feeds["transformer"] = {"feeder", "relay"} /\ Chain!Feeds["feeder"] = {"inverter"}
    BY DEF Chain!Feeds
  <2> QED
    BY <2>1
<1>2. ASSUME NEW u \in equipment
      PROVE  IF u.type \in UNION {Chain!Feeds[t] : t \in DOMAIN Chain!Feeds}
             THEN \E q \in equipment :
                      /\ q.id = u.parent /\ q.plant = u.plant /\ q.id < u.id
                      /\ q.type \in DOMAIN Chain!Feeds /\ u.type \in Chain!Feeds[q.type]
             ELSE u.parent = 0
  <2>1. CASE u.type \in {"feeder", "relay", "inverter"}
    <3>1. PICK q \in equipment :
             /\ q.id = u.parent /\ q.plant = u.plant /\ q.id < u.id
             /\ IF u.type = "inverter" THEN q.type = "feeder" ELSE q.type = "transformer"
      BY <2>1, ParentsFeed
    <3>2. q.type \in DOMAIN Chain!Feeds /\ u.type \in Chain!Feeds[q.type]
      BY <2>1, <3>1 DEF Chain!Feeds
    <3> QED
      BY Zenon, <1>1, <2>1, <3>1, <3>2
  <2>2. CASE u.type \notin {"feeder", "relay", "inverter"}
    BY <1>1, <2>2, ParentsFeed
  <2> QED
    BY Zenon, <2>1, <2>2
<1>3. ASSUME NEW p \in 1..c.plants, NEW u \in Inverters(p)
      PROVE  LET error == u.rated * c.inverters - c.capacity IN
             2 * error <= c.inverters /\ 2 * error >= 0 - c.inverters
  <2>1. u \in equipment /\ u.type = "inverter"
    BY DEF Chain!OfType
  <2>2. u.rated = Chain!RoundedQuotient(c.capacity, c.inverters)
    <3>1. PICK q \in 1..c.plants, o \in 1..Chain!PerPlant(c) : u = UnitAt(c, q, o)
      BY <2>1, EquipmentPlaces
    <3> QED
      BY <2>1, <3>1, UnitNumbers
  <2>3. c.capacity \in Nat /\ c.inverters \in Nat \ {0}
    BY CountFacts
  <2> QED
    BY Zenon, <2>2, <2>3, QuotientRounded
<1>4. /\ {u.id : u \in equipment} = 1..(c.plants * Chain!PerPlant(c))
      /\ Chain!Cardinality(equipment) = c.plants * Chain!PerPlant(c)
  BY Zenon, EquipmentNumbered, ChainCounts
<1> QED
  BY Zenon, <1>2, <1>3, <1>4 DEF Chain!PortfolioIsSound

\* What is measured is a portfolio whose counts fit.
LEMMA ChainFits ==
    ASSUME input \in MeasurementInputs, Chain!PortfolioAccepted(input.portfolio)
    PROVE  /\ PortfolioFits(input.portfolio) /\ input.portfolio.capacity \in Nat
           /\ input.portfolio.plants \in Nat \ {0}
           /\ input.intervals \in Nat \ {0} /\ input.skies \subseteq Nat
           /\ input.losses \in 0..3 /\ input.auxiliary \in Nat
<1>1. /\ \A k \in Chain!Counts : input.portfolio[k] \in Int /\ input.portfolio[k] > 0
      /\ input.portfolio.capacity \in Nat
      /\ input.intervals \in Nat \ {0} /\ input.skies \subseteq Nat
      /\ input.losses \in 0..3 /\ input.auxiliary \in Nat
  BY Zenon, ChainConstants DEF Chain!MeasurementFits, Chain!PortfolioAccepted
<1>2. PortfolioFits(input.portfolio)
  BY <1>1 DEF PortfolioFits
<1> QED
  BY <1>1, <1>2, CountFacts

\* Each plant has inverters, as many as there are places for them, rated for
\* some power.
LEMMA PlantInverters ==
    ASSUME PortfolioFits(input.portfolio), NEW p \in 1..input.portfolio.plants
    PROVE  /\ IsFiniteSet(Chain!Inverters(p)) /\ Chain!Inverters(p) # {}
           /\ \A u \in Chain!Inverters(p) : u.rated \in Nat
<1> DEFINE c == input.portfolio
           equipment == Chain!Equipment(c)
           o == c.transformers + c.feeders + 1
<1>1. Chain!Inverters(p) = {u \in equipment : u.type = "inverter" /\ u.plant = p}
  BY DEF Chain!Inverters, Chain!OfType
<1>2. IsFiniteSet(Chain!Inverters(p))
  <2>1. IsFiniteSet(equipment)
    BY EquipmentNumbered
  <2> HIDE DEF equipment
  <2>2. Chain!Inverters(p) \subseteq equipment
    BY <1>1
  <2> QED
    BY <2>1, <2>2, FS_Subset
<1>3. Chain!Inverters(p) # {}
  <2>1. /\ c.transformers \in Nat \ {0} /\ c.feeders \in Nat \ {0} /\ c.inverters \in Nat \ {0}
        /\ c.stations \in Nat \ {0} /\ c.meters \in Nat \ {0} /\ c.relays \in Nat \ {0}
        /\ Chain!PerPlant(c)
               = c.transformers + c.feeders + c.inverters + c.stations + c.meters + c.relays
    BY CountFacts
  <2>2. /\ o \in 1..Chain!PerPlant(c)
        /\ ~ o <= c.transformers /\ ~ o <= c.transformers + c.feeders
        /\ o <= c.transformers + c.feeders + c.inverters
    BY <2>1
  <2> HIDE DEF o
  <2>3. UnitAt(c, p, o).type = "inverter" /\ UnitAt(c, p, o).plant = p
    BY <2>2, UnitNumbers
  <2>4. UnitAt(c, p, o) \in equipment
    BY Zenon, <2>2, EquipmentPlaces
  <2> QED
    BY <1>1, <2>3, <2>4
<1>4. ASSUME NEW u \in Chain!Inverters(p) PROVE u.rated \in Nat
  <2>1. PICK q \in 1..c.plants, r \in 1..Chain!PerPlant(c) : u = UnitAt(c, q, r)
    BY <1>1, EquipmentPlaces
  <2>2. u.rated = Chain!RoundedQuotient(c.capacity, c.inverters)
    BY <1>1, <2>1, UnitNumbers
  <2>3. c.capacity \in Nat /\ c.inverters \in Nat \ {0}
    BY CountFacts
  <2> QED
    BY <2>2, <2>3, QuotientRounded
<1> QED
  BY <1>2, <1>3, <1>4

\* Whatever is drawn, the readings of a plant's inverters are sound.
LEMMA GroupFacts ==
    ASSUME PortfolioFits(input.portfolio), NEW p \in 1..input.portfolio.plants,
           NEW sky \in Nat, NEW quality \in Chain!Quality,
           NEW draws \in [Chain!Inverters(p) -> Chain!Draws]
    PROVE  Chain!GroupSound(
               [u \in Chain!Inverters(p) |->
                   Chain!InverterObservation(u, Chain!WeatherObservation(sky, quality), draws[u])])
<1> DEFINE weather == Chain!WeatherObservation(sky, quality)
           group == [u \in Chain!Inverters(p) |-> Chain!InverterObservation(u, weather, draws[u])]
<1>1. weather.ghi \in Nat /\ weather.quality \in Chain!Quality
  BY WeatherFacts
<1> HIDE DEF weather
<1>2. /\ IsFiniteSet(Chain!Inverters(p)) /\ Chain!Inverters(p) # {}
      /\ \A u \in Chain!Inverters(p) : u.rated \in Nat
  BY PlantInverters
<1>3. ASSUME NEW u \in Chain!Inverters(p)
      PROVE  LET r == Chain!InverterObservation(u, weather, draws[u]) IN
             /\ r.active_power_kw \in Nat /\ r.quality \in Chain!Quality
             /\ r.equipment_available \in BOOLEAN /\ r.grid_available = (r.quality # "missing")
             /\ ~ r.equipment_available => r.active_power_kw = 0
             /\ r.quality = "missing" => r.active_power_kw = 0
             /\ Chain!SCADAAccepted(r, 0) /\ Chain!SCADAChecks(Chain!SCADARow(r))
  <2> DEFINE drawn == draws[u]
             operating == Chain!SampleOperatingState(weather, drawn.operating)
             power == Chain!ActivePower(u, weather, operating)
             measured == Chain!SampleQuality(weather, drawn.quality)
  <2>1. drawn.operating \in {"normal", "derated", "fault", "maintenance"}
        /\ drawn.quality \in Chain!Quality
    BY DEF Chain!Draws
  <2> HIDE DEF drawn
  <2>2. /\ operating \in {"normal", "derated", "fault", "maintenance", "night"}
        /\ power \in 0..50 /\ (operating \in Chain!NonGenerating => power = 0)
    BY <1>1, <1>2, <2>1, InverterPower
  <2>3. measured \in Chain!Quality
    BY <1>1, <2>1, QualityFacts
  <2>4. Chain!InverterObservation(u, weather, draws[u]) = Chain!Reading(power, operating, measured)
    BY Zenon DEF Chain!InverterObservation, drawn
  <2> HIDE DEF operating, power, measured
  <2> DEFINE r == Chain!Reading(power, operating, measured)
  <2>5. /\ r.active_power_kw \in Nat /\ r.quality = measured
        /\ r.equipment_available \in BOOLEAN /\ r.grid_available = (measured # "missing")
        /\ ~ r.equipment_available => r.active_power_kw = 0
        /\ measured = "missing" => r.active_power_kw = 0
        /\ Chain!SCADAAccepted(r, 0) /\ Chain!SCADAChecks(Chain!SCADARow(r))
    BY ZenonT(40), <2>2, <2>3, ReadingFacts
  <2> QED
    BY Zenon, <2>3, <2>4, <2>5
<1>4. DOMAIN group = Chain!Inverters(p)
  OBVIOUS
<1>5. \A u \in Chain!Inverters(p) : group[u] = Chain!InverterObservation(u, weather, draws[u])
  OBVIOUS
<1> HIDE DEF group
<1>6. Chain!GroupSound(group)
  <2>1. Chain!IsFiniteSet(DOMAIN group) /\ DOMAIN group # {}
    BY Zenon, <1>2, <1>4, ChainCounts
  <2>2. ASSUME NEW u \in DOMAIN group
        PROVE  LET r == group[u] IN
               /\ r.active_power_kw \in Nat /\ r.quality \in Chain!Quality
               /\ r.equipment_available \in BOOLEAN /\ r.grid_available = (r.quality # "missing")
               /\ ~ r.equipment_available => r.active_power_kw = 0
               /\ r.quality = "missing" => r.active_power_kw = 0
               /\ Chain!SCADAAccepted(r, 0) /\ Chain!SCADAChecks(Chain!SCADARow(r))
    BY Zenon, <1>3, <1>4, <1>5
  <2> QED
    BY Zenon, <2>1, <2>2 DEF Chain!GroupSound
<1> QED
  BY Zenon, <1>6 DEF group, weather

\* What a plant delivers is at most what its inverters make; a plant that does
\* not work makes nothing.
LEMMA DeliveredPower ==
    ASSUME NEW gross \in Nat, NEW losses \in 0..3
    PROVE  LET loss == (gross * losses) \div 8 IN loss \in Nat /\ gross - 2 * loss \in Nat
<1> DEFINE a == gross * losses
           loss == a \div 8
<1>1. a \in Nat /\ a <= 3 * gross
  <2>1. losses = 0 \/ losses = 1 \/ losses = 2 \/ losses = 3
    OBVIOUS
  <2> QED
    BY <2>1
<1> HIDE DEF a
<1>2. loss \in Nat /\ 8 * loss <= a
  BY <1>1
<1> HIDE DEF loss
<1>3. gross - 2 * loss \in Nat
  BY <1>1, <1>2
<1> QED
  BY <1>2, <1>3 DEF a, loss

\* What of the inverters' readings makes the reading of their plant.
LEMMA InvertersPower ==
    ASSUME NEW group, Chain!GroupSound(group)
    PROVE  LET available == \E u \in DOMAIN group : group[u].equipment_available
               grid == \A u \in DOMAIN group : group[u].grid_available
               quality == Chain!AggregateQuality(group) IN
           /\ Chain!Power(group) \in Nat
           /\ ~ available => Chain!Power(group) = 0
           /\ ~ grid <=> \E u \in DOMAIN group : group[u].quality = "missing"
           /\ quality \in Chain!Quality
           /\ quality = "missing" => Chain!Power(group) = 0 /\ ~ grid
<1> DEFINE D == DOMAIN group
           f == [u \in D |-> group[u].active_power_kw]
           qualities == {group[u].quality : u \in D}
           quality == Chain!AggregateQuality(group)
<1>1. /\ IsFiniteSet(D) /\ D # {}
      /\ \A u \in D : /\ group[u].active_power_kw \in Nat /\ group[u].quality \in Chain!Quality
                      /\ group[u].equipment_available \in BOOLEAN
                      /\ group[u].grid_available = (group[u].quality # "missing")
                      /\ ~ group[u].equipment_available => group[u].active_power_kw = 0
                      /\ group[u].quality = "missing" => group[u].active_power_kw = 0
  BY Zenon, ChainCounts DEF Chain!GroupSound
<1>2. Chain!Power(group) = SumFunctionOnSet(f, D)
  <2>1. DOMAIN f = D
    OBVIOUS
  <2>2. Chain!Power(group) = Chain!SumFunction(f)
    BY Zenon DEF Chain!Power
  <2> HIDE DEF f
  <2> QED
    BY Zenon, <2>1, <2>2, ChainCounts
<1>3. \A u \in D : f[u] = group[u].active_power_kw
  OBVIOUS
<1>4. /\ \A S : S = qualities => (S = {"missing"} => quality = "missing")
                               /\ (S # {"missing"} => quality # "missing")
      /\ quality \in Chain!Quality
  <2>1. quality = CASE qualities = {"missing"} -> "missing"
                    [] qualities # {"missing"} /\ qualities \cap {"missing", "estimated"} # {}
                           -> "estimated"
                    [] qualities = {"valid"} -> "valid"
    BY Zenon DEF Chain!AggregateQuality
  <2>2. qualities # {} /\ qualities \subseteq {"missing", "estimated", "valid"}
    BY <1>1 DEF Chain!Quality
  <2> HIDE DEF qualities, quality
  <2>3. qualities \cap {"missing", "estimated"} = {} => qualities = {"valid"}
    BY <2>2
  <2> QED
    BY <2>1, <2>2, <2>3 DEF Chain!Quality
<1> HIDE DEF D, f, quality
<1>5. /\ Chain!Power(group) \in Nat
      /\ (\A u \in D : group[u].active_power_kw = 0) => Chain!Power(group) = 0
  <2>1. \A u \in D : f[u] \in Nat
    BY <1>1, <1>3
  <2>2. /\ SumFunctionOnSet(f, D) \in Nat
        /\ SumFunctionOnSet(f, D) = 0 <=> \A u \in D : f[u] = 0
    BY Zenon, <1>1, <2>1, SumOfNaturals
  <2> QED
    BY Zenon, <1>2, <1>3, <2>2
<1>6. (~ \A u \in D : group[u].grid_available) <=> \E u \in D : group[u].quality = "missing"
  BY Zenon, <1>1
<1>7. (~ \E u \in D : group[u].equipment_available) => Chain!Power(group) = 0
  BY Zenon, <1>1, <1>5
<1>8. quality = "missing" =>
        Chain!Power(group) = 0 /\ ~ \A u \in D : group[u].grid_available
  <2> SUFFICES ASSUME quality = "missing"
               PROVE  Chain!Power(group) = 0 /\ ~ \A u \in D : group[u].grid_available
    OBVIOUS
  <2>1. qualities = {"missing"}
    BY Zenon, <1>4
  <2>2. \A u \in D : group[u].quality = "missing"
    BY <2>1
  <2> QED
    BY Zenon, <1>1, <1>5, <1>6, <2>2
<1> QED
  BY Zenon, <1>4, <1>5, <1>6, <1>7, <1>8 DEF D, quality

\* The reading of a plant is one its own record accepts.
LEMMA PlantReadingFacts ==
    ASSUME NEW group, Chain!GroupSound(group), input.losses \in 0..3, input.auxiliary \in Nat,
           input.portfolio.capacity \in Nat
    PROVE  LET r == Chain!PlantReading(group)
               delivered == Chain!Power(group) - r.transformer_loss - r.collection_loss
               silent == \E u \in DOMAIN group : group[u].quality = "missing" IN
           /\ r \in Chain!PlantReadings /\ Chain!PlantReadingAccepted(r)
           /\ r.export <= input.portfolio.capacity
           /\ r.export # delivered => silent \/ delivered > input.portfolio.capacity
           /\ silent => r.export = 0
           /\ r.import > 0 => Chain!Power(group) = 0 /\ ~ silent
<1> DEFINE r == Chain!PlantReading(group)
           gross == Chain!Power(group)
           grid == \A u \in DOMAIN group : group[u].grid_available
           available == \E u \in DOMAIN group : group[u].equipment_available
           silent == \E u \in DOMAIN group : group[u].quality = "missing"
           loss == (gross * input.losses) \div 8
           exported == IF grid /\ available
                       THEN Chain!Smaller(Chain!Larger(gross - 2 * loss, 0), input.portfolio.capacity)
                       ELSE 0
           imported == IF ~ grid \/ (gross > 0 /\ available) THEN 0 ELSE input.auxiliary
           quality == Chain!AggregateQuality(group)
<1>1. /\ gross \in Nat /\ (~ available => gross = 0) /\ (~ grid <=> silent)
      /\ quality \in Chain!Quality /\ (quality = "missing" => gross = 0 /\ ~ grid)
  BY Zenon, InvertersPower
<1>2. loss \in Nat /\ gross - 2 * loss \in Nat
  <2> HIDE DEF gross
  <2> QED
    BY Zenon, <1>1, DeliveredPower
<1>3. r = [gross |-> gross, transformer_loss |-> loss, collection_loss |-> loss,
           export |-> exported, import |-> imported,
           export_energy |-> exported, import_energy |-> imported,
           grid_available |-> grid, plant_available |-> available, quality |-> quality]
  BY Zenon DEF Chain!PlantReading, Chain!AuxiliaryImport
<1>4. grid \in BOOLEAN /\ available \in BOOLEAN
  OBVIOUS
<1> HIDE DEF r, gross, grid, available, silent, loss, quality
<1>5. gross = 0 => loss = 0
  BY <1>1, <1>2
<1>6. /\ exported \in Nat /\ imported \in Nat /\ exported <= input.portfolio.capacity
      /\ exported <= gross - 2 * loss
      /\ ~ (grid /\ available) => exported = 0
      /\ grid /\ available /\ exported # gross - 2 * loss => gross - 2 * loss > input.portfolio.capacity
      /\ imported > 0 => grid /\ ~ (gross > 0 /\ available)
  BY <1>2 DEF Chain!Smaller, Chain!Larger
<1> HIDE DEF exported, imported
<1>7. exported > 0 => grid /\ available /\ gross > 0
  BY <1>1, <1>2, <1>5, <1>6
<1>8. /\ r.gross = gross /\ r.transformer_loss = loss /\ r.collection_loss = loss
      /\ r.export = exported /\ r.import = imported /\ r.export_energy = exported
      /\ r.import_energy = imported /\ r.grid_available = grid /\ r.plant_available = available
      /\ r.quality = quality
  BY <1>3
<1>9. r \in Chain!PlantReadings
  BY <1>1, <1>2, <1>3, <1>4, <1>6 DEF Chain!PlantReadings
<1> HIDE DEF r
<1>10. gross - loss - loss = gross - 2 * loss
  BY <1>1, <1>2
<1>11. Chain!PlantReadingAccepted(r)
  <2>1. exported <= Chain!Larger(gross - loss - loss, 0)
    BY <1>2, <1>6, <1>10 DEF Chain!Larger
  <2>2. ~ (exported > 0 /\ imported > 0)
    BY <1>6, <1>7
  <2>3. quality = "missing" => gross = 0 /\ loss = 0 /\ exported = 0 /\ imported = 0
    BY <1>1, <1>2, <1>5, <1>6
  <2>4. (~ grid => exported = 0) /\ (~ available => gross = 0 /\ exported = 0)
    BY <1>1, <1>6
  <2>5. exported >= 0 /\ imported >= 0 /\ gross >= 0 /\ loss >= 0
    BY <1>1, <1>2, <1>6
  <2> QED
    BY <1>8, <2>1, <2>2, <2>3, <2>4, <2>5 DEF Chain!PlantReadingAccepted
<1>12. /\ exported # gross - loss - loss => silent \/ gross - loss - loss > input.portfolio.capacity
       /\ silent => exported = 0
       /\ imported > 0 => gross = 0 /\ ~ silent
  <2>1. ~ available => gross - 2 * loss = 0 /\ exported = 0
    BY <1>1, <1>2, <1>5, <1>6
  <2> QED
    BY <1>1, <1>6, <1>10, <2>1
<1> QED
  BY <1>6, <1>8, <1>9, <1>11, <1>12 DEF r, gross, silent

\* The places of a plant in a sequence of readings, and what they come to.
PlacesOf(s, p) == {k \in DOMAIN s : s[k].plant = p}
TotalOf(s, p, energy) ==
    SumFunctionOnSet([k \in DOMAIN s |-> s[k].reading[energy]], PlacesOf(s, p))

\* One more reading counts for its own plant.
AppendCounted(s, t, r, p, energy) ==
    /\ IsFiniteSet(PlacesOf(s, p))
    /\ Cardinality(PlacesOf(t, p)) = Cardinality(PlacesOf(s, p)) + (IF r.plant = p THEN 1 ELSE 0)
    /\ {t[k].at : k \in PlacesOf(t, p)}
           = {s[k].at : k \in PlacesOf(s, p)} \cup (IF r.plant = p THEN {r.at} ELSE {})
    /\ TotalOf(s, p, energy) \in Int
    /\ TotalOf(t, p, energy)
           = TotalOf(s, p, energy) + (IF r.plant = p THEN r.reading[energy] ELSE 0)

\* One more reading is counted where it belongs.
LEMMA AppendCounts ==
    ASSUME NEW R, NEW s \in Seq(R), NEW r \in R, NEW p, NEW energy,
           \A x \in R : x.reading[energy] \in Int
    PROVE  AppendCounted(s, Append(s, r), r, p, energy)
<1> DEFINE t == Append(s, r)
           n == Len(s) + 1
           S == PlacesOf(s, p)
           T == PlacesOf(t, p)
           f == [k \in DOMAIN s |-> s[k].reading[energy]]
           g == [k \in DOMAIN t |-> t[k].reading[energy]]
<1>1. /\ Len(s) \in Nat /\ DOMAIN s = 1..Len(s) /\ DOMAIN t = 1..n /\ t[n] = r
      /\ \A k \in 1..Len(s) : t[k] = s[k] /\ s[k] \in R /\ k # n
  OBVIOUS
<1>2. DOMAIN t = DOMAIN s \cup {n} /\ n \notin DOMAIN s /\ \A k \in DOMAIN s : t[k] = s[k] /\ s[k] \in R
  BY <1>1
<1> HIDE DEF t, n
<1>3. T = IF r.plant = p THEN S \cup {n} ELSE S
  BY <1>1, <1>2 DEF PlacesOf
<1>4. S \subseteq DOMAIN s /\ n \notin S
  BY <1>2 DEF PlacesOf
<1>5. IsFiniteSet(S)
  <2>1. IsFiniteSet(1..Len(s))
    BY <1>1, FS_Interval
  <2> QED
    BY Zenon, <1>1, <1>4, <2>1, FS_Subset
<1>6. /\ \A k \in S : f[k] \in Int /\ g[k] = f[k]
      /\ g[n] = r.reading[energy] /\ g[n] \in Int
  BY <1>1, <1>2, <1>4
<1>7. TotalOf(s, p, energy) = SumFunctionOnSet(f, S) /\ TotalOf(t, p, energy) = SumFunctionOnSet(g, T)
  BY Zenon DEF TotalOf
<1> HIDE DEF S, T, f, g
<1>8. SumFunctionOnSet(f, S) \in Int /\ SumFunctionOnSet(g, S) = SumFunctionOnSet(f, S)
  BY Zenon, <1>5, <1>6, SumFacts, SumDepends
<1>9. CASE r.plant = p
  <2>1. T = S \cup {n} /\ IsFiniteSet(T) /\ Cardinality(T) = Cardinality(S) + 1
    <3>1. IsFiniteSet(S \cup {n}) /\ Cardinality(S \cup {n}) = Cardinality(S) + 1
      BY <1>4, <1>5, FS_AddElement
    <3> QED
      BY <1>3, <1>9, <3>1
  <2>2. {t[k].at : k \in T} = {s[k].at : k \in S} \cup {r.at}
    BY <1>1, <1>2, <1>4, <2>1
  <2>3. SumFunctionOnSet(g, T) = g[n] + SumFunctionOnSet(g, T \ {n})
    <3>1. \A k \in T : g[k] \in Int
      BY <1>6, <2>1
    <3>2. n \in T
      BY <2>1
    <3> QED
      BY Zenon, <2>1, <3>1, <3>2, SumFacts
  <2>4. T \ {n} = S
    BY <1>4, <2>1
  <2> DEFINE x == r.reading[energy]
  <2>x. g[n] = x /\ x \in Int
    BY Zenon, <1>6
  <2>y. TotalOf(t, p, energy) = x + SumFunctionOnSet(f, S)
    BY Zenon, <1>7, <1>8, <2>3, <2>4, <2>x
  <2> HIDE DEF x
  <2>5. TotalOf(s, p, energy) \in Int /\ TotalOf(t, p, energy) = TotalOf(s, p, energy) + x
    BY <1>7, <1>8, <2>x, <2>y
  <2>6. /\ IsFiniteSet(S) /\ Cardinality(T) = Cardinality(S) + 1
        /\ {t[k].at : k \in T} = {s[k].at : k \in S} \cup {r.at}
    BY Zenon, <1>5, <2>1, <2>2
  <2> QED
    BY Zenon, <1>9, <2>5, <2>6 DEF S, T, t, x, AppendCounted
<1>10. CASE r.plant # p
  <2>1. T = S
    BY <1>3, <1>10
  <2>2. {t[k].at : k \in T} = {s[k].at : k \in S}
    BY <1>2, <1>4, <2>1
  <2>3. Cardinality(S) \in Nat
    BY <1>5, FS_CardinalityType
  <2>4. TotalOf(s, p, energy) \in Int /\ TotalOf(t, p, energy) = TotalOf(s, p, energy) + 0
    BY <1>7, <1>8, <2>1
  <2>5. Cardinality(T) = Cardinality(S) + 0
    BY <2>1, <2>3
  <2>6. {t[k].at : k \in T} = {s[k].at : k \in S} \cup {}
    BY Zenon, <2>2
  <2> QED
    BY Zenon, <1>5, <1>10, <2>4, <2>5, <2>6 DEF S, T, t, AppendCounted
<1> QED
  BY <1>9, <1>10

\* Of no readings there are none, and they come to nothing.
LEMMA NothingCounted ==
    ASSUME NEW p, NEW energy
    PROVE  /\ PlacesOf(<<>>, p) = {} /\ Cardinality(PlacesOf(<<>>, p)) = 0
           /\ TotalOf(<<>>, p, energy) = 0
<1>1. PlacesOf(<<>>, p) = {}
  BY DEF PlacesOf
<1>2. IsFiniteSet({}) /\ Cardinality({}) = 0
  BY FS_EmptySet
<1> QED
  BY <1>1, <1>2, SumFacts DEF TotalOf

\* The readings of a plant are counted in the sequence of all.
PlantsCount ==
    \A p : /\ Chain!Of(p) = PlacesOf(state.readings, p)
           /\ \A energy : Chain!Total(p, energy) = TotalOf(state.readings, p, energy)
           /\ Chain!PlantCounted(p) <=>
                  /\ Cardinality(PlacesOf(state.readings, p)) = Chain!Taken(p)
                  /\ {state.readings[k].at : k \in PlacesOf(state.readings, p)} = 1..Chain!Taken(p)
                  /\ state.export_register[p] = TotalOf(state.readings, p, "export_energy")
                  /\ state.import_register[p] = TotalOf(state.readings, p, "import_energy")

\* The module of the measurements counts them so.
LEMMA PlantCounts == PlantsCount
<1>1. \A p : Chain!Of(p) = PlacesOf(state.readings, p)
  BY Zenon DEF Chain!Of, PlacesOf
<1>2. \A p, energy : Chain!Total(p, energy) = TotalOf(state.readings, p, energy)
  BY Zenon, <1>1, ChainCounts DEF Chain!Total, TotalOf
<1> QED
  BY Zenon, <1>1, <1>2, ChainCounts DEF Chain!PlantCounted, PlantsCount

\* A run begins with nothing counted.
LEMMA ChainInitial == Chain!Init => Chain!ChainInv
<1> SUFFICES ASSUME Chain!Init PROVE Chain!ChainInv
  OBVIOUS
<1> DEFINE c == input.portfolio
           valid == /\ Chain!MastersSucceed(c)
                    /\ Chain!ReferencesValid(1..c.plants, Chain!Equipment(c), Chain!Meters(c))
<1>1. /\ input \in MeasurementInputs /\ Chain!PortfolioAccepted(c)
      /\ state = [phase |-> IF valid THEN "measuring" ELSE "refused",
                  at |-> 1, plant |-> 1, group |-> <<>>, readings |-> <<>>,
                  export_register |-> [p \in 1..c.plants |-> 0],
                  import_register |-> [p \in 1..c.plants |-> 0]]
  BY Zenon DEF Chain!Init
<1>2. c.plants \in Nat \ {0} /\ input.intervals \in Nat \ {0}
  BY <1>1, ChainFits
<1> HIDE DEF valid
<1>3. /\ DOMAIN state = {"phase", "at", "plant", "group", "readings", "export_register",
                         "import_register"}
      /\ state.phase \in {"measuring", "refused"} /\ (state.phase # "refused" => valid)
      /\ state.at = 1 /\ state.plant = 1 /\ state.group = <<>> /\ state.readings = <<>>
      /\ state.export_register = [p \in 1..c.plants |-> 0]
      /\ state.import_register = [p \in 1..c.plants |-> 0]
  BY <1>1
<1>4. ASSUME NEW p \in 1..c.plants PROVE Chain!PlantCounted(p)
  <2>1. Chain!Taken(p) = 0
    BY <1>2, <1>3 DEF Chain!Taken
  <2>2. state.export_register[p] = 0 /\ state.import_register[p] = 0
    BY <1>3
  <2>3. PlacesOf(state.readings, p) = {}
    BY Zenon, <1>3, NothingCounted
  <2>4. {state.readings[k].at : k \in PlacesOf(state.readings, p)} = 1..0
    BY <2>3
  <2>5. /\ Cardinality(PlacesOf(state.readings, p)) = 0
        /\ TotalOf(state.readings, p, "export_energy") = 0
        /\ TotalOf(state.readings, p, "import_energy") = 0
    BY Zenon, <1>3, NothingCounted
  <2> QED
    BY Zenon, <2>1, <2>2, <2>4, <2>5, PlantCounts DEF PlantsCount
<1>5. {state.export_register, state.import_register} \subseteq [1..c.plants -> Int]
  BY <1>3
<1>6. state.readings \in Seq([reading : Chain!PlantReadings, plant : 1..c.plants, at : Nat])
  BY <1>3
<1>7. state.plant \in 1..c.plants /\ state.at \in 1..input.intervals
  BY <1>2, <1>3
<1> QED
  BY Zenon, <1>1, <1>3, <1>4, <1>5, <1>6, <1>7 DEF Chain!ChainInv, valid

\* What a reading leaves behind, and where the run goes on.
Registering(s, t, P, group, reading) ==
    /\ DOMAIN t = DOMAIN s
    /\ t.phase = s.phase /\ t.at = s.at /\ t.plant = s.plant /\ t.group = group
    /\ t.readings = Append(s.readings, [reading |-> reading, plant |-> s.plant, at |-> s.at])
    /\ t.export_register = [s.export_register EXCEPT ![s.plant] = @ + reading.export_energy]
    /\ t.import_register = [s.import_register EXCEPT ![s.plant] = @ + reading.import_energy]
    /\ \A p \in P :
           /\ t.export_register[p] = s.export_register[p]
                                         + (IF p = s.plant THEN reading.export_energy ELSE 0)
           /\ t.import_register[p] = s.import_register[p]
                                         + (IF p = s.plant THEN reading.import_energy ELSE 0)

\* The registers are of all plants, and one of each moves.
LEMMA RegisteredFacts ==
    ASSUME NEW s, DOMAIN s = {"phase", "at", "plant", "group", "readings", "export_register",
                              "import_register"},
           NEW P, s.export_register \in [P -> Int], s.import_register \in [P -> Int], s.plant \in P,
           NEW group, NEW reading
    PROVE  Registering(s, Chain!Registered(s, group, reading), P, group, reading)
<1> DEFINE t == Chain!Registered(s, group, reading)
           exports == [s.export_register EXCEPT ![s.plant] = @ + reading.export_energy]
           imports == [s.import_register EXCEPT ![s.plant] = @ + reading.import_energy]
<1>1. /\ DOMAIN t = DOMAIN s
      /\ t.phase = s.phase /\ t.at = s.at /\ t.plant = s.plant /\ t.group = group
      /\ t.readings = Append(s.readings, [reading |-> reading, plant |-> s.plant, at |-> s.at])
      /\ t.export_register = exports /\ t.import_register = imports
  BY DEF Chain!Registered
<1> HIDE DEF t
<1>2. DOMAIN s.export_register = P /\ DOMAIN s.import_register = P
  OBVIOUS
<1>4. ASSUME NEW p \in P
      PROVE  /\ t.export_register[p] = s.export_register[p]
                                           + (IF p = s.plant THEN reading.export_energy ELSE 0)
             /\ t.import_register[p] = s.import_register[p]
                                           + (IF p = s.plant THEN reading.import_energy ELSE 0)
  <2>1. s.export_register[p] \in Int /\ s.import_register[p] \in Int
    OBVIOUS
  <2> QED
    BY <1>1, <1>2, <2>1
<1> QED
  BY Zenon, <1>1, <1>4 DEF Registering, t

\* After a plant comes the next, after the last the next interval, until all
\* are measured.
LEMMA AdvancedFacts ==
    ASSUME NEW s, DOMAIN s = {"phase", "at", "plant", "group", "readings", "export_register",
                              "import_register"},
           NEW P \in Nat \ {0}, P = input.portfolio.plants, s.plant \in 1..P,
           input.intervals \in Nat \ {0}, s.at \in 1..input.intervals, s.phase = "measuring"
    PROVE  LET t == Chain!Advanced(s) IN
           /\ DOMAIN t = DOMAIN s /\ t.group = s.group /\ t.readings = s.readings
           /\ t.export_register = s.export_register /\ t.import_register = s.import_register
           /\ t.plant \in 1..P /\ t.at \in 1..input.intervals
           /\ \/ t.phase = "measuring" /\ t.at = s.at /\ t.plant = s.plant + 1 /\ s.plant < P
              \/ t.phase = "measuring" /\ t.at = s.at + 1 /\ t.plant = 1 /\ s.plant = P
              \/ t.phase = "measured" /\ s.at = input.intervals /\ s.plant = P
<1>1. CASE s.plant < P
  <2>1. Chain!Advanced(s) = [s EXCEPT !.plant = @ + 1]
    BY <1>1 DEF Chain!Advanced
  <2> QED
    BY <1>1, <2>1
<1>2. CASE s.plant = P /\ s.at < input.intervals
  <2>1. Chain!Advanced(s) = [s EXCEPT !.plant = 1, !.at = @ + 1]
    BY <1>2 DEF Chain!Advanced
  <2> QED
    BY <1>2, <2>1
<1>3. CASE s.plant = P /\ s.at = input.intervals
  <2>1. Chain!Advanced(s) = [s EXCEPT !.phase = "measured"]
    BY <1>3 DEF Chain!Advanced
  <2> QED
    BY <1>3, <2>1
<1> QED
  BY <1>1, <1>2, <1>3

\* A step measures one plant, is not refused, and counts for that plant alone.
LEMMA ChainNext == Chain!ChainInv /\ [Chain!Next]_Chain!vars => Chain!ChainInv'
<1> SUFFICES ASSUME Chain!ChainInv, [Chain!Next]_Chain!vars PROVE Chain!ChainInv'
  OBVIOUS
<1>1. CASE UNCHANGED Chain!vars
  <2>1. input' = input /\ state' = state
    BY Zenon, <1>1 DEF Chain!vars
  <2>2. \A p : Chain!PlantCounted(p)' <=> Chain!PlantCounted(p)
    BY Zenon, <2>1 DEF Chain!PlantCounted, Chain!Of, Chain!Total, Chain!Taken
  <2>3. Chain!PlantReading(state.group)' = Chain!PlantReading(state.group)
    BY Zenon, <2>1 DEF Chain!PlantReading, Chain!AuxiliaryImport
  <2> QED
    BY Zenon, <2>1, <2>2, <2>3 DEF Chain!ChainInv
<1>2. CASE Chain!Measure
  <2> DEFINE c == input.portfolio
             P == c.plants
             R == [reading : Chain!PlantReadings, plant : 1..P, at : Nat]
  <2>1. /\ input \in MeasurementInputs /\ Chain!PortfolioAccepted(c)
        /\ DOMAIN state = {"phase", "at", "plant", "group", "readings", "export_register",
                           "import_register"}
        /\ state.phase # "refused" =>
               /\ Chain!MastersSucceed(c)
               /\ Chain!ReferencesValid(1..P, Chain!Equipment(c), Chain!Meters(c))
        /\ state.plant \in 1..P /\ state.at \in 1..input.intervals
        /\ {state.export_register, state.import_register} \subseteq [1..P -> Int]
        /\ state.readings \in Seq(R)
        /\ \A p \in 1..P : Chain!PlantCounted(p)
    BY Zenon DEF Chain!ChainInv
  <2>2. /\ PortfolioFits(c) /\ c.capacity \in Nat /\ P \in Nat \ {0}
        /\ input.intervals \in Nat \ {0} /\ input.skies \subseteq Nat
        /\ input.losses \in 0..3 /\ input.auxiliary \in Nat
    BY <2>1, ChainFits
  <2>3. input' = input /\ state.phase = "measuring"
    BY Zenon, <1>2 DEF Chain!Measure
  <2>4. PICK sky \in input.skies, quality \in Chain!Quality,
             draws \in [Chain!Inverters(state.plant) -> Chain!Draws] :
          LET weather == Chain!WeatherObservation(sky, quality)
              group   == [u \in Chain!Inverters(state.plant) |->
                             Chain!InverterObservation(u, weather, draws[u])]
              reading == Chain!PlantReading(group) IN
          state' = IF /\ \A u \in DOMAIN group : Chain!SCADAAccepted(group[u], 0)
                      /\ Chain!PlantReadingAccepted(reading)
                   THEN Chain!Advanced(Chain!Registered(state, group, reading))
                   ELSE [state EXCEPT !.phase = "raised", !.group = group]
    BY Zenon, <1>2 DEF Chain!Measure
  <2> DEFINE weather == Chain!WeatherObservation(sky, quality)
             group   == [u \in Chain!Inverters(state.plant) |->
                            Chain!InverterObservation(u, weather, draws[u])]
             reading == Chain!PlantReading(group)
             new == [reading |-> reading, plant |-> state.plant, at |-> state.at]
             s == Chain!Registered(state, group, reading)
  <2>5. Chain!GroupSound(group)
    <3>1. sky \in Nat
      BY <2>2
    <3> QED
      BY Zenon, <2>1, <2>2, <3>1, GroupFacts
  <2>6. state' = IF /\ \A u \in DOMAIN group : Chain!SCADAAccepted(group[u], 0)
                    /\ Chain!PlantReadingAccepted(reading)
                 THEN Chain!Advanced(s) ELSE [state EXCEPT !.phase = "raised", !.group = group]
    BY Zenon, <2>4
  <2> HIDE DEF group, c
  <2>7. reading \in Chain!PlantReadings /\ Chain!PlantReadingAccepted(reading)
    BY Zenon, <2>2, <2>5, PlantReadingFacts DEF c
  <2>8. state' = Chain!Advanced(s)
    BY Zenon, <2>5, <2>6, <2>7 DEF Chain!GroupSound
  <2> HIDE DEF reading
  <2>r. state.export_register \in [1..P -> Int] /\ state.import_register \in [1..P -> Int]
    BY <2>1
  <2>9. Registering(state, s, 1..P, group, reading)
    <3>1. state.plant \in 1..P
      BY Zenon, <2>1
    <3>2. DOMAIN state = {"phase", "at", "plant", "group", "readings", "export_register",
                          "import_register"}
      BY Zenon, <2>1
    <3> HIDE DEF P
    <3> QED
      BY <2>r, <3>1, <3>2, RegisteredFacts
  <2> HIDE DEF s
  <2>s. /\ DOMAIN s = DOMAIN state
        /\ s.phase = state.phase /\ s.at = state.at /\ s.plant = state.plant /\ s.group = group
        /\ s.readings = Append(state.readings, new)
        /\ \A p \in 1..P :
               /\ s.export_register[p] = state.export_register[p]
                                             + (IF p = state.plant THEN reading.export_energy ELSE 0)
               /\ s.import_register[p] = state.import_register[p]
                                             + (IF p = state.plant THEN reading.import_energy ELSE 0)
    BY Zenon, <2>9 DEF Registering
  <2>10. /\ DOMAIN state' = DOMAIN state /\ state'.group = group
         /\ state'.readings = Append(state.readings, new)
         /\ state'.export_register = s.export_register /\ state'.import_register = s.import_register
         /\ state'.plant \in 1..P /\ state'.at \in 1..input.intervals
         /\ \/ /\ state'.phase = "measuring" /\ state'.at = state.at
               /\ state'.plant = state.plant + 1 /\ state.plant < P
            \/ /\ state'.phase = "measuring" /\ state'.at = state.at + 1
               /\ state'.plant = 1 /\ state.plant = P
            \/ state'.phase = "measured" /\ state.at = input.intervals /\ state.plant = P
    <3>1. P = input.portfolio.plants
      BY Zenon DEF c
    <3>2. DOMAIN s = {"phase", "at", "plant", "group", "readings", "export_register",
                      "import_register"}
      BY Zenon, <2>1, <2>s
    <3>3. s.plant \in 1..P /\ s.at \in 1..input.intervals /\ s.phase = "measuring"
      BY Zenon, <2>1, <2>3, <2>s
    <3> HIDE DEF P
    <3>4. LET t == Chain!Advanced(s) IN
           /\ DOMAIN t = DOMAIN s /\ t.group = s.group /\ t.readings = s.readings
           /\ t.export_register = s.export_register /\ t.import_register = s.import_register
           /\ t.plant \in 1..P /\ t.at \in 1..input.intervals
           /\ \/ t.phase = "measuring" /\ t.at = s.at /\ t.plant = s.plant + 1 /\ s.plant < P
              \/ t.phase = "measuring" /\ t.at = s.at + 1 /\ t.plant = 1 /\ s.plant = P
              \/ t.phase = "measured" /\ s.at = input.intervals /\ s.plant = P
      BY Zenon, <2>2, <3>1, <3>2, <3>3, AdvancedFacts
    <3> HIDE DEF new
    <3> QED
      BY Zenon, <2>8, <2>s, <3>4
  <2>11. /\ reading.export_energy \in Nat /\ reading.import_energy \in Nat
         /\ new.plant = state.plant /\ new.at = state.at /\ new.reading = reading
         /\ new \in R
         /\ \A x \in R : x.reading["export_energy"] \in Int
         /\ \A x \in R : x.reading["import_energy"] \in Int
    <3>1. /\ reading.export_energy \in Nat /\ reading.import_energy \in Nat
          /\ \A y \in Chain!PlantReadings : y.export_energy \in Nat /\ y.import_energy \in Nat
      BY <2>7 DEF Chain!PlantReadings
    <3>2. new.plant = state.plant /\ new.at = state.at /\ new.reading = reading
      OBVIOUS
    <3>3. state.at \in Nat
      BY <2>1, <2>2
    <3>4. new \in R
      BY <2>1, <2>7, <3>3
    <3>5. \A x \in R : x.reading \in Chain!PlantReadings
      OBVIOUS
    <3> HIDE DEF R, new
    <3> QED
      BY <3>1, <3>2, <3>4, <3>5
  <2> HIDE DEF new, R, P
  <2>12. ASSUME NEW p \in 1..P
         PROVE  /\ Chain!Taken(p)' = Chain!Taken(p) + (IF p = state.plant THEN 1 ELSE 0)
                /\ Chain!Taken(p) \in Nat /\ (p = state.plant => Chain!Taken(p) + 1 = state.at)
    <3>1. Chain!Taken(p) = IF p < state.plant THEN state.at ELSE state.at - 1
      BY Zenon, <2>3 DEF Chain!Taken
    <3>2. Chain!Taken(p)' = IF state'.phase = "measured" THEN input.intervals
                            ELSE IF p < state'.plant THEN state'.at ELSE state'.at - 1
      BY Zenon, <2>3 DEF Chain!Taken
    <3>3. /\ p \in Int /\ P \in Int /\ state.plant \in 1..P /\ state.at \in 1..input.intervals
          /\ p <= P /\ 1 <= p /\ input.intervals \in Nat
      BY <2>1, <2>2
    <3>4. CASE state'.phase = "measuring" /\ state'.at = state.at /\ state'.plant = state.plant + 1
      BY <3>1, <3>2, <3>3, <3>4
    <3>5. CASE /\ state'.phase = "measuring" /\ state'.at = state.at + 1
               /\ state'.plant = 1 /\ state.plant = P
      BY <3>1, <3>2, <3>3, <3>5
    <3>6. CASE state'.phase = "measured" /\ state.at = input.intervals /\ state.plant = P
      BY <3>1, <3>2, <3>3, <3>6
    <3> QED
      BY Zenon, <2>10, <3>4, <3>5, <3>6
  <2>13. ASSUME NEW p \in 1..P PROVE Chain!PlantCounted(p)'
    <3> DEFINE old == state.readings
               now == state'.readings
               one == IF new.plant = p THEN 1 ELSE 0
    <3>1. /\ Cardinality(PlacesOf(old, p)) = Chain!Taken(p)
          /\ {old[k].at : k \in PlacesOf(old, p)} = 1..Chain!Taken(p)
          /\ state.export_register[p] = TotalOf(old, p, "export_energy")
          /\ state.import_register[p] = TotalOf(old, p, "import_energy")
      BY Zenon, <2>1, PlantCounts DEF PlantsCount
    <3>a. old \in Seq(R) /\ now = Append(old, new) /\ new \in R
      BY Zenon, <2>1, <2>10, <2>11
    <3>b. /\ \A x \in R : x.reading["export_energy"] \in Int
          /\ \A x \in R : x.reading["import_energy"] \in Int
      BY Zenon, <2>11
    <3>2. AppendCounted(old, now, new, p, "export_energy")
      <4> HIDE DEF old, now
      <4>1. AppendCounted(old, Append(old, new), new, p, "export_energy")
        BY <3>a, <3>b, AppendCounts
      <4> QED
        BY Zenon, <3>a, <4>1
    <3>3. AppendCounted(old, now, new, p, "import_energy")
      <4> HIDE DEF old, now
      <4>1. AppendCounted(old, Append(old, new), new, p, "import_energy")
        BY <3>a, <3>b, AppendCounts
      <4> QED
        BY Zenon, <3>a, <4>1
    <3> HIDE DEF old, now
    <3>4. Cardinality(PlacesOf(now, p)) = Chain!Taken(p)'
      BY Zenon, <2>11, <2>12, <3>1, <3>2 DEF AppendCounted
    <3>5. {now[k].at : k \in PlacesOf(now, p)} = 1..Chain!Taken(p)'
      <4> DEFINE n == Chain!Taken(p)
                 A == {old[k].at : k \in PlacesOf(old, p)}
                 B == {now[k].at : k \in PlacesOf(now, p)}
      <4>1. /\ n \in Nat /\ Chain!Taken(p)' = n + one /\ (p = state.plant => n + 1 = state.at)
            /\ A = 1..n /\ B = A \cup (IF new.plant = p THEN {new.at} ELSE {})
          BY Zenon, <2>11, <2>12, <3>1, <3>2 DEF AppendCounted
      <4> HIDE DEF n, A, B
      <4>2. B = 1..(n + one)
        BY <2>11, <4>1
      <4> QED
        BY Zenon, <4>1, <4>2 DEF B
    <3>6. /\ state'.export_register[p] = TotalOf(now, p, "export_energy")
          /\ state'.import_register[p] = TotalOf(now, p, "import_energy")
      <4>1. /\ state'.export_register[p] = state.export_register[p]
                                          + (IF p = state.plant THEN reading.export_energy ELSE 0)
            /\ state'.import_register[p] = state.import_register[p]
                                          + (IF p = state.plant THEN reading.import_energy ELSE 0)
        BY Zenon, <2>s, <2>10
      <4>2. /\ TotalOf(now, p, "export_energy") = TotalOf(old, p, "export_energy")
                   + (IF p = state.plant THEN reading.export_energy ELSE 0)
            /\ TotalOf(now, p, "import_energy") = TotalOf(old, p, "import_energy")
                   + (IF p = state.plant THEN reading.import_energy ELSE 0)
        BY <2>11, <3>2, <3>3 DEF AppendCounted
      <4> QED
        BY Zenon, <3>1, <4>1, <4>2
    <3>7. PlantsCount'
      BY PlantCounts, PTL
    <3> QED
      BY Zenon, <3>4, <3>5, <3>6, <3>7 DEF PlantsCount, now
  <2>14. {state'.export_register, state'.import_register} \subseteq [1..P -> Int]
    <3>1. reading.export_energy \in Int /\ reading.import_energy \in Int
      BY <2>11
    <3>2. s.export_register \in [1..P -> Int] /\ s.import_register \in [1..P -> Int]
      <4>1. state.plant \in 1..P
        BY Zenon, <2>1
      <4>2. /\ state.export_register[state.plant] + reading.export_energy \in Int
            /\ state.import_register[state.plant] + reading.import_energy \in Int
        <5>1. state.export_register[state.plant] \in Int /\ state.import_register[state.plant] \in Int
          BY Zenon, <2>r, <4>1
        <5> QED
          BY <3>1, <5>1
      <4> QED
        BY <2>r, <2>9, <4>1, <4>2 DEF Registering
    <3> QED
      BY Zenon, <2>10, <3>2
  <2>15. /\ state'.readings \in Seq(R) /\ state'.readings # <<>>
         /\ state'.readings[Len(state'.readings)] = new
    <3>1. state.readings \in Seq(R) /\ new \in R /\ state'.readings = Append(state.readings, new)
      BY Zenon, <2>1, <2>10, <2>11
    <3> QED
      BY <3>1
  <2>16. Chain!PlantReading(state.group)' = reading
    BY Zenon, <2>3, <2>10 DEF Chain!PlantReading, Chain!AuxiliaryImport, reading
  <2>17. state'.phase \in {"measuring", "measured", "refused"} /\ state'.phase # "refused"
    BY <2>10
  <2>18. state'.readings[Len(state'.readings)].reading = reading
    BY Zenon, <2>11, <2>15
  <2> QED
    BY Zenon, <2>1, <2>3, <2>5, <2>10, <2>13, <2>14, <2>15, <2>16, <2>17, <2>18
       DEF Chain!ChainInv, c, P, R
<1> QED
  BY Zenon, <1>1, <1>2 DEF Chain!Next

\* What is counted has the properties that are promised of it.
LEMMA ChainShow ==
    Chain!ChainInv => /\ Chain!NothingIsRefused /\ Chain!EnergyIsAccountedFor
                      /\ Chain!MastersAreSound
<1> SUFFICES ASSUME Chain!ChainInv
             PROVE  /\ Chain!NothingIsRefused /\ Chain!EnergyIsAccountedFor /\ Chain!MastersAreSound
  OBVIOUS
<1> DEFINE c == input.portfolio
           last == state.readings[Len(state.readings)].reading
<1>1. /\ input \in MeasurementInputs /\ Chain!PortfolioAccepted(c)
      /\ state.phase \in {"measuring", "measured", "refused"}
      /\ state.phase # "refused" =>
             Chain!ReferencesValid(1..c.plants, Chain!Equipment(c), Chain!Meters(c))
      /\ \A p \in 1..c.plants : Chain!PlantCounted(p)
      /\ state.readings = <<>> => state.group = <<>>
      /\ state.readings # <<>> =>
             Chain!GroupSound(state.group) /\ last = Chain!PlantReading(state.group)
  BY Zenon DEF Chain!ChainInv
<1>2. /\ PortfolioFits(c) /\ c.capacity \in Nat /\ input.losses \in 0..3 /\ input.auxiliary \in Nat
  BY Zenon, <1>1, ChainFits
<1> HIDE DEF last
<1>3. Chain!NothingIsRefused
  <2>1. state.phase # "raised"
    BY <1>1
  <2>2. CASE state.readings = <<>>
    <3>1. DOMAIN state.group = {}
      BY <1>1, <2>2
    <3> QED
      BY Zenon, <2>1, <3>1 DEF Chain!NothingIsRefused
  <2>3. CASE state.readings # <<>>
    BY Zenon, <1>1, <2>1, <2>3 DEF Chain!NothingIsRefused, Chain!GroupSound
  <2> QED
    BY Zenon, <2>2, <2>3
<1>4. ASSUME NEW p \in 1..c.plants
      PROVE  /\ state.export_register[p] = Chain!Total(p, "export_energy")
             /\ state.import_register[p] = Chain!Total(p, "import_energy")
             /\ state.phase = "measured" =>
                    /\ {state.readings[k].at : k \in Chain!Of(p)} = 1..input.intervals
                    /\ Chain!Cardinality(Chain!Of(p)) = input.intervals
  BY Zenon, <1>1 DEF Chain!PlantCounted, Chain!Taken
<1>5. ASSUME state.readings # <<>>
      PROVE  LET silent == \E u \in DOMAIN state.group : state.group[u].quality = "missing"
                 produced == Chain!Power(state.group)
                 delivered == produced - last.transformer_loss - last.collection_loss IN
             /\ last.export <= c.capacity
             /\ last.export # delivered => silent \/ delivered > c.capacity
             /\ silent => last.export = 0
             /\ last.import > 0 => produced = 0 /\ ~ silent
  BY Zenon, <1>1, <1>2, <1>5, PlantReadingFacts
<1>6. Chain!EnergyIsAccountedFor
  BY Zenon, <1>4, <1>5 DEF Chain!EnergyIsAccountedFor, last
<1>7. Chain!MastersAreSound
  BY Zenon, <1>1, <1>2, PortfolioSound DEF Chain!MastersAreSound
<1> QED
  BY Zenon, <1>3, <1>6, <1>7

-----------------------------------------------------------------------------
(* Reports on two generations.                                             *)

\* What is compared: the rows have types, and the names are as they should be.
LEMMA VerificationFacts ==
    ASSUME input \in VerificationInputs
    PROVE  /\ Tuples # {} /\ Tuples \cap DataFrames = {} /\ Stochastic \subseteq Verifier!Names
           /\ input.kind \in {"same_seed", "different_seed"}
           /\ input.validate \in BOOLEAN /\ input.valid \in BOOLEAN
           /\ Verifier!Dataset(input.left) /\ Verifier!Dataset(input.right)
BY VerificationConstants DEF Verifier!VerificationFits

\* Fingerprints of rows are the same for rows that are the same but for their run.
LEMMA SanitizedRows ==
    ASSUME NEW l \in Seq(Verifier!Row), NEW r \in Seq(Verifier!Row)
    PROVE  [k \in DOMAIN l |-> Verifier!Sanitized(l[k])] = [k \in DOMAIN r |-> Verifier!Sanitized(r[k])]
               <=> /\ Len(l) = Len(r)
                   /\ \A k \in DOMAIN l : l[k].value = r[k].value /\ l[k].time = r[k].time
<1> DEFINE f == [k \in DOMAIN l |-> Verifier!Sanitized(l[k])]
           g == [k \in DOMAIN r |-> Verifier!Sanitized(r[k])]
<1>1. DOMAIN l = 1..Len(l) /\ DOMAIN r = 1..Len(r) /\ Len(l) \in Nat /\ Len(r) \in Nat
  OBVIOUS
<1>2. /\ DOMAIN f = DOMAIN l /\ \A k \in DOMAIN l : f[k] = Verifier!Sanitized(l[k])
      /\ DOMAIN g = DOMAIN r /\ \A k \in DOMAIN r : g[k] = Verifier!Sanitized(r[k])
  OBVIOUS
<1>3. \A a, b : Verifier!Sanitized(a) = Verifier!Sanitized(b) <=> a.value = b.value /\ a.time = b.time
  BY DEF Verifier!Sanitized
<1>4. ASSUME Len(l) = Len(r),
             \A k \in DOMAIN l : l[k].value = r[k].value /\ l[k].time = r[k].time
      PROVE  f = g
  <2>1. DOMAIN l = DOMAIN r
    BY <1>1, <1>4
  <2>2. \A k \in DOMAIN l : Verifier!Sanitized(l[k]) = Verifier!Sanitized(r[k])
    BY <1>3, <1>4
  <2> QED
    BY <2>1, <2>2
<1>5. ASSUME f = g
      PROVE  /\ Len(l) = Len(r)
             /\ \A k \in DOMAIN l : l[k].value = r[k].value /\ l[k].time = r[k].time
  <2> HIDE DEF f, g
  <2>1. DOMAIN l = DOMAIN r
    BY <1>2, <1>5
  <2>2. Len(l) = Len(r)
    <3>1. \A m, n \in Nat : m < n => n \in 1..n /\ n \notin 1..m
      OBVIOUS
    <3>2. ~(Len(l) < Len(r)) /\ ~(Len(r) < Len(l))
      BY <1>1, <2>1, <3>1
    <3>3. Len(l) \in Nat /\ Len(r) \in Nat
      OBVIOUS
    <3> QED
      BY <3>2, <3>3
  <2>3. \A k \in DOMAIN l : Verifier!Sanitized(l[k]) = Verifier!Sanitized(r[k])
    BY <1>2, <1>5, <2>1
  <2> QED
    BY <1>3, <2>2, <2>3
<1> QED
  BY <1>4, <1>5

\* What a comparison of two datasets of a name says.
LEMMA ComparisonFacts ==
    ASSUME input \in VerificationInputs, NEW n \in Verifier!Names
    PROVE  LET c == Verifier!CompareDatasets(input.left, input.right)[n] IN
           /\ c.values_equal <=> Verifier!SameRows(n) /\ Verifier!SameColumns(n)
           /\ c.schema_equal => Verifier!SameColumns(n)
           /\ Verifier!SameRows(n) => c.left_row_count = c.right_row_count
           /\ Verifier!SameRows(n) => Verifier!Count(n, input.left[n]) = Verifier!Count(n, input.right[n])
<1> DEFINE l == input.left[n]
           r == input.right[n]
           c == Verifier!CompareDatasets(input.left, input.right)[n]
<1>1. c = Verifier!CompareOne(n, l, r)
  BY DEF Verifier!CompareDatasets
<1>2. /\ c.left_row_count = Verifier!Count(n, l) /\ c.right_row_count = Verifier!Count(n, r)
      /\ c.schema_equal = IF n \in Tuples THEN Len(l) = Len(r) ELSE l.columns = r.columns
      /\ c.values_equal = (Verifier!Fingerprint(n, l) = Verifier!Fingerprint(n, r))
  BY <1>1 DEF Verifier!CompareOne
<1>3. CASE n \in Tuples
  <2>1. n \notin DataFrames /\ l \in Seq(Verifier!Row) /\ r \in Seq(Verifier!Row)
    BY <1>3, VerificationFacts DEF Verifier!Dataset
  <2>2. Verifier!SameRows(n) <=> /\ Len(l) = Len(r)
                                 /\ \A k \in DOMAIN l : l[k].value = r[k].value /\ l[k].time = r[k].time
    BY <1>3 DEF Verifier!SameRows, Verifier!Rows
  <2>3. Verifier!SameColumns(n)
    BY <2>1 DEF Verifier!SameColumns
  <2> DEFINE f == [k \in DOMAIN l |-> Verifier!Sanitized(l[k])]
             g == [k \in DOMAIN r |-> Verifier!Sanitized(r[k])]
  <2>4. /\ Verifier!Fingerprint(n, l) = <<"tuple", Len(l), f>>
        /\ Verifier!Fingerprint(n, r) = <<"tuple", Len(r), g>>
        /\ Verifier!Count(n, l) = Len(l) /\ Verifier!Count(n, r) = Len(r)
    BY <1>3 DEF Verifier!Fingerprint, Verifier!FingerprintTuple, Verifier!Count
  <2>5. \A a, b, u, w : <<"tuple", a, u>> = <<"tuple", b, w>> <=> a = b /\ u = w
    OBVIOUS
  <2>6. Verifier!Fingerprint(n, l) = Verifier!Fingerprint(n, r)
            <=> Len(l) = Len(r) /\ f = g
    <3> HIDE DEF f, g, l, r
    <3> QED
      BY <2>4, <2>5
  <2>7. Verifier!Fingerprint(n, l) = Verifier!Fingerprint(n, r) <=> Verifier!SameRows(n)
    BY <2>1, <2>2, <2>6, SanitizedRows
  <2> HIDE DEF l, r, c, f, g
  <2> QED
    BY <1>2, <2>2, <2>3, <2>4, <2>7 DEF l, r, c
<1>4. CASE n \notin Tuples
  <2>1. n \in DataFrames /\ l \in Verifier!Frame /\ r \in Verifier!Frame
    BY <1>4, VerificationFacts DEF Verifier!Dataset, Verifier!Names
  <2>2. l.rows \in Seq(Verifier!Row) /\ r.rows \in Seq(Verifier!Row)
    BY <2>1 DEF Verifier!Frame
  <2>3. Verifier!SameRows(n) <=> /\ Len(l.rows) = Len(r.rows)
                                 /\ \A k \in DOMAIN l.rows : /\ l.rows[k].value = r.rows[k].value
                                                             /\ l.rows[k].time = r.rows[k].time
    BY <1>4 DEF Verifier!SameRows, Verifier!Rows
  <2>4. Verifier!SameColumns(n) <=> l.columns = r.columns
    BY <2>1 DEF Verifier!SameColumns
  <2> DEFINE f == [k \in DOMAIN l.rows |-> Verifier!Sanitized(l.rows[k])]
             g == [k \in DOMAIN r.rows |-> Verifier!Sanitized(r.rows[k])]
  <2>5. /\ Verifier!Fingerprint(n, l) = <<"dataframe", Len(l.rows), l.columns, f>>
        /\ Verifier!Fingerprint(n, r) = <<"dataframe", Len(r.rows), r.columns, g>>
        /\ Verifier!Count(n, l) = Len(l.rows) /\ Verifier!Count(n, r) = Len(r.rows)
    BY <1>4 DEF Verifier!Fingerprint, Verifier!FingerprintDataFrame, Verifier!Count
  <2>6. \A a, b, d, e, u, w : <<"dataframe", a, d, u>> = <<"dataframe", b, e, w>>
                                  <=> a = b /\ d = e /\ u = w
    OBVIOUS
  <2>7. Verifier!Fingerprint(n, l) = Verifier!Fingerprint(n, r)
            <=> Len(l.rows) = Len(r.rows) /\ l.columns = r.columns /\ f = g
    <3> HIDE DEF f, g, l, r
    <3> QED
      BY <2>5, <2>6
  <2>8. Verifier!Fingerprint(n, l) = Verifier!Fingerprint(n, r)
            <=> Verifier!SameRows(n) /\ Verifier!SameColumns(n)
    BY <2>2, <2>3, <2>4, <2>7, SanitizedRows
  <2> HIDE DEF l, r, c, f, g
  <2> QED
    BY <1>2, <1>4, <2>3, <2>4, <2>5, <2>8 DEF l, r, c
<1> QED
  BY <1>3, <1>4

\* Datasets with the same rows have the same summary, and what is compared is
\* something.
LEMMA SummaryFacts ==
    ASSUME input \in VerificationInputs
    PROVE  /\ (\A n \in Verifier!Names : Verifier!SameRows(n)) =>
                   Verifier!Summary(input.left) = Verifier!Summary(input.right)
           /\ Verifier!CompareDatasets(input.left, input.right) # <<>>
<1>1. ASSUME \A n \in Verifier!Names : Verifier!SameRows(n)
      PROVE  Verifier!Summary(input.left) = Verifier!Summary(input.right)
  <2>1. \A n \in Verifier!Names :
            Verifier!Count(n, input.left[n]) = Verifier!Count(n, input.right[n])
    BY <1>1, ComparisonFacts
  <2> QED
    BY <2>1 DEF Verifier!Summary
<1>2. Verifier!CompareDatasets(input.left, input.right) # <<>>
  <2>1. DOMAIN Verifier!CompareDatasets(input.left, input.right) = Verifier!Names
    BY DEF Verifier!CompareDatasets
  <2>2. Verifier!Names # {}
    BY VerificationFacts DEF Verifier!Names
  <2>3. DOMAIN <<>> = {}
    OBVIOUS
  <2> QED
    BY <2>1, <2>2, <2>3
<1> QED
  BY <1>1, <1>2

\* Nothing is compared at first.
LEMMA VerifierInitial == Verifier!Init => Verifier!VerifierInv
<1> SUFFICES ASSUME Verifier!Init PROVE Verifier!VerifierInv
  OBVIOUS
<1>1. /\ input \in VerificationInputs
      /\ DOMAIN state = {"phase", "comparisons", "summary_match", "validation", "status",
                         "changed", "preserved"}
      /\ state.phase = "started" /\ state.comparisons = <<>> /\ state.validation = "passed"
      /\ state.changed = {}
  BY DEF Verifier!Init
<1> QED
  BY <1>1 DEF Verifier!VerifierInv, Verifier!ReportsAreRight

\* Both are generated, or the report is of an error.
LEMMA GenerateStep ==
    ASSUME Verifier!VerifierInv, Verifier!Generate
    PROVE  Verifier!VerifierInv'
<1> DEFINE fields == {"phase", "comparisons", "summary_match", "validation", "status",
                      "changed", "preserved"}
           compared == Verifier!CompareDatasets(input.left, input.right)
<1>1. /\ input \in VerificationInputs /\ DOMAIN state = fields /\ input' = input
      /\ state.comparisons = <<>> /\ state.changed = {}
  BY DEF Verifier!VerifierInv, Verifier!Generate
<1>2. CASE state' = [state EXCEPT !.phase = "generated", !.comparisons = compared]
  <2> HIDE DEF compared
  <2>1. /\ DOMAIN state' = fields /\ state'.phase = "generated" /\ state'.comparisons = compared
        /\ state'.changed = {}
    BY <1>1, <1>2
  <2> QED
    BY <1>1, <2>1 DEF Verifier!VerifierInv, Verifier!ReportsAreRight, compared
<1>3. CASE state' = Verifier!Failed(state)
  <2>1. /\ DOMAIN state' = fields /\ state'.phase = "reported" /\ state'.comparisons = <<>>
        /\ state'.status = "error"
    BY <1>1, <1>3 DEF Verifier!Failed
  <2>2. Verifier!ReportsAreRight'
    BY <2>1 DEF Verifier!ReportsAreRight
  <2> QED
    BY <1>1, <2>1, <2>2 DEF Verifier!VerifierInv
<1> QED
  BY <1>2, <1>3 DEF Verifier!Generate

\* Validation finds the left one sound or not, or raises.
LEMMA ValidateStep ==
    ASSUME Verifier!VerifierInv, Verifier!Validate
    PROVE  Verifier!VerifierInv'
<1> DEFINE fields == {"phase", "comparisons", "summary_match", "validation", "status",
                      "changed", "preserved"}
           compared == Verifier!CompareDatasets(input.left, input.right)
           match == input.kind = "same_seed"
                    /\ Verifier!Summary(input.left) = Verifier!Summary(input.right)
<1>1. /\ input \in VerificationInputs /\ DOMAIN state = fields /\ input' = input
      /\ state.comparisons = compared /\ state.changed = {}
  BY DEF Verifier!VerifierInv, Verifier!Validate
<1> HIDE DEF compared, match
<1>2. PICK raises \in BOOLEAN :
          /\ raises => input.validate
          /\ state' = [state EXCEPT !.phase = "validated", !.summary_match = match,
                           !.validation = CASE raises -> "raised"
                               [] ~raises /\ (input.validate => input.valid) -> "passed"
                               [] ~raises /\ input.validate /\ ~input.valid -> "failed"]
  BY Zenon DEF Verifier!Validate, match
<1>3. /\ DOMAIN state' = fields /\ state'.phase = "validated" /\ state'.summary_match = match
      /\ state'.comparisons = compared /\ state'.changed = {}
      /\ state'.validation = CASE raises -> "raised"
                               [] ~raises /\ (input.validate => input.valid) -> "passed"
                               [] ~raises /\ input.validate /\ ~input.valid -> "failed"
  BY <1>1, <1>2
<1>4. /\ state'.validation \in {"passed", "failed", "raised"}
      /\ state'.validation = "passed" => Verifier!Sound
      /\ state'.validation = "failed" => ~Verifier!Sound
  BY <1>1, <1>3, VerificationFacts DEF Verifier!Sound
<1>5. Verifier!ValidationFits(state)'
  BY <1>1, <1>4 DEF Verifier!ValidationFits, Verifier!Sound
<1>6. Verifier!ReportsAreRight'
  BY <1>3 DEF Verifier!ReportsAreRight
<1> QED
  BY <1>1, <1>3, <1>5, <1>6 DEF Verifier!VerifierInv, compared, match

\* The report says what was compared.
LEMMA ReportStep ==
    ASSUME Verifier!VerifierInv, Verifier!Report
    PROVE  Verifier!VerifierInv'
<1> DEFINE fields == {"phase", "comparisons", "summary_match", "validation", "status",
                      "changed", "preserved"}
           compared == Verifier!CompareDatasets(input.left, input.right)
           same(n) == Verifier!SameRows(n) /\ Verifier!SameColumns(n)
<1>1. /\ input \in VerificationInputs /\ DOMAIN state = fields /\ input' = input
      /\ state.comparisons = compared /\ Verifier!ValidationFits(state)
      /\ state.summary_match <=>
             input.kind = "same_seed" /\ Verifier!Summary(input.left) = Verifier!Summary(input.right)
  BY DEF Verifier!VerifierInv, Verifier!Report
<1>2. /\ \A n \in Verifier!Names :
             /\ compared[n].values_equal <=> same(n)
             /\ compared[n].schema_equal => Verifier!SameColumns(n)
             /\ Verifier!SameRows(n) => compared[n].left_row_count = compared[n].right_row_count
      /\ (\A n \in Verifier!Names : same(n)) =>
             Verifier!Summary(input.left) = Verifier!Summary(input.right)
      /\ compared # <<>> /\ Stochastic \subseteq Verifier!Names
      /\ input.kind \in {"same_seed", "different_seed"}
  BY <1>1, ComparisonFacts, SummaryFacts, VerificationFacts
<1> DEFINE status == IF input.kind = "same_seed" THEN Verifier!SameSeedStatus(state)
                                                 ELSE Verifier!DifferentSeedStatus(state)
           changed == IF input.kind = "same_seed" THEN {} ELSE Verifier!Changed(state)
<1> HIDE DEF compared
<1>3. /\ DOMAIN state' = fields /\ state'.phase = "reported" /\ state'.comparisons = compared
      /\ state'.status = status /\ state'.changed = changed
      /\ state'.validation = state.validation
  <2> HIDE DEF status, changed
  <2>1. state' = [state EXCEPT !.phase = "reported", !.preserved = Verifier!Names,
                                 !.status = status, !.changed = changed]
    BY DEF Verifier!Report, status, changed
  <2> QED
    BY <1>1, <2>1
<1>4. Verifier!Changed(state) = {n \in Stochastic : ~compared[n].values_equal}
  BY <1>1 DEF Verifier!Changed
<1>5. \A n \in changed : n \in Stochastic /\ ~compared[n].values_equal
  BY <1>4
<1>6. status = "error" <=> state.validation = "raised"
  BY <1>1 DEF Verifier!SameSeedStatus, Verifier!DifferentSeedStatus, Verifier!ValidationFits
<1>7. input.kind = "same_seed" /\ status # "error" =>
          (status = "passed" <=> Verifier!Sound /\ \A n \in Verifier!Names : same(n))
  <2> SUFFICES ASSUME input.kind = "same_seed", state.validation # "raised"
               PROVE  status = "passed" <=> Verifier!Sound /\ \A n \in Verifier!Names : same(n)
    BY <1>6
  <2>1. status = "passed" <=> /\ state.summary_match /\ state.validation = "passed"
                              /\ \A n \in Verifier!Names : compared[n].values_equal
    BY <1>1 DEF Verifier!SameSeedStatus
  <2>2. state.validation = "passed" <=> Verifier!Sound
    BY <1>1 DEF Verifier!ValidationFits
  <2> HIDE DEF status, same
  <2> QED
    BY <1>1, <1>2, <2>1, <2>2
<1>8. input.kind = "different_seed" /\ status = "passed" =>
          /\ Verifier!Sound /\ \A n \in Verifier!Names : Verifier!SameColumns(n)
          /\ \E n \in Stochastic : ~same(n)
  <2> SUFFICES ASSUME input.kind = "different_seed", status = "passed"
               PROVE  /\ Verifier!Sound /\ \A n \in Verifier!Names : Verifier!SameColumns(n)
                      /\ \E n \in Stochastic : ~same(n)
    OBVIOUS
  <2>1. /\ state.validation = "passed" /\ Verifier!Changed(state) # {}
        /\ \A n \in Verifier!Names : compared[n].schema_equal
    BY <1>1 DEF Verifier!DifferentSeedStatus, Verifier!ValidationFits
  <2> HIDE DEF status, same
  <2> QED
    BY <1>1, <1>2, <1>4, <2>1 DEF Verifier!ValidationFits
<1> HIDE DEF status, changed, same
<1>9. Verifier!ReportsAreRight'
  <2>1. /\ \A n : Verifier!SameRows(n)' <=> Verifier!SameRows(n)
        /\ \A n : Verifier!SameColumns(n)' <=> Verifier!SameColumns(n)
        /\ Verifier!Sound' <=> Verifier!Sound
    BY <1>1 DEF Verifier!SameRows, Verifier!SameColumns, Verifier!Sound
  <2>2. /\ state'.status = "error" <=> state'.comparisons = <<>> \/ state'.validation = "raised"
        /\ input'.kind = "same_seed" /\ state'.status # "error" =>
               (state'.status = "passed" <=>
                    Verifier!Sound' /\ \A n \in Verifier!Names :
                                          Verifier!SameRows(n)' /\ Verifier!SameColumns(n)')
    BY <1>1, <1>2, <1>3, <1>6, <1>7, <2>1 DEF same
  <2>3. input'.kind = "different_seed" /\ state'.status = "passed" =>
               /\ Verifier!Sound' /\ \A n \in Verifier!Names : Verifier!SameColumns(n)'
               /\ \E n \in Stochastic : ~(Verifier!SameRows(n)' /\ Verifier!SameColumns(n)')
    BY <1>1, <1>3, <1>8, <2>1 DEF same
  <2>4. \A n \in Verifier!Names :
            /\ state'.comparisons[n].values_equal /\ n \in Stochastic => n \notin state'.changed
            /\ Verifier!SameRows(n)' => state'.comparisons[n].left_row_count
                                            = state'.comparisons[n].right_row_count
    BY <1>2, <1>3, <1>5, <2>1
  <2> QED
    BY <2>2, <2>3, <2>4 DEF Verifier!ReportsAreRight
<1> QED
  BY <1>1, <1>3, <1>9 DEF Verifier!VerifierInv

\* Whatever is compared, found and reported.
LEMMA VerifierNext ==
    ASSUME Verifier!VerifierInv, Verifier!Next \/ UNCHANGED <<input, state>>
    PROVE  Verifier!VerifierInv'
<1>1. CASE Verifier!Next
  BY <1>1, GenerateStep, ValidateStep, ReportStep DEF Verifier!Next
<1>2. CASE UNCHANGED <<input, state>>
  <2>1. Verifier!ReportsAreRight'
    BY <1>2 DEF Verifier!VerifierInv, Verifier!ReportsAreRight, Verifier!SameRows,
                Verifier!SameColumns, Verifier!Sound
  <2> QED
    BY <1>2, <2>1 DEF Verifier!VerifierInv, Verifier!ValidationFits, Verifier!Sound
<1> QED
  BY <1>1, <1>2

-----------------------------------------------------------------------------
(* Retried calls.                                                          *)

\* Powers.
LEMMA PowerFacts ==
    ASSUME NEW x \in Nat
    PROVE  /\ Retry!Power(x, 0) = 1
           /\ \A n \in Nat : Retry!Power(x, n) \in Nat /\ Retry!Power(x, n + 1) = x * Retry!Power(x, n)
<1> DEFINE power == CHOOSE p : p = [k \in Nat |-> IF k = 0 THEN 1 ELSE x * p[k - 1]]
           F == [v \in Nat \X Nat |-> x * v[2]]
<1>1. \A n : Retry!Power(x, n) = power[n]
  BY DEF Retry!Power
<1>2. F \in [Nat \X Nat -> Nat] /\ \A k, v \in Nat : F[<<k, v>>] = x * v
  OBVIOUS
<1>3. PICK g \in [Nat -> Nat] : g[0] = 1 /\ \A k \in Nat : g[k + 1] = F[<<k, g[k]>>]
  <2> HIDE DEF F
  <2>1. \E g \in [Nat -> Nat] : Follows(g, 1, F, Nat)
    BY <1>2, Recursion
  <2> QED
    BY <2>1 DEF Follows
<1>4. g = [k \in Nat |-> IF k = 0 THEN 1 ELSE x * g[k - 1]]
  <2>1. \A k \in Nat : k # 0 => k - 1 \in Nat /\ (k - 1) + 1 = k
    OBVIOUS
  <2>2. \A k \in Nat : g[k] = IF k = 0 THEN 1 ELSE x * g[k - 1]
    BY <1>2, <1>3, <2>1
  <2> QED
    BY <2>2
<1>5. power = [k \in Nat |-> IF k = 0 THEN 1 ELSE x * power[k - 1]]
  BY <1>4
<1> HIDE DEF power
<1>6. power[0] = 1 /\ \A k \in Nat : power[k + 1] = x * power[k]
  <2>1. \A k \in Nat : k + 1 \in Nat /\ k + 1 # 0 /\ (k + 1) - 1 = k
    OBVIOUS
  <2> QED
    BY <1>5, <2>1
<1>7. \A n \in Nat : power[n] \in Nat
  <2> DEFINE S == {n \in Nat : power[n] \in Nat}
  <2>1. 0 \in S /\ \A n \in Nat : n \in S => n + 1 \in S
    BY <1>6
  <2>2. Nat \subseteq S
    <3> HIDE DEF S
    <3> QED
      BY <2>1, InductionOverNat
  <2> QED
    BY <2>2
<1>8. QED
  BY <1>1, <1>6, <1>7

\* The powers of what is not zero are not zero.
LEMMA PowersArePositive ==
    ASSUME NEW x \in Nat \ {0}
    PROVE  \A n \in Nat : Retry!Power(x, n) \in Nat \ {0}
<1> DEFINE S == {n \in Nat : Retry!Power(x, n) \in Nat \ {0}}
<1>1. 0 \in S
  BY PowerFacts
<1>2. ASSUME NEW n \in Nat, n \in S PROVE n + 1 \in S
  <2>1. Retry!Power(x, n + 1) = x * Retry!Power(x, n) /\ Retry!Power(x, n) \in Nat \ {0}
    BY <1>2, PowerFacts
  <2>2. \A y \in Nat \ {0} : x * y \in Nat \ {0}
    OBVIOUS
  <2> QED
    BY <2>1, <2>2
<1>3. Nat \subseteq S
  <2> HIDE DEF S
  <2> QED
    BY <1>1, <1>2, InductionOverNat
<1>4. QED
  BY <1>3

\* A delay is capped, and the next is not shorter when the multiplier, counted in halves, is at least one.
LEMMA DelaysGrow ==
    ASSUME NEW policy \in Retry!Policy, NEW k \in Nat \ {0}
    PROVE  /\ Retry!DelayForRetry(policy, k) <= policy.maximum_retry_delay
           /\ policy.backoff_multiplier >= 2 =>
                  Retry!DelayForRetry(policy, k) <= Retry!DelayForRetry(policy, k + 1)
<1> DEFINE d == policy.retry_delay
           m == policy.backoff_multiplier
           cap == policy.maximum_retry_delay
           P(n) == Retry!Power(m, n)
           Q(n) == Retry!Power(2, n)
           D(n) == (d * P(n)) \div Q(n)
<1>1. d \in Nat /\ m \in Nat /\ cap \in Nat
  BY DEF Retry!Policy
<1>2. \A n \in Nat : P(n) \in Nat /\ P(n + 1) = m * P(n)
  BY <1>1, PowerFacts
<1>3. \A n \in Nat : Q(n) \in Nat \ {0} /\ Q(n + 1) = 2 * Q(n)
  BY PowerFacts, PowersArePositive
<1>4. k - 1 \in Nat /\ (k - 1) + 1 = k /\ (k + 1) - 1 = k
  OBVIOUS
<1>5. /\ Retry!DelayForRetry(policy, k) = IF D(k - 1) < cap THEN D(k - 1) ELSE cap
      /\ Retry!DelayForRetry(policy, k + 1) = IF D(k) < cap THEN D(k) ELSE cap
  BY <1>4 DEF Retry!DelayForRetry
<1> HIDE DEF P, Q
<1>6. \A n \in Nat : d * P(n) \in Nat
  BY <1>1, <1>2
<1>7. D(k - 1) \in Nat /\ D(k) \in Nat
  BY <1>3, <1>4, <1>6, DivFacts
<1>8. m >= 2 => D(k - 1) <= D(k)
  <2> SUFFICES ASSUME m >= 2 PROVE D(k - 1) <= D(k)
    OBVIOUS
  <2> DEFINE p == P(k - 1)
             q == Q(k - 1)
  <2>1. p \in Nat /\ q \in Nat \ {0} /\ P(k) = m * p /\ Q(k) = 2 * q
    BY <1>2, <1>3, <1>4
  <2>2. (d * p) * (2 * q) <= (d * (m * p)) * q
    <3> HIDE DEF p, q, d, m
    <3>1. 2 * p <= m * p
      BY <1>1, <2>1
    <3>2. d * (2 * p) <= d * (m * p)
      BY <1>1, <2>1, <3>1
    <3>3. (d * (2 * p)) * q <= (d * (m * p)) * q
      BY <1>1, <2>1, <3>2
    <3> QED
      BY <1>1, <2>1, <3>3
  <2>3. d * p \in Nat /\ d * (m * p) \in Nat /\ 2 * q \in Nat \ {0}
    BY <1>1, <2>1
  <2> HIDE DEF p, q, d, m
  <2>4. (d * p) \div q <= (d * (m * p)) \div (2 * q)
    BY <2>1, <2>2, <2>3, FractionsCompare
  <2> QED
    BY <2>1, <2>4 DEF p, q
<1> HIDE DEF D
<1>9. QED
  BY <1>1, <1>5, <1>7, <1>8

\* The module of the retries counts as this one does.
LEMMA RetryCounts == \A S : Retry!Cardinality(S) = Cardinality(S)
BY Zenon DEF Retry!Cardinality, Cardinality

\* Of what the policies allow, and what their extension allows.
LEMMA RetryInitial ==
    ASSUME Retry!Init
    PROVE  Retry!RetryInv
<1>1. PICK policy \in RetryPolicies, added \in Additions :
        Retry!Valid(Retry!Extend(policy, added)) /\ input = Retry!Extend(policy, added)
  BY DEF Retry!Init
<1>2. state = [phase |-> "ready", attempts |-> <<>>, done |-> 0, error |-> "none"]
  BY DEF Retry!Init
<1>3. policy \in Retry!Policy /\ added \subseteq Retry!ExceptionClasses
  BY RetryConstants DEF Retry!PoliciesFit
<1>4. input \in Retry!Policy /\ Retry!Valid(input)
  BY <1>1, <1>3 DEF Retry!Extend, Retry!Policy
<1>5. state \in Retry!Execution /\ Len(state.attempts) = 0 /\ DOMAIN state.attempts = {}
  BY <1>2 DEF Retry!Execution
<1>6. input.maximum_retries \in Nat
  BY <1>4 DEF Retry!Policy
<1>7. Cardinality(Retry!Late) = 0
  BY <1>5, FS_EmptySet DEF Retry!Late, Retry!Attempts
<1>8. Retry!AttemptsTellWhatHappened
  BY <1>2, <1>5, <1>6 DEF Retry!AttemptsTellWhatHappened, Retry!Attempts, Retry!MaximumAttempts
<1>9. Retry!RepeatedWorkWasLate
  BY <1>2, <1>7, RetryCounts DEF Retry!RepeatedWorkWasLate
<1>10. Retry!GoesOn
  BY <1>2, <1>5, <1>6 DEF Retry!GoesOn, Retry!Attempts, Retry!MaximumAttempts
<1>11. Retry!DelaysFollowPolicy
  BY <1>5 DEF Retry!DelaysFollowPolicy, Retry!Attempts
<1>12. QED
  BY <1>4, <1>5, <1>8, <1>9, <1>10, <1>11 DEF Retry!RetryInv

\* What the invariant says of the fields.
LEMMA RetryFacts ==
    ASSUME Retry!RetryInv
    PROVE  /\ input.maximum_retries \in Nat /\ input.timeout \in Nat
           /\ state.attempts \in Seq(Retry!Attempt) /\ Len(state.attempts) \in Nat
           /\ DOMAIN state.attempts = 1..Len(state.attempts)
           /\ state.done \in Nat /\ state.error \in DOMAIN Retry!Classes \cup {"none"}
           /\ IsFiniteSet(Retry!Late) /\ Cardinality(Retry!Late) \in Nat
           /\ Cardinality(Retry!Late) <= Len(state.attempts)
<1>1. /\ input.maximum_retries \in Nat /\ input.timeout \in Nat
      /\ state.attempts \in Seq(Retry!Attempt) /\ Len(state.attempts) \in Nat
      /\ DOMAIN state.attempts = 1..Len(state.attempts)
      /\ state.done \in Nat /\ state.error \in DOMAIN Retry!Classes \cup {"none"}
  BY DEF Retry!RetryInv, Retry!Policy, Retry!Execution
<1>2. Retry!Late \in SUBSET (1..Len(state.attempts))
  BY <1>1 DEF Retry!Late, Retry!Attempts
<1>3. /\ IsFiniteSet(1..Len(state.attempts))
      /\ Cardinality(1..Len(state.attempts)) = Len(state.attempts)
  <2>1. 1 \in Int /\ Len(state.attempts) \in Int
    BY <1>1
  <2>2. /\ IsFiniteSet(1..Len(state.attempts))
        /\ Cardinality(1..Len(state.attempts)) =
               IF 1 > Len(state.attempts) THEN 0 ELSE Len(state.attempts) - 1 + 1
    BY <2>1, FS_Interval
  <2> QED
    BY <1>1, <2>2
<1>4. /\ IsFiniteSet(Retry!Late) /\ Cardinality(Retry!Late) \in Nat
      /\ Cardinality(Retry!Late) <= Len(state.attempts)
  BY <1>2, <1>3, FS_Subset, FS_CardinalityType
<1>5. QED
  BY <1>1, <1>4

\* A call that is over has one more attempt in its history.
LEMMA AttemptEnds ==
    ASSUME Retry!RetryInv, state.phase = "calling", UNCHANGED input,
           NEW phase \in {"sleeping", "returned", "exhausted"},
           NEW attempt \in Retry!Attempt, attempt.attempt_number = Retry!Number,
           NEW done \in {state.done, state.done + 1},
           NEW error \in DOMAIN Retry!Classes \cup {"none"},
           Retry!Ends(phase, attempt, done, error),
           phase = "sleeping" =>
               /\ Retry!Number < Retry!MaximumAttempts(input) /\ attempt.decision = "retry"
               /\ Retry!IsRetryable(input, attempt.error)
               /\ attempt.delay_before_next_attempt = Retry!DelayForRetry(input, Retry!Number),
           phase # "sleeping" => attempt.decision # "retry",
           phase = "returned" => attempt.duration <= input.timeout,
           phase = "exhausted" =>
               Retry!Number = Retry!MaximumAttempts(input) \/ ~Retry!IsRetryable(input, error),
           done = state.done + 1 => 
               \/ phase = "returned"
               \/ attempt.error = "TimeoutError" /\ attempt.duration > input.timeout
    PROVE  Retry!RetryInv'
<1> DEFINE n == Len(state.attempts) + 1
           late == attempt.error = "TimeoutError" /\ attempt.duration > input.timeout
<1>1. /\ n \in Nat /\ DOMAIN state.attempts = 1..(n - 1) /\ Retry!Number = n
      /\ input.maximum_retries \in Nat /\ input.timeout \in Nat
      /\ state.attempts \in Seq(Retry!Attempt)
  BY RetryFacts DEF Retry!Number
<1>2. state' = [phase |-> phase, attempts |-> Append(state.attempts, attempt),
                done |-> done, error |-> error]
  BY DEF Retry!Ends
<1>3. /\ state'.phase = phase /\ state'.done = done /\ state'.error = error
      /\ state'.attempts = Append(state.attempts, attempt)
  BY <1>2
<1>4. /\ state'.attempts \in Seq(Retry!Attempt) /\ Len(state'.attempts) = n
      /\ DOMAIN state'.attempts = 1..n /\ state'.attempts[n] = attempt
      /\ \A k \in 1..(n - 1) : state'.attempts[k] = state.attempts[k]
  BY <1>1, <1>3
<1>5. Retry!Attempt' = Retry!Attempt /\ input' = input
  BY DEF Retry!Attempt
<1>6. state' \in Retry!Execution'
  <2>1. done \in Nat
    BY RetryFacts
  <2> QED
    BY <1>2, <1>3, <1>4, <1>5, <2>1 DEF Retry!Execution
<1>7. Retry!Number <= Retry!MaximumAttempts(input)
  BY <1>1 DEF Retry!RetryInv, Retry!GoesOn, Retry!MaximumAttempts
<1>8. \A k \in 1..(n - 1) :
        /\ state.attempts[k].attempt_number = k /\ state.attempts[k].decision = "retry"
        /\ Retry!IsInstance(state.attempts[k].error, input.retryable)
        /\ ~Retry!IsInstance(state.attempts[k].error, input.non_retryable)
  BY <1>1 DEF Retry!RetryInv, Retry!GoesOn, Retry!AttemptsTellWhatHappened, Retry!Attempts
<1>9. Retry!AttemptsTellWhatHappened'
  <2>1. \A k \in 1..n : k = n \/ k \in 1..(n - 1)
    BY <1>1
  <2>2. attempt.decision = "retry" => Retry!IsRetryable(input, attempt.error)
    OBVIOUS
  <2>3. \A k \in 1..n :
          /\ state'.attempts[k].attempt_number = k
          /\ state'.attempts[k].decision = "retry" =>
                 /\ Retry!IsInstance(state'.attempts[k].error, input.retryable)
                 /\ ~Retry!IsInstance(state'.attempts[k].error, input.non_retryable)
          /\ state'.attempts[k].decision # "retry" => k = n
    BY <1>1, <1>4, <1>8, <2>1, <2>2 DEF Retry!IsRetryable
  <2> QED
    BY <1>1, <1>3, <1>4, <1>5, <1>7, <2>3 DEF Retry!AttemptsTellWhatHappened, Retry!Attempts
<1>10. Retry!RepeatedWorkWasLate'
  <2>1. Retry!Late' = IF late THEN Retry!Late \cup {n} ELSE Retry!Late
    <3>1. /\ \A k \in Retry!Late' : k \in Retry!Late \/ (k = n /\ late)
          /\ \A k \in Retry!Late : k \in Retry!Late'
          /\ late => n \in Retry!Late'
      BY <1>1, <1>4, <1>5 DEF Retry!Late, Retry!Attempts
    <3> QED
      BY <3>1
  <2>2. IsFiniteSet(Retry!Late) /\ Cardinality(Retry!Late) \in Nat /\ n \notin Retry!Late
    BY <1>1, RetryFacts DEF Retry!Late, Retry!Attempts
  <2>3. Cardinality(Retry!Late') = IF late THEN Cardinality(Retry!Late) + 1 ELSE Cardinality(Retry!Late)
    BY <2>1, <2>2, FS_AddElement
  <2>4. state.done \in Nat /\ state.done <= Cardinality(Retry!Late)
    BY RetryFacts, RetryCounts DEF Retry!RetryInv, Retry!RepeatedWorkWasLate
  <2> QED
    BY <1>3, <2>2, <2>3, <2>4, RetryCounts DEF Retry!RepeatedWorkWasLate
<1>11. Retry!GoesOn'
  <2>1. \A k \in 1..n : k = n \/ k \in 1..(n - 1)
    BY <1>1
  <2> QED
    BY <1>1, <1>3, <1>4, <1>5, <1>8, <2>1 DEF Retry!GoesOn, Retry!Attempts, Retry!MaximumAttempts
<1>12. Retry!DelaysFollowPolicy'
  <2>1. \A k \in 1..(n - 1) :
          state.attempts[k].delay_before_next_attempt = Retry!DelayForRetry(input, k)
    BY <1>1, <1>8 DEF Retry!RetryInv, Retry!DelaysFollowPolicy, Retry!Attempts
  <2>2. attempt.decision = "retry" =>
          attempt.delay_before_next_attempt = Retry!DelayForRetry(input, n)
    BY <1>1
  <2>3. \A k \in 1..n : k = n \/ k \in 1..(n - 1)
    BY <1>1
  <2>4. \A k \in 1..n : state'.attempts[k].decision = "retry" =>
          state'.attempts[k].delay_before_next_attempt = Retry!DelayForRetry(input, k)
    BY <1>4, <2>1, <2>2, <2>3
  <2>5. Retry!Attempts' = 1..n
    BY <1>4 DEF Retry!Attempts
  <2>6. \A k : Retry!DelayForRetry(input, k)' = Retry!DelayForRetry(input, k)
    BY <1>5 DEF Retry!DelayForRetry
  <2> QED
    BY <2>4, <2>5, <2>6 DEF Retry!DelaysFollowPolicy
<1>13. QED
  BY <1>5, <1>6, <1>9, <1>10, <1>11, <1>12 DEF Retry!RetryInv, Retry!Policy

\* An error that is handled keeps the invariant: it is retried or it is the end.
LEMMA FailedInv ==
    ASSUME Retry!RetryInv, state.phase = "calling", UNCHANGED input,
           NEW error \in DOMAIN Retry!Classes, NEW elapsed \in Nat,
           NEW done \in {state.done, state.done + 1},
           done = state.done + 1 => error = "TimeoutError" /\ elapsed > input.timeout,
           Retry!Failed(error, elapsed, done)
    PROVE  Retry!RetryInv'
<1>1. /\ Retry!Number \in Nat \ {0} /\ input.maximum_retries \in Nat
      /\ state.error \in DOMAIN Retry!Classes \cup {"none"}
  BY RetryFacts DEF Retry!Number
<1>2. Retry!Number <= Retry!MaximumAttempts(input)
  BY <1>1, RetryFacts DEF Retry!RetryInv, Retry!GoesOn, Retry!MaximumAttempts, Retry!Number
<1>3. CASE Retry!ShouldRetry(input, error, Retry!Number)
  <2> DEFINE delay == Retry!DelayForRetry(input, Retry!Number)
             attempt == Retry!RetryAttempt(Retry!Number, elapsed, "retry", error, delay)
  <2>1. Retry!Ends("sleeping", attempt, done, state.error)
    BY <1>3 DEF Retry!Failed
  <2>2. Retry!Number < Retry!MaximumAttempts(input) /\ Retry!IsRetryable(input, error)
    BY <1>3 DEF Retry!ShouldRetry
  <2>3. delay \in {0} \cup {Retry!DelayForRetry(input, k) : k \in 1..input.maximum_retries}
    <3>1. Retry!Number \in 1..input.maximum_retries
      BY <1>1, <2>2 DEF Retry!MaximumAttempts
    <3> QED
      BY <3>1
  <2> HIDE DEF delay
  <2>4. /\ attempt \in Retry!Attempt /\ attempt.attempt_number = Retry!Number
        /\ attempt.decision = "retry" /\ attempt.error = error /\ attempt.duration = elapsed
        /\ attempt.delay_before_next_attempt = Retry!DelayForRetry(input, Retry!Number)
    BY <1>1, <2>3 DEF Retry!RetryAttempt, Retry!Attempt, delay
  <2> HIDE DEF attempt
  <2> QED
    BY <1>1, <2>1, <2>2, <2>4, AttemptEnds
<1>4. CASE ~Retry!ShouldRetry(input, error, Retry!Number)
  <2> DEFINE attempt == Retry!RetryAttempt(Retry!Number, elapsed, "fail", error, 0)
  <2>1. Retry!Ends("exhausted", attempt, done, error)
    BY <1>4 DEF Retry!Failed, Retry!Exhausted
  <2>2. Retry!Number = Retry!MaximumAttempts(input) \/ ~Retry!IsRetryable(input, error)
    BY <1>1, <1>2, <1>4 DEF Retry!ShouldRetry, Retry!MaximumAttempts
  <2>3. /\ attempt \in Retry!Attempt /\ attempt.attempt_number = Retry!Number
        /\ attempt.decision = "fail" /\ attempt.error = error /\ attempt.duration = elapsed
    BY <1>1 DEF Retry!RetryAttempt, Retry!Attempt
  <2> HIDE DEF attempt
  <2> QED
    BY <2>1, <2>2, <2>3, AttemptEnds
<1>5. QED
  BY <1>3, <1>4

\* So does a call that returns, in time or late.
LEMMA ReturnInv ==
    ASSUME Retry!RetryInv, NEW elapsed \in Nat, Retry!Return(elapsed)
    PROVE  Retry!RetryInv'
<1>1. state.phase = "calling" /\ UNCHANGED input /\ input.timeout \in Nat
  BY RetryFacts DEF Retry!Return
<1>2. CASE elapsed > input.timeout
  <2>1. Retry!Failed("TimeoutError", elapsed, state.done + 1)
    BY <1>2 DEF Retry!Return
  <2>2. "TimeoutError" \in DOMAIN Retry!Classes
    BY DEF Retry!Classes
  <2> QED
    BY <1>1, <1>2, <2>1, <2>2, FailedInv
<1>3. CASE ~(elapsed > input.timeout)
  <2> DEFINE attempt == Retry!RetryAttempt(Retry!Number, elapsed, "success", "none", 0)
  <2>1. Retry!Ends("returned", attempt, state.done + 1, "none")
    BY <1>3 DEF Retry!Return, Retry!Succeeded
  <2>2. /\ attempt \in Retry!Attempt /\ attempt.attempt_number = Retry!Number
        /\ attempt.decision = "success" /\ attempt.duration = elapsed
    BY RetryFacts DEF Retry!RetryAttempt, Retry!Attempt, Retry!Number
  <2>3. elapsed <= input.timeout
    BY <1>1, <1>3
  <2> HIDE DEF attempt
  <2> QED
    BY <1>1, <2>1, <2>2, <2>3, AttemptEnds
<1>4. QED
  BY <1>2, <1>3

\* Between the calls only the phase changes, among those of a retry that goes on.
LEMMA PhaseInv ==
    ASSUME Retry!RetryInv, UNCHANGED input,
           ~ (state.phase \in {"returned", "exhausted"}),
           NEW phase \in {"ready", "calling", "interrupted"},
           state' = [state EXCEPT !.phase = phase]
    PROVE  Retry!RetryInv'
<1>1. state \in Retry!Execution
  BY DEF Retry!RetryInv
<1>2. /\ state'.phase = phase /\ state'.attempts = state.attempts
      /\ state'.done = state.done /\ state'.error = state.error
  BY <1>1 DEF Retry!Execution
<1>3. Retry!Attempt' = Retry!Attempt
  BY DEF Retry!Attempt
<1>4. state' \in Retry!Execution'
  BY <1>1, <1>3 DEF Retry!Execution
<1>5. Retry!AttemptsTellWhatHappened'
  BY <1>2 DEF Retry!RetryInv, Retry!AttemptsTellWhatHappened, Retry!Attempts
<1>6. Retry!Late' = Retry!Late
  BY <1>2 DEF Retry!Late, Retry!Attempts
<1>7. Retry!RepeatedWorkWasLate'
  BY <1>2, <1>6, RetryCounts DEF Retry!RetryInv, Retry!RepeatedWorkWasLate
<1>8. Retry!GoesOn'
  BY <1>2 DEF Retry!RetryInv, Retry!GoesOn, Retry!Attempts
<1>9. Retry!DelaysFollowPolicy'
  BY <1>2 DEF Retry!RetryInv, Retry!DelaysFollowPolicy, Retry!Attempts, Retry!DelayForRetry
<1>10. QED
  BY <1>4, <1>5, <1>7, <1>8, <1>9 DEF Retry!RetryInv, Retry!Policy

\* Every step of a retried call keeps the invariant.
LEMMA RetryNext ==
    ASSUME Retry!RetryInv, Retry!Next \/ UNCHANGED <<input, state>>
    PROVE  Retry!RetryInv'
<1>1. CASE Retry!Call
  BY <1>1, PhaseInv DEF Retry!Call
<1>2. CASE Retry!Finish
  <2>1. PICK elapsed \in {input.timeout, input.timeout + 1} :
          Retry!Return(elapsed) \/ \E error \in DOMAIN Retry!Classes : Retry!Raise(error, elapsed)
    BY <1>2 DEF Retry!Finish
  <2>2. elapsed \in Nat
    BY RetryFacts
  <2>3. ASSUME NEW error \in DOMAIN Retry!Classes, Retry!Raise(error, elapsed)
        PROVE  Retry!RetryInv'
    <3>1. /\ state.phase = "calling" /\ UNCHANGED input
          /\ Retry!Failed(error, elapsed, state.done)
      BY <2>3 DEF Retry!Raise
    <3>2. state.done # state.done + 1
      BY RetryFacts
    <3> QED
      BY <2>2, <3>1, <3>2, FailedInv
  <2> QED
    BY <2>1, <2>2, <2>3, ReturnInv
<1>3. CASE Retry!Wake
  BY <1>3, PhaseInv DEF Retry!Wake
<1>4. CASE Retry!Interrupt
  BY <1>4, PhaseInv DEF Retry!Interrupt
<1>5. CASE UNCHANGED <<input, state>>
  <2>1. input' = input /\ state' = state
    BY <1>5
  <2>2. Retry!Attempt' = Retry!Attempt /\ Retry!Late' = Retry!Late
    BY <2>1 DEF Retry!Attempt, Retry!Late, Retry!Attempts
  <2>3. Retry!AttemptsTellWhatHappened'
    BY <2>1 DEF Retry!RetryInv, Retry!AttemptsTellWhatHappened, Retry!Attempts
  <2>4. state' \in Retry!Execution' /\ Retry!RepeatedWorkWasLate' /\ Retry!GoesOn'
    BY <2>1, <2>2, RetryCounts
       DEF Retry!RetryInv, Retry!Execution, Retry!RepeatedWorkWasLate, Retry!GoesOn, Retry!Attempts
  <2>5. Retry!DelaysFollowPolicy'
    BY <2>1 DEF Retry!RetryInv, Retry!DelaysFollowPolicy, Retry!Attempts, Retry!DelayForRetry
  <2> QED
    BY <2>1, <2>3, <2>4, <2>5 DEF Retry!RetryInv, Retry!Policy
<1>6. QED
  BY <1>1, <1>2, <1>3, <1>4, <1>5 DEF Retry!Next

\* The delays of the invariant are the growing ones of the policy.
LEMMA RetryDelays ==
    ASSUME Retry!RetryInv
    PROVE  Retry!RetriesBackOff
<1> SUFFICES ASSUME NEW k \in Retry!Attempts, state.attempts[k].decision = "retry"
             PROVE  /\ state.attempts[k].delay_before_next_attempt <= input.maximum_retry_delay
                    /\ k > 1 /\ input.backoff_multiplier >= 2 =>
                           state.attempts[k - 1].delay_before_next_attempt
                               <= state.attempts[k].delay_before_next_attempt
  BY DEF Retry!RetriesBackOff
<1>1. /\ DOMAIN state.attempts = 1..Len(state.attempts) /\ Len(state.attempts) \in Nat
      /\ input \in Retry!Policy
  BY RetryFacts DEF Retry!RetryInv
<1>2. k \in Nat \ {0} /\ k \in 1..Len(state.attempts)
  BY <1>1 DEF Retry!Attempts
<1>3. state.attempts[k].delay_before_next_attempt = Retry!DelayForRetry(input, k)
  BY DEF Retry!RetryInv, Retry!DelaysFollowPolicy
<1>4. ASSUME k > 1
      PROVE  /\ k - 1 \in Nat \ {0} /\ (k - 1) + 1 = k
             /\ state.attempts[k - 1].delay_before_next_attempt = Retry!DelayForRetry(input, k - 1)
  <2>1. k - 1 \in Retry!Attempts /\ k - 1 \in Nat \ {0} /\ (k - 1) + 1 = k
    BY <1>1, <1>2, <1>4 DEF Retry!Attempts
  <2>2. k - 1 # Len(state.attempts)
    BY <1>1, <1>2
  <2>3. state.attempts[k - 1].decision = "retry"
    BY <2>1, <2>2 DEF Retry!RetryInv, Retry!AttemptsTellWhatHappened
  <2> QED
    BY <2>1, <2>3 DEF Retry!RetryInv, Retry!DelaysFollowPolicy
<1>5. QED
  BY <1>1, <1>2, <1>3, <1>4, DelaysGrow

\* The invariant types a retried call.
LEMMA RetryTypes ==
    ASSUME Retry!RetryInv
    PROVE  Retry!TypeOK
<1>1. /\ Retry!Valid(input)
      /\ state.phase \in {"ready", "calling", "sleeping", "returned", "exhausted", "interrupted"}
  BY DEF Retry!RetryInv, Retry!Execution
<1>2. /\ state.done \in Nat /\ Len(state.attempts) \in Nat
      /\ Cardinality(Retry!Late) \in Nat /\ Cardinality(Retry!Late) <= Len(state.attempts)
  BY RetryFacts
<1>3. state.done <= Cardinality(Retry!Late) + 1
  <2>1. state.done <= Cardinality(Retry!Late) + (IF state.phase = "returned" THEN 1 ELSE 0)
    BY RetryCounts DEF Retry!RetryInv, Retry!RepeatedWorkWasLate
  <2> QED
    BY <1>2, <2>1
<1>4. state.done \in 0..Retry!Number
  BY <1>2, <1>3 DEF Retry!Number
<1>5. QED
  BY <1>1, <1>4 DEF Retry!TypeOK

-----------------------------------------------------------------------------
(* The steps of a failure dataset.                                         *)

\* A table is given before it is labelled.
LEMMA LabelsInitial == Labels!Init => Labels!LabelsInv
BY DEF Labels!Init, Labels!LabelsInv

\* Labels hang on the failures that are given.
LEMMA ToldStays ==
    ASSUME input' = input, NEW t, Labels!Told(t), state'.rows = t
    PROVE  Labels!Told(state.rows)'
<1>1. \A row : Labels!FailsSoon(row)' = Labels!FailsSoon(row)
  BY Zenon DEF Labels!FailsSoon
<1> QED
  BY Zenon DEF Labels!Told, Labels!FailsSoon

\* Each stage keeps what the one before it made of the observations.
LEMMA LabelsNext ==
    ASSUME Labels!LabelsInv, [Labels!Next]_<<input, state>>
    PROVE  Labels!LabelsInv'
<1>1. /\ input \in LabelInputs /\ DOMAIN state = {"phase", "rows", "split"}
      /\ state.phase # "split" => state.split = None
  BY DEF Labels!LabelsInv
<1>2. ASSUME input' = input, state' = [state EXCEPT !.phase = "refused"], state.phase # "split"
      PROVE  Labels!LabelsInv'
  <2>1. DOMAIN state' = {"phase", "rows", "split"} /\ state'.phase = "refused"
        /\ state'.split = state.split
    BY <1>1, <1>2
  <2>2. state'.split = None
    BY <1>1, <1>2, <2>1
  <2> QED
    BY <1>1, <1>2, <2>1, <2>2 DEF Labels!LabelsInv
<1>3. ASSUME input' = input, NEW to \in {"labelled", "dataset", "features"}, NEW t,
             state' = [state EXCEPT !.phase = to, !.rows = t], state.phase # "split"
      PROVE  /\ DOMAIN state' = {"phase", "rows", "split"} /\ state'.phase = to
             /\ state'.rows = t /\ state'.split = None
  BY <1>1, <1>3
<1>9. ASSUME NEW x, state' = [state EXCEPT !.phase = "split", !.split = x]
      PROVE  /\ DOMAIN state' = {"phase", "rows", "split"} /\ state'.phase = "split"
             /\ state'.rows = state.rows /\ state'.split = x
  BY <1>1, <1>9
<1>4. CASE Labels!LabelFailureWindows
  <2> DEFINE t == [k \in DOMAIN state.rows |-> Labels!Labelled(state.rows[k])]
  <2>1. /\ state.phase = "given" /\ input' = input
        /\ state' = IF Labels!LabelsAccepted(state.rows)
                    THEN [state EXCEPT !.phase = "labelled", !.rows = t]
                    ELSE [state EXCEPT !.phase = "refused"]
    BY Zenon, <1>4 DEF Labels!LabelFailureWindows, Labels!Prepare
  <2>2. CASE Labels!LabelsAccepted(state.rows)
    <3>1. Labels!Rearranged(t, input.observations) /\ Labels!Told(t)
      BY Zenon, <2>1, <2>2, RowsLabelled
    <3> HIDE DEF t
    <3>2. /\ DOMAIN state' = {"phase", "rows", "split"} /\ state'.phase = "labelled"
          /\ state'.rows = t /\ state'.split = None
      BY <1>3, <2>1, <2>2
    <3>3. Labels!Told(state.rows)'
      BY Zenon, <2>1, <3>1, <3>2, ToldStays
    <3> QED
      BY <1>1, <2>1, <3>1, <3>2, <3>3 DEF Labels!LabelsInv
  <2> QED
    BY <1>2, <2>1, <2>2
<1>5. CASE Labels!BuildMaintenanceDataset
  <2> DEFINE t == Labels!SortedDataset(state.rows)
  <2>1. /\ state.phase = "labelled" /\ input' = input
        /\ state' = IF Labels!DatasetAccepted(state.rows)
                    THEN [state EXCEPT !.phase = "dataset", !.rows = t]
                    ELSE [state EXCEPT !.phase = "refused"]
    BY Zenon, <1>5 DEF Labels!BuildMaintenanceDataset, Labels!Prepare
  <2>2. CASE Labels!DatasetAccepted(state.rows)
    <3>1. Labels!Rearranged(t, input.observations) /\ Labels!InOrder(t) /\ Labels!Told(t)
      BY Zenon, <2>1, <2>2, RowsSorted
    <3> HIDE DEF t
    <3>2. /\ DOMAIN state' = {"phase", "rows", "split"} /\ state'.phase = "dataset"
          /\ state'.rows = t /\ state'.split = None
      BY <1>3, <2>1, <2>2
    <3>3. Labels!Told(state.rows)'
      BY Zenon, <2>1, <3>1, <3>2, ToldStays
    <3> QED
      BY <1>1, <2>1, <3>1, <3>2, <3>3 DEF Labels!LabelsInv
  <2> QED
    BY <1>2, <2>1, <2>2
<1>6. CASE Labels!AddFeatures
  <2> DEFINE t == [k \in DOMAIN state.rows |-> Labels!WithFeatures(state.rows, k)]
  <2>1. /\ state.phase = "dataset" /\ input' = input
        /\ state' = IF input.lag >= 1
                    THEN [state EXCEPT !.phase = "features", !.rows = t]
                    ELSE [state EXCEPT !.phase = "refused"]
    BY Zenon, <1>6 DEF Labels!AddFeatures, Labels!Prepare
  <2>2. CASE input.lag >= 1
    <3>1. /\ Labels!Rearranged(t, input.observations) /\ Labels!InOrder(t)
          /\ Labels!Featured(t, input.lag) /\ Labels!Told(t)
      <4>1. t = [k \in DOMAIN state.rows |-> Labels!WithFeatures(state.rows, k)]
        OBVIOUS
      <4> HIDE DEF t
      <4> QED
        BY Zenon, <2>1, <4>1, RowsFeatured
    <3> HIDE DEF t
    <3>2. /\ DOMAIN state' = {"phase", "rows", "split"} /\ state'.phase = "features"
          /\ state'.rows = t /\ state'.split = None
      BY <1>3, <2>1, <2>2
    <3>3. Labels!Told(state.rows)'
      BY Zenon, <2>1, <3>1, <3>2, ToldStays
    <3> QED
      BY <1>1, <2>1, <2>2, <3>1, <3>2, <3>3 DEF Labels!LabelsInv
  <2> QED
    BY <1>2, <2>1, <2>2
<1>7. CASE Labels!Split
  <2>1. /\ state.phase = "features" /\ input' = input
        /\ state' = IF Labels!SplitAccepted(state.rows)
                    THEN [state EXCEPT !.phase = "split", !.split = Labels!ChronologicalSplit(state.rows)]
                    ELSE [state EXCEPT !.phase = "refused"]
    BY Zenon, <1>7 DEF Labels!Split
  <2>2. CASE Labels!SplitAccepted(state.rows)
    <3>1. state' = [state EXCEPT !.phase = "split", !.split = Labels!ChronologicalSplit(state.rows)]
      BY Zenon, <2>1, <2>2
    <3>2. /\ DOMAIN state' = {"phase", "rows", "split"} /\ state'.phase = "split"
          /\ state'.rows = state.rows /\ state'.split = Labels!ChronologicalSplit(state.rows)
      BY Zenon, <1>9, <3>1
    <3>3. Labels!SplitAccepted(state.rows)'
      BY Zenon, <2>1, <2>2, <3>2 DEF Labels!SplitAccepted
    <3>4. state'.split = Labels!ChronologicalSplit(state.rows)'
      BY Zenon, <2>1, <3>2 DEF Labels!ChronologicalSplit
    <3>5. Labels!Told(state.rows)'
      BY <2>1, <3>2, ToldStays DEF Labels!LabelsInv
    <3> QED
      BY <1>1, <2>1, <3>2, <3>3, <3>4, <3>5 DEF Labels!LabelsInv
  <2>3. CASE ~ Labels!SplitAccepted(state.rows)
    <3>1. state' = [state EXCEPT !.phase = "refused"]
      BY Zenon, <2>1, <2>3
    <3> QED
      BY <1>2, <2>1, <3>1
  <2> QED
    BY <2>2, <2>3
<1>8. CASE UNCHANGED <<input, state>>
  <2>1. input' = input /\ state' = state
    BY <1>8
  <2>2. Labels!SplitAccepted(state.rows) => Labels!SplitAccepted(state.rows)'
    BY Zenon, <2>1 DEF Labels!SplitAccepted
  <2>3. Labels!ChronologicalSplit(state.rows)' = Labels!ChronologicalSplit(state.rows)
    BY Zenon, <2>1 DEF Labels!ChronologicalSplit
  <2>4. Labels!Told(state.rows) => Labels!Told(state.rows)'
    BY Zenon, <2>1, ToldStays
  <2> QED
    BY <2>1, <2>2, <2>3, <2>4 DEF Labels!LabelsInv
<1> QED
  BY <1>4, <1>5, <1>6, <1>7, <1>8 DEF Labels!Next

-----------------------------------------------------------------------------
(* The platform.                                                           *)

Recorded   == subject = "records" => Records!RecordsInv
Registered == subject = "registry" => Registry!RegistryInv
RunsKept   == subject = "runs" => RunStores!RunsInv
Governed   == subject = "governance" => Governance!GovernanceInv
Retried    == subject = "retry" => Retry!RetryInv

Learned ==
    /\ subject = "labels" => Labels!LabelsInv
    /\ subject = "backtest" => Backtest!BacktestInv

Generated ==
    /\ subject = "generation" => Stages!StagesInv
    /\ subject = "measurement" => Chain!ChainInv
    /\ subject = "dataset" => Synthetic!SyntheticInv

Repeatable ==
    /\ subject = "streams" => Streams!StreamsInv
    /\ subject = "verification" => Verifier!VerifierInv

\* A behaviour is about one subject: nothing else of the platform moves.
LEMMA SubjectSteps ==
    ASSUME [Next]_vars
    PROVE  /\ subject' = subject
           /\ subject = "records" => Records!Next \/ UNCHANGED records
           /\ subject = "registry" => Registry!Next \/ UNCHANGED registry
           /\ subject = "runs" => RunStores!Next \/ UNCHANGED runStores
           /\ subject = "governance" => Governance!Next \/ UNCHANGED governance
           /\ subject = "retry" => Retry!Next \/ UNCHANGED <<input, state>>
           /\ subject = "generation" => Stages!Next \/ UNCHANGED <<input, state>>
           /\ subject = "measurement" => Chain!Next \/ UNCHANGED <<input, state>>
           /\ subject = "dataset" => Synthetic!Next \/ UNCHANGED <<input, state>>
           /\ subject = "streams" => Streams!Next \/ UNCHANGED <<input, state>>
           /\ subject = "verification" => Verifier!Next \/ UNCHANGED <<input, state>>
           /\ subject = "labels" => Labels!Next \/ UNCHANGED <<input, state>>
           /\ subject = "backtest" => Backtest!Next \/ UNCHANGED <<input, state>>
<1>1. CASE StoresNext
  BY <1>1 DEF StoresNext, registry, runStores, governance, records
<1>2. CASE CalculationNext /\ UNCHANGED <<subject, registry, runStores, governance>>
  BY <1>2 DEF CalculationNext, GenerationNext, registry, runStores, governance
<1>3. CASE UNCHANGED vars
  BY <1>3 DEF vars, registry, runStores, governance, records
<1>4. QED
  BY <1>1, <1>2, <1>3 DEF Next

\* A record keeps its invariant from its constructor to the table and back.
THEOREM PlatformRecords == Spec => []Recorded
<1>1. Init => Recorded
  BY RecordsInitial DEF Init, StoresInit, CalculationInit, GenerationInit, Recorded
<1>2. Recorded /\ [Next]_vars => Recorded'
  BY SubjectSteps, RecordsNext DEF Recorded
<1>3. QED
  BY <1>1, <1>2, PTL DEF Spec

\* What a constructor of synthetic/models accepts, its table takes, but for the
\* few cases listed in Unbounded: the rules of the models and the constraints
\* and column types of the migrations agree, whatever the record.  And what is
\* stored is read back as it was on any later day, but for active tariffs
\* whose last day has passed.
THEOREM PlatformRoundTrip == Spec => []RecordsRoundTrip
<1>1. Recorded => RecordsRoundTrip
  BY DEF Recorded, RecordsRoundTrip, Records!RecordsInv
<1>2. QED
  BY <1>1, PlatformRecords, PTL

\* The registry keeps its invariant whatever sessions interleave.
THEOREM PlatformRegistry == Spec => []Registered
<1>1. Init => Registered
  BY RegistryInitial DEF Init, StoresInit, CalculationInit, GenerationInit, Registered
<1>2. Registered /\ [Next]_vars => Registered'
  BY SubjectSteps, RegistryNext DEF Registered
<1>3. QED
  BY <1>1, <1>2, PTL DEF Spec

\* References lead to committed rows and no equipment is its own ancestor:
\* the creations, updates, deletions and loads of asset_repository and the
\* foreign keys of the database, whatever ran into each other.
THEOREM PlatformReferences == Spec => []ReferencesResolve
<1>1. Registered => ReferencesResolve
  BY RegistryTypes DEF Registered, ReferencesResolve, Registry!RegistryInv
<1>2. QED
  BY <1>1, PlatformRegistry, PTL

\* Deleting equipment takes its telemetry along and nothing else.
THEOREM PlatformHistory == Spec => HistoryOutlivesAssets
<1>1. Registered /\ [Next]_vars =>
        [subject = "registry" => Registry!HistoryOutlivesAssets]_<<subject, registry>>
  BY SubjectSteps, HistoryOutlives DEF Registered
<1>2. QED
  BY <1>1, PlatformRegistry, PTL DEF Spec, HistoryOutlivesAssets

\* A bulk load is visible as a whole or not at all.
THEOREM PlatformLoads == Spec => LoadsAreAtomic
<1>1. Registered /\ [Next]_vars =>
        [subject = "registry" => Registry!LoadsAreAtomic]_<<subject, registry>>
  BY SubjectSteps, LoadsAtomic DEF Registered
<1>2. QED
  BY <1>1, PlatformRegistry, PTL DEF Spec, LoadsAreAtomic

\* The stores of runs and their client keep their invariant.
THEOREM PlatformRuns == Spec => []RunsKept
<1>1. Init => RunsKept
  BY RunsInitial DEF Init, StoresInit, CalculationInit, GenerationInit, RunsKept
<1>2. RunsKept /\ [Next]_vars => RunsKept'
  BY SubjectSteps, RunsNext DEF RunsKept
<1>3. QED
  BY <1>1, <1>2, PTL DEF Spec

\* Runs and their values are stored and delivered together, and paging through
\* a growing listing misses nothing.
THEOREM PlatformForecasts == Spec => []ForecastsAreWhole
<1>1. RunsKept => ForecastsAreWhole
  BY RunsShow DEF RunsKept, ForecastsAreWhole
<1>2. QED
  BY <1>1, PlatformRuns, PTL

\* The recommendations and their audit history keep their invariant.
THEOREM PlatformGovernance == Spec => []Governed
<1>1. Init => Governed
  BY GovernanceInitial DEF Init, StoresInit, CalculationInit, GenerationInit, Governed
<1>2. Governed /\ [Next]_vars => Governed'
  BY SubjectSteps, GovernanceNext DEF Governed
<1>3. QED
  BY <1>1, <1>2, PTL DEF Spec

\* Replaying the audit history gives the state; nothing is carried out that was
\* not approved, and what is over stays over.
THEOREM PlatformAudit == Spec => []HistoryExplainsState
<1>1. Governed => HistoryExplainsState
  BY GovernanceTypes DEF Governed, HistoryExplainsState, Governance!GovernanceInv
<1>2. QED
  BY <1>1, PlatformGovernance, PTL

\* A retried call keeps its invariant, however long its attempts take.
THEOREM PlatformRetry == Spec => []Retried
<1>1. Init => Retried
  BY RetryInitial DEF Init, StoresInit, CalculationInit, GenerationInit, Retried
<1>2. Retried /\ [Next]_vars => Retried'
  BY SubjectSteps, RetryNext DEF Retried
<1>3. QED
  BY <1>1, <1>2, PTL DEF Spec

\* The history of a retried call is what happened, and what was done twice had
\* been too slow.
THEOREM PlatformRetries == Spec => []RetriesAreHonest
<1>1. Retried => RetriesAreHonest
  BY RetryTypes, RetryDelays DEF Retried, RetriesAreHonest, Retry!RetryInv
<1>2. QED
  BY <1>1, PlatformRetry, PTL

\* Whatever is drawn, a generation and its measurements keep their invariants,
\* and so does the validation of what they made.
THEOREM PlatformStages == Spec => []Generated
<1>1. Init => Generated
  BY StagesInitial, ChainInitial, SyntheticInitial
     DEF Init, StoresInit, CalculationInit, GenerationInit, Generated
<1>2. Generated /\ [Next]_vars => Generated'
  <2> SUFFICES ASSUME Generated, [Next]_vars PROVE Generated'
    OBVIOUS
  <2>1. subject = "generation" => [Stages!Next]_Stages!vars
    BY Zenon, SubjectSteps DEF Stages!vars
  <2>2. subject = "measurement" => [Chain!Next]_Chain!vars
    BY Zenon, SubjectSteps DEF Chain!vars
  <2>3. subject = "dataset" => [Synthetic!Next]_Synthetic!vars
    BY Zenon, SubjectSteps DEF Synthetic!vars
  <2>4. subject' = subject
    BY SubjectSteps
  <2> QED
    BY Zenon, <2>1, <2>2, <2>3, <2>4, StagesNext, ChainNext, SyntheticNext DEF Generated
<1>3. QED
  BY <1>1, <1>2, PTL DEF Spec

\* What a run generates is sound, however it is configured and whatever is
\* drawn: the equipment of a portfolio is numbered without gaps and hangs
\* together, no reading is refused by the constructor of its own record or by
\* its table, a meter's register is the sum of what its plant's readings say,
\* every instant has one price and every month one budget but for the cases
\* the property names, and a dataset its validation lets pass can be loaded.
THEOREM PlatformGenerated == Spec => []GeneratedDataIsSound
<1>1. Generated => GeneratedDataIsSound
  BY Zenon, StagesShow, ChainShow, SyntheticShows DEF Generated, GeneratedDataIsSound
<1>2. QED
  BY <1>1, PlatformStages, PTL

\* Draws and reports keep their invariants, in whatever order they are asked for.
THEOREM PlatformDraws == Spec => []Repeatable
<1>1. Init => Repeatable
  BY StreamsInitial, VerifierInitial DEF Init, StoresInit, CalculationInit, GenerationInit, Repeatable
<1>2. Repeatable /\ [Next]_vars => Repeatable'
  BY SubjectSteps, StreamsNext, VerifierNext DEF Repeatable
<1>3. QED
  BY <1>1, <1>2, PTL DEF Spec

\* What RandomContext derives for a decision hangs on the seed and on what is
\* decided, and no two decisions share a number: no two keys of the generators
\* run together.  And the reports of the reproducibility verifier say what was
\* generated, validated and compared.
THEOREM PlatformRepeatable == Spec => []RunsAreRepeatable
<1>1. Repeatable => RunsAreRepeatable
  BY StreamsShow DEF Repeatable, RunsAreRepeatable, Verifier!VerifierInv
<1>2. QED
  BY <1>1, PlatformDraws, PTL

\* Datasets and backtests keep their invariants, whatever rows they are given.
THEOREM PlatformLearning == Spec => []Learned
<1>1. Init => Learned
  BY LabelsInitial, BacktestInitial DEF Init, StoresInit, CalculationInit, GenerationInit, Learned
<1>2. Learned /\ [Next]_vars => Learned'
  <2> SUFFICES ASSUME Learned, [Next]_vars PROVE Learned'
    OBVIOUS
  <2>1. subject = "labels" => [Labels!Next]_<<input, state>>
    BY Zenon, SubjectSteps
  <2>2. subject = "backtest" => [Backtest!Next]_<<input, state>>
    BY Zenon, SubjectSteps
  <2>3. subject' = subject
    BY SubjectSteps
  <2> QED
    BY Zenon, <2>1, <2>2, <2>3, LabelsNext, BacktestNext DEF Learned
<1>3. QED
  BY <1>1, <1>2, PTL DEF Spec

\* The future is in labels only: the features of a row are made of the rows
\* before it, its label says whether a failure of the equipment is ahead of it
\* within the window, no part of a split is earlier than the one before it,
\* and a fold predicts from what is before its point.  And a model that is compared was tested on as
\* many rows as the others, none that is ranked above another errs more, and
\* the baseline is not the best where it is improved on.
THEOREM PlatformLearns == Spec => []FutureIsInLabelsOnly
<1>1. Learned => FutureIsInLabelsOnly
  BY Zenon, FeaturesShow, LabelsShow, SplitsShow, FoldsShow, ComparisonShows DEF Learned, FutureIsInLabelsOnly
<1>2. QED
  BY <1>1, PlatformLearning, PTL

=============================================================================
