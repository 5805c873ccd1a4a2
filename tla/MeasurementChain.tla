--------------------------- MODULE MeasurementChain ---------------------------
(***************************************************************************)
(* How a run measures: for each interval and plant the weather, what its   *)
(* inverters make of it, and the plant's own reading with the registers of *)
(* its meter.  Every observation is a domain record, whose constructor     *)
(* raises - and ends the run - when it finds the reading implausible.      *)
(*                                                                         *)
(* Power is in thousands of kW, irradiance in halves of full sun, losses   *)
(* in eighths; of voltages and currents it matters whether there is any.   *)
(* Energies of inverters are in MWh, those of plants in quarters of them,  *)
(* so that over an interval of a quarter of an hour they equal the power.  *)
(***************************************************************************)
EXTENDS DomainRecords, Sequences, FiniteSets, Functions

(***************************************************************************)
(* The plants of a synthetic portfolio, their equipment and their meters.  *)
(* Every generator makes them again from its own configuration and relies  *)
(* on getting the same ones.                                               *)
(*                                                                         *)
(* A portfolio is [plants, transformers, feeders, inverters, stations,     *)
(* meters, relays: counts, the latter per plant; capacity: of a plant].    *)
(* Plants and pieces of equipment are numbered as in their identifiers.    *)
(***************************************************************************)

CONSTANTS MaxPlant, MaxStation, MaxEquipment    \* the numbers the identifiers have room for

Counts == {"plants", "transformers", "feeders", "inverters", "stations", "meters", "relays"}

\* PlantGeneratorConfig, EquipmentGeneratorConfig
PortfolioAccepted(c) == \A k \in Counts : c[k] > 0

PerPlant(c) == c.transformers + c.feeders + c.inverters + c.stations + c.meters + c.relays

\* round, of a quotient
RoundedQuotient(n, d) == (2 * n + d) \div (2 * d)

\* The k-th of the children of count parents that are numbered from first on.
TakingTurns(first, count, k) == first + ((k - 1) % count)

\* The equipment of one plant whose numbers begin after base: transformers,
\* the feeders, the inverters under them, stations, meters, relays.
EquipmentAfter(base, c) ==
    LET feeder   == base + c.transformers
        inverter == feeder + c.feeders
        station  == inverter + c.inverters
        meter    == station + c.stations
        relay    == meter + c.meters
        Unit(type, number, parent, rated) ==
            [id |-> number, type |-> type, parent |-> parent, rated |-> rated] IN
    {Unit("transformer", base + k, 0, RoundedQuotient(c.capacity, c.transformers))
         : k \in 1..c.transformers}
    \cup {Unit("feeder", feeder + k, TakingTurns(base + 1, c.transformers, k), 0) : k \in 1..c.feeders}
    \cup {Unit("inverter", inverter + k, TakingTurns(feeder + 1, c.feeders, k),
               RoundedQuotient(c.capacity, c.inverters)) : k \in 1..c.inverters}
    \cup {Unit("station", station + k, 0, 0) : k \in 1..c.stations}
    \cup {Unit("meter", meter + k, 0, 0) : k \in 1..c.meters}
    \cup {Unit("relay", relay + k, TakingTurns(base + 1, c.transformers, k), 0) : k \in 1..c.relays}

Equipment(c) ==
    UNION {{[id |-> u.id, type |-> u.type, parent |-> u.parent, rated |-> u.rated, plant |-> p]
                : u \in EquipmentAfter((p - 1) * PerPlant(c), c)} : p \in 1..c.plants}

OfType(equipment, type) == {u \in equipment : u.type = type}

\* A meter for each plant, about the piece of equipment that is its meter.
Meters(c) ==
    {[id |-> u.plant, plant |-> u.plant, equipment |-> u.id, is_primary |-> TRUE]
        : u \in OfType(Equipment(c), "meter")}

\* Plants, equipment and stations have identifiers of a fixed width, and the
\* generator of meters wants exactly one in each plant.
MastersSucceed(c) ==
    /\ c.plants <= MaxPlant /\ c.plants * PerPlant(c) <= MaxEquipment
    /\ c.plants * c.stations <= MaxStation
    /\ c.meters = 1

\* _validate_master_references
ReferencesValid(plants, equipment, meters) ==
    /\ {u.plant : u \in equipment} \subseteq plants
    /\ {m.plant : m \in meters} \subseteq plants
    /\ \A m \in meters :
           {n \in meters : n.plant = m.plant} = {m} /\ m.is_primary

-----------------------------------------------------------------------------
\* What feeds what.
Feeds == [transformer |-> {"feeder", "relay"}, feeder |-> {"inverter"}]

\* The equipment of a portfolio: no number twice, a parent comes before its
\* children in the same plant and feeds their kind, and the ratings of the
\* inverters make up the capacity of the plant, up to rounding.
PortfolioIsSound(c) ==
    LET equipment == Equipment(c)
        Inverters(p) == {u \in OfType(equipment, "inverter") : u.plant = p} IN
    /\ {u.id : u \in equipment} = 1..(c.plants * PerPlant(c))
    /\ Cardinality(equipment) = c.plants * PerPlant(c)
    /\ \A u \in equipment :
           IF u.type \in UNION {Feeds[t] : t \in DOMAIN Feeds}
           THEN \E q \in equipment :
                    /\ q.id = u.parent /\ q.plant = u.plant /\ q.id < u.id
                    /\ q.type \in DOMAIN Feeds /\ u.type \in Feeds[q.type]
           ELSE u.parent = 0
    /\ \A p \in 1..c.plants : \A u \in Inverters(p) :
           LET error == u.rated * c.inverters - c.capacity IN
           2 * error <= c.inverters /\ 2 * error >= 0 - c.inverters
    /\ ReferencesValid(1..c.plants, equipment, Meters(c))

-----------------------------------------------------------------------------
CONSTANT MeasurementInputs  \* [portfolio, intervals, skies, losses, auxiliary]

VARIABLES input, state

vars == <<input, state>>

Smaller(a, b) == IF a < b THEN a ELSE b
Larger(a, b) == IF a < b THEN b ELSE a

-----------------------------------------------------------------------------
\* An observation that is missing has no sun in it.
WeatherObservation(sky, quality) ==
    [ghi |-> IF quality = "missing" THEN 0 ELSE sky, quality |-> quality]

SampleQuality(weather, drawn) ==
    CASE "missing" \in {weather.quality, drawn} -> "missing"
      [] /\ "missing" \notin {weather.quality, drawn}
         /\ "estimated" \in {weather.quality, drawn} -> "estimated"
      [] {weather.quality, drawn} = {"valid"} -> "valid"

SampleOperatingState(weather, drawn) == IF weather.ghi = 0 THEN "night" ELSE drawn

\* Never more than the inverter is rated for, nor than a reading may say.
ActivePower(unit, weather, operating) ==
    LET maximum == Smaller(50, unit.rated) IN
    CASE operating \in NonGenerating -> 0
      [] operating = "derated" -> Smaller(maximum, (unit.rated * weather.ghi) \div 4)
      [] operating = "normal" -> Smaller(maximum, (unit.rated * weather.ghi) \div 2)

Reading(power, operating, quality) ==
    LET lost == quality = "missing"
        live == ~lost /\ operating \notin NonGenerating
        Any(present) == IF present THEN 1 ELSE 0
        measured == IF lost THEN 0 ELSE power IN
    [plant_id |-> "good", equipment_id |-> "good", timestamp |-> "grid",
     active_power_kw |-> measured, interval_energy_kwh |-> measured \div 4,
     dc_voltage_v |-> Any(live), dc_current_a |-> Any(measured > 0),
     ac_voltage_v |-> Any(live), ac_current_a |-> Any(measured > 0),
     frequency_hz |-> IF lost THEN 0 ELSE 50, power_factor |-> Any(live),
     equipment_available |-> ~lost /\ operating \notin {"fault", "maintenance"},
     grid_available |-> ~lost,
     operating_state |-> IF lost THEN "stopped" ELSE operating,
     quality |-> quality]

InverterObservation(unit, weather, drawn) ==
    LET operating == SampleOperatingState(weather, drawn.operating) IN
    Reading(ActivePower(unit, weather, operating), operating,
            SampleQuality(weather, drawn.quality))

-----------------------------------------------------------------------------
AggregateQuality(group) ==
    LET qualities == {group[u].quality : u \in DOMAIN group} IN
    CASE qualities = {"missing"} -> "missing"
      [] qualities # {"missing"} /\ qualities \cap {"missing", "estimated"} # {} -> "estimated"
      [] qualities = {"valid"} -> "valid"

\* A plant that stands still takes what it needs from the grid.
AuxiliaryImport(gross, grid, available) ==
    IF ~grid \/ (gross > 0 /\ available) THEN 0 ELSE input.auxiliary

Power(group) == SumFunction([u \in DOMAIN group |-> group[u].active_power_kw])

\* Mutant: the grid is looked for after the power has been exported.
PlantReadingOffGrid(group) ==
    LET gross == Power(group)
        grid == \A u \in DOMAIN group : group[u].grid_available
        available == \E u \in DOMAIN group : group[u].equipment_available
        loss == (gross * input.losses) \div 8
        exported == IF available
                    THEN Smaller(Larger(gross - 2 * loss, 0), input.portfolio.capacity) ELSE 0
        imported == AuxiliaryImport(gross, grid, available) IN
    [gross |-> gross, transformer_loss |-> loss, collection_loss |-> loss,
     export |-> exported, import |-> imported,
     export_energy |-> exported, import_energy |-> imported,
     grid_available |-> grid, plant_available |-> available,
     quality |-> AggregateQuality(group)]

\* One inverter without telemetry takes the grid away from the whole plant:
\* what the others deliver is then neither exported nor lost.
PlantReading(group) ==
    LET gross == Power(group)
        grid == \A u \in DOMAIN group : group[u].grid_available
        available == \E u \in DOMAIN group : group[u].equipment_available
        loss == (gross * input.losses) \div 8
        exported == IF grid /\ available
                    THEN Smaller(Larger(gross - 2 * loss, 0), input.portfolio.capacity) ELSE 0
        imported == AuxiliaryImport(gross, grid, available) IN
    [gross |-> gross, transformer_loss |-> loss, collection_loss |-> loss,
     export |-> exported, import |-> imported,
     export_energy |-> exported, import_energy |-> imported,
     grid_available |-> grid, plant_available |-> available,
     quality |-> AggregateQuality(group)]

\* The constructor of PlantSCADAObservation.
PlantReadingAccepted(r) ==
    /\ \A f \in {"gross", "transformer_loss", "collection_loss", "export", "import"} : r[f] >= 0
    /\ r.export_energy = r.export /\ r.import_energy = r.import
    /\ r.export <= Larger(r.gross - r.transformer_loss - r.collection_loss, 0)
    /\ ~(r.export > 0 /\ r.import > 0)
    /\ ~r.grid_available => r.export = 0
    /\ ~r.plant_available => r.gross = 0 /\ r.export = 0
    /\ r.quality = "missing" =>
           \A f \in {"gross", "transformer_loss", "collection_loss", "export", "import"} : r[f] = 0

-----------------------------------------------------------------------------
Draws == [operating : {"normal", "derated", "fault", "maintenance"}, quality : Quality]

Inverters(p) == {u \in OfType(Equipment(input.portfolio), "inverter") : u.plant = p}

Init ==
    /\ input \in {i \in MeasurementInputs : PortfolioAccepted(i.portfolio)}
    /\ state = [phase |-> IF /\ MastersSucceed(input.portfolio)
                             /\ ReferencesValid(1..input.portfolio.plants,
                                                Equipment(input.portfolio), Meters(input.portfolio))
                          THEN "measuring" ELSE "refused",
                at |-> 1, plant |-> 1, group |-> <<>>, readings |-> <<>>,
                export_register |-> [p \in 1..input.portfolio.plants |-> 0],
                import_register |-> [p \in 1..input.portfolio.plants |-> 0]]

\* Readings come in the order of time, and of the plants' identifiers.
Advanced(s) ==
    CASE s.plant < input.portfolio.plants -> [s EXCEPT !.plant = @ + 1]
      [] s.plant = input.portfolio.plants /\ s.at < input.intervals ->
             [s EXCEPT !.plant = 1, !.at = @ + 1]
      [] s.plant = input.portfolio.plants /\ s.at = input.intervals -> [s EXCEPT !.phase = "measured"]

Registered(s, group, reading) ==
    [s EXCEPT !.group = group,
              !.export_register[s.plant] = @ + reading.export_energy,
              !.import_register[s.plant] = @ + reading.import_energy,
              !.readings = Append(@, [reading |-> reading, plant |-> s.plant, at |-> s.at])]

\* The draws of different inverters come from generators of their own.
Measure ==
    /\ state.phase = "measuring"
    /\ \E sky \in input.skies, quality \in Quality, draws \in [Inverters(state.plant) -> Draws] :
           LET weather == WeatherObservation(sky, quality)
               group   == [u \in Inverters(state.plant) |-> InverterObservation(u, weather, draws[u])]
               reading == PlantReading(group) IN
           state' = IF /\ \A u \in DOMAIN group : SCADAAccepted(group[u], 0)
                       /\ PlantReadingAccepted(reading)
                    THEN Advanced(Registered(state, group, reading))
                    ELSE [state EXCEPT !.phase = "raised", !.group = group]
    /\ UNCHANGED input

Next == Measure

Spec == Init /\ [][Next]_vars

-----------------------------------------------------------------------------
\* No draw makes a reading that its own record refuses, which would end the
\* run, and the table of observations takes every row.
NothingIsRefused ==
    /\ state.phase # "raised"
    /\ \A u \in DOMAIN state.group : SCADAChecks(SCADARow(state.group[u]))

\* The places of the readings of a plant.
Of(p) == {k \in DOMAIN state.readings : state.readings[k].plant = p}

Total(p, energy) ==
    SumFunctionOnSet([k \in DOMAIN state.readings |-> state.readings[k].reading[energy]], Of(p))

\* Each meter counts what its own plant exported and imported, and a plant
\* never does both.  What its inverters deliver after losses is exported, up
\* to its capacity, unless one of them reported nothing; each plant has one
\* reading per interval.
EnergyIsAccountedFor ==
    /\ \A p \in 1..input.portfolio.plants :
           /\ state.export_register[p] = Total(p, "export_energy")
           /\ state.import_register[p] = Total(p, "import_energy")
           /\ state.phase = "measured" =>
                  {state.readings[k].at : k \in Of(p)} = 1..input.intervals
                  /\ Cardinality(Of(p)) = input.intervals
    /\ state.readings # <<>> =>
           LET last == state.readings[Len(state.readings)].reading
               silent == \E u \in DOMAIN state.group : state.group[u].quality = "missing"
               produced == Power(state.group)
               delivered == produced - last.transformer_loss - last.collection_loss IN
           /\ last.export <= input.portfolio.capacity
           /\ last.export # delivered => silent \/ delivered > input.portfolio.capacity
           /\ silent => last.export = 0
           /\ last.import > 0 => produced = 0 /\ ~silent

\* The master data of a run that measures is sound.
MastersAreSound ==
    state.readings = <<>> /\ state.phase = "measuring" => PortfolioIsSound(input.portfolio)

-----------------------------------------------------------------------------
(* What the three properties rest on.                                      *)

\* Losses of a half or more each are refused, as their sum is the whole.
MeasurementFits ==
    /\ {MaxPlant, MaxStation, MaxEquipment} \subseteq Nat
    /\ \A i \in MeasurementInputs :
           /\ \A k \in Counts : i.portfolio[k] \in Int
           /\ i.portfolio.capacity \in Nat /\ i.intervals \in Nat \ {0}
           /\ i.skies \subseteq Nat /\ i.losses \in 0..3 /\ i.auxiliary \in Nat

\* What is read of a plant, with its inverters, is what they deliver, their
\* own records are accepted, and what does not report does not work.
GroupSound(group) ==
    /\ IsFiniteSet(DOMAIN group) /\ DOMAIN group # {}
    /\ \A u \in DOMAIN group :
           LET r == group[u] IN
           /\ r.active_power_kw \in Nat /\ r.quality \in Quality
           /\ r.equipment_available \in BOOLEAN /\ r.grid_available = (r.quality # "missing")
           /\ ~r.equipment_available => r.active_power_kw = 0
           /\ r.quality = "missing" => r.active_power_kw = 0
           /\ SCADAAccepted(r, 0) /\ SCADAChecks(SCADARow(r))

PlantReadings ==
    [gross : Nat, transformer_loss : Nat, collection_loss : Nat, export : Nat, import : Nat,
     export_energy : Nat, import_energy : Nat, grid_available : BOOLEAN,
     plant_available : BOOLEAN, quality : Quality]

\* How many readings there are of a plant.
Taken(p) ==
    IF state.phase = "measured" THEN input.intervals
    ELSE IF p < state.plant THEN state.at ELSE state.at - 1

\* A meter has counted the readings of its plant, one for each interval.
PlantCounted(p) ==
    /\ Cardinality(Of(p)) = Taken(p) /\ {state.readings[k].at : k \in Of(p)} = 1..Taken(p)
    /\ state.export_register[p] = Total(p, "export_energy")
    /\ state.import_register[p] = Total(p, "import_energy")

ChainInv ==
    LET c == input.portfolio IN
    /\ input \in MeasurementInputs /\ PortfolioAccepted(c)
    /\ DOMAIN state = {"phase", "at", "plant", "group", "readings", "export_register",
                       "import_register"}
    /\ state.phase \in {"measuring", "measured", "refused"}
    /\ state.phase # "refused" =>
           MastersSucceed(c) /\ ReferencesValid(1..c.plants, Equipment(c), Meters(c))
    /\ state.plant \in 1..c.plants /\ state.at \in 1..input.intervals
    /\ {state.export_register, state.import_register} \subseteq [1..c.plants -> Int]
    /\ state.readings \in Seq([reading : PlantReadings, plant : 1..c.plants, at : Nat])
    /\ \A p \in 1..c.plants : PlantCounted(p)
    /\ IF state.readings = <<>> THEN state.group = <<>>
       ELSE /\ GroupSound(state.group)
            /\ state.readings[Len(state.readings)].reading = PlantReading(state.group)
===============================================================================
