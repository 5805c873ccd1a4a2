--------------------------- MODULE GenerationStages ---------------------------
(***************************************************************************)
(* From the settings of a synthetic run to its datasets: the settings are  *)
(* those of a named profile with some of them replaced; the stages of the  *)
(* generator derive their own settings from them, and whatever one refuses *)
(* ends the run with a DataGenerationError.                                *)
(***************************************************************************)
EXTENDS Integers, FiniteSets

(***************************************************************************)
(* The tariffs and budgets of a synthetic portfolio.  Time is counted in   *)
(* twelfths of a day, which stand for five minutes: a quarter of an hour   *)
(* is three of them and a quarter of the day, and the day's tariff windows *)
(* begin at its quarters.  Months have MonthDays days.                     *)
(***************************************************************************)

CONSTANTS
    MonthDays,
    Weekend,    \* the days of the weekend
    Offsets     \* how far a plant's clock may be ahead of UTC

Day == 12
DayOf(t) == t \div Day
MonthOf(t) == DayOf(t) \div MonthDays
MonthStart(month) == month * MonthDays

\* _DEFAULT_TOU_WINDOWS; a window that ends at 0 ends with the day.
DefaultWindows ==
    {[code |-> "OFF_PEAK", days |-> "all_days", from |-> 0, to |-> 3],
     [code |-> "SHOULDER_AM", days |-> "all_days", from |-> 3, to |-> 6],
     [code |-> "PEAK", days |-> "weekday", from |-> 6, to |-> 9],
     [code |-> "SHOULDER_PM", days |-> "all_days", from |-> 9, to |-> 0]}

FlatWindow == [code |-> "FLAT", days |-> "all_days", from |-> 0, to |-> 0]

\* Mutant: the last day is the day of the end, even when it ends at midnight.
LastDayClosed(time) == DayOf(time.end)

\* The end is exclusive.
LastDay(time) ==
    (IF time.end % Day = 0 THEN DayOf(time.end) ELSE DayOf(time.end) + 1) - 1

\* One flat row, or one row for each window, of each plant; flat is the set
\* of plants that draw a flat tariff.
Tariffs(plants, time, flat) ==
    LET Row(p, w) == [plant |-> p, window |-> w, first |-> DayOf(time.start), last |-> LastDay(time)] IN
    {Row(p, FlatWindow) : p \in flat} \cup {Row(p, w) : p \in plants \ flat, w \in DefaultWindows}

\* Every month that begins before the end, from that of the start on.
MonthWindows(time) ==
    {month \in MonthOf(time.start)..MonthOf(time.end) : MonthStart(month) * Day < time.end}

\* The months with a rate: those whose first day a tariff of the plant covers.
TariffReferenceRates(tariffs) ==
    UNION {{<<t.plant, d \div MonthDays>> : d \in {e \in t.first..t.last : e % MonthDays = 0}}
              : t \in tariffs}

\* One budget for each plant and month; no rate for one of them is a
\* ValueError.
BudgetsSucceed(plants, tariffs, time) ==
    plants \X MonthWindows(time) \subseteq TariffReferenceRates(tariffs)

Budgets(plants, time) ==
    {[plant |-> p, month |-> month] : p \in plants, month \in MonthWindows(time)}

-----------------------------------------------------------------------------
CONSTANTS
    Profiles,           \* a profile's [start, end, plants]
    GenerationInputs    \* [profile, overrides: some of profile_name, time, plants]

VARIABLES input, state

vars == <<input, state>>

Quarter == 3

-----------------------------------------------------------------------------
\* TimeRangeConfig.__post_init__; the minutes of start and end count from the
\* hour, for which the whole day stands.
TimeRangeAccepted(time) ==
    /\ time.end > time.start
    /\ time.interval \in {1, 2, 3, 6, 12}
    /\ time.start % time.interval = 0 /\ time.end % time.interval = 0
    /\ (time.end - time.start) % time.interval = 0

NamedProfile(name) ==
    [profile_name |-> name, plants |-> Profiles[name].plants,
     time |-> [start |-> Profiles[name].start, end |-> Profiles[name].end, interval |-> Quarter]]

\* What is given, and what was there of the rest.
Replaced(old, new) ==
    [f \in DOMAIN old \cup DOMAIN new |-> IF f \in DOMAIN new THEN new[f] ELSE old[f]]

\* Only what is given is replaced, part by part.
ApplyOverrides(config, overrides) ==
    [Replaced(config, overrides) EXCEPT
        !.time = IF "time" \in DOMAIN overrides THEN Replaced(config.time, overrides.time)
                 ELSE config.time]

OverridesAccepted(config, overrides) ==
    /\ DOMAIN overrides \subseteq {"profile_name", "time", "plants"}
    /\ LET replaced == ApplyOverrides(config, overrides) IN
       /\ replaced.profile_name \in DOMAIN Profiles
       /\ TimeRangeAccepted(replaced.time)
       /\ replaced.plants > 0

ValidateGenerationConfig(config) ==
    /\ config.profile_name # "extended" => config.plants = Profiles[config.profile_name].plants
    /\ config.profile_name = "default" => config.time.interval = Quarter

-----------------------------------------------------------------------------
\* Whole days, rounded down.
DurationDays(time) == (time.end - time.start) \div Day

\* The instants of the measurements, and those of the grid of events.
Timestamps(time) ==
    {time.start + k * time.interval : k \in 0..((DurationDays(time) * Day) \div time.interval - 1)}

TimeGrid(time) ==
    {t \in time.start..(time.end - 1) : (t - time.start) % time.interval = 0}

Plants == 1..state.config.plants

Init ==
    /\ input \in GenerationInputs
    /\ state = [phase |-> "asked", config |-> NamedProfile(input.profile),
                weather |-> {}, grid |-> {}, scada |-> {}, tariffs |-> {}, budgets |-> {}]

Becomes(succeeds, next) ==
    /\ state' = IF succeeds THEN next ELSE [state EXCEPT !.phase = "failed"]
    /\ UNCHANGED input

LoadConfig ==
    /\ state.phase = "asked"
    /\ LET config == ApplyOverrides(state.config, input.overrides) IN
       state' = IF /\ OverridesAccepted(state.config, input.overrides)
                   /\ ValidateGenerationConfig(config)
                THEN [state EXCEPT !.phase = "loaded", !.config = config]
                ELSE [state EXCEPT !.phase = "refused"]
    /\ UNCHANGED input

GenerateWeather ==
    /\ state.phase = "loaded"
    /\ Becomes(DurationDays(state.config.time) > 0,
               [state EXCEPT !.phase = "weather", !.weather = Timestamps(state.config.time)])

ScheduleEvents ==
    /\ state.phase = "weather"
    /\ Becomes(TRUE, [state EXCEPT !.phase = "events", !.grid = TimeGrid(state.config.time)])

\* Inverters are measured every quarter of an hour, or not at all.
GenerateSCADA ==
    /\ state.phase = "events"
    /\ Becomes(state.config.time.interval = Quarter,
               [state EXCEPT !.phase = "scada", !.scada = Timestamps(state.config.time)])

GenerateTariffs ==
    /\ state.phase = "scada"
    /\ \E flat \in SUBSET Plants :
           Becomes(TRUE, [state EXCEPT !.phase = "tariffs",
                                       !.tariffs = Tariffs(Plants, state.config.time, flat)])

GenerateBudgets ==
    /\ state.phase = "tariffs"
    /\ Becomes(BudgetsSucceed(Plants, state.tariffs, state.config.time),
               [state EXCEPT !.phase = "generated", !.budgets = Budgets(Plants, state.config.time)])

Next ==
    \/ LoadConfig
    \/ GenerateWeather
    \/ ScheduleEvents
    \/ GenerateSCADA
    \/ GenerateTariffs
    \/ GenerateBudgets

Spec == Init /\ [][Next]_vars

-----------------------------------------------------------------------------
\* A row has a price for an instant of its plant's clock, on which its windows,
\* days and dates are read.
Prices(row, local) ==
    LET w == row.window
        hour == local % Day
        end == IF w.to = 0 THEN Day ELSE w.to IN
    /\ row.first <= DayOf(local) /\ DayOf(local) <= row.last
    /\ w.days = "weekday" => DayOf(local) \notin Weekend
    /\ w.from <= hour /\ hour < end

Instants == state.config.time.start..(state.config.time.end - 1)

\* The dates of a run, which are those of UTC.
Dates == {DayOf(t) : t \in Instants}

WeekendEvening(local) == DayOf(local) \in Weekend /\ local % Day \in 6..8

\* The dates of a tariff are those of UTC, its windows are local.  However far
\* the clock of a plant is from UTC, no instant of a run has two prices, and
\* none is without one but for two reasons: it falls on a local day that is no
\* date of the run, as the last hours do where the clock is ahead; or it is in
\* the local evening of a weekend, which has no window, and the tariff is not
\* flat.  A tariff is in force on the dates of the run and no others.
InstantsHaveOnePrice ==
    state.phase \in {"tariffs", "generated"} =>
        \A p \in Plants :
            LET rows == {r \in state.tariffs : r.plant = p}
                Of(local) == Cardinality({r \in rows : Prices(r, local)})
                flat == \E r \in rows : r.window = FlatWindow IN
            /\ \A t \in Instants, offset \in Offsets :
                   /\ Of(t + offset) <= 1
                   /\ Of(t + offset) = 0 <=>
                          \/ DayOf(t + offset) \notin Dates
                          \/ WeekendEvening(t + offset) /\ ~flat
            /\ rows # {}
            /\ \A r \in rows : r.first..r.last = Dates

\* Each month in which a plant is measured has one budget; what is measured
\* is what the events are scheduled for, up to the last whole day.
EveryMonthHasABudget ==
    state.phase = "generated" =>
        /\ \A p \in Plants, t \in state.scada :
               Cardinality({b \in state.budgets : b.plant = p /\ b.month = MonthOf(t)}) = 1
        /\ state.scada = state.weather /\ state.scada \subseteq state.grid
        /\ \A t \in state.grid \ state.scada : t >= state.config.time.end - Day + 1
        /\ state.scada = state.grid <=> (state.config.time.end - state.config.time.start) % Day = 0

\* Accepted settings that do not span a day, do not measure by the quarter
\* of an hour, or do not start on the first day of a month.
Unsuitable(time) ==
    \/ time.end - time.start < Day
    \/ time.interval # Quarter
    \/ DayOf(time.start) # MonthStart(MonthOf(time.start))

\* Settings that were accepted still cannot be generated from when they are
\* unsuitable - and for no other reason.
AcceptedSettingsGenerate ==
    /\ state.phase = "failed" => Unsuitable(state.config.time)
    /\ state.phase = "generated" => ~Unsuitable(state.config.time)

-----------------------------------------------------------------------------
(* What the three properties rest on: each stage has kept what it made.    *)

\* Times are numbers, and so are the plants.
StagesFit ==
    /\ MonthDays \in Nat \ {0} /\ Offsets \subseteq Int
    /\ \A name \in DOMAIN Profiles :
           {Profiles[name].start, Profiles[name].end, Profiles[name].plants} \subseteq Int
    /\ \A i \in GenerationInputs :
           /\ i.profile \in DOMAIN Profiles
           /\ "plants" \in DOMAIN i.overrides => i.overrides.plants \in Int
           /\ "time" \in DOMAIN i.overrides =>
                  \A f \in DOMAIN i.overrides.time : i.overrides.time[f] \in Int

SettingsFit(config) ==
    /\ config.time.start \in Int /\ config.time.end \in Int /\ TimeRangeAccepted(config.time)
    /\ config.plants \in Nat \ {0}

\* The stages that have been passed in a phase, the latest first.
Passed(phase) ==
    CASE phase = "weather"   -> {"weather"}
      [] phase = "events"    -> {"weather", "events"}
      [] phase = "scada"     -> {"weather", "events", "scada"}
      [] phase = "tariffs"   -> {"weather", "events", "scada", "tariffs"}
      [] phase = "generated" -> {"weather", "events", "scada", "tariffs", "generated"}
      [] OTHER               -> {}

StagesInv ==
    LET time == state.config.time IN
    /\ input \in GenerationInputs
    /\ DOMAIN state = {"phase", "config", "weather", "grid", "scada", "tariffs", "budgets"}
    /\ state.phase = "asked" => state.config = NamedProfile(input.profile)
    /\ state.phase \notin {"asked", "refused"} => SettingsFit(state.config)
    /\ "weather" \in Passed(state.phase) => DurationDays(time) > 0 /\ state.weather = Timestamps(time)
    /\ "events" \in Passed(state.phase) => state.grid = TimeGrid(time)
    /\ "scada" \in Passed(state.phase) => time.interval = Quarter /\ state.scada = Timestamps(time)
    /\ "tariffs" \in Passed(state.phase) =>
           \E flat \in SUBSET Plants : state.tariffs = Tariffs(Plants, time, flat)
    /\ "generated" \in Passed(state.phase) =>
           BudgetsSucceed(Plants, state.tariffs, time) /\ state.budgets = Budgets(Plants, time)
    /\ state.phase = "failed" => Unsuitable(time)
===============================================================================
