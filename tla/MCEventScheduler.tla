--------------------------- MODULE MCEventScheduler ---------------------------
EXTENDS EventScheduler

Definition(scopes, starts, durations, separation, overlaps) ==
    [scopes |-> scopes, starts |-> starts, durations |-> durations,
     separation |-> separation, overlaps |-> overlaps]

\* A trip of the inverter or the plant that wants a gap, an overlay that may
\* overlap it and wants none, and a definition out of season.
MCCatalogue ==
    <<Definition({"plant", "inverter"}, {0, 1, 3}, {1, 2}, 2, {}),
      Definition({"portfolio", "inverter"}, {0, 2}, {1, 3}, 0, {1}),
      Definition({"plant"}, {}, {1}, 1, {})>>

\* An inverter of each of two plants, with one number, and a plant.
MCAssets ==
    {[scope |-> "portfolio", plant |-> 0, id |-> 0],
     [scope |-> "plant", plant |-> 1, id |-> 1],
     [scope |-> "inverter", plant |-> 1, id |-> 2],
     [scope |-> "inverter", plant |-> 2, id |-> 2]}

MCYearOf == [t \in 0..3 |-> IF t < 3 THEN 2024 ELSE 2025]
=============================================================================
