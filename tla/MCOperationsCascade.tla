------------------------ MODULE MCOperationsCascade ------------------------
EXTENDS OperationsCascade

\* A critical trip, a derating that leads to two alarms (one latched, one
\* with nuisances), and planned maintenance, which is not eligible.
MCCatalogue ==
    LET Define(code, type, severity, behaviour, trigger, clear) ==
            [code |-> code, types |-> {type}, severity |-> severity,
             behaviour |-> behaviour, trigger |-> trigger, clear |-> clear,
             rules |-> IF code = "RESET" THEN {"maintenance"} ELSE {},
             eligible |-> code # "MAINTENANCE", nuisance |-> code = "DERATE"]
    IN  {Define("TRIP", "trip", 3, "manual_clear", 0, 10),
         Define("DERATE", "derating", 1, "auto_clear", 30, 30),
         Define("RESET", "derating", 2, "latched", 0, 0),
         Define("MAINTENANCE", "outage", 0, "clear_with_event", 0, 0)}

At(type, plant, start, end) ==
    [type |-> type, expected |-> None, plant |-> plant, start |-> start, end |-> end,
     severity |-> 1, rules |-> {}]

\* A trip in the middle of a derating of the same plant, of another plant,
\* the derating suppressed in part or too short, one alarm by its code.
MCSchedules ==
    {<<At("derating", "P1", 0, 60), At("trip", "P1", 40, 100)>>,
     <<At("derating", "P1", 0, 60), At("trip", "P2", 40, 100)>>,
     <<[At("derating", "P1", 0, 20) EXCEPT !.rules = {"maintenance"}],
       At("trip", "P1", 105, 120)>>,
     <<[At("derating", "P1", 0, 60) EXCEPT !.expected = "RESET"],
       [At("outage", "P1", 55, 95) EXCEPT !.expected = "TRIP"],
       At("outage", "P1", 80, 90)>>}

MCDelays ==
    [kind \in DelayKinds |->
        CASE kind = "acknowledgement" -> {1, 30}
          [] kind = "nuisance" -> {1, 15}
          [] kind = "restoration" -> {5, 60}
          [] kind = "duration" -> {0, 2}
          [] kind = "assignment" -> {2, 20}
          [] OTHER -> {1}]

\* The defaults: certain for critical incidents and P1 orders, informational
\* alarms left out.
MCDraw ==
    [of \in {"incident", "work_order"} |->
        [severity \in Severity |->
            IF severity = Critical THEN {TRUE}
            ELSE IF of = "incident" /\ severity = 0 THEN {FALSE} ELSE BOOLEAN]]
=============================================================================
