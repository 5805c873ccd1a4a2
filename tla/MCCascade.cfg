SPECIFICATION Spec
CONSTANTS
    None = None
    Team = Team
    Schedules <- MCSchedules
    Catalogue <- MCCatalogue
    ObservationEnd = 130
    Delays <- MCDelays
    ManualExtra = 15
    MaxNuisance = 1
    Draw <- MCDraw
    Groupings = {TRUE, FALSE}
    Window = 30
    IncludeOpen = TRUE
    IncludeResolved = TRUE
CHECK_DEADLOCK FALSE
INVARIANTS
    RowsFitModelAndTable
    OneIncidentPerAlarm
    CriticalAlarmsGetWork
    OrdersFollowIncidents
