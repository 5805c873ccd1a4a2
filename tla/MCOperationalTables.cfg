CONSTANTS
    Sessions = {s1, s2}
    Ids = {r1}
    MaxTime = 3
    NewAlarms <- MCNewAlarms
    NewIncidents <- MCNewIncidents
    NewWorkOrders <- MCNewWorkOrders
    Team = Team
    None = None
    Deleted = Deleted
SPECIFICATION Spec
INVARIANTS TypeOK WritesFollow OpenDefinitionsAgree StoredRowsConvert
PROPERTIES RecordsSurvive ImplementsLifecycle
