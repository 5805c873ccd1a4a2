SPECIFICATION Spec
CONSTANTS
    NoRun = NoRun
    Attempts = {a1, a2, a3}
    RunId <- TwoRuns
    Datasets = {weather, alarms}
    Partitioned = {weather}
    Policies = {"replace"}
    MaxVersion = 4
CHECK_DEADLOCK FALSE
INVARIANT
    NoPartialRunIsLeft
