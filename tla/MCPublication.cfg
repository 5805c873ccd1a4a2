SPECIFICATION Spec
CONSTANTS
    NoRun = NoRun
    Attempts = {a1, a2, a3}
    RunId <- OneRun
    Datasets = {weather, alarms}
    Partitioned = {weather}
    Policies = {"error", "replace", "version"}
    MaxVersion = 4
CHECK_DEADLOCK FALSE
INVARIANTS
    TypeOK
    PublishedRunsAreWhole
    FailuresPublishNothing
    IngestedIsOneRun
PROPERTY
    PublishedRunsStay
