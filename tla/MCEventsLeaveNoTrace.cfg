CONSTANTS
    None = None
    NaN = NaN
    Arguments <- MCArguments
    MaxDay = 3
    p1 = p1
    e1 = e1
    e2 = e2
    a1 = a1
    i1 = i1
    t1 = t1
    t2 = t2
    bad = bad
    Ids <- MCIds
    Candidates <- MCCandidates
    Loads <- MCLoads
    BatchSize = 1
    Sessions = {s1, s2}
    Runs = {r1, r2, r3}
    Frames <- MCFrames
    MaxGenerated = 3
    Limit = 1
    Horizon = 1
    Recommendations = {c1, c2}
    Owners <- MCOwners
    Roles = {"viewer", "operator"}
    MaxOccurred = 2
    MaxHistory = 4
    Required <- MCRequired
    RetryPolicies <- MCRetryPolicies
    Additions <- MCAdditions
    FrameInputs <- MCFrameInputs
    Datasets <- MCDatasets
    Settings <- MCSettings
    Observations <- MCObservations
    EventSets <- MCEventSets
    Recovery = 2
    MeasurementInputs <- MCMeasurementInputs
    MaxPlant = 2
    MaxStation = 4
    MaxEquipment = 30
    Profiles <- MCProfiles
    GenerationInputs <- MCGenerationInputs
    MonthDays = 3
    Weekend <- MCWeekend
    Offsets = {0, 2}
    RunInputs <- MCRunInputs
    VerificationInputs <- MCVerificationInputs
    Tuples = {"plants", "weather"}
    DataFrames = {"alarms", "tariffs"}
    Stochastic = {"weather", "alarms"}
    MaintenanceInputs <- MCMaintenanceInputs
    OptimizationInputs <- MCOptimizationInputs
    LabelInputs <- MCLabelInputs
    BacktestInputs <- MCBacktestInputs
    KpiInputs <- MCKpiInputs
SPECIFICATION Spec
INVARIANT OutagesStopProduction
\* A record has been read, a listing has been paged through: nothing follows.
CHECK_DEADLOCK FALSE
