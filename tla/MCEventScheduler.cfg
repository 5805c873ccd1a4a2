SPECIFICATION Spec
CONSTANTS
    Catalogue <- MCCatalogue
    Assets <- MCAssets
    Interval = 1
    Steps = 4
    YearOf <- MCYearOf
    MaxEvents = 2
CHECK_DEADLOCK FALSE
INVARIANTS
    KeptEventsObeyTheRules
    DroppedForAKeptOne
    IdsFollowTheOrder
