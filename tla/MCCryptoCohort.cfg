\* Evidence may be a minute old, the forward horizon is two.
CONSTANTS
    Markets <- MCMarkets
    TouchMarkets = {"touch"}
    Flaky = {"touch"}
    Expiry <- MCExpiry
    PerMinute = 1
    Horizon = 2
    MaxAge = 1
    MaxClock = 4
    MaxDelay = 1
    MaxBatches = 2
    MaxPolls = 2
    MaxValidations = 3
SPECIFICATION Spec
CHECK_DEADLOCK FALSE
INVARIANTS NoPositionPastExpiry
PROPERTIES PositionsStartFresh ExitsStand PreparedRecordsPreserved
