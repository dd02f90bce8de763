\* A blocked call whose marker cannot be saved.
SPECIFICATION SurfaceSpec
CONSTANTS
    Surface = cli
    Callers <- SurfaceCallers
    Operations <- SurfaceOperations
    MaxStagings = 1
    MaxAttempt = 1
    MaxFaults = 1
    MaxTerminals = 0
    HasRegistration = TRUE
    MaxRuns = 1
CHECK_DEADLOCK FALSE
PROPERTIES
    BlockedCallsAreNotResults
