\* Three runs of one track, each with a client that can commit or one that cannot.
SPECIFICATION SurfaceFairSpec
CONSTANTS
    Surface = cli
    Callers <- SurfaceCallers
    Operations <- SurfaceOperations
    MaxStagings = 3
    MaxAttempt = 1
    MaxFaults = 2
    MaxTerminals = 0
    HasRegistration = TRUE
    MaxRuns = 3
CHECK_DEADLOCK FALSE
INVARIANTS
    ReportedSuccessIsDurable
    OneResultPerRun
    AccumulationIsBacked
PROPERTIES
    HelperIsJournaled
    OutcomeTellsWhatHappened
    RunsSettle
