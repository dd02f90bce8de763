\* One caller, every method, faults and restarts anywhere.
SPECIFICATION Spec
CONSTANTS
    c1 = c1
    Callers = {c1}
    Operations <- Everything
    MaxStagings = 1
    MaxAttempt = 2
    MaxFaults = 1
    MaxTerminals = 3
    HasRegistration = TRUE
INVARIANTS
    CommitBeforeTerminal
    StatusIsBacked
    ResumeMarkerIsHonest
    StateMatchesJournal
    RepetitionNeedsFault
    AcknowledgedIsDurable
PROPERTIES
    DropsOnlyClosedResults
