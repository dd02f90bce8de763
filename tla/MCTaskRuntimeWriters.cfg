\* Two blocked capability calls awaited together.
SPECIFICATION Spec
CONSTANTS
    Callers = {c1, c2}
    Operations <- CapabilityOnly
    MaxStagings = 1
    MaxAttempt = 1
    MaxFaults = 0
    MaxTerminals = 1
    HasRegistration = TRUE
INVARIANTS
    SingleJournalWriter
