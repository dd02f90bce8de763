\* Two callers on one runtime: what survives their interleavings.
SPECIFICATION Spec
CONSTANTS
    c1 = c1
    c2 = c2
    Callers = {c1, c2}
    Operations <- RacingOperations
    MaxStagings = 2
    MaxAttempt = 1
    MaxFaults = 0
    MaxTerminals = 2
    HasRegistration = TRUE
SYMMETRY CallerSymmetry
PROPERTIES
    LedgerSpec
