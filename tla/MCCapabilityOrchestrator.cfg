\* Three callers over every identity; the catalogue as shipped.
SPECIFICATION FairSpec
CONSTANTS
    Callers = {c1, c2, c3}
    Helpers <- AskedFor
    Registry <- Shipped
    ContextKeys <- Keys
    MaxPromises = 4
INVARIANTS
    MutualExclusion
    WritesFailClosed
    RefusedBeforeSending
    EveryRequestIsWhole
PROPERTIES
    LaneIsFifo
    QueuedCallsRun
