\* Three requests under way: a timer and a signal, a timer, a signal.
SPECIFICATION FairSpec
CONSTANTS
    both = both
    timedOnly = timedOnly
    signalledOnly = signalledOnly
    Requests <- AllRequests
    Timed <- WithTimer
    Signalled <- WithSignal
CHECK_DEADLOCK FALSE
INVARIANTS
    KindIsHonest
    AbortReachesAll
PROPERTIES
    NothingLeavesAfterCancel
    SettledLeavesNothing
    RequestsSettle
