\* One run; what the coordinator carries from one scenario to the next.
CONSTANTS
    MaxRuns = 1
    Planned = Planned
    Empty = Empty
    None = None
SPECIFICATION Spec
CHECK_DEADLOCK FALSE
INVARIANT ContinuesOnReturnedIds
