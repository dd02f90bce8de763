\* Two runs in a row; Core may keep the planned id, choose one, or not say.
CONSTANTS
    MaxRuns = 2
    Planned = Planned
    Empty = Empty
    None = None
SPECIFICATION Spec
CHECK_DEADLOCK FALSE
INVARIANTS
    StepsFollowTheReply
    EvidenceIsOfTheRun
