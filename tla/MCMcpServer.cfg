\* A peer that keeps to the protocol and one that does not, in chunks of every size.
SPECIFICATION FairSpec
CONSTANTS
    Streams <- Peers
INVARIANTS
    ChunkingIsInvisible
    NeverMisreads
    AnswersItsRequests
PROPERTIES
    SlowCallsBlockNobody
    EveryFrameIsReached
CHECK_DEADLOCK FALSE
