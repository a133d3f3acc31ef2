SPECIFICATION FairSpec
CONSTANTS
    None = None
    NoCall = None
    Chunks <- EverySort
    MaxChunks = 3
    Buffer = 1
    Idle = 2
    Options <- ThreeRequests
INVARIANTS
    NothingLost
    StoredIsWhatWasStreamed
    CompletedByUpstream
    MetricsMatchStream
PROPERTIES
    ImplementsResponsesStream
    StreamEnds
\* The turn ends.
CHECK_DEADLOCK FALSE
