SPECIFICATION FairSpec
CONSTANTS
    MaxChunks = 4
    Buffer = 1
    Idle = 1
    Options <- ThreeRequests
    NoTurn = NoTurn
INVARIANTS
    StoredWasSent
    OneVerdict
PROPERTY TurnEnds
\* The turn ends.
CHECK_DEADLOCK FALSE
