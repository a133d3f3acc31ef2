SPECIFICATION Spec
CONSTANTS
    Turns <- FourTurns
    Streaming <- OneStream
    Ids <- ThreeIds
    IdOf <- RepeatedId
    SizeOf <- Sizes
    Ttl = 2
    MaxSessions = 2
    MaxBytes = 4
    ClockSteps <- AnyWay
    Lapses <- WithinOrBeyond
    MaxTime = 4
INVARIANTS
    WithinLimits
    WholeConversation
PROPERTIES
    EvictsLeastRecentlyUsed
\* Every turn runs once and the clock is bounded.
CHECK_DEADLOCK FALSE
