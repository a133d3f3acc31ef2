\* Up to four items of four kinds in streams of up to seven events.
CONSTANTS
    Enabled = TRUE
    Keys <- MixedKeys
    NoCall = "none"
    Overlap = FALSE
    ManyParts = FALSE
    MaxItems = 4
    MaxEvents = 7
SPECIFICATION Spec
INVARIANTS
    HealthyIdentity
    OnlyShownItems
    TextSurvives
    CompletedMatchesStream
\* A stream ends.
CHECK_DEADLOCK FALSE
