SPECIFICATION Spec
CONSTANTS
    Fetches = {f1, f2}
    MaxEdits = 1
    MaxTemplateEdits = 1
    RouteTables <- Routes
    Formats <- WireFormats
    ConfigAt <- ToggleHistory
    NoEntry = NoEntry
SYMMETRY FetchSymmetry
INVARIANTS
    SingleFlight
    NoPanic
    NeverPreChange
PROPERTY NeverBackwards
\* Finitely many fetches, reloads and template edits: the model runs out.
CHECK_DEADLOCK FALSE
