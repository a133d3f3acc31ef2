SPECIFICATION Spec
CONSTANTS
    Fetches = {f1, f2}
    MaxEdits = 1
    MaxTemplateEdits = 0
    RouteTables <- Routes
    Formats <- WireFormats
    ConfigAt <- FormatHistory
    NoEntry = NoEntry
INVARIANT NeverPreChange
CHECK_DEADLOCK FALSE
