SPECIFICATION FairSpec
CONSTANTS
    Fetches = {f1}
    MaxEdits = 2
    MaxTemplateEdits = 0
    RouteTables <- Routes
    Formats <- WireFormats
    ConfigAt <- RouteHistory
    NoEntry = NoEntry
PROPERTIES
    ImplementsService
    FetchAnswered
    ReloadReachesCatalog
\* Finitely many fetches and reloads: the model runs out.
CHECK_DEADLOCK FALSE
