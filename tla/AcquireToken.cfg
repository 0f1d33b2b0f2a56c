SPECIFICATION FairSpec
CONSTANTS
    Requests = {r1, r2}
    None = None
    Calls <- CallsUsed
    Settings <- SettingsUsed
INVARIANTS
    OneSummaryPerCall
    SummaryTellsResult
    PromptIsLastResort
    StaysInExtension
    PolicyErrorReachesCaller
PROPERTIES
    ImplementsTokenCall
    EveryCallEnds
CHECK_DEADLOCK FALSE
