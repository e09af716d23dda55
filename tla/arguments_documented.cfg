SPECIFICATION ProgramSpec
CONSTANTS
    Limit = 12
    Scenarios <- NoScenarios
    Programs <- ArgumentsDocumented
    MaxScopes = 2
INVARIANTS
    ReadsWhateverIgnored
    PrefixesMix
    ParsedTellsSuccess
    HelpAnywhere
CHECK_DEADLOCK FALSE
