SPECIFICATION ProgramSpec
CONSTANTS
    Limit = 12
    Scenarios <- NoScenarios
    Programs <- AllPrograms
    MaxScopes = 2
INVARIANTS
    RunsAsSelected
    RepeatsIsolated
    CountsExact
    ExitCodeExact
    LinesRead
    PrefixesSplit
CHECK_DEADLOCK FALSE
