SPECIFICATION ProgramSpec
CONSTANTS
    Limit = 12
    Scenarios <- NoScenarios
    Programs <- TooLargeTests
    MaxScopes = 2
INVARIANT
    RunsAsAsked
CHECK_DEADLOCK FALSE
