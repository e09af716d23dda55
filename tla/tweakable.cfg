SPECIFICATION FairSpec
CONSTANTS
    Files = {"h", "cpp"}
    Contents <- NestedContents
    Empty <- EmptyFile
    NoFile = NoFile
    NoWatcher = NoWatcher
    Flags = {"IgnoreErrors", "IgnoreChangeIfEmpty"}
    MaxEdits = 2
    MaxVariables = 2
    outer = outer
    inner = inner
    Scopes = {outer, inner}
    Body <- NestedBody
    Outside <- NestedOutside
    zero = zero
    one = one
    Values = {zero, one}
    Compiled = zero
    NoValue = NoValue
    NoScope = NoScope
INVARIANTS
    NoEditMissed
    ValuesCurrent
    ScopesCurrent
PROPERTY
    ValuesArrive
CHECK_DEADLOCK FALSE
