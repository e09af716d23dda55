SPECIFICATION Spec
CONSTANTS
    Files = {"cpp"}
    Contents <- NestedContents
    Empty <- EmptyFile
    NoFile = NoFile
    NoWatcher = NoWatcher
    Flags = {"IgnoreErrors", "IgnoreChangeIfEmpty"}
    MaxEdits = 2
    MaxVariables = 2
    outer = outer
    inner = inner
    Scopes = {outer, inner}
    Body <- FlatBody
    Outside = {}
    zero = zero
    one = one
    Values = {zero, one}
    Compiled = zero
    NoValue = NoValue
    NoScope = NoScope
INVARIANT
    ScopesRun
CHECK_DEADLOCK FALSE
