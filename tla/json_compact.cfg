SPECIFICATION WriterSpec
CONSTANTS
    Wraps = {TRUE}
    Indentations = {2}
    InitialIndentations = {0}
    WrapAfter = {0}
    Written = {"small"}
    MaxItems = 4
INVARIANT
    ExpectingFollowsLevel
