\* Values that are saved as they are but not read as they are.
SPECIFICATION Spec
CONSTANTS
    Names = {"a", "b"}
    NoName = ""
    Keys = {"key"}
    NoKey = ""
    Configurations = {c1, c2}
    c1 = c1
    c2 = c2
    Standalone = Standalone
    None = None
    Values <- QuotedValues
    FlagSets <- FlagsTried
    Files <- TextsTried
    Rewrites <- SomeTexts
    NoFile = NoFile
    UnmarkedCount = FALSE
    MaxDepth = 3
    MaxGroups = 5
    MaxItems = 2
INVARIANT
    ReadsBack
CHECK_DEADLOCK FALSE
SYMMETRY Symmetry
