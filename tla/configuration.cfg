SPECIFICATION Spec
CONSTANTS
    Names = {"a", "b"}
    NoName = ""
    Keys = {"key"}
    NoKey = ""
    Configurations = {c1, c2}
    c1 = c1
    c2 = c2
    Standalone = Standalone
    None = None
    Values <- SetValues
    FlagSets <- FlagsTried
    Files <- TextsTried
    Rewrites <- SomeTexts
    NoFile = NoFile
    UnmarkedCount = FALSE
    MaxDepth = 3
    MaxGroups = 5
    MaxItems = 2
INVARIANTS
    ReadsBack
    PointersExact
PROPERTY
    ChangesSaved
SYMMETRY Symmetry
CHECK_DEADLOCK FALSE
