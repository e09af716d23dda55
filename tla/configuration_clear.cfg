\* An edit that marks nothing is not saved on destruction.
SPECIFICATION Spec
CONSTANTS
    Names = {"a", "b"}
    NoName = ""
    Keys = {"key"}
    NoKey = ""
    Configurations = {c1, c2}
    c1 = c1
    c2 = c2
    Standalone = Standalone
    None = None
    Values <- SetValues
    FlagSets <- FlagsTried
    Files <- TextsTried
    Rewrites <- SomeTexts
    NoFile = NoFile
    UnmarkedCount = TRUE
    MaxDepth = 3
    MaxGroups = 5
    MaxItems = 2
PROPERTY
    ChangesSaved
CHECK_DEADLOCK FALSE
SYMMETRY Symmetry
