\* A text with a group without name, or a value without key, saved as one that is refused.
SPECIFICATION Spec
CONSTANTS
    Names = {"a", "b"}
    NoName = ""
    Keys = {"key"}
    NoKey = ""
    Configurations = {c1, c2}
    c1 = c1
    c2 = c2
    Standalone = Standalone
    None = None
    Values <- SetValues
    FlagSets <- FlagsTried
    Files <- Nameless
    Rewrites <- SomeTexts
    NoFile = NoFile
    UnmarkedCount = FALSE
    MaxDepth = 3
    MaxGroups = 5
    MaxItems = 2
INVARIANT
    ReadsBack
CHECK_DEADLOCK FALSE
SYMMETRY Symmetry
