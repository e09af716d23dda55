\* Documents of four values or containers, compact arrays wrapped after two
\* values or not at all, in every combination of wrapping and indentation; and
\* any text of seven lexemes, parsed in any way.
SPECIFICATION Spec
CONSTANTS
    Wraps = {TRUE, FALSE}
    Indentations = {2}
    InitialIndentations = {0, 3}
    WrapAfter = {0, 2}
    Written = {"escaped", "small"}
    MaxItems = 4
    Inputs = {"{", "}", "[", "]", ",", ":", "plain", "escaped", "invalid",
              "small", "large", "digits", "null"}
    MaxText = 7
    MaxStrings = 3
    OptionSets = {{}, {"ParseDoubles", "ParseStringKeys"},
                  {"ParseLiterals", "ParseFloats", "ParseStrings"}}
INVARIANTS
    ExpectingFollowsPlainLevel
    WritesJson
    AcceptsJson
    TreeExact
    StringsOwned
    ArrayViewsTyped
    RoundTrip
PROPERTIES
    ImplementsDocument
    StaysParsed
