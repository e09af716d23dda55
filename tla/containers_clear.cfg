\* Shows: a destructor that cuts or deletes the item after its own stops clear().
SPECIFICATION ListSpec
INVARIANT ClearsWhatever
CONSTANTS
    Lists = {l1, l2}
    Items = {i1, i2}
    None = None
    MaxClears = 1
CHECK_DEADLOCK FALSE
