\* Two lists, four items, and a call of clear() in another one.  Elements of 8
\* bytes behind a capacity of 8 bytes: the array grows from 1 to 3 to 7
\* elements, and to any capacity reserved.  A failed assertion stops the program.
SPECIFICATION ContainersSpec
INVARIANTS
    OrderExact
    ClearsSound
    LifetimesExact
    ContentsExact
CONSTANTS
    l1 = l1
    l2 = l2
    i1 = i1
    i2 = i2
    i3 = i3
    i4 = i4
    Lists = {l1, l2}
    Items = {i1, i2, i3, i4}
    None = None
    MaxClears = 2
    Values = {0, 1, 2}
    Zero = 0
    Raw = Raw
    Moved = Moved
    ElementSize = 8
    Offset = 8
    Alignment = 16
    MaxSize = 5
    MaxReserve = 6
    MaxAdded = 2
SYMMETRY Symmetry
CHECK_DEADLOCK FALSE
