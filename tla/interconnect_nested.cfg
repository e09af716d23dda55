SPECIFICATION Spec
CONSTANTS
    Emitters = {e1, e2}
    Receivers = {r1}
    Signals = {s1}
    Addresses = {a1, a2}
    NoReceiver = NoReceiver
    NoNode = NoNode
    Freed = Freed
    CounterValues = 3
    WrapAround = FALSE
    NestSameEmitter = TRUE
    MaxDepth = 2
    MaxHandles = 0
SYMMETRY Symmetry
INVARIANT
    IteratorValid
