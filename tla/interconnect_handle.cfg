SPECIFICATION Spec
CONSTANTS
    Emitters = {e1, e2}
    Receivers = {r1}
    Signals = {s1}
    Addresses = {a1, a2}
    NoReceiver = NoReceiver
    NoNode = NoNode
    Freed = Freed
    CounterValues = 3
    WrapAround = FALSE
    NestSameEmitter = FALSE
    MaxDepth = 2
    MaxHandles = 1
PROPERTY
    HandleStaysDead
