SPECIFICATION MachineSpec
CONSTANTS
    a = a
    b = b
    c = c
    First = a
    States = {a, b, c}
    x = x
    Inputs = {x}
    MaxSteps = 2
    MaxSignals = 9
INVARIANTS
    OutermostStepWins
    SignalsTellPath
