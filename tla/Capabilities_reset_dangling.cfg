CONSTANTS
    None = None
    Depth = 1
    MsgCaps = 1
    MaxRefs = 5
    Static <- MCStatic
    Scenarios <- ResetScenarios
    NewSize = 2
    Quantum = 9
SPECIFICATION Spec
INVARIANTS NoDangling
CHECK_DEADLOCK FALSE
