CONSTANTS
    None = None
    Depth = 1
    MsgCaps = 1
    MaxRefs = 5
    Static <- MCStatic
    Scenarios <- GrowScenarios
    NewSize = 2
    Quantum = 1
SPECIFICATION Spec
PROPERTIES RevokedNeverGrows
CHECK_DEADLOCK FALSE
