CONSTANTS
    None = None
    Depth = 1
    MsgCaps = 1
    MaxRefs = 4
    Static <- MCStatic
    Scenarios <- CallScenarios
    NewSize = 2
    Quantum = 1
SPECIFICATION Spec
INVARIANTS TreeSound ObjectsSound WaitQueues
PROPERTIES TeardownExact RevokedNeverGrows
CHECK_DEADLOCK FALSE
