CONSTANTS
    None = None
    Depth = 1
    MsgCaps = 1
    MaxRefs = 5
    Static <- MCStatic
    Scenarios <- MemoryScenarios
    NewSize = 2
    Quantum = 1
SPECIFICATION Spec
INVARIANTS ObjectsSound MemorySound
PROPERTIES RevokeExact TreeImplemented
CHECK_DEADLOCK FALSE
