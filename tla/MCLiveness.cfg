CONSTANTS
    None = None
    r1 = r1
    r2 = r2
    idle = idle
    ta = ta
    tb = tb
    Depth = 1
    MsgCaps = 1
    MaxRefs = 7
    Static <- MCStatic
    Scenarios <- EndScenarios
    NewSize = 2
    Quantum = 1
SPECIFICATION LiveSpec
PROPERTIES
    RequestsServed RevokeEnds TurnComes Passes SessionsServed ThreadsServed KeysArrive
CHECK_DEADLOCK FALSE
