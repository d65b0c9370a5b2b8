CONSTANTS
    Refs = {r1}
    Files = {f1, f2}
    WalLen = 5
    Watermark = 4
    RecLens = {2, 3, 6}
    Requests = {"write", "sync", "snapshot", "rollback"}
    Faults = {}
    MaxOps = 4
    MaxCommits = 30
    MaxCrashes = 1
    MaxFaults = 0
    None = None
SPECIFICATION Spec
INVARIANT StoreSound
PROPERTY Implements
CHECK_DEADLOCK FALSE
