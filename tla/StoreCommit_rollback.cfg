CONSTANTS
    Refs = {r1, r2}
    Files = {f1}
    WalLen = 4
    Watermark = 4
    RecLens = {1}
    Requests = {"write", "snapshot", "rollback"}
    Faults = {}
    MaxOps = 4
    MaxCommits = 30
    MaxCrashes = 0
    MaxFaults = 0
    None = None
SPECIFICATION Spec
INVARIANT AckedRecoverable
CHECK_DEADLOCK FALSE
