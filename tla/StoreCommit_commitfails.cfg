CONSTANTS
    Refs = {r1}
    Files = {f1, f2}
    WalLen = 4
    Watermark = 4
    RecLens = {2}
    Requests = {"write", "sync"}
    Faults = {"superblock"}
    MaxOps = 5
    MaxCommits = 8
    MaxCrashes = 1
    MaxFaults = 1
    None = None
SPECIFICATION Spec
INVARIANT AckedRecoverable
CHECK_DEADLOCK FALSE
