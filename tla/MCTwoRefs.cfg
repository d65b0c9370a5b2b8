CONSTANTS
    Refs = {r1, r2}
    Files = {f1}
    WalLen = 5
    Watermark = 5
    RecLens = {2, 3}
    Requests = {"write", "sync", "snapshot"}
    Faults = {"log", "flush", "commit", "superblock"}
    MaxOps = 4
    MaxCommits = 30
    MaxCrashes = 1
    MaxFaults = 1
    None = None
SYMMETRY RefSymmetry
SPECIFICATION Spec
INVARIANTS TypeOK AlwaysMountable LiveSlotSafe SoundUntilFault
CHECK_DEADLOCK FALSE
