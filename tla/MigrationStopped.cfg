\* supervise is stopped at any point and stays down.
CONSTANTS
    a = a
    b = b
    c = c
    v1 = v1
    v2 = v2
    None = None
    Nil = Nil
    Empty = Empty
    Files = {a}
    Versions = {v1, v2}
    S3Faults = {"delete"}
    Prompt = TRUE
    DaylightZone = FALSE
    UserOps = {"open", "write", "create", "delete", "read"}
    Quiet = TRUE
    FreshNames = FALSE
    LongOpens = FALSE
    MaxQueue = 3
    Kills = {"supervisor"}
    Restart = FALSE
SPECIFICATION Spec
INVARIANTS ContentSomewhere ColdIsMarked SafetyInv
CHECK_DEADLOCK FALSE
