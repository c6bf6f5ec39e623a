\* Liveness of the recall.
CONSTANTS
    a = a
    b = b
    c = c
    v1 = v1
    v2 = v2
    None = None
    Nil = Nil
    Empty = Empty
    Files = {a}
    Versions = {v1, v2}
    S3Faults = {"delete"}
    Prompt = TRUE
    DaylightZone = FALSE
    UserOps = {"open", "write", "create", "delete"}
    Quiet = TRUE
    FreshNames = FALSE
    LongOpens = FALSE
    MaxQueue = 2
    Kills = {}
    Restart = FALSE
SPECIFICATION FairSpec
PROPERTIES RecallCompletes
