\* The handler may fall behind the sleeps of the migrator.
CONSTANTS
    a = a
    b = b
    c = c
    v1 = v1
    v2 = v2
    None = None
    Nil = Nil
    Empty = Empty
    Files = {a}
    Versions = {v1, v2}
    S3Faults = {"delete"}
    Prompt = FALSE
    DaylightZone = FALSE
    UserOps = {}
    Quiet = TRUE
    FreshNames = FALSE
    LongOpens = FALSE
    MaxQueue = 3
    Kills = {}
    Restart = FALSE
SPECIFICATION Spec
PROPERTIES DemotionRecorded
CHECK_DEADLOCK FALSE
