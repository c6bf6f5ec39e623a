\* Users, faults, kills and restarts at any time.
CONSTANTS
    a = a
    b = b
    c = c
    v1 = v1
    v2 = v2
    None = None
    Nil = Nil
    Empty = Empty
    Files = {a}
    Versions = {v1, v2}
    S3Faults = {"put", "get", "delete"}
    Prompt = TRUE
    DaylightZone = TRUE
    UserOps = {"open", "write", "create", "delete", "read"}
    Quiet = FALSE
    FreshNames = FALSE
    LongOpens = TRUE
    MaxQueue = 2
    Kills = {"supervisor", "handler"}
    Restart = TRUE
SPECIFICATION Spec
PROPERTIES DeletedIsBack
