\* The timing and the users the code counts on.
CONSTANTS
    a = a
    b = b
    c = c
    v1 = v1
    v2 = v2
    None = None
    Nil = Nil
    Empty = Empty
    Files = {a, b}
    Versions = {v1, v2}
    S3Faults = {"delete"}
    Prompt = TRUE
    DaylightZone = FALSE
    UserOps = {"open", "write", "create", "delete"}
    Quiet = TRUE
    FreshNames = FALSE
    LongOpens = FALSE
    MaxQueue = 2
    Kills = {}
    Restart = FALSE
SPECIFICATION Spec
INVARIANTS TypeOK Reachable NoCrash CatalogueAgrees
PROPERTIES NoBounceBack OpenRespected DemotionRecorded ImplementsDirectory
SYMMETRY Symmetry
