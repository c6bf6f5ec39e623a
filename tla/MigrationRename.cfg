\* Moves within the directory.
CONSTANTS
    a = a
    b = b
    c = c
    v1 = v1
    v2 = v2
    None = None
    Nil = Nil
    Empty = Empty
    Files = {a, b, c}
    Versions = {v1, v2}
    S3Faults = {}
    Prompt = TRUE
    DaylightZone = FALSE
    UserOps = {"read", "create", "rename"}
    Quiet = TRUE
    FreshNames = TRUE
    LongOpens = FALSE
    MaxQueue = 2
    Kills = {}
    Restart = FALSE
SPECIFICATION Spec
INVARIANTS Reachable CatalogueAgrees
PROPERTIES ImplementsDirectory DeleteKeepsContent
SYMMETRY Symmetry
