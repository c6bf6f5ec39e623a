\* Patient users with fresh names tidy up.
CONSTANTS
    a = a
    b = b
    v1 = v1
    v2 = v2
    None = None
    Nil = Nil
    Empty = Empty
    Files = {a, b}
    Versions = {v1, v2}
    S3Faults = {"delete"}
    Prompt = FALSE
    Patient = TRUE
    FreshNames = TRUE
    MaxQueue = 3
SPECIFICATION FairSpec
INVARIANTS TypeOK BothCatalogued TidyingStrandsNothing ForecastIsTrue
PROPERTIES RecallFillsPlaceholders CatchesUp
