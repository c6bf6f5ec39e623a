\* Three calls of two processes for two files, one after another and overlapping.
CONSTANTS
    Keys = {k1, k2}
    Sizes = {0, 1}
    Times = {0, 1}
    MaxHits = 2
    Missing = Missing
    Ghost = Ghost
    Unknown = Unknown
    Clients = {handler, migrator}
    Written <- SmallWritten
    Queries <- SmallQueries
    NoKey = NoKey
    Out = Out
    None = None
    MaxCalls = 3
SPECIFICATION Spec
SYMMETRY Symmetric
INVARIANTS TypeOK StoreInv Promises IndexAgrees NothingGetsLost QueriesAreRight
PROPERTIES ImplementsAtomicStore
CHECK_DEADLOCK FALSE
