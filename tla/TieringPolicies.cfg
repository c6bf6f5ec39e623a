CONSTANTS
    a = a
    one = one
    Files = {a}
    Names = {one}
    NameOf <- OneName
    PolicyFiles <- SmallPolicies
    BounceBack = 1
    Hour = 1
    Sizes = {1, 3}
    MaxHits = 4
    MaxTime = 8
SPECIFICATION Spec
INVARIANTS TypeOK
PROPERTIES DemotesTheGivenUp NoSelfPromotion
CHECK_DEADLOCK FALSE
