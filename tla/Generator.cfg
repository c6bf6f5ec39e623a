\* Two lists of two policies, and every kind of answer.
CONSTANTS
    Text = Text
    IntMax = 99
    Seconds <- SmallSeconds
    Garbage <- SmallGarbage
    Words = {Text}
    Nothing = Nothing
    Null = Null
    Dies = Dies
    Sizes <- SmallSizes
    HitCounts <- SmallCounts
    Ages <- SmallAges
    MaxLists = 2
    MaxPolicies = 2
SPECIFICATION Spec
INVARIANTS FileIsAsAsked
CHECK_DEADLOCK FALSE
