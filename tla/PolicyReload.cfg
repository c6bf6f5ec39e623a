\* Edits of policies.xml and both threads of supervise, in any order.
CONSTANTS
    Text = Text
    c1 = c1
    c2 = c2
    c3 = c3
    c4 = c4
    IntMax = 99
    Seconds <- SmallSeconds
    Garbage <- SmallGarbage
    Words = {Text}
    Nothing = Nothing
    Null = Null
    Dies = Dies
    PolicyFiles <- SmallFiles
    Broken = Broken
    Cells = {c1, c2}
    Free = Free
SPECIFICATION FairSpec
INVARIANTS TypeOK ReadyMeansWhole ParsedIsMeant WalksLivePolicies
PROPERTIES PassesUseWholeLists EditTakesEffect
