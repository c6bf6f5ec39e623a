\* The policies as shipped, where the stack does no harm.
CONSTANTS
    Text = Text
    c1 = c1
    c2 = c2
    c3 = c3
    c4 = c4
    IntMax = 99
    Seconds <- SmallSeconds
    Garbage <- HelpfulGarbage
    Words = {Text}
    Nothing = Nothing
    Null = Null
    Dies = Dies
    PolicyFiles <- ShippedFile
    Broken = Broken
    Cells = {c1, c2, c3, c4}
    Free = Free
SPECIFICATION Spec
INVARIANTS ValidIsInForce
