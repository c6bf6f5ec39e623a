------------------------------ MODULE MCPolicies ------------------------------
(***************************************************************************)
(* PolicyReload.tla with small policy files.  An int goes up to 99 here, a *)
(* year has 40 seconds, and so on: what matters is which numbers fit.      *)
(***************************************************************************)
EXTENDS PolicyReload, GeneratedElements, TLC

CONSTANTS c1, c2, c3, c4

SmallSeconds == "years" :> 40 @@ "months" :> 20 @@ "days" :> 10
                @@ "hours" :> 5 @@ "minutes" :> 2 @@ "seconds" :> 1

\* What the stack may hold; what it holds in a run where it helps.
SmallGarbage == {-1, 0, 99}
HelpfulGarbage == {99}

\* As xml_generator writes them.
SizeOf(lower, upper) == SizeLines([low |-> lower, high |-> upper])
HitsOf(hits) == HitsLines([hits |-> hits])

\* By hand: units that are 0 left out, the bounds in the other order, no blanks.
AgeOf(years, seconds) == [type |-> "timepolicy",
                          children |-> <<Tag("years", years), Tag("seconds", seconds)>>]
SizeByHand == [type |-> "sizepolicy",
               children |-> <<Tag("upperbound", 7), Tag("lowerbound", 3)>>]

\* Two lists; a good list with a bad one behind it, its bounds out of order; an
\* empty list, and one with an age that overflows; what the stack may spoil,
\* and an empty tag; a root without a list.
SmallFiles == { <<<<SizeOf(0, 5)>>, <<AgeOf(1, 3)>>>>,
                <<<<AgeOf(1, 0)>>, <<SizeOf(5, 2)>>>>,
                <<<<>>, <<AgeOf(0, 7), AgeOf(3, 4)>>>>,
                <<<<SizeByHand, HitsOf(Nothing)>>>>,
                <<>> }

\* res/policies.xml: the upper bound of the second list is too large for an int.
ShippedFile == { <<<<SizeOf(0, 50), HitsOf(5), AgeOf(0, 36)>>,
                   <<SizeOf(50, 1000), HitsOf(1), AgeOf(1, 0)>>>> }
==============================================================================
