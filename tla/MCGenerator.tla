----------------------------- MODULE MCGenerator ------------------------------
(***************************************************************************)
(* Generator.tla with the small numbers of MCPolicies.tla: an int goes up  *)
(* to 99, a year has 40 seconds.                                           *)
(***************************************************************************)
EXTENDS Generator, TLC

SmallSeconds == "years" :> 40 @@ "months" :> 20 @@ "days" :> 10
                @@ "hours" :> 5 @@ "minutes" :> 2 @@ "seconds" :> 1

SmallGarbage == {-1, 0, 99}

\* Bounds in order, out of order, negative, and too large for an int.
SmallSizes == {<<5, 7>>, <<7, 5>>, <<-1, 5>>, <<5, 120>>}
SmallCounts == {-1, 3}

Age(years, minutes, seconds) ==
    [u \in Units |-> CASE u = "years" -> years [] u = "minutes" -> minutes
                       [] u = "seconds" -> seconds [] OTHER -> 0]

\* An age, one with a negative part, and one that does not fit.
SmallAges == {Age(1, 3, 2), Age(0, -1, 9), Age(3, 0, 0)}
==============================================================================
