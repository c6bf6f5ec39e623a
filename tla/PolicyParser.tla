----------------------------- MODULE PolicyParser -----------------------------
(***************************************************************************)
(* One <policy> element of policies.xml and what parsePolicy of            *)
(* PolicyManager.cpp makes of it: a policy, NULL, or the end of the        *)
(* process.  An element is a type and the sequence of its child nodes; the *)
(* blanks between two tags are child nodes too (tag "text").               *)
(*                                                                         *)
(* The locals lower, upper and min are compared at every child, assigned   *)
(* or not, so what is made of an element depends on what the stack holds.  *)
(***************************************************************************)
EXTENDS Integers, Sequences, FiniteSetsExt

CONSTANTS
    IntMax,     \* 2^31 - 1: the greatest int
    Seconds,    \* how many seconds a unit of a time policy has
    Garbage,    \* the values an unassigned local may hold
    Words,      \* text that is no number
    Nothing,    \* the text of an empty tag: a null pointer
    Null,       \* NULL instead of a policy
    Dies        \* an exception that nobody catches

Units == {"years", "months", "days", "hours", "minutes", "seconds"}

Ints == -(IntMax + 1) .. IntMax

ASSUME ParserAssumption == /\ IntMax \in Nat
                           /\ Seconds \in [Units -> Nat]
                           /\ Garbage \subseteq Ints

\* What a new policy is.
Policy == [type : {"sizepolicy"}, low : Ints, high : Ints]
             \cup [type : {"hitspolicy"}, hits : Ints]
             \cup [type : {"timepolicy"}, minimumAge : Ints]

\* The text of an empty tag is no word and no number.
ASSUME NothingAssumption == Nothing \notin Words \cup Int

ASSUME OutcomesAssumption == Null # Dies /\ {Null, Dies} \cap Policy = {}

\* The tags a policy of this type looks for.
Tags(type) == CASE type = "sizepolicy" -> {"lowerbound", "upperbound"}
                [] type = "hitspolicy" -> {"minimumhits"}
                [] type = "timepolicy" -> Units
                [] OTHER -> {}

\* Conversion to int: an overflow drops the upper bits.
ToInt(n) == ((n + IntMax + 1) % (2 * (IntMax + 1))) - (IntMax + 1)

\* The children up to the k-th that have this tag.
Tagged(e, tag, k) == {i \in 1..k : e.children[i].tag = tag}

\* A local after the k-th child: the last value it was assigned, if any.
Held(e, tag, k, garbage) ==
    IF Tagged(e, tag, k) = {} THEN garbage
    ELSE e.children[Max(Tagged(e, tag, k))].value

\* std::string of a null pointer, for a name or for the argument of stoi.
Kills(e, k) == /\ e.children[k].tag \in {"name"} \cup Tags(e.type)
               /\ e.children[k].value = Nothing

\* std::stoi throws what the parser does catch.
Unfit(e, k) == e.children[k].tag \in Tags(e.type) /\ e.children[k].value \notin Ints

\* Mutant: the bounds may be in any order.
DisorderTolerated(e, k, g) ==
    CASE e.type = "sizepolicy" -> \/ Held(e, "lowerbound", k, g[1]) < 0
                                  \/ Held(e, "upperbound", k, g[2]) < 0
      [] e.type = "hitspolicy" -> Held(e, "minimumhits", k, g[1]) < 0
      [] e.type = "timepolicy" -> /\ e.children[k].tag \in Units
                                  /\ e.children[k].value < 0

\* The comparisons at the end of the loop's body; in parseTimePolicy they come
\* after the addition.
Disorder(e, k, g) ==
    CASE e.type = "sizepolicy" ->
             LET lower == Held(e, "lowerbound", k, g[1])
                 upper == Held(e, "upperbound", k, g[2])
             IN  lower > upper \/ lower < 0 \/ upper < 0
      [] e.type = "hitspolicy" -> Held(e, "minimumhits", k, g[1]) < 0
      [] e.type = "timepolicy" -> /\ e.children[k].tag \in Units
                                  /\ e.children[k].value < 0

\* The parser is still in the loop, or through it, after the k-th child.
Goes(e, k, g) == \A i \in 1..k : ~Unfit(e, i) /\ ~Disorder(e, i, g)

\* totalTimeInSeconds, before it has to fit an int.
TotalSeconds(e) ==
    MapThenSumSet(LAMBDA i : e.children[i].value * Seconds[e.children[i].tag],
                  {i \in 1..Len(e.children) : e.children[i].tag \in Units})

\* new SizePolicy, new HitPolicy, new TimePolicy.
Made(e, g) ==
    LET n == Len(e.children) IN
    CASE e.type = "sizepolicy" -> [type |-> e.type,
                                   low  |-> Held(e, "lowerbound", n, g[1]),
                                   high |-> Held(e, "upperbound", n, g[2])]
      [] e.type = "hitspolicy" -> [type |-> e.type,
                                   hits |-> Held(e, "minimumhits", n, g[1])]
      [] e.type = "timepolicy" -> [type |-> e.type,
                                   minimumAge |-> ToInt(TotalSeconds(e))]

\* parsePolicy: any other type, or none, is NULL.
ParsePolicy(e, g) ==
    LET n == Len(e.children) IN
    IF Tags(e.type) = {} THEN Null
    ELSE IF \E k \in 1..n : Kills(e, k) /\ Goes(e, k - 1, g) THEN Dies
    ELSE IF Goes(e, n, g) THEN Made(e, g)
    ELSE Null

\* Everything parsePolicy may return for the element.
Outcomes(e) == {ParsePolicy(e, g) : g \in Garbage \X Garbage}

-----------------------------------------------------------------------------
(***************************************************************************)
(* What an element says, read as its author means it: without a width, and *)
(* whatever else is between the tags.                                      *)
(***************************************************************************)
All(e, tag) == Tagged(e, tag, Len(e.children))

\* The number that the only child of the tag has.
Says(e, tag) == e.children[CHOOSE i \in All(e, tag) : TRUE].value

\* Every number is there, once (a unit of time may be left out), and no number
\* or name is empty or misspelt.
Complete(e) ==
    /\ e.type \in {"sizepolicy", "hitspolicy", "timepolicy"}
    /\ \A i \in 1..Len(e.children) :
           /\ ~Kills(e, i)
           /\ e.children[i].tag \in Tags(e.type) => e.children[i].value \notin Words
    /\ \A tag \in Tags(e.type) :
           /\ e.type # "timepolicy" => All(e, tag) # {}
           /\ \A i, j \in All(e, tag) : i = j

\* The elements one may expect to be accepted.
Valid(e) ==
    /\ Complete(e)
    /\ CASE e.type = "sizepolicy" -> /\ 0 <= Says(e, "lowerbound")
                                     /\ Says(e, "lowerbound") <= Says(e, "upperbound")
         [] e.type = "hitspolicy" -> 0 <= Says(e, "minimumhits")
         [] e.type = "timepolicy" -> \A i \in 1..Len(e.children) :
                e.children[i].tag \in Units => 0 <= e.children[i].value

\* The policy it describes.
Meant(e) ==
    CASE e.type = "sizepolicy" -> [type |-> e.type, low |-> Says(e, "lowerbound"),
                                   high |-> Says(e, "upperbound")]
      [] e.type = "hitspolicy" -> [type |-> e.type, hits |-> Says(e, "minimumhits")]
      [] e.type = "timepolicy" -> [type |-> e.type, minimumAge |-> TotalSeconds(e)]

\* The age of a time policy fits an int.
AgeFits(e) == e.type = "timepolicy" => TotalSeconds(e) \in Ints
==============================================================================
