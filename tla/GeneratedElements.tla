-------------------------- MODULE GeneratedElements ---------------------------
(***************************************************************************)
(* The layout in which xml_generator.cpp writes a <policy> element: each   *)
(* tag on a line of its own, the name first, and so a blank before the     *)
(* first tag, between two, and after the last one.                         *)
(***************************************************************************)
EXTENDS PolicyParser

CONSTANT Text   \* a name, or blanks

ASSUME TextAssumption == Text \in Words

Tag(tag, value) == [tag |-> tag, value |-> value]
Blank == Tag("text", Text)
Name == Tag("name", Text)

\* says gives each of the tags its number.
Lines(type, tags, says) ==
    [type |-> type,
     children |-> [k \in 1..(2 * Len(tags) + 3) |->
                      CASE k % 2 = 1 -> Blank
                        [] k = 2     -> Name
                        [] OTHER     -> LET tag == tags[k \div 2 - 1]
                                        IN  Tag(tag, says[tag])]]

Bounds == <<"lowerbound", "upperbound">>

\* Mutant: the answers are written in the wrong order.
SizeLinesSwapped(answer) ==
    Lines("sizepolicy", Bounds, [lowerbound |-> answer.high, upperbound |-> answer.low])

SizeLines(answer) ==
    Lines("sizepolicy", Bounds, [lowerbound |-> answer.low, upperbound |-> answer.high])

HitsLines(answer) ==
    Lines("hitspolicy", <<"minimumhits">>, [minimumhits |-> answer.hits])

TimeLines(answer) ==
    Lines("timepolicy", <<"years", "months", "days", "hours", "minutes", "seconds">>,
          answer.units)
==============================================================================
