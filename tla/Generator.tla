------------------------------ MODULE Generator -------------------------------
(***************************************************************************)
(* xml_generator: a dialogue that writes policies.xml.  One action per     *)
(* question that decides where the dialogue goes; the numbers of a policy  *)
(* are asked for and written in one step, since each of these prompts      *)
(* repeats itself until it has read a number of its type.                  *)
(***************************************************************************)
EXTENDS GeneratedElements

CONSTANTS
    Sizes,      \* answers to the two prompts for bounds: a long long each
    HitCounts,  \* answers to the prompt for the hits
    Ages,       \* answers to the six prompts for an age
    MaxLists,   \* bound: lists asked for
    MaxPolicies \* bound: policies asked for in a list

ASSUME AnswersAssumption == /\ Sizes \subseteq Int \X Int
                            /\ HitCounts \subseteq Ints
                            /\ Ages \subseteq [Units -> Ints]
                            /\ MaxLists \in Nat /\ MaxPolicies \in Nat

VARIABLES
    gpc,                    \* the question, or the test of a loop, that is next
    written,                \* the lists of elements in the file
    createNewPolicyList,    \* the two flags of the loops
    createNewPolicy,
    asked,                  \* history: the policies that the user has asked
                            \* for, list by list
    capital                 \* history: a question was answered with Y

vars == <<gpc, written, createNewPolicyList, createNewPolicy, asked, capital>>

Replies == {"y", "n", "Y", "N", "other"}
Yes == {"y", "Y"}

Answers == {[type |-> "sizepolicy", low |-> s[1], high |-> s[2]] : s \in Sizes}
               \cup [type : {"hitspolicy"}, hits : HitCounts]
               \cup [type : {"timepolicy"}, units : Ages]

Init == /\ gpc = "lists"
        /\ written = <<>>
        /\ createNewPolicyList = TRUE /\ createNewPolicy = TRUE
        /\ asked = <<<<>>>>
        /\ capital = FALSE

-----------------------------------------------------------------------------
Turn(from, next) == gpc = from /\ gpc' = next

\* while (createNewPolicyList)
StartList ==
    /\ Turn("lists", "policies")
    /\ createNewPolicyList
    /\ written' = Append(written, <<>>)
    /\ UNCHANGED <<createNewPolicyList, createNewPolicy, asked, capital>>

\* The end of the file, which is then moved over res/policies.xml.
Install ==
    /\ Turn("lists", "done")
    /\ ~createNewPolicyList
    /\ UNCHANGED <<written, createNewPolicyList, createNewPolicy, asked, capital>>

\* while (createNewPolicy)
StartPolicy ==
    /\ Turn("policies", "type")
    /\ createNewPolicy
    /\ UNCHANGED <<written, createNewPolicyList, createNewPolicy, asked, capital>>

EndList ==
    /\ Turn("policies", "another list?")
    /\ ~createNewPolicy
    /\ UNCHANGED <<written, createNewPolicyList, createNewPolicy, asked, capital>>

\* A word where the type's number is expected: cin has failed, nobody clears
\* it, and the prompt repeats itself for ever.
Jam == /\ Turn("type", "jammed")
       /\ UNCHANGED <<written, createNewPolicyList, createNewPolicy, asked, capital>>

ToLast(lists, x) == [lists EXCEPT ![Len(lists)] = Append(@, x)]

\* The type is chosen, the numbers are given, the element is written.
AddElement(answer, element) ==
    /\ Turn("type", "another policy?")
    /\ written' = ToLast(written, element)
    /\ asked' = ToLast(asked, answer)
    /\ UNCHANGED <<createNewPolicyList, createNewPolicy, capital>>

AddSize == \E a \in Answers : a.type = "sizepolicy" /\ AddElement(a, SizeLines(a))
AddHits == \E a \in Answers : a.type = "hitspolicy" /\ AddElement(a, HitsLines(a))
AddTime == \E a \in Answers : a.type = "timepolicy" /\ AddElement(a, TimeLines(a))

Reply(question, next, reply) ==
    /\ Turn(question, IF reply = "other" THEN question ELSE next)
    /\ capital' = (capital \/ reply = "Y")
    /\ UNCHANGED written

\* "Would you add another policy to the list?": anything but y is no.
AnotherPolicy ==
    /\ \E reply \in Replies :
           /\ reply \in Yes => Len(asked[Len(asked)]) < MaxPolicies
           /\ Reply("another policy?", "policies", reply)
           /\ createNewPolicy' = (reply = "y")
    /\ UNCHANGED <<createNewPolicyList, asked>>

\* Mutant: the inner loop's flag is not set again.
AnotherListOnly ==
    \E reply \in Replies :
        /\ reply \in Yes => Len(asked) < MaxLists
        /\ Reply("another list?", "lists", reply)
        /\ createNewPolicyList' = (reply = "y")
        /\ asked' = IF reply \in Yes THEN Append(asked, <<>>) ELSE asked
        /\ UNCHANGED createNewPolicy

\* "Would you like to create a new policy list?"
AnotherList ==
    \E reply \in Replies :
        /\ reply \in Yes => Len(asked) < MaxLists
        /\ Reply("another list?", "lists", reply)
        /\ createNewPolicyList' = (reply = "y")
        /\ createNewPolicy' = (createNewPolicy \/ reply = "y")
        /\ asked' = IF reply \in Yes THEN Append(asked, <<>>) ELSE asked

Next == \/ StartList \/ Install \/ StartPolicy \/ EndList \/ Jam
        \/ AddSize \/ AddHits \/ AddTime
        \/ AnotherPolicy \/ AnotherList

Spec == Init /\ [][Next]_vars

-----------------------------------------------------------------------------
(***************************************************************************)
(* Properties.                                                             *)
(***************************************************************************)

\* The numbers of an answer make sense, and fit an int.
Sensible(answer) ==
    CASE answer.type = "sizepolicy" -> /\ 0 <= answer.low /\ answer.low <= answer.high
                                       /\ answer.high <= IntMax
      [] answer.type = "hitspolicy" -> 0 <= answer.hits
      [] answer.type = "timepolicy" -> \A u \in Units : 0 <= answer.units[u]

PolicyFor(answer) ==
    IF answer.type = "timepolicy"
    THEN [type |-> "timepolicy",
          minimumAge |-> MapThenSumSet(LAMBDA u : answer.units[u] * Seconds[u], Units)]
    ELSE answer

\* The generator and the parser agree on the format: when the dialogue is over,
\* the file has the lists that were asked for, and the parser makes of each
\* element the policy that was asked for, if it makes sense, and nothing else,
\* whatever the stack holds; it may only reject it.  (Excepted are users who
\* answered Y, which the prompts accept but take for no, and ages that do not
\* fit an int.)
FileIsAsAsked ==
    gpc = "done" /\ ~capital =>
        /\ Len(written) = Len(asked)
        /\ \A i \in DOMAIN asked :
               /\ Len(written[i]) = Len(asked[i]) /\ asked[i] # <<>>
               /\ \A j \in DOMAIN asked[i] :
                      AgeFits(written[i][j]) =>
                          Outcomes(written[i][j]) \ {Null} =
                              IF Sensible(asked[i][j]) THEN {PolicyFor(asked[i][j])} ELSE {}
==============================================================================
