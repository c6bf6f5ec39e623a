----------------------------- MODULE PolicyReload -----------------------------
(***************************************************************************)
(* The two threads of supervise and what they share: the policies.         *)
(* updatePolicies deletes them all and parses policies.xml again, every    *)
(* eight seconds; manageFiles copies the list of pointers at the start of  *)
(* each pass and walks over its copy.  There is no lock; ready is the only *)
(* signal.  The memory of the policies is modelled by cells that are       *)
(* allocated and freed, so that a pointer may outlive its policy.          *)
(***************************************************************************)
EXTENDS PolicyParser

CONSTANTS
    PolicyFiles,    \* what policies.xml may hold: sequences of policy lists,
                    \* each a sequence of elements
    Broken,         \* a policies.xml that is missing or no XML
    Cells,          \* memory for policies
    Free            \* the content of a cell that is not allocated

\* What the lists of a list of lists hold.
Pointers(lists) == UNION {Range(lists[i]) : i \in DOMAIN lists}

ASSUME FilesAssumption ==
    /\ Broken \notin PolicyFiles
    /\ \A f \in PolicyFiles :
           /\ f \in Seq(Seq(Pointers(f)))
           /\ \A e \in Pointers(f) : e.children \in Seq(Range(e.children))

ASSUME MemoryAssumption == Free \notin Policy

VARIABLES
    file,       \* res/policies.xml
    ready,      \* the atomic flag
    policyList, \* PolicyManager's lists of pointers
    heap,       \* the cells
    parseError, \* PolicyManager's flag
    doc,        \* the document the policy thread parses, or parsed last
    newList,    \* the list under construction
    at,         \* the list at hand: of policyList in clear, of doc in the parser
    tpc,        \* where the policy thread is
    mine,       \* manageFiles' copy: the pointers it has still to follow
    reading,    \* the policies it has read of the list at hand
    walked,     \* the lists of policies it has read in this pass
    mpc,        \* where manageFiles is
    disturbed   \* history: the policy thread has run since (or while) the copy
                \* was made

memory == <<policyList, heap>>
policyVars == <<ready, memory, parseError, doc, newList, at>>
migratorVars == <<mine, reading, walked>>

vars == <<file, policyVars, tpc, migratorVars, mpc, disturbed>>

\* A walk over the copy is under way.
Walking == mpc \in {"test", "demoting", "promoting"}

Init ==
    /\ file \in PolicyFiles \cup {Broken}
    /\ ready = FALSE
    /\ policyList = <<>> /\ heap = [c \in Cells |-> Free]
    /\ parseError = FALSE
    /\ doc = Broken /\ newList = <<>> /\ at = 1
    /\ tpc = "asleep"
    /\ mine = <<>> /\ reading = <<>> /\ walked = <<>>
    /\ mpc = "demotion"
    /\ disturbed = FALSE

-----------------------------------------------------------------------------
(***************************************************************************)
(* The policy thread.                                                      *)
(***************************************************************************)

PolicyStep(from, next) ==
    /\ tpc = from /\ tpc' = next
    /\ disturbed' = (disturbed \/ Walking)
    /\ UNCHANGED <<file, migratorVars, mpc>>

\* Mutant: ready keeps its value while the lists are rebuilt.
WakeReady ==
    /\ PolicyStep("asleep", "clear")
    /\ at' = 1
    /\ UNCHANGED <<ready, memory, parseError, doc, newList>>

Wake ==
    /\ PolicyStep("asleep", "clear")
    /\ ready' = FALSE
    /\ at' = 1
    /\ UNCHANGED <<memory, parseError, doc, newList>>

\* PolicyManager::clear, policy by policy: the cell is freed, then its pointer
\* is taken off the inner list.
DeletePolicy ==
    /\ PolicyStep("clear", "erase")
    /\ at <= Len(policyList) /\ policyList[at] # <<>>
    /\ heap' = [heap EXCEPT ![Head(policyList[at])] = Free]
    /\ UNCHANGED <<ready, policyList, parseError, doc, newList, at>>

ErasePolicy ==
    /\ PolicyStep("erase", "clear")
    /\ policyList' = [policyList EXCEPT ![at] = Tail(@)]
    /\ UNCHANGED <<ready, heap, parseError, doc, newList, at>>

NextOuter ==
    /\ PolicyStep("clear", "clear")
    /\ at <= Len(policyList) /\ policyList[at] = <<>>
    /\ at' = at + 1
    /\ UNCHANGED <<ready, memory, parseError, doc, newList>>

ClearLists ==
    /\ PolicyStep("clear", "open")
    /\ at > Len(policyList)
    /\ policyList' = <<>>
    /\ UNCHANGED <<ready, heap, parseError, doc, newList, at>>

\* Mutant: parseError is cleared in the constructor only.
OpenFileWithError ==
    /\ doc' = file
    /\ IF file # Broken /\ file # <<>>
       THEN PolicyStep("open", "parse") /\ at' = 1
       ELSE PolicyStep("open", "asleep") /\ UNCHANGED at
    /\ UNCHANGED <<ready, memory, parseError, newList>>

\* Mutant: lists are counted from zero.
OpenFileAtZero ==
    /\ doc' = file
    /\ IF file # Broken /\ file # <<>>
       THEN PolicyStep("open", "parse") /\ at' = 0
       ELSE PolicyStep("open", "asleep") /\ UNCHANGED at
    /\ parseError' = FALSE
    /\ UNCHANGED <<ready, memory, newList>>

\* parsePoliciesFromXMLFile and the head of streamFile: a file that is no XML,
\* or has no list, is a failure.
OpenFile ==
    /\ doc' = file
    /\ IF file # Broken /\ file # <<>>
       THEN PolicyStep("open", "parse") /\ at' = 1
       ELSE PolicyStep("open", "asleep") /\ UNCHANGED at
    /\ parseError' = FALSE
    /\ UNCHANGED <<ready, memory, newList>>

\* parsePolicyList has an element before it, or is through with its list.
Parsing == tpc = "parse" /\ at <= Len(doc)
MoreElements == Parsing /\ Len(newList) < Len(doc[at])
Element == doc[at][Len(newList) + 1]

AddPolicy ==
    /\ MoreElements
    /\ PolicyStep("parse", "parse")
    /\ \E p \in Outcomes(Element) \cap Policy, c \in Cells :
           /\ heap[c] = Free
           /\ heap' = [heap EXCEPT ![c] = p]
           /\ newList' = Append(newList, c)
    /\ UNCHANGED <<ready, policyList, parseError, doc, at>>

\* The cells of newList without those of its policies: nobody has a pointer to
\* them any more.  The code never uses this memory again; the model may.
Leaked == [c \in Cells |-> IF \E j \in DOMAIN newList : newList[j] = c
                           THEN Free ELSE heap[c]]

\* Mutant: a failure cleans up behind itself, but leaves the pointers.
RejectPolicyAndFree ==
    /\ MoreElements
    /\ PolicyStep("parse", "asleep")
    /\ Null \in Outcomes(Element)
    /\ parseError' = TRUE
    /\ heap' = [c \in Cells |-> Free]
    /\ newList' = <<>>
    /\ ready' = FALSE
    /\ UNCHANGED <<policyList, doc, at>>

\* NULL: the file has failed; the lists before this one stay where they are.
RejectPolicy ==
    /\ MoreElements
    /\ PolicyStep("parse", "asleep")
    /\ Null \in Outcomes(Element)
    /\ parseError' = TRUE
    /\ heap' = Leaked /\ newList' = <<>>
    /\ ready' = FALSE
    /\ UNCHANGED <<policyList, doc, at>>

\* An exception nobody catches ends both threads.
ParserDies ==
    /\ MoreElements
    /\ Dies \in Outcomes(Element)
    /\ tpc' = "dead" /\ mpc' = "dead"
    /\ UNCHANGED <<file, policyVars, migratorVars, disturbed>>

\* The end of a list: it is added unless it is empty, then streamFile looks at
\* parseError.
PushList ==
    /\ Parsing /\ Len(newList) = Len(doc[at])
    /\ PolicyStep("parse", IF parseError THEN "asleep" ELSE "parse")
    /\ policyList' = IF newList = <<>> THEN policyList
                                       ELSE Append(policyList, newList)
    /\ newList' = <<>>
    /\ at' = at + 1
    /\ UNCHANGED <<ready, heap, parseError, doc>>

\* The end of the file.
Publish ==
    /\ tpc = "parse" /\ at > Len(doc)
    /\ PolicyStep("parse", "asleep")
    /\ ready' = TRUE
    /\ UNCHANGED <<memory, parseError, doc, newList, at>>

PolicyThread == \/ Wake
                \/ DeletePolicy \/ ErasePolicy \/ NextOuter \/ ClearLists
                \/ OpenFile \/ AddPolicy \/ RejectPolicy \/ ParserDies
                \/ PushList \/ Publish

-----------------------------------------------------------------------------
(***************************************************************************)
(* manageFiles.  A read of a freed cell, and a copy of a list that is      *)
(* being changed, are undefined: the process ends, or goes on with         *)
(* whatever it found.                                                      *)
(***************************************************************************)
MigratorStep(from, next) ==
    /\ mpc = from /\ mpc' = next
    /\ UNCHANGED <<file, policyVars, tpc>>

\* getPolicyList returns a copy of the lists.
Copy(from, next) ==
    /\ MigratorStep(from, next)
    /\ mine' = policyList
    /\ disturbed' = (tpc # "asleep")
    /\ UNCHANGED <<reading, walked>>

CopyForDemotion == Copy("demotion", "test")
CopyForPromotion == Copy("promotion", "promoting")

\* The end of the process after undefined behaviour.
Crash == /\ tpc' = "dead" /\ mpc' = "dead"
         /\ UNCHANGED <<file, policyVars, migratorVars, disturbed>>

CopyRaces == /\ mpc \in {"demotion", "promotion"}
             /\ tpc \notin {"asleep", "dead"}
             /\ Crash

\* Mutant: ready is not looked at.
TestSizeOnly ==
    /\ MigratorStep("test", IF mine # <<>> THEN "demoting" ELSE "demotion")
    /\ mine' = IF mpc' = "demoting" THEN mine ELSE <<>>
    /\ UNCHANGED <<reading, walked, disturbed>>

\* policyList.size() > 0 && ready, on the copy and on the flag of now.
Test ==
    /\ MigratorStep("test", IF mine # <<>> /\ ready THEN "demoting" ELSE "demotion")
    /\ mine' = IF mpc' = "demoting" THEN mine ELSE <<>>
    /\ UNCHANGED <<reading, walked, disturbed>>

\* getDemotionList or getPromotionList follows the next pointer.
ReadPolicy(pass) ==
    /\ MigratorStep(pass, pass)
    /\ mine # <<>> /\ Head(mine) # <<>>
    /\ reading' = Append(reading, heap[Head(Head(mine))])
    /\ mine' = <<Tail(Head(mine))>> \o Tail(mine)
    /\ UNCHANGED <<walked, disturbed>>

ReadFreed == /\ mpc \in {"demoting", "promoting"}
             /\ mine # <<>> /\ Head(mine) # <<>>
             /\ heap[Head(Head(mine))] = Free
             /\ Crash

\* The end of a list.  Empty lists yield no candidates.
NextList(pass) ==
    /\ MigratorStep(pass, pass)
    /\ mine # <<>> /\ Head(mine) = <<>>
    /\ walked' = IF reading = <<>> THEN walked ELSE Append(walked, reading)
    /\ reading' = <<>>
    /\ mine' = Tail(mine)
    /\ UNCHANGED disturbed

\* The pass has its candidates; then come the migrations and the sleeps.
EndWalk(pass, next) ==
    /\ MigratorStep(pass, next)
    /\ mine = <<>>
    /\ walked' = <<>>
    /\ UNCHANGED <<mine, reading, disturbed>>

Migrator == \/ CopyForDemotion \/ CopyForPromotion \/ CopyRaces
            \/ Test
            \/ \E pass \in {"demoting", "promoting"} :
                   ReadPolicy(pass) \/ NextList(pass)
            \/ ReadFreed
            \/ EndWalk("demoting", "promotion") \/ EndWalk("promoting", "demotion")

-----------------------------------------------------------------------------
\* Somebody writes another policies.xml.
Edit == /\ file' \in PolicyFiles \cup {Broken}
        /\ file' # file
        /\ UNCHANGED <<policyVars, tpc, migratorVars, mpc, disturbed>>

Next == PolicyThread \/ Migrator \/ Edit

Spec == Init /\ [][Next]_vars

\* sleep(time) returns: the policy thread goes on for ever.
FairSpec == Spec /\ WF_vars(PolicyThread)

-----------------------------------------------------------------------------
(***************************************************************************)
(* Properties.                                                             *)
(***************************************************************************)

\* Type invariant.
TypeOK ==
    /\ file \in PolicyFiles \cup {Broken} /\ doc \in PolicyFiles \cup {Broken}
    /\ ready \in BOOLEAN /\ parseError \in BOOLEAN /\ disturbed \in BOOLEAN
    /\ policyList \in Seq(Seq(Cells)) /\ mine \in Seq(Seq(Cells))
    /\ newList \in Seq(Cells)
    /\ heap \in [Cells -> Policy \cup {Free}]
    /\ at \in Nat \ {0}
    /\ tpc \in {"asleep", "clear", "erase", "open", "parse", "dead"}
    /\ mpc \in {"demotion", "test", "demoting", "promotion", "promoting", "dead"}
    /\ reading \in Seq(Policy \cup {Free})
    /\ walked \in Seq(Seq(Policy \cup {Free}))

\* The pointers lead to the policies of this list of elements, all of them, in
\* their order, each allocated and as the parser made it.
Renders(cells, elements) ==
    /\ Len(cells) = Len(elements)
    /\ \A j \in 1..Len(elements) :
           /\ heap[cells[j]] # Free
           /\ heap[cells[j]] \in Outcomes(elements[j])

\* ready means the whole of a file: every list of it that is not empty is there
\* in full, none of its policies is freed, and nothing else is there, whatever
\* the two threads are doing.
ReadyMeansWhole ==
    ready =>
        /\ doc \in PolicyFiles
        /\ \A i \in DOMAIN doc : doc[i] # <<>> =>
               \E l \in DOMAIN policyList : Renders(policyList[l], doc[i])
        /\ \A l \in DOMAIN policyList :
               \E i \in DOMAIN doc : Renders(policyList[l], doc[i])

\* What is in force is what the file says: of the elements that are complete,
\* and whose age fits an int, the bounds are in order and the policy has the
\* numbers the author wrote, wherever they stand in the element.
ParsedIsMeant ==
    ready => \A l \in DOMAIN policyList, i \in DOMAIN doc :
        Renders(policyList[l], doc[i]) => \A j \in 1..Len(doc[i]) :
            LET e == doc[i][j] IN
            Complete(e) /\ AgeFits(e) =>
                Valid(e) /\ heap[policyList[l][j]] = Meant(e)

\* As long as no reload comes between a copy and the end of the walk over it,
\* manageFiles follows no pointer to a deleted policy, although the copies
\* outlive the policies in every cycle.
WalksLivePolicies ==
    Walking /\ ~disturbed => \A c \in Pointers(mine) : heap[c] # Free

\* These policies were made of these elements.
MadeOf(policies, elements) ==
    /\ Len(policies) = Len(elements)
    /\ \A j \in 1..Len(elements) : policies[j] \in Outcomes(elements[j])

\* Undisturbed by a reload, a demotion pass has gone by every list of a file
\* that was parsed to its end, and by no other, since findIntersection demotes
\* more with every list that is missing.  A promotion pass, which does not look
\* at ready, may have gone by some of the lists only, but by each in full.
PassesUseWholeLists ==
    [][ /\ EndWalk("demoting", "promotion") /\ ~disturbed =>
               /\ \A i \in DOMAIN doc : doc[i] # <<>> =>
                      \E l \in DOMAIN walked : MadeOf(walked[l], doc[i])
               /\ \A l \in DOMAIN walked :
                      \E i \in DOMAIN doc : MadeOf(walked[l], doc[i])
        /\ EndWalk("promoting", "demotion") /\ ~disturbed =>
               \A l \in DOMAIN walked :
                   \E i \in DOMAIN doc : MadeOf(walked[l], doc[i]) ]_vars

\* The parser takes every element of this file, whatever the stack holds.
Certain(f) == /\ f # <<>>
              /\ \A i \in DOMAIN f : \A j \in DOMAIN f[i] :
                     Outcomes(f[i][j]) \subseteq Policy

\* "You can change the policies at runtime": once policies.xml stays as it is,
\* it is in force again and again, if the parser takes it at all (and as long
\* as no undefined behaviour has ended the process).
EditTakesEffect ==
    \A f \in {g \in PolicyFiles : Certain(g)} :
        <>[](file = f) => []<>(ready /\ doc = f) \/ <>(tpc = "dead")

\* A file of which every element is valid is in force once it is parsed.
ValidIsInForce ==
    /\ tpc = "asleep" /\ doc \in PolicyFiles \ {<<>>}
    /\ \A i \in DOMAIN doc : \A j \in DOMAIN doc[i] : Valid(doc[i][j])
    => ready
==============================================================================
