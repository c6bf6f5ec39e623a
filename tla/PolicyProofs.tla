----------------------------- MODULE PolicyProofs -----------------------------
(***************************************************************************)
(* Theorems about PolicyReload.tla, for any policy files, any amount of    *)
(* memory, any content of the stack and any interleaving of the threads.   *)
(***************************************************************************)
EXTENDS PolicyReload, TLAPS

-----------------------------------------------------------------------------
(***************************************************************************)
(* What parsePolicy makes of an element that is complete, for every        *)
(* element, every width of an int and every content of the stack.          *)
(***************************************************************************)

\* A number that fits is converted as it is.
LEMMA ToIntKeeps ==
    ASSUME NEW n \in Ints
    PROVE  ToInt(n) = n
  <1>1. IntMax \in Nat
    BY ParserAssumption
  <1> DEFINE m == 2 * (IntMax + 1)  x == n + IntMax + 1
  <1>2. m \in Nat \ {0} /\ x \in Nat /\ x < m /\ x - (IntMax + 1) = n
    BY <1>1 DEF Ints
  <1>3. ToInt(n) = (x % m) - (IntMax + 1)
    BY DEF ToInt
  <1> HIDE DEF m, x
  <1>4. x % m = x
    BY <1>2
  <1> QED BY <1>2, <1>3, <1>4

\* Of a tag that occurs once, a local ends up with the number the element says.
LEMMA HeldIsSaid ==
    ASSUME NEW e, Len(e.children) \in Nat, NEW tag, NEW garbage,
           All(e, tag) # {}, \A i, j \in All(e, tag) : i = j
    PROVE  /\ Held(e, tag, Len(e.children), garbage) = Says(e, tag)
           /\ \E i \in 1..Len(e.children) :
                  e.children[i].tag = tag /\ Says(e, tag) = e.children[i].value
  <1> DEFINE n == Len(e.children)
  <1>1. PICK i \in 1..n : e.children[i].tag = tag /\ i \in All(e, tag)
    BY DEF All, Tagged
  <1>2. All(e, tag) = {i} /\ Tagged(e, tag, n) = {i}
    BY <1>1 DEF All
  <1>3. Says(e, tag) = e.children[i].value
    BY <1>2 DEF Says
  <1>4. Max({i}) = i
    BY <1>1 DEF Max
  <1>5. Held(e, tag, n, garbage) = e.children[i].value
    BY <1>2, <1>4 DEF Held
  <1> QED BY <1>1, <1>3, <1>5

\* A policy comes of an element whose children all pass.
LEMMA PolicyGoes ==
    ASSUME NEW e, NEW p \in Outcomes(e), p \in Policy
    PROVE  \E g \in Garbage \X Garbage : p = Made(e, g) /\ Goes(e, Len(e.children), g)
  <1>1. PICK g \in Garbage \X Garbage : p = ParsePolicy(e, g)
    BY DEF Outcomes
  <1>2. p # Null /\ p # Dies
    BY OutcomesAssumption
  <1> QED BY <1>1, <1>2 DEF ParsePolicy

\* The policy that comes of a complete element is the one it describes, and
\* the element was in order.
LEMMA MadeIsMeant ==
    ASSUME NEW e, Len(e.children) \in Nat, Complete(e), AgeFits(e),
           NEW p \in Outcomes(e), p \in Policy
    PROVE  Valid(e) /\ p = Meant(e)
  <1> DEFINE n == Len(e.children)
  <1>1. PICK g \in Garbage \X Garbage : p = Made(e, g) /\ Goes(e, n, g)
    BY PolicyGoes
  <1>2. IntMax \in Nat
    BY ParserAssumption
  <1>3. \A i \in 1..n : e.children[i].tag \in Tags(e.type) => e.children[i].value \in Ints
    BY <1>1 DEF Goes, Unfit
  <1>4. CASE e.type = "sizepolicy"
    <2>1. Tags(e.type) = {"lowerbound", "upperbound"}
      BY <1>4 DEF Tags
    <2>2. PICK i \in 1..n : /\ e.children[i].tag = "lowerbound"
                            /\ Says(e, "lowerbound") = e.children[i].value
                            /\ Held(e, "lowerbound", n, g[1]) = Says(e, "lowerbound")
      <3>1. /\ All(e, "lowerbound") # {}
            /\ \A a, b \in All(e, "lowerbound") : a = b
        BY <1>4, <2>1 DEF Complete
      <3>2. \A garbage : Held(e, "lowerbound", n, garbage) = Says(e, "lowerbound")
        BY <3>1, HeldIsSaid
      <3> QED BY <3>1, <3>2, HeldIsSaid
    <2>3. PICK j \in 1..n : /\ e.children[j].tag = "upperbound"
                            /\ Says(e, "upperbound") = e.children[j].value
                            /\ Held(e, "upperbound", n, g[2]) = Says(e, "upperbound")
      <3>1. /\ All(e, "upperbound") # {}
            /\ \A a, b \in All(e, "upperbound") : a = b
        BY <1>4, <2>1 DEF Complete
      <3>2. \A garbage : Held(e, "upperbound", n, garbage) = Says(e, "upperbound")
        BY <3>1, HeldIsSaid
      <3> QED BY <3>1, <3>2, HeldIsSaid
    <2>4. Says(e, "lowerbound") \in Int /\ Says(e, "upperbound") \in Int
      BY <1>2, <1>3, <2>1, <2>2, <2>3 DEF Ints
    <2>5. ~Disorder(e, n, g)
      BY <1>1, <2>2 DEF Goes
    <2>6. /\ ~(Says(e, "lowerbound") > Says(e, "upperbound"))
          /\ ~(Says(e, "lowerbound") < 0)
      BY <1>4, <2>2, <2>3, <2>5 DEF Disorder
    <2>7. Valid(e)
      BY <1>4, <2>4, <2>6 DEF Valid
    <2>8. p = Meant(e)
      BY <1>1, <1>4, <2>2, <2>3 DEF Made, Meant
    <2> QED BY <2>7, <2>8
  <1>5. CASE e.type = "hitspolicy"
    <2>1. Tags(e.type) = {"minimumhits"}
      BY <1>5 DEF Tags
    <2>2. PICK i \in 1..n : /\ e.children[i].tag = "minimumhits"
                            /\ Says(e, "minimumhits") = e.children[i].value
                            /\ Held(e, "minimumhits", n, g[1]) = Says(e, "minimumhits")
      <3>1. /\ All(e, "minimumhits") # {}
            /\ \A a, b \in All(e, "minimumhits") : a = b
        BY <1>5, <2>1 DEF Complete
      <3>2. \A garbage : Held(e, "minimumhits", n, garbage) = Says(e, "minimumhits")
        BY <3>1, HeldIsSaid
      <3> QED BY <3>1, <3>2, HeldIsSaid
    <2>3. Says(e, "minimumhits") \in Int
      BY <1>2, <1>3, <2>1, <2>2 DEF Ints
    <2>4. ~Disorder(e, n, g)
      BY <1>1, <2>2 DEF Goes
    <2>5. ~(Says(e, "minimumhits") < 0)
      BY <1>5, <2>2, <2>4 DEF Disorder
    <2>6. Valid(e)
      BY <1>5, <2>3, <2>5 DEF Valid
    <2>7. p = Meant(e)
      BY <1>1, <1>5, <2>2 DEF Made, Meant
    <2> QED BY <2>6, <2>7
  <1>6. CASE e.type = "timepolicy"
    <2>1. Tags(e.type) = Units
      BY <1>6 DEF Tags
    <2>2. \A i \in 1..n : e.children[i].tag \in Units => 0 <= e.children[i].value
      <3> SUFFICES ASSUME NEW i \in 1..n, e.children[i].tag \in Units
                   PROVE  0 <= e.children[i].value
        OBVIOUS
      <3>1. ~(e.children[i].value < 0)
        BY <1>1, <1>6 DEF Goes, Disorder
      <3>2. e.children[i].value \in Int
        BY <1>2, <1>3, <2>1 DEF Ints
      <3> QED BY <3>1, <3>2
    <2>3. Valid(e)
      BY <1>6, <2>2 DEF Valid
    <2>4. ToInt(TotalSeconds(e)) = TotalSeconds(e)
      BY <1>6, ToIntKeeps DEF AgeFits
    <2>5. p = Meant(e)
      BY <1>1, <1>6, <2>4 DEF Made, Meant
    <2> QED BY <2>3, <2>5
  <1> QED BY <1>4, <1>5, <1>6 DEF Complete

-----------------------------------------------------------------------------
(***************************************************************************)
(* The invariant.                                                          *)
(***************************************************************************)

\* The first n lists of doc are there, and no others.
Rendered(n) ==
    /\ \A i \in 1..n : doc[i] # <<>> =>
           \E l \in DOMAIN policyList : Renders(policyList[l], doc[i])
    /\ \A l \in DOMAIN policyList : \E i \in 1..n : Renders(policyList[l], doc[i])

\* What is there of the list under construction.
Begun ==
    /\ Len(newList) > 0 => at <= Len(doc) /\ Len(newList) <= Len(doc[at])
    /\ \A j \in 1..Len(newList) : /\ heap[newList[j]] # Free
                                  /\ heap[newList[j]] \in Outcomes(doc[at][j])

\* Where the policy thread is tells what the lists hold.
Threads ==
    /\ tpc = "erase" => at <= Len(policyList) /\ policyList[at] # <<>>
    /\ tpc = "open" => policyList = <<>>
    /\ tpc \notin {"parse", "dead"} => newList = <<>>
    /\ tpc = "parse" => doc # Broken /\ at <= Len(doc) + 1 /\ Rendered(at - 1) /\ Begun
    /\ ready => tpc \in {"asleep", "dead"} /\ doc # Broken /\ Rendered(Len(doc))

IInv == TypeOK /\ Threads

\* A document is a sequence of sequences.
LEMMA DocType ==
    ASSUME TypeOK, doc # Broken
    PROVE  /\ doc \in PolicyFiles
           /\ doc \in Seq(Seq(Pointers(doc)))
           /\ Len(doc) \in Nat
           /\ DOMAIN doc = 1..Len(doc)
           /\ \A i \in 1..Len(doc) : doc[i] \in Seq(Pointers(doc)) /\ Len(doc[i]) \in Nat
  <1>1. doc \in PolicyFiles
    BY DEF TypeOK
  <1>2. doc \in Seq(Seq(Pointers(doc)))
    BY <1>1, FilesAssumption
  <1> DEFINE S == Pointers(doc)
  <1>3. doc \in Seq(Seq(S))
    BY <1>2
  <1> HIDE DEF S
  <1>4. Len(doc) \in Nat /\ DOMAIN doc = 1..Len(doc)
    BY <1>3
  <1>5. \A i \in 1..Len(doc) : doc[i] \in Seq(S)
    BY <1>3
  <1>6. \A i \in 1..Len(doc) : Len(doc[i]) \in Nat
    BY <1>5
  <1> QED BY <1>1, <1>2, <1>4, <1>5, <1>6 DEF S

\* Initially nothing is there.
LEMMA InitIInv == Init => IInv
  <1> SUFFICES ASSUME Init PROVE IInv
    OBVIOUS
  <1>1. heap \in [Cells -> Policy \cup {Free}]
    BY DEF Init
  <1>2. \A S : <<>> \in Seq(S)
    OBVIOUS
  <1>3. /\ policyList \in Seq(Seq(Cells)) /\ mine \in Seq(Seq(Cells))
        /\ newList \in Seq(Cells)
        /\ reading \in Seq(Policy \cup {Free})
        /\ walked \in Seq(Seq(Policy \cup {Free}))
    BY <1>2 DEF Init
  <1>4. /\ file \in PolicyFiles \cup {Broken} /\ doc \in PolicyFiles \cup {Broken}
        /\ ready \in BOOLEAN /\ parseError \in BOOLEAN /\ disturbed \in BOOLEAN
    BY DEF Init
  <1>5. at \in Nat \ {0}
    BY DEF Init
  <1>6. /\ tpc \in {"asleep", "clear", "erase", "open", "parse", "dead"}
        /\ mpc \in {"demotion", "test", "demoting", "promotion", "promoting", "dead"}
    BY DEF Init
  <1>7. TypeOK
    BY <1>1, <1>3, <1>4, <1>5, <1>6 DEF TypeOK
  <1> QED BY <1>7 DEF Init, IInv, Threads

\* A list stays rendered as long as no cell in use changes.
LEMMA RendersKept ==
    ASSUME NEW cells, NEW elements, Renders(cells, elements),
           \A c \in Cells : heap[c] # Free => heap'[c] = heap[c],
           \A j \in 1..Len(elements) : cells[j] \in Cells
    PROVE  /\ Len(cells) = Len(elements)
           /\ \A j \in 1..Len(elements) :
                  heap'[cells[j]] # Free /\ heap'[cells[j]] \in Outcomes(elements[j])
  BY DEF Renders

\* So do the lists that are there already.
LEMMA RenderedKept ==
    ASSUME TypeOK, NEW n \in Nat, doc # Broken, n <= Len(doc),
           Rendered(n), policyList' = policyList, doc' = doc,
           \A c \in Cells : heap[c] # Free => heap'[c] = heap[c]
    PROVE  Rendered(n)'
  <1>1. \A l \in DOMAIN policyList : policyList[l] \in Seq(Cells)
    BY DEF TypeOK
  <1>2. \A l \in DOMAIN policyList, i \in 1..n :
            Renders(policyList[l], doc[i]) => Renders(policyList[l], doc[i])'
    <2> SUFFICES ASSUME NEW l \in DOMAIN policyList, NEW i \in 1..n,
                        Renders(policyList[l], doc[i])
                 PROVE  Renders(policyList[l], doc[i])'
      OBVIOUS
    <2>1. Len(policyList[l]) = Len(doc[i])
      BY DEF Renders
    <2>2. \A j \in 1..Len(doc[i]) : policyList[l][j] \in Cells
      BY <1>1, <2>1
    <2>3. /\ Len(policyList[l]) = Len(doc[i])
          /\ \A j \in 1..Len(doc[i]) : /\ heap'[policyList[l][j]] # Free
                                       /\ heap'[policyList[l][j]] \in Outcomes(doc[i][j])
      BY <2>2, RendersKept
    <2> QED BY <2>3 DEF Renders
  <1> QED BY <1>2 DEF Rendered

-----------------------------------------------------------------------------
(***************************************************************************)
(* The policy thread keeps it.                                             *)
(***************************************************************************)

\* What a step of the policy thread leaves alone.
LEMMA PolicyFrame ==
    ASSUME TypeOK, NEW from, NEW next, PolicyStep(from, next)
    PROVE  /\ tpc = from /\ tpc' = next
           /\ UNCHANGED <<file, mine, reading, walked, mpc>>
           /\ disturbed' \in BOOLEAN
           /\ file' \in PolicyFiles \cup {Broken}
           /\ mine' \in Seq(Seq(Cells))
           /\ reading' \in Seq(Policy \cup {Free})
           /\ walked' \in Seq(Seq(Policy \cup {Free}))
           /\ mpc' \in {"demotion", "test", "demoting", "promotion", "promoting", "dead"}
  <1>1. /\ tpc = from /\ tpc' = next
        /\ UNCHANGED <<file, mine, reading, walked, mpc>>
        /\ disturbed' = (disturbed \/ Walking)
    BY DEF PolicyStep, migratorVars
  <1>2. disturbed' \in BOOLEAN
    BY <1>1 DEF TypeOK, Walking
  <1> QED BY <1>1, <1>2 DEF TypeOK

\* What it has to show for the type invariant.
LEMMA PolicyType ==
    ASSUME TypeOK, NEW from, NEW next, PolicyStep(from, next),
           next \in {"asleep", "clear", "erase", "open", "parse", "dead"},
           doc' \in PolicyFiles \cup {Broken},
           ready' \in BOOLEAN, parseError' \in BOOLEAN,
           policyList' \in Seq(Seq(Cells)), newList' \in Seq(Cells),
           heap' \in [Cells -> Policy \cup {Free}], at' \in Nat \ {0}
    PROVE  TypeOK'
  <1>1. tpc' \in {"asleep", "clear", "erase", "open", "parse", "dead"}
    BY PolicyFrame
  <1>2. /\ disturbed' \in BOOLEAN
        /\ file' \in PolicyFiles \cup {Broken}
        /\ mine' \in Seq(Seq(Cells))
        /\ reading' \in Seq(Policy \cup {Free})
        /\ walked' \in Seq(Seq(Policy \cup {Free}))
        /\ mpc' \in {"demotion", "test", "demoting", "promotion", "promoting", "dead"}
    BY PolicyFrame
  <1> QED BY <1>1, <1>2 DEF TypeOK

\* The types of what the threads share.
LEMMA SharedType ==
    ASSUME TypeOK
    PROVE  /\ doc \in PolicyFiles \cup {Broken}
           /\ ready \in BOOLEAN /\ parseError \in BOOLEAN
           /\ policyList \in Seq(Seq(Cells)) /\ newList \in Seq(Cells)
           /\ heap \in [Cells -> Policy \cup {Free}]
           /\ at \in Nat \ {0}
  BY DEF TypeOK

\* The steps that clear the lists.
LEMMA ClearKeeps ==
    ASSUME IInv, Wake \/ DeletePolicy \/ ErasePolicy \/ NextOuter \/ ClearLists
    PROVE  IInv'
  <1> USE DEF IInv, memory
  <1>1. CASE Wake
    <2>1. /\ PolicyStep("asleep", "clear") /\ ready' = FALSE /\ at' = 1
          /\ UNCHANGED <<policyList, heap, parseError, doc, newList>>
      BY <1>1 DEF Wake
    <2>2. ready' \in BOOLEAN /\ parseError' \in BOOLEAN
      BY <2>1, SharedType
    <2>3. TypeOK'
      BY <2>1, <2>2, PolicyType, SharedType
    <2> QED BY <2>1, <2>3, PolicyFrame DEF Threads
  <1>2. CASE DeletePolicy
    <2>1. /\ PolicyStep("clear", "erase")
          /\ at <= Len(policyList) /\ policyList[at] # <<>>
          /\ heap' = [heap EXCEPT ![Head(policyList[at])] = Free]
          /\ UNCHANGED <<ready, policyList, parseError, doc, newList, at>>
      BY <1>2 DEF DeletePolicy
    <2>2. heap' \in [Cells -> Policy \cup {Free}]
      BY <2>1 DEF TypeOK
    <2>3. TypeOK'
      BY <2>1, <2>2, PolicyType, SharedType
    <2> QED BY <2>1, <2>3, PolicyFrame DEF Threads
  <1>3. CASE ErasePolicy
    <2>1. /\ PolicyStep("erase", "clear")
          /\ policyList' = [policyList EXCEPT ![at] = Tail(@)]
          /\ UNCHANGED <<ready, heap, parseError, doc, newList, at>>
      BY <1>3 DEF ErasePolicy
    <2>2. at \in 1..Len(policyList) /\ policyList[at] # <<>>
      BY <2>1, PolicyFrame DEF Threads, TypeOK
    <2>3. policyList[at] \in Seq(Cells)
      BY <2>2 DEF TypeOK
    <2>4. Tail(policyList[at]) \in Seq(Cells)
      BY <2>2, <2>3
    <2>5. policyList' \in Seq(Seq(Cells))
      <3> DEFINE S == Seq(Cells)  t == Tail(policyList[at])
      <3>1. policyList \in Seq(S) /\ t \in S /\ at \in 1..Len(policyList)
            /\ policyList' = [policyList EXCEPT ![at] = t]
        BY <2>1, <2>2, <2>4 DEF TypeOK
      <3> HIDE DEF S, t
      <3>2. policyList' \in Seq(S)
        BY <3>1
      <3> QED BY <3>2 DEF S
    <2>6. TypeOK'
      BY <2>1, <2>5, PolicyType, SharedType
    <2> QED BY <2>1, <2>6, PolicyFrame DEF Threads
  <1>4. CASE NextOuter
    <2>1. /\ PolicyStep("clear", "clear") /\ at' = at + 1
          /\ UNCHANGED <<ready, policyList, heap, parseError, doc, newList>>
      BY <1>4 DEF NextOuter
    <2>2. at' \in Nat \ {0}
      BY <2>1 DEF TypeOK
    <2>3. TypeOK'
      BY <2>1, <2>2, PolicyType, SharedType
    <2> QED BY <2>1, <2>3, PolicyFrame DEF Threads
  <1>5. CASE ClearLists
    <2>1. /\ PolicyStep("clear", "open") /\ policyList' = <<>>
          /\ UNCHANGED <<ready, heap, parseError, doc, newList, at>>
      BY <1>5 DEF ClearLists
    <2>2. policyList' \in Seq(Seq(Cells))
      BY <2>1
    <2>3. TypeOK'
      BY <2>1, <2>2, PolicyType, SharedType
    <2> QED BY <2>1, <2>3, PolicyFrame DEF Threads
  <1> QED BY <1>1, <1>2, <1>3, <1>4, <1>5

\* OpenFile starts a document, with nothing of it there.
LEMMA OpenKeeps ==
    ASSUME IInv, OpenFile
    PROVE  IInv'
  <1> USE DEF IInv, memory
  <1>0. /\ doc' = file /\ parseError' = FALSE
        /\ UNCHANGED <<ready, policyList, heap, newList>>
        /\ tpc = "open"
    BY DEF OpenFile, PolicyStep
  <1>1. doc' \in PolicyFiles \cup {Broken} /\ parseError' \in BOOLEAN
    BY <1>0 DEF TypeOK
  <1>2. policyList = <<>> /\ newList = <<>> /\ ready = FALSE
    BY <1>0 DEF Threads, TypeOK
  <1>3. CASE file # Broken /\ file # <<>>
    <2>1. PolicyStep("open", "parse") /\ at' = 1
      BY <1>3 DEF OpenFile
    <2>2. TypeOK'
      BY <1>0, <1>1, <2>1, PolicyType, SharedType
    <2>3. Len(doc') \in Nat /\ doc' # Broken
      BY <1>0, <1>3, <2>2, DocType
    <2>4. Rendered(at - 1)' /\ Begun'
      BY <1>0, <1>2, <2>1 DEF Rendered, Begun
    <2>5. ready' = FALSE /\ tpc' = "parse"
      BY <1>0, <1>2, <2>1 DEF PolicyStep
    <2>6. at' <= Len(doc') + 1
      BY <2>1, <2>3
    <2> QED BY <2>2, <2>3, <2>4, <2>5, <2>6 DEF Threads
  <1>4. CASE ~(file # Broken /\ file # <<>>)
    <2>1. PolicyStep("open", "asleep") /\ at' = at
      BY <1>4 DEF OpenFile
    <2>2. TypeOK'
      BY <1>0, <1>1, <2>1, PolicyType, SharedType
    <2> QED BY <1>0, <1>2, <2>1, <2>2, PolicyFrame DEF Threads
  <1> QED BY <1>3, <1>4

\* While it parses.
LEMMA ParsingType ==
    ASSUME IInv, Parsing
    PROVE  /\ doc # Broken /\ at \in 1..Len(doc) /\ at - 1 \in Nat
           /\ Len(doc) \in Nat /\ Len(doc[at]) \in Nat
           /\ newList \in Seq(Cells) /\ Len(newList) \in Nat
           /\ Rendered(at - 1) /\ Begun /\ ready = FALSE
  <1>1. tpc = "parse" /\ at <= Len(doc) /\ at \in Nat \ {0}
    BY DEF Parsing, IInv, TypeOK
  <1>2. doc # Broken /\ Rendered(at - 1) /\ Begun
    BY <1>1 DEF IInv, Threads
  <1>3. /\ Len(doc) \in Nat
        /\ \A i \in 1..Len(doc) : Len(doc[i]) \in Nat
    BY <1>2, DocType DEF IInv
  <1>4. newList \in Seq(Cells) /\ Len(newList) \in Nat
    BY DEF IInv, TypeOK
  <1>5. ready = FALSE
    BY <1>1 DEF IInv, Threads, TypeOK
  <1> QED BY <1>1, <1>2, <1>3, <1>4, <1>5

\* AddPolicy takes a free cell: what is there stays, and there is one more.
LEMMA AddKeeps ==
    ASSUME IInv, AddPolicy
    PROVE  IInv'
  <1>1. /\ MoreElements /\ PolicyStep("parse", "parse")
        /\ UNCHANGED <<ready, policyList, parseError, doc, at>>
    BY DEF AddPolicy
  <1>2. PICK p \in Outcomes(Element) \cap Policy, c \in Cells :
            /\ heap[c] = Free
            /\ heap' = [heap EXCEPT ![c] = p]
            /\ newList' = Append(newList, c)
    BY DEF AddPolicy
  <1>3. Parsing /\ Len(newList) < Len(doc[at])
    BY <1>1 DEF MoreElements
  <1>4. /\ doc # Broken /\ at \in 1..Len(doc) /\ at - 1 \in Nat
        /\ Len(doc) \in Nat /\ Len(doc[at]) \in Nat
        /\ newList \in Seq(Cells) /\ Len(newList) \in Nat
        /\ Rendered(at - 1) /\ Begun /\ ready = FALSE
    BY <1>3, ParsingType
  <1>5. heap \in [Cells -> Policy \cup {Free}]
    BY DEF IInv, TypeOK
  <1>6. heap' \in [Cells -> Policy \cup {Free}] /\ newList' \in Seq(Cells)
    BY <1>2, <1>4, <1>5
  <1>7. TypeOK'
    BY <1>1, <1>6, PolicyType, SharedType DEF IInv
  <1>8. \A d \in Cells : heap[d] # Free => heap'[d] = heap[d]
    BY <1>2, <1>5
  <1>9. Rendered(at - 1)'
    <2>1. at - 1 <= Len(doc)
      BY <1>4
    <2> DEFINE n == at - 1
    <2>2. Rendered(n) /\ n \in Nat /\ n <= Len(doc) /\ n' = n
      BY <1>1, <1>4, <2>1
    <2> HIDE DEF n
    <2>3. Rendered(n)'
      BY <1>1, <1>4, <1>8, <2>2, RenderedKept DEF IInv
    <2> QED BY <1>1, <2>2, <2>3 DEF Rendered, n
  <1>10. Begun'
    <2>1. /\ Len(newList') = Len(newList) + 1
          /\ newList'[Len(newList) + 1] = c
          /\ \A j \in 1..Len(newList) : newList'[j] = newList[j] /\ newList[j] \in Cells
      BY <1>2, <1>4
    <2>2. heap'[c] = p /\ p \in Outcomes(doc[at][Len(newList) + 1]) /\ p # Free
      BY <1>2, <1>5, MemoryAssumption DEF Element
    <2>3. \A j \in 1..Len(newList) :
              heap'[newList[j]] # Free /\ heap'[newList[j]] \in Outcomes(doc[at][j])
      BY <1>4, <1>8, <2>1 DEF Begun
    <2>4. \A j \in 1..Len(newList') : /\ heap'[newList'[j]] # Free
                                      /\ heap'[newList'[j]] \in Outcomes(doc[at][j])
      BY <1>4, <2>1, <2>2, <2>3
    <2> QED BY <1>1, <1>3, <1>4, <2>1, <2>4 DEF Begun
  <1> QED
    BY <1>1, <1>4, <1>7, <1>9, <1>10, PolicyFrame DEF IInv, Threads

\* A failure leaves the lists before it, and ready FALSE.
LEMMA RejectKeeps ==
    ASSUME IInv, RejectPolicy
    PROVE  IInv'
  <1>1. /\ PolicyStep("parse", "asleep") /\ parseError' = TRUE
        /\ heap' = Leaked /\ newList' = <<>> /\ ready' = FALSE
        /\ UNCHANGED <<policyList, doc, at>>
    BY DEF RejectPolicy
  <1>2. heap' \in [Cells -> Policy \cup {Free}]
    BY <1>1 DEF Leaked, IInv, TypeOK
  <1>3. newList' \in Seq(Cells)
    BY <1>1
  <1>4. ready' \in BOOLEAN /\ parseError' \in BOOLEAN
    BY <1>1
  <1>5. TypeOK'
    BY <1>1, <1>2, <1>3, <1>4, PolicyType, SharedType DEF IInv
  <1> QED BY <1>1, <1>5, PolicyFrame DEF IInv, Threads

\* The end of a list: what was begun is rendered.
LEMMA PushKeeps ==
    ASSUME IInv, PushList
    PROVE  IInv'
  <1>1. /\ Parsing /\ Len(newList) = Len(doc[at])
        /\ PolicyStep("parse", IF parseError THEN "asleep" ELSE "parse")
        /\ policyList' = IF newList = <<>> THEN policyList
                                           ELSE Append(policyList, newList)
        /\ newList' = <<>> /\ at' = at + 1
        /\ UNCHANGED <<ready, heap, parseError, doc>>
    BY DEF PushList
  <1>2. /\ doc # Broken /\ at \in 1..Len(doc) /\ at - 1 \in Nat
        /\ Len(doc) \in Nat /\ Len(doc[at]) \in Nat
        /\ newList \in Seq(Cells) /\ Len(newList) \in Nat
        /\ Rendered(at - 1) /\ Begun /\ ready = FALSE
    BY <1>1, ParsingType
  <1>3. policyList \in Seq(Seq(Cells)) /\ policyList' \in Seq(Seq(Cells))
    <2> DEFINE S == Seq(Cells)
    <2>1. policyList \in Seq(S) /\ newList \in S
      BY <1>2 DEF IInv, TypeOK
    <2> HIDE DEF S
    <2>2. policyList' \in Seq(S)
      BY <1>1, <2>1
    <2> QED BY <2>1, <2>2 DEF S
  <1>4. newList' \in Seq(Cells) /\ at' \in Nat \ {0}
    BY <1>1, <1>2
  <1>5. TypeOK'
    BY <1>1, <1>3, <1>4, PolicyType, SharedType DEF IInv
  <1>6. Renders(newList, doc[at])
    BY <1>1, <1>2 DEF Begun, Renders
  <1>7. \A cells, elements : Renders(cells, elements) => Renders(cells, elements)'
    BY <1>1 DEF Renders
  <1>0. at \in Int /\ 1..(at - 1) \subseteq 1..at /\ at \in 1..at
        /\ \A i \in 1..at : i = at \/ i \in 1..(at - 1)
    BY <1>2
  <1>8. /\ \A i \in 1..(at - 1) : doc[i] # <<>> =>
               \E l \in DOMAIN policyList : Renders(policyList[l], doc[i])
        /\ \A l \in DOMAIN policyList : \E i \in 1..(at - 1) : Renders(policyList[l], doc[i])
    BY <1>2 DEF Rendered
  <1>9. /\ \A i \in 1..at : doc[i] # <<>> =>
               \E l \in DOMAIN policyList' : Renders(policyList'[l], doc[i])
        /\ \A l \in DOMAIN policyList' : \E i \in 1..at : Renders(policyList'[l], doc[i])
    <2>1. CASE newList = <<>>
      <3>1. policyList' = policyList /\ doc[at] = <<>>
        <4> DEFINE S == Pointers(doc)
        <4>1. doc[at] \in Seq(S)
          BY <1>2, DocType DEF IInv
        <4>2. Len(doc[at]) = 0
          BY <1>1, <2>1
        <4> HIDE DEF S
        <4>3. doc[at] = <<>>
          BY <4>1, <4>2
        <4> QED BY <1>1, <2>1, <4>3
      <3> QED BY <1>0, <1>8, <3>1
    <2>2. CASE newList # <<>>
      <3>1. /\ policyList' = Append(policyList, newList)
            /\ DOMAIN policyList = 1..Len(policyList) /\ Len(policyList) \in Nat
            /\ DOMAIN policyList' = 1..(Len(policyList) + 1)
            /\ policyList'[Len(policyList) + 1] = newList
            /\ \A l \in 1..Len(policyList) : policyList'[l] = policyList[l]
        BY <1>1, <1>3, <2>2
      <3>2. \A i \in 1..at : doc[i] # <<>> =>
                \E l \in DOMAIN policyList' : Renders(policyList'[l], doc[i])
        <4> SUFFICES ASSUME NEW i \in 1..at, doc[i] # <<>>
                     PROVE  \E l \in DOMAIN policyList' : Renders(policyList'[l], doc[i])
          OBVIOUS
        <4>1. CASE i = at
          BY <1>6, <3>1, <4>1
        <4>2. CASE i \in 1..(at - 1)
          <5>1. PICK l \in DOMAIN policyList : Renders(policyList[l], doc[i])
            BY <1>8, <4>2
          <5>2. l \in DOMAIN policyList' /\ policyList'[l] = policyList[l]
            BY <3>1
          <5> QED BY <5>1, <5>2
        <4> QED BY <1>0, <4>1, <4>2
      <3>3. \A l \in DOMAIN policyList' : \E i \in 1..at : Renders(policyList'[l], doc[i])
        <4> SUFFICES ASSUME NEW l \in DOMAIN policyList'
                     PROVE  \E i \in 1..at : Renders(policyList'[l], doc[i])
          OBVIOUS
        <4>1. CASE l = Len(policyList) + 1
          BY <1>0, <1>6, <3>1, <4>1
        <4>2. CASE l # Len(policyList) + 1
          <5>1. l \in DOMAIN policyList /\ policyList'[l] = policyList[l]
            BY <3>1, <4>2
          <5>2. PICK i \in 1..(at - 1) : Renders(policyList[l], doc[i])
            BY <1>8, <5>1
          <5> QED BY <1>0, <5>1, <5>2
        <4> QED BY <4>1, <4>2
      <3> QED BY <3>2, <3>3
    <2> QED BY <2>1, <2>2
  <1>10. Begun' /\ Rendered(at - 1)'
    <2>1. at' - 1 = at /\ doc' = doc /\ newList' = <<>>
      BY <1>1, <1>2
    <2>2. Rendered(at - 1)'
      BY <1>7, <1>9, <2>1 DEF Rendered
    <2> QED BY <2>1, <2>2 DEF Begun
  <1>11. tpc' \in {"asleep", "parse"}
    BY <1>1 DEF PolicyStep
  <1>12. ready' = FALSE /\ doc' # Broken /\ newList' = <<>>
    BY <1>1, <1>2
  <1>13. at' <= Len(doc') + 1
    BY <1>1, <1>2
  <1> QED BY <1>5, <1>10, <1>11, <1>12, <1>13 DEF IInv, Threads

\* Publish: the last list has been rendered.
LEMMA PublishKeeps ==
    ASSUME IInv, Publish
    PROVE  IInv'
  <1>1. /\ tpc = "parse" /\ at > Len(doc) /\ PolicyStep("parse", "asleep")
        /\ ready' = TRUE
        /\ UNCHANGED <<policyList, heap, parseError, doc, newList, at>>
    BY DEF Publish, memory
  <1>2. /\ doc # Broken /\ at <= Len(doc) + 1 /\ Rendered(at - 1) /\ Begun
        /\ at \in Nat \ {0} /\ newList \in Seq(Cells)
    BY <1>1 DEF IInv, Threads, TypeOK
  <1>3. Len(doc) \in Nat
    BY <1>2, DocType DEF IInv
  <1>4. at - 1 = Len(doc)
    BY <1>1, <1>2, <1>3
  <1>5. newList = <<>>
    <2>1. Len(newList) \in Nat /\ ~(Len(newList) > 0)
      BY <1>1, <1>2, <1>3 DEF Begun
    <2> QED BY <1>2, <2>1
  <1>6. ready' \in BOOLEAN /\ parseError' \in BOOLEAN
    BY <1>1 DEF IInv, TypeOK
  <1>7. TypeOK'
    BY <1>1, <1>6, PolicyType, SharedType DEF IInv
  <1>8. Rendered(Len(doc))'
    <2>1. Rendered(Len(doc))
      BY <1>2, <1>4
    <2>2. \A cells, elements : Renders(cells, elements) => Renders(cells, elements)'
      BY <1>1 DEF Renders
    <2> QED BY <1>1, <2>1, <2>2 DEF Rendered
  <1> QED BY <1>1, <1>2, <1>5, <1>7, <1>8, PolicyFrame DEF IInv, Threads

\* Neither manageFiles nor an edit touches what the policy thread has built;
\* the end of the process leaves it as it is.
LEMMA OthersKeepThreads ==
    ASSUME IInv, UNCHANGED policyVars, tpc' = tpc \/ tpc' = "dead"
    PROVE  Threads'
  <1>1. UNCHANGED <<ready, policyList, heap, parseError, doc, newList, at>>
    BY DEF policyVars, memory
  <1>2. \A cells, elements : Renders(cells, elements) => Renders(cells, elements)'
    BY <1>1 DEF Renders
  <1>3. \A n : Rendered(n) => Rendered(n)'
    BY <1>1, <1>2 DEF Rendered
  <1>4. Rendered(at - 1) => Rendered(at - 1)'
    BY <1>1, <1>3 DEF Rendered
  <1>5. Rendered(Len(doc)) => Rendered(Len(doc))'
    BY <1>1, <1>3 DEF Rendered
  <1>6. Begun => Begun'
    BY <1>1 DEF Begun
  <1> QED BY <1>1, <1>4, <1>5, <1>6 DEF IInv, Threads

\* The end of the process changes no type.
LEMMA EndKeepsType ==
    ASSUME TypeOK, tpc' = "dead", mpc' = "dead",
           UNCHANGED <<file, policyVars, migratorVars, disturbed>>
    PROVE  TypeOK'
  <1>1. /\ UNCHANGED <<file, ready, policyList, heap, parseError, doc, newList, at>>
        /\ UNCHANGED <<mine, reading, walked, disturbed>>
    BY DEF policyVars, memory, migratorVars
  <1> QED BY <1>1 DEF TypeOK

\* ParserDies ends the process.
LEMMA DiesKeeps ==
    ASSUME IInv, ParserDies
    PROVE  IInv'
  <1>1. /\ tpc' = "dead" /\ mpc' = "dead"
        /\ UNCHANGED <<file, policyVars, migratorVars, disturbed>>
    BY DEF ParserDies
  <1>2. TypeOK'
    BY <1>1, EndKeepsType DEF IInv
  <1> QED BY <1>1, <1>2, OthersKeepThreads DEF IInv

\* All steps of the policy thread.
LEMMA PolicyThreadKeeps ==
    ASSUME IInv, PolicyThread
    PROVE  IInv'
  BY ClearKeeps, OpenKeeps, AddKeeps, RejectKeeps, DiesKeeps, PushKeeps, PublishKeeps
     DEF PolicyThread

-----------------------------------------------------------------------------
(***************************************************************************)
(* manageFiles and the editor keep it.                                     *)
(***************************************************************************)

\* What a step of manageFiles leaves alone, and what it has to show.
LEMMA MigratorKeeps ==
    ASSUME IInv, NEW from, NEW next, MigratorStep(from, next),
           next \in {"demotion", "test", "demoting", "promotion", "promoting", "dead"},
           mine' \in Seq(Seq(Cells)), disturbed' \in BOOLEAN,
           reading' \in Seq(Policy \cup {Free}),
           walked' \in Seq(Seq(Policy \cup {Free}))
    PROVE  IInv'
  <1>1. mpc' = next /\ UNCHANGED <<file, policyVars, tpc>>
    BY DEF MigratorStep
  <1>2. UNCHANGED <<ready, policyList, heap, parseError, doc, newList, at>>
    BY <1>1 DEF policyVars, memory
  <1>3. /\ file' \in PolicyFiles \cup {Broken} /\ doc' \in PolicyFiles \cup {Broken}
        /\ policyList' \in Seq(Seq(Cells)) /\ newList' \in Seq(Cells)
        /\ heap' \in [Cells -> Policy \cup {Free}] /\ at' \in Nat \ {0}
        /\ tpc' \in {"asleep", "clear", "erase", "open", "parse", "dead"}
    BY <1>1, <1>2 DEF IInv, TypeOK
  <1>4. ready' \in BOOLEAN /\ parseError' \in BOOLEAN
    BY <1>2 DEF IInv, TypeOK
  <1>5. mpc' \in {"demotion", "test", "demoting", "promotion", "promoting", "dead"}
    BY <1>1
  <1>6. TypeOK'
    BY <1>3, <1>4, <1>5 DEF TypeOK
  <1> QED BY <1>1, <1>6, OthersKeepThreads DEF IInv

\* The types of what manageFiles keeps.
LEMMA MineType ==
    ASSUME IInv
    PROVE  /\ policyList \in Seq(Seq(Cells)) /\ mine \in Seq(Seq(Cells))
           /\ heap \in [Cells -> Policy \cup {Free}]
           /\ reading \in Seq(Policy \cup {Free})
           /\ walked \in Seq(Seq(Policy \cup {Free}))
           /\ disturbed \in BOOLEAN
  BY DEF IInv, TypeOK

\* A read follows a pointer to a cell.
LEMMA ReadKeeps ==
    ASSUME IInv, NEW pass \in {"demoting", "promoting"}, ReadPolicy(pass)
    PROVE  IInv'
  <1>1. /\ MigratorStep(pass, pass) /\ mine # <<>> /\ Head(mine) # <<>>
        /\ reading' = Append(reading, heap[Head(Head(mine))])
        /\ mine' = <<Tail(Head(mine))>> \o Tail(mine)
        /\ UNCHANGED <<walked, disturbed>>
    BY DEF ReadPolicy
  <1> DEFINE S == Seq(Cells)
  <1>2. mine \in Seq(S)
    BY MineType
  <1>3. Head(mine) \in Seq(Cells)
    <2> HIDE DEF S
    <2>1. Head(mine) \in S
      BY <1>1, <1>2
    <2> QED BY <2>1 DEF S
  <1>4. Head(Head(mine)) \in Cells /\ Tail(Head(mine)) \in S
    BY <1>1, <1>3
  <1>5. reading' \in Seq(Policy \cup {Free})
    <2>1. heap[Head(Head(mine))] \in Policy \cup {Free}
      BY <1>4, MineType
    <2> QED BY <1>1, <2>1, MineType
  <1>6. mine' \in Seq(S)
    <2> HIDE DEF S
    <2>1. Tail(mine) \in Seq(S)
      BY <1>1, <1>2
    <2>2. <<Tail(Head(mine))>> \in Seq(S)
      BY <1>4
    <2> QED BY <1>1, <2>1, <2>2
  <1>7. disturbed' \in BOOLEAN
    BY <1>1, MineType
  <1>8. walked' \in Seq(Seq(Policy \cup {Free}))
    BY <1>1, MineType
  <1> QED BY <1>1, <1>5, <1>6, <1>7, <1>8, MigratorKeeps

\* The end of a list.
LEMMA NextListKeeps ==
    ASSUME IInv, NEW pass \in {"demoting", "promoting"}, NextList(pass)
    PROVE  IInv'
  <1>1. /\ MigratorStep(pass, pass) /\ mine # <<>>
        /\ walked' = IF reading = <<>> THEN walked ELSE Append(walked, reading)
        /\ reading' = <<>> /\ mine' = Tail(mine)
        /\ UNCHANGED disturbed
    BY DEF NextList
  <1>2. mine' \in Seq(Seq(Cells))
    <2> DEFINE S == Seq(Cells)
    <2>1. mine \in Seq(S)
      BY MineType
    <2> HIDE DEF S
    <2>2. mine' \in Seq(S)
      BY <1>1, <2>1
    <2> QED BY <2>2 DEF S
  <1>3. walked' \in Seq(Seq(Policy \cup {Free}))
    <2> DEFINE S == Seq(Policy \cup {Free})
    <2>1. walked \in Seq(S) /\ reading \in S
      BY MineType
    <2> HIDE DEF S
    <2>2. walked' \in Seq(S)
      BY <1>1, <2>1
    <2> QED BY <2>2 DEF S
  <1>4. reading' \in Seq(Policy \cup {Free})
    BY <1>1
  <1>5. disturbed' \in BOOLEAN
    BY <1>1, MineType
  <1> QED BY <1>1, <1>2, <1>3, <1>4, <1>5, MigratorKeeps

\* The copies, the test, and the end of a pass.
LEMMA PassKeeps ==
    ASSUME IInv, \/ CopyForDemotion \/ CopyForPromotion \/ Test
                 \/ EndWalk("demoting", "promotion") \/ EndWalk("promoting", "demotion")
    PROVE  IInv'
  <1>1. \A S : <<>> \in Seq(S)
    OBVIOUS
  <1>2. ASSUME NEW from, NEW next \in {"test", "promoting"}, Copy(from, next)
        PROVE  IInv'
    <2>1. /\ MigratorStep(from, next) /\ mine' = policyList
          /\ UNCHANGED <<reading, walked>>
      BY <1>2 DEF Copy
    <2>2. disturbed' \in BOOLEAN
      BY <1>2 DEF Copy
    <2>3. /\ mine' \in Seq(Seq(Cells))
          /\ reading' \in Seq(Policy \cup {Free})
          /\ walked' \in Seq(Seq(Policy \cup {Free}))
      BY <2>1, MineType
    <2> QED BY <2>1, <2>2, <2>3, MigratorKeeps
  <1>3. CASE Test
    <2>1. PICK next \in {"demoting", "demotion"} : MigratorStep("test", next)
      BY <1>3 DEF Test
    <2>2. (mine' = mine \/ mine' = <<>>) /\ UNCHANGED <<reading, walked, disturbed>>
      BY <1>3 DEF Test
    <2>3. mine' \in Seq(Seq(Cells))
      BY <1>1, <2>2, MineType
    <2>4. disturbed' \in BOOLEAN
      BY <2>2, MineType
    <2>5. /\ reading' \in Seq(Policy \cup {Free})
          /\ walked' \in Seq(Seq(Policy \cup {Free}))
      BY <2>2, MineType
    <2> QED BY <2>1, <2>3, <2>4, <2>5, MigratorKeeps
  <1>4. ASSUME NEW pass, NEW next \in {"promotion", "demotion"}, EndWalk(pass, next)
        PROVE  IInv'
    <2>1. /\ MigratorStep(pass, next) /\ walked' = <<>>
          /\ UNCHANGED <<mine, reading, disturbed>>
      BY <1>4 DEF EndWalk
    <2>2. walked' \in Seq(Seq(Policy \cup {Free}))
      BY <1>1, <2>1
    <2>3. disturbed' \in BOOLEAN
      BY <2>1, MineType
    <2>4. mine' \in Seq(Seq(Cells)) /\ reading' \in Seq(Policy \cup {Free})
      BY <2>1, MineType
    <2> QED BY <2>1, <2>2, <2>3, <2>4, MigratorKeeps
  <1> QED BY <1>2, <1>3, <1>4 DEF CopyForDemotion, CopyForPromotion

\* Undefined behaviour ends the process.
LEMMA CrashKeeps ==
    ASSUME IInv, CopyRaces \/ ReadFreed
    PROVE  IInv'
  <1>1. /\ tpc' = "dead" /\ mpc' = "dead"
        /\ UNCHANGED <<file, policyVars, migratorVars, disturbed>>
    BY DEF CopyRaces, ReadFreed, Crash
  <1>2. TypeOK'
    BY <1>1, EndKeepsType DEF IInv
  <1> QED BY <1>1, <1>2, OthersKeepThreads DEF IInv

\* An edit changes the file only; a stutter nothing.
LEMMA EditKeeps ==
    ASSUME IInv, Edit \/ UNCHANGED vars
    PROVE  IInv'
  <1>1. /\ file' \in PolicyFiles \cup {Broken}
        /\ UNCHANGED <<policyVars, tpc, migratorVars, mpc, disturbed>>
    BY DEF Edit, vars, IInv, TypeOK
  <1>2. /\ UNCHANGED <<ready, policyList, heap, parseError, doc, newList, at>>
        /\ UNCHANGED <<tpc, mine, reading, walked, mpc, disturbed>>
    BY <1>1 DEF policyVars, memory, migratorVars
  <1>3. TypeOK'
    BY <1>1, <1>2 DEF IInv, TypeOK
  <1> QED BY <1>1, <1>3, OthersKeepThreads DEF IInv

\* IInv is inductive.
LEMMA NextIInv == IInv /\ [Next]_vars => IInv'
  <1> SUFFICES ASSUME IInv, [Next]_vars PROVE IInv'
    OBVIOUS
  <1>1. CASE PolicyThread
    BY <1>1, PolicyThreadKeeps
  <1>2. CASE Migrator
    <2> USE <1>2
    <2>1. CASE \E pass \in {"demoting", "promoting"} : ReadPolicy(pass) \/ NextList(pass)
      BY <2>1, ReadKeeps, NextListKeeps
    <2>2. CASE ~\E pass \in {"demoting", "promoting"} : ReadPolicy(pass) \/ NextList(pass)
      BY <2>2, PassKeeps, CrashKeeps DEF Migrator
    <2> QED BY <2>1, <2>2
  <1>3. CASE Edit \/ UNCHANGED vars
    BY <1>3, EditKeeps
  <1> QED BY <1>1, <1>2, <1>3 DEF Next

\* The type invariant of the policies and of their two threads.
THEOREM PolicyTypeCorrect == Spec => []TypeOK
  <1>1. IInv => TypeOK
    BY DEF IInv
  <1> QED BY InitIInv, NextIInv, <1>1, PTL DEF Spec

\* While ready is set, the lists render a whole file: no interleaving of a
\* reload with a pass, no failed reload and no edit shows a part of one.
THEOREM ReadyIsWhole == Spec => []ReadyMeansWhole
  <1>1. IInv => ReadyMeansWhole
    <2> SUFFICES ASSUME IInv, ready PROVE ReadyMeansWhole
      BY DEF ReadyMeansWhole
    <2>1. doc # Broken /\ Rendered(Len(doc))
      BY DEF IInv, Threads
    <2>2. doc \in PolicyFiles /\ DOMAIN doc = 1..Len(doc)
      BY <2>1, DocType DEF IInv
    <2> QED BY <2>1, <2>2 DEF Rendered, ReadyMeansWhole
  <1> QED BY InitIInv, NextIInv, <1>1, PTL DEF Spec

\* The elements that made the policies in force were in order, and the policies
\* are what they say, whatever the stack held.
THEOREM PoliciesAsMeant == Spec => []ParsedIsMeant
  <1>1. IInv => ParsedIsMeant
    <2> SUFFICES ASSUME IInv, ready,
                        NEW l \in DOMAIN policyList, NEW i \in DOMAIN doc,
                        Renders(policyList[l], doc[i]), NEW j \in 1..Len(doc[i]),
                        Complete(doc[i][j]), AgeFits(doc[i][j])
                 PROVE  Valid(doc[i][j]) /\ heap[policyList[l][j]] = Meant(doc[i][j])
      BY DEF ParsedIsMeant
    <2> DEFINE e == doc[i][j]  p == heap[policyList[l][j]]
    <2>1. doc # Broken
      BY DEF IInv, Threads
    <2>2. /\ doc \in PolicyFiles /\ i \in 1..Len(doc)
          /\ doc[i] \in Seq(Pointers(doc)) /\ Len(doc[i]) \in Nat
      BY <2>1, DocType DEF IInv
    <2>3. Len(e.children) \in Nat
      <3>1. e \in Pointers(doc)
        BY <2>2
      <3>2. e.children \in Seq(Range(e.children))
        BY <2>2, <3>1, FilesAssumption
      <3> QED BY <3>2
    <2>4. p \in Policy /\ p \in Outcomes(e)
      <3>1. policyList[l] \in Seq(Cells) /\ Len(policyList[l]) = Len(doc[i])
        BY DEF IInv, TypeOK, Renders
      <3>2. policyList[l][j] \in Cells
        BY <2>2, <3>1
      <3>3. p # Free /\ p \in Outcomes(e)
        BY DEF Renders
      <3> QED BY <3>2, <3>3 DEF IInv, TypeOK
    <2> QED BY <2>3, <2>4, MadeIsMeant
  <1> QED BY InitIInv, NextIInv, <1>1, PTL DEF Spec

-----------------------------------------------------------------------------
(***************************************************************************)
(* No walk over a fresh copy meets a deleted policy.                       *)
(***************************************************************************)

\* All the pointers of these lists lead to policies.
Live(lists) ==
    \A l \in DOMAIN lists : \A j \in DOMAIN lists[l] : heap[lists[l][j]] # Free

\* Unless the policy thread is clearing the lists, they lead to policies, none
\* of which is under construction.
ListsLive ==
    tpc \in {"asleep", "parse"} =>
        /\ Live(policyList)
        /\ \A l \in DOMAIN policyList : \A j \in DOMAIN policyList[l] :
               \A k \in DOMAIN newList : policyList[l][j] # newList[k]

LInv == IInv /\ ListsLive /\ (Walking /\ ~disturbed => Live(mine))

\* Initially there is no list.
LEMMA InitLInv == Init => LInv
  BY InitIInv DEF Init, LInv, ListsLive, Live, Walking

\* Every pointer of the lists is to a cell.
LEMMA ListCells ==
    ASSUME TypeOK
    PROVE  /\ \A l \in DOMAIN policyList :
                  /\ policyList[l] \in Seq(Cells)
                  /\ \A j \in DOMAIN policyList[l] : policyList[l][j] \in Cells
           /\ newList \in Seq(Cells)
           /\ \A k \in DOMAIN newList : newList[k] \in Cells
  BY DEF TypeOK

\* A step of the policy thread disturbs every walk; what it leaves in the lists
\* when it is through with them is live.
LEMMA PolicyThreadLive ==
    ASSUME LInv, PolicyThread
    PROVE  ListsLive' /\ ~(Walking /\ ~disturbed)'
  <1>0. TypeOK /\ Threads /\ ListsLive
    BY DEF LInv, IInv
  <1>1. ASSUME NEW from, NEW next, PolicyStep(from, next)
        PROVE  tpc = from /\ tpc' = next /\ ~(Walking /\ ~disturbed)'
    BY <1>1 DEF PolicyStep, Walking
  <1>2. CASE Wake \/ DeletePolicy \/ ErasePolicy \/ NextOuter \/ ClearLists
    <2>1. \E from : \E next \in {"clear", "erase", "open"} : PolicyStep(from, next)
      BY <1>2 DEF Wake, DeletePolicy, ErasePolicy, NextOuter, ClearLists
    <2> QED BY <1>1, <2>1 DEF ListsLive
  <1>3. CASE OpenFile
    <2>1. /\ tpc = "open" /\ UNCHANGED <<policyList, heap, newList>>
          /\ \E next : PolicyStep("open", next)
      BY <1>3 DEF OpenFile, PolicyStep, memory
    <2>2. policyList' = <<>>
      BY <1>0, <2>1 DEF Threads
    <2> QED BY <1>1, <2>1, <2>2 DEF ListsLive, Live
  <1>4. CASE AddPolicy
    <2>1. PolicyStep("parse", "parse") /\ UNCHANGED policyList
      BY <1>4 DEF AddPolicy
    <2>2. PICK p \in Policy, c \in Cells :
              /\ heap[c] = Free /\ heap' = [heap EXCEPT ![c] = p]
              /\ newList' = Append(newList, c)
      BY <1>4 DEF AddPolicy
    <2>3. Live(policyList) /\ p # Free /\ heap \in [Cells -> Policy \cup {Free}]
      BY <1>0, <1>1, <2>1, MemoryAssumption DEF ListsLive, TypeOK
    <2>4. Live(policyList)'
      BY <1>0, <2>1, <2>2, <2>3, ListCells DEF Live
    <2>5. \A k \in DOMAIN newList' :
              newList'[k] = c \/ (k \in DOMAIN newList /\ newList'[k] = newList[k])
      BY <1>0, <2>2, ListCells
    <2>6. \A l \in DOMAIN policyList : \A j \in DOMAIN policyList[l] : policyList[l][j] # c
      BY <2>2, <2>3 DEF Live
    <2> QED BY <1>0, <1>1, <2>1, <2>4, <2>5, <2>6 DEF ListsLive
  <1>5. CASE RejectPolicy
    <2>1. /\ PolicyStep("parse", "asleep") /\ UNCHANGED policyList
          /\ heap' = Leaked /\ newList' = <<>>
      BY <1>5 DEF RejectPolicy
    <2>2. \A l \in DOMAIN policyList : \A j \in DOMAIN policyList[l] :
              heap'[policyList[l][j]] = heap[policyList[l][j]]
      BY <1>0, <1>1, <2>1, ListCells DEF Leaked, ListsLive
    <2>3. Live(policyList)'
      BY <1>0, <1>1, <2>1, <2>2 DEF ListsLive, Live
    <2> QED BY <1>1, <2>1, <2>3 DEF ListsLive
  <1>6. CASE ParserDies
    BY <1>6 DEF ParserDies, ListsLive, Walking
  <1>7. CASE PushList
    <2>1. /\ tpc = "parse" /\ Len(newList) = Len(doc[at])
          /\ PolicyStep("parse", IF parseError THEN "asleep" ELSE "parse")
          /\ policyList' = IF newList = <<>> THEN policyList
                                             ELSE Append(policyList, newList)
          /\ newList' = <<>> /\ UNCHANGED heap
      BY <1>7 DEF PushList, Parsing
    <2>2. \A k \in DOMAIN newList : heap[newList[k]] # Free
      BY <1>0, <2>1 DEF Threads, Begun, TypeOK
    <2>3. \A l \in DOMAIN policyList' :
              policyList'[l] = newList \/ (l \in DOMAIN policyList /\ policyList'[l] = policyList[l])
      BY <1>0, <2>1 DEF TypeOK
    <2>4. Live(policyList)'
      BY <1>0, <2>1, <2>2, <2>3 DEF ListsLive, Live
    <2>5. ~(Walking /\ ~disturbed)'
      BY <1>1, <2>1
    <2> QED BY <2>1, <2>4, <2>5 DEF ListsLive
  <1>8. CASE Publish
    <2>1. PolicyStep("parse", "asleep") /\ UNCHANGED <<policyList, heap, newList>>
      BY <1>8 DEF Publish, memory
    <2> QED BY <1>0, <1>1, <2>1 DEF ListsLive, Live
  <1> QED
    BY <1>2, <1>3, <1>4, <1>5, <1>6, <1>7, <1>8 DEF PolicyThread

\* manageFiles shares none of this; its copy only gets shorter.
LEMMA MigratorLive ==
    ASSUME LInv, Migrator
    PROVE  ListsLive' /\ (Walking' /\ ~disturbed' => Live(mine)')
  <1>0. TypeOK /\ ListsLive /\ (Walking /\ ~disturbed => Live(mine))
    BY DEF LInv, IInv
  <1>1. UNCHANGED policyVars /\ (tpc' = tpc \/ tpc' = "dead")
    BY DEF Migrator, MigratorStep, Crash, CopyRaces, ReadFreed, CopyForDemotion,
           CopyForPromotion, Copy, Test, ReadPolicy, NextList, EndWalk
  <1>2. UNCHANGED <<policyList, heap, newList>>
    BY <1>1 DEF policyVars, memory
  <1>3. ListsLive'
    BY <1>0, <1>1, <1>2 DEF ListsLive, Live
  <1>4. ASSUME Walking', ~disturbed'
        PROVE  Live(mine)'
    <2>1. CASE CopyForDemotion \/ CopyForPromotion
      <3>1. mine' = policyList /\ tpc = "asleep"
        BY <1>4, <2>1 DEF CopyForDemotion, CopyForPromotion, Copy
      <3> QED BY <1>0, <1>2, <3>1 DEF ListsLive, Live
    <2>2. CASE CopyRaces \/ ReadFreed
      BY <1>4, <2>2 DEF CopyRaces, ReadFreed, Crash, Walking
    <2>3. CASE Test
      BY <1>0, <1>2, <1>4, <2>3 DEF Test, MigratorStep, Walking, Live
    <2>4. ASSUME NEW pass \in {"demoting", "promoting"}, ReadPolicy(pass)
          PROVE  Live(mine)'
      <3>1. /\ Walking /\ ~disturbed /\ mine # <<>> /\ Head(mine) # <<>>
            /\ mine' = <<Tail(Head(mine))>> \o Tail(mine)
        BY <1>4, <2>4 DEF ReadPolicy, MigratorStep, Walking
      <3> DEFINE S == Seq(Cells)
      <3>2. mine \in Seq(S) /\ Head(mine) \in Seq(Cells)
        <4>1. mine \in Seq(S)
          BY <1>0 DEF TypeOK
        <4> HIDE DEF S
        <4>2. Head(mine) \in S
          BY <3>1, <4>1
        <4> QED BY <4>1, <4>2 DEF S
      <3>3. mine'[1] = Tail(mine[1]) /\ mine[1] = Head(mine)
        <4> HIDE DEF S
        <4> DEFINE t == Tail(Head(mine))
        <4>1. mine' = <<t>> \o Tail(mine) /\ Tail(mine) \in Seq(S)
          BY <3>1, <3>2
        <4> HIDE DEF t
        <4>2. mine'[1] = t /\ mine[1] = Head(mine)
          BY <3>1, <3>2, <4>1
        <4> QED BY <4>2 DEF t
      <3>4. DOMAIN mine' = DOMAIN mine /\ \A l \in DOMAIN mine : l # 1 => mine'[l] = mine[l]
        <4> HIDE DEF S
        <4> DEFINE t == Tail(Head(mine))
        <4>1. mine' = <<t>> \o Tail(mine) /\ Tail(mine) \in Seq(S)
          BY <3>1, <3>2
        <4> HIDE DEF t
        <4> QED BY <3>1, <3>2, <4>1
      <3>5. Live(mine)
        BY <1>0, <3>1
      <3>6. \A j \in DOMAIN Tail(mine[1]) :
                j + 1 \in DOMAIN mine[1] /\ Tail(mine[1])[j] = mine[1][j + 1]
        BY <3>1, <3>2, <3>3
      <3>7. 1 \in DOMAIN mine
        BY <3>1, <3>2
      <3>8. \A j \in DOMAIN mine'[1] : heap'[mine'[1][j]] # Free
        BY <1>2, <3>3, <3>5, <3>6, <3>7 DEF Live
      <3>9. \A l \in DOMAIN mine' : l # 1 =>
                \A j \in DOMAIN mine'[l] : heap'[mine'[l][j]] # Free
        BY <1>2, <3>4, <3>5 DEF Live
      <3> QED BY <3>8, <3>9 DEF Live
    <2>5. ASSUME NEW pass \in {"demoting", "promoting"}, NextList(pass)
          PROVE  Live(mine)'
      <3>1. Walking /\ ~disturbed /\ mine # <<>> /\ mine' = Tail(mine)
        BY <1>4, <2>5 DEF NextList, MigratorStep, Walking
      <3>2. \A l \in DOMAIN mine' : l + 1 \in DOMAIN mine /\ mine'[l] = mine[l + 1]
        <4> DEFINE S == Seq(Cells)
        <4>1. mine \in Seq(S)
          BY <1>0 DEF TypeOK
        <4> HIDE DEF S
        <4> QED BY <3>1, <4>1
      <3>3. Live(mine)
        BY <1>0, <3>1
      <3> QED BY <1>2, <3>2, <3>3 DEF Live
    <2>6. CASE EndWalk("demoting", "promotion") \/ EndWalk("promoting", "demotion")
      BY <1>4, <2>6 DEF EndWalk, MigratorStep, Walking
    <2> QED BY <2>1, <2>2, <2>3, <2>4, <2>5, <2>6 DEF Migrator
  <1> QED BY <1>3, <1>4

\* LInv is inductive.
LEMMA NextLInv == LInv /\ [Next]_vars => LInv'
  <1> SUFFICES ASSUME LInv, [Next]_vars PROVE LInv'
    OBVIOUS
  <1>1. IInv'
    BY NextIInv DEF LInv
  <1>2. CASE PolicyThread
    BY <1>1, <1>2, PolicyThreadLive DEF LInv
  <1>3. CASE Migrator
    BY <1>1, <1>3, MigratorLive DEF LInv
  <1>4. CASE Edit \/ UNCHANGED vars
    <2>1. UNCHANGED <<policyList, heap, newList, tpc, mine, mpc, disturbed>>
      BY <1>4 DEF Edit, vars, policyVars, memory, migratorVars
    <2> QED BY <1>1, <2>1 DEF LInv, ListsLive, Live, Walking
  <1> QED BY <1>2, <1>3, <1>4 DEF Next

\* A walk over a copy that no reload has overtaken meets no deleted policy.
THEOREM WalksAreLive == Spec => []WalksLivePolicies
  <1>1. LInv => WalksLivePolicies
    <2> SUFFICES ASSUME LInv, Walking, ~disturbed, NEW c \in Pointers(mine)
                 PROVE  heap[c] # Free
      BY DEF WalksLivePolicies
    <2>1. PICK i \in DOMAIN mine : c \in Range(mine[i])
      BY DEF Pointers
    <2>2. PICK j \in DOMAIN mine[i] : c = mine[i][j]
      BY <2>1 DEF Range
    <2> QED BY <2>2 DEF LInv, Live
  <1> QED BY InitLInv, NextLInv, <1>1, PTL DEF Spec

-----------------------------------------------------------------------------
(***************************************************************************)
(* Passes use whole lists.  The lists that a pass has read, the one at     *)
(* hand and those that are still to come are together the lists of the     *)
(* file.                                                                   *)
(***************************************************************************)

\* The policies, and those the cells lead to after them, were made of these
\* elements.
Joins(policies, cells, elements) ==
    /\ Len(policies) + Len(cells) = Len(elements)
    /\ \A j \in 1..Len(policies) : policies[j] \in Outcomes(elements[j])
    /\ \A j \in 1..Len(cells) : heap[cells[j]] \in Outcomes(elements[Len(policies) + j])

\* The l-th list that manageFiles has still to come to the end of is this one.
Coming(l, elements) == Joins(IF l = 1 THEN reading ELSE <<>>, mine[l], elements)

\* What was read and what is to come is of the file,
Sound ==
    /\ \A l \in DOMAIN walked : \E i \in DOMAIN doc : MadeOf(walked[l], doc[i])
    /\ \A l \in DOMAIN mine : \E i \in DOMAIN doc : Coming(l, doc[i])

\* and the file is all in what was read and what is to come.
Exhaustive ==
    /\ doc # Broken
    /\ \A i \in DOMAIN doc : doc[i] # <<>> =>
           \/ \E l \in DOMAIN walked : MadeOf(walked[l], doc[i])
           \/ \E l \in DOMAIN mine : Coming(l, doc[i])

\* Between two reloads the lists are of the file, if only the first ones of it.
OfTheFile ==
    tpc = "asleep" =>
        \A l \in DOMAIN policyList : \E i \in DOMAIN doc : Renders(policyList[l], doc[i])

\* Every pass starts anew, and none ends in the midst of a list.
StartsAnew ==
    /\ mpc \in {"demotion", "promotion", "test"} => reading = <<>> /\ walked = <<>>
    /\ mine = <<>> => reading = <<>>

\* What an undisturbed walk has before and behind it.
Undisturbed ==
    ~disturbed => /\ mpc = "test" => mine = policyList
                  /\ Walking => Sound
                  /\ mpc = "demoting" => Exhaustive

WInv == /\ LInv /\ OfTheFile /\ StartsAnew /\ Undisturbed
        /\ tpc = "parse" => ~parseError

\* Initially there is nothing to walk over.
LEMMA InitWInv == Init => WInv
  BY InitLInv DEF Init, WInv, OfTheFile, StartsAnew, Undisturbed, Walking

\* A step of the policy thread leaves manageFiles where it is, or ends it.
LEMMA PolicyThreadLeaves ==
    ASSUME PolicyThread
    PROVE  /\ UNCHANGED <<mine, reading, walked>>
           /\ mpc' = mpc \/ mpc' = "dead"
           /\ ~(Walking /\ ~disturbed)'
  <1>1. ASSUME NEW from, NEW next, PolicyStep(from, next)
        PROVE  UNCHANGED <<mine, reading, walked, mpc>> /\ ~(Walking /\ ~disturbed)'
    BY <1>1 DEF PolicyStep, Walking, migratorVars
  <1>2. CASE Wake \/ DeletePolicy \/ ErasePolicy \/ NextOuter \/ ClearLists
    <2>1. \E from, next : PolicyStep(from, next)
      BY <1>2 DEF Wake, DeletePolicy, ErasePolicy, NextOuter, ClearLists
    <2> QED BY <1>1, <2>1
  <1>3. CASE OpenFile \/ AddPolicy \/ RejectPolicy \/ PushList \/ Publish
    <2>1. \E from, next : PolicyStep(from, next)
      BY <1>3 DEF OpenFile, AddPolicy, RejectPolicy, PushList, Publish
    <2> QED BY <1>1, <2>1
  <1>4. CASE ParserDies
    BY <1>4 DEF ParserDies, Walking, migratorVars
  <1> QED BY <1>2, <1>3, <1>4 DEF PolicyThread

\* When it goes to sleep, what it leaves in the lists is of the file.
LEMMA PolicyThreadOfTheFile ==
    ASSUME WInv, LInv', PolicyThread
    PROVE  OfTheFile' /\ (tpc' = "parse" => ~parseError')
  <1>0. TypeOK /\ Threads /\ ListsLive /\ IInv /\ IInv'
    BY DEF WInv, LInv, IInv
  <1>1. CASE Wake \/ DeletePolicy \/ ErasePolicy \/ NextOuter \/ ClearLists
    <2>1. tpc' \in {"clear", "erase", "open"}
      BY <1>1 DEF Wake, DeletePolicy, ErasePolicy, NextOuter, ClearLists, PolicyStep
    <2> QED BY <2>1 DEF OfTheFile
  <1>2. CASE OpenFile
    <2>1. tpc = "open" /\ policyList' = policyList /\ parseError' = FALSE
      BY <1>2 DEF OpenFile, PolicyStep, memory
    <2>2. policyList' = <<>>
      BY <1>0, <2>1 DEF Threads
    <2> QED BY <2>1, <2>2 DEF OfTheFile
  <1>3. CASE AddPolicy
    BY <1>3 DEF AddPolicy, PolicyStep, OfTheFile, WInv
  <1>4. CASE RejectPolicy
    <2>1. /\ Parsing /\ tpc' = "asleep" /\ UNCHANGED <<policyList, doc>> /\ heap' = Leaked
      BY <1>4 DEF RejectPolicy, PolicyStep, MoreElements
    <2>2. \A l \in DOMAIN policyList : \A j \in DOMAIN policyList[l] :
              heap'[policyList[l][j]] = heap[policyList[l][j]]
      BY <1>0, <2>1, ListCells DEF Leaked, ListsLive, Parsing
    <2>3. /\ Rendered(at - 1) /\ 1..(at - 1) \subseteq DOMAIN doc
      <3>1. /\ doc # Broken /\ at \in 1..Len(doc) /\ Len(doc) \in Nat /\ Rendered(at - 1)
        BY <1>0, <2>1, ParsingType
      <3>2. DOMAIN doc = 1..Len(doc)
        BY <1>0, <3>1, DocType
      <3> QED BY <3>1, <3>2
    <2>4. ASSUME NEW l \in DOMAIN policyList, NEW i \in 1..(at - 1),
                 Renders(policyList[l], doc[i])
          PROVE  Renders(policyList[l], doc[i])'
      <3>1. \A j \in 1..Len(doc[i]) : j \in DOMAIN policyList[l]
        BY <1>0, <2>4, ListCells DEF Renders
      <3> QED BY <2>1, <2>2, <2>4, <3>1 DEF Renders
    <2> QED BY <2>1, <2>3, <2>4 DEF OfTheFile, Rendered
  <1>5. CASE ParserDies
    BY <1>5 DEF ParserDies, OfTheFile
  <1>6. CASE PushList
    BY <1>6 DEF PushList, Parsing, PolicyStep, OfTheFile, WInv
  <1>7. CASE Publish
    <2>1. ready' /\ tpc' = "asleep"
      BY <1>7 DEF Publish, PolicyStep
    <2>2. doc' # Broken /\ Rendered(Len(doc))'
      BY <1>0, <2>1 DEF IInv, Threads
    <2>3. DOMAIN doc' = 1..Len(doc')
      BY <1>0, <2>2, DocType DEF IInv
    <2> QED BY <2>1, <2>2, <2>3 DEF OfTheFile, Rendered
  <1> QED
    BY <1>1, <1>2, <1>3, <1>4, <1>5, <1>6, <1>7 DEF PolicyThread

\* A list that is rendered is to come; one that has come to its end is read.
LEMMA RendersJoins ==
    ASSUME NEW cells, NEW elements, Renders(cells, elements), Len(elements) \in Nat
    PROVE  Joins(<<>>, cells, elements)
  BY DEF Renders, Joins

LEMMA JoinsMade ==
    ASSUME NEW policies, NEW elements, Joins(policies, <<>>, elements),
           Len(policies) \in Nat
    PROVE  MadeOf(policies, elements)
  BY DEF Joins, MadeOf

\* The next pointer is followed.
LEMMA JoinsNext ==
    ASSUME NEW T, NEW policies \in Seq(T), NEW cells \in Seq(Cells), cells # <<>>,
           heap[Head(cells)] \in T, NEW elements, Joins(policies, cells, elements)
    PROVE  Joins(Append(policies, heap[Head(cells)]), Tail(cells), elements)
  <1> DEFINE x == heap[Head(cells)]
  <1>1. PICK q, r : q = Append(policies, x) /\ r = Tail(cells)
    OBVIOUS
  <1>2. /\ Len(policies) \in Nat /\ Len(q) = Len(policies) + 1
        /\ q[Len(policies) + 1] = x
        /\ \A j \in 1..Len(policies) : q[j] = policies[j]
    <2>1. x \in T
      OBVIOUS
    <2> HIDE DEF x
    <2> QED BY <1>1, <2>1
  <1>3. /\ Len(cells) \in Nat /\ Len(cells) >= 1 /\ Len(r) = Len(cells) - 1
        /\ Head(cells) = cells[1]
        /\ \A j \in 1..Len(r) : r[j] = cells[j + 1] /\ j + 1 \in 1..Len(cells)
    BY <1>1
  <1>4. Len(q) + Len(r) = Len(elements)
    <2>1. Len(q) + Len(r) = Len(policies) + Len(cells)
      BY <1>2, <1>3
    <2> QED BY <2>1 DEF Joins
  <1>5. \A j \in 1..Len(q) : q[j] \in Outcomes(elements[j])
    <2>1. x \in Outcomes(elements[Len(policies) + 1])
      BY <1>3 DEF Joins
    <2>2. \A j \in 1..Len(q) : j \in 1..Len(policies) \/ j = Len(policies) + 1
      BY <1>2
    <2> QED BY <1>2, <2>1, <2>2 DEF Joins
  <1>6. \A j \in 1..Len(r) : heap[r[j]] \in Outcomes(elements[Len(q) + j])
    <2>1. \A j \in 1..Len(r) : Len(policies) + (j + 1) = Len(q) + j
      BY <1>2, <1>3
    <2> QED BY <1>3, <2>1 DEF Joins
  <1>7. Joins(q, r, elements)
    BY <1>4, <1>5, <1>6 DEF Joins
  <1> QED BY <1>1, <1>7

\* ReadPolicy: the list at hand stays the list at hand.
LEMMA ReadUndisturbed ==
    ASSUME WInv, NEW pass \in {"demoting", "promoting"}, ReadPolicy(pass), ~disturbed,
           UNCHANGED <<heap, doc>>
    PROVE  Sound' /\ (Exhaustive => Exhaustive')
  <1>1. /\ mine # <<>> /\ Head(mine) # <<>> /\ Walking
        /\ reading' = Append(reading, heap[Head(Head(mine))])
        /\ mine' = <<Tail(Head(mine))>> \o Tail(mine)
        /\ walked' = walked
    BY DEF ReadPolicy, MigratorStep, Walking
  <1>2. Sound
    BY <1>1 DEF WInv, Undisturbed
  <1> DEFINE S == Seq(Cells)  T == Policy \cup {Free}
  <1>3. mine \in Seq(S) /\ reading \in Seq(T) /\ heap \in [Cells -> T]
    BY DEF WInv, LInv, IInv, TypeOK
  <1>4. Head(mine) \in Seq(Cells)
    <2> HIDE DEF S
    <2>1. Head(mine) \in S
      BY <1>1, <1>3
    <2> QED BY <2>1 DEF S
  <1>5. Tail(Head(mine)) \in S /\ Head(Head(mine)) \in Cells
    BY <1>1, <1>4
  <1>6. /\ DOMAIN mine' = DOMAIN mine
        /\ mine[1] = Head(mine) /\ mine'[1] = Tail(Head(mine))
        /\ \A l \in DOMAIN mine : l # 1 => mine'[l] = mine[l]
    <2> DEFINE t == Tail(Head(mine))
    <2>1. mine' = <<t>> \o Tail(mine) /\ t \in S
      BY <1>1, <1>5
    <2> HIDE DEF S, t
    <2>2. Tail(mine) \in Seq(S)
      BY <1>1, <1>3
    <2>3. DOMAIN mine' = DOMAIN mine /\ mine'[1] = t /\ mine[1] = Head(mine)
      BY <1>1, <1>3, <2>1, <2>2
    <2>4. \A l \in DOMAIN mine : l # 1 => mine'[l] = mine[l]
      BY <1>1, <1>3, <2>1, <2>2
    <2> QED BY <2>3, <2>4 DEF t
  <1>7. ASSUME NEW l \in DOMAIN mine, NEW elements, Coming(l, elements)
        PROVE  Coming(l, elements)'
    <2>1. \A r, c : Joins(r, c, elements) => Joins(r, c, elements)'
      BY DEF Joins
    <2>2. CASE l # 1
      <3>1. Joins(<<>>, mine[l], elements)
        BY <1>7, <2>2 DEF Coming
      <3>2. Joins(<<>>, mine[l], elements)'
        BY <2>1, <3>1, <2>2, <1>6 DEF Joins
      <3> QED BY <2>2, <3>2 DEF Coming
    <2>3. CASE l = 1
      <3>1. Joins(reading, Head(mine), elements)
        BY <1>6, <1>7, <2>3 DEF Coming
      <3>2. heap[Head(Head(mine))] \in T
        BY <1>3, <1>5
      <3>3. Joins(Append(reading, heap[Head(Head(mine))]), Tail(Head(mine)), elements)
        <4> HIDE DEF T
        <4> QED BY <1>1, <1>3, <1>4, <3>1, <3>2, JoinsNext
      <3>4. Joins(reading', mine'[1], elements)
        BY <1>1, <1>6, <3>3
      <3>5. Joins(reading, mine[1], elements)'
        BY <3>4 DEF Joins
      <3> QED BY <2>3, <3>5 DEF Coming
    <2> QED BY <2>2, <2>3
  <1>8. \A p, e : MadeOf(p, e)' <=> MadeOf(p, e)
    OBVIOUS
  <1>9. Sound'
    BY <1>1, <1>2, <1>6, <1>7 DEF Sound, MadeOf
  <1>10. Exhaustive => Exhaustive'
    BY <1>1, <1>6, <1>7 DEF Exhaustive, MadeOf
  <1> QED BY <1>9, <1>10

\* NextList: the list at hand has been read, and the next one is at hand.
LEMMA NextListUndisturbed ==
    ASSUME WInv, NEW pass \in {"demoting", "promoting"}, NextList(pass), ~disturbed,
           UNCHANGED <<heap, doc>>
    PROVE  Sound' /\ (Exhaustive => Exhaustive')
  <1>1. /\ mine # <<>> /\ Head(mine) = <<>> /\ Walking
        /\ walked' = IF reading = <<>> THEN walked ELSE Append(walked, reading)
        /\ reading' = <<>> /\ mine' = Tail(mine)
    BY DEF NextList, MigratorStep, Walking
  <1>2. Sound
    BY <1>1 DEF WInv, Undisturbed
  <1>3. /\ mine[1] = <<>> /\ 1 \in DOMAIN mine
        /\ \A l \in DOMAIN mine' : l + 1 \in DOMAIN mine /\ l + 1 # 1 /\ mine'[l] = mine[l + 1]
        /\ \A l \in DOMAIN mine : l # 1 => l - 1 \in DOMAIN mine' /\ mine'[l - 1] = mine[l]
    <2> DEFINE S == Seq(Cells)
    <2>1. mine \in Seq(S)
      BY DEF WInv, LInv, IInv, TypeOK
    <2> HIDE DEF S
    <2> QED BY <1>1, <2>1
  <1>4. Len(reading) \in Nat /\ (reading = <<>> <=> Len(reading) = 0)
    <2>1. reading \in Seq(Policy \cup {Free})
      BY DEF WInv, LInv, IInv, TypeOK
    <2> QED BY <2>1
  <1>5. /\ \A l \in DOMAIN walked : l \in DOMAIN walked' /\ walked'[l] = walked[l]
        /\ \A l \in DOMAIN walked' : \/ l \in DOMAIN walked /\ walked'[l] = walked[l]
                                     \/ reading # <<>> /\ walked'[l] = reading
        /\ reading # <<>> => \E l \in DOMAIN walked' : walked'[l] = reading
    <2> DEFINE S == Seq(Policy \cup {Free})
    <2>1. walked \in Seq(S) /\ reading \in S
      BY DEF WInv, LInv, IInv, TypeOK
    <2> HIDE DEF S
    <2>2. CASE reading = <<>>
      BY <1>1, <2>2
    <2>3. CASE reading # <<>>
      <3>1. /\ DOMAIN walked = 1..Len(walked) /\ DOMAIN walked' = 1..(Len(walked) + 1)
            /\ Len(walked) \in Nat /\ walked'[Len(walked) + 1] = reading
            /\ \A l \in 1..Len(walked) : walked'[l] = walked[l]
        BY <1>1, <2>1, <2>3
      <3> QED BY <2>3, <3>1
    <2> QED BY <2>2, <2>3
  <1>6. \A elements : Coming(1, elements) => MadeOf(reading, elements)
    BY <1>3, <1>4, JoinsMade DEF Coming
  <1>7. ASSUME NEW l \in DOMAIN mine, l # 1, NEW elements, Coming(l, elements)
        PROVE  Coming(l - 1, elements)'
    <2>1. Joins(<<>>, mine[l], elements)
      BY <1>7 DEF Coming
    <2>2. mine'[l - 1] = mine[l]
      BY <1>3, <1>7
    <2>3. Joins(<<>>, mine[l - 1], elements)'
      BY <2>1, <2>2 DEF Joins
    <2>4. (IF l - 1 = 1 THEN reading' ELSE <<>>) = <<>>
      BY <1>1
    <2> QED BY <2>3, <2>4 DEF Coming, Joins
  <1>8. Sound'
    <2>1. ASSUME NEW l \in DOMAIN walked'
          PROVE  \E i \in DOMAIN doc : MadeOf(walked'[l], doc[i])
      <3>1. CASE l \in DOMAIN walked /\ walked'[l] = walked[l]
        BY <1>2, <3>1 DEF Sound
      <3>2. CASE walked'[l] = reading
        BY <1>2, <1>3, <1>6, <3>2 DEF Sound
      <3> QED BY <1>5, <3>1, <3>2
    <2>2. ASSUME NEW l \in DOMAIN mine'
          PROVE  \E i \in DOMAIN doc : Coming(l, doc[i])'
      <3>1. l + 1 \in DOMAIN mine /\ l + 1 # 1 /\ (l + 1) - 1 = l
        <4>1. l \in Int
          <5> DEFINE S == Seq(Cells)
          <5>1. mine \in Seq(S)
            BY DEF WInv, LInv, IInv, TypeOK
          <5> HIDE DEF S
          <5> QED BY <1>1, <5>1
        <4> QED BY <1>3, <4>1
      <3>2. PICK i \in DOMAIN doc : Coming(l + 1, doc[i])
        BY <1>2, <3>1 DEF Sound
      <3>3. PICK e : e = doc[i]
        OBVIOUS
      <3>4. Coming(l, e)'
        BY <1>7, <3>1, <3>2, <3>3
      <3> QED BY <3>3, <3>4 DEF Coming, Joins
    <2> QED BY <2>1, <2>2 DEF Sound, MadeOf
  <1>9. ASSUME Exhaustive
        PROVE  Exhaustive'
    <2>1. ASSUME NEW i \in DOMAIN doc, doc[i] # <<>>
          PROVE  \/ \E l \in DOMAIN walked' : MadeOf(walked'[l], doc[i])
                 \/ \E l \in DOMAIN mine' : Coming(l, doc[i])'
      <3>1. CASE \E l \in DOMAIN walked : MadeOf(walked[l], doc[i])
        BY <1>5, <3>1
      <3>2. CASE Coming(1, doc[i])
        <4>1. MadeOf(reading, doc[i])
          BY <1>6, <3>2
        <4>2. reading # <<>>
          <5>1. Len(doc[i]) # 0
            <6>1. doc # Broken
              BY <1>9 DEF Exhaustive
            <6> DEFINE P == Pointers(doc)
            <6>2. doc[i] \in Seq(P)
              BY <6>1, DocType DEF WInv, LInv, IInv
            <6> HIDE DEF P
            <6> QED BY <2>1, <6>2
          <5> QED BY <1>4, <4>1, <5>1 DEF MadeOf
        <4> QED BY <1>5, <4>1, <4>2
      <3>3. ASSUME NEW l \in DOMAIN mine, l # 1, Coming(l, doc[i])
            PROVE  \E m \in DOMAIN mine' : Coming(m, doc[i])'
        <4>1. PICK e : e = doc[i]
          OBVIOUS
        <4>2. Coming(l - 1, e)' /\ l - 1 \in DOMAIN mine'
          BY <1>3, <1>7, <3>3, <4>1
        <4> QED BY <4>1, <4>2 DEF Coming, Joins
      <3> QED BY <1>9, <2>1, <3>1, <3>2, <3>3 DEF Exhaustive
    <2> QED BY <1>9, <2>1 DEF Exhaustive, MadeOf
  <1> QED BY <1>8, <1>9

\* A copy made between two reloads is of the file.
LEMMA CopySound ==
    ASSUME WInv, tpc = "asleep", reading = <<>>, walked = <<>>, NEW copy,
           copy = policyList
    PROVE  \A l \in DOMAIN copy : \E i \in DOMAIN doc : Joins(<<>>, copy[l], doc[i])
  <1> SUFFICES ASSUME NEW l \in DOMAIN policyList
               PROVE  \E i \in DOMAIN doc : Joins(<<>>, policyList[l], doc[i])
    OBVIOUS
  <1>1. PICK i \in DOMAIN doc : Renders(policyList[l], doc[i])
    BY DEF WInv, OfTheFile
  <1>2. Len(policyList[l]) \in Nat
    BY ListCells DEF WInv, LInv, IInv
  <1>3. Len(doc[i]) \in Nat
    BY <1>1, <1>2 DEF Renders
  <1> QED BY <1>1, <1>3, RendersJoins

\* manageFiles keeps it.
LEMMA MigratorWalks ==
    ASSUME WInv, Migrator
    PROVE  OfTheFile' /\ StartsAnew' /\ Undisturbed' /\ (tpc' = "parse" => ~parseError')
  <1>1. UNCHANGED policyVars /\ (tpc' = tpc \/ tpc' = "dead")
    BY DEF Migrator, MigratorStep, Crash, CopyRaces, ReadFreed, CopyForDemotion,
           CopyForPromotion, Copy, Test, ReadPolicy, NextList, EndWalk
  <1>2. UNCHANGED <<ready, policyList, heap, parseError, doc>>
    BY <1>1 DEF policyVars, memory
  <1>3. OfTheFile' /\ (tpc' = "parse" => ~parseError')
    BY <1>1, <1>2 DEF WInv, OfTheFile, Renders
  <1>4. StartsAnew /\ Undisturbed
    BY DEF WInv
  <1>5. CASE CopyForDemotion \/ CopyForPromotion
    <2>1. /\ mpc \in {"demotion", "promotion"} /\ mpc' \in {"test", "promoting"}
          /\ mine' = policyList /\ disturbed' = (tpc # "asleep")
          /\ UNCHANGED <<reading, walked>>
      BY <1>5 DEF CopyForDemotion, CopyForPromotion, Copy, MigratorStep
    <2>2. reading = <<>> /\ walked = <<>>
      BY <1>4, <2>1 DEF StartsAnew
    <2>3. ASSUME ~disturbed' PROVE Sound'
      <3>1. \A l \in DOMAIN mine' : \E i \in DOMAIN doc : Joins(<<>>, mine'[l], doc[i])
        BY <2>1, <2>2, <2>3, CopySound
      <3>2. \A l \in DOMAIN mine' : \E i \in DOMAIN doc : Coming(l, doc[i])'
        BY <1>2, <2>1, <2>2, <3>1 DEF Coming, Joins
      <3> QED BY <1>2, <2>1, <2>2, <3>2 DEF Sound
    <2> QED BY <1>2, <1>3, <2>1, <2>2, <2>3 DEF StartsAnew, Undisturbed
  <1>6. CASE CopyRaces \/ ReadFreed
    BY <1>3, <1>4, <1>6 DEF CopyRaces, ReadFreed, Crash, StartsAnew, Undisturbed, Walking,
                            migratorVars
  <1>7. CASE Test
    <2>1. /\ mpc = "test" /\ Walking /\ UNCHANGED <<reading, walked, disturbed>>
          /\ reading = <<>> /\ walked = <<>>
      BY <1>4, <1>7 DEF Test, MigratorStep, StartsAnew, Walking
    <2>2. CASE mine # <<>> /\ ready
      <3>1. mpc' = "demoting" /\ mine' = mine
        BY <1>7, <2>2 DEF Test, MigratorStep
      <3>2. ASSUME ~disturbed PROVE Sound' /\ Exhaustive'
        <4>1. Sound /\ mine = policyList
          BY <1>4, <2>1, <3>2 DEF Undisturbed
        <4>2. Sound'
          BY <1>2, <2>1, <3>1, <4>1 DEF Sound, Coming, Joins, MadeOf
        <4>3. doc # Broken /\ Rendered(Len(doc))
          BY <2>2 DEF WInv, LInv, IInv, Threads
        <4>4. DOMAIN doc = 1..Len(doc) /\ \A i \in 1..Len(doc) : Len(doc[i]) \in Nat
          BY <4>3, DocType DEF WInv, LInv, IInv
        <4>5. ASSUME NEW i \in DOMAIN doc, doc[i] # <<>>
              PROVE  \E l \in DOMAIN mine' : Coming(l, doc[i])'
          <5>1. PICK l \in DOMAIN mine : Renders(mine[l], doc[i])
            BY <4>1, <4>3, <4>4, <4>5 DEF Rendered
          <5>2. Joins(<<>>, mine[l], doc[i])
            BY <4>4, <5>1, RendersJoins
          <5> QED BY <1>2, <2>1, <3>1, <5>2 DEF Coming, Joins
        <4>6. Exhaustive'
          BY <1>2, <4>3, <4>5 DEF Exhaustive
        <4> QED BY <4>2, <4>6
      <3> QED BY <1>3, <1>4, <2>1, <2>2, <3>1, <3>2 DEF StartsAnew, Undisturbed
    <2>3. CASE ~(mine # <<>> /\ ready)
      <3>1. mpc' = "demotion"
        BY <1>7, <2>3 DEF Test, MigratorStep
      <3> QED BY <1>3, <1>4, <2>1, <2>3, <3>1 DEF StartsAnew, Undisturbed, Walking
    <2> QED BY <1>3, <2>2, <2>3
  <1>8. ASSUME NEW pass \in {"demoting", "promoting"}, ReadPolicy(pass)
        PROVE  StartsAnew' /\ Undisturbed'
    <2>1. /\ mpc = pass /\ mpc' = pass /\ UNCHANGED <<walked, disturbed>>
          /\ mine # <<>> /\ mine' = <<Tail(Head(mine))>> \o Tail(mine)
      BY <1>8 DEF ReadPolicy, MigratorStep
    <2>2. mine' # <<>>
      <3> DEFINE S == Seq(Cells)  t == Tail(Head(mine))
      <3>1. mine \in Seq(S)
        BY DEF WInv, LInv, IInv, TypeOK
      <3>2. mine' = <<t>> \o Tail(mine)
        BY <2>1
      <3> HIDE DEF S, t
      <3>3. Tail(mine) \in Seq(S)
        BY <2>1, <3>1
      <3> QED BY <3>2, <3>3
    <2>3. ~disturbed => Sound' /\ (Exhaustive => Exhaustive')
      BY <1>2, <1>8, ReadUndisturbed
    <2> QED BY <1>4, <2>1, <2>2, <2>3 DEF StartsAnew, Undisturbed
  <1>9. ASSUME NEW pass \in {"demoting", "promoting"}, NextList(pass)
        PROVE  StartsAnew' /\ Undisturbed'
    <2>1. mpc = pass /\ mpc' = pass /\ reading' = <<>> /\ disturbed' = disturbed
      BY <1>9 DEF NextList, MigratorStep
    <2>2. ~disturbed => Sound' /\ (Exhaustive => Exhaustive')
      BY <1>2, <1>9, NextListUndisturbed
    <2> QED BY <1>4, <2>1, <2>2 DEF StartsAnew, Undisturbed
  <1>10. CASE EndWalk("demoting", "promotion") \/ EndWalk("promoting", "demotion")
    <2>1. /\ mpc' \in {"demotion", "promotion"} /\ mine = <<>> /\ walked' = <<>>
          /\ UNCHANGED <<mine, reading, disturbed>>
      BY <1>10 DEF EndWalk, MigratorStep
    <2> QED BY <1>3, <1>4, <2>1 DEF StartsAnew, Undisturbed, Walking
  <1> QED BY <1>3, <1>5, <1>6, <1>7, <1>8, <1>9, <1>10 DEF Migrator

\* WInv is inductive.
LEMMA NextWInv == WInv /\ [Next]_vars => WInv'
  <1> SUFFICES ASSUME WInv, [Next]_vars PROVE WInv'
    OBVIOUS
  <1>1. LInv'
    BY NextLInv DEF WInv
  <1>2. CASE PolicyThread
    <2>1. OfTheFile' /\ (tpc' = "parse" => ~parseError')
      BY <1>1, <1>2, PolicyThreadOfTheFile
    <2>2. /\ UNCHANGED <<mine, reading, walked>>
          /\ mpc' = mpc \/ mpc' = "dead"
          /\ ~(Walking /\ ~disturbed)'
      BY <1>2, PolicyThreadLeaves
    <2>3. StartsAnew'
      BY <2>2 DEF WInv, StartsAnew
    <2>4. Undisturbed'
      BY <2>2 DEF Undisturbed, Walking
    <2> QED BY <1>1, <2>1, <2>3, <2>4 DEF WInv
  <1>3. CASE Migrator
    BY <1>1, <1>3, MigratorWalks DEF WInv
  <1>4. CASE Edit \/ UNCHANGED vars
    <2>1. /\ UNCHANGED <<policyList, heap, doc, parseError, tpc, mpc, disturbed>>
          /\ UNCHANGED <<mine, reading, walked>>
      BY <1>4 DEF Edit, vars, policyVars, memory, migratorVars
    <2>2. OfTheFile'
      BY <2>1 DEF WInv, OfTheFile, Renders
    <2>3. StartsAnew'
      BY <2>1 DEF WInv, StartsAnew
    <2>4. /\ Sound => Sound'
          /\ Exhaustive => Exhaustive'
      BY <2>1 DEF Sound, Exhaustive, Coming, Joins, MadeOf
    <2>5. Undisturbed'
      BY <2>1, <2>4 DEF WInv, Undisturbed, Walking
    <2> QED BY <1>1, <2>1, <2>2, <2>3, <2>5 DEF WInv
  <1> QED BY <1>2, <1>3, <1>4 DEF Next

\* A demotion pass that no reload overtakes has gone by every list of a file and by
\* nothing else; a promotion pass by whole lists of a file.
THEOREM PassesAreWhole == Spec => PassesUseWholeLists
  <1> DEFINE A ==
        /\ EndWalk("demoting", "promotion") /\ ~disturbed =>
               /\ \A i \in DOMAIN doc : doc[i] # <<>> =>
                      \E l \in DOMAIN walked : MadeOf(walked[l], doc[i])
               /\ \A l \in DOMAIN walked :
                      \E i \in DOMAIN doc : MadeOf(walked[l], doc[i])
        /\ EndWalk("promoting", "demotion") /\ ~disturbed =>
               \A l \in DOMAIN walked :
                   \E i \in DOMAIN doc : MadeOf(walked[l], doc[i])
  <1>1. WInv => A
    <2> SUFFICES ASSUME WInv, ~disturbed PROVE A
      OBVIOUS
    <2>1. ASSUME EndWalk("demoting", "promotion") \/ EndWalk("promoting", "demotion")
          PROVE  Sound /\ (mpc = "demoting" => Exhaustive) /\ mine = <<>>
      BY <2>1 DEF EndWalk, MigratorStep, WInv, Undisturbed, Walking
    <2>2. EndWalk("demoting", "promotion") => mpc = "demoting"
      BY DEF EndWalk, MigratorStep
    <2> QED BY <2>1, <2>2 DEF Sound, Exhaustive
  <1>2. WInv => [A]_vars
    BY <1>1
  <1>3. Spec => []WInv
    BY InitWInv, NextWInv, PTL DEF Spec
  <1> QED BY <1>2, <1>3, PTL DEF PassesUseWholeLists
==============================================================================
