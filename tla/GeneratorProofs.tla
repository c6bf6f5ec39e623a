---------------------------- MODULE GeneratorProofs ----------------------------
(***************************************************************************)
(* What xml_generator writes is what was asked for, and the parser reads   *)
(* it so, for any number of lists and of policies and for any numbers.     *)
(***************************************************************************)
EXTENDS Generator, TLAPS, FiniteSetTheorems

-----------------------------------------------------------------------------
(***************************************************************************)
(* Sums over six terms, which is what an age has.  MapThenSumSet takes the *)
(* terms away one by one, in an order that nobody knows.                   *)
(***************************************************************************)

\* The sum of F over the subsets of S, as MapThenSumSet finds it.
Summing(F, S, sum) ==
    sum = [s \in SUBSET S |->
              IF s = {} THEN 0
              ELSE F[CHOOSE x \in s : TRUE] + sum[s \ {CHOOSE x \in s : TRUE}]]

\* The sum of F over the subsets of S, whichever term is taken away.
AnySum(F, S, sum) ==
    /\ sum \in [SUBSET S -> Int]
    /\ sum[{}] = 0
    /\ \A s \in SUBSET S : \A x \in s : sum[s] = F[x] + sum[s \ {x}]

\* Two ways of summing agree on sets with one element more.
LEMMA OneMore ==
    ASSUME NEW S, IsFiniteSet(S), NEW F, NEW c, AnySum(F, S, c), NEW g, Summing(F, S, g),
           NEW k \in Nat,
           \A s \in SUBSET S : Cardinality(s) <= k => g[s] = c[s]
    PROVE  \A s \in SUBSET S : Cardinality(s) <= k + 1 => g[s] = c[s]
  <1> SUFFICES ASSUME NEW s \in SUBSET S, Cardinality(s) <= k + 1
               PROVE  g[s] = c[s]
    OBVIOUS
  <1>1. CASE s = {}
    BY <1>1 DEF AnySum, Summing
  <1>2. CASE s # {}
    <2>1. PICK x : x = CHOOSE y \in s : TRUE
      OBVIOUS
    <2>2. x \in s
      BY <1>2, <2>1
    <2>3. IsFiniteSet(s) /\ Cardinality(s) \in Nat
      BY FS_Subset, FS_CardinalityType
    <2>4. Cardinality(s \ {x}) = Cardinality(s) - 1
      BY <2>2, <2>3, FS_RemoveElement
    <2>5. Cardinality(s \ {x}) <= k /\ s \ {x} \in SUBSET S
      BY <2>3, <2>4
    <2>6. g[s \ {x}] = c[s \ {x}]
      BY <2>5
    <2>7. g[s] = F[x] + g[s \ {x}]
      BY <1>2, <2>1 DEF Summing
    <2>8. c[s] = F[x] + c[s \ {x}]
      BY <2>2 DEF AnySum
    <2> QED BY <2>6, <2>7, <2>8
  <1> QED BY <1>1, <1>2

\* And so they agree on six elements.
LEMMA SixTerms ==
    ASSUME NEW S, IsFiniteSet(S), Cardinality(S) <= 6, NEW F, NEW c, AnySum(F, S, c),
           NEW g, Summing(F, S, g)
    PROVE  g[S] = c[S]
  <1> DEFINE P(k) == \A s \in SUBSET S : Cardinality(s) <= k => g[s] = c[s]
  <1>0. P(0)
    <2> SUFFICES ASSUME NEW s \in SUBSET S, Cardinality(s) <= 0 PROVE g[s] = c[s]
      OBVIOUS
    <2>1. IsFiniteSet(s) /\ Cardinality(s) \in Nat
      BY FS_Subset, FS_CardinalityType
    <2>2. s = {}
      BY <2>1, FS_EmptySet
    <2> QED BY <2>2 DEF AnySum, Summing
  <1>1. \A k \in Nat : P(k) => P(k + 1)
    BY OneMore
  <1> HIDE DEF P
  <1>2. P(1) /\ P(2) /\ P(3)
    <2>1. P(0 + 1)
      BY <1>0, <1>1
    <2>2. P(1)
      BY <2>1
    <2>3. P(1 + 1)
      BY <2>2, <1>1
    <2>4. P(2)
      BY <2>3
    <2>5. P(2 + 1)
      BY <2>4, <1>1
    <2> QED BY <2>2, <2>4, <2>5
  <1>3. P(4) /\ P(5) /\ P(6)
    <2>1. P(3 + 1)
      BY <1>2, <1>1
    <2>2. P(4)
      BY <2>1
    <2>3. P(4 + 1)
      BY <2>2, <1>1
    <2>4. P(5)
      BY <2>3
    <2>5. P(5 + 1)
      BY <2>4, <1>1
    <2> QED BY <2>2, <2>4, <2>5
  <1> QED BY <1>3 DEF P

\* An element more.
LEMMA AtMostOneMore ==
    ASSUME NEW T, NEW x, NEW n \in Nat,
           IsFiniteSet(T), Cardinality(T) \in Nat, Cardinality(T) <= n
    PROVE  /\ IsFiniteSet(T \cup {x}) /\ Cardinality(T \cup {x}) \in Nat
           /\ Cardinality(T \cup {x}) <= n + 1
  <1>1. /\ IsFiniteSet(T \cup {x})
        /\ Cardinality(T \cup {x}) = IF x \in T THEN Cardinality(T) ELSE Cardinality(T) + 1
    BY FS_AddElement
  <1> QED BY <1>1

\* Six names are of six elements at most.
LEMMA AtMostSix ==
    ASSUME NEW a, NEW b, NEW c, NEW d, NEW e, NEW f
    PROVE  /\ IsFiniteSet({a, b, c, d, e, f})
           /\ Cardinality({a, b, c, d, e, f}) <= 6
  <1> DEFINE Small(T, n) == IsFiniteSet(T) /\ Cardinality(T) \in Nat /\ Cardinality(T) <= n
  <1>0. Small({}, 0)
    BY FS_EmptySet
  <1>1. \A T, x : \A n \in Nat : Small(T, n) => Small(T \cup {x}, n + 1)
    BY AtMostOneMore
  <1> HIDE DEF Small
  <1>2. Small({a}, 1)
    <2>1. Small({} \cup {a}, 0 + 1)
      BY <1>0, <1>1
    <2>2. {} \cup {a} = {a} /\ 0 + 1 = 1
      OBVIOUS
    <2> QED BY <2>1, <2>2
  <1>3. Small({a, b}, 2)
    <2>1. Small({a} \cup {b}, 1 + 1)
      BY <1>1, <1>2
    <2>2. {a} \cup {b} = {a, b} /\ 1 + 1 = 2
      OBVIOUS
    <2> QED BY <2>1, <2>2
  <1>4. Small({a, b, c}, 3)
    <2>1. Small({a, b} \cup {c}, 2 + 1)
      BY <1>1, <1>3
    <2>2. {a, b} \cup {c} = {a, b, c} /\ 2 + 1 = 3
      OBVIOUS
    <2> QED BY <2>1, <2>2
  <1>5. Small({a, b, c, d}, 4)
    <2>1. Small({a, b, c} \cup {d}, 3 + 1)
      BY <1>1, <1>4
    <2>2. {a, b, c} \cup {d} = {a, b, c, d} /\ 3 + 1 = 4
      OBVIOUS
    <2> QED BY <2>1, <2>2
  <1>6. Small({a, b, c, d, e}, 5)
    <2>1. Small({a, b, c, d} \cup {e}, 4 + 1)
      BY <1>1, <1>5
    <2>2. {a, b, c, d} \cup {e} = {a, b, c, d, e} /\ 4 + 1 = 5
      OBVIOUS
    <2> QED BY <2>1, <2>2
  <1>7. Small({a, b, c, d, e, f}, 6)
    <2>1. Small({a, b, c, d, e} \cup {f}, 5 + 1)
      BY <1>1, <1>6
    <2>2. {a, b, c, d, e} \cup {f} = {a, b, c, d, e, f} /\ 5 + 1 = 6
      OBVIOUS
    <2> QED BY <2>1, <2>2
  <1> QED BY <1>7 DEF Small

\* MapThenSumSet finds a sum of these six terms.
SumsTo(F, S, a, b, c, d, e, f) ==
    /\ \E sum : Summing(F, S, sum)
    /\ \A sum : Summing(F, S, sum) =>
           sum[S] = F[a] + (F[b] + (F[c] + (F[d] + (F[e] + F[f]))))

\* These are the elements of S, and no two are the same.
AreAll(S, a, b, c, d, e, f) ==
    /\ S = {a, b, c, d, e, f}
    /\ a # b /\ a # c /\ a # d /\ a # e /\ a # f /\ b # c /\ b # d /\ b # e /\ b # f
    /\ c # d /\ c # e /\ c # f /\ d # e /\ d # f /\ e # f

\* The sum of six terms, in the order in which they are named.
LEMMA SumOfSix ==
    ASSUME NEW S, NEW F, F \in [S -> Int],
           NEW a, NEW b, NEW c, NEW d, NEW e, NEW f, AreAll(S, a, b, c, d, e, f)
    PROVE  SumsTo(F, S, a, b, c, d, e, f)
  <1>0. /\ S = {a, b, c, d, e, f}
        /\ a # b /\ a # c /\ a # d /\ a # e /\ a # f /\ b # c /\ b # d /\ b # e /\ b # f
        /\ c # d /\ c # e /\ c # f /\ d # e /\ d # f /\ e # f
    BY DEF AreAll
  <1> DEFINE Term(s, x) == IF x \in s THEN F[x] ELSE 0
             Total(s) == Term(s, a) + (Term(s, b) + (Term(s, c)
                             + (Term(s, d) + (Term(s, e) + Term(s, f)))))
             total == [s \in SUBSET S |-> Total(s)]
  <1>1. \A s : \A x \in S : Term(s, x) \in Int
    OBVIOUS
  <1>2. \A s \in SUBSET S : \A x \in s : Total(s) = F[x] + Total(s \ {x})
    <2> SUFFICES ASSUME NEW s \in SUBSET S, NEW x \in s
                 PROVE  Total(s) = F[x] + Total(s \ {x})
      OBVIOUS
    <2>1. \A y \in S : y # x => Term(s \ {x}, y) = Term(s, y)
      OBVIOUS
    <2>2. Term(s \ {x}, x) = 0 /\ Term(s, x) = F[x]
      OBVIOUS
    <2>3. \A y \in S : Term(s, y) \in Int /\ Term(s \ {x}, y) \in Int
      BY <1>1
    <2>4. x \in S /\ F[x] \in Int
      OBVIOUS
    <2> HIDE DEF Term
    <2> QED BY <1>0, <2>1, <2>2, <2>3, <2>4
  <1>3. Total({}) = 0
    OBVIOUS
  <1>4. \A s : Total(s) \in Int
    <2> HIDE DEF Term
    <2> QED BY <1>0, <1>1
  <1>5. AnySum(F, S, total)
    <2> HIDE DEF Total
    <2>1. total \in [SUBSET S -> Int]
      BY <1>4
    <2>2. \A s \in SUBSET S : total[s] = Total(s) /\ \A x \in s : s \ {x} \in SUBSET S
      OBVIOUS
    <2> QED BY <1>2, <1>3, <2>1, <2>2 DEF AnySum
  <1>6. total[S] = F[a] + (F[b] + (F[c] + (F[d] + (F[e] + F[f]))))
    BY <1>0
  <1> HIDE DEF total, Total, Term
  <1>7. Summing(F, S, total)
    <2>1. \A s \in SUBSET S :
              total[s] = IF s = {} THEN 0
                         ELSE F[CHOOSE x \in s : TRUE] + total[s \ {CHOOSE x \in s : TRUE}]
      <3> SUFFICES ASSUME NEW s \in SUBSET S, s # {}
                   PROVE  total[s] = F[CHOOSE x \in s : TRUE]
                                         + total[s \ {CHOOSE x \in s : TRUE}]
        BY <1>5 DEF AnySum
      <3>1. PICK x : x = CHOOSE y \in s : TRUE
        OBVIOUS
      <3>2. x \in s
        BY <3>1
      <3>3. total[s] = F[x] + total[s \ {x}]
        BY <1>5, <3>2 DEF AnySum
      <3> QED BY <3>1, <3>3
    <2>2. total = [s \in SUBSET S |-> total[s]]
      BY <1>5 DEF AnySum
    <2> QED BY <2>1, <2>2 DEF Summing
  <1>8. IsFiniteSet(S) /\ Cardinality(S) <= 6
    BY <1>0, AtMostSix
  <1>9. \A sum : Summing(F, S, sum) => sum[S] = total[S]
    BY <1>5, <1>8, SixTerms
  <1> QED BY <1>6, <1>7, <1>9 DEF SumsTo

\* The six units.
SixUnits(x) == x["years"] + (x["months"] + (x["days"]
                   + (x["hours"] + (x["minutes"] + x["seconds"]))))

\* The seconds of each unit of an age.
InSeconds(units) == [u \in Units |-> units[u] * Seconds[u]]

\* What the age of an answer adds up to.
LEMMA AgeAddsUp ==
    ASSUME NEW units \in [Units -> Ints]
    PROVE  MapThenSumSet(LAMBDA u : units[u] * Seconds[u], Units) = SixUnits(InSeconds(units))
  <1> DEFINE F == InSeconds(units)
             Body(iter) == iter = [s \in SUBSET Units |->
                 IF s = {} THEN 0
                 ELSE units[CHOOSE x \in s : TRUE] * Seconds[CHOOSE x \in s : TRUE]
                          + iter[s \ {CHOOSE x \in s : TRUE}]]
             sum == CHOOSE iter : Body(iter)
  <1>1. MapThenSumSet(LAMBDA u : units[u] * Seconds[u], Units) = sum[Units]
    BY DEF MapThenSumSet, MapThenFoldSet
  <1>2. F \in [Units -> Int]
    <2>1. \A u \in Units : units[u] \in Int /\ Seconds[u] \in Int
      BY ParserAssumption DEF Ints
    <2>2. \A m, n \in Int : m * n \in Int
      OBVIOUS
    <2> QED BY <2>1, <2>2 DEF InSeconds
  <1>3. \A iter : Body(iter) <=> Summing(F, Units, iter)
    <2>1. \A s \in SUBSET Units : s # {} =>
              F[CHOOSE x \in s : TRUE] =
                  units[CHOOSE x \in s : TRUE] * Seconds[CHOOSE x \in s : TRUE]
      <3> SUFFICES ASSUME NEW s \in SUBSET Units, s # {}
                   PROVE  F[CHOOSE x \in s : TRUE] =
                              units[CHOOSE x \in s : TRUE] * Seconds[CHOOSE x \in s : TRUE]
        OBVIOUS
      <3>1. PICK x : x = CHOOSE y \in s : TRUE
        OBVIOUS
      <3>2. x \in Units
        BY <3>1
      <3> QED BY <3>1, <3>2 DEF InSeconds
    <2> HIDE DEF F
    <2> QED BY <2>1 DEF Summing
  <1>4. /\ \E iter : Summing(F, Units, iter)
        /\ \A iter : Summing(F, Units, iter) => iter[Units] = SixUnits(F)
    <2> HIDE DEF F
    <2>1. SumsTo(F, Units, "years", "months", "days", "hours", "minutes", "seconds")
      <3>1. AreAll(Units, "years", "months", "days", "hours", "minutes", "seconds")
        BY DEF AreAll, Units
      <3> QED BY <1>2, <3>1, SumOfSix
    <2> QED BY <2>1 DEF SumsTo, SixUnits
  <1> HIDE DEF F, Body
  <1>5. Body(sum)
    BY <1>3, <1>4
  <1>6. sum[Units] = SixUnits(F)
    BY <1>3, <1>4, <1>5
  <1> HIDE DEF sum
  <1> QED BY <1>1, <1>6 DEF F

-----------------------------------------------------------------------------
(***************************************************************************)
(* What the parser makes of an element that the generator wrote.           *)
(***************************************************************************)

\* The children of a size policy.
LEMMA SizeChildren ==
    ASSUME NEW answer, answer.low \in Int, answer.high \in Int
    PROVE  LET e == SizeLines(answer) IN
           /\ e.type = "sizepolicy" /\ Len(e.children) = 7
           /\ \A k \in {1, 3, 5, 7} : e.children[k] = Blank
           /\ e.children[2] = Name
           /\ e.children[4] = Tag("lowerbound", answer.low)
           /\ e.children[6] = Tag("upperbound", answer.high)
  BY DEF SizeLines, Lines, Bounds

\* The children of a hits policy.
LEMMA HitsChildren ==
    ASSUME NEW answer, answer.hits \in Int
    PROVE  LET e == HitsLines(answer) IN
           /\ e.type = "hitspolicy" /\ Len(e.children) = 5
           /\ \A k \in {1, 3, 5} : e.children[k] = Blank
           /\ e.children[2] = Name
           /\ e.children[4] = Tag("minimumhits", answer.hits)
  BY DEF HitsLines, Lines

\* The children of a time policy.
LEMMA TimeChildren ==
    ASSUME NEW answer
    PROVE  LET e == TimeLines(answer) IN
           /\ e.type = "timepolicy" /\ Len(e.children) = 15
           /\ \A k \in {1, 3, 5, 7, 9, 11, 13, 15} : e.children[k] = Blank
           /\ e.children[2] = Name
           /\ e.children[4] = Tag("years", answer.units["years"])
           /\ e.children[6] = Tag("months", answer.units["months"])
           /\ e.children[8] = Tag("days", answer.units["days"])
           /\ e.children[10] = Tag("hours", answer.units["hours"])
           /\ e.children[12] = Tag("minutes", answer.units["minutes"])
           /\ e.children[14] = Tag("seconds", answer.units["seconds"])
  BY DEF TimeLines, Lines

\* Of the first n children the i-th has the tag, and no other.
OnlyAt(e, tag, n, i) == \A j \in 1..n : e.children[j].tag = tag <=> j = i

\* The local for such a tag.
LEMMA HeldFrom ==
    ASSUME NEW e, NEW tag, NEW n \in Nat, NEW i \in 1..n, OnlyAt(e, tag, n, i)
    PROVE  \A k \in 1..n : \A garbage :
               Held(e, tag, k, garbage) = IF k < i THEN garbage ELSE e.children[i].value
  <1> SUFFICES ASSUME NEW k \in 1..n, NEW garbage
               PROVE  Held(e, tag, k, garbage) = IF k < i THEN garbage ELSE e.children[i].value
    OBVIOUS
  <1>1. \A j \in 1..k : j \in 1..n /\ (e.children[j].tag = tag <=> j = i)
    BY DEF OnlyAt
  <1>2. CASE k < i
    <2>1. Tagged(e, tag, k) = {}
      BY <1>1, <1>2 DEF Tagged
    <2> QED BY <1>2, <2>1 DEF Held
  <1>3. CASE ~(k < i)
    <2>1. Tagged(e, tag, k) = {i}
      BY <1>1, <1>3 DEF Tagged
    <2>2. Max({i}) = i
      BY DEF Max
    <2> QED BY <1>3, <2>1, <2>2 DEF Held
  <1> QED BY <1>2, <1>3

\* No child of e ends the process, and the g that get through its n children make
\* these policies.
Yields(e, n, policies) ==
    /\ Len(e.children) = n /\ Tags(e.type) # {}
    /\ \A k \in 1..n : ~Kills(e, k)
    /\ policies \subseteq Policy
    /\ \A g \in Garbage \X Garbage : Goes(e, n, g) => Made(e, g) \in policies
    /\ \A p \in policies : \E g \in Garbage \X Garbage : Goes(e, n, g) /\ Made(e, g) = p

\* Then these are the outcomes.
LEMMA OutcomesAre ==
    ASSUME NEW e, NEW n \in Nat, NEW policies, Yields(e, n, policies)
    PROVE  Outcomes(e) \ {Null} = policies
  <1>1. \A g \in Garbage \X Garbage :
            ParsePolicy(e, g) = IF Goes(e, n, g) THEN Made(e, g) ELSE Null
    BY DEF ParsePolicy, Yields
  <1>2. \A p \in policies : p # Null /\ p \in Outcomes(e)
    BY <1>1, OutcomesAssumption DEF Outcomes, Yields
  <1>3. \A p \in Outcomes(e) : p = Null \/ p \in policies
    BY <1>1 DEF Outcomes, Yields
  <1> QED BY <1>2, <1>3

\* The stack may hold the least and the greatest of the bounds that are in order.
AnyStack == {0, IntMax} \subseteq Garbage

\* A size policy is read as it was asked for, or rejected.
LEMMA SizeAsAsked ==
    ASSUME AnyStack, NEW answer \in Answers, answer.type = "sizepolicy"
    PROVE  Outcomes(SizeLines(answer)) \ {Null} =
               IF Sensible(answer) THEN {PolicyFor(answer)} ELSE {}
  <1>1. PICK low \in Int, high \in Int :
            answer = [type |-> "sizepolicy", low |-> low, high |-> high]
    BY AnswersAssumption DEF Answers
  <1>2. PICK e : e = SizeLines(answer)
    OBVIOUS
  <1>3. /\ e.type = "sizepolicy" /\ Len(e.children) = 7
        /\ \A k \in {1, 3, 5, 7} : e.children[k] = Blank
        /\ e.children[2] = Name
        /\ e.children[4] = Tag("lowerbound", low)
        /\ e.children[6] = Tag("upperbound", high)
    BY <1>1, <1>2, SizeChildren
  <1>4. \A k \in 1..7 : k \in {1, 3, 5, 7} \/ k = 2 \/ k = 4 \/ k = 6
    OBVIOUS
  <1>5. /\ Tags(e.type) = {"lowerbound", "upperbound"}
        /\ IntMax \in Nat /\ Garbage \subseteq Ints /\ Ints \subseteq Int
    BY <1>3, ParserAssumption DEF Tags, Ints
  <1>6. \A k \in 1..7 : ~Kills(e, k)
    BY <1>3, <1>4, <1>5, NothingAssumption, TextAssumption DEF Kills, Blank, Name, Tag
  <1>7. OnlyAt(e, "lowerbound", 7, 4) /\ OnlyAt(e, "upperbound", 7, 6)
    BY <1>3, <1>4 DEF OnlyAt, Blank, Name, Tag
  <1>8. \A k \in 1..7 : \A g :
            /\ Held(e, "lowerbound", k, g) = IF k < 4 THEN g ELSE low
            /\ Held(e, "upperbound", k, g) = IF k < 6 THEN g ELSE high
    <2>1. \A k \in 1..7 : \A g :
              Held(e, "lowerbound", k, g) = IF k < 4 THEN g ELSE e.children[4].value
      BY <1>7, HeldFrom
    <2>2. \A k \in 1..7 : \A g :
              Held(e, "upperbound", k, g) = IF k < 6 THEN g ELSE e.children[6].value
      BY <1>7, HeldFrom
    <2>3. e.children[4].value = low /\ e.children[6].value = high
      BY <1>3 DEF Tag
    <2> QED BY <2>1, <2>2, <2>3
  <1>9. \A k \in 1..7 : Unfit(e, k) <=> (k = 4 /\ low \notin Ints) \/ (k = 6 /\ high \notin Ints)
    BY <1>3, <1>4, <1>5 DEF Unfit, Blank, Name, Tag
  <1>10. Sensible(answer) <=> 0 <= low /\ low <= high /\ high <= IntMax
    BY <1>1 DEF Sensible
  <1>11. PolicyFor(answer) = answer /\ (Sensible(answer) => answer \in Policy)
    <2>1. PolicyFor(answer) = answer
      BY <1>1 DEF PolicyFor
    <2>2. Sensible(answer) => low \in Ints /\ high \in Ints
      BY <1>5, <1>10 DEF Ints
    <2> QED BY <1>1, <2>1, <2>2 DEF Policy
  <1>12. ASSUME NEW g \in Garbage \X Garbage, Goes(e, 7, g)
         PROVE  Sensible(answer) /\ Made(e, g) = answer
    <2>1. /\ Held(e, "lowerbound", 7, g[1]) = low
          /\ Held(e, "upperbound", 7, g[2]) = high
      BY <1>8
    <2>2. ~Disorder(e, 7, g) /\ ~Unfit(e, 6)
      BY <1>12 DEF Goes
    <2>3. ~(low > high) /\ ~(low < 0)
      BY <1>3, <2>1, <2>2 DEF Disorder
    <2>4. high \in Ints
      BY <1>9, <2>2
    <2>5. Sensible(answer)
      BY <1>5, <1>10, <2>3, <2>4 DEF Ints
    <2> QED BY <1>1, <1>3, <2>1, <2>5 DEF Made
  <1>13. ASSUME Sensible(answer)
         PROVE  \E g \in Garbage \X Garbage : Goes(e, 7, g)
    <2>1. <<0, IntMax>> \in Garbage \X Garbage
      BY DEF AnyStack
    <2>2. low \in Ints /\ high \in Ints
      BY <1>5, <1>10, <1>13 DEF Ints
    <2>3. ASSUME NEW k \in 1..7 PROVE ~Disorder(e, k, <<0, IntMax>>)
      <3>1. /\ Held(e, "lowerbound", k, 0) = IF k < 4 THEN 0 ELSE low
            /\ Held(e, "upperbound", k, IntMax) = IF k < 6 THEN IntMax ELSE high
        BY <1>8
      <3>2. LET l == Held(e, "lowerbound", k, 0)  u == Held(e, "upperbound", k, IntMax)
            IN  ~(l > u) /\ ~(l < 0) /\ ~(u < 0)
        BY <1>5, <1>10, <1>13, <3>1
      <3> QED BY <1>3, <3>2 DEF Disorder
    <2>4. Goes(e, 7, <<0, IntMax>>)
      BY <1>9, <2>2, <2>3 DEF Goes
    <2> QED BY <2>1, <2>4
  <1>14. PICK policies : policies = IF Sensible(answer) THEN {answer} ELSE {}
    OBVIOUS
  <1>15. /\ policies \in SUBSET Policy
         /\ \A g \in Garbage \X Garbage : Goes(e, 7, g) => Made(e, g) \in policies
         /\ \A p \in policies : \E g \in Garbage \X Garbage : Goes(e, 7, g) /\ Made(e, g) = p
    BY <1>11, <1>12, <1>13, <1>14
  <1>16. Outcomes(e) \ {Null} = policies
    <2>1. Yields(e, 7, policies)
      BY <1>3, <1>5, <1>6, <1>15 DEF Yields
    <2> QED BY <2>1, OutcomesAre
  <1> QED BY <1>2, <1>11, <1>14, <1>16

\* A hits policy is read as it was asked for, or rejected.
LEMMA HitsAsAsked ==
    ASSUME AnyStack, NEW answer \in Answers, answer.type = "hitspolicy"
    PROVE  Outcomes(HitsLines(answer)) \ {Null} =
               IF Sensible(answer) THEN {PolicyFor(answer)} ELSE {}
  <1>1. PICK hits \in Ints : answer = [type |-> "hitspolicy", hits |-> hits]
    BY AnswersAssumption DEF Answers
  <1>2. PICK e : e = HitsLines(answer)
    OBVIOUS
  <1>3. hits \in Int /\ IntMax \in Nat /\ Garbage \subseteq Ints /\ Ints \subseteq Int
    BY ParserAssumption DEF Ints
  <1>4. /\ e.type = "hitspolicy" /\ Len(e.children) = 5
        /\ \A k \in {1, 3, 5} : e.children[k] = Blank
        /\ e.children[2] = Name
        /\ e.children[4] = Tag("minimumhits", hits)
    BY <1>1, <1>2, <1>3, HitsChildren
  <1>5. \A k \in 1..5 : k \in {1, 3, 5} \/ k = 2 \/ k = 4
    OBVIOUS
  <1>6. Tags(e.type) = {"minimumhits"}
    BY <1>4 DEF Tags
  <1>7. \A k \in 1..5 : ~Kills(e, k) /\ ~Unfit(e, k)
    BY <1>3, <1>4, <1>5, <1>6, NothingAssumption, TextAssumption
       DEF Kills, Unfit, Blank, Name, Tag
  <1>8. OnlyAt(e, "minimumhits", 5, 4)
    BY <1>4, <1>5 DEF OnlyAt, Blank, Name, Tag
  <1>9. \A k \in 1..5 : \A g : Held(e, "minimumhits", k, g) = IF k < 4 THEN g ELSE hits
    <2>1. \A k \in 1..5 : \A g :
              Held(e, "minimumhits", k, g) = IF k < 4 THEN g ELSE e.children[4].value
      BY <1>8, HeldFrom
    <2>2. e.children[4].value = hits
      BY <1>4 DEF Tag
    <2> QED BY <2>1, <2>2
  <1>10. (Sensible(answer) <=> 0 <= hits) /\ PolicyFor(answer) = answer /\ answer \in Policy
    BY <1>1 DEF Sensible, PolicyFor, Policy
  <1>11. ASSUME NEW g \in Garbage \X Garbage, Goes(e, 5, g)
         PROVE  Sensible(answer) /\ Made(e, g) = answer
    <2>1. Held(e, "minimumhits", 5, g[1]) = hits
      BY <1>9
    <2>2. ~(hits < 0)
      BY <1>4, <1>11, <2>1 DEF Goes, Disorder
    <2> QED BY <1>1, <1>3, <1>4, <1>10, <2>1, <2>2 DEF Made
  <1>12. ASSUME Sensible(answer)
         PROVE  \E g \in Garbage \X Garbage : Goes(e, 5, g)
    <2>1. <<0, 0>> \in Garbage \X Garbage
      BY DEF AnyStack
    <2>2. ASSUME NEW k \in 1..5 PROVE ~Disorder(e, k, <<0, 0>>)
      <3>1. Held(e, "minimumhits", k, 0) = IF k < 4 THEN 0 ELSE hits
        BY <1>9
      <3>2. ~(Held(e, "minimumhits", k, 0) < 0)
        BY <1>3, <1>10, <1>12, <3>1
      <3> QED BY <1>4, <3>2 DEF Disorder
    <2> QED BY <1>7, <2>1, <2>2 DEF Goes
  <1>13. PICK policies : policies = IF Sensible(answer) THEN {answer} ELSE {}
    OBVIOUS
  <1>14. Yields(e, 5, policies)
    BY <1>4, <1>6, <1>7, <1>10, <1>11, <1>12, <1>13 DEF Yields
  <1> QED BY <1>2, <1>10, <1>13, <1>14, OutcomesAre

\* A number that fits is converted as it is.
LEMMA FittingInt ==
    ASSUME NEW n \in Ints
    PROVE  ToInt(n) = n
  <1>1. IntMax \in Nat
    BY ParserAssumption
  <1> DEFINE m == 2 * (IntMax + 1)  x == n + IntMax + 1
  <1>2. m \in Nat \ {0} /\ x \in Nat /\ x < m /\ x - (IntMax + 1) = n
    BY <1>1 DEF Ints
  <1>3. ToInt(n) = (x % m) - (IntMax + 1)
    BY DEF ToInt
  <1> HIDE DEF m, x
  <1>4. x % m = x
    BY <1>2
  <1> QED BY <1>2, <1>3, <1>4

\* The seconds that the parser adds up are those that were asked for, in whatever
\* order either of the two takes the units.
LEMMA TotalAddsUp ==
    ASSUME NEW answer, NEW units \in [Units -> Ints], answer.units = units
    PROVE  TotalSeconds(TimeLines(answer)) = SixUnits(InSeconds(units))
  <1>1. PICK e : e = TimeLines(answer)
    OBVIOUS
  <1>2. /\ Len(e.children) = 15
        /\ \A k \in {1, 3, 5, 7, 9, 11, 13, 15} : e.children[k] = Blank
        /\ e.children[2] = Name
        /\ e.children[4] = Tag("years", units["years"])
        /\ e.children[6] = Tag("months", units["months"])
        /\ e.children[8] = Tag("days", units["days"])
        /\ e.children[10] = Tag("hours", units["hours"])
        /\ e.children[12] = Tag("minutes", units["minutes"])
        /\ e.children[14] = Tag("seconds", units["seconds"])
    BY <1>1, TimeChildren
  <1>3. {i \in 1..15 : e.children[i].tag \in Units} = {4, 6, 8, 10, 12, 14}
    <2>1. \A i \in 1..15 : \/ i \in {1, 3, 5, 7, 9, 11, 13, 15} \/ i = 2
                           \/ i \in {4, 6, 8, 10, 12, 14}
      OBVIOUS
    <2>2. \A i \in {1, 3, 5, 7, 9, 11, 13, 15} : e.children[i].tag \notin Units
      BY <1>2 DEF Blank, Tag, Units
    <2>3. e.children[2].tag \notin Units
      BY <1>2 DEF Name, Tag, Units
    <2>4. \A i \in {4, 6, 8, 10, 12, 14} : e.children[i].tag \in Units
      BY <1>2 DEF Tag, Units
    <2>5. {4, 6, 8, 10, 12, 14} \subseteq 1..15
      OBVIOUS
    <2> QED BY <2>1, <2>2, <2>3, <2>4, <2>5
  <1>4. PICK I : I = {4, 6, 8, 10, 12, 14}
    OBVIOUS
  <1> DEFINE Term(i) == e.children[i].value * Seconds[e.children[i].tag]
             F == [i \in I |-> Term(i)]
             Body(iter) == iter = [s \in SUBSET I |->
                 IF s = {} THEN 0
                 ELSE e.children[CHOOSE x \in s : TRUE].value
                          * Seconds[e.children[CHOOSE x \in s : TRUE].tag]
                      + iter[s \ {CHOOSE x \in s : TRUE}]]
             sum == CHOOSE iter : Body(iter)
  <1>5. TotalSeconds(e) = sum[I]
    <2>1. I = {i \in 1..Len(e.children) : e.children[i].tag \in Units}
      BY <1>2, <1>3, <1>4
    <2> QED BY <2>1 DEF TotalSeconds, MapThenSumSet, MapThenFoldSet
  <1>6. /\ \A u \in Units : units[u] \in Int /\ Seconds[u] \in Int
        /\ \A m, n \in Int : m * n \in Int
    BY ParserAssumption DEF Ints
  <1>7. LET x == InSeconds(units) IN
        /\ F[4] = x["years"] /\ F[6] = x["months"] /\ F[8] = x["days"]
        /\ F[10] = x["hours"] /\ F[12] = x["minutes"] /\ F[14] = x["seconds"]
    BY <1>2, <1>4 DEF InSeconds, Units, Tag
  <1>8. F \in [I -> Int]
    <2>1. \A i \in I : Term(i) \in Int
      <3>1. \A i \in I : e.children[i].tag \in Units
                         /\ e.children[i].value = units[e.children[i].tag]
        BY <1>2, <1>4 DEF Tag, Units
      <3> QED BY <1>6, <3>1
    <2> QED BY <2>1
  <1>9. \A iter : Body(iter) <=> Summing(F, I, iter)
    <2>1. \A s \in SUBSET I : s # {} =>
              F[CHOOSE x \in s : TRUE] = Term(CHOOSE x \in s : TRUE)
      <3> SUFFICES ASSUME NEW s \in SUBSET I, s # {}
                   PROVE  F[CHOOSE x \in s : TRUE] = Term(CHOOSE x \in s : TRUE)
        OBVIOUS
      <3>1. PICK x : x = CHOOSE y \in s : TRUE
        OBVIOUS
      <3>2. x \in I
        BY <3>1
      <3>3. F[x] = Term(x)
        BY <3>2
      <3> HIDE DEF F, Term
      <3> QED BY <3>1, <3>3
    <2> HIDE DEF F
    <2> QED BY <2>1 DEF Summing
  <1>10. SumsTo(F, I, 4, 6, 8, 10, 12, 14)
    <2> HIDE DEF F
    <2>1. AreAll(I, 4, 6, 8, 10, 12, 14)
      BY <1>4 DEF AreAll
    <2> QED BY <1>8, <2>1, SumOfSix
  <1> HIDE DEF F, Body
  <1>11. Body(sum)
    BY <1>9, <1>10 DEF SumsTo
  <1>12. sum[I] = F[4] + (F[6] + (F[8] + (F[10] + (F[12] + F[14]))))
    BY <1>9, <1>10, <1>11 DEF SumsTo
  <1> HIDE DEF sum
  <1> QED BY <1>1, <1>5, <1>7, <1>12 DEF SixUnits

\* A time policy that fits an int is read as it was asked for, or rejected.
LEMMA TimeAsAsked ==
    ASSUME AnyStack, NEW answer \in Answers, answer.type = "timepolicy",
           AgeFits(TimeLines(answer))
    PROVE  Outcomes(TimeLines(answer)) \ {Null} =
               IF Sensible(answer) THEN {PolicyFor(answer)} ELSE {}
  <1>1. PICK units \in [Units -> Ints] : answer = [type |-> "timepolicy", units |-> units]
    BY AnswersAssumption DEF Answers
  <1>2. PICK e : e = TimeLines(answer)
    OBVIOUS
  <1>3. /\ e.type = "timepolicy" /\ Len(e.children) = 15
        /\ \A k \in {1, 3, 5, 7, 9, 11, 13, 15} : e.children[k] = Blank
        /\ e.children[2] = Name
        /\ e.children[4] = Tag("years", units["years"])
        /\ e.children[6] = Tag("months", units["months"])
        /\ e.children[8] = Tag("days", units["days"])
        /\ e.children[10] = Tag("hours", units["hours"])
        /\ e.children[12] = Tag("minutes", units["minutes"])
        /\ e.children[14] = Tag("seconds", units["seconds"])
    BY <1>1, <1>2, TimeChildren
  <1>4. \A k \in 1..15 : \/ k \in {1, 3, 5, 7, 9, 11, 13, 15} \/ k = 2
                         \/ k \in {4, 6, 8, 10, 12, 14}
    OBVIOUS
  <1>5. Tags(e.type) = Units /\ Units # {} /\ IntMax \in Nat /\ Ints \subseteq Int
    BY <1>3, ParserAssumption DEF Tags, Ints, Units
  <1>6. \A k \in 1..15 :
            \/ e.children[k] \in {Blank, Name}
            \/ e.children[k].tag \in Units /\ e.children[k].value = units[e.children[k].tag]
    BY <1>3, <1>4 DEF Tag, Units
  <1>7. \A u \in Units : \E k \in 1..15 :
            e.children[k].tag = u /\ e.children[k].value = units[u]
    BY <1>3 DEF Tag, Units
  <1>8. \A k \in 1..15 : ~Kills(e, k) /\ ~Unfit(e, k)
    <2> SUFFICES ASSUME NEW k \in 1..15 PROVE ~Kills(e, k) /\ ~Unfit(e, k)
      OBVIOUS
    <2>1. Text # Nothing /\ "text" \notin Units /\ "name" \notin Units
      BY NothingAssumption, TextAssumption DEF Units
    <2>2. CASE e.children[k] \in {Blank, Name}
      <3>1. e.children[k].tag \notin Units /\ e.children[k].value # Nothing
        BY <2>1, <2>2 DEF Blank, Name, Tag
      <3> QED BY <1>5, <3>1 DEF Kills, Unfit
    <2>3. CASE /\ e.children[k].tag \in Units
               /\ e.children[k].value = units[e.children[k].tag]
      <3>1. e.children[k].value \in Ints
        BY <1>1, <2>3
      <3>2. e.children[k].value # Nothing
        BY <1>5, <3>1, NothingAssumption
      <3> QED BY <1>5, <3>1, <3>2 DEF Kills, Unfit
    <2> QED BY <1>6, <2>2, <2>3
  <1>9. /\ Sensible(answer) <=> \A u \in Units : 0 <= units[u]
        /\ TotalSeconds(e) = SixUnits(InSeconds(units))
        /\ PolicyFor(answer) = [type |-> "timepolicy",
                                minimumAge |-> SixUnits(InSeconds(units))]
    <2>1. MapThenSumSet(LAMBDA u : answer.units[u] * Seconds[u], Units) =
              SixUnits(InSeconds(answer.units))
      BY <1>1, AgeAddsUp
    <2> QED BY <1>1, <1>2, <2>1, TotalAddsUp DEF Sensible, PolicyFor
  <1>10. /\ TotalSeconds(e) \in Ints /\ ToInt(TotalSeconds(e)) = TotalSeconds(e)
         /\ PolicyFor(answer) \in Policy
    <2>1. TotalSeconds(e) \in Ints
      BY <1>2, <1>3 DEF AgeFits
    <2> QED BY <1>9, <2>1, FittingInt DEF Policy
  <1>11. \A g : Made(e, g) = PolicyFor(answer)
    BY <1>3, <1>9, <1>10 DEF Made
  <1>12. \A g : Goes(e, 15, g) <=> Sensible(answer)
    <2>1. \A g, k : Disorder(e, k, g) <=> e.children[k].tag \in Units /\ e.children[k].value < 0
      BY <1>3 DEF Disorder
    <2>2. \A g : Goes(e, 15, g) <=> \A k \in 1..15 : ~Disorder(e, k, g)
      BY <1>8 DEF Goes
    <2>3. \A u \in Units : units[u] \in Int
      BY <1>5
    <2>4. Blank.tag \notin Units /\ Name.tag \notin Units
      BY DEF Blank, Name, Tag, Units
    <2> HIDE DEF Units
    <2>5. (\A k \in 1..15 : ~(e.children[k].tag \in Units /\ e.children[k].value < 0))
              <=> \A u \in Units : ~(units[u] < 0)
      BY <1>6, <1>7, <2>4
    <2>6. \A u \in Units : ~(units[u] < 0) <=> 0 <= units[u]
      BY <2>3
    <2> QED BY <1>9, <2>1, <2>2, <2>5, <2>6
  <1>13. PICK policies : policies = IF Sensible(answer) THEN {PolicyFor(answer)} ELSE {}
    OBVIOUS
  <1>14. \E g : g \in Garbage \X Garbage
    <2>1. <<0, 0>> \in Garbage \X Garbage
      BY DEF AnyStack
    <2> QED BY <2>1
  <1>15. Yields(e, 15, policies)
    BY <1>3, <1>5, <1>8, <1>10, <1>11, <1>12, <1>13, <1>14 DEF Yields
  <1> QED BY <1>2, <1>13, <1>15, OutcomesAre

\* The element that the generator writes for an answer.
LinesFor(answer) == CASE answer.type = "sizepolicy" -> SizeLines(answer)
                      [] answer.type = "hitspolicy" -> HitsLines(answer)
                      [] answer.type = "timepolicy" -> TimeLines(answer)

\* Whatever the policy, the parser reads it as it was asked for, or rejects it.
LEMMA AsAsked ==
    ASSUME AnyStack, NEW answer \in Answers, AgeFits(LinesFor(answer))
    PROVE  Outcomes(LinesFor(answer)) \ {Null} =
               IF Sensible(answer) THEN {PolicyFor(answer)} ELSE {}
  <1>1. answer.type \in {"sizepolicy", "hitspolicy", "timepolicy"}
    BY DEF Answers
  <1>2. CASE answer.type = "sizepolicy"
    BY <1>2, SizeAsAsked DEF LinesFor
  <1>3. CASE answer.type = "hitspolicy"
    BY <1>3, HitsAsAsked DEF LinesFor
  <1>4. CASE answer.type = "timepolicy"
    BY <1>4, TimeAsAsked DEF LinesFor
  <1> QED BY <1>1, <1>2, <1>3, <1>4

-----------------------------------------------------------------------------
(***************************************************************************)
(* The dialogue.                                                           *)
(***************************************************************************)
Elements == {LinesFor(answer) : answer \in Answers}

\* The list of elements is what is written for the list of answers.
Writes(elements, answers) ==
    /\ Len(elements) = Len(answers)
    /\ \A j \in 1..Len(answers) : elements[j] = LinesFor(answers[j])

\* A list is asked for, and not begun.
Beginning == gpc = "lists" /\ createNewPolicyList

\* There is no policy in it yet: the inner loop is sure to ask for one.
Fresh == Beginning \/ gpc \in {"type", "jammed"} \/ (gpc = "policies" /\ createNewPolicy)

Flags == createNewPolicyList \in BOOLEAN /\ createNewPolicy \in BOOLEAN /\ capital \in BOOLEAN

Lists == /\ asked \in Seq(Seq(Answers)) /\ asked # <<>>
         /\ written \in Seq(Seq(Elements))

\* The file has what was asked for up to now.
SoFar ==
    /\ Len(written) = IF Beginning THEN Len(asked) - 1 ELSE Len(asked)
    /\ \A i \in 1..Len(written) : Writes(written[i], asked[i])
    /\ \A i \in 1..Len(asked) - 1 : asked[i] # <<>>
    /\ Beginning => createNewPolicy /\ asked[Len(asked)] = <<>>
    /\ asked[Len(asked)] = <<>> => Fresh

DialogueInv == Flags /\ Lists /\ (capital \/ SoFar)

\* What belongs to a list.
LEMMA ElementsOf ==
    ASSUME NEW T, NEW s \in Seq(T)
    PROVE  /\ Len(s) \in Nat /\ DOMAIN s = 1..Len(s)
           /\ \A i \in 1..Len(s) : s[i] \in T
           /\ s # <<>> => Len(s) \in Nat \ {0} /\ Len(s) \in 1..Len(s)
  OBVIOUS

\* One more at the end of a list.
LEMMA OneAtTheEnd ==
    ASSUME NEW T, NEW s \in Seq(T), NEW x \in T
    PROVE  /\ Append(s, x) \in Seq(T) /\ Append(s, x) # <<>>
           /\ Len(Append(s, x)) = Len(s) + 1
           /\ Append(s, x)[Len(s) + 1] = x
           /\ \A i \in 1..Len(s) : Append(s, x)[i] = s[i]
  OBVIOUS

\* Without a list there is no last one.
LEMMA NothingAtTheEnd ==
    ASSUME NEW T, NEW x PROVE ToLast(<<>>, x) \in Seq(T)
  <1>1. DOMAIN <<>> = {} /\ Len(<<>>) = 0
    OBVIOUS
  <1>2. ToLast(<<>>, x) = [<<>> EXCEPT ![0] = Append(<<>>[0], x)]
    BY <1>1 DEF ToLast
  <1>3. \A y : [<<>> EXCEPT ![0] = y] = <<>>
    BY <1>1
  <1> QED BY <1>2, <1>3

\* The lists that were asked for, and those written.
LEMMA ListsOf ==
    ASSUME Lists
    PROVE  /\ Len(asked) \in Nat \ {0} /\ Len(asked) \in 1..Len(asked)
           /\ DOMAIN asked = 1..Len(asked)
           /\ \A i \in 1..Len(asked) : asked[i] \in Seq(Answers)
           /\ Len(written) \in Nat
           /\ \A i \in 1..Len(written) : written[i] \in Seq(Elements)
  <1>1. asked \in Seq(Seq(Answers)) /\ asked # <<>> /\ written \in Seq(Seq(Elements))
    BY DEF Lists
  <1>2. /\ Len(asked) \in Nat \ {0} /\ Len(asked) \in 1..Len(asked)
        /\ DOMAIN asked = 1..Len(asked)
        /\ \A i \in 1..Len(asked) : asked[i] \in Seq(Answers)
    BY <1>1, ElementsOf
  <1>3. /\ Len(written) \in Nat
        /\ \A i \in 1..Len(written) : written[i] \in Seq(Elements)
    BY <1>1, ElementsOf
  <1> QED BY <1>2, <1>3

\* One more at the end of the last list.
LEMMA ToLastElements ==
    ASSUME NEW T, NEW lists \in Seq(Seq(T)), lists # <<>>, NEW x \in T
    PROVE  /\ ToLast(lists, x) \in Seq(Seq(T)) /\ ToLast(lists, x) # <<>>
           /\ Len(ToLast(lists, x)) = Len(lists) /\ Len(lists) \in Nat \ {0}
           /\ ToLast(lists, x)[Len(lists)] = Append(lists[Len(lists)], x)
           /\ \A i \in 1..Len(lists) - 1 : ToLast(lists, x)[i] = lists[i]
  <1>1. Len(lists) \in Nat \ {0} /\ Len(lists) \in 1..Len(lists)
    OBVIOUS
  <1>2. lists[Len(lists)] \in Seq(T)
    BY <1>1
  <1>3. Append(lists[Len(lists)], x) \in Seq(T)
    BY <1>2
  <1> QED BY <1>1, <1>3 DEF ToLast

\* One answer more in the last list that was asked for.
LEMMA OneAnswerMore ==
    ASSUME NEW lists \in Seq(Seq(Answers)), lists # <<>>, NEW answer \in Answers
    PROVE  /\ ToLast(lists, answer) \in Seq(Seq(Answers)) /\ ToLast(lists, answer) # <<>>
           /\ Len(ToLast(lists, answer)) = Len(lists) /\ Len(lists) \in Nat \ {0}
           /\ ToLast(lists, answer)[Len(lists)] = Append(lists[Len(lists)], answer)
           /\ \A i \in 1..Len(lists) - 1 : ToLast(lists, answer)[i] = lists[i]
  BY ToLastElements

\* One element more in the last list that was written.
LEMMA OneElementMore ==
    ASSUME NEW lists \in Seq(Seq(Elements)), lists # <<>>, NEW element \in Elements
    PROVE  /\ ToLast(lists, element) \in Seq(Seq(Elements)) /\ ToLast(lists, element) # <<>>
           /\ Len(ToLast(lists, element)) = Len(lists) /\ Len(lists) \in Nat \ {0}
           /\ ToLast(lists, element)[Len(lists)] = Append(lists[Len(lists)], element)
           /\ \A i \in 1..Len(lists) - 1 : ToLast(lists, element)[i] = lists[i]
  BY ToLastElements

\* One element more for one answer more.
LEMMA WritesOneMore ==
    ASSUME NEW answers \in Seq(Answers), NEW answer \in Answers,
           NEW elements \in Seq(Elements), Writes(elements, answers)
    PROVE  Writes(Append(elements, LinesFor(answer)), Append(answers, answer))
  <1>1. LinesFor(answer) \in Elements
    BY DEF Elements
  <1> QED BY <1>1 DEF Writes

\* The dialogue begins with nothing written and one list asked for.
LEMMA DialogueBegins == Init => DialogueInv
  <1> SUFFICES ASSUME Init PROVE DialogueInv
    OBVIOUS
  <1>1. /\ gpc = "lists" /\ written = <<>> /\ asked = <<<<>>>>
        /\ createNewPolicyList = TRUE /\ createNewPolicy = TRUE /\ capital = FALSE
    BY DEF Init
  <1>2. Flags
    BY <1>1 DEF Flags
  <1>3. Lists /\ Len(asked) = 1 /\ asked[1] = <<>> /\ Len(written) = 0
    BY <1>1 DEF Lists
  <1>4. Beginning /\ Fresh
    BY <1>1 DEF Beginning, Fresh
  <1>5. SoFar
    BY <1>1, <1>3, <1>4 DEF SoFar
  <1> QED BY <1>2, <1>3, <1>5 DEF DialogueInv

\* An element is written.
LEMMA AddKeeps ==
    ASSUME DialogueInv, NEW answer \in Answers, AddElement(answer, LinesFor(answer))
    PROVE  DialogueInv'
  <1>1. /\ gpc = "type" /\ gpc' = "another policy?"
        /\ UNCHANGED <<createNewPolicyList, createNewPolicy, capital>>
        /\ written' = ToLast(written, LinesFor(answer))
        /\ asked' = ToLast(asked, answer)
    BY DEF AddElement, Turn
  <1>2. LinesFor(answer) \in Elements
    BY DEF Elements
  <1>3. Flags /\ Lists /\ Len(asked) \in Nat \ {0} /\ Len(asked) \in 1..Len(asked)
    BY ListsOf DEF DialogueInv
  <1>4. /\ asked' \in Seq(Seq(Answers)) /\ asked' # <<>>
        /\ Len(asked') = Len(asked)
        /\ asked'[Len(asked)] = Append(asked[Len(asked)], answer)
        /\ \A i \in 1..Len(asked) - 1 : asked'[i] = asked[i]
    <2>1. asked \in Seq(Seq(Answers)) /\ asked # <<>>
      BY <1>3 DEF Lists
    <2> QED BY <1>1, <2>1, OneAnswerMore
  <1>5. written' \in Seq(Seq(Elements))
    <2>1. CASE written = <<>>
      BY <1>1, <2>1, NothingAtTheEnd
    <2>2. CASE written # <<>>
      <3>1. written \in Seq(Seq(Elements))
        BY <1>3 DEF Lists
      <3> QED BY <1>1, <1>2, <2>2, <3>1, OneElementMore
    <2> QED BY <2>1, <2>2
  <1>6. Lists' /\ Flags'
    BY <1>1, <1>3, <1>4, <1>5 DEF Lists, Flags
  <1>7. ASSUME SoFar PROVE SoFar'
    <2>1. ~Beginning /\ ~Beginning' /\ Len(written) = Len(asked)
      BY <1>1, <1>7 DEF Beginning, SoFar
    <2>2. /\ Len(written') = Len(written)
          /\ written'[Len(written)] = Append(written[Len(written)], LinesFor(answer))
          /\ \A i \in 1..Len(written) - 1 : written'[i] = written[i]
      <3>1. written \in Seq(Seq(Elements))
        BY <1>3 DEF Lists
      <3>2. written # <<>>
        BY <1>3, <2>1, <3>1
      <3>3. PICK element \in Elements : element = LinesFor(answer)
        BY <1>2
      <3>4. written' = ToLast(written, element)
        BY <1>1, <3>3
      <3>5. /\ Len(written') = Len(written) /\ Len(written) \in Nat \ {0}
            /\ written'[Len(written)] = Append(written[Len(written)], element)
            /\ \A i \in 1..Len(written) - 1 : written'[i] = written[i]
        BY <3>1, <3>2, <3>4, OneElementMore
      <3> QED BY <3>3, <3>5
    <2>3. Writes(written'[Len(asked)], asked'[Len(asked)])
      <3>1. asked[Len(asked)] \in Seq(Answers) /\ written[Len(asked)] \in Seq(Elements)
        BY <1>3, <2>1, ListsOf
      <3>2. Writes(written[Len(asked)], asked[Len(asked)])
        BY <1>3, <1>7, <2>1 DEF SoFar
      <3> QED BY <1>4, <2>1, <2>2, <3>1, <3>2, WritesOneMore
    <2>4. ASSUME NEW i \in 1..Len(asked) PROVE Writes(written'[i], asked'[i])
      <3>1. CASE i = Len(asked)
        BY <2>3, <3>1
      <3>2. CASE i # Len(asked)
        <4>1. i \in 1..Len(asked) - 1 /\ i \in 1..Len(written)
          BY <1>3, <2>1, <3>2
        <4>2. written'[i] = written[i] /\ asked'[i] = asked[i]
          BY <1>4, <2>1, <2>2, <4>1
        <4>3. Writes(written[i], asked[i])
          BY <1>7, <4>1 DEF SoFar
        <4> QED BY <4>2, <4>3
      <3> QED BY <3>1, <3>2
    <2>5. ASSUME NEW i \in 1..Len(asked) PROVE asked'[i] # <<>>
      <3>1. CASE i = Len(asked)
        <4>1. asked[Len(asked)] \in Seq(Answers)
          BY <1>3, ListsOf
        <4> QED BY <1>4, <3>1, <4>1, OneAtTheEnd
      <3>2. CASE i # Len(asked)
        <4>1. i \in 1..Len(asked) - 1
          BY <1>3, <3>2
        <4>2. asked'[i] = asked[i] /\ asked[i] # <<>>
          BY <1>4, <1>7, <4>1 DEF SoFar
        <4> QED BY <4>2
      <3> QED BY <3>1, <3>2
    <2>6. /\ Len(written') = Len(asked') /\ Len(asked') = Len(asked)
          /\ Len(asked) \in 1..Len(asked) /\ Len(asked) \in Nat
      BY <1>3, <1>4, <2>1, <2>2
    <2> QED BY <2>1, <2>4, <2>5, <2>6 DEF SoFar
  <1> QED BY <1>1, <1>6, <1>7 DEF DialogueInv

\* Another list is begun, or asked for.
LEMMA ListKeeps ==
    ASSUME DialogueInv, StartList \/ AnotherList
    PROVE  DialogueInv'
  <1>0. /\ Flags /\ Lists /\ asked \in Seq(Seq(Answers)) /\ asked # <<>>
        /\ Len(asked) \in Nat \ {0} /\ Len(asked) \in 1..Len(asked)
        /\ written \in Seq(Seq(Elements)) /\ Len(written) \in Nat
    BY ListsOf DEF DialogueInv, Lists
  <1>1. CASE StartList
    <2>1. /\ Beginning /\ gpc' = "policies"
          /\ written' = Append(written, <<>>)
          /\ UNCHANGED <<createNewPolicyList, createNewPolicy, asked, capital>>
      BY <1>1 DEF StartList, Turn, Beginning
    <2>2. /\ written' \in Seq(Seq(Elements)) /\ Len(written') = Len(written) + 1
          /\ written'[Len(written) + 1] = <<>>
          /\ \A i \in 1..Len(written) : written'[i] = written[i]
      <3>1. <<>> \in Seq(Elements)
        OBVIOUS
      <3> QED BY <1>0, <2>1, <3>1, OneAtTheEnd
    <2>3. Lists' /\ Flags'
      BY <1>0, <2>1, <2>2 DEF Lists, Flags
    <2>4. ASSUME SoFar PROVE SoFar'
      <3>1. /\ Len(written) = Len(asked) - 1 /\ createNewPolicy
            /\ asked[Len(asked)] = <<>>
        BY <2>1, <2>4 DEF SoFar
      <3>2. ~Beginning' /\ Fresh'
        BY <2>1, <3>1 DEF Beginning, Fresh
      <3>3. Writes(<<>>, <<>>)
        BY DEF Writes
      <3>4. Len(written') = Len(asked)
        BY <1>0, <2>2, <3>1
      <3>5. ASSUME NEW i \in 1..Len(asked) PROVE Writes(written'[i], asked[i])
        <4>1. CASE i = Len(asked)
          <5>1. Len(written) + 1 = Len(asked)
            BY <1>0, <3>1
          <5> QED BY <2>2, <3>1, <3>3, <4>1, <5>1
        <4>2. CASE i # Len(asked)
          <5>1. i \in 1..Len(written)
            BY <1>0, <3>1, <4>2
          <5>2. Writes(written[i], asked[i]) /\ written'[i] = written[i]
            BY <2>2, <2>4, <5>1 DEF SoFar
          <5> QED BY <5>2
        <4> QED BY <4>1, <4>2
      <3> QED BY <2>1, <2>4, <3>2, <3>4, <3>5 DEF SoFar
    <2> QED BY <2>1, <2>3, <2>4 DEF DialogueInv
  <1>2. CASE AnotherList
    <2>1. PICK reply \in Replies :
              /\ gpc = "another list?"
              /\ gpc' = IF reply = "other" THEN gpc ELSE "lists"
              /\ capital' = (capital \/ reply = "Y")
              /\ written' = written
              /\ createNewPolicyList' = (reply = "y")
              /\ createNewPolicy' = (createNewPolicy \/ reply = "y")
              /\ asked' = IF reply \in Yes THEN Append(asked, <<>>) ELSE asked
      BY <1>2 DEF AnotherList, Reply, Turn
    <2>2. ASSUME reply \in Yes
          PROVE  /\ asked' \in Seq(Seq(Answers)) /\ asked' # <<>>
                 /\ Len(asked') = Len(asked) + 1 /\ asked'[Len(asked) + 1] = <<>>
                 /\ \A i \in 1..Len(asked) : asked'[i] = asked[i]
      <3>1. <<>> \in Seq(Answers)
        OBVIOUS
      <3>2. asked' = Append(asked, <<>>)
        BY <2>1, <2>2
      <3> QED BY <1>0, <3>1, <3>2, OneAtTheEnd
    <2>3. Flags' /\ Lists'
      <3>1. createNewPolicyList' \in BOOLEAN
        BY <2>1
      <3>2. createNewPolicy' \in BOOLEAN
        BY <1>0, <2>1 DEF Flags
      <3>3. capital' \in BOOLEAN
        BY <1>0, <2>1 DEF Flags
      <3>4. asked' \in Seq(Seq(Answers)) /\ asked' # <<>>
        <4>1. CASE reply \in Yes
          BY <2>1, <2>2, <4>1
        <4>2. CASE reply \notin Yes
          BY <1>0, <2>1, <4>2
        <4> QED BY <4>1, <4>2
      <3>5. written' \in Seq(Seq(Elements))
        BY <1>0, <2>1
      <3> QED BY <3>1, <3>2, <3>3, <3>4, <3>5 DEF Flags, Lists
    <2>4. ASSUME SoFar, reply # "Y" PROVE SoFar'
      <3>1. /\ ~Beginning /\ ~Fresh
            /\ Len(written) = Len(asked) /\ asked[Len(asked)] # <<>>
        BY <2>1, <2>4 DEF SoFar, Beginning, Fresh
      <3>2. ASSUME NEW i \in 1..Len(asked)
            PROVE  Writes(written[i], asked[i]) /\ asked[i] # <<>>
        <4>1. i = Len(asked) \/ i \in 1..Len(asked) - 1
          BY <1>0
        <4> QED BY <2>4, <3>1, <4>1 DEF SoFar
      <3>3. CASE reply = "y"
        <4>1. Beginning' /\ createNewPolicy' /\ reply \in Yes
          BY <2>1, <3>3 DEF Beginning, Yes
        <4>2. /\ Len(asked') = Len(asked) + 1 /\ asked'[Len(asked')] = <<>>
              /\ \A i \in 1..Len(asked) : asked'[i] = asked[i]
          BY <2>2, <4>1
        <4>3. Fresh' /\ Len(written') = Len(asked)
          BY <2>1, <3>1, <4>1 DEF Fresh
        <4>5. Len(asked') - 1 = Len(asked)
          BY <1>0, <4>2
        <4>4. ASSUME NEW i \in 1..Len(asked)
              PROVE  Writes(written'[i], asked'[i]) /\ asked'[i] # <<>>
          BY <2>1, <3>2, <4>2
        <4> QED BY <4>1, <4>2, <4>3, <4>4, <4>5 DEF SoFar
      <3>4. CASE reply # "y"
        <4>1. ~Beginning' /\ asked' = asked /\ written' = written
          BY <2>1, <2>4, <3>4 DEF Beginning, Yes
        <4>2. \A i \in 1..Len(asked) - 1 : i \in 1..Len(asked)
          BY <1>0
        <4> QED BY <1>0, <3>1, <3>2, <4>1, <4>2 DEF SoFar
      <3> QED BY <3>3, <3>4
    <2>5. CASE capital'
      BY <2>3, <2>5 DEF DialogueInv
    <2>6. CASE ~capital'
      <3>1. ~capital /\ reply # "Y"
        BY <2>1, <2>6
      <3> QED BY <2>3, <2>4, <3>1 DEF DialogueInv
    <2> QED BY <2>5, <2>6
  <1> QED BY <1>1, <1>2

\* The other questions and the tests of the loops write nothing.
LEMMA TurnsKeep ==
    ASSUME DialogueInv, Install \/ StartPolicy \/ EndList \/ Jam \/ AnotherPolicy
    PROVE  DialogueInv'
  <1>0. /\ Flags /\ Lists /\ Lists'
        /\ written' = written /\ asked' = asked /\ createNewPolicyList' = createNewPolicyList
    BY DEF DialogueInv, Lists, Install, StartPolicy, EndList, Jam, AnotherPolicy, Reply
  <1>1. CASE Install \/ StartPolicy \/ EndList \/ Jam
    <2>1. /\ UNCHANGED <<createNewPolicy, capital>> /\ Flags'
          /\ ~Beginning /\ ~Beginning' /\ (Fresh => Fresh')
      BY <1>0, <1>1 DEF Flags, Install, StartPolicy, EndList, Jam, Turn,
         Beginning, Fresh
    <2> QED BY <1>0, <2>1 DEF DialogueInv, SoFar
  <1>2. CASE AnotherPolicy
    <2>1. PICK reply \in Replies :
              /\ gpc = "another policy?"
              /\ gpc' = IF reply = "other" THEN gpc ELSE "policies"
              /\ capital' = (capital \/ reply = "Y")
              /\ createNewPolicy' = (reply = "y")
      BY <1>2 DEF AnotherPolicy, Reply, Turn
    <2>2. ~Beginning /\ ~Beginning' /\ ~Fresh
      BY <2>1 DEF Beginning, Fresh
    <2>3. Flags'
      BY <1>0, <2>1 DEF Flags
    <2> QED BY <1>0, <2>1, <2>2, <2>3 DEF DialogueInv, SoFar
  <1> QED BY <1>1, <1>2

\* Every step of the dialogue keeps it.
LEMMA DialogueGoesOn == DialogueInv /\ [Next]_vars => DialogueInv'
  <1> SUFFICES ASSUME DialogueInv, [Next]_vars PROVE DialogueInv'
    OBVIOUS
  <1>1. CASE UNCHANGED vars
    BY <1>1 DEF vars, DialogueInv, Flags, Lists, SoFar, Beginning, Fresh
  <1>2. CASE AddSize \/ AddHits \/ AddTime
    <2>1. PICK answer \in Answers : AddElement(answer, LinesFor(answer))
      BY <1>2 DEF AddSize, AddHits, AddTime, LinesFor
    <2> QED BY <2>1, AddKeeps
  <1>3. CASE StartList \/ AnotherList
    BY <1>3, ListKeeps
  <1>4. CASE Install \/ StartPolicy \/ EndList \/ Jam \/ AnotherPolicy
    BY <1>4, TurnsKeep
  <1> QED BY <1>1, <1>2, <1>3, <1>4 DEF Next

\* When the dialogue is over, the file has the lists that were asked for, and the
\* parser makes of each element the policy that was asked for or rejects it: for
\* any number of lists and policies, any numbers, any width of an int, any length
\* of the units and any stack.
THEOREM GeneratedIsAsAsked ==
    ASSUME AnyStack
    PROVE  Spec => []FileIsAsAsked
  <1>1. DialogueInv => FileIsAsAsked
    <2> SUFFICES ASSUME DialogueInv, gpc = "done", ~capital
                 PROVE  /\ Len(written) = Len(asked)
                        /\ \A i \in DOMAIN asked :
                               /\ Len(written[i]) = Len(asked[i]) /\ asked[i] # <<>>
                               /\ \A j \in DOMAIN asked[i] :
                                      AgeFits(written[i][j]) =>
                                          Outcomes(written[i][j]) \ {Null} =
                                              IF Sensible(asked[i][j])
                                              THEN {PolicyFor(asked[i][j])} ELSE {}
      BY DEF FileIsAsAsked
    <2>1. /\ SoFar /\ ~Beginning /\ ~Fresh
          /\ Len(asked) \in Nat \ {0} /\ DOMAIN asked = 1..Len(asked)
          /\ \A i \in 1..Len(asked) : asked[i] \in Seq(Answers)
      BY ListsOf DEF DialogueInv, Beginning, Fresh
    <2>2. Len(written) = Len(asked)
      BY <2>1 DEF SoFar
    <2>3. ASSUME NEW i \in 1..Len(asked)
          PROVE  /\ Writes(written[i], asked[i]) /\ asked[i] # <<>>
                 /\ asked[i] \in Seq(Answers)
      <3>0. Len(asked) \in Nat \ {0}
        BY <2>1
      <3>1. i = Len(asked) \/ i \in 1..Len(asked) - 1
        BY <3>0
      <3>2. asked[i] # <<>>
        BY <2>1, <3>1 DEF SoFar
      <3>3. Writes(written[i], asked[i])
        BY <2>1, <2>2 DEF SoFar
      <3> QED BY <2>1, <3>2, <3>3
    <2>4. ASSUME NEW i \in 1..Len(asked), NEW j \in DOMAIN asked[i],
                 AgeFits(written[i][j])
          PROVE  Outcomes(written[i][j]) \ {Null} =
                     IF Sensible(asked[i][j]) THEN {PolicyFor(asked[i][j])} ELSE {}
      <3>0. PICK answers \in Seq(Answers) : answers = asked[i]
        BY <2>3
      <3>1. Writes(written[i], answers) /\ j \in 1..Len(answers)
        BY <2>3, <2>4, <3>0
      <3>2. answers[j] \in Answers /\ written[i][j] = LinesFor(answers[j])
        BY <3>0, <3>1 DEF Writes
      <3> QED BY <2>4, <3>0, <3>2, AsAsked
    <2>5. ASSUME NEW i \in 1..Len(asked) PROVE Len(written[i]) = Len(asked[i])
      BY <2>3 DEF Writes
    <2> QED BY <2>1, <2>2, <2>3, <2>4, <2>5
  <1> QED BY <1>1, DialogueBegins, DialogueGoesOn, PTL DEF Spec
=============================================================================
