-------------------------- MODULE HousekeepingProofs --------------------------
(***************************************************************************)
(* The invariant of HousekeepingInvariant.tla is inductive: however late   *)
(* the handler is, the catalogue follows the files through every move.     *)
(***************************************************************************)
EXTENDS HousekeepingInvariant, HandlerProofs

-----------------------------------------------------------------------------
(***************************************************************************)
(* Forecasts, whatever the files are.                                      *)
(***************************************************************************)

\* The kinds are told apart.
LEMMA KindsDiffer ==
    /\ Absent \notin Files /\ Hot \notin Files /\ Absent # Hot
    /\ Absent \in Kinds /\ Hot \in Kinds /\ Files \subseteq Kinds
    /\ \A k \in Kinds : k = Absent \/ k = Hot \/ k \in Files
  BY NamesAssumption DEF Absent, Hot, Kinds

\* The views on either side of an event, file by file.
LEMMA FollowsFields ==
    ASSUME NEW e \in Events, NEW v \in Views, NEW w \in Views, Follows(e, v, w)
    PROVE  /\ e.type \in {"create", "open", "modify", "close", "delete"} =>
                  /\ w.old = v.old
                  /\ \A f \in Files : f # e.file => w.hash[f] = v.hash[f]
           /\ e.type = "create" =>
                  w.hash[e.file] = IF v.hash[e.file] = Absent THEN Hot ELSE v.hash[e.file]
           /\ e.type = "open" => v.hash[e.file] # Absent /\ w.hash[e.file] = Hot
           /\ e.type \in {"modify", "close"} => v.hash[e.file] # Absent /\ w = v
           /\ e.type = "delete" => w.hash[e.file] = Absent
           /\ e.type = "movedFrom" =>
                  v.old = None /\ w.old = e.file /\ w.hash = v.hash
           /\ e.type = "movedTo" =>
                  /\ v.old \in Files /\ v.hash[v.old] # Absent /\ w.old = None
                  /\ w.hash[e.file] = v.hash[v.old]
                  /\ \A f \in Files : f # e.file =>
                         w.hash[f] = IF f = v.old THEN Absent ELSE v.hash[f]
  BY DEF Follows, Views, Events

\* An event moves an object to another file, or leaves it where it is; it brings
\* none.
LEMMA FollowsTraces ==
    ASSUME NEW e \in Events, NEW v \in Views, NEW w \in Views, Follows(e, v, w),
           NEW f \in Files, w.hash[f] \in Files
    PROVE  /\ \E g \in Files : v.hash[g] = w.hash[f]
           /\ v.hash[f] = w.hash[f] \/ e = Ev("movedTo", f)
  <1>1. e.type \in {"create", "open", "modify", "close", "delete", "movedFrom", "movedTo"}
        /\ e.file \in Files /\ e = [type |-> e.type, file |-> e.file]
    BY DEF Events, EventTypes
  <1>2. CASE e.type \in {"create", "open", "modify", "close", "delete", "movedFrom"}
    <2>1. v.hash[f] = w.hash[f]
      BY <1>1, <1>2, FollowsFields, KindsDiffer
    <2> QED BY <2>1
  <1>3. CASE e.type = "movedTo"
    <2>1. CASE f = e.file
      BY <1>1, <1>3, <2>1, FollowsFields DEF Ev
    <2>2. CASE f # e.file
      BY <1>1, <1>3, <2>2, FollowsFields, KindsDiffer
    <2> QED BY <2>1, <2>2
  <1> QED BY <1>1, <1>2, <1>3

\* The forecast h for q, and then the view w.
Then(q, h, w) == [i \in 1..Len(q) + 2 |-> IF i = Len(q) + 2 THEN w ELSE h[i]]

\* A queue with one event more.
LEMMA AppendElements ==
    ASSUME NEW q \in Seq(Events), NEW e \in Events
    PROVE  /\ Append(q, e) \in Seq(Events)
           /\ Len(Append(q, e)) = Len(q) + 1
           /\ Len(q) \in Nat
           /\ Append(q, e)[Len(q) + 1] = e
           /\ \A i \in 1..Len(q) : Append(q, e)[i] = q[i]
  OBVIOUS

\* A forecast with one view more.
LEMMA ThenElements ==
    ASSUME NEW q \in Seq(Events), NEW h \in [1..Len(q) + 1 -> Views], NEW w \in Views
    PROVE  /\ Len(q) \in Nat
           /\ Then(q, h, w) \in [1..Len(q) + 2 -> Views]
           /\ Then(q, h, w)[Len(q) + 2] = w
           /\ \A i \in 1..Len(q) + 1 : Then(q, h, w)[i] = h[i]
           /\ \A i \in 1..Len(q) : i \in 1..Len(q) + 1 /\ i + 1 \in 1..Len(q) + 1
           /\ 1 \in 1..Len(q) + 1 /\ Len(q) + 1 \in 1..Len(q) + 1 /\ Len(q) + 2 \in 1..Len(q) + 2
           /\ \A i \in 1..Len(q) + 2 : i \in 1..Len(q) + 1 \/ i = Len(q) + 2
           /\ \A i \in 1..Len(q) + 1 : (i \in 1..Len(q) \/ i = Len(q) + 1) /\ i \in 1..Len(q) + 2
  <1>1. Len(q) \in Nat
    OBVIOUS
  <1> QED BY <1>1 DEF Then

\* One event more.
LEMMA AddEvent ==
    ASSUME NEW q \in Seq(Events), NEW h, NEW fetched \in SUBSET Files,
           Plausible(q, h, fetched),
           NEW e \in Events, NEW w \in Views, Follows(e, Last(q, h), w),
           \A f \in Files : f \in fetched \/ (\E o \in Files : Wants(q, h, f, o)) =>
               w.hash[f] = Hot
    PROVE  \E h2 : /\ Plausible(Append(q, e), h2, fetched)
                   /\ h2[1] = h[1]
                   /\ Last(Append(q, e), h2) = w
                   /\ \A f, o \in Files : Wants(Append(q, e), h2, f, o) <=>
                          \/ Wants(q, h, f, o)
                          \/ e = Ev("open", f) /\ Last(q, h).hash[f] = o
  <1> DEFINE n == Len(q)
             q2 == Append(q, e)
             h2 == Then(q, h, w)
  <1>1. h \in [1..n + 1 -> Views] /\ \A i \in 1..n : Follows(q[i], h[i], h[i + 1])
    BY DEF Plausible, Forecasts
  <1>2. /\ q2 \in Seq(Events) /\ Len(q2) = n + 1 /\ n \in Nat /\ q2[n + 1] = e
        /\ \A i \in 1..n : q2[i] = q[i]
    BY AppendElements
  <1>3. /\ h2 \in [1..n + 2 -> Views] /\ h2[n + 2] = w
        /\ \A i \in 1..n + 1 : h2[i] = h[i]
        /\ \A i \in 1..n : i \in 1..n + 1 /\ i + 1 \in 1..n + 1
        /\ 1 \in 1..n + 1 /\ n + 1 \in 1..n + 1 /\ n + 2 \in 1..n + 2
        /\ \A i \in 1..n + 2 : i \in 1..n + 1 \/ i = n + 2
        /\ \A i \in 1..n + 1 : (i \in 1..n \/ i = n + 1) /\ i \in 1..n + 2
    BY <1>1, ThenElements
  <1>4. Last(q, h) = h[n + 1] /\ h[n + 1] \in Views /\ (n + 1) + 1 = n + 2 /\ Len(q2) + 1 = n + 2
    BY <1>1, <1>2, <1>3 DEF Last
  <1> HIDE DEF n, q2, h2
  <1>5. Forecasts(q2, h2)
    <2>1. h2 \in [1..Len(q2) + 1 -> Views]
      BY <1>3, <1>4
    <2>2. ASSUME NEW i \in 1..Len(q2) PROVE Follows(q2[i], h2[i], h2[i + 1])
      <3>1. CASE i \in 1..n
        BY <1>1, <1>2, <1>3, <3>1
      <3>2. CASE i = n + 1
        BY <1>2, <1>3, <1>4, <3>2
      <3> QED BY <1>2, <1>3, <3>1, <3>2
    <2> QED BY <2>1, <2>2 DEF Forecasts
  <1>6. Traced(q2, h2)
    <2> SUFFICES ASSUME NEW k \in 1..n + 2, NEW f \in Files, h2[k].hash[f] \in Files,
                        NEW i \in 1..k
                 PROVE  /\ \E g \in Files : h2[i].hash[g] = h2[k].hash[f]
                        /\ \/ h2[i].hash[f] = h2[k].hash[f]
                           \/ \E j \in i..k - 1 : q2[j] = Ev("movedTo", f)
      BY <1>4 DEF Traced
    <2>0. \A m \in 1..n + 1, g \in Files : h[m].hash[g] \in Files =>
              \A l \in 1..m :
                 /\ \E b \in Files : h[l].hash[b] = h[m].hash[g]
                 /\ \/ h[l].hash[g] = h[m].hash[g]
                    \/ \E j \in l..m - 1 : q[j] = Ev("movedTo", g)
      BY DEF Plausible, Traced, n
    <2>1. CASE k \in 1..n + 1
      <3>1. i \in 1..n + 1 /\ \A j \in i..k - 1 : j \in 1..n
        BY <1>2, <2>1
      <3>2. h2[i] = h[i] /\ h2[k] = h[k]
        BY <1>3, <2>1, <3>1
      <3>3. \A j \in i..k - 1 : q2[j] = q[j]
        BY <1>2, <3>1
      <3>4. /\ \E b \in Files : h[i].hash[b] = h[k].hash[f]
            /\ \/ h[i].hash[f] = h[k].hash[f]
               \/ \E j \in i..k - 1 : q[j] = Ev("movedTo", f)
        BY <2>0, <2>1, <3>2
      <3> QED BY <3>2, <3>3, <3>4
    <2>2. CASE k = n + 2 /\ i = n + 2
      BY <2>2
    <2>3. CASE k = n + 2 /\ i # n + 2
      <3>1. /\ i \in 1..n + 1 /\ n + 1 \in i..k - 1
            /\ \A j \in i..n : j \in i..k - 1 /\ j \in 1..n
            /\ (n + 1) - 1 = n
        BY <1>2, <2>3
      <3>2. h2[i] = h[i] /\ h2[k] = w
        BY <1>3, <2>3, <3>1
      <3>3. PICK b \in Files : h[n + 1].hash[b] = w.hash[f]
        BY <1>4, <2>3, <3>2, FollowsTraces
      <3>4. h[n + 1].hash[f] = w.hash[f] \/ e = Ev("movedTo", f)
        BY <1>4, <2>3, <3>2, FollowsTraces
      <3>5. \E g \in Files : h[i].hash[g] = w.hash[f]
        BY <1>3, <2>0, <2>3, <3>1, <3>2, <3>3
      <3>6. h[n + 1].hash[f] = w.hash[f] =>
              \/ h[i].hash[f] = w.hash[f]
              \/ \E j \in i..n : q[j] = Ev("movedTo", f)
        BY <1>3, <2>0, <3>1, <3>2
      <3>7. \/ h[i].hash[f] = w.hash[f]
            \/ \E j \in i..k - 1 : q2[j] = Ev("movedTo", f)
        BY <1>2, <3>1, <3>4, <3>6
      <3> QED BY <3>2, <3>5, <3>7
    <2> QED BY <1>3, <2>1, <2>2, <2>3
  <1>7. \A f, o \in Files, i \in 1..n :
            Recalls(q2, h2, i, f, o) <=> Recalls(q, h, i, f, o)
    BY <1>2, <1>3 DEF Recalls
  <1>8. \A f, o \in Files : Recalls(q2, h2, n + 1, f, o)
            <=> e = Ev("open", f) /\ Last(q, h).hash[f] = o
    BY <1>2, <1>3, <1>4 DEF Recalls
  <1>9. \A f, o \in Files : Wants(q2, h2, f, o) <=>
            Wants(q, h, f, o) \/ (e = Ev("open", f) /\ Last(q, h).hash[f] = o)
    <2>1. Len(q2) = n + 1 /\ n = Len(q)
      BY <1>2 DEF n
    <2>2. \A i : i \in 1..n + 1 <=> i \in 1..n \/ i = n + 1
      BY <1>2, <1>3
    <2> QED BY <1>7, <1>8, <2>1, <2>2 DEF Wants
  <1>10. HotAfter(q2, h2)
    <2> SUFFICES ASSUME NEW i \in 1..n + 1, NEW f \in Files, NEW o \in Files,
                        Recalls(q2, h2, i, f, o), NEW j \in i + 1 .. n + 2
                 PROVE  h2[j].hash[f] = Hot
      BY <1>2, <1>4 DEF HotAfter
    <2>1. CASE i \in 1..n
      <3>1. Recalls(q, h, i, f, o) /\ Wants(q, h, f, o)
        BY <1>7, <2>1 DEF Wants, n
      <3>2. CASE j = n + 2
        BY <1>3, <3>1, <3>2
      <3>3. CASE j # n + 2
        <4>1. j \in i + 1 .. n + 1 /\ j \in 1..n + 1
          BY <1>2, <2>1, <3>3
        <4>2. h[j].hash[f] = Hot
          BY <2>1, <3>1, <4>1 DEF Plausible, HotAfter, n
        <4> QED BY <1>3, <4>1, <4>2
      <3> QED BY <3>2, <3>3
    <2>2. CASE i = n + 1
      <3>1. e = Ev("open", f) /\ j = n + 2
        BY <1>2, <1>8, <2>2
      <3>2. e.type = "open" /\ e.file = f
        BY <3>1 DEF Ev
      <3> QED BY <1>3, <1>4, <3>1, <3>2, FollowsFields
    <2> QED BY <1>3, <2>1, <2>2
  <1>11. HotAlways(q2, h2, fetched)
    <2>1. \A i \in 1..n + 1, f \in fetched : h[i].hash[f] = Hot
      BY DEF Plausible, HotAlways, n
    <2> QED BY <1>3, <1>4, <2>1 DEF HotAlways
  <1>12. h2[1] = h[1] /\ Last(q2, h2) = w
    BY <1>3, <1>4 DEF Last
  <1> QED BY <1>5, <1>6, <1>9, <1>10, <1>11, <1>12 DEF Plausible, q2

\* Files that wait to be fetched back, or are fetched, are hot in the end; so are
\* they when the event at hand is through, if they are fetched.
LEMMA LastIsHot ==
    ASSUME NEW q \in Seq(Events), NEW h, NEW fetched \in SUBSET Files,
           Plausible(q, h, fetched), NEW f \in Files
    PROVE  /\ f \in fetched => h[1].hash[f] = Hot /\ Last(q, h).hash[f] = Hot
           /\ \A o \in Files : Wants(q, h, f, o) =>
                  Last(q, h).hash[f] = Hot /\ f \notin fetched
  <1>1. Len(q) \in Nat /\ 1 \in 1..Len(q) + 1 /\ Len(q) + 1 \in 1..Len(q) + 1
        /\ \A i \in 1..Len(q) : Len(q) + 1 \in i + 1 .. Len(q) + 1
    OBVIOUS
  <1>2. f \in fetched => h[1].hash[f] = Hot /\ Last(q, h).hash[f] = Hot
    BY <1>1 DEF Plausible, HotAlways, Last
  <1>3. \A o \in Files : Wants(q, h, f, o) => Last(q, h).hash[f] = Hot
    BY <1>1 DEF Plausible, HotAfter, Wants, Last
  <1>4. \A o \in Files : Wants(q, h, f, o) => f \notin fetched
    <2>1. \A i \in 1..Len(q) : i \in 1..Len(q) + 1
      BY <1>1
    <2> QED BY <2>1, KindsDiffer DEF Plausible, HotAlways, Wants, Recalls
  <1> QED BY <1>2, <1>3, <1>4

\* Where an object that is wanted, or is in the last view, is in the first.
LEMMA Origin ==
    ASSUME NEW q \in Seq(Events), NEW h, NEW fetched, Plausible(q, h, fetched),
           NEW f \in Files, NEW o \in Files,
           Wants(q, h, f, o) \/ Last(q, h).hash[f] = o
    PROVE  /\ \E g \in Files : h[1].hash[g] = o
           /\ \/ h[1].hash[f] = o
              \/ \E i \in 1..Len(q) : q[i] = Ev("movedTo", f)
  <1>1. Len(q) \in Nat
    OBVIOUS
  <1>2. PICK k \in 1..Len(q) + 1 : h[k].hash[f] = o
    <2>1. \A i \in 1..Len(q) : i \in 1..Len(q) + 1
      BY <1>1
    <2>2. Len(q) + 1 \in 1..Len(q) + 1
      BY <1>1
    <2> QED BY <2>1, <2>2 DEF Wants, Recalls, Last
  <1>3. 1 \in 1..k /\ \A j \in 1..k - 1 : j \in 1..Len(q)
    BY <1>1
  <1>4. /\ \E g \in Files : h[1].hash[g] = h[k].hash[f]
        /\ \/ h[1].hash[f] = h[k].hash[f]
           \/ \E j \in 1..k - 1 : q[j] = Ev("movedTo", f)
    BY <1>2, <1>3 DEF Plausible, Traced
  <1> QED BY <1>2, <1>3, <1>4

\* Fewer files may be fetched, and no event is heard of that waits for one.
LEMMA FetchFewer ==
    ASSUME NEW q, NEW h, NEW fetched, Plausible(q, h, fetched),
           NEW fewer \in SUBSET fetched
    PROVE  Plausible(q, h, fewer)
  BY DEF Plausible, HotAlways

\* Without events there is the present view alone.
LEMMA NoEvents ==
    ASSUME NEW v \in Views
    PROVE  LET h == [i \in {1} |-> v] IN
           /\ Plausible(<<>>, h, {}) /\ h[1] = v /\ Last(<<>>, h) = v
           /\ \A f, o : ~Wants(<<>>, h, f, o)
  <1> DEFINE h == [i \in {1} |-> v]
  <1>1. Len(<<>>) = 0 /\ 1..0 + 1 = {1} /\ 1..0 = {} /\ h[1] = v
    OBVIOUS
  <1>2. Forecasts(<<>>, h) /\ HotAfter(<<>>, h) /\ HotAlways(<<>>, h, {})
    BY <1>1 DEF Forecasts, HotAfter, HotAlways
  <1>3. Traced(<<>>, h)
    <2>1. \A k \in 1..0 + 1 : k = 1 /\ 1..k = {1}
      BY <1>1
    <2> QED BY <1>1, <2>1 DEF Traced
  <1>4. Last(<<>>, h) = v /\ \A f, o : ~Wants(<<>>, h, f, o)
    BY <1>1 DEF Last, Wants
  <1> QED BY <1>1, <1>2, <1>3, <1>4 DEF Plausible

\* And one view when there are none.
LEMMA OneView ==
    ASSUME NEW h, NEW fetched, Plausible(<<>>, h, fetched)
    PROVE  /\ Last(<<>>, h) = h[1]
           /\ \A f, o : ~Wants(<<>>, h, f, o)
  <1>1. Len(<<>>) = 0 /\ 0 + 1 = 1 /\ 1..0 = {}
    OBVIOUS
  <1> QED BY <1>1 DEF Last, Wants

\* An event that tells nothing new of a hot file.
LEMMA AddQuiet ==
    ASSUME NEW q \in Seq(Events), NEW h, NEW fetched \in SUBSET Files,
           Plausible(q, h, fetched),
           NEW f \in Files, Last(q, h).hash[f] = Hot,
           NEW type \in {"open", "modify", "close"}
    PROVE  \E h2 : /\ Plausible(Append(q, Ev(type, f)), h2, fetched)
                   /\ h2[1] = h[1]
                   /\ Last(Append(q, Ev(type, f)), h2) = Last(q, h)
                   /\ \A g, o \in Files :
                          Wants(Append(q, Ev(type, f)), h2, g, o) <=> Wants(q, h, g, o)
  <1> DEFINE v == Last(q, h)
  <1>1. v \in Views /\ Ev(type, f) \in Events
        /\ Ev(type, f).type = type /\ Ev(type, f).file = f
    BY DEF Plausible, Forecasts, Last, Ev, Events, EventTypes
  <1>2. [v EXCEPT !.hash[f] = Hot] = v
    BY <1>1 DEF Views
  <1>3. Follows(Ev(type, f), v, v)
    BY <1>1, <1>2, KindsDiffer DEF Follows
  <1>4. \A g \in Files : g \in fetched \/ (\E o \in Files : Wants(q, h, g, o)) =>
            v.hash[g] = Hot
    BY LastIsHot
  <1>5. \A g, o \in Files : ~(Ev(type, f) = Ev("open", g) /\ v.hash[g] = o)
    BY KindsDiffer DEF Ev
  <1> QED BY <1>1, <1>3, <1>4, <1>5, AddEvent

\* The first event is read.
Rest(q, h) == [i \in 1..Len(q) |-> h[i + 1]]

\* A queue without its first event.
LEMMA TailElements ==
    ASSUME NEW q \in Seq(Events), q # <<>>
    PROVE  /\ Head(q) \in Events /\ Tail(q) \in Seq(Events)
           /\ Len(q) \in Nat /\ Len(Tail(q)) = Len(q) - 1
           /\ Len(Tail(q)) + 1 = Len(q)
           /\ 1 \in 1..Len(q) /\ q[1] = Head(q)
           /\ \A i \in 1..Len(q) - 1 : Tail(q)[i] = q[i + 1]
  OBVIOUS

\* The handler reads the first event: what was forecast for the others stands, and
\* the files it is about to fetch are those that the forecast makes hot.
LEMMA ReadEvent ==
    ASSUME NEW q \in Seq(Events), q # <<>>, NEW h, NEW fetched \in SUBSET Files,
           Plausible(q, h, {}),
           \A f \in fetched : Head(q) = Ev("open", f) /\ h[1].hash[f] \in Files
    PROVE  \E h2 : /\ Plausible(Tail(q), h2, fetched)
                   /\ h[1] \in Views /\ h2[1] \in Views /\ Follows(Head(q), h[1], h2[1])
                   /\ Last(Tail(q), h2) = Last(q, h)
                   /\ \A f, o \in Files : Wants(q, h, f, o) <=>
                          \/ Wants(Tail(q), h2, f, o)
                          \/ Head(q) = Ev("open", f) /\ h[1].hash[f] = o
  <1> DEFINE n == Len(q)
             q2 == Tail(q)
             h2 == Rest(q, h)
  <1>1. h \in [1..n + 1 -> Views] /\ \A i \in 1..n : Follows(q[i], h[i], h[i + 1])
    BY DEF Plausible, Forecasts
  <1>2. /\ q2 \in Seq(Events) /\ n \in Nat /\ Len(q2) = n - 1 /\ Len(q2) + 1 = n
        /\ 1 \in 1..n /\ q[1] = Head(q)
        /\ \A i \in 1..n - 1 : q2[i] = q[i + 1]
    BY TailElements
  <1> HIDE DEF n, q2
  <1>3. /\ \A i \in 1..n : i + 1 \in 1..n + 1 /\ i \in 1..n + 1
        /\ \A i \in 1..n - 1 : i + 1 \in 1..n /\ i \in 1..n /\ i + 1 \in 1..n + 1
        /\ n \in 1..n
        /\ \A i \in 1..n : i = 1 \/ i - 1 \in 1..n - 1
        /\ \A i : i \in 1..n <=> i = 1 \/ (i \in 2..n)
    BY <1>2
  <1>4. h2 \in [1..n -> Views] /\ \A i \in 1..n : h2[i] = h[i + 1]
    BY <1>1, <1>3 DEF Rest, n
  <1> HIDE DEF h2
  <1>5. Forecasts(q2, h2)
    <2>1. \A i \in 1..n - 1 : Follows(q2[i], h2[i], h2[i + 1])
      BY <1>1, <1>2, <1>3, <1>4
    <2> QED BY <1>2, <1>4, <2>1 DEF Forecasts
  <1>6. Traced(q2, h2)
    <2> SUFFICES ASSUME NEW k \in 1..n, NEW f \in Files, h2[k].hash[f] \in Files,
                        NEW i \in 1..k
                 PROVE  /\ \E g \in Files : h2[i].hash[g] = h2[k].hash[f]
                        /\ \/ h2[i].hash[f] = h2[k].hash[f]
                           \/ \E j \in i..k - 1 : q2[j] = Ev("movedTo", f)
      BY <1>2 DEF Traced
    <2>0. \A m \in 1..n + 1, g \in Files : h[m].hash[g] \in Files =>
              \A l \in 1..m :
                 /\ \E b \in Files : h[l].hash[b] = h[m].hash[g]
                 /\ \/ h[l].hash[g] = h[m].hash[g]
                    \/ \E j \in l..m - 1 : q[j] = Ev("movedTo", g)
      BY DEF Plausible, Traced, n
    <2>1. /\ k + 1 \in 1..n + 1 /\ i + 1 \in 1..k + 1 /\ i \in 1..n
          /\ \A j \in i + 1 .. (k + 1) - 1 : j - 1 \in i..k - 1 /\ j - 1 \in 1..n - 1
                                             /\ (j - 1) + 1 = j
      BY <1>2
    <2>2. h2[k] = h[k + 1] /\ h2[i] = h[i + 1]
      BY <1>4, <2>1
    <2>3. /\ \E b \in Files : h[i + 1].hash[b] = h[k + 1].hash[f]
          /\ \/ h[i + 1].hash[f] = h[k + 1].hash[f]
             \/ \E j \in i + 1 .. (k + 1) - 1 : q[j] = Ev("movedTo", f)
      BY <2>0, <2>1, <2>2
    <2>4. ASSUME NEW j \in i + 1 .. (k + 1) - 1, q[j] = Ev("movedTo", f)
          PROVE  \E l \in i..k - 1 : q2[l] = Ev("movedTo", f)
      <3>1. q2[j - 1] = q[j]
        BY <1>2, <2>1
      <3> QED BY <2>1, <2>4, <3>1
    <2> QED BY <2>2, <2>3, <2>4
  <1>7. \A f, o \in Files, i \in 1..n - 1 :
            Recalls(q2, h2, i, f, o) <=> Recalls(q, h, i + 1, f, o)
    BY <1>2, <1>3, <1>4 DEF Recalls
  <1>8. ASSUME NEW f \in Files, NEW o \in Files
        PROVE  Wants(q, h, f, o) <=> \/ Wants(q2, h2, f, o)
                                     \/ Head(q) = Ev("open", f) /\ h[1].hash[f] = o
    <2>1. Wants(q, h, f, o) <=> \E i \in 1..n : Recalls(q, h, i, f, o)
      BY DEF Wants, n
    <2>2. Wants(q2, h2, f, o) <=> \E i \in 1..n - 1 : Recalls(q2, h2, i, f, o)
      BY <1>2 DEF Wants
    <2>3. Recalls(q, h, 1, f, o) <=> Head(q) = Ev("open", f) /\ h[1].hash[f] = o
      BY <1>2 DEF Recalls
    <2>4. ASSUME NEW i \in 1..n, i # 1, Recalls(q, h, i, f, o)
          PROVE  Wants(q2, h2, f, o)
      <3>1. i - 1 \in 1..n - 1 /\ (i - 1) + 1 = i
        BY <1>2, <2>4
      <3> QED BY <1>7, <2>2, <2>4, <3>1
    <2>5. ASSUME NEW i \in 1..n - 1, Recalls(q2, h2, i, f, o)
          PROVE  Wants(q, h, f, o)
      BY <1>3, <1>7, <2>1, <2>5
    <2> QED BY <1>2, <2>1, <2>2, <2>3, <2>4, <2>5
  <1>9. HotAfter(q2, h2)
    <2> SUFFICES ASSUME NEW i \in 1..n - 1, NEW f \in Files, NEW o \in Files,
                        Recalls(q2, h2, i, f, o), NEW j \in i + 1 .. n
                 PROVE  h2[j].hash[f] = Hot
      BY <1>2 DEF HotAfter
    <2>1. j + 1 \in (i + 1) + 1 .. n + 1 /\ j \in 1..n /\ i + 1 \in 1..n
      BY <1>2
    <2>2. Recalls(q, h, i + 1, f, o)
      BY <1>7
    <2>3. h[j + 1].hash[f] = Hot
      BY <2>1, <2>2 DEF Plausible, HotAfter, n
    <2> QED BY <1>4, <2>1, <2>3
  <1>10. HotAlways(q2, h2, fetched)
    <2> SUFFICES ASSUME NEW i \in 1..n, NEW f \in fetched
                 PROVE  h2[i].hash[f] = Hot
      BY <1>2 DEF HotAlways
    <2>1. Recalls(q, h, 1, f, h[1].hash[f]) /\ h[1].hash[f] \in Files /\ f \in Files
      BY <1>2 DEF Recalls
    <2>2. i + 1 \in 1 + 1 .. n + 1 /\ 1 \in 1..n
      BY <1>2
    <2>3. h[i + 1].hash[f] = Hot
      BY <2>1, <2>2 DEF Plausible, HotAfter, n
    <2> QED BY <1>4, <2>3
  <1>11. /\ h[1] \in Views /\ h2[1] = h[1 + 1] /\ h2[1] \in Views
         /\ Follows(Head(q), h[1], h2[1])
    BY <1>1, <1>2, <1>3, <1>4
  <1>12. Last(q2, h2) = Last(q, h)
    BY <1>2, <1>3, <1>4 DEF Last, n
  <1> QED BY <1>5, <1>6, <1>8, <1>9, <1>10, <1>11, <1>12 DEF Plausible, q2

-----------------------------------------------------------------------------
(***************************************************************************)
(* The invariant, but for the forecast.                                    *)
(***************************************************************************)

\* TypeOK, and the file at hand is one.
TInv == TypeOK /\ HandlerInv

\* The types of what the steps below look up.
LEMMA Types ==
    ASSUME TInv
    PROVE  /\ queue \in Seq(Events) /\ hpc \in HandlerSteps
           /\ hpc \notin {"idle", "dead"} => hfile \in Files
           /\ hpc = "rename" => oldName \in Files
           /\ oldName \in Files \cup {None}
           /\ \A f \in Files : /\ db[f] \in Entries /\ f # None /\ f # Nil
                               /\ disk[f] \in Versions \cup {Empty, None}
                               /\ trash[f] \in Versions \cup {Empty, None}
                               /\ bucket[f] \in Versions \cup {Empty, None}
                               /\ truth[f] \in Versions \cup {None}
                               /\ binned[f] \in Versions \cup {None}
           /\ Empty # None /\ Empty \notin Versions /\ None \notin Versions
  BY NamesAssumption, ContentsAssumption DEF TInv, TypeOK, HandlerInv, Contents

\* What matters of a hash is a kind.
LEMMA KindType ==
    ASSUME NEW e \in Entries
    PROVE  /\ Kind(e) \in Kinds
           /\ e = NoEntry => Kind(e) = Absent
           /\ Kind(e) \in Files => e.form # "none" /\ e.isLocal # 1 /\ e.remoteURI = Kind(e)
  BY KindsDiffer DEF Kind, Kinds, Absent, Hot, Entries, NoEntry

\* The present view is a view.
LEMMA ViewType ==
    ASSUME TInv
    PROVE  /\ View \in Views
           /\ \A f \in Files : View.hash[f] = Now(f)
           /\ View.old = IF hpc = "rename" THEN None ELSE oldName
  <1>1. \A f \in Files : Now(f) \in Kinds
    BY Types, KindType, KindsDiffer DEF Now
  <1> QED BY <1>1, Types DEF View, Views

\* A call that changes the hash of the file at hand only, to e.
LEMMA SetFrame ==
    ASSUME TInv, Hashes, ObjectsDiffer, hpc \notin {"idle", "dead"},
           NEW b, b = hfile, hfile' \in {b, None},
           NEW e \in Entries, db' = [db EXCEPT ![b] = e],
           (e = NoEntry) \/ Whole(b)',
           e.remoteURI \in Files => e.remoteURI = db[b].remoteURI
    PROVE  Hashes' /\ ObjectsDiffer'
  <1>1. /\ b \in Files /\ b # None /\ db'[b] = e
        /\ \A f \in Files : f # None /\ (f # b => db'[f] = db[f])
    BY Types DEF TInv, TypeOK
  <1>2. ASSUME NEW f \in Files PROVE db'[f] = NoEntry \/ Whole(f)'
    <2>1. CASE f = b
      BY <1>1, <2>1
    <2>2. CASE f # b
      BY <1>1, <2>2 DEF Hashes, Whole
    <2> QED BY <2>1, <2>2
  <1>3. ObjectsDiffer'
    BY <1>1 DEF ObjectsDiffer
  <1> QED BY <1>2, <1>3 DEF Hashes

\* Neither does it matter to what the event makes of the others.
LEMMA NowFrame ==
    ASSUME TInv, hpc \notin {"idle", "dead", "rename"}, hpc' # "rename",
           NEW b, b = hfile, hfile' \in {b, None}, oldName' = oldName,
           \A f \in Files : f # b => db'[f] = db[f],
           Now(b)' = Now(b)
    PROVE  View' = View
  <1>1. \A f \in Files : Now(f)' = Now(f)
    BY Types DEF Now
  <1> QED BY <1>1 DEF View

\* Steps that leave the files, and who has them open, alone.
LEMMA PlaceFrame ==
    ASSUME InOnePlace, UNCHANGED <<disk, trash, truth, binned, opened>>
    PROVE  InOnePlace'
  BY DEF InOnePlace

\* A whole hash, once the names of its fields are known.
LEMMA WholeKinds ==
    ASSUME TInv, Hashes, NEW f \in Files
    PROVE  /\ db[f].form \in {"none", "made"}
           /\ db[f].form = "none" <=> db[f] = NoEntry
           /\ db[f].form = "made" => Whole(f)
           /\ Kind(db[f]) = Absent <=> db[f].form = "none" \/
                  (hpc = "hot" /\ hfile = f /\ db[f].isLocal = 0 /\ db[f].remoteURI = None)
           /\ Kind(db[f]) = Hot => db[f].form = "made" /\
                  (db[f].isLocal = 1 \/ (hpc = "hot" /\ hfile = f))
           /\ Kind(db[f]) \in Files =>
                  /\ db[f].form = "made" /\ db[f].isLocal = 0 /\ db[f].isMetadata = 1
                  /\ db[f].remoteURI = Kind(db[f])
  BY Types, KindsDiffer DEF Hashes, Whole, Kind, NoEntry, Absent, Hot, Flag, Entries, Kinds

-----------------------------------------------------------------------------
(***************************************************************************)
(* The forecast, step by step.                                             *)
(***************************************************************************)

\* A call that is part of what was foreseen.
LEMMA CallForetells ==
    ASSUME TInv, NEW h, Foretells(h), UNCHANGED <<queue, disk, trash, truth, binned>>,
           View' = View,
           \A f \in Files : Fetching(f)' => Fetching(f),
           \A f \in Files : Fetching(f) => Fetching(f)' \/ Holds(f) = Should(f),
           \A o \in Files : bucket'[o] = bucket[o] \/ \A g \in Files : Now(g) # o
    PROVE  Foretells(h)'
  <1>1. /\ Plausible(queue, h, Fetched) /\ h[1] = View /\ Last(queue, h).old = None
        /\ \A f, o \in Files : Wants(queue, h, f, o) => Fetchable(f, o)
        /\ \A f \in Files : Fits(h, f)
    BY DEF Foretells
  <1>2. Plausible(queue, h, Fetched')
    <2>1. Fetched' \in SUBSET Fetched
      BY DEF Fetched
    <2> QED BY <1>1, <2>1, FetchFewer
  <1>3. ASSUME NEW f \in Files, NEW o \in Files,
               Wants(queue, h, f, o) \/ Last(queue, h).hash[f] = o
        PROVE  bucket'[o] = bucket[o]
    <2>1. PICK g \in Files : h[1].hash[g] = o
      BY <1>1, <1>3, Origin, Types
    <2> QED BY <1>1, <2>1, ViewType
  <1>4. ASSUME NEW f \in Files, NEW o \in Files, Wants(queue', h, f, o)
        PROVE  Fetchable(f, o)'
    BY <1>1, <1>3, <1>4 DEF Fetchable
  <1>5. ASSUME NEW f \in Files PROVE Fits(h, f)'
    <2>1. Should(f)' = Should(f) /\ Holds(f)' = Holds(f)
      BY DEF Should, Holds
    <2> QED BY <1>1, <1>3, <2>1 DEF Fits
  <1> QED BY <1>1, <1>2, <1>4, <1>5 DEF Foretells

\* The handler reads an event.
LEMMA ReadForetells ==
    ASSUME TInv, NEW h, Foretells(h), hpc = "idle", queue # <<>>,
           queue' = Tail(queue), UNCHANGED <<disk, bucket, trash, truth, binned>>,
           \A w \in Views : Follows(Head(queue), View, w) => View' = w,
           \A f \in Files : Fetching(f)' <=>
               Head(queue) = Ev("open", f) /\ Now(f) \in Files
    PROVE  \E h2 : Foretells(h2)'
  <1>1. /\ Plausible(queue, h, Fetched) /\ h[1] = View /\ Last(queue, h).old = None
        /\ \A f, o \in Files : Wants(queue, h, f, o) => Fetchable(f, o)
        /\ \A f \in Files : Fits(h, f)
        /\ \A f \in Files : View.hash[f] = Now(f)
    BY ViewType DEF Foretells
  <1>2. \A f \in Files : ~Fetching(f)
    BY DEF Fetching
  <1>3. Fetched = {}
    BY <1>2 DEF Fetched
  <1>4. Fetched' \in SUBSET Files /\ \A f \in Fetched' :
            Head(queue) = Ev("open", f) /\ h[1].hash[f] \in Files
    BY <1>1 DEF Fetched
  <1>5. PICK h2 :
            /\ Plausible(Tail(queue), h2, Fetched')
            /\ h[1] \in Views /\ h2[1] \in Views /\ Follows(Head(queue), h[1], h2[1])
            /\ Last(Tail(queue), h2) = Last(queue, h)
            /\ \A f, o \in Files : Wants(queue, h, f, o) <=>
                   \/ Wants(Tail(queue), h2, f, o)
                   \/ Head(queue) = Ev("open", f) /\ h[1].hash[f] = o
    BY <1>1, <1>3, <1>4, ReadEvent, Types
  <1>6. h2[1] = View'
    BY <1>1, <1>5
  <1>7. \A f, o \in Files : Wants(queue', h2, f, o) => Fetchable(f, o)'
    BY <1>1, <1>5 DEF Fetchable
  <1>8. ASSUME NEW f \in Files PROVE Fits(h2, f)'
    <2>1. Should(f)' = Should(f) /\ Holds(f)' = Holds(f)
      BY DEF Should, Holds
    <2>2. Last(queue', h2) = Last(queue, h)
      BY <1>5
    <2>3. (\E o \in Files : Wants(queue, h, f, o)) =>
              Fetching(f)' \/ \E o \in Files : Wants(queue', h2, f, o)
      BY <1>1, <1>5
    <2>4. Fits(h, f)
      BY <1>1
    <2> QED BY <1>2, <2>1, <2>2, <2>3, <2>4 DEF Fits
  <1> QED BY <1>1, <1>5, <1>6, <1>7, <1>8 DEF Foretells

\* Nobody waits for f.
Idle(h, f) == ~Fetching(f) /\ \A o \in Files : ~Wants(queue, h, f, o)

\* Users do something to the files of the set touched, and the events q2 say so.
LEMMA UserForetells ==
    ASSUME TInv, NEW h, Foretells(h), UNCHANGED <<bucket, db, hpc, handlerVars>>,
           NEW touched \in SUBSET Files, \A f \in touched : Idle(h, f),
           \A f \in Files \ touched : UNCHANGED <<disk[f], trash[f], truth[f], binned[f]>>,
           NEW h2, Plausible(queue', h2, Fetched), h2[1] = h[1],
           Last(queue', h2).old = None,
           \A f \in Files \ touched : Last(queue', h2).hash[f] = Last(queue, h).hash[f],
           \A f, o \in Files : Wants(queue, h, f, o) => Wants(queue', h2, f, o),
           \A f, o \in Files : Wants(queue', h2, f, o) =>
               Wants(queue, h, f, o) \/ (f \in touched /\ Fetchable(f, o)'),
           \A f \in touched : Fits(h2, f)'
    PROVE  Foretells(h2)'
  <1>1. /\ h[1] = View
        /\ \A f, o \in Files : Wants(queue, h, f, o) => Fetchable(f, o)
        /\ \A f \in Files : Fits(h, f)
    BY DEF Foretells
  <1>2. /\ \A f \in Files : Fetching(f)' <=> Fetching(f)
        /\ View' = View
    BY DEF Fetching, View, Now, handlerVars
  <1>3. Fetched' = Fetched
    BY <1>2 DEF Fetched
  <1>4. ASSUME NEW f \in Files, NEW o \in Files, Wants(queue', h2, f, o)
        PROVE  Fetchable(f, o)'
    <2>1. CASE f \in touched
      BY <1>4, <2>1 DEF Idle
    <2>2. CASE f \notin touched
      BY <1>1, <1>4, <2>2 DEF Fetchable
    <2> QED BY <2>1, <2>2
  <1>5. ASSUME NEW f \in Files PROVE Fits(h2, f)'
    <2>1. CASE f \in touched
      BY <2>1
    <2>2. CASE f \notin touched
      <3>1. Should(f)' = Should(f) /\ Holds(f)' = Holds(f)
        BY <2>2 DEF Should, Holds
      <3>2. Fits(h, f) /\ Last(queue', h2).hash[f] = Last(queue, h).hash[f]
        BY <1>1, <2>2
      <3>3. (\E o \in Files : Wants(queue, h, f, o)) => \E o \in Files : Wants(queue', h2, f, o)
        OBVIOUS
      <3> QED BY <1>2, <3>1, <3>2, <3>3 DEF Fits
    <2> QED BY <2>1, <2>2
  <1> QED BY <1>1, <1>2, <1>3, <1>4, <1>5 DEF Foretells

-----------------------------------------------------------------------------
(***************************************************************************)
(* The handler's calls.                                                    *)
(***************************************************************************)

\* A call that changes at most the hash of the file at hand, and keeps to what
\* was foreseen.
LEMMA OneCall ==
    ASSUME TInv, Coherent, NEW h, Foretells(h),
           hpc \notin {"idle", "dead", "rename"}, hpc' # "rename",
           NEW b, b = hfile, hfile' \in {b, None},
           NEW e \in Entries, db' = [db EXCEPT ![b] = e],
           (e = NoEntry) \/ Whole(b)',
           e.remoteURI \in Files => e.remoteURI = db[b].remoteURI,
           UNCHANGED <<queue, disk, opened, oldName, userVars>>,
           Now(b)' = Now(b),
           Fetching(b)' => Fetching(b),
           Fetching(b) => Fetching(b)' \/ Holds(b) = Should(b),
           \A o \in Files : bucket'[o] = bucket[o] \/ \A g \in Files : Now(g) # o,
           InHand'
    PROVE  Coherent' /\ Foretells(h)'
  <1>1. /\ b \in Files /\ b # None
        /\ \A f \in Files : f # None /\ (f # b => db'[f] = db[f])
        /\ Hashes /\ ObjectsDiffer /\ InOnePlace
        /\ UNCHANGED <<trash, truth, binned>>
    BY Types DEF Coherent, userVars, TInv, TypeOK
  <1>2. Hashes' /\ ObjectsDiffer'
    BY <1>1, SetFrame
  <1>3. InOnePlace'
    BY <1>1, PlaceFrame
  <1>4. View' = View
    BY <1>1, NowFrame
  <1>5. \A f \in Files : f # b => ~Fetching(f) /\ ~Fetching(f)'
    BY <1>1 DEF Fetching
  <1>6. Foretells(h)'
    BY <1>1, <1>4, <1>5, CallForetells
  <1> QED BY <1>2, <1>3, <1>6 DEF Coherent

\* The same when no hash is changed.
LEMMA OneLook ==
    ASSUME TInv, Coherent, NEW h, Foretells(h),
           hpc \notin {"idle", "dead", "rename", "setName", "unmeta", "hot"},
           hpc' # "rename",
           NEW b, b = hfile, hfile' \in {b, None},
           UNCHANGED <<db, queue, disk, opened, oldName, userVars>>,
           Now(b)' = Now(b),
           Fetching(b)' => Fetching(b),
           Fetching(b) => Fetching(b)' \/ Holds(b) = Should(b),
           \A o \in Files : bucket'[o] = bucket[o] \/ \A g \in Files : Now(g) # o,
           InHand'
    PROVE  Coherent' /\ Foretells(h)'
  <1>1. b \in Files /\ db[b] \in Entries /\ db' = [db EXCEPT ![b] = db[b]]
    BY Types DEF TInv, TypeOK
  <1>2. db[b] = NoEntry \/ Whole(b)'
    BY <1>1 DEF Coherent, Hashes, Whole
  <1> QED BY <1>1, <1>2, OneCall

\* What the setters leave of a hash.
SameHash(d, e) == /\ d \in Entries /\ d.form = "made"
                  /\ d.remoteURI = e.remoteURI
                  /\ d.isLocal = e.isLocal /\ d.isMetadata = e.isMetadata

\* What each setter of the handler leaves alone.
LEMMA SettersLeave ==
    ASSUME NEW e \in Entries, e.form = "made"
    PROVE  /\ LET d == SetRemoteURI(e, None) IN
                 /\ d \in Entries /\ d.form = "made" /\ d.fileName = e.fileName
                 /\ d.remoteURI = None
                 /\ d.isLocal = e.isLocal /\ d.isMetadata = e.isMetadata
           /\ \A flag \in Flag : LET d == SetIsLocal(e, flag) IN
                 /\ d \in Entries /\ d.form = "made" /\ d.fileName = e.fileName
                 /\ d.remoteURI = e.remoteURI
                 /\ d.isLocal = flag /\ d.isMetadata = e.isMetadata
           /\ \A flag \in Flag : LET d == SetIsMetadata(e, flag) IN
                 /\ d \in Entries /\ d.form = "made" /\ d.fileName = e.fileName
                 /\ d.remoteURI = e.remoteURI
                 /\ d.isLocal = e.isLocal /\ d.isMetadata = flag
           /\ \A name \in Files : SameHash(SetFileName(e, name), e)
                                  /\ SetFileName(e, name).fileName = name
           /\ \A flag \in Flag : SameHash(SetIsOpen(e, flag), e)
                                  /\ SetIsOpen(e, flag).fileName = e.fileName
           /\ SameHash(SetFileSize(e), e) /\ SetFileSize(e).fileName = e.fileName
           /\ SameHash(IncrementTimesAccessed(e), e)
           /\ IncrementTimesAccessed(e).fileName = e.fileName
  <1>1. Kept(e) = "made" /\ "recent" \in Ages /\ None \in Files \cup {None, Nil}
    BY DEF Kept, Ages
  <1>2. LET d == SetRemoteURI(e, None) IN
                 /\ d \in Entries /\ d.form = "made" /\ d.fileName = e.fileName
                 /\ d.remoteURI = None
                 /\ d.isLocal = e.isLocal /\ d.isMetadata = e.isMetadata
    BY <1>1 DEF Entries, SetRemoteURI
  <1>3. ASSUME NEW flag \in Flag
        PROVE  LET d == SetIsLocal(e, flag) IN
                 /\ d \in Entries /\ d.form = "made" /\ d.fileName = e.fileName
                 /\ d.remoteURI = e.remoteURI
                 /\ d.isLocal = flag /\ d.isMetadata = e.isMetadata
    BY <1>1 DEF Entries, SetIsLocal
  <1>4. ASSUME NEW flag \in Flag
        PROVE  LET d == SetIsMetadata(e, flag) IN
                 /\ d \in Entries /\ d.form = "made" /\ d.fileName = e.fileName
                 /\ d.remoteURI = e.remoteURI
                 /\ d.isLocal = e.isLocal /\ d.isMetadata = flag
    BY <1>1 DEF Entries, SetIsMetadata
  <1>5. ASSUME NEW name \in Files
        PROVE  SameHash(SetFileName(e, name), e) /\ SetFileName(e, name).fileName = name
    BY <1>1 DEF Entries, SetFileName, SameHash
  <1>6. ASSUME NEW flag \in Flag
        PROVE  SameHash(SetIsOpen(e, flag), e) /\ SetIsOpen(e, flag).fileName = e.fileName
    BY <1>1 DEF Entries, SetIsOpen, SameHash
  <1>7. /\ SameHash(SetFileSize(e), e) /\ SetFileSize(e).fileName = e.fileName
        /\ SameHash(IncrementTimesAccessed(e), e)
        /\ IncrementTimesAccessed(e).fileName = e.fileName
    BY <1>1 DEF Entries, SetFileSize, IncrementTimesAccessed, SameHash
  <1> QED BY <1>2, <1>3, <1>4, <1>5, <1>6, <1>7

\* What the handler has at hand.
LEMMA AtHand ==
    ASSUME TInv, Coherent, hpc \notin {"idle", "dead", "rename"}
    PROVE  /\ hfile \in Files /\ hfile # None /\ db[hfile] \in Entries
           /\ db[hfile].form = "made" => Whole(hfile)
           /\ InHand /\ db \in [Files -> Entries]
  BY Types, WholeKinds DEF Coherent, TInv, TypeOK

\* The tests before a recall, and the download.
LEMMA LooksKeep ==
    ASSUME TInv, Tidy, Coherent, NEW h, Foretells(h), UNCHANGED userVars,
           OpenLocal \/ OpenMeta \/ RecallGet
    PROVE  Coherent' /\ Foretells(h)'
  <1> PICK b : b = hfile
    OBVIOUS
  <1>0. /\ hpc \in {"openLocal", "openMeta", "get"}
        /\ b \in Files /\ b # None /\ db[b] \in Entries /\ InHand /\ db[b].form = "made"
        /\ Whole(b)
    BY AtHand DEF OpenLocal, OpenMeta, RecallGet, InHand, OpenSteps, RecallSteps
  <1>1. CASE OpenLocal
    <2>1. /\ hpc = "openLocal" /\ hfile' = b
          /\ \/ db[b].isLocal = 1 /\ hpc' = "openMark"
             \/ db[b].isLocal = 0 /\ hpc' = "openMeta" /\ hremote' = hremote
          /\ UNCHANGED <<disk, bucket, db, opened, hgot, oldName, queue>>
      BY <1>0, <1>1, NamesAssumption DEF OpenLocal, Step, Whole, Flag
    <2>2. InHand'
      BY <1>0, <2>1 DEF InHand, OpenSteps, RecallSteps, Fetching, Fetchable, userVars
    <2>3. Now(b)' = Now(b) /\ (Fetching(b)' <=> Fetching(b))
      BY <1>0, <2>1 DEF Now, OpenSteps, Fetching
    <2> QED BY <1>0, <2>1, <2>2, <2>3, OneLook
  <1>2. CASE OpenMeta
    <2>1. /\ hpc = "openMeta" /\ hfile' = b /\ hpc' = "get" /\ hremote' = hremote
          /\ db[b].isLocal = 0
          /\ UNCHANGED <<disk, bucket, db, opened, hgot, oldName, queue>>
      BY <1>0, <1>2, NamesAssumption DEF OpenMeta, Step, Whole, InHand, Flag
    <2>2. InHand'
      BY <1>0, <2>1 DEF InHand, OpenSteps, RecallSteps, Fetching, Fetchable, userVars
    <2>3. Now(b)' = Now(b) /\ (Fetching(b)' <=> Fetching(b))
      BY <1>0, <2>1 DEF Now, OpenSteps, RecallSteps, Fetching
    <2> QED BY <1>0, <2>1, <2>2, <2>3, OneLook
  <1>3. CASE RecallGet
    <2>1. /\ hpc = "get" /\ hfile' = b /\ hpc' = "write" /\ hremote' = hremote
          /\ db[b].isLocal = 0 /\ hgot' = bucket[hremote]
          /\ UNCHANGED <<disk, bucket, db, opened, oldName, queue>>
      BY <1>0, <1>3 DEF RecallGet, Step, InHand
    <2>2. Fetchable(b, hremote)
      BY <1>0, <2>1 DEF InHand, Fetching
    <2>3. InHand'
      BY <1>0, <2>1, <2>2 DEF InHand, OpenSteps, RecallSteps, Fetching, Fetchable, userVars
    <2>4. Now(b)' = Now(b) /\ (Fetching(b)' <=> Fetching(b))
      BY <1>0, <2>1 DEF Now, OpenSteps, RecallSteps, Fetching
    <2> QED BY <1>0, <2>1, <2>3, <2>4, OneLook
  <1> QED BY <1>1, <1>2, <1>3

\* The download does not fail.
LEMMA GetSucceeds ==
    ASSUME TInv, Tidy, Coherent
    PROVE  ~RecallGetFails
  <1> SUFFICES ASSUME RecallGetFails PROVE FALSE
    OBVIOUS
  <1>1. hpc = "get" /\ hfile \in Files /\ InHand
    BY AtHand DEF RecallGetFails
  <1>2. Fetchable(hfile, hremote)
    BY <1>1 DEF InHand, Fetching
  <1> QED BY <1>2 DEF RecallGetFails, Fetchable, InBucket, Tidy

\* The object is deleted, which is no other file's, and the hash made local.
LEMMA RecallsKeep ==
    ASSUME TInv, Coherent, NEW h, Foretells(h), UNCHANGED userVars,
           RecallDelete \/ RecallDeleteFails \/ RecallUnlink \/ RecallHot \/ RecallUnmeta
    PROVE  Coherent' /\ Foretells(h)'
  <1> PICK b : b = hfile
    OBVIOUS
  <1>0. /\ hpc \in {"delete", "unlink", "hot", "unmeta"}
        /\ b \in Files /\ b # None /\ db[b] \in Entries /\ InHand /\ db[b].form = "made"
        /\ Whole(b) /\ db \in [Files -> Entries] /\ ~Fetching(b)
    BY AtHand DEF RecallDelete, RecallDeleteFails, RecallUnlink, RecallHot, RecallUnmeta,
                  InHand, OpenSteps, RecallSteps, Fetching
  <1>1. CASE RecallDelete \/ RecallDeleteFails
    <2>1. /\ hpc = "delete" /\ hfile' = b /\ hpc' = "unlink" /\ hremote' = hremote
          /\ db[b].isLocal = 0 /\ hremote = db[b].remoteURI /\ hremote \in Files
          /\ bucket' \in {bucket, [bucket EXCEPT ![hremote] = None]}
          /\ UNCHANGED <<disk, db, opened, hgot, oldName, queue>>
      BY <1>0, <1>1 DEF RecallDelete, RecallDeleteFails, Step, InHand, Whole
    <2>2. InHand'
      BY <1>0, <2>1 DEF InHand, OpenSteps, RecallSteps, Fetching, userVars
    <2>3. Now(b)' = Now(b) /\ Now(b) = Hot /\ ~Fetching(b)'
      BY <1>0, <2>1 DEF Now, OpenSteps, RecallSteps, Fetching
    <2>4. ASSUME NEW g \in Files PROVE Now(g) # hremote
      <3>1. CASE g = b
        BY <2>1, <2>3, <3>1, KindsDiffer
      <3>2. CASE g # b
        <4>1. Now(g) = Kind(db[g])
          BY <2>1, <3>2 DEF Now
        <4> QED BY <2>1, <3>2, <4>1, Types, KindType DEF Coherent, ObjectsDiffer
      <3> QED BY <3>1, <3>2
    <2>5. \A o \in Files : bucket'[o] = bucket[o] \/ \A g \in Files : Now(g) # o
      BY <2>1, <2>4 DEF TInv, TypeOK
    <2> QED BY <1>0, <2>1, <2>2, <2>3, <2>5, OneLook
  <1>2. CASE RecallUnlink
    <2> DEFINE e == SetRemoteURI(db[b], None)
    <2>1. /\ hpc = "unlink" /\ db[b].isLocal = 0 /\ hremote = db[b].remoteURI
          /\ hremote \in Files /\ hremote # Nil
      BY <1>0, <1>2, Types DEF RecallUnlink, InHand, Whole
    <2>2. /\ e \in Entries /\ e.form = "made" /\ e.remoteURI = None /\ e.isLocal = 0
          /\ e.isMetadata = db[b].isMetadata /\ e.fileName = db[b].fileName
      BY <1>0, <2>1, SettersLeave
    <2>3. /\ hfile' = b /\ hpc' = "hot" /\ db' = [db EXCEPT ![b] = e] /\ db'[b] = e
          /\ UNCHANGED <<disk, bucket, opened, hgot, oldName, queue>>
      BY <1>0, <1>2, <2>1, <2>2 DEF RecallUnlink, HandlerSets, Step, SetterReturns
    <2> HIDE DEF e
    <2>4. Whole(b)'
      BY <1>0, <2>1, <2>2, <2>3 DEF Whole, Flag
    <2>5. InHand'
      BY <1>0, <2>1, <2>2, <2>3 DEF InHand, OpenSteps, RecallSteps, Fetching, userVars
    <2>6. Now(b)' = Now(b) /\ ~Fetching(b)'
      BY <1>0, <2>1, <2>3 DEF Now, OpenSteps, RecallSteps, Fetching
    <2>7. e.remoteURI \notin Files
      BY <2>2, Types, NamesAssumption
    <2> QED BY <1>0, <2>1, <2>2, <2>3, <2>4, <2>5, <2>6, <2>7, OneCall
  <1>3. CASE RecallHot
    <2> DEFINE e == SetIsLocal(db[b], 1)
    <2>1. hpc = "hot" /\ db[b].isLocal = 0 /\ db[b].remoteURI = None
      BY <1>0, <1>3 DEF RecallHot, InHand
    <2>2. /\ e \in Entries /\ e.form = "made" /\ e.remoteURI = None /\ e.isLocal = 1
          /\ e.isMetadata = db[b].isMetadata /\ e.fileName = db[b].fileName
      BY <1>0, <2>1, SettersLeave DEF Flag
    <2>3. /\ hfile' = b /\ hpc' = "unmeta" /\ db' = [db EXCEPT ![b] = e] /\ db'[b] = e
          /\ UNCHANGED <<disk, bucket, opened, hgot, oldName, queue>>
      BY <1>0, <1>3, <2>1, <2>2 DEF RecallHot, HandlerSets, Step, SetterReturns
    <2> HIDE DEF e
    <2>4. Whole(b)'
      BY <1>0, <2>1, <2>2, <2>3 DEF Whole, Flag
    <2>5. InHand'
      BY <1>0, <2>1, <2>2, <2>3 DEF InHand, OpenSteps, RecallSteps, Fetching, userVars
    <2>6. Now(b)' = Now(b) /\ ~Fetching(b)'
      BY <1>0, <2>1, <2>3 DEF Now, OpenSteps, RecallSteps, Fetching
    <2>7. e.remoteURI \notin Files
      BY <2>2, NamesAssumption
    <2> QED BY <1>0, <2>1, <2>2, <2>3, <2>4, <2>5, <2>6, <2>7, OneCall
  <1>4. CASE RecallUnmeta
    <2> DEFINE e == SetIsMetadata(db[b], 0)
    <2>1. hpc = "unmeta" /\ db[b].isLocal = 1 /\ db[b].remoteURI = None
      BY <1>0, <1>4 DEF RecallUnmeta, InHand, Whole
    <2>2. /\ e \in Entries /\ e.form = "made" /\ e.remoteURI = None /\ e.isLocal = 1
          /\ e.isMetadata = 0 /\ e.fileName = db[b].fileName
      BY <1>0, <2>1, SettersLeave DEF Flag
    <2>3. /\ hfile' = b /\ hpc' = "openMark" /\ db' = [db EXCEPT ![b] = e] /\ db'[b] = e
          /\ UNCHANGED <<disk, bucket, opened, hgot, oldName, queue>>
      BY <1>0, <1>4, <2>1, <2>2 DEF RecallUnmeta, HandlerSets, Step, SetterReturns
    <2> HIDE DEF e
    <2>4. Whole(b)'
      BY <1>0, <2>1, <2>2, <2>3 DEF Whole, Flag
    <2>5. InHand'
      BY <1>0, <2>1, <2>2, <2>3 DEF InHand, OpenSteps, RecallSteps, Fetching, userVars
    <2>6. Now(b)' = Now(b) /\ ~Fetching(b)'
      BY <1>0, <2>1, <2>3 DEF Now, OpenSteps, RecallSteps, Fetching
    <2>7. e.remoteURI \notin Files
      BY <2>2, NamesAssumption
    <2> QED BY <1>0, <2>1, <2>2, <2>3, <2>4, <2>5, <2>6, <2>7, OneCall
  <1> QED BY <1>1, <1>2, <1>3, <1>4

\* The calls that are not part of a recall.
LEMMA CallsKeep ==
    ASSUME TInv, Coherent, NEW h, Foretells(h), UNCHANGED userVars,
           Insert \/ OpenMark \/ OpenHits \/ Erase \/ Resize \/ SetName
    PROVE  Coherent' /\ Foretells(h)'
  <1> PICK b : b = hfile
    OBVIOUS
  <1>0. /\ hpc \in {"insert", "openMark", "openHits", "erase", "resize", "setName"}
        /\ b \in Files /\ b # None /\ db[b] \in Entries /\ InHand
        /\ db[b].form = "made" => Whole(b)
        /\ db \in [Files -> Entries] /\ ~Fetching(b)
    BY AtHand DEF Insert, OpenMark, OpenHits, Erase, Resize, SetName, Fetching
  <1>1. CASE Insert
    <2>0. hpc = "insert" /\ db[b] = NoEntry
      BY <1>0, <1>1 DEF Insert, InHand
    <2>1. PICK open \in Flag, age \in Ages :
              db' = [db EXCEPT ![b] = HMSET(NoEntry, NewFileData(b, open, age))]
      BY <1>1, <2>0 DEF Insert
    <2>2. PICK e : e = HMSET(NoEntry, NewFileData(b, open, age))
      OBVIOUS
    <2>3. /\ e \in Entries /\ e.form = "made" /\ e.fileName = b /\ e.remoteURI = None
          /\ e.isLocal = 1 /\ e.isMetadata = 0
      <3>1. e \in Entries
        BY <1>0, <2>2, HMSETType
      <3> QED BY <2>2, <3>1 DEF HMSET, NewFileData, NoEntry
    <2>4. /\ hfile' = None /\ hpc' = "idle" /\ db' = [db EXCEPT ![b] = e] /\ db'[b] = e
          /\ UNCHANGED <<disk, bucket, opened, hremote, hgot, oldName, queue>>
      BY <1>0, <1>1, <2>1, <2>2 DEF Insert, Step
    <2>5. Whole(b)'
      BY <1>0, <2>3, <2>4 DEF Whole, Flag
    <2>6. InHand'
      BY <1>0, <2>4, Types DEF InHand, OpenSteps, RecallSteps, Fetching
    <2>7. Now(b)' = Now(b) /\ ~Fetching(b)'
      BY <1>0, <2>0, <2>3, <2>4 DEF Now, Kind, Fetching
    <2>8. e.remoteURI \notin Files
      BY <2>3, NamesAssumption
    <2> QED BY <1>0, <2>3, <2>4, <2>5, <2>6, <2>7, <2>8, OneCall
  <1>2. CASE OpenMark
    <2>0. hpc = "openMark" /\ db[b].form = "made" /\ db[b].isLocal = 1
      BY <1>0, <1>2 DEF OpenMark, InHand, OpenSteps
    <2>1. PICK e : e = SetIsOpen(db[b], 1)
      OBVIOUS
    <2>2. SameHash(e, db[b]) /\ e.fileName = db[b].fileName
      BY <1>0, <2>0, <2>1, SettersLeave DEF Flag
    <2>3. /\ hfile' = b /\ hpc' = "openHits" /\ db' = [db EXCEPT ![b] = e] /\ db'[b] = e
          /\ UNCHANGED <<disk, bucket, opened, hremote, hgot, oldName, queue>>
      BY <1>0, <1>2, <2>1 DEF OpenMark, Step
    <2>4. Whole(b)'
      BY <1>0, <2>0, <2>2, <2>3 DEF Whole, SameHash
    <2>5. InHand'
      BY <1>0, <2>0, <2>2, <2>3 DEF InHand, OpenSteps, RecallSteps, Fetching, SameHash
    <2>6. Now(b)' = Now(b) /\ ~Fetching(b)'
      BY <1>0, <2>0, <2>3 DEF Now, OpenSteps, Fetching
    <2> QED BY <1>0, <2>2, <2>3, <2>4, <2>5, <2>6, OneCall DEF SameHash
  <1>3. CASE OpenHits
    <2>0. hpc = "openHits" /\ db[b].form = "made" /\ db[b].isLocal = 1
      BY <1>0, <1>3 DEF OpenHits, InHand, OpenSteps
    <2>1. PICK e : e = IncrementTimesAccessed(db[b])
      OBVIOUS
    <2>2. SameHash(e, db[b]) /\ e.fileName = db[b].fileName
      BY <1>0, <2>0, <2>1, SettersLeave
    <2>3. /\ hfile' = None /\ hpc' = "idle" /\ db' = [db EXCEPT ![b] = e] /\ db'[b] = e
          /\ UNCHANGED <<disk, bucket, opened, hremote, hgot, oldName, queue>>
      BY <1>0, <1>3, <2>1, <2>2 DEF OpenHits, HandlerSets, Step, SetterReturns, SameHash
    <2>4. Whole(b)'
      BY <1>0, <2>0, <2>2, <2>3 DEF Whole, SameHash
    <2>5. InHand'
      BY <1>0, <2>3, Types DEF InHand, OpenSteps, RecallSteps, Fetching
    <2>6. Now(b)' = Now(b) /\ ~Fetching(b)'
      BY <1>0, <2>0, <2>2, <2>3 DEF Now, OpenSteps, Fetching, Kind, SameHash
    <2> QED BY <1>0, <2>2, <2>3, <2>4, <2>5, <2>6, OneCall DEF SameHash
  <1>4. CASE Erase
    <2>0. hpc = "erase" /\ NoEntry \in Entries /\ NoEntry.remoteURI \notin Files
      BY <1>4, HMSETType, NamesAssumption DEF Erase, NoEntry
    <2>1. /\ hfile' = None /\ hpc' = "idle"
          /\ db' = [db EXCEPT ![b] = NoEntry] /\ db'[b] = NoEntry
          /\ UNCHANGED <<disk, bucket, opened, hremote, hgot, oldName, queue>>
      BY <1>0, <1>4 DEF Erase, Step
    <2>2. InHand'
      BY <1>0, <2>1, Types DEF InHand, OpenSteps, RecallSteps, Fetching
    <2>3. Now(b)' = Now(b) /\ ~Fetching(b)'
      BY <1>0, <2>0, <2>1, KindType DEF Now, OpenSteps, RecallSteps, Fetching
    <2> QED BY <1>0, <2>0, <2>1, <2>2, <2>3, OneCall
  <1>5. CASE Resize
    <2>0. hpc = "resize" /\ db[b].form = "made"
      BY <1>0, <1>5 DEF Resize, InHand
    <2>1. PICK e : e = SetFileSize(db[b])
      OBVIOUS
    <2>2. SameHash(e, db[b]) /\ e.fileName = db[b].fileName
      BY <1>0, <2>0, <2>1, SettersLeave
    <2>3. /\ hfile' = None /\ hpc' = "idle" /\ db' = [db EXCEPT ![b] = e] /\ db'[b] = e
          /\ UNCHANGED <<disk, bucket, opened, hremote, hgot, oldName, queue>>
      BY <1>0, <1>5, <2>1, <2>2 DEF Resize, HandlerSets, Step, SetterReturns, SameHash
    <2>4. Whole(b)'
      BY <1>0, <2>0, <2>2, <2>3 DEF Whole, SameHash
    <2>5. InHand'
      BY <1>0, <2>3, Types DEF InHand, OpenSteps, RecallSteps, Fetching
    <2>6. Now(b)' = Now(b) /\ ~Fetching(b)'
      BY <1>0, <2>0, <2>2, <2>3 DEF Now, OpenSteps, RecallSteps, Fetching, Kind, SameHash
    <2> QED BY <1>0, <2>2, <2>3, <2>4, <2>5, <2>6, OneCall DEF SameHash
  <1>6. CASE SetName
    <2>0. hpc = "setName" /\ db[b].form = "made"
      BY <1>0, <1>6 DEF SetName, InHand
    <2>1. PICK e : e = SetFileName(db[b], b)
      OBVIOUS
    <2>2. SameHash(e, db[b]) /\ e.fileName = b
      BY <1>0, <2>0, <2>1, SettersLeave
    <2>3. /\ hfile' = None /\ hpc' = "idle" /\ db' = [db EXCEPT ![b] = e] /\ db'[b] = e
          /\ UNCHANGED <<disk, bucket, opened, hremote, hgot, oldName, queue>>
      BY <1>0, <1>6, <2>1, <2>2 DEF SetName, HandlerSets, Step, SetterReturns, SameHash
    <2>4. Whole(b)'
      BY <1>0, <2>0, <2>2, <2>3 DEF Whole, SameHash
    <2>5. InHand'
      BY <1>0, <2>3, Types DEF InHand, OpenSteps, RecallSteps, Fetching
    <2>6. Now(b)' = Now(b) /\ ~Fetching(b)'
      BY <1>0, <2>0, <2>2, <2>3 DEF Now, OpenSteps, RecallSteps, Fetching, Kind, SameHash
    <2> QED BY <1>0, <2>2, <2>3, <2>4, <2>5, <2>6, OneCall DEF SameHash
  <1> QED BY <1>1, <1>2, <1>3, <1>4, <1>5, <1>6

\* The hash of a moved file gets its new key, not yet its new name.
LEMMA RenameKeeps ==
    ASSUME TInv, Coherent, NEW h, Foretells(h), UNCHANGED userVars, Rename
    PROVE  Coherent' /\ Foretells(h)'
  <1> PICK b : b = hfile
    OBVIOUS
  <1> PICK a : a = oldName
    OBVIOUS
  <1>1. /\ hpc = "rename" /\ a \in Files /\ b \in Files /\ b # None
        /\ db[a].form = "made" /\ Whole(a) /\ db \in [Files -> Entries]
        /\ Hashes /\ ObjectsDiffer /\ InOnePlace /\ InHand
    BY Types, WholeKinds DEF Rename, Coherent, InHand, TInv, TypeOK
  <1>2. /\ db' = [db EXCEPT ![a] = NoEntry, ![b] = db[a]]
        /\ db'[b] = db[a] /\ (a # b => db'[a] = NoEntry)
        /\ \A f \in Files : f \notin {a, b} => db'[f] = db[f]
    BY <1>1 DEF Rename
  <1>3. /\ hpc' = "setName" /\ hfile' = b /\ oldName' = None
        /\ UNCHANGED <<disk, bucket, opened, hremote, hgot, queue>>
        /\ UNCHANGED <<trash, truth, binned>>
    BY <1>1, <1>2 DEF Rename, Step, Readable, userVars
  <1>4. ASSUME NEW f \in Files PROVE db'[f] = NoEntry \/ Whole(f)'
    <2>1. CASE f = b
      BY <1>1, <1>2, <1>3, <2>1 DEF Whole
    <2>2. CASE f # b /\ f = a
      BY <1>2, <2>2
    <2>3. CASE f # b /\ f # a
      BY <1>1, <1>2, <1>3, <2>3 DEF Hashes, Whole
    <2> QED BY <2>1, <2>2, <2>3
  <1>5. ObjectsDiffer'
    <2>1. NoEntry.remoteURI \notin Files
      BY NamesAssumption DEF NoEntry
    <2> QED BY <1>1, <1>2, <2>1 DEF ObjectsDiffer
  <1>6. InHand'
    BY <1>1, <1>2, <1>3 DEF InHand, OpenSteps, RecallSteps, Fetching
  <1>7. InOnePlace'
    BY <1>1, <1>3, PlaceFrame
  <1>8. View' = View
    <2>1. ASSUME NEW f \in Files PROVE Now(f)' = Now(f)
      <3>1. CASE f = b
        BY <1>1, <1>2, <1>3, <3>1 DEF Now, OpenSteps, RecallSteps
      <3>2. CASE f # b /\ f = a
        BY <1>1, <1>2, <1>3, <3>2, KindType, HMSETType DEF Now
      <3>3. CASE f # b /\ f # a
        BY <1>1, <1>2, <1>3, <3>3 DEF Now
      <3> QED BY <3>1, <3>2, <3>3
    <2> QED BY <1>1, <1>3, <2>1 DEF View
  <1>9. \A f \in Files : ~Fetching(f) /\ ~Fetching(f)'
    BY <1>1, <1>3 DEF Fetching
  <1>10. Foretells(h)'
    BY <1>3, <1>8, <1>9, CallForetells
  <1> QED BY <1>4, <1>5, <1>6, <1>7, <1>10 DEF Coherent, Hashes

\* A hot file is written anew.
Rewritten(q, f) == q \o <<Ev("open", f), Ev("modify", f), Ev("close", f)>>

\* Writing a file anew adds three events.
LEMMA RewrittenElements ==
    ASSUME NEW q \in Seq(Events), NEW f \in Files
    PROVE  /\ Append(q, Ev("open", f)) \in Seq(Events)
           /\ Append(Append(q, Ev("open", f)), Ev("modify", f)) \in Seq(Events)
           /\ Rewritten(q, f) =
                  Append(Append(Append(q, Ev("open", f)), Ev("modify", f)), Ev("close", f))
  <1>1. Ev("open", f) \in Events /\ Ev("modify", f) \in Events /\ Ev("close", f) \in Events
    BY EventsType DEF EventTypes
  <1> QED BY <1>1 DEF Rewritten

\* Writing a hot file anew changes nothing in the forecast.
LEMMA AddRewrite ==
    ASSUME NEW q \in Seq(Events), NEW h, NEW fetched \in SUBSET Files,
           Plausible(q, h, fetched),
           NEW f \in Files, Last(q, h).hash[f] = Hot
    PROVE  \E h2 : /\ Plausible(Rewritten(q, f), h2, fetched)
                   /\ h2[1] = h[1]
                   /\ Last(Rewritten(q, f), h2) = Last(q, h)
                   /\ \A g, o \in Files :
                          Wants(Rewritten(q, f), h2, g, o) <=> Wants(q, h, g, o)
  <1>0. ASSUME NEW p \in Seq(Events), NEW g, Plausible(p, g, fetched), Last(p, g).hash[f] = Hot
        PROVE  \E h3 : /\ Plausible(Append(p, Ev("close", f)), h3, fetched)
                       /\ h3[1] = g[1]
                       /\ Last(Append(p, Ev("close", f)), h3) = Last(p, g)
                       /\ \A b, o \in Files :
                              Wants(Append(p, Ev("close", f)), h3, b, o) <=> Wants(p, g, b, o)
    BY <1>0, AddQuiet
  <1> PICK q1 : q1 = Append(q, Ev("open", f))
    OBVIOUS
  <1> PICK q2 : q2 = Append(q1, Ev("modify", f))
    OBVIOUS
  <1> PICK q3 : q3 = Append(q2, Ev("close", f))
    OBVIOUS
  <1>1. q1 \in Seq(Events) /\ q2 \in Seq(Events) /\ Rewritten(q, f) = q3
    BY RewrittenElements
  <1>2. PICK h1 : /\ Plausible(q1, h1, fetched)
                  /\ h1[1] = h[1]
                  /\ Last(q1, h1) = Last(q, h)
                  /\ \A g, o \in Files : Wants(q1, h1, g, o) <=> Wants(q, h, g, o)
    BY AddQuiet
  <1>3. PICK h2 : /\ Plausible(q2, h2, fetched)
                  /\ h2[1] = h1[1]
                  /\ Last(q2, h2) = Last(q1, h1)
                  /\ \A g, o \in Files : Wants(q2, h2, g, o) <=> Wants(q1, h1, g, o)
    BY <1>1, <1>2, AddQuiet
  <1>4. PICK h3 : /\ Plausible(q3, h3, fetched)
                  /\ h3[1] = h2[1]
                  /\ Last(q3, h3) = Last(q2, h2)
                  /\ \A g, o \in Files : Wants(q3, h3, g, o) <=> Wants(q2, h2, g, o)
    <2>1. Last(q2, h2).hash[f] = Hot
      BY <1>2, <1>3
    <2>2. Plausible(q2, h2, fetched) /\ q2 \in Seq(Events)
      BY <1>1, <1>3
    <2> QED BY <1>0, <2>1, <2>2
  <1> QED BY <1>1, <1>2, <1>3, <1>4

\* The content is written over the placeholder, and the handler will hear of it.
LEMMA RecallWriteKeeps ==
    ASSUME TInv, Coherent, NEW h, Foretells(h), UNCHANGED userVars, RecallWrite
    PROVE  Coherent' /\ \E h2 : Foretells(h2)'
  <1> PICK b : b = hfile
    OBVIOUS
  <1>1. /\ hpc = "write" /\ b \in Files /\ b # None /\ InHand /\ db[b].form = "made"
        /\ Fetchable(b, hremote) /\ hgot = truth[b] /\ db[b].isLocal = 0
        /\ Hashes /\ ObjectsDiffer /\ InOnePlace
        /\ hremote = db[b].remoteURI
    BY AtHand DEF RecallWrite, InHand, OpenSteps, RecallSteps, Fetching, Coherent
  <1>2. /\ hpc' = "delete" /\ hfile' = b /\ hremote' = hremote
        /\ disk' = [disk EXCEPT ![b] = truth[b]] /\ disk'[b] = truth[b]
        /\ truth[b] # None
        /\ \A f \in Files : f # b => disk'[f] = disk[f]
        /\ UNCHANGED <<bucket, db, opened, oldName, trash, truth, binned>>
    BY <1>1 DEF RecallWrite, userVars, Fetchable, TInv, TypeOK
  <1>3. queue' = queue \o <<Ev("open", b), Ev("modify", b), Ev("close", b)>>
    BY <1>1, Types DEF RecallWrite, Notify, RewriteEvents, Fetchable
  <1>4. /\ Plausible(queue, h, Fetched) /\ h[1] = View /\ Last(queue, h).old = None
        /\ \A f, o \in Files : Wants(queue, h, f, o) => Fetchable(f, o)
        /\ \A f \in Files : Fits(h, f)
    BY DEF Foretells
  <1>5. b \in Fetched /\ Fetched \in SUBSET Files
    BY <1>1 DEF Fetched, Fetching
  <1>6. /\ Last(queue, h).hash[b] = Hot /\ \A o \in Files : ~Wants(queue, h, b, o)
    BY <1>1, <1>4, <1>5, LastIsHot, Types
  <1>7. PICK h2 : /\ Plausible(queue', h2, Fetched)
                  /\ h2[1] = h[1]
                  /\ Last(queue', h2) = Last(queue, h)
                  /\ \A f, o \in Files : Wants(queue', h2, f, o) <=> Wants(queue, h, f, o)
    <2>1. queue \in Seq(Events) /\ b \in Files
      BY <1>1, Types
    <2>2. queue' = Rewritten(queue, b)
      BY <1>3 DEF Rewritten
    <2>3. \E h2 : /\ Plausible(Rewritten(queue, b), h2, Fetched)
                 /\ h2[1] = h[1]
                 /\ Last(Rewritten(queue, b), h2) = Last(queue, h)
                 /\ \A f, o \in Files :
                        Wants(Rewritten(queue, b), h2, f, o) <=> Wants(queue, h, f, o)
      BY <1>4, <1>5, <1>6, <2>1, AddRewrite
    <2> QED BY <2>2, <2>3
  <1>8. \A f \in Files : ~Fetching(f)' /\ (f # b => ~Fetching(f))
    BY <1>1, <1>2 DEF Fetching
  <1>9. Plausible(queue', h2, Fetched')
    <2>1. Fetched' \in SUBSET Fetched
      BY <1>8 DEF Fetched
    <2> QED BY <1>7, <2>1, FetchFewer
  <1>10. View' = View
    <2>1. \A f \in Files : Now(f)' = Now(f)
      BY <1>1, <1>2 DEF Now, OpenSteps, RecallSteps
    <2> QED BY <1>1, <1>2, <2>1 DEF View
  <1>11. \A f, o \in Files : Wants(queue', h2, f, o) => Fetchable(f, o)'
    BY <1>2, <1>4, <1>6, <1>7 DEF Fetchable
  <1>12. ASSUME NEW f \in Files PROVE Fits(h2, f)'
    <2>1. Should(f)' = Should(f)
      BY <1>2 DEF Should
    <2>2. CASE f = b
      <3>1. Should(b)' = truth[b] /\ Holds(b)' = truth[b]
        BY <1>2 DEF Should, Holds
      <3> QED BY <1>2, <1>6, <1>7, <2>2, <3>1, KindsDiffer DEF Fits
    <2>3. CASE f # b
      <3>1. Holds(f)' = Holds(f) /\ Fits(h, f)
        BY <1>2, <1>4, <2>3 DEF Holds
      <3> QED BY <1>2, <1>7, <1>8, <2>1, <2>3, <3>1 DEF Fits
    <2> QED BY <2>2, <2>3
  <1>13. Foretells(h2)'
    BY <1>4, <1>7, <1>9, <1>10, <1>11, <1>12 DEF Foretells
  <1>14. Hashes' /\ ObjectsDiffer'
    BY <1>1, <1>2 DEF Hashes, Whole, ObjectsDiffer
  <1>15. InOnePlace'
    BY <1>1, <1>2 DEF InOnePlace
  <1>16. InHand'
    BY <1>1, <1>2, <1>8 DEF InHand, OpenSteps, RecallSteps
  <1> QED BY <1>13, <1>14, <1>15, <1>16 DEF Coherent

-----------------------------------------------------------------------------
(***************************************************************************)
(* The events that the handler reads.                                      *)
(***************************************************************************)

\* The view of the next state has its type, too.
ViewOK == /\ View \in Views
          /\ \A f \in Files : View.hash[f] = Now(f)
          /\ View.old = IF hpc = "rename" THEN None ELSE oldName

\* The same of the next state.
LEMMA ViewTypeNext == TInv' => ViewOK'
  <1>1. TInv => ViewOK
    BY ViewType DEF ViewOK
  <1> QED BY <1>1, PTL

\* A view is known from its parts.
LEMMA SameView ==
    ASSUME NEW v \in Views, NEW w \in Views, v.old = w.old,
           \A f \in Files : v.hash[f] = w.hash[f]
    PROVE  v = w
  BY DEF Views

\* The next event finds what the forecast says.
LEMMA NextEvent ==
    ASSUME TInv, Coherent, NEW h, Foretells(h), hpc = "idle", queue # <<>>
    PROVE  /\ Head(queue) \in Events /\ Head(queue).file \in Files
           /\ \A f \in Files : Now(f) = Kind(db[f]) /\ View.hash[f] = Kind(db[f])
           /\ View.old = oldName /\ View \in Views
           /\ \E w \in Views : Follows(Head(queue), View, w)
           /\ \A f \in Files : Head(queue) = Ev("open", f) /\ Kind(db[f]) \in Files =>
                  Fetchable(f, Kind(db[f]))
  <1>1. Head(queue) \in Events /\ Head(queue).file \in Files
    BY Types, TailElements DEF Events
  <1>2. \A f \in Files : Now(f) = Kind(db[f])
    BY DEF Now, OpenSteps, RecallSteps
  <1>3. /\ \A f \in Files : View.hash[f] = Kind(db[f])
        /\ View.old = oldName /\ View \in Views
    BY <1>2, ViewType
  <1>4. /\ 1 \in 1..Len(queue) /\ queue[1] = Head(queue) /\ 1 + 1 \in 1..Len(queue) + 1
    BY Types, TailElements
  <1>5. Follows(Head(queue), View, h[1 + 1]) /\ h[1 + 1] \in Views
    BY <1>4 DEF Foretells, Plausible, Forecasts
  <1>6. ASSUME NEW f \in Files, Head(queue) = Ev("open", f), Kind(db[f]) \in Files
        PROVE  Fetchable(f, Kind(db[f]))
    <2>1. Wants(queue, h, f, Kind(db[f]))
      BY <1>3, <1>4, <1>6 DEF Wants, Recalls, Foretells
    <2> QED BY <1>6, <2>1 DEF Foretells
  <1> QED BY <1>1, <1>2, <1>3, <1>5, <1>6

\* The handler reads an event, and makes of it what the forecast says.
LEMMA OneRead ==
    ASSUME TInv, TInv', Coherent, NEW h, Foretells(h), hpc = "idle", queue # <<>>,
           queue' = Tail(queue), UNCHANGED <<disk, bucket, opened, userVars>>,
           Hashes' /\ ObjectsDiffer',
           \A w \in Views : Follows(Head(queue), View, w) =>
               /\ w.old = IF hpc' = "rename" THEN None ELSE oldName'
               /\ \A f \in Files : w.hash[f] = Now(f)',
           \A f \in Files : Fetching(f)' <=>
               Head(queue) = Ev("open", f) /\ Kind(db[f]) \in Files,
           InHand'
    PROVE  Coherent' /\ \E h2 : Foretells(h2)'
  <1>1. View' \in Views
        /\ (\A f \in Files : View'.hash[f] = Now(f)')
        /\ View'.old = IF hpc' = "rename" THEN None ELSE oldName'
    BY ViewTypeNext DEF ViewOK
  <1>2. \A w \in Views : Follows(Head(queue), View, w) => View' = w
    BY <1>1, SameView
  <1>3. \A f \in Files : Now(f) = Kind(db[f])
    BY NextEvent
  <1>4. UNCHANGED <<trash, truth, binned>>
    BY DEF userVars
  <1>5. \E h2 : Foretells(h2)'
    BY <1>2, <1>3, <1>4, ReadForetells
  <1>7. InOnePlace'
    BY <1>4, PlaceFrame DEF Coherent
  <1> QED BY <1>5, <1>7 DEF Coherent

\* Between two events every hash is whole, and stays so if it is not touched.
LEMMA HashesStay ==
    ASSUME Coherent, hpc = "idle", UNCHANGED db
    PROVE  Hashes' /\ ObjectsDiffer'
  BY DEF Coherent, Hashes, Whole, ObjectsDiffer

\* A file that the catalogue does not know is to be added to it.
LEMMA CreateReads ==
    ASSUME TInv, TInv', Coherent, NEW h, Foretells(h), UNCHANGED userVars, Create
    PROVE  Coherent' /\ \E h2 : Foretells(h2)'
  <1> PICK b : b = Head(queue).file
    OBVIOUS
  <1>0. /\ hpc = "idle" /\ queue # <<>> /\ Head(queue).type = "create"
        /\ Hashes /\ InHand
    BY DEF Create, At, Coherent
  <1>1. /\ Head(queue) \in Events /\ b \in Files /\ b # None
        /\ \A f \in Files : View.hash[f] = Kind(db[f])
        /\ View.old = oldName /\ View \in Views
    BY <1>0, NextEvent, Types
  <1>2. /\ queue' = Tail(queue)
        /\ UNCHANGED <<disk, bucket, db, opened, hremote, hgot, oldName>>
        /\ \/ db[b] = NoEntry /\ hpc' = "insert" /\ hfile' = b
           \/ db[b].form = "made" /\ hpc' = "idle" /\ hfile' = None
    BY <1>0, <1>1, WholeKinds DEF Create, Take
  <1>3. ASSUME NEW w \in Views, Follows(Head(queue), View, w)
        PROVE  /\ w.old = IF hpc' = "rename" THEN None ELSE oldName'
               /\ \A f \in Files : w.hash[f] = Now(f)'
    <2>1. /\ w.old = View.old /\ \A f \in Files : f # b => w.hash[f] = View.hash[f]
          /\ w.hash[b] = IF View.hash[b] = Absent THEN Hot ELSE View.hash[b]
      BY <1>0, <1>1, <1>3, FollowsFields
    <2>2. ASSUME NEW f \in Files PROVE w.hash[f] = Now(f)'
      <3>1. CASE hpc' = "insert"
        BY <1>1, <1>2, <2>1, <3>1, KindType, Types DEF Now, OpenSteps, RecallSteps
      <3>2. CASE hpc' = "idle"
        <4>1. Kind(db[b]) # Absent
          BY <1>0, <1>1, <1>2, <3>2, WholeKinds
        <4> QED BY <1>1, <1>2, <2>1, <3>2, <4>1 DEF Now, OpenSteps, RecallSteps
      <3> QED BY <1>2, <3>1, <3>2
    <2> QED BY <1>1, <1>2, <2>1, <2>2
  <1>4. \A f \in Files : ~Fetching(f)' /\ Head(queue) # Ev("open", f)
    BY <1>0, <1>2 DEF Fetching, Ev
  <1>5. InHand'
    BY <1>0, <1>1, <1>2, <1>4, Types DEF InHand, OpenSteps, RecallSteps
  <1>6. Hashes' /\ ObjectsDiffer'
    BY <1>0, <1>2, HashesStay
  <1> QED BY <1>0, <1>2, <1>3, <1>4, <1>5, <1>6, OneRead

\* A file that was opened: if it is cold, its object is where the hash says.
LEMMA OpenReads ==
    ASSUME TInv, TInv', Coherent, NEW h, Foretells(h), UNCHANGED userVars, Open
    PROVE  Coherent' /\ \E h2 : Foretells(h2)'
  <1> PICK b : b = Head(queue).file
    OBVIOUS
  <1>0. /\ hpc = "idle" /\ queue # <<>> /\ Head(queue).type = "open"
        /\ Hashes /\ InHand
    BY DEF Open, At, Coherent
  <1>1. /\ Head(queue) \in Events /\ b \in Files /\ b # None
        /\ \A f \in Files : View.hash[f] = Kind(db[f])
        /\ View.old = oldName /\ View \in Views
        /\ \E w \in Views : Follows(Head(queue), View, w)
        /\ \A f \in Files : Head(queue) = Ev("open", f) /\ Kind(db[f]) \in Files =>
               Fetchable(f, Kind(db[f]))
    BY <1>0, NextEvent, Types
  <1>2. \A f \in Files : Head(queue) = Ev("open", f) <=> f = b
    BY <1>0, <1>1 DEF Ev, Events
  <1>3. Kind(db[b]) # Absent
    BY <1>0, <1>1, FollowsFields
  <1>4. /\ db[b].form = "made" /\ Whole(b)
        /\ Kind(db[b]) \in Files <=> db[b].isLocal = 0
        /\ Kind(db[b]) \in Files => db[b].remoteURI = Kind(db[b])
    <2>1. db[b].form = "made" /\ Whole(b)
      BY <1>0, <1>1, <1>3, WholeKinds
    <2> QED BY <1>0, <1>1, <2>1, KindsDiffer DEF Whole, Kind, Flag
  <1>5. /\ queue' = Tail(queue) /\ hpc' = "openLocal" /\ hfile' = b
        /\ hremote' = db[b].remoteURI
        /\ UNCHANGED <<disk, bucket, db, opened, hgot, oldName>>
    BY <1>4 DEF Open, Take, Readable
  <1>6. ASSUME NEW w \in Views, Follows(Head(queue), View, w)
        PROVE  /\ w.old = IF hpc' = "rename" THEN None ELSE oldName'
               /\ \A f \in Files : w.hash[f] = Now(f)'
    <2>1. /\ w.old = View.old /\ \A f \in Files : f # b => w.hash[f] = View.hash[f]
          /\ w.hash[b] = Hot
      BY <1>0, <1>1, <1>6, FollowsFields
    <2> QED BY <1>1, <1>5, <2>1 DEF Now, OpenSteps
  <1>7. \A f \in Files : Fetching(f)' <=> f = b /\ db[b].isLocal = 0
    BY <1>1, <1>5 DEF Fetching
  <1>8. ASSUME NEW f \in Files, Fetching(f)' PROVE Fetchable(f, hremote)'
    <2>1. f = b /\ Fetchable(b, db[b].remoteURI)
      BY <1>1, <1>2, <1>4, <1>7, <1>8
    <2> QED BY <1>5, <2>1 DEF Fetchable, userVars
  <1>9. InHand'
    <2>1. \A f \in Files : Fetching(f)' => Fetchable(f, hremote)'
      BY <1>8
    <2> QED BY <1>0, <1>4, <1>5, <2>1 DEF InHand, OpenSteps, RecallSteps
  <1>10. Hashes' /\ ObjectsDiffer'
    BY <1>0, <1>5, HashesStay
  <1>11. \A f \in Files : Fetching(f)' <=>
             Head(queue) = Ev("open", f) /\ Kind(db[f]) \in Files
    BY <1>2, <1>4, <1>7
  <1> QED BY <1>0, <1>5, <1>6, <1>9, <1>10, <1>11, OneRead

\* A file that was deleted, from one directory or the other.
LEMMA DeleteReads ==
    ASSUME TInv, TInv', Coherent, NEW h, Foretells(h), UNCHANGED userVars, Delete
    PROVE  Coherent' /\ \E h2 : Foretells(h2)'
  <1> PICK b : b = Head(queue).file
    OBVIOUS
  <1>0. /\ hpc = "idle" /\ queue # <<>> /\ Head(queue).type = "delete"
        /\ Hashes /\ InHand
    BY DEF Delete, At, Coherent
  <1>1. /\ Head(queue) \in Events /\ b \in Files /\ b # None
        /\ \A f \in Files : View.hash[f] = Kind(db[f])
        /\ View.old = oldName /\ View \in Views
    BY <1>0, NextEvent, Types
  <1>2. /\ queue' = Tail(queue) /\ hpc' = "erase" /\ hfile' = b
        /\ UNCHANGED <<disk, bucket, db, opened, hremote, hgot, oldName>>
    BY <1>0, <1>1, WholeKinds DEF Delete, Take, Readable
  <1>3. ASSUME NEW w \in Views, Follows(Head(queue), View, w)
        PROVE  /\ w.old = IF hpc' = "rename" THEN None ELSE oldName'
               /\ \A f \in Files : w.hash[f] = Now(f)'
    <2>1. /\ w.old = View.old /\ \A f \in Files : f # b => w.hash[f] = View.hash[f]
          /\ w.hash[b] = Absent
      BY <1>0, <1>1, <1>3, FollowsFields
    <2> QED BY <1>1, <1>2, <2>1 DEF Now, OpenSteps, RecallSteps
  <1>4. \A f \in Files : ~Fetching(f)' /\ Head(queue) # Ev("open", f)
    BY <1>0, <1>2 DEF Fetching, Ev
  <1>5. InHand'
    BY <1>0, <1>2, <1>4 DEF InHand, OpenSteps, RecallSteps
  <1>6. Hashes' /\ ObjectsDiffer'
    BY <1>0, <1>2, HashesStay
  <1> QED BY <1>0, <1>2, <1>3, <1>4, <1>5, <1>6, OneRead

\* A file that was written has a hash.
LEMMA ModifyReads ==
    ASSUME TInv, TInv', Coherent, NEW h, Foretells(h), UNCHANGED userVars, Modify
    PROVE  Coherent' /\ \E h2 : Foretells(h2)'
  <1> PICK b : b = Head(queue).file
    OBVIOUS
  <1>0. /\ hpc = "idle" /\ queue # <<>> /\ Head(queue).type = "modify"
        /\ Hashes /\ InHand
    BY DEF Modify, At, Coherent
  <1>1. /\ Head(queue) \in Events /\ b \in Files /\ b # None
        /\ \A f \in Files : View.hash[f] = Kind(db[f])
        /\ View.old = oldName /\ View \in Views
        /\ \E w \in Views : Follows(Head(queue), View, w)
    BY <1>0, NextEvent, Types
  <1>2. Kind(db[b]) # Absent
    BY <1>0, <1>1, FollowsFields
  <1>3. db[b].form = "made" /\ db[b].isMetadata \in Flag
    <2>1. db[b].form = "made" /\ Whole(b)
      BY <1>0, <1>1, <1>2, WholeKinds
    <2> QED BY <1>0, <2>1 DEF Whole, Flag
  <1>4. /\ queue' = Tail(queue)
        /\ UNCHANGED <<disk, bucket, db, opened, hremote, hgot, oldName>>
        /\ \/ hpc' = "resize" /\ hfile' = b
           \/ hpc' = "idle" /\ hfile' = None
    BY <1>3, NamesAssumption DEF Modify, Take, Flag
  <1>5. ASSUME NEW w \in Views, Follows(Head(queue), View, w)
        PROVE  /\ w.old = IF hpc' = "rename" THEN None ELSE oldName'
               /\ \A f \in Files : w.hash[f] = Now(f)'
    <2>1. w = View
      BY <1>0, <1>1, <1>5, FollowsFields
    <2> QED BY <1>1, <1>4, <2>1 DEF Now, OpenSteps, RecallSteps
  <1>6. \A f \in Files : ~Fetching(f)' /\ Head(queue) # Ev("open", f)
    BY <1>0, <1>4 DEF Fetching, Ev
  <1>7. InHand'
    BY <1>0, <1>1, <1>3, <1>4, <1>6 DEF InHand, OpenSteps, RecallSteps
  <1>8. Hashes' /\ ObjectsDiffer'
    BY <1>0, <1>4, HashesStay
  <1> QED BY <1>0, <1>4, <1>5, <1>6, <1>7, <1>8, OneRead

\* A file that was closed has one, too, and setIsOpen makes no ghost of it.
LEMMA CloseReads ==
    ASSUME TInv, TInv', Coherent, NEW h, Foretells(h), UNCHANGED userVars, Close
    PROVE  Coherent' /\ \E h2 : Foretells(h2)'
  <1> PICK b : b = Head(queue).file
    OBVIOUS
  <1>0. /\ hpc = "idle" /\ queue # <<>> /\ Head(queue).type = "close"
        /\ Hashes /\ ObjectsDiffer /\ InHand /\ db \in [Files -> Entries]
    BY DEF Close, At, Coherent, TInv, TypeOK
  <1>1. /\ Head(queue) \in Events /\ b \in Files /\ b # None
        /\ \A f \in Files : View.hash[f] = Kind(db[f])
        /\ View.old = oldName /\ View \in Views
        /\ \E w \in Views : Follows(Head(queue), View, w)
    BY <1>0, NextEvent, Types
  <1>2. Kind(db[b]) # Absent
    BY <1>0, <1>1, FollowsFields
  <1>3. db[b].form = "made" /\ db[b] \in Entries /\ Whole(b)
    BY <1>0, <1>1, <1>2, WholeKinds
  <1> PICK e : e = SetIsOpen(db[b], 0)
    OBVIOUS
  <1>4. SameHash(e, db[b]) /\ e.fileName = db[b].fileName
    BY <1>3, SettersLeave DEF Flag
  <1>5. /\ queue' = Tail(queue) /\ hpc' = "idle" /\ hfile' = None
        /\ db' = [db EXCEPT ![b] = e] /\ db'[b] = e
        /\ \A f \in Files : f # b => db'[f] = db[f]
        /\ UNCHANGED <<disk, bucket, opened, hremote, hgot, oldName>>
    BY <1>0, <1>1 DEF Close, Take
  <1>6. \A f \in Files : Kind(db'[f]) = Kind(db[f])
    BY <1>3, <1>4, <1>5 DEF Kind, SameHash
  <1>7. ASSUME NEW w \in Views, Follows(Head(queue), View, w)
        PROVE  /\ w.old = IF hpc' = "rename" THEN None ELSE oldName'
               /\ \A f \in Files : w.hash[f] = Now(f)'
    <2>1. w = View
      BY <1>0, <1>1, <1>7, FollowsFields
    <2> QED BY <1>1, <1>5, <1>6, <2>1 DEF Now, OpenSteps, RecallSteps
  <1>8. \A f \in Files : ~Fetching(f)' /\ Head(queue) # Ev("open", f)
    BY <1>0, <1>5 DEF Fetching, Ev
  <1>9. InHand'
    BY <1>0, <1>5, <1>8 DEF InHand, OpenSteps, RecallSteps
  <1>10. Hashes' /\ ObjectsDiffer'
    <2>1. ASSUME NEW f \in Files PROVE db'[f] = NoEntry \/ Whole(f)'
      <3>1. CASE f = b
        BY <1>0, <1>3, <1>4, <1>5, <3>1 DEF Whole, SameHash
      <3>2. CASE f # b
        BY <1>0, <1>5, <3>2 DEF Hashes, Whole
      <3> QED BY <3>1, <3>2
    <2>2. \A f \in Files : db'[f].remoteURI = db[f].remoteURI
      BY <1>4, <1>5 DEF SameHash
    <2> QED BY <1>0, <2>1, <2>2 DEF Hashes, ObjectsDiffer
  <1> QED BY <1>0, <1>5, <1>7, <1>8, <1>9, <1>10, OneRead

\* A file that went away under its old name: no other source waits.
LEMMA MovedFromReads ==
    ASSUME TInv, TInv', Coherent, NEW h, Foretells(h), UNCHANGED userVars, MovedFrom
    PROVE  Coherent' /\ \E h2 : Foretells(h2)'
  <1> PICK b : b = Head(queue).file
    OBVIOUS
  <1>0. /\ hpc = "idle" /\ queue # <<>> /\ Head(queue).type = "movedFrom"
        /\ Hashes /\ InHand
    BY DEF MovedFrom, At, Coherent
  <1>1. /\ Head(queue) \in Events /\ b \in Files /\ b # None
        /\ \A f \in Files : View.hash[f] = Kind(db[f])
        /\ View.old = oldName /\ View \in Views
        /\ \E w \in Views : Follows(Head(queue), View, w)
    BY <1>0, NextEvent, Types
  <1>2. oldName = None
    BY <1>0, <1>1, FollowsFields
  <1>3. /\ queue' = Tail(queue) /\ hpc' = "idle" /\ hfile' = None /\ oldName' = b
        /\ UNCHANGED <<disk, bucket, db, opened, hremote, hgot>>
    BY <1>0, <1>1, <1>2 DEF MovedFrom, Take
  <1>4. ASSUME NEW w \in Views, Follows(Head(queue), View, w)
        PROVE  /\ w.old = IF hpc' = "rename" THEN None ELSE oldName'
               /\ \A f \in Files : w.hash[f] = Now(f)'
    <2>1. w.old = b /\ w.hash = View.hash
      BY <1>0, <1>1, <1>4, FollowsFields
    <2> QED BY <1>1, <1>3, <2>1 DEF Now, OpenSteps, RecallSteps
  <1>5. \A f \in Files : ~Fetching(f)' /\ Head(queue) # Ev("open", f)
    BY <1>0, <1>3 DEF Fetching, Ev
  <1>6. InHand'
    BY <1>0, <1>3, <1>5 DEF InHand, OpenSteps, RecallSteps
  <1>7. Hashes' /\ ObjectsDiffer'
    BY <1>0, <1>3, HashesStay
  <1> QED BY <1>0, <1>3, <1>4, <1>5, <1>6, <1>7, OneRead

\* The target of a move: its source waits, and has a hash.
LEMMA MovedToReads ==
    ASSUME TInv, TInv', Coherent, NEW h, Foretells(h), UNCHANGED userVars, MovedTo
    PROVE  Coherent' /\ \E h2 : Foretells(h2)'
  <1> PICK b : b = Head(queue).file
    OBVIOUS
  <1> PICK a : a = oldName
    OBVIOUS
  <1>0. /\ hpc = "idle" /\ queue # <<>> /\ Head(queue).type = "movedTo"
        /\ Hashes /\ InHand
    BY DEF MovedTo, At, Coherent
  <1>1. /\ Head(queue) \in Events /\ b \in Files /\ b # None
        /\ \A f \in Files : View.hash[f] = Kind(db[f]) /\ f # None
        /\ View.old = a /\ View \in Views
        /\ \E w \in Views : Follows(Head(queue), View, w)
    BY <1>0, NextEvent, Types
  <1>2. a \in Files /\ a # None /\ Kind(db[a]) # Absent
    <2>1. View.old \in Files /\ View.hash[View.old] # Absent
      BY <1>0, <1>1, FollowsFields
    <2> QED BY <1>1, <2>1
  <1>3. db[a].form = "made"
    BY <1>0, <1>2, WholeKinds
  <1>4. /\ queue' = Tail(queue) /\ hpc' = "rename" /\ hfile' = b /\ oldName' = a
        /\ UNCHANGED <<disk, bucket, db, opened, hremote, hgot>>
    BY <1>0, <1>1, <1>2 DEF MovedTo, Take
  <1>5. ASSUME NEW w \in Views, Follows(Head(queue), View, w)
        PROVE  /\ w.old = IF hpc' = "rename" THEN None ELSE oldName'
               /\ \A f \in Files : w.hash[f] = Now(f)'
    <2>1. /\ w.old = None /\ w.hash[b] = View.hash[a]
          /\ \A f \in Files : f # b => w.hash[f] = IF f = a THEN Absent ELSE View.hash[f]
      BY <1>0, <1>1, <1>5, FollowsFields
    <2> QED BY <1>1, <1>2, <1>4, <2>1 DEF Now
  <1>6. \A f \in Files : ~Fetching(f)' /\ Head(queue) # Ev("open", f)
    BY <1>0, <1>4 DEF Fetching, Ev
  <1>7. InHand'
    BY <1>0, <1>3, <1>4, <1>6 DEF InHand, OpenSteps, RecallSteps
  <1>8. Hashes' /\ ObjectsDiffer'
    BY <1>0, <1>4, HashesStay
  <1> QED BY <1>0, <1>4, <1>5, <1>6, <1>7, <1>8, OneRead

\* So much for initializeINotify.
LEMMA HandlerForetells ==
    ASSUME Tidy, TInv, TInv', Coherent, NEW h, Foretells(h), Handler
    PROVE  Coherent' /\ \E h2 : Foretells(h2)'
  <1>1. HandlerNext /\ UNCHANGED userVars
    BY DEF Handler
  <1>2. CASE Create \/ Open \/ Delete \/ Modify \/ Close \/ MovedFrom \/ MovedTo
    BY <1>1, <1>2, CreateReads, OpenReads, DeleteReads, ModifyReads, CloseReads,
       MovedFromReads, MovedToReads
  <1>3. CASE OpenLocal \/ OpenMeta \/ RecallGet
    BY <1>1, <1>3, LooksKeep
  <1>4. CASE RecallDelete \/ RecallDeleteFails \/ RecallUnlink \/ RecallHot \/ RecallUnmeta
    BY <1>1, <1>4, RecallsKeep
  <1>5. CASE Insert \/ OpenMark \/ OpenHits \/ Erase \/ Resize \/ SetName
    BY <1>1, <1>5, CallsKeep
  <1>6. CASE Rename
    BY <1>1, <1>6, RenameKeeps
  <1>7. CASE RecallWrite
    BY <1>1, <1>7, RecallWriteKeeps
  <1>8. ~RecallGetFails
    BY GetSucceeds
  <1> QED BY <1>1, <1>2, <1>3, <1>4, <1>5, <1>6, <1>7, <1>8 DEF HandlerNext, OpenFile

-----------------------------------------------------------------------------
(***************************************************************************)
(* Users.                                                                  *)
(***************************************************************************)

\* Patient users wait for a file that is fetched back, or that they have asked
\* for by opening it.
LEMMA NotRecalled ==
    ASSUME Tidy, TInv, Coherent, NEW h, Foretells(h), NEW f \in Files, UserTurn(f)
    PROVE  /\ ipc = "watching" /\ Idle(h, f)
           /\ hfile = f => hpc \notin RecallSteps
           /\ UNCHANGED <<bucket, db, hpc, handlerVars, initializeVars>>
           /\ \A events : Notify(events) => queue' = queue \o events
           /\ Last(queue, h).hash[f] = Hot => Holds(f) = Should(f)
           /\ Last(queue, h).hash[f] = Absent <=> Should(f) = None
           /\ Last(queue, h).hash[f] \in Files =>
                  Holds(f) = Empty /\ bucket[Last(queue, h).hash[f]] = Should(f)
  <1>1. /\ ipc = "watching" /\ ~BeingRecalled(f)
        /\ UNCHANGED <<bucket, db, hpc, handlerVars, initializeVars>>
    BY DEF UserTurn, Tidy
  <1>2. ~Fetching(f) /\ (hfile = f => hpc \notin RecallSteps)
    BY <1>1 DEF BeingRecalled, Fetching, RecallSteps
  <1>3. ASSUME NEW o \in Files, Wants(queue, h, f, o) PROVE FALSE
    <2>1. Fetchable(f, o)
      BY <1>3 DEF Foretells
    <2>2. disk[f] # truth[f]
      BY <2>1, Types DEF Fetchable
    <2> QED BY <1>1, <1>3, <2>2 DEF BeingRecalled, Wants, Recalls
  <1>4. \A events : Notify(events) => queue' = queue \o events
    BY DEF Notify, Coherent, InHand
  <1>5. Fits(h, f)
    BY DEF Foretells
  <1> QED BY <1>1, <1>2, <1>3, <1>4, <1>5 DEF Idle, Fits

\* What users do to files that the handler is not fetching back leaves it alone.
LEMMA UserCoherent ==
    ASSUME TInv, Coherent, UNCHANGED <<bucket, db, hpc, handlerVars>>,
           NEW touched \in SUBSET Files,
           \A f \in touched : hfile = f => hpc \notin RecallSteps,
           \A f \in touched : ~Fetching(f),
           \A f \in Files \ touched : UNCHANGED <<disk[f], truth[f]>>,
           InOnePlace'
    PROVE  Coherent'
  <1>1. Hashes' /\ ObjectsDiffer'
    BY DEF Coherent, Hashes, Whole, ObjectsDiffer, handlerVars
  <1>2. \A f \in Files : Fetching(f)' <=> Fetching(f)
    BY DEF Fetching, handlerVars
  <1>3. ASSUME NEW f \in Files, Fetching(f)' PROVE Fetchable(f, hremote)'
    <2>1. Fetching(f) /\ Fetchable(f, hremote) /\ f \notin touched
      BY <1>2, <1>3 DEF Coherent, InHand
    <2> QED BY <2>1 DEF Fetchable, handlerVars
  <1>4. hpc \in RecallSteps => UNCHANGED <<disk[hfile], truth[hfile]>>
    <2>1. hpc \in RecallSteps => hfile \in Files
      BY Types DEF RecallSteps
    <2> QED BY <2>1 DEF handlerVars
  <1>5. InHand'
    <2>1. \A f \in Files : Fetching(f)' => Fetchable(f, hremote)'
      BY <1>3
    <2> QED BY <1>4, <2>1 DEF Coherent, InHand, handlerVars, OpenSteps, RecallSteps
  <1> QED BY <1>1, <1>5 DEF Coherent

\* One event, which makes of the hash of f what the file is then.
LEMMA OneEvent ==
    ASSUME TInv, NEW h, Foretells(h), UNCHANGED <<bucket, db, hpc, handlerVars>>,
           NEW f \in Files, Idle(h, f),
           \A g \in Files : g # f => UNCHANGED <<disk[g], trash[g], truth[g], binned[g]>>,
           NEW e \in Events, queue' = Append(queue, e),
           NEW v, v = Last(queue, h),
           NEW w \in Views, Follows(e, v, w), w.old = None,
           \A g \in Files : g # f => w.hash[g] = v.hash[g],
           \A g, o \in Files : e = Ev("open", g) /\ v.hash[g] = o =>
               g = f /\ Fetchable(f, o)',
           w.hash[f] = Absent <=> Should(f)' = None,
           w.hash[f] = Hot => \/ Holds(f)' = Should(f)'
                              \/ e = Ev("open", f) /\ v.hash[f] \in Files,
           w.hash[f] \in Files => Holds(f)' = Empty /\ bucket[w.hash[f]] = Should(f)'
    PROVE  \E h2 : Foretells(h2)'
  <1>1. Plausible(queue, h, Fetched) /\ Fetched \in SUBSET Files /\ queue \in Seq(Events)
    BY Types DEF Foretells, Fetched
  <1>2. \A g \in Files : g \in Fetched \/ (\E o \in Files : Wants(queue, h, g, o)) =>
            w.hash[g] = Hot
    <2>1. \A g \in Files : g \in Fetched \/ (\E o \in Files : Wants(queue, h, g, o)) =>
              v.hash[g] = Hot /\ g # f
      BY <1>1, LastIsHot DEF Idle, Fetched
    <2> QED BY <2>1
  <1>3. PICK h2 : /\ Plausible(Append(queue, e), h2, Fetched)
                  /\ h2[1] = h[1]
                  /\ Last(Append(queue, e), h2) = w
                  /\ \A g, o \in Files : Wants(Append(queue, e), h2, g, o) <=>
                         \/ Wants(queue, h, g, o)
                         \/ e = Ev("open", g) /\ v.hash[g] = o
    BY <1>1, <1>2, AddEvent
  <1>4. /\ Plausible(queue', h2, Fetched) /\ h2[1] = h[1] /\ Last(queue', h2) = w
        /\ \A g, o \in Files : Wants(queue', h2, g, o) <=>
               Wants(queue, h, g, o) \/ (e = Ev("open", g) /\ v.hash[g] = o)
    BY <1>3
  <1>5. Fits(h2, f)'
    BY <1>4, KindsDiffer DEF Fits
  <1>6. Foretells(h2)'
    <2> PICK touched : touched = {f}
      OBVIOUS
    <2>1. /\ touched \in SUBSET Files
          /\ \A g \in touched : Idle(h, g) /\ Fits(h2, g)'
          /\ \A g \in Files \ touched : UNCHANGED <<disk[g], trash[g], truth[g], binned[g]>>
          /\ \A g \in Files \ touched : Last(queue', h2).hash[g] = Last(queue, h).hash[g]
          /\ f \in touched
      BY <1>4, <1>5
    <2>2. /\ \A g, o \in Files : Wants(queue, h, g, o) => Wants(queue', h2, g, o)
          /\ \A g, o \in Files : Wants(queue', h2, g, o) =>
                 Wants(queue, h, g, o) \/ (g \in touched /\ Fetchable(g, o)')
      BY <1>4, <2>1
    <2> QED BY <1>4, <2>1, <2>2, UserForetells
  <1> QED BY <1>6

\* A move: the two events take the hash along.
LEMMA MoveForetells ==
    ASSUME TInv, NEW h, Foretells(h), UNCHANGED <<bucket, db, hpc, handlerVars>>,
           NEW f \in Files, Idle(h, f), NEW g \in Files, Idle(h, g), Fits(h, f),
           \A b \in Files : b \notin {f, g} =>
               UNCHANGED <<disk[b], trash[b], truth[b], binned[b]>>,
           queue' = Append(Append(queue, Ev("movedFrom", f)), Ev("movedTo", g)),
           Should(f) # None,
           Should(g)' = Should(f), Holds(g)' = Holds(f),
           f # g => Should(f)' = None
    PROVE  \E h2 : Foretells(h2)'
  <1> PICK v : v = Last(queue, h)
    OBVIOUS
  <1>v1. PICK v1 : v1 = [v EXCEPT !.old = f]
    OBVIOUS
  <1>v2. PICK v2 : v2 = [hash |-> [v.hash EXCEPT ![f] = Absent, ![g] = v.hash[f]], old |-> None]
    OBVIOUS
  <1>e1. PICK e1 : e1 = Ev("movedFrom", f)
    OBVIOUS
  <1>e2. PICK e2 : e2 = Ev("movedTo", g)
    OBVIOUS
  <1>q1. PICK q1 : q1 = Append(queue, e1)
    OBVIOUS
  <1>q2. PICK q2 : q2 = Append(q1, e2)
    OBVIOUS
  <1>1. /\ Plausible(queue, h, Fetched) /\ Fetched \in SUBSET Files /\ queue \in Seq(Events)
        /\ v.old = None /\ v \in Views
    <2>1. Plausible(queue, h, Fetched) /\ v.old = None /\ queue \in Seq(Events)
      BY Types DEF Foretells
    <2>2. v \in Views
      BY <2>1 DEF Plausible, Forecasts, Last
    <2> QED BY <2>1, <2>2 DEF Fetched
  <1>2. /\ e1 \in Events /\ e1.type = "movedFrom" /\ e1.file = f
        /\ e2 \in Events /\ e2.type = "movedTo" /\ e2.file = g
        /\ \A b : e1 # Ev("open", b) /\ e2 # Ev("open", b)
        /\ q1 \in Seq(Events) /\ queue' = q2
    BY <1>1, <1>e1, <1>e2, <1>q1, <1>q2, EventsType, AppendElements DEF Ev, EventTypes
  <1>3. /\ v1 \in Views /\ v1.hash = v.hash /\ v1.old = f /\ Follows(e1, v, v1)
    BY <1>1, <1>2, <1>v1 DEF Views, Follows
  <1>4. v.hash[f] # Absent
    BY DEF Fits
  <1>5. /\ v2 \in Views /\ v2.old = None /\ Follows(e2, v1, v2)
        /\ v2.hash[g] = v.hash[f] /\ (f # g => v2.hash[f] = Absent)
        /\ \A b \in Files : b \notin {f, g} => v2.hash[b] = v.hash[b]
    <2>1. v.hash \in [Files -> Kinds] /\ v.hash[f] \in Kinds /\ f # None
      BY <1>1, Types DEF Views
    <2>2. v2 \in Views
      BY <1>v2, <2>1, KindsDiffer DEF Views
    <2>3. Follows(e2, v1, v2)
      BY <1>2, <1>3, <1>4, <1>v2, <2>1 DEF Follows
    <2> QED BY <1>v2, <2>1, <2>2, <2>3
  <1>6. \A b \in Files : b \in Fetched \/ (\E o \in Files : Wants(queue, h, b, o)) =>
            v.hash[b] = Hot /\ b \notin {f, g}
    BY <1>1, LastIsHot DEF Idle, Fetched
  <1>7. PICK h1 : /\ Plausible(q1, h1, Fetched)
                  /\ h1[1] = h[1]
                  /\ Last(q1, h1) = v1
                  /\ \A b, o \in Files : Wants(q1, h1, b, o) <=> Wants(queue, h, b, o)
    <2>1. \A b \in Files : b \in Fetched \/ (\E o \in Files : Wants(queue, h, b, o)) =>
              v1.hash[b] = Hot
      BY <1>3, <1>6
    <2>2. \E h1 : /\ Plausible(Append(queue, e1), h1, Fetched)
                  /\ h1[1] = h[1]
                  /\ Last(Append(queue, e1), h1) = v1
                  /\ \A b, o \in Files : Wants(Append(queue, e1), h1, b, o) <=>
                         \/ Wants(queue, h, b, o)
                         \/ e1 = Ev("open", b) /\ v.hash[b] = o
      BY <1>1, <1>2, <1>3, <2>1, AddEvent
    <2> QED BY <1>2, <1>q1, <2>2
  <1>8. PICK h2 : /\ Plausible(q2, h2, Fetched)
                  /\ h2[1] = h1[1]
                  /\ Last(q2, h2) = v2
                  /\ \A b, o \in Files : Wants(q2, h2, b, o) <=> Wants(q1, h1, b, o)
    <2>1. \A b \in Files : b \in Fetched \/ (\E o \in Files : Wants(q1, h1, b, o)) =>
              v2.hash[b] = Hot
      BY <1>5, <1>6, <1>7
    <2>2. \E h2 : /\ Plausible(Append(q1, e2), h2, Fetched)
                  /\ h2[1] = h1[1]
                  /\ Last(Append(q1, e2), h2) = v2
                  /\ \A b, o \in Files : Wants(Append(q1, e2), h2, b, o) <=>
                         \/ Wants(q1, h1, b, o)
                         \/ e2 = Ev("open", b) /\ v1.hash[b] = o
      <3>1. /\ Plausible(q1, h1, Fetched) /\ Fetched \in SUBSET Files
            /\ q1 \in Seq(Events) /\ e2 \in Events /\ v2 \in Views
            /\ Follows(e2, Last(q1, h1), v2)
        BY <1>1, <1>2, <1>5, <1>7
      <3>2. v1 = Last(q1, h1)
        BY <1>7
      <3> QED BY <2>1, <3>1, <3>2, AddEvent
    <2> QED BY <1>2, <1>q2, <2>2
  <1>9. /\ Plausible(queue', h2, Fetched) /\ h2[1] = h[1] /\ Last(queue', h2) = v2
        /\ \A b, o \in Files : Wants(queue', h2, b, o) <=> Wants(queue, h, b, o)
    BY <1>2, <1>7, <1>8
  <1>10. Fits(h2, g)'
    BY <1>5, <1>9 DEF Fits, Idle
  <1>11. Fits(h2, f)'
    <2>1. CASE f = g
      BY <1>10, <2>1
    <2>2. CASE f # g
      <3>1. Last(queue', h2).hash[f] = Absent /\ Should(f)' = None
        BY <1>5, <1>9, <2>2
      <3> QED BY <3>1, KindsDiffer DEF Fits
    <2> QED BY <2>1, <2>2
  <1>12. Foretells(h2)'
    <2> PICK touched : touched = {f, g}
      OBVIOUS
    <2>1. /\ touched \in SUBSET Files
          /\ \A b \in touched : Idle(h, b) /\ Fits(h2, b)'
          /\ \A b \in Files \ touched : UNCHANGED <<disk[b], trash[b], truth[b], binned[b]>>
          /\ \A b \in Files \ touched : Last(queue', h2).hash[b] = Last(queue, h).hash[b]
      BY <1>5, <1>9, <1>10, <1>11
    <2> QED BY <1>5, <1>9, <2>1, UserForetells
  <1> QED BY <1>12

\* What is known of a file that a user may act on.
LEMMA PlacesOf ==
    ASSUME TInv, Coherent
    PROVE  /\ disk \in [Files -> Versions \cup {Empty, None}]
           /\ trash \in [Files -> Versions \cup {Empty, None}]
           /\ truth \in [Files -> Versions \cup {None}]
           /\ binned \in [Files -> Versions \cup {None}]
           /\ opened \in [Files -> {"no", "yes"}]
           /\ queue \in Seq(Events)
           /\ \A f \in Files : /\ disk[f] = None <=> truth[f] = None
                               /\ trash[f] = None <=> binned[f] = None
                               /\ truth[f] = None \/ binned[f] = None
                               /\ opened[f] = "yes" => truth[f] # None
           /\ \A f \in Files : truth[f] # None => Should(f) = truth[f] /\ Holds(f) = disk[f]
           /\ \A f \in Files : truth[f] = None => Should(f) = binned[f] /\ Holds(f) = trash[f]
           /\ Empty # None /\ Empty \notin Versions /\ None \notin Versions
  BY ContentsAssumption DEF TInv, TypeOK, Contents, Coherent, InOnePlace, Should, Holds

\* Notify with one event.
LEMMA AppendOne ==
    ASSUME NEW q \in Seq(Events), NEW e \in Events
    PROVE  q \o <<e>> = Append(q, e)
  OBVIOUS

\* The handler is alive, and hears of what users do.
LEMMA NotifyOne ==
    ASSUME TInv, Coherent, NEW type \in EventTypes, NEW f \in Files,
           Notify(<<Ev(type, f)>>)
    PROVE  queue' = Append(queue, Ev(type, f))
  <1>1. Ev(type, f) \in Events /\ queue \in Seq(Events)
    BY EventsType, Types
  <1>2. queue' = queue \o <<Ev(type, f)>>
    BY DEF Notify, Coherent, InHand
  <1> QED BY <1>1, <1>2, AppendOne

\* Notify with two events.
LEMMA AppendTwo ==
    ASSUME NEW q \in Seq(Events), NEW e1 \in Events, NEW e2 \in Events
    PROVE  /\ q \o <<e1, e2>> = Append(Append(q, e1), e2)
           /\ q \o (<<e1>> \o <<e2>>) = Append(Append(q, e1), e2)
  OBVIOUS

\* A user opens a file, which is there already or will be fetched.
LEMMA UserOpens ==
    ASSUME Tidy, TInv, Coherent, NEW h, Foretells(h), NEW f \in Files, UserOpen(f)
    PROVE  Coherent' /\ \E h2 : Foretells(h2)'
  <1> PICK e : e = Ev("open", f)
    OBVIOUS
  <1>v. PICK v : v = Last(queue, h)
    OBVIOUS
  <1>w. PICK w : w = [v EXCEPT !.hash[f] = Hot]
    OBVIOUS
  <1>0. e \in Events /\ e.type = "open" /\ e.file = f /\ \A g : e = Ev("open", g) => g = f
    BY EventsType DEF Ev, EventTypes
  <1>1. /\ Idle(h, f) /\ (hfile = f => hpc \notin RecallSteps)
        /\ UNCHANGED <<bucket, db, hpc, handlerVars>>
        /\ v.hash[f] = Hot => Holds(f) = Should(f)
        /\ v.hash[f] = Absent <=> Should(f) = None
        /\ v.hash[f] \in Files => Holds(f) = Empty /\ bucket[v.hash[f]] = Should(f)
    BY <1>v, NotRecalled DEF UserOpen
  <1>2. /\ UNCHANGED <<disk, trash, truth, binned>> /\ opened' = [opened EXCEPT ![f] = "yes"]
        /\ truth[f] # None /\ Should(f) = truth[f] /\ Holds(f) = disk[f]
    BY PlacesOf DEF UserOpen, userVars
  <1>3. queue' = Append(queue, e)
    BY NotifyOne DEF UserOpen, EventTypes
  <1>4. v \in Views /\ v.old = None /\ v.hash[f] # Absent
    BY <1>v, <1>1, <1>2, Types DEF Foretells, Plausible, Forecasts, Last
  <1>5. /\ w \in Views /\ w.old = None /\ w.hash[f] = Hot /\ Follows(e, v, w)
        /\ \A g \in Files : g # f => w.hash[g] = v.hash[g]
    BY <1>0, <1>4, <1>w, KindsDiffer DEF Views, Follows
  <1>6. Should(f)' = Should(f) /\ Holds(f)' = Holds(f) /\ Should(f) # None
    BY <1>2 DEF Should, Holds
  <1>7. \A g, o \in Files : e = Ev("open", g) /\ v.hash[g] = o => g = f /\ Fetchable(f, o)'
    BY <1>0, <1>1, <1>2 DEF Fetchable
  <1>8. w.hash[f] = Hot => Holds(f)' = Should(f)' \/ v.hash[f] \in Files
    BY <1>1, <1>4, <1>6, KindsDiffer DEF Views
  <1>9. \E h2 : Foretells(h2)'
    <2>1. \A g \in Files : g # f => UNCHANGED <<disk[g], trash[g], truth[g], binned[g]>>
      BY <1>2
    <2>2. w.hash[f] # Absent /\ w.hash[f] \notin Files
      BY <1>5, KindsDiffer
    <2> QED BY <1>0, <1>1, <1>3, <1>v, <1>5, <1>6, <1>7, <1>8, <2>1, <2>2, OneEvent
  <1>10. InOnePlace'
    BY <1>2, PlacesOf DEF InOnePlace
  <1>11. Coherent'
    <2> PICK touched : touched = {f}
      OBVIOUS
    <2> QED BY <1>1, <1>2, <1>10, UserCoherent DEF Idle
  <1> QED BY <1>9, <1>11

\* An event about a file that is hot, and stays so.
LEMMA QuietEvent ==
    ASSUME TInv, NEW h, Foretells(h), UNCHANGED <<bucket, db, hpc, handlerVars>>,
           NEW f \in Files, Idle(h, f),
           \A g \in Files : g # f => UNCHANGED <<disk[g], trash[g], truth[g], binned[g]>>,
           NEW type \in {"modify", "close"}, queue' = Append(queue, Ev(type, f)),
           NEW v, v = Last(queue, h), v.hash[f] # Absent, Should(f)' # None,
           v.hash[f] = Hot => Holds(f)' = Should(f)',
           v.hash[f] \in Files => Holds(f)' = Empty /\ bucket[v.hash[f]] = Should(f)'
    PROVE  \E h2 : Foretells(h2)'
  <1> PICK e : e = Ev(type, f)
    OBVIOUS
  <1>1. e \in Events /\ e.type = type /\ e.file = f /\ \A g : e # Ev("open", g)
    BY EventsType DEF Ev, EventTypes
  <1>2. v \in Views /\ v.old = None
    BY Types DEF Foretells, Plausible, Forecasts, Last
  <1>3. Follows(e, v, v)
    BY <1>1 DEF Follows
  <1> QED BY <1>1, <1>2, <1>3, OneEvent

\* A user writes to a file: it is not a placeholder then.
LEMMA UserWrites ==
    ASSUME Tidy, TInv, Coherent, NEW h, Foretells(h), NEW f \in Files, NEW c \in Versions,
           UserWrite(f, c)
    PROVE  Coherent' /\ \E h2 : Foretells(h2)'
  <1>v. PICK v : v = Last(queue, h)
    OBVIOUS
  <1>1. /\ Idle(h, f) /\ (hfile = f => hpc \notin RecallSteps)
        /\ UNCHANGED <<bucket, db, hpc, handlerVars>>
        /\ v.hash[f] = Absent <=> Should(f) = None
        /\ v.hash[f] \in Files => Holds(f) = Empty
    BY <1>v, NotRecalled DEF UserWrite
  <1>2. /\ UNCHANGED <<trash, binned, opened>>
        /\ disk' = [disk EXCEPT ![f] = c] /\ truth' = [truth EXCEPT ![f] = c]
        /\ disk'[f] = c /\ truth'[f] = c /\ c # None
        /\ \A g \in Files : g # f => disk'[g] = disk[g] /\ truth'[g] = truth[g]
        /\ truth[f] # None /\ disk[f] = truth[f] /\ truth[f] # Empty
        /\ Should(f) = truth[f] /\ Holds(f) = disk[f]
    BY PlacesOf DEF UserWrite
  <1>3. queue' = Append(queue, Ev("modify", f))
    BY NotifyOne DEF UserWrite, EventTypes
  <1>4. Should(f)' = c /\ Holds(f)' = c
    BY <1>2 DEF Should, Holds
  <1>5. \E h2 : Foretells(h2)'
    <2>1. \A g \in Files : g # f => UNCHANGED <<disk[g], trash[g], truth[g], binned[g]>>
      BY <1>2
    <2> QED BY <1>v, <1>1, <1>2, <1>3, <1>4, <2>1, QuietEvent
  <1>6. InOnePlace'
    BY <1>2, PlacesOf DEF InOnePlace
  <1>7. Coherent'
    <2> PICK touched : touched = {f}
      OBVIOUS
    <2> QED BY <1>1, <1>2, <1>6, UserCoherent DEF Idle
  <1> QED BY <1>5, <1>7

\* A user closes the file.
LEMMA UserCloses ==
    ASSUME Tidy, TInv, Coherent, NEW h, Foretells(h), NEW f \in Files, UserClose(f)
    PROVE  Coherent' /\ \E h2 : Foretells(h2)'
  <1>v. PICK v : v = Last(queue, h)
    OBVIOUS
  <1>1. /\ Idle(h, f) /\ (hfile = f => hpc \notin RecallSteps)
        /\ UNCHANGED <<bucket, db, hpc, handlerVars>>
        /\ v.hash[f] = Hot => Holds(f) = Should(f)
        /\ v.hash[f] = Absent <=> Should(f) = None
        /\ v.hash[f] \in Files => Holds(f) = Empty /\ bucket[v.hash[f]] = Should(f)
    BY <1>v, NotRecalled DEF UserClose
  <1>2. /\ UNCHANGED <<disk, truth, trash, binned>> /\ opened' = [opened EXCEPT ![f] = "no"]
        /\ truth[f] # None /\ Should(f) = truth[f]
    BY PlacesOf DEF UserClose, userVars
  <1>3. queue' = Append(queue, Ev("close", f))
    BY NotifyOne DEF UserClose, EventTypes
  <1>4. Should(f)' = Should(f) /\ Holds(f)' = Holds(f)
    BY <1>2 DEF Should, Holds
  <1>5. \E h2 : Foretells(h2)'
    <2>1. \A g \in Files : g # f => UNCHANGED <<disk[g], trash[g], truth[g], binned[g]>>
      BY <1>2
    <2> QED BY <1>v, <1>1, <1>2, <1>3, <1>4, <2>1, QuietEvent
  <1>6. InOnePlace'
    BY <1>2, PlacesOf DEF InOnePlace
  <1>7. Coherent'
    <2> PICK touched : touched = {f}
      OBVIOUS
    <2> QED BY <1>1, <1>2, <1>6, UserCoherent DEF Idle
  <1> QED BY <1>5, <1>7

\* A file goes for good.
LEMMA GoneEvent ==
    ASSUME TInv, NEW h, Foretells(h), UNCHANGED <<bucket, db, hpc, handlerVars>>,
           NEW f \in Files, Idle(h, f),
           \A g \in Files : g # f => UNCHANGED <<disk[g], trash[g], truth[g], binned[g]>>,
           queue' = Append(queue, Ev("delete", f)), Should(f)' = None
    PROVE  \E h2 : Foretells(h2)'
  <1> PICK e : e = Ev("delete", f)
    OBVIOUS
  <1>v. PICK v : v = Last(queue, h)
    OBVIOUS
  <1>w. PICK w : w = [v EXCEPT !.hash[f] = Absent]
    OBVIOUS
  <1>1. e \in Events /\ e.type = "delete" /\ e.file = f /\ \A g : e # Ev("open", g)
    BY EventsType DEF Ev, EventTypes
  <1>2. v \in Views /\ v.old = None
    BY <1>v, Types DEF Foretells, Plausible, Forecasts, Last
  <1>3. /\ w \in Views /\ w.old = None /\ w.hash[f] = Absent /\ Follows(e, v, w)
        /\ \A g \in Files : g # f => w.hash[g] = v.hash[g]
    BY <1>1, <1>2, <1>w, KindsDiffer DEF Views, Follows
  <1>4. w.hash[f] # Hot /\ w.hash[f] \notin Files
    BY <1>3, KindsDiffer
  <1> QED BY <1>1, <1>v, <1>3, <1>4, OneEvent

\* A user deletes a file.
LEMMA UserDeletes ==
    ASSUME Tidy, TInv, Coherent, NEW h, Foretells(h), NEW f \in Files, UserDelete(f)
    PROVE  Coherent' /\ \E h2 : Foretells(h2)'
  <1>1. /\ Idle(h, f) /\ (hfile = f => hpc \notin RecallSteps)
        /\ UNCHANGED <<bucket, db, hpc, handlerVars>>
    BY NotRecalled DEF UserDelete
  <1>2. /\ UNCHANGED <<trash, binned, opened>> /\ opened[f] = "no"
        /\ disk' = [disk EXCEPT ![f] = None] /\ truth' = [truth EXCEPT ![f] = None]
        /\ disk'[f] = None /\ truth'[f] = None /\ binned[f] = None
        /\ \A g \in Files : g # f => disk'[g] = disk[g] /\ truth'[g] = truth[g]
    BY PlacesOf DEF UserDelete
  <1>3. queue' = Append(queue, Ev("delete", f))
    BY NotifyOne DEF UserDelete, EventTypes
  <1>4. Should(f)' = None
    BY <1>2 DEF Should
  <1>5. \E h2 : Foretells(h2)'
    <2>1. \A g \in Files : g # f => UNCHANGED <<disk[g], trash[g], truth[g], binned[g]>>
      BY <1>2
    <2> QED BY <1>1, <1>3, <1>4, <2>1, GoneEvent
  <1>6. InOnePlace'
    BY <1>2, PlacesOf DEF InOnePlace
  <1>7. Coherent'
    <2> PICK touched : touched = {f}
      OBVIOUS
    <2> QED BY <1>1, <1>2, <1>6, UserCoherent DEF Idle
  <1> QED BY <1>5, <1>7

\* The watch on the trash tells the handler of this, too.
LEMMA EmptiesTrash ==
    ASSUME Tidy, TInv, Coherent, NEW h, Foretells(h), NEW f \in Files, EmptyTrash(f)
    PROVE  Coherent' /\ \E h2 : Foretells(h2)'
  <1>1. /\ Idle(h, f) /\ (hfile = f => hpc \notin RecallSteps) /\ ipc = "watching"
        /\ UNCHANGED <<bucket, db, hpc, handlerVars>>
    BY NotRecalled DEF EmptyTrash
  <1>2. /\ UNCHANGED <<disk, truth, opened>>
        /\ trash' = [trash EXCEPT ![f] = None] /\ binned' = [binned EXCEPT ![f] = None]
        /\ trash'[f] = None /\ binned'[f] = None /\ truth[f] = None
        /\ \A g \in Files : g # f => trash'[g] = trash[g] /\ binned'[g] = binned[g]
    BY PlacesOf DEF EmptyTrash
  <1>3. queue' = Append(queue, Ev("delete", f))
    <2>1. Notify(<<Ev("delete", f)>>)
      BY <1>1 DEF EmptyTrash, FromTrash, TrashWatched
    <2> QED BY <2>1, NotifyOne DEF EventTypes
  <1>4. Should(f)' = None
    BY <1>2 DEF Should
  <1>5. \E h2 : Foretells(h2)'
    <2>1. \A g \in Files : g # f => UNCHANGED <<disk[g], trash[g], truth[g], binned[g]>>
      BY <1>2
    <2> QED BY <1>1, <1>3, <1>4, <2>1, GoneEvent
  <1>6. InOnePlace'
    BY <1>2, PlacesOf DEF InOnePlace
  <1>7. Coherent'
    <2> PICK touched : touched = {f}
      OBVIOUS
    <2> QED BY <1>1, <1>2, <1>6, UserCoherent DEF Idle
  <1> QED BY <1>5, <1>7

\* The handler hears of the two ends of a move one after the other.
LEMMA NotifyMove ==
    ASSUME TInv, Coherent, NEW f \in Files, NEW g \in Files,
           \/ Notify(<<Ev("movedFrom", f), Ev("movedTo", g)>>)
           \/ Notify(<<Ev("movedFrom", f)>> \o <<Ev("movedTo", g)>>)
    PROVE  queue' = Append(Append(queue, Ev("movedFrom", f)), Ev("movedTo", g))
  <1>1. /\ Ev("movedFrom", f) \in Events /\ Ev("movedTo", g) \in Events
        /\ queue \in Seq(Events)
    BY EventsType, Types DEF EventTypes
  <1>2. \/ queue' = queue \o <<Ev("movedFrom", f), Ev("movedTo", g)>>
        \/ queue' = queue \o (<<Ev("movedFrom", f)>> \o <<Ev("movedTo", g)>>)
    BY DEF Notify, Coherent, InHand
  <1> QED BY <1>1, <1>2, AppendTwo

\* What a move of the file f to the name g changes, whatever the directories.
LEMMA Moves ==
    ASSUME TInv, Coherent, NEW h, Foretells(h), UNCHANGED <<bucket, db, hpc, handlerVars>>,
           NEW f \in Files, Idle(h, f), hfile = f => hpc \notin RecallSteps,
           NEW g \in Files, Idle(h, g), hfile = g => hpc \notin RecallSteps,
           \A b \in Files : b \notin {f, g} =>
               UNCHANGED <<disk[b], trash[b], truth[b], binned[b]>>,
           queue' = Append(Append(queue, Ev("movedFrom", f)), Ev("movedTo", g)),
           Should(f) # None, Should(g)' = Should(f), Holds(g)' = Holds(f),
           f # g => Should(f)' = None,
           InOnePlace'
    PROVE  Coherent' /\ \E h2 : Foretells(h2)'
  <1>1. Fits(h, f)
    BY DEF Foretells
  <1>2. \E h2 : Foretells(h2)'
    BY <1>1, MoveForetells
  <1>3. Coherent'
    <2> PICK touched : touched = {f, g}
      OBVIOUS
    <2>1. /\ touched \in SUBSET Files
          /\ \A b \in touched : hfile = b => hpc \notin RecallSteps
          /\ \A b \in touched : ~Fetching(b)
          /\ \A b \in Files \ touched : UNCHANGED <<disk[b], truth[b]>>
      BY DEF Idle
    <2> QED BY <2>1, UserCoherent
  <1> QED BY <1>2, <1>3

\* A user renames a file, which keeps its object.
LEMMA UserRenames ==
    ASSUME Tidy, TInv, Coherent, NEW h, Foretells(h), NEW f \in Files, NEW g \in Files,
           UserRename(f, g)
    PROVE  Coherent' /\ \E h2 : Foretells(h2)'
  <1>1. /\ Idle(h, f) /\ (hfile = f => hpc \notin RecallSteps)
        /\ Idle(h, g) /\ (hfile = g => hpc \notin RecallSteps)
        /\ UNCHANGED <<bucket, db, hpc, handlerVars>>
    BY NotRecalled DEF UserRename
  <1>2. /\ f # g /\ truth[f] # None /\ opened[f] = "no" /\ binned[f] = None
        /\ truth[g] = None /\ trash[g] = None /\ binned[g] = None /\ opened[g] = "no"
    BY PlacesOf DEF UserRename, Takes, Unused, Tidy
  <1>3. /\ UNCHANGED <<opened, trash, binned>>
        /\ disk'[f] = None /\ disk'[g] = disk[f] /\ truth'[f] = None /\ truth'[g] = truth[f]
        /\ \A b \in Files : b \notin {f, g} => disk'[b] = disk[b] /\ truth'[b] = truth[b]
    BY <1>2, PlacesOf DEF UserRename
  <1>4. queue' = Append(Append(queue, Ev("movedFrom", f)), Ev("movedTo", g))
    BY NotifyMove DEF UserRename
  <1>5. /\ Should(f) # None /\ Should(g)' = Should(f) /\ Holds(g)' = Holds(f)
        /\ Should(f)' = None
    BY <1>2, <1>3 DEF Should, Holds
  <1>6. InOnePlace'
    BY <1>2, <1>3, PlacesOf DEF InOnePlace
  <1>7. \A b \in Files : b \notin {f, g} =>
            UNCHANGED <<disk[b], trash[b], truth[b], binned[b]>>
    BY <1>3
  <1> QED BY <1>1, <1>4, <1>5, <1>6, <1>7, Moves

\* A user moves a file to the trash.
LEMMA MovesToTrash ==
    ASSUME Tidy, TInv, Coherent, NEW h, Foretells(h), NEW f \in Files, NEW g \in Files,
           ToTrash(f, g)
    PROVE  Coherent' /\ \E h2 : Foretells(h2)'
  <1>1. /\ Idle(h, f) /\ (hfile = f => hpc \notin RecallSteps) /\ ipc = "watching"
        /\ Idle(h, g) /\ (hfile = g => hpc \notin RecallSteps)
        /\ UNCHANGED <<bucket, db, hpc, handlerVars>>
    BY NotRecalled DEF ToTrash
  <1>2. /\ truth[f] # None /\ opened[f] = "no" /\ binned[f] = None /\ binned[g] = None
        /\ f # g => truth[g] = None
    BY PlacesOf DEF ToTrash, Takes, Unused, Tidy
  <1>3. /\ opened' = opened /\ disk'[f] = None /\ truth'[f] = None
        /\ trash'[g] = disk[f] /\ binned'[g] = truth[f]
        /\ \A b \in Files : b # f => disk'[b] = disk[b] /\ truth'[b] = truth[b]
        /\ \A b \in Files : b # g => trash'[b] = trash[b] /\ binned'[b] = binned[b]
    BY PlacesOf DEF ToTrash
  <1>4. queue' = Append(Append(queue, Ev("movedFrom", f)), Ev("movedTo", g))
    BY <1>1, NotifyMove DEF ToTrash, FromTrash, TrashWatched
  <1>5. /\ Should(f) # None /\ Should(g)' = Should(f) /\ Holds(g)' = Holds(f)
        /\ f # g => Should(f)' = None
    BY <1>2, <1>3 DEF Should, Holds
  <1>6. InOnePlace'
    <2>1. ASSUME NEW b \in Files
          PROVE  /\ disk'[b] = None <=> truth'[b] = None
                 /\ trash'[b] = None <=> binned'[b] = None
                 /\ truth'[b] = None \/ binned'[b] = None
                 /\ opened'[b] = "yes" => truth'[b] # None
      BY <1>2, <1>3, PlacesOf
    <2> QED BY <2>1 DEF InOnePlace
  <1>7. \A b \in Files : b \notin {f, g} =>
            UNCHANGED <<disk[b], trash[b], truth[b], binned[b]>>
    BY <1>3
  <1> QED BY <1>1, <1>4, <1>5, <1>6, <1>7, Moves

\* A user takes a file out of the trash.
LEMMA Restores ==
    ASSUME Tidy, TInv, Coherent, NEW h, Foretells(h), NEW f \in Files, NEW g \in Files,
           Restore(f, g)
    PROVE  Coherent' /\ \E h2 : Foretells(h2)'
  <1>1. /\ Idle(h, f) /\ (hfile = f => hpc \notin RecallSteps) /\ ipc = "watching"
        /\ Idle(h, g) /\ (hfile = g => hpc \notin RecallSteps)
        /\ UNCHANGED <<bucket, db, hpc, handlerVars>>
    BY NotRecalled DEF Restore
  <1>2. /\ binned[f] # None /\ truth[f] = None /\ truth[g] = None
        /\ f # g => binned[g] = None
    BY PlacesOf DEF Restore, Takes, Unused, Tidy
  <1>3. /\ opened' = opened /\ trash'[f] = None /\ binned'[f] = None
        /\ disk'[g] = trash[f] /\ truth'[g] = binned[f]
        /\ \A b \in Files : b # g => disk'[b] = disk[b] /\ truth'[b] = truth[b]
        /\ \A b \in Files : b # f => trash'[b] = trash[b] /\ binned'[b] = binned[b]
    BY PlacesOf DEF Restore
  <1>4. queue' = Append(Append(queue, Ev("movedFrom", f)), Ev("movedTo", g))
    BY <1>1, NotifyMove DEF Restore, FromTrash, TrashWatched
  <1>5. /\ Should(f) # None /\ Should(g)' = Should(f) /\ Holds(g)' = Holds(f)
        /\ f # g => Should(f)' = None
    BY <1>2, <1>3 DEF Should, Holds
  <1>6. InOnePlace'
    <2>1. ASSUME NEW b \in Files
          PROVE  /\ disk'[b] = None <=> truth'[b] = None
                 /\ trash'[b] = None <=> binned'[b] = None
                 /\ truth'[b] = None \/ binned'[b] = None
                 /\ opened'[b] = "yes" => truth'[b] # None
      BY <1>2, <1>3, PlacesOf
    <2> QED BY <2>1 DEF InOnePlace
  <1>7. \A b \in Files : b \notin {f, g} =>
            UNCHANGED <<disk[b], trash[b], truth[b], binned[b]>>
    BY <1>3
  <1> QED BY <1>1, <1>4, <1>5, <1>6, <1>7, Moves

\* The events of a new file are those of a hot file written anew, after the first.
LEMMA FourEvents ==
    ASSUME NEW a \in Events, NEW b \in Events, NEW d \in Events, NEW e \in Events,
           NEW q \in Seq(Events)
    PROVE  q \o ((<<a, b>> \o <<d>>) \o <<e>>) = Append(Append(Append(Append(q, a), b), d), e)
  <1>1. ASSUME NEW s \in Seq(Events), NEW t \in Seq(Events), NEW u \in Seq(Events)
        PROVE  s \o (t \o u) = (s \o t) \o u /\ s \o t \in Seq(Events)
    OBVIOUS
  <1>2. /\ <<a, b>> \in Seq(Events) /\ <<d>> \in Seq(Events) /\ <<e>> \in Seq(Events)
    OBVIOUS
  <1>3. q \o ((<<a, b>> \o <<d>>) \o <<e>>) = (q \o (<<a, b>> \o <<d>>)) \o <<e>>
    <2>1. <<a, b>> \o <<d>> \in Seq(Events)
      BY <1>1, <1>2, Zenon
    <2>2. PICK t \in Seq(Events) : t = <<a, b>> \o <<d>>
      BY <2>1, Zenon
    <2>3. PICK u \in Seq(Events) : u = <<e>>
      BY <1>2, Zenon
    <2>4. q \o (t \o u) = (q \o t) \o u
      BY <1>1, Zenon
    <2> QED BY <2>2, <2>3, <2>4, Zenon
  <1>4. q \o (<<a, b>> \o <<d>>) = (q \o <<a, b>>) \o <<d>>
    BY <1>1, <1>2, Zenon
  <1>5. q \o <<a, b>> = Append(Append(q, a), b) /\ Append(Append(q, a), b) \in Seq(Events)
    BY AppendTwo
  <1>6. ASSUME NEW p \in Seq(Events) PROVE p \o <<d>> = Append(p, d) /\ Append(p, d) \in Seq(Events)
    BY AppendOne
  <1>7. ASSUME NEW p \in Seq(Events) PROVE p \o <<e>> = Append(p, e)
    BY AppendOne
  <1> QED BY <1>3, <1>4, <1>5, <1>6, <1>7, Zenon

\* The four events of a new file.
LEMMA NotifyCreate ==
    ASSUME TInv, Coherent, NEW f \in Files, NEW c \in Versions, disk[f] = None,
           Notify(RewriteEvents(f, c))
    PROVE  queue' = Rewritten(Append(queue, Ev("create", f)), f)
  <1>1. /\ Ev("create", f) \in Events /\ Ev("open", f) \in Events
        /\ Ev("modify", f) \in Events /\ Ev("close", f) \in Events
        /\ queue \in Seq(Events) /\ c # Empty
    BY EventsType, Types DEF EventTypes
  <1>2. PICK a, b, d, e \in Events : /\ a = Ev("create", f) /\ b = Ev("open", f)
                                    /\ d = Ev("modify", f) /\ e = Ev("close", f)
    BY <1>1
  <1>3. RewriteEvents(f, c) = (<<a, b>> \o <<d>>) \o <<e>>
    BY <1>1, <1>2 DEF RewriteEvents
  <1>4. queue' = queue \o RewriteEvents(f, c)
    BY DEF Notify, Coherent, InHand
  <1>5. queue \o ((<<a, b>> \o <<d>>) \o <<e>>) =
            Append(Append(Append(Append(queue, a), b), d), e)
    <2>1. \A q \in Seq(Events) : q \o ((<<a, b>> \o <<d>>) \o <<e>>) =
              Append(Append(Append(Append(q, a), b), d), e)
      BY FourEvents
    <2>2. PICK q \in Seq(Events) : q = queue
      BY <1>1
    <2> QED BY <2>1, <2>2, Zenon
  <1>6. queue' = Append(Append(Append(Append(queue, a), b), d), e)
    BY <1>3, <1>4, <1>5, Zenon
  <1>7. PICK q \in Seq(Events) : q = Append(queue, a)
    BY <1>1, AppendElements
  <1>8. Rewritten(q, f) = Append(Append(Append(q, b), d), e)
    BY <1>2, RewrittenElements
  <1> QED BY <1>2, <1>6, <1>7, <1>8, Zenon

\* A user makes a new file.
LEMMA UserCreates ==
    ASSUME Tidy, TInv, Coherent, NEW h, Foretells(h), NEW f \in Files, NEW c \in Versions,
           UserCreate(f, c)
    PROVE  Coherent' /\ \E h2 : Foretells(h2)'
  <1> PICK e : e = Ev("create", f)
    OBVIOUS
  <1>v. PICK v : v = Last(queue, h)
    OBVIOUS
  <1>w. PICK w : w = [v EXCEPT !.hash[f] = Hot]
    OBVIOUS
  <1>q. PICK q1 : q1 = Append(queue, e)
    OBVIOUS
  <1>1. /\ Idle(h, f) /\ (hfile = f => hpc \notin RecallSteps)
        /\ UNCHANGED <<bucket, db, hpc, handlerVars>>
        /\ v.hash[f] = Absent <=> Should(f) = None
    BY <1>v, NotRecalled DEF UserCreate
  <1>2. /\ disk[f] = None /\ truth[f] = None /\ binned[f] = None /\ v.hash[f] = Absent
    BY <1>1, PlacesOf DEF UserCreate, Takes, Unused, Tidy
  <1>3. /\ UNCHANGED <<opened, trash, binned>>
        /\ disk'[f] = c /\ truth'[f] = c /\ c # None
        /\ \A g \in Files : g # f => disk'[g] = disk[g] /\ truth'[g] = truth[g]
    BY PlacesOf DEF UserCreate
  <1>4. queue' = Rewritten(q1, f)
    BY <1>2, <1>q, NotifyCreate DEF UserCreate
  <1>5. /\ Plausible(queue, h, Fetched) /\ Fetched \in SUBSET Files /\ queue \in Seq(Events)
        /\ v.old = None /\ v \in Views
    <2>1. Plausible(queue, h, Fetched) /\ v.old = None /\ queue \in Seq(Events)
      BY <1>v, Types DEF Foretells
    <2>2. v \in Views
      BY <1>v, <2>1 DEF Plausible, Forecasts, Last
    <2> QED BY <2>1, <2>2 DEF Fetched
  <1>6. /\ e \in Events /\ e.type = "create" /\ e.file = f /\ \A g : e # Ev("open", g)
        /\ q1 \in Seq(Events)
    BY <1>5, <1>q, EventsType, AppendElements DEF Ev, EventTypes
  <1>7. /\ w \in Views /\ w.old = None /\ w.hash[f] = Hot /\ Follows(e, v, w)
        /\ \A g \in Files : g # f => w.hash[g] = v.hash[g]
    BY <1>2, <1>5, <1>6, <1>w, KindsDiffer DEF Views, Follows
  <1>8. PICK h1 : /\ Plausible(q1, h1, Fetched)
                  /\ h1[1] = h[1]
                  /\ Last(q1, h1) = w
                  /\ \A b, o \in Files : Wants(q1, h1, b, o) <=> Wants(queue, h, b, o)
    <2>1. \A b \in Files : b \in Fetched \/ (\E o \in Files : Wants(queue, h, b, o)) =>
              w.hash[b] = Hot
      BY <1>5, <1>7, <1>v, LastIsHot
    <2>2. \E h1 : /\ Plausible(Append(queue, e), h1, Fetched)
                  /\ h1[1] = h[1]
                  /\ Last(Append(queue, e), h1) = w
                  /\ \A b, o \in Files : Wants(Append(queue, e), h1, b, o) <=>
                         \/ Wants(queue, h, b, o)
                         \/ e = Ev("open", b) /\ v.hash[b] = o
      BY <1>5, <1>6, <1>7, <1>v, <2>1, AddEvent
    <2> QED BY <1>6, <1>q, <2>2
  <1>9. PICK h2 : /\ Plausible(queue', h2, Fetched)
                  /\ h2[1] = h1[1]
                  /\ Last(queue', h2) = w
                  /\ \A b, o \in Files : Wants(queue', h2, b, o) <=> Wants(q1, h1, b, o)
    <2>1. Last(q1, h1).hash[f] = Hot
      BY <1>7, <1>8
    <2>2. \E h2 : /\ Plausible(Rewritten(q1, f), h2, Fetched)
                  /\ h2[1] = h1[1]
                  /\ Last(Rewritten(q1, f), h2) = Last(q1, h1)
                  /\ \A b, o \in Files :
                         Wants(Rewritten(q1, f), h2, b, o) <=> Wants(q1, h1, b, o)
      BY <1>5, <1>6, <1>8, <2>1, AddRewrite
    <2> QED BY <1>4, <1>8, <2>2
  <1>10. Should(f)' = c /\ Holds(f)' = c
    BY <1>3 DEF Should, Holds
  <1>11. Fits(h2, f)'
    BY <1>3, <1>7, <1>9, <1>10, KindsDiffer DEF Fits
  <1>12. \E h3 : Foretells(h3)'
    <2> PICK touched : touched = {f}
      OBVIOUS
    <2>1. /\ touched \in SUBSET Files
          /\ \A b \in touched : Idle(h, b) /\ Fits(h2, b)'
          /\ \A b \in Files \ touched : UNCHANGED <<disk[b], trash[b], truth[b], binned[b]>>
          /\ \A b \in Files \ touched : Last(queue', h2).hash[b] = Last(queue, h).hash[b]
      BY <1>1, <1>3, <1>7, <1>9, <1>11, <1>v
    <2>2. h2[1] = h[1] /\ Last(queue', h2).old = None
          /\ \A b, o \in Files : Wants(queue', h2, b, o) <=> Wants(queue, h, b, o)
      BY <1>7, <1>8, <1>9
    <2>3. Foretells(h2)'
      BY <1>1, <1>9, <2>1, <2>2, UserForetells
    <2> QED BY <2>3
  <1>13. InOnePlace'
    BY <1>2, <1>3, PlacesOf DEF InOnePlace
  <1>14. Coherent'
    <2> PICK touched : touched = {f}
      OBVIOUS
    <2> QED BY <1>1, <1>3, <1>13, UserCoherent DEF Idle
  <1> QED BY <1>12, <1>14

\* So much for the users.
LEMMA UsersForetell ==
    ASSUME Tidy, TInv, Coherent, NEW h, Foretells(h), Users
    PROVE  Coherent' /\ \E h2 : Foretells(h2)'
  <1> PICK f \in Files :
          \/ UserOpen(f) \/ UserClose(f) \/ UserDelete(f) \/ EmptyTrash(f)
          \/ \E c \in Versions : UserWrite(f, c) \/ UserCreate(f, c)
          \/ \E g \in Files : UserRename(f, g) \/ ToTrash(f, g) \/ Restore(f, g)
    BY DEF Users
  <1>1. CASE UserOpen(f) \/ UserClose(f) \/ UserDelete(f) \/ EmptyTrash(f)
    BY <1>1, UserOpens, UserCloses, UserDeletes, EmptiesTrash
  <1>2. CASE \E c \in Versions : UserWrite(f, c) \/ UserCreate(f, c)
    BY <1>2, UserWrites, UserCreates
  <1>3. CASE \E g \in Files : UserRename(f, g) \/ ToTrash(f, g) \/ Restore(f, g)
    BY <1>3, UserRenames, MovesToTrash, Restores
  <1> QED BY <1>1, <1>2, <1>3

-----------------------------------------------------------------------------
(***************************************************************************)
(* supervise and initialize.                                               *)
(***************************************************************************)

\* There is a forecast.
Heard == \E h : Foretells(h)

\* The handler has nothing left to do for f, whose hash is what it should be.
Settled(f) ==
    /\ Kind(db[f]) = Absent <=> Should(f) = None
    /\ Kind(db[f]) = Hot => Holds(f) = Should(f)
    /\ Kind(db[f]) \in Files => Holds(f) = Empty /\ bucket[Kind(db[f])] = Should(f)

\* The handler has caught up, and every file is as its hash says.
AllSettled == /\ TInv /\ HandlerIdle /\ oldName = None
              /\ \A f \in Files : Settled(f)

\* When no event waits, the forecast is the present view.
LEMMA SettledHeard == AllSettled => Heard
  <1> SUFFICES ASSUME AllSettled PROVE Heard
    OBVIOUS
  <1>1. /\ TInv /\ hpc = "idle" /\ queue = <<>> /\ oldName = None
        /\ \A f \in Files : Settled(f)
    BY DEF AllSettled, HandlerIdle
  <1>2. View \in Views /\ (\A f \in Files : View.hash[f] = Kind(db[f])) /\ View.old = None
    BY <1>1, ViewType DEF Now, OpenSteps, RecallSteps
  <1>3. \A f \in Files : ~Fetching(f)
    BY <1>1 DEF Fetching
  <1>4. PICK h : /\ Plausible(<<>>, h, {}) /\ h[1] = View /\ Last(<<>>, h) = View
                 /\ \A f, o : ~Wants(<<>>, h, f, o)
    BY <1>2, NoEvents
  <1>5. Plausible(queue, h, Fetched)
    <2>1. Fetched = {}
      BY <1>3 DEF Fetched
    <2> QED BY <1>1, <1>4, <2>1
  <1>6. ASSUME NEW f \in Files PROVE Fits(h, f)
    BY <1>1, <1>2, <1>4 DEF Fits, Settled
  <1> QED BY <1>1, <1>2, <1>4, <1>5, <1>6 DEF Foretells, Heard

\* The same of the next state.
LEMMA SettledHeardNext == AllSettled' => Heard'
  BY SettledHeard, PTL

\* And the other way round.
LEMMA HeardSettled ==
    ASSUME TInv, Coherent, Heard, HandlerIdle
    PROVE  AllSettled
  <1>1. PICK h : Foretells(h)
    BY DEF Heard
  <1>2. /\ hpc = "idle" /\ queue = <<>> /\ h[1] = View
        /\ Last(<<>>, h) = View /\ View.old = None
        /\ \A f, o : ~Wants(<<>>, h, f, o)
        /\ \A f \in Files : Fits(h, f)
    BY <1>1, OneView DEF HandlerIdle, Foretells
  <1>3. oldName = None /\ \A f \in Files : View.hash[f] = Kind(db[f])
    BY <1>2, ViewType DEF Now, OpenSteps, RecallSteps
  <1>4. \A f \in Files : ~Fetching(f)
    BY <1>2 DEF Fetching
  <1>5. ASSUME NEW f \in Files PROVE Settled(f)
    BY <1>2, <1>3, <1>4 DEF Fits, Settled
  <1> QED BY <1>3, <1>5 DEF AllSettled

\* A demotion, when the handler has heard of everything.
LEMMA DemoteKeeps ==
    ASSUME TInv, TInv', Coherent, Heard, NEW f \in Files, Demote(f)
    PROVE  Coherent' /\ Heard'
  <1>e. PICK e : e = [db[f] EXCEPT !.remoteURI = f, !.isLocal = 0,
                                   !.isMetadata = 1, !.lastModified = "old"]
    OBVIOUS
  <1>1. /\ AllSettled /\ hpc = "idle" /\ queue = <<>> /\ oldName = None
        /\ \A g \in Files : Settled(g)
    BY HeardSettled DEF Demote, HandlerIdle, AllSettled
  <1>2. /\ truth[f] # None /\ disk[f] = truth[f] /\ opened[f] = "no"
        /\ db[f].isLocal = 1 /\ db[f].form = "made" /\ Whole(f)
        /\ \A g \in Files : db[g].remoteURI # f
        /\ Hashes /\ ObjectsDiffer /\ InOnePlace /\ InHand
    <2>1. NoEntry.isLocal # 1
      BY NamesAssumption DEF NoEntry, Flag
    <2> QED BY <2>1, WholeKinds DEF Demote, Coherent
  <1>3. /\ bucket' = [bucket EXCEPT ![f] = disk[f]] /\ bucket'[f] = truth[f]
        /\ disk' = [disk EXCEPT ![f] = Empty] /\ disk'[f] = Empty
        /\ db' = [db EXCEPT ![f] = e] /\ db'[f] = e
        /\ \A g \in Files : g # f => /\ disk'[g] = disk[g] /\ db'[g] = db[g]
                                     /\ bucket'[g] = bucket[g]
        /\ UNCHANGED <<queue, opened, hpc, hfile, hremote, hgot, oldName, trash, truth, binned>>
    BY <1>2, <1>e DEF Demote, handlerVars, userVars, TInv, TypeOK
  <1>4. /\ e.form = "made" /\ e.fileName = f /\ e.remoteURI = f
        /\ e.isLocal = 0 /\ e.isMetadata = 1
    BY <1>1, <1>2, <1>e, Types DEF Whole, Entries
  <1>5. \A g \in Files : db'[g] = NoEntry \/ Whole(g)'
    BY <1>1, <1>2, <1>3, <1>4 DEF Hashes, Whole, Flag
  <1>6. ObjectsDiffer'
    BY <1>2, <1>3, <1>4 DEF ObjectsDiffer
  <1>7. InOnePlace'
    BY <1>2, <1>3, Types DEF InOnePlace
  <1>8. InHand'
    BY <1>1, <1>2, <1>3 DEF InHand, OpenSteps, RecallSteps, Fetching
  <1>9. ASSUME NEW g \in Files PROVE Settled(g)'
    <2>1. CASE g = f
      <3>1. Should(f)' = truth[f] /\ Holds(f)' = Empty
        BY <1>2, <1>3 DEF Should, Holds
      <3>2. Kind(db'[f]) = f
        BY <1>3, <1>4 DEF Kind
      <3> QED BY <1>2, <1>3, <2>1, <3>1, <3>2, KindsDiffer DEF Settled
    <2>2. CASE g # f
      <3>1. Should(g)' = Should(g) /\ Holds(g)' = Holds(g) /\ Kind(db'[g]) = Kind(db[g])
        BY <1>3, <2>2 DEF Should, Holds
      <3>2. Kind(db[g]) # f
        BY <1>2, Types, KindType
      <3> QED BY <1>1, <1>3, <2>2, <3>1, <3>2 DEF Settled
    <2> QED BY <2>1, <2>2
  <1>10. AllSettled'
    BY <1>1, <1>3, <1>9 DEF AllSettled, HandlerIdle
  <1> QED BY <1>5, <1>6, <1>7, <1>8, <1>10, SettledHeardNext DEF Coherent, Hashes

\* initialize catalogues what it finds before anything can happen to it.
LEMMA StartupKeeps ==
    ASSUME TInv, TInv', ipc # "watching", Starting, Startup
    PROVE  IF ipc' = "watching" THEN Coherent' /\ Heard' ELSE Starting'
  <1>1. /\ hpc = IF ipc = "half" THEN "idle" ELSE "dead"
        /\ hfile = None /\ oldName = None /\ queue = <<>> /\ disk = truth
        /\ \A f \in Files : trash[f] = None /\ binned[f] = None /\ opened[f] = "no"
        /\ \A f \in left : truth[f] # None
        /\ \A f \in Files : f \in Listed => Whole(f) /\ db[f].isLocal = 1
        /\ \A f \in Files : f \notin Listed => db[f] = NoEntry
        /\ left \in SUBSET Files /\ db \in [Files -> Entries]
    BY DEF Starting, TInv, TypeOK
  <1>2. UNCHANGED <<disk, bucket, queue, opened, hfile, hremote, hgot, oldName,
                    trash, truth, binned>>
    BY DEF Startup, List, Add, Fork, WatchFiles, WatchTrash, Initialize, handlerVars, userVars
  <1>3. CASE List
    <2>1. /\ ipc = "list" /\ ipc' = "add" /\ hpc = "dead" /\ hpc' = "dead" /\ db' = db
          /\ left' = {f \in Files : truth[f] # None}
      BY <1>1, <1>3 DEF List, Initialize
    <2>2. Listed = {} /\ Listed' = {}
      BY <1>2, <2>1 DEF Listed
    <2> QED BY <1>1, <1>2, <2>1, <2>2 DEF Starting
  <1>4. CASE Add
    <2>1. PICK f \in left, open \in Flag, age \in Ages :
              /\ db' = [db EXCEPT ![f] = HMSET(@, NewFileData(f, open, age))]
              /\ left' = left \ {f}
      BY <1>4 DEF Add
    <2>2. /\ ipc = "add" /\ ipc' = "add" /\ hpc = "dead" /\ hpc' = "dead"
          /\ f \in Files /\ truth[f] # None
      BY <1>1, <1>4 DEF Add, Initialize
    <2>3. \A g \in Files : /\ g \in Listed' <=> g \in Listed \/ g = f
                           /\ f \notin Listed
      BY <1>2, <2>1, <2>2 DEF Listed
    <2>4. PICK e : e = HMSET(NoEntry, NewFileData(f, open, age))
      OBVIOUS
    <2>5. /\ e.form = "made" /\ e.fileName = f /\ e.remoteURI = None
          /\ e.isLocal = 1 /\ e.isMetadata = 0
      BY <2>4 DEF HMSET, NewFileData, NoEntry
    <2>6. db'[f] = e /\ \A g \in Files : g # f => db'[g] = db[g]
      BY <1>1, <2>1, <2>2, <2>3, <2>4
    <2>7. Whole(f)'
      BY <2>2, <2>5, <2>6 DEF Whole, Flag
    <2>8. \A g \in Files : g # f /\ Whole(g) => Whole(g)'
      BY <1>2, <2>2, <2>6 DEF Whole
    <2>9. ASSUME NEW g \in Files
          PROVE  IF g \in Listed' THEN Whole(g)' /\ db'[g].isLocal = 1 ELSE db'[g] = NoEntry
      BY <1>1, <2>3, <2>5, <2>6, <2>7, <2>8
    <2> QED BY <1>1, <1>2, <2>1, <2>2, <2>9 DEF Starting
  <1>5. CASE Fork
    <2>1. /\ ipc = "add" /\ ipc' = "forked" /\ hpc = "dead" /\ hpc' = "dead" /\ db' = db
          /\ left = {} /\ left' = left
      BY <1>1, <1>5 DEF Fork, Initialize
    <2>2. Listed' = Listed
      BY <1>2, <2>1 DEF Listed
    <2>3. \A f \in Files : Whole(f) => Whole(f)'
      BY <1>2, <2>1 DEF Whole
    <2> QED BY <1>1, <1>2, <2>1, <2>2, <2>3 DEF Starting
  <1>6. CASE WatchFiles
    <2>1. /\ ipc = "forked" /\ ipc' = "half" /\ hpc' = "idle" /\ db' = db /\ left' = left
      BY <1>6 DEF WatchFiles, Initialize
    <2>2. Listed' = Listed
      BY <1>2, <2>1 DEF Listed
    <2>3. \A f \in Files : Whole(f) => Whole(f)'
      BY <1>1, <1>2, <2>1 DEF Whole
    <2> QED BY <1>1, <1>2, <2>1, <2>2, <2>3 DEF Starting
  <1>7. CASE WatchTrash
    <2>1. /\ ipc = "half" /\ ipc' = "watching" /\ hpc = "idle" /\ hpc' = "idle" /\ db' = db
      BY <1>1, <1>7 DEF WatchTrash, Initialize
    <2>2. \A f \in Files : f \in Listed <=> truth[f] # None
      BY <2>1 DEF Listed
    <2>3. Hashes'
      BY <1>1, <1>2, <2>1 DEF Hashes, Whole
    <2>4. \A f \in Files : db[f].remoteURI \notin Files
      BY <1>1, NamesAssumption DEF Whole, NoEntry
    <2>5. ObjectsDiffer'
      BY <2>1, <2>4 DEF ObjectsDiffer
    <2>6. InOnePlace'
      BY <1>1, <1>2 DEF InOnePlace
    <2>7. InHand'
      BY <1>2, <2>1 DEF InHand, OpenSteps, RecallSteps, Fetching
    <2>8. ASSUME NEW f \in Files PROVE Settled(f)'
      <3>1. CASE truth[f] # None
        <4>1. Kind(db'[f]) = Hot
          BY <1>1, <2>1, <2>2, <3>1 DEF Kind, Whole
        <4>2. Should(f)' # None /\ Holds(f)' = Should(f)'
          BY <1>1, <1>2, <3>1 DEF Should, Holds
        <4> QED BY <4>1, <4>2, KindsDiffer DEF Settled
      <3>2. CASE truth[f] = None
        <4>1. Kind(db'[f]) = Absent
          BY <1>1, <2>1, <2>2, <3>2 DEF Kind, NoEntry
        <4>2. Should(f)' = None
          BY <1>1, <1>2, <3>2 DEF Should
        <4> QED BY <4>1, <4>2, KindsDiffer DEF Settled
      <3> QED BY <3>1, <3>2
    <2>9. AllSettled'
      BY <1>1, <1>2, <2>1, <2>8 DEF AllSettled, HandlerIdle
    <2> QED BY <2>1, <2>3, <2>5, <2>6, <2>7, <2>9, SettledHeardNext DEF Coherent
  <1> QED BY <1>3, <1>4, <1>5, <1>6, <1>7 DEF Startup

-----------------------------------------------------------------------------
(***************************************************************************)
(* Type correctness, which asks nothing of users or of S3.                 *)
(***************************************************************************)
LEMMA TInvParts ==
    TInv <=> /\ HandlerInv
             /\ trash \in [Files -> Contents \cup {None}]
             /\ opened \in [Files -> {"no", "yes"}]
             /\ ipc \in {"list", "add", "forked", "half", "watching"} /\ left \in SUBSET Files
             /\ truth \in [Files -> Versions \cup {None}]
             /\ binned \in [Files -> Versions \cup {None}]
  BY DEF TInv, TypeOK, HandlerInv

\* The types hold at first.
LEMMA InitTypes == Init => TInv
  <1> SUFFICES ASSUME Init PROVE TInv
    OBVIOUS
  <1>1. NoEntry \in Entries /\ None \in Versions \cup {None}
    BY HMSETType
  <1>2. /\ disk \in [Files -> Contents \cup {None}] /\ trash \in [Files -> Contents \cup {None}]
        /\ bucket \in [Files -> Contents \cup {None}]
        /\ truth \in [Files -> Versions \cup {None}] /\ binned \in [Files -> Versions \cup {None}]
    BY DEF Init, Contents
  <1>3. db \in [Files -> Entries] /\ opened \in [Files -> {"no", "yes"}] /\ queue \in Seq(Events)
    BY <1>1 DEF Init
  <1>4. HandlerInv
    BY <1>2, <1>3 DEF Init, HandlerInv, HandlerSteps
  <1> QED BY <1>2, <1>3, <1>4, TInvParts DEF Init

\* What a user does leaves the handler and initialize where they are.
LEMMA UserTypes ==
    ASSUME TInv, UNCHANGED <<bucket, db, hpc, handlerVars, initializeVars>>,
           disk' \in [Files -> Contents \cup {None}],
           trash' \in [Files -> Contents \cup {None}],
           opened' \in [Files -> {"no", "yes"}],
           truth' \in [Files -> Versions \cup {None}],
           binned' \in [Files -> Versions \cup {None}],
           NEW events \in Seq(Events), Notify(events)
    PROVE  TInv'
  <1>1. HandlerInv
    BY TInvParts
  <1>2. queue' \in Seq(Events)
    BY <1>1, NotifyType DEF HandlerInv
  <1>3. HandlerInv'
    BY <1>1, <1>2 DEF HandlerInv, handlerVars
  <1> QED BY <1>3, TInvParts DEF TInv, TypeOK, HandlerInv, initializeVars, handlerVars

\* They hold after what users do.
LEMMA UsersType ==
    ASSUME TInv, Users
    PROVE  TInv'
  <1>1. /\ disk \in [Files -> Contents \cup {None}] /\ trash \in [Files -> Contents \cup {None}]
        /\ opened \in [Files -> {"no", "yes"}]
        /\ truth \in [Files -> Versions \cup {None}] /\ binned \in [Files -> Versions \cup {None}]
        /\ Versions \subseteq Contents
    BY DEF TInv, TypeOK, Contents
  <1>2. \A type \in EventTypes, f \in Files : Ev(type, f) \in Events
    BY EventsType
  <1>3. ASSUME NEW f \in Files, UserOpen(f) \/ UserClose(f) PROVE TInv'
    <2>1. <<Ev("open", f)>> \in Seq(Events) /\ <<Ev("close", f)>> \in Seq(Events)
      BY <1>2 DEF EventTypes
    <2>2. /\ UNCHANGED <<bucket, db, hpc, handlerVars, initializeVars, disk, trash, truth, binned>>
          /\ opened' \in [Files -> {"no", "yes"}]
      BY <1>1, <1>3 DEF UserOpen, UserClose, UserTurn, userVars
    <2> QED BY <1>1, <1>3, <2>1, <2>2, UserTypes DEF UserOpen, UserClose
  <1>4. ASSUME NEW f \in Files, NEW c \in Versions, UserWrite(f, c) \/ UserCreate(f, c)
        PROVE  TInv'
    <2>1. <<Ev("modify", f)>> \in Seq(Events) /\ RewriteEvents(f, c) \in Seq(Events)
      BY <1>2, EventsType DEF EventTypes
    <2>2. /\ UNCHANGED <<bucket, db, hpc, handlerVars, initializeVars, trash, binned, opened>>
          /\ disk' \in [Files -> Contents \cup {None}]
          /\ truth' \in [Files -> Versions \cup {None}]
      BY <1>1, <1>4 DEF UserWrite, UserCreate, UserTurn
    <2> QED BY <1>1, <1>4, <2>1, <2>2, UserTypes DEF UserWrite, UserCreate
  <1>5. ASSUME NEW f \in Files, UserDelete(f) \/ EmptyTrash(f) PROVE TInv'
    <2>1. <<Ev("delete", f)>> \in Seq(Events) /\ FromTrash(<<Ev("delete", f)>>) \in Seq(Events)
      BY <1>2 DEF EventTypes, FromTrash
    <2>2. /\ UNCHANGED <<bucket, db, hpc, handlerVars, initializeVars, opened>>
          /\ disk' \in [Files -> Contents \cup {None}] /\ trash' \in [Files -> Contents \cup {None}]
          /\ truth' \in [Files -> Versions \cup {None}]
          /\ binned' \in [Files -> Versions \cup {None}]
      BY <1>1, <1>5 DEF UserDelete, EmptyTrash, UserTurn
    <2> QED BY <1>5, <2>1, <2>2, UserTypes, <1>1 DEF UserDelete, EmptyTrash
  <1>6. ASSUME NEW f \in Files, NEW g \in Files,
               UserRename(f, g) \/ ToTrash(f, g) \/ Restore(f, g)
        PROVE  TInv'
    <2>1. /\ <<Ev("movedFrom", f), Ev("movedTo", g)>> \in Seq(Events)
          /\ <<Ev("movedFrom", f)>> \o FromTrash(<<Ev("movedTo", g)>>) \in Seq(Events)
          /\ FromTrash(<<Ev("movedFrom", f)>>) \o <<Ev("movedTo", g)>> \in Seq(Events)
      BY <1>2 DEF EventTypes, FromTrash
    <2>2. /\ UNCHANGED <<bucket, db, hpc, handlerVars, initializeVars, opened>>
          /\ disk' \in [Files -> Contents \cup {None}] /\ trash' \in [Files -> Contents \cup {None}]
          /\ truth' \in [Files -> Versions \cup {None}]
          /\ binned' \in [Files -> Versions \cup {None}]
      <3>1. CASE UserRename(f, g)
        BY <1>1, <3>1 DEF UserRename, UserTurn
      <3>2. CASE ToTrash(f, g)
        BY <1>1, <3>2 DEF ToTrash, UserTurn
      <3>3. CASE Restore(f, g)
        BY <1>1, <3>3 DEF Restore, UserTurn
      <3> QED BY <1>6, <3>1, <3>2, <3>3
    <2>3. \E events \in Seq(Events) : Notify(events)
      BY <1>6, <2>1 DEF UserRename, ToTrash, Restore
    <2> QED BY <1>1, <2>2, <2>3, UserTypes
  <1> QED BY <1>3, <1>4, <1>5, <1>6 DEF Users

\* They hold after each call of initialize and of the thread that watches.
LEMMA StartupTypes ==
    ASSUME TInv, Startup
    PROVE  TInv'
  <1>1. /\ HandlerInv /\ left \in SUBSET Files /\ db \in [Files -> Entries]
        /\ UNCHANGED <<disk, bucket, queue, opened, handlerVars, userVars>>
    BY TInvParts DEF Startup, List, Add, Fork, WatchFiles, WatchTrash, Initialize, HandlerInv
  <1>2. /\ ipc' \in {"list", "add", "forked", "half", "watching"} /\ left' \in SUBSET Files
        /\ hpc' \in {hpc, "idle"}
    BY <1>1 DEF Startup, List, Add, Fork, WatchFiles, WatchTrash, Initialize
  <1>3. db' \in [Files -> Entries]
    <2>1. CASE Add
      <3>1. PICK f \in left, open \in Flag, age \in Ages :
                db' = [db EXCEPT ![f] = HMSET(@, NewFileData(f, open, age))]
        BY <2>1 DEF Add
      <3>2. HMSET(db[f], NewFileData(f, open, age)) \in Entries
        BY <1>1, HMSETType
      <3> QED BY <1>1, <3>1, <3>2
    <2>2. CASE ~Add
      BY <1>1, <2>2 DEF Startup, List, Fork, WatchFiles, WatchTrash
    <2> QED BY <2>1, <2>2
  <1>4. HandlerInv'
    BY <1>1, <1>2, <1>3 DEF HandlerInv, HandlerSteps, handlerVars
  <1> QED BY <1>1, <1>2, <1>4, TInvParts DEF TInv, TypeOK, userVars, HandlerInv, handlerVars

\* They hold after a demotion.
LEMMA DemoteTypes ==
    ASSUME TInv, NEW f \in Files, Demote(f)
    PROVE  TInv'
  <1>1. /\ disk \in [Files -> Contents \cup {None}] /\ bucket \in [Files -> Contents \cup {None}]
        /\ db \in [Files -> Entries]
    BY DEF TInv, TypeOK
  <1>2. /\ disk' \in [Files -> Contents \cup {None}] /\ bucket' \in [Files -> Contents \cup {None}]
    BY <1>1 DEF Demote, Contents
  <1>3. [db[f] EXCEPT !.remoteURI = f, !.isLocal = 0,
                      !.isMetadata = 1, !.lastModified = "old"] \in Entries
    BY <1>1 DEF Entries, Flag, Ages
  <1>4. db' \in [Files -> Entries]
    BY <1>1, <1>3 DEF Demote
  <1> QED BY <1>2, <1>4 DEF Demote, TInv, TypeOK, HandlerInv, handlerVars, initializeVars, userVars

\* They hold after every step.
LEMMA NextTypes == TInv /\ [Next]_vars => TInv'
  <1> SUFFICES ASSUME TInv, [Next]_vars PROVE TInv'
    OBVIOUS
  <1>1. CASE Handler
    <2>1. HandlerInv' /\ opened' = opened
      BY <1>1, TInvParts, HandlerKeeps, OpenedStays DEF Handler
    <2> QED BY <1>1, <2>1 DEF Handler, TInv, TypeOK, HandlerInv, initializeVars, userVars
  <1>2. CASE UNCHANGED vars
    BY <1>2 DEF vars, worldVars, handlerVars, initializeVars, userVars, TInv, TypeOK, HandlerInv
  <1> QED BY <1>1, <1>2, UsersType, StartupTypes, DemoteTypes DEF Next

\* The tidying users' steps, the start-up and the handler's keep every variable
\* in its type, whatever users do and whatever S3 answers.
THEOREM HousekeepingTypeCorrect == Spec => []TypeOK
  <1>1. TInv => TypeOK
    BY DEF TInv
  <1> QED BY <1>1, InitTypes, NextTypes, PTL DEF Spec

-----------------------------------------------------------------------------
(***************************************************************************)
(* The invariant.                                                          *)
(***************************************************************************)
IInv == TInv /\ \E h : HousekeepingInv(h)

\* The invariant, by its parts.
LEMMA IInvParts ==
    IInv <=> TInv /\ IF ipc = "watching" THEN Coherent /\ Heard ELSE Starting
  BY DEF IInv, HousekeepingInv, Heard

\* The same of the next state.
LEMMA IInvPartsNext ==
    IInv' <=> TInv' /\ IF ipc' = "watching" THEN Coherent' /\ Heard' ELSE Starting'
  BY DEF IInv, HousekeepingInv, Heard

\* initialize has nothing in its catalogue at first.
LEMMA InitKeeps == Init => IInv
  <1> SUFFICES ASSUME Init PROVE IInv
    OBVIOUS
  <1>1. /\ ipc = "list" /\ left = {} /\ hpc = "dead" /\ hfile = None /\ oldName = None
        /\ queue = <<>> /\ disk = truth
        /\ \A f \in Files : /\ trash[f] = None /\ binned[f] = None /\ opened[f] = "no"
                            /\ db[f] = NoEntry
    BY DEF Init
  <1>2. Starting
    BY <1>1 DEF Starting, Listed
  <1> QED BY <1>1, <1>2, InitTypes, IInvParts

\* Every step of users, of the handler, of initialize and of supervise keeps it.
LEMMA NextKeeps ==
    ASSUME Tidy
    PROVE  IInv /\ [Next]_vars => IInv'
  <1> SUFFICES ASSUME IInv, [Next]_vars PROVE IInv'
    OBVIOUS
  <1>1. TInv /\ TInv'
    BY NextTypes, IInvParts
  <1>2. CASE Startup
    <2>1. ipc # "watching"
      BY <1>2 DEF Startup, List, Add, Fork, WatchFiles, WatchTrash, Initialize
    <2> QED BY <1>1, <1>2, <2>1, IInvParts, IInvPartsNext, StartupKeeps
  <1>3. CASE Handler
    <2>1. ipc = "watching" /\ ipc' = ipc
      BY <1>3 DEF Handler, initializeVars
    <2>2. PICK h : Coherent /\ Foretells(h)
      BY <2>1, IInvParts DEF Heard
    <2>3. Coherent' /\ Heard'
      BY <1>1, <1>3, <2>2, HandlerForetells DEF Heard
    <2> QED BY <1>1, <2>1, <2>3, IInvPartsNext
  <1>4. CASE Users
    <2>1. ipc = "watching" /\ ipc' = ipc
      BY <1>4 DEF Users, UserOpen, UserClose, UserDelete, EmptyTrash, UserWrite, UserCreate,
                  UserRename, ToTrash, Restore, UserTurn, Tidy, initializeVars
    <2>2. PICK h : Coherent /\ Foretells(h)
      BY <2>1, IInvParts DEF Heard
    <2>3. Coherent' /\ Heard'
      BY <1>1, <1>4, <2>2, UsersForetell DEF Heard
    <2> QED BY <1>1, <2>1, <2>3, IInvPartsNext
  <1>5. CASE \E f \in Files : Demote(f)
    <2>1. ipc = "watching" /\ ipc' = ipc
      BY <1>5 DEF Demote, initializeVars
    <2>2. Coherent' /\ Heard'
      BY <1>1, <1>5, <2>1, IInvParts, DemoteKeeps
    <2> QED BY <1>1, <2>1, <2>2, IInvPartsNext
  <1>6. CASE UNCHANGED vars
    <2>1. UNCHANGED <<disk, bucket, db, queue, opened, hpc, hfile, hremote, hgot, oldName,
                      trash, ipc, left, truth, binned>>
      BY <1>6 DEF vars, worldVars, handlerVars, initializeVars, userVars
    <2>2. CASE ipc # "watching"
      <3>1. Starting'
        BY <2>1, <2>2, IInvParts DEF Starting, Listed, Whole
      <3> QED BY <1>1, <2>1, <2>2, <3>1, IInvPartsNext
    <2>3. CASE ipc = "watching"
      <3>1. PICK h : Coherent /\ Foretells(h)
        BY <2>3, IInvParts DEF Heard
      <3>2. Hashes' /\ ObjectsDiffer' /\ InOnePlace' /\ InHand'
        BY <2>1, <3>1 DEF Coherent, Hashes, Whole, ObjectsDiffer, InOnePlace, InHand,
                          Fetching, Fetchable
      <3>3. View' = View
        BY <2>1 DEF View, Now
      <3>4. \A f \in Files : Fetching(f)' <=> Fetching(f)
        BY <2>1 DEF Fetching
      <3>5. Foretells(h)'
        BY <1>1, <2>1, <3>1, <3>3, <3>4, CallForetells
      <3> QED BY <1>1, <2>1, <2>3, <3>2, <3>5, IInvPartsNext DEF Coherent, Heard
    <2> QED BY <2>2, <2>3
  <1> QED BY <1>2, <1>3, <1>4, <1>5, <1>6 DEF Next

\* The invariant is one.
LEMMA Invariance ==
    ASSUME Tidy
    PROVE  Spec => []IInv
  BY InitKeeps, NextKeeps, PTL DEF Spec

-----------------------------------------------------------------------------
(***************************************************************************)
(* What follows.                                                           *)
(***************************************************************************)

\* Once the handler has caught up, the hashes are those of the files of both
\* directories, and say truly which are placeholders: for any number of files,
\* events and moves, if users are patient, names are not used again too early,
\* and downloads succeed.
THEOREM TidyingIsCatalogued ==
    ASSUME Tidy
    PROVE  Spec => []BothCatalogued
  <1>1. IInv => BothCatalogued
    <2> SUFFICES ASSUME IInv, ipc = "watching", HandlerIdle, NEW f \in Files
                 PROVE  /\ Should(f) = None <=> db[f].form = "none"
                        /\ Should(f) # None =>
                               /\ db[f].form = "made"
                               /\ db[f].fileName = f
                               /\ db[f].isLocal = 1 <=> Holds(f) = Should(f)
                               /\ db[f].isMetadata = 1 - db[f].isLocal
      BY DEF BothCatalogued
    <2>1. TInv /\ Coherent /\ Heard
      BY IInvParts
    <2>2. Settled(f) /\ hpc = "idle" /\ Hashes
      BY <2>1, HeardSettled DEF AllSettled, HandlerIdle, Coherent
    <2>3. Should(f) = None <=> db[f].form = "none"
      BY <2>1, <2>2, WholeKinds DEF Settled
    <2>4. ASSUME Should(f) # None
          PROVE  /\ db[f].form = "made" /\ db[f].fileName = f
                 /\ db[f].isLocal = 1 <=> Holds(f) = Should(f)
                 /\ db[f].isMetadata = 1 - db[f].isLocal
      <3>1. db[f].form = "made" /\ Whole(f)
        BY <2>1, <2>2, <2>3, <2>4, WholeKinds
      <3>2. CASE db[f].isLocal = 1
        <4>1. Kind(db[f]) = Hot
          BY <3>1, <3>2 DEF Kind
        <4> QED BY <2>2, <3>1, <3>2, <4>1 DEF Whole, Settled
      <3>3. CASE db[f].isLocal = 0
        <4>1. Kind(db[f]) \in Files
          BY <2>2, <3>1, <3>3 DEF Kind, Whole
        <4>2. Should(f) # Empty
          BY <2>1, Types DEF Should
        <4> QED BY <2>2, <3>1, <3>3, <4>1, <4>2 DEF Whole, Settled
      <3> QED BY <3>1, <3>2, <3>3 DEF Whole, Flag
    <2> QED BY <2>3, <2>4
  <1> QED BY <1>1, Invariance, PTL

\* The hash under which the object o is to be found, while the view says it is g's.
LEMMA ObjectOf ==
    ASSUME TInv, Hashes, NEW f \in Files, NEW g \in Files, NEW o \in Files,
           Now(g) = o, bucket[o] = Should(f), Should(f) # None
    PROVE  IF hpc = "rename" /\ g = hfile THEN LeadsTo(oldName, f) ELSE LeadsTo(g, f)
  <1>1. ASSUME NEW a \in Files, Kind(db[a]) = o PROVE LeadsTo(a, f)
    <2>1. /\ db[a].form = "made" /\ db[a].isLocal = 0 /\ db[a].isMetadata = 1
          /\ db[a].remoteURI = o
      BY <1>1, WholeKinds
    <2> QED BY <2>1 DEF LeadsTo, InBucket
  <1>2. CASE hpc = "rename" /\ g = hfile
    BY <1>1, <1>2, Types DEF Now
  <1>3. CASE ~(hpc = "rename" /\ g = hfile)
    <2>1. Kind(db[g]) = o
      BY <1>3, KindsDiffer DEF Now
    <2> QED BY <1>1, <1>3, <2>1
  <1> QED BY <1>2, <1>3

\* A cold file keeps its way back through every move, between the directories as
\* well, at every moment of every move: nothing that users tidy up is stranded.
THEOREM NothingIsStranded ==
    ASSUME Tidy
    PROVE  Spec => []TidyingStrandsNothing
  <1>1. IInv => TidyingStrandsNothing
    <2> SUFFICES ASSUME IInv, NEW f \in Files, Should(f) # None
                 PROVE  \/ Holds(f) = Should(f)
                        \/ LeadsTo(f, f)
                        \/ MovePending(f) /\ \E g \in Files : LeadsTo(g, f)
      BY DEF TidyingStrandsNothing
    <2>0. TInv
      BY IInvParts
    <2>1. CASE ipc # "watching"
      BY <2>1, IInvParts DEF Starting, Should, Holds
    <2>2. CASE ipc = "watching"
      <3>1. Coherent /\ Heard /\ Hashes /\ InHand
        BY <2>2, IInvParts DEF Coherent
      <3>2. PICK h : Foretells(h)
        BY <3>1 DEF Heard
      <3>3. /\ Plausible(queue, h, Fetched) /\ h[1] = View /\ Fits(h, f)
            /\ \A o \in Files : Wants(queue, h, f, o) => Fetchable(f, o)
            /\ \A g \in Files : View.hash[g] = Now(g)
            /\ Last(queue, h).hash[f] \in Kinds
        <4>1. Last(queue, h) \in Views
          BY <2>0, <3>2, Types DEF Foretells, Plausible, Forecasts, Last
        <4> QED BY <2>0, <3>2, <4>1, ViewType DEF Foretells, Views
      <3>4. ASSUME NEW o \in Files, bucket[o] = Should(f),
                   Wants(queue, h, f, o) \/ Last(queue, h).hash[f] = o
            PROVE  \/ LeadsTo(f, f)
                   \/ MovePending(f) /\ \E g \in Files : LeadsTo(g, f)
        <4>1. PICK g \in Files : Now(g) = o
          BY <2>0, <3>3, <3>4, Origin, Types
        <4>2. \/ Now(f) = o
              \/ \E i \in 1..Len(queue) : queue[i] = Ev("movedTo", f)
          BY <2>0, <3>3, <3>4, Origin, Types
        <4>3. CASE Now(f) = o
          BY <2>0, <3>1, <3>4, <4>3, ObjectOf, Types DEF MovePending
        <4>4. CASE Now(f) # o
          BY <2>0, <3>1, <3>4, <4>1, <4>2, <4>4, ObjectOf, Types DEF MovePending
        <4> QED BY <4>3, <4>4
      <3>5. CASE Fetching(f)
        <4>1. /\ hfile = f /\ db[f].form = "made" /\ db[f].isLocal = 0
              /\ hremote = db[f].remoteURI
              /\ Fetchable(f, hremote)
          BY <3>1, <3>5 DEF Fetching, InHand, OpenSteps, RecallSteps
        <4>2. db[f].isMetadata = 1
          BY <2>0, <3>1, <4>1, WholeKinds DEF Whole
        <4> QED BY <4>1, <4>2 DEF Fetchable, LeadsTo, InBucket, Should
      <3>6. CASE \E o \in Files : Wants(queue, h, f, o)
        <4>1. PICK o \in Files : Wants(queue, h, f, o)
          BY <3>6
        <4>2. bucket[o] = Should(f)
          BY <3>3, <4>1 DEF Fetchable, Should
        <4> QED BY <3>4, <4>1, <4>2
      <3>7. CASE Last(queue, h).hash[f] \in Files
        BY <3>3, <3>4, <3>7 DEF Fits
      <3> QED BY <3>3, <3>5, <3>6, <3>7, KindsDiffer DEF Fits
    <2> QED BY <2>1, <2>2
  <1> QED BY <1>1, Invariance, PTL

\* A recall replaces a placeholder, and never what a user has written.
THEOREM RecallsAreHarmless ==
    ASSUME Tidy
    PROVE  Spec => RecallFillsPlaceholders
  <1>1. IInv /\ [Next]_vars => [RecallWrite => disk[hfile] \in {Empty, hgot}]_vars
    <2> SUFFICES ASSUME IInv, RecallWrite PROVE disk[hfile] \in {Empty, hgot}
      OBVIOUS
    <2>1. hpc = "write" /\ TInv
      BY IInvParts DEF RecallWrite
    <2>2. hfile \in Files
      BY <2>1, Types
    <2>3. ipc = "watching"
      BY <2>1, IInvParts DEF Starting
    <2>4. InHand
      BY <2>3, IInvParts DEF Coherent
    <2>5. Fetchable(hfile, hremote)
      BY <2>1, <2>2, <2>4 DEF InHand, Fetching
    <2> QED BY <2>5 DEF Fetchable
  <1> QED BY <1>1, Invariance, PTL DEF Spec, RecallFillsPlaceholders
=============================================================================
