----------------------------- MODULE SafetyProofs -----------------------------
(***************************************************************************)
(* SafetyInvariant.tla's invariant is inductive, and what follows from it. *)
(***************************************************************************)
EXTENDS SafetyInvariant, MigrationProofs

-----------------------------------------------------------------------------
(***************************************************************************)
(* Queues.  What the views of a queue say when an event is put at its end, *)
(* or taken from its head.                                                 *)
(***************************************************************************)

\* A queue that ends with an event.
LEMMA AppendElements ==
    ASSUME NEW q \in Seq(Events), NEW e \in Events
    PROVE  /\ Append(q, e) \in Seq(Events)
           /\ Len(Append(q, e)) = Len(q) + 1
           /\ Len(q) \in Nat
           /\ Append(q, e)[Len(q) + 1] = e
           /\ \A i \in 1..Len(q) : Append(q, e)[i] = q[i]
  OBVIOUS

\* What an event at the end of a queue adds to the views of f.
LEMMA AppendViews ==
    ASSUME NEW f \in Files, NEW q \in Seq(Events), NEW e \in Events
    PROVE  LET r == Append(q, e) IN
           /\ NoDelete(f, r) <=> NoDelete(f, q) /\ e # Ev("delete", f)
           /\ OpenPending(f, r) <=> OpenPending(f, q) \/ e = Ev("open", f)
           /\ FreshOpen(f, r) <=> \/ e = Ev("open", f)
                                  \/ FreshOpen(f, q) /\ e # Ev("delete", f)
           /\ OpensAreFresh(f, r) <=> OpensAreFresh(f, q)
                                      /\ (OpenPending(f, q) => e # Ev("delete", f))
           /\ OnlyCloses(f, r) <=> OnlyCloses(f, q) /\ (e.file = f => e.type = "close")
           /\ Silent(f, r) <=> Silent(f, q) /\ e.file # f
  <1> DEFINE r == Append(q, e)
  <1>0. /\ Len(r) = Len(q) + 1 /\ Len(q) \in Nat
        /\ r[Len(q) + 1] = e
        /\ \A i \in 1..Len(q) : r[i] = q[i]
    BY AppendElements
  <1>a. \A i \in 1..Len(r) : i \in 1..Len(q) \/ i = Len(q) + 1
    BY <1>0
  <1>b. Len(q) + 1 \in 1..Len(r) /\ \A i \in 1..Len(q) : i \in 1..Len(r)
    BY <1>0
  <1> HIDE DEF r
  <1>1. NoDelete(f, r) <=> NoDelete(f, q) /\ e # Ev("delete", f)
    BY <1>0, <1>a, <1>b DEF NoDelete
  <1>2. OpenPending(f, r) <=> OpenPending(f, q) \/ e = Ev("open", f)
    BY <1>0, <1>a, <1>b DEF OpenPending
  <1>3. FreshOpen(f, r) <=> \/ e = Ev("open", f)
                            \/ FreshOpen(f, q) /\ e # Ev("delete", f)
    BY <1>0, <1>a, <1>b DEF FreshOpen, Ev
  <1>4. OpensAreFresh(f, r) <=> OpensAreFresh(f, q)
                                      /\ (OpenPending(f, q) => e # Ev("delete", f))
    BY <1>0, <1>a, <1>b DEF OpensAreFresh, OpenPending
  <1>5. OnlyCloses(f, r) <=> OnlyCloses(f, q) /\ (e.file = f => e.type = "close")
    BY <1>0, <1>a, <1>b DEF OnlyCloses
  <1>6. Silent(f, r) <=> Silent(f, q) /\ e.file # f
    BY <1>0, <1>a, <1>b DEF Silent
  <1> QED BY <1>1, <1>2, <1>3, <1>4, <1>5, <1>6 DEF r

\* What it adds to the account of the hash of f.
LEMMA AppendHash ==
    ASSUME NEW f \in Files, NEW q \in Seq(Events), NEW e \in Events
    PROVE  LET r == Append(q, e) IN
           /\ Recreated(f, r) <=> \/ e = Ev("create", f)
                                  \/ Recreated(f, q) /\ e # Ev("delete", f)
           /\ ServedWithout(f, r) <=> /\ ServedWithout(f, q)
                                      /\ NeedsHash(f, e) => Recreated(f, q)
           /\ ServedWith(f, r) <=> /\ ServedWith(f, q)
                                   /\ NeedsHash(f, e) => \/ NoDelete(f, q)
                                                         \/ Recreated(f, q)
  <1> DEFINE r == Append(q, e)
  <1>0. /\ Len(r) = Len(q) + 1 /\ Len(q) \in Nat
        /\ r[Len(q) + 1] = e
        /\ \A i \in 1..Len(q) : r[i] = q[i]
    BY AppendElements
  <1>a. \A i \in 1..Len(r) : i \in 1..Len(q) \/ i = Len(q) + 1
    BY <1>0
  <1>b. Len(q) + 1 \in 1..Len(r) /\ \A i \in 1..Len(q) : i \in 1..Len(r)
    BY <1>0
  <1> HIDE DEF r
  <1>1. \A n \in 0..Len(q) : CreatedIn(f, r, n) <=> CreatedIn(f, q, n)
    BY <1>0 DEF CreatedIn
  <1>2. Recreated(f, r) <=> \/ e = Ev("create", f)
                            \/ Recreated(f, q) /\ e # Ev("delete", f)
    BY <1>0, <1>a, <1>b DEF Recreated, CreatedIn, Ev
  <1>3. \A i \in 1..Len(q) : i - 1 \in 0..Len(q)
    BY <1>0
  <1>4. Len(q) + 1 - 1 = Len(q) /\ Len(q) \in 0..Len(q)
    BY <1>0
  <1>5. ServedWithout(f, r) <=> /\ ServedWithout(f, q)
                                /\ NeedsHash(f, e) => Recreated(f, q)
    BY <1>0, <1>a, <1>b, <1>1, <1>3, <1>4 DEF ServedWithout, Recreated
  <1>6. \A i \in 1..Len(q) : (\A k \in 1 .. i - 1 : r[k] # Ev("delete", f))
                                 <=> (\A k \in 1 .. i - 1 : q[k] # Ev("delete", f))
    BY <1>0
  <1>7. ServedWith(f, r) <=> /\ ServedWith(f, q)
                             /\ NeedsHash(f, e) => \/ NoDelete(f, q)
                                                   \/ Recreated(f, q)
    <2> DEFINE Clear(s, i) == \A k \in 1 .. i - 1 : s[k] # Ev("delete", f)
    <2>1. Clear(r, Len(q) + 1) <=> NoDelete(f, q)
      BY <1>0, <1>4 DEF NoDelete
    <2>2. \A i \in 1..Len(q) : Clear(r, i) <=> Clear(q, i)
      BY <1>6
    <2>3. /\ ServedWith(f, q) <=> \A i \in 1..Len(q) :
                  NeedsHash(f, q[i]) => Clear(q, i) \/ CreatedIn(f, q, i - 1)
          /\ ServedWith(f, r) <=> \A i \in 1..Len(r) :
                  NeedsHash(f, r[i]) => Clear(r, i) \/ CreatedIn(f, r, i - 1)
      BY DEF ServedWith
    <2> HIDE DEF Clear
    <2> QED
      BY <1>0, <1>a, <1>b, <1>1, <1>3, <1>4, <2>1, <2>2, <2>3 DEF Recreated
  <1> QED BY <1>2, <1>5, <1>7 DEF r

\* A queue without its first event.
LEMMA TailElements ==
    ASSUME NEW q \in Seq(Events), q # <<>>
    PROVE  /\ Head(q) \in Events /\ Tail(q) \in Seq(Events)
           /\ Len(q) \in Nat /\ Len(Tail(q)) = Len(q) - 1
           /\ 1 \in 1..Len(q) /\ q[1] = Head(q)
           /\ \A i \in 1..Len(Tail(q)) : Tail(q)[i] = q[i + 1]
  OBVIOUS

\* What the views of f say once the first event has been read.
LEMMA TailViews ==
    ASSUME NEW f \in Files, NEW q \in Seq(Events), q # <<>>
    PROVE  LET h == Head(q)
               r == Tail(q)
           IN
           /\ NoDelete(f, q) <=> NoDelete(f, r) /\ h # Ev("delete", f)
           /\ OpenPending(f, q) <=> OpenPending(f, r) \/ h = Ev("open", f)
           /\ FreshOpen(f, q) <=> \/ h = Ev("open", f) /\ NoDelete(f, r)
                                  \/ FreshOpen(f, r)
           /\ OpensAreFresh(f, q) <=> OpensAreFresh(f, r)
                                      /\ (h = Ev("open", f) => NoDelete(f, r))
           /\ OnlyCloses(f, q) <=> OnlyCloses(f, r) /\ (h.file = f => h.type = "close")
           /\ Silent(f, q) <=> Silent(f, r) /\ h.file # f
  <1> DEFINE h == Head(q)
             r == Tail(q)
  <1>0. /\ Len(q) \in Nat /\ Len(r) = Len(q) - 1
        /\ q[1] = h
        /\ \A i \in 1..Len(r) : r[i] = q[i + 1]
    BY TailElements
  <1>a. \A i \in 1..Len(r) : i + 1 \in 1..Len(q)
    BY <1>0
  <1>b. 1 \in 1..Len(q)
    BY TailElements
  <1>c. \A i \in 1..Len(q) : i = 1 \/ (i - 1 \in 1..Len(r) /\ q[i] = r[i - 1])
    BY <1>0
  <1> HIDE DEF r, h
  <1>1. NoDelete(f, q) <=> NoDelete(f, r) /\ h # Ev("delete", f)
    BY <1>0, <1>a, <1>b, <1>c DEF NoDelete
  <1>2. OpenPending(f, q) <=> OpenPending(f, r) \/ h = Ev("open", f)
    BY <1>0, <1>a, <1>b, <1>c DEF OpenPending
  <1>3. FreshOpen(f, q) <=> \/ h = Ev("open", f) /\ NoDelete(f, r)
                            \/ FreshOpen(f, r)
    <2>1. ASSUME h = Ev("open", f), NoDelete(f, r)
          PROVE  FreshOpen(f, q)
      <3>1. \A k \in 1 + 1 .. Len(q) : q[k] # Ev("delete", f)
        BY <1>0, <1>c, <2>1 DEF NoDelete
      <3> QED BY <1>0, <1>b, <2>1, <3>1 DEF FreshOpen
    <2>2. ASSUME FreshOpen(f, r)
          PROVE  FreshOpen(f, q)
      <3>1. PICK i \in 1..Len(r) : /\ r[i] = Ev("open", f)
                                  /\ \A k \in i + 1 .. Len(r) : r[k] # Ev("delete", f)
        BY <2>2 DEF FreshOpen
      <3>2. ASSUME NEW k \in i + 1 + 1 .. Len(q)
            PROVE  q[k] # Ev("delete", f)
        <4>1. k \in 1..Len(q) /\ k # 1 /\ k - 1 \in i + 1 .. Len(r)
          BY <1>0
        <4> QED BY <1>c, <3>1, <4>1
      <3> QED BY <1>0, <1>a, <3>1, <3>2 DEF FreshOpen
    <2>3. ASSUME FreshOpen(f, q)
          PROVE  (h = Ev("open", f) /\ NoDelete(f, r)) \/ FreshOpen(f, r)
      <3>1. PICK i \in 1..Len(q) : /\ q[i] = Ev("open", f)
                                  /\ \A k \in i + 1 .. Len(q) : q[k] # Ev("delete", f)
        BY <2>3 DEF FreshOpen
      <3>2. CASE i = 1
        <4>1. \A k \in 1..Len(r) : k + 1 \in i + 1 .. Len(q)
          BY <1>0, <3>2
        <4> QED BY <1>0, <3>1, <3>2, <4>1 DEF NoDelete
      <3>3. CASE i # 1
        <4>1. i - 1 \in 1..Len(r) /\ r[i - 1] = Ev("open", f)
          BY <1>c, <3>1, <3>3
        <4>2. \A k \in i - 1 + 1 .. Len(r) : k + 1 \in i + 1 .. Len(q) /\ k \in 1..Len(r)
          BY <1>0, <4>1
        <4> QED BY <1>0, <3>1, <4>1, <4>2 DEF FreshOpen
      <3> QED BY <3>2, <3>3
    <2> QED BY <2>1, <2>2, <2>3
  <1>4. OpensAreFresh(f, q) <=> OpensAreFresh(f, r)
                                /\ (h = Ev("open", f) => NoDelete(f, r))
    <2>1. ASSUME OpensAreFresh(f, q)
          PROVE  OpensAreFresh(f, r) /\ (h = Ev("open", f) => NoDelete(f, r))
      BY <1>0, <1>a, <1>b, <2>1 DEF OpensAreFresh, NoDelete
    <2>2. ASSUME OpensAreFresh(f, r), h = Ev("open", f) => NoDelete(f, r)
          PROVE  OpensAreFresh(f, q)
      <3> SUFFICES ASSUME NEW i \in 1..Len(q), NEW k \in 1..Len(q), i < k,
                          q[i] = Ev("open", f)
                   PROVE  q[k] # Ev("delete", f)
        BY DEF OpensAreFresh
      <3>1. k - 1 \in 1..Len(r) /\ q[k] = r[k - 1]
        BY <1>c
      <3>2. CASE i = 1
        BY <1>0, <2>2, <3>1, <3>2 DEF NoDelete
      <3>3. CASE i # 1
        <4>1. i - 1 \in 1..Len(r) /\ q[i] = r[i - 1] /\ i - 1 < k - 1
          BY <1>c, <3>3
        <4> QED BY <2>2, <3>1, <4>1 DEF OpensAreFresh
      <3> QED BY <3>2, <3>3
    <2> QED BY <2>1, <2>2
  <1>5. OnlyCloses(f, q) <=> OnlyCloses(f, r) /\ (h.file = f => h.type = "close")
    BY <1>0, <1>a, <1>b, <1>c DEF OnlyCloses
  <1>6. Silent(f, q) <=> Silent(f, r) /\ h.file # f
    BY <1>0, <1>a, <1>b, <1>c DEF Silent
  <1> QED BY <1>1, <1>2, <1>3, <1>4, <1>5, <1>6 DEF r, h

\* What the account of the hash of f says then: reading a create event is what
\* brings the hash, reading a delete event what takes it.
LEMMA TailHash ==
    ASSUME NEW f \in Files, NEW q \in Seq(Events), q # <<>>
    PROVE  LET h == Head(q)
               r == Tail(q)
           IN
           /\ Recreated(f, q) <=> \/ h = Ev("create", f) /\ NoDelete(f, r)
                                  \/ Recreated(f, r)
           /\ ServedWithout(f, q) <=>
                  /\ ~NeedsHash(f, h)
                  /\ IF h = Ev("create", f) THEN ServedWith(f, r)
                                            ELSE ServedWithout(f, r)
           /\ ServedWith(f, q) <=>
                  IF h = Ev("delete", f) THEN ServedWithout(f, r)
                                         ELSE ServedWith(f, r)
  <1> DEFINE h == Head(q)
             r == Tail(q)
  <1>0. /\ Len(q) \in Nat /\ Len(r) = Len(q) - 1 /\ Len(r) \in Nat
        /\ q[1] = h
        /\ \A i \in 1..Len(r) : r[i] = q[i + 1]
    BY TailElements
  <1>a. \A i \in 1..Len(r) : i + 1 \in 1..Len(q)
    BY <1>0
  <1>b. 1 \in 1..Len(q)
    BY TailElements
  <1>c. \A i \in 1..Len(q) : i = 1 \/ (i - 1 \in 1..Len(r) /\ q[i] = r[i - 1])
    BY <1>0
  <1> HIDE DEF r, h
  <1> DEFINE Clear(s, n) == \A k \in 1..n : s[k] # Ev("delete", f)
  <1>1. \A n \in 0..Len(r) : Clear(q, n + 1) <=> Clear(r, n) /\ h # Ev("delete", f)
    <2> SUFFICES ASSUME NEW n \in 0..Len(r)
                 PROVE  Clear(q, n + 1) <=> Clear(r, n) /\ h # Ev("delete", f)
      OBVIOUS
    <2>1. \A k \in 1 .. n + 1 : k = 1 \/ (k - 1 \in 1..n /\ q[k] = r[k - 1])
      BY <1>0
    <2>2. \A k \in 1..n : k + 1 \in 1 .. n + 1 /\ r[k] = q[k + 1]
      BY <1>0
    <2>3. 1 \in 1 .. n + 1
      BY <1>0
    <2> QED BY <1>0, <2>1, <2>2, <2>3
  <1>2. \A n \in 0..Len(r) : CreatedIn(f, q, n + 1) <=>
            \/ h = Ev("create", f) /\ Clear(r, n)
            \/ CreatedIn(f, r, n)
    <2> SUFFICES ASSUME NEW n \in 0..Len(r)
                 PROVE  CreatedIn(f, q, n + 1) <=> \/ h = Ev("create", f) /\ Clear(r, n)
                                                   \/ CreatedIn(f, r, n)
      OBVIOUS
    <2>1. ASSUME h = Ev("create", f), Clear(r, n)
          PROVE  CreatedIn(f, q, n + 1)
      <3>1. 1 \in 1 .. n + 1 /\ q[1] = Ev("create", f)
        BY <1>0, <2>1
      <3>2. \A k \in 1 + 1 .. n + 1 : k - 1 \in 1..n /\ k \in 1..Len(q) /\ k # 1
        BY <1>0
      <3>3. \A k \in 1 + 1 .. n + 1 : q[k] # Ev("delete", f)
        BY <1>c, <2>1, <3>2
      <3> QED BY <3>1, <3>3 DEF CreatedIn
    <2>2. ASSUME CreatedIn(f, r, n)
          PROVE  CreatedIn(f, q, n + 1)
      <3>1. PICK j \in 1..n : /\ r[j] = Ev("create", f)
                              /\ \A k \in j + 1 .. n : r[k] # Ev("delete", f)
        BY <2>2 DEF CreatedIn
      <3>2. j + 1 \in 1 .. n + 1 /\ q[j + 1] = Ev("create", f)
        BY <1>0, <3>1
      <3>3. \A k \in j + 1 + 1 .. n + 1 : q[k] # Ev("delete", f)
        <4> SUFFICES ASSUME NEW k \in j + 1 + 1 .. n + 1
                     PROVE  q[k] # Ev("delete", f)
          OBVIOUS
        <4>1. k - 1 \in j + 1 .. n /\ k \in 1..Len(q) /\ k # 1
          BY <1>0
        <4> QED BY <1>c, <3>1, <4>1
      <3> QED BY <3>2, <3>3 DEF CreatedIn
    <2>3. ASSUME CreatedIn(f, q, n + 1)
          PROVE  \/ h = Ev("create", f) /\ Clear(r, n)
                 \/ CreatedIn(f, r, n)
      <3>1. PICK j \in 1 .. n + 1 :
                     /\ q[j] = Ev("create", f)
                     /\ \A k \in j + 1 .. n + 1 : q[k] # Ev("delete", f)
        BY <2>3 DEF CreatedIn
      <3>2. CASE j = 1
        <4>1. \A k \in 1..n : k + 1 \in 1 + 1 .. n + 1 /\ r[k] = q[k + 1]
          BY <1>0
        <4> QED BY <1>0, <3>1, <3>2, <4>1
      <3>3. CASE j # 1
        <4>1. j - 1 \in 1..n /\ r[j - 1] = Ev("create", f)
          BY <1>0, <3>1, <3>3
        <4>2. \A k \in j - 1 + 1 .. n : r[k] # Ev("delete", f)
          <5> SUFFICES ASSUME NEW k \in j - 1 + 1 .. n
                       PROVE  r[k] # Ev("delete", f)
            OBVIOUS
          <5>1. k + 1 \in j + 1 .. n + 1 /\ k \in 1..Len(r)
            BY <1>0
          <5> QED BY <1>0, <3>1, <5>1
        <4> QED BY <4>1, <4>2 DEF CreatedIn
      <3> QED BY <3>2, <3>3
    <2> QED BY <2>1, <2>2, <2>3
  <1>3. Clear(r, Len(r)) <=> NoDelete(f, r)
    BY DEF NoDelete
  <1>4. Len(r) \in 0..Len(r) /\ Len(r) + 1 = Len(q)
    BY <1>0
  <1>5. Recreated(f, q) <=> \/ h = Ev("create", f) /\ NoDelete(f, r)
                            \/ Recreated(f, r)
    BY <1>2, <1>3, <1>4 DEF Recreated
  <1>6. \A i \in 1..Len(r) : i - 1 \in 0..Len(r) /\ (i - 1) + 1 = i /\ (i + 1) - 1 = i
    BY <1>0
  <1>7. ~CreatedIn(f, q, 1 - 1) /\ Clear(q, 1 - 1)
    BY DEF CreatedIn
  <1>8. \A i \in 1..Len(r) :
            /\ CreatedIn(f, q, (i + 1) - 1) <=> \/ h = Ev("create", f) /\ Clear(r, i - 1)
                                                \/ CreatedIn(f, r, i - 1)
            /\ Clear(q, (i + 1) - 1) <=> Clear(r, i - 1) /\ h # Ev("delete", f)
    BY <1>1, <1>2, <1>6
  <1>9. (\A i \in 1..Len(q) : NeedsHash(f, q[i]) => CreatedIn(f, q, i - 1))
           <=> /\ ~NeedsHash(f, h)
               /\ \A i \in 1..Len(r) : NeedsHash(f, r[i]) => CreatedIn(f, q, (i + 1) - 1)
    <2>1. \A i \in 1..Len(r) : i + 1 \in 1..Len(q) /\ r[i] = q[i + 1]
      BY <1>0, <1>a
    <2>2. \A i \in 1..Len(q) : i = 1 \/ (/\ i - 1 \in 1..Len(r)
                                         /\ (i - 1) + 1 = i
                                         /\ q[i] = r[i - 1])
      BY <1>c
    <2> QED BY <1>0, <1>b, <1>7, <2>1, <2>2
  <1>10. (\A i \in 1..Len(q) : NeedsHash(f, q[i]) => Clear(q, i - 1) \/ CreatedIn(f, q, i - 1))
           <=> (\A i \in 1..Len(r) : NeedsHash(f, r[i]) =>
                    Clear(q, (i + 1) - 1) \/ CreatedIn(f, q, (i + 1) - 1))
    <2>1. \A i \in 1..Len(r) : i + 1 \in 1..Len(q) /\ r[i] = q[i + 1]
      BY <1>0, <1>a
    <2>2. \A i \in 1..Len(q) : i = 1 \/ (/\ i - 1 \in 1..Len(r)
                                         /\ (i - 1) + 1 = i
                                         /\ q[i] = r[i - 1])
      BY <1>c
    <2> HIDE DEF Clear
    <2> QED BY <1>0, <1>b, <1>7, <2>1, <2>2
  <1> HIDE DEF Clear
  <1>11. h = Ev("create", f) => h # Ev("delete", f)
    BY DEF Ev
  <1>12. ServedWithout(f, q) <=>
             /\ ~NeedsHash(f, h)
             /\ IF h = Ev("create", f) THEN ServedWith(f, r) ELSE ServedWithout(f, r)
    BY <1>8, <1>9 DEF ServedWith, ServedWithout, Clear
  <1>13. ServedWith(f, q) <=>
             IF h = Ev("delete", f) THEN ServedWithout(f, r) ELSE ServedWith(f, r)
    BY <1>8, <1>10, <1>11 DEF ServedWith, ServedWithout, Clear
  <1> QED BY <1>5, <1>12, <1>13 DEF r, h

-----------------------------------------------------------------------------
(***************************************************************************)
(* What the operations on files do to the views.                           *)
(***************************************************************************)

\* Nothing of f has changed from queue q to queue r.
Unheard(f, q, r) ==
    /\ NoDelete(f, r) <=> NoDelete(f, q)
    /\ OpenPending(f, r) <=> OpenPending(f, q)
    /\ FreshOpen(f, r) <=> FreshOpen(f, q)
    /\ OpensAreFresh(f, r) <=> OpensAreFresh(f, q)
    /\ OnlyCloses(f, r) <=> OnlyCloses(f, q)
    /\ Silent(f, r) <=> Silent(f, q)
    /\ Recreated(f, r) <=> Recreated(f, q)
    /\ ServedWithout(f, r) <=> ServedWithout(f, q)
    /\ ServedWith(f, r) <=> ServedWith(f, q)

\* r is q and events of one opening, or writing, of f.
Used(f, q, r) ==
    /\ NoDelete(f, r) <=> NoDelete(f, q)
    /\ OpensAreFresh(f, r) <=> OpensAreFresh(f, q)
    /\ ~OnlyCloses(f, r) /\ ~Silent(f, r)
    /\ Recreated(f, r) <=> Recreated(f, q)
    /\ ServedWithout(f, r) <=> ServedWithout(f, q) /\ Recreated(f, q)
    /\ ServedWith(f, r) <=> ServedWith(f, q) /\ (NoDelete(f, q) \/ Recreated(f, q))

\* r is q and a modification of f.
Modified(f, q, r) ==
    /\ Used(f, q, r)
    /\ OpenPending(f, r) <=> OpenPending(f, q)
    /\ FreshOpen(f, r) <=> FreshOpen(f, q)

\* r is q and an opening of f, with the events that follow an opening.
Reopened(f, q, r) ==
    /\ Used(f, q, r)
    /\ OpenPending(f, r) /\ FreshOpen(f, r)

\* r is q and the making of f.
Made(f, q, r) ==
    /\ NoDelete(f, r) <=> NoDelete(f, q)
    /\ OpenPending(f, r) /\ FreshOpen(f, r)
    /\ OpensAreFresh(f, r) <=> OpensAreFresh(f, q)
    /\ ~OnlyCloses(f, r) /\ ~Silent(f, r)
    /\ Recreated(f, r)
    /\ ServedWithout(f, r) <=> ServedWithout(f, q)
    /\ ServedWith(f, r) <=> ServedWith(f, q)

\* r is q and the closing of f.
Closed(f, q, r) ==
    /\ NoDelete(f, r) <=> NoDelete(f, q)
    /\ OpenPending(f, r) <=> OpenPending(f, q)
    /\ FreshOpen(f, r) <=> FreshOpen(f, q)
    /\ OpensAreFresh(f, r) <=> OpensAreFresh(f, q)
    /\ OnlyCloses(f, r) <=> OnlyCloses(f, q)
    /\ ~Silent(f, r)
    /\ Recreated(f, r) <=> Recreated(f, q)
    /\ ServedWithout(f, r) <=> ServedWithout(f, q) /\ Recreated(f, q)
    /\ ServedWith(f, r) <=> ServedWith(f, q) /\ (NoDelete(f, q) \/ Recreated(f, q))

\* r is q and the removal of f.
Removed(f, q, r) ==
    /\ ~NoDelete(f, r) /\ ~FreshOpen(f, r) /\ ~Recreated(f, r)
    /\ OpenPending(f, r) <=> OpenPending(f, q)
    /\ OpensAreFresh(f, r) <=> OpensAreFresh(f, q) /\ ~OpenPending(f, q)
    /\ ~OnlyCloses(f, r) /\ ~Silent(f, r)
    /\ ServedWithout(f, r) <=> ServedWithout(f, q)
    /\ ServedWith(f, r) <=> ServedWith(f, q)

\* Events put at the end of a queue one by one.
LEMMA OneByOne ==
    ASSUME NEW q \in Seq(Events), NEW e1 \in Events, NEW e2 \in Events,
           NEW e3 \in Events, NEW e4 \in Events
    PROVE  /\ q \o <<>> = q
           /\ q \o <<e1>> = Append(q, e1)
           /\ q \o <<e1, e2>> = Append(Append(q, e1), e2)
           /\ q \o <<e1, e2, e3>> = Append(Append(Append(q, e1), e2), e3)
           /\ q \o <<e1, e2, e3, e4>> =
                  Append(Append(Append(Append(q, e1), e2), e3), e4)
           /\ q \o (<<e1, e2>> \o <<>> \o <<e4>>) =
                  Append(Append(Append(q, e1), e2), e4)
           /\ q \o (<<e1, e2>> \o <<e3>> \o <<e4>>) =
                  Append(Append(Append(Append(q, e1), e2), e3), e4)
  <1>1. \A r \in Seq(Events) :
            /\ r \o <<>> = r /\ <<>> \o r = r
            /\ r \o <<e1>> = Append(r, e1)
            /\ r \o <<e3>> = Append(r, e3)
            /\ r \o <<e4>> = Append(r, e4)
            /\ r \o <<e1, e2>> = Append(Append(r, e1), e2)
            /\ r \o <<e1, e2, e3>> = Append(Append(Append(r, e1), e2), e3)
            /\ r \o <<e1, e2, e4>> = Append(Append(Append(r, e1), e2), e4)
            /\ r \o <<e1, e2, e3, e4>> = Append(Append(Append(Append(r, e1), e2), e3), e4)
    OBVIOUS
  <1>2. /\ <<>> \in Seq(Events) /\ <<e1, e2>> \in Seq(Events)
        /\ <<e1, e2, e3>> \in Seq(Events) /\ <<e1, e2, e4>> \in Seq(Events)
        /\ <<e1, e2, e3, e4>> \in Seq(Events)
    OBVIOUS
  <1>3. /\ <<e1, e2>> \o <<>> = <<e1, e2>>
        /\ <<e1, e2>> \o <<e3>> = <<e1, e2, e3>>
        /\ <<e1, e2>> \o <<e4>> = <<e1, e2, e4>>
        /\ <<e1, e2, e3>> \o <<e4>> = <<e1, e2, e3, e4>>
    <2>1. /\ <<e1, e2>> = Append(Append(<<>>, e1), e2)
          /\ <<e1, e2, e3>> = Append(Append(Append(<<>>, e1), e2), e3)
          /\ <<e1, e2, e4>> = Append(Append(Append(<<>>, e1), e2), e4)
          /\ <<e1, e2, e3, e4>> = Append(Append(Append(Append(<<>>, e1), e2), e3), e4)
      BY <1>1, <1>2, Zenon
    <2> QED BY <1>1, <1>2, <2>1, Zenon
  <1> QED BY <1>1, <1>3

\* The events of the operations on f, put at the end of a queue.
LEMMA OwnEventsAppended ==
    ASSUME NEW f \in Files, NEW q \in Seq(Events)
    PROVE  /\ \A type \in EventTypes : q \o <<Ev(type, f)>> = Append(q, Ev(type, f))
           /\ disk[f] = None => q \o ReadEvents(f) = q
           /\ disk[f] # None => q \o ReadEvents(f) =
                  Append(Append(q, Ev("open", f)), Ev("close", f))
           /\ \A content :
                /\ disk[f] # None => q \o RewriteEvents(f, content) =
                     Append(Append(Append(q, Ev("open", f)), Ev("modify", f)), Ev("close", f))
                /\ disk[f] = None /\ content = Empty => q \o RewriteEvents(f, content) =
                     Append(Append(Append(q, Ev("create", f)), Ev("open", f)), Ev("close", f))
                /\ disk[f] = None /\ content # Empty => q \o RewriteEvents(f, content) =
                     Append(Append(Append(Append(q, Ev("create", f)), Ev("open", f)),
                                   Ev("modify", f)), Ev("close", f))
  <1>1. \A type \in EventTypes : Ev(type, f) \in Events
    BY EventsType
  <1>2. /\ Ev("create", f) \in Events /\ Ev("open", f) \in Events
        /\ Ev("modify", f) \in Events /\ Ev("close", f) \in Events
    BY <1>1 DEF EventTypes
  <1>3. \A type \in EventTypes : q \o <<Ev(type, f)>> = Append(q, Ev(type, f))
    BY <1>1, <1>2, OneByOne
  <1>4. /\ disk[f] = None => q \o ReadEvents(f) = q
        /\ disk[f] # None => q \o ReadEvents(f) =
               Append(Append(q, Ev("open", f)), Ev("close", f))
    BY <1>2, OneByOne DEF ReadEvents
  <1>5. ASSUME NEW content
        PROVE  /\ disk[f] # None => q \o RewriteEvents(f, content) =
                     Append(Append(Append(q, Ev("open", f)), Ev("modify", f)), Ev("close", f))
               /\ disk[f] = None /\ content = Empty => q \o RewriteEvents(f, content) =
                     Append(Append(Append(q, Ev("create", f)), Ev("open", f)), Ev("close", f))
               /\ disk[f] = None /\ content # Empty => q \o RewriteEvents(f, content) =
                     Append(Append(Append(Append(q, Ev("create", f)), Ev("open", f)),
                                   Ev("modify", f)), Ev("close", f))
    <2>1. CASE disk[f] # None
      BY <1>2, <2>1, OneByOne DEF RewriteEvents
    <2>2. CASE disk[f] = None /\ content = Empty
      BY <1>2, <2>2, OneByOne DEF RewriteEvents
    <2>3. CASE disk[f] = None /\ content # Empty
      BY <1>2, <2>3, OneByOne DEF RewriteEvents
    <2> QED BY <2>1, <2>2, <2>3
  <1> QED BY <1>3, <1>4, <1>5

\* What they tell the handler of f.
LEMMA OwnEventsViews ==
    ASSUME NEW f \in Files, NEW q \in Seq(Events)
    PROVE  /\ Reopened(f, q, q \o <<Ev("open", f)>>)
           /\ Modified(f, q, q \o <<Ev("modify", f)>>)
           /\ Closed(f, q, q \o <<Ev("close", f)>>)
           /\ Removed(f, q, q \o <<Ev("delete", f)>>)
           /\ disk[f] # None => Reopened(f, q, q \o ReadEvents(f))
           /\ \A content :
                  /\ disk[f] # None => Reopened(f, q, q \o RewriteEvents(f, content))
                  /\ disk[f] = None => Made(f, q, q \o RewriteEvents(f, content))
  <1> DEFINE c == Ev("create", f)
             o == Ev("open", f)
             m == Ev("modify", f)
             x == Ev("close", f)
             d == Ev("delete", f)
  <1>0. c \in Events /\ o \in Events /\ m \in Events /\ x \in Events /\ d \in Events
    BY EventsType DEF EventTypes
  <1>1. /\ c.file = f /\ o.file = f /\ m.file = f /\ x.file = f /\ d.file = f
        /\ o.type # "close" /\ c.type # "close" /\ m.type # "close" /\ x.type = "close"
        /\ d.type # "close"
        /\ NeedsHash(f, o) /\ NeedsHash(f, m) /\ NeedsHash(f, x)
        /\ ~NeedsHash(f, c) /\ ~NeedsHash(f, d)
        /\ c # d /\ c # o /\ o # d /\ m # d /\ x # d /\ m # o /\ m # c /\ x # o /\ x # c
        /\ d # o /\ d # c /\ o # c
    BY DEF Ev, NeedsHash
  <1>2. \A type \in EventTypes : q \o <<Ev(type, f)>> = Append(q, Ev(type, f))
    BY OwnEventsAppended
  <1>3. /\ q \o <<o>> = Append(q, o) /\ q \o <<m>> = Append(q, m)
        /\ q \o <<x>> = Append(q, x) /\ q \o <<d>> = Append(q, d)
    BY <1>2 DEF EventTypes
  <1> HIDE DEF c, o, m, x, d
  <1>4. ASSUME NEW r \in Seq(Events)
        PROVE  /\ Append(r, c) \in Seq(Events) /\ Append(r, o) \in Seq(Events)
               /\ Append(r, m) \in Seq(Events)
               /\ Reopened(f, r, Append(r, o))
               /\ Modified(f, r, Append(r, m))
               /\ Closed(f, r, Append(r, x))
               /\ Removed(f, r, Append(r, d))
    <2>1. /\ Append(r, c) \in Seq(Events) /\ Append(r, o) \in Seq(Events)
          /\ Append(r, m) \in Seq(Events)
      BY <1>0
    <2>2. Reopened(f, r, Append(r, o))
      BY <1>0, <1>1, AppendViews, AppendHash DEF Reopened, Used, o, c, d
    <2>3. Modified(f, r, Append(r, m))
      BY <1>0, <1>1, AppendViews, AppendHash DEF Modified, Used, o, c, d
    <2>4. Closed(f, r, Append(r, x))
      BY <1>0, <1>1, AppendViews, AppendHash DEF Closed, o, c, d
    <2>5. Removed(f, r, Append(r, d))
      BY <1>0, <1>1, AppendViews, AppendHash DEF Removed, o, c, d
    <2> QED BY <2>1, <2>2, <2>3, <2>4, <2>5
  <1>5. disk[f] # None => Reopened(f, q, q \o ReadEvents(f))
    <2>1. Reopened(f, q, Append(q, o))
      BY <1>4
    <2>2. Closed(f, Append(q, o), Append(Append(q, o), x))
      BY <1>4
    <2>3. Reopened(f, q, Append(Append(q, o), x))
      BY <2>1, <2>2 DEF Reopened, Used, Closed
    <2> QED BY <2>3, OwnEventsAppended DEF o, x
  <1>6. ASSUME NEW content, disk[f] # None
        PROVE  Reopened(f, q, q \o RewriteEvents(f, content))
    <2> DEFINE q1 == Append(q, o)
               q2 == Append(q1, m)
    <2>1. Reopened(f, q, q1) /\ Modified(f, q1, q2) /\ Closed(f, q2, Append(q2, x))
      BY <1>4
    <2>2. Reopened(f, q, Append(q2, x))
      BY <2>1 DEF Reopened, Modified, Used, Closed
    <2> QED BY <1>6, <2>2, OwnEventsAppended DEF o, m, x
  <1>7. ASSUME NEW content, disk[f] = None
        PROVE  Made(f, q, q \o RewriteEvents(f, content))
    <2> DEFINE q1 == Append(q, c)
               q2 == Append(q1, o)
               q3 == Append(q2, m)
    <2>1. q1 \in Seq(Events) /\ q2 \in Seq(Events) /\ q3 \in Seq(Events)
      BY <1>4
    <2>2. /\ NoDelete(f, q1) <=> NoDelete(f, q)
          /\ OpensAreFresh(f, q1) <=> OpensAreFresh(f, q)
          /\ Recreated(f, q1)
          /\ ServedWithout(f, q1) <=> ServedWithout(f, q)
          /\ ServedWith(f, q1) <=> ServedWith(f, q)
      BY <1>0, <1>1, AppendViews, AppendHash DEF c, o, d
    <2> HIDE DEF q1
    <2>3. Reopened(f, q1, q2)
      BY <1>4, <2>1
    <2> HIDE DEF q2
    <2>4. Modified(f, q2, q3) /\ Closed(f, q2, Append(q2, x))
      BY <1>4, <2>1
    <2> HIDE DEF q3
    <2>5. Closed(f, q3, Append(q3, x))
      BY <1>4, <2>1
    <2>6. Made(f, q, Append(q2, x))
      BY <2>2, <2>3, <2>4 DEF Reopened, Used, Closed, Made
    <2>7. Made(f, q, Append(q3, x))
      BY <2>2, <2>3, <2>4, <2>5 DEF Reopened, Modified, Used, Closed, Made
    <2>8. CASE content = Empty
      BY <1>7, <2>6, <2>8, OwnEventsAppended DEF q2, q1, o, c, x
    <2>9. CASE content # Empty
      BY <1>7, <2>7, <2>9, OwnEventsAppended DEF q3, q2, q1, o, c, x, m
    <2> QED BY <2>8, <2>9
  <1> QED BY <1>3, <1>4, <1>5, <1>6, <1>7 DEF o, m, x, d

\* They tell nothing of another file.
LEMMA OthersUnheard ==
    ASSUME NEW f \in Files, NEW g \in Files, f # g, NEW q \in Seq(Events)
    PROVE  /\ \A type \in EventTypes : Unheard(f, q, q \o <<Ev(type, g)>>)
           /\ Unheard(f, q, q \o ReadEvents(g))
           /\ \A content : Unheard(f, q, q \o RewriteEvents(g, content))
           /\ Unheard(f, q, q)
  <1>1. ASSUME NEW r \in Seq(Events), NEW type \in EventTypes
        PROVE  /\ Append(r, Ev(type, g)) \in Seq(Events)
               /\ Unheard(f, r, Append(r, Ev(type, g)))
    <2> DEFINE e == Ev(type, g)
    <2>1. e \in Events
      BY EventsType
    <2>2. /\ e.file # f /\ ~NeedsHash(f, e)
          /\ e # Ev("delete", f) /\ e # Ev("open", f) /\ e # Ev("create", f)
      BY DEF Ev, NeedsHash
    <2>3. Append(r, e) \in Seq(Events)
      BY <2>1
    <2> HIDE DEF e
    <2>4. Unheard(f, r, Append(r, e))
      BY <2>1, <2>2, AppendViews, AppendHash DEF Unheard
    <2> QED BY <2>3, <2>4 DEF e
  <1>2. \A r1, r2, r3 : Unheard(f, r1, r2) /\ Unheard(f, r2, r3) => Unheard(f, r1, r3)
    BY DEF Unheard
  <1>3. Unheard(f, q, q)
    BY DEF Unheard
  <1> DEFINE A(r, type) == Append(r, Ev(type, g))
  <1>4. \A r \in Seq(Events) :
            Unheard(f, q, r) =>
                \A type \in {"create", "open", "modify", "close"} :
                    A(r, type) \in Seq(Events) /\ Unheard(f, q, A(r, type))
    BY <1>1, <1>2 DEF EventTypes
  <1> HIDE DEF A
  <1>5. \A type \in EventTypes : Unheard(f, q, q \o <<Ev(type, g)>>)
    BY <1>1, OwnEventsAppended
  <1>6. Unheard(f, q, A(A(q, "open"), "close"))
    BY <1>3, <1>4
  <1>7. Unheard(f, q, A(A(A(q, "open"), "modify"), "close"))
    BY <1>3, <1>4
  <1>8. Unheard(f, q, A(A(A(q, "create"), "open"), "close"))
    BY <1>3, <1>4
  <1>9. Unheard(f, q, A(A(A(A(q, "create"), "open"), "modify"), "close"))
    <2>1. /\ A(A(A(q, "create"), "open"), "modify") \in Seq(Events)
          /\ Unheard(f, q, A(A(A(q, "create"), "open"), "modify"))
      BY <1>3, <1>4
    <2> QED BY <1>4, <2>1
  <1>10. Unheard(f, q, q \o ReadEvents(g))
    BY <1>3, <1>6, OwnEventsAppended DEF A
  <1>11. \A content : Unheard(f, q, q \o RewriteEvents(g, content))
    BY <1>7, <1>8, <1>9, OwnEventsAppended DEF A
  <1> QED BY <1>3, <1>5, <1>10, <1>11

\* Nor does reading an event of another file.
LEMMA OthersRead ==
    ASSUME NEW f \in Files, NEW q \in Seq(Events), q # <<>>, Head(q).file # f
    PROVE  Unheard(f, q, Tail(q))
  <1>1. /\ ~NeedsHash(f, Head(q))
        /\ Head(q) # Ev("delete", f) /\ Head(q) # Ev("open", f) /\ Head(q) # Ev("create", f)
    BY DEF Ev, NeedsHash
  <1> QED BY <1>1, TailViews, TailHash DEF Unheard

-----------------------------------------------------------------------------
(***************************************************************************)
(* Steps that do not touch a file.                                         *)
(***************************************************************************)

\* The step changes nothing that the invariant says of f.
Untouched(f) ==
    /\ disk'[f] = disk[f] /\ bucket'[f] = bucket[f] /\ db'[f] = db[f]
    /\ truth'[f] = truth[f] /\ opened'[f] = opened[f]
    /\ Moving(f)' = Moving(f) /\ Handling(f)' = Handling(f)
    /\ Stopped' <=> Stopped
    /\ ToDemote(f)' <=> ToDemote(f)
    /\ ToPromote(f)' <=> ToPromote(f)
    /\ ToDemote(f) \/ ToPromote(f) => todo'[f] = todo[f]
    /\ Handling(f) # "off" => UNCHANGED <<hremote, hgot>>
    /\ Moving(f) # "off" => UNCHANGED mgot
    /\ Unheard(f, queue, queue')

LEMMA UntouchedKeeps ==
    ASSUME NEW f \in Files, FileInv(f), Untouched(f)
    PROVE  FileInv(f)'
  <1> USE DEF Untouched, Unheard
  <1>1. (HashIsWhole(f) /\ HandlerHasHash(f) /\ Somewhere(f))'
    BY DEF FileInv, HashIsWhole, HandlerHasHash, Somewhere
  <1>2. /\ HashStands(f)' <=> HashStands(f)
        /\ Current(f)' <=> Current(f)
        /\ Fetchable(f)' <=> Fetchable(f)
    BY DEF HashStands, Current, Fetchable
  <1>3. HashIffFile(f)'
    BY <1>2 DEF FileInv, HashIffFile, EventsServed, WillStand
  <1>4. DiskHolds(f)'
    BY <1>2 DEF FileInv, DiskHolds
  <1>5. ColdLeads(f)'
    BY <1>2 DEF FileInv, ColdLeads
  <1>6. ColdIsFresh(f)'
    BY DEF FileInv, ColdIsFresh
  <1>7. LocalIsTrue(f)'
    BY <1>2 DEF FileInv, LocalIsTrue
  <1>8. MarkIsTrue(f)'
    BY DEF FileInv, MarkIsTrue
  <1>9. Recall(f)'
    BY <1>2 DEF FileInv, Recall
  <1>10. Demotion1(f)'
    BY DEF FileInv, Demotion1
  <1>11. Demotion2(f)'
    BY <1>2 DEF FileInv, Demotion2
  <1>12. Promotion1(f)'
    BY <1>2 DEF FileInv, Promotion1
  <1>13. OpenIsRecent(f)'
    BY <1>2 DEF FileInv, OpenIsRecent
  <1> QED
    BY <1>1, <1>3, <1>4, <1>5, <1>6, <1>7, <1>8, <1>9, <1>10, <1>11, <1>12,
       <1>13 DEF FileInv

-----------------------------------------------------------------------------
(***************************************************************************)
(* What the calls on a hash that is there leave of it.                     *)
(***************************************************************************)

\* d has the name of e, and is a hash as well.
SameHash(e, d) == d.form = "made" /\ d.fileName = e.fileName

LEMMA SettersFields ==
    ASSUME NEW e \in Entries, e.form = "made"
    PROVE  /\ \A uri : LET d == SetRemoteURI(e, uri) IN
                 /\ SameHash(e, d) /\ SetterReturns(d) /\ d.remoteURI = uri
                 /\ d.isLocal = e.isLocal /\ d.isMetadata = e.isMetadata
                 /\ d.isOpen = e.isOpen /\ d.lastModified = "recent"
           /\ \A flag : LET d == SetIsMetadata(e, flag) IN
                 /\ SameHash(e, d) /\ SetterReturns(d) /\ d.remoteURI = e.remoteURI
                 /\ d.isLocal = e.isLocal /\ d.isMetadata = flag
                 /\ d.isOpen = e.isOpen /\ d.lastModified = "recent"
           /\ \A flag : LET d == SetIsLocal(e, flag) IN
                 /\ SameHash(e, d) /\ SetterReturns(d) /\ d.remoteURI = e.remoteURI
                 /\ d.isLocal = flag /\ d.isMetadata = e.isMetadata
                 /\ d.isOpen = e.isOpen /\ d.lastModified = e.lastModified
           /\ \A flag : LET d == SetIsOpen(e, flag) IN
                 /\ SameHash(e, d) /\ SetterReturns(d) /\ d.remoteURI = e.remoteURI
                 /\ d.isLocal = e.isLocal /\ d.isMetadata = e.isMetadata
                 /\ d.isOpen = flag /\ d.lastModified = e.lastModified
           /\ \A age : LET d == SetLastTimeModified(e, age) IN
                 /\ SameHash(e, d) /\ SetterReturns(d) /\ d.remoteURI = e.remoteURI
                 /\ d.isLocal = e.isLocal /\ d.isMetadata = e.isMetadata
                 /\ d.isOpen = e.isOpen /\ d.lastModified = age
           /\ \A d \in {SetFileSize(e), IncrementTimesAccessed(e)} :
                 /\ SameHash(e, d) /\ SetterReturns(d) /\ d.remoteURI = e.remoteURI
                 /\ d.isLocal = e.isLocal /\ d.isMetadata = e.isMetadata
                 /\ d.isOpen = e.isOpen /\ d.lastModified = "recent"
           /\ LET d == Aged(e) IN
                 /\ SameHash(e, d) /\ d.remoteURI = e.remoteURI
                 /\ d.isLocal = e.isLocal /\ d.isMetadata = e.isMetadata
                 /\ d.isOpen = e.isOpen
                 /\ d.lastModified = IF e.lastModified = "recent" THEN "old"
                                                                ELSE e.lastModified
  BY DEF Entries, SameHash, SetterReturns, Kept, SetRemoteURI, SetIsMetadata,
         SetIsLocal, SetIsOpen, SetLastTimeModified, SetFileSize,
         IncrementTimesAccessed, Aged

\* A migrator's setter that keeps the hash whole.
LEMMA SetFields ==
    ASSUME IInv, cur \in Files, NEW e \in Entries, SetterReturns(e),
           NEW next, Set(e, next)
    PROVE  /\ db'[cur] = e /\ mpc' = next
           /\ \A f \in Files \ {cur} : db'[f] = db[f]
           /\ UNCHANGED <<disk, bucket, queue, opened, hpc, mgot>>
  BY DEF Set, IInv, TypeOK

\* Nothing waits in an empty queue.
LEMMA EmptyViews ==
    ASSUME NEW f
    PROVE  LET q == <<>> IN
           /\ NoDelete(f, q) /\ ~OpenPending(f, q) /\ ~FreshOpen(f, q)
           /\ OpensAreFresh(f, q) /\ OnlyCloses(f, q) /\ Silent(f, q)
           /\ ~Recreated(f, q) /\ ServedWith(f, q) /\ ServedWithout(f, q)
  BY DEF NoDelete, OpenPending, FreshOpen, OpensAreFresh, OnlyCloses, Silent,
         Recreated, CreatedIn, ServedWith, ServedWithout

\* Passing a file over leaves it as it was.
LEMMA SkipDemotionSafe ==
    ASSUME Calm, IInv, SafetyInv, UNCHANGED <<handlerVars, truth>>,
           NEW f \in Files, SkipDemotion(f)
    PROVE  FileInv(f)'
  <1>1. /\ FileInv(f) /\ f # None
        /\ truth[f] # Empty /\ Empty # None
        /\ UNCHANGED <<hfile, hremote, hgot, truth>>
    BY NamesAssumption, ContentsAssumption DEF SafetyInv, handlerVars, IInv,
       TypeOK
  <1>2. /\ mpc = "demote" /\ mpc' = mpc /\ cur = None /\ cur' = None /\ todo'[f] = NoEntry
        /\ UNCHANGED <<disk, bucket, db, queue, opened, hpc, mgot>>
    BY <1>1 DEF SkipDemotion, SafetyInv, ProcessInv, worldVars, IInv, TypeOK
  <1>3. /\ Moving(f) = "off" /\ Moving(f)' = "off" /\ Handling(f)' = Handling(f)
        /\ ~ToDemote(f)' /\ ~ToPromote(f) /\ ~ToPromote(f)' /\ ~Stopped /\ ~Stopped'
    BY <1>1, <1>2 DEF Moving, Handling, ToDemote, ToPromote, Stopped,
       DemotionSteps, PromotionSteps
  <1>4. HashIsWhole(f)'
    BY <1>1, <1>2, <1>3 DEF FileInv, HashIsWhole, Whole
  <1>5. HandlerHasHash(f)'
    BY <1>1, <1>2, <1>3 DEF FileInv, HandlerHasHash, OpenSteps
  <1>6. HashIffFile(f)'
    BY <1>1, <1>2, <1>3 DEF FileInv, HashIffFile, EventsServed, WillStand,
       HashStands
  <1>7. DiskHolds(f)'
    BY <1>1, <1>2, <1>3 DEF FileInv, DiskHolds, Current
  <1>8. Somewhere(f)'
    BY <1>1, <1>2, <1>3 DEF FileInv, Somewhere
  <1>9. ColdLeads(f)'
    BY <1>1, <1>2, <1>3 DEF FileInv, ColdLeads, Current, Fetchable
  <1>10. ColdIsFresh(f)'
    BY <1>1, <1>2, <1>3 DEF FileInv, ColdIsFresh, RecallSteps
  <1>11. LocalIsTrue(f)'
    BY <1>1, <1>2, <1>3 DEF FileInv, LocalIsTrue, Current
  <1>12. MarkIsTrue(f)'
    BY <1>1, <1>2, <1>3 DEF FileInv, MarkIsTrue
  <1>13. Recall(f)'
    BY <1>1, <1>2, <1>3 DEF FileInv, Recall, Fetchable
  <1>14. Demotion1(f)'
    BY <1>1, <1>2, <1>3 DEF FileInv, Demotion1, Whole
  <1>15. Demotion2(f)'
    BY <1>1, <1>2, <1>3 DEF FileInv, Demotion2, Current, RecallSteps
  <1>16. Promotion1(f)'
    BY <1>1, <1>2, <1>3 DEF FileInv, Promotion1, Whole, Fetchable, Current
  <1>17. OpenIsRecent(f)'
    BY <1>1, <1>2, <1>3 DEF FileInv, OpenIsRecent, Current, OpenSteps,
       RecallSteps
  <1> QED
    BY <1>4, <1>5, <1>6, <1>7, <1>8, <1>9, <1>10, <1>11, <1>12, <1>13, <1>14,
     <1>15, <1>16, <1>17 DEF FileInv

\* A file that is picked for demotion is local, whole, at rest and closed: the
\* list was made when the handler was idle, and quiet users keep off it.
LEMMA PickDemotionSafe ==
    ASSUME Calm, IInv, SafetyInv, UNCHANGED <<handlerVars, truth>>,
           NEW f \in Files, PickDemotion(f)
    PROVE  FileInv(f)'
  <1>1. /\ FileInv(f) /\ f # None
        /\ truth[f] # Empty /\ Empty # None
        /\ UNCHANGED <<hfile, hremote, hgot, truth>>
    BY NamesAssumption, ContentsAssumption DEF SafetyInv, handlerVars, IInv,
       TypeOK
  <1>2. /\ mpc = "demote" /\ mpc' \in {"link", "upload"} /\ cur = None /\ cur' = f
        /\ todo[f] # NoEntry /\ todo[f].lastModified # "recent"
        /\ mpc' = "upload" => todo[f].remoteURI # None
        /\ UNCHANGED <<disk, bucket, db, queue, opened, hpc, mgot, todo>>
    BY <1>1 DEF PickDemotion, SafetyInv, ProcessInv, worldVars, IInv, TypeOK,
       TooYoung
  <1>3. /\ Moving(f) = "off" /\ Moving(f)' = mpc' /\ Handling(f)' = Handling(f)
        /\ ToDemote(f) /\ ToDemote(f)' /\ ~ToPromote(f) /\ ~ToPromote(f)' /\ ~Stopped /\ ~Stopped'
    BY <1>1, <1>2 DEF Moving, Handling, ToDemote, ToPromote, Stopped,
       DemotionSteps, PromotionSteps
  <1>4. HashIsWhole(f)'
    BY <1>1, <1>2, <1>3 DEF FileInv, HashIsWhole, Whole
  <1>5. HandlerHasHash(f)'
    BY <1>1, <1>2, <1>3 DEF FileInv, HandlerHasHash, OpenSteps
  <1>6. HashIffFile(f)'
    BY <1>1, <1>2, <1>3 DEF FileInv, HashIffFile, EventsServed, WillStand,
       HashStands
  <1>7. DiskHolds(f)'
    BY <1>1, <1>2, <1>3 DEF FileInv, DiskHolds, Current
  <1>8. Somewhere(f)'
    BY <1>1, <1>2, <1>3 DEF FileInv, Somewhere
  <1>9. ColdLeads(f)'
    BY <1>1, <1>2, <1>3 DEF FileInv, ColdLeads, Current, Fetchable
  <1>10. ColdIsFresh(f)'
    BY <1>1, <1>2, <1>3 DEF FileInv, ColdIsFresh, RecallSteps
  <1>11. LocalIsTrue(f)'
    BY <1>1, <1>2, <1>3 DEF FileInv, LocalIsTrue, Current
  <1>12. MarkIsTrue(f)'
    BY <1>1, <1>2, <1>3 DEF FileInv, MarkIsTrue
  <1>13. Recall(f)'
    BY <1>1, <1>2, <1>3 DEF FileInv, Recall, Fetchable
  <1>14. Demotion1(f)'
    BY <1>1, <1>2, <1>3 DEF FileInv, Demotion1, Promotion1, DiskHolds,
       HashIsWhole, HandlerHasHash, ColdIsFresh, Somewhere, LocalIsTrue,
       HashIffFile, ColdLeads, MarkIsTrue, Recall, Demotion2, OpenIsRecent,
       Whole, Fetchable, Current, OpenSteps, RecallSteps, EventsServed,
       WillStand, HashStands
  <1>15. Demotion2(f)'
    BY <1>1, <1>2, <1>3 DEF FileInv, Demotion2, Current, RecallSteps
  <1>16. Promotion1(f)'
    BY <1>1, <1>2, <1>3 DEF FileInv, Promotion1, Whole, Fetchable, Current
  <1>17. OpenIsRecent(f)'
    BY <1>1, <1>2, <1>3 DEF FileInv, OpenIsRecent, Current, OpenSteps,
       RecallSteps
  <1> QED
    BY <1>4, <1>5, <1>6, <1>7, <1>8, <1>9, <1>10, <1>11, <1>12, <1>13, <1>14,
     <1>15, <1>16, <1>17 DEF FileInv

\* So is a file that is picked for promotion, but for being cold.
LEMMA PickPromotionSafe ==
    ASSUME Calm, IInv, SafetyInv, UNCHANGED <<handlerVars, truth>>,
           NEW f \in Files, PickPromotion(f)
    PROVE  FileInv(f)'
  <1>1. /\ FileInv(f) /\ f # None
        /\ truth[f] # Empty /\ Empty # None
        /\ UNCHANGED <<hfile, hremote, hgot, truth>>
    BY NamesAssumption, ContentsAssumption DEF SafetyInv, handlerVars, IInv,
       TypeOK
  <1>2. /\ mpc = "promote" /\ mpc' = "get" /\ cur = None /\ cur' = f /\ todo[f] # NoEntry
        /\ UNCHANGED <<disk, bucket, db, queue, opened, hpc, mgot, todo>>
    BY <1>1 DEF PickPromotion, SafetyInv, ProcessInv, worldVars, IInv, TypeOK
  <1>3. /\ Moving(f) = "off" /\ Moving(f)' = "get" /\ Handling(f)' = Handling(f)
        /\ ToPromote(f) /\ ToPromote(f)' /\ ~ToDemote(f) /\ ~ToDemote(f)' /\ ~Stopped /\ ~Stopped'
    BY <1>1, <1>2 DEF Moving, Handling, ToDemote, ToPromote, Stopped,
       DemotionSteps, PromotionSteps
  <1>4. HashIsWhole(f)'
    BY <1>1, <1>2, <1>3 DEF FileInv, HashIsWhole, Whole
  <1>5. HandlerHasHash(f)'
    BY <1>1, <1>2, <1>3 DEF FileInv, HandlerHasHash, OpenSteps
  <1>6. HashIffFile(f)'
    BY <1>1, <1>2, <1>3 DEF FileInv, HashIffFile, EventsServed, WillStand,
       HashStands
  <1>7. DiskHolds(f)'
    BY <1>1, <1>2, <1>3 DEF FileInv, DiskHolds, Current
  <1>8. Somewhere(f)'
    BY <1>1, <1>2, <1>3 DEF FileInv, Somewhere
  <1>9. ColdLeads(f)'
    BY <1>1, <1>2, <1>3 DEF FileInv, ColdLeads, Current, Fetchable
  <1>10. ColdIsFresh(f)'
    BY <1>1, <1>2, <1>3 DEF FileInv, ColdIsFresh, RecallSteps
  <1>11. LocalIsTrue(f)'
    BY <1>1, <1>2, <1>3 DEF FileInv, LocalIsTrue, Current
  <1>12. MarkIsTrue(f)'
    BY <1>1, <1>2, <1>3 DEF FileInv, MarkIsTrue
  <1>13. Recall(f)'
    BY <1>1, <1>2, <1>3 DEF FileInv, Recall, Fetchable
  <1>14. Demotion1(f)'
    BY <1>1, <1>2, <1>3 DEF FileInv, Demotion1, Whole
  <1>15. Demotion2(f)'
    BY <1>1, <1>2, <1>3 DEF FileInv, Demotion2, Current, RecallSteps
  <1>16. Promotion1(f)'
    BY <1>1, <1>2, <1>3 DEF FileInv, Promotion1, Whole, Fetchable, Current
  <1>17. OpenIsRecent(f)'
    BY <1>1, <1>2, <1>3 DEF FileInv, OpenIsRecent, Current, OpenSteps,
       RecallSteps
  <1> QED
    BY <1>4, <1>5, <1>6, <1>7, <1>8, <1>9, <1>10, <1>11, <1>12, <1>13, <1>14,
     <1>15, <1>16, <1>17 DEF FileInv

\* The object of a file gets the name of the file.
LEMMA LinkRemoteSafe ==
    ASSUME Calm, IInv, SafetyInv, UNCHANGED <<handlerVars, truth>>,
           NEW f \in Files, f = cur, LinkRemote
    PROVE  FileInv(f)'
  <1>1. /\ FileInv(f) /\ cur = f /\ f # None /\ todo[f] # NoEntry /\ mpc = "link"
        /\ db[f] \in Entries /\ todo[f] \in Entries
        /\ truth[f] # Empty /\ Empty # None
        /\ UNCHANGED <<hfile, hremote, hgot, truth>>
    BY NamesAssumption, ContentsAssumption DEF SafetyInv, ProcessInv,
       handlerVars, LinkRemote, IInv, TypeOK
  <1>2. Demotion1(f) /\ Demotion2(f) /\ ToDemote(f) /\ Moving(f) = "link"
    BY <1>1 DEF FileInv, ToDemote, Moving, DemotionSteps
  <1>3. db[f].form = "made" /\ Whole(db[f], f) /\ Whole(todo[f], f)
    BY <1>1, <1>2 DEF FileInv, HashIsWhole, NoEntry, Demotion1, Demotion2,
       Current
  <1>4. /\ SetRemoteURI(db[f], todo[f].fileName) \in Entries
        /\ SetterReturns(SetRemoteURI(db[f], todo[f].fileName))
    BY <1>1, <1>2, <1>3, SettersType, SettersFields DEF Whole, Flag, Entries
  <1>5. /\ db'[f] = SetRemoteURI(db[f], todo[f].fileName) /\ mpc' = "upload"
        /\ UNCHANGED <<disk, bucket, queue, opened, hpc, mgot>>
    BY <1>1, <1>2, <1>3, <1>4, SetFields DEF LinkRemote
  <1>6. /\ todo'[f] # NoEntry /\ cur' = f
        /\ todo'[f].form = "made" /\ todo'[f].fileName = f /\ todo'[f].remoteURI = f
        /\ todo'[f].isLocal = todo[f].isLocal /\ todo'[f].isMetadata = todo[f].isMetadata
        /\ todo'[f].isOpen = todo[f].isOpen /\ todo'[f].lastModified = todo[f].lastModified
    BY <1>1, <1>2, <1>3, <1>4, <1>5 DEF LinkRemote, Finish, IInv, TypeOK,
       Entries, NoEntry, Whole
  <1>7. /\ db'[f].form = "made" /\ db'[f].fileName = db[f].fileName
        /\ db'[f].remoteURI = f /\ db'[f].isLocal = db[f].isLocal
        /\ db'[f].isMetadata = db[f].isMetadata /\ db'[f].isOpen = db[f].isOpen
        /\ db'[f].lastModified = "recent"
    BY <1>1, <1>2, <1>3, <1>4, <1>5, <1>6, SettersFields DEF SameHash, Whole
  <1>8. /\ Moving(f) = "link" /\ Moving(f)' = "upload" /\ Handling(f)' = Handling(f)
        /\ ToDemote(f) /\ ToDemote(f)' /\ ~ToPromote(f) /\ ~ToPromote(f)' /\ ~Stopped /\ ~Stopped'
    BY <1>1, <1>2, <1>3, <1>4, <1>5, <1>6, <1>7 DEF Moving, Handling, ToDemote,
       ToPromote, Stopped, DemotionSteps, PromotionSteps
  <1>9. HashIsWhole(f)'
    BY <1>1, <1>2, <1>3, <1>4, <1>5, <1>6, <1>7, <1>8 DEF FileInv, HashIsWhole,
       Whole, Ages, Flag, NoEntry
  <1>10. HandlerHasHash(f)'
    BY <1>1, <1>2, <1>3, <1>4, <1>5, <1>6, <1>7, <1>8 DEF FileInv,
       HandlerHasHash, Demotion1, Demotion2, OpenSteps, Whole, Current,
       RecallSteps, Ages, Flag, NoEntry
  <1>11. HashIffFile(f)'
    BY <1>1, <1>2, <1>3, <1>4, <1>5, <1>6, <1>7, <1>8 DEF FileInv, HashIffFile,
       EventsServed, WillStand, HashStands, Whole, Ages, Flag, NoEntry
  <1>12. DiskHolds(f)'
    BY <1>1, <1>2, <1>3, <1>4, <1>5, <1>6, <1>7, <1>8 DEF FileInv, DiskHolds,
       Current, Whole, Ages, Flag, NoEntry
  <1>13. Somewhere(f)'
    BY <1>1, <1>2, <1>3, <1>4, <1>5, <1>6, <1>7, <1>8 DEF FileInv, Somewhere,
       Whole, Ages, Flag, NoEntry
  <1>14. ColdLeads(f)'
    BY <1>1, <1>2, <1>3, <1>4, <1>5, <1>6, <1>7, <1>8 DEF FileInv, ColdLeads,
       Current, Fetchable, Whole, Ages, Flag, NoEntry
  <1>15. ColdIsFresh(f)'
    BY <1>1, <1>2, <1>3, <1>4, <1>5, <1>6, <1>7, <1>8 DEF FileInv, ColdIsFresh,
       RecallSteps, Whole, Ages, Flag, NoEntry
  <1>16. LocalIsTrue(f)'
    BY <1>1, <1>2, <1>3, <1>4, <1>5, <1>6, <1>7, <1>8 DEF FileInv, LocalIsTrue,
       Current, Whole, Ages, Flag, NoEntry
  <1>17. MarkIsTrue(f)'
    BY <1>1, <1>2, <1>3, <1>4, <1>5, <1>6, <1>7, <1>8 DEF FileInv, MarkIsTrue,
       Whole, Ages, Flag, NoEntry
  <1>18. Recall(f)'
    BY <1>1, <1>2, <1>3, <1>4, <1>5, <1>6, <1>7, <1>8 DEF FileInv, Recall,
       Fetchable, Whole, Ages, Flag, NoEntry
  <1>19. Demotion1(f)'
    BY <1>1, <1>2, <1>3, <1>4, <1>5, <1>6, <1>7, <1>8 DEF FileInv, Demotion1,
       Whole, Ages, Flag, NoEntry
  <1>20. Demotion2(f)'
    BY <1>1, <1>2, <1>3, <1>4, <1>5, <1>6, <1>7, <1>8 DEF FileInv, Demotion2,
       Current, RecallSteps, Whole, Ages, Flag, NoEntry
  <1>21. Promotion1(f)'
    BY <1>1, <1>2, <1>3, <1>4, <1>5, <1>6, <1>7, <1>8 DEF FileInv, Promotion1,
       Whole, Fetchable, Current, Ages, Flag, NoEntry
  <1>22. OpenIsRecent(f)'
    BY <1>1, <1>2, <1>3, <1>4, <1>5, <1>6, <1>7, <1>8 DEF FileInv,
       OpenIsRecent, Current, OpenSteps, RecallSteps, Whole, Ages, Flag,
       NoEntry
  <1> QED
    BY <1>9, <1>10, <1>11, <1>12, <1>13, <1>14, <1>15, <1>16, <1>17, <1>18,
     <1>19, <1>20, <1>21, <1>22 DEF FileInv

\* The upload copies what users last wrote, and is heard as one more reading of
\* the file.
LEMMA UploadSafe ==
    ASSUME Calm, IInv, SafetyInv, UNCHANGED <<handlerVars, truth>>,
           NEW f \in Files, f = cur, Upload
    PROVE  FileInv(f)'
  <1>1. /\ FileInv(f) /\ cur = f /\ f # None /\ todo[f] # NoEntry /\ mpc = "upload"
        /\ db[f] \in Entries /\ todo[f] \in Entries
        /\ truth[f] # Empty /\ Empty # None
        /\ UNCHANGED <<hfile, hremote, hgot, truth>>
    BY NamesAssumption, ContentsAssumption DEF SafetyInv, ProcessInv,
       handlerVars, Upload, IInv, TypeOK
  <1>2. Demotion1(f) /\ Demotion2(f) /\ ToDemote(f) /\ Moving(f) = "upload"
    BY <1>1 DEF FileInv, ToDemote, Moving, DemotionSteps
  <1>3. disk[f] # None /\ todo[f].remoteURI = f
    BY <1>1, <1>2 DEF Demotion1
  <1>4. /\ bucket'[f] = disk[f] /\ mpc' = "remove" /\ cur' = f
        /\ UNCHANGED <<disk, db, opened, hpc, todo, mgot>>
    BY <1>1, <1>2, <1>3 DEF Upload, IInv, TypeOK
  <1>5. Reopened(f, queue, queue')
    BY <1>1, <1>2, <1>3, <1>4, OwnEventsViews DEF Upload, Notify, SafetyInv,
       ProcessInv, IInv, TypeOK
  <1>6. OnlyCloses(f, queue) => NoDelete(f, queue)
    BY <1>1, <1>2, <1>3, <1>4, <1>5 DEF OnlyCloses, NoDelete, Ev
  <1>7. /\ Moving(f) = "upload" /\ Moving(f)' = "remove" /\ Handling(f)' = Handling(f)
        /\ ToDemote(f) /\ ToDemote(f)' /\ ~ToPromote(f) /\ ~ToPromote(f)' /\ ~Stopped /\ ~Stopped'
    BY <1>1, <1>2, <1>3, <1>4, <1>5, <1>6 DEF Moving, Handling, ToDemote,
       ToPromote, Stopped, DemotionSteps, PromotionSteps
  <1>8. HashIsWhole(f)'
    BY <1>1, <1>2, <1>3, <1>4, <1>5, <1>6, <1>7 DEF FileInv, HashIsWhole,
       Whole, Reopened, Used
  <1>9. HandlerHasHash(f)'
    BY <1>1, <1>2, <1>3, <1>4, <1>5, <1>6, <1>7 DEF FileInv, HandlerHasHash,
       OpenSteps, Reopened, Used
  <1>10. HashIffFile(f)'
    BY <1>1, <1>2, <1>3, <1>4, <1>5, <1>6, <1>7 DEF FileInv, HashIffFile,
       EventsServed, WillStand, HashStands, Reopened, Used
  <1>11. DiskHolds(f)'
    BY <1>1, <1>2, <1>3, <1>4, <1>5, <1>6, <1>7 DEF FileInv, DiskHolds,
       Current, Reopened, Used
  <1>12. Somewhere(f)'
    BY <1>1, <1>2, <1>3, <1>4, <1>5, <1>6, <1>7 DEF FileInv, Somewhere,
       Demotion1, Demotion2, Whole, Current, RecallSteps, Reopened, Used
  <1>13. ColdLeads(f)'
    BY <1>1, <1>2, <1>3, <1>4, <1>5, <1>6, <1>7 DEF FileInv, ColdLeads,
       Demotion1, Demotion2, Current, Fetchable, Whole, RecallSteps, Reopened,
       Used
  <1>14. ColdIsFresh(f)'
    BY <1>1, <1>2, <1>3, <1>4, <1>5, <1>6, <1>7 DEF FileInv, ColdIsFresh,
       RecallSteps, Reopened, Used
  <1>15. LocalIsTrue(f)'
    BY <1>1, <1>2, <1>3, <1>4, <1>5, <1>6, <1>7 DEF FileInv, LocalIsTrue,
       Current, Reopened, Used
  <1>16. MarkIsTrue(f)'
    BY <1>1, <1>2, <1>3, <1>4, <1>5, <1>6, <1>7 DEF FileInv, MarkIsTrue,
       Reopened, Used
  <1>17. Recall(f)'
    BY <1>1, <1>2, <1>3, <1>4, <1>5, <1>6, <1>7 DEF FileInv, Recall, Demotion1,
       Demotion2, Fetchable, Whole, Current, RecallSteps, Reopened, Used
  <1>18. Demotion1(f)'
    BY <1>1, <1>2, <1>3, <1>4, <1>5, <1>6, <1>7 DEF FileInv, Demotion1, Whole,
       Reopened, Used
  <1>19. Demotion2(f)'
    BY <1>1, <1>2, <1>3, <1>4, <1>5, <1>6, <1>7 DEF FileInv, Demotion2,
       Demotion1, Current, RecallSteps, Whole, Reopened, Used
  <1>20. Promotion1(f)'
    BY <1>1, <1>2, <1>3, <1>4, <1>5, <1>6, <1>7 DEF FileInv, Promotion1, Whole,
       Fetchable, Current, Reopened, Used
  <1>21. OpenIsRecent(f)'
    BY <1>1, <1>2, <1>3, <1>4, <1>5, <1>6, <1>7 DEF FileInv, OpenIsRecent,
       Current, OpenSteps, RecallSteps, Reopened, Used
  <1> QED
    BY <1>8, <1>9, <1>10, <1>11, <1>12, <1>13, <1>14, <1>15, <1>16, <1>17, <1>18,
     <1>19, <1>20, <1>21 DEF FileInv

\* The removal takes a file whose content is in its object.
LEMMA RemoveSafe ==
    ASSUME Calm, IInv, SafetyInv, UNCHANGED <<handlerVars, truth>>,
           NEW f \in Files, f = cur, Remove
    PROVE  FileInv(f)'
  <1>1. /\ FileInv(f) /\ cur = f /\ f # None /\ todo[f] # NoEntry /\ mpc = "remove"
        /\ db[f] \in Entries /\ todo[f] \in Entries
        /\ truth[f] # Empty /\ Empty # None
        /\ UNCHANGED <<hfile, hremote, hgot, truth>>
    BY NamesAssumption, ContentsAssumption DEF SafetyInv, ProcessInv,
       handlerVars, Remove, IInv, TypeOK
  <1>2. Demotion1(f) /\ Demotion2(f) /\ ToDemote(f) /\ Moving(f) = "remove"
    BY <1>1 DEF FileInv, ToDemote, Moving, DemotionSteps
  <1>3. disk[f] # None
    BY <1>1, <1>2 DEF Demotion2
  <1>4. /\ disk'[f] = None /\ mpc' = "record" /\ cur' = f
        /\ opened'[f] = IF opened[f] = "yes" THEN "orphan" ELSE opened[f]
        /\ UNCHANGED <<bucket, db, hpc, todo, mgot>>
    BY <1>1, <1>2, <1>3 DEF Remove, IInv, TypeOK
  <1>5. Removed(f, queue, queue')
    BY <1>1, <1>2, <1>3, <1>4, OwnEventsViews DEF Remove, Notify, SafetyInv,
       ProcessInv, IInv, TypeOK
  <1>6. /\ Moving(f) = "remove" /\ Moving(f)' = "record" /\ Handling(f)' = Handling(f)
        /\ ToDemote(f) /\ ToDemote(f)' /\ ~ToPromote(f) /\ ~ToPromote(f)' /\ ~Stopped /\ ~Stopped'
    BY <1>1, <1>2, <1>3, <1>4, <1>5 DEF Moving, Handling, ToDemote, ToPromote,
       Stopped, DemotionSteps, PromotionSteps
  <1>7. HashIsWhole(f)'
    BY <1>1, <1>2, <1>3, <1>4, <1>5, <1>6 DEF FileInv, HashIsWhole, Whole,
       Removed
  <1>8. HandlerHasHash(f)'
    BY <1>1, <1>2, <1>3, <1>4, <1>5, <1>6 DEF FileInv, HandlerHasHash,
       OpenSteps, Removed
  <1>9. HashIffFile(f)'
    BY <1>1, <1>2, <1>3, <1>4, <1>5, <1>6 DEF FileInv, HashIffFile,
       EventsServed, WillStand, HashStands, Removed
  <1>10. DiskHolds(f)'
    BY <1>1, <1>2, <1>3, <1>4, <1>5, <1>6 DEF FileInv, DiskHolds, Demotion1,
       Demotion2, Current, Whole, RecallSteps, Removed
  <1>11. Somewhere(f)'
    BY <1>1, <1>2, <1>3, <1>4, <1>5, <1>6 DEF FileInv, Somewhere, Demotion1,
       Demotion2, Whole, Current, RecallSteps, Removed
  <1>12. ColdLeads(f)'
    BY <1>1, <1>2, <1>3, <1>4, <1>5, <1>6 DEF FileInv, ColdLeads, Current,
       Fetchable, Removed
  <1>13. ColdIsFresh(f)'
    BY <1>1, <1>2, <1>3, <1>4, <1>5, <1>6 DEF FileInv, ColdIsFresh, Demotion1,
       Demotion2, RecallSteps, Whole, Current, Removed
  <1>14. LocalIsTrue(f)'
    BY <1>1, <1>2, <1>3, <1>4, <1>5, <1>6 DEF FileInv, LocalIsTrue, Current,
       Removed
  <1>15. MarkIsTrue(f)'
    BY <1>1, <1>2, <1>3, <1>4, <1>5, <1>6 DEF FileInv, MarkIsTrue, Removed
  <1>16. Recall(f)'
    BY <1>1, <1>2, <1>3, <1>4, <1>5, <1>6 DEF FileInv, Recall, Demotion1,
       Demotion2, Fetchable, Whole, Current, RecallSteps, Removed
  <1>17. Demotion1(f)'
    BY <1>1, <1>2, <1>3, <1>4, <1>5, <1>6 DEF FileInv, Demotion1, Whole,
       Removed
  <1>18. Demotion2(f)'
    BY <1>1, <1>2, <1>3, <1>4, <1>5, <1>6 DEF FileInv, Demotion2, Current,
       RecallSteps, Removed
  <1>19. Promotion1(f)'
    BY <1>1, <1>2, <1>3, <1>4, <1>5, <1>6 DEF FileInv, Promotion1, Whole,
       Fetchable, Current, Removed
  <1>20. OpenIsRecent(f)'
    BY <1>1, <1>2, <1>3, <1>4, <1>5, <1>6 DEF FileInv, OpenIsRecent, Demotion1,
       Demotion2, Current, OpenSteps, RecallSteps, Whole, Removed
  <1> QED
    BY <1>7, <1>8, <1>9, <1>10, <1>11, <1>12, <1>13, <1>14, <1>15, <1>16, <1>17,
     <1>18, <1>19, <1>20 DEF FileInv

\* After the sleep the handler has erased the hash; it is written anew as the
\* scan found it, with the name of the object.
LEMMA RecordSafe ==
    ASSUME Calm, IInv, SafetyInv, UNCHANGED <<handlerVars, truth>>,
           NEW f \in Files, f = cur, Record
    PROVE  FileInv(f)'
  <1>1. /\ FileInv(f) /\ cur = f /\ f # None /\ todo[f] # NoEntry /\ mpc = "record"
        /\ db[f] \in Entries /\ todo[f] \in Entries
        /\ truth[f] # Empty /\ Empty # None
        /\ UNCHANGED <<hfile, hremote, hgot, truth>>
    BY NamesAssumption, ContentsAssumption DEF SafetyInv, ProcessInv,
       handlerVars, Record, IInv, TypeOK
  <1>2. Demotion1(f) /\ Demotion2(f) /\ ToDemote(f) /\ Moving(f) = "record"
    BY <1>1 DEF FileInv, ToDemote, Moving, DemotionSteps
  <1>3. hpc = "idle" /\ queue = <<>>
    BY <1>1, <1>2 DEF Record, Slept, HandlerIdle, Calm, SafetyInv, ProcessInv
  <1>4. /\ NoDelete(f, queue) /\ ~OpenPending(f, queue) /\ ~FreshOpen(f, queue)
        /\ OpensAreFresh(f, queue) /\ OnlyCloses(f, queue) /\ Silent(f, queue)
        /\ ~Recreated(f, queue) /\ ServedWith(f, queue) /\ ServedWithout(f, queue)
    BY <1>1, <1>2, <1>3, EmptyViews
  <1>5. Handling(f) = "off"
    BY <1>1, <1>2, <1>3, <1>4 DEF SafetyInv, ProcessInv, Handling
  <1>6. /\ db'[f] = HMSET(db[f], todo[f]) /\ mpc' = "markMeta" /\ cur' = f
        /\ UNCHANGED <<disk, bucket, queue, opened, hpc, todo, mgot>>
    BY <1>1, <1>2, <1>3, <1>4, <1>5 DEF Record, IInv, TypeOK
  <1>7. db[f] = NoEntry /\ Whole(todo[f], f)
    BY <1>1, <1>2, <1>3, <1>4, <1>5, <1>6 DEF FileInv, HashIsWhole, Whole,
       Demotion1, Demotion2, HashIffFile, WillStand, HashStands, Handling,
       Stopped, SafetyInv, ProcessInv
  <1>8. /\ db'[f].form = "made" /\ db'[f].fileName = f
        /\ db'[f].remoteURI = f /\ db'[f].isLocal = 1 /\ db'[f].isMetadata = 0
        /\ db'[f].isOpen = todo[f].isOpen /\ db'[f].lastModified = todo[f].lastModified
    BY <1>1, <1>2, <1>3, <1>4, <1>5, <1>6, <1>7 DEF HMSET, Entries, NoEntry,
       Whole, Demotion1
  <1>9. /\ Moving(f) = "record" /\ Moving(f)' = "markMeta" /\ Handling(f)' = Handling(f)
        /\ ToDemote(f) /\ ToDemote(f)' /\ ~ToPromote(f) /\ ~ToPromote(f)' /\ ~Stopped /\ ~Stopped'
    BY <1>1, <1>2, <1>3, <1>4, <1>5, <1>6, <1>7, <1>8 DEF Moving, Handling,
       ToDemote, ToPromote, Stopped, DemotionSteps, PromotionSteps
  <1>10. HashIsWhole(f)'
    BY <1>1, <1>2, <1>3, <1>4, <1>5, <1>6, <1>7, <1>8, <1>9 DEF FileInv,
       HashIsWhole, Whole, Ages, Flag
  <1>11. HandlerHasHash(f)'
    BY <1>1, <1>2, <1>3, <1>4, <1>5, <1>6, <1>7, <1>8, <1>9 DEF FileInv,
       HandlerHasHash, OpenSteps, Whole, Ages, Flag
  <1>12. HashIffFile(f)'
    BY <1>1, <1>2, <1>3, <1>4, <1>5, <1>6, <1>7, <1>8, <1>9 DEF FileInv,
       HashIffFile, EventsServed, WillStand, HashStands, Whole, Ages, Flag
  <1>13. DiskHolds(f)'
    BY <1>1, <1>2, <1>3, <1>4, <1>5, <1>6, <1>7, <1>8, <1>9 DEF FileInv,
       DiskHolds, Demotion1, Demotion2, Current, Whole, RecallSteps, Ages, Flag
  <1>14. Somewhere(f)'
    BY <1>1, <1>2, <1>3, <1>4, <1>5, <1>6, <1>7, <1>8, <1>9 DEF FileInv,
       Somewhere, Whole, Ages, Flag
  <1>15. ColdLeads(f)'
    BY <1>1, <1>2, <1>3, <1>4, <1>5, <1>6, <1>7, <1>8, <1>9 DEF FileInv,
       ColdLeads, Current, Fetchable, Whole, Ages, Flag
  <1>16. ColdIsFresh(f)'
    BY <1>1, <1>2, <1>3, <1>4, <1>5, <1>6, <1>7, <1>8, <1>9 DEF FileInv,
       ColdIsFresh, RecallSteps, Whole, Ages, Flag
  <1>17. LocalIsTrue(f)'
    BY <1>1, <1>2, <1>3, <1>4, <1>5, <1>6, <1>7, <1>8, <1>9 DEF FileInv,
       LocalIsTrue, Current, Whole, Ages, Flag
  <1>18. MarkIsTrue(f)'
    BY <1>1, <1>2, <1>3, <1>4, <1>5, <1>6, <1>7, <1>8, <1>9 DEF FileInv,
       MarkIsTrue, Whole, Ages, Flag
  <1>19. Recall(f)'
    BY <1>1, <1>2, <1>3, <1>4, <1>5, <1>6, <1>7, <1>8, <1>9 DEF FileInv,
       Recall, Fetchable, Whole, Ages, Flag
  <1>20. Demotion1(f)'
    BY <1>1, <1>2, <1>3, <1>4, <1>5, <1>6, <1>7, <1>8, <1>9 DEF FileInv,
       Demotion1, Whole, Ages, Flag
  <1>21. Demotion2(f)'
    BY <1>1, <1>2, <1>3, <1>4, <1>5, <1>6, <1>7, <1>8, <1>9 DEF FileInv,
       Demotion2, Current, RecallSteps, Whole, Ages, Flag
  <1>22. Promotion1(f)'
    BY <1>1, <1>2, <1>3, <1>4, <1>5, <1>6, <1>7, <1>8, <1>9 DEF FileInv,
       Promotion1, Whole, Fetchable, Current, Ages, Flag
  <1>23. OpenIsRecent(f)'
    BY <1>1, <1>2, <1>3, <1>4, <1>5, <1>6, <1>7, <1>8, <1>9 DEF FileInv,
       OpenIsRecent, Demotion1, Demotion2, Current, OpenSteps, RecallSteps,
       Whole, Ages, Flag
  <1> QED
    BY <1>10, <1>11, <1>12, <1>13, <1>14, <1>15, <1>16, <1>17, <1>18, <1>19,
     <1>20, <1>21, <1>22, <1>23 DEF FileInv

\* The mark goes on the hash of a file that is not there; nothing else happens
\* to it.
LEMMA MarkMetaSafe ==
    ASSUME Calm, IInv, SafetyInv, UNCHANGED <<handlerVars, truth>>,
           NEW f \in Files, f = cur, MarkMeta
    PROVE  FileInv(f)'
  <1>1. /\ FileInv(f) /\ cur = f /\ f # None /\ todo[f] # NoEntry /\ mpc = "markMeta"
        /\ db[f] \in Entries /\ todo[f] \in Entries
        /\ truth[f] # Empty /\ Empty # None
        /\ UNCHANGED <<hfile, hremote, hgot, truth>>
    BY NamesAssumption, ContentsAssumption DEF SafetyInv, ProcessInv,
       handlerVars, MarkMeta, IInv, TypeOK
  <1>2. Demotion1(f) /\ Demotion2(f) /\ ToDemote(f) /\ Moving(f) = "markMeta"
    BY <1>1 DEF FileInv, ToDemote, Moving, DemotionSteps
  <1>3. hpc = "idle" /\ queue = <<>>
    BY <1>1, <1>2 DEF MarkMeta, Slept, HandlerIdle, Calm, SafetyInv, ProcessInv
  <1>4. /\ NoDelete(f, queue) /\ ~OpenPending(f, queue) /\ ~FreshOpen(f, queue)
        /\ OpensAreFresh(f, queue) /\ OnlyCloses(f, queue) /\ Silent(f, queue)
        /\ ~Recreated(f, queue) /\ ServedWith(f, queue) /\ ServedWithout(f, queue)
    BY <1>1, <1>2, <1>3, EmptyViews
  <1>5. Handling(f) = "off"
    BY <1>1, <1>2, <1>3, <1>4 DEF SafetyInv, ProcessInv, Handling
  <1>6. db[f].form = "made" /\ Whole(db[f], f) /\ Whole(todo[f], f)
    BY <1>1, <1>2, <1>3, <1>4, <1>5 DEF FileInv, HashIsWhole, NoEntry,
       Demotion1, Demotion2, Current
  <1>7. /\ SetIsMetadata(db[f], 1) \in Entries
        /\ SetterReturns(SetIsMetadata(db[f], 1))
    BY <1>1, <1>2, <1>3, <1>4, <1>5, <1>6, SettersType, SettersFields DEF
       Whole, Flag, Entries
  <1>8. /\ db'[f] = SetIsMetadata(db[f], 1) /\ mpc' = "stub"
        /\ UNCHANGED <<disk, bucket, queue, opened, hpc, mgot>>
    BY <1>1, <1>2, <1>3, <1>4, <1>5, <1>6, <1>7, SetFields DEF MarkMeta
  <1>9. UNCHANGED <<todo, cur>>
    BY <1>1, <1>2, <1>3, <1>4, <1>5, <1>6, <1>7, <1>8 DEF MarkMeta, Finish,
       IInv, TypeOK
  <1>10. /\ db'[f].form = "made" /\ db'[f].fileName = db[f].fileName
         /\ db'[f].remoteURI = db[f].remoteURI /\ db'[f].isLocal = db[f].isLocal
         /\ db'[f].isMetadata = 1 /\ db'[f].isOpen = db[f].isOpen
         /\ db'[f].lastModified = "recent"
    BY <1>1, <1>2, <1>3, <1>4, <1>5, <1>6, <1>7, <1>8, <1>9, SettersFields DEF
       SameHash
  <1>11. /\ Moving(f) = "markMeta" /\ Moving(f)' = "stub" /\ Handling(f)' = Handling(f)
         /\ ToDemote(f) /\ ToDemote(f)' /\ ~ToPromote(f) /\ ~ToPromote(f)' /\ ~Stopped /\ ~Stopped'
    BY <1>1, <1>2, <1>3, <1>4, <1>5, <1>6, <1>7, <1>8, <1>9, <1>10 DEF Moving,
       Handling, ToDemote, ToPromote, Stopped, DemotionSteps, PromotionSteps
  <1>12. HashIsWhole(f)'
    BY <1>1, <1>2, <1>3, <1>4, <1>5, <1>6, <1>7, <1>8, <1>9, <1>10, <1>11 DEF
       FileInv, HashIsWhole, Whole, Ages, Flag, NoEntry
  <1>13. HandlerHasHash(f)'
    BY <1>1, <1>2, <1>3, <1>4, <1>5, <1>6, <1>7, <1>8, <1>9, <1>10, <1>11 DEF
       FileInv, HandlerHasHash, OpenSteps, Whole, Ages, Flag, NoEntry
  <1>14. HashIffFile(f)'
    BY <1>1, <1>2, <1>3, <1>4, <1>5, <1>6, <1>7, <1>8, <1>9, <1>10, <1>11 DEF
       FileInv, HashIffFile, EventsServed, WillStand, HashStands, Whole, Ages,
       Flag, NoEntry
  <1>15. DiskHolds(f)'
    BY <1>1, <1>2, <1>3, <1>4, <1>5, <1>6, <1>7, <1>8, <1>9, <1>10, <1>11 DEF
       FileInv, DiskHolds, Current, Whole, Ages, Flag, NoEntry
  <1>16. Somewhere(f)'
    BY <1>1, <1>2, <1>3, <1>4, <1>5, <1>6, <1>7, <1>8, <1>9, <1>10, <1>11 DEF
       FileInv, Somewhere, Whole, Ages, Flag, NoEntry
  <1>17. ColdLeads(f)'
    BY <1>1, <1>2, <1>3, <1>4, <1>5, <1>6, <1>7, <1>8, <1>9, <1>10, <1>11 DEF
       FileInv, ColdLeads, Current, Fetchable, Whole, Ages, Flag, NoEntry
  <1>18. ColdIsFresh(f)'
    BY <1>1, <1>2, <1>3, <1>4, <1>5, <1>6, <1>7, <1>8, <1>9, <1>10, <1>11 DEF
       FileInv, ColdIsFresh, RecallSteps, Whole, Ages, Flag, NoEntry
  <1>19. LocalIsTrue(f)'
    BY <1>1, <1>2, <1>3, <1>4, <1>5, <1>6, <1>7, <1>8, <1>9, <1>10, <1>11 DEF
       FileInv, LocalIsTrue, Current, Whole, Ages, Flag, NoEntry
  <1>20. MarkIsTrue(f)'
    BY <1>1, <1>2, <1>3, <1>4, <1>5, <1>6, <1>7, <1>8, <1>9, <1>10, <1>11 DEF
       FileInv, MarkIsTrue, Whole, Ages, Flag, NoEntry
  <1>21. Recall(f)'
    BY <1>1, <1>2, <1>3, <1>4, <1>5, <1>6, <1>7, <1>8, <1>9, <1>10, <1>11 DEF
       FileInv, Recall, Fetchable, Whole, Ages, Flag, NoEntry
  <1>22. Demotion1(f)'
    BY <1>1, <1>2, <1>3, <1>4, <1>5, <1>6, <1>7, <1>8, <1>9, <1>10, <1>11 DEF
       FileInv, Demotion1, Whole, Ages, Flag, NoEntry
  <1>23. Demotion2(f)'
    BY <1>1, <1>2, <1>3, <1>4, <1>5, <1>6, <1>7, <1>8, <1>9, <1>10, <1>11 DEF
       FileInv, Demotion2, Current, RecallSteps, Whole, Ages, Flag, NoEntry
  <1>24. Promotion1(f)'
    BY <1>1, <1>2, <1>3, <1>4, <1>5, <1>6, <1>7, <1>8, <1>9, <1>10, <1>11 DEF
       FileInv, Promotion1, Whole, Fetchable, Current, Ages, Flag, NoEntry
  <1>25. OpenIsRecent(f)'
    BY <1>1, <1>2, <1>3, <1>4, <1>5, <1>6, <1>7, <1>8, <1>9, <1>10, <1>11 DEF
       FileInv, OpenIsRecent, Current, OpenSteps, RecallSteps, Whole, Ages,
       Flag, NoEntry
  <1> QED
    BY <1>12, <1>13, <1>14, <1>15, <1>16, <1>17, <1>18, <1>19, <1>20, <1>21,
     <1>22, <1>23, <1>24, <1>25 DEF FileInv

\* The placeholder is heard as the making of a file, which has a hash already.
LEMMA StubSafe ==
    ASSUME Calm, IInv, SafetyInv, UNCHANGED <<handlerVars, truth>>,
           NEW f \in Files, f = cur, Stub
    PROVE  FileInv(f)'
  <1>1. /\ FileInv(f) /\ cur = f /\ f # None /\ todo[f] # NoEntry /\ mpc = "stub"
        /\ db[f] \in Entries /\ todo[f] \in Entries
        /\ truth[f] # Empty /\ Empty # None
        /\ UNCHANGED <<hfile, hremote, hgot, truth>>
    BY NamesAssumption, ContentsAssumption DEF SafetyInv, ProcessInv,
       handlerVars, Stub, IInv, TypeOK
  <1>2. Demotion1(f) /\ Demotion2(f) /\ ToDemote(f) /\ Moving(f) = "stub"
    BY <1>1 DEF FileInv, ToDemote, Moving, DemotionSteps
  <1>3. hpc = "idle" /\ queue = <<>>
    BY <1>1, <1>2 DEF Stub, Slept, HandlerIdle, Calm, SafetyInv, ProcessInv
  <1>4. /\ NoDelete(f, queue) /\ ~OpenPending(f, queue) /\ ~FreshOpen(f, queue)
        /\ OpensAreFresh(f, queue) /\ OnlyCloses(f, queue) /\ Silent(f, queue)
        /\ ~Recreated(f, queue) /\ ServedWith(f, queue) /\ ServedWithout(f, queue)
    BY <1>1, <1>2, <1>3, EmptyViews
  <1>5. Handling(f) = "off"
    BY <1>1, <1>2, <1>3, <1>4 DEF SafetyInv, ProcessInv, Handling
  <1>6. disk[f] = None
    BY <1>1, <1>2, <1>3, <1>4, <1>5 DEF Demotion2
  <1>7. /\ disk'[f] = Empty /\ mpc' = "markCold" /\ cur' = f
        /\ UNCHANGED <<bucket, db, opened, hpc, todo, mgot>>
    BY <1>1, <1>2, <1>3, <1>4, <1>5, <1>6 DEF Stub, IInv, TypeOK
  <1>8. Made(f, queue, queue')
    BY <1>1, <1>2, <1>3, <1>4, <1>5, <1>6, <1>7, OwnEventsViews DEF Stub,
       Notify, SafetyInv, ProcessInv, IInv, TypeOK
  <1>9. /\ Moving(f) = "stub" /\ Moving(f)' = "markCold" /\ Handling(f)' = Handling(f)
        /\ ToDemote(f) /\ ToDemote(f)' /\ ~ToPromote(f) /\ ~ToPromote(f)' /\ ~Stopped /\ ~Stopped'
    BY <1>1, <1>2, <1>3, <1>4, <1>5, <1>6, <1>7, <1>8 DEF Moving, Handling,
       ToDemote, ToPromote, Stopped, DemotionSteps, PromotionSteps
  <1>10. HashIsWhole(f)'
    BY <1>1, <1>2, <1>3, <1>4, <1>5, <1>6, <1>7, <1>8, <1>9 DEF FileInv,
       HashIsWhole, Whole, Made
  <1>11. HandlerHasHash(f)'
    BY <1>1, <1>2, <1>3, <1>4, <1>5, <1>6, <1>7, <1>8, <1>9 DEF FileInv,
       HandlerHasHash, OpenSteps, Made
  <1>12. HashIffFile(f)'
    BY <1>1, <1>2, <1>3, <1>4, <1>5, <1>6, <1>7, <1>8, <1>9 DEF FileInv,
       HashIffFile, Demotion1, Demotion2, DiskHolds, HashIsWhole,
       HandlerHasHash, ColdIsFresh, Somewhere, LocalIsTrue, EventsServed,
       WillStand, HashStands, Whole, Current, RecallSteps, OpenSteps, Made
  <1>13. DiskHolds(f)'
    BY <1>1, <1>2, <1>3, <1>4, <1>5, <1>6, <1>7, <1>8, <1>9 DEF FileInv,
       DiskHolds, Demotion1, Demotion2, Current, Whole, RecallSteps, Made
  <1>14. Somewhere(f)'
    BY <1>1, <1>2, <1>3, <1>4, <1>5, <1>6, <1>7, <1>8, <1>9 DEF FileInv,
       Somewhere, Made
  <1>15. ColdLeads(f)'
    BY <1>1, <1>2, <1>3, <1>4, <1>5, <1>6, <1>7, <1>8, <1>9 DEF FileInv,
       ColdLeads, Current, Fetchable, Made
  <1>16. ColdIsFresh(f)'
    BY <1>1, <1>2, <1>3, <1>4, <1>5, <1>6, <1>7, <1>8, <1>9 DEF FileInv,
       ColdIsFresh, RecallSteps, Made
  <1>17. LocalIsTrue(f)'
    BY <1>1, <1>2, <1>3, <1>4, <1>5, <1>6, <1>7, <1>8, <1>9 DEF FileInv,
       LocalIsTrue, Current, Made
  <1>18. MarkIsTrue(f)'
    BY <1>1, <1>2, <1>3, <1>4, <1>5, <1>6, <1>7, <1>8, <1>9 DEF FileInv,
       MarkIsTrue, Made
  <1>19. Recall(f)'
    BY <1>1, <1>2, <1>3, <1>4, <1>5, <1>6, <1>7, <1>8, <1>9 DEF FileInv,
       Recall, Fetchable, Made
  <1>20. Demotion1(f)'
    BY <1>1, <1>2, <1>3, <1>4, <1>5, <1>6, <1>7, <1>8, <1>9 DEF FileInv,
       Demotion1, Whole, Made
  <1>21. Demotion2(f)'
    BY <1>1, <1>2, <1>3, <1>4, <1>5, <1>6, <1>7, <1>8, <1>9 DEF FileInv,
       Demotion2, Current, RecallSteps, Made
  <1>22. Promotion1(f)'
    BY <1>1, <1>2, <1>3, <1>4, <1>5, <1>6, <1>7, <1>8, <1>9 DEF FileInv,
       Promotion1, Whole, Fetchable, Current, Made
  <1>23. OpenIsRecent(f)'
    BY <1>1, <1>2, <1>3, <1>4, <1>5, <1>6, <1>7, <1>8, <1>9 DEF FileInv,
       OpenIsRecent, Current, OpenSteps, RecallSteps, Made
  <1> QED
    BY <1>10, <1>11, <1>12, <1>13, <1>14, <1>15, <1>16, <1>17, <1>18, <1>19,
     <1>20, <1>21, <1>22, <1>23 DEF FileInv

\* From here on the hash says cold, and leads to the object.
LEMMA MarkColdSafe ==
    ASSUME Calm, IInv, SafetyInv, UNCHANGED <<handlerVars, truth>>,
           NEW f \in Files, f = cur, MarkCold
    PROVE  FileInv(f)'
  <1>1. /\ FileInv(f) /\ cur = f /\ f # None /\ todo[f] # NoEntry /\ mpc = "markCold"
        /\ db[f] \in Entries /\ todo[f] \in Entries
        /\ truth[f] # Empty /\ Empty # None
        /\ UNCHANGED <<hfile, hremote, hgot, truth>>
    BY NamesAssumption, ContentsAssumption DEF SafetyInv, ProcessInv,
       handlerVars, MarkCold, IInv, TypeOK
  <1>2. Demotion1(f) /\ Demotion2(f) /\ ToDemote(f) /\ Moving(f) = "markCold"
    BY <1>1 DEF FileInv, ToDemote, Moving, DemotionSteps
  <1>3. hpc = "idle" /\ queue = <<>>
    BY <1>1, <1>2 DEF MarkCold, Slept, HandlerIdle, Calm, SafetyInv, ProcessInv
  <1>4. /\ NoDelete(f, queue) /\ ~OpenPending(f, queue) /\ ~FreshOpen(f, queue)
        /\ OpensAreFresh(f, queue) /\ OnlyCloses(f, queue) /\ Silent(f, queue)
        /\ ~Recreated(f, queue) /\ ServedWith(f, queue) /\ ServedWithout(f, queue)
    BY <1>1, <1>2, <1>3, EmptyViews
  <1>5. Handling(f) = "off"
    BY <1>1, <1>2, <1>3, <1>4 DEF SafetyInv, ProcessInv, Handling
  <1>6. db[f].form = "made" /\ Whole(db[f], f) /\ Whole(todo[f], f)
    BY <1>1, <1>2, <1>3, <1>4, <1>5 DEF FileInv, HashIsWhole, NoEntry,
       Demotion1, Demotion2, Current
  <1>7. /\ SetIsLocal(db[f], 0) \in Entries
        /\ SetterReturns(SetIsLocal(db[f], 0))
    BY <1>1, <1>2, <1>3, <1>4, <1>5, <1>6, SettersType, SettersFields DEF
       Whole, Flag, Entries
  <1>8. /\ db'[f] = SetIsLocal(db[f], 0) /\ mpc' = "restore"
        /\ UNCHANGED <<disk, bucket, queue, opened, hpc, mgot>>
    BY <1>1, <1>2, <1>3, <1>4, <1>5, <1>6, <1>7, SetFields DEF MarkCold
  <1>9. UNCHANGED <<todo, cur>>
    BY <1>1, <1>2, <1>3, <1>4, <1>5, <1>6, <1>7, <1>8 DEF MarkCold, Finish,
       IInv, TypeOK
  <1>10. /\ db'[f].form = "made" /\ db'[f].fileName = db[f].fileName
         /\ db'[f].remoteURI = db[f].remoteURI /\ db'[f].isLocal = 0
         /\ db'[f].isMetadata = db[f].isMetadata /\ db'[f].isOpen = db[f].isOpen
         /\ db'[f].lastModified = db[f].lastModified
    BY <1>1, <1>2, <1>3, <1>4, <1>5, <1>6, <1>7, <1>8, <1>9, SettersFields DEF
       SameHash
  <1>11. /\ Moving(f) = "markCold" /\ Moving(f)' = "restore" /\ Handling(f)' = Handling(f)
         /\ ToDemote(f) /\ ToDemote(f)' /\ ~ToPromote(f) /\ ~ToPromote(f)' /\ ~Stopped /\ ~Stopped'
    BY <1>1, <1>2, <1>3, <1>4, <1>5, <1>6, <1>7, <1>8, <1>9, <1>10 DEF Moving,
       Handling, ToDemote, ToPromote, Stopped, DemotionSteps, PromotionSteps
  <1>12. HashIsWhole(f)'
    BY <1>1, <1>2, <1>3, <1>4, <1>5, <1>6, <1>7, <1>8, <1>9, <1>10, <1>11 DEF
       FileInv, HashIsWhole, Whole, Ages, Flag, NoEntry
  <1>13. HandlerHasHash(f)'
    BY <1>1, <1>2, <1>3, <1>4, <1>5, <1>6, <1>7, <1>8, <1>9, <1>10, <1>11 DEF
       FileInv, HandlerHasHash, OpenSteps, Whole, Ages, Flag, NoEntry
  <1>14. HashIffFile(f)'
    BY <1>1, <1>2, <1>3, <1>4, <1>5, <1>6, <1>7, <1>8, <1>9, <1>10, <1>11 DEF
       FileInv, HashIffFile, EventsServed, WillStand, HashStands, Whole, Ages,
       Flag, NoEntry
  <1>15. DiskHolds(f)'
    BY <1>1, <1>2, <1>3, <1>4, <1>5, <1>6, <1>7, <1>8, <1>9, <1>10, <1>11 DEF
       FileInv, DiskHolds, Current, Whole, Ages, Flag, NoEntry
  <1>16. Somewhere(f)'
    BY <1>1, <1>2, <1>3, <1>4, <1>5, <1>6, <1>7, <1>8, <1>9, <1>10, <1>11 DEF
       FileInv, Somewhere, Whole, Ages, Flag, NoEntry
  <1>17. ColdLeads(f)'
    BY <1>1, <1>2, <1>3, <1>4, <1>5, <1>6, <1>7, <1>8, <1>9, <1>10, <1>11 DEF
       FileInv, ColdLeads, Demotion1, Demotion2, Current, Fetchable, Whole,
       RecallSteps, Ages, Flag, NoEntry
  <1>18. ColdIsFresh(f)'
    BY <1>1, <1>2, <1>3, <1>4, <1>5, <1>6, <1>7, <1>8, <1>9, <1>10, <1>11 DEF
       FileInv, ColdIsFresh, Demotion1, Demotion2, RecallSteps, Whole, Current,
       Ages, Flag, NoEntry
  <1>19. LocalIsTrue(f)'
    BY <1>1, <1>2, <1>3, <1>4, <1>5, <1>6, <1>7, <1>8, <1>9, <1>10, <1>11 DEF
       FileInv, LocalIsTrue, Current, Whole, Ages, Flag, NoEntry
  <1>20. MarkIsTrue(f)'
    BY <1>1, <1>2, <1>3, <1>4, <1>5, <1>6, <1>7, <1>8, <1>9, <1>10, <1>11 DEF
       FileInv, MarkIsTrue, Whole, Ages, Flag, NoEntry
  <1>21. Recall(f)'
    BY <1>1, <1>2, <1>3, <1>4, <1>5, <1>6, <1>7, <1>8, <1>9, <1>10, <1>11 DEF
       FileInv, Recall, Fetchable, Whole, Ages, Flag, NoEntry
  <1>22. Demotion1(f)'
    BY <1>1, <1>2, <1>3, <1>4, <1>5, <1>6, <1>7, <1>8, <1>9, <1>10, <1>11 DEF
       FileInv, Demotion1, Whole, Ages, Flag, NoEntry
  <1>23. Demotion2(f)'
    BY <1>1, <1>2, <1>3, <1>4, <1>5, <1>6, <1>7, <1>8, <1>9, <1>10, <1>11 DEF
       FileInv, Demotion2, Current, RecallSteps, Whole, Ages, Flag, NoEntry
  <1>24. Promotion1(f)'
    BY <1>1, <1>2, <1>3, <1>4, <1>5, <1>6, <1>7, <1>8, <1>9, <1>10, <1>11 DEF
       FileInv, Promotion1, Whole, Fetchable, Current, Ages, Flag, NoEntry
  <1>25. OpenIsRecent(f)'
    BY <1>1, <1>2, <1>3, <1>4, <1>5, <1>6, <1>7, <1>8, <1>9, <1>10, <1>11 DEF
       FileInv, OpenIsRecent, Current, OpenSteps, RecallSteps, Whole, Ages,
       Flag, NoEntry
  <1> QED
    BY <1>12, <1>13, <1>14, <1>15, <1>16, <1>17, <1>18, <1>19, <1>20, <1>21,
     <1>22, <1>23, <1>24, <1>25 DEF FileInv

\* The time is that of the scan again, and the file is done.
LEMMA RestoreTimeSafe ==
    ASSUME Calm, IInv, SafetyInv, UNCHANGED <<handlerVars, truth>>,
           NEW f \in Files, f = cur, RestoreTime
    PROVE  FileInv(f)'
  <1>1. /\ FileInv(f) /\ cur = f /\ f # None /\ todo[f] # NoEntry /\ mpc = "restore"
        /\ db[f] \in Entries /\ todo[f] \in Entries
        /\ truth[f] # Empty /\ Empty # None
        /\ UNCHANGED <<hfile, hremote, hgot, truth>>
    BY NamesAssumption, ContentsAssumption DEF SafetyInv, ProcessInv,
       handlerVars, RestoreTime, IInv, TypeOK
  <1>2. Demotion1(f) /\ Demotion2(f) /\ ToDemote(f) /\ Moving(f) = "restore"
    BY <1>1 DEF FileInv, ToDemote, Moving, DemotionSteps
  <1>3. hpc = "idle" /\ queue = <<>>
    BY <1>1, <1>2 DEF RestoreTime, Slept, HandlerIdle, Calm, SafetyInv,
       ProcessInv
  <1>4. /\ NoDelete(f, queue) /\ ~OpenPending(f, queue) /\ ~FreshOpen(f, queue)
        /\ OpensAreFresh(f, queue) /\ OnlyCloses(f, queue) /\ Silent(f, queue)
        /\ ~Recreated(f, queue) /\ ServedWith(f, queue) /\ ServedWithout(f, queue)
    BY <1>1, <1>2, <1>3, EmptyViews
  <1>5. Handling(f) = "off"
    BY <1>1, <1>2, <1>3, <1>4 DEF SafetyInv, ProcessInv, Handling
  <1>6. db[f].form = "made" /\ Whole(db[f], f) /\ Whole(todo[f], f)
    BY <1>1, <1>2, <1>3, <1>4, <1>5 DEF FileInv, HashIsWhole, NoEntry,
       Demotion1, Demotion2, Current
  <1>7. /\ SetLastTimeModified(db[f], todo[f].lastModified) \in Entries
        /\ SetterReturns(SetLastTimeModified(db[f], todo[f].lastModified))
    BY <1>1, <1>2, <1>3, <1>4, <1>5, <1>6, SettersType, SettersFields DEF
       Whole, Flag, Entries
  <1>8. /\ db'[f] = SetLastTimeModified(db[f], todo[f].lastModified) /\ mpc' = "demote"
        /\ UNCHANGED <<disk, bucket, queue, opened, hpc, mgot>>
    BY <1>1, <1>2, <1>3, <1>4, <1>5, <1>6, <1>7, SetFields DEF RestoreTime
  <1>9. todo'[f] = NoEntry /\ cur' = None
    BY <1>1, <1>2, <1>3, <1>4, <1>5, <1>6, <1>7, <1>8 DEF RestoreTime, Finish,
       IInv, TypeOK
  <1>10. /\ db'[f].form = "made" /\ db'[f].fileName = db[f].fileName
         /\ db'[f].remoteURI = db[f].remoteURI /\ db'[f].isLocal = db[f].isLocal
         /\ db'[f].isMetadata = db[f].isMetadata /\ db'[f].isOpen = db[f].isOpen
         /\ db'[f].lastModified = todo[f].lastModified
    BY <1>1, <1>2, <1>3, <1>4, <1>5, <1>6, <1>7, <1>8, <1>9, SettersFields DEF
       SameHash
  <1>11. /\ Moving(f) = "restore" /\ Moving(f)' = "off" /\ Handling(f)' = Handling(f)
         /\ ToDemote(f) /\ ~ToDemote(f)' /\ ~ToPromote(f) /\ ~ToPromote(f)' /\ ~Stopped /\ ~Stopped'
    BY <1>1, <1>2, <1>3, <1>4, <1>5, <1>6, <1>7, <1>8, <1>9, <1>10 DEF Moving,
       Handling, ToDemote, ToPromote, Stopped, DemotionSteps, PromotionSteps
  <1>12. HashIsWhole(f)'
    BY <1>1, <1>2, <1>3, <1>4, <1>5, <1>6, <1>7, <1>8, <1>9, <1>10, <1>11 DEF
       FileInv, HashIsWhole, Whole, Ages, Flag, NoEntry
  <1>13. HandlerHasHash(f)'
    BY <1>1, <1>2, <1>3, <1>4, <1>5, <1>6, <1>7, <1>8, <1>9, <1>10, <1>11 DEF
       FileInv, HandlerHasHash, OpenSteps, Whole, Ages, Flag, NoEntry
  <1>14. HashIffFile(f)'
    BY <1>1, <1>2, <1>3, <1>4, <1>5, <1>6, <1>7, <1>8, <1>9, <1>10, <1>11 DEF
       FileInv, HashIffFile, EventsServed, WillStand, HashStands, Whole, Ages,
       Flag, NoEntry
  <1>15. DiskHolds(f)'
    BY <1>1, <1>2, <1>3, <1>4, <1>5, <1>6, <1>7, <1>8, <1>9, <1>10, <1>11 DEF
       FileInv, DiskHolds, Current, Whole, Ages, Flag, NoEntry
  <1>16. Somewhere(f)'
    BY <1>1, <1>2, <1>3, <1>4, <1>5, <1>6, <1>7, <1>8, <1>9, <1>10, <1>11 DEF
       FileInv, Somewhere, Whole, Ages, Flag, NoEntry
  <1>17. ColdLeads(f)'
    BY <1>1, <1>2, <1>3, <1>4, <1>5, <1>6, <1>7, <1>8, <1>9, <1>10, <1>11 DEF
       FileInv, ColdLeads, Current, Fetchable, Whole, Ages, Flag, NoEntry
  <1>18. ColdIsFresh(f)'
    BY <1>1, <1>2, <1>3, <1>4, <1>5, <1>6, <1>7, <1>8, <1>9, <1>10, <1>11 DEF
       FileInv, ColdIsFresh, RecallSteps, Whole, Ages, Flag, NoEntry
  <1>19. LocalIsTrue(f)'
    BY <1>1, <1>2, <1>3, <1>4, <1>5, <1>6, <1>7, <1>8, <1>9, <1>10, <1>11 DEF
       FileInv, LocalIsTrue, Current, Whole, Ages, Flag, NoEntry
  <1>20. MarkIsTrue(f)'
    BY <1>1, <1>2, <1>3, <1>4, <1>5, <1>6, <1>7, <1>8, <1>9, <1>10, <1>11 DEF
       FileInv, MarkIsTrue, Whole, Ages, Flag, NoEntry
  <1>21. Recall(f)'
    BY <1>1, <1>2, <1>3, <1>4, <1>5, <1>6, <1>7, <1>8, <1>9, <1>10, <1>11 DEF
       FileInv, Recall, Fetchable, Whole, Ages, Flag, NoEntry
  <1>22. Demotion1(f)'
    BY <1>1, <1>2, <1>3, <1>4, <1>5, <1>6, <1>7, <1>8, <1>9, <1>10, <1>11 DEF
       FileInv, Demotion1, Whole, Ages, Flag, NoEntry
  <1>23. Demotion2(f)'
    BY <1>1, <1>2, <1>3, <1>4, <1>5, <1>6, <1>7, <1>8, <1>9, <1>10, <1>11 DEF
       FileInv, Demotion2, Current, RecallSteps, Whole, Ages, Flag, NoEntry
  <1>24. Promotion1(f)'
    BY <1>1, <1>2, <1>3, <1>4, <1>5, <1>6, <1>7, <1>8, <1>9, <1>10, <1>11 DEF
       FileInv, Promotion1, Whole, Fetchable, Current, Ages, Flag, NoEntry
  <1>25. OpenIsRecent(f)'
    BY <1>1, <1>2, <1>3, <1>4, <1>5, <1>6, <1>7, <1>8, <1>9, <1>10, <1>11 DEF
       FileInv, OpenIsRecent, Demotion1, Demotion2, Current, OpenSteps,
       RecallSteps, Whole, Ages, Flag, NoEntry
  <1> QED
    BY <1>12, <1>13, <1>14, <1>15, <1>16, <1>17, <1>18, <1>19, <1>20, <1>21,
     <1>22, <1>23, <1>24, <1>25 DEF FileInv

\* The body of the object is the content of the file.
LEMMA GetObjectSafe ==
    ASSUME Calm, IInv, SafetyInv, UNCHANGED <<handlerVars, truth>>,
           NEW f \in Files, f = cur, GetObject
    PROVE  FileInv(f)'
  <1>1. /\ FileInv(f) /\ cur = f /\ f # None /\ todo[f] # NoEntry /\ mpc = "get"
        /\ db[f] \in Entries /\ todo[f] \in Entries
        /\ truth[f] # Empty /\ Empty # None
        /\ UNCHANGED <<hfile, hremote, hgot, truth>>
    BY NamesAssumption, ContentsAssumption DEF SafetyInv, ProcessInv,
       handlerVars, GetObject, IInv, TypeOK
  <1>2. Promotion1(f) /\ ToPromote(f) /\ Moving(f) = "get"
    BY <1>1 DEF FileInv, ToPromote, Moving, PromotionSteps
  <1>3. todo[f].remoteURI = f
    BY <1>1, <1>2 DEF Promotion1
  <1>4. /\ mgot' = bucket[f] /\ bucket[f] # None /\ mpc' = "write" /\ cur' = f
        /\ UNCHANGED <<disk, bucket, db, queue, opened, hpc, todo>>
    BY <1>1, <1>2, <1>3 DEF GetObject, InBucket, worldVars
  <1>5. /\ Moving(f) = "get" /\ Moving(f)' = "write" /\ Handling(f)' = Handling(f)
        /\ ToPromote(f) /\ ToPromote(f)' /\ ~ToDemote(f) /\ ~ToDemote(f)' /\ ~Stopped /\ ~Stopped'
    BY <1>1, <1>2, <1>3, <1>4 DEF Moving, Handling, ToDemote, ToPromote,
       Stopped, DemotionSteps, PromotionSteps
  <1>6. HashIsWhole(f)'
    BY <1>1, <1>2, <1>3, <1>4, <1>5 DEF FileInv, HashIsWhole, Whole
  <1>7. HandlerHasHash(f)'
    BY <1>1, <1>2, <1>3, <1>4, <1>5 DEF FileInv, HandlerHasHash, OpenSteps
  <1>8. HashIffFile(f)'
    BY <1>1, <1>2, <1>3, <1>4, <1>5 DEF FileInv, HashIffFile, EventsServed,
       WillStand, HashStands
  <1>9. DiskHolds(f)'
    BY <1>1, <1>2, <1>3, <1>4, <1>5 DEF FileInv, DiskHolds, Current
  <1>10. Somewhere(f)'
    BY <1>1, <1>2, <1>3, <1>4, <1>5 DEF FileInv, Somewhere
  <1>11. ColdLeads(f)'
    BY <1>1, <1>2, <1>3, <1>4, <1>5 DEF FileInv, ColdLeads, Current, Fetchable
  <1>12. ColdIsFresh(f)'
    BY <1>1, <1>2, <1>3, <1>4, <1>5 DEF FileInv, ColdIsFresh, RecallSteps
  <1>13. LocalIsTrue(f)'
    BY <1>1, <1>2, <1>3, <1>4, <1>5 DEF FileInv, LocalIsTrue, Current
  <1>14. MarkIsTrue(f)'
    BY <1>1, <1>2, <1>3, <1>4, <1>5 DEF FileInv, MarkIsTrue
  <1>15. Recall(f)'
    BY <1>1, <1>2, <1>3, <1>4, <1>5 DEF FileInv, Recall, Fetchable
  <1>16. Demotion1(f)'
    BY <1>1, <1>2, <1>3, <1>4, <1>5 DEF FileInv, Demotion1, Whole
  <1>17. Demotion2(f)'
    BY <1>1, <1>2, <1>3, <1>4, <1>5 DEF FileInv, Demotion2, Current,
       RecallSteps
  <1>18. Promotion1(f)'
    BY <1>1, <1>2, <1>3, <1>4, <1>5 DEF FileInv, Promotion1, Whole, Fetchable,
       Current
  <1>19. OpenIsRecent(f)'
    BY <1>1, <1>2, <1>3, <1>4, <1>5 DEF FileInv, OpenIsRecent, Current,
       OpenSteps, RecallSteps
  <1> QED
    BY <1>6, <1>7, <1>8, <1>9, <1>10, <1>11, <1>12, <1>13, <1>14, <1>15, <1>16,
     <1>17, <1>18, <1>19 DEF FileInv

\* There is no object only when a recall has brought the content back already.
LEMMA GetObjectFailsSafe ==
    ASSUME Calm, IInv, SafetyInv, UNCHANGED <<handlerVars, truth>>,
           NEW f \in Files, f = cur, GetObjectFails
    PROVE  FileInv(f)'
  <1>1. /\ FileInv(f) /\ cur = f /\ f # None /\ todo[f] # NoEntry /\ mpc = "get"
        /\ db[f] \in Entries /\ todo[f] \in Entries
        /\ truth[f] # Empty /\ Empty # None
        /\ UNCHANGED <<hfile, hremote, hgot, truth>>
    BY NamesAssumption, ContentsAssumption DEF SafetyInv, ProcessInv,
       handlerVars, GetObjectFails, IInv, TypeOK
  <1>2. Promotion1(f) /\ ToPromote(f) /\ Moving(f) = "get"
    BY <1>1 DEF FileInv, ToPromote, Moving, PromotionSteps
  <1>3. todo[f].remoteURI = f
    BY <1>1, <1>2 DEF Promotion1
  <1>4. /\ ~InBucket(f) /\ mpc' = "unlink" /\ cur' = f
        /\ UNCHANGED <<disk, bucket, db, queue, opened, hpc, todo, mgot>>
    BY <1>1, <1>2, <1>3 DEF GetObjectFails, worldVars, Calm
  <1>5. disk[f] = truth[f]
    BY <1>1, <1>2, <1>3, <1>4 DEF FileInv, Promotion1, Fetchable, Somewhere,
       InBucket
  <1>6. /\ Moving(f) = "get" /\ Moving(f)' = "unlink" /\ Handling(f)' = Handling(f)
        /\ ToPromote(f) /\ ToPromote(f)' /\ ~ToDemote(f) /\ ~ToDemote(f)' /\ ~Stopped /\ ~Stopped'
    BY <1>1, <1>2, <1>3, <1>4, <1>5 DEF Moving, Handling, ToDemote, ToPromote,
       Stopped, DemotionSteps, PromotionSteps
  <1>7. HashIsWhole(f)'
    BY <1>1, <1>2, <1>3, <1>4, <1>5, <1>6 DEF FileInv, HashIsWhole, Whole
  <1>8. HandlerHasHash(f)'
    BY <1>1, <1>2, <1>3, <1>4, <1>5, <1>6 DEF FileInv, HandlerHasHash,
       OpenSteps
  <1>9. HashIffFile(f)'
    BY <1>1, <1>2, <1>3, <1>4, <1>5, <1>6 DEF FileInv, HashIffFile,
       EventsServed, WillStand, HashStands
  <1>10. DiskHolds(f)'
    BY <1>1, <1>2, <1>3, <1>4, <1>5, <1>6 DEF FileInv, DiskHolds, Current
  <1>11. Somewhere(f)'
    BY <1>1, <1>2, <1>3, <1>4, <1>5, <1>6 DEF FileInv, Somewhere
  <1>12. ColdLeads(f)'
    BY <1>1, <1>2, <1>3, <1>4, <1>5, <1>6 DEF FileInv, ColdLeads, Current,
       Fetchable
  <1>13. ColdIsFresh(f)'
    BY <1>1, <1>2, <1>3, <1>4, <1>5, <1>6 DEF FileInv, ColdIsFresh, RecallSteps
  <1>14. LocalIsTrue(f)'
    BY <1>1, <1>2, <1>3, <1>4, <1>5, <1>6 DEF FileInv, LocalIsTrue, Current
  <1>15. MarkIsTrue(f)'
    BY <1>1, <1>2, <1>3, <1>4, <1>5, <1>6 DEF FileInv, MarkIsTrue
  <1>16. Recall(f)'
    BY <1>1, <1>2, <1>3, <1>4, <1>5, <1>6 DEF FileInv, Recall, Fetchable
  <1>17. Demotion1(f)'
    BY <1>1, <1>2, <1>3, <1>4, <1>5, <1>6 DEF FileInv, Demotion1, Whole
  <1>18. Demotion2(f)'
    BY <1>1, <1>2, <1>3, <1>4, <1>5, <1>6 DEF FileInv, Demotion2, Current,
       RecallSteps
  <1>19. Promotion1(f)'
    BY <1>1, <1>2, <1>3, <1>4, <1>5, <1>6 DEF FileInv, Promotion1, Whole,
       Fetchable, Current
  <1>20. OpenIsRecent(f)'
    BY <1>1, <1>2, <1>3, <1>4, <1>5, <1>6 DEF FileInv, OpenIsRecent, Current,
       OpenSteps, RecallSteps
  <1> QED
    BY <1>7, <1>8, <1>9, <1>10, <1>11, <1>12, <1>13, <1>14, <1>15, <1>16, <1>17,
     <1>18, <1>19, <1>20 DEF FileInv

\* It replaces the placeholder.
LEMMA WriteFileSafe ==
    ASSUME Calm, IInv, SafetyInv, UNCHANGED <<handlerVars, truth>>,
           NEW f \in Files, f = cur, WriteFile
    PROVE  FileInv(f)'
  <1>1. /\ FileInv(f) /\ cur = f /\ f # None /\ todo[f] # NoEntry /\ mpc = "write"
        /\ db[f] \in Entries /\ todo[f] \in Entries
        /\ truth[f] # Empty /\ Empty # None
        /\ UNCHANGED <<hfile, hremote, hgot, truth>>
    BY NamesAssumption, ContentsAssumption DEF SafetyInv, ProcessInv,
       handlerVars, WriteFile, IInv, TypeOK
  <1>2. Promotion1(f) /\ ToPromote(f) /\ Moving(f) = "write"
    BY <1>1 DEF FileInv, ToPromote, Moving, PromotionSteps
  <1>3. disk[f] # None
    BY <1>1, <1>2, NamesAssumption, ContentsAssumption DEF Promotion1,
       Fetchable
  <1>4. /\ disk'[f] = mgot /\ mpc' = "delete" /\ cur' = f
        /\ UNCHANGED <<bucket, db, opened, hpc, todo>>
    BY <1>1, <1>2, <1>3 DEF WriteFile, IInv, TypeOK
  <1>5. Reopened(f, queue, queue')
    BY <1>1, <1>2, <1>3, <1>4, OwnEventsViews DEF WriteFile, Notify, SafetyInv,
       ProcessInv, IInv, TypeOK
  <1>6. /\ Moving(f) = "write" /\ Moving(f)' = "delete" /\ Handling(f)' = Handling(f)
        /\ ToPromote(f) /\ ToPromote(f)' /\ ~ToDemote(f) /\ ~ToDemote(f)' /\ ~Stopped /\ ~Stopped'
    BY <1>1, <1>2, <1>3, <1>4, <1>5 DEF Moving, Handling, ToDemote, ToPromote,
       Stopped, DemotionSteps, PromotionSteps
  <1>7. HashIsWhole(f)'
    BY <1>1, <1>2, <1>3, <1>4, <1>5, <1>6 DEF FileInv, HashIsWhole, Whole,
       Reopened, Used
  <1>8. HandlerHasHash(f)'
    BY <1>1, <1>2, <1>3, <1>4, <1>5, <1>6 DEF FileInv, HandlerHasHash,
       OpenSteps, Reopened, Used
  <1>9. HashIffFile(f)'
    BY <1>1, <1>2, <1>3, <1>4, <1>5, <1>6 DEF FileInv, HashIffFile, Promotion1,
       EventsServed, WillStand, HashStands, Whole, Fetchable, Current,
       Reopened, Used
  <1>10. DiskHolds(f)'
    BY <1>1, <1>2, <1>3, <1>4, <1>5, <1>6 DEF FileInv, DiskHolds, Promotion1,
       Current, Whole, Fetchable, Reopened, Used
  <1>11. Somewhere(f)'
    BY <1>1, <1>2, <1>3, <1>4, <1>5, <1>6 DEF FileInv, Somewhere, Promotion1,
       Whole, Fetchable, Current, Reopened, Used
  <1>12. ColdLeads(f)'
    BY <1>1, <1>2, <1>3, <1>4, <1>5, <1>6 DEF FileInv, ColdLeads, Promotion1,
       Current, Fetchable, Whole, Reopened, Used
  <1>13. ColdIsFresh(f)'
    BY <1>1, <1>2, <1>3, <1>4, <1>5, <1>6 DEF FileInv, ColdIsFresh,
       RecallSteps, Reopened, Used
  <1>14. LocalIsTrue(f)'
    BY <1>1, <1>2, <1>3, <1>4, <1>5, <1>6 DEF FileInv, LocalIsTrue, Promotion1,
       Current, Whole, Fetchable, Reopened, Used
  <1>15. MarkIsTrue(f)'
    BY <1>1, <1>2, <1>3, <1>4, <1>5, <1>6 DEF FileInv, MarkIsTrue, Reopened,
       Used
  <1>16. Recall(f)'
    BY <1>1, <1>2, <1>3, <1>4, <1>5, <1>6 DEF FileInv, Recall, Promotion1,
       Fetchable, Whole, Current, Reopened, Used
  <1>17. Demotion1(f)'
    BY <1>1, <1>2, <1>3, <1>4, <1>5, <1>6 DEF FileInv, Demotion1, Whole,
       Reopened, Used
  <1>18. Demotion2(f)'
    BY <1>1, <1>2, <1>3, <1>4, <1>5, <1>6 DEF FileInv, Demotion2, Current,
       RecallSteps, Reopened, Used
  <1>19. Promotion1(f)'
    BY <1>1, <1>2, <1>3, <1>4, <1>5, <1>6 DEF FileInv, Promotion1, Whole,
       Fetchable, Current, Reopened, Used
  <1>20. OpenIsRecent(f)'
    BY <1>1, <1>2, <1>3, <1>4, <1>5, <1>6 DEF FileInv, OpenIsRecent,
       Promotion1, Current, OpenSteps, RecallSteps, Whole, Fetchable, Reopened,
       Used
  <1> QED
    BY <1>7, <1>8, <1>9, <1>10, <1>11, <1>12, <1>13, <1>14, <1>15, <1>16, <1>17,
     <1>18, <1>19, <1>20 DEF FileInv

\* The object goes when the content is back.
LEMMA DeleteObjectSafe ==
    ASSUME Calm, IInv, SafetyInv, UNCHANGED <<handlerVars, truth>>,
           NEW f \in Files, f = cur, DeleteObject
    PROVE  FileInv(f)'
  <1>1. /\ FileInv(f) /\ cur = f /\ f # None /\ todo[f] # NoEntry /\ mpc = "delete"
        /\ db[f] \in Entries /\ todo[f] \in Entries
        /\ truth[f] # Empty /\ Empty # None
        /\ UNCHANGED <<hfile, hremote, hgot, truth>>
    BY NamesAssumption, ContentsAssumption DEF SafetyInv, ProcessInv,
       handlerVars, DeleteObject, IInv, TypeOK
  <1>2. Promotion1(f) /\ ToPromote(f) /\ Moving(f) = "delete"
    BY <1>1 DEF FileInv, ToPromote, Moving, PromotionSteps
  <1>3. todo[f].remoteURI = f
    BY <1>1, <1>2 DEF Promotion1
  <1>4. /\ bucket'[f] = None /\ mpc' = "unlink" /\ cur' = f
        /\ UNCHANGED <<disk, db, queue, opened, hpc, todo, mgot>>
    BY <1>1, <1>2, <1>3 DEF DeleteObject, IInv, TypeOK
  <1>5. /\ Moving(f) = "delete" /\ Moving(f)' = "unlink" /\ Handling(f)' = Handling(f)
        /\ ToPromote(f) /\ ToPromote(f)' /\ ~ToDemote(f) /\ ~ToDemote(f)' /\ ~Stopped /\ ~Stopped'
    BY <1>1, <1>2, <1>3, <1>4 DEF Moving, Handling, ToDemote, ToPromote,
       Stopped, DemotionSteps, PromotionSteps
  <1>6. HashIsWhole(f)'
    BY <1>1, <1>2, <1>3, <1>4, <1>5 DEF FileInv, HashIsWhole, Whole
  <1>7. HandlerHasHash(f)'
    BY <1>1, <1>2, <1>3, <1>4, <1>5 DEF FileInv, HandlerHasHash, OpenSteps
  <1>8. HashIffFile(f)'
    BY <1>1, <1>2, <1>3, <1>4, <1>5 DEF FileInv, HashIffFile, EventsServed,
       WillStand, HashStands
  <1>9. DiskHolds(f)'
    BY <1>1, <1>2, <1>3, <1>4, <1>5 DEF FileInv, DiskHolds, Current
  <1>10. Somewhere(f)'
    BY <1>1, <1>2, <1>3, <1>4, <1>5 DEF FileInv, Somewhere, Promotion1, Whole,
       Fetchable, Current
  <1>11. ColdLeads(f)'
    BY <1>1, <1>2, <1>3, <1>4, <1>5 DEF FileInv, ColdLeads, Current, Fetchable
  <1>12. ColdIsFresh(f)'
    BY <1>1, <1>2, <1>3, <1>4, <1>5 DEF FileInv, ColdIsFresh, RecallSteps
  <1>13. LocalIsTrue(f)'
    BY <1>1, <1>2, <1>3, <1>4, <1>5 DEF FileInv, LocalIsTrue, Current
  <1>14. MarkIsTrue(f)'
    BY <1>1, <1>2, <1>3, <1>4, <1>5 DEF FileInv, MarkIsTrue
  <1>15. Recall(f)'
    BY <1>1, <1>2, <1>3, <1>4, <1>5 DEF FileInv, Recall, Fetchable
  <1>16. Demotion1(f)'
    BY <1>1, <1>2, <1>3, <1>4, <1>5 DEF FileInv, Demotion1, Whole
  <1>17. Demotion2(f)'
    BY <1>1, <1>2, <1>3, <1>4, <1>5 DEF FileInv, Demotion2, Current,
       RecallSteps
  <1>18. Promotion1(f)'
    BY <1>1, <1>2, <1>3, <1>4, <1>5 DEF FileInv, Promotion1, Whole, Fetchable,
       Current
  <1>19. OpenIsRecent(f)'
    BY <1>1, <1>2, <1>3, <1>4, <1>5 DEF FileInv, OpenIsRecent, Current,
       OpenSteps, RecallSteps
  <1> QED
    BY <1>6, <1>7, <1>8, <1>9, <1>10, <1>11, <1>12, <1>13, <1>14, <1>15, <1>16,
     <1>17, <1>18, <1>19 DEF FileInv

\* An object that stays does no harm.
LEMMA DeleteObjectFailsSafe ==
    ASSUME Calm, IInv, SafetyInv, UNCHANGED <<handlerVars, truth>>,
           NEW f \in Files, f = cur, DeleteObjectFails
    PROVE  FileInv(f)'
  <1>1. /\ FileInv(f) /\ cur = f /\ f # None /\ todo[f] # NoEntry /\ mpc = "delete"
        /\ db[f] \in Entries /\ todo[f] \in Entries
        /\ truth[f] # Empty /\ Empty # None
        /\ UNCHANGED <<hfile, hremote, hgot, truth>>
    BY NamesAssumption, ContentsAssumption DEF SafetyInv, ProcessInv,
       handlerVars, DeleteObjectFails, IInv, TypeOK
  <1>2. Promotion1(f) /\ ToPromote(f) /\ Moving(f) = "delete"
    BY <1>1 DEF FileInv, ToPromote, Moving, PromotionSteps
  <1>3. /\ mpc' = "unlink" /\ cur' = f
        /\ UNCHANGED <<disk, bucket, db, queue, opened, hpc, todo, mgot>>
    BY <1>1, <1>2 DEF DeleteObjectFails, worldVars
  <1>4. /\ Moving(f) = "delete" /\ Moving(f)' = "unlink" /\ Handling(f)' = Handling(f)
        /\ ToPromote(f) /\ ToPromote(f)' /\ ~ToDemote(f) /\ ~ToDemote(f)' /\ ~Stopped /\ ~Stopped'
    BY <1>1, <1>2, <1>3 DEF Moving, Handling, ToDemote, ToPromote, Stopped,
       DemotionSteps, PromotionSteps
  <1>5. HashIsWhole(f)'
    BY <1>1, <1>2, <1>3, <1>4 DEF FileInv, HashIsWhole, Whole
  <1>6. HandlerHasHash(f)'
    BY <1>1, <1>2, <1>3, <1>4 DEF FileInv, HandlerHasHash, OpenSteps
  <1>7. HashIffFile(f)'
    BY <1>1, <1>2, <1>3, <1>4 DEF FileInv, HashIffFile, EventsServed,
       WillStand, HashStands
  <1>8. DiskHolds(f)'
    BY <1>1, <1>2, <1>3, <1>4 DEF FileInv, DiskHolds, Current
  <1>9. Somewhere(f)'
    BY <1>1, <1>2, <1>3, <1>4 DEF FileInv, Somewhere
  <1>10. ColdLeads(f)'
    BY <1>1, <1>2, <1>3, <1>4 DEF FileInv, ColdLeads, Current, Fetchable
  <1>11. ColdIsFresh(f)'
    BY <1>1, <1>2, <1>3, <1>4 DEF FileInv, ColdIsFresh, RecallSteps
  <1>12. LocalIsTrue(f)'
    BY <1>1, <1>2, <1>3, <1>4 DEF FileInv, LocalIsTrue, Current
  <1>13. MarkIsTrue(f)'
    BY <1>1, <1>2, <1>3, <1>4 DEF FileInv, MarkIsTrue
  <1>14. Recall(f)'
    BY <1>1, <1>2, <1>3, <1>4 DEF FileInv, Recall, Fetchable
  <1>15. Demotion1(f)'
    BY <1>1, <1>2, <1>3, <1>4 DEF FileInv, Demotion1, Whole
  <1>16. Demotion2(f)'
    BY <1>1, <1>2, <1>3, <1>4 DEF FileInv, Demotion2, Current, RecallSteps
  <1>17. Promotion1(f)'
    BY <1>1, <1>2, <1>3, <1>4 DEF FileInv, Promotion1, Whole, Fetchable,
       Current
  <1>18. OpenIsRecent(f)'
    BY <1>1, <1>2, <1>3, <1>4 DEF FileInv, OpenIsRecent, Current, OpenSteps,
       RecallSteps
  <1> QED
    BY <1>5, <1>6, <1>7, <1>8, <1>9, <1>10, <1>11, <1>12, <1>13, <1>14, <1>15,
     <1>16, <1>17, <1>18 DEF FileInv

\* The hash forgets the object of a file that is back.
LEMMA UnlinkSafe ==
    ASSUME Calm, IInv, SafetyInv, UNCHANGED <<handlerVars, truth>>,
           NEW f \in Files, f = cur, Unlink
    PROVE  FileInv(f)'
  <1>1. /\ FileInv(f) /\ cur = f /\ f # None /\ todo[f] # NoEntry /\ mpc = "unlink"
        /\ db[f] \in Entries /\ todo[f] \in Entries
        /\ truth[f] # Empty /\ Empty # None
        /\ UNCHANGED <<hfile, hremote, hgot, truth>>
    BY NamesAssumption, ContentsAssumption DEF SafetyInv, ProcessInv,
       handlerVars, Unlink, IInv, TypeOK
  <1>2. Promotion1(f) /\ ToPromote(f) /\ Moving(f) = "unlink"
    BY <1>1 DEF FileInv, ToPromote, Moving, PromotionSteps
  <1>3. db[f].form = "made" /\ Whole(db[f], f) /\ Whole(todo[f], f)
    BY <1>1, <1>2 DEF FileInv, HashIsWhole, NoEntry, Promotion1, Current
  <1>4. /\ SetRemoteURI(db[f], None) \in Entries
        /\ SetterReturns(SetRemoteURI(db[f], None))
    BY <1>1, <1>2, <1>3, SettersType, SettersFields DEF Whole, Flag, Entries
  <1>5. /\ db'[f] = SetRemoteURI(db[f], None) /\ mpc' = "hot"
        /\ UNCHANGED <<disk, bucket, queue, opened, hpc, mgot>>
    BY <1>1, <1>2, <1>3, <1>4, SetFields DEF Unlink
  <1>6. UNCHANGED <<todo, cur>>
    BY <1>1, <1>2, <1>3, <1>4, <1>5 DEF Unlink, Finish, IInv, TypeOK
  <1>7. /\ db'[f].form = "made" /\ db'[f].fileName = db[f].fileName
        /\ db'[f].remoteURI = None /\ db'[f].isLocal = db[f].isLocal
        /\ db'[f].isMetadata = db[f].isMetadata /\ db'[f].isOpen = db[f].isOpen
        /\ db'[f].lastModified = "recent"
    BY <1>1, <1>2, <1>3, <1>4, <1>5, <1>6, SettersFields DEF SameHash
  <1>8. /\ Moving(f) = "unlink" /\ Moving(f)' = "hot" /\ Handling(f)' = Handling(f)
        /\ ToPromote(f) /\ ToPromote(f)' /\ ~ToDemote(f) /\ ~ToDemote(f)' /\ ~Stopped /\ ~Stopped'
    BY <1>1, <1>2, <1>3, <1>4, <1>5, <1>6, <1>7 DEF Moving, Handling, ToDemote,
       ToPromote, Stopped, DemotionSteps, PromotionSteps
  <1>9. HashIsWhole(f)'
    BY <1>1, <1>2, <1>3, <1>4, <1>5, <1>6, <1>7, <1>8 DEF FileInv, HashIsWhole,
       Whole, Ages, Flag, NoEntry
  <1>10. HandlerHasHash(f)'
    BY <1>1, <1>2, <1>3, <1>4, <1>5, <1>6, <1>7, <1>8 DEF FileInv,
       HandlerHasHash, Promotion1, OpenSteps, Whole, Fetchable, Current, Ages,
       Flag, NoEntry
  <1>11. HashIffFile(f)'
    BY <1>1, <1>2, <1>3, <1>4, <1>5, <1>6, <1>7, <1>8 DEF FileInv, HashIffFile,
       EventsServed, WillStand, HashStands, Whole, Ages, Flag, NoEntry
  <1>12. DiskHolds(f)'
    BY <1>1, <1>2, <1>3, <1>4, <1>5, <1>6, <1>7, <1>8 DEF FileInv, DiskHolds,
       Current, Whole, Ages, Flag, NoEntry
  <1>13. Somewhere(f)'
    BY <1>1, <1>2, <1>3, <1>4, <1>5, <1>6, <1>7, <1>8 DEF FileInv, Somewhere,
       Whole, Ages, Flag, NoEntry
  <1>14. ColdLeads(f)'
    BY <1>1, <1>2, <1>3, <1>4, <1>5, <1>6, <1>7, <1>8 DEF FileInv, ColdLeads,
       Promotion1, Current, Fetchable, Whole, Ages, Flag, NoEntry
  <1>15. ColdIsFresh(f)'
    BY <1>1, <1>2, <1>3, <1>4, <1>5, <1>6, <1>7, <1>8 DEF FileInv, ColdIsFresh,
       RecallSteps, Whole, Ages, Flag, NoEntry
  <1>16. LocalIsTrue(f)'
    BY <1>1, <1>2, <1>3, <1>4, <1>5, <1>6, <1>7, <1>8 DEF FileInv, LocalIsTrue,
       Current, Whole, Ages, Flag, NoEntry
  <1>17. MarkIsTrue(f)'
    BY <1>1, <1>2, <1>3, <1>4, <1>5, <1>6, <1>7, <1>8 DEF FileInv, MarkIsTrue,
       Whole, Ages, Flag, NoEntry
  <1>18. Recall(f)'
    BY <1>1, <1>2, <1>3, <1>4, <1>5, <1>6, <1>7, <1>8 DEF FileInv, Recall,
       Fetchable, Whole, Ages, Flag, NoEntry
  <1>19. Demotion1(f)'
    BY <1>1, <1>2, <1>3, <1>4, <1>5, <1>6, <1>7, <1>8 DEF FileInv, Demotion1,
       Whole, Ages, Flag, NoEntry
  <1>20. Demotion2(f)'
    BY <1>1, <1>2, <1>3, <1>4, <1>5, <1>6, <1>7, <1>8 DEF FileInv, Demotion2,
       Current, RecallSteps, Whole, Ages, Flag, NoEntry
  <1>21. Promotion1(f)'
    BY <1>1, <1>2, <1>3, <1>4, <1>5, <1>6, <1>7, <1>8 DEF FileInv, Promotion1,
       Whole, Fetchable, Current, Ages, Flag, NoEntry
  <1>22. OpenIsRecent(f)'
    BY <1>1, <1>2, <1>3, <1>4, <1>5, <1>6, <1>7, <1>8 DEF FileInv,
       OpenIsRecent, Current, OpenSteps, RecallSteps, Whole, Ages, Flag,
       NoEntry
  <1> QED
    BY <1>9, <1>10, <1>11, <1>12, <1>13, <1>14, <1>15, <1>16, <1>17, <1>18,
     <1>19, <1>20, <1>21, <1>22 DEF FileInv

\* The hash says local of a file that is back.
LEMMA MarkHotSafe ==
    ASSUME Calm, IInv, SafetyInv, UNCHANGED <<handlerVars, truth>>,
           NEW f \in Files, f = cur, MarkHot
    PROVE  FileInv(f)'
  <1>1. /\ FileInv(f) /\ cur = f /\ f # None /\ todo[f] # NoEntry /\ mpc = "hot"
        /\ db[f] \in Entries /\ todo[f] \in Entries
        /\ truth[f] # Empty /\ Empty # None
        /\ UNCHANGED <<hfile, hremote, hgot, truth>>
    BY NamesAssumption, ContentsAssumption DEF SafetyInv, ProcessInv,
       handlerVars, MarkHot, IInv, TypeOK
  <1>2. Promotion1(f) /\ ToPromote(f) /\ Moving(f) = "hot"
    BY <1>1 DEF FileInv, ToPromote, Moving, PromotionSteps
  <1>3. db[f].form = "made" /\ Whole(db[f], f) /\ Whole(todo[f], f)
    BY <1>1, <1>2 DEF FileInv, HashIsWhole, NoEntry, Promotion1, Current
  <1>4. /\ SetIsLocal(db[f], 1) \in Entries
        /\ SetterReturns(SetIsLocal(db[f], 1))
    BY <1>1, <1>2, <1>3, SettersType, SettersFields DEF Whole, Flag, Entries
  <1>5. /\ db'[f] = SetIsLocal(db[f], 1) /\ mpc' = "unmeta"
        /\ UNCHANGED <<disk, bucket, queue, opened, hpc, mgot>>
    BY <1>1, <1>2, <1>3, <1>4, SetFields DEF MarkHot
  <1>6. UNCHANGED <<todo, cur>>
    BY <1>1, <1>2, <1>3, <1>4, <1>5 DEF MarkHot, Finish, IInv, TypeOK
  <1>7. /\ db'[f].form = "made" /\ db'[f].fileName = db[f].fileName
        /\ db'[f].remoteURI = db[f].remoteURI /\ db'[f].isLocal = 1
        /\ db'[f].isMetadata = db[f].isMetadata /\ db'[f].isOpen = db[f].isOpen
        /\ db'[f].lastModified = db[f].lastModified
    BY <1>1, <1>2, <1>3, <1>4, <1>5, <1>6, SettersFields DEF SameHash
  <1>8. /\ Moving(f) = "hot" /\ Moving(f)' = "unmeta" /\ Handling(f)' = Handling(f)
        /\ ToPromote(f) /\ ToPromote(f)' /\ ~ToDemote(f) /\ ~ToDemote(f)' /\ ~Stopped /\ ~Stopped'
    BY <1>1, <1>2, <1>3, <1>4, <1>5, <1>6, <1>7 DEF Moving, Handling, ToDemote,
       ToPromote, Stopped, DemotionSteps, PromotionSteps
  <1>9. HashIsWhole(f)'
    BY <1>1, <1>2, <1>3, <1>4, <1>5, <1>6, <1>7, <1>8 DEF FileInv, HashIsWhole,
       Whole, Ages, Flag, NoEntry
  <1>10. HandlerHasHash(f)'
    BY <1>1, <1>2, <1>3, <1>4, <1>5, <1>6, <1>7, <1>8 DEF FileInv,
       HandlerHasHash, Promotion1, OpenSteps, Whole, Fetchable, Current, Ages,
       Flag, NoEntry
  <1>11. HashIffFile(f)'
    BY <1>1, <1>2, <1>3, <1>4, <1>5, <1>6, <1>7, <1>8 DEF FileInv, HashIffFile,
       EventsServed, WillStand, HashStands, Whole, Ages, Flag, NoEntry
  <1>12. DiskHolds(f)'
    BY <1>1, <1>2, <1>3, <1>4, <1>5, <1>6, <1>7, <1>8 DEF FileInv, DiskHolds,
       Promotion1, Current, Whole, Fetchable, Ages, Flag, NoEntry
  <1>13. Somewhere(f)'
    BY <1>1, <1>2, <1>3, <1>4, <1>5, <1>6, <1>7, <1>8 DEF FileInv, Somewhere,
       Whole, Ages, Flag, NoEntry
  <1>14. ColdLeads(f)'
    BY <1>1, <1>2, <1>3, <1>4, <1>5, <1>6, <1>7, <1>8 DEF FileInv, ColdLeads,
       Current, Fetchable, Whole, Ages, Flag, NoEntry
  <1>15. ColdIsFresh(f)'
    BY <1>1, <1>2, <1>3, <1>4, <1>5, <1>6, <1>7, <1>8 DEF FileInv, ColdIsFresh,
       RecallSteps, Whole, Ages, Flag, NoEntry
  <1>16. LocalIsTrue(f)'
    BY <1>1, <1>2, <1>3, <1>4, <1>5, <1>6, <1>7, <1>8 DEF FileInv, LocalIsTrue,
       Promotion1, Current, Whole, Fetchable, Ages, Flag, NoEntry
  <1>17. MarkIsTrue(f)'
    BY <1>1, <1>2, <1>3, <1>4, <1>5, <1>6, <1>7, <1>8 DEF FileInv, MarkIsTrue,
       Whole, Ages, Flag, NoEntry
  <1>18. Recall(f)'
    BY <1>1, <1>2, <1>3, <1>4, <1>5, <1>6, <1>7, <1>8 DEF FileInv, Recall,
       Fetchable, Whole, Ages, Flag, NoEntry
  <1>19. Demotion1(f)'
    BY <1>1, <1>2, <1>3, <1>4, <1>5, <1>6, <1>7, <1>8 DEF FileInv, Demotion1,
       Whole, Ages, Flag, NoEntry
  <1>20. Demotion2(f)'
    BY <1>1, <1>2, <1>3, <1>4, <1>5, <1>6, <1>7, <1>8 DEF FileInv, Demotion2,
       Current, RecallSteps, Whole, Ages, Flag, NoEntry
  <1>21. Promotion1(f)'
    BY <1>1, <1>2, <1>3, <1>4, <1>5, <1>6, <1>7, <1>8 DEF FileInv, Promotion1,
       Whole, Fetchable, Current, Ages, Flag, NoEntry
  <1>22. OpenIsRecent(f)'
    BY <1>1, <1>2, <1>3, <1>4, <1>5, <1>6, <1>7, <1>8 DEF FileInv,
       OpenIsRecent, Current, OpenSteps, RecallSteps, Whole, Ages, Flag,
       NoEntry
  <1> QED
    BY <1>9, <1>10, <1>11, <1>12, <1>13, <1>14, <1>15, <1>16, <1>17, <1>18,
     <1>19, <1>20, <1>21, <1>22 DEF FileInv

\* The mark goes, and the file is done.
LEMMA ClearMetaSafe ==
    ASSUME Calm, IInv, SafetyInv, UNCHANGED <<handlerVars, truth>>,
           NEW f \in Files, f = cur, ClearMeta
    PROVE  FileInv(f)'
  <1>1. /\ FileInv(f) /\ cur = f /\ f # None /\ todo[f] # NoEntry /\ mpc = "unmeta"
        /\ db[f] \in Entries /\ todo[f] \in Entries
        /\ truth[f] # Empty /\ Empty # None
        /\ UNCHANGED <<hfile, hremote, hgot, truth>>
    BY NamesAssumption, ContentsAssumption DEF SafetyInv, ProcessInv,
       handlerVars, ClearMeta, IInv, TypeOK
  <1>2. Promotion1(f) /\ ToPromote(f) /\ Moving(f) = "unmeta"
    BY <1>1 DEF FileInv, ToPromote, Moving, PromotionSteps
  <1>3. db[f].form = "made" /\ Whole(db[f], f) /\ Whole(todo[f], f)
    BY <1>1, <1>2 DEF FileInv, HashIsWhole, NoEntry, Promotion1, Current
  <1>4. /\ SetIsMetadata(db[f], 0) \in Entries
        /\ SetterReturns(SetIsMetadata(db[f], 0))
    BY <1>1, <1>2, <1>3, SettersType, SettersFields DEF Whole, Flag, Entries
  <1>5. /\ db'[f] = SetIsMetadata(db[f], 0) /\ mpc' = "promote"
        /\ UNCHANGED <<disk, bucket, queue, opened, hpc, mgot>>
    BY <1>1, <1>2, <1>3, <1>4, SetFields DEF ClearMeta
  <1>6. todo'[f] = NoEntry /\ cur' = None
    BY <1>1, <1>2, <1>3, <1>4, <1>5 DEF ClearMeta, Finish, IInv, TypeOK
  <1>7. /\ db'[f].form = "made" /\ db'[f].fileName = db[f].fileName
        /\ db'[f].remoteURI = db[f].remoteURI /\ db'[f].isLocal = db[f].isLocal
        /\ db'[f].isMetadata = 0 /\ db'[f].isOpen = db[f].isOpen
        /\ db'[f].lastModified = "recent"
    BY <1>1, <1>2, <1>3, <1>4, <1>5, <1>6, SettersFields DEF SameHash
  <1>8. /\ Moving(f) = "unmeta" /\ Moving(f)' = "off" /\ Handling(f)' = Handling(f)
        /\ ToPromote(f) /\ ~ToPromote(f)' /\ ~ToDemote(f) /\ ~ToDemote(f)' /\ ~Stopped /\ ~Stopped'
    BY <1>1, <1>2, <1>3, <1>4, <1>5, <1>6, <1>7 DEF Moving, Handling, ToDemote,
       ToPromote, Stopped, DemotionSteps, PromotionSteps
  <1>9. HashIsWhole(f)'
    BY <1>1, <1>2, <1>3, <1>4, <1>5, <1>6, <1>7, <1>8 DEF FileInv, HashIsWhole,
       Whole, Ages, Flag, NoEntry
  <1>10. HandlerHasHash(f)'
    BY <1>1, <1>2, <1>3, <1>4, <1>5, <1>6, <1>7, <1>8 DEF FileInv,
       HandlerHasHash, Promotion1, OpenSteps, Whole, Fetchable, Current, Ages,
       Flag, NoEntry
  <1>11. HashIffFile(f)'
    BY <1>1, <1>2, <1>3, <1>4, <1>5, <1>6, <1>7, <1>8 DEF FileInv, HashIffFile,
       EventsServed, WillStand, HashStands, Whole, Ages, Flag, NoEntry
  <1>12. DiskHolds(f)'
    BY <1>1, <1>2, <1>3, <1>4, <1>5, <1>6, <1>7, <1>8 DEF FileInv, DiskHolds,
       Current, Whole, Ages, Flag, NoEntry
  <1>13. Somewhere(f)'
    BY <1>1, <1>2, <1>3, <1>4, <1>5, <1>6, <1>7, <1>8 DEF FileInv, Somewhere,
       Whole, Ages, Flag, NoEntry
  <1>14. ColdLeads(f)'
    BY <1>1, <1>2, <1>3, <1>4, <1>5, <1>6, <1>7, <1>8 DEF FileInv, ColdLeads,
       Current, Fetchable, Whole, Ages, Flag, NoEntry
  <1>15. ColdIsFresh(f)'
    BY <1>1, <1>2, <1>3, <1>4, <1>5, <1>6, <1>7, <1>8 DEF FileInv, ColdIsFresh,
       Promotion1, RecallSteps, Whole, Fetchable, Current, Ages, Flag, NoEntry
  <1>16. LocalIsTrue(f)'
    BY <1>1, <1>2, <1>3, <1>4, <1>5, <1>6, <1>7, <1>8 DEF FileInv, LocalIsTrue,
       Current, Whole, Ages, Flag, NoEntry
  <1>17. MarkIsTrue(f)'
    BY <1>1, <1>2, <1>3, <1>4, <1>5, <1>6, <1>7, <1>8 DEF FileInv, MarkIsTrue,
       Whole, Ages, Flag, NoEntry
  <1>18. Recall(f)'
    BY <1>1, <1>2, <1>3, <1>4, <1>5, <1>6, <1>7, <1>8 DEF FileInv, Recall,
       Fetchable, Whole, Ages, Flag, NoEntry
  <1>19. Demotion1(f)'
    BY <1>1, <1>2, <1>3, <1>4, <1>5, <1>6, <1>7, <1>8 DEF FileInv, Demotion1,
       Whole, Ages, Flag, NoEntry
  <1>20. Demotion2(f)'
    BY <1>1, <1>2, <1>3, <1>4, <1>5, <1>6, <1>7, <1>8 DEF FileInv, Demotion2,
       Current, RecallSteps, Whole, Ages, Flag, NoEntry
  <1>21. Promotion1(f)'
    BY <1>1, <1>2, <1>3, <1>4, <1>5, <1>6, <1>7, <1>8 DEF FileInv, Promotion1,
       Whole, Fetchable, Current, Ages, Flag, NoEntry
  <1>22. OpenIsRecent(f)'
    BY <1>1, <1>2, <1>3, <1>4, <1>5, <1>6, <1>7, <1>8 DEF FileInv,
       OpenIsRecent, Current, OpenSteps, RecallSteps, Whole, Ages, Flag,
       NoEntry
  <1> QED
    BY <1>9, <1>10, <1>11, <1>12, <1>13, <1>14, <1>15, <1>16, <1>17, <1>18,
     <1>19, <1>20, <1>21, <1>22 DEF FileInv

-----------------------------------------------------------------------------
(***************************************************************************)
(* The event handler keeps the invariant of the file of the event.         *)
(***************************************************************************)

\* What was in queue q, given that what is left of it is r.
CreateRead(f, q, r) ==
    /\ NoDelete(f, q) <=> NoDelete(f, r)
    /\ OpenPending(f, q) <=> OpenPending(f, r)
    /\ FreshOpen(f, q) <=> FreshOpen(f, r)
    /\ OpensAreFresh(f, q) <=> OpensAreFresh(f, r)
    /\ ~OnlyCloses(f, q) /\ ~Silent(f, q)
    /\ Recreated(f, q) <=> NoDelete(f, r) \/ Recreated(f, r)
    /\ ServedWithout(f, q) <=> ServedWith(f, r)
    /\ ServedWith(f, q) <=> ServedWith(f, r)

OpenRead(f, q, r) ==
    /\ NoDelete(f, q) <=> NoDelete(f, r)
    /\ OpenPending(f, q)
    /\ FreshOpen(f, q) <=> NoDelete(f, r) \/ FreshOpen(f, r)
    /\ OpensAreFresh(f, q) <=> OpensAreFresh(f, r) /\ NoDelete(f, r)
    /\ ~OnlyCloses(f, q) /\ ~Silent(f, q)
    /\ Recreated(f, q) <=> Recreated(f, r)
    /\ ~ServedWithout(f, q)
    /\ ServedWith(f, q) <=> ServedWith(f, r)

ChangeRead(f, q, r) ==
    /\ NoDelete(f, q) <=> NoDelete(f, r)
    /\ OpenPending(f, q) <=> OpenPending(f, r)
    /\ FreshOpen(f, q) <=> FreshOpen(f, r)
    /\ OpensAreFresh(f, q) <=> OpensAreFresh(f, r)
    /\ OnlyCloses(f, q) => OnlyCloses(f, r)
    /\ ~Silent(f, q)
    /\ Recreated(f, q) <=> Recreated(f, r)
    /\ ~ServedWithout(f, q)
    /\ ServedWith(f, q) <=> ServedWith(f, r)

DeleteRead(f, q, r) ==
    /\ ~NoDelete(f, q)
    /\ OpenPending(f, q) <=> OpenPending(f, r)
    /\ FreshOpen(f, q) <=> FreshOpen(f, r)
    /\ OpensAreFresh(f, q) <=> OpensAreFresh(f, r)
    /\ ~OnlyCloses(f, q) /\ ~Silent(f, q)
    /\ Recreated(f, q) <=> Recreated(f, r)
    /\ ServedWithout(f, q) <=> ServedWithout(f, r)
    /\ ServedWith(f, q) <=> ServedWithout(f, r)

\* What reading the first event of a queue, one of f, tells of the queue.
LEMMA HeadRead ==
    ASSUME NEW f \in Files, NEW q \in Seq(Events), q # <<>>, Head(q).file = f
    PROVE  /\ Head(q).type = "create" => CreateRead(f, q, Tail(q))
           /\ Head(q).type = "open" => OpenRead(f, q, Tail(q))
           /\ Head(q).type \in {"modify", "close"} => ChangeRead(f, q, Tail(q))
           /\ Head(q).type = "close" => (OnlyCloses(f, Tail(q)) => OnlyCloses(f, q))
           /\ Head(q).type = "modify" => ~OnlyCloses(f, q)
           /\ Head(q).type = "delete" => DeleteRead(f, q, Tail(q))
  <1>1. Head(q) = Ev(Head(q).type, f)
    BY TailElements DEF Events, Ev
  <1>2. \A s, t : Ev(s, f) = Ev(t, f) => s = t
    <2> SUFFICES ASSUME NEW s, NEW t, Ev(s, f) = Ev(t, f)
                 PROVE  s = t
      OBVIOUS
    <2>1. Ev(s, f).type = s /\ Ev(t, f).type = t
      BY DEF Ev
    <2> QED BY <2>1
  <1>3. \A s : Head(q) = Ev(s, f) <=> Head(q).type = s
    BY <1>1, <1>2
  <1>4. CASE Head(q).type = "create"
    BY <1>3, <1>4, TailViews, TailHash DEF CreateRead, NeedsHash
  <1>5. CASE Head(q).type = "open"
    BY <1>3, <1>5, TailViews, TailHash DEF OpenRead, NeedsHash
  <1>6. CASE Head(q).type \in {"modify", "close"}
    BY <1>3, <1>6, TailViews, TailHash DEF ChangeRead, NeedsHash
  <1>7. CASE Head(q).type = "delete"
    BY <1>3, <1>7, TailViews, TailHash DEF DeleteRead, NeedsHash
  <1> QED BY <1>4, <1>5, <1>6, <1>7

\* The next event has been read.
LEMMA TakeFields ==
    ASSUME IInv, queue # <<>>, NEW next, next # "dead", Take(next)
    PROVE  /\ hpc' = next /\ queue' = Tail(queue) /\ hgot' = hgot
           /\ hfile' = IF next = "idle" THEN None ELSE Head(queue).file
  BY DEF Take

\* A handler's setter that keeps the hash whole.
LEMMA HandlerSetFields ==
    ASSUME IInv, hfile \in Files, NEW e \in Entries, SetterReturns(e),
           NEW next, next # "dead", HandlerSets(e, next)
    PROVE  /\ db'[hfile] = e /\ hpc' = next
           /\ hfile' = IF next = "idle" THEN None ELSE hfile
           /\ \A f \in Files \ {hfile} : db'[f] = db[f]
           /\ UNCHANGED <<disk, bucket, queue, opened, hgot, oldName>>
  BY DEF HandlerSets, Step, IInv, TypeOK

\* A create event of a file without a hash leads to one; for a file that has
\* one it changes nothing.
LEMMA CreateSafe ==
    ASSUME Calm, IInv, SafetyInv, UNCHANGED <<migratorVars, truth>>,
           NEW f \in Files, queue # <<>>, f = Head(queue).file, Create
    PROVE  FileInv(f)'
  <1>1. /\ FileInv(f) /\ f # None /\ db[f] \in Entries
        /\ truth[f] # Empty /\ truth[f] \in Versions \cup {None} /\ Empty # None
        /\ UNCHANGED <<mpc, todo, cur, mgot, truth>>
    BY NamesAssumption, ContentsAssumption DEF IInv, TypeOK, SafetyInv,
       migratorVars
  <1>2. hpc = "idle" /\ hfile = None /\ Handling(f) = "off" /\ Head(queue).type = "create"
    BY <1>1 DEF Create, At, Handling, SafetyInv, ProcessInv
  <1>3. CreateRead(f, queue, Tail(queue))
    BY <1>1, <1>2, HeadRead DEF IInv, TypeOK
  <1>4. db[f] = NoEntry \/ db[f].form = "made"
    BY <1>1, <1>2, <1>3 DEF FileInv, HashIsWhole, Whole
  <1>5. /\ hpc' = (IF db[f] = NoEntry THEN "insert" ELSE "idle") /\ queue' = Tail(queue)
        /\ hfile' = IF hpc' = "idle" THEN None ELSE f
    BY <1>1, <1>2, <1>3, <1>4 DEF Create, Take, NoEntry
  <1>6. UNCHANGED <<disk, bucket, db, opened, hremote, hgot>>
    BY <1>1, <1>2, <1>3, <1>4, <1>5 DEF Create, Take
  <1>7. /\ Handling(f) = "off" /\ Handling(f)' = (IF db[f] = NoEntry THEN "insert" ELSE "off")
        /\ Moving(f)' = Moving(f)
        /\ Stopped' <=> Stopped
        /\ ToDemote(f)' <=> ToDemote(f)
        /\ ToPromote(f)' <=> ToPromote(f)
    BY <1>1, <1>2, <1>3, <1>4, <1>5, <1>6 DEF Moving, Handling, ToDemote,
       ToPromote, Stopped
  <1>8. HashIsWhole(f)'
    BY <1>1, <1>2, <1>3, <1>4, <1>5, <1>6, <1>7 DEF FileInv, HashIsWhole,
       Whole, CreateRead, NoEntry
  <1>9. HandlerHasHash(f)'
    BY <1>1, <1>2, <1>3, <1>4, <1>5, <1>6, <1>7 DEF FileInv, HandlerHasHash,
       Recall, ColdIsFresh, OpenSteps, Fetchable, RecallSteps, CreateRead,
       NoEntry, Whole
  <1>10. HashIffFile(f)'
    BY <1>1, <1>2, <1>3, <1>4, <1>5, <1>6, <1>7 DEF FileInv, HashIffFile,
       EventsServed, WillStand, HashStands, CreateRead, NoEntry
  <1>11. DiskHolds(f)'
    BY <1>1, <1>2, <1>3, <1>4, <1>5, <1>6, <1>7 DEF FileInv, DiskHolds,
       Current, CreateRead, NoEntry
  <1>12. Somewhere(f)'
    BY <1>1, <1>2, <1>3, <1>4, <1>5, <1>6, <1>7 DEF FileInv, Somewhere,
       CreateRead, NoEntry
  <1>13. ColdLeads(f)'
    BY <1>1, <1>2, <1>3, <1>4, <1>5, <1>6, <1>7 DEF FileInv, ColdLeads,
       Current, Fetchable, CreateRead, NoEntry
  <1>14. ColdIsFresh(f)'
    BY <1>1, <1>2, <1>3, <1>4, <1>5, <1>6, <1>7 DEF FileInv, ColdIsFresh,
       RecallSteps, CreateRead, NoEntry
  <1>15. LocalIsTrue(f)'
    BY <1>1, <1>2, <1>3, <1>4, <1>5, <1>6, <1>7 DEF FileInv, LocalIsTrue,
       Current, CreateRead, NoEntry
  <1>16. MarkIsTrue(f)'
    BY <1>1, <1>2, <1>3, <1>4, <1>5, <1>6, <1>7 DEF FileInv, MarkIsTrue,
       CreateRead, NoEntry
  <1>17. Recall(f)'
    BY <1>1, <1>2, <1>3, <1>4, <1>5, <1>6, <1>7 DEF FileInv, Recall, Fetchable,
       CreateRead, NoEntry
  <1>18. Demotion1(f)'
    BY <1>1, <1>2, <1>3, <1>4, <1>5, <1>6, <1>7 DEF FileInv, Demotion1, Whole,
       CreateRead, NoEntry
  <1>19. Demotion2(f)'
    BY <1>1, <1>2, <1>3, <1>4, <1>5, <1>6, <1>7 DEF FileInv, Demotion2,
       Current, RecallSteps, CreateRead, NoEntry
  <1>20. Promotion1(f)'
    BY <1>1, <1>2, <1>3, <1>4, <1>5, <1>6, <1>7 DEF FileInv, Promotion1, Whole,
       Fetchable, Current, CreateRead, NoEntry
  <1>21. OpenIsRecent(f)'
    BY <1>1, <1>2, <1>3, <1>4, <1>5, <1>6, <1>7 DEF FileInv, OpenIsRecent,
       Current, OpenSteps, RecallSteps, CreateRead, NoEntry
  <1> QED
    BY <1>8, <1>9, <1>10, <1>11, <1>12, <1>13, <1>14, <1>15, <1>16, <1>17, <1>18,
     <1>19, <1>20, <1>21 DEF FileInv

\* An open event is one of a file with a hash, which is read.
LEMMA OpenSafe ==
    ASSUME Calm, IInv, SafetyInv, UNCHANGED <<migratorVars, truth>>,
           NEW f \in Files, queue # <<>>, f = Head(queue).file, Open
    PROVE  FileInv(f)'
  <1>1. /\ FileInv(f) /\ f # None /\ db[f] \in Entries
        /\ truth[f] # Empty /\ truth[f] \in Versions \cup {None} /\ Empty # None
        /\ UNCHANGED <<mpc, todo, cur, mgot, truth>>
    BY NamesAssumption, ContentsAssumption DEF IInv, TypeOK, SafetyInv,
       migratorVars
  <1>2. hpc = "idle" /\ hfile = None /\ Handling(f) = "off" /\ Head(queue).type = "open"
    BY <1>1 DEF Open, At, Handling, SafetyInv, ProcessInv
  <1>3. OpenRead(f, queue, Tail(queue))
    BY <1>1, <1>2, HeadRead DEF IInv, TypeOK
  <1>4. Whole(db[f], f) /\ db[f].form = "made" /\ db[f] # NoEntry
    BY <1>1, <1>2, <1>3 DEF FileInv, HashIsWhole, HashIffFile, EventsServed,
       HashStands, Whole, NoEntry, OpenRead, ChangeRead
  <1>5. /\ hpc' = "openLocal" /\ queue' = Tail(queue) /\ hfile' = f /\ hremote' = db[f].remoteURI
        /\ UNCHANGED <<disk, bucket, db, opened, hgot>>
    BY <1>1, <1>2, <1>3, <1>4 DEF Open, Take, Readable
  <1>6. /\ Handling(f) = "off" /\ Handling(f)' = "openLocal"
        /\ Moving(f)' = Moving(f)
        /\ Stopped' <=> Stopped
        /\ ToDemote(f)' <=> ToDemote(f)
        /\ ToPromote(f)' <=> ToPromote(f)
    BY <1>1, <1>2, <1>3, <1>4, <1>5 DEF Moving, Handling, ToDemote, ToPromote,
       Stopped
  <1>7. HashIsWhole(f)'
    BY <1>1, <1>2, <1>3, <1>4, <1>5, <1>6 DEF FileInv, HashIsWhole, Whole,
       OpenRead, NoEntry
  <1>8. HandlerHasHash(f)'
    BY <1>1, <1>2, <1>3, <1>4, <1>5, <1>6 DEF FileInv, HandlerHasHash,
       OpenSteps, OpenRead, NoEntry, Whole, RecallSteps
  <1>9. HashIffFile(f)'
    BY <1>1, <1>2, <1>3, <1>4, <1>5, <1>6 DEF FileInv, HashIffFile,
       EventsServed, WillStand, HashStands, OpenRead, NoEntry, Whole
  <1>10. DiskHolds(f)'
    BY <1>1, <1>2, <1>3, <1>4, <1>5, <1>6 DEF FileInv, DiskHolds, Current,
       OpenRead, NoEntry, Whole
  <1>11. Somewhere(f)'
    BY <1>1, <1>2, <1>3, <1>4, <1>5, <1>6 DEF FileInv, Somewhere, OpenRead,
       NoEntry, Whole
  <1>12. ColdLeads(f)'
    BY <1>1, <1>2, <1>3, <1>4, <1>5, <1>6 DEF FileInv, ColdLeads, Current,
       Fetchable, OpenRead, NoEntry, Whole
  <1>13. ColdIsFresh(f)'
    BY <1>1, <1>2, <1>3, <1>4, <1>5, <1>6 DEF FileInv, ColdIsFresh,
       RecallSteps, OpenRead, NoEntry, Whole
  <1>14. LocalIsTrue(f)'
    BY <1>1, <1>2, <1>3, <1>4, <1>5, <1>6 DEF FileInv, LocalIsTrue, Current,
       OpenRead, NoEntry, Whole
  <1>15. MarkIsTrue(f)'
    BY <1>1, <1>2, <1>3, <1>4, <1>5, <1>6 DEF FileInv, MarkIsTrue, OpenRead,
       NoEntry, Whole
  <1>16. Recall(f)'
    BY <1>1, <1>2, <1>3, <1>4, <1>5, <1>6 DEF FileInv, Recall, HandlerHasHash,
       ColdIsFresh, DiskHolds, HashIsWhole, Somewhere, LocalIsTrue, Fetchable,
       OpenSteps, RecallSteps, Current, Whole, OpenRead, NoEntry, ColdLeads
  <1>17. Demotion1(f)'
    BY <1>1, <1>2, <1>3, <1>4, <1>5, <1>6 DEF FileInv, Demotion1, Whole,
       OpenRead, NoEntry
  <1>18. Demotion2(f)'
    BY <1>1, <1>2, <1>3, <1>4, <1>5, <1>6 DEF FileInv, Demotion2, Current,
       RecallSteps, OpenRead, NoEntry, Whole
  <1>19. Promotion1(f)'
    BY <1>1, <1>2, <1>3, <1>4, <1>5, <1>6 DEF FileInv, Promotion1, Whole,
       Fetchable, Current, OpenRead, NoEntry
  <1>20. OpenIsRecent(f)'
    BY <1>1, <1>2, <1>3, <1>4, <1>5, <1>6 DEF FileInv, OpenIsRecent, Current,
       OpenSteps, RecallSteps, OpenRead, NoEntry, Whole
  <1> QED
    BY <1>7, <1>8, <1>9, <1>10, <1>11, <1>12, <1>13, <1>14, <1>15, <1>16, <1>17,
     <1>18, <1>19, <1>20 DEF FileInv

\* From a delete event on, the hash counts as gone.
LEMMA DeleteSafe ==
    ASSUME Calm, IInv, SafetyInv, UNCHANGED <<migratorVars, truth>>,
           NEW f \in Files, queue # <<>>, f = Head(queue).file, Delete
    PROVE  FileInv(f)'
  <1>1. /\ FileInv(f) /\ f # None /\ db[f] \in Entries
        /\ truth[f] # Empty /\ truth[f] \in Versions \cup {None} /\ Empty # None
        /\ UNCHANGED <<mpc, todo, cur, mgot, truth>>
    BY NamesAssumption, ContentsAssumption DEF IInv, TypeOK, SafetyInv,
       migratorVars
  <1>2. hpc = "idle" /\ hfile = None /\ Handling(f) = "off" /\ Head(queue).type = "delete"
    BY <1>1 DEF Delete, At, Handling, SafetyInv, ProcessInv
  <1>3. DeleteRead(f, queue, Tail(queue))
    BY <1>1, <1>2, HeadRead DEF IInv, TypeOK
  <1>4. /\ hpc' = "erase" /\ queue' = Tail(queue) /\ hfile' = f
        /\ UNCHANGED <<disk, bucket, db, opened, hremote, hgot>>
    BY <1>1, <1>2, <1>3 DEF Delete, Take, Readable, FileInv, HashIsWhole,
       Whole, NoEntry
  <1>5. /\ Handling(f) = "off" /\ Handling(f)' = "erase"
        /\ Moving(f)' = Moving(f)
        /\ Stopped' <=> Stopped
        /\ ToDemote(f)' <=> ToDemote(f)
        /\ ToPromote(f)' <=> ToPromote(f)
    BY <1>1, <1>2, <1>3, <1>4 DEF Moving, Handling, ToDemote, ToPromote,
       Stopped
  <1>6. HashIsWhole(f)'
    BY <1>1, <1>2, <1>3, <1>4, <1>5 DEF FileInv, HashIsWhole, Whole,
       DeleteRead, NoEntry
  <1>7. HandlerHasHash(f)'
    BY <1>1, <1>2, <1>3, <1>4, <1>5 DEF FileInv, HandlerHasHash, Recall,
       ColdIsFresh, OpenSteps, Fetchable, RecallSteps, DeleteRead, NoEntry,
       Whole
  <1>8. HashIffFile(f)'
    BY <1>1, <1>2, <1>3, <1>4, <1>5 DEF FileInv, HashIffFile, EventsServed,
       WillStand, HashStands, DeleteRead, NoEntry, Whole
  <1>9. DiskHolds(f)'
    BY <1>1, <1>2, <1>3, <1>4, <1>5 DEF FileInv, DiskHolds, Current,
       DeleteRead, NoEntry, Whole
  <1>10. Somewhere(f)'
    BY <1>1, <1>2, <1>3, <1>4, <1>5 DEF FileInv, Somewhere, DeleteRead,
       NoEntry, Whole
  <1>11. ColdLeads(f)'
    BY <1>1, <1>2, <1>3, <1>4, <1>5 DEF FileInv, ColdLeads, Current, Fetchable,
       DeleteRead, NoEntry, Whole
  <1>12. ColdIsFresh(f)'
    BY <1>1, <1>2, <1>3, <1>4, <1>5 DEF FileInv, ColdIsFresh, RecallSteps,
       DeleteRead, NoEntry, Whole
  <1>13. LocalIsTrue(f)'
    BY <1>1, <1>2, <1>3, <1>4, <1>5 DEF FileInv, LocalIsTrue, Current,
       DeleteRead, NoEntry, Whole
  <1>14. MarkIsTrue(f)'
    BY <1>1, <1>2, <1>3, <1>4, <1>5 DEF FileInv, MarkIsTrue, DeleteRead,
       NoEntry, Whole
  <1>15. Recall(f)'
    BY <1>1, <1>2, <1>3, <1>4, <1>5 DEF FileInv, Recall, Fetchable, DeleteRead,
       NoEntry, Whole
  <1>16. Demotion1(f)'
    BY <1>1, <1>2, <1>3, <1>4, <1>5 DEF FileInv, Demotion1, Whole, DeleteRead,
       NoEntry
  <1>17. Demotion2(f)'
    BY <1>1, <1>2, <1>3, <1>4, <1>5 DEF FileInv, Demotion2, Current,
       RecallSteps, DeleteRead, NoEntry, Whole
  <1>18. Promotion1(f)'
    BY <1>1, <1>2, <1>3, <1>4, <1>5 DEF FileInv, Promotion1, Whole, Fetchable,
       Current, DeleteRead, NoEntry
  <1>19. OpenIsRecent(f)'
    BY <1>1, <1>2, <1>3, <1>4, <1>5 DEF FileInv, OpenIsRecent, Current,
       OpenSteps, RecallSteps, DeleteRead, NoEntry, Whole
  <1> QED
    BY <1>6, <1>7, <1>8, <1>9, <1>10, <1>11, <1>12, <1>13, <1>14, <1>15, <1>16,
     <1>17, <1>18, <1>19 DEF FileInv

\* A modify event leads to a new size, unless the file is a placeholder.
LEMMA ModifySafe ==
    ASSUME Calm, IInv, SafetyInv, UNCHANGED <<migratorVars, truth>>,
           NEW f \in Files, queue # <<>>, f = Head(queue).file, Modify
    PROVE  FileInv(f)'
  <1>1. /\ FileInv(f) /\ f # None /\ db[f] \in Entries
        /\ truth[f] # Empty /\ truth[f] \in Versions \cup {None} /\ Empty # None
        /\ UNCHANGED <<mpc, todo, cur, mgot, truth>>
    BY NamesAssumption, ContentsAssumption DEF IInv, TypeOK, SafetyInv,
       migratorVars
  <1>2. hpc = "idle" /\ hfile = None /\ Handling(f) = "off" /\ Head(queue).type = "modify"
    BY <1>1 DEF Modify, At, Handling, SafetyInv, ProcessInv
  <1>3. ChangeRead(f, queue, Tail(queue))
    BY <1>1, <1>2, HeadRead DEF IInv, TypeOK
  <1>4. Whole(db[f], f) /\ db[f].form = "made" /\ db[f] # NoEntry
    BY <1>1, <1>2, <1>3 DEF FileInv, HashIsWhole, HashIffFile, EventsServed,
       HashStands, Whole, NoEntry, OpenRead, ChangeRead
  <1>5. ~OnlyCloses(f, queue)
    BY <1>1, <1>2, <1>3, <1>4, HeadRead DEF IInv, TypeOK
  <1>6. /\ hpc' \in {"resize", "idle"} /\ queue' = Tail(queue)
        /\ hfile' = IF hpc' = "idle" THEN None ELSE f
    BY <1>1, <1>2, <1>3, <1>4, <1>5, NamesAssumption DEF Modify, Take, Whole,
       Flag
  <1>7. UNCHANGED <<disk, bucket, db, opened, hremote, hgot>>
    BY <1>1, <1>2, <1>3, <1>4, <1>5, <1>6 DEF Modify, Take
  <1>8. /\ Handling(f) = "off" /\ Handling(f)' = (IF hpc' = "resize" THEN "resize" ELSE "off")
        /\ Moving(f)' = Moving(f)
        /\ Stopped' <=> Stopped
        /\ ToDemote(f)' <=> ToDemote(f)
        /\ ToPromote(f)' <=> ToPromote(f)
    BY <1>1, <1>2, <1>3, <1>4, <1>5, <1>6, <1>7 DEF Moving, Handling, ToDemote,
       ToPromote, Stopped
  <1>9. HashIsWhole(f)'
    BY <1>1, <1>2, <1>3, <1>4, <1>5, <1>6, <1>7, <1>8 DEF FileInv, HashIsWhole,
       Whole, ChangeRead, NoEntry
  <1>10. HandlerHasHash(f)'
    BY <1>1, <1>2, <1>3, <1>4, <1>5, <1>6, <1>7, <1>8 DEF FileInv,
       HandlerHasHash, OpenSteps, ChangeRead, NoEntry, Whole, RecallSteps
  <1>11. HashIffFile(f)'
    BY <1>1, <1>2, <1>3, <1>4, <1>5, <1>6, <1>7, <1>8 DEF FileInv, HashIffFile,
       EventsServed, WillStand, HashStands, ChangeRead, NoEntry, Whole
  <1>12. DiskHolds(f)'
    BY <1>1, <1>2, <1>3, <1>4, <1>5, <1>6, <1>7, <1>8 DEF FileInv, DiskHolds,
       Current, ChangeRead, NoEntry, Whole
  <1>13. Somewhere(f)'
    BY <1>1, <1>2, <1>3, <1>4, <1>5, <1>6, <1>7, <1>8 DEF FileInv, Somewhere,
       ChangeRead, NoEntry, Whole
  <1>14. ColdLeads(f)'
    BY <1>1, <1>2, <1>3, <1>4, <1>5, <1>6, <1>7, <1>8 DEF FileInv, ColdLeads,
       Current, Fetchable, ChangeRead, NoEntry, Whole
  <1>15. ColdIsFresh(f)'
    BY <1>1, <1>2, <1>3, <1>4, <1>5, <1>6, <1>7, <1>8 DEF FileInv, ColdIsFresh,
       RecallSteps, ChangeRead, NoEntry, Whole
  <1>16. LocalIsTrue(f)'
    BY <1>1, <1>2, <1>3, <1>4, <1>5, <1>6, <1>7, <1>8 DEF FileInv, LocalIsTrue,
       Current, ChangeRead, NoEntry, Whole
  <1>17. MarkIsTrue(f)'
    BY <1>1, <1>2, <1>3, <1>4, <1>5, <1>6, <1>7, <1>8 DEF FileInv, MarkIsTrue,
       ChangeRead, NoEntry, Whole
  <1>18. Recall(f)'
    BY <1>1, <1>2, <1>3, <1>4, <1>5, <1>6, <1>7, <1>8 DEF FileInv, Recall,
       Fetchable, ChangeRead, NoEntry, Whole
  <1>19. Demotion1(f)'
    BY <1>1, <1>2, <1>3, <1>4, <1>5, <1>6, <1>7, <1>8 DEF FileInv, Demotion1,
       Recall, HandlerHasHash, ColdIsFresh, DiskHolds, HashIsWhole, Somewhere,
       LocalIsTrue, Whole, Fetchable, OpenSteps, RecallSteps, Current,
       ChangeRead, NoEntry
  <1>20. Demotion2(f)'
    BY <1>1, <1>2, <1>3, <1>4, <1>5, <1>6, <1>7, <1>8 DEF FileInv, Demotion2,
       Current, RecallSteps, ChangeRead, NoEntry, Whole
  <1>21. Promotion1(f)'
    BY <1>1, <1>2, <1>3, <1>4, <1>5, <1>6, <1>7, <1>8 DEF FileInv, Promotion1,
       Whole, Fetchable, Current, ChangeRead, NoEntry
  <1>22. OpenIsRecent(f)'
    BY <1>1, <1>2, <1>3, <1>4, <1>5, <1>6, <1>7, <1>8 DEF FileInv,
       OpenIsRecent, Current, OpenSteps, RecallSteps, ChangeRead, NoEntry,
       Whole
  <1> QED
    BY <1>9, <1>10, <1>11, <1>12, <1>13, <1>14, <1>15, <1>16, <1>17, <1>18,
     <1>19, <1>20, <1>21, <1>22 DEF FileInv

\* A close event only marks the hash as closed.
LEMMA CloseSafe ==
    ASSUME Calm, IInv, SafetyInv, UNCHANGED <<migratorVars, truth>>,
           NEW f \in Files, queue # <<>>, f = Head(queue).file, Close
    PROVE  FileInv(f)'
  <1>1. /\ FileInv(f) /\ f # None /\ db[f] \in Entries
        /\ truth[f] # Empty /\ truth[f] \in Versions \cup {None} /\ Empty # None
        /\ UNCHANGED <<mpc, todo, cur, mgot, truth>>
    BY NamesAssumption, ContentsAssumption DEF IInv, TypeOK, SafetyInv,
       migratorVars
  <1>2. hpc = "idle" /\ hfile = None /\ Handling(f) = "off" /\ Head(queue).type = "close"
    BY <1>1 DEF Close, At, Handling, SafetyInv, ProcessInv
  <1>3. ChangeRead(f, queue, Tail(queue))
    BY <1>1, <1>2, HeadRead DEF IInv, TypeOK
  <1>4. Whole(db[f], f) /\ db[f].form = "made" /\ db[f] # NoEntry
    BY <1>1, <1>2, <1>3 DEF FileInv, HashIsWhole, HashIffFile, EventsServed,
       HashStands, Whole, NoEntry, OpenRead, ChangeRead
  <1>5. /\ hpc' = "idle" /\ queue' = Tail(queue) /\ hfile' = None /\ db'[f] = SetIsOpen(db[f], 0)
        /\ UNCHANGED <<disk, bucket, opened, hremote, hgot>>
    BY <1>1, <1>2, <1>3, <1>4 DEF Close, Take, IInv, TypeOK
  <1>6. /\ db'[f].form = "made" /\ db'[f].fileName = f
        /\ db'[f].remoteURI = db[f].remoteURI /\ db'[f].isLocal = db[f].isLocal
        /\ db'[f].isMetadata = db[f].isMetadata /\ db'[f].isOpen = 0
        /\ db'[f].lastModified = db[f].lastModified
    BY <1>1, <1>2, <1>3, <1>4, <1>5, SettersFields DEF SameHash, Whole
  <1>7. OnlyCloses(f, Tail(queue)) <=> OnlyCloses(f, queue)
    BY <1>1, <1>2, <1>3, <1>4, <1>5, <1>6, HeadRead DEF ChangeRead, IInv,
       TypeOK
  <1>8. /\ Handling(f) = "off" /\ Handling(f)' = "off"
        /\ Moving(f)' = Moving(f)
        /\ Stopped' <=> Stopped
        /\ ToDemote(f)' <=> ToDemote(f)
        /\ ToPromote(f)' <=> ToPromote(f)
    BY <1>1, <1>2, <1>3, <1>4, <1>5, <1>6, <1>7 DEF Moving, Handling, ToDemote,
       ToPromote, Stopped
  <1>9. HashIsWhole(f)'
    BY <1>1, <1>2, <1>3, <1>4, <1>5, <1>6, <1>7, <1>8 DEF FileInv, HashIsWhole,
       Whole, ChangeRead, NoEntry, Flag
  <1>10. HandlerHasHash(f)'
    BY <1>1, <1>2, <1>3, <1>4, <1>5, <1>6, <1>7, <1>8 DEF FileInv,
       HandlerHasHash, OpenSteps, ChangeRead, NoEntry, Whole, Flag, RecallSteps
  <1>11. HashIffFile(f)'
    BY <1>1, <1>2, <1>3, <1>4, <1>5, <1>6, <1>7, <1>8 DEF FileInv, HashIffFile,
       EventsServed, WillStand, HashStands, ChangeRead, NoEntry, Whole, Flag
  <1>12. DiskHolds(f)'
    BY <1>1, <1>2, <1>3, <1>4, <1>5, <1>6, <1>7, <1>8 DEF FileInv, DiskHolds,
       Current, ChangeRead, NoEntry, Whole, Flag
  <1>13. Somewhere(f)'
    BY <1>1, <1>2, <1>3, <1>4, <1>5, <1>6, <1>7, <1>8 DEF FileInv, Somewhere,
       ChangeRead, NoEntry, Whole, Flag
  <1>14. ColdLeads(f)'
    BY <1>1, <1>2, <1>3, <1>4, <1>5, <1>6, <1>7, <1>8 DEF FileInv, ColdLeads,
       Current, Fetchable, ChangeRead, NoEntry, Whole, Flag
  <1>15. ColdIsFresh(f)'
    BY <1>1, <1>2, <1>3, <1>4, <1>5, <1>6, <1>7, <1>8 DEF FileInv, ColdIsFresh,
       RecallSteps, ChangeRead, NoEntry, Whole, Flag
  <1>16. LocalIsTrue(f)'
    BY <1>1, <1>2, <1>3, <1>4, <1>5, <1>6, <1>7, <1>8 DEF FileInv, LocalIsTrue,
       Current, ChangeRead, NoEntry, Whole, Flag
  <1>17. MarkIsTrue(f)'
    BY <1>1, <1>2, <1>3, <1>4, <1>5, <1>6, <1>7, <1>8 DEF FileInv, MarkIsTrue,
       ChangeRead, NoEntry, Whole, Flag
  <1>18. Recall(f)'
    BY <1>1, <1>2, <1>3, <1>4, <1>5, <1>6, <1>7, <1>8 DEF FileInv, Recall,
       Fetchable, ChangeRead, NoEntry, Whole, Flag
  <1>19. Demotion1(f)'
    BY <1>1, <1>2, <1>3, <1>4, <1>5, <1>6, <1>7, <1>8 DEF FileInv, Demotion1,
       Whole, ChangeRead, NoEntry, Flag
  <1>20. Demotion2(f)'
    BY <1>1, <1>2, <1>3, <1>4, <1>5, <1>6, <1>7, <1>8 DEF FileInv, Demotion2,
       Current, RecallSteps, ChangeRead, NoEntry, Whole, Flag
  <1>21. Promotion1(f)'
    BY <1>1, <1>2, <1>3, <1>4, <1>5, <1>6, <1>7, <1>8 DEF FileInv, Promotion1,
       Whole, Fetchable, Current, ChangeRead, NoEntry, Flag
  <1>22. OpenIsRecent(f)'
    BY <1>1, <1>2, <1>3, <1>4, <1>5, <1>6, <1>7, <1>8 DEF FileInv,
       OpenIsRecent, Current, OpenSteps, RecallSteps, ChangeRead, NoEntry,
       Whole, Flag
  <1> QED
    BY <1>9, <1>10, <1>11, <1>12, <1>13, <1>14, <1>15, <1>16, <1>17, <1>18,
     <1>19, <1>20, <1>21, <1>22 DEF FileInv

\* The hash that is made tells the truth of the file that is there.
LEMMA InsertSafe ==
    ASSUME Calm, IInv, SafetyInv, UNCHANGED <<migratorVars, truth>>,
           NEW f \in Files, f = hfile, Insert
    PROVE  FileInv(f)'
  <1>1. /\ FileInv(f) /\ f # None /\ db[f] \in Entries
        /\ truth[f] # Empty /\ truth[f] \in Versions \cup {None} /\ Empty # None
        /\ UNCHANGED <<mpc, todo, cur, mgot, truth>>
    BY NamesAssumption, ContentsAssumption DEF IInv, TypeOK, SafetyInv,
       migratorVars
  <1>2. hpc = "insert" /\ hfile = f /\ Handling(f) = "insert"
    BY <1>1 DEF Insert, Handling
  <1>3. db[f] = NoEntry
    BY <1>1, <1>2 DEF FileInv, HandlerHasHash
  <1>4. PICK open \in Flag, age \in Ages :
            db' = [db EXCEPT ![f] = HMSET(@, NewFileData(f, open, age))]
    BY <1>1, <1>2, <1>3 DEF Insert
  <1>5. /\ db'[f].form = "made" /\ db'[f].fileName = f /\ db'[f].remoteURI = None /\ db'[f].isLocal = 1
        /\ db'[f].isMetadata = 0 /\ db'[f].isOpen \in Flag /\ db'[f].lastModified \in Ages
    BY <1>1, <1>2, <1>3, <1>4 DEF IInv, TypeOK, HMSET, NewFileData, NoEntry
  <1>6. /\ hpc' = "idle" /\ hfile' = None
        /\ UNCHANGED <<disk, bucket, queue, opened, hremote, hgot>>
    BY <1>1, <1>2, <1>3, <1>4, <1>5 DEF Insert, Step
  <1>7. /\ Handling(f) = "insert" /\ Handling(f)' = "off"
        /\ Moving(f)' = Moving(f)
        /\ Stopped' <=> Stopped
        /\ ToDemote(f)' <=> ToDemote(f)
        /\ ToPromote(f)' <=> ToPromote(f)
    BY <1>1, <1>2, <1>3, <1>4, <1>5, <1>6 DEF Moving, Handling, ToDemote,
       ToPromote, Stopped
  <1>8. HashIsWhole(f)'
    BY <1>1, <1>2, <1>3, <1>4, <1>5, <1>6, <1>7 DEF FileInv, HashIsWhole,
       Whole, NoEntry, Flag
  <1>9. HandlerHasHash(f)'
    BY <1>1, <1>2, <1>3, <1>4, <1>5, <1>6, <1>7 DEF FileInv, HandlerHasHash,
       OpenSteps, NoEntry, Whole, Flag, RecallSteps
  <1>10. HashIffFile(f)'
    BY <1>1, <1>2, <1>3, <1>4, <1>5, <1>6, <1>7 DEF FileInv, HashIffFile,
       EventsServed, WillStand, HashStands, NoEntry, Whole, Flag
  <1>11. DiskHolds(f)'
    BY <1>1, <1>2, <1>3, <1>4, <1>5, <1>6, <1>7 DEF FileInv, DiskHolds,
       Current, NoEntry, Whole, Flag
  <1>12. Somewhere(f)'
    BY <1>1, <1>2, <1>3, <1>4, <1>5, <1>6, <1>7 DEF FileInv, Somewhere,
       NoEntry, Whole, Flag
  <1>13. ColdLeads(f)'
    BY <1>1, <1>2, <1>3, <1>4, <1>5, <1>6, <1>7 DEF FileInv, ColdLeads,
       Current, Fetchable, NoEntry, Whole, Flag
  <1>14. ColdIsFresh(f)'
    BY <1>1, <1>2, <1>3, <1>4, <1>5, <1>6, <1>7 DEF FileInv, ColdIsFresh,
       RecallSteps, NoEntry, Whole, Flag
  <1>15. LocalIsTrue(f)'
    BY <1>1, <1>2, <1>3, <1>4, <1>5, <1>6, <1>7 DEF FileInv, LocalIsTrue,
       HandlerHasHash, HashIffFile, DiskHolds, Current, OpenSteps,
       EventsServed, WillStand, HashStands, NoEntry, Whole, Flag
  <1>16. MarkIsTrue(f)'
    BY <1>1, <1>2, <1>3, <1>4, <1>5, <1>6, <1>7 DEF FileInv, MarkIsTrue,
       NoEntry, Whole, Flag
  <1>17. Recall(f)'
    BY <1>1, <1>2, <1>3, <1>4, <1>5, <1>6, <1>7 DEF FileInv, Recall, Fetchable,
       NoEntry, Whole, Flag
  <1>18. Demotion1(f)'
    BY <1>1, <1>2, <1>3, <1>4, <1>5, <1>6, <1>7 DEF FileInv, Demotion1, Whole,
       NoEntry, Flag
  <1>19. Demotion2(f)'
    BY <1>1, <1>2, <1>3, <1>4, <1>5, <1>6, <1>7 DEF FileInv, Demotion2,
       Current, RecallSteps, NoEntry, Whole, Flag
  <1>20. Promotion1(f)'
    BY <1>1, <1>2, <1>3, <1>4, <1>5, <1>6, <1>7 DEF FileInv, Promotion1, Whole,
       Fetchable, Current, NoEntry, Flag
  <1>21. OpenIsRecent(f)'
    BY <1>1, <1>2, <1>3, <1>4, <1>5, <1>6, <1>7 DEF FileInv, OpenIsRecent,
       Current, OpenSteps, RecallSteps, NoEntry, Whole, Flag
  <1> QED
    BY <1>8, <1>9, <1>10, <1>11, <1>12, <1>13, <1>14, <1>15, <1>16, <1>17, <1>18,
     <1>19, <1>20, <1>21 DEF FileInv

\* The erasing of a hash that counts as gone.
LEMMA EraseSafe ==
    ASSUME Calm, IInv, SafetyInv, UNCHANGED <<migratorVars, truth>>,
           NEW f \in Files, f = hfile, Erase
    PROVE  FileInv(f)'
  <1>1. /\ FileInv(f) /\ f # None /\ db[f] \in Entries
        /\ truth[f] # Empty /\ truth[f] \in Versions \cup {None} /\ Empty # None
        /\ UNCHANGED <<mpc, todo, cur, mgot, truth>>
    BY NamesAssumption, ContentsAssumption DEF IInv, TypeOK, SafetyInv,
       migratorVars
  <1>2. hpc = "erase" /\ hfile = f /\ Handling(f) = "erase"
    BY <1>1 DEF Erase, Handling
  <1>3. /\ db'[f] = NoEntry /\ hpc' = "idle" /\ hfile' = None
        /\ UNCHANGED <<disk, bucket, queue, opened, hremote, hgot>>
    BY <1>1, <1>2 DEF Erase, Step, IInv, TypeOK
  <1>4. /\ Handling(f) = "erase" /\ Handling(f)' = "off"
        /\ Moving(f)' = Moving(f)
        /\ Stopped' <=> Stopped
        /\ ToDemote(f)' <=> ToDemote(f)
        /\ ToPromote(f)' <=> ToPromote(f)
    BY <1>1, <1>2, <1>3 DEF Moving, Handling, ToDemote, ToPromote, Stopped
  <1>5. HashIsWhole(f)'
    BY <1>1, <1>2, <1>3, <1>4 DEF FileInv, HashIsWhole, Whole, NoEntry
  <1>6. HandlerHasHash(f)'
    BY <1>1, <1>2, <1>3, <1>4 DEF FileInv, HandlerHasHash, OpenSteps, NoEntry,
       RecallSteps, Whole
  <1>7. HashIffFile(f)'
    BY <1>1, <1>2, <1>3, <1>4 DEF FileInv, HashIffFile, EventsServed,
       WillStand, HashStands, NoEntry
  <1>8. DiskHolds(f)'
    BY <1>1, <1>2, <1>3, <1>4 DEF FileInv, DiskHolds, Current, NoEntry
  <1>9. Somewhere(f)'
    BY <1>1, <1>2, <1>3, <1>4 DEF FileInv, Somewhere, NoEntry
  <1>10. ColdLeads(f)'
    BY <1>1, <1>2, <1>3, <1>4 DEF FileInv, ColdLeads, Current, Fetchable,
       NoEntry
  <1>11. ColdIsFresh(f)'
    BY <1>1, <1>2, <1>3, <1>4 DEF FileInv, ColdIsFresh, RecallSteps, NoEntry
  <1>12. LocalIsTrue(f)'
    BY <1>1, <1>2, <1>3, <1>4 DEF FileInv, LocalIsTrue, Current, NoEntry
  <1>13. MarkIsTrue(f)'
    BY <1>1, <1>2, <1>3, <1>4 DEF FileInv, MarkIsTrue, NoEntry
  <1>14. Recall(f)'
    BY <1>1, <1>2, <1>3, <1>4 DEF FileInv, Recall, Fetchable, NoEntry
  <1>15. Demotion1(f)'
    BY <1>1, <1>2, <1>3, <1>4 DEF FileInv, Demotion1, Whole, NoEntry
  <1>16. Demotion2(f)'
    BY <1>1, <1>2, <1>3, <1>4 DEF FileInv, Demotion2, Current, RecallSteps,
       NoEntry
  <1>17. Promotion1(f)'
    BY <1>1, <1>2, <1>3, <1>4 DEF FileInv, Promotion1, Whole, Fetchable,
       Current, NoEntry
  <1>18. OpenIsRecent(f)'
    BY <1>1, <1>2, <1>3, <1>4 DEF FileInv, OpenIsRecent, Current, OpenSteps,
       RecallSteps, NoEntry
  <1> QED
    BY <1>5, <1>6, <1>7, <1>8, <1>9, <1>10, <1>11, <1>12, <1>13, <1>14, <1>15,
     <1>16, <1>17, <1>18 DEF FileInv

\* A local file needs no recall.
LEMMA OpenLocalSafe ==
    ASSUME Calm, IInv, SafetyInv, UNCHANGED <<migratorVars, truth>>,
           NEW f \in Files, f = hfile, OpenLocal
    PROVE  FileInv(f)'
  <1>1. /\ FileInv(f) /\ f # None /\ db[f] \in Entries
        /\ truth[f] # Empty /\ truth[f] \in Versions \cup {None} /\ Empty # None
        /\ UNCHANGED <<mpc, todo, cur, mgot, truth>>
    BY NamesAssumption, ContentsAssumption DEF IInv, TypeOK, SafetyInv,
       migratorVars
  <1>2. hpc = "openLocal" /\ hfile = f /\ Handling(f) = "openLocal"
    BY <1>1 DEF OpenLocal, Handling
  <1>3. Whole(db[f], f) /\ db[f].form = "made" /\ db[f] # NoEntry
    BY <1>1, <1>2 DEF FileInv, HashIsWhole, HandlerHasHash, OpenSteps,
       RecallSteps, Whole, NoEntry
  <1>4. /\ hpc' = IF db[f].isLocal = 1 THEN "openMark" ELSE "openMeta"
        /\ hremote' = (IF db[f].isLocal = 1 THEN None ELSE hremote) /\ hfile' = f
        /\ UNCHANGED <<disk, bucket, db, queue, opened, hgot>>
    BY <1>1, <1>2, <1>3, NamesAssumption DEF OpenLocal, Step, Whole, Flag
  <1>5. /\ Handling(f) = "openLocal" /\ Handling(f)' = hpc'
        /\ Moving(f)' = Moving(f)
        /\ Stopped' <=> Stopped
        /\ ToDemote(f)' <=> ToDemote(f)
        /\ ToPromote(f)' <=> ToPromote(f)
    BY <1>1, <1>2, <1>3, <1>4 DEF Moving, Handling, ToDemote, ToPromote,
       Stopped
  <1>6. HashIsWhole(f)'
    BY <1>1, <1>2, <1>3, <1>4, <1>5 DEF FileInv, HashIsWhole, Whole, Flag
  <1>7. HandlerHasHash(f)'
    BY <1>1, <1>2, <1>3, <1>4, <1>5 DEF FileInv, HandlerHasHash, OpenSteps,
       Whole, Flag, RecallSteps, NoEntry
  <1>8. HashIffFile(f)'
    BY <1>1, <1>2, <1>3, <1>4, <1>5 DEF FileInv, HashIffFile, EventsServed,
       WillStand, HashStands, Whole, Flag
  <1>9. DiskHolds(f)'
    BY <1>1, <1>2, <1>3, <1>4, <1>5 DEF FileInv, DiskHolds, Current, Whole,
       Flag
  <1>10. Somewhere(f)'
    BY <1>1, <1>2, <1>3, <1>4, <1>5 DEF FileInv, Somewhere, Whole, Flag
  <1>11. ColdLeads(f)'
    BY <1>1, <1>2, <1>3, <1>4, <1>5 DEF FileInv, ColdLeads, Current, Fetchable,
       Whole, Flag
  <1>12. ColdIsFresh(f)'
    BY <1>1, <1>2, <1>3, <1>4, <1>5 DEF FileInv, ColdIsFresh, RecallSteps,
       Whole, Flag
  <1>13. LocalIsTrue(f)'
    BY <1>1, <1>2, <1>3, <1>4, <1>5 DEF FileInv, LocalIsTrue, Current, Whole,
       Flag
  <1>14. MarkIsTrue(f)'
    BY <1>1, <1>2, <1>3, <1>4, <1>5 DEF FileInv, MarkIsTrue, Whole, Flag
  <1>15. Recall(f)'
    BY <1>1, <1>2, <1>3, <1>4, <1>5 DEF FileInv, Recall, HandlerHasHash,
       ColdIsFresh, DiskHolds, HashIsWhole, Somewhere, LocalIsTrue, Fetchable,
       OpenSteps, RecallSteps, Current, Whole, Flag, ColdLeads
  <1>16. Demotion1(f)'
    BY <1>1, <1>2, <1>3, <1>4, <1>5 DEF FileInv, Demotion1, Whole, Flag
  <1>17. Demotion2(f)'
    BY <1>1, <1>2, <1>3, <1>4, <1>5 DEF FileInv, Demotion2, Current,
       RecallSteps, Whole, Flag
  <1>18. Promotion1(f)'
    BY <1>1, <1>2, <1>3, <1>4, <1>5 DEF FileInv, Promotion1, Whole, Fetchable,
       Current, Flag
  <1>19. OpenIsRecent(f)'
    BY <1>1, <1>2, <1>3, <1>4, <1>5 DEF FileInv, OpenIsRecent, Current,
       OpenSteps, RecallSteps, Whole, Flag
  <1> QED
    BY <1>6, <1>7, <1>8, <1>9, <1>10, <1>11, <1>12, <1>13, <1>14, <1>15, <1>16,
     <1>17, <1>18, <1>19 DEF FileInv

\* A cold file is marked and is fetched back.
LEMMA OpenMetaSafe ==
    ASSUME Calm, IInv, SafetyInv, UNCHANGED <<migratorVars, truth>>,
           NEW f \in Files, f = hfile, OpenMeta
    PROVE  FileInv(f)'
  <1>1. /\ FileInv(f) /\ f # None /\ db[f] \in Entries
        /\ truth[f] # Empty /\ truth[f] \in Versions \cup {None} /\ Empty # None
        /\ UNCHANGED <<mpc, todo, cur, mgot, truth>>
    BY NamesAssumption, ContentsAssumption DEF IInv, TypeOK, SafetyInv,
       migratorVars
  <1>2. hpc = "openMeta" /\ hfile = f /\ Handling(f) = "openMeta"
    BY <1>1 DEF OpenMeta, Handling
  <1>3. Whole(db[f], f) /\ db[f].form = "made" /\ db[f] # NoEntry
    BY <1>1, <1>2 DEF FileInv, HashIsWhole, HandlerHasHash, OpenSteps,
       RecallSteps, Whole, NoEntry
  <1>4. /\ hpc' = IF db[f].isMetadata = 0 THEN "openMark" ELSE "get"
        /\ hremote' = (IF db[f].isMetadata = 0 THEN None ELSE hremote) /\ hfile' = f
        /\ UNCHANGED <<disk, bucket, db, queue, opened, hgot>>
    BY <1>1, <1>2, <1>3, NamesAssumption DEF OpenMeta, Step, Whole, Flag
  <1>5. /\ Handling(f) = "openMeta" /\ Handling(f)' = hpc'
        /\ Moving(f)' = Moving(f)
        /\ Stopped' <=> Stopped
        /\ ToDemote(f)' <=> ToDemote(f)
        /\ ToPromote(f)' <=> ToPromote(f)
    BY <1>1, <1>2, <1>3, <1>4 DEF Moving, Handling, ToDemote, ToPromote,
       Stopped
  <1>6. HashIsWhole(f)'
    BY <1>1, <1>2, <1>3, <1>4, <1>5 DEF FileInv, HashIsWhole, Whole, Flag
  <1>7. HandlerHasHash(f)'
    BY <1>1, <1>2, <1>3, <1>4, <1>5 DEF FileInv, HandlerHasHash, OpenSteps,
       Whole, Flag, RecallSteps, NoEntry
  <1>8. HashIffFile(f)'
    BY <1>1, <1>2, <1>3, <1>4, <1>5 DEF FileInv, HashIffFile, EventsServed,
       WillStand, HashStands, Whole, Flag
  <1>9. DiskHolds(f)'
    BY <1>1, <1>2, <1>3, <1>4, <1>5 DEF FileInv, DiskHolds, Current, Whole,
       Flag
  <1>10. Somewhere(f)'
    BY <1>1, <1>2, <1>3, <1>4, <1>5 DEF FileInv, Somewhere, Whole, Flag
  <1>11. ColdLeads(f)'
    BY <1>1, <1>2, <1>3, <1>4, <1>5 DEF FileInv, ColdLeads, Recall,
       HandlerHasHash, ColdIsFresh, Current, Fetchable, OpenSteps, RecallSteps,
       Whole, Flag
  <1>12. ColdIsFresh(f)'
    BY <1>1, <1>2, <1>3, <1>4, <1>5 DEF FileInv, ColdIsFresh, RecallSteps,
       Whole, Flag
  <1>13. LocalIsTrue(f)'
    BY <1>1, <1>2, <1>3, <1>4, <1>5 DEF FileInv, LocalIsTrue, Current, Whole,
       Flag
  <1>14. MarkIsTrue(f)'
    BY <1>1, <1>2, <1>3, <1>4, <1>5 DEF FileInv, MarkIsTrue, Whole, Flag
  <1>15. Recall(f)'
    BY <1>1, <1>2, <1>3, <1>4, <1>5 DEF FileInv, Recall, Fetchable, Whole, Flag
  <1>16. Demotion1(f)'
    BY <1>1, <1>2, <1>3, <1>4, <1>5 DEF FileInv, Demotion1, Whole, Flag
  <1>17. Demotion2(f)'
    BY <1>1, <1>2, <1>3, <1>4, <1>5 DEF FileInv, Demotion2, Current,
       RecallSteps, Whole, Flag
  <1>18. Promotion1(f)'
    BY <1>1, <1>2, <1>3, <1>4, <1>5 DEF FileInv, Promotion1, Whole, Fetchable,
       Current, Flag
  <1>19. OpenIsRecent(f)'
    BY <1>1, <1>2, <1>3, <1>4, <1>5 DEF FileInv, OpenIsRecent, Current,
       OpenSteps, RecallSteps, Whole, Flag
  <1> QED
    BY <1>6, <1>7, <1>8, <1>9, <1>10, <1>11, <1>12, <1>13, <1>14, <1>15, <1>16,
     <1>17, <1>18, <1>19 DEF FileInv

\* The body of the object is the content of the file.
LEMMA RecallGetSafe ==
    ASSUME Calm, IInv, SafetyInv, UNCHANGED <<migratorVars, truth>>,
           NEW f \in Files, f = hfile, RecallGet
    PROVE  FileInv(f)'
  <1>1. /\ FileInv(f) /\ f # None /\ db[f] \in Entries
        /\ truth[f] # Empty /\ truth[f] \in Versions \cup {None} /\ Empty # None
        /\ UNCHANGED <<mpc, todo, cur, mgot, truth>>
    BY NamesAssumption, ContentsAssumption DEF IInv, TypeOK, SafetyInv,
       migratorVars
  <1>2. hpc = "get" /\ hfile = f /\ Handling(f) = "get"
    BY <1>1 DEF RecallGet, Handling
  <1>3. /\ hremote = f /\ bucket[f] # None /\ hgot' = bucket[f] /\ hpc' = "write" /\ hfile' = f
        /\ UNCHANGED <<disk, bucket, db, queue, opened, hremote>>
    BY <1>1, <1>2, NamesAssumption DEF RecallGet, InBucket, Step, FileInv,
       Recall
  <1>4. /\ Handling(f) = "get" /\ Handling(f)' = "write"
        /\ Moving(f)' = Moving(f)
        /\ Stopped' <=> Stopped
        /\ ToDemote(f)' <=> ToDemote(f)
        /\ ToPromote(f)' <=> ToPromote(f)
    BY <1>1, <1>2, <1>3 DEF Moving, Handling, ToDemote, ToPromote, Stopped
  <1>5. HashIsWhole(f)'
    BY <1>1, <1>2, <1>3, <1>4 DEF FileInv, HashIsWhole, Whole
  <1>6. HandlerHasHash(f)'
    BY <1>1, <1>2, <1>3, <1>4 DEF FileInv, HandlerHasHash, Recall, ColdIsFresh,
       OpenSteps, Fetchable, RecallSteps, NoEntry, Whole
  <1>7. HashIffFile(f)'
    BY <1>1, <1>2, <1>3, <1>4 DEF FileInv, HashIffFile, EventsServed,
       WillStand, HashStands
  <1>8. DiskHolds(f)'
    BY <1>1, <1>2, <1>3, <1>4 DEF FileInv, DiskHolds, Current
  <1>9. Somewhere(f)'
    BY <1>1, <1>2, <1>3, <1>4 DEF FileInv, Somewhere
  <1>10. ColdLeads(f)'
    BY <1>1, <1>2, <1>3, <1>4 DEF FileInv, ColdLeads, Current, Fetchable
  <1>11. ColdIsFresh(f)'
    BY <1>1, <1>2, <1>3, <1>4 DEF FileInv, ColdIsFresh, RecallSteps
  <1>12. LocalIsTrue(f)'
    BY <1>1, <1>2, <1>3, <1>4 DEF FileInv, LocalIsTrue, Current
  <1>13. MarkIsTrue(f)'
    BY <1>1, <1>2, <1>3, <1>4 DEF FileInv, MarkIsTrue
  <1>14. Recall(f)'
    BY <1>1, <1>2, <1>3, <1>4 DEF FileInv, Recall, Fetchable
  <1>15. Demotion1(f)'
    BY <1>1, <1>2, <1>3, <1>4 DEF FileInv, Demotion1, Whole
  <1>16. Demotion2(f)'
    BY <1>1, <1>2, <1>3, <1>4 DEF FileInv, Demotion2, Current, RecallSteps
  <1>17. Promotion1(f)'
    BY <1>1, <1>2, <1>3, <1>4 DEF FileInv, Promotion1, Whole, Fetchable,
       Current
  <1>18. OpenIsRecent(f)'
    BY <1>1, <1>2, <1>3, <1>4 DEF FileInv, OpenIsRecent, Current, OpenSteps,
       RecallSteps
  <1> QED
    BY <1>5, <1>6, <1>7, <1>8, <1>9, <1>10, <1>11, <1>12, <1>13, <1>14, <1>15,
     <1>16, <1>17, <1>18 DEF FileInv

\* There is no object only when the content is back already.
LEMMA RecallGetFailsSafe ==
    ASSUME Calm, IInv, SafetyInv, UNCHANGED <<migratorVars, truth>>,
           NEW f \in Files, f = hfile, RecallGetFails
    PROVE  FileInv(f)'
  <1>1. /\ FileInv(f) /\ f # None /\ db[f] \in Entries
        /\ truth[f] # Empty /\ truth[f] \in Versions \cup {None} /\ Empty # None
        /\ UNCHANGED <<mpc, todo, cur, mgot, truth>>
    BY NamesAssumption, ContentsAssumption DEF IInv, TypeOK, SafetyInv,
       migratorVars
  <1>2. hpc = "get" /\ hfile = f /\ Handling(f) = "get"
    BY <1>1 DEF RecallGetFails, Handling
  <1>3. /\ ~InBucket(hremote) /\ hpc' = "unlink" /\ hfile' = f
        /\ UNCHANGED <<disk, bucket, db, queue, opened, hremote, hgot>>
    BY <1>1, <1>2 DEF RecallGetFails, Step, Calm
  <1>4. disk[f] = truth[f] /\ hremote # Nil
    BY <1>1, <1>2, <1>3, NamesAssumption DEF FileInv, Recall, Fetchable,
       Somewhere, InBucket
  <1>5. /\ Handling(f) = "get" /\ Handling(f)' = "unlink"
        /\ Moving(f)' = Moving(f)
        /\ Stopped' <=> Stopped
        /\ ToDemote(f)' <=> ToDemote(f)
        /\ ToPromote(f)' <=> ToPromote(f)
    BY <1>1, <1>2, <1>3, <1>4 DEF Moving, Handling, ToDemote, ToPromote,
       Stopped
  <1>6. HashIsWhole(f)'
    BY <1>1, <1>2, <1>3, <1>4, <1>5 DEF FileInv, HashIsWhole, Whole
  <1>7. HandlerHasHash(f)'
    BY <1>1, <1>2, <1>3, <1>4, <1>5 DEF FileInv, HandlerHasHash, Recall,
       ColdIsFresh, Somewhere, OpenSteps, Fetchable, RecallSteps, NoEntry,
       Whole
  <1>8. HashIffFile(f)'
    BY <1>1, <1>2, <1>3, <1>4, <1>5 DEF FileInv, HashIffFile, EventsServed,
       WillStand, HashStands
  <1>9. DiskHolds(f)'
    BY <1>1, <1>2, <1>3, <1>4, <1>5 DEF FileInv, DiskHolds, Current
  <1>10. Somewhere(f)'
    BY <1>1, <1>2, <1>3, <1>4, <1>5 DEF FileInv, Somewhere
  <1>11. ColdLeads(f)'
    BY <1>1, <1>2, <1>3, <1>4, <1>5 DEF FileInv, ColdLeads, Current, Fetchable
  <1>12. ColdIsFresh(f)'
    BY <1>1, <1>2, <1>3, <1>4, <1>5 DEF FileInv, ColdIsFresh, RecallSteps
  <1>13. LocalIsTrue(f)'
    BY <1>1, <1>2, <1>3, <1>4, <1>5 DEF FileInv, LocalIsTrue, Current
  <1>14. MarkIsTrue(f)'
    BY <1>1, <1>2, <1>3, <1>4, <1>5 DEF FileInv, MarkIsTrue
  <1>15. Recall(f)'
    BY <1>1, <1>2, <1>3, <1>4, <1>5 DEF FileInv, Recall, Fetchable
  <1>16. Demotion1(f)'
    BY <1>1, <1>2, <1>3, <1>4, <1>5 DEF FileInv, Demotion1, Whole
  <1>17. Demotion2(f)'
    BY <1>1, <1>2, <1>3, <1>4, <1>5 DEF FileInv, Demotion2, Current,
       RecallSteps
  <1>18. Promotion1(f)'
    BY <1>1, <1>2, <1>3, <1>4, <1>5 DEF FileInv, Promotion1, Whole, Fetchable,
       Current
  <1>19. OpenIsRecent(f)'
    BY <1>1, <1>2, <1>3, <1>4, <1>5 DEF FileInv, OpenIsRecent, Current,
       OpenSteps, RecallSteps
  <1> QED
    BY <1>6, <1>7, <1>8, <1>9, <1>10, <1>11, <1>12, <1>13, <1>14, <1>15, <1>16,
     <1>17, <1>18, <1>19 DEF FileInv

\* It replaces the placeholder.
LEMMA RecallWriteSafe ==
    ASSUME Calm, IInv, SafetyInv, UNCHANGED <<migratorVars, truth>>,
           NEW f \in Files, f = hfile, RecallWrite
    PROVE  FileInv(f)'
  <1>1. /\ FileInv(f) /\ f # None /\ db[f] \in Entries
        /\ truth[f] # Empty /\ truth[f] \in Versions \cup {None} /\ Empty # None
        /\ UNCHANGED <<mpc, todo, cur, mgot, truth>>
    BY NamesAssumption, ContentsAssumption DEF IInv, TypeOK, SafetyInv,
       migratorVars
  <1>2. hpc = "write" /\ hfile = f /\ Handling(f) = "write"
    BY <1>1 DEF RecallWrite, Handling
  <1>3. disk[f] # None
    BY <1>1, <1>2 DEF FileInv, Recall, Fetchable
  <1>4. /\ disk'[f] = hgot /\ hgot' = None /\ hpc' = "delete" /\ hfile' = f
        /\ UNCHANGED <<bucket, db, opened, hremote>>
    BY <1>1, <1>2, <1>3 DEF RecallWrite, IInv, TypeOK
  <1>5. Reopened(f, queue, queue')
    BY <1>1, <1>2, <1>3, <1>4, OwnEventsViews DEF RecallWrite, Notify, IInv,
       TypeOK
  <1>6. /\ Handling(f) = "write" /\ Handling(f)' = "delete"
        /\ Moving(f)' = Moving(f)
        /\ Stopped' <=> Stopped
        /\ ToDemote(f)' <=> ToDemote(f)
        /\ ToPromote(f)' <=> ToPromote(f)
    BY <1>1, <1>2, <1>3, <1>4, <1>5 DEF Moving, Handling, ToDemote, ToPromote,
       Stopped
  <1>7. HashIsWhole(f)'
    BY <1>1, <1>2, <1>3, <1>4, <1>5, <1>6 DEF FileInv, HashIsWhole, Whole,
       Reopened, Used
  <1>8. HandlerHasHash(f)'
    BY <1>1, <1>2, <1>3, <1>4, <1>5, <1>6 DEF FileInv, HandlerHasHash, Recall,
       ColdIsFresh, OpenSteps, Fetchable, RecallSteps, Reopened, Used, NoEntry,
       Whole
  <1>9. HashIffFile(f)'
    BY <1>1, <1>2, <1>3, <1>4, <1>5, <1>6 DEF FileInv, HashIffFile, Recall,
       HandlerHasHash, ColdIsFresh, EventsServed, WillStand, HashStands,
       Fetchable, OpenSteps, RecallSteps, Reopened, Used
  <1>10. DiskHolds(f)'
    BY <1>1, <1>2, <1>3, <1>4, <1>5, <1>6 DEF FileInv, DiskHolds, Recall,
       HandlerHasHash, ColdIsFresh, Current, Fetchable, OpenSteps, RecallSteps,
       Reopened, Used
  <1>11. Somewhere(f)'
    BY <1>1, <1>2, <1>3, <1>4, <1>5, <1>6 DEF FileInv, Somewhere, Recall,
       HandlerHasHash, ColdIsFresh, Fetchable, OpenSteps, RecallSteps,
       Reopened, Used
  <1>12. ColdLeads(f)'
    BY <1>1, <1>2, <1>3, <1>4, <1>5, <1>6 DEF FileInv, ColdLeads, Recall,
       HandlerHasHash, ColdIsFresh, Current, Fetchable, OpenSteps, RecallSteps,
       Reopened, Used
  <1>13. ColdIsFresh(f)'
    BY <1>1, <1>2, <1>3, <1>4, <1>5, <1>6 DEF FileInv, ColdIsFresh,
       RecallSteps, Reopened, Used
  <1>14. LocalIsTrue(f)'
    BY <1>1, <1>2, <1>3, <1>4, <1>5, <1>6 DEF FileInv, LocalIsTrue, Recall,
       HandlerHasHash, ColdIsFresh, Current, Fetchable, OpenSteps, RecallSteps,
       Reopened, Used
  <1>15. MarkIsTrue(f)'
    BY <1>1, <1>2, <1>3, <1>4, <1>5, <1>6 DEF FileInv, MarkIsTrue, Reopened,
       Used
  <1>16. Recall(f)'
    BY <1>1, <1>2, <1>3, <1>4, <1>5, <1>6 DEF FileInv, Recall, Fetchable,
       Reopened, Used
  <1>17. Demotion1(f)'
    BY <1>1, <1>2, <1>3, <1>4, <1>5, <1>6 DEF FileInv, Demotion1, Whole,
       Reopened, Used
  <1>18. Demotion2(f)'
    BY <1>1, <1>2, <1>3, <1>4, <1>5, <1>6 DEF FileInv, Demotion2, Current,
       RecallSteps, Reopened, Used
  <1>19. Promotion1(f)'
    BY <1>1, <1>2, <1>3, <1>4, <1>5, <1>6 DEF FileInv, Promotion1, Recall,
       HandlerHasHash, ColdIsFresh, Whole, Fetchable, Current, OpenSteps,
       RecallSteps, Reopened, Used
  <1>20. OpenIsRecent(f)'
    BY <1>1, <1>2, <1>3, <1>4, <1>5, <1>6 DEF FileInv, OpenIsRecent, Recall,
       HandlerHasHash, ColdIsFresh, Current, OpenSteps, RecallSteps, Fetchable,
       Reopened, Used
  <1> QED
    BY <1>7, <1>8, <1>9, <1>10, <1>11, <1>12, <1>13, <1>14, <1>15, <1>16, <1>17,
     <1>18, <1>19, <1>20 DEF FileInv

\* The object goes when the content is back.
LEMMA RecallDeleteSafe ==
    ASSUME Calm, IInv, SafetyInv, UNCHANGED <<migratorVars, truth>>,
           NEW f \in Files, f = hfile, RecallDelete
    PROVE  FileInv(f)'
  <1>1. /\ FileInv(f) /\ f # None /\ db[f] \in Entries
        /\ truth[f] # Empty /\ truth[f] \in Versions \cup {None} /\ Empty # None
        /\ UNCHANGED <<mpc, todo, cur, mgot, truth>>
    BY NamesAssumption, ContentsAssumption DEF IInv, TypeOK, SafetyInv,
       migratorVars
  <1>2. hpc = "delete" /\ hfile = f /\ Handling(f) = "delete"
    BY <1>1 DEF RecallDelete, Handling
  <1>3. hremote = f
    BY <1>1, <1>2 DEF FileInv, Recall
  <1>4. /\ bucket'[f] = None /\ hpc' = "unlink" /\ hfile' = f
        /\ UNCHANGED <<disk, db, queue, opened, hremote, hgot>>
    BY <1>1, <1>2, <1>3 DEF RecallDelete, Step, IInv, TypeOK
  <1>5. /\ Handling(f) = "delete" /\ Handling(f)' = "unlink"
        /\ Moving(f)' = Moving(f)
        /\ Stopped' <=> Stopped
        /\ ToDemote(f)' <=> ToDemote(f)
        /\ ToPromote(f)' <=> ToPromote(f)
    BY <1>1, <1>2, <1>3, <1>4 DEF Moving, Handling, ToDemote, ToPromote,
       Stopped
  <1>6. HashIsWhole(f)'
    BY <1>1, <1>2, <1>3, <1>4, <1>5 DEF FileInv, HashIsWhole, Whole
  <1>7. HandlerHasHash(f)'
    BY <1>1, <1>2, <1>3, <1>4, <1>5 DEF FileInv, HandlerHasHash, Recall,
       ColdIsFresh, OpenSteps, Fetchable, RecallSteps, NoEntry, Whole
  <1>8. HashIffFile(f)'
    BY <1>1, <1>2, <1>3, <1>4, <1>5 DEF FileInv, HashIffFile, EventsServed,
       WillStand, HashStands
  <1>9. DiskHolds(f)'
    BY <1>1, <1>2, <1>3, <1>4, <1>5 DEF FileInv, DiskHolds, Current
  <1>10. Somewhere(f)'
    BY <1>1, <1>2, <1>3, <1>4, <1>5 DEF FileInv, Somewhere, Recall,
       HandlerHasHash, ColdIsFresh, Fetchable, OpenSteps, RecallSteps
  <1>11. ColdLeads(f)'
    BY <1>1, <1>2, <1>3, <1>4, <1>5 DEF FileInv, ColdLeads, Current, Fetchable
  <1>12. ColdIsFresh(f)'
    BY <1>1, <1>2, <1>3, <1>4, <1>5 DEF FileInv, ColdIsFresh, RecallSteps
  <1>13. LocalIsTrue(f)'
    BY <1>1, <1>2, <1>3, <1>4, <1>5 DEF FileInv, LocalIsTrue, Current
  <1>14. MarkIsTrue(f)'
    BY <1>1, <1>2, <1>3, <1>4, <1>5 DEF FileInv, MarkIsTrue
  <1>15. Recall(f)'
    BY <1>1, <1>2, <1>3, <1>4, <1>5, NamesAssumption DEF FileInv, Recall,
       Fetchable
  <1>16. Demotion1(f)'
    BY <1>1, <1>2, <1>3, <1>4, <1>5 DEF FileInv, Demotion1, Whole
  <1>17. Demotion2(f)'
    BY <1>1, <1>2, <1>3, <1>4, <1>5 DEF FileInv, Demotion2, Current,
       RecallSteps
  <1>18. Promotion1(f)'
    BY <1>1, <1>2, <1>3, <1>4, <1>5 DEF FileInv, Promotion1, Whole, Fetchable,
       Current
  <1>19. OpenIsRecent(f)'
    BY <1>1, <1>2, <1>3, <1>4, <1>5 DEF FileInv, OpenIsRecent, Current,
       OpenSteps, RecallSteps
  <1> QED
    BY <1>6, <1>7, <1>8, <1>9, <1>10, <1>11, <1>12, <1>13, <1>14, <1>15, <1>16,
     <1>17, <1>18, <1>19 DEF FileInv

\* An object that stays does no harm.
LEMMA RecallDeleteFailsSafe ==
    ASSUME Calm, IInv, SafetyInv, UNCHANGED <<migratorVars, truth>>,
           NEW f \in Files, f = hfile, RecallDeleteFails
    PROVE  FileInv(f)'
  <1>1. /\ FileInv(f) /\ f # None /\ db[f] \in Entries
        /\ truth[f] # Empty /\ truth[f] \in Versions \cup {None} /\ Empty # None
        /\ UNCHANGED <<mpc, todo, cur, mgot, truth>>
    BY NamesAssumption, ContentsAssumption DEF IInv, TypeOK, SafetyInv,
       migratorVars
  <1>2. hpc = "delete" /\ hfile = f /\ Handling(f) = "delete"
    BY <1>1 DEF RecallDeleteFails, Handling
  <1>3. /\ hpc' = "unlink" /\ hfile' = f
        /\ UNCHANGED <<disk, bucket, db, queue, opened, hremote, hgot>>
    BY <1>1, <1>2 DEF RecallDeleteFails, Step
  <1>4. /\ Handling(f) = "delete" /\ Handling(f)' = "unlink"
        /\ Moving(f)' = Moving(f)
        /\ Stopped' <=> Stopped
        /\ ToDemote(f)' <=> ToDemote(f)
        /\ ToPromote(f)' <=> ToPromote(f)
    BY <1>1, <1>2, <1>3 DEF Moving, Handling, ToDemote, ToPromote, Stopped
  <1>5. HashIsWhole(f)'
    BY <1>1, <1>2, <1>3, <1>4 DEF FileInv, HashIsWhole, Whole
  <1>6. HandlerHasHash(f)'
    BY <1>1, <1>2, <1>3, <1>4 DEF FileInv, HandlerHasHash, Recall, ColdIsFresh,
       OpenSteps, Fetchable, RecallSteps, NoEntry, Whole
  <1>7. HashIffFile(f)'
    BY <1>1, <1>2, <1>3, <1>4 DEF FileInv, HashIffFile, EventsServed,
       WillStand, HashStands
  <1>8. DiskHolds(f)'
    BY <1>1, <1>2, <1>3, <1>4 DEF FileInv, DiskHolds, Current
  <1>9. Somewhere(f)'
    BY <1>1, <1>2, <1>3, <1>4 DEF FileInv, Somewhere
  <1>10. ColdLeads(f)'
    BY <1>1, <1>2, <1>3, <1>4 DEF FileInv, ColdLeads, Current, Fetchable
  <1>11. ColdIsFresh(f)'
    BY <1>1, <1>2, <1>3, <1>4 DEF FileInv, ColdIsFresh, RecallSteps
  <1>12. LocalIsTrue(f)'
    BY <1>1, <1>2, <1>3, <1>4 DEF FileInv, LocalIsTrue, Current
  <1>13. MarkIsTrue(f)'
    BY <1>1, <1>2, <1>3, <1>4 DEF FileInv, MarkIsTrue
  <1>14. Recall(f)'
    BY <1>1, <1>2, <1>3, <1>4, NamesAssumption DEF FileInv, Recall, Fetchable
  <1>15. Demotion1(f)'
    BY <1>1, <1>2, <1>3, <1>4 DEF FileInv, Demotion1, Whole
  <1>16. Demotion2(f)'
    BY <1>1, <1>2, <1>3, <1>4 DEF FileInv, Demotion2, Current, RecallSteps
  <1>17. Promotion1(f)'
    BY <1>1, <1>2, <1>3, <1>4 DEF FileInv, Promotion1, Whole, Fetchable,
       Current
  <1>18. OpenIsRecent(f)'
    BY <1>1, <1>2, <1>3, <1>4 DEF FileInv, OpenIsRecent, Current, OpenSteps,
       RecallSteps
  <1> QED
    BY <1>5, <1>6, <1>7, <1>8, <1>9, <1>10, <1>11, <1>12, <1>13, <1>14, <1>15,
     <1>16, <1>17, <1>18 DEF FileInv

\* The hash forgets the object of a file that is back.
LEMMA RecallUnlinkSafe ==
    ASSUME Calm, IInv, SafetyInv, UNCHANGED <<migratorVars, truth>>,
           NEW f \in Files, f = hfile, RecallUnlink
    PROVE  FileInv(f)'
  <1>1. /\ FileInv(f) /\ f # None /\ db[f] \in Entries
        /\ truth[f] # Empty /\ truth[f] \in Versions \cup {None} /\ Empty # None
        /\ UNCHANGED <<mpc, todo, cur, mgot, truth>>
    BY NamesAssumption, ContentsAssumption DEF IInv, TypeOK, SafetyInv,
       migratorVars
  <1>2. hpc = "unlink" /\ hfile = f /\ Handling(f) = "unlink"
    BY <1>1 DEF RecallUnlink, Handling
  <1>3. Whole(db[f], f) /\ db[f].form = "made" /\ db[f] # NoEntry
    BY <1>1, <1>2 DEF FileInv, HashIsWhole, HandlerHasHash, OpenSteps,
       RecallSteps, Whole, NoEntry
  <1>4. HandlerSets(SetRemoteURI(db[f], None), "hot")
    BY <1>1, <1>2, <1>3 DEF RecallUnlink, FileInv, Recall
  <1>5. /\ SetRemoteURI(db[f], None) \in Entries
        /\ SetterReturns(SetRemoteURI(db[f], None))
    BY <1>1, <1>2, <1>3, <1>4, SettersType, SettersFields DEF Flag
  <1>6. /\ db'[f] = SetRemoteURI(db[f], None) /\ hpc' = "hot" /\ hfile' = f
        /\ UNCHANGED <<disk, bucket, queue, opened, hgot>>
    BY <1>1, <1>2, <1>3, <1>4, <1>5, HandlerSetFields DEF RecallUnlink
  <1>7. hremote' = None
    BY <1>1, <1>2, <1>3, <1>4, <1>5, <1>6 DEF RecallUnlink
  <1>8. /\ db'[f].form = "made" /\ db'[f].fileName = f
        /\ db'[f].remoteURI = None /\ db'[f].isLocal = db[f].isLocal
        /\ db'[f].isMetadata = db[f].isMetadata /\ db'[f].isOpen = db[f].isOpen
        /\ db'[f].lastModified = "recent"
    BY <1>1, <1>2, <1>3, <1>4, <1>5, <1>6, <1>7, SettersFields DEF SameHash,
       Whole
  <1>9. /\ Handling(f) = "unlink" /\ Handling(f)' = "hot"
        /\ Moving(f)' = Moving(f)
        /\ Stopped' <=> Stopped
        /\ ToDemote(f)' <=> ToDemote(f)
        /\ ToPromote(f)' <=> ToPromote(f)
    BY <1>1, <1>2, <1>3, <1>4, <1>5, <1>6, <1>7, <1>8 DEF Moving, Handling,
       ToDemote, ToPromote, Stopped
  <1>10. HashIsWhole(f)'
    BY <1>1, <1>2, <1>3, <1>4, <1>5, <1>6, <1>7, <1>8, <1>9 DEF FileInv,
       HashIsWhole, Whole, Flag, Ages, NoEntry
  <1>11. HandlerHasHash(f)'
    BY <1>1, <1>2, <1>3, <1>4, <1>5, <1>6, <1>7, <1>8, <1>9 DEF FileInv,
       HandlerHasHash, OpenSteps, Whole, Flag, Ages, NoEntry, RecallSteps
  <1>12. HashIffFile(f)'
    BY <1>1, <1>2, <1>3, <1>4, <1>5, <1>6, <1>7, <1>8, <1>9 DEF FileInv,
       HashIffFile, EventsServed, WillStand, HashStands, Whole, Flag, Ages,
       NoEntry
  <1>13. DiskHolds(f)'
    BY <1>1, <1>2, <1>3, <1>4, <1>5, <1>6, <1>7, <1>8, <1>9 DEF FileInv,
       DiskHolds, Current, Whole, Flag, Ages, NoEntry
  <1>14. Somewhere(f)'
    BY <1>1, <1>2, <1>3, <1>4, <1>5, <1>6, <1>7, <1>8, <1>9 DEF FileInv,
       Somewhere, Whole, Flag, Ages, NoEntry
  <1>15. ColdLeads(f)'
    BY <1>1, <1>2, <1>3, <1>4, <1>5, <1>6, <1>7, <1>8, <1>9 DEF FileInv,
       ColdLeads, Recall, HandlerHasHash, ColdIsFresh, Current, Fetchable,
       OpenSteps, RecallSteps, Whole, Flag, Ages, NoEntry
  <1>16. ColdIsFresh(f)'
    BY <1>1, <1>2, <1>3, <1>4, <1>5, <1>6, <1>7, <1>8, <1>9 DEF FileInv,
       ColdIsFresh, RecallSteps, Whole, Flag, Ages, NoEntry
  <1>17. LocalIsTrue(f)'
    BY <1>1, <1>2, <1>3, <1>4, <1>5, <1>6, <1>7, <1>8, <1>9 DEF FileInv,
       LocalIsTrue, Current, Whole, Flag, Ages, NoEntry
  <1>18. MarkIsTrue(f)'
    BY <1>1, <1>2, <1>3, <1>4, <1>5, <1>6, <1>7, <1>8, <1>9 DEF FileInv,
       MarkIsTrue, Whole, Flag, Ages, NoEntry
  <1>19. Recall(f)'
    BY <1>1, <1>2, <1>3, <1>4, <1>5, <1>6, <1>7, <1>8, <1>9 DEF FileInv,
       Recall, Fetchable, Whole, Flag, Ages, NoEntry
  <1>20. Demotion1(f)'
    BY <1>1, <1>2, <1>3, <1>4, <1>5, <1>6, <1>7, <1>8, <1>9 DEF FileInv,
       Demotion1, Whole, Flag, Ages, NoEntry
  <1>21. Demotion2(f)'
    BY <1>1, <1>2, <1>3, <1>4, <1>5, <1>6, <1>7, <1>8, <1>9 DEF FileInv,
       Demotion2, Current, RecallSteps, Whole, Flag, Ages, NoEntry
  <1>22. Promotion1(f)'
    BY <1>1, <1>2, <1>3, <1>4, <1>5, <1>6, <1>7, <1>8, <1>9 DEF FileInv,
       Promotion1, Whole, Fetchable, Current, Flag, Ages, NoEntry
  <1>23. OpenIsRecent(f)'
    BY <1>1, <1>2, <1>3, <1>4, <1>5, <1>6, <1>7, <1>8, <1>9 DEF FileInv,
       OpenIsRecent, Current, OpenSteps, RecallSteps, Whole, Flag, Ages,
       NoEntry
  <1> QED
    BY <1>10, <1>11, <1>12, <1>13, <1>14, <1>15, <1>16, <1>17, <1>18, <1>19,
     <1>20, <1>21, <1>22, <1>23 DEF FileInv

\* The hash says local of a file that is back.
LEMMA RecallHotSafe ==
    ASSUME Calm, IInv, SafetyInv, UNCHANGED <<migratorVars, truth>>,
           NEW f \in Files, f = hfile, RecallHot
    PROVE  FileInv(f)'
  <1>1. /\ FileInv(f) /\ f # None /\ db[f] \in Entries
        /\ truth[f] # Empty /\ truth[f] \in Versions \cup {None} /\ Empty # None
        /\ UNCHANGED <<mpc, todo, cur, mgot, truth>>
    BY NamesAssumption, ContentsAssumption DEF IInv, TypeOK, SafetyInv,
       migratorVars
  <1>2. hpc = "hot" /\ hfile = f /\ Handling(f) = "hot"
    BY <1>1 DEF RecallHot, Handling
  <1>3. Whole(db[f], f) /\ db[f].form = "made" /\ db[f] # NoEntry
    BY <1>1, <1>2 DEF FileInv, HashIsWhole, HandlerHasHash, OpenSteps,
       RecallSteps, Whole, NoEntry
  <1>4. /\ SetIsLocal(db[f], 1) \in Entries
        /\ SetterReturns(SetIsLocal(db[f], 1))
    BY <1>1, <1>2, <1>3, SettersType, SettersFields DEF Flag
  <1>5. /\ db'[f] = SetIsLocal(db[f], 1) /\ hpc' = "unmeta" /\ hfile' = f
        /\ UNCHANGED <<disk, bucket, queue, opened, hgot>>
    BY <1>1, <1>2, <1>3, <1>4, HandlerSetFields DEF RecallHot
  <1>6. hremote' = hremote
    BY <1>1, <1>2, <1>3, <1>4, <1>5 DEF RecallHot
  <1>7. /\ db'[f].form = "made" /\ db'[f].fileName = f
        /\ db'[f].remoteURI = db[f].remoteURI /\ db'[f].isLocal = 1
        /\ db'[f].isMetadata = db[f].isMetadata /\ db'[f].isOpen = db[f].isOpen
        /\ db'[f].lastModified = db[f].lastModified
    BY <1>1, <1>2, <1>3, <1>4, <1>5, <1>6, SettersFields DEF SameHash, Whole
  <1>8. /\ Handling(f) = "hot" /\ Handling(f)' = "unmeta"
        /\ Moving(f)' = Moving(f)
        /\ Stopped' <=> Stopped
        /\ ToDemote(f)' <=> ToDemote(f)
        /\ ToPromote(f)' <=> ToPromote(f)
    BY <1>1, <1>2, <1>3, <1>4, <1>5, <1>6, <1>7 DEF Moving, Handling, ToDemote,
       ToPromote, Stopped
  <1>9. HashIsWhole(f)'
    BY <1>1, <1>2, <1>3, <1>4, <1>5, <1>6, <1>7, <1>8 DEF FileInv, HashIsWhole,
       Whole, Flag, Ages, NoEntry
  <1>10. HandlerHasHash(f)'
    BY <1>1, <1>2, <1>3, <1>4, <1>5, <1>6, <1>7, <1>8 DEF FileInv,
       HandlerHasHash, OpenSteps, Whole, Flag, Ages, NoEntry, RecallSteps
  <1>11. HashIffFile(f)'
    BY <1>1, <1>2, <1>3, <1>4, <1>5, <1>6, <1>7, <1>8 DEF FileInv, HashIffFile,
       EventsServed, WillStand, HashStands, Whole, Flag, Ages, NoEntry
  <1>12. DiskHolds(f)'
    BY <1>1, <1>2, <1>3, <1>4, <1>5, <1>6, <1>7, <1>8 DEF FileInv, DiskHolds,
       Recall, HandlerHasHash, ColdIsFresh, Current, Fetchable, OpenSteps,
       RecallSteps, Whole, Flag, Ages, NoEntry
  <1>13. Somewhere(f)'
    BY <1>1, <1>2, <1>3, <1>4, <1>5, <1>6, <1>7, <1>8 DEF FileInv, Somewhere,
       Whole, Flag, Ages, NoEntry
  <1>14. ColdLeads(f)'
    BY <1>1, <1>2, <1>3, <1>4, <1>5, <1>6, <1>7, <1>8 DEF FileInv, ColdLeads,
       Current, Fetchable, Whole, Flag, Ages, NoEntry
  <1>15. ColdIsFresh(f)'
    BY <1>1, <1>2, <1>3, <1>4, <1>5, <1>6, <1>7, <1>8 DEF FileInv, ColdIsFresh,
       RecallSteps, Whole, Flag, Ages, NoEntry
  <1>16. LocalIsTrue(f)'
    BY <1>1, <1>2, <1>3, <1>4, <1>5, <1>6, <1>7, <1>8 DEF FileInv, LocalIsTrue,
       Recall, HandlerHasHash, ColdIsFresh, Current, Fetchable, OpenSteps,
       RecallSteps, Whole, Flag, Ages, NoEntry
  <1>17. MarkIsTrue(f)'
    BY <1>1, <1>2, <1>3, <1>4, <1>5, <1>6, <1>7, <1>8 DEF FileInv, MarkIsTrue,
       Whole, Flag, Ages, NoEntry
  <1>18. Recall(f)'
    BY <1>1, <1>2, <1>3, <1>4, <1>5, <1>6, <1>7, <1>8 DEF FileInv, Recall,
       Fetchable, Whole, Flag, Ages, NoEntry
  <1>19. Demotion1(f)'
    BY <1>1, <1>2, <1>3, <1>4, <1>5, <1>6, <1>7, <1>8 DEF FileInv, Demotion1,
       Whole, Flag, Ages, NoEntry
  <1>20. Demotion2(f)'
    BY <1>1, <1>2, <1>3, <1>4, <1>5, <1>6, <1>7, <1>8 DEF FileInv, Demotion2,
       Current, RecallSteps, Whole, Flag, Ages, NoEntry
  <1>21. Promotion1(f)'
    BY <1>1, <1>2, <1>3, <1>4, <1>5, <1>6, <1>7, <1>8 DEF FileInv, Promotion1,
       Whole, Fetchable, Current, Flag, Ages, NoEntry
  <1>22. OpenIsRecent(f)'
    BY <1>1, <1>2, <1>3, <1>4, <1>5, <1>6, <1>7, <1>8 DEF FileInv,
       OpenIsRecent, Current, OpenSteps, RecallSteps, Whole, Flag, Ages,
       NoEntry
  <1> QED
    BY <1>9, <1>10, <1>11, <1>12, <1>13, <1>14, <1>15, <1>16, <1>17, <1>18,
     <1>19, <1>20, <1>21, <1>22 DEF FileInv

\* The mark goes.
LEMMA RecallUnmetaSafe ==
    ASSUME Calm, IInv, SafetyInv, UNCHANGED <<migratorVars, truth>>,
           NEW f \in Files, f = hfile, RecallUnmeta
    PROVE  FileInv(f)'
  <1>1. /\ FileInv(f) /\ f # None /\ db[f] \in Entries
        /\ truth[f] # Empty /\ truth[f] \in Versions \cup {None} /\ Empty # None
        /\ UNCHANGED <<mpc, todo, cur, mgot, truth>>
    BY NamesAssumption, ContentsAssumption DEF IInv, TypeOK, SafetyInv,
       migratorVars
  <1>2. hpc = "unmeta" /\ hfile = f /\ Handling(f) = "unmeta"
    BY <1>1 DEF RecallUnmeta, Handling
  <1>3. Whole(db[f], f) /\ db[f].form = "made" /\ db[f] # NoEntry
    BY <1>1, <1>2 DEF FileInv, HashIsWhole, HandlerHasHash, OpenSteps,
       RecallSteps, Whole, NoEntry
  <1>4. /\ SetIsMetadata(db[f], 0) \in Entries
        /\ SetterReturns(SetIsMetadata(db[f], 0))
    BY <1>1, <1>2, <1>3, SettersType, SettersFields DEF Flag
  <1>5. /\ db'[f] = SetIsMetadata(db[f], 0) /\ hpc' = "openMark" /\ hfile' = f
        /\ UNCHANGED <<disk, bucket, queue, opened, hgot>>
    BY <1>1, <1>2, <1>3, <1>4, HandlerSetFields DEF RecallUnmeta
  <1>6. hremote' = hremote
    BY <1>1, <1>2, <1>3, <1>4, <1>5 DEF RecallUnmeta
  <1>7. /\ db'[f].form = "made" /\ db'[f].fileName = f
        /\ db'[f].remoteURI = db[f].remoteURI /\ db'[f].isLocal = db[f].isLocal
        /\ db'[f].isMetadata = 0 /\ db'[f].isOpen = db[f].isOpen
        /\ db'[f].lastModified = "recent"
    BY <1>1, <1>2, <1>3, <1>4, <1>5, <1>6, SettersFields DEF SameHash, Whole
  <1>8. /\ Handling(f) = "unmeta" /\ Handling(f)' = "openMark"
        /\ Moving(f)' = Moving(f)
        /\ Stopped' <=> Stopped
        /\ ToDemote(f)' <=> ToDemote(f)
        /\ ToPromote(f)' <=> ToPromote(f)
    BY <1>1, <1>2, <1>3, <1>4, <1>5, <1>6, <1>7 DEF Moving, Handling, ToDemote,
       ToPromote, Stopped
  <1>9. HashIsWhole(f)'
    BY <1>1, <1>2, <1>3, <1>4, <1>5, <1>6, <1>7, <1>8 DEF FileInv, HashIsWhole,
       Whole, Flag, Ages, NoEntry
  <1>10. HandlerHasHash(f)'
    BY <1>1, <1>2, <1>3, <1>4, <1>5, <1>6, <1>7, <1>8 DEF FileInv,
       HandlerHasHash, OpenSteps, Whole, Flag, Ages, NoEntry, RecallSteps
  <1>11. HashIffFile(f)'
    BY <1>1, <1>2, <1>3, <1>4, <1>5, <1>6, <1>7, <1>8 DEF FileInv, HashIffFile,
       EventsServed, WillStand, HashStands, Whole, Flag, Ages, NoEntry
  <1>12. DiskHolds(f)'
    BY <1>1, <1>2, <1>3, <1>4, <1>5, <1>6, <1>7, <1>8 DEF FileInv, DiskHolds,
       Current, Whole, Flag, Ages, NoEntry
  <1>13. Somewhere(f)'
    BY <1>1, <1>2, <1>3, <1>4, <1>5, <1>6, <1>7, <1>8 DEF FileInv, Somewhere,
       Whole, Flag, Ages, NoEntry
  <1>14. ColdLeads(f)'
    BY <1>1, <1>2, <1>3, <1>4, <1>5, <1>6, <1>7, <1>8 DEF FileInv, ColdLeads,
       Current, Fetchable, Whole, Flag, Ages, NoEntry
  <1>15. ColdIsFresh(f)'
    BY <1>1, <1>2, <1>3, <1>4, <1>5, <1>6, <1>7, <1>8 DEF FileInv, ColdIsFresh,
       Recall, HandlerHasHash, RecallSteps, Fetchable, OpenSteps, Whole, Flag,
       Ages, NoEntry
  <1>16. LocalIsTrue(f)'
    BY <1>1, <1>2, <1>3, <1>4, <1>5, <1>6, <1>7, <1>8 DEF FileInv, LocalIsTrue,
       Current, Whole, Flag, Ages, NoEntry
  <1>17. MarkIsTrue(f)'
    BY <1>1, <1>2, <1>3, <1>4, <1>5, <1>6, <1>7, <1>8 DEF FileInv, MarkIsTrue,
       Whole, Flag, Ages, NoEntry
  <1>18. Recall(f)'
    BY <1>1, <1>2, <1>3, <1>4, <1>5, <1>6, <1>7, <1>8 DEF FileInv, Recall,
       Fetchable, Whole, Flag, Ages, NoEntry
  <1>19. Demotion1(f)'
    BY <1>1, <1>2, <1>3, <1>4, <1>5, <1>6, <1>7, <1>8 DEF FileInv, Demotion1,
       Whole, Flag, Ages, NoEntry
  <1>20. Demotion2(f)'
    BY <1>1, <1>2, <1>3, <1>4, <1>5, <1>6, <1>7, <1>8 DEF FileInv, Demotion2,
       Current, RecallSteps, Whole, Flag, Ages, NoEntry
  <1>21. Promotion1(f)'
    BY <1>1, <1>2, <1>3, <1>4, <1>5, <1>6, <1>7, <1>8 DEF FileInv, Promotion1,
       Whole, Fetchable, Current, Flag, Ages, NoEntry
  <1>22. OpenIsRecent(f)'
    BY <1>1, <1>2, <1>3, <1>4, <1>5, <1>6, <1>7, <1>8 DEF FileInv,
       OpenIsRecent, Current, OpenSteps, RecallSteps, Whole, Flag, Ages,
       NoEntry
  <1> QED
    BY <1>9, <1>10, <1>11, <1>12, <1>13, <1>14, <1>15, <1>16, <1>17, <1>18,
     <1>19, <1>20, <1>21, <1>22 DEF FileInv

\* The hash is marked as open,
LEMMA OpenMarkSafe ==
    ASSUME Calm, IInv, SafetyInv, UNCHANGED <<migratorVars, truth>>,
           NEW f \in Files, f = hfile, OpenMark
    PROVE  FileInv(f)'
  <1>1. /\ FileInv(f) /\ f # None /\ db[f] \in Entries
        /\ truth[f] # Empty /\ truth[f] \in Versions \cup {None} /\ Empty # None
        /\ UNCHANGED <<mpc, todo, cur, mgot, truth>>
    BY NamesAssumption, ContentsAssumption DEF IInv, TypeOK, SafetyInv,
       migratorVars
  <1>2. hpc = "openMark" /\ hfile = f /\ Handling(f) = "openMark"
    BY <1>1 DEF OpenMark, Handling
  <1>3. Whole(db[f], f) /\ db[f].form = "made" /\ db[f] # NoEntry
    BY <1>1, <1>2 DEF FileInv, HashIsWhole, HandlerHasHash, OpenSteps,
       RecallSteps, Whole, NoEntry
  <1>4. /\ db'[f] = SetIsOpen(db[f], 1) /\ hpc' = "openHits" /\ hfile' = f
        /\ UNCHANGED <<disk, bucket, queue, opened, hremote, hgot>>
    BY <1>1, <1>2, <1>3 DEF OpenMark, Step, IInv, TypeOK
  <1>5. /\ db'[f].form = "made" /\ db'[f].fileName = f
        /\ db'[f].remoteURI = db[f].remoteURI /\ db'[f].isLocal = db[f].isLocal
        /\ db'[f].isMetadata = db[f].isMetadata /\ db'[f].isOpen = 1
        /\ db'[f].lastModified = db[f].lastModified
    BY <1>1, <1>2, <1>3, <1>4, SettersFields DEF SameHash, Whole
  <1>6. /\ Handling(f) = "openMark" /\ Handling(f)' = "openHits"
        /\ Moving(f)' = Moving(f)
        /\ Stopped' <=> Stopped
        /\ ToDemote(f)' <=> ToDemote(f)
        /\ ToPromote(f)' <=> ToPromote(f)
    BY <1>1, <1>2, <1>3, <1>4, <1>5 DEF Moving, Handling, ToDemote, ToPromote,
       Stopped
  <1>7. HashIsWhole(f)'
    BY <1>1, <1>2, <1>3, <1>4, <1>5, <1>6 DEF FileInv, HashIsWhole, Whole,
       Flag, Ages, NoEntry
  <1>8. HandlerHasHash(f)'
    BY <1>1, <1>2, <1>3, <1>4, <1>5, <1>6 DEF FileInv, HandlerHasHash,
       OpenSteps, Whole, Flag, Ages, NoEntry, RecallSteps
  <1>9. HashIffFile(f)'
    BY <1>1, <1>2, <1>3, <1>4, <1>5, <1>6 DEF FileInv, HashIffFile,
       EventsServed, WillStand, HashStands, Whole, Flag, Ages, NoEntry
  <1>10. DiskHolds(f)'
    BY <1>1, <1>2, <1>3, <1>4, <1>5, <1>6 DEF FileInv, DiskHolds, Current,
       Whole, Flag, Ages, NoEntry
  <1>11. Somewhere(f)'
    BY <1>1, <1>2, <1>3, <1>4, <1>5, <1>6 DEF FileInv, Somewhere, Whole, Flag,
       Ages, NoEntry
  <1>12. ColdLeads(f)'
    BY <1>1, <1>2, <1>3, <1>4, <1>5, <1>6 DEF FileInv, ColdLeads, Current,
       Fetchable, Whole, Flag, Ages, NoEntry
  <1>13. ColdIsFresh(f)'
    BY <1>1, <1>2, <1>3, <1>4, <1>5, <1>6 DEF FileInv, ColdIsFresh,
       RecallSteps, Whole, Flag, Ages, NoEntry
  <1>14. LocalIsTrue(f)'
    BY <1>1, <1>2, <1>3, <1>4, <1>5, <1>6 DEF FileInv, LocalIsTrue, Current,
       Whole, Flag, Ages, NoEntry
  <1>15. MarkIsTrue(f)'
    BY <1>1, <1>2, <1>3, <1>4, <1>5, <1>6 DEF FileInv, MarkIsTrue, Whole, Flag,
       Ages, NoEntry
  <1>16. Recall(f)'
    BY <1>1, <1>2, <1>3, <1>4, <1>5, <1>6 DEF FileInv, Recall, Fetchable,
       Whole, Flag, Ages, NoEntry
  <1>17. Demotion1(f)'
    BY <1>1, <1>2, <1>3, <1>4, <1>5, <1>6 DEF FileInv, Demotion1, Whole, Flag,
       Ages, NoEntry
  <1>18. Demotion2(f)'
    BY <1>1, <1>2, <1>3, <1>4, <1>5, <1>6 DEF FileInv, Demotion2, Current,
       RecallSteps, Whole, Flag, Ages, NoEntry
  <1>19. Promotion1(f)'
    BY <1>1, <1>2, <1>3, <1>4, <1>5, <1>6 DEF FileInv, Promotion1, Whole,
       Fetchable, Current, Flag, Ages, NoEntry
  <1>20. OpenIsRecent(f)'
    BY <1>1, <1>2, <1>3, <1>4, <1>5, <1>6 DEF FileInv, OpenIsRecent, Current,
       OpenSteps, RecallSteps, Whole, Flag, Ages, NoEntry
  <1> QED
    BY <1>7, <1>8, <1>9, <1>10, <1>11, <1>12, <1>13, <1>14, <1>15, <1>16, <1>17,
     <1>18, <1>19, <1>20 DEF FileInv

\* and as used just now.
LEMMA OpenHitsSafe ==
    ASSUME Calm, IInv, SafetyInv, UNCHANGED <<migratorVars, truth>>,
           NEW f \in Files, f = hfile, OpenHits
    PROVE  FileInv(f)'
  <1>1. /\ FileInv(f) /\ f # None /\ db[f] \in Entries
        /\ truth[f] # Empty /\ truth[f] \in Versions \cup {None} /\ Empty # None
        /\ UNCHANGED <<mpc, todo, cur, mgot, truth>>
    BY NamesAssumption, ContentsAssumption DEF IInv, TypeOK, SafetyInv,
       migratorVars
  <1>2. hpc = "openHits" /\ hfile = f /\ Handling(f) = "openHits"
    BY <1>1 DEF OpenHits, Handling
  <1>3. Whole(db[f], f) /\ db[f].form = "made" /\ db[f] # NoEntry
    BY <1>1, <1>2 DEF FileInv, HashIsWhole, HandlerHasHash, OpenSteps,
       RecallSteps, Whole, NoEntry
  <1>4. /\ IncrementTimesAccessed(db[f]) \in Entries
        /\ SetterReturns(IncrementTimesAccessed(db[f]))
    BY <1>1, <1>2, <1>3, SettersType, SettersFields DEF Flag
  <1>5. /\ db'[f] = IncrementTimesAccessed(db[f]) /\ hpc' = "idle" /\ hfile' = None
        /\ UNCHANGED <<disk, bucket, queue, opened, hgot>>
    BY <1>1, <1>2, <1>3, <1>4, HandlerSetFields DEF OpenHits
  <1>6. hremote' = hremote
    BY <1>1, <1>2, <1>3, <1>4, <1>5 DEF OpenHits
  <1>7. /\ db'[f].form = "made" /\ db'[f].fileName = f
        /\ db'[f].remoteURI = db[f].remoteURI /\ db'[f].isLocal = db[f].isLocal
        /\ db'[f].isMetadata = db[f].isMetadata /\ db'[f].isOpen = db[f].isOpen
        /\ db'[f].lastModified = "recent"
    BY <1>1, <1>2, <1>3, <1>4, <1>5, <1>6, SettersFields DEF SameHash, Whole
  <1>8. /\ Handling(f) = "openHits" /\ Handling(f)' = "off"
        /\ Moving(f)' = Moving(f)
        /\ Stopped' <=> Stopped
        /\ ToDemote(f)' <=> ToDemote(f)
        /\ ToPromote(f)' <=> ToPromote(f)
    BY <1>1, <1>2, <1>3, <1>4, <1>5, <1>6, <1>7 DEF Moving, Handling, ToDemote,
       ToPromote, Stopped
  <1>9. HashIsWhole(f)'
    BY <1>1, <1>2, <1>3, <1>4, <1>5, <1>6, <1>7, <1>8 DEF FileInv, HashIsWhole,
       Whole, Flag, Ages, NoEntry
  <1>10. HandlerHasHash(f)'
    BY <1>1, <1>2, <1>3, <1>4, <1>5, <1>6, <1>7, <1>8 DEF FileInv,
       HandlerHasHash, OpenSteps, Whole, Flag, Ages, NoEntry, RecallSteps
  <1>11. HashIffFile(f)'
    BY <1>1, <1>2, <1>3, <1>4, <1>5, <1>6, <1>7, <1>8 DEF FileInv, HashIffFile,
       EventsServed, WillStand, HashStands, Whole, Flag, Ages, NoEntry
  <1>12. DiskHolds(f)'
    BY <1>1, <1>2, <1>3, <1>4, <1>5, <1>6, <1>7, <1>8 DEF FileInv, DiskHolds,
       Current, Whole, Flag, Ages, NoEntry
  <1>13. Somewhere(f)'
    BY <1>1, <1>2, <1>3, <1>4, <1>5, <1>6, <1>7, <1>8 DEF FileInv, Somewhere,
       Whole, Flag, Ages, NoEntry
  <1>14. ColdLeads(f)'
    BY <1>1, <1>2, <1>3, <1>4, <1>5, <1>6, <1>7, <1>8 DEF FileInv, ColdLeads,
       Current, Fetchable, Whole, Flag, Ages, NoEntry
  <1>15. ColdIsFresh(f)'
    BY <1>1, <1>2, <1>3, <1>4, <1>5, <1>6, <1>7, <1>8 DEF FileInv, ColdIsFresh,
       RecallSteps, Whole, Flag, Ages, NoEntry
  <1>16. LocalIsTrue(f)'
    BY <1>1, <1>2, <1>3, <1>4, <1>5, <1>6, <1>7, <1>8 DEF FileInv, LocalIsTrue,
       Current, Whole, Flag, Ages, NoEntry
  <1>17. MarkIsTrue(f)'
    BY <1>1, <1>2, <1>3, <1>4, <1>5, <1>6, <1>7, <1>8 DEF FileInv, MarkIsTrue,
       Whole, Flag, Ages, NoEntry
  <1>18. Recall(f)'
    BY <1>1, <1>2, <1>3, <1>4, <1>5, <1>6, <1>7, <1>8 DEF FileInv, Recall,
       Fetchable, Whole, Flag, Ages, NoEntry
  <1>19. Demotion1(f)'
    BY <1>1, <1>2, <1>3, <1>4, <1>5, <1>6, <1>7, <1>8 DEF FileInv, Demotion1,
       Whole, Flag, Ages, NoEntry
  <1>20. Demotion2(f)'
    BY <1>1, <1>2, <1>3, <1>4, <1>5, <1>6, <1>7, <1>8 DEF FileInv, Demotion2,
       Current, RecallSteps, Whole, Flag, Ages, NoEntry
  <1>21. Promotion1(f)'
    BY <1>1, <1>2, <1>3, <1>4, <1>5, <1>6, <1>7, <1>8 DEF FileInv, Promotion1,
       Whole, Fetchable, Current, Flag, Ages, NoEntry
  <1>22. OpenIsRecent(f)'
    BY <1>1, <1>2, <1>3, <1>4, <1>5, <1>6, <1>7, <1>8 DEF FileInv,
       OpenIsRecent, Current, OpenSteps, RecallSteps, Whole, Flag, Ages,
       NoEntry
  <1> QED
    BY <1>9, <1>10, <1>11, <1>12, <1>13, <1>14, <1>15, <1>16, <1>17, <1>18,
     <1>19, <1>20, <1>21, <1>22 DEF FileInv

\* A new size is a use as well.
LEMMA ResizeSafe ==
    ASSUME Calm, IInv, SafetyInv, UNCHANGED <<migratorVars, truth>>,
           NEW f \in Files, f = hfile, Resize
    PROVE  FileInv(f)'
  <1>1. /\ FileInv(f) /\ f # None /\ db[f] \in Entries
        /\ truth[f] # Empty /\ truth[f] \in Versions \cup {None} /\ Empty # None
        /\ UNCHANGED <<mpc, todo, cur, mgot, truth>>
    BY NamesAssumption, ContentsAssumption DEF IInv, TypeOK, SafetyInv,
       migratorVars
  <1>2. hpc = "resize" /\ hfile = f /\ Handling(f) = "resize"
    BY <1>1 DEF Resize, Handling
  <1>3. Whole(db[f], f) /\ db[f].form = "made" /\ db[f] # NoEntry
    BY <1>1, <1>2 DEF FileInv, HashIsWhole, HandlerHasHash, OpenSteps,
       RecallSteps, Whole, NoEntry
  <1>4. /\ SetFileSize(db[f]) \in Entries
        /\ SetterReturns(SetFileSize(db[f]))
    BY <1>1, <1>2, <1>3, SettersType, SettersFields DEF Flag
  <1>5. /\ db'[f] = SetFileSize(db[f]) /\ hpc' = "idle" /\ hfile' = None
        /\ UNCHANGED <<disk, bucket, queue, opened, hgot>>
    BY <1>1, <1>2, <1>3, <1>4, HandlerSetFields DEF Resize
  <1>6. hremote' = hremote
    BY <1>1, <1>2, <1>3, <1>4, <1>5 DEF Resize
  <1>7. /\ db'[f].form = "made" /\ db'[f].fileName = f
        /\ db'[f].remoteURI = db[f].remoteURI /\ db'[f].isLocal = db[f].isLocal
        /\ db'[f].isMetadata = db[f].isMetadata /\ db'[f].isOpen = db[f].isOpen
        /\ db'[f].lastModified = "recent"
    BY <1>1, <1>2, <1>3, <1>4, <1>5, <1>6, SettersFields DEF SameHash, Whole
  <1>8. /\ Handling(f) = "resize" /\ Handling(f)' = "off"
        /\ Moving(f)' = Moving(f)
        /\ Stopped' <=> Stopped
        /\ ToDemote(f)' <=> ToDemote(f)
        /\ ToPromote(f)' <=> ToPromote(f)
    BY <1>1, <1>2, <1>3, <1>4, <1>5, <1>6, <1>7 DEF Moving, Handling, ToDemote,
       ToPromote, Stopped
  <1>9. HashIsWhole(f)'
    BY <1>1, <1>2, <1>3, <1>4, <1>5, <1>6, <1>7, <1>8 DEF FileInv, HashIsWhole,
       Whole, Flag, Ages, NoEntry
  <1>10. HandlerHasHash(f)'
    BY <1>1, <1>2, <1>3, <1>4, <1>5, <1>6, <1>7, <1>8 DEF FileInv,
       HandlerHasHash, OpenSteps, Whole, Flag, Ages, NoEntry, RecallSteps
  <1>11. HashIffFile(f)'
    BY <1>1, <1>2, <1>3, <1>4, <1>5, <1>6, <1>7, <1>8 DEF FileInv, HashIffFile,
       EventsServed, WillStand, HashStands, Whole, Flag, Ages, NoEntry
  <1>12. DiskHolds(f)'
    BY <1>1, <1>2, <1>3, <1>4, <1>5, <1>6, <1>7, <1>8 DEF FileInv, DiskHolds,
       Current, Whole, Flag, Ages, NoEntry
  <1>13. Somewhere(f)'
    BY <1>1, <1>2, <1>3, <1>4, <1>5, <1>6, <1>7, <1>8 DEF FileInv, Somewhere,
       Whole, Flag, Ages, NoEntry
  <1>14. ColdLeads(f)'
    BY <1>1, <1>2, <1>3, <1>4, <1>5, <1>6, <1>7, <1>8 DEF FileInv, ColdLeads,
       Current, Fetchable, Whole, Flag, Ages, NoEntry
  <1>15. ColdIsFresh(f)'
    BY <1>1, <1>2, <1>3, <1>4, <1>5, <1>6, <1>7, <1>8 DEF FileInv, ColdIsFresh,
       RecallSteps, Whole, Flag, Ages, NoEntry
  <1>16. LocalIsTrue(f)'
    BY <1>1, <1>2, <1>3, <1>4, <1>5, <1>6, <1>7, <1>8 DEF FileInv, LocalIsTrue,
       Current, Whole, Flag, Ages, NoEntry
  <1>17. MarkIsTrue(f)'
    BY <1>1, <1>2, <1>3, <1>4, <1>5, <1>6, <1>7, <1>8 DEF FileInv, MarkIsTrue,
       Whole, Flag, Ages, NoEntry
  <1>18. Recall(f)'
    BY <1>1, <1>2, <1>3, <1>4, <1>5, <1>6, <1>7, <1>8 DEF FileInv, Recall,
       Fetchable, Whole, Flag, Ages, NoEntry
  <1>19. Demotion1(f)'
    BY <1>1, <1>2, <1>3, <1>4, <1>5, <1>6, <1>7, <1>8 DEF FileInv, Demotion1,
       Whole, Flag, Ages, NoEntry
  <1>20. Demotion2(f)'
    BY <1>1, <1>2, <1>3, <1>4, <1>5, <1>6, <1>7, <1>8 DEF FileInv, Demotion2,
       Current, RecallSteps, Whole, Flag, Ages, NoEntry
  <1>21. Promotion1(f)'
    BY <1>1, <1>2, <1>3, <1>4, <1>5, <1>6, <1>7, <1>8 DEF FileInv, Promotion1,
       Whole, Fetchable, Current, Flag, Ages, NoEntry
  <1>22. OpenIsRecent(f)'
    BY <1>1, <1>2, <1>3, <1>4, <1>5, <1>6, <1>7, <1>8 DEF FileInv,
       OpenIsRecent, Current, OpenSteps, RecallSteps, Whole, Flag, Ages,
       NoEntry
  <1> QED
    BY <1>9, <1>10, <1>11, <1>12, <1>13, <1>14, <1>15, <1>16, <1>17, <1>18,
     <1>19, <1>20, <1>21, <1>22 DEF FileInv

-----------------------------------------------------------------------------
(***************************************************************************)
(* Quiet users keep the invariant of the file they use.                    *)
(***************************************************************************)

\* A user who opens a file uses it from now on.
LEMMA UserOpenSafe ==
    ASSUME Calm, IInv, SafetyInv, NEW f \in Files, UserOpen(f)
    PROVE  FileInv(f)'
  <1>1. /\ FileInv(f) /\ f # None /\ db[f] \in Entries /\ "delete" # "open"
        /\ truth[f] # Empty /\ truth[f] \in Versions \cup {None} /\ Empty # None
        /\ UNCHANGED <<bucket, db, mpc, todo, cur, mgot, hpc, hfile, hremote, hgot>>
        /\ hpc # "dead"
    BY NamesAssumption, ContentsAssumption DEF UserOpen, servers, migratorVars,
       handlerVars, IInv, TypeOK, SafetyInv, ProcessInv
  <1>2. /\ disk[f] # None /\ opened'[f] = "yes" /\ UNCHANGED <<disk, truth>>
    BY <1>1 DEF UserOpen, IInv, TypeOK
  <1>3. Reopened(f, queue, queue')
    BY <1>1, <1>2, OwnEventsViews DEF UserOpen, Notify, IInv, TypeOK
  <1>4. /\ Handling(f)' = Handling(f)
        /\ Moving(f)' = Moving(f)
        /\ Stopped' <=> Stopped
        /\ ToDemote(f)' <=> ToDemote(f)
        /\ ToPromote(f)' <=> ToPromote(f)
    BY <1>1, <1>2, <1>3 DEF Moving, Handling, ToDemote, ToPromote, Stopped
  <1>5. /\ ~ToDemote(f) /\ Moving(f) \in {"off"} \cup PromotionSteps
    BY <1>1, <1>2, <1>3, <1>4 DEF UserOpen, MayOpen, Calm, ToDemote, Moving,
       SafetyInv, ProcessInv, PromotionSteps, DemotionSteps
  <1>6. HashIsWhole(f)'
    BY <1>1, <1>2, <1>3, <1>4, <1>5 DEF FileInv, HashIsWhole, Whole, Reopened,
       Used, NoEntry, RecallSteps, PromotionSteps
  <1>7. HandlerHasHash(f)'
    BY <1>1, <1>2, <1>3, <1>4, <1>5 DEF FileInv, HandlerHasHash, OpenSteps,
       Reopened, Used, NoEntry, RecallSteps, PromotionSteps
  <1>8. HashIffFile(f)'
    BY <1>1, <1>2, <1>3, <1>4, <1>5 DEF FileInv, HashIffFile, EventsServed,
       WillStand, HashStands, Reopened, Used, NoEntry, RecallSteps,
       PromotionSteps
  <1>9. DiskHolds(f)'
    BY <1>1, <1>2, <1>3, <1>4, <1>5 DEF FileInv, DiskHolds, Current, Reopened,
       Used, NoEntry, RecallSteps, PromotionSteps
  <1>10. Somewhere(f)'
    BY <1>1, <1>2, <1>3, <1>4, <1>5 DEF FileInv, Somewhere, Reopened, Used,
       NoEntry, RecallSteps, PromotionSteps
  <1>11. ColdLeads(f)'
    BY <1>1, <1>2, <1>3, <1>4, <1>5 DEF FileInv, ColdLeads, Current, Fetchable,
       Reopened, Used, NoEntry, RecallSteps, PromotionSteps
  <1>12. ColdIsFresh(f)'
    BY <1>1, <1>2, <1>3, <1>4, <1>5 DEF FileInv, ColdIsFresh, RecallSteps,
       Reopened, Used, NoEntry, PromotionSteps
  <1>13. LocalIsTrue(f)'
    BY <1>1, <1>2, <1>3, <1>4, <1>5 DEF FileInv, LocalIsTrue, Current,
       Reopened, Used, NoEntry, RecallSteps, PromotionSteps
  <1>14. MarkIsTrue(f)'
    BY <1>1, <1>2, <1>3, <1>4, <1>5 DEF FileInv, MarkIsTrue, Reopened, Used,
       NoEntry, RecallSteps, PromotionSteps
  <1>15. Recall(f)'
    BY <1>1, <1>2, <1>3, <1>4, <1>5 DEF FileInv, Recall, Fetchable, Reopened,
       Used, NoEntry, RecallSteps, PromotionSteps
  <1>16. Demotion1(f)'
    BY <1>1, <1>2, <1>3, <1>4, <1>5 DEF FileInv, Demotion1, Whole, Reopened,
       Used, NoEntry, RecallSteps, PromotionSteps
  <1>17. Demotion2(f)'
    BY <1>1, <1>2, <1>3, <1>4, <1>5 DEF FileInv, Demotion2, Current,
       RecallSteps, Reopened, Used, NoEntry, PromotionSteps
  <1>18. Promotion1(f)'
    BY <1>1, <1>2, <1>3, <1>4, <1>5 DEF FileInv, Promotion1, Whole, Fetchable,
       Current, Reopened, Used, NoEntry, RecallSteps, PromotionSteps
  <1>19. OpenIsRecent(f)'
    BY <1>1, <1>2, <1>3, <1>4, <1>5 DEF FileInv, OpenIsRecent, Current,
       OpenSteps, RecallSteps, Reopened, Used, NoEntry, PromotionSteps
  <1> QED
    BY <1>6, <1>7, <1>8, <1>9, <1>10, <1>11, <1>12, <1>13, <1>14, <1>15, <1>16,
     <1>17, <1>18, <1>19 DEF FileInv

\* A user who closes a file tells the handler so, whether the file is being
\* moved or not.
LEMMA UserCloseSafe ==
    ASSUME Calm, IInv, SafetyInv, NEW f \in Files, UserClose(f)
    PROVE  FileInv(f)'
  <1>1. /\ FileInv(f) /\ f # None /\ db[f] \in Entries /\ "delete" # "open"
        /\ truth[f] # Empty /\ truth[f] \in Versions \cup {None} /\ Empty # None
        /\ UNCHANGED <<bucket, db, mpc, todo, cur, mgot, hpc, hfile, hremote, hgot>>
        /\ hpc # "dead"
    BY NamesAssumption, ContentsAssumption DEF UserClose, servers,
       migratorVars, handlerVars, IInv, TypeOK, SafetyInv, ProcessInv
  <1>2. /\ opened[f] = "yes" /\ opened'[f] = "no" /\ UNCHANGED <<disk, truth>>
    BY <1>1 DEF UserClose, IInv, TypeOK, FileInv, OpenIsRecent
  <1>3. Closed(f, queue, queue')
    BY <1>1, <1>2, OwnEventsViews DEF UserClose, Notify, IInv, TypeOK
  <1>4. /\ Handling(f)' = Handling(f)
        /\ Moving(f)' = Moving(f)
        /\ Stopped' <=> Stopped
        /\ ToDemote(f)' <=> ToDemote(f)
        /\ ToPromote(f)' <=> ToPromote(f)
    BY <1>1, <1>2, <1>3 DEF Moving, Handling, ToDemote, ToPromote, Stopped
  <1>5. Moving(f) \notin DemotionSteps
    BY <1>1, <1>2, <1>3, <1>4, NamesAssumption DEF FileInv, Demotion1,
       ToDemote, Moving, SafetyInv, ProcessInv, DemotionSteps
  <1>6. HashIsWhole(f)'
    BY <1>1, <1>2, <1>3, <1>4, <1>5 DEF FileInv, HashIsWhole, Whole, Closed,
       NoEntry, RecallSteps
  <1>7. HandlerHasHash(f)'
    BY <1>1, <1>2, <1>3, <1>4, <1>5 DEF FileInv, HandlerHasHash, OpenSteps,
       Closed, NoEntry, RecallSteps
  <1>8. HashIffFile(f)'
    BY <1>1, <1>2, <1>3, <1>4, <1>5 DEF FileInv, HashIffFile, Recall,
       OpenIsRecent, EventsServed, WillStand, HashStands, Fetchable, Current,
       OpenSteps, RecallSteps, Closed, NoEntry
  <1>9. DiskHolds(f)'
    BY <1>1, <1>2, <1>3, <1>4, <1>5 DEF FileInv, DiskHolds, Current, Closed,
       NoEntry, RecallSteps
  <1>10. Somewhere(f)'
    BY <1>1, <1>2, <1>3, <1>4, <1>5 DEF FileInv, Somewhere, Closed, NoEntry,
       RecallSteps
  <1>11. ColdLeads(f)'
    BY <1>1, <1>2, <1>3, <1>4, <1>5 DEF FileInv, ColdLeads, Current, Fetchable,
       Closed, NoEntry, RecallSteps
  <1>12. ColdIsFresh(f)'
    BY <1>1, <1>2, <1>3, <1>4, <1>5 DEF FileInv, ColdIsFresh, RecallSteps,
       Closed, NoEntry
  <1>13. LocalIsTrue(f)'
    BY <1>1, <1>2, <1>3, <1>4, <1>5 DEF FileInv, LocalIsTrue, Current, Closed,
       NoEntry, RecallSteps
  <1>14. MarkIsTrue(f)'
    BY <1>1, <1>2, <1>3, <1>4, <1>5 DEF FileInv, MarkIsTrue, Closed, NoEntry,
       RecallSteps
  <1>15. Recall(f)'
    BY <1>1, <1>2, <1>3, <1>4, <1>5 DEF FileInv, Recall, Fetchable, Closed,
       NoEntry, RecallSteps
  <1>16. Demotion1(f)'
    BY <1>1, <1>2, <1>3, <1>4, <1>5 DEF FileInv, Demotion1, Whole, Closed,
       NoEntry, RecallSteps
  <1>17. Demotion2(f)'
    BY <1>1, <1>2, <1>3, <1>4, <1>5 DEF FileInv, Demotion2, Recall,
       HashIffFile, OpenIsRecent, DiskHolds, HashIsWhole, HandlerHasHash,
       ColdIsFresh, Somewhere, LocalIsTrue, Current, RecallSteps, Fetchable,
       EventsServed, WillStand, HashStands, OpenSteps, Whole, Closed, NoEntry,
       DemotionSteps
  <1>18. Promotion1(f)'
    BY <1>1, <1>2, <1>3, <1>4, <1>5 DEF FileInv, Promotion1, Whole, Fetchable,
       Current, Closed, NoEntry, RecallSteps
  <1>19. OpenIsRecent(f)'
    BY <1>1, <1>2, <1>3, <1>4, <1>5 DEF FileInv, OpenIsRecent, Current,
       OpenSteps, RecallSteps, Closed, NoEntry
  <1> QED
    BY <1>6, <1>7, <1>8, <1>9, <1>10, <1>11, <1>12, <1>13, <1>14, <1>15, <1>16,
     <1>17, <1>18, <1>19 DEF FileInv

\* A user who reads a file does not change it.
LEMMA UserReadSafe ==
    ASSUME Calm, IInv, SafetyInv, NEW f \in Files, UserRead(f)
    PROVE  FileInv(f)'
  <1>1. /\ FileInv(f) /\ f # None /\ db[f] \in Entries /\ "delete" # "open"
        /\ truth[f] # Empty /\ truth[f] \in Versions \cup {None} /\ Empty # None
        /\ UNCHANGED <<bucket, db, mpc, todo, cur, mgot, hpc, hfile, hremote, hgot>>
        /\ hpc # "dead"
    BY NamesAssumption, ContentsAssumption DEF UserRead, servers, migratorVars,
       handlerVars, IInv, TypeOK, SafetyInv, ProcessInv
  <1>2. /\ disk[f] # None /\ UNCHANGED <<disk, opened, truth>>
    BY <1>1 DEF UserRead, IInv, TypeOK
  <1>3. Reopened(f, queue, queue')
    BY <1>1, <1>2, OwnEventsViews DEF UserRead, Notify, IInv, TypeOK
  <1>4. /\ Handling(f)' = Handling(f)
        /\ Moving(f)' = Moving(f)
        /\ Stopped' <=> Stopped
        /\ ToDemote(f)' <=> ToDemote(f)
        /\ ToPromote(f)' <=> ToPromote(f)
    BY <1>1, <1>2, <1>3 DEF Moving, Handling, ToDemote, ToPromote, Stopped
  <1>5. /\ ~ToDemote(f) /\ Moving(f) \in {"off"} \cup PromotionSteps
    BY <1>1, <1>2, <1>3, <1>4 DEF UserRead, MayOpen, Calm, ToDemote, Moving,
       SafetyInv, ProcessInv, PromotionSteps, DemotionSteps
  <1>6. HashIsWhole(f)'
    BY <1>1, <1>2, <1>3, <1>4, <1>5 DEF FileInv, HashIsWhole, Whole, Reopened,
       Used, NoEntry, RecallSteps, PromotionSteps
  <1>7. HandlerHasHash(f)'
    BY <1>1, <1>2, <1>3, <1>4, <1>5 DEF FileInv, HandlerHasHash, OpenSteps,
       Reopened, Used, NoEntry, RecallSteps, PromotionSteps
  <1>8. HashIffFile(f)'
    BY <1>1, <1>2, <1>3, <1>4, <1>5 DEF FileInv, HashIffFile, EventsServed,
       WillStand, HashStands, Reopened, Used, NoEntry, RecallSteps,
       PromotionSteps
  <1>9. DiskHolds(f)'
    BY <1>1, <1>2, <1>3, <1>4, <1>5 DEF FileInv, DiskHolds, Current, Reopened,
       Used, NoEntry, RecallSteps, PromotionSteps
  <1>10. Somewhere(f)'
    BY <1>1, <1>2, <1>3, <1>4, <1>5 DEF FileInv, Somewhere, Reopened, Used,
       NoEntry, RecallSteps, PromotionSteps
  <1>11. ColdLeads(f)'
    BY <1>1, <1>2, <1>3, <1>4, <1>5 DEF FileInv, ColdLeads, Current, Fetchable,
       Reopened, Used, NoEntry, RecallSteps, PromotionSteps
  <1>12. ColdIsFresh(f)'
    BY <1>1, <1>2, <1>3, <1>4, <1>5 DEF FileInv, ColdIsFresh, RecallSteps,
       Reopened, Used, NoEntry, PromotionSteps
  <1>13. LocalIsTrue(f)'
    BY <1>1, <1>2, <1>3, <1>4, <1>5 DEF FileInv, LocalIsTrue, Current,
       Reopened, Used, NoEntry, RecallSteps, PromotionSteps
  <1>14. MarkIsTrue(f)'
    BY <1>1, <1>2, <1>3, <1>4, <1>5 DEF FileInv, MarkIsTrue, Reopened, Used,
       NoEntry, RecallSteps, PromotionSteps
  <1>15. Recall(f)'
    BY <1>1, <1>2, <1>3, <1>4, <1>5 DEF FileInv, Recall, Fetchable, Reopened,
       Used, NoEntry, RecallSteps, PromotionSteps
  <1>16. Demotion1(f)'
    BY <1>1, <1>2, <1>3, <1>4, <1>5 DEF FileInv, Demotion1, Whole, Reopened,
       Used, NoEntry, RecallSteps, PromotionSteps
  <1>17. Demotion2(f)'
    BY <1>1, <1>2, <1>3, <1>4, <1>5 DEF FileInv, Demotion2, Current,
       RecallSteps, Reopened, Used, NoEntry, PromotionSteps
  <1>18. Promotion1(f)'
    BY <1>1, <1>2, <1>3, <1>4, <1>5 DEF FileInv, Promotion1, Whole, Fetchable,
       Current, Reopened, Used, NoEntry, RecallSteps, PromotionSteps
  <1>19. OpenIsRecent(f)'
    BY <1>1, <1>2, <1>3, <1>4, <1>5 DEF FileInv, OpenIsRecent, Current,
       OpenSteps, RecallSteps, Reopened, Used, NoEntry, PromotionSteps
  <1> QED
    BY <1>6, <1>7, <1>8, <1>9, <1>10, <1>11, <1>12, <1>13, <1>14, <1>15, <1>16,
     <1>17, <1>18, <1>19 DEF FileInv

\* What a user writes to a file is its content.
LEMMA UserWriteSafe ==
    ASSUME Calm, IInv, SafetyInv, NEW f \in Files, NEW v \in Versions,
           UserWrite(f, v)
    PROVE  FileInv(f)'
  <1>1. /\ FileInv(f) /\ f # None /\ db[f] \in Entries /\ "delete" # "open"
        /\ truth[f] # Empty /\ truth[f] \in Versions \cup {None} /\ Empty # None
        /\ v # None /\ v # Empty
        /\ UNCHANGED <<bucket, db, mpc, todo, cur, mgot, hpc, hfile, hremote, hgot>>
        /\ hpc # "dead"
    BY NamesAssumption, ContentsAssumption DEF UserWrite, servers,
       migratorVars, handlerVars, IInv, TypeOK, SafetyInv, ProcessInv
  <1>2. /\ opened[f] = "yes" /\ truth[f] # None /\ disk[f] = truth[f]
        /\ disk'[f] = v /\ truth'[f] = v /\ UNCHANGED opened
    BY <1>1 DEF UserWrite, IInv, TypeOK, Calm, FileInv, OpenIsRecent
  <1>3. Modified(f, queue, queue')
    BY <1>1, <1>2, OwnEventsViews DEF UserWrite, Notify, IInv, TypeOK
  <1>4. /\ Handling(f)' = Handling(f)
        /\ Moving(f)' = Moving(f)
        /\ Stopped' <=> Stopped
        /\ ToDemote(f)' <=> ToDemote(f)
        /\ ToPromote(f)' <=> ToPromote(f)
    BY <1>1, <1>2, <1>3 DEF Moving, Handling, ToDemote, ToPromote, Stopped
  <1>5. /\ ~ToDemote(f) /\ ~ToPromote(f) /\ Moving(f) = "off"
        /\ Handling(f) \notin {"openLocal", "openMeta"} \cup RecallSteps
        /\ db[f].isLocal = 0 \/ disk[f] = Empty => ~OpenPending(f, queue)
    BY <1>1, <1>2, <1>3, <1>4 DEF UserWrite, MayChange, Calm, BeingRecalled,
       RecallSteps, Cold, OpenPending, ToDemote, ToPromote, Moving, Handling,
       SafetyInv, ProcessInv
  <1>6. HashIsWhole(f)'
    BY <1>1, <1>2, <1>3, <1>4, <1>5 DEF FileInv, HashIsWhole, Whole, Modified,
       Used, NoEntry, RecallSteps
  <1>7. HandlerHasHash(f)'
    BY <1>1, <1>2, <1>3, <1>4, <1>5 DEF FileInv, HandlerHasHash, OpenSteps,
       Modified, Used, NoEntry, RecallSteps
  <1>8. HashIffFile(f)'
    BY <1>1, <1>2, <1>3, <1>4, <1>5 DEF FileInv, HashIffFile, EventsServed,
       WillStand, HashStands, Modified, Used, NoEntry, RecallSteps
  <1>9. DiskHolds(f)'
    BY <1>1, <1>2, <1>3, <1>4, <1>5 DEF FileInv, DiskHolds, Current, Modified,
       Used, NoEntry, RecallSteps
  <1>10. Somewhere(f)'
    BY <1>1, <1>2, <1>3, <1>4, <1>5 DEF FileInv, Somewhere, Modified, Used,
       NoEntry, RecallSteps
  <1>11. ColdLeads(f)'
    BY <1>1, <1>2, <1>3, <1>4, <1>5 DEF FileInv, ColdLeads, Current, Fetchable,
       Modified, Used, NoEntry, RecallSteps
  <1>12. ColdIsFresh(f)'
    BY <1>1, <1>2, <1>3, <1>4, <1>5 DEF FileInv, ColdIsFresh, RecallSteps,
       Modified, Used, NoEntry
  <1>13. LocalIsTrue(f)'
    BY <1>1, <1>2, <1>3, <1>4, <1>5 DEF FileInv, LocalIsTrue, Current,
       Modified, Used, NoEntry, RecallSteps
  <1>14. MarkIsTrue(f)'
    BY <1>1, <1>2, <1>3, <1>4, <1>5 DEF FileInv, MarkIsTrue, Modified, Used,
       NoEntry, RecallSteps
  <1>15. Recall(f)'
    BY <1>1, <1>2, <1>3, <1>4, <1>5 DEF FileInv, Recall, Fetchable, Modified,
       Used, NoEntry, RecallSteps
  <1>16. Demotion1(f)'
    BY <1>1, <1>2, <1>3, <1>4, <1>5 DEF FileInv, Demotion1, Whole, Modified,
       Used, NoEntry, RecallSteps
  <1>17. Demotion2(f)'
    BY <1>1, <1>2, <1>3, <1>4, <1>5 DEF FileInv, Demotion2, Current,
       RecallSteps, Modified, Used, NoEntry
  <1>18. Promotion1(f)'
    BY <1>1, <1>2, <1>3, <1>4, <1>5 DEF FileInv, Promotion1, Whole, Fetchable,
       Current, Modified, Used, NoEntry, RecallSteps
  <1>19. OpenIsRecent(f)'
    BY <1>1, <1>2, <1>3, <1>4, <1>5 DEF FileInv, OpenIsRecent, Current,
       OpenSteps, RecallSteps, Modified, Used, NoEntry
  <1> QED
    BY <1>6, <1>7, <1>8, <1>9, <1>10, <1>11, <1>12, <1>13, <1>14, <1>15, <1>16,
     <1>17, <1>18, <1>19 DEF FileInv

\* A file that a user makes is as the user made it.
LEMMA UserCreateSafe ==
    ASSUME Calm, IInv, SafetyInv, NEW f \in Files, NEW v \in Versions,
           UserCreate(f, v)
    PROVE  FileInv(f)'
  <1>1. /\ FileInv(f) /\ f # None /\ db[f] \in Entries /\ "delete" # "open"
        /\ truth[f] # Empty /\ truth[f] \in Versions \cup {None} /\ Empty # None
        /\ v # None /\ v # Empty
        /\ UNCHANGED <<bucket, db, mpc, todo, cur, mgot, hpc, hfile, hremote, hgot>>
        /\ hpc # "dead"
    BY NamesAssumption, ContentsAssumption DEF UserCreate, servers,
       migratorVars, handlerVars, IInv, TypeOK, SafetyInv, ProcessInv
  <1>2. /\ disk[f] = None /\ truth[f] = None /\ opened[f] = "no"
        /\ disk'[f] = v /\ truth'[f] = v /\ UNCHANGED opened
    BY <1>1 DEF UserCreate, IInv, TypeOK
  <1>3. Made(f, queue, queue')
    BY <1>1, <1>2, OwnEventsViews DEF UserCreate, Notify, IInv, TypeOK
  <1>4. /\ Handling(f)' = Handling(f)
        /\ Moving(f)' = Moving(f)
        /\ Stopped' <=> Stopped
        /\ ToDemote(f)' <=> ToDemote(f)
        /\ ToPromote(f)' <=> ToPromote(f)
    BY <1>1, <1>2, <1>3 DEF Moving, Handling, ToDemote, ToPromote, Stopped
  <1>5. /\ ~ToDemote(f) /\ ~ToPromote(f) /\ Moving(f) = "off"
        /\ Handling(f) \notin {"openLocal", "openMeta"} \cup RecallSteps
        /\ db[f].isLocal = 0 \/ disk[f] = Empty => ~OpenPending(f, queue)
    BY <1>1, <1>2, <1>3, <1>4 DEF UserCreate, MayChange, Calm, BeingRecalled,
       RecallSteps, Cold, OpenPending, ToDemote, ToPromote, Moving, Handling,
       SafetyInv, ProcessInv
  <1>6. HashIsWhole(f)'
    BY <1>1, <1>2, <1>3, <1>4, <1>5 DEF FileInv, HashIsWhole, Whole, Made,
       NoEntry, RecallSteps
  <1>7. HandlerHasHash(f)'
    BY <1>1, <1>2, <1>3, <1>4, <1>5 DEF FileInv, HandlerHasHash, OpenSteps,
       Made, NoEntry, RecallSteps
  <1>8. HashIffFile(f)'
    BY <1>1, <1>2, <1>3, <1>4, <1>5 DEF FileInv, HashIffFile, EventsServed,
       WillStand, HashStands, Made, NoEntry, RecallSteps
  <1>9. DiskHolds(f)'
    BY <1>1, <1>2, <1>3, <1>4, <1>5 DEF FileInv, DiskHolds, Current, Made,
       NoEntry, RecallSteps
  <1>10. Somewhere(f)'
    BY <1>1, <1>2, <1>3, <1>4, <1>5 DEF FileInv, Somewhere, Made, NoEntry,
       RecallSteps
  <1>11. ColdLeads(f)'
    BY <1>1, <1>2, <1>3, <1>4, <1>5 DEF FileInv, ColdLeads, Current, Fetchable,
       Made, NoEntry, RecallSteps
  <1>12. ColdIsFresh(f)'
    BY <1>1, <1>2, <1>3, <1>4, <1>5 DEF FileInv, ColdIsFresh, RecallSteps,
       Made, NoEntry
  <1>13. LocalIsTrue(f)'
    BY <1>1, <1>2, <1>3, <1>4, <1>5 DEF FileInv, LocalIsTrue, Current, Made,
       NoEntry, RecallSteps
  <1>14. MarkIsTrue(f)'
    BY <1>1, <1>2, <1>3, <1>4, <1>5 DEF FileInv, MarkIsTrue, Made, NoEntry,
       RecallSteps
  <1>15. Recall(f)'
    BY <1>1, <1>2, <1>3, <1>4, <1>5 DEF FileInv, Recall, Fetchable, Made,
       NoEntry, RecallSteps
  <1>16. Demotion1(f)'
    BY <1>1, <1>2, <1>3, <1>4, <1>5 DEF FileInv, Demotion1, Whole, Made,
       NoEntry, RecallSteps
  <1>17. Demotion2(f)'
    BY <1>1, <1>2, <1>3, <1>4, <1>5 DEF FileInv, Demotion2, Current,
       RecallSteps, Made, NoEntry
  <1>18. Promotion1(f)'
    BY <1>1, <1>2, <1>3, <1>4, <1>5 DEF FileInv, Promotion1, Whole, Fetchable,
       Current, Made, NoEntry, RecallSteps
  <1>19. OpenIsRecent(f)'
    BY <1>1, <1>2, <1>3, <1>4, <1>5 DEF FileInv, OpenIsRecent, Current,
       OpenSteps, RecallSteps, Made, NoEntry
  <1> QED
    BY <1>6, <1>7, <1>8, <1>9, <1>10, <1>11, <1>12, <1>13, <1>14, <1>15, <1>16,
     <1>17, <1>18, <1>19 DEF FileInv

\* A file that a user removes is gone, and its hash counts as gone.
LEMMA UserDeleteSafe ==
    ASSUME Calm, IInv, SafetyInv, NEW f \in Files, UserDelete(f)
    PROVE  FileInv(f)'
  <1>1. /\ FileInv(f) /\ f # None /\ db[f] \in Entries /\ "delete" # "open"
        /\ truth[f] # Empty /\ truth[f] \in Versions \cup {None} /\ Empty # None
        /\ UNCHANGED <<bucket, db, mpc, todo, cur, mgot, hpc, hfile, hremote, hgot>>
        /\ hpc # "dead"
    BY NamesAssumption, ContentsAssumption DEF UserDelete, servers,
       migratorVars, handlerVars, IInv, TypeOK, SafetyInv, ProcessInv
  <1>2. /\ disk[f] # None /\ truth[f] # None /\ opened[f] = "no"
        /\ disk'[f] = None /\ truth'[f] = None /\ opened'[f] = "no"
    BY <1>1 DEF UserDelete, IInv, TypeOK, Calm
  <1>3. Removed(f, queue, queue')
    BY <1>1, <1>2, OwnEventsViews DEF UserDelete, Notify, IInv, TypeOK
  <1>4. /\ Handling(f)' = Handling(f)
        /\ Moving(f)' = Moving(f)
        /\ Stopped' <=> Stopped
        /\ ToDemote(f)' <=> ToDemote(f)
        /\ ToPromote(f)' <=> ToPromote(f)
    BY <1>1, <1>2, <1>3 DEF Moving, Handling, ToDemote, ToPromote, Stopped
  <1>5. /\ ~ToDemote(f) /\ ~ToPromote(f) /\ Moving(f) = "off"
        /\ Handling(f) \notin {"openLocal", "openMeta"} \cup RecallSteps
        /\ db[f].isLocal = 0 \/ disk[f] = Empty => ~OpenPending(f, queue)
    BY <1>1, <1>2, <1>3, <1>4 DEF UserDelete, MayChange, Calm, BeingRecalled,
       RecallSteps, Cold, OpenPending, ToDemote, ToPromote, Moving, Handling,
       SafetyInv, ProcessInv
  <1>6. HashIsWhole(f)'
    BY <1>1, <1>2, <1>3, <1>4, <1>5 DEF FileInv, HashIsWhole, Whole, Removed,
       NoEntry, RecallSteps
  <1>7. HandlerHasHash(f)'
    BY <1>1, <1>2, <1>3, <1>4, <1>5 DEF FileInv, HandlerHasHash, OpenSteps,
       Removed, NoEntry, RecallSteps
  <1>8. HashIffFile(f)'
    BY <1>1, <1>2, <1>3, <1>4, <1>5 DEF FileInv, HashIffFile, EventsServed,
       WillStand, HashStands, Removed, NoEntry, RecallSteps
  <1>9. DiskHolds(f)'
    BY <1>1, <1>2, <1>3, <1>4, <1>5 DEF FileInv, DiskHolds, Current, Removed,
       NoEntry, RecallSteps
  <1>10. Somewhere(f)'
    BY <1>1, <1>2, <1>3, <1>4, <1>5 DEF FileInv, Somewhere, Removed, NoEntry,
       RecallSteps
  <1>11. ColdLeads(f)'
    BY <1>1, <1>2, <1>3, <1>4, <1>5 DEF FileInv, ColdLeads, Current, Fetchable,
       Removed, NoEntry, RecallSteps
  <1>12. ColdIsFresh(f)'
    BY <1>1, <1>2, <1>3, <1>4, <1>5 DEF FileInv, ColdIsFresh, RecallSteps,
       Removed, NoEntry
  <1>13. LocalIsTrue(f)'
    BY <1>1, <1>2, <1>3, <1>4, <1>5 DEF FileInv, LocalIsTrue, Current, Removed,
       NoEntry, RecallSteps
  <1>14. MarkIsTrue(f)'
    BY <1>1, <1>2, <1>3, <1>4, <1>5 DEF FileInv, MarkIsTrue, Removed, NoEntry,
       RecallSteps
  <1>15. Recall(f)'
    BY <1>1, <1>2, <1>3, <1>4, <1>5 DEF FileInv, Recall, Fetchable, Removed,
       NoEntry, RecallSteps
  <1>16. Demotion1(f)'
    BY <1>1, <1>2, <1>3, <1>4, <1>5 DEF FileInv, Demotion1, Whole, Removed,
       NoEntry, RecallSteps
  <1>17. Demotion2(f)'
    BY <1>1, <1>2, <1>3, <1>4, <1>5 DEF FileInv, Demotion2, Current,
       RecallSteps, Removed, NoEntry
  <1>18. Promotion1(f)'
    BY <1>1, <1>2, <1>3, <1>4, <1>5 DEF FileInv, Promotion1, Whole, Fetchable,
       Current, Removed, NoEntry, RecallSteps
  <1>19. OpenIsRecent(f)'
    BY <1>1, <1>2, <1>3, <1>4, <1>5 DEF FileInv, OpenIsRecent, Current,
       OpenSteps, RecallSteps, Removed, NoEntry
  <1> QED
    BY <1>6, <1>7, <1>8, <1>9, <1>10, <1>11, <1>12, <1>13, <1>14, <1>15, <1>16,
     <1>17, <1>18, <1>19 DEF FileInv

-----------------------------------------------------------------------------
(***************************************************************************)
(* Scans and the clock, which are about all files, and the supervisor's    *)
(* end.                                                                    *)
(***************************************************************************)

\* A scan for files to demote finds each as its hash says: nothing waits to be
\* handled.
LEMMA ScanDemotionSafe ==
    ASSUME Calm, IInv, SafetyInv, UNCHANGED <<handlerVars, truth>>,
           NEW f \in Files, ScanDemotion
    PROVE  FileInv(f)'
  <1>1. /\ FileInv(f) /\ f # None /\ db[f] \in Entries /\ todo[f] \in Entries
        /\ truth[f] # Empty /\ truth[f] \in Versions \cup {None} /\ Empty # None
        /\ UNCHANGED <<hfile, hremote, hgot, truth>>
    BY NamesAssumption, ContentsAssumption DEF SafetyInv, handlerVars, IInv,
       TypeOK
  <1>2. hpc = "idle" /\ queue = <<>>
    BY <1>1 DEF ScanDemotion, Scan, Slept, HandlerIdle, Calm, SafetyInv,
       ProcessInv
  <1>3. /\ NoDelete(f, queue) /\ ~OpenPending(f, queue) /\ ~FreshOpen(f, queue)
        /\ OpensAreFresh(f, queue) /\ OnlyCloses(f, queue) /\ Silent(f, queue)
        /\ ~Recreated(f, queue) /\ ServedWith(f, queue) /\ ServedWithout(f, queue)
    BY <1>1, <1>2, EmptyViews
  <1>4. /\ mpc = "scanDemotion" /\ mpc' = "demote" /\ cur = None /\ cur' = None
        /\ UNCHANGED <<disk, bucket, db, queue, opened, hpc, mgot>>
    BY <1>1, <1>2, <1>3 DEF ScanDemotion, Scan, worldVars, SafetyInv,
       ProcessInv
  <1>5. db[f] = NoEntry \/ Whole(db[f], f)
    BY <1>1, <1>2, <1>3, <1>4 DEF FileInv, HashIsWhole
  <1>6. \/ todo'[f] = NoEntry
        \/ todo'[f] = db[f] /\ db[f].form = "made" /\ db[f].isLocal = 1
    BY <1>1, <1>2, <1>3, <1>4, <1>5 DEF ScanDemotion, Scan, Listed, Calm,
       Entries
  <1>7. /\ Moving(f) = "off" /\ Moving(f)' = "off"
        /\ Handling(f) = "off" /\ Handling(f)' = "off"
        /\ ~Stopped /\ ~Stopped' /\ ~ToPromote(f)'
        /\ ToDemote(f)' => todo'[f] = db[f] /\ db[f].form = "made" /\ db[f].isLocal = 1
    BY <1>1, <1>2, <1>3, <1>4, <1>5, <1>6 DEF Moving, Handling, ToDemote,
       ToPromote, Stopped, DemotionSteps, PromotionSteps, SafetyInv, ProcessInv
  <1>8. HashIsWhole(f)'
    BY <1>1, <1>2, <1>3, <1>4, <1>5, <1>6, <1>7 DEF FileInv, HashIsWhole,
       Whole, NoEntry, Flag
  <1>9. HandlerHasHash(f)'
    BY <1>1, <1>2, <1>3, <1>4, <1>5, <1>6, <1>7 DEF FileInv, HandlerHasHash,
       OpenSteps, Whole, NoEntry, Flag
  <1>10. HashIffFile(f)'
    BY <1>1, <1>2, <1>3, <1>4, <1>5, <1>6, <1>7 DEF FileInv, HashIffFile,
       EventsServed, WillStand, HashStands, Whole, NoEntry, Flag
  <1>11. DiskHolds(f)'
    BY <1>1, <1>2, <1>3, <1>4, <1>5, <1>6, <1>7 DEF FileInv, DiskHolds,
       Current, Whole, NoEntry, Flag
  <1>12. Somewhere(f)'
    BY <1>1, <1>2, <1>3, <1>4, <1>5, <1>6, <1>7 DEF FileInv, Somewhere, Whole,
       NoEntry, Flag
  <1>13. ColdLeads(f)'
    BY <1>1, <1>2, <1>3, <1>4, <1>5, <1>6, <1>7 DEF FileInv, ColdLeads,
       Current, Fetchable, Whole, NoEntry, Flag
  <1>14. ColdIsFresh(f)'
    BY <1>1, <1>2, <1>3, <1>4, <1>5, <1>6, <1>7 DEF FileInv, ColdIsFresh,
       RecallSteps, Whole, NoEntry, Flag
  <1>15. LocalIsTrue(f)'
    BY <1>1, <1>2, <1>3, <1>4, <1>5, <1>6, <1>7 DEF FileInv, LocalIsTrue,
       Current, Whole, NoEntry, Flag
  <1>16. MarkIsTrue(f)'
    BY <1>1, <1>2, <1>3, <1>4, <1>5, <1>6, <1>7 DEF FileInv, MarkIsTrue, Whole,
       NoEntry, Flag
  <1>17. Recall(f)'
    BY <1>1, <1>2, <1>3, <1>4, <1>5, <1>6, <1>7 DEF FileInv, Recall, Fetchable,
       Whole, NoEntry, Flag
  <1>18. Demotion1(f)'
    BY <1>1, <1>2, <1>3, <1>4, <1>5, <1>6, <1>7 DEF FileInv, Demotion1,
       LocalIsTrue, MarkIsTrue, OpenIsRecent, ColdLeads, ColdIsFresh,
       DiskHolds, HashIsWhole, HandlerHasHash, Somewhere, Whole, Current,
       OpenSteps, RecallSteps, Fetchable, NoEntry, Flag
  <1>19. Demotion2(f)'
    BY <1>1, <1>2, <1>3, <1>4, <1>5, <1>6, <1>7 DEF FileInv, Demotion2,
       Current, RecallSteps, Whole, NoEntry, Flag
  <1>20. Promotion1(f)'
    BY <1>1, <1>2, <1>3, <1>4, <1>5, <1>6, <1>7 DEF FileInv, Promotion1, Whole,
       Fetchable, Current, NoEntry, Flag
  <1>21. OpenIsRecent(f)'
    BY <1>1, <1>2, <1>3, <1>4, <1>5, <1>6, <1>7 DEF FileInv, OpenIsRecent,
       Current, OpenSteps, RecallSteps, Whole, NoEntry, Flag
  <1> QED
    BY <1>8, <1>9, <1>10, <1>11, <1>12, <1>13, <1>14, <1>15, <1>16, <1>17, <1>18,
     <1>19, <1>20, <1>21 DEF FileInv

\* So does a scan for files to promote.
LEMMA ScanPromotionSafe ==
    ASSUME Calm, IInv, SafetyInv, UNCHANGED <<handlerVars, truth>>,
           NEW f \in Files, ScanPromotion
    PROVE  FileInv(f)'
  <1>1. /\ FileInv(f) /\ f # None /\ db[f] \in Entries /\ todo[f] \in Entries
        /\ truth[f] # Empty /\ truth[f] \in Versions \cup {None} /\ Empty # None
        /\ UNCHANGED <<hfile, hremote, hgot, truth>>
    BY NamesAssumption, ContentsAssumption DEF SafetyInv, handlerVars, IInv,
       TypeOK
  <1>2. hpc = "idle" /\ queue = <<>>
    BY <1>1 DEF ScanPromotion, Scan, Slept, HandlerIdle, Calm, SafetyInv,
       ProcessInv
  <1>3. /\ NoDelete(f, queue) /\ ~OpenPending(f, queue) /\ ~FreshOpen(f, queue)
        /\ OpensAreFresh(f, queue) /\ OnlyCloses(f, queue) /\ Silent(f, queue)
        /\ ~Recreated(f, queue) /\ ServedWith(f, queue) /\ ServedWithout(f, queue)
    BY <1>1, <1>2, EmptyViews
  <1>4. /\ mpc = "scanPromotion" /\ mpc' = "promote" /\ cur = None /\ cur' = None
        /\ UNCHANGED <<disk, bucket, db, queue, opened, hpc, mgot>>
    BY <1>1, <1>2, <1>3 DEF ScanPromotion, Scan, worldVars, SafetyInv,
       ProcessInv
  <1>5. db[f] = NoEntry \/ Whole(db[f], f)
    BY <1>1, <1>2, <1>3, <1>4 DEF FileInv, HashIsWhole
  <1>6. \/ todo'[f] = NoEntry
        \/ todo'[f] = db[f] /\ db[f].form = "made" /\ db[f].isLocal = 0
    BY <1>1, <1>2, <1>3, <1>4, <1>5 DEF ScanPromotion, Scan, Listed, Calm,
       Entries
  <1>7. /\ Moving(f) = "off" /\ Moving(f)' = "off"
        /\ Handling(f) = "off" /\ Handling(f)' = "off"
        /\ ~Stopped /\ ~Stopped' /\ ~ToDemote(f)'
        /\ ToPromote(f)' => todo'[f] = db[f] /\ db[f].form = "made" /\ db[f].isLocal = 0
    BY <1>1, <1>2, <1>3, <1>4, <1>5, <1>6 DEF Moving, Handling, ToDemote,
       ToPromote, Stopped, DemotionSteps, PromotionSteps, SafetyInv, ProcessInv
  <1>8. HashIsWhole(f)'
    BY <1>1, <1>2, <1>3, <1>4, <1>5, <1>6, <1>7 DEF FileInv, HashIsWhole,
       Whole, NoEntry, Flag
  <1>9. HandlerHasHash(f)'
    BY <1>1, <1>2, <1>3, <1>4, <1>5, <1>6, <1>7 DEF FileInv, HandlerHasHash,
       OpenSteps, Whole, NoEntry, Flag
  <1>10. HashIffFile(f)'
    BY <1>1, <1>2, <1>3, <1>4, <1>5, <1>6, <1>7 DEF FileInv, HashIffFile,
       EventsServed, WillStand, HashStands, Whole, NoEntry, Flag
  <1>11. DiskHolds(f)'
    BY <1>1, <1>2, <1>3, <1>4, <1>5, <1>6, <1>7 DEF FileInv, DiskHolds,
       Current, Whole, NoEntry, Flag
  <1>12. Somewhere(f)'
    BY <1>1, <1>2, <1>3, <1>4, <1>5, <1>6, <1>7 DEF FileInv, Somewhere, Whole,
       NoEntry, Flag
  <1>13. ColdLeads(f)'
    BY <1>1, <1>2, <1>3, <1>4, <1>5, <1>6, <1>7 DEF FileInv, ColdLeads,
       Current, Fetchable, Whole, NoEntry, Flag
  <1>14. ColdIsFresh(f)'
    BY <1>1, <1>2, <1>3, <1>4, <1>5, <1>6, <1>7 DEF FileInv, ColdIsFresh,
       RecallSteps, Whole, NoEntry, Flag
  <1>15. LocalIsTrue(f)'
    BY <1>1, <1>2, <1>3, <1>4, <1>5, <1>6, <1>7 DEF FileInv, LocalIsTrue,
       Current, Whole, NoEntry, Flag
  <1>16. MarkIsTrue(f)'
    BY <1>1, <1>2, <1>3, <1>4, <1>5, <1>6, <1>7 DEF FileInv, MarkIsTrue, Whole,
       NoEntry, Flag
  <1>17. Recall(f)'
    BY <1>1, <1>2, <1>3, <1>4, <1>5, <1>6, <1>7 DEF FileInv, Recall, Fetchable,
       Whole, NoEntry, Flag
  <1>18. Demotion1(f)'
    BY <1>1, <1>2, <1>3, <1>4, <1>5, <1>6, <1>7 DEF FileInv, Demotion1, Whole,
       NoEntry, Flag
  <1>19. Demotion2(f)'
    BY <1>1, <1>2, <1>3, <1>4, <1>5, <1>6, <1>7 DEF FileInv, Demotion2,
       Current, RecallSteps, Whole, NoEntry, Flag
  <1>20. Promotion1(f)'
    BY <1>1, <1>2, <1>3, <1>4, <1>5, <1>6, <1>7 DEF FileInv, Promotion1,
       LocalIsTrue, MarkIsTrue, OpenIsRecent, ColdLeads, ColdIsFresh, Whole,
       Fetchable, Current, OpenSteps, RecallSteps, NoEntry, Flag
  <1>21. OpenIsRecent(f)'
    BY <1>1, <1>2, <1>3, <1>4, <1>5, <1>6, <1>7 DEF FileInv, OpenIsRecent,
       Current, OpenSteps, RecallSteps, Whole, NoEntry, Flag
  <1> QED
    BY <1>8, <1>9, <1>10, <1>11, <1>12, <1>13, <1>14, <1>15, <1>16, <1>17, <1>18,
     <1>19, <1>20, <1>21 DEF FileInv

\* The clock ages a hash and its copy in a list together, and finds no file
\* open.
LEMMA TimeSafe ==
    ASSUME Calm, IInv, SafetyInv, NEW f \in Files, TimePasses
    PROVE  FileInv(f)'
  <1>1. /\ FileInv(f) /\ f # None /\ db[f] \in Entries /\ todo[f] \in Entries
        /\ truth[f] # Empty /\ truth[f] \in Versions \cup {None} /\ Empty # None
        /\ UNCHANGED <<hfile, hremote, hgot, truth>>
    BY NamesAssumption, ContentsAssumption DEF TimePasses, SafetyInv,
       handlerVars, IInv, TypeOK
  <1>2. /\ db'[f] = Aged(db[f]) /\ todo'[f] = Aged(todo[f]) /\ opened[f] = "no"
        /\ UNCHANGED <<disk, bucket, queue, opened, hpc, mpc, cur, mgot>>
    BY <1>1 DEF TimePasses, Calm
  <1>3. Aged(NoEntry) = NoEntry
    BY <1>1, <1>2, NamesAssumption DEF Aged, NoEntry, Ages
  <1>4. \/ db[f] = NoEntry /\ db'[f] = NoEntry
        \/ /\ Whole(db[f], f)
           /\ db'[f].form = "made" /\ db'[f].fileName = f
           /\ db'[f].remoteURI = db[f].remoteURI /\ db'[f].isLocal = db[f].isLocal
           /\ db'[f].isMetadata = db[f].isMetadata /\ db'[f].isOpen = db[f].isOpen
           /\ db'[f].lastModified = "old"
    BY <1>1, <1>2, <1>3, SettersFields DEF SameHash, FileInv, HashIsWhole,
       Whole, Ages
  <1>5. ToDemote(f) \/ ToPromote(f) =>
            /\ Whole(todo[f], f)
            /\ todo'[f].form = "made" /\ todo'[f].fileName = f
            /\ todo'[f].remoteURI = todo[f].remoteURI /\ todo'[f].isLocal = todo[f].isLocal
            /\ todo'[f].isMetadata = todo[f].isMetadata /\ todo'[f].isOpen = todo[f].isOpen
            /\ todo'[f].lastModified = "old"
    BY <1>1, <1>2, <1>3, <1>4, SettersFields DEF SameHash, FileInv, Demotion1,
       Promotion1, Whole, Ages
  <1>6. /\ Handling(f)' = Handling(f)
        /\ Moving(f)' = Moving(f)
        /\ Stopped' <=> Stopped
        /\ ToDemote(f)' => ToDemote(f)
        /\ ToPromote(f)' => ToPromote(f)
    BY <1>1, <1>2, <1>3, <1>4, <1>5 DEF Moving, Handling, ToDemote, ToPromote,
       Stopped
  <1>7. HashIsWhole(f)'
    BY <1>1, <1>2, <1>3, <1>4, <1>5, <1>6 DEF FileInv, HashIsWhole, Whole,
       NoEntry, Ages
  <1>8. HandlerHasHash(f)'
    BY <1>1, <1>2, <1>3, <1>4, <1>5, <1>6 DEF FileInv, HandlerHasHash,
       OpenSteps, Whole, NoEntry, Ages
  <1>9. HashIffFile(f)'
    BY <1>1, <1>2, <1>3, <1>4, <1>5, <1>6 DEF FileInv, HashIffFile,
       EventsServed, WillStand, HashStands, Whole, NoEntry, Ages
  <1>10. DiskHolds(f)'
    BY <1>1, <1>2, <1>3, <1>4, <1>5, <1>6 DEF FileInv, DiskHolds, Current,
       Whole, NoEntry, Ages
  <1>11. Somewhere(f)'
    BY <1>1, <1>2, <1>3, <1>4, <1>5, <1>6 DEF FileInv, Somewhere, Whole,
       NoEntry, Ages
  <1>12. ColdLeads(f)'
    BY <1>1, <1>2, <1>3, <1>4, <1>5, <1>6 DEF FileInv, ColdLeads, Current,
       Fetchable, Whole, NoEntry, Ages
  <1>13. ColdIsFresh(f)'
    BY <1>1, <1>2, <1>3, <1>4, <1>5, <1>6 DEF FileInv, ColdIsFresh,
       RecallSteps, Whole, NoEntry, Ages
  <1>14. LocalIsTrue(f)'
    BY <1>1, <1>2, <1>3, <1>4, <1>5, <1>6 DEF FileInv, LocalIsTrue, Current,
       Whole, NoEntry, Ages
  <1>15. MarkIsTrue(f)'
    BY <1>1, <1>2, <1>3, <1>4, <1>5, <1>6 DEF FileInv, MarkIsTrue, Whole,
       NoEntry, Ages
  <1>16. Recall(f)'
    BY <1>1, <1>2, <1>3, <1>4, <1>5, <1>6 DEF FileInv, Recall, Fetchable,
       Whole, NoEntry, Ages
  <1>17. Demotion1(f)'
    BY <1>1, <1>2, <1>3, <1>4, <1>5, <1>6 DEF FileInv, Demotion1, Whole,
       NoEntry, Ages
  <1>18. Demotion2(f)'
    BY <1>1, <1>2, <1>3, <1>4, <1>5, <1>6 DEF FileInv, Demotion2, Current,
       RecallSteps, Whole, NoEntry, Ages
  <1>19. Promotion1(f)'
    BY <1>1, <1>2, <1>3, <1>4, <1>5, <1>6 DEF FileInv, Promotion1, Whole,
       Fetchable, Current, NoEntry, Ages
  <1>20. OpenIsRecent(f)'
    BY <1>1, <1>2, <1>3, <1>4, <1>5, <1>6 DEF FileInv, OpenIsRecent, Current,
       OpenSteps, RecallSteps, Whole, NoEntry, Ages
  <1> QED
    BY <1>7, <1>8, <1>9, <1>10, <1>11, <1>12, <1>13, <1>14, <1>15, <1>16, <1>17,
     <1>18, <1>19, <1>20 DEF FileInv

\* A supervisor that is killed leaves its file as it is: its steps have no part
\* in what the invariant says of a file while it is down.
LEMMA KillSupervisorSafe ==
    ASSUME Calm, IInv, SafetyInv, NEW f \in Files, KillSupervisor
    PROVE  FileInv(f)'
  <1>1. /\ FileInv(f) /\ f # None /\ db[f] \in Entries /\ todo[f] \in Entries
        /\ truth[f] # Empty /\ truth[f] \in Versions \cup {None} /\ Empty # None
        /\ UNCHANGED <<hfile, hremote, hgot, truth>>
    BY NamesAssumption, ContentsAssumption DEF KillSupervisor, SafetyInv,
       handlerVars, IInv, TypeOK
  <1>2. /\ todo'[f] = NoEntry
        /\ UNCHANGED <<disk, bucket, db, queue, opened, hpc>>
    BY <1>1 DEF KillSupervisor, worldVars, NothingToDo
  <1>3. /\ Handling(f)' = Handling(f)
        /\ Moving(f)' = "off" /\ Stopped'
        /\ ~ToDemote(f)' /\ ~ToPromote(f)'
    BY <1>1, <1>2 DEF KillSupervisor, Moving, Handling, ToDemote, ToPromote,
       Stopped, DemotionSteps, PromotionSteps
  <1>4. HashIsWhole(f)'
    BY <1>1, <1>2, <1>3 DEF FileInv, HashIsWhole, Whole
  <1>5. HandlerHasHash(f)'
    BY <1>1, <1>2, <1>3 DEF FileInv, HandlerHasHash, OpenSteps
  <1>6. HashIffFile(f)'
    BY <1>1, <1>2, <1>3 DEF FileInv, HashIffFile, EventsServed, WillStand,
       HashStands
  <1>7. DiskHolds(f)'
    BY <1>1, <1>2, <1>3 DEF FileInv, DiskHolds, Current
  <1>8. Somewhere(f)'
    BY <1>1, <1>2, <1>3 DEF FileInv, Somewhere
  <1>9. ColdLeads(f)'
    BY <1>1, <1>2, <1>3 DEF FileInv, ColdLeads, Current, Fetchable
  <1>10. ColdIsFresh(f)'
    BY <1>1, <1>2, <1>3 DEF FileInv, ColdIsFresh, RecallSteps
  <1>11. LocalIsTrue(f)'
    BY <1>1, <1>2, <1>3 DEF FileInv, LocalIsTrue, Current
  <1>12. MarkIsTrue(f)'
    BY <1>1, <1>2, <1>3 DEF FileInv, MarkIsTrue
  <1>13. Recall(f)'
    BY <1>1, <1>2, <1>3 DEF FileInv, Recall, Fetchable
  <1>14. Demotion1(f)'
    BY <1>1, <1>2, <1>3 DEF FileInv, Demotion1, Whole
  <1>15. Demotion2(f)'
    BY <1>1, <1>2, <1>3 DEF FileInv, Demotion2, Current, RecallSteps
  <1>16. Promotion1(f)'
    BY <1>1, <1>2, <1>3 DEF FileInv, Promotion1, Whole, Fetchable, Current
  <1>17. OpenIsRecent(f)'
    BY <1>1, <1>2, <1>3 DEF FileInv, OpenIsRecent, Current, OpenSteps,
       RecallSteps
  <1> QED
    BY <1>4, <1>5, <1>6, <1>7, <1>8, <1>9, <1>10, <1>11, <1>12, <1>13, <1>14,
     <1>15, <1>16, <1>17 DEF FileInv

-----------------------------------------------------------------------------
(***************************************************************************)
(* Queues without moves.                                                   *)
(***************************************************************************)

\* Nobody renames a file: no operation on a file, and no read of the queue,
\* brings an event of a move.
LEMMA MovesStayOut ==
    ASSUME NEW f \in Files, NEW q \in Seq(Events), NoMoves(q)
    PROVE  /\ \A type \in {"create", "open", "modify", "close", "delete"} :
                  NoMoves(q \o <<Ev(type, f)>>)
           /\ NoMoves(q \o ReadEvents(f))
           /\ \A content : NoMoves(q \o RewriteEvents(f, content))
           /\ q # <<>> => NoMoves(Tail(q)) /\ Head(q).type \notin {"movedFrom", "movedTo"}
  <1> DEFINE T == {"create", "open", "modify", "close", "delete"}
  <1>1. ASSUME NEW r \in Seq(Events), NoMoves(r), NEW type \in T
        PROVE  /\ Append(r, Ev(type, f)) \in Seq(Events)
               /\ NoMoves(Append(r, Ev(type, f)))
    <2>1. Ev(type, f) \in Events /\ Ev(type, f).type \notin {"movedFrom", "movedTo"}
      BY EventsType DEF EventTypes, Ev
    <2> DEFINE a == Append(r, Ev(type, f))
    <2>2. /\ a \in Seq(Events) /\ Len(a) = Len(r) + 1 /\ Len(r) \in Nat
          /\ a[Len(r) + 1] = Ev(type, f) /\ \A i \in 1..Len(r) : a[i] = r[i]
      BY <2>1, AppendElements
    <2> HIDE DEF a
    <2>3. NoMoves(a)
      BY <1>1, <2>1, <2>2 DEF NoMoves
    <2> QED BY <2>2, <2>3 DEF a
  <1> DEFINE A(r, type) == Append(r, Ev(type, f))
  <1>2. \A r \in Seq(Events) : NoMoves(r) => \A type \in T :
            A(r, type) \in Seq(Events) /\ NoMoves(A(r, type))
    BY <1>1
  <1> HIDE DEF A
  <1>3. /\ A(A(q, "open"), "close") \in Seq(Events) /\ NoMoves(A(A(q, "open"), "close"))
        /\ A(A(q, "open"), "modify") \in Seq(Events) /\ NoMoves(A(A(q, "open"), "modify"))
        /\ A(A(q, "create"), "open") \in Seq(Events) /\ NoMoves(A(A(q, "create"), "open"))
    BY <1>2
  <1>4. /\ NoMoves(A(A(A(q, "open"), "modify"), "close"))
        /\ NoMoves(A(A(A(q, "create"), "open"), "close"))
        /\ A(A(A(q, "create"), "open"), "modify") \in Seq(Events)
        /\ NoMoves(A(A(A(q, "create"), "open"), "modify"))
    BY <1>2, <1>3
  <1>5. NoMoves(A(A(A(A(q, "create"), "open"), "modify"), "close"))
    BY <1>2, <1>4
  <1>6. \A type \in T : NoMoves(q \o <<Ev(type, f)>>)
    <2>1. \A type \in EventTypes : q \o <<Ev(type, f)>> = Append(q, Ev(type, f))
      BY OwnEventsAppended
    <2>2. T \subseteq EventTypes
      BY DEF EventTypes
    <2> QED BY <1>1, <2>1, <2>2
  <1>7. NoMoves(q \o ReadEvents(f))
    BY <1>3, OwnEventsAppended DEF A
  <1>8. \A content : NoMoves(q \o RewriteEvents(f, content))
    BY <1>4, <1>5, OwnEventsAppended DEF A
  <1>9. ASSUME q # <<>>
        PROVE  NoMoves(Tail(q)) /\ Head(q).type \notin {"movedFrom", "movedTo"}
    BY <1>9, TailElements DEF NoMoves
  <1> QED BY <1>6, <1>7, <1>8, <1>9

-----------------------------------------------------------------------------
(***************************************************************************)
(* The migrator leaves the other files alone.                              *)
(***************************************************************************)

\* A step of the migrator as another file sees it.
LEMMA MigratorElsewhere ==
    ASSUME SafetyInv, UNCHANGED <<handlerVars, truth>>, NEW f \in Files,
           hpc' = hpc, f # cur, f # cur', mpc # "dead", mpc' # "dead",
           mpc' \in DemotionSteps <=> mpc \in DemotionSteps,
           mpc' \in PromotionSteps <=> mpc \in PromotionSteps,
           disk'[f] = disk[f], bucket'[f] = bucket[f], db'[f] = db[f],
           opened'[f] = opened[f], todo'[f] = todo[f],
           Unheard(f, queue, queue')
    PROVE  FileInv(f)'
  <1>1. Untouched(f)
    BY DEF Untouched, Moving, Handling, Stopped, ToDemote, ToPromote, handlerVars
  <1> QED BY <1>1, UntouchedKeeps DEF SafetyInv

\* The file at hand has a name, an object of that name, and whenever the
\* migrator calls a setter, a hash.
LEMMA AtHand ==
    ASSUME IInv, SafetyInv,
           mpc \in (DemotionSteps \ {"demote"}) \cup (PromotionSteps \ {"promote"})
    PROVE  /\ cur \in Files /\ cur # None /\ FileInv(cur)
           /\ mpc \notin {"link"} => todo[cur].remoteURI = cur
           /\ mpc \in {"link", "markMeta", "markCold", "restore", "unlink", "hot", "unmeta"}
                => db[cur].form = "made"
  <1>1. cur \in Files /\ cur # None /\ todo[cur] # NoEntry /\ FileInv(cur)
    BY NamesAssumption DEF IInv, AtWork, SafetyInv, ProcessInv
  <1>2. Moving(cur) = mpc
    BY DEF Moving
  <1>3. mpc \in DemotionSteps => Demotion1(cur) /\ Demotion2(cur) /\ ToDemote(cur)
    BY <1>1 DEF FileInv, ToDemote
  <1>4. mpc \in PromotionSteps => Promotion1(cur) /\ ToPromote(cur)
    BY <1>1 DEF FileInv, ToPromote
  <1>5. mpc # "link" => todo[cur].remoteURI = cur
    BY <1>2, <1>3, <1>4 DEF Demotion1, Promotion1, DemotionSteps, PromotionSteps
  <1>6. mpc \in {"link", "markMeta", "markCold", "restore"} => db[cur].form = "made"
    BY <1>2, <1>3 DEF Demotion1, Demotion2, Current, DemotionSteps
  <1>7. mpc \in {"unlink", "hot", "unmeta"} => db[cur].form = "made"
    BY <1>2, <1>4 DEF Promotion1, Current, PromotionSteps
  <1> QED BY <1>1, <1>5, <1>6, <1>7

\* A setter called on it returns.
LEMMA SetterAtHand ==
    ASSUME Calm, IInv, SafetyInv,
           mpc \in {"link", "markMeta", "markCold", "restore", "unlink", "hot", "unmeta"},
           NEW e \in {SetRemoteURI(db[cur], todo[cur].fileName), SetIsMetadata(db[cur], 1),
                      SetIsLocal(db[cur], 0),
                      SetLastTimeModified(db[cur], todo[cur].lastModified),
                      SetRemoteURI(db[cur], None), SetIsLocal(db[cur], 1),
                      SetIsMetadata(db[cur], 0)},
           NEW next, Set(e, next)
    PROVE  /\ mpc' = next
           /\ \A f \in Files \ {cur} : db'[f] = db[f]
           /\ UNCHANGED <<disk, bucket, queue, opened, hpc, mgot>>
  <1>1. cur \in Files /\ db[cur].form = "made" /\ db[cur] \in Entries
    BY AtHand DEF DemotionSteps, PromotionSteps, IInv, TypeOK
  <1>2. SetterReturns(e)
    BY <1>1, SettersFields
  <1> QED BY <1>1, <1>2 DEF Set, IInv, TypeOK

\* What the next call of the migrator will be, and the events it leaves.
MigratorMoves == /\ mpc' # "dead" /\ hpc' = hpc /\ NoMoves(queue')
                 /\ cur = None \/ cur' \in {cur, None}
                 /\ \A f \in Files \ {cur, cur'} : FileInv(f)'
                 /\ mpc' \in {"scanDemotion", "scanPromotion", "demote", "promote"}
                        => cur' = None
                 /\ cur' # None => cur' \in Files /\ todo'[cur'] # NoEntry
                 /\ mpc' \in {"scanDemotion", "scanPromotion"} => todo' = NothingToDo

\* Demotion runs on, and leaves the other files alone.
LEMMA DemotionMoves ==
    ASSUME Calm, IInv, SafetyInv, UNCHANGED <<handlerVars, truth>>,
           \/ LinkRemote \/ Upload \/ Remove \/ Record
           \/ MarkMeta \/ Stub \/ MarkCold \/ RestoreTime
    PROVE  MigratorMoves
  <1>1. /\ cur \in Files /\ cur # None /\ todo[cur] # NoEntry
        /\ queue \in Seq(Events) /\ NoMoves(queue)
        /\ mpc # "link" => todo[cur].remoteURI = cur
        /\ hpc # "dead"
        /\ todo \in [Files -> Entries] /\ bucket \in [Files -> Contents \cup {None}]
        /\ disk \in [Files -> Contents \cup {None}] /\ db \in [Files -> Entries]
        /\ opened \in [Files -> {"no", "yes", "orphan"}]
    BY AtHand DEF LinkRemote, Upload, Remove, Record, MarkMeta, Stub, MarkCold,
       RestoreTime, DemotionSteps, SafetyInv, ProcessInv, IInv, TypeOK
  <1>2. /\ NoMoves(queue \o ReadEvents(cur))
        /\ NoMoves(queue \o RewriteEvents(cur, Empty))
        /\ NoMoves(queue \o <<Ev("delete", cur)>>)
    BY <1>1, MovesStayOut
  <1>3. \A f \in Files : f # cur =>
            /\ Unheard(f, queue, queue \o ReadEvents(cur))
            /\ Unheard(f, queue, queue \o RewriteEvents(cur, Empty))
            /\ Unheard(f, queue, queue \o <<Ev("delete", cur)>>)
            /\ Unheard(f, queue, queue)
    BY <1>1, OthersUnheard DEF EventTypes
  <1>4. ASSUME mpc \in DemotionSteps, mpc' \in DemotionSteps, hpc' = hpc,
               \/ cur' = cur /\ todo'[cur] # NoEntry
                  /\ mpc' \notin {"demote", "promote", "scanDemotion", "scanPromotion"}
               \/ cur' = None /\ mpc' = "demote",
               queue' \in {queue, queue \o ReadEvents(cur),
                           queue \o RewriteEvents(cur, Empty),
                           queue \o <<Ev("delete", cur)>>},
               \A f \in Files \ {cur} :
                   /\ disk'[f] = disk[f] /\ bucket'[f] = bucket[f] /\ db'[f] = db[f]
                   /\ opened'[f] = opened[f] /\ todo'[f] = todo[f]
        PROVE  MigratorMoves
    <2>1. /\ mpc # "dead" /\ mpc' # "dead"
          /\ mpc \notin PromotionSteps /\ mpc' \notin PromotionSteps
          /\ mpc' \notin {"scanDemotion", "scanPromotion"}
      BY <1>4 DEF DemotionSteps, PromotionSteps
    <2>2. ASSUME NEW f \in Files \ {cur, cur'}
          PROVE  FileInv(f)'
      BY <1>3, <1>4, <2>1, MigratorElsewhere
    <2> QED BY <1>1, <1>2, <1>4, <2>1, <2>2 DEF MigratorMoves
  <1>5. CASE LinkRemote
    <2>1. /\ mpc = "link" /\ mpc' = "upload" /\ cur' = cur
          /\ \A f \in Files \ {cur} : db'[f] = db[f]
          /\ UNCHANGED <<disk, bucket, queue, opened, hpc, mgot>>
      BY <1>5, SetterAtHand DEF LinkRemote
    <2>2. /\ \A f \in Files \ {cur} : todo'[f] = todo[f]
          /\ todo'[cur].form = todo[cur].form
      BY <1>1, <1>5 DEF LinkRemote, Entries
    <2>3. todo[cur].form # "none"
      BY <1>1, <2>1 DEF SafetyInv, FileInv, Demotion1, ToDemote, DemotionSteps, Whole
    <2> QED BY <1>4, <2>1, <2>2, <2>3 DEF DemotionSteps, NoEntry
  <1>6. CASE Upload
    <2>1. /\ mpc = "upload" /\ mpc' = "remove"
          /\ queue' = queue \o ReadEvents(cur)
          /\ UNCHANGED <<disk, db, opened, hpc, todo, cur, mgot>>
          /\ \A f \in Files \ {cur} : bucket'[f] = bucket[f]
      BY <1>1, <1>6 DEF Upload, Notify
    <2> QED BY <1>1, <1>4, <2>1 DEF DemotionSteps
  <1>7. CASE Remove
    <2>1. /\ mpc = "remove" /\ mpc' = "record"
          /\ queue' \in {queue, queue \o <<Ev("delete", cur)>>}
          /\ UNCHANGED <<bucket, db, hpc, todo, cur, mgot>>
          /\ \A f \in Files \ {cur} : disk'[f] = disk[f] /\ opened'[f] = opened[f]
      BY <1>1, <1>7 DEF Remove, Notify
    <2> QED BY <1>1, <1>4, <2>1 DEF DemotionSteps
  <1>8. CASE Record
    <2>1. /\ mpc = "record" /\ mpc' = "markMeta"
          /\ UNCHANGED <<disk, bucket, queue, opened, hpc, todo, cur, mgot>>
          /\ \A f \in Files \ {cur} : db'[f] = db[f]
      BY <1>1, <1>8 DEF Record
    <2> QED BY <1>1, <1>4, <2>1 DEF DemotionSteps
  <1>9. CASE MarkMeta
    <2>1. /\ mpc = "markMeta" /\ mpc' = "stub" /\ UNCHANGED <<todo, cur>>
          /\ \A f \in Files \ {cur} : db'[f] = db[f]
          /\ UNCHANGED <<disk, bucket, queue, opened, hpc, mgot>>
      BY <1>9, SetterAtHand DEF MarkMeta
    <2> QED BY <1>1, <1>4, <2>1 DEF DemotionSteps
  <1>10. CASE Stub
    <2>1. /\ mpc = "stub" /\ mpc' = "markCold"
          /\ queue' = queue \o RewriteEvents(cur, Empty)
          /\ UNCHANGED <<bucket, db, opened, hpc, todo, cur, mgot>>
          /\ \A f \in Files \ {cur} : disk'[f] = disk[f]
      BY <1>1, <1>10 DEF Stub, Notify
    <2> QED BY <1>1, <1>4, <2>1 DEF DemotionSteps
  <1>11. CASE MarkCold
    <2>1. /\ mpc = "markCold" /\ mpc' = "restore" /\ UNCHANGED <<todo, cur>>
          /\ \A f \in Files \ {cur} : db'[f] = db[f]
          /\ UNCHANGED <<disk, bucket, queue, opened, hpc, mgot>>
      BY <1>11, SetterAtHand DEF MarkCold
    <2> QED BY <1>1, <1>4, <2>1 DEF DemotionSteps
  <1>12. CASE RestoreTime
    <2>1. /\ mpc = "restore" /\ mpc' = "demote"
          /\ \A f \in Files \ {cur} : db'[f] = db[f]
          /\ UNCHANGED <<disk, bucket, queue, opened, hpc, mgot>>
      BY <1>12, SetterAtHand DEF RestoreTime
    <2>2. cur' = None /\ \A f \in Files \ {cur} : todo'[f] = todo[f]
      BY <1>1, <1>12, <2>1 DEF RestoreTime, Finish
    <2> QED BY <1>4, <2>1, <2>2 DEF DemotionSteps
  <1> QED BY <1>5, <1>6, <1>7, <1>8, <1>9, <1>10, <1>11, <1>12

\* So does promotion.
LEMMA PromotionMoves ==
    ASSUME Calm, IInv, SafetyInv, UNCHANGED <<handlerVars, truth>>,
           \/ GetObject \/ GetObjectFails \/ WriteFile \/ DeleteObject
           \/ DeleteObjectFails \/ Unlink \/ MarkHot \/ ClearMeta
    PROVE  MigratorMoves
  <1>1. /\ cur \in Files /\ cur # None /\ todo[cur] # NoEntry
        /\ queue \in Seq(Events) /\ NoMoves(queue)
        /\ todo[cur].remoteURI = cur
        /\ hpc # "dead"
        /\ todo \in [Files -> Entries] /\ bucket \in [Files -> Contents \cup {None}]
        /\ disk \in [Files -> Contents \cup {None}] /\ db \in [Files -> Entries]
    BY AtHand DEF GetObject, GetObjectFails, WriteFile, DeleteObject,
       DeleteObjectFails, Unlink, MarkHot, ClearMeta, PromotionSteps, SafetyInv,
       ProcessInv, IInv, TypeOK
  <1>2. NoMoves(queue \o RewriteEvents(cur, mgot))
    BY <1>1, MovesStayOut
  <1>3. \A f \in Files : f # cur =>
            /\ Unheard(f, queue, queue \o RewriteEvents(cur, mgot))
            /\ Unheard(f, queue, queue)
    BY <1>1, OthersUnheard
  <1>4. ASSUME mpc \in PromotionSteps, mpc' \in PromotionSteps, hpc' = hpc,
               opened' = opened,
               \/ cur' = cur /\ todo' = todo
                  /\ mpc' \notin {"demote", "promote", "scanDemotion", "scanPromotion"}
               \/ cur' = None /\ mpc' = "promote",
               queue' \in {queue, queue \o RewriteEvents(cur, mgot)},
               \A f \in Files \ {cur} :
                   /\ disk'[f] = disk[f] /\ bucket'[f] = bucket[f] /\ db'[f] = db[f]
                   /\ todo'[f] = todo[f]
        PROVE  MigratorMoves
    <2>1. /\ mpc # "dead" /\ mpc' # "dead"
          /\ mpc \notin DemotionSteps /\ mpc' \notin DemotionSteps
          /\ mpc' \notin {"scanDemotion", "scanPromotion"}
      BY <1>4 DEF DemotionSteps, PromotionSteps
    <2>2. ASSUME NEW f \in Files \ {cur, cur'}
          PROVE  FileInv(f)'
      BY <1>3, <1>4, <2>1, MigratorElsewhere
    <2> QED BY <1>1, <1>2, <1>4, <2>1, <2>2 DEF MigratorMoves
  <1>5. CASE GetObject
    BY <1>1, <1>4, <1>5 DEF GetObject, worldVars, PromotionSteps
  <1>6. CASE GetObjectFails
    BY <1>1, <1>4, <1>6 DEF GetObjectFails, worldVars, PromotionSteps
  <1>7. CASE WriteFile
    <2>1. /\ mpc = "write" /\ mpc' = "delete"
          /\ queue' = queue \o RewriteEvents(cur, mgot)
          /\ UNCHANGED <<bucket, db, opened, hpc, todo, cur>>
          /\ \A f \in Files \ {cur} : disk'[f] = disk[f]
      BY <1>1, <1>7 DEF WriteFile, Notify
    <2> QED BY <1>1, <1>4, <2>1 DEF PromotionSteps
  <1>8. CASE DeleteObject
    <2>1. /\ mpc = "delete" /\ mpc' = "unlink"
          /\ UNCHANGED <<disk, db, queue, opened, hpc, todo, cur, mgot>>
          /\ \A f \in Files \ {cur} : bucket'[f] = bucket[f]
      BY <1>1, <1>8 DEF DeleteObject
    <2> QED BY <1>1, <1>4, <2>1 DEF PromotionSteps
  <1>9. CASE DeleteObjectFails
    BY <1>1, <1>4, <1>9 DEF DeleteObjectFails, worldVars, PromotionSteps
  <1>10. CASE Unlink
    <2>1. /\ mpc = "unlink" /\ mpc' = "hot" /\ UNCHANGED <<todo, cur>>
          /\ \A f \in Files \ {cur} : db'[f] = db[f]
          /\ UNCHANGED <<disk, bucket, queue, opened, hpc, mgot>>
      BY <1>10, SetterAtHand DEF Unlink
    <2> QED BY <1>1, <1>4, <2>1 DEF PromotionSteps
  <1>11. CASE MarkHot
    <2>1. /\ mpc = "hot" /\ mpc' = "unmeta" /\ UNCHANGED <<todo, cur>>
          /\ \A f \in Files \ {cur} : db'[f] = db[f]
          /\ UNCHANGED <<disk, bucket, queue, opened, hpc, mgot>>
      BY <1>11, SetterAtHand DEF MarkHot
    <2> QED BY <1>1, <1>4, <2>1 DEF PromotionSteps
  <1>12. CASE ClearMeta
    <2>1. /\ mpc = "unmeta" /\ mpc' = "promote"
          /\ \A f \in Files \ {cur} : db'[f] = db[f]
          /\ UNCHANGED <<disk, bucket, queue, opened, hpc, mgot>>
      BY <1>12, SetterAtHand DEF ClearMeta
    <2>2. cur' = None /\ \A f \in Files \ {cur} : todo'[f] = todo[f]
      BY <1>1, <1>12, <2>1 DEF ClearMeta, Finish
    <2> QED BY <1>4, <2>1, <2>2 DEF PromotionSteps
  <1> QED BY <1>5, <1>6, <1>7, <1>8, <1>9, <1>10, <1>11, <1>12

\* A step of the migrator that keeps its promises keeps the invariant of the
\* processes.
LEMMA MigratorProcess ==
    ASSUME SafetyInv, MigratorMoves, UNCHANGED <<handlerVars, truth>>
    PROVE  ProcessInv'
  BY DEF SafetyInv, ProcessInv, MigratorMoves, handlerVars, Stopped

\* No scan and no choice of a file harms another, and none is about a hash that
\* cannot be read.
LEMMA ListMoves ==
    ASSUME Calm, IInv, SafetyInv, UNCHANGED <<handlerVars, truth>>,
           \/ ScanDemotion \/ EndDemotion \/ ScanPromotion \/ EndPromotion
           \/ \E f \in Files : SkipDemotion(f) \/ PickDemotion(f) \/ PickPromotion(f)
    PROVE  MigratorMoves /\ \A f \in Files : FileInv(f)'
  <1>1. /\ queue \in Seq(Events) /\ NoMoves(queue) /\ hpc # "dead"
        /\ todo \in [Files -> Entries]
    BY DEF SafetyInv, ProcessInv, IInv, TypeOK
  <1>2. \A f \in Files : Unheard(f, queue, queue)
    BY DEF Unheard
  <1>3. CASE ScanDemotion
    <2>1. \A f \in Files : FileInv(f)'
      BY <1>3, ScanDemotionSafe
    <2> QED
      BY <1>1, <1>3, <2>1
         DEF ScanDemotion, Scan, worldVars, MigratorMoves, SafetyInv, ProcessInv
  <1>4. CASE ScanPromotion
    <2>1. \A f \in Files : FileInv(f)'
      BY <1>4, ScanPromotionSafe
    <2> QED
      BY <1>1, <1>4, <2>1
         DEF ScanPromotion, Scan, worldVars, MigratorMoves, SafetyInv, ProcessInv
  <1>5. CASE EndDemotion \/ EndPromotion
    <2>1. /\ cur = None /\ cur' = None /\ todo = NothingToDo /\ todo' = NothingToDo
          /\ mpc \in {"demote", "promote"} /\ mpc' \in {"scanDemotion", "scanPromotion"}
          /\ UNCHANGED <<disk, bucket, db, queue, opened, hpc, mgot>>
      BY <1>5 DEF EndDemotion, EndPromotion, worldVars, SafetyInv, ProcessInv
    <2>2. \A f \in Files : f # None /\ todo[f] = NoEntry /\ todo'[f] = NoEntry
      BY <2>1, NamesAssumption DEF NothingToDo
    <2>3. \A f \in Files : Untouched(f)
      BY <1>2, <2>1, <2>2
         DEF Untouched, Moving, Handling, Stopped, ToDemote, ToPromote, handlerVars
    <2>4. \A f \in Files : FileInv(f)'
      BY <2>3, UntouchedKeeps DEF SafetyInv
    <2> QED BY <1>1, <2>1, <2>4 DEF MigratorMoves
  <1>6. ASSUME NEW f \in Files, SkipDemotion(f) \/ PickDemotion(f) \/ PickPromotion(f)
        PROVE  MigratorMoves /\ \A g \in Files : FileInv(g)'
    <2>1. /\ cur = None /\ cur' \in {None, f} /\ f # None
          /\ todo[f] # NoEntry
          /\ mpc' # "dead" /\ mpc # "dead"
          /\ mpc' \in DemotionSteps <=> mpc \in DemotionSteps
          /\ mpc' \in PromotionSteps <=> mpc \in PromotionSteps
          /\ mpc' \notin {"scanDemotion", "scanPromotion"}
          /\ mpc' \in {"demote", "promote"} => cur' = None
          /\ cur' # None => todo' = todo
          /\ \A g \in Files \ {f} : todo'[g] = todo[g]
          /\ UNCHANGED <<disk, bucket, db, queue, opened, hpc, mgot>>
      BY <1>1, <1>6, NamesAssumption
         DEF SkipDemotion, PickDemotion, PickPromotion, worldVars, SafetyInv,
             ProcessInv, DemotionSteps, PromotionSteps
    <2>2. FileInv(f)'
      BY <1>6, SkipDemotionSafe, PickDemotionSafe, PickPromotionSafe
    <2>3. ASSUME NEW g \in Files \ {f}
          PROVE  FileInv(g)'
      <3>1. g # cur /\ g # cur'
        BY <2>1, NamesAssumption
      <3> QED BY <1>2, <2>1, <3>1, MigratorElsewhere
    <2> QED BY <1>1, <2>1, <2>2, <2>3 DEF MigratorMoves
  <1> QED BY <1>3, <1>4, <1>5, <1>6

\* In the calm nothing makes the migrator stop or fail but the absence of an
\* object.
LEMMA MigratorLives ==
    ASSUME Calm, IInv, SafetyInv
    PROVE  ~ScanGhost /\ ~UploadFails /\ \A f \in Files : ~PickDies(f)
  <1>1. ~ScanGhost
    <2>1. \A f \in Files : db[f] = NoEntry \/ db[f].form = "made"
      BY DEF SafetyInv, FileInv, HashIsWhole, Whole
    <2> QED BY <2>1 DEF ScanGhost, Readable, NoEntry
  <1>2. ~UploadFails
    <2> SUFFICES ASSUME UploadFails PROVE FALSE
      OBVIOUS
    <2>1. mpc = "upload" /\ disk[cur] = None
      BY DEF UploadFails, Calm
    <2>2. cur \in Files /\ cur # None /\ FileInv(cur)
      BY <2>1, AtHand DEF DemotionSteps
    <2>3. ToDemote(cur) /\ Moving(cur) = "upload"
      BY <2>1, <2>2 DEF ToDemote, Moving, DemotionSteps, SafetyInv, ProcessInv
    <2> QED BY <2>1, <2>2, <2>3 DEF FileInv, Demotion1
  <1>3. ASSUME NEW f \in Files, PickDies(f)
        PROVE  FALSE
    <2>1. /\ ToDemote(f) /\ Moving(f) = "off" /\ db[f].isOpen = Nil /\ FileInv(f)
      BY <1>3, NamesAssumption
         DEF PickDies, ToDemote, Moving, DemotionSteps, SafetyInv, ProcessInv
    <2>2. db[f].form = "made" /\ (db[f] = NoEntry \/ Whole(db[f], f))
      BY <2>1 DEF FileInv, Demotion1, HashIsWhole
    <2> QED BY <2>1, <2>2, NamesAssumption DEF NoEntry, Whole
  <1> QED BY <1>1, <1>2, <1>3

\* The migrator keeps the invariant.
LEMMA MigratorSafe ==
    ASSUME Calm, IInv, SafetyInv, MigratorNext, UNCHANGED <<handlerVars, truth>>
    PROVE  SafetyInv'
  <1>1. CASE \/ LinkRemote \/ Upload \/ Remove \/ Record
             \/ MarkMeta \/ Stub \/ MarkCold \/ RestoreTime
    <2>1. MigratorMoves
      BY <1>1, DemotionMoves
    <2>2. cur \in Files /\ cur # None
      BY <1>1, AtHand DEF LinkRemote, Upload, Remove, Record, MarkMeta, Stub,
         MarkCold, RestoreTime, DemotionSteps
    <2>3. \A f \in Files : f = cur => FileInv(f)'
      BY <1>1, <2>2, LinkRemoteSafe, UploadSafe, RemoveSafe, RecordSafe,
         MarkMetaSafe, StubSafe, MarkColdSafe, RestoreTimeSafe
    <2>4. \A f \in Files : FileInv(f)'
      BY <2>1, <2>2, <2>3, NamesAssumption DEF MigratorMoves
    <2> QED BY <2>1, <2>4, MigratorProcess DEF SafetyInv
  <1>2. CASE \/ GetObject \/ GetObjectFails \/ WriteFile \/ DeleteObject
             \/ DeleteObjectFails \/ Unlink \/ MarkHot \/ ClearMeta
    <2>1. MigratorMoves
      BY <1>2, PromotionMoves
    <2>2. cur \in Files /\ cur # None
      BY <1>2, AtHand DEF GetObject, GetObjectFails, WriteFile, DeleteObject,
         DeleteObjectFails, Unlink, MarkHot, ClearMeta, PromotionSteps
    <2>3. \A f \in Files : f = cur => FileInv(f)'
      BY <1>2, <2>2, GetObjectSafe, GetObjectFailsSafe, WriteFileSafe,
         DeleteObjectSafe, DeleteObjectFailsSafe, UnlinkSafe, MarkHotSafe,
         ClearMetaSafe
    <2>4. \A f \in Files : FileInv(f)'
      BY <2>1, <2>2, <2>3, NamesAssumption DEF MigratorMoves
    <2> QED BY <2>1, <2>4, MigratorProcess DEF SafetyInv
  <1>3. CASE \/ ScanDemotion \/ EndDemotion \/ ScanPromotion \/ EndPromotion
             \/ \E f \in Files : SkipDemotion(f) \/ PickDemotion(f) \/ PickPromotion(f)
    BY <1>3, ListMoves, MigratorProcess DEF SafetyInv
  <1> QED
    BY <1>1, <1>2, <1>3, MigratorLives DEF MigratorNext, Demotion, Promotion

-----------------------------------------------------------------------------
(***************************************************************************)
(* The event handler leaves the other files alone, and lives.              *)
(***************************************************************************)

\* A step of the handler as another file sees it.
LEMMA HandlerElsewhere ==
    ASSUME SafetyInv, UNCHANGED <<migratorVars, truth>>, NEW f \in Files,
           f # hfile, f # hfile',
           disk'[f] = disk[f], bucket'[f] = bucket[f], db'[f] = db[f],
           opened'[f] = opened[f],
           Unheard(f, queue, queue')
    PROVE  FileInv(f)'
  <1>1. Untouched(f)
    BY DEF Untouched, Moving, Handling, Stopped, ToDemote, ToPromote, migratorVars
  <1> QED BY <1>1, UntouchedKeeps DEF SafetyInv

\* The next event is served: it is no move, and finds a hash if it needs one.
LEMMA NextIsServed ==
    ASSUME IInv, SafetyInv, hpc = "idle", queue # <<>>
    PROVE  LET f == Head(queue).file IN
           /\ f \in Files /\ f # hfile
           /\ Head(queue).type \notin {"movedFrom", "movedTo"}
           /\ db[f] = NoEntry \/ Whole(db[f], f)
           /\ Head(queue).type \in {"open", "modify", "close"} => Whole(db[f], f)
  <1> DEFINE f == Head(queue).file
  <1>1. f \in Files /\ queue \in Seq(Events) /\ Head(queue) \in Events
    BY TailElements DEF IInv, TypeOK, Events
  <1>2. hfile = None /\ f # None /\ FileInv(f) /\ NoMoves(queue)
    BY <1>1, NamesAssumption DEF SafetyInv, ProcessInv
  <1>3. Head(queue).type \notin {"movedFrom", "movedTo"}
    BY <1>1, <1>2, MovesStayOut
  <1>4. db[f] = NoEntry \/ Whole(db[f], f)
    BY <1>2 DEF FileInv, HashIsWhole
  <1>5. ASSUME Head(queue).type \in {"open", "modify", "close"}
        PROVE  Whole(db[f], f)
    <2>1. ~ServedWithout(f, queue)
      BY <1>1, <1>5, HeadRead DEF OpenRead, ChangeRead
    <2>2. HashStands(f) /\ Handling(f) = "off"
      BY <1>2, <2>1 DEF FileInv, HashIffFile, EventsServed, Handling
    <2> QED BY <1>4, <2>2 DEF HashStands, NoEntry
  <1> QED BY <1>1, <1>2, <1>3, <1>4, <1>5

\* The file of the event under way has the hash that the calls need.
LEMMA InHand ==
    ASSUME IInv, SafetyInv, hpc # "idle"
    PROVE  /\ hfile \in Files /\ FileInv(hfile) /\ Handling(hfile) = hpc
           /\ hpc \in OpenSteps \cup {"resize"} => Whole(db[hfile], hfile)
           /\ hpc = "delete" => hremote = hfile
           /\ hpc = "unlink" => hremote # Nil
  <1>1. hfile \in Files /\ FileInv(hfile) /\ Handling(hfile) = hpc
    BY DEF SafetyInv, ProcessInv, IInv, AtWork, Handling
  <1>2. hpc \in OpenSteps \cup {"resize"} => Whole(db[hfile], hfile)
    BY <1>1 DEF FileInv, HandlerHasHash, HashIsWhole, NoEntry
  <1>3. /\ hpc = "delete" => hremote = hfile
        /\ hpc = "unlink" => hremote # Nil
    BY <1>1 DEF FileInv, Recall
  <1> QED BY <1>1, <1>2, <1>3

\* What the next call of the handler will be, and the events it leaves.
HandlerMoves == /\ hpc' \notin {"dead", "rename", "setName"} /\ NoMoves(queue')
                /\ hpc' = "idle" => hfile' = None

\* A step of the handler that keeps its promises keeps the invariant of the
\* processes.
LEMMA HandlerProcess ==
    ASSUME SafetyInv, HandlerMoves, UNCHANGED <<migratorVars, truth>>
    PROVE  ProcessInv'
  BY DEF SafetyInv, ProcessInv, HandlerMoves, migratorVars, Stopped

\* The handler keeps the invariant when it reads an event.
LEMMA EventSafe ==
    ASSUME Calm, IInv, SafetyInv, UNCHANGED <<migratorVars, truth>>,
           Create \/ Open \/ Delete \/ Modify \/ Close
    PROVE  SafetyInv'
  <1> DEFINE g == Head(queue).file
  <1>1. hpc = "idle" /\ queue # <<>> /\ queue \in Seq(Events) /\ hfile = None
    BY DEF Create, Open, Delete, Modify, Close, At, SafetyInv, ProcessInv, IInv, TypeOK
  <1>2. /\ g \in Files /\ g # None
        /\ db[g] = NoEntry \/ Whole(db[g], g)
        /\ Head(queue).type \in {"open", "modify", "close"} => Whole(db[g], g)
    BY <1>1, NextIsServed
  <1>3. NoMoves(Tail(queue))
    BY <1>1, <1>2, MovesStayOut DEF SafetyInv, ProcessInv
  <1>4. \A f \in Files : f # g => Unheard(f, queue, Tail(queue))
    BY <1>1, OthersRead
  <1>5. ASSUME NEW next \in {"idle", "insert", "openLocal", "erase", "resize"}, Take(next),
               UNCHANGED <<disk, bucket, opened>>,
               \A f \in Files \ {g} : db'[f] = db[f],
               \A f \in Files : f = g => FileInv(f)'
        PROVE  SafetyInv'
    <2>1. /\ hpc' = next /\ queue' = Tail(queue)
          /\ hfile' = IF next = "idle" THEN None ELSE g
      BY <1>5 DEF Take
    <2>2. HandlerMoves
      BY <1>3, <2>1 DEF HandlerMoves
    <2>3. ASSUME NEW f \in Files \ {g}
          PROVE  FileInv(f)'
      <3>1. f # hfile /\ f # hfile'
        BY <1>1, <2>1, <2>3, NamesAssumption
      <3> QED BY <1>4, <1>5, <2>1, <3>1, HandlerElsewhere
    <2> QED BY <1>5, <2>2, <2>3, HandlerProcess DEF SafetyInv
  <1>6. \A f \in Files : f = g => FileInv(f)'
    BY <1>1, CreateSafe, OpenSafe, DeleteSafe, ModifySafe, CloseSafe
  <1>7. CASE Create
    <2>1. Take("insert") \/ Take("idle")
      BY <1>2, <1>7 DEF Create, NoEntry, Whole
    <2> QED BY <1>5, <1>6, <1>7, <2>1 DEF Create
  <1>8. CASE Open
    <2>1. Head(queue).type = "open" /\ Take("openLocal")
      BY <1>2, <1>8 DEF Open, At, Readable, Whole
    <2> QED BY <1>5, <1>6, <1>8, <2>1 DEF Open
  <1>9. CASE Delete
    <2>1. Take("erase")
      BY <1>2, <1>9 DEF Delete, Readable, NoEntry, Whole
    <2> QED BY <1>5, <1>6, <1>9, <2>1 DEF Delete
  <1>10. CASE Modify
    <2>1. Head(queue).type = "modify" /\ (Take("resize") \/ Take("idle"))
      BY <1>2, <1>10, NamesAssumption DEF Modify, At, Whole, Flag
    <2> QED BY <1>5, <1>6, <1>10, <2>1 DEF Modify
  <1>11. CASE Close
    <2>1. Take("idle") /\ \A f \in Files \ {g} : db'[f] = db[f]
      BY <1>2, <1>11 DEF Close, IInv, TypeOK
    <2> QED BY <1>5, <1>6, <1>11, <2>1 DEF Close
  <1> QED BY <1>7, <1>8, <1>9, <1>10, <1>11

\* And when it makes a call.
LEMMA CallSafe ==
    ASSUME Calm, IInv, SafetyInv, UNCHANGED <<migratorVars, truth>>,
           \/ Insert \/ Erase \/ OpenLocal \/ OpenMeta
           \/ RecallGet \/ RecallGetFails \/ RecallWrite
           \/ RecallDelete \/ RecallDeleteFails
           \/ RecallUnlink \/ RecallHot \/ RecallUnmeta
           \/ OpenMark \/ OpenHits \/ Resize
    PROVE  SafetyInv'
  <1>1. hpc # "idle"
    BY DEF Insert, Erase, OpenLocal, OpenMeta, RecallGet, RecallGetFails,
       RecallWrite, RecallDelete, RecallDeleteFails, RecallUnlink, RecallHot,
       RecallUnmeta, OpenMark, OpenHits, Resize
  <1>2. /\ hfile \in Files /\ hfile # None
        /\ hpc \in OpenSteps \cup {"resize"} => Whole(db[hfile], hfile)
        /\ hpc = "delete" => hremote = hfile
        /\ hpc = "unlink" => hremote # Nil
        /\ queue \in Seq(Events) /\ NoMoves(queue) /\ hpc # "dead"
        /\ db \in [Files -> Entries] /\ db[hfile] \in Entries
        /\ disk \in [Files -> Contents \cup {None}]
        /\ bucket \in [Files -> Contents \cup {None}]
    BY <1>1, InHand, NamesAssumption DEF SafetyInv, ProcessInv, IInv, TypeOK
  <1>3. /\ NoMoves(queue \o RewriteEvents(hfile, hgot))
        /\ \A f \in Files : f # hfile =>
               /\ Unheard(f, queue, queue)
               /\ Unheard(f, queue, queue \o RewriteEvents(hfile, hgot))
    BY <1>2, MovesStayOut, OthersUnheard
  <1>4. \A f \in Files : f = hfile => FileInv(f)'
    BY InsertSafe, EraseSafe, OpenLocalSafe, OpenMetaSafe, RecallGetSafe,
       RecallGetFailsSafe, RecallWriteSafe, RecallDeleteSafe,
       RecallDeleteFailsSafe, RecallUnlinkSafe, RecallHotSafe, RecallUnmetaSafe,
       OpenMarkSafe, OpenHitsSafe, ResizeSafe
  <1>5. ASSUME hpc' \notin {"dead", "rename", "setName"},
               hfile' = IF hpc' = "idle" THEN None ELSE hfile,
               queue' \in {queue, queue \o RewriteEvents(hfile, hgot)},
               opened' = opened,
               \A f \in Files \ {hfile} :
                   disk'[f] = disk[f] /\ bucket'[f] = bucket[f] /\ db'[f] = db[f]
        PROVE  SafetyInv'
    <2>1. HandlerMoves
      BY <1>2, <1>3, <1>5 DEF HandlerMoves
    <2>2. ASSUME NEW f \in Files \ {hfile}
          PROVE  FileInv(f)'
      <3>1. f # hfile'
        BY <1>5, <2>2, NamesAssumption
      <3> QED BY <1>3, <1>5, <2>2, <3>1, HandlerElsewhere
    <2> QED BY <1>4, <2>1, <2>2, HandlerProcess DEF SafetyInv
  <1>6. CASE Insert \/ Erase
    BY <1>2, <1>5, <1>6 DEF Insert, Erase, Step
  <1>7. CASE OpenLocal \/ OpenMeta
    <2>1. db[hfile].isLocal \in {0, 1} /\ db[hfile].isMetadata \in {0, 1} /\ Nil \notin {0, 1}
      BY <1>2, <1>7, NamesAssumption DEF OpenLocal, OpenMeta, OpenSteps, Whole, Flag
    <2> QED BY <1>5, <1>7, <2>1 DEF OpenLocal, OpenMeta, Step
  <1>8. CASE RecallGet \/ RecallGetFails \/ RecallDeleteFails
    BY <1>5, <1>8 DEF RecallGet, RecallGetFails, RecallDeleteFails, Step
  <1>9. CASE RecallWrite
    <2>1. hpc' = "delete" /\ queue' = queue \o RewriteEvents(hfile, hgot)
      BY <1>2, <1>9 DEF RecallWrite, Notify
    <2> QED BY <1>2, <1>5, <1>9, <2>1 DEF RecallWrite
  <1>10. CASE RecallDelete
    BY <1>2, <1>5, <1>10 DEF RecallDelete, Step
  <1>11. CASE OpenMark
    BY <1>2, <1>5, <1>11 DEF OpenMark, Step
  <1>12. CASE RecallUnlink \/ RecallHot \/ RecallUnmeta \/ OpenHits \/ Resize
    <2>1. db[hfile].form = "made"
      BY <1>2, <1>12 DEF RecallUnlink, RecallHot, RecallUnmeta, OpenHits,
         Resize, OpenSteps, RecallSteps, Whole
    <2>2. \A e \in {SetRemoteURI(db[hfile], None), SetIsLocal(db[hfile], 1),
                    SetIsMetadata(db[hfile], 0),
                    IncrementTimesAccessed(db[hfile]), SetFileSize(db[hfile])} :
              SetterReturns(e)
      BY <1>2, <2>1, SettersFields
    <2>3. \E e, next :
              /\ SetterReturns(e) /\ next \in {"hot", "unmeta", "openMark", "idle"}
              /\ HandlerSets(e, next)
      BY <1>2, <1>12, <2>2 DEF RecallUnlink, RecallHot, RecallUnmeta, OpenHits, Resize
    <2> QED BY <1>2, <1>5, <2>3 DEF HandlerSets, Step
  <1> QED BY <1>6, <1>7, <1>8, <1>9, <1>10, <1>11, <1>12

\* The handler keeps the invariant: no move is ever at hand.
LEMMA HandlerSafe ==
    ASSUME Calm, IInv, SafetyInv, HandlerNext, UNCHANGED <<migratorVars, truth>>
    PROVE  SafetyInv'
  <1>1. ~MovedFrom /\ ~MovedTo
    BY NextIsServed DEF MovedFrom, MovedTo, At
  <1>2. ~Rename /\ ~SetName
    BY DEF Rename, SetName, SafetyInv, ProcessInv
  <1> QED BY <1>1, <1>2, EventSafe, CallSafe DEF HandlerNext, OpenFile

-----------------------------------------------------------------------------
(***************************************************************************)
(* Users, the clock and the operator.                                      *)
(***************************************************************************)

\* A user's operation, which is on one file.
LEMMA UsersSafe ==
    ASSUME Calm, IInv, SafetyInv, Users
    PROVE  SafetyInv'
  <1> SUFFICES ASSUME NEW f \in Files,
                      \/ UserOpen(f) \/ UserClose(f) \/ UserRead(f)
                      \/ \E v \in Versions : UserWrite(f, v) \/ UserCreate(f, v)
                      \/ UserDelete(f)
               PROVE  SafetyInv'
    BY DEF Users, UserRename, UserTurn, Calm
  <1>1. /\ queue \in Seq(Events) /\ NoMoves(queue) /\ hpc # "dead"
        /\ disk \in [Files -> Contents \cup {None}]
        /\ truth \in [Files -> Versions \cup {None}]
        /\ opened \in [Files -> {"no", "yes", "orphan"}]
    BY DEF SafetyInv, ProcessInv, IInv, TypeOK
  <1>2. FileInv(f)'
    BY UserOpenSafe, UserCloseSafe, UserReadSafe, UserWriteSafe, UserCreateSafe,
       UserDeleteSafe
  <1> DEFINE Q(q) == \/ \E type \in {"create", "open", "modify", "close", "delete"} :
                            q = queue \o <<Ev(type, f)>>
                     \/ q = queue \o ReadEvents(f)
                     \/ \E content : q = queue \o RewriteEvents(f, content)
  <1>3. UNCHANGED servers /\ Q(queue')
    BY <1>1 DEF UserOpen, UserClose, UserRead, UserWrite, UserCreate, UserDelete, Notify
  <1>4. \A g \in Files \ {f} :
            disk'[g] = disk[g] /\ truth'[g] = truth[g] /\ opened'[g] = opened[g]
    BY <1>1 DEF UserOpen, UserClose, UserRead, UserWrite, UserCreate, UserDelete
  <1>5. NoMoves(queue')
    BY <1>1, <1>3, MovesStayOut
  <1>6. \A g \in Files \ {f} : Unheard(g, queue, queue')
    BY <1>1, <1>3, OthersUnheard DEF EventTypes
  <1>7. UNCHANGED <<bucket, db, hpc, mpc, todo, cur, mgot, hfile, hremote, hgot>>
    BY <1>3 DEF servers, migratorVars, handlerVars
  <1>8. ProcessInv'
    BY <1>5, <1>7 DEF SafetyInv, ProcessInv, Stopped
  <1>9. ASSUME NEW g \in Files \ {f}
        PROVE  FileInv(g)'
    <2>1. Untouched(g)
      BY <1>4, <1>6, <1>7
         DEF Untouched, Moving, Handling, Stopped, ToDemote, ToPromote
    <2> QED BY <2>1, UntouchedKeeps DEF SafetyInv
  <1> QED BY <1>2, <1>8, <1>9 DEF SafetyInv

\* The clock.
LEMMA TimeKeepsSafe ==
    ASSUME Calm, IInv, SafetyInv, TimePasses
    PROVE  SafetyInv'
  <1>1. \A f \in Files : FileInv(f)'
    BY TimeSafe
  <1>2. /\ UNCHANGED <<queue, hpc, mpc, cur, hfile>>
        /\ \A f \in Files : todo'[f] = Aged(todo[f]) /\ todo[f] \in Entries
        /\ todo' = [f \in Files |-> Aged(todo[f])]
    BY DEF TimePasses, handlerVars, IInv, TypeOK
  <1>3. Aged(NoEntry) = NoEntry
    BY NamesAssumption DEF Aged, NoEntry, Ages
  <1>4. todo = NothingToDo => todo' = NothingToDo
    BY <1>2, <1>3 DEF NothingToDo
  <1>5. ASSUME cur # None
        PROVE  todo'[cur] # NoEntry
    <2>1. cur \in Files /\ mpc \in DemotionSteps \cup PromotionSteps /\ todo[cur] # NoEntry
      BY <1>5 DEF SafetyInv, ProcessInv, IInv, TypeOK, MigratorSteps
    <2>2. Whole(todo[cur], cur)
      BY <2>1 DEF SafetyInv, FileInv, Demotion1, Promotion1, ToDemote, ToPromote
    <2> QED BY <1>2, <2>1, <2>2 DEF Aged, Whole, NoEntry, Entries
  <1>6. ProcessInv'
    BY <1>2, <1>4, <1>5 DEF SafetyInv, ProcessInv, Stopped
  <1> QED BY <1>1, <1>6 DEF SafetyInv

\* The operator, who in the calm restarts no supervisor and stops no handler.
LEMMA OperatorSafe ==
    ASSUME Calm, IInv, SafetyInv, Operator
    PROVE  SafetyInv'
  <1>1. KillSupervisor
    BY DEF Operator, StartSupervisor, KillHandler, Calm, SafetyInv, ProcessInv, Stopped
  <1>2. \A f \in Files : FileInv(f)'
    BY <1>1, KillSupervisorSafe
  <1>3. ProcessInv'
    BY <1>1 DEF KillSupervisor, worldVars, handlerVars, SafetyInv, ProcessInv, Stopped
  <1> QED BY <1>2, <1>3 DEF SafetyInv

-----------------------------------------------------------------------------
\* It holds when initialize has catalogued the directory.
LEMMA InitSafe == Init => SafetyInv
  <1> SUFFICES ASSUME Init PROVE SafetyInv
    OBVIOUS
  <1>1. /\ mpc = "scanDemotion" /\ todo = NothingToDo /\ cur = None
        /\ hpc = "idle" /\ hfile = None /\ queue = <<>>
    BY DEF Init, InitMigrator, InitHandler
  <1>2. ProcessInv
    BY <1>1 DEF ProcessInv, NoMoves, Stopped
  <1>3. ASSUME NEW f \in Files
        PROVE  FileInv(f)
    <2>1. /\ f # None /\ disk[f] = truth[f] /\ bucket[f] = None /\ opened[f] = "no"
          /\ truth[f] \in Versions \cup {None} /\ truth[f] # Empty
      BY NamesAssumption, ContentsAssumption DEF Init
    <2>2. IF truth[f] = None THEN db[f] = NoEntry
                             ELSE Whole(db[f], f) /\ db[f].isLocal = 1 /\ db[f].isMetadata = 0
      BY DEF Init, NewFileData, Whole, Flag
    <2>3. /\ Moving(f) = "off" /\ Handling(f) = "off" /\ ~Stopped
          /\ ~ToDemote(f) /\ ~ToPromote(f)
      BY <1>1, <2>1 DEF Moving, Handling, Stopped, ToDemote, ToPromote, NothingToDo
    <2>4. /\ NoDelete(f, queue) /\ OpensAreFresh(f, queue)
          /\ ServedWith(f, queue) /\ ServedWithout(f, queue) /\ ~Recreated(f, queue)
      BY <1>1, EmptyViews
    <2>5. db[f].form = IF truth[f] = None THEN "none" ELSE "made"
      BY <2>2 DEF NoEntry, Whole
    <2>6. HashIsWhole(f) /\ HandlerHasHash(f)
      BY <2>2, <2>3 DEF HashIsWhole, HandlerHasHash, OpenSteps, RecallSteps
    <2>7. HashIffFile(f)
      BY <2>1, <2>3, <2>4, <2>5 DEF HashIffFile, EventsServed, WillStand, HashStands
    <2>8. DiskHolds(f) /\ Somewhere(f) /\ OpenIsRecent(f)
      BY <2>1 DEF DiskHolds, Somewhere, OpenIsRecent
    <2>9. /\ ColdLeads(f) /\ ColdIsFresh(f) /\ LocalIsTrue(f) /\ MarkIsTrue(f)
      BY <2>1, <2>2, <2>5 DEF ColdLeads, ColdIsFresh, LocalIsTrue, MarkIsTrue, Current
    <2>10. Recall(f) /\ Demotion1(f) /\ Demotion2(f) /\ Promotion1(f)
      BY <2>3 DEF Recall, Demotion1, Demotion2, Promotion1
    <2> QED BY <2>6, <2>7, <2>8, <2>9, <2>10 DEF FileInv
  <1> QED BY <1>2, <1>3 DEF SafetyInv

\* In the calm every step keeps it.
LEMMA NextSafe == Calm /\ IInv /\ SafetyInv /\ [Next]_vars => SafetyInv'
  <1> SUFFICES ASSUME Calm, IInv, SafetyInv, [Next]_vars PROVE SafetyInv'
    OBVIOUS
  <1>1. CASE UNCHANGED vars
    <2>1. /\ UNCHANGED <<disk, bucket, db, queue, opened, hpc, truth>>
          /\ UNCHANGED <<mpc, todo, cur, mgot, hfile, hremote, hgot, oldName>>
      BY <1>1 DEF vars, worldVars, migratorVars, handlerVars
    <2>2. ProcessInv'
      BY <2>1 DEF SafetyInv, ProcessInv, Stopped
    <2>3. \A f \in Files : Untouched(f)
      BY <2>1
         DEF Untouched, Moving, Handling, Stopped, ToDemote, ToPromote, Unheard
    <2>4. \A f \in Files : FileInv(f)'
      BY <2>3, UntouchedKeeps DEF SafetyInv
    <2> QED BY <2>2, <2>4 DEF SafetyInv
  <1> QED
    BY <1>1, MigratorSafe, HandlerSafe, UsersSafe, TimeKeepsSafe, OperatorSafe
       DEF Next

-----------------------------------------------------------------------------
\* In a calm world the invariant holds for ever: for any number of files and of
\* contents, with S3 failing to delete objects and the supervisor being killed
\* for good at any call.
THEOREM Safety == Calm => (Spec => [](IInv /\ SafetyInv))
  <1> SUFFICES ASSUME Calm PROVE Spec => [](IInv /\ SafetyInv)
    OBVIOUS
  <1>1. Init => IInv /\ SafetyInv
    BY InitIInv, InitSafe
  <1>2. IInv /\ SafetyInv /\ [Next]_vars => (IInv /\ SafetyInv)'
    BY NextIInv, NextSafe
  <1> QED BY <1>1, <1>2, PTL DEF Spec

-----------------------------------------------------------------------------
(***************************************************************************)
(* What the invariant is good for: in a calm world no content is lost, and *)
(* as long as nobody kills the supervisor, no file is stranded, the        *)
(* catalogue tells the truth, and the tiered directory is a directory.     *)
(***************************************************************************)

\* Calm, and the supervisor is not killed.
CalmForEver == Calm /\ "supervisor" \notin Kills

-----------------------------------------------------------------------------
(***************************************************************************)
(* States.                                                                 *)
(***************************************************************************)

\* Wherever the supervisor is killed.
LEMMA SomewhereAlways == SafetyInv => ContentSomewhere /\ NoCrash
  <1>1. SafetyInv => ContentSomewhere
    BY DEF SafetyInv, FileInv, Somewhere, ContentSomewhere
  <1>2. SafetyInv => NoCrash
    BY DEF SafetyInv, ProcessInv, Stopped, NoCrash
  <1> QED BY <1>1, <1>2

\* A file that is not there has just been removed by a demotion, and a
\* placeholder has the hash or the demotion that leads to the content.
LEMMA WhereItIs ==
    ASSUME IInv, SafetyInv, ~Stopped, NEW f \in Files
    PROVE  /\ f # None /\ Empty # None /\ truth[f] \in Versions \cup {None} /\ truth[f] # Empty
           /\ disk[f] \in {truth[f], Empty, None}
           /\ truth[f] = None => disk[f] = None
           /\ disk[f] = None /\ truth[f] # None =>
                  cur = f /\ mpc \in {"record", "markMeta", "stub"}
           /\ disk[f] = Empty =>
                  \/ cur = f /\ mpc = "markCold"
                  \/ LeadsTo(f, f) /\ db[f].remoteURI = f
           /\ cur = f /\ mpc \in {"record", "markMeta", "stub", "markCold"} =>
                  /\ todo[f].remoteURI = f /\ InBucket(f) /\ bucket[f] = truth[f]
                  /\ disk[f] = IF mpc = "markCold" THEN Empty ELSE None
  <1>1. /\ FileInv(f) /\ f # None /\ Empty # None
        /\ truth[f] \in Versions \cup {None} /\ truth[f] # Empty
    BY NamesAssumption, ContentsAssumption DEF SafetyInv, IInv, TypeOK
  <1>2. /\ disk[f] \in {truth[f], Empty, None}
        /\ truth[f] = None => disk[f] = None
        /\ disk[f] = None /\ truth[f] # None => Moving(f) \in {"record", "markMeta", "stub"}
        /\ disk[f] = Empty => (Current(f) /\ db[f].isLocal = 0) \/ Moving(f) = "markCold"
    BY <1>1 DEF FileInv, DiskHolds
  <1>3. \A step : step # "off" /\ Moving(f) = step => cur = f /\ mpc = step
    BY DEF Moving
  <1>4. ASSUME disk[f] = Empty, Current(f), db[f].isLocal = 0
        PROVE  LeadsTo(f, f) /\ db[f].remoteURI = f
    <2>1. /\ db[f].remoteURI = f /\ truth[f] # None /\ bucket[f] = truth[f]
      BY <1>1, <1>4 DEF FileInv, ColdLeads, Fetchable, Somewhere
    <2>2. db[f].form = "made" /\ db[f].isMetadata = 1
      BY <1>1, <1>4 DEF FileInv, ColdIsFresh, Current
    <2> QED BY <1>4, <2>1, <2>2 DEF LeadsTo, InBucket
  <1>5. ASSUME cur = f, mpc \in {"record", "markMeta", "stub", "markCold"}
        PROVE  /\ todo[f].remoteURI = f /\ InBucket(f) /\ bucket[f] = truth[f]
               /\ disk[f] = IF mpc = "markCold" THEN Empty ELSE None
    <2>1. Moving(f) = mpc /\ ToDemote(f)
      BY <1>1, <1>5 DEF Moving, ToDemote, DemotionSteps, SafetyInv, ProcessInv
    <2>2. todo[f].remoteURI = f
      BY <1>1, <1>5, <2>1 DEF FileInv, Demotion1
    <2>3. bucket[f] = truth[f] /\ truth[f] # None
      BY <1>1, <1>5, <2>1 DEF FileInv, Demotion2
    <2>4. disk[f] = IF mpc = "markCold" THEN Empty ELSE None
      BY <1>1, <1>5, <2>1 DEF FileInv, Demotion2
    <2> QED BY <2>2, <2>3, <2>4 DEF InBucket
  <1> QED BY <1>1, <1>2, <1>3, <1>4, <1>5

\* No file is stranded.
LEMMA ReachableAlways ==
    ASSUME IInv, SafetyInv, ~Stopped
    PROVE  Reachable
  <1> SUFFICES ASSUME NEW f \in Files, truth[f] # None, disk[f] # truth[f]
               PROVE  LeadsTo(f, f) \/ MidDemotion(f)
    BY DEF Reachable
  <1>1. \/ LeadsTo(f, f)
        \/ cur = f /\ mpc \in {"record", "markMeta", "stub", "markCold"}
    BY WhereItIs
  <1>2. cur = f /\ mpc \in {"record", "markMeta", "stub", "markCold"} => MidDemotion(f)
    BY WhereItIs DEF MidDemotion
  <1> QED BY <1>1, <1>2

\* The handler at rest, and no file at hand, the catalogue agrees.
LEMMA AgreesAlways ==
    ASSUME IInv, SafetyInv, ~Stopped
    PROVE  CatalogueAgrees
  <1> SUFFICES ASSUME HandlerIdle, cur = None, NEW f \in Files
               PROVE  /\ truth[f] = None <=> db[f].form = "none"
                      /\ truth[f] # None => /\ db[f].form = "made"
                                            /\ db[f].fileName = f
                                            /\ db[f].isLocal = 1 <=> disk[f] = truth[f]
                                            /\ db[f].isMetadata = 1 - db[f].isLocal
    BY DEF CatalogueAgrees
  <1>1. /\ FileInv(f) /\ f # None
        /\ Moving(f) = "off" /\ Handling(f) = "off" /\ queue = <<>>
    BY NamesAssumption DEF HandlerIdle, Moving, Handling, SafetyInv, ProcessInv
  <1>2. /\ NoDelete(f, queue) /\ ~OpenPending(f, queue) /\ ~Recreated(f, queue)
    BY <1>1, EmptyViews
  <1>3. \/ db[f] = NoEntry /\ db[f].form = "none"
        \/ Whole(db[f], f) /\ db[f].form = "made"
    BY <1>1 DEF FileInv, HashIsWhole, Whole, NoEntry
  <1>4. disk[f] # None <=> db[f].form = "made"
    BY <1>1, <1>2 DEF FileInv, HashIffFile, WillStand, HashStands
  <1>5. truth[f] = None <=> disk[f] = None
    BY <1>1, WhereItIs
  <1>6. ASSUME db[f].form = "made"
        PROVE  /\ db[f].isLocal = 1 <=> disk[f] = truth[f]
               /\ db[f].isMetadata = 1 - db[f].isLocal
    <2>1. Current(f) /\ Whole(db[f], f)
      BY <1>1, <1>2, <1>3, <1>6 DEF Current
    <2>2. db[f].isLocal \in {0, 1} /\ db[f].isMetadata \in {0, 1}
      BY <2>1 DEF Whole, Flag
    <2>3. db[f].isLocal = 1 => disk[f] = truth[f] /\ db[f].isMetadata = 0
      BY <1>1, <1>6, <2>1, <2>2 DEF FileInv, LocalIsTrue, MarkIsTrue
    <2>4. db[f].isLocal = 0 => disk[f] # truth[f] /\ db[f].isMetadata = 1
      BY <1>1, <1>2, <1>6, <2>1 DEF FileInv, ColdLeads, ColdIsFresh
    <2> QED BY <2>2, <2>3, <2>4
  <1> QED BY <1>3, <1>4, <1>5, <1>6 DEF Whole

-----------------------------------------------------------------------------
(***************************************************************************)
(* Theorems about states.                                                  *)
(***************************************************************************)

\* Nothing that users wrote is lost, at whatever call of a demotion or a promotion
\* the supervisor is killed.
THEOREM NothingLost == Calm => (Spec => []ContentSomewhere)
  <1> SUFFICES ASSUME Calm PROVE Spec => []ContentSomewhere
    OBVIOUS
  <1>1. Spec => [](IInv /\ SafetyInv)
    BY Safety
  <1> QED BY <1>1, SomewhereAlways, PTL

\* No process dies of what it reads: neither the handler nor manageFiles follows
\* an entry of the catalogue that is not there.
THEOREM NobodyDies == Calm => (Spec => []NoCrash)
  <1> SUFFICES ASSUME Calm PROVE Spec => []NoCrash
    OBVIOUS
  <1>1. Spec => [](IInv /\ SafetyInv)
    BY Safety
  <1> QED BY <1>1, SomewhereAlways, PTL

\* No file is stranded while the supervisor lives: its content is in the
\* directory, or its hash leads a recall to an object with that content, or
\* manageFiles is between the two.
THEOREM NothingStranded == CalmForEver => (Spec => []Reachable)
  <1> SUFFICES ASSUME CalmForEver PROVE Spec => []Reachable
    OBVIOUS
  <1>1. Spec => [](IInv /\ SafetyInv)
    BY Safety DEF CalmForEver
  <1>2. IInv /\ SafetyInv => Reachable
    BY ReachableAlways DEF CalmForEver, SafetyInv, ProcessInv
  <1> QED BY <1>1, <1>2, PTL

\* Whenever the handler has caught up and no file is at hand, every hash says
\* where the content of its file is, and there is one for each file and for no
\* other.
THEOREM CatalogueTrue == CalmForEver => (Spec => []CatalogueAgrees)
  <1> SUFFICES ASSUME CalmForEver PROVE Spec => []CatalogueAgrees
    OBVIOUS
  <1>1. Spec => [](IInv /\ SafetyInv)
    BY Safety DEF CalmForEver
  <1>2. IInv /\ SafetyInv => CatalogueAgrees
    BY AgreesAlways DEF CalmForEver, SafetyInv, ProcessInv
  <1> QED BY <1>1, <1>2, PTL

-----------------------------------------------------------------------------
(***************************************************************************)
(* Theorems about steps.                                                   *)
(***************************************************************************)

\* A file that was used a minute ago or less is not demoted, whatever the scan
\* read.
THEOREM YoungStay == Calm => (Spec => NoBounceBack)
  <1> SUFFICES ASSUME Calm PROVE Spec => NoBounceBack
    OBVIOUS
  <1>1. Spec => [](IInv /\ SafetyInv)
    BY Safety
  <1>2. ASSUME SafetyInv, NEW f \in Files, PickDemotion(f)
        PROVE  db[f].lastModified # "recent"
    <2>1. FileInv(f) /\ ToDemote(f) /\ Moving(f) = "off" /\ todo[f].lastModified # "recent"
      BY <1>2, NamesAssumption
         DEF PickDemotion, TooYoung, ToDemote, Moving, DemotionSteps, SafetyInv, ProcessInv
    <2> QED BY <2>1 DEF FileInv, Demotion1
  <1>3. IInv /\ SafetyInv => [\A f \in Files : PickDemotion(f) => db[f].lastModified # "recent"]_vars
    BY <1>2
  <1> QED BY <1>1, <1>3, PTL DEF NoBounceBack

\* No file is taken away from a user who has it open.
THEOREM OpenStay == Calm => (Spec => OpenRespected)
  <1> SUFFICES ASSUME Calm PROVE Spec => OpenRespected
    OBVIOUS
  <1>1. Spec => [](IInv /\ SafetyInv)
    BY Safety
  <1>2. ASSUME SafetyInv, NEW f \in Files, Remove, cur = f
        PROVE  opened[f] # "yes"
    <2>1. FileInv(f) /\ ToDemote(f) /\ Moving(f) = "remove"
      BY <1>2, NamesAssumption
         DEF Remove, ToDemote, Moving, DemotionSteps, SafetyInv, ProcessInv
    <2> QED BY <2>1 DEF FileInv, Demotion1
  <1>3. IInv /\ SafetyInv => [\A f \in Files : Remove /\ cur = f => opened[f] # "yes"]_vars
    BY <1>2
  <1> QED BY <1>1, <1>3, PTL DEF OpenRespected

\* When manageFiles turns to the next file, the hash of the last says cold and
\* metadata only.
THEOREM DemotionsRecorded == Calm => (Spec => DemotionRecorded)
  <1> DEFINE Recorded == \A f \in Files : RestoreTime /\ cur = f =>
                             /\ db'[f].form = "made"
                             /\ db'[f].isLocal = 0
                             /\ db'[f].isMetadata = 1
  <1> SUFFICES ASSUME Calm PROVE Spec => [][Recorded]_vars
    BY DEF DemotionRecorded
  <1>1. Spec => [](IInv /\ SafetyInv)
    BY Safety
  <1>2. ASSUME IInv, SafetyInv, NEW f \in Files, RestoreTime, cur = f
        PROVE  db'[f].form = "made" /\ db'[f].isLocal = 0 /\ db'[f].isMetadata = 1
    <2>1. FileInv(f) /\ Moving(f) = "restore"
      BY <1>2 DEF RestoreTime, Moving, SafetyInv
    <2>2. db[f].form = "made" /\ db[f].isLocal = 0 /\ db[f].isMetadata = 1
      BY <2>1 DEF FileInv, Demotion2, ColdIsFresh, Current
    <2>3. db \in [Files -> Entries] /\ db[f] \in Entries
      BY <1>2 DEF IInv, TypeOK
    <2>4. db'[f] = SetLastTimeModified(db[f], todo[f].lastModified)
      BY <1>2, <2>3 DEF RestoreTime, Set
    <2> QED BY <2>2, <2>3, <2>4, SettersFields DEF SameHash
  <1>3. IInv /\ SafetyInv => [Recorded]_vars
    BY <1>2
  <1> QED BY <1>1, <1>3, PTL

\* An object goes only when promoteObject deletes it.
LEMMA OnlyDeletesEmpty ==
    ASSUME IInv, [Next]_vars, NEW o \in Files, bucket[o] # None, bucket'[o] = None
    PROVE  \/ DeleteObject /\ o = todo[cur].remoteURI
           \/ RecallDelete /\ o = hremote
  <1>1. bucket \in [Files -> Contents \cup {None}]
    BY DEF IInv, TypeOK
  <1>2. bucket' # bucket
    OBVIOUS
  <1>3. MigratorNext \/ HandlerNext
    BY <1>2 DEF Next, vars, worldVars, Users, UserOpen, UserClose, UserRead,
       UserWrite, UserCreate, UserDelete, UserRename, servers, TimePasses,
       Operator, KillSupervisor, StartSupervisor, KillHandler
  <1>4. CASE MigratorNext
    <2>1. Upload \/ DeleteObject
      BY <1>2, <1>4 DEF MigratorNext, Demotion, Promotion, ScanGhost, ScanDemotion,
         ScanPromotion, Scan, EndDemotion, EndPromotion, PickDies, SkipDemotion,
         PickDemotion, LinkRemote, UploadFails, Remove, Record, MarkMeta, Stub,
         MarkCold, RestoreTime, PickPromotion, GetObject, GetObjectFails,
         WriteFile, DeleteObjectFails, Unlink, MarkHot, ClearMeta, Set, worldVars
    <2>2. ~Upload
      BY <1>1 DEF Upload
    <2>3. DeleteObject => o = todo[cur].remoteURI
      BY <1>1 DEF DeleteObject
    <2> QED BY <2>1, <2>2, <2>3
  <1>5. CASE HandlerNext
    <2>1. RecallDelete
      BY <1>2, <1>5 DEF HandlerNext, OpenFile, Create, Insert, Open, OpenLocal,
         OpenMeta, RecallGet, RecallGetFails, RecallWrite, RecallDeleteFails,
         RecallUnlink, RecallHot, RecallUnmeta, OpenMark, OpenHits, Delete,
         Erase, Modify, Resize, Close, MovedFrom, MovedTo, Rename, SetName,
         HandlerSets
    <2>2. o = hremote
      BY <1>1, <2>1 DEF RecallDelete
    <2> QED BY <2>1, <2>2
  <1> QED BY <1>3, <1>4, <1>5

\* An object is deleted only when every file whose content it held has that
\* content in the directory, or in another object.
THEOREM DeletesLoseNothing == Calm => (Spec => DeleteKeepsContent)
  <1> DEFINE StillThere(o, f) == \/ disk[f] = truth[f]
                                 \/ \E p \in Files : bucket'[p] = truth[f]
             Keeps == \A o, f \in Files :
                          bucket[o] # None /\ bucket'[o] = None /\ truth[f] = bucket[o]
                              => StillThere(o, f)
  <1> SUFFICES ASSUME Calm PROVE Spec => [][Keeps]_vars
    BY DEF DeleteKeepsContent
  <1>1. Spec => [](IInv /\ SafetyInv)
    BY Safety
  <1>2. ASSUME IInv, SafetyInv, [Next]_vars, NEW o \in Files, NEW f \in Files,
               bucket[o] # None, bucket'[o] = None, truth[f] = bucket[o]
        PROVE  StillThere(o, f)
    <2>1. FileInv(f) /\ FileInv(o) /\ bucket \in [Files -> Contents \cup {None}]
      BY <1>2 DEF SafetyInv, IInv, TypeOK
    <2>2. \/ DeleteObject /\ o = todo[cur].remoteURI
          \/ RecallDelete /\ o = hremote
      BY <1>2, OnlyDeletesEmpty
    <2>3. CASE f # o
      <3>1. bucket'[f] = bucket[f]
        BY <1>2, <2>1, <2>2, <2>3 DEF DeleteObject, RecallDelete
      <3> QED BY <1>2, <2>1, <3>1 DEF FileInv, Somewhere
    <2>4. CASE f = o
      <3>1. CASE DeleteObject /\ o = todo[cur].remoteURI
        <4>1. o = cur
          BY <1>2, <3>1, AtHand DEF DeleteObject, PromotionSteps
        <4>2. ToPromote(o) /\ Moving(o) = "delete"
          BY <1>2, <3>1, <4>1, NamesAssumption
             DEF DeleteObject, ToPromote, Moving, PromotionSteps, SafetyInv, ProcessInv
        <4> QED BY <2>1, <2>4, <4>2 DEF FileInv, Promotion1
      <3>2. CASE RecallDelete /\ o = hremote
        <4>1. o = hfile /\ Handling(o) = "delete"
          BY <1>2, <3>2, InHand DEF RecallDelete
        <4> QED BY <2>1, <2>4, <4>1 DEF FileInv, Recall
      <3> QED BY <2>2, <3>1, <3>2
    <2> QED BY <2>3, <2>4
  <1>3. IInv /\ SafetyInv /\ [Next]_vars => [Keeps]_vars
    BY <1>2
  <1> QED BY <1>1, <1>3, PTL DEF Spec

-----------------------------------------------------------------------------
(***************************************************************************)
(* The tiered directory is a directory.                                    *)
(***************************************************************************)

\* A user who opens a file and waits gets the content that the file should
\* have.
LEMMA ContentIsTruth ==
    ASSUME IInv, SafetyInv, ~Stopped
    PROVE  [f \in Files |-> Content(f)] = truth
  <1>1. ASSUME NEW f \in Files
        PROVE  Content(f) = truth[f]
    <2>1. FiledUnder(f) = f
      <3>1. \A i \in 1..Len(queue) : queue[i] # Ev("movedTo", f)
        BY DEF SafetyInv, ProcessInv, NoMoves, Ev
      <3>2. ~MovePending(f)
        BY <3>1 DEF MovePending, SafetyInv, ProcessInv
      <3> QED BY <3>2 DEF FiledUnder
    <2>2. CASE cur = f /\ mpc \in {"record", "markMeta", "stub"}
      <3>1. bucket[todo[f].remoteURI] = truth[f] /\ disk[f] # Empty
        BY <2>2, WhereItIs
      <3> QED BY <2>2, <3>1 DEF Content
    <2>3. CASE disk[f] = Empty
      <3>1. ~(cur = f /\ mpc \in {"record", "markMeta", "stub"})
        BY <2>3, WhereItIs
      <3>2. CASE cur = f /\ mpc = "markCold"
        <4>1. todo[f].remoteURI = f /\ InBucket(f) /\ bucket[f] = truth[f]
          BY <3>2, WhereItIs
        <4> QED BY <2>3, <3>1, <3>2, <4>1 DEF Content
      <3>3. CASE ~(cur = f /\ mpc = "markCold")
        <4>1. LeadsTo(f, f) /\ db[f].remoteURI = f
          BY <2>3, <3>3, WhereItIs
        <4> QED BY <2>1, <2>3, <3>1, <3>3, <4>1 DEF Content, LeadsTo
      <3> QED BY <3>2, <3>3
    <2>4. CASE /\ ~(cur = f /\ mpc \in {"record", "markMeta", "stub"})
               /\ disk[f] # Empty
      <3>1. disk[f] = truth[f]
        BY <2>4, WhereItIs
      <3> QED BY <2>4, <3>1 DEF Content
    <2> QED BY <2>2, <2>3, <2>4
  <1>2. truth \in [Files -> Versions \cup {None}]
    BY DEF IInv, TypeOK
  <1> QED BY <1>1, <1>2

\* Only users change the content that a file should have, by an operation of a
\* directory.
LEMMA TruthIsDirectory ==
    ASSUME Calm, IInv, [Next]_vars, truth' # truth
    PROVE  \E f \in Files :
               \/ \E v \in Versions :
                      truth[f] # None /\ truth' = [truth EXCEPT ![f] = v]
               \/ \E v \in Versions :
                      truth[f] = None /\ truth' = [truth EXCEPT ![f] = v]
               \/ truth[f] # None /\ truth' = [truth EXCEPT ![f] = None]
  <1>1. Users
    BY DEF Next, vars, TimePasses, Operator, KillSupervisor, StartSupervisor, KillHandler
  <1>2. PICK f \in Files : \/ \E v \in Versions : UserWrite(f, v) \/ UserCreate(f, v)
                           \/ UserDelete(f)
    BY <1>1 DEF Users, UserOpen, UserClose, UserRead, UserRename, UserTurn, Calm
  <1> QED BY <1>2 DEF UserWrite, UserCreate, UserDelete

\* While the supervisor lives, what users find in the tiered directory is what
\* they find in a directory: demotions, promotions, recalls and the catalogue
\* change no content, and a user's change is one step.
THEOREM IsADirectory == CalmForEver => (Spec => ImplementsDirectory)
  <1> SUFFICES ASSUME CalmForEver PROVE Spec => ImplementsDirectory
    OBVIOUS
  <1> DEFINE C == [f \in Files |-> Content(f)]
  <1>0. Calm /\ (SafetyInv => ~Stopped)
    BY DEF CalmForEver, SafetyInv, ProcessInv
  <1>1. Spec => [](IInv /\ SafetyInv)
    BY <1>0, Safety
  <1>2. IInv /\ SafetyInv => C = truth
    BY <1>0, ContentIsTruth
  <1>3. Init => Plain!Init
    <2>1. Init => C = truth
      BY <1>2, InitIInv, InitSafe
    <2> QED BY <2>1 DEF Plain!Init, Init
  <1>4. IInv /\ SafetyInv /\ [Next]_vars => (IInv /\ SafetyInv)'
    BY <1>0, NextIInv, NextSafe
  <1>5. IInv /\ SafetyInv /\ [Next]_vars /\ C = truth /\ (C = truth)' => [Plain!Next]_C
    <2> SUFFICES ASSUME IInv, SafetyInv, [Next]_vars, C = truth, C' = truth', truth' # truth
                 PROVE  Plain!Next
      OBVIOUS
    <2>1. PICK f \in Files :
               \/ \E v \in Versions :
                      C[f] # None /\ C' = [C EXCEPT ![f] = v]
               \/ \E v \in Versions :
                      C[f] = None /\ C' = [C EXCEPT ![f] = v]
               \/ C[f] # None /\ C' = [C EXCEPT ![f] = None]
      BY <1>0, TruthIsDirectory
    <2> QED BY <2>1 DEF Plain!Next, Plain!Write, Plain!Create, Plain!Delete
  <1> QED BY <1>1, <1>2, <1>3, <1>4, <1>5, PTL DEF Spec, ImplementsDirectory, Plain!Spec
==============================================================================
