------------------------------ MODULE StoreProofs ------------------------------
(***************************************************************************)
(* Theorems about Store.tla, for any number of processes, files and calls. *)
(***************************************************************************)
EXTENDS StoreInvariant, SequenceTheorems, FiniteSetTheorems, TLAPS

-----------------------------------------------------------------------------
(***************************************************************************)
(* The members of a hash that the sets go by.                              *)
(***************************************************************************)

LEMMA TheSets == Sets = {"File_Size", "Times_Accessed", "Is_Local", "Last_Modified"}
  <1>1. DOMAIN Added = 1..4
    BY DEF Added
  <1>2. /\ Added[1] = "File_Size" /\ Added[2] = "Times_Accessed"
        /\ Added[3] = "Is_Local" /\ Added[4] = "Last_Modified"
    BY DEF Added
  <1>3. 1..4 = {1, 2, 3, 4}
    OBVIOUS
  <1> QED BY <1>1, <1>2, <1>3 DEF Sets, Range

\* Every score is a number, so it is not Out.
LEMMA FieldsOfData ==
    ASSUME NEW s \in Sets
    PROVE  /\ Atomic!Values[s] \subseteq Int
           /\ \A fd \in FileData : fd[s] \in Atomic!Values[s]
           /\ Out \notin Atomic!Values[s]
  <1> USE StoreAssumption DEF Atomic!Values
  <1>1. \A fd \in FileData : fd[s] \in Atomic!Values[s]
    BY TheSets DEF FileData, Atomic!FileData
  <1>2. Atomic!Values[s] \subseteq Int
    BY TheSets
  <1> QED BY <1>1, <1>2

LEMMA WithField ==
    ASSUME NEW fd \in FileData, NEW s \in Sets, NEW v \in Atomic!Values[s]
    PROVE  /\ [fd EXCEPT ![s] = v] \in FileData
           /\ [fd EXCEPT ![s] = v][s] = v
           /\ \A t \in Sets \ {s} : [fd EXCEPT ![s] = v][t] = fd[t]
  <1>1. /\ fd = [File_Size |-> fd.File_Size, Times_Accessed |-> fd.Times_Accessed,
                 Is_Local |-> fd.Is_Local, Last_Modified |-> fd.Last_Modified]
        /\ fd.File_Size \in Atomic!Values.File_Size
        /\ fd.Times_Accessed \in Atomic!Values.Times_Accessed
        /\ fd.Is_Local \in Atomic!Values.Is_Local
        /\ fd.Last_Modified \in Atomic!Values.Last_Modified
    BY DEF FileData, Atomic!FileData
  <1>2. CASE s = "File_Size"
    BY <1>1, <1>2, TheSets DEF FileData, Atomic!FileData, Atomic!Values
  <1>3. CASE s = "Times_Accessed"
    BY <1>1, <1>3, TheSets DEF FileData, Atomic!FileData, Atomic!Values
  <1>4. CASE s = "Is_Local"
    BY <1>1, <1>4, TheSets DEF FileData, Atomic!FileData, Atomic!Values
  <1>5. CASE s = "Last_Modified"
    BY <1>1, <1>5, TheSets DEF FileData, Atomic!FileData, Atomic!Values
  <1> QED BY <1>2, <1>3, <1>4, <1>5, TheSets

\* A pair has two members, and one file is not two.
LEMMA OneIsNotTwo ==
    ASSUME NEW k, NEW l
    PROVE  Cardinality({k, l}) = 2 <=> k # l
  <1>1. Cardinality({k}) = 1
    BY FS_Singleton
  <1>2. CASE k = l
    <2>1. {k, l} = {k}
      BY <1>2
    <2> QED BY <1>1, <1>2, <2>1
  <1>3. CASE k # l
    <2>1. IsFiniteSet({k}) /\ {k} \cup {l} = {k, l} /\ l \notin {k}
      BY <1>3, FS_Singleton
    <2>2. Cardinality({k} \cup {l}) = Cardinality({k}) + 1
      BY <2>1, FS_AddElement
    <2> QED BY <1>1, <1>3, <2>1, <2>2
  <1> QED BY <1>2, <1>3

-----------------------------------------------------------------------------
(***************************************************************************)
(* Sequences.                                                              *)
(***************************************************************************)

LEMMA Behind ==
    ASSUME NEW S, NEW p \in Seq(S), p # <<>>
    PROVE  /\ Head(p) = p[1] /\ Head(p) \in S /\ Len(p) \in Nat /\ Len(p) >= 1
           /\ Tail(p) \in Seq(S) /\ Len(Tail(p)) = Len(p) - 1
           /\ \A i \in 1..Len(Tail(p)) : i + 1 \in 1..Len(p) /\ Tail(p)[i] = p[i + 1]
           /\ \A i \in 2..Len(p) : i - 1 \in 1..Len(Tail(p)) /\ Tail(p)[i - 1] = p[i]
           /\ Tail(p) = <<>> <=> Len(p) = 1
  <1>1. Len(p) \in Nat /\ Len(p) >= 1 /\ Head(p) = p[1] /\ Head(p) \in S
    OBVIOUS
  <1>2. Tail(p) \in Seq(S) /\ Len(Tail(p)) = Len(p) - 1
    BY HeadTailProperties
  <1>3. \A i \in 1..Len(Tail(p)) : i + 1 \in 1..Len(p) /\ Tail(p)[i] = p[i + 1]
    BY <1>1, <1>2, HeadTailProperties
  <1>4. \A i \in 2..Len(p) : i - 1 \in 1..Len(Tail(p)) /\ Tail(p)[i - 1] = p[i]
    <2> TAKE i \in 2..Len(p)
    <2>1. i - 1 \in 1..Len(Tail(p)) /\ (i - 1) + 1 = i
      BY <1>1, <1>2
    <2> QED BY <2>1, <1>3
  <1>5. Tail(p) = <<>> <=> Len(p) = 1
    <2>1. Tail(p) = <<>> <=> Len(Tail(p)) = 0
      BY <1>2, EmptySeq
    <2> QED BY <1>1, <1>2, <2>1
  <1> QED BY <1>1, <1>2, <1>3, <1>4, <1>5

LEMMA Joined ==
    ASSUME NEW p \in Seq(Commands), NEW q \in Seq(Commands)
    PROVE  /\ p \o q \in Seq(Commands) /\ Len(p \o q) = Len(p) + Len(q)
           /\ Len(p) \in Nat /\ Len(q) \in Nat
           /\ \A i \in 1..Len(p) : i \in 1..Len(p \o q) /\ (p \o q)[i] = p[i]
           /\ \A i \in 1..Len(q) : Len(p) + i \in 1..Len(p \o q)
                                   /\ (p \o q)[Len(p) + i] = q[i]
           /\ \A i \in Len(p) + 1 .. Len(p \o q) :
                  i - Len(p) \in 1..Len(q) /\ (p \o q)[i] = q[i - Len(p)]
  <1>1. /\ p \o q \in Seq(Commands) /\ Len(p \o q) = Len(p) + Len(q)
        /\ Len(p) \in Nat /\ Len(q) \in Nat
    BY ConcatProperties
  <1>2. \A i \in 1 .. Len(p) + Len(q) :
            (p \o q)[i] = IF i <= Len(p) THEN p[i] ELSE q[i - Len(p)]
    BY ConcatProperties
  <1>3. \A i \in 1..Len(p) : i \in 1..Len(p \o q) /\ (p \o q)[i] = p[i]
    BY <1>1, <1>2
  <1>4. \A i \in Len(p) + 1 .. Len(p \o q) :
                  i - Len(p) \in 1..Len(q) /\ (p \o q)[i] = q[i - Len(p)]
    BY <1>1, <1>2
  <1>5. \A i \in 1..Len(q) : Len(p) + i \in 1..Len(p \o q)
                                   /\ (p \o q)[Len(p) + i] = q[i]
    <2> TAKE i \in 1..Len(q)
    <2>1. Len(p) + i \in Len(p) + 1 .. Len(p \o q) /\ (Len(p) + i) - Len(p) = i
      BY <1>1
    <2> QED BY <2>1, <1>4, <1>1
  <1> QED BY <1>1, <1>3, <1>4, <1>5

-----------------------------------------------------------------------------
(***************************************************************************)
(* Commands.                                                               *)
(***************************************************************************)

\* What a command carries goes by what it does.
LEMMA Fields ==
    ASSUME NEW x \in Commands
    PROVE  /\ x.do \in {"HSET", "ZADD", "ZREM", "update", "HGET", "HMSET", "DEL", "gone",
                        "old", "RENAME", "new"}
           /\ x.key \in Keys \cup {NoKey}
           /\ x.do # "ZREM" => x.key \in Keys
           /\ x.do = "HSET" => x.field \in Sets \cup {"other"} /\ x.value \in Int
           /\ x.do \in {"ZADD", "ZREM", "update"} => x.set \in Sets
           /\ x.do = "ZADD" => x.score \in Int
           /\ x.do = "HGET" => x.time \in Times
           /\ x.do = "HMSET" => x.data \in Written
           /\ x.do \in {"old", "RENAME"} => x.to \in Keys
           /\ x.do = "new" => x.old \in Keys \cup {NoKey}
  <1>1. CASE x \in [field : Sets \cup {"other"}, do : {"HSET"}, key : Keys, value : Int]
    BY <1>1
  <1>2. CASE x \in [set : Sets, do : {"ZADD"}, key : Keys, score : Int]
    BY <1>2
  <1>3. CASE x \in [set : Sets, do : {"ZREM"}, key : Keys \cup {NoKey}]
    BY <1>3
  <1>4. CASE x \in [set : Sets, do : {"update"}, key : Keys]
    BY <1>4
  <1>5. CASE x \in [time : Times, do : {"HGET"}, key : Keys]
    BY <1>5
  <1>6. CASE x \in [do : {"HMSET"}, key : Keys, data : Written]
    BY <1>6
  <1>7. CASE x \in [do : {"DEL", "gone"}, key : Keys]
    BY <1>7
  <1>8. CASE x \in [do : {"old", "RENAME"}, key : Keys, to : Keys]
    BY <1>8
  <1>9. CASE x \in [do : {"new"}, key : Keys, old : Keys \cup {NoKey}]
    BY <1>9
  <1> QED BY <1>1, <1>2, <1>3, <1>4, <1>5, <1>6, <1>7, <1>8, <1>9 DEF Commands

\* The commands as Store.tla makes them.
LEMMA Made ==
    ASSUME NEW k \in Keys, NEW s \in Sets, NEW v \in Int
    PROVE  /\ HSET(k, s, v) \in Commands /\ HSET(k, "other", v) \in Commands
           /\ ZADD(s, k, v) \in Commands
           /\ ZREM(s, k) \in Commands /\ ZREM(s, NoKey) \in Commands
           /\ Update(k, s) \in Commands
           /\ \A t \in Times : [time |-> t, do |-> "HGET", key |-> k] \in Commands
           /\ \A fd \in Written : [do |-> "HMSET", key |-> k, data |-> fd] \in Commands
           /\ [do |-> "gone", key |-> k] \in Commands /\ [do |-> "DEL", key |-> k] \in Commands
           /\ \A l \in Keys : /\ [do |-> "old", key |-> k, to |-> l] \in Commands
                              /\ [do |-> "RENAME", key |-> k, to |-> l] \in Commands
           /\ \A l \in Keys \cup {NoKey} :
                  [do |-> "new", key |-> k, old |-> l] \in Commands
  <1> USE DEF Commands
  <1>1. HSET(k, s, v) \in Commands /\ HSET(k, "other", v) \in Commands
    BY DEF HSET
  <1>2. ZADD(s, k, v) \in Commands
    BY DEF ZADD
  <1>3. ZREM(s, k) \in Commands /\ ZREM(s, NoKey) \in Commands
    BY DEF ZREM
  <1>4. Update(k, s) \in Commands
    BY DEF Update
  <1>5. \A t \in Times : [time |-> t, do |-> "HGET", key |-> k] \in Commands
    OBVIOUS
  <1>6. \A fd \in Written : [do |-> "HMSET", key |-> k, data |-> fd] \in Commands
    OBVIOUS
  <1>7. [do |-> "gone", key |-> k] \in Commands /\ [do |-> "DEL", key |-> k] \in Commands
    OBVIOUS
  <1>8. \A l \in Keys : /\ [do |-> "old", key |-> k, to |-> l] \in Commands
                        /\ [do |-> "RENAME", key |-> k, to |-> l] \in Commands
    OBVIOUS
  <1>9. \A l \in Keys \cup {NoKey} : [do |-> "new", key |-> k, old |-> l] \in Commands
    OBVIOUS
  <1> QED BY <1>1, <1>2, <1>3, <1>4, <1>5, <1>6, <1>7, <1>8, <1>9

\* When the first command is done, the rest is the rest of a call.
LEMMA TailShape ==
    ASSUME NEW p, NEW ks, Shape(p, ks), p # <<>>
    PROVE  Shape(Tail(p), ks)
  <1> DEFINE q == Tail(p)
  <1>1. p \in Seq(Commands)
    BY DEF Shape
  <1>2. /\ q \in Seq(Commands) /\ Len(p) \in Nat /\ Len(p) >= 1 /\ Len(q) = Len(p) - 1
        /\ \A i \in 1..Len(q) : i + 1 \in 1..Len(p) /\ q[i] = p[i + 1]
        /\ \A i \in 2..Len(p) : i - 1 \in 1..Len(q) /\ q[i - 1] = p[i]
    BY <1>1, Behind
  <1> HIDE DEF q
  <1>3. Typed(q) /\ About(q, ks)
    BY <1>2 DEF Shape, Typed, About
  <1>4. Kinds(q, ks)
    BY <1>2 DEF Shape, Kinds
  <1>5. ASSUME RemovesAndAdds(p) PROVE RemovesAndAdds(q)
    <2> SUFFICES ASSUME NEW i \in 1..Len(q), q[i].do = "ZREM"
                 PROVE  \E j \in i + 1 .. Len(q) : \/ Adds(q[j], q[i].set, q[i].key)
                                                   \/ Deletes(q[j], q[i].key)
      BY DEF RemovesAndAdds
    <2>1. PICK j \in i + 2 .. Len(p) : \/ Adds(p[j], p[i + 1].set, p[i + 1].key)
                                       \/ Deletes(p[j], p[i + 1].key)
      BY <1>2, <1>5 DEF RemovesAndAdds
    <2>2. j - 1 \in i + 1 .. Len(q) /\ q[j - 1] = p[j] /\ q[i] = p[i + 1]
      BY <1>2, <2>1
    <2> QED BY <2>1, <2>2
  <1>6. SetsAndUpdates(q)
    <2> SUFFICES ASSUME NEW i \in 1..Len(q), q[i].do = "HSET", q[i].field \in Sets
                 PROVE  \E j \in i + 1 .. Len(q) : Updates(q[j], q[i].field, q[i].key)
      BY DEF SetsAndUpdates
    <2>1. i + 1 \in 1..Len(p) /\ q[i] = p[i + 1]
      BY <1>2
    <2>2. SetsAndUpdates(p)
      BY DEF Shape
    <2>3. \E j \in (i + 1) + 1 .. Len(p) : Updates(p[j], p[i + 1].field, p[i + 1].key)
      BY <2>1, <2>2 DEF SetsAndUpdates
    <2>4. PICK j \in i + 2 .. Len(p) : Updates(p[j], p[i + 1].field, p[i + 1].key)
      BY <2>3
    <2>5. j \in 2..Len(p) /\ j - 1 \in i + 1 .. Len(q)
      BY <1>2, <2>4
    <2>6. j - 1 \in i + 1 .. Len(q) /\ q[j - 1] = p[j] /\ q[i] = p[i + 1]
      BY <1>2, <2>1, <2>5
    <2> QED BY <2>4, <2>6
  <1>7. NoSetAfter(q)
    BY <1>2 DEF Shape, NoSetAfter
  <1>8. WritesAndAdds(q)
    <2>1. \A i \in 2..Len(p) : p[i].do # "HMSET"
      <3>1. \A i \in 2..Len(p) : i \in 1..Len(p) /\ i # 1
        BY <1>2
      <3>2. \A i \in 1..Len(p) : p[i].do = "HMSET" => i = 1
        BY DEF Shape, WritesAndAdds
      <3> QED BY <3>1, <3>2
    <2>2. \A i \in 1..Len(q) : i + 1 \in 2..Len(p) /\ q[i] = p[i + 1]
      BY <1>2
    <2>3. \A i \in 1..Len(q) : q[i].do # "HMSET"
      BY <2>1, <2>2
    <2> QED BY <2>3 DEF WritesAndAdds
  <1>9. Deletion(q)
    <2> SUFFICES ASSUME NEW i \in 1..Len(q)
                 PROVE  /\ q[i].do # "gone"
                        /\ q[i].do = "DEL" => /\ i = Len(q)
                                              /\ \A j \in 1 .. i - 1 : q[j].do \in {"gone", "ZREM"}
      BY DEF Deletion
    <2>1. q[i] = p[i + 1] /\ i + 1 \in 1..Len(p)
      BY <1>2
    <2>2. q[i].do # "gone"
      BY <2>1, <1>2 DEF Shape, Deletion
    <2>3. ASSUME q[i].do = "DEL"
          PROVE  i = Len(q) /\ \A j \in 1 .. i - 1 : q[j].do \in {"gone", "ZREM"}
      <3>1. i + 1 = Len(p) /\ \A j \in 1..i : p[j].do \in {"gone", "ZREM"}
        BY <2>1, <2>3, <1>2 DEF Shape, Deletion
      <3> QED BY <3>1, <1>2
    <2> QED BY <2>2, <2>3
  <1>10. Renaming(q)
    <2> SUFFICES ASSUME NEW i \in 1..Len(q)
                 PROVE  /\ q[i].do \notin {"old", "HGET", "RENAME"}
                        /\ q[i].do = "new" => i = Len(q) /\ i = 1 /\ q[i].key # q[i].old
      BY DEF Renaming
    <2>1. q[i] = p[i + 1] /\ i + 1 \in 1..Len(p) /\ i >= 1
      BY <1>2
    <2>2. /\ p[i + 1].do \in {"old", "HGET"} => Len(p) = 1
          /\ p[i + 1].do = "RENAME" => i + 1 = 1
          /\ p[i + 1].do = "new" => /\ i + 1 = Len(p) /\ i + 1 <= 2
                                   /\ p[i + 1].key # p[i + 1].old
      BY <2>1 DEF Shape, Renaming
    <2>3. i \in Nat /\ i >= 1 /\ i + 1 <= Len(p) /\ Len(p) \in Nat /\ Len(q) = Len(p) - 1
      BY <1>2
    <2>4. q[i].do \notin {"old", "HGET", "RENAME"}
      BY <2>1, <2>2, <2>3
    <2>5. ASSUME q[i].do = "new" PROVE i = Len(q) /\ i = 1 /\ q[i].key # q[i].old
      BY <2>1, <2>2, <2>3, <2>5
    <2> QED BY <2>4, <2>5
  <1> QED BY <1>2, <1>3, <1>4, <1>5, <1>6, <1>7, <1>8, <1>9, <1>10 DEF Shape, q

-----------------------------------------------------------------------------
(***************************************************************************)
(* The programs of the methods are calls.                                  *)
(***************************************************************************)
LEMMA JoinedPairs ==
    ASSUME NEW a \in Commands, NEW b \in Commands, NEW c \in Commands, NEW d \in Commands
    PROVE  /\ <<a, b>> \o <<c, d>> = <<a, b, c, d>>
           /\ <<a>> \o <<c, d>> = <<a, c, d>>
  <1>1. /\ <<a>> \in Seq(Commands) /\ <<a, b>> \in Seq(Commands) /\ <<c, d>> \in Seq(Commands)
        /\ <<a, b, c, d>> \in Seq(Commands) /\ <<a, c, d>> \in Seq(Commands)
    OBVIOUS
  <1> DEFINE q == <<a, b>> \o <<c, d>>
             r == <<a>> \o <<c, d>>
  <1>2. q \in Seq(Commands) /\ Len(q) = 4 /\ q[1] = a /\ q[2] = b /\ q[3] = c /\ q[4] = d
    BY <1>1, ConcatProperties
  <1>3. r \in Seq(Commands) /\ Len(r) = 3 /\ r[1] = a /\ r[2] = c /\ r[3] = d
    BY <1>1, ConcatProperties
  <1> HIDE DEF q, r
  <1>4. \A i \in 1..Len(q) : q[i] = <<a, b, c, d>>[i]
    <2> TAKE i \in 1..Len(q)
    <2>1. i = 1 \/ i = 2 \/ i = 3 \/ i = 4
      BY <1>2
    <2> QED BY <2>1, <1>2
  <1>5. \A i \in 1..Len(r) : r[i] = <<a, c, d>>[i]
    <2> TAKE i \in 1..Len(r)
    <2>1. i = 1 \/ i = 2 \/ i = 3
      BY <1>3
    <2> QED BY <2>1, <1>3
  <1>6. q = <<a, b, c, d>>
    BY <1>1, <1>2, <1>4, SeqEqual
  <1>7. r = <<a, c, d>>
    BY <1>1, <1>3, <1>5, SeqEqual
  <1> QED BY <1>6, <1>7 DEF q, r

\* A program of setters and updates, each field before its set.
Setting(p, k) ==
    /\ p \in Seq(Commands)
    /\ \A i \in 1..Len(p) : p[i].key = k /\ p[i].do \in {"HSET", "update"}
    /\ \A i \in 1..Len(p) : p[i].do = "HSET" /\ p[i].field \in Sets =>
           /\ p[i].value \in Atomic!Values[p[i].field]
           /\ i + 1 <= Len(p) /\ p[i + 1].do = "update" /\ p[i + 1].set = p[i].field
    /\ \A i, j \in 1..Len(p) :
           p[j].do = "HSET" /\ p[i].do = "update" /\ i < j => p[i].set # p[j].field

\* The first program of a call: it goes by nothing that has been read yet.
Starts(p) == \A i \in 1..Len(p) :
    /\ p[i].do \notin {"ZREM", "RENAME", "new"}
    /\ p[i].do = "ZADD" => p[1].do = "HMSET"
    /\ p[i].do = "DEL" => p[1].do = "gone"
Opening(p, ks) == Shape(p, ks) /\ Starts(p) /\ p # <<>>

LEMMA SettingShape ==
    ASSUME NEW k \in Keys, NEW p, Setting(p, k), p # <<>>
    PROVE  Opening(p, {k})
  <1>1. /\ p \in Seq(Commands) /\ Len(p) \in Nat
        /\ \A i \in 1..Len(p) : p[i].key = k /\ p[i].do \in {"HSET", "update"}
        /\ \A i \in 1..Len(p) : p[i].do = "HSET" /\ p[i].field \in Sets =>
               /\ p[i].value \in Atomic!Values[p[i].field]
               /\ i + 1 \in 1..Len(p) /\ p[i + 1].do = "update" /\ p[i + 1].set = p[i].field
    BY DEF Setting
  <1>2. Typed(p) /\ About(p, {k}) /\ Kinds(p, {k}) /\ RemovesAndAdds(p)
    BY <1>1 DEF Typed, About, Kinds, RemovesAndAdds
  <1>3. SetsAndUpdates(p)
    <2> SUFFICES ASSUME NEW i \in 1..Len(p), p[i].do = "HSET", p[i].field \in Sets
                 PROVE  \E j \in i + 1 .. Len(p) : Updates(p[j], p[i].field, p[i].key)
      BY DEF SetsAndUpdates
    <2>1. i + 1 \in i + 1 .. Len(p) /\ Updates(p[i + 1], p[i].field, p[i].key)
      BY <1>1 DEF Updates
    <2> QED BY <2>1
  <1>4. NoSetAfter(p)
    BY <1>1 DEF NoSetAfter, Setting
  <1>5. WritesAndAdds(p) /\ Deletion(p) /\ Renaming(p)
    BY <1>1 DEF WritesAndAdds, Deletion, Renaming
  <1>6. Starts(p)
    BY <1>1 DEF Starts
  <1> QED BY <1>1, <1>2, <1>3, <1>4, <1>5, <1>6 DEF Shape, Opening

LEMMA ValuesAre ==
    /\ Atomic!Values["File_Size"] = Sizes /\ Atomic!Values["Times_Accessed"] = 0..MaxHits
    /\ Atomic!Values["Is_Local"] = {0, 1} /\ Atomic!Values["Last_Modified"] = Times
    /\ Sizes \subseteq Int /\ Times \subseteq Int
    /\ {"File_Size", "Times_Accessed", "Is_Local", "Last_Modified"} = Sets
    /\ "other" \notin Sets
  BY StoreAssumption, TheSets DEF Atomic!Values

\* setLastTimeModified, and with it every setter that leaves the time.
LEMMA TouchShape ==
    ASSUME NEW k \in Keys, NEW t \in Times
    PROVE  /\ Opening(UpdateLastTimeModified(k, t), {k})
           /\ Opening(SetOther(k, t), {k})
           /\ \A n \in Sizes : Opening(SetFileSize(k, n, t), {k})
           /\ \A n \in 0..MaxHits : Opening(WriteTimesAccessed(k, n, t), {k})
  <1> DEFINE a == HSET(k, "Last_Modified", t)
             b == Update(k, "Last_Modified")
             o == HSET(k, "other", 0)
  <1>1. /\ a \in Commands /\ b \in Commands /\ o \in Commands
        /\ a.do = "HSET" /\ a.key = k /\ a.field = "Last_Modified" /\ a.value = t
        /\ b.do = "update" /\ b.key = k /\ b.set = "Last_Modified"
        /\ o.do = "HSET" /\ o.key = k /\ o.field = "other"
    <2>1. "Last_Modified" \in Sets /\ t \in Int /\ 0 \in Int
      BY ValuesAre
    <2>2. a \in Commands /\ b \in Commands /\ o \in Commands
      BY <2>1, Made
    <2> QED BY <2>2 DEF HSET, Update
  <1> HIDE DEF a, b, o
  <1>3. UpdateLastTimeModified(k, t) = <<a, b>>
    BY DEF a, b, UpdateLastTimeModified
  <1>4. Setting(<<a, b>>, k)
    <2> DEFINE p == <<a, b>>
    <2>1. p \in Seq(Commands) /\ Len(p) = 2 /\ p[1] = a /\ p[2] = b
      BY <1>1
    <2> HIDE DEF p
    <2>2. \A i \in 1..Len(p) : i = 1 \/ i = 2
      BY <2>1
    <2> QED BY <1>1, <2>1, <2>2, ValuesAre DEF Setting, p
  <1>5. SetOther(k, t) = <<o, a, b>>
    <2>1. SetOther(k, t) = <<o>> \o <<a, b>>
      BY <1>3 DEF SetOther, o
    <2> QED BY <1>1, <2>1, JoinedPairs
  <1>6. Setting(<<o, a, b>>, k)
    <2> DEFINE p == <<o, a, b>>
    <2>1. p \in Seq(Commands) /\ Len(p) = 3 /\ p[1] = o /\ p[2] = a /\ p[3] = b
      BY <1>1
    <2> HIDE DEF p
    <2>2. \A i \in 1..Len(p) : i = 1 \/ i = 2 \/ i = 3
      BY <2>1
    <2> QED BY <1>1, <2>1, <2>2, ValuesAre DEF Setting, p
  <1>7. ASSUME NEW f \in Sets \ {"Last_Modified"}, NEW v \in Atomic!Values[f]
        PROVE  Setting(<<HSET(k, f, v), Update(k, f)>> \o <<a, b>>, k)
    <2> DEFINE x == HSET(k, f, v)
               y == Update(k, f)
               p == <<x, y>> \o <<a, b>>
    <2>1. /\ x \in Commands /\ y \in Commands
          /\ x.do = "HSET" /\ x.key = k /\ x.field = f /\ x.value = v
          /\ y.do = "update" /\ y.key = k /\ y.set = f
      BY Made, FieldsOfData DEF HSET, Update
    <2> HIDE DEF x, y
    <2>2. p = <<x, y, a, b>>
      <3>1. a \in Commands /\ b \in Commands /\ x \in Commands /\ y \in Commands
        BY <1>1, <2>1
      <3>2. <<x, y>> \o <<a, b>> = <<x, y, a, b>> /\ <<x>> \o <<a, b>> = <<x, a, b>>
        BY <3>1, JoinedPairs
      <3> QED BY <3>2 DEF p
    <2>3. p \in Seq(Commands) /\ Len(p) = 4 /\ p[1] = x /\ p[2] = y /\ p[3] = a /\ p[4] = b
      BY <1>1, <2>1, <2>2
    <2> HIDE DEF p
    <2>4. \A i \in 1..Len(p) : i = 1 \/ i = 2 \/ i = 3 \/ i = 4
      BY <2>3
    <2>5. \A i \in 1..Len(p) : p[i].key = k /\ p[i].do \in {"HSET", "update"}
      BY <1>1, <2>1, <2>3, <2>4
    <2>6. ASSUME NEW i \in 1..Len(p), p[i].do = "HSET", p[i].field \in Sets
          PROVE  /\ p[i].value \in Atomic!Values[p[i].field]
                 /\ i + 1 <= Len(p) /\ p[i + 1].do = "update" /\ p[i + 1].set = p[i].field
      <3>1. i = 1 \/ i = 3
        BY <1>1, <2>1, <2>3, <2>4, <2>6
      <3> QED BY <1>1, <2>1, <2>3, <3>1, ValuesAre
    <2>7. ASSUME NEW i \in 1..Len(p), NEW j \in 1..Len(p),
                 p[j].do = "HSET", p[i].do = "update", i < j
          PROVE  p[i].set # p[j].field
      <3>1. i = 2 /\ j = 3
        BY <1>1, <2>1, <2>3, <2>4, <2>7
      <3> QED BY <1>1, <2>1, <2>3, <3>1
    <2>8. Setting(p, k)
      BY <2>3, <2>5, <2>6, <2>7 DEF Setting
    <2> QED BY <2>8 DEF p, x, y
  <1>8. ASSUME NEW n \in Sizes
        PROVE  Opening(SetFileSize(k, n, t), {k})
    <2>1. SetFileSize(k, n, t) = <<HSET(k, "File_Size", n), Update(k, "File_Size")>> \o <<a, b>>
      BY <1>3 DEF SetFileSize
    <2>2. "File_Size" \in Sets \ {"Last_Modified"} /\ n \in Atomic!Values["File_Size"]
      BY ValuesAre
    <2>3. Setting(SetFileSize(k, n, t), k)
      BY <2>1, <2>2, <1>7
    <2>4. SetFileSize(k, n, t) # <<>>
      BY DEF SetFileSize, UpdateLastTimeModified
    <2> QED BY <2>3, <2>4, SettingShape
  <1>9. ASSUME NEW n \in 0..MaxHits
        PROVE  Opening(WriteTimesAccessed(k, n, t), {k})
    <2>1. WriteTimesAccessed(k, n, t)
              = <<HSET(k, "Times_Accessed", n), Update(k, "Times_Accessed")>> \o <<a, b>>
      BY <1>3 DEF WriteTimesAccessed
    <2>2. /\ "Times_Accessed" \in Sets \ {"Last_Modified"}
          /\ n \in Atomic!Values["Times_Accessed"]
      BY ValuesAre
    <2>3. Setting(WriteTimesAccessed(k, n, t), k)
      BY <2>1, <2>2, <1>7
    <2>4. WriteTimesAccessed(k, n, t) # <<>>
      BY DEF WriteTimesAccessed, UpdateLastTimeModified
    <2> QED BY <2>3, <2>4, SettingShape
  <1>10. Opening(<<a, b>>, {k}) /\ Opening(<<o, a, b>>, {k})
    BY <1>4, <1>6, SettingShape
  <1> QED BY <1>3, <1>5, <1>8, <1>9, <1>10

LEMMA AddsAll ==
    ASSUME NEW k \in Keys, NEW fd \in FileData
    PROVE  LET p == AddFileToAllSets(k, fd) IN
           /\ p \in Seq(Commands) /\ Len(p) = 4
           /\ \A i \in 1..4 : /\ p[i].do = "ZADD" /\ p[i].key = k /\ p[i].set \in Sets
                              /\ p[i].score = fd[p[i].set]
           /\ \A s \in Sets : \E i \in 1..4 : p[i].set = s
  <1> DEFINE p == AddFileToAllSets(k, fd)
  <1>1. \A i \in 1..4 : Added[i] \in Sets
    BY DEF Sets, Range, Added
  <1>2. \A i \in 1..4 : fd[Added[i]] \in Int
    BY <1>1, FieldsOfData
  <1>3. \A i \in 1..4 : ZADD(Added[i], k, fd[Added[i]]) \in Commands
    BY <1>1, <1>2, Made
  <1>4. p = [i \in 1..4 |-> ZADD(Added[i], k, fd[Added[i]])]
    BY DEF AddFileToAllSets
  <1>5. p \in Seq(Commands) /\ Len(p) = 4
    BY <1>3, <1>4
  <1>6. \A i \in 1..4 : /\ p[i].do = "ZADD" /\ p[i].key = k /\ p[i].set = Added[i]
                        /\ p[i].score = fd[Added[i]]
    BY <1>4 DEF ZADD
  <1>7. \A s \in Sets : \E i \in 1..4 : Added[i] = s
    BY DEF Sets, Range, Added
  <1> QED BY <1>1, <1>5, <1>6, <1>7

LEMMA RemovesAll ==
    ASSUME NEW k \in Keys \cup {NoKey}
    PROVE  LET p == DeleteFileFromAllSets(k) IN
           /\ p \in Seq(Commands) /\ Len(p) = 4
           /\ \A i \in 1..4 : p[i].do = "ZREM" /\ p[i].key = k /\ p[i].set \in Sets
           /\ \A s \in Sets : \E i \in 1..4 : p[i].set = s
  <1> DEFINE p == DeleteFileFromAllSets(k)
  <1>1. DOMAIN Removed = 1..4
    BY DEF Removed
  <1>2. \A i \in 1..4 : Removed[i] \in Sets
    BY TheSets DEF Removed
  <1>3. \A i \in 1..4 : ZREM(Removed[i], k) \in Commands
    BY <1>2 DEF ZREM, Commands
  <1>4. p = [i \in 1..4 |-> ZREM(Removed[i], k)]
    BY DEF DeleteFileFromAllSets
  <1>5. p \in Seq(Commands) /\ Len(p) = 4
    BY <1>3, <1>4
  <1>6. \A i \in 1..4 : p[i].do = "ZREM" /\ p[i].key = k /\ p[i].set = Removed[i]
    BY <1>4 DEF ZREM
  <1>7. \A s \in Sets : \E i \in 1..4 : Removed[i] = s
    <2>1. /\ Removed[1] = "File_Size" /\ Removed[2] = "Is_Local"
          /\ Removed[3] = "Times_Accessed" /\ Removed[4] = "Last_Modified"
      BY DEF Removed
    <2> QED BY <2>1, TheSets
  <1> QED BY <1>2, <1>5, <1>6, <1>7

\* A method of Redis_Client, as it is called.
LEMMA CallShape ==
    ASSUME NEW k \in Keys, NEW t \in Times
    PROVE  /\ \A flag \in {0, 1} : Opening(SetIsLocal(k, flag), {k})
           /\ Opening(SetIsOpen(k), {k})
           /\ Opening(IncrementTimesAccessed(k, t), {k})
           /\ Opening(DeleteFile(k), {k})
           /\ \A l \in Keys \ {k} : Opening(RENAME(k, l), {k, l})
  <1>1. ASSUME NEW flag \in {0, 1}
        PROVE  Opening(SetIsLocal(k, flag), {k})
    <2> DEFINE x == HSET(k, "Is_Local", flag)
               y == Update(k, "Is_Local")
               p == <<x, y>>
    <2>1. "Is_Local" \in Sets /\ flag \in Atomic!Values["Is_Local"]
      BY ValuesAre
    <2>2. /\ x \in Commands /\ y \in Commands
          /\ x.do = "HSET" /\ x.key = k /\ x.field = "Is_Local" /\ x.value = flag
          /\ y.do = "update" /\ y.key = k /\ y.set = "Is_Local"
      <3>1. x \in Commands /\ y \in Commands
        BY <2>1 DEF HSET, Update, Commands
      <3> QED BY <3>1 DEF HSET, Update
    <2>3. SetIsLocal(k, flag) = p
      BY DEF SetIsLocal
    <2> HIDE DEF x, y
    <2>4. p \in Seq(Commands) /\ Len(p) = 2 /\ p[1] = x /\ p[2] = y
      BY <2>2
    <2> HIDE DEF p
    <2>5. \A i \in 1..Len(p) : i = 1 \/ i = 2
      BY <2>4
    <2>6. Setting(p, k)
      BY <2>1, <2>2, <2>4, <2>5 DEF Setting
    <2>7. p # <<>>
      BY <2>4
    <2> QED BY <2>3, <2>6, <2>7, SettingShape
  <1>2. Opening(SetIsOpen(k), {k})
    <2> DEFINE x == HSET(k, "other", 0)
               p == <<x>>
    <2>1. /\ x \in Commands /\ x.do = "HSET" /\ x.key = k /\ x.field = "other"
      <3>1. x \in Commands
        BY DEF Commands, HSET
      <3> QED BY <3>1 DEF HSET
    <2>2. SetIsOpen(k) = p
      BY DEF SetIsOpen
    <2> HIDE DEF x
    <2>3. p \in Seq(Commands) /\ Len(p) = 1 /\ p[1] = x
      BY <2>1
    <2> HIDE DEF p
    <2>4. \A i \in 1..Len(p) : i = 1
      BY <2>3
    <2>5. Setting(p, k)
      BY <2>1, <2>3, <2>4, ValuesAre DEF Setting
    <2>6. p # <<>>
      BY <2>3
    <2> QED BY <2>2, <2>5, <2>6, SettingShape
  <1>3. Opening(IncrementTimesAccessed(k, t), {k})
    <2> DEFINE x == [time |-> t, do |-> "HGET", key |-> k]
               p == <<x>>
    <2>1. x \in Commands /\ x.do = "HGET" /\ x.key = k
      BY Made, ValuesAre
    <2>2. IncrementTimesAccessed(k, t) = p
      BY DEF IncrementTimesAccessed
    <2> HIDE DEF x
    <2>3. p \in Seq(Commands) /\ Len(p) = 1 /\ p[1] = x
      BY <2>1
    <2> HIDE DEF p
    <2>4. \A i \in 1..Len(p) : i = 1
      BY <2>3
    <2>5. p # <<>> /\ Starts(p)
      <3>1. p # <<>>
        BY <2>3
      <3>2. Starts(p)
        BY <2>1, <2>3, <2>4 DEF Starts
      <3> QED BY <3>1, <3>2
    <2> QED BY <2>1, <2>2, <2>3, <2>4, <2>5
            DEF Opening, Shape, Typed, About, Kinds, RemovesAndAdds, SetsAndUpdates,
                NoSetAfter, WritesAndAdds, Deletion, Renaming
  <1>4. Opening(DeleteFile(k), {k})
    <2> DEFINE x == [do |-> "gone", key |-> k]
               y == [do |-> "DEL", key |-> k]
               p == <<x, y>>
    <2>1. /\ x \in Commands /\ x.do = "gone" /\ x.key = k
          /\ y \in Commands /\ y.do = "DEL" /\ y.key = k
      BY Made, ValuesAre
    <2>2. DeleteFile(k) = p
      BY DEF DeleteFile
    <2> HIDE DEF x, y
    <2>3. p \in Seq(Commands) /\ Len(p) = 2 /\ p[1] = x /\ p[2] = y
      BY <2>1
    <2> HIDE DEF p
    <2>4. \A i \in 1..Len(p) : i = 1 \/ i = 2
      BY <2>3
    <2>5. p # <<>> /\ Starts(p)
      <3>1. p # <<>>
        BY <2>3
      <3>2. Starts(p)
        BY <2>1, <2>3, <2>4 DEF Starts
      <3> QED BY <3>1, <3>2
    <2>6. Deletion(p)
      BY <2>1, <2>3, <2>4 DEF Deletion
    <2> QED BY <2>1, <2>2, <2>3, <2>4, <2>5, <2>6
            DEF Opening, Shape, Typed, About, Kinds, RemovesAndAdds, SetsAndUpdates, NoSetAfter,
                WritesAndAdds, Renaming
  <1>5. ASSUME NEW l \in Keys \ {k}
        PROVE  Opening(RENAME(k, l), {k, l})
    <2> DEFINE x == [do |-> "old", key |-> k, to |-> l]
               p == <<x>>
    <2>1. x \in Commands /\ x.do = "old" /\ x.key = k /\ x.to = l
      BY Made, ValuesAre
    <2>2. RENAME(k, l) = p
      BY DEF RENAME
    <2> HIDE DEF x
    <2>3. p \in Seq(Commands) /\ Len(p) = 1 /\ p[1] = x
      BY <2>1
    <2> HIDE DEF p
    <2>4. \A i \in 1..Len(p) : i = 1
      BY <2>3
    <2>5. p # <<>> /\ Starts(p)
      <3>1. p # <<>>
        BY <2>3
      <3>2. Starts(p)
        BY <2>1, <2>3, <2>4 DEF Starts
      <3> QED BY <3>1, <3>2
    <2>6. Kinds(p, {k, l})
      <3>1. \A i \in 1..Len(p) : p[i].do \in OfRename
        BY <2>1, <2>3, <2>4 DEF OfRename
      <3> QED BY <3>1 DEF Kinds
    <2>7. ~ \E m \in Keys : {k, l} = {m}
      OBVIOUS
    <2>8. Typed(p) /\ About(p, {k, l}) /\ SetsAndUpdates(p) /\ NoSetAfter(p)
      BY <2>1, <2>3, <2>4 DEF Typed, About, SetsAndUpdates, NoSetAfter
    <2>9. WritesAndAdds(p) /\ Deletion(p) /\ Renaming(p)
      BY <2>1, <2>3, <2>4 DEF WritesAndAdds, Deletion, Renaming
    <2> QED BY <2>2, <2>3, <2>5, <2>6, <2>7, <2>8, <2>9 DEF Shape, Opening
  <1> QED BY <1>1, <1>2, <1>3, <1>4, <1>5

\* Redis_HMSET.
LEMMA HMSETShape ==
    ASSUME NEW k \in Keys, NEW fd \in Written
    PROVE  Opening(HMSET(k, fd), {k})
  <1> DEFINE x == [do |-> "HMSET", key |-> k, data |-> fd]
             a == AddFileToAllSets(k, fd)
             p == <<x>> \o a
  <1>1. x \in Commands /\ x.do = "HMSET" /\ x.key = k /\ x.data = fd
    BY DEF Commands
  <1>2. HMSET(k, fd) = p
    BY DEF HMSET
  <1>3. /\ a \in Seq(Commands) /\ Len(a) = 4 /\ fd \in FileData
        /\ \A i \in 1..4 : /\ a[i].do = "ZADD" /\ a[i].key = k /\ a[i].set \in Sets
                           /\ a[i].score = fd[a[i].set]
        /\ \A s \in Sets : \E i \in 1..4 : a[i].set = s
    BY AddsAll, StoreAssumption
  <1> HIDE DEF x, a
  <1>4. <<x>> \in Seq(Commands) /\ Len(<<x>>) = 1 /\ <<x>>[1] = x
    BY <1>1
  <1>5. /\ p \in Seq(Commands) /\ Len(p) = 5 /\ p[1] = x
        /\ \A i \in 1..4 : i + 1 \in 2..5 /\ p[i + 1] = a[i]
        /\ \A i \in 2..5 : i - 1 \in 1..4 /\ p[i] = a[i - 1]
    <2>1. /\ p \in Seq(Commands) /\ Len(p) = Len(<<x>>) + Len(a)
          /\ \A i \in 1..Len(<<x>>) : p[i] = <<x>>[i]
          /\ \A i \in 1..Len(a) : p[Len(<<x>>) + i] = a[i]
      BY <1>3, <1>4, Joined
    <2> HIDE DEF p
    <2>2. Len(p) = 5 /\ p[1] = x /\ \A i \in 1..4 : p[1 + i] = a[i]
      BY <2>1, <1>3, <1>4
    <2>3. /\ \A i \in 2..5 : i - 1 \in 1..4 /\ 1 + (i - 1) = i
          /\ \A i \in 1..4 : i + 1 \in 2..5 /\ 1 + i = i + 1
      OBVIOUS
    <2> QED BY <2>1, <2>2, <2>3
  <1> HIDE DEF p
  <1>6. \A i \in 1..Len(p) : i = 1 \/ i \in 2..5
    BY <1>5
  <1>7. /\ \A i \in 2..5 : /\ p[i].do = "ZADD" /\ p[i].key = k /\ p[i].set \in Sets
                           /\ p[i].score = p[1].data[p[i].set]
        /\ \A s \in Sets : \E i \in 2..5 : p[i].set = s
    BY <1>1, <1>3, <1>5
  <1>8. Typed(p)
    BY <1>1, <1>3, <1>5, <1>6, <1>7, FieldsOfData DEF Typed
  <1>9. WritesAndAdds(p)
    BY <1>1, <1>5, <1>6, <1>7 DEF WritesAndAdds, Adds
  <1>10. About(p, {k}) /\ Kinds(p, {k})
    BY <1>1, <1>5, <1>6, <1>7 DEF About, Kinds
  <1>11. RemovesAndAdds(p) /\ SetsAndUpdates(p) /\ NoSetAfter(p) /\ Deletion(p) /\ Renaming(p)
    BY <1>1, <1>5, <1>6, <1>7 DEF RemovesAndAdds, SetsAndUpdates, NoSetAfter, Deletion, Renaming
  <1>12. p # <<>> /\ Starts(p)
    <2>1. Len(p) = 5
      BY <1>5
    <2>2. Starts(p)
      BY <1>1, <1>5, <1>6, <1>7 DEF Starts
    <2> QED BY <2>1, <2>2
  <1> QED BY <1>2, <1>5, <1>8, <1>9, <1>10, <1>11, <1>12 DEF Shape, Opening

-----------------------------------------------------------------------------
(***************************************************************************)
(* What an HGETALL reads makes a call go on.                               *)
(***************************************************************************)

\* The next command of a call.
LEMMA First ==
    ASSUME NEW p, NEW ks, Shape(p, ks), p # <<>>
    PROVE  /\ p \in Seq(Commands) /\ Len(p) \in Nat /\ Len(p) >= 1 /\ 1 \in 1..Len(p)
           /\ Head(p) = p[1] /\ p[1] \in Commands
           /\ p[1].key \in ks \cup {NoKey}
           /\ p[1].do # "ZREM" => p[1].key \in ks /\ p[1].key \in Keys
           /\ Tail(p) \in Seq(Commands) /\ Len(Tail(p)) = Len(p) - 1
           /\ \A i \in 1..Len(Tail(p)) : i + 1 \in 1..Len(p) /\ Tail(p)[i] = p[i + 1]
           /\ \A i \in 2..Len(p) : i - 1 \in 1..Len(Tail(p)) /\ Tail(p)[i - 1] = p[i]
  <1>1. p \in Seq(Commands)
    BY DEF Shape
  <1>2. /\ Len(p) \in Nat /\ Len(p) >= 1 /\ 1 \in 1..Len(p)
        /\ Head(p) = p[1] /\ p[1] \in Commands
        /\ Tail(p) \in Seq(Commands) /\ Len(Tail(p)) = Len(p) - 1
        /\ \A i \in 1..Len(Tail(p)) : i + 1 \in 1..Len(p) /\ Tail(p)[i] = p[i + 1]
        /\ \A i \in 2..Len(p) : i - 1 \in 1..Len(Tail(p)) /\ Tail(p)[i - 1] = p[i]
    BY <1>1, Behind
  <1>3. p[1].key \in ks \cup {NoKey}
    BY <1>2 DEF Shape, About
  <1>4. p[1].do # "ZREM" => p[1].key \in Keys
    BY <1>2, Fields
  <1> QED BY <1>1, <1>2, <1>3, <1>4, StoreAssumption

AfterUpdate(p, fd) == UpdateInSet(p[1].set, p[1].key, fd) \o Tail(p)
UpdateGoesOn(q, p, ks, fd) ==
    /\ Shape(q, ks) /\ Len(q) = Len(p) + 1
    /\ q[1].do = "ZREM" /\ q[1].set = p[1].set /\ q[1].key = p[1].key
    /\ q[2].do = "ZADD" /\ q[2].set = p[1].set /\ q[2].key = p[1].key
    /\ q[2].score = fd[p[1].set]
    /\ \A i \in 3..Len(q) : i - 1 \in 2..Len(p) /\ q[i] = p[i - 1]
    /\ \A i \in 2..Len(p) : i + 1 \in 3..Len(q) /\ q[i + 1] = p[i]

LEMMA UpdateShape ==
    ASSUME NEW p, NEW ks, Shape(p, ks), p # <<>>, p[1].do = "update", NEW fd \in FileData
    PROVE  UpdateGoesOn(AfterUpdate(p, fd), p, ks, fd)
  <1> DEFINE k == p[1].key
             s == p[1].set
             a == ZREM(s, k)
             b == ZADD(s, k, fd[s])
             q == AfterUpdate(p, fd)
  <1>1. /\ p \in Seq(Commands) /\ Len(p) \in Nat /\ Len(p) >= 1 /\ 1 \in 1..Len(p)
        /\ p[1] \in Commands /\ k \in ks /\ k \in Keys
        /\ Tail(p) \in Seq(Commands) /\ Len(Tail(p)) = Len(p) - 1
        /\ \A i \in 1..Len(Tail(p)) : i + 1 \in 1..Len(p) /\ Tail(p)[i] = p[i + 1]
        /\ \A i \in 2..Len(p) : i - 1 \in 1..Len(Tail(p)) /\ Tail(p)[i - 1] = p[i]
    BY First
  <1>2. s \in Sets
    BY <1>1, Fields
  <1>3. fd[s] \in Atomic!Values[s] /\ fd[s] \in Int
    BY <1>2, FieldsOfData
  <1>4. a \in Commands /\ b \in Commands
    BY <1>1, <1>2, <1>3 DEF Commands, ZREM, ZADD
  <1>5. /\ a.do = "ZREM" /\ a.set = s /\ a.key = k
        /\ b.do = "ZADD" /\ b.set = s /\ b.key = k /\ b.score = fd[s]
    BY DEF ZREM, ZADD
  <1>6. q = <<a, b>> \o Tail(p)
    BY DEF AfterUpdate, UpdateInSet
  <1> HIDE DEF a, b, q, k, s
  <1>7. <<a, b>> \in Seq(Commands) /\ Len(<<a, b>>) = 2 /\ <<a, b>>[1] = a /\ <<a, b>>[2] = b
    BY <1>4
  <1>8. /\ q \in Seq(Commands) /\ Len(q) = Len(p) + 1
        /\ q[1] = a /\ q[2] = b
        /\ \A i \in 3..Len(q) : i - 1 \in 2..Len(p) /\ q[i] = p[i - 1]
        /\ \A i \in 2..Len(p) : i + 1 \in 3..Len(q) /\ q[i + 1] = p[i]
    <2>1. /\ q \in Seq(Commands) /\ Len(q) = Len(<<a, b>>) + Len(Tail(p))
          /\ \A i \in 1..Len(<<a, b>>) : q[i] = <<a, b>>[i]
          /\ \A i \in 1..Len(Tail(p)) : q[Len(<<a, b>>) + i] = Tail(p)[i]
      BY <1>1, <1>6, <1>7, Joined
    <2>2. q[1] = a /\ q[2] = b /\ Len(q) = Len(p) + 1
      BY <2>1, <1>1, <1>7
    <2>3. \A i \in 1..Len(Tail(p)) : q[2 + i] = p[i + 1]
      BY <2>1, <1>1, <1>7
    <2>4. \A i \in 2..Len(p) : i - 1 \in 1..Len(Tail(p)) /\ 2 + (i - 1) = i + 1 /\ (i - 1) + 1 = i
      BY <1>1
    <2>5. \A i \in 2..Len(p) : q[i + 1] = p[i]
      BY <2>3, <2>4
    <2>6. \A i \in 3..Len(q) : i - 1 \in 2..Len(p) /\ (i - 1) + 1 = i
      BY <2>2, <1>1
    <2>7. \A i \in 3..Len(q) : q[i] = p[i - 1]
      BY <2>5, <2>6
    <2>8. \A i \in 2..Len(p) : i + 1 \in 3..Len(q)
      BY <2>2, <1>1
    <2> QED BY <2>1, <2>2, <2>5, <2>6, <2>7, <2>8
  <1>9. \A i \in 1..Len(q) : i = 1 \/ i = 2 \/ i \in 3..Len(q)
    BY <1>8, <1>1
  <1>10. /\ \E m \in Keys : ks = {m}
         /\ \A i \in 1..Len(p) : p[i].do \notin {"old", "RENAME", "new"}
    BY <1>1 DEF Shape, Kinds, OfRename
  <1>11. \A i \in 2..Len(p) :
             /\ i \in 1..Len(p) /\ i > 1
             /\ p[i].do \notin {"old", "RENAME", "new", "HMSET", "gone", "DEL", "HGET"}
    <2> TAKE i \in 2..Len(p)
    <2>1. i \in 1..Len(p) /\ i > 1 /\ 1 \in 1 .. i - 1 /\ Len(p) > 1
      BY <1>1
    <2>2. p[i].do \notin {"old", "RENAME", "new"}
      BY <1>10, <2>1
    <2>3. p[i].do # "HMSET" /\ p[i].do # "gone"
      BY <2>1 DEF Shape, WritesAndAdds, Deletion
    <2>4. p[i].do # "DEL"
      BY <2>1 DEF Shape, Deletion
    <2>5. p[i].do # "HGET"
      <3>1. \A j \in 1..Len(p) : p[j].do \in {"old", "HGET"} => Len(p) = 1
        BY DEF Shape, Renaming
      <3> QED BY <2>1, <3>1
    <2> QED BY <2>1, <2>2, <2>3, <2>4, <2>5
  <1>12. Typed(q)
    <2>1. \A i \in 2..Len(p) :
             /\ p[i].do = "ZADD" => p[i].score \in Atomic!Values[p[i].set]
             /\ p[i].do = "HSET" /\ p[i].field \in Sets => p[i].value \in Atomic!Values[p[i].field]
      BY <1>11 DEF Shape, Typed
    <2> QED BY <2>1, <1>3, <1>5, <1>8, <1>9 DEF Typed
  <1>13. About(q, ks)
    <2>1. \A i \in 2..Len(p) : p[i].key \in ks \cup {NoKey}
      BY <1>11 DEF Shape, About
    <2> QED BY <2>1, <1>1, <1>5, <1>8, <1>9, <1>11 DEF About
  <1>14. Kinds(q, ks)
    <2>1. \A i \in 1..Len(q) : q[i].do \notin {"old", "RENAME", "new"}
      BY <1>5, <1>8, <1>9, <1>11
    <2> QED BY <2>1, <1>10 DEF Kinds
  <1>15. RemovesAndAdds(q)
    <2> SUFFICES ASSUME NEW i \in 1..Len(q), q[i].do = "ZREM"
                 PROVE  \E j \in i + 1 .. Len(q) : \/ Adds(q[j], q[i].set, q[i].key)
                                                   \/ Deletes(q[j], q[i].key)
      BY DEF RemovesAndAdds
    <2>1. CASE i = 1
      <3>1. 2 \in i + 1 .. Len(q) /\ Adds(q[2], q[i].set, q[i].key)
        BY <2>1, <1>1, <1>5, <1>8 DEF Adds
      <3> QED BY <3>1
    <2>2. CASE i \in 3..Len(q)
      <3>1. i - 1 \in 1..Len(p) /\ q[i] = p[i - 1] /\ (i - 1) + 1 = i
        BY <2>2, <1>1, <1>8
      <3>2. PICK j \in i .. Len(p) : \/ Adds(p[j], p[i - 1].set, p[i - 1].key)
                                     \/ Deletes(p[j], p[i - 1].key)
        BY <3>1, <1>10 DEF Shape, RemovesAndAdds
      <3>3. j \in 2..Len(p) /\ j + 1 \in i + 1 .. Len(q)
        BY <2>2, <3>2, <1>1, <1>8
      <3>4. q[j + 1] = p[j]
        BY <3>3, <1>8
      <3> QED BY <3>1, <3>2, <3>3, <3>4
    <2> QED BY <2>1, <2>2, <1>5, <1>8, <1>9
  <1>16. SetsAndUpdates(q)
    <2> SUFFICES ASSUME NEW i \in 1..Len(q), q[i].do = "HSET", q[i].field \in Sets
                 PROVE  \E j \in i + 1 .. Len(q) : Updates(q[j], q[i].field, q[i].key)
      BY DEF SetsAndUpdates
    <2>1. i \in 3..Len(q)
      BY <1>5, <1>8, <1>9
    <2>2. i - 1 \in 1..Len(p) /\ q[i] = p[i - 1] /\ (i - 1) + 1 = i
      BY <2>1, <1>1, <1>8
    <2>3. PICK j \in i .. Len(p) : Updates(p[j], p[i - 1].field, p[i - 1].key)
      BY <2>2 DEF Shape, SetsAndUpdates
    <2>4. j \in 2..Len(p) /\ j + 1 \in i + 1 .. Len(q)
      BY <2>1, <2>3, <1>1, <1>8
    <2>5. q[j + 1] = p[j]
      BY <2>4, <1>8
    <2> QED BY <2>2, <2>3, <2>4, <2>5
  <1>17. NoSetAfter(q)
    <2> SUFFICES ASSUME NEW i \in 1..Len(q), NEW j \in 1..Len(q), q[j].do = "HSET"
                 PROVE  /\ q[i].do = "ZADD" => q[i].set # q[j].field
                        /\ q[i].do = "update" /\ i < j => q[i].set # q[j].field
      BY DEF NoSetAfter
    <2>1. j \in 3..Len(q) /\ j - 1 \in 1..Len(p) /\ 1 < j - 1 /\ q[j] = p[j - 1]
      BY <1>1, <1>5, <1>8, <1>9
    <2>2. s # q[j].field
      BY <2>1, <1>1 DEF Shape, NoSetAfter, s
    <2>3. ASSUME i \in 3..Len(q)
          PROVE  /\ q[i].do = "ZADD" => q[i].set # q[j].field
                 /\ q[i].do = "update" /\ i < j => q[i].set # q[j].field
      <3>1. i - 1 \in 1..Len(p) /\ q[i] = p[i - 1] /\ (i < j => i - 1 < j - 1)
        BY <2>1, <2>3, <1>1, <1>8
      <3> QED BY <2>1, <3>1 DEF Shape, NoSetAfter
    <2> QED BY <2>2, <2>3, <1>5, <1>8, <1>9
  <1>18. \A i \in 1..Len(q) :
             q[i].do \notin {"old", "RENAME", "new", "HMSET", "gone", "DEL", "HGET"}
    BY <1>5, <1>8, <1>9, <1>11
  <1>19. WritesAndAdds(q) /\ Deletion(q) /\ Renaming(q)
    BY <1>18 DEF WritesAndAdds, Deletion, Renaming
  <1>20. Shape(q, ks)
    BY <1>8, <1>12, <1>13, <1>14, <1>15, <1>16, <1>17, <1>19 DEF Shape
  <1>21. UpdateGoesOn(q, p, ks, fd)
    BY <1>5, <1>8, <1>20 DEF UpdateGoesOn, k, s
  <1> QED BY <1>21 DEF q

\* IN_DELETE, once it has read the hash.
LEMMA GoneShape ==
    ASSUME NEW p, NEW ks, Shape(p, ks), p # <<>>, p[1].do = "gone"
    PROVE  LET q == DeleteFileFromAllSets(p[1].key) \o Tail(p) IN
           /\ Shape(q, ks) /\ Len(q) = 5
           /\ \A i \in 1..4 : q[i].do = "ZREM" /\ q[i].key = p[1].key
           /\ \A s \in Sets : \E i \in 1..4 : q[i].set = s
           /\ q[5].do = "DEL" /\ q[5].key = p[1].key
           /\ Len(p) = 2 /\ p[2].do = "DEL" /\ p[2].key = p[1].key
  <1> DEFINE k == p[1].key
             a == DeleteFileFromAllSets(k)
             r == Tail(p)
             q == a \o r
  <1>1. /\ p \in Seq(Commands) /\ Len(p) \in Nat /\ 1 \in 1..Len(p)
        /\ k \in ks /\ k \in Keys
        /\ r \in Seq(Commands) /\ Len(r) = Len(p) - 1
        /\ \A i \in 1..Len(r) : i + 1 \in 1..Len(p) /\ r[i] = p[i + 1]
    BY First
  <1> HIDE DEF r
  <1>2. Len(p) = 2 /\ p[2].do = "DEL"
    BY <1>1 DEF Shape, Deletion
  <1>3. ks = {k}
    <2>1. \E m \in Keys : ks = {m}
      BY <1>1 DEF Shape, Kinds, OfRename
    <2> QED BY <1>1, <2>1
  <1>4. p[2].key = k /\ p[2] \in Commands
    <2>1. 2 \in 1..Len(p)
      BY <1>2
    <2>2. p[2] \in Commands
      BY <1>1, <2>1
    <2>3. p[2].key \in Keys /\ p[2].key \in ks \cup {NoKey}
      BY <1>2, <2>1, <2>2, Fields DEF Shape, About
    <2> QED BY <1>3, <2>2, <2>3, StoreAssumption
  <1>5. r \in Seq(Commands) /\ Len(r) = 1 /\ r[1] = p[2]
    <2>1. Len(r) = 1 /\ 1 \in 1..Len(r) /\ 1 + 1 = 2
      BY <1>1, <1>2
    <2> QED BY <1>1, <2>1
  <1>6. /\ a \in Seq(Commands) /\ Len(a) = 4
        /\ \A i \in 1..4 : a[i].do = "ZREM" /\ a[i].key = k /\ a[i].set \in Sets
        /\ \A s \in Sets : \E i \in 1..4 : a[i].set = s
    BY <1>1, RemovesAll
  <1> HIDE DEF a, k
  <1>7. /\ q \in Seq(Commands) /\ Len(q) = 5 /\ q[5] = p[2]
        /\ \A i \in 1..4 : q[i] = a[i]
    <2>1. /\ q \in Seq(Commands) /\ Len(q) = Len(a) + Len(r)
          /\ \A i \in 1..Len(a) : q[i] = a[i]
          /\ \A i \in 1..Len(r) : q[Len(a) + i] = r[i]
      <3>1. /\ a \o r \in Seq(Commands) /\ Len(a \o r) = Len(a) + Len(r)
            /\ \A i \in 1..Len(a) : (a \o r)[i] = a[i]
            /\ \A i \in 1..Len(r) : (a \o r)[Len(a) + i] = r[i]
        BY <1>5, <1>6, Joined, ZenonT(40)
      <3> QED BY <3>1
    <2> HIDE DEF q
    <2>2. Len(q) = 5 /\ \A i \in 1..4 : q[i] = a[i]
      BY <2>1, <1>5, <1>6
    <2>3. q[Len(a) + 1] = r[1] /\ Len(a) + 1 = 5
      BY <2>1, <1>5, <1>6
    <2> QED BY <2>1, <2>2, <2>3, <1>5
  <1> HIDE DEF q
  <1>8. \A i \in 1..Len(q) : i \in 1..4 \/ i = 5
    BY <1>7
  <1>9. /\ \A i \in 1..4 : q[i].do = "ZREM" /\ q[i].key = k /\ q[i].set \in Sets
        /\ q[5].do = "DEL" /\ q[5].key = k
    BY <1>2, <1>4, <1>6, <1>7
  <1>10. Typed(q) /\ About(q, ks) /\ Kinds(q, ks)
    BY <1>1, <1>3, <1>8, <1>9 DEF Typed, About, Kinds
  <1>11. RemovesAndAdds(q)
    <2> SUFFICES ASSUME NEW i \in 1..Len(q), q[i].do = "ZREM"
                 PROVE  \E j \in i + 1 .. Len(q) : \/ Adds(q[j], q[i].set, q[i].key)
                                                   \/ Deletes(q[j], q[i].key)
      BY DEF RemovesAndAdds
    <2>1. i \in 1..4
      BY <1>8, <1>9
    <2>2. 5 \in i + 1 .. Len(q) /\ Deletes(q[5], q[i].key)
      BY <2>1, <1>7, <1>9 DEF Deletes
    <2> QED BY <2>2
  <1>12. SetsAndUpdates(q) /\ NoSetAfter(q) /\ WritesAndAdds(q) /\ Renaming(q)
    BY <1>8, <1>9 DEF SetsAndUpdates, NoSetAfter, WritesAndAdds, Renaming
  <1>13. Deletion(q)
    <2>1. \A i \in 1..Len(q) : q[i].do # "gone"
      BY <1>8, <1>9
    <2>2. ASSUME NEW i \in 1..Len(q), q[i].do = "DEL"
          PROVE  i = Len(q) /\ \A j \in 1 .. i - 1 : q[j].do \in {"gone", "ZREM"}
      <3>1. i = 5
        BY <2>2, <1>8, <1>9
      <3>2. \A j \in 1 .. i - 1 : j \in 1..4
        BY <3>1
      <3> QED BY <3>1, <3>2, <1>7, <1>9
    <2> QED BY <2>1, <2>2 DEF Deletion
  <1>14. Shape(q, ks)
    BY <1>7, <1>10, <1>11, <1>12, <1>13 DEF Shape
  <1>15. \A s \in Sets : \E i \in 1..4 : q[i].set = s
    BY <1>6, <1>7
  <1> QED BY <1>2, <1>4, <1>7, <1>9, <1>14, <1>15 DEF q, r, a, k

\* A call for two keys is a rename of the one to the other.
LEMMA OfTwo ==
    ASSUME NEW p, NEW ks, Shape(p, ks), p # <<>>, NEW i \in 1..Len(p),
           p[i].do \in {"old", "RENAME", "new"}
    PROVE  /\ \E k, l \in Keys : k # l /\ ks = {k, l}
           /\ ~ \E k \in Keys : ks = {k}
  <1>1. \E k, l \in Keys : k # l /\ ks = {k, l}
    BY DEF Shape, Kinds
  <1>2. PICK k, l \in Keys : k # l /\ ks = {k, l}
    BY <1>1
  <1>3. ASSUME NEW m \in Keys, ks = {m} PROVE FALSE
    <2>1. k \in ks /\ l \in ks
      BY <1>2
    <2>2. k = m /\ l = m
      BY <1>3, <2>1
    <2> QED BY <1>2, <2>2
  <1> QED BY <1>1, <1>3

OldGoesOn(q, p, ks, oldKey) ==
    /\ Shape(q, ks) /\ Len(q) = 2
    /\ q[1].do = "RENAME" /\ q[1].key = p[1].key /\ q[1].to = p[1].to
    /\ q[2].do = "new" /\ q[2].key = p[1].to /\ q[2].old = oldKey
    /\ Len(p) = 1

LEMMA OldShape ==
    ASSUME NEW p, NEW ks, Shape(p, ks), p # <<>>, p[1].do = "old",
           NEW oldKey \in {p[1].key, NoKey}
    PROVE  OldGoesOn(RenameFrom(p[1].key, p[1].to, oldKey), p, ks, oldKey)
  <1> DEFINE k == p[1].key
             l == p[1].to
             x == [do |-> "RENAME", key |-> k, to |-> l]
             y == [do |-> "new", key |-> l, old |-> oldKey]
             q == <<x, y>>
  <1>1. /\ p \in Seq(Commands) /\ 1 \in 1..Len(p) /\ p[1] \in Commands
        /\ k \in ks /\ k \in Keys
    BY First
  <1>2. Len(p) = 1 /\ k # l /\ l \in ks
    BY <1>1 DEF Shape, Renaming, About
  <1>3. l \in Keys
    BY <1>1, Fields
  <1>4. /\ \E m, n \in Keys : m # n /\ ks = {m, n}
        /\ ~ \E m \in Keys : ks = {m}
    BY <1>1, OfTwo
  <1>5. oldKey \in {k, NoKey}
    OBVIOUS
  <1>6. RenameFrom(p[1].key, p[1].to, oldKey) = q
    BY DEF RenameFrom
  <1> HIDE DEF k, l
  <1>7. x \in Commands /\ y \in Commands
    BY <1>1, <1>3, <1>5 DEF Commands
  <1>8. /\ x.do = "RENAME" /\ x.key = k /\ x.to = l
        /\ y.do = "new" /\ y.key = l /\ y.old = oldKey
    OBVIOUS
  <1> HIDE DEF x, y
  <1>9. q \in Seq(Commands) /\ Len(q) = 2 /\ q[1] = x /\ q[2] = y
    BY <1>7
  <1> HIDE DEF q
  <1>10. \A i \in 1..Len(q) : i = 1 \/ i = 2
    BY <1>9
  <1>11. Typed(q) /\ About(q, ks)
    BY <1>1, <1>2, <1>5, <1>8, <1>9, <1>10 DEF Typed, About
  <1>12. Kinds(q, ks)
    <2>1. \A i \in 1..Len(q) : q[i].do \in OfRename
      BY <1>8, <1>9, <1>10 DEF OfRename
    <2> QED BY <2>1, <1>4 DEF Kinds
  <1>13. SetsAndUpdates(q) /\ NoSetAfter(q) /\ WritesAndAdds(q) /\ Deletion(q)
    BY <1>8, <1>9, <1>10 DEF SetsAndUpdates, NoSetAfter, WritesAndAdds, Deletion
  <1>14. Renaming(q)
    <2>1. l # oldKey
      BY <1>2, <1>3, <1>5, StoreAssumption
    <2> QED BY <2>1, <1>2, <1>5, <1>8, <1>9, <1>10 DEF Renaming
  <1>15. Shape(q, ks)
    BY <1>4, <1>9, <1>11, <1>12, <1>13, <1>14 DEF Shape
  <1>16. OldGoesOn(q, p, ks, oldKey)
    BY <1>2, <1>8, <1>9, <1>15 DEF OldGoesOn, k, l
  <1> QED BY <1>6, <1>16

\* Redis_RENAME after the rename, when the new name has a hash, and when it has none.
AfterNew(p, fd) == DeleteFileFromAllSets(p[1].old) \o AddFileToAllSets(p[1].key, fd)
RenameGoesOn(q, p, ks, fd) ==
    /\ Shape(q, ks) /\ Len(q) = 8
    /\ \A i \in 1..4 : q[i].do = "ZREM" /\ q[i].key = p[1].old
    /\ \A i \in 5..8 : /\ q[i].do = "ZADD" /\ q[i].key = p[1].key
                       /\ q[i].set \in Sets /\ q[i].score = fd[q[i].set]
    /\ \A s \in Sets : \E i \in 1..4 : q[i].set = s
    /\ \A s \in Sets : \E i \in 5..8 : q[i].set = s

LEMMA NewShape ==
    ASSUME NEW p, NEW ks, Shape(p, ks), p # <<>>, p[1].do = "new"
    PROVE  /\ Len(p) = 1
           /\ LET q == DeleteFileFromAllSets(p[1].old) IN
              /\ Shape(q, ks) /\ Len(q) = 4
              /\ \A i \in 1..4 : q[i].do = "ZREM" /\ q[i].key = p[1].old
              /\ \A s \in Sets : \E i \in 1..4 : q[i].set = s
           /\ \A fd \in FileData : RenameGoesOn(AfterNew(p, fd), p, ks, fd)
  <1> DEFINE l == p[1].key
             k == p[1].old
             a == DeleteFileFromAllSets(k)
  <1>1. /\ p \in Seq(Commands) /\ 1 \in 1..Len(p) /\ p[1] \in Commands
        /\ l \in ks /\ l \in Keys
    BY First
  <1>2. Len(p) = 1 /\ k \in ks \cup {NoKey}
    BY <1>1 DEF Shape, Renaming, About
  <1>3. k \in Keys \cup {NoKey}
    BY <1>1, Fields
  <1>4. /\ \E m, n \in Keys : m # n /\ ks = {m, n}
        /\ ~ \E m \in Keys : ks = {m}
    BY <1>1, OfTwo
  <1>5. /\ a \in Seq(Commands) /\ Len(a) = 4
        /\ \A i \in 1..4 : a[i].do = "ZREM" /\ a[i].key = k /\ a[i].set \in Sets
        /\ \A s \in Sets : \E i \in 1..4 : a[i].set = s
    BY <1>3, RemovesAll
  <1> HIDE DEF k, l, a
  <1>6. Shape(a, ks)
    <2>1. Typed(a) /\ About(a, ks)
      BY <1>2, <1>5 DEF Typed, About
    <2>2. Kinds(a, ks)
      <3>1. \A i \in 1..Len(a) : a[i].do \in OfRename
        BY <1>5 DEF OfRename
      <3> QED BY <3>1, <1>4 DEF Kinds
    <2>3. /\ SetsAndUpdates(a) /\ NoSetAfter(a) /\ WritesAndAdds(a)
          /\ Deletion(a) /\ Renaming(a)
      BY <1>5 DEF SetsAndUpdates, NoSetAfter, WritesAndAdds, Deletion, Renaming
    <2> QED BY <1>4, <1>5, <2>1, <2>2, <2>3 DEF Shape
  <1>7. ASSUME NEW fd \in FileData
        PROVE  LET q == a \o AddFileToAllSets(l, fd) IN
               /\ Shape(q, ks) /\ Len(q) = 8
               /\ \A i \in 1..4 : q[i].do = "ZREM" /\ q[i].key = k
               /\ \A i \in 5..8 : /\ q[i].do = "ZADD" /\ q[i].key = l
                                  /\ q[i].set \in Sets /\ q[i].score = fd[q[i].set]
               /\ \A s \in Sets : \E i \in 1..4 : q[i].set = s
               /\ \A s \in Sets : \E i \in 5..8 : q[i].set = s
    <2> DEFINE b == AddFileToAllSets(l, fd)
               q == a \o b
    <2>1. /\ b \in Seq(Commands) /\ Len(b) = 4
          /\ \A i \in 1..4 : /\ b[i].do = "ZADD" /\ b[i].key = l /\ b[i].set \in Sets
                             /\ b[i].score = fd[b[i].set]
          /\ \A s \in Sets : \E i \in 1..4 : b[i].set = s
      BY <1>1, AddsAll DEF l
    <2> HIDE DEF b
    <2>2. /\ q \in Seq(Commands) /\ Len(q) = Len(a) + Len(b)
          /\ \A i \in 1..Len(a) : q[i] = a[i]
          /\ \A i \in 1..Len(b) : q[Len(a) + i] = b[i]
      <3>1. a \in Seq(Commands) /\ b \in Seq(Commands)
        BY <1>5, <2>1
      <3> QED BY <3>1, Joined
    <2> HIDE DEF q
    <2>3. /\ Len(q) = 8 /\ \A i \in 1..4 : q[i] = a[i]
          /\ \A i \in 1..4 : q[4 + i] = b[i]
      BY <2>2, <1>5, <2>1
    <2>4. /\ \A i \in 5..8 : i - 4 \in 1..4 /\ 4 + (i - 4) = i
          /\ \A i \in 1..4 : 4 + i \in 5..8
          /\ \A i \in 1..Len(q) : i \in 1..4 \/ i \in 5..8
      BY <2>3
    <2>5. \A i \in 5..8 : q[i] = b[i - 4]
      BY <2>3, <2>4
    <2>6. \A i \in 1..4 : q[i].do = "ZREM" /\ q[i].key = k /\ q[i].set \in Sets
      BY <1>5, <2>3
    <2>7. \A i \in 5..8 : /\ q[i].do = "ZADD" /\ q[i].key = l
                          /\ q[i].set \in Sets /\ q[i].score = fd[q[i].set]
      BY <2>1, <2>4, <2>5
    <2>8. \A s \in Sets : \E i \in 1..4 : q[i].set = s
      BY <1>5, <2>3
    <2>9. \A s \in Sets : \E i \in 5..8 : q[i].set = s
      <3> TAKE s \in Sets
      <3>1. PICK i \in 1..4 : b[i].set = s
        BY <2>1
      <3> QED BY <3>1, <2>3, <2>4
    <2>10. Typed(q)
      BY <2>4, <2>6, <2>7, FieldsOfData DEF Typed
    <2>11. About(q, ks)
      BY <1>1, <1>2, <2>4, <2>6, <2>7 DEF About, l
    <2>12. Kinds(q, ks)
      <3>1. \A i \in 1..Len(q) : q[i].do \in OfRename
        BY <2>4, <2>6, <2>7 DEF OfRename
      <3> QED BY <3>1, <1>4 DEF Kinds
    <2>13. /\ SetsAndUpdates(q) /\ NoSetAfter(q) /\ WritesAndAdds(q)
           /\ Deletion(q) /\ Renaming(q)
      BY <2>4, <2>6, <2>7 DEF SetsAndUpdates, NoSetAfter, WritesAndAdds, Deletion, Renaming
    <2>14. Shape(q, ks)
      BY <1>4, <2>2, <2>10, <2>11, <2>12, <2>13 DEF Shape
    <2> QED BY <2>3, <2>6, <2>7, <2>8, <2>9, <2>14 DEF q, b
  <1>8. ASSUME NEW fd \in FileData PROVE RenameGoesOn(AfterNew(p, fd), p, ks, fd)
    BY <1>7 DEF RenameGoesOn, AfterNew, a, k, l
  <1> QED BY <1>2, <1>5, <1>6, <1>8 DEF a, k

-----------------------------------------------------------------------------
(***************************************************************************)
(* Types, programs and overlaps.                                           *)
(***************************************************************************)

\* A process that has something to send is in a call.
LEMMA InCall ==
    ASSUME CallsInv, NEW c \in Clients, prog[c] # <<>>
    PROVE  /\ on[c] # {} /\ on[c] \subseteq Keys /\ Shape(prog[c], on[c])
           /\ query[c] = None
  BY DEF CallsInv, StoreTypes, TypeOK, Shapes

LEMMA Continued ==
    ASSUME CallsInv, NEW c \in Clients, prog[c] # <<>>,
           NEW p, p = <<>> \/ Shape(p, on[c]), Continue(c, p),
           hash' \in [Keys -> Entries],
           index' \in [Sets -> [Keys -> Int \cup {Out}]],
           \A s \in Sets : index'[s] \in [Keys -> Atomic!Values[s] \cup {Out}]
    PROVE  CallsInv'
  <1>1. /\ prog' = [prog EXCEPT ![c] = p] /\ query' = query /\ touched' = touched
        /\ prog \in [Clients -> Seq(Commands)] /\ on \in [Clients -> SUBSET Keys]
        /\ known \in [Keys -> Entries \cup {Unknown}]
        /\ on[c] # {} /\ on[c] \subseteq Keys /\ query[c] = None
    BY InCall DEF Continue, CallsInv, StoreTypes, TypeOK
  <1>2. p \in Seq(Commands)
    <2>1. <<>> \in Seq(Commands)
      OBVIOUS
    <2> QED BY <2>1 DEF Shape
  <1>3. prog' \in [Clients -> Seq(Commands)] /\ prog'[c] = p
        /\ \A d \in Clients \ {c} : prog'[d] = prog[d]
    BY <1>1, <1>2
  <1>4. CASE p # <<>>
    <2>1. UNCHANGED <<on, overlapped, known, strayed>>
      BY <1>4 DEF Continue
    <2>2. Shapes' /\ Overlaps'
      BY <1>1, <1>3, <1>4, <2>1 DEF CallsInv, Shapes, Overlaps
    <2>3. TypeOK'
      BY <1>1, <1>3, <1>4, <2>1 DEF CallsInv, StoreTypes, TypeOK
    <2> QED BY <1>1, <1>3, <2>1, <2>2, <2>3 DEF CallsInv, StoreTypes
  <1>5. CASE p = <<>>
    <2>1. /\ on' = [on EXCEPT ![c] = {}] /\ overlapped' = overlapped \ {c}
          /\ known' = IF \E k \in on[c] : known[k] = Unknown THEN Forget(on[c])
                      ELSE [k \in Keys |-> IF k \in on[c] THEN hash'[k] ELSE known[k]]
          /\ strayed' = IF c \in overlapped /\ Cardinality(on[c]) = 2
                        THEN strayed \cup on[c] ELSE strayed
      BY <1>5 DEF Continue
    <2>2. on' \in [Clients -> SUBSET Keys] /\ on'[c] = {}
          /\ \A d \in Clients \ {c} : on'[d] = on[d]
      BY <1>1, <2>1
    <2>3. known' \in [Keys -> Entries \cup {Unknown}]
      BY <1>1, <2>1 DEF Forget
    <2>4. \A k \in Keys : known[k] = Unknown => known'[k] = Unknown
      BY <1>1, <2>1 DEF Forget
    <2>5. c \in overlapped => \A k \in on[c] : known'[k] = Unknown
      BY <1>1, <2>4 DEF CallsInv, Overlaps
    <2>6. Shapes'
      BY <1>1, <1>3, <1>5, <2>2 DEF CallsInv, Shapes
    <2>7. Overlaps'
      BY <1>1, <2>1, <2>2, <2>4 DEF CallsInv, StoreTypes, TypeOK, Overlaps
    <2>8. TypeOK'
      <3>1. \A d \in Clients : (on'[d] = {}) = (prog'[d] = <<>>)
        <4>1. \A d \in Clients : (on[d] = {}) = (prog[d] = <<>>)
          BY DEF CallsInv, StoreTypes, TypeOK
        <4>2. on'[c] = {} /\ prog'[c] = <<>>
          BY <1>3, <1>5, <2>2
        <4>3. \A d \in Clients \ {c} : on'[d] = on[d] /\ prog'[d] = prog[d]
          BY <1>3, <2>2
        <4> QED BY <4>1, <4>2, <4>3
      <3>2. overlapped' \subseteq {d \in Clients : on'[d] # {}}
        BY <2>1, <2>2 DEF CallsInv, StoreTypes, TypeOK
      <3>3. \A k \in strayed' : k \in Keys /\ known'[k] = Unknown
        BY <1>1, <2>1, <2>4, <2>5 DEF CallsInv, StoreTypes, TypeOK
      <3>4. \A d \in Clients : query'[d] # None => prog'[d] = <<>>
        BY <1>1, <1>3 DEF CallsInv, StoreTypes, TypeOK
      <3> QED BY <2>2, <2>3, <3>1, <3>2, <3>3, <3>4 DEF TypeOK
    <2> QED BY <1>1, <1>3, <2>6, <2>7, <2>8 DEF CallsInv, StoreTypes
  <1> QED BY <1>4, <1>5

LEMMA Aborted ==
    ASSUME CallsInv, NEW c \in Clients, Abort(c)
    PROVE  CallsInv'
  <1>1. /\ prog' = [prog EXCEPT ![c] = <<>>] /\ on' = [on EXCEPT ![c] = {}]
        /\ query' = [query EXCEPT ![c] = None] /\ touched' = [touched EXCEPT ![c] = {}]
        /\ overlapped' = overlapped \ {c} /\ known' = Forget(on[c])
        /\ strayed' = strayed \cup on[c] /\ hash' = hash /\ index' = index
    BY DEF Abort, redis
  <1>2. /\ prog \in [Clients -> Seq(Commands)] /\ on \in [Clients -> SUBSET Keys]
        /\ known \in [Keys -> Entries \cup {Unknown}] /\ on[c] \subseteq Keys
    BY DEF CallsInv, StoreTypes, TypeOK
  <1>3. /\ prog' \in [Clients -> Seq(Commands)] /\ prog'[c] = <<>>
        /\ \A d \in Clients \ {c} : prog'[d] = prog[d]
        /\ on' \in [Clients -> SUBSET Keys] /\ on'[c] = {}
        /\ \A d \in Clients \ {c} : on'[d] = on[d]
    BY <1>1, <1>2
  <1>4. /\ known' \in [Keys -> Entries \cup {Unknown}]
        /\ \A k \in Keys : known[k] = Unknown => known'[k] = Unknown
        /\ \A k \in on[c] : known'[k] = Unknown
    BY <1>1, <1>2 DEF Forget
  <1>5. Shapes'
    BY <1>3 DEF CallsInv, Shapes
  <1>6. Overlaps'
    BY <1>1, <1>2, <1>3, <1>4 DEF CallsInv, StoreTypes, TypeOK, Overlaps
  <1>7. TypeOK'
    <2>1. \A d \in Clients : (on'[d] = {}) = (prog'[d] = <<>>)
      BY <1>3 DEF CallsInv, StoreTypes, TypeOK
    <2>2. overlapped' \subseteq {d \in Clients : on'[d] # {}}
      BY <1>1, <1>3 DEF CallsInv, StoreTypes, TypeOK
    <2>3. \A k \in strayed' : k \in Keys /\ known'[k] = Unknown
      BY <1>1, <1>2, <1>4 DEF CallsInv, StoreTypes, TypeOK
    <2>4. \A d \in Clients : query'[d] # None => prog'[d] = <<>>
      BY <1>1, <1>3 DEF CallsInv, StoreTypes, TypeOK
    <2> QED BY <1>1, <1>3, <1>4, <2>1, <2>2, <2>3, <2>4 DEF CallsInv, StoreTypes, TypeOK
  <1>8. query' = [d \in Clients |-> query'[d]] /\ touched' \in [Clients -> SUBSET Keys]
    BY <1>1 DEF CallsInv, StoreTypes
  <1> QED BY <1>1, <1>3, <1>5, <1>6, <1>7, <1>8 DEF CallsInv, StoreTypes

LEMMA Called ==
    ASSUME CallsInv, NEW c \in Clients, NEW ks \in SUBSET Keys, ks # {},
           NEW p, Opening(p, ks), Call(c, ks, p)
    PROVE  CallsInv'
  <1> DEFINE met == {d \in Clients : on[d] \cap ks # {}}
  <1>1. /\ prog' = [prog EXCEPT ![c] = p] /\ on' = [on EXCEPT ![c] = ks]
        /\ query' = query /\ hash' = hash /\ index' = index /\ strayed' = strayed
        /\ touched' = [d \in Clients |-> IF query[d] = None THEN {} ELSE touched[d] \cup ks]
        /\ prog[c] = <<>> /\ query[c] = None
        /\ IF met = {} THEN overlapped' = overlapped /\ known' = known
           ELSE /\ overlapped' = overlapped \cup met \cup {c}
                /\ known' = Forget(ks \cup UNION {on[d] : d \in met})
    BY DEF Call, Idle, redis
  <1>2. /\ prog \in [Clients -> Seq(Commands)] /\ on \in [Clients -> SUBSET Keys]
        /\ known \in [Keys -> Entries \cup {Unknown}] /\ on[c] = {}
        /\ overlapped \subseteq {d \in Clients : on[d] # {}} /\ p \in Seq(Commands)
        /\ p # <<>>
    BY <1>1 DEF CallsInv, StoreTypes, TypeOK, Shape, Opening
  <1>3. /\ prog' \in [Clients -> Seq(Commands)] /\ prog'[c] = p
        /\ \A d \in Clients \ {c} : prog'[d] = prog[d]
        /\ on' \in [Clients -> SUBSET Keys] /\ on'[c] = ks
        /\ \A d \in Clients \ {c} : on'[d] = on[d]
    BY <1>1, <1>2
  <1>4. /\ known' \in [Keys -> Entries \cup {Unknown}]
        /\ \A k \in Keys : known[k] = Unknown => known'[k] = Unknown
    BY <1>1, <1>2 DEF Forget
  <1>5. Shapes'
    BY <1>3 DEF CallsInv, Shapes, Opening
  <1>6. Overlaps'
    <2>1. ASSUME NEW d \in Clients, NEW e \in Clients, d # e, on'[d] \cap on'[e] # {}
          PROVE  {d, e} \subseteq overlapped'
      <3>1. CASE d # c /\ e # c
        <4>1. on[d] \cap on[e] # {}
          BY <1>3, <2>1, <3>1
        <4>2. {d, e} \subseteq overlapped
          BY <4>1, <2>1 DEF CallsInv, Overlaps
        <4> QED BY <1>1, <4>2
      <3>2. CASE d = c \/ e = c
        <4>1. \E m \in met : {d, e} = {m, c}
          <5>1. CASE d = c
            BY <1>3, <2>1, <5>1
          <5>2. CASE e = c
            BY <1>3, <2>1, <5>2
          <5> QED BY <5>1, <5>2, <3>2
        <4> QED BY <1>1, <4>1
      <3> QED BY <3>1, <3>2
    <2>2. ASSUME NEW d \in overlapped', NEW k \in on'[d]
          PROVE  known'[k] = Unknown
      <3>1. d \in Clients /\ k \in Keys
        BY <1>1, <1>2, <1>3, <2>2
      <3>2. CASE d \in overlapped
        <4>1. d # c
          BY <1>2, <3>2
        <4>2. known[k] = Unknown
          BY <1>3, <2>2, <3>1, <3>2, <4>1 DEF CallsInv, Overlaps
        <4> QED BY <1>4, <3>1, <4>2
      <3>3. CASE d \notin overlapped
        <4>1. met # {} /\ d \in met \cup {c}
          BY <1>1, <2>2, <3>3
        <4>2. k \in ks \cup UNION {on[m] : m \in met}
          <5>1. CASE d = c
            BY <1>3, <2>2, <5>1
          <5>2. CASE d # c
            BY <1>3, <2>2, <4>1, <5>2
          <5> QED BY <5>1, <5>2
        <4> QED BY <1>1, <3>1, <4>1, <4>2 DEF Forget
      <3> QED BY <3>2, <3>3
    <2> QED BY <2>1, <2>2 DEF Overlaps
  <1>7. TypeOK'
    <2>1. \A d \in Clients : (on'[d] = {}) = (prog'[d] = <<>>)
      <3>1. \A d \in Clients : (on[d] = {}) = (prog[d] = <<>>)
        BY DEF CallsInv, StoreTypes, TypeOK
      <3>2. (on'[c] = {}) = (prog'[c] = <<>>)
        BY <1>3 DEF Opening
      <3> QED BY <1>3, <3>1, <3>2
    <2>2. overlapped' \subseteq {d \in Clients : on'[d] # {}}
      <3>1. \A d \in met : d \in Clients /\ on[d] # {} /\ d # c
        BY <1>2
      <3> QED BY <1>1, <1>2, <1>3, <3>1
    <2>3. \A k \in strayed' : k \in Keys /\ known'[k] = Unknown
      BY <1>1, <1>4 DEF CallsInv, StoreTypes, TypeOK
    <2>4. \A d \in Clients : query'[d] # None => prog'[d] = <<>>
      BY <1>1, <1>3 DEF CallsInv, StoreTypes, TypeOK
    <2> QED BY <1>1, <1>3, <1>4, <2>1, <2>2, <2>3, <2>4 DEF CallsInv, StoreTypes, TypeOK
  <1>8. query' = [d \in Clients |-> query'[d]] /\ touched' \in [Clients -> SUBSET Keys]
    BY <1>1 DEF CallsInv, StoreTypes
  <1> QED BY <1>1, <1>3, <1>5, <1>6, <1>7, <1>8 DEF CallsInv, StoreTypes

\* The command that c sends next.
LEMMA Sent ==
    ASSUME CallsInv, NEW c \in Clients, prog[c] # <<>>
    PROVE  /\ Head(prog[c]) = prog[c][1] /\ prog[c][1] \in Commands
           /\ Shape(prog[c], on[c]) /\ prog[c] \in Seq(Commands)
           /\ prog[c][1].do # "ZREM" => prog[c][1].key \in on[c] /\ prog[c][1].key \in Keys
           /\ 1 \in 1..Len(prog[c])
           /\ Tail(prog[c]) = <<>> \/ Shape(Tail(prog[c]), on[c])
           /\ hash \in [Keys -> Entries] /\ known \in [Keys -> Entries \cup {Unknown}]
           /\ index \in [Sets -> [Keys -> Int \cup {Out}]]
           /\ \A s \in Sets : index[s] \in [Keys -> Atomic!Values[s] \cup {Out}]
  <1>1. Shape(prog[c], on[c])
    BY InCall
  <1>2. /\ hash \in [Keys -> Entries] /\ known \in [Keys -> Entries \cup {Unknown}]
        /\ index \in [Sets -> [Keys -> Int \cup {Out}]]
        /\ \A s \in Sets : index[s] \in [Keys -> Atomic!Values[s] \cup {Out}]
    BY DEF CallsInv, StoreTypes, TypeOK
  <1> QED BY <1>1, <1>2, First, TailShape

LEMMA BeginCalls ==
    ASSUME CallsInv, NEW c \in Clients, Begin(c)
    PROVE  CallsInv'
  <1>1. PICK k \in Keys, t \in Times :
        \/ \E n \in Sizes : Call(c, {k}, SetFileSize(k, n, t))
        \/ \E flag \in {0, 1} : Call(c, {k}, SetIsLocal(k, flag))
        \/ Call(c, {k}, SetIsOpen(k))
        \/ Call(c, {k}, SetOther(k, t))
        \/ Call(c, {k}, UpdateLastTimeModified(k, t))
        \/ Call(c, {k}, IncrementTimesAccessed(k, t))
        \/ \E fd \in Written : Call(c, {k}, HMSET(k, fd))
        \/ Call(c, {k}, DeleteFile(k))
        \/ \E l \in Keys \ {k} : Call(c, {k, l}, RENAME(k, l))
    BY DEF Begin
  <1>2. {k} \in SUBSET Keys /\ {k} # {}
    OBVIOUS
  <1>3. ASSUME NEW n \in Sizes, Call(c, {k}, SetFileSize(k, n, t)) PROVE CallsInv'
    BY <1>2, <1>3, Called, TouchShape
  <1>4. ASSUME NEW flag \in {0, 1}, Call(c, {k}, SetIsLocal(k, flag)) PROVE CallsInv'
    BY <1>2, <1>4, Called, CallShape
  <1>5. ASSUME Call(c, {k}, SetIsOpen(k)) PROVE CallsInv'
    BY <1>2, <1>5, Called, CallShape
  <1>6. ASSUME Call(c, {k}, SetOther(k, t)) PROVE CallsInv'
    BY <1>2, <1>6, Called, TouchShape
  <1>7. ASSUME Call(c, {k}, UpdateLastTimeModified(k, t)) PROVE CallsInv'
    BY <1>2, <1>7, Called, TouchShape
  <1>8. ASSUME Call(c, {k}, IncrementTimesAccessed(k, t)) PROVE CallsInv'
    BY <1>2, <1>8, Called, CallShape
  <1>9. ASSUME NEW fd \in Written, Call(c, {k}, HMSET(k, fd)) PROVE CallsInv'
    BY <1>2, <1>9, Called, HMSETShape
  <1>10. ASSUME Call(c, {k}, DeleteFile(k)) PROVE CallsInv'
    BY <1>2, <1>10, Called, CallShape
  <1>11. ASSUME NEW l \in Keys \ {k}, Call(c, {k, l}, RENAME(k, l)) PROVE CallsInv'
    <2>1. {k, l} \in SUBSET Keys /\ {k, l} # {}
      OBVIOUS
    <2> QED BY <2>1, <1>11, Called, CallShape
  <1> QED BY <1>1, <1>3, <1>4, <1>5, <1>6, <1>7, <1>8, <1>9, <1>10, <1>11

LEMMA HSETCalls ==
    ASSUME CallsInv, NEW c \in Clients, SendHSET(c)
    PROVE  CallsInv'
  <1> DEFINE x == prog[c][1]
  <1>1. prog[c] # <<>> /\ x.do = "HSET" /\ Continue(c, Tail(prog[c])) /\ index' = index
    BY Sent DEF SendHSET, Sends
  <1>2. /\ Shape(prog[c], on[c]) /\ x \in Commands /\ x.key \in Keys /\ 1 \in 1..Len(prog[c])
        /\ hash \in [Keys -> Entries] /\ Head(prog[c]) = x
    BY <1>1, Sent
  <1>3. x.field \in Sets => x.value \in Atomic!Values[x.field]
    BY <1>1, <1>2 DEF Shape, Typed
  <1>4. ASSUME hash[x.key] \in FileData, x.field \in Sets
        PROVE  [hash[x.key] EXCEPT ![x.field] = x.value] \in FileData
    BY <1>3, <1>4, WithField
  <1>5. hash' = [hash EXCEPT ![x.key] =
                    IF @ \in {Missing, Ghost} THEN Ghost
                    ELSE IF x.field \in Sets THEN [@ EXCEPT ![x.field] = x.value]
                    ELSE @]
    BY <1>2 DEF SendHSET
  <1>6. hash' \in [Keys -> Entries]
    BY <1>2, <1>4, <1>5 DEF Entries
  <1> QED BY <1>1, <1>6, Sent, Continued

LEMMA HGETCalls ==
    ASSUME CallsInv, NEW c \in Clients, SendHGET(c)
    PROVE  CallsInv' /\ Len(prog[c]) = 1
  <1> DEFINE x == prog[c][1]
             n == IF hash[x.key] \in FileData THEN hash[x.key].Times_Accessed ELSE -1
  <1>1. prog[c] # <<>> /\ x.do = "HGET" /\ index' = index /\ hash' = hash
    BY Sent DEF SendHGET, Sends, redis
  <1>2. Head(prog[c]) = x /\ x \in Commands /\ x.key \in Keys /\ Shape(prog[c], on[c])
        /\ x.key \in on[c] /\ 1 \in 1..Len(prog[c])
    BY <1>1, Sent
  <1>3. Continue(c, WriteTimesAccessed(x.key, n + 1, x.time)) /\ n < MaxHits
    BY <1>2 DEF SendHGET
  <1>4. n \in -1..MaxHits
    BY FieldsOfData, ValuesAre, StoreAssumption
  <1>5. n + 1 \in 0..MaxHits /\ x.time \in Times
    BY <1>1, <1>2, <1>3, <1>4, Fields, StoreAssumption
  <1>6. on[c] = {x.key}
    BY <1>1, <1>2 DEF Shape, Kinds, OfRename
  <1>7. Shape(WriteTimesAccessed(x.key, n + 1, x.time), on[c])
    <2>1. \A m \in 0..MaxHits : Opening(WriteTimesAccessed(x.key, m, x.time), {x.key})
      BY <1>2, <1>5, TouchShape
    <2>2. Opening(WriteTimesAccessed(x.key, n + 1, x.time), {x.key})
      <3> HIDE DEF n, x
      <3> QED BY <1>5, <2>1
    <2> QED BY <1>6, <2>2 DEF Opening
  <1>8. Len(prog[c]) = 1
    BY <1>1, <1>2 DEF Shape, Renaming
  <1> QED BY <1>1, <1>3, <1>7, <1>8, Sent, Continued

LEMMA DELCalls ==
    ASSUME CallsInv, NEW c \in Clients, SendDEL(c)
    PROVE  CallsInv'
  <1>1. prog[c] # <<>> /\ Head(prog[c]).do = "DEL" /\ Continue(c, Tail(prog[c]))
        /\ index' = index /\ hash' = [hash EXCEPT ![Head(prog[c]).key] = Missing]
    BY DEF SendDEL, Sends
  <1>2. hash' \in [Keys -> Entries]
    BY <1>1, Sent DEF Entries
  <1> QED BY <1>1, <1>2, Sent, Continued

LEMMA ZCalls ==
    ASSUME CallsInv, NEW c \in Clients, SendZ(c)
    PROVE  CallsInv'
  <1> DEFINE x == prog[c][1]
  <1>1. prog[c] # <<>> /\ x.do \in {"ZADD", "ZREM"} /\ Continue(c, Tail(prog[c]))
        /\ hash' = hash
    BY Sent DEF SendZ, Sends
  <1>2. /\ Shape(prog[c], on[c]) /\ x \in Commands /\ 1 \in 1..Len(prog[c])
        /\ index \in [Sets -> [Keys -> Int \cup {Out}]] /\ Head(prog[c]) = x
        /\ \A s \in Sets : index[s] \in [Keys -> Atomic!Values[s] \cup {Out}]
    BY <1>1, Sent
  <1>3. x.set \in Sets /\ x.key \in Keys \cup {NoKey}
    BY <1>1, <1>2, Fields
  <1>4. x.do = "ZADD" => x.score \in Atomic!Values[x.set] /\ x.score \in Int
    BY <1>2, <1>3, FieldsOfData DEF Shape, Typed
  <1>5. index' = IF x.key = NoKey THEN index
                 ELSE [index EXCEPT ![x.set][x.key] = IF x.do = "ZADD" THEN x.score ELSE Out]
    BY <1>2 DEF SendZ
  <1>6. CASE x.key = NoKey
    BY <1>1, <1>5, <1>6, Sent, Continued
  <1>7. CASE x.key # NoKey
    <2>1. x.key \in Keys
      BY <1>3, <1>7
    <2> DEFINE v == IF x.do = "ZADD" THEN x.score ELSE Out
    <2>2. v \in Atomic!Values[x.set] \cup {Out} /\ v \in Int \cup {Out}
      BY <1>1, <1>4
    <2>3. index' = [index EXCEPT ![x.set] = [@ EXCEPT ![x.key] = v]]
      BY <1>5, <1>7
    <2> HIDE DEF v, x
    <2>4. index' \in [Sets -> [Keys -> Int \cup {Out}]]
      BY <1>2, <1>3, <2>1, <2>2, <2>3
    <2>5. \A s \in Sets : index'[s] \in [Keys -> Atomic!Values[s] \cup {Out}]
      BY <1>2, <1>3, <2>1, <2>2, <2>3
    <2> QED BY <1>1, <2>4, <2>5, Sent, Continued
  <1> QED BY <1>6, <1>7

LEMMA RENAMECalls ==
    ASSUME CallsInv, NEW c \in Clients, SendRENAME(c)
    PROVE  CallsInv'
  <1> DEFINE x == prog[c][1]
  <1>1. prog[c] # <<>> /\ x.do = "RENAME" /\ Continue(c, Tail(prog[c])) /\ index' = index
    BY Sent DEF SendRENAME, Sends
  <1>2. Head(prog[c]) = x /\ x \in Commands /\ x.key \in Keys /\ hash \in [Keys -> Entries]
    BY <1>1, Sent
  <1>3. x.to \in Keys
    BY <1>1, <1>2, Fields
  <1>4. hash' = IF hash[x.key] = Missing THEN hash
                ELSE [hash EXCEPT ![x.to] = hash[x.key], ![x.key] = Missing]
    BY <1>2 DEF SendRENAME
  <1>5. hash' \in [Keys -> Entries]
    BY <1>2, <1>3, <1>4 DEF Entries
  <1> QED BY <1>1, <1>5, Sent, Continued

LEMMA HGETALLCalls ==
    ASSUME CallsInv, NEW c \in Clients, SendHGETALL(c)
    PROVE  CallsInv'
  <1> DEFINE p == prog[c]
             x == p[1]
             fd == hash[x.key]
  <1>1. p # <<>> /\ hash' = hash /\ index' = index
    BY DEF SendHGETALL, Reads, Misses, Sends, redis
  <1>2. /\ Shape(p, on[c]) /\ Head(p) = x /\ x \in Commands
        /\ Tail(p) = <<>> \/ Shape(Tail(p), on[c])
    BY <1>1, Sent
  <1>3. \/ /\ x.do = "update" /\ fd \in FileData
           /\ Continue(c, UpdateInSet(x.set, x.key, fd) \o Tail(p))
        \/ /\ x.do \in {"update", "gone"} /\ Continue(c, Tail(p))
        \/ /\ x.do = "gone"
           /\ Continue(c, DeleteFileFromAllSets(x.key) \o Tail(p))
        \/ /\ x.do = "old"
           /\ \E o \in {x.key, NoKey} : Continue(c, RenameFrom(x.key, x.to, o))
        \/ /\ x.do = "new" /\ fd \in FileData
           /\ Continue(c, DeleteFileFromAllSets(x.old) \o AddFileToAllSets(x.key, fd))
        \/ /\ x.do = "new" /\ Continue(c, DeleteFileFromAllSets(x.old))
    BY <1>2 DEF SendHGETALL, Reads, Misses, Sends
  <1>4. PICK q : Continue(c, q) /\ (q = <<>> \/ Shape(q, on[c]))
    <2>1. CASE x.do = "update" /\ fd \in FileData
               /\ Continue(c, UpdateInSet(x.set, x.key, fd) \o Tail(p))
      <3>1. UpdateGoesOn(AfterUpdate(p, fd), p, on[c], fd)
        BY <2>1, <1>1, <1>2, UpdateShape
      <3> QED BY <2>1, <3>1 DEF UpdateGoesOn, AfterUpdate
    <2>2. CASE x.do \in {"update", "gone"} /\ Continue(c, Tail(p))
      BY <2>2, <1>2
    <2>3. CASE x.do = "gone" /\ Continue(c, DeleteFileFromAllSets(x.key) \o Tail(p))
      <3>1. Shape(DeleteFileFromAllSets(x.key) \o Tail(p), on[c])
        BY <2>3, <1>1, <1>2, GoneShape
      <3> QED BY <2>3, <3>1
    <2>4. CASE x.do = "old" /\ \E o \in {x.key, NoKey} : Continue(c, RenameFrom(x.key, x.to, o))
      <3>1. \A o \in {x.key, NoKey} : OldGoesOn(RenameFrom(x.key, x.to, o), p, on[c], o)
        BY <2>4, <1>1, <1>2, OldShape
      <3> QED BY <2>4, <3>1 DEF OldGoesOn
    <2>5. CASE x.do = "new" /\ fd \in FileData
               /\ Continue(c, DeleteFileFromAllSets(x.old) \o AddFileToAllSets(x.key, fd))
      <3>1. Shape(DeleteFileFromAllSets(x.old) \o AddFileToAllSets(x.key, fd), on[c])
        <4>1. RenameGoesOn(AfterNew(p, fd), p, on[c], fd)
          BY <2>5, <1>1, <1>2, NewShape
        <4> QED BY <4>1 DEF RenameGoesOn, AfterNew
      <3> QED BY <2>5, <3>1
    <2>6. CASE x.do = "new" /\ Continue(c, DeleteFileFromAllSets(x.old))
      <3>1. Shape(DeleteFileFromAllSets(x.old), on[c])
        BY <2>6, <1>1, <1>2, NewShape
      <3> QED BY <2>6, <3>1
    <2> QED BY <1>3, <2>1, <2>2, <2>3, <2>4, <2>5, <2>6
  <1>5. /\ hash' \in [Keys -> Entries] /\ index' \in [Sets -> [Keys -> Int \cup {Out}]]
        /\ \A s \in Sets : index'[s] \in [Keys -> Atomic!Values[s] \cup {Out}]
    BY <1>1, Sent
  <1> QED BY <1>1, <1>4, <1>5, Continued

LEMMA HMSETCalls ==
    ASSUME CallsInv, NEW c \in Clients, SendHMSET(c)
    PROVE  /\ CallsInv'
           /\ prog[c] # <<>> /\ prog[c][1].do = "HMSET" /\ prog[c][1].data \in FileData
           /\ prog[c][1].key \in Keys /\ on[c] = {prog[c][1].key}
           /\ Shape(Tail(prog[c]), on[c]) /\ Tail(prog[c]) # <<>>
  <1> DEFINE p == prog[c]
             x == p[1]
             new == IF hash[x.key] = Ghost THEN Ghost ELSE x.data
  <1>1. p # <<>> /\ Head(p).do = "HMSET"
    BY DEF SendHMSET
  <1>2. /\ Head(p) = x /\ x \in Commands /\ x.key \in on[c] /\ x.key \in Keys
        /\ Shape(p, on[c]) /\ hash \in [Keys -> Entries] /\ 1 \in 1..Len(p)
        /\ x.do = "HMSET" /\ known \in [Keys -> Entries \cup {Unknown}]
    BY <1>1, Sent
  <1>3. x.data \in FileData
    BY <1>1, <1>2, Fields, StoreAssumption
  <1>4. on[c] = {x.key}
    BY <1>1, <1>2 DEF Shape, Kinds, OfRename
  <1>5. Tail(p) # <<>>
    <2>1. \E s \in Sets : TRUE
      BY ValuesAre
    <2>2. \E j \in 2..Len(p) : TRUE
      BY <1>2, <2>1 DEF Shape, WritesAndAdds
    <2>3. p \in Seq(Commands)
      BY <1>2 DEF Shape
    <2>4. Len(p) # 1
      <3>1. PICK j \in 2..Len(p) : TRUE
        BY <2>2
      <3>2. ~ (j \in 2..1)
        OBVIOUS
      <3> QED BY <3>1, <3>2
    <2>5. Tail(p) = <<>> <=> Len(p) = 1
      BY <1>1, <2>3, Behind
    <2> QED BY <2>4, <2>5
  <1>6. Shape(Tail(p), on[c])
    BY <1>1, <1>2, TailShape
  <1>7. /\ hash' = [hash EXCEPT ![x.key] = new]
        /\ prog' = [prog EXCEPT ![c] = Tail(p)]
        /\ IF c \in overlapped THEN UNCHANGED <<known, strayed>>
           ELSE /\ known' = [known EXCEPT ![x.key] = new]
                /\ strayed' = strayed \ {x.key}
        /\ UNCHANGED <<index, on, query, calls, overlapped, touched>>
    BY <1>2 DEF SendHMSET
  <1>8. hash' \in [Keys -> Entries] /\ known' \in [Keys -> Entries \cup {Unknown}]
    BY <1>2, <1>3, <1>7 DEF Entries
  <1>9. /\ prog \in [Clients -> Seq(Commands)] /\ prog' \in [Clients -> Seq(Commands)]
        /\ prog'[c] = Tail(p) /\ \A d \in Clients \ {c} : prog'[d] = prog[d]
    BY <1>6, <1>7 DEF CallsInv, StoreTypes, Shape
  <1>10. Shapes'
    BY <1>4, <1>5, <1>6, <1>7, <1>9 DEF CallsInv, Shapes
  <1>11. Overlaps'
    <2>1. ASSUME NEW d \in overlapped, NEW k \in on[d] PROVE known'[k] = Unknown
      <3>1. known[k] = Unknown /\ k \in Keys /\ d \in Clients
        BY <2>1 DEF CallsInv, Overlaps, StoreTypes, TypeOK
      <3>2. CASE c \in overlapped
        BY <1>7, <3>1, <3>2
      <3>3. CASE c \notin overlapped
        <4>1. d # c
          BY <2>1, <3>3
        <4>2. on[d] \cap on[c] = {}
          BY <3>1, <3>3, <4>1 DEF CallsInv, Overlaps
        <4>3. k # x.key
          BY <1>4, <4>2
        <4> QED BY <1>2, <1>7, <3>1, <3>3, <4>3
      <3> QED BY <3>2, <3>3
    <2> QED BY <1>7, <2>1 DEF CallsInv, Overlaps
  <1>12. TypeOK'
    <2>1. \A d \in Clients : (on'[d] = {}) = (prog'[d] = <<>>)
      <3>1. \A d \in Clients \ {c} : (on'[d] = {}) = (prog'[d] = <<>>)
        BY <1>7, <1>9 DEF CallsInv, StoreTypes, TypeOK
      <3>2. on'[c] # {} /\ prog'[c] # <<>>
        BY <1>4, <1>5, <1>7, <1>9
      <3> QED BY <3>1, <3>2
    <2>2. \A k \in strayed' : k \in Keys /\ known'[k] = Unknown
      BY <1>2, <1>7 DEF CallsInv, StoreTypes, TypeOK
    <2>3. \A d \in Clients : query'[d] # None => prog'[d] = <<>>
      BY <1>1, <1>7, <1>9 DEF CallsInv, StoreTypes, TypeOK
    <2> QED BY <1>7, <1>8, <2>1, <2>2, <2>3 DEF CallsInv, StoreTypes, TypeOK
  <1>13. StoreTypes'
    BY <1>7, <1>9, <1>12 DEF CallsInv, StoreTypes
  <1> QED BY <1>1, <1>2, <1>3, <1>4, <1>5, <1>6, <1>10, <1>11, <1>13 DEF CallsInv

LEMMA QueryCalls ==
    ASSUME CallsInv, NEW c \in Clients,
           (\E q \in Queries : Ask(c, q)) \/ ReadFound(c) \/ EndQuery(c)
    PROVE  CallsInv' /\ UNCHANGED <<hash, index, prog, on, known, overlapped, strayed>>
  <1>1. UNCHANGED <<hash, index, prog, on, known, overlapped, strayed>>
    BY DEF Ask, ReadFound, EndQuery, redis
  <1>2. \A d \in Clients : query'[d] # None => prog[d] = <<>>
    <2>1. \A d \in Clients \ {c} : query'[d] = query[d]
      BY DEF Ask, ReadFound, EndQuery, CallsInv, StoreTypes
    <2>2. query'[c] # None => prog[c] = <<>>
      BY DEF Ask, ReadFound, EndQuery, Idle, Answered, CallsInv, StoreTypes, TypeOK
    <2> QED BY <2>1, <2>2 DEF CallsInv, StoreTypes, TypeOK
  <1>3. query' = [d \in Clients |-> query'[d]] /\ touched' \in [Clients -> SUBSET Keys]
    <2>1. query' = [d \in Clients |-> query'[d]]
      BY DEF Ask, ReadFound, EndQuery, CallsInv, StoreTypes
    <2>2. UNION Range(on) \subseteq Keys
      BY DEF Range, CallsInv, StoreTypes, TypeOK
    <2>3. touched \in [Clients -> SUBSET Keys]
      BY DEF CallsInv, StoreTypes
    <2>4. \/ touched' = touched
          \/ touched' = [touched EXCEPT ![c] = UNION Range(on)]
          \/ touched' = [touched EXCEPT ![c] = {}]
      BY DEF Ask, ReadFound, EndQuery
    <2> QED BY <2>1, <2>2, <2>3, <2>4
  <1>4. TypeOK'
    BY <1>1, <1>2 DEF CallsInv, StoreTypes, TypeOK
  <1>5. Shapes' /\ Overlaps'
    BY <1>1 DEF CallsInv, Shapes, Overlaps
  <1> QED BY <1>1, <1>3, <1>4, <1>5 DEF CallsInv, StoreTypes

LEMMA InitCalls == Init => CallsInv
  <1> SUFFICES ASSUME Init PROVE CallsInv
    OBVIOUS
  <1>1. /\ hash = [k \in Keys |-> Missing] /\ index = [s \in Sets |-> [k \in Keys |-> Out]]
        /\ prog = [c \in Clients |-> <<>>] /\ on = [c \in Clients |-> {}]
        /\ query = [c \in Clients |-> None] /\ known = hash
        /\ overlapped = {} /\ strayed = {} /\ touched = [c \in Clients |-> {}]
    BY DEF Init
  <1>2. TypeOK
    BY <1>1 DEF TypeOK, Entries
  <1>3. StoreTypes
    BY <1>1, <1>2 DEF StoreTypes
  <1> QED BY <1>1, <1>3 DEF CallsInv, Shapes, Overlaps

LEMMA NextCalls == CallsInv /\ [Next]_vars => CallsInv'
  <1> SUFFICES ASSUME CallsInv, [Next]_vars PROVE CallsInv'
    OBVIOUS
  <1>1. CASE UNCHANGED vars
    BY <1>1 DEF vars, redis, CallsInv, StoreTypes, TypeOK, Shapes, Overlaps
  <1>2. ASSUME NEW c \in Clients,
               \/ Begin(c)
               \/ SendHSET(c) \/ SendHGET(c) \/ SendHMSET(c) \/ SendDEL(c) \/ SendZ(c)
               \/ SendHGETALL(c) \/ DieOfHGETALL(c) \/ SendRENAME(c)
               \/ Kill(c)
               \/ \E q \in Queries : Ask(c, q)
               \/ ReadFound(c) \/ DieOfQuery(c) \/ EndQuery(c)
        PROVE  CallsInv'
    <2>1. CASE DieOfHGETALL(c) \/ Kill(c) \/ DieOfQuery(c)
      BY <2>1, Aborted DEF DieOfHGETALL, Kill, DieOfQuery
    <2> QED BY <1>2, <2>1, BeginCalls, HSETCalls, HGETCalls, HMSETCalls, DELCalls, ZCalls,
               HGETALLCalls, RENAMECalls, QueryCalls
  <1> QED BY <1>1, <1>2 DEF Next

\* Type correctness of Store.
THEOREM StoreTypeCorrect == Spec => []TypeOK
  <1>1. CallsInv => TypeOK
    BY DEF CallsInv, StoreTypes
  <1> QED BY <1>1, InitCalls, NextCalls, PTL DEF Spec

-----------------------------------------------------------------------------
(***************************************************************************)
(* A step of one process, and what it leaves alone.                        *)
(***************************************************************************)

\* What the others do, and the files that c is not at work on.
Elsewhere(c) ==
    /\ \A d \in Clients \ {c} : /\ prog'[d] = prog[d] /\ on'[d] = on[d]
                                /\ d \in overlapped' <=> d \in overlapped
    /\ overlapped' \subseteq Clients
    /\ \A k \in Keys \ on[c] :
           /\ hash'[k] = hash[k] /\ known'[k] = known[k]
           /\ \A s \in Sets : index'[s][k] = index[s][k]
           /\ k \in strayed' <=> k \in strayed

\* A command is about a file of the call.
LEMMA Own ==
    ASSUME CallsInv, NEW c \in Clients, NEW i \in At(c)
    PROVE  /\ prog[c] # <<>> /\ prog[c] \in Seq(Commands) /\ prog[c][i] \in Commands
           /\ Shape(prog[c], on[c]) /\ on[c] \subseteq Keys
           /\ prog[c][i].key \in on[c] \cup {NoKey}
           /\ prog[c][i].do # "ZREM" => prog[c][i].key \in on[c]
           /\ prog[c][i].do = "new" => prog[c][i].old \in on[c] \cup {NoKey}
           /\ \A s \in Sets, k \in Keys :
                  (Mends(prog[c][i], s, k) \/ Updates(prog[c][i], s, k)
                      \/ Clears(prog[c][i], s, k)) => k \in on[c]
  <1>1. prog[c] \in Seq(Commands) /\ on[c] \subseteq Keys
    BY DEF CallsInv, StoreTypes, TypeOK
  <1>2. prog[c] # <<>> /\ prog[c][i] \in Commands
    <2>1. Len(prog[c]) # 0
      BY <1>1 DEF At
    <2> QED BY <1>1, <2>1 DEF At
  <1>3. Shape(prog[c], on[c])
    BY <1>2, InCall
  <1>4. /\ prog[c][i].key \in on[c] \cup {NoKey}
        /\ prog[c][i].do = "new" => prog[c][i].old \in on[c] \cup {NoKey}
    BY <1>3 DEF Shape, About, At
  <1>5. prog[c][i].do # "ZREM" => prog[c][i].key \in Keys
    BY <1>2, Fields
  <1>6. NoKey \notin Keys
    BY StoreAssumption
  <1>7. ASSUME NEW k \in Keys, NEW s \in Sets,
               \/ Mends(prog[c][i], s, k) \/ Updates(prog[c][i], s, k)
               \/ Clears(prog[c][i], s, k)
        PROVE  k \in on[c]
    <2>1. \/ prog[c][i].key = k
          \/ prog[c][i].do = "new" /\ prog[c][i].old = k
      BY <1>7 DEF Mends, Updates, Clears, Adds, Deletes, ReadsNew, Removes, ReadsOld
    <2> QED BY <2>1, <1>4, <1>6
  <1> QED BY <1>1, <1>2, <1>3, <1>4, <1>5, <1>6, <1>7

\* A call sends nothing about a file that is not its own.
LEMMA NotMine ==
    ASSUME CallsInv, NEW c \in Clients, NEW k \in Keys \ on[c], NEW s \in Sets
    PROVE  ~ToMend(prog[c], s, k) /\ ~ToUpdate(prog[c], s, k) /\ ~ToClear(prog[c], s, k)
  <1>1. ASSUME NEW i \in At(c)
        PROVE  /\ ~Mends(prog[c][i], s, k) /\ ~Updates(prog[c][i], s, k)
               /\ ~Clears(prog[c][i], s, k)
    BY Own
  <1>2. ~ToMend(prog[c], s, k)
    BY <1>1 DEF ToMend, At
  <1>3. ~ToUpdate(prog[c], s, k)
    BY <1>1 DEF ToUpdate, At
  <1>4. ~ToClear(prog[c], s, k)
    BY <1>1 DEF ToClear, At
  <1> QED BY <1>2, <1>3, <1>4

\* A process that has met no other has its files to itself.
LEMMA Alone ==
    ASSUME CallsInv, NEW c \in Clients, c \notin overlapped, NEW k \in on[c],
           NEW d \in Clients \ {c}
    PROVE  /\ k \notin on[d]
           /\ \A s \in Sets : /\ ~ToMend(prog[d], s, k) /\ ~ToUpdate(prog[d], s, k)
                              /\ ~ToClear(prog[d], s, k)
  <1>1. k \notin on[d]
    BY DEF CallsInv, Overlaps
  <1>2. k \in Keys
    BY DEF CallsInv, StoreTypes, TypeOK
  <1> QED BY <1>1, <1>2, NotMine

\* What the others are to do, they are still to do.
LEMMA Pending ==
    ASSUME NEW c \in Clients, \A d \in Clients \ {c} : prog'[d] = prog[d],
           NEW s \in Sets, NEW k \in Keys
    PROVE  /\ WillMend(s, k) => WillMend(s, k)' \/ ToMend(prog[c], s, k)
           /\ WillUpdate(s, k) => WillUpdate(s, k)' \/ ToUpdate(prog[c], s, k)
           /\ WillClear(s, k) => WillClear(s, k)' \/ ToClear(prog[c], s, k)
           /\ ToMend(prog'[c], s, k) => WillMend(s, k)'
           /\ ToUpdate(prog'[c], s, k) => WillUpdate(s, k)'
           /\ ToClear(prog'[c], s, k) => WillClear(s, k)'
  <1>1. WillMend(s, k) => WillMend(s, k)' \/ ToMend(prog[c], s, k)
    BY DEF WillMend
  <1>2. WillUpdate(s, k) => WillUpdate(s, k)' \/ ToUpdate(prog[c], s, k)
    BY DEF WillUpdate
  <1>3. WillClear(s, k) => WillClear(s, k)' \/ ToClear(prog[c], s, k)
    BY DEF WillClear
  <1> QED BY <1>1, <1>2, <1>3 DEF WillMend, WillUpdate, WillClear

\* The others' invariants do not break.
LEMMA OthersRight ==
    ASSUME CallsInv, Undisturbed, NEW c \in Clients, Elsewhere(c),
           NEW d \in Clients \ {c}
    PROVE  Right(d)'
  <1> SUFFICES ASSUME d \notin overlapped'
               PROVE  (AddsRight(d) /\ RenamesRight(d) /\ DeletesRight(d))'
    BY DEF Right
  <1>1. /\ AddsRight(d) /\ RenamesRight(d) /\ DeletesRight(d)
        /\ prog'[d] = prog[d] /\ on'[d] = on[d] /\ d \notin overlapped
    BY DEF Undisturbed, Right, Elsewhere
  <1>2. on[d] \cap on[c] = {} /\ on[d] \subseteq Keys
    BY <1>1 DEF CallsInv, Overlaps, StoreTypes, TypeOK
  <1>3. \A k \in on[d] : /\ hash'[k] = hash[k] /\ known'[k] = known[k]
                         /\ \A s \in Sets : index'[s][k] = index[s][k]
    BY <1>2 DEF Elsewhere
  <1>4. AddsRight(d)'
    BY <1>1, <1>3, Own DEF AddsRight, At
  <1>5. RenamesRight(d)'
    <2>1. ASSUME NEW i \in At(d), prog[d][i].do = "RENAME"
          PROVE  (hash'[prog[d][i].key] = Missing) = (prog[d][2].old = NoKey)
      <3>1. hash'[prog[d][i].key] = hash[prog[d][i].key]
        BY <1>3, <2>1, Own
      <3> QED BY <1>1, <2>1, <3>1 DEF RenamesRight
    <2>2. ASSUME NEW i \in At(d), prog[d][i].do = "ZREM",
                 \E k, l \in Keys : k # l /\ on[d] = {k, l}
          PROVE  Gone(prog[d][i].key)'
      <3>1. Gone(prog[d][i].key)
        BY <1>1, <2>2 DEF RenamesRight
      <3> QED BY <1>1, <1>3, <2>2, <3>1, Own DEF Gone
    <2>3. ASSUME NEW i \in At(d), prog[d][i].do = "new", i = 1
          PROVE  Gone(prog[d][i].old)'
      <3>1. Gone(prog[d][i].old)
        BY <1>1, <2>3 DEF RenamesRight
      <3> QED BY <1>1, <1>3, <2>3, <3>1, Own DEF Gone
    <2>4. prog'[d] = prog[d] /\ on'[d] = on[d]
      BY <1>1
    <2> QED BY <2>1, <2>2, <2>3, <2>4 DEF RenamesRight, At
  <1>6. DeletesRight(d)'
    <2> SUFFICES ASSUME NEW i \in At(d), prog[d][i].do = "DEL",
                        known'[prog[d][i].key] # Unknown, NEW s \in Sets
                 PROVE  \/ index'[s][prog[d][i].key] = Out
                        \/ \E j \in At(d) : Removes(prog[d][j], s, prog[d][i].key)
                        \/ prog[d][1].do = "gone"
      BY <1>1 DEF DeletesRight, At
    <2>1. prog[d][i].key \in on[d]
      BY Own
    <2> QED BY <1>1, <1>3, <2>1 DEF DeletesRight
  <1> QED BY <1>4, <1>5, <1>6

LEMMA OtherFiles ==
    ASSUME CallsInv, Covered, Fresh, NEW c \in Clients, Elsewhere(c), NEW k \in Keys \ on[c]
    PROVE  CoveredAt(k)' /\ FreshAt(k)'
  <1>1. /\ hash'[k] = hash[k] /\ known'[k] = known[k]
        /\ \A s \in Sets : index'[s][k] = index[s][k]
        /\ k \in strayed' <=> k \in strayed
    BY DEF Elsewhere
  <1>2. \A s \in Sets : /\ ~ToMend(prog[c], s, k) /\ ~ToUpdate(prog[c], s, k)
                        /\ ~ToClear(prog[c], s, k)
    BY NotMine
  <1>3. \A s \in Sets : /\ WillMend(s, k) => WillMend(s, k)'
                        /\ WillUpdate(s, k) => WillUpdate(s, k)'
                        /\ WillClear(s, k) => WillClear(s, k)'
    BY <1>2, Pending DEF Elsewhere
  <1>4. Muddled(k) => Muddled(k)'
    <2> SUFFICES ASSUME NEW d \in overlapped, k \in on[d], Cardinality(on[d]) = 2
                 PROVE  Muddled(k)'
      BY DEF Muddled
    <2>1. d \in Clients \ {c}
      BY DEF CallsInv, StoreTypes, TypeOK
    <2>2. d \in overlapped' /\ on'[d] = on[d]
      BY <2>1 DEF Elsewhere
    <2> QED BY <2>2 DEF Muddled
  <1>5. CoveredAt(k)'
    <2>1. CoveredAt(k)
      BY DEF Covered
    <2> QED BY <1>1, <1>3, <1>4, <2>1 DEF CoveredAt, Held
  <1>6. FreshAt(k)'
    <2>1. FreshAt(k)
      BY DEF Fresh
    <2> QED BY <1>1, <1>3, <2>1 DEF FreshAt, Agreed
  <1> QED BY <1>5, <1>6

-----------------------------------------------------------------------------
(***************************************************************************)
(* What a step has to keep of the files that its process is at work on.    *)
(***************************************************************************)
MineKept(c) == Right(c)' /\ \A k \in on[c] : CoveredAt(k)' /\ FreshAt(k)'

LEMMA NotEmpty ==
    ASSUME NEW q, Len(q) # 0
    PROVE  q # <<>>
  OBVIOUS

LEMMA StepKeeps ==
    ASSUME StoreInv, CallsInv', NEW c \in Clients, Elsewhere(c), MineKept(c)
    PROVE  StoreInv'
  <1>1. \A d \in Clients \ {c} : Right(d)'
    BY OthersRight DEF StoreInv
  <1>2. \A k \in Keys \ on[c] : CoveredAt(k)' /\ FreshAt(k)'
    BY OtherFiles DEF StoreInv
  <1>3. Undisturbed'
    BY <1>1 DEF MineKept, Undisturbed
  <1>4. Covered' /\ Fresh'
    BY <1>2 DEF MineKept, Covered, Fresh
  <1> QED BY <1>3, <1>4 DEF StoreInv

\* What Continue does to the variables.
LEMMA Continuing ==
    ASSUME CallsInv, NEW c \in Clients, prog[c] # <<>>, NEW p, p \in Seq(Commands),
           Continue(c, p)
    PROVE  /\ prog'[c] = p /\ \A d \in Clients \ {c} : prog'[d] = prog[d] /\ on'[d] = on[d]
           /\ on[c] # {} /\ on[c] \subseteq Keys
           /\ p # <<>> => UNCHANGED <<on, overlapped, known, strayed>>
           /\ p = <<>> => /\ on'[c] = {} /\ overlapped' = overlapped \ {c}
                          /\ strayed' = IF c \in overlapped /\ Cardinality(on[c]) = 2
                                        THEN strayed \cup on[c] ELSE strayed
           /\ \A k \in on[c] : known'[k] # Unknown => known[k] # Unknown
           /\ \A k \in Keys \ on[c] : known'[k] = known[k]
           /\ overlapped' \subseteq Clients
           /\ \A d \in Clients \ {c} : d \in overlapped' <=> d \in overlapped
  <1>1. /\ prog' = [prog EXCEPT ![c] = p] /\ prog \in [Clients -> Seq(Commands)]
        /\ on \in [Clients -> SUBSET Keys] /\ known \in [Keys -> Entries \cup {Unknown}]
        /\ on[c] # {} /\ on[c] \subseteq Keys /\ overlapped \subseteq Clients
    BY InCall DEF Continue, CallsInv, StoreTypes, TypeOK
  <1>2. prog'[c] = p /\ \A d \in Clients \ {c} : prog'[d] = prog[d]
    BY <1>1
  <1>3. CASE p # <<>>
    BY <1>1, <1>2, <1>3 DEF Continue
  <1>4. CASE p = <<>>
    <2>1. /\ on' = [on EXCEPT ![c] = {}] /\ overlapped' = overlapped \ {c}
          /\ known' = IF \E k \in on[c] : known[k] = Unknown THEN Forget(on[c])
                      ELSE [k \in Keys |-> IF k \in on[c] THEN hash'[k] ELSE known[k]]
          /\ strayed' = IF c \in overlapped /\ Cardinality(on[c]) = 2
                        THEN strayed \cup on[c] ELSE strayed
      BY <1>4 DEF Continue
    <2>2. \A k \in on[c] : known'[k] # Unknown => known[k] # Unknown
      BY <1>1, <2>1 DEF Forget
    <2>3. \A k \in Keys \ on[c] : known'[k] = known[k]
      BY <1>1, <2>1 DEF Forget
    <2> QED BY <1>1, <1>2, <1>4, <2>1, <2>2, <2>3
  <1> QED BY <1>3, <1>4

\* A rename is about two files, every other call about one.
LEMMA Numbers ==
    ASSUME NEW p, NEW ks, Shape(p, ks)
    PROVE  /\ Cardinality(ks) = 2 <=> \E k, l \in Keys : k # l /\ ks = {k, l}
           /\ Cardinality(ks) # 2 <=> \E k \in Keys : ks = {k}
  <1>1. \/ \E k \in Keys : ks = {k}
        \/ \E k, l \in Keys : k # l /\ ks = {k, l}
    BY DEF Shape, Kinds
  <1>2. ASSUME NEW k \in Keys, ks = {k} PROVE Cardinality(ks) # 2
    <2>1. ks = {k, k}
      BY <1>2
    <2> QED BY <2>1, OneIsNotTwo
  <1>3. ASSUME NEW k \in Keys, NEW l \in Keys, k # l, ks = {k, l} PROVE Cardinality(ks) = 2
    BY <1>3, OneIsNotTwo
  <1> QED BY <1>1, <1>2, <1>3

\* The part of the invariant that a command of c has to keep.
LEMMA ContinueKeeps ==
    ASSUME StoreInv, CallsInv', NEW c \in Clients, prog[c] # <<>>,
           NEW p, p \in Seq(Commands), Continue(c, p),
           \A k \in Keys \ on[c] : /\ hash'[k] = hash[k]
                                   /\ \A s \in Sets : index'[s][k] = index[s][k],
           c \notin overlapped /\ p # <<>> =>
               AddsRight(c)' /\ RenamesRight(c)' /\ DeletesRight(c)',
           c \notin overlapped \/ Cardinality(on[c]) # 2 =>
               \A k \in on[c] : Held(k) => Held(k)',
           c \notin overlapped =>
               \A k \in on[c] : known[k] # Unknown /\ Agreed(k) => Agreed(k)'
    PROVE  StoreInv'
  <1>1. CallsInv
    BY DEF StoreInv
  <1>2. /\ prog'[c] = p /\ \A d \in Clients \ {c} : prog'[d] = prog[d] /\ on'[d] = on[d]
        /\ on[c] # {} /\ on[c] \subseteq Keys
        /\ p # <<>> => UNCHANGED <<on, overlapped, known, strayed>>
        /\ p = <<>> => /\ on'[c] = {} /\ overlapped' = overlapped \ {c}
                       /\ strayed' = IF c \in overlapped /\ Cardinality(on[c]) = 2
                                     THEN strayed \cup on[c] ELSE strayed
        /\ \A k \in on[c] : known'[k] # Unknown => known[k] # Unknown
        /\ \A k \in Keys \ on[c] : known'[k] = known[k]
        /\ overlapped' \subseteq Clients
        /\ \A d \in Clients \ {c} : d \in overlapped' <=> d \in overlapped
    BY <1>1, Continuing
  <1>3. Elsewhere(c)
    <2>1. \A k \in Keys \ on[c] : k \in strayed' <=> k \in strayed
      BY <1>2
    <2> QED BY <1>2, <2>1 DEF Elsewhere
  <1>4. Right(c)'
    <2>1. CASE p = <<>>
      <3>1. At(c)' = {}
        BY <1>2, <2>1 DEF At
      <3> QED BY <3>1 DEF Right, AddsRight, RenamesRight, DeletesRight
    <2>2. CASE p # <<>>
      BY <1>2, <2>2 DEF Right
    <2> QED BY <2>1, <2>2
  <1>5. ASSUME NEW k \in on[c] PROVE CoveredAt(k)'
    <2>1. CASE c \in overlapped /\ Cardinality(on[c]) = 2
      <3>1. CASE p = <<>>
        BY <1>2, <2>1, <3>1 DEF CoveredAt
      <3>2. CASE p # <<>>
        <4>1. Muddled(k)'
          BY <1>2, <2>1, <3>2, <1>5 DEF Muddled
        <4> QED BY <4>1 DEF CoveredAt
      <3> QED BY <3>1, <3>2
    <2>2. CASE ~(c \in overlapped /\ Cardinality(on[c]) = 2)
      <3>1. strayed' = strayed
        BY <1>2, <2>2
      <3>2. Muddled(k) => Muddled(k)'
        <4> SUFFICES ASSUME NEW d \in overlapped, k \in on[d], Cardinality(on[d]) = 2
                     PROVE  Muddled(k)'
          BY DEF Muddled
        <4>1. d \in Clients \ {c}
          BY <1>1, <2>2 DEF CallsInv, StoreTypes, TypeOK
        <4> QED BY <1>2, <4>1 DEF Muddled
      <3>3. k \in Keys
        BY <1>2
      <3>4. CoveredAt(k)
        BY <3>3 DEF StoreInv, Covered
      <3>5. Held(k) => Held(k)'
        BY <2>2
      <3> QED BY <3>1, <3>2, <3>4, <3>5 DEF CoveredAt
    <2> QED BY <2>1, <2>2
  <1>6. ASSUME NEW k \in on[c] PROVE FreshAt(k)'
    <2>1. k \in Keys
      BY <1>2
    <2>2. SUFFICES ASSUME known'[k] # Unknown PROVE Agreed(k)'
      BY DEF FreshAt
    <2>3. known[k] # Unknown
      BY <1>2, <2>2
    <2>4. c \notin overlapped
      BY <1>1, <2>3 DEF CallsInv, Overlaps
    <2>5. Agreed(k)
      BY <2>1, <2>3 DEF StoreInv, Fresh, FreshAt
    <2> QED BY <2>3, <2>4, <2>5
  <1> QED BY <1>2, <1>3, <1>4, <1>5, <1>6, StepKeeps DEF MineKept

-----------------------------------------------------------------------------
(***************************************************************************)
(* The commands that only take themselves from their program.              *)
(***************************************************************************)

\* Every command that a rename does not send is about the one file of its call.
LEMMA OfOne ==
    ASSUME NEW p, NEW ks, Shape(p, ks), NEW i \in 1..Len(p),
           p[i].do \in {"HSET", "HGET", "HMSET", "DEL", "gone", "update"}
    PROVE  /\ p[i].key \in Keys /\ ks = {p[i].key} /\ Cardinality(ks) # 2
           /\ ~ \E k, l \in Keys : k # l /\ ks = {k, l}
           /\ \A j \in 1..Len(p) : p[j].do \notin {"old", "RENAME", "new"}
           /\ RemovesAndAdds(p)
  <1>1. p[i].do \notin OfRename
    BY DEF OfRename
  <1>2. /\ \E k \in Keys : ks = {k}
        /\ \A j \in 1..Len(p) : p[j].do \notin {"old", "RENAME", "new"}
    BY <1>1 DEF Shape, Kinds
  <1>3. p[i] \in Commands
    BY DEF Shape
  <1>4. p[i].key \in Keys /\ p[i].key \in ks \cup {NoKey}
    BY <1>3, Fields DEF Shape, About
  <1>5. ks = {p[i].key}
    BY <1>2, <1>4, StoreAssumption
  <1>6. Cardinality(ks) # 2
    BY <1>2, Numbers
  <1>7. ~ \E k, l \in Keys : k # l /\ ks = {k, l}
    BY <1>5
  <1>8. RemovesAndAdds(p)
    BY <1>2 DEF Shape
  <1> QED BY <1>2, <1>4, <1>5, <1>6, <1>7, <1>8

\* What the rest of a call is still to do.
LEMMA TailDoes ==
    ASSUME NEW p, NEW ks, Shape(p, ks), p # <<>>, NEW s, NEW k
    PROVE  /\ ToMend(p, s, k) => Mends(p[1], s, k) \/ ToMend(Tail(p), s, k)
           /\ ToUpdate(p, s, k) => Updates(p[1], s, k) \/ ToUpdate(Tail(p), s, k)
           /\ ToClear(p, s, k) => Clears(p[1], s, k) \/ ToClear(Tail(p), s, k)
           /\ \A i \in 2..Len(p) : /\ Mends(p[i], s, k) => ToMend(Tail(p), s, k)
                                   /\ Updates(p[i], s, k) => ToUpdate(Tail(p), s, k)
                                   /\ Clears(p[i], s, k) => ToClear(Tail(p), s, k)
  <1> DEFINE q == Tail(p)
  <1>1. /\ Len(p) \in Nat
        /\ \A i \in 2..Len(p) : i - 1 \in 1..Len(q) /\ q[i - 1] = p[i]
    BY First
  <1> HIDE DEF q
  <1>2. \A i \in 1..Len(p) : i = 1 \/ i \in 2..Len(p)
    BY <1>1
  <1>3. \A i \in 2..Len(p) : /\ Mends(p[i], s, k) => ToMend(q, s, k)
                             /\ Updates(p[i], s, k) => ToUpdate(q, s, k)
                             /\ Clears(p[i], s, k) => ToClear(q, s, k)
    <2> TAKE i \in 2..Len(p)
    <2>1. i - 1 \in 1..Len(q) /\ q[i - 1] = p[i]
      BY <1>1
    <2> QED BY <2>1 DEF ToMend, ToUpdate, ToClear
  <1>4. ToMend(p, s, k) => Mends(p[1], s, k) \/ ToMend(q, s, k)
    BY <1>2, <1>3 DEF ToMend
  <1>5. ToUpdate(p, s, k) => Updates(p[1], s, k) \/ ToUpdate(q, s, k)
    BY <1>2, <1>3 DEF ToUpdate
  <1>6. ToClear(p, s, k) => Clears(p[1], s, k) \/ ToClear(q, s, k)
    BY <1>2, <1>3 DEF ToClear
  <1> QED BY <1>3, <1>4, <1>5, <1>6 DEF q

\* Only removals stand before a deletion.
LEMMA NoDelete ==
    ASSUME NEW p, NEW ks, Shape(p, ks), p # <<>>, p[1].do \notin {"gone", "ZREM"}
    PROVE  \A i \in 2..Len(p) : p[i].do # "DEL"
  <1> SUFFICES ASSUME NEW i \in 2..Len(p), p[i].do = "DEL" PROVE FALSE
    OBVIOUS
  <1>1. i \in 1..Len(p) /\ 1 \in 1 .. i - 1
    BY First
  <1> QED BY <1>1 DEF Shape, Deletion

\* What the sets will get is still right, as long as the hashes do not change.
LEMMA TailRight ==
    ASSUME CallsInv, NEW c \in Clients, prog[c] # <<>>, AddsRight(c), RenamesRight(c),
           prog'[c] = Tail(prog[c]), hash' = hash, on' = on,
           prog[c][1].do \notin {"HMSET", "RENAME"}
    PROVE  AddsRight(c)' /\ RenamesRight(c)'
  <1> DEFINE p == prog[c]
             q == Tail(p)
  <1>1. /\ Shape(p, on[c]) /\ Len(p) \in Nat /\ Len(q) = Len(p) - 1 /\ 1 \in 1..Len(p)
        /\ \A i \in 1..Len(q) : i + 1 \in 1..Len(p) /\ q[i] = p[i + 1]
    BY InCall, First
  <1> HIDE DEF q
  <1>2. \A i \in 1..Len(q) : i + 1 # 1 /\ (i = 1 => i + 1 = 2)
    BY <1>1
  <1>3. AddsRight(c)'
    <2> SUFFICES ASSUME NEW i \in 1..Len(q), q[i].do = "ZADD"
                 PROVE  \/ hash[q[i].key] = Ghost
                        \/ /\ hash[q[i].key] \in FileData
                           /\ hash[q[i].key][q[i].set] = q[i].score
      BY DEF AddsRight, At, q
    <2> QED BY <1>1 DEF AddsRight, At
  <1>4. RenamesRight(c)'
    <2>1. \A i \in 1..Len(q) : /\ q[i].do # "RENAME"
                               /\ i = 1 => q[i].do # "new"
      BY <1>1, <1>2 DEF Shape, Renaming
    <2>2. ASSUME NEW i \in 1..Len(q), q[i].do = "ZREM",
                 \E k, l \in Keys : k # l /\ on[c] = {k, l}
          PROVE  Gone(q[i].key)
      BY <1>1, <2>2 DEF RenamesRight, At
    <2>3. \A k : Gone(k)' <=> Gone(k)
      BY DEF Gone
    <2> QED BY <2>1, <2>2, <2>3 DEF RenamesRight, At, q
  <1> QED BY <1>3, <1>4

LEMMA HSETKeeps ==
    ASSUME StoreInv, NEW c \in Clients, SendHSET(c)
    PROVE  StoreInv'
  <1>0. PICK p, x, k, q :
            /\ p = prog[c]
            /\ x = p[1]
            /\ k = x.key
            /\ q = Tail(p)
    OBVIOUS
  <1> USE <1>0
  <1>1. CallsInv /\ CallsInv'
    BY HSETCalls DEF StoreInv
  <1>2. p # <<>> /\ x.do = "HSET" /\ Continue(c, q) /\ index' = index
    BY <1>1, Sent DEF SendHSET, Sends
  <1>3. /\ Shape(p, on[c]) /\ x \in Commands /\ 1 \in 1..Len(p) /\ Head(p) = x
        /\ hash \in [Keys -> Entries]
        /\ q \in Seq(Commands) /\ Len(q) = Len(p) - 1 /\ Len(p) \in Nat
        /\ \A i \in 1..Len(q) : i + 1 \in 1..Len(p) /\ q[i] = p[i + 1]
    BY <1>1, <1>2, Sent, First
  <1>4. /\ k \in Keys /\ on[c] = {k} /\ ~ \E m, l \in Keys : m # l /\ on[c] = {m, l}
        /\ \A j \in 1..Len(p) : p[j].do \notin {"old", "RENAME", "new"}
    BY <1>2, <1>3, OfOne
  <1>5. hash' = [hash EXCEPT ![k] =
                    IF @ \in {Missing, Ghost} THEN Ghost
                    ELSE IF x.field \in Sets THEN [@ EXCEPT ![x.field] = x.value]
                    ELSE @]
    BY <1>3 DEF SendHSET
  <1>6. /\ \A l \in Keys \ on[c] : hash'[l] = hash[l]
        /\ hash'[k] # Missing
        /\ hash[k] = Ghost => hash'[k] = Ghost
        /\ hash'[k] \in FileData =>
               /\ hash[k] \in FileData
               /\ \A s \in Sets : s # x.field => hash'[k][s] = hash[k][s]
        /\ hash[k] \in FileData => hash'[k] \in FileData
    <2>1. x.field \in Sets => x.value \in Atomic!Values[x.field]
      BY <1>2, <1>3 DEF Shape, Typed
    <2>2. \A l \in Keys \ on[c] : hash'[l] = hash[l]
      BY <1>3, <1>4, <1>5
    <2>3. CASE hash[k] \in {Missing, Ghost}
      <3>1. hash'[k] = Ghost
        BY <1>3, <1>4, <1>5, <2>3
      <3> QED BY <2>2, <2>3, <3>1, StoreAssumption
    <2>4. CASE hash[k] \in FileData /\ x.field \in Sets
      <3>1. hash[k] \notin {Missing, Ghost}
        BY <2>4, StoreAssumption
      <3>2. hash'[k] = [hash[k] EXCEPT ![x.field] = x.value]
        BY <1>3, <1>4, <1>5, <2>4, <3>1
      <3>3. /\ hash'[k] \in FileData
            /\ \A s \in Sets \ {x.field} : hash'[k][s] = hash[k][s]
        <4>1. PICK fd, f, v : /\ fd = hash[k] /\ f = x.field /\ v = x.value
                              /\ fd \in FileData /\ f \in Sets /\ v \in Atomic!Values[f]
          BY <2>1, <2>4
        <4>2. [fd EXCEPT ![f] = v] \in FileData
          BY <4>1, WithField
        <4>3. \A t \in Sets \ {f} : [fd EXCEPT ![f] = v][t] = fd[t]
          BY <4>1, WithField
        <4> QED BY <3>2, <4>1, <4>2, <4>3
      <3> QED BY <2>2, <2>4, <3>1, <3>3, StoreAssumption
    <2>5. CASE hash[k] \in FileData /\ x.field \notin Sets
      <3>1. hash[k] \notin {Missing, Ghost}
        BY <2>5, StoreAssumption
      <3>2. hash'[k] = hash[k]
        BY <1>3, <1>4, <1>5, <2>5, <3>1
      <3> QED BY <2>2, <2>5, <3>1, <3>2
    <2> QED BY <1>3, <1>4, <2>3, <2>4, <2>5 DEF Entries
  <1>7. /\ prog'[c] = q /\ \A d \in Clients \ {c} : prog'[d] = prog[d]
        /\ q # <<>> => on' = on
    <2>1. /\ prog'[c] = q /\ \A d \in Clients \ {c} : prog'[d] = prog[d] /\ on'[d] = on[d]
          /\ q # <<>> => UNCHANGED <<on, overlapped, known, strayed>>
      BY <1>1, <1>2, <1>3, Continuing
    <2> QED BY <2>1
  <1>8. \A s \in Sets : /\ WillMend(s, k) => WillMend(s, k)'
                        /\ WillUpdate(s, k) => WillUpdate(s, k)'
    <2> TAKE s \in Sets
    <2>1. ~Mends(x, s, k) /\ ~Updates(x, s, k)
      BY <1>2 DEF Mends, Adds, Deletes, ReadsNew, Updates
    <2>2. /\ ToMend(p, s, k) => ToMend(q, s, k)
          /\ ToUpdate(p, s, k) => ToUpdate(q, s, k)
      BY <1>2, <1>3, <2>1, TailDoes
    <2> QED BY <1>4, <1>7, <2>2, Pending
  <1>9. x.field \in Sets => WillUpdate(x.field, k)'
    <2> SUFFICES ASSUME x.field \in Sets PROVE WillUpdate(x.field, k)'
      OBVIOUS
    <2>1. PICK j \in 2..Len(p) : Updates(p[j], x.field, k)
      BY <1>2, <1>3 DEF Shape, SetsAndUpdates
    <2>2. ToUpdate(q, x.field, k)
      BY <1>2, <1>3, <2>1, TailDoes
    <2> QED BY <1>4, <1>7, <2>2, Pending
  <1>10. Held(k) => Held(k)'
    BY <1>2, <1>6, <1>8 DEF Held
  <1>11. Agreed(k) => Agreed(k)'
    <2> SUFFICES ASSUME Agreed(k), hash'[k] \in FileData, NEW s \in Sets
                 PROVE  (index[s][k] = hash'[k][s]) \/ WillMend(s, k)' \/ WillUpdate(s, k)'
      BY <1>2, <1>6 DEF Agreed
    <2>1. CASE s = x.field
      BY <1>9, <2>1
    <2>2. CASE s # x.field
      BY <1>6, <1>8, <2>2 DEF Agreed
    <2> QED BY <2>1, <2>2
  <1>12. ASSUME c \notin overlapped, q # <<>>
         PROVE  AddsRight(c)' /\ RenamesRight(c)' /\ DeletesRight(c)'
    <2>1. AddsRight(c)
      BY <1>12 DEF StoreInv, Undisturbed, Right
    <2>2. \A i \in 1..Len(q) : i + 1 \in 2..Len(p)
      BY <1>3
    <2>3. AddsRight(c)'
      <3> SUFFICES ASSUME NEW i \in 1..Len(q), q[i].do = "ZADD"
                   PROVE  \/ hash'[q[i].key] = Ghost
                          \/ /\ hash'[q[i].key] \in FileData
                             /\ hash'[q[i].key][q[i].set] = q[i].score
        BY <1>7 DEF AddsRight, At
      <3>1. /\ i + 1 \in 1..Len(p) /\ q[i] = p[i + 1] /\ q[i] \in Commands
        BY <1>3
      <3>2. q[i].key = k /\ q[i].set \in Sets
        BY <1>3, <1>4, <3>1, Fields, StoreAssumption DEF Shape, About
      <3>3. \/ hash[k] = Ghost
            \/ hash[k] \in FileData /\ hash[k][q[i].set] = q[i].score
        BY <1>2, <2>1, <3>1, <3>2 DEF AddsRight, At
      <3>4. q[i].set # x.field
        BY <1>2, <1>3, <3>1 DEF Shape, NoSetAfter
      <3> QED BY <1>6, <3>2, <3>3, <3>4
    <2>4. RenamesRight(c)'
      <3>1. \A i \in 1..Len(q) : q[i].do \notin {"RENAME", "new"}
        BY <1>3, <1>4
      <3>2. ~ \E m, l \in Keys : m # l /\ on'[c] = {m, l}
        <4>1. on' = on
          BY <1>7, <1>12
        <4> QED BY <1>4, <4>1
      <3> QED BY <1>7, <3>1, <3>2 DEF RenamesRight, At
    <2>5. \A i \in 2..Len(p) : p[i].do # "DEL"
      BY <1>2, <1>3, NoDelete
    <2>6. DeletesRight(c)'
      BY <1>3, <1>7, <2>2, <2>5 DEF DeletesRight, At
    <2> QED BY <2>3, <2>4, <2>6
  <1>13. \A l \in Keys \ on[c] : \A s \in Sets : index'[s][l] = index[s][l]
    BY <1>2
  <1> QED BY <1>2, <1>3, <1>4, <1>1, <1>6, <1>10, <1>11, <1>12, <1>13, ContinueKeeps

LEMMA HGETKeeps ==
    ASSUME StoreInv, NEW c \in Clients, SendHGET(c)
    PROVE  StoreInv'
  <1>0. PICK p, x, k, n, q :
            /\ p = prog[c]
            /\ x = p[1]
            /\ k = x.key
            /\ n = (IF hash[k] \in FileData THEN hash[k].Times_Accessed ELSE -1)
            /\ q = WriteTimesAccessed(k, n + 1, x.time)
    OBVIOUS
  <1> USE <1>0
  <1>1. CallsInv /\ CallsInv' /\ Len(p) = 1
    BY HGETCalls DEF StoreInv
  <1>2. p # <<>> /\ x.do = "HGET" /\ hash' = hash /\ index' = index
    BY <1>1, Sent DEF SendHGET, Sends, redis
  <1>3. Shape(p, on[c]) /\ x \in Commands /\ 1 \in 1..Len(p) /\ Head(p) = x
    BY <1>1, <1>2, Sent
  <1>4. k \in Keys /\ on[c] = {k} /\ ~ \E m, l \in Keys : m # l /\ on[c] = {m, l}
    BY <1>2, <1>3, OfOne
  <1>5. Continue(c, q) /\ n < MaxHits
    BY <1>3 DEF SendHGET
  <1>6. Opening(q, {k})
    <2>1. n \in -1..MaxHits
      BY FieldsOfData, ValuesAre, StoreAssumption
    <2>2. n + 1 \in 0..MaxHits
      <3>1. MaxHits \in Nat /\ n < MaxHits
        BY <1>5, StoreAssumption
      <3> HIDE <1>0
      <3> QED BY <2>1, <3>1
    <2>3. x.time \in Times
      BY <1>2, <1>3, Fields
    <2> QED BY <1>4, <2>2, <2>3, TouchShape
  <1>7. q \in Seq(Commands) /\ q # <<>>
    BY <1>6 DEF Opening, Shape
  <1>8. /\ prog'[c] = q /\ \A d \in Clients \ {c} : prog'[d] = prog[d]
        /\ on' = on
    <2>1. /\ prog'[c] = q /\ \A d \in Clients \ {c} : prog'[d] = prog[d] /\ on'[d] = on[d]
          /\ q # <<>> => UNCHANGED <<on, overlapped, known, strayed>>
      BY <1>1, <1>2, <1>5, <1>7, Continuing
    <2> QED BY <1>7, <2>1
  <1>9. \A s \in Sets : ~ToMend(p, s, k) /\ ~ToUpdate(p, s, k) /\ ~ToClear(p, s, k)
    BY <1>1, <1>2 DEF ToMend, ToUpdate, ToClear, Mends, Adds, Deletes, ReadsNew, Updates,
                      Clears, Removes, ReadsOld
  <1>10. \A s \in Sets : /\ WillMend(s, k) => WillMend(s, k)'
                         /\ WillUpdate(s, k) => WillUpdate(s, k)'
                         /\ WillClear(s, k) => WillClear(s, k)'
    BY <1>4, <1>8, <1>9, Pending
  <1>11. (Held(k) => Held(k)') /\ (Agreed(k) => Agreed(k)')
    BY <1>2, <1>10 DEF Held, Agreed
  <1>12. AddsRight(c)' /\ RenamesRight(c)' /\ DeletesRight(c)'
    BY <1>6, <1>8 DEF Opening, Starts, AddsRight, RenamesRight, DeletesRight, At
  <1> QED BY <1>1, <1>2, <1>4, <1>5, <1>7, <1>11, <1>12, ContinueKeeps

LEMMA DELKeeps ==
    ASSUME StoreInv, NEW c \in Clients, SendDEL(c)
    PROVE  StoreInv'
  <1>0. PICK p, x, k, q :
            /\ p = prog[c]
            /\ x = p[1]
            /\ k = x.key
            /\ q = Tail(p)
    OBVIOUS
  <1> USE <1>0
  <1>1. CallsInv /\ CallsInv'
    BY DELCalls DEF StoreInv
  <1>2. p # <<>> /\ x.do = "DEL" /\ Continue(c, q) /\ index' = index
    BY <1>1, Sent DEF SendDEL, Sends
  <1>3. /\ Shape(p, on[c]) /\ 1 \in 1..Len(p) /\ Head(p) = x /\ hash \in [Keys -> Entries]
        /\ q \in Seq(Commands)
    BY <1>1, <1>2, Sent, First
  <1>4. k \in Keys /\ on[c] = {k} /\ ~ \E m, l \in Keys : m # l /\ on[c] = {m, l}
    BY <1>2, <1>3, OfOne
  <1>5. Len(p) = 1
    BY <1>2, <1>3 DEF Shape, Deletion
  <1>6. q = <<>>
    <2>1. p \in Seq(Commands)
      BY <1>3 DEF Shape
    <2> QED BY <1>2, <1>5, <2>1, Behind
  <1>7. hash' = [hash EXCEPT ![k] = Missing]
    BY <1>3 DEF SendDEL
  <1>8. hash'[k] = Missing /\ Missing \notin FileData
    BY <1>3, <1>4, <1>7, StoreAssumption
  <1>9. Held(k)'
    BY <1>8 DEF Held
  <1>10. ASSUME c \notin overlapped, known[k] # Unknown PROVE Agreed(k)'
    <2>1. DeletesRight(c)
      BY <1>10 DEF StoreInv, Undisturbed, Right
    <2>2. \A s \in Sets : index[s][k] = Out
      BY <1>2, <1>3, <1>5, <1>10, <2>1 DEF DeletesRight, At, Removes
    <2> QED BY <1>2, <1>8, <2>2 DEF Agreed
  <1>11. \A l \in Keys \ on[c] : hash'[l] = hash[l]
    BY <1>3, <1>4, <1>7
  <1> QED BY <1>1, <1>2, <1>3, <1>4, <1>6, <1>9, <1>10, <1>11, ContinueKeeps

LEMMA HMSETKeeps ==
    ASSUME StoreInv, NEW c \in Clients, SendHMSET(c)
    PROVE  StoreInv'
  <1>0. PICK p, x, k, q, new :
            /\ p = prog[c]
            /\ x = p[1]
            /\ k = x.key
            /\ q = Tail(p)
            /\ new = (IF hash[k] = Ghost THEN Ghost ELSE x.data)
    OBVIOUS
  <1> USE <1>0
  <1>1. /\ CallsInv /\ CallsInv' /\ p # <<>> /\ x.do = "HMSET" /\ x.data \in FileData
        /\ k \in Keys /\ on[c] = {k}
    BY HMSETCalls DEF StoreInv
  <1>2. /\ Shape(p, on[c]) /\ 1 \in 1..Len(p) /\ Head(p) = x
        /\ hash \in [Keys -> Entries] /\ known \in [Keys -> Entries \cup {Unknown}]
        /\ \A i \in 1..Len(q) : i + 1 \in 1..Len(p) /\ q[i] = p[i + 1]
        /\ Len(p) \in Nat
    <2>1. /\ Shape(p, on[c]) /\ 1 \in 1..Len(p) /\ Head(p) = x
          /\ hash \in [Keys -> Entries] /\ known \in [Keys -> Entries \cup {Unknown}]
      BY <1>1, Sent
    <2> QED BY <1>1, <2>1, First
  <1>3. /\ hash' = [hash EXCEPT ![k] = new]
        /\ prog' = [prog EXCEPT ![c] = q]
        /\ IF c \in overlapped THEN UNCHANGED <<known, strayed>>
           ELSE /\ known' = [known EXCEPT ![k] = new]
                /\ strayed' = strayed \ {k}
        /\ UNCHANGED <<index, on, query, calls, overlapped, touched>>
    BY <1>2 DEF SendHMSET
  <1>4. /\ prog'[c] = q /\ \A d \in Clients \ {c} : prog'[d] = prog[d]
        /\ overlapped \subseteq Clients
    BY <1>1, <1>3 DEF CallsInv, StoreTypes, TypeOK
  <1>5. Elsewhere(c)
    BY <1>1, <1>2, <1>3, <1>4 DEF Elsewhere
  <1>6. hash'[k] = new /\ new \in FileData \cup {Ghost}
    BY <1>1, <1>2, <1>3
  <1>7. /\ \A j \in 2..Len(p) : p[j].do = "ZADD" /\ p[j].score = x.data[p[j].set]
        /\ \A s \in Sets : \E j \in 2..Len(p) : Adds(p[j], s, k)
    BY <1>1, <1>2 DEF Shape, WritesAndAdds
  <1>8. \A s \in Sets : WillMend(s, k)'
    <2> TAKE s \in Sets
    <2>1. PICK j \in 2..Len(p) : Adds(p[j], s, k)
      BY <1>7
    <2>2. ToMend(q, s, k)
      BY <1>1, <1>2, <2>1, TailDoes DEF Mends
    <2> QED BY <1>1, <1>4, <2>2, Pending
  <1>9. CoveredAt(k)'
    BY <1>8 DEF CoveredAt, Held
  <1>10. FreshAt(k)'
    BY <1>6, <1>8, StoreAssumption DEF FreshAt, Agreed
  <1>11. Right(c)'
    <2>1. \A i \in 1..Len(q) : /\ q[i].do = "ZADD" /\ q[i].score = x.data[q[i].set]
                               /\ q[i].key = k
      <3> TAKE i \in 1..Len(q)
      <3>1. i + 1 \in 2..Len(p) /\ i + 1 \in 1..Len(p) /\ q[i] = p[i + 1]
        BY <1>2
      <3>2. q[i].do = "ZADD" /\ q[i].score = x.data[q[i].set]
        BY <1>7, <3>1
      <3>3. p[i + 1] \in Commands /\ p[i + 1].key \in on[c] \cup {NoKey}
        BY <1>2, <3>1 DEF Shape, About
      <3>4. q[i].key \in Keys
        BY <3>1, <3>2, <3>3, Fields
      <3> QED BY <1>1, <3>1, <3>2, <3>3, <3>4, StoreAssumption
    <2>2. AddsRight(c)'
      BY <1>4, <1>6, <2>1 DEF AddsRight, At
    <2>3. RenamesRight(c)' /\ DeletesRight(c)'
      BY <1>4, <2>1 DEF RenamesRight, DeletesRight, At
    <2> QED BY <2>2, <2>3 DEF Right
  <1>12. MineKept(c)
    BY <1>1, <1>9, <1>10, <1>11 DEF MineKept
  <1> QED BY <1>1, <1>5, <1>12, StepKeeps

LEMMA ZADDKeeps ==
    ASSUME StoreInv, NEW c \in Clients, SendZ(c), Sends(c, "ZADD")
    PROVE  StoreInv'
  <1>0. PICK p, x, k, q :
            /\ p = prog[c]
            /\ x = p[1]
            /\ k = x.key
            /\ q = Tail(p)
    OBVIOUS
  <1> USE <1>0
  <1>1. CallsInv /\ CallsInv'
    BY ZCalls DEF StoreInv
  <1>2. p # <<>> /\ x.do = "ZADD" /\ Continue(c, q) /\ hash' = hash
    BY <1>1, Sent DEF SendZ, Sends
  <1>3. /\ Shape(p, on[c]) /\ x \in Commands /\ 1 \in 1..Len(p) /\ Head(p) = x
        /\ k \in Keys /\ k \in on[c] /\ q \in Seq(Commands)
        /\ index \in [Sets -> [Keys -> Int \cup {Out}]] /\ on[c] \subseteq Keys
        /\ Len(q) = Len(p) - 1 /\ Len(p) \in Nat
        /\ \A i \in 1..Len(q) : i + 1 \in 1..Len(p) /\ q[i] = p[i + 1]
    BY <1>1, <1>2, Sent, First, InCall
  <1>4. x.set \in Sets /\ x.score \in Int /\ x.score # Out
    BY <1>2, <1>3, Fields, StoreAssumption
  <1>5. index' = [index EXCEPT ![x.set][k] = x.score]
    BY <1>2, <1>3, StoreAssumption DEF SendZ
  <1>6. /\ index'[x.set][k] = x.score
        /\ \A s \in Sets, l \in Keys : \/ s = x.set /\ l = k
                                       \/ index'[s][l] = index[s][l]
    BY <1>3, <1>4, <1>5
  <1>7. /\ prog'[c] = q /\ \A d \in Clients \ {c} : prog'[d] = prog[d]
        /\ q # <<>> => on' = on /\ overlapped' = overlapped /\ known' = known
    <2>1. q \in Seq(Commands)
      BY <1>3
    <2> QED BY <1>1, <1>2, <2>1, Continuing
  <1>8. \A s \in Sets, l \in Keys :
            /\ WillMend(s, l) => WillMend(s, l)' \/ (s = x.set /\ l = k)
            /\ WillUpdate(s, l) => WillUpdate(s, l)'
            /\ WillClear(s, l) => WillClear(s, l)'
    <2> TAKE s \in Sets, l \in Keys
    <2>1. /\ Mends(x, s, l) => s = x.set /\ l = k
          /\ ~Updates(x, s, l) /\ ~Clears(x, s, l)
      BY <1>2 DEF Mends, Adds, Deletes, ReadsNew, Updates, Clears, Removes, ReadsOld
    <2>2. /\ ToMend(p, s, l) => ToMend(q, s, l) \/ (s = x.set /\ l = k)
          /\ ToUpdate(p, s, l) => ToUpdate(q, s, l)
          /\ ToClear(p, s, l) => ToClear(q, s, l)
      BY <1>2, <1>3, <2>1, TailDoes
    <2> QED BY <1>7, <2>2, Pending
  <1>9. \A l \in on[c] : Held(l) => Held(l)'
    BY <1>2, <1>3, <1>4, <1>6, <1>8 DEF Held
  <1>10. ASSUME c \notin overlapped, NEW l \in on[c], Agreed(l) PROVE Agreed(l)'
    <2>1. AddsRight(c)
      BY <1>10 DEF StoreInv, Undisturbed, Right
    <2>2. hash[k] = Ghost \/ (hash[k] \in FileData /\ hash[k][x.set] = x.score)
      BY <1>2, <1>3, <2>1 DEF AddsRight, At
    <2>3. hash[k] # Missing
      BY <2>2, StoreAssumption
    <2>4. Ghost \notin FileData
      BY StoreAssumption
    <2>5. l \in Keys
      BY <1>3
    <2>6. ASSUME hash[l] \in FileData, NEW s \in Sets
          PROVE  index'[s][l] = hash[l][s] \/ WillMend(s, l)' \/ WillUpdate(s, l)'
      <3>1. CASE s = x.set /\ l = k
        BY <1>6, <2>2, <2>4, <2>6, <3>1
      <3>2. CASE ~(s = x.set /\ l = k)
        <4>1. index[s][l] = hash[l][s] \/ WillMend(s, l) \/ WillUpdate(s, l)
          BY <1>10, <2>6 DEF Agreed
        <4> QED BY <1>6, <1>8, <2>5, <3>2, <4>1
      <3> QED BY <3>1, <3>2
    <2>7. ASSUME hash[l] = Missing, NEW s \in Sets
          PROVE  index'[s][l] = Out \/ WillClear(s, l)'
      <3>1. index[s][l] = Out \/ WillClear(s, l)
        BY <1>10, <2>7 DEF Agreed
      <3> QED BY <1>6, <1>8, <2>3, <2>5, <2>7, <3>1
    <2> QED BY <1>2, <2>6, <2>7 DEF Agreed
  <1>11. ASSUME c \notin overlapped, q # <<>>
         PROVE  AddsRight(c)' /\ RenamesRight(c)' /\ DeletesRight(c)'
    <2>1. AddsRight(c) /\ RenamesRight(c)
      BY <1>11 DEF StoreInv, Undisturbed, Right
    <2>2. AddsRight(c)' /\ RenamesRight(c)'
      BY <1>1, <1>2, <1>7, <1>11, <2>1, TailRight
    <2>3. \A i \in 2..Len(p) : p[i].do # "DEL"
      BY <1>2, <1>3, NoDelete
    <2>4. \A i \in 1..Len(q) : i + 1 \in 2..Len(p)
      BY <1>3
    <2>5. DeletesRight(c)'
      BY <1>3, <1>7, <2>3, <2>4 DEF DeletesRight, At
    <2> QED BY <2>2, <2>5
  <1>12. \A l \in Keys \ on[c] : /\ hash'[l] = hash[l]
                                 /\ \A s \in Sets : index'[s][l] = index[s][l]
    BY <1>2, <1>3, <1>6
  <1> QED BY <1>1, <1>2, <1>3, <1>9, <1>10, <1>11, <1>12, ContinueKeeps

LEMMA ZREMKeeps ==
    ASSUME StoreInv, NEW c \in Clients, SendZ(c), Sends(c, "ZREM")
    PROVE  StoreInv'
  <1>0. PICK p, x, k, q :
            /\ p = prog[c]
            /\ x = p[1]
            /\ k = x.key
            /\ q = Tail(p)
    OBVIOUS
  <1> USE <1>0
  <1>1. CallsInv /\ CallsInv'
    BY ZCalls DEF StoreInv
  <1>2. p # <<>> /\ x.do = "ZREM" /\ Continue(c, q) /\ hash' = hash
    BY <1>1, Sent DEF SendZ, Sends
  <1>3. /\ Shape(p, on[c]) /\ x \in Commands /\ 1 \in 1..Len(p) /\ Head(p) = x
        /\ k \in on[c] \cup {NoKey} /\ q \in Seq(Commands)
        /\ index \in [Sets -> [Keys -> Int \cup {Out}]] /\ on[c] \subseteq Keys
        /\ Len(q) = Len(p) - 1 /\ Len(p) \in Nat
        /\ \A i \in 1..Len(q) : i + 1 \in 1..Len(p) /\ q[i] = p[i + 1]
    BY <1>1, <1>2, Sent, First, InCall
  <1>4. x.set \in Sets /\ NoKey \notin Keys
    BY <1>2, <1>3, Fields, StoreAssumption
  <1>5. index' = IF k = NoKey THEN index ELSE [index EXCEPT ![x.set][k] = Out]
    BY <1>2, <1>3 DEF SendZ
  <1>6. /\ k \in Keys => index'[x.set][k] = Out
        /\ \A s \in Sets, l \in Keys : \/ s = x.set /\ l = k
                                       \/ index'[s][l] = index[s][l]
    BY <1>3, <1>4, <1>5
  <1>7. /\ prog'[c] = q /\ \A d \in Clients \ {c} : prog'[d] = prog[d]
        /\ q # <<>> => on' = on /\ overlapped' = overlapped /\ known' = known
    <2>1. q \in Seq(Commands)
      BY <1>3
    <2> QED BY <1>1, <1>2, <2>1, Continuing
  <1>8. \A s \in Sets, l \in Keys :
            /\ WillMend(s, l) => WillMend(s, l)'
            /\ WillUpdate(s, l) => WillUpdate(s, l)'
            /\ WillClear(s, l) => WillClear(s, l)' \/ (s = x.set /\ l = k)
    <2> TAKE s \in Sets, l \in Keys
    <2>1. /\ ~Mends(x, s, l) /\ ~Updates(x, s, l)
          /\ Clears(x, s, l) => s = x.set /\ l = k
      BY <1>2 DEF Mends, Adds, Deletes, ReadsNew, Updates, Clears, Removes, ReadsOld
    <2>2. /\ ToMend(p, s, l) => ToMend(q, s, l)
          /\ ToUpdate(p, s, l) => ToUpdate(q, s, l)
          /\ ToClear(p, s, l) => ToClear(q, s, l) \/ (s = x.set /\ l = k)
      BY <1>2, <1>3, <2>1, TailDoes
    <2> QED BY <1>7, <2>2, Pending
  \* The key is put there again, or deleted, or its hash is gone already.
  <1>9. ASSUME c \notin overlapped \/ Cardinality(on[c]) # 2, k \in Keys,
               hash[k] \in FileData
        PROVE  WillMend(x.set, k)'
    <2>1. CASE Cardinality(on[c]) # 2
      <3>1. RemovesAndAdds(p)
        BY <1>3, <2>1, Numbers DEF Shape
      <3>2. PICK j \in 2..Len(p) : Adds(p[j], x.set, k) \/ Deletes(p[j], k)
        BY <1>2, <1>3, <3>1 DEF RemovesAndAdds
      <3>3. ToMend(q, x.set, k)
        BY <1>2, <1>3, <3>2, TailDoes DEF Mends
      <3> QED BY <1>4, <1>7, <1>9, <3>3, Pending
    <2>2. CASE c \notin overlapped /\ Cardinality(on[c]) = 2
      <3>1. RenamesRight(c)
        BY <2>2 DEF StoreInv, Undisturbed, Right
      <3>2. \E m, l \in Keys : m # l /\ on[c] = {m, l}
        BY <1>3, <2>2, Numbers
      <3>3. Gone(k)
        BY <1>2, <1>3, <3>1, <3>2 DEF RenamesRight, At
      <3> QED BY <1>4, <1>9, <3>3, StoreAssumption DEF Gone
    <2> QED BY <1>9, <2>1, <2>2
  <1>10. ASSUME c \notin overlapped \/ Cardinality(on[c]) # 2, NEW l \in on[c], Held(l)
         PROVE  Held(l)'
    <2>1. SUFFICES ASSUME hash[l] \in FileData, NEW s \in Sets
                   PROVE  index'[s][l] # Out \/ WillMend(s, l)'
      BY <1>2 DEF Held
    <2>2. index[s][l] # Out \/ WillMend(s, l)
      BY <1>10, <2>1 DEF Held
    <2>3. l \in Keys
      BY <1>3
    <2>4. CASE s = x.set /\ l = k
      BY <1>9, <1>10, <2>1, <2>3, <2>4
    <2>5. CASE ~(s = x.set /\ l = k)
      BY <1>6, <1>8, <2>2, <2>3, <2>5
    <2> QED BY <2>4, <2>5
  <1>11. ASSUME c \notin overlapped, NEW l \in on[c], Agreed(l) PROVE Agreed(l)'
    <2>1. l \in Keys
      BY <1>3
    <2>2. ASSUME hash[l] \in FileData, NEW s \in Sets
          PROVE  index'[s][l] = hash[l][s] \/ WillMend(s, l)' \/ WillUpdate(s, l)'
      <3>1. CASE s = x.set /\ l = k
        BY <1>9, <1>11, <2>1, <2>2, <3>1
      <3>2. CASE ~(s = x.set /\ l = k)
        <4>1. index[s][l] = hash[l][s] \/ WillMend(s, l) \/ WillUpdate(s, l)
          BY <1>11, <2>2 DEF Agreed
        <4> QED BY <1>6, <1>8, <2>1, <3>2, <4>1
      <3> QED BY <3>1, <3>2
    <2>3. ASSUME hash[l] = Missing, NEW s \in Sets
          PROVE  index'[s][l] = Out \/ WillClear(s, l)'
      <3>1. index[s][l] = Out \/ WillClear(s, l)
        BY <1>11, <2>3 DEF Agreed
      <3> QED BY <1>6, <1>8, <2>1, <3>1
    <2> QED BY <1>2, <2>2, <2>3 DEF Agreed
  <1>12. ASSUME c \notin overlapped, q # <<>>
         PROVE  AddsRight(c)' /\ RenamesRight(c)' /\ DeletesRight(c)'
    <2>1. AddsRight(c) /\ RenamesRight(c) /\ DeletesRight(c)
      BY <1>12 DEF StoreInv, Undisturbed, Right
    <2>2. AddsRight(c)' /\ RenamesRight(c)'
      BY <1>1, <1>2, <1>7, <1>12, <2>1, TailRight
    <2>3. DeletesRight(c)'
      <3> SUFFICES ASSUME NEW i \in 1..Len(q), q[i].do = "DEL", known[q[i].key] # Unknown,
                          NEW s \in Sets
                   PROVE  \/ index'[s][q[i].key] = Out
                          \/ \E j \in 1..Len(q) : Removes(q[j], s, q[i].key)
        BY <1>7, <1>12 DEF DeletesRight, At
      <3>1. i + 1 \in 1..Len(p) /\ q[i] = p[i + 1] /\ q[i] \in Commands
        BY <1>3
      <3>2. q[i].key \in Keys
        BY <3>1, Fields
      <3>3. \/ index[s][q[i].key] = Out
            \/ \E j \in 1..Len(p) : Removes(p[j], s, q[i].key)
        BY <1>2, <2>1, <3>1 DEF DeletesRight, At
      <3>4. CASE index[s][q[i].key] = Out
        BY <1>6, <3>2, <3>4
      <3>5. ASSUME NEW j \in 1..Len(p), Removes(p[j], s, q[i].key)
            PROVE  \/ index'[s][q[i].key] = Out
                   \/ \E m \in 1..Len(q) : Removes(q[m], s, q[i].key)
        <4>1. CASE j = 1
          BY <1>6, <3>2, <3>5, <4>1 DEF Removes
        <4>2. CASE j # 1
          <5>1. j - 1 \in 1..Len(q) /\ q[j - 1] = p[j]
            <6>1. j \in 2..Len(p)
              BY <1>3, <4>2
            <6> QED BY <1>2, <1>3, <6>1, First
          <5> QED BY <3>5, <5>1
        <4> QED BY <4>1, <4>2
      <3> QED BY <3>3, <3>4, <3>5
    <2> QED BY <2>2, <2>3
  <1>13. \A l \in Keys \ on[c] : /\ hash'[l] = hash[l]
                                 /\ \A s \in Sets : index'[s][l] = index[s][l]
    BY <1>2, <1>3, <1>4, <1>6
  <1> QED BY <1>1, <1>2, <1>3, <1>10, <1>11, <1>12, <1>13, ContinueKeeps

LEMMA RENAMEKeeps ==
    ASSUME StoreInv, NEW c \in Clients, SendRENAME(c)
    PROVE  StoreInv'
  <1>0. PICK p, x, k, l :
            /\ p = prog[c]
            /\ x = p[1]
            /\ k = x.key
            /\ l = x.to
    OBVIOUS
  <1> USE <1>0
  <1>14. PICK q : q = Tail(p)
    OBVIOUS
  <1>1. CallsInv /\ CallsInv'
    BY RENAMECalls DEF StoreInv
  <1>2. p # <<>> /\ x.do = "RENAME" /\ Continue(c, q) /\ index' = index
    BY <1>1, <1>14, Sent DEF SendRENAME, Sends
  <1>3. /\ Shape(p, on[c]) /\ x \in Commands /\ 1 \in 1..Len(p) /\ Head(p) = x
        /\ k \in Keys /\ k \in on[c] /\ q \in Seq(Commands) /\ hash \in [Keys -> Entries]
        /\ on[c] \subseteq Keys
        /\ Len(q) = Len(p) - 1 /\ Len(p) \in Nat
        /\ \A i \in 1..Len(q) : i + 1 \in 1..Len(p) /\ q[i] = p[i + 1]
    BY <1>1, <1>2, <1>14, Sent, First, InCall
  <1>4. /\ k # l /\ l \in Keys /\ l \in on[c]
        /\ Len(p) = 2 /\ p[2].do = "new" /\ p[2].key = l /\ p[2].old \in {k, NoKey}
    BY <1>2, <1>3, Fields DEF Shape, About, Renaming
  <1>5. on[c] = {k, l} /\ Cardinality(on[c]) = 2
    <2>1. PICK m, n \in Keys : m # n /\ on[c] = {m, n}
      BY <1>2, <1>3, OfTwo
    <2>2. on[c] = {k, l}
      BY <1>3, <1>4, <2>1
    <2>3. k # l
      BY <1>4
    <2>4. Cardinality({k, l}) = 2
      BY <2>3, OneIsNotTwo
    <2> QED BY <2>2, <2>4
  <1>6. hash' = IF hash[k] = Missing THEN hash
                ELSE [hash EXCEPT ![l] = hash[k], ![k] = Missing]
    BY <1>3 DEF SendRENAME
  <1>7. Len(q) = 1 /\ q[1] = p[2] /\ q # <<>>
    <2>1. Len(q) = 1
      BY <1>3, <1>4
    <2>2. Len(q) # 0 /\ 1 \in 1..Len(q)
      BY <2>1
    <2>3. q # <<>>
      <3> HIDE <1>0
      <3> QED BY <2>2, NotEmpty, Zenon
    <2>4. q[1] = p[1 + 1]
      BY <1>3, <2>2
    <2> QED BY <2>1, <2>3, <2>4
  <1>8. /\ prog'[c] = q /\ \A d \in Clients \ {c} : prog'[d] = prog[d] /\ on' = on
    <2>1. q \in Seq(Commands)
      BY <1>3
    <2> QED BY <1>1, <1>2, <1>7, <2>1, Continuing
  <1>9. \A s \in Sets, m \in Keys : /\ WillMend(s, m) => WillMend(s, m)'
                                    /\ WillUpdate(s, m) => WillUpdate(s, m)'
                                    /\ WillClear(s, m) => WillClear(s, m)'
    <2> TAKE s \in Sets, m \in Keys
    <2>1. ~Mends(x, s, m) /\ ~Updates(x, s, m) /\ ~Clears(x, s, m)
      BY <1>2 DEF Mends, Adds, Deletes, ReadsNew, Updates, Clears, Removes, ReadsOld
    <2>2. /\ ToMend(p, s, m) => ToMend(q, s, m)
          /\ ToUpdate(p, s, m) => ToUpdate(q, s, m)
          /\ ToClear(p, s, m) => ToClear(q, s, m)
      BY <1>2, <1>3, <1>14, <2>1, TailDoes
    <2> QED BY <1>8, <2>2, Pending
  <1>10. \A s \in Sets : WillMend(s, l)'
    <2> TAKE s \in Sets
    <2>1. Mends(q[1], s, l) /\ 1 \in 1..Len(q)
      BY <1>4, <1>7 DEF Mends, ReadsNew
    <2>2. ToMend(q, s, l)
      BY <2>1 DEF ToMend
    <2> QED BY <1>4, <1>8, <2>2, Pending
  <1>11. ASSUME c \notin overlapped
         PROVE  /\ (hash[k] = Missing) = (p[2].old = NoKey)
                /\ p[2].old = k => \A s \in Sets : WillClear(s, k)'
    <2>1. RenamesRight(c)
      BY <1>11 DEF StoreInv, Undisturbed, Right
    <2>2. (hash[k] = Missing) = (p[2].old = NoKey)
      BY <1>2, <1>3, <2>1 DEF RenamesRight, At
    <2>3. ASSUME p[2].old = k, NEW s \in Sets PROVE WillClear(s, k)'
      <3>1. Clears(q[1], s, k) /\ 1 \in 1..Len(q)
        BY <1>4, <1>7, <2>3 DEF Clears, ReadsOld
      <3>2. ToClear(q, s, k)
        BY <3>1 DEF ToClear
      <3> QED BY <1>3, <1>8, <3>2, Pending
    <2> QED BY <2>2, <2>3
  <1>12. CASE hash[k] = Missing
    <2>1. hash' = hash
      BY <1>6, <1>12
    <2>2. \A m \in on[c] : (Held(m) => Held(m)') /\ (Agreed(m) => Agreed(m)')
      BY <1>2, <1>3, <1>9, <2>1 DEF Held, Agreed
    <2>3. ASSUME c \notin overlapped
          PROVE  AddsRight(c)' /\ RenamesRight(c)' /\ DeletesRight(c)'
      <3>1. q[1].do = "new" /\ q[1].old = NoKey
        BY <1>4, <1>7, <1>11, <1>12, <2>3
      <3>2. \A i \in 1..Len(q) : i = 1
        BY <1>7
      <3> QED BY <1>8, <3>1, <3>2 DEF AddsRight, RenamesRight, DeletesRight, At, Gone
    <2> QED BY <1>1, <1>2, <1>3, <2>1, <2>2, <2>3, ContinueKeeps
  <1>13. CASE hash[k] # Missing
    <2>1. /\ hash'[l] = hash[k] /\ hash'[k] = Missing /\ Missing \notin FileData
          /\ \A m \in Keys \ on[c] : hash'[m] = hash[m]
      BY <1>3, <1>4, <1>5, <1>6, <1>13, StoreAssumption
    <2>2. Held(k)' /\ Held(l)'
      BY <1>10, <2>1 DEF Held
    <2>3. ASSUME c \notin overlapped PROVE p[2].old = k /\ Agreed(k)' /\ Agreed(l)'
      <3>1. p[2].old = k
        BY <1>4, <1>11, <1>13, <2>3
      <3>2. Agreed(k)'
        BY <1>11, <2>1, <2>3, <3>1 DEF Agreed
      <3>3. Agreed(l)'
        BY <1>10, <1>13, <2>1 DEF Agreed
      <3> QED BY <3>1, <3>2, <3>3
    <2>4. ASSUME c \notin overlapped
          PROVE  AddsRight(c)' /\ RenamesRight(c)' /\ DeletesRight(c)'
      <3>1. q[1].do = "new" /\ q[1].old = k
        BY <1>4, <1>7, <2>3, <2>4
      <3>2. \A i \in 1..Len(q) : i = 1
        BY <1>7
      <3> QED BY <1>8, <2>1, <3>1, <3>2 DEF AddsRight, RenamesRight, DeletesRight, At, Gone
    <2>5. \A m \in on[c] : Held(m)' /\ (c \notin overlapped => Agreed(m)')
      BY <1>5, <2>2, <2>3
    <2> QED BY <1>1, <1>2, <1>3, <2>1, <2>4, <2>5, ContinueKeeps
  <1> QED BY <1>12, <1>13

-----------------------------------------------------------------------------
(***************************************************************************)
(* What an HGETALL reads.                                                  *)
(***************************************************************************)

\* HGETALL changes nothing, and a call that goes on with q has as much to do as
\* before, or as much as it takes.
LEMMA ReadKeeps ==
    ASSUME StoreInv, CallsInv', NEW c \in Clients, prog[c] # <<>>, hash' = hash, index' = index,
           NEW q, q \in Seq(Commands), Continue(c, q),
           c \notin overlapped /\ q # <<>> =>
               AddsRight(c)' /\ RenamesRight(c)' /\ DeletesRight(c)',
           \A s \in Sets, k \in on[c] :
               /\ hash[k] \in FileData =>
                      /\ ToMend(prog[c], s, k) => ToMend(q, s, k)
                      /\ ToUpdate(prog[c], s, k) => ToUpdate(q, s, k) \/ ToMend(q, s, k)
               /\ hash[k] = Missing => (ToClear(prog[c], s, k) => ToClear(q, s, k))
    PROVE  StoreInv'
  <1>1. CallsInv
    BY DEF StoreInv
  <1>2. /\ prog'[c] = q /\ \A d \in Clients \ {c} : prog'[d] = prog[d]
        /\ on[c] \subseteq Keys
    BY <1>1, Continuing
  <1>3. \A s \in Sets, k \in on[c] :
            /\ hash[k] \in FileData => /\ WillMend(s, k) => WillMend(s, k)'
                                       /\ WillUpdate(s, k) => \/ WillUpdate(s, k)'
                                                              \/ WillMend(s, k)'
            /\ hash[k] = Missing => (WillClear(s, k) => WillClear(s, k)')
    <2> TAKE s \in Sets, k \in on[c]
    <2>1. k \in Keys
      BY <1>2
    <2>2. /\ WillMend(s, k) => WillMend(s, k)' \/ ToMend(prog[c], s, k)
          /\ WillUpdate(s, k) => WillUpdate(s, k)' \/ ToUpdate(prog[c], s, k)
          /\ WillClear(s, k) => WillClear(s, k)' \/ ToClear(prog[c], s, k)
          /\ ToMend(q, s, k) => WillMend(s, k)'
          /\ ToUpdate(q, s, k) => WillUpdate(s, k)'
          /\ ToClear(q, s, k) => WillClear(s, k)'
      BY <1>2, <2>1, Pending
    <2> QED BY <2>2
  <1>4. \A k \in on[c] : Held(k) => Held(k)'
    BY <1>3 DEF Held
  <1>5. \A k \in on[c] : Agreed(k) => Agreed(k)'
    BY <1>3 DEF Agreed
  <1> QED BY <1>4, <1>5, ContinueKeeps

\* The file that an update or a deletion is about is missing.
LEMMA MissKeeps ==
    ASSUME StoreInv, CallsInv', NEW c \in Clients, prog[c] # <<>>, hash' = hash, index' = index,
           prog[c][1].do \in {"update", "gone"}, hash[prog[c][1].key] = Missing,
           Continue(c, Tail(prog[c]))
    PROVE  StoreInv'
  <1>0. PICK p, x, k, q :
            /\ p = prog[c]
            /\ x = p[1]
            /\ k = x.key
            /\ q = Tail(p)
    OBVIOUS
  <1> USE <1>0
  <1>1. CallsInv
    BY DEF StoreInv
  <1>2. /\ Shape(p, on[c]) /\ 1 \in 1..Len(p) /\ q \in Seq(Commands)
        /\ Len(q) = Len(p) - 1 /\ Len(p) \in Nat
        /\ \A i \in 1..Len(q) : i + 1 \in 1..Len(p) /\ q[i] = p[i + 1]
    BY <1>1, Sent, First
  <1>3. k \in Keys /\ on[c] = {k}
    BY <1>2, OfOne
  <1>4. /\ prog'[c] = q
        /\ q # <<>> => on' = on /\ known' = known
    BY <1>1, <1>2, Continuing
  <1>5. \A s \in Sets : ToClear(p, s, k) => ToClear(q, s, k)
    <2> TAKE s \in Sets
    <2>1. ~Clears(x, s, k)
      BY DEF Clears, Removes, ReadsOld
    <2> QED BY <1>2, <2>1, TailDoes
  <1>6. ASSUME c \notin overlapped, q # <<>>
        PROVE  AddsRight(c)' /\ RenamesRight(c)' /\ DeletesRight(c)'
    <2>1. AddsRight(c) /\ RenamesRight(c)
      BY <1>6 DEF StoreInv, Undisturbed, Right
    <2>2. AddsRight(c)' /\ RenamesRight(c)'
      BY <1>1, <1>4, <1>6, <2>1, TailRight
    <2>3. CASE x.do = "update"
      <3>1. \A i \in 2..Len(p) : p[i].do # "DEL"
        BY <1>2, <2>3, NoDelete
      <3>2. \A i \in 1..Len(q) : i + 1 \in 2..Len(p)
        BY <1>2
      <3> QED BY <1>2, <1>4, <2>2, <3>1, <3>2 DEF DeletesRight, At
    <2>4. CASE x.do = "gone"
      <3>1. Len(p) = 2 /\ p[2].do = "DEL" /\ p[2].key = k
        BY <1>2, <2>4, GoneShape
      \* The file was in no set, and nobody else has removed it since.
      <3>2. ASSUME known[k] # Unknown, NEW s \in Sets PROVE index[s][k] = Out
        <4>1. index[s][k] = Out \/ WillClear(s, k)
          BY <1>3, <3>2 DEF StoreInv, Fresh, FreshAt, Agreed
        <4>2. ~ToClear(p, s, k)
          <5>1. \A i \in 1..Len(p) : i = 1 \/ i = 2
            BY <3>1
          <5> QED BY <2>4, <3>1, <5>1 DEF ToClear, Clears, Removes, ReadsOld
        <4>3. \A d \in Clients \ {c} : ~ToClear(prog[d], s, k)
          BY <1>1, <1>3, <1>6, Alone
        <4> QED BY <4>1, <4>2, <4>3 DEF WillClear
      <3>3. \A i \in 1..Len(q) : q[i].key = k
        <4> TAKE i \in 1..Len(q)
        <4>1. i + 1 = 2 /\ q[i] = p[i + 1]
          BY <1>2, <3>1
        <4> QED BY <3>1, <4>1
      <3>4. DeletesRight(c)'
        BY <1>4, <1>6, <3>2, <3>3 DEF DeletesRight, At
      <3> QED BY <2>2, <3>4
    <2> QED BY <2>3, <2>4
  <1>7. Missing \notin FileData
    BY StoreAssumption
  <1>8. \A s \in Sets, m \in on[c] :
            /\ hash[m] \notin FileData
            /\ ToClear(prog[c], s, m) => ToClear(q, s, m)
    BY <1>3, <1>5, <1>7
  <1>9. q \in Seq(Commands) /\ Continue(c, q)
    BY <1>2
  <1> QED BY <1>6, <1>8, <1>9, ReadKeeps

\* What a call goes on with.
AfterGone(p) == DeleteFileFromAllSets(p[1].key) \o Tail(p)
GoneGoesOn(q, p, ks) ==
    /\ Shape(q, ks) /\ Len(q) = 5
    /\ \A i \in 1..4 : q[i].do = "ZREM" /\ q[i].key = p[1].key
    /\ \A s \in Sets : \E i \in 1..4 : q[i].set = s
    /\ q[5].do = "DEL" /\ q[5].key = p[1].key
    /\ Len(p) = 2 /\ p[2].do = "DEL" /\ p[2].key = p[1].key

LEMMA Updated ==
    ASSUME NEW p, NEW ks, Shape(p, ks), p # <<>>, p[1].do = "update", NEW fd \in FileData,
           NEW q, q = AfterUpdate(p, fd)
    PROVE  /\ Shape(q, ks) /\ Len(q) = Len(p) + 1
           /\ q[1].do = "ZREM" /\ q[1].set = p[1].set /\ q[1].key = p[1].key
           /\ q[2].do = "ZADD" /\ q[2].set = p[1].set /\ q[2].key = p[1].key
           /\ q[2].score = fd[p[1].set]
           /\ \A i \in 3..Len(q) : i - 1 \in 2..Len(p) /\ q[i] = p[i - 1]
           /\ \A i \in 2..Len(p) : i + 1 \in 3..Len(q) /\ q[i + 1] = p[i]
  <1>1. UpdateGoesOn(q, p, ks, fd)
    BY UpdateShape
  <1> QED BY <1>1 DEF UpdateGoesOn

LEMMA Going ==
    ASSUME NEW p, NEW ks, Shape(p, ks), p # <<>>, p[1].do = "gone"
    PROVE  GoneGoesOn(AfterGone(p), p, ks)
  BY GoneShape DEF AfterGone, GoneGoesOn

LEMMA RenamedTo ==
    ASSUME NEW p, NEW ks, Shape(p, ks), p # <<>>, p[1].do = "new", NEW fd \in FileData
    PROVE  RenameGoesOn(AfterNew(p, fd), p, ks, fd)
  BY NewShape

LEMMA RenamedAway ==
    ASSUME NEW p, NEW ks, Shape(p, ks), p # <<>>, p[1].do = "new",
           NEW q, q = DeleteFileFromAllSets(p[1].old)
    PROVE  /\ Shape(q, ks) /\ Len(q) = 4
           /\ \A i \in 1..4 : q[i].do = "ZREM" /\ q[i].key = p[1].old
           /\ \A s \in Sets : \E i \in 1..4 : q[i].set = s
  BY NewShape

LEMMA UpdateKeeps ==
    ASSUME StoreInv, CallsInv', NEW c \in Clients, prog[c] # <<>>, hash' = hash, index' = index,
           prog[c][1].do = "update", hash[prog[c][1].key] \in FileData,
           Continue(c, AfterUpdate(prog[c], hash[prog[c][1].key]))
    PROVE  StoreInv'
  <1>0. PICK p, x, k, fd, q :
            /\ p = prog[c]
            /\ x = p[1]
            /\ k = x.key
            /\ fd = hash[k]
            /\ q = AfterUpdate(p, fd)
    OBVIOUS
  <1> USE <1>0
  <1>1. CallsInv
    BY DEF StoreInv
  <1>2. Shape(p, on[c]) /\ 1 \in 1..Len(p) /\ Len(p) \in Nat /\ Len(p) >= 1 /\ x \in Commands
    BY <1>1, Sent, First
  <1>3. /\ k \in Keys /\ on[c] = {k} /\ ~ \E m, l \in Keys : m # l /\ on[c] = {m, l}
        /\ \A j \in 1..Len(p) : p[j].do \notin {"old", "RENAME", "new"}
    BY <1>2, OfOne
  <1>4. /\ Shape(q, on[c]) /\ Len(q) = Len(p) + 1
        /\ q[1].do = "ZREM" /\ q[1].set = x.set /\ q[1].key = k
        /\ q[2].do = "ZADD" /\ q[2].set = x.set /\ q[2].key = k
        /\ q[2].score = fd[x.set]
        /\ \A i \in 3..Len(q) : i - 1 \in 2..Len(p) /\ q[i] = p[i - 1]
        /\ \A i \in 2..Len(p) : i + 1 \in 3..Len(q) /\ q[i + 1] = p[i]
    <2>1. UpdateGoesOn(q, p, on[c], fd)
      BY <1>2, UpdateShape
    <2> QED BY <2>1 DEF UpdateGoesOn
  <1>5. q \in Seq(Commands) /\ q # <<>>
    <2>1. q \in Seq(Commands)
      BY <1>4 DEF Shape
    <2>2. Len(p) \in Nat /\ Len(p) >= 1
      BY <1>2
    <2>3. Len(q) = Len(p) + 1
      BY <1>4
    <2>4. Len(q) # 0
      BY <2>2, <2>3
    <2> QED BY <2>1, <2>4, NotEmpty
  <1>6. prog'[c] = q /\ on' = on /\ known' = known
    BY <1>1, <1>5, Continuing
  <1>7. /\ \A i \in 1..Len(q) : i = 1 \/ i = 2 \/ i \in 3..Len(q)
        /\ \A i \in 1..Len(p) : i = 1 \/ i \in 2..Len(p)
        /\ \A i \in 2..Len(p) : i \in 1..Len(p)
        /\ 2 \in 1..Len(q)
        /\ \A i \in 3..Len(q) : i \in 1..Len(q)
    <2>1. Len(p) \in Nat /\ Len(p) >= 1
      BY <1>2
    <2>2. Len(q) = Len(p) + 1
      BY <1>4
    <2> QED BY <2>1, <2>2
  <1>8. \A s \in Sets : /\ ToMend(p, s, k) => ToMend(q, s, k)
                        /\ ToUpdate(p, s, k) => ToUpdate(q, s, k) \/ ToMend(q, s, k)
    <2> TAKE s \in Sets
    <2>1. ASSUME NEW i \in 1..Len(p), Mends(p[i], s, k) PROVE ToMend(q, s, k)
      <3>1. i # 1
        BY <2>1 DEF Mends, Adds, Deletes, ReadsNew
      <3>2. i + 1 \in 1..Len(q) /\ q[i + 1] = p[i]
        BY <1>4, <1>7, <3>1
      <3> QED BY <2>1, <3>2 DEF ToMend
    <2>2. ASSUME NEW i \in 1..Len(p), Updates(p[i], s, k)
          PROVE  ToUpdate(q, s, k) \/ ToMend(q, s, k)
      <3>1. CASE i = 1
        <4>1. Mends(q[2], s, k)
          BY <1>4, <2>2, <3>1 DEF Updates, Mends, Adds
        <4> QED BY <1>7, <4>1 DEF ToMend
      <3>2. CASE i # 1
        <4>1. i + 1 \in 1..Len(q) /\ q[i + 1] = p[i]
          BY <1>4, <1>7, <3>2
        <4> QED BY <2>2, <4>1 DEF ToUpdate
      <3> QED BY <3>1, <3>2
    <2> QED BY <2>1, <2>2 DEF ToMend, ToUpdate
  <1>9. ASSUME c \notin overlapped
        PROVE  AddsRight(c)' /\ RenamesRight(c)' /\ DeletesRight(c)'
    <2>1. AddsRight(c)
      BY <1>9 DEF StoreInv, Undisturbed, Right
    <2>2. AddsRight(c)'
      <3> SUFFICES ASSUME NEW i \in 1..Len(q), q[i].do = "ZADD"
                   PROVE  \/ hash[q[i].key] = Ghost
                          \/ /\ hash[q[i].key] \in FileData
                             /\ hash[q[i].key][q[i].set] = q[i].score
        BY <1>6 DEF AddsRight, At
      <3>1. CASE i = 1
        BY <1>4, <3>1
      <3>2. CASE i = 2
        BY <1>4, <3>2
      <3>3. CASE i \in 3..Len(q)
        <4>1. i - 1 \in 1..Len(p) /\ q[i] = p[i - 1]
          BY <1>4, <1>7, <3>3
        <4> QED BY <2>1, <4>1 DEF AddsRight, At
      <3> QED BY <1>7, <3>1, <3>2, <3>3
    <2>3. \A i \in 1..Len(q) : q[i].do \notin {"RENAME", "new"}
      <3> TAKE i \in 1..Len(q)
      <3>1. CASE i \in 3..Len(q)
        <4>1. i - 1 \in 1..Len(p) /\ q[i] = p[i - 1]
          BY <1>4, <1>7, <3>1
        <4> QED BY <1>3, <4>1
      <3> QED BY <1>4, <1>7, <3>1
    <2>4. RenamesRight(c)'
      BY <1>3, <1>6, <2>3 DEF RenamesRight, At
    <2>5. \A i \in 1..Len(q) : q[i].do # "DEL"
      <3> TAKE i \in 1..Len(q)
      <3>1. CASE i \in 3..Len(q)
        <4>1. i - 1 \in 2..Len(p) /\ q[i] = p[i - 1]
          BY <1>4, <3>1
        <4> QED BY <1>2, <4>1, NoDelete
      <3> QED BY <1>4, <1>7, <3>1
    <2>6. DeletesRight(c)'
      BY <1>6, <2>5 DEF DeletesRight, At
    <2> QED BY <2>2, <2>4, <2>6
  <1>10. fd # Missing /\ Continue(c, q)
    BY StoreAssumption
  <1>11. hash[k] # Missing
    BY <1>10
  <1>12. \A s \in Sets, m \in on[c] :
             /\ hash[m] # Missing
             /\ ToMend(prog[c], s, m) => ToMend(q, s, m)
             /\ ToUpdate(prog[c], s, m) => ToUpdate(q, s, m) \/ ToMend(q, s, m)
    BY <1>3, <1>8, <1>11
  <1>13. q \in Seq(Commands)
    BY <1>5
  <1> QED BY <1>9, <1>10, <1>12, <1>13, ReadKeeps

LEMMA GoneKeeps ==
    ASSUME StoreInv, CallsInv', NEW c \in Clients, prog[c] # <<>>, hash' = hash, index' = index,
           prog[c][1].do = "gone", hash[prog[c][1].key] \in FileData,
           Continue(c, AfterGone(prog[c]))
    PROVE  StoreInv'
  <1>0. PICK p, k, q :
            /\ p = prog[c]
            /\ k = p[1].key
            /\ q = AfterGone(p)
    OBVIOUS
  <1> USE <1>0
  <1>1. CallsInv
    BY DEF StoreInv
  <1>2. Shape(p, on[c]) /\ 1 \in 1..Len(p)
    BY <1>1, Sent
  <1>3. k \in Keys /\ on[c] = {k} /\ ~ \E m, l \in Keys : m # l /\ on[c] = {m, l}
    BY <1>2, OfOne
  <1>4. /\ Shape(q, on[c]) /\ Len(q) = 5
        /\ \A i \in 1..4 : q[i].do = "ZREM" /\ q[i].key = k
        /\ \A s \in Sets : \E i \in 1..4 : q[i].set = s
        /\ q[5].do = "DEL" /\ q[5].key = k
        /\ Len(p) = 2 /\ p[2].do = "DEL" /\ p[2].key = k
    <2>1. GoneGoesOn(q, p, on[c])
      BY <1>2, Going
    <2> QED BY <2>1 DEF GoneGoesOn
  <1>5. q \in Seq(Commands) /\ q # <<>>
    <2>1. q \in Seq(Commands)
      BY <1>4 DEF Shape
    <2> QED BY <1>4, <2>1
  <1>6. prog'[c] = q /\ on' = on
    BY <1>1, <1>5, Continuing
  <1>7. \A i \in 1..Len(q) : i \in 1..4 \/ i = 5
    BY <1>4
  <1>8. 5 \in 1..Len(q) /\ \A i \in 1..4 : i \in 1..Len(q)
    BY <1>4
  <1>9. \A s \in Sets : ToMend(q, s, k)
    BY <1>4, <1>8 DEF ToMend, Mends, Deletes
  <1>10. AddsRight(c)' /\ RenamesRight(c)' /\ DeletesRight(c)'
    <2>1. \A i \in 1..Len(q) : q[i].do \in {"ZREM", "DEL"} /\ q[i].key = k
      BY <1>4, <1>7
    <2>2. AddsRight(c)' /\ RenamesRight(c)'
      BY <1>3, <1>6, <2>1 DEF AddsRight, RenamesRight, At
    <2>3. \A s \in Sets : \E j \in 1..Len(q) : Removes(q[j], s, k)
      BY <1>4, <1>8 DEF Removes
    <2>4. DeletesRight(c)'
      BY <1>6, <2>1, <2>3 DEF DeletesRight, At
    <2> QED BY <2>2, <2>4
  <1>11. \A s \in Sets : ToUpdate(p, s, k) => ToMend(q, s, k)
    BY <1>9
  <1>12. hash[k] # Missing /\ Continue(c, q)
    BY StoreAssumption
  <1>13. \A s \in Sets, m \in on[c] : hash[m] # Missing /\ ToMend(q, s, m)
    BY <1>3, <1>9, <1>12
  <1>14. q \in Seq(Commands)
    BY <1>5
  <1> QED BY <1>10, <1>12, <1>13, <1>14, ReadKeeps

LEMMA OldKeeps ==
    ASSUME StoreInv, CallsInv', NEW c \in Clients, prog[c] # <<>>, hash' = hash, index' = index,
           prog[c][1].do = "old", NEW oldKey,
           \/ hash[prog[c][1].key] \in FileData /\ oldKey = prog[c][1].key
           \/ hash[prog[c][1].key] = Missing /\ oldKey = NoKey,
           Continue(c, RenameFrom(prog[c][1].key, prog[c][1].to, oldKey))
    PROVE  StoreInv'
  <1>0. PICK p, k, l, q :
            /\ p = prog[c]
            /\ k = p[1].key
            /\ l = p[1].to
            /\ q = RenameFrom(k, l, oldKey)
    OBVIOUS
  <1> USE <1>0
  <1>1. CallsInv
    BY DEF StoreInv
  <1>2. Shape(p, on[c]) /\ 1 \in 1..Len(p) /\ k \in Keys
    BY <1>1, Sent
  <1>3. /\ Shape(q, on[c]) /\ Len(q) = 2
        /\ q[1].do = "RENAME" /\ q[1].key = k /\ q[1].to = l
        /\ q[2].do = "new" /\ q[2].key = l /\ q[2].old = oldKey
        /\ Len(p) = 1
    <2>1. oldKey \in {k, NoKey}
      OBVIOUS
    <2>2. OldGoesOn(q, p, on[c], oldKey)
      BY <1>2, <2>1, OldShape
    <2> QED BY <2>2 DEF OldGoesOn
  <1>4. Continue(c, q)
    OBVIOUS
  <1>5. q \in Seq(Commands) /\ q # <<>>
    <2>1. q \in Seq(Commands)
      BY <1>3 DEF Shape
    <2> QED BY <1>3, <2>1
  <1>6. prog'[c] = q /\ on' = on
    BY <1>1, <1>4, <1>5, Continuing
  <1>7. \A s \in Sets, m \in Keys : ~ToMend(p, s, m) /\ ~ToUpdate(p, s, m) /\ ~ToClear(p, s, m)
    <2>1. \A i \in 1..Len(p) : p[i].do = "old"
      BY <1>3
    <2>2. \A s \in Sets, m \in Keys : ~ToMend(p, s, m)
      BY <2>1 DEF ToMend, Mends, Adds, Deletes, ReadsNew
    <2>3. \A s \in Sets, m \in Keys : ~ToUpdate(p, s, m)
      BY <2>1 DEF ToUpdate, Updates
    <2>4. \A s \in Sets, m \in Keys : ~ToClear(p, s, m)
      BY <2>1 DEF ToClear, Clears, Removes, ReadsOld, Deletes
    <2> QED BY <2>2, <2>3, <2>4
  <1>8. \A i \in 1..Len(q) : i = 1 \/ i = 2
    BY <1>3
  <1>9. (hash[k] = Missing) = (oldKey = NoKey)
    BY <1>2, StoreAssumption
  <1>10. AddsRight(c)' /\ RenamesRight(c)' /\ DeletesRight(c)'
    <2>1. \A i \in 1..Len(q) : q[i].do \in {"RENAME", "new"} /\ (i = 1 => q[i].do = "RENAME")
      BY <1>3, <1>8
    <2>2. AddsRight(c)' /\ DeletesRight(c)'
      BY <1>6, <2>1 DEF AddsRight, DeletesRight, At
    <2>3. \A i \in 1..Len(q) : q[i].do = "RENAME" => q[i].key = k
      BY <1>3, <1>8
    <2>4. q[2].old = oldKey /\ hash' = hash
      BY <1>3
    <2>5. RenamesRight(c)'
      <3> HIDE <1>0
      <3> QED BY <1>6, <1>9, <2>1, <2>3, <2>4 DEF RenamesRight, At
    <2> QED BY <2>2, <2>5
  <1>11. on[c] \subseteq Keys
    BY <1>1, InCall
  <1> QED BY <1>4, <1>5, <1>7, <1>10, <1>11, ReadKeeps

\* The sets lose the old name, and get the new one if there is a file of that name.
LEMMA NewKeeps ==
    ASSUME StoreInv, CallsInv', NEW c \in Clients, prog[c] # <<>>, hash' = hash, index' = index,
           prog[c][1].do = "new", NEW q, Continue(c, q),
           \/ /\ hash[prog[c][1].key] \in FileData
              /\ q = AfterNew(prog[c], hash[prog[c][1].key])
           \/ /\ hash[prog[c][1].key] = Missing
              /\ q = DeleteFileFromAllSets(prog[c][1].old)
    PROVE  StoreInv'
  <1>0. PICK p, k, l :
            /\ p = prog[c]
            /\ k = p[1].old
            /\ l = p[1].key
    OBVIOUS
  <1> USE <1>0
  <1>1. CallsInv
    BY DEF StoreInv
  <1>2. Shape(p, on[c]) /\ 1 \in 1..Len(p) /\ Len(p) = 1 /\ l \in Keys
    BY <1>1, Sent, NewShape
  <1>3. /\ Shape(q, on[c]) /\ Len(q) \in Nat /\ Len(q) >= 4
        /\ \A i \in 1..4 : q[i].do = "ZREM" /\ q[i].key = k
        /\ \A i \in 5..Len(q) : /\ q[i].do = "ZADD" /\ q[i].key = l
                                /\ hash[l] \in FileData /\ q[i].score = hash[l][q[i].set]
        /\ \A s \in Sets : \E i \in 1..4 : q[i].set = s
        /\ hash[l] \in FileData => \A s \in Sets : \E i \in 5..Len(q) : q[i].set = s
    <2>1. CASE hash[l] = Missing
      <3>1. q = DeleteFileFromAllSets(k) /\ Missing \notin FileData
        BY <2>1, StoreAssumption
      <3>2. /\ Shape(q, on[c]) /\ Len(q) = 4
            /\ \A i \in 1..4 : q[i].do = "ZREM" /\ q[i].key = k
            /\ \A s \in Sets : \E i \in 1..4 : q[i].set = s
        <4>1. p # <<>> /\ p[1].do = "new"
          BY <1>0
        <4>2. q = DeleteFileFromAllSets(p[1].old)
          BY <1>0, <3>1
        <4>3. Shape(p, on[c])
          BY <1>2
        <4> QED BY <4>1, <4>2, <4>3, RenamedAway
      <3>3. \A n : n = 4 => n \in Nat /\ n >= 4 /\ 5..n = {}
        OBVIOUS
      <3> QED BY <2>1, <3>1, <3>2, <3>3
    <2>2. CASE hash[l] \in FileData
      <3>1. q = AfterNew(p, hash[l])
        BY <2>2, StoreAssumption
      <3>2. /\ Shape(q, on[c]) /\ Len(q) = 8
            /\ \A i \in 1..4 : q[i].do = "ZREM" /\ q[i].key = k
            /\ \A i \in 5..8 : /\ q[i].do = "ZADD" /\ q[i].key = l
                               /\ q[i].set \in Sets /\ q[i].score = hash[l][q[i].set]
            /\ \A s \in Sets : \E i \in 1..4 : q[i].set = s
            /\ \A s \in Sets : \E i \in 5..8 : q[i].set = s
        <4>1. RenameGoesOn(q, p, on[c], hash[l])
          BY <1>2, <2>2, <3>1, NewShape
        <4> QED BY <4>1 DEF RenameGoesOn
      <3>3. \A n : n = 8 => n \in Nat /\ n >= 4 /\ 5..n = 5..8
        OBVIOUS
      <3> QED BY <2>2, <3>2, <3>3
    <2> QED BY <2>1, <2>2
  <1>4. q \in Seq(Commands) /\ q # <<>>
    <2>1. q \in Seq(Commands)
      BY <1>3 DEF Shape
    <2>2. Len(q) # 0
      BY <1>3
    <2> QED BY <2>1, <2>2
  <1>5. prog'[c] = q /\ on' = on
    BY <1>1, <1>4, Continuing
  <1>6. /\ \A i \in 1..Len(q) : i \in 1..4 \/ i \in 5..Len(q)
        /\ \A i \in 1..4 : i \in 1..Len(q)
        /\ \A i \in 5..Len(q) : i \in 1..Len(q)
        /\ ~ (1 \in 5..Len(q))
    BY <1>3
  <1>7. \A s \in Sets, m \in Keys :
            /\ ToMend(p, s, m) => m = l
            /\ ~ToUpdate(p, s, m)
            /\ ToClear(p, s, m) => m = k
    BY <1>2 DEF ToMend, ToUpdate, ToClear, Mends, Adds, Deletes, ReadsNew, Updates,
                Clears, Removes, ReadsOld
  <1>8. ASSUME NEW s \in Sets
        PROVE  /\ hash[l] \in FileData => ToMend(q, s, l)
               /\ ToClear(q, s, k)
    <2>1. ToClear(q, s, k)
      <3>1. PICK i \in 1..4 : q[i].set = s
        BY <1>3
      <3>2. Clears(q[i], s, k) /\ i \in 1..Len(q)
        BY <1>3, <1>6, <3>1 DEF Clears, Removes
      <3> QED BY <3>2 DEF ToClear
    <2>2. ASSUME hash[l] \in FileData PROVE ToMend(q, s, l)
      <3>1. PICK i \in 5..Len(q) : q[i].set = s
        BY <1>3, <2>2
      <3>2. Mends(q[i], s, l) /\ i \in 1..Len(q)
        BY <1>3, <1>6, <3>1 DEF Mends, Adds
      <3> QED BY <3>2 DEF ToMend
    <2> QED BY <2>1, <2>2
  <1>9. ASSUME c \notin overlapped
        PROVE  AddsRight(c)' /\ RenamesRight(c)' /\ DeletesRight(c)'
    <2>1. RenamesRight(c)
      BY <1>9 DEF StoreInv, Undisturbed, Right
    <2>2. Gone(k)
      BY <1>2, <2>1 DEF RenamesRight, At
    <2>3. Gone(k)'
      BY <2>2 DEF Gone
    <2>4. \A i \in 1..Len(q) : /\ q[i].do \notin {"RENAME", "new", "DEL"}
                               /\ q[i].do = "ZREM" => q[i].key = k
                               /\ q[i].do = "ZADD" =>
                                      /\ q[i].key = l /\ hash[l] \in FileData
                                      /\ q[i].score = hash[l][q[i].set]
      BY <1>3, <1>6
    <2> QED BY <1>5, <2>3, <2>4 DEF AddsRight, RenamesRight, DeletesRight, At
  <1>10. on[c] \subseteq Keys
    BY <1>1, InCall
  <1> QED BY <1>4, <1>7, <1>8, <1>9, <1>10, ReadKeeps

LEMMA HGETALLKeeps ==
    ASSUME StoreInv, NEW c \in Clients, SendHGETALL(c)
    PROVE  StoreInv'
  <1>0. PICK p, x, fd :
            /\ p = prog[c]
            /\ x = p[1]
            /\ fd = hash[x.key]
    OBVIOUS
  <1> USE <1>0
  <1>1. CallsInv /\ CallsInv'
    BY HGETALLCalls DEF StoreInv
  <1>2. p # <<>> /\ hash' = hash /\ index' = index
    BY DEF SendHGETALL, Reads, Misses, Sends, redis
  <1>3. Head(p) = x
    BY <1>1, <1>2, Sent
  <1>4. \/ /\ x.do = "update" /\ fd \in FileData
           /\ Continue(c, AfterUpdate(p, fd))
        \/ x.do \in {"update", "gone"} /\ fd = Missing /\ Continue(c, Tail(p))
        \/ /\ x.do = "gone" /\ fd \in FileData
           /\ Continue(c, AfterGone(p))
        \/ /\ x.do = "old" /\ fd \in FileData
           /\ Continue(c, RenameFrom(x.key, x.to, x.key))
        \/ /\ x.do = "old" /\ fd = Missing
           /\ Continue(c, RenameFrom(x.key, x.to, NoKey))
        \/ /\ x.do = "new" /\ fd \in FileData
           /\ Continue(c, AfterNew(p, fd))
        \/ /\ x.do = "new" /\ fd = Missing
           /\ Continue(c, DeleteFileFromAllSets(x.old))
    BY <1>3 DEF SendHGETALL, Reads, Misses, Sends, AfterUpdate, AfterGone, AfterNew
  <1>5. ASSUME x.do = "update", fd \in FileData,
               Continue(c, AfterUpdate(p, fd))
        PROVE  StoreInv'
    BY <1>1, <1>2, <1>5, UpdateKeeps
  <1>6. ASSUME x.do \in {"update", "gone"}, fd = Missing, Continue(c, Tail(p))
        PROVE  StoreInv'
    BY <1>1, <1>2, <1>6, MissKeeps
  <1>7. ASSUME x.do = "gone", fd \in FileData,
               Continue(c, AfterGone(p))
        PROVE  StoreInv'
    BY <1>1, <1>2, <1>7, GoneKeeps
  <1>8. ASSUME x.do = "old", NEW o, Continue(c, RenameFrom(x.key, x.to, o)),
               (fd \in FileData /\ o = x.key) \/ (fd = Missing /\ o = NoKey)
        PROVE  StoreInv'
    BY <1>1, <1>2, <1>8, OldKeeps
  <1>9. ASSUME x.do = "new", NEW q, Continue(c, q),
               \/ /\ fd \in FileData
                  /\ q = AfterNew(p, fd)
               \/ fd = Missing /\ q = DeleteFileFromAllSets(x.old)
        PROVE  StoreInv'
    BY <1>1, <1>2, <1>9, NewKeeps
  <1> QED BY <1>4, <1>5, <1>6, <1>7, <1>8, <1>9

-----------------------------------------------------------------------------
(***************************************************************************)
(* The beginning and the end of calls, and queries.                        *)
(***************************************************************************)

LEMMA AbortKeeps ==
    ASSUME StoreInv, NEW c \in Clients, Abort(c)
    PROVE  StoreInv'
  <1>1. CallsInv /\ CallsInv'
    BY Aborted DEF StoreInv
  <1>2. /\ prog' = [prog EXCEPT ![c] = <<>>] /\ on' = [on EXCEPT ![c] = {}]
        /\ overlapped' = overlapped \ {c} /\ known' = Forget(on[c])
        /\ strayed' = strayed \cup on[c] /\ hash' = hash /\ index' = index
    BY DEF Abort, redis
  <1>3. /\ prog \in [Clients -> Seq(Commands)] /\ on \in [Clients -> SUBSET Keys]
        /\ on[c] \subseteq Keys /\ overlapped \subseteq Clients
    BY <1>1 DEF CallsInv, StoreTypes, TypeOK
  <1>4. /\ prog'[c] = <<>> /\ \A d \in Clients \ {c} : prog'[d] = prog[d] /\ on'[d] = on[d]
        /\ \A k \in on[c] : known'[k] = Unknown
        /\ \A k \in Keys \ on[c] : known'[k] = known[k]
    BY <1>2, <1>3 DEF Forget
  <1>5. Elsewhere(c)
    BY <1>2, <1>3, <1>4 DEF Elsewhere
  <1>6. At(c)' = {}
    BY <1>4 DEF At
  <1>7. Right(c)'
    BY <1>6 DEF Right, AddsRight, RenamesRight, DeletesRight
  <1>8. \A k \in on[c] : CoveredAt(k)' /\ FreshAt(k)'
    BY <1>2, <1>4 DEF CoveredAt, FreshAt
  <1> QED BY <1>1, <1>5, <1>7, <1>8, StepKeeps DEF MineKept

\* The step that begins a call changes nothing but what is known.
LEMMA CallKeeps ==
    ASSUME StoreInv, NEW c \in Clients, NEW ks \in SUBSET Keys, ks # {},
           NEW p, Opening(p, ks), Call(c, ks, p)
    PROVE  StoreInv'
  <1> DEFINE met == {d \in Clients : on[d] \cap ks # {}}
  <1>1. CallsInv /\ CallsInv'
    BY Called DEF StoreInv
  <1>2. /\ prog' = [prog EXCEPT ![c] = p] /\ on' = [on EXCEPT ![c] = ks]
        /\ hash' = hash /\ index' = index /\ strayed' = strayed
        /\ prog[c] = <<>>
        /\ IF met = {} THEN overlapped' = overlapped /\ known' = known
           ELSE /\ overlapped' = overlapped \cup met \cup {c}
                /\ known' = Forget(ks \cup UNION {on[d] : d \in met})
    BY DEF Call, Idle, redis
  <1>3. /\ prog \in [Clients -> Seq(Commands)] /\ on \in [Clients -> SUBSET Keys]
        /\ known \in [Keys -> Entries \cup {Unknown}] /\ on[c] = {}
        /\ overlapped \subseteq {d \in Clients : on[d] # {}}
    BY <1>1, <1>2 DEF CallsInv, StoreTypes, TypeOK
  <1>4. /\ prog'[c] = p /\ \A d \in Clients \ {c} : prog'[d] = prog[d] /\ on'[d] = on[d]
        /\ overlapped \subseteq overlapped' /\ c \notin overlapped
        /\ overlapped \subseteq Clients
    BY <1>2, <1>3
  <1>5. \A k \in Keys : known'[k] # Unknown => known[k] # Unknown
    BY <1>2, <1>3 DEF Forget
  <1>6. \A s \in Sets, k \in Keys : /\ WillMend(s, k) => WillMend(s, k)'
                                    /\ WillUpdate(s, k) => WillUpdate(s, k)'
                                    /\ WillClear(s, k) => WillClear(s, k)'
    <2> TAKE s \in Sets, k \in Keys
    <2>1. ~ToMend(prog[c], s, k) /\ ~ToUpdate(prog[c], s, k) /\ ~ToClear(prog[c], s, k)
      <3>1. 1..Len(prog[c]) = {}
        BY <1>2
      <3> QED BY <3>1 DEF ToMend, ToUpdate, ToClear
    <2> QED BY <1>4, <2>1, Pending
  <1>7. Covered'
    <2> SUFFICES ASSUME NEW k \in Keys PROVE CoveredAt(k)'
      BY DEF Covered
    <2>1. Muddled(k) => Muddled(k)'
      <3> SUFFICES ASSUME NEW d \in overlapped, k \in on[d], Cardinality(on[d]) = 2
                   PROVE  Muddled(k)'
        BY DEF Muddled
      <3>1. d \in Clients \ {c} /\ d \in overlapped'
        BY <1>4
      <3> QED BY <1>4, <3>1 DEF Muddled
    <2>2. CoveredAt(k)
      BY DEF StoreInv, Covered
    <2> QED BY <1>2, <1>6, <2>1, <2>2 DEF CoveredAt, Held
  <1>8. Fresh'
    <2> SUFFICES ASSUME NEW k \in Keys PROVE FreshAt(k)'
      BY DEF Fresh
    <2>1. FreshAt(k)
      BY DEF StoreInv, Fresh
    <2> QED BY <1>2, <1>5, <1>6, <2>1 DEF FreshAt, Agreed
  <1>9. Undisturbed'
    <2> SUFFICES ASSUME NEW d \in Clients PROVE Right(d)'
      BY DEF Undisturbed
    <2>1. CASE d = c
      BY <1>4, <2>1 DEF Opening, Starts, Right, AddsRight, RenamesRight, DeletesRight, At
    <2>2. CASE d # c
      <3> SUFFICES ASSUME d \notin overlapped'
                   PROVE  (AddsRight(d) /\ RenamesRight(d) /\ DeletesRight(d))'
        BY DEF Right
      <3>1. /\ AddsRight(d) /\ RenamesRight(d) /\ DeletesRight(d)
            /\ prog'[d] = prog[d] /\ on'[d] = on[d]
        BY <1>4, <2>2 DEF StoreInv, Undisturbed, Right
      <3>2. AddsRight(d)'
        BY <1>2, <3>1 DEF AddsRight, At
      <3>3. RenamesRight(d)'
        BY <1>2, <3>1 DEF RenamesRight, At, Gone
      <3>4. DeletesRight(d)'
        <4> SUFFICES ASSUME NEW i \in At(d), prog[d][i].do = "DEL",
                            known'[prog[d][i].key] # Unknown, NEW s \in Sets
                     PROVE  \/ index[s][prog[d][i].key] = Out
                            \/ \E j \in At(d) : Removes(prog[d][j], s, prog[d][i].key)
                            \/ prog[d][1].do = "gone"
          BY <1>2, <3>1 DEF DeletesRight, At
        <4>1. prog[d][i].key \in Keys
          BY <1>1, Own
        <4>2. known[prog[d][i].key] # Unknown
          BY <1>5, <4>1
        <4> QED BY <3>1, <4>2 DEF DeletesRight
      <3> QED BY <3>2, <3>3, <3>4
    <2> QED BY <2>1, <2>2
  <1> QED BY <1>1, <1>7, <1>8, <1>9 DEF StoreInv

LEMMA BeginKeeps ==
    ASSUME StoreInv, NEW c \in Clients, Begin(c)
    PROVE  StoreInv'
  <1>1. PICK k \in Keys, t \in Times :
        \/ \E n \in Sizes : Call(c, {k}, SetFileSize(k, n, t))
        \/ \E flag \in {0, 1} : Call(c, {k}, SetIsLocal(k, flag))
        \/ Call(c, {k}, SetIsOpen(k))
        \/ Call(c, {k}, SetOther(k, t))
        \/ Call(c, {k}, UpdateLastTimeModified(k, t))
        \/ Call(c, {k}, IncrementTimesAccessed(k, t))
        \/ \E fd \in Written : Call(c, {k}, HMSET(k, fd))
        \/ Call(c, {k}, DeleteFile(k))
        \/ \E l \in Keys \ {k} : Call(c, {k, l}, RENAME(k, l))
    BY DEF Begin
  <1>2. {k} \in SUBSET Keys /\ {k} # {}
    OBVIOUS
  <1>3. ASSUME NEW n \in Sizes, Call(c, {k}, SetFileSize(k, n, t)) PROVE StoreInv'
    BY <1>2, <1>3, CallKeeps, TouchShape
  <1>4. ASSUME NEW flag \in {0, 1}, Call(c, {k}, SetIsLocal(k, flag)) PROVE StoreInv'
    BY <1>2, <1>4, CallKeeps, CallShape
  <1>5. ASSUME Call(c, {k}, SetIsOpen(k)) PROVE StoreInv'
    BY <1>2, <1>5, CallKeeps, CallShape
  <1>6. ASSUME Call(c, {k}, SetOther(k, t)) PROVE StoreInv'
    BY <1>2, <1>6, CallKeeps, TouchShape
  <1>7. ASSUME Call(c, {k}, UpdateLastTimeModified(k, t)) PROVE StoreInv'
    BY <1>2, <1>7, CallKeeps, TouchShape
  <1>8. ASSUME Call(c, {k}, IncrementTimesAccessed(k, t)) PROVE StoreInv'
    BY <1>2, <1>8, CallKeeps, CallShape
  <1>9. ASSUME NEW fd \in Written, Call(c, {k}, HMSET(k, fd)) PROVE StoreInv'
    BY <1>2, <1>9, CallKeeps, HMSETShape
  <1>10. ASSUME Call(c, {k}, DeleteFile(k)) PROVE StoreInv'
    BY <1>2, <1>10, CallKeeps, CallShape
  <1>11. ASSUME NEW l \in Keys \ {k}, Call(c, {k, l}, RENAME(k, l)) PROVE StoreInv'
    <2>1. {k, l} \in SUBSET Keys /\ {k, l} # {}
      OBVIOUS
    <2> QED BY <2>1, <1>11, CallKeeps, CallShape
  <1> QED BY <1>1, <1>3, <1>4, <1>5, <1>6, <1>7, <1>8, <1>9, <1>10, <1>11

LEMMA SameStore ==
    ASSUME StoreInv, CallsInv', UNCHANGED <<hash, index, prog, on, known, overlapped, strayed>>
    PROVE  StoreInv'
  <1>1. Undisturbed'
    <2>1. \A c \in Clients : Right(c) => Right(c)'
      BY DEF Right, AddsRight, RenamesRight, DeletesRight, At, Gone
    <2> QED BY <2>1 DEF StoreInv, Undisturbed
  <1>2. \A s, k : /\ WillMend(s, k)' <=> WillMend(s, k)
                  /\ WillUpdate(s, k)' <=> WillUpdate(s, k)
                  /\ WillClear(s, k)' <=> WillClear(s, k)
    BY DEF WillMend, WillUpdate, WillClear
  <1>3. \A k : Muddled(k)' <=> Muddled(k)
    BY DEF Muddled
  <1>4. Covered'
    BY <1>2, <1>3 DEF StoreInv, Covered, CoveredAt, Held
  <1>5. Fresh'
    BY <1>2 DEF StoreInv, Fresh, FreshAt, Agreed
  <1> QED BY <1>1, <1>4, <1>5 DEF StoreInv

LEMMA InitStore == Init => StoreInv
  <1> SUFFICES ASSUME Init PROVE StoreInv
    OBVIOUS
  <1>1. /\ hash = [k \in Keys |-> Missing] /\ index = [s \in Sets |-> [k \in Keys |-> Out]]
        /\ prog = [c \in Clients |-> <<>>]
    BY DEF Init
  <1>2. \A c \in Clients : At(c) = {}
    BY <1>1 DEF At
  <1>3. Undisturbed
    BY <1>2 DEF Undisturbed, Right, AddsRight, RenamesRight, DeletesRight
  <1>4. Missing \notin FileData
    BY StoreAssumption
  <1>5. Covered /\ Fresh
    BY <1>1, <1>4 DEF Covered, CoveredAt, Held, Fresh, FreshAt, Agreed
  <1> QED BY <1>3, <1>5, InitCalls DEF StoreInv

LEMMA NextStore == StoreInv /\ [Next]_vars => StoreInv'
  <1> SUFFICES ASSUME StoreInv, [Next]_vars PROVE StoreInv'
    OBVIOUS
  <1>1. CallsInv /\ CallsInv'
    BY NextCalls DEF StoreInv
  <1>2. CASE UNCHANGED vars
    <2>1. UNCHANGED <<hash, index, prog, on, known, overlapped, strayed>>
      BY <1>2 DEF vars, redis
    <2> QED BY <1>1, <2>1, SameStore
  <1>3. ASSUME NEW c \in Clients,
               \/ Begin(c)
               \/ SendHSET(c) \/ SendHGET(c) \/ SendHMSET(c) \/ SendDEL(c) \/ SendZ(c)
               \/ SendHGETALL(c) \/ DieOfHGETALL(c) \/ SendRENAME(c)
               \/ Kill(c)
               \/ \E q \in Queries : Ask(c, q)
               \/ ReadFound(c) \/ DieOfQuery(c) \/ EndQuery(c)
        PROVE  StoreInv'
    <2>1. CASE DieOfHGETALL(c) \/ Kill(c) \/ DieOfQuery(c)
      BY <2>1, AbortKeeps DEF DieOfHGETALL, Kill, DieOfQuery
    <2>2. CASE SendZ(c)
      <3>1. Sends(c, "ZADD") \/ Sends(c, "ZREM")
        BY <2>2 DEF SendZ
      <3> QED BY <2>2, <3>1, ZADDKeeps, ZREMKeeps
    <2>3. CASE (\E q \in Queries : Ask(c, q)) \/ ReadFound(c) \/ EndQuery(c)
      BY <1>1, <2>3, QueryCalls, SameStore
    <2> QED BY <1>3, <2>1, <2>2, <2>3, BeginKeeps, HSETKeeps, HGETKeeps, HMSETKeeps,
               DELKeeps, HGETALLKeeps, RENAMEKeeps
  <1> QED BY <1>2, <1>3 DEF Next

-----------------------------------------------------------------------------
\* Every call has still to send what mends what it has broken so far.
THEOREM CallsMend == Spec => []StoreInv
  BY InitStore, NextStore, PTL DEF Spec

\* Nobody is at work on a file at rest, so that nothing is left to be sent for it.
LEMMA NothingPending ==
    ASSUME CallsInv, NEW k \in Keys, AtRest(k)
    PROVE  /\ ~Muddled(k)
           /\ \A s \in Sets : ~WillMend(s, k) /\ ~WillUpdate(s, k) /\ ~WillClear(s, k)
  <1>1. \A c \in Clients : k \notin on[c]
    BY DEF AtRest
  <1>2. ~Muddled(k)
    BY <1>1 DEF Muddled, CallsInv, StoreTypes, TypeOK
  <1>3. ASSUME NEW s \in Sets, NEW c \in Clients
        PROVE  ~ToMend(prog[c], s, k) /\ ~ToUpdate(prog[c], s, k) /\ ~ToClear(prog[c], s, k)
    BY <1>1, NotMine
  <1> QED BY <1>2, <1>3 DEF WillMend, WillUpdate, WillClear

\* A file that has a hash is in all four sorted sets when nobody is at work on it,
\* however the setters, creations and deletions of it have overlapped.
THEOREM NothingDropsOut == Spec => []NothingGetsLost
  <1>1. StoreInv => NothingGetsLost
    <2> SUFFICES ASSUME StoreInv, NEW k \in Keys \ strayed, AtRest(k), hash[k] \in FileData,
                        NEW s \in Sets
                 PROVE  index[s][k] # Out
      BY DEF NothingGetsLost
    <2>1. ~Muddled(k) /\ ~WillMend(s, k)
      BY NothingPending DEF StoreInv
    <2> QED BY <2>1 DEF StoreInv, Covered, CoveredAt, Held
  <1> QED BY <1>1, CallsMend, PTL

LEMMA AgreesAtRest ==
    ASSUME StoreInv, NEW k \in Keys, AtRest(k), known[k] # Unknown
    PROVE  /\ hash[k] \in FileData => \A s \in Sets : index[s][k] = hash[k][s]
           /\ hash[k] = Missing => \A s \in Sets : index[s][k] = Out
  <1>1. \A s \in Sets : ~WillMend(s, k) /\ ~WillUpdate(s, k) /\ ~WillClear(s, k)
    BY NothingPending DEF StoreInv
  <1>2. Agreed(k)
    BY DEF StoreInv, Fresh, FreshAt
  <1> QED BY <1>1, <1>2 DEF Agreed

\* The sorted sets have the scores of the hash, or nothing without a hash, once
\* calls that have met no other are through with a file.
THEOREM SetsAgree == Spec => []IndexAgrees
  <1>1. StoreInv => IndexAgrees
    BY AgreesAtRest DEF IndexAgrees
  <1> QED BY <1>1, CallsMend, PTL

-----------------------------------------------------------------------------
(***************************************************************************)
(* Queries.                                                                *)
(***************************************************************************)

\* No process leaves the files of its call.
OnlyOwn(c) ==
    /\ \A k \in Keys \ on[c] : hash'[k] = hash[k] /\ known'[k] = known[k]
    /\ \A d \in Clients : on'[d] \subseteq on[d]
    /\ \A d \in Clients : query'[d] # None => query'[d] = query[d] /\ touched'[d] = touched[d]

LEMMA ContinueOwn ==
    ASSUME CallsInv, NEW c \in Clients, prog[c] # <<>>, NEW p, Continue(c, p),
           \A k \in Keys \ on[c] : hash'[k] = hash[k]
    PROVE  OnlyOwn(c)
  <1>1. /\ query' = query /\ touched' = touched
        /\ on \in [Clients -> SUBSET Keys] /\ known \in [Keys -> Entries \cup {Unknown}]
    BY DEF Continue, CallsInv, StoreTypes, TypeOK
  <1>2. CASE p # <<>>
    BY <1>1, <1>2 DEF Continue, OnlyOwn
  <1>3. CASE p = <<>>
    <2>1. /\ on' = [on EXCEPT ![c] = {}]
          /\ known' = IF \E k \in on[c] : known[k] = Unknown THEN Forget(on[c])
                      ELSE [k \in Keys |-> IF k \in on[c] THEN hash'[k] ELSE known[k]]
      BY <1>3 DEF Continue
    <2>2. \A k \in Keys \ on[c] : known'[k] = known[k]
      BY <1>1, <2>1 DEF Forget
    <2> QED BY <1>1, <2>1, <2>2 DEF OnlyOwn
  <1> QED BY <1>2, <1>3

\* Every command is about the files of its call.
LEMMA SendsOwn ==
    ASSUME CallsInv, NEW c \in Clients,
           \/ SendHSET(c) \/ SendHGET(c) \/ SendHMSET(c) \/ SendDEL(c) \/ SendZ(c)
           \/ SendHGETALL(c) \/ SendRENAME(c)
    PROVE  OnlyOwn(c)
  <1> DEFINE x == Head(prog[c])
  <1>1. prog[c] # <<>>
    BY DEF SendHSET, SendHGET, SendHMSET, SendDEL, SendZ, SendHGETALL, SendRENAME,
           Sends, Reads, Misses
  <1>2. /\ x \in Commands /\ Shape(prog[c], on[c]) /\ x = prog[c][1] /\ 1 \in 1..Len(prog[c])
        /\ x.do # "ZREM" => x.key \in on[c] /\ x.key \in Keys
        /\ hash \in [Keys -> Entries] /\ known \in [Keys -> Entries \cup {Unknown}]
    BY <1>1, Sent
  <1>3. CASE SendHSET(c)
    <2>1. \A k \in Keys \ on[c] : hash'[k] = hash[k]
      BY <1>2, <1>3 DEF SendHSET, Sends
    <2> QED BY <1>1, <1>3, <2>1, ContinueOwn DEF SendHSET
  <1>4. CASE SendHGET(c)
    BY <1>1, <1>4, ContinueOwn DEF SendHGET, redis
  <1>5. CASE SendHMSET(c)
    <2> DEFINE new == IF hash[x.key] = Ghost THEN Ghost ELSE x.data
    <2>1. /\ x.do = "HMSET" /\ hash' = [hash EXCEPT ![x.key] = new]
          /\ on' = on /\ query' = query /\ touched' = touched
          /\ known' = known \/ known' = [known EXCEPT ![x.key] = new]
      BY <1>5 DEF SendHMSET
    <2>2. x.key \in on[c]
      BY <1>2, <2>1
    <2> HIDE DEF x, new
    <2>3. \A k \in Keys \ on[c] : hash'[k] = hash[k] /\ known'[k] = known[k]
      BY <1>2, <2>1, <2>2
    <2> QED BY <2>1, <2>3 DEF OnlyOwn
  <1>6. CASE SendDEL(c)
    <2>1. \A k \in Keys \ on[c] : hash'[k] = hash[k]
      BY <1>2, <1>6 DEF SendDEL, Sends
    <2> QED BY <1>1, <1>6, <2>1, ContinueOwn DEF SendDEL
  <1>7. CASE SendZ(c)
    BY <1>1, <1>7, ContinueOwn DEF SendZ
  <1>8. CASE SendHGETALL(c)
    <2>1. hash' = hash /\ \E p : Continue(c, p)
      BY <1>8 DEF SendHGETALL, redis
    <2> QED BY <1>1, <2>1, ContinueOwn
  <1>9. CASE SendRENAME(c)
    <2>1. /\ x.do = "RENAME" /\ Continue(c, Tail(prog[c]))
          /\ hash' = IF hash[x.key] = Missing THEN hash
                     ELSE [hash EXCEPT ![x.to] = hash[x.key], ![x.key] = Missing]
      BY <1>9 DEF SendRENAME, Sends
    <2>2. x.key \in on[c] /\ x.to \in on[c]
      BY <1>2, <2>1 DEF Shape, About
    <2> HIDE DEF x
    <2>3. \A k \in Keys \ on[c] : hash'[k] = hash[k]
      BY <1>2, <2>1, <2>2
    <2> QED BY <1>1, <2>1, <2>3, ContinueOwn
  <1> QED BY <1>3, <1>4, <1>5, <1>6, <1>7, <1>8, <1>9

Asking == [what : Queries, found : SUBSET Keys, result : SUBSET (Keys \X FileData)]

LEMMA OwnAsked ==
    ASSUME CallsInv, Asked, NEW c \in Clients, OnlyOwn(c)
    PROVE  Asked'
  <1> SUFFICES ASSUME NEW d \in Clients, query'[d] # None
               PROVE  /\ query'[d] \in Asking
                      /\ \A k \in Keys \ touched'[d] :
                             AtRest(k)' /\ (known'[k] # Unknown => Answers(d, k)')
    BY DEF Asked, Asking
  <1>1. query'[d] = query[d] /\ touched'[d] = touched[d]
    BY DEF OnlyOwn
  <1>2. /\ query[d] \in Asking
        /\ \A k \in Keys \ touched[d] : AtRest(k) /\ (known[k] # Unknown => Answers(d, k))
    BY <1>1 DEF Asked, Asking
  <1>3. ASSUME NEW k \in Keys \ touched[d]
        PROVE  AtRest(k)' /\ (known'[k] # Unknown => Answers(d, k)')
    <2>1. \A e \in Clients : k \notin on[e]
      BY <1>2 DEF AtRest
    <2>2. AtRest(k)'
      BY <2>1 DEF AtRest, OnlyOwn
    <2>3. hash'[k] = hash[k] /\ known'[k] = known[k]
      BY <2>1 DEF OnlyOwn
    <2> QED BY <1>1, <1>2, <2>2, <2>3 DEF Answers
  <1> QED BY <1>1, <1>2, <1>3

\* A query that sets out finds what the sets have, and they agree with the hashes.
LEMMA AskAsked ==
    ASSUME StoreInv, Asked, NEW c \in Clients, NEW q \in Queries, Ask(c, q)
    PROVE  Asked'
  <1>1. /\ query' = [query EXCEPT ![c] =
                         [what |-> q, found |-> RangeByScore(q), result |-> {}]]
        /\ touched' = [touched EXCEPT ![c] = UNION Range(on)]
        /\ hash' = hash /\ index' = index /\ on' = on /\ known' = known
    BY DEF Ask, redis
  <1>2. /\ CallsInv /\ query = [d \in Clients |-> query[d]]
        /\ touched \in [Clients -> SUBSET Keys] /\ on \in [Clients -> SUBSET Keys]
    BY DEF StoreInv, CallsInv, StoreTypes, TypeOK
  <1>3. /\ query'[c].what = q /\ query'[c].found = RangeByScore(q) /\ query'[c].result = {}
        /\ touched'[c] = UNION Range(on)
        /\ \A d \in Clients \ {c} : query'[d] = query[d] /\ touched'[d] = touched[d]
    <2>1. query'[c] = [what |-> q, found |-> RangeByScore(q), result |-> {}]
      BY <1>1, <1>2
    <2> QED BY <1>1, <1>2, <2>1
  <1>4. \A k : AtRest(k)' <=> AtRest(k)
    BY <1>1 DEF AtRest
  <1>5. ASSUME NEW k \in Keys \ touched'[c]
        PROVE  AtRest(k) /\ (known[k] # Unknown => Answers(c, k)')
    <2>1. AtRest(k)
      BY <1>2, <1>3 DEF AtRest, Range
    <2>2. ASSUME known[k] # Unknown PROVE Answers(c, k)'
      <3>1. hash[k] \in FileData => \A s \in Sets : index[s][k] = hash[k][s]
        BY <2>1, <2>2, AgreesAtRest
      <3>2. q.set \in Sets
        BY StoreAssumption
      <3>3. hash[k] \in FileData => (k \in RangeByScore(q) <=> InRange(hash[k][q.set], q))
        BY <3>1, <3>2 DEF RangeByScore
      <3>4. {r \in query'[c].result : r[1] = k} = {}
        BY <1>3
      <3> QED BY <1>1, <1>3, <3>3, <3>4 DEF Answers
    <2> QED BY <2>1, <2>2
  <1>6. ASSUME NEW d \in Clients \ {c}, query'[d] # None, NEW k \in Keys \ touched'[d]
        PROVE  AtRest(k) /\ (known[k] # Unknown => Answers(d, k)')
    BY <1>1, <1>3, <1>6 DEF Asked, Answers
  <1>7. \A d \in Clients : query'[d] # None => query'[d] \in Asking
    <2>1. query'[c] \in Asking
      <3>1. query'[c] = [what |-> q, found |-> RangeByScore(q), result |-> {}]
        BY <1>1, <1>2
      <3>2. RangeByScore(q) \in SUBSET Keys
        BY DEF RangeByScore
      <3> QED BY <3>1, <3>2 DEF Asking
    <2> QED BY <1>3, <2>1 DEF Asked, Asking
  <1>8. ASSUME NEW d \in Clients, query'[d] # None, NEW k \in Keys \ touched'[d]
        PROVE  AtRest(k)' /\ (known'[k] # Unknown => Answers(d, k)')
    BY <1>1, <1>4, <1>5, <1>6, <1>8
  <1> QED BY <1>7, <1>8 DEF Asked, Asking

LEMMA ReadAsked ==
    ASSUME StoreInv, Asked, NEW c \in Clients, ReadFound(c)
    PROVE  Asked'
  <1>1. PICK k \in query[c].found :
            /\ hash[k] # Ghost
            /\ query' = [query EXCEPT
                   ![c].found = @ \ {k},
                   ![c].result = IF hash[k] = Missing THEN @ ELSE @ \cup {<<k, hash[k]>>}]
    BY DEF ReadFound
  <1>2. /\ query[c] # None /\ hash' = hash /\ on' = on /\ known' = known /\ touched' = touched
        /\ query = [d \in Clients |-> query[d]] /\ hash \in [Keys -> Entries]
    BY DEF ReadFound, redis, StoreInv, CallsInv, StoreTypes, TypeOK
  <1>3. query[c] \in Asking /\ k \in Keys
    BY <1>2 DEF Asked, Asking
  <1> DEFINE result == query[c].result
             more == IF hash[k] = Missing THEN result ELSE result \cup {<<k, hash[k]>>}
  <1>4. /\ \A d \in Clients \ {c} : query'[d] = query[d]
        /\ query'[c] = [query[c] EXCEPT !.found = @ \ {k}, !.result = more]
    BY <1>1, <1>2
  <1>5. more \in SUBSET (Keys \X FileData)
    <2>1. hash[k] = Missing \/ hash[k] \in FileData
      BY <1>1, <1>2, <1>3 DEF Entries
    <2> QED BY <1>3, <2>1 DEF Asking
  <1>6. /\ query'[c] \in Asking
        /\ query'[c].what = query[c].what /\ query'[c].found = query[c].found \ {k}
        /\ query'[c].result = more
    <2> HIDE DEF more
    <2> QED BY <1>3, <1>4, <1>5 DEF Asking
  <1>7. \A l : AtRest(l)' <=> AtRest(l)
    BY <1>2 DEF AtRest
  <1>8. ASSUME NEW l \in Keys \ touched[c]
        PROVE  AtRest(l) /\ (known[l] # Unknown => Answers(c, l)')
    <2>1. AtRest(l)
      BY <1>2, <1>8 DEF Asked
    <2>2. SUFFICES ASSUME known[l] # Unknown PROVE Answers(c, l)'
      BY <2>1
    <2> DEFINE hit == hash[l] \in FileData /\ InRange(hash[l][query[c].what.set], query[c].what)
    <2>3. /\ {r \in result : r[1] = l} =
                 IF hit /\ l \notin query[c].found THEN {<<l, hash[l]>>} ELSE {}
          /\ l \in query[c].found /\ hash[l] \in FileData => hit
      BY <1>2, <1>8, <2>2 DEF Asked, Answers
    <2>4. {r \in more : r[1] = l} =
              IF hit /\ l \notin query[c].found \ {k} THEN {<<l, hash[l]>>} ELSE {}
      <3>1. CASE l # k
        <4>1. {r \in more : r[1] = l} = {r \in result : r[1] = l}
          BY <3>1
        <4> QED BY <2>3, <3>1, <4>1
      <3>2. CASE l = k /\ hash[k] = Missing
        <4>1. ~hit
          BY <3>2, StoreAssumption
        <4> QED BY <2>3, <3>2, <4>1
      <3>3. CASE l = k /\ hash[k] # Missing
        <4>1. hash[l] \in FileData /\ hit
          BY <1>1, <1>2, <1>3, <2>3, <3>3 DEF Entries
        <4>2. {r \in result : r[1] = l} = {}
          BY <1>1, <2>3, <3>3
        <4>3. {r \in more : r[1] = l} = {<<l, hash[l]>>}
          BY <3>3, <4>2
        <4> QED BY <3>3, <4>1, <4>3
      <3> QED BY <3>1, <3>2, <3>3
    <2>5. l \in query[c].found \ {k} /\ hash[l] \in FileData => hit
      BY <2>3
    <2> HIDE DEF more
    <2> QED BY <1>2, <1>6, <2>4, <2>5 DEF Answers
  <1>9. ASSUME NEW d \in Clients, query'[d] # None
        PROVE  /\ query'[d] \in Asking
               /\ \A l \in Keys \ touched'[d] :
                      AtRest(l)' /\ (known'[l] # Unknown => Answers(d, l)')
    <2>1. CASE d = c
      BY <1>2, <1>6, <1>7, <1>8, <2>1
    <2>2. CASE d # c
      <3>1. query'[d] = query[d] /\ query[d] # None
        BY <1>4, <1>9, <2>2
      <3> QED BY <1>2, <1>7, <3>1 DEF Asked, Asking, Answers
    <2> QED BY <2>1, <2>2
  <1> QED BY <1>9 DEF Asked, Asking

\* A call takes its files from what is promised to those who are asking.
LEMMA CallAsked ==
    ASSUME CallsInv, Asked, NEW c \in Clients, NEW ks, NEW p, Call(c, ks, p)
    PROVE  Asked'
  <1>1. /\ on' = [on EXCEPT ![c] = ks] /\ query' = query /\ hash' = hash
        /\ touched' = [d \in Clients |-> IF query[d] = None THEN {} ELSE touched[d] \cup ks]
        /\ on \in [Clients -> SUBSET Keys] /\ known \in [Keys -> Entries \cup {Unknown}]
    BY DEF Call, redis, CallsInv, StoreTypes, TypeOK
  <1>2. \A k \in Keys : known'[k] # Unknown => known[k] # Unknown
    BY <1>1 DEF Call, Forget
  <1>3. ASSUME NEW d \in Clients, query[d] # None
        PROVE  /\ query[d] \in Asking
               /\ \A k \in Keys \ touched'[d] :
                      AtRest(k)' /\ (known'[k] # Unknown => Answers(d, k)')
    <2>1. touched'[d] = touched[d] \cup ks
      BY <1>1, <1>3
    <2>2. \A k \in Keys \ touched'[d] : AtRest(k)'
      BY <1>1, <1>3, <2>1 DEF Asked, AtRest
    <2>3. ASSUME NEW k \in Keys \ touched'[d], known'[k] # Unknown PROVE Answers(d, k)'
      <3>1. Answers(d, k)
        BY <1>2, <1>3, <2>1, <2>3 DEF Asked
      <3> QED BY <1>1, <3>1 DEF Answers
    <2> QED BY <1>3, <2>2, <2>3 DEF Asked, Asking
  <1> QED BY <1>1, <1>3 DEF Asked, Asking

LEMMA QuietAsked ==
    ASSUME CallsInv, Asked, NEW c \in Clients, Abort(c) \/ EndQuery(c)
    PROVE  Asked'
  <1>1. CASE Abort(c)
    <2>1. /\ on' = [on EXCEPT ![c] = {}] /\ query' = [query EXCEPT ![c] = None]
          /\ touched' = [touched EXCEPT ![c] = {}] /\ known' = Forget(on[c]) /\ hash' = hash
          /\ on \in [Clients -> SUBSET Keys] /\ known \in [Keys -> Entries \cup {Unknown}]
          /\ query = [d \in Clients |-> query[d]] /\ touched \in [Clients -> SUBSET Keys]
      BY <1>1 DEF Abort, redis, CallsInv, StoreTypes, TypeOK
    <2>2. OnlyOwn(c)
      BY <2>1 DEF OnlyOwn, Forget
    <2> QED BY <2>2, OwnAsked
  <1>2. CASE EndQuery(c)
    <2>1. /\ query' = [query EXCEPT ![c] = None] /\ touched' = [touched EXCEPT ![c] = {}]
          /\ hash' = hash /\ on' = on /\ known' = known
          /\ query = [d \in Clients |-> query[d]] /\ touched \in [Clients -> SUBSET Keys]
      BY <1>2 DEF EndQuery, redis, CallsInv, StoreTypes
    <2>2. OnlyOwn(c)
      BY <2>1 DEF OnlyOwn
    <2> QED BY <2>2, OwnAsked
  <1> QED BY <1>1, <1>2

LEMMA NextAsked == StoreInv /\ Asked /\ [Next]_vars => Asked'
  <1> SUFFICES ASSUME StoreInv, Asked, [Next]_vars PROVE Asked'
    OBVIOUS
  <1>1. CallsInv
    BY DEF StoreInv
  <1>2. CASE UNCHANGED vars
    BY <1>2 DEF vars, redis, Asked, Answers, AtRest
  <1>3. ASSUME NEW c \in Clients, Begin(c) PROVE Asked'
    <2>1. \E ks, p : Call(c, ks, p)
      BY <1>3 DEF Begin
    <2> QED BY <1>1, <2>1, CallAsked
  <1>4. ASSUME NEW c \in Clients,
               \/ SendHSET(c) \/ SendHGET(c) \/ SendHMSET(c) \/ SendDEL(c) \/ SendZ(c)
               \/ SendHGETALL(c) \/ SendRENAME(c)
        PROVE  Asked'
    <2>1. OnlyOwn(c)
      BY <1>1, <1>4, SendsOwn
    <2> QED BY <1>1, <2>1, OwnAsked
  <1>5. ASSUME NEW c \in Clients,
               DieOfHGETALL(c) \/ Kill(c) \/ DieOfQuery(c) \/ EndQuery(c)
        PROVE  Asked'
    BY <1>1, <1>5, QuietAsked DEF DieOfHGETALL, Kill, DieOfQuery
  <1> QED BY <1>2, <1>3, <1>4, <1>5, AskAsked, ReadAsked DEF Next

\* A query is exact about every file that is not written to while it lasts, although
\* it reads the sets and the hashes at different times.
THEOREM AnswersAreRight == Spec => []QueriesAreRight
  <1>1. Init => Asked
    BY DEF Init, Asked
  <1>2. Asked => QueriesAreRight
    <2> SUFFICES ASSUME Asked, NEW c \in Clients, Answered(c),
                        NEW k \in Keys \ touched[c], known[k] # Unknown
                 PROVE  {r \in query[c].result : r[1] = k} =
                            IF /\ hash[k] \in FileData
                               /\ InRange(hash[k][query[c].what.set], query[c].what)
                            THEN {<<k, hash[k]>>} ELSE {}
      BY DEF QueriesAreRight
    <2>1. query[c] # None /\ query[c].found = {}
      BY DEF Answered
    <2>2. Answers(c, k)
      BY <2>1 DEF Asked
    <2> QED BY <2>1, <2>2 DEF Answers
  <1> QED BY <1>1, <1>2, NextAsked, CallsMend, PTL DEF Spec

-----------------------------------------------------------------------------
(***************************************************************************)
(* A call that meets no other is one step of AtomicStore.                  *)
(***************************************************************************)

LEMMA SameData ==
    ASSUME NEW f \in FileData, NEW g \in FileData, \A s \in Sets : f[s] = g[s]
    PROVE  f = g
  <1>1. /\ f["File_Size"] = g["File_Size"] /\ f["Times_Accessed"] = g["Times_Accessed"]
        /\ f["Is_Local"] = g["Is_Local"] /\ f["Last_Modified"] = g["Last_Modified"]
    BY TheSets
  <1> QED BY <1>1 DEF FileData, Atomic!FileData

\* What a setter may make of a file, it may make of it in one step.
LEMMA MayStep ==
    ASSUME known \in [Keys -> Entries \cup {Unknown}], NEW k \in Keys, NEW f,
           May(known[k], f), known' = [known EXCEPT ![k] = f]
    PROVE  [Atomic!Next]_known
  <1> DEFINE m == known[k]
  <1>1. CASE f = m
    <2>1. known' = known
      BY <1>1
    <2> QED BY <2>1
  <1>2. CASE m = Missing /\ f = Ghost
    <2>1. Atomic!Haunt(k)
      BY <1>2 DEF Atomic!Haunt, Atomic!Becomes
    <2> QED BY <2>1 DEF Atomic!Next
  <1>3. CASE m \in FileData /\ f = Missing
    <2>1. Atomic!Delete(k)
      BY <1>3 DEF Atomic!Delete, Atomic!Becomes, FileData
    <2> QED BY <2>1 DEF Atomic!Next
  <1>4. CASE m \in FileData /\ f \in FileData /\ f = [m EXCEPT !.Is_Local = f.Is_Local]
    <2>1. f.Is_Local \in Atomic!Values["Is_Local"]
      BY <1>4, FieldsOfData, ValuesAre
    <2>2. Atomic!Set(k, "Is_Local")
      BY <1>4, <2>1 DEF Atomic!Set, Atomic!Becomes, FileData
    <2> QED BY <2>2 DEF Atomic!Next
  <1>5. CASE m \in FileData /\ f \in FileData
             /\ f = [m EXCEPT !.Last_Modified = f.Last_Modified]
    <2>1. f.Last_Modified \in Atomic!Values["Last_Modified"]
      BY <1>5, FieldsOfData, ValuesAre
    <2>2. Atomic!Set(k, "Last_Modified")
      BY <1>5, <2>1 DEF Atomic!Set, Atomic!Becomes, FileData
    <2> QED BY <2>2 DEF Atomic!Next
  <1>6. CASE m \in FileData /\ f \in FileData
             /\ f = [m EXCEPT !.Last_Modified = f.Last_Modified, !.File_Size = f.File_Size]
    <2>1. f.Last_Modified \in Times /\ f.File_Size \in Sizes
      BY <1>6, FieldsOfData, ValuesAre
    <2>2. Atomic!SetAndTouch(k)
      BY <1>6, <2>1 DEF Atomic!SetAndTouch, Atomic!Becomes, FileData
    <2> QED BY <2>2 DEF Atomic!Next
  <1>7. CASE m \in FileData /\ f \in FileData
             /\ f = [m EXCEPT !.Last_Modified = f.Last_Modified, !.Times_Accessed = @ + 1]
    <2>1. f.Last_Modified \in Times
      BY <1>7, FieldsOfData, ValuesAre
    <2>2. Atomic!Increment(k)
      BY <1>7, <2>1 DEF Atomic!Increment, Atomic!Becomes, FileData
    <2> QED BY <2>2 DEF Atomic!Next
  <1> QED BY <1>1, <1>2, <1>3, <1>4, <1>5, <1>6, <1>7 DEF May

\* Nothing is known of some more files.
LEMMA ForgetStep ==
    ASSUME NEW ks \in SUBSET Keys, known' = Forget(ks)
    PROVE  [Atomic!Next]_known
  BY DEF Forget, Atomic!Next, Atomic!Disturb

\* At its end a call has kept its promise.
LEMMA Ended ==
    ASSUME known \in [Keys -> Entries \cup {Unknown}], NEW ks \in SUBSET Keys,
           NEW h \in [Keys -> Entries], Promise(ks, known, h, <<>>),
           known' = [k \in Keys |-> IF k \in ks THEN h[k] ELSE known[k]]
    PROVE  [Atomic!Next]_known
  <1>1. CASE Unwritten(ks, known, h, <<>>)
    <2>1. \A k \in ks : h[k] = known[k]
      BY <1>1 DEF Unwritten
    <2>2. known' = known
      BY <2>1
    <2> QED BY <2>2
  <1>2. CASE Underway(ks, known, h, <<>>)
    <2>1. PICK k \in Keys, f \in Entries : ks = {k} /\ May(known[k], f) /\ Makes(<<>>, h[k], f)
      BY <1>2 DEF Underway
    <2>2. \A i : i \notin 1..Len(<<>>)
      OBVIOUS
    <2>3. f = h[k]
      <3>1. CASE h[k] \in {Missing, Ghost}
        BY <2>1, <2>2, <3>1 DEF Makes
      <3>2. CASE h[k] \notin {Missing, Ghost}
        <4>1. h[k] \in FileData
          BY <3>2 DEF Entries
        <4>2. f \in FileData /\ \A s \in Sets : f[s] = h[k][s]
          BY <2>1, <2>2, <3>2 DEF Makes, Overwrites
        <4> QED BY <4>1, <4>2, SameData
      <3> QED BY <3>1, <3>2
    <2>4. known' = [known EXCEPT ![k] = f]
      BY <2>1, <2>3
    <2> QED BY <2>1, <2>4, MayStep
  <1>3. CASE Moved(ks, known, h, <<>>)
    <2>1. PICK k, l \in Keys : /\ k # l /\ ks = {k, l} /\ known[k] \in FileData
                               /\ h[k] = Missing /\ h[l] = known[k]
      BY <1>3 DEF Moved
    <2>2. known' = [known EXCEPT ![k] = Missing, ![l] = known[k]]
      BY <2>1
    <2>3. Atomic!Rename(k, l)
      BY <2>1, <2>2 DEF Atomic!Rename, FileData
    <2> QED BY <2>1, <2>3 DEF Atomic!Next
  <1> QED BY <1>1, <1>2, <1>3 DEF Promise

-----------------------------------------------------------------------------
(***************************************************************************)
(* What a command does to the promise of its call.                         *)
(***************************************************************************)

\* What a call has promised is about its own files.
LEMMA PromiseIsLocal ==
    ASSUME NEW ks \in SUBSET Keys, NEW p, Shape(p, ks), NEW m, NEW h, NEW n, NEW g,
           \A k \in ks : n[k] = m[k] /\ g[k] = h[k],
           Promise(ks, m, h, p)
    PROVE  Promise(ks, n, g, p)
  <1>1. \A i \in 1..Len(p) : p[i].do \in {"DEL", "RENAME"} => p[i].key \in ks
    <2> TAKE i \in 1..Len(p)
    <2>1. p[i] \in Commands /\ p[i].key \in ks \cup {NoKey}
      BY DEF Shape, About
    <2> QED BY <2>1, Fields, StoreAssumption
  <1>2. Unwritten(ks, m, h, p) => Unwritten(ks, n, g, p)
    BY <1>1 DEF Unwritten
  <1>3. Underway(ks, m, h, p) => Underway(ks, n, g, p)
    BY DEF Underway
  <1>4. Moved(ks, m, h, p) => Moved(ks, n, g, p)
    <2> SUFFICES ASSUME Moved(ks, m, h, p) PROVE Moved(ks, n, g, p)
      OBVIOUS
    <2>1. PICK k, l \in Keys : /\ k # l /\ ks = {k, l}
                               /\ m[k] \in FileData /\ h[k] = Missing /\ h[l] = m[k]
      BY DEF Moved
    <2>2. n[k] = m[k] /\ g[k] = h[k] /\ g[l] = h[l]
      BY <2>1
    <2> QED BY <2>1, <2>2 DEF Moved
  <1> QED BY <1>2, <1>3, <1>4 DEF Promise

\* Commands for the sorted sets change nothing of it.
LEMMA PromiseGoesOn ==
    ASSUME NEW ks, NEW m, NEW h, NEW p \in Seq(Commands), NEW q \in Seq(Commands),
           p # <<>>, Promise(ks, m, h, p),
           p[1].do \in {"ZADD", "ZREM", "update"},
           \A i \in 1..Len(q) : \/ q[i].do \in {"ZADD", "ZREM"}
                                \/ \E j \in 1..Len(p) : q[i] = p[j],
           \A j \in 2..Len(p) : \E i \in 1..Len(q) : q[i] = p[j]
    PROVE  Promise(ks, m, h, q)
  <1>1. Unwritten(ks, m, h, p) => Unwritten(ks, m, h, q)
    <2> SUFFICES ASSUME Unwritten(ks, m, h, p), NEW i \in 1..Len(q)
                 PROVE  /\ q[i].do # "HSET"
                        /\ q[i].do = "DEL" => m[q[i].key] # Ghost
                        /\ q[i].do = "RENAME" => m[q[i].key] # Ghost
      BY DEF Unwritten
    <2>1. p[1].do # "gone"
      OBVIOUS
    <2>2. CASE q[i].do \in {"ZADD", "ZREM"}
      BY <2>2
    <2>3. CASE \E j \in 1..Len(p) : q[i] = p[j]
      BY <2>1, <2>3 DEF Unwritten
    <2> QED BY <2>2, <2>3
  <1>2. \A j \in 1..Len(p) : p[j].do = "HSET" => \E i \in 1..Len(q) : q[i] = p[j]
    <2> TAKE j \in 1..Len(p)
    <2>1. j = 1 \/ j \in 2..Len(p)
      OBVIOUS
    <2> QED BY <2>1
  <1>3. \A s : Overwrites(q, s) <=> Overwrites(p, s)
    <2> TAKE s
    <2>1. ASSUME NEW i \in 1..Len(q), q[i].do = "HSET", q[i].field = s
          PROVE  \E j \in 1..Len(p) : p[j].do = "HSET" /\ p[j].field = s
      BY <2>1
    <2>2. ASSUME NEW j \in 1..Len(p), p[j].do = "HSET", p[j].field = s
          PROVE  \E i \in 1..Len(q) : q[i].do = "HSET" /\ q[i].field = s
      BY <1>2, <2>2
    <2> QED BY <2>1, <2>2 DEF Overwrites
  <1>4. (\E i \in 1..Len(q) : q[i].do = "HSET") <=> \E i \in 1..Len(p) : p[i].do = "HSET"
    <2>1. ASSUME NEW i \in 1..Len(q), q[i].do = "HSET"
          PROVE  \E j \in 1..Len(p) : p[j].do = "HSET"
      BY <2>1
    <2>2. ASSUME NEW j \in 1..Len(p), p[j].do = "HSET"
          PROVE  \E i \in 1..Len(q) : q[i].do = "HSET"
      BY <1>2, <2>2
    <2> QED BY <2>1, <2>2
  <1>5. \A i \in 1..Len(q) : q[i].do = "HSET" => \E j \in 1..Len(p) : q[i] = p[j]
    OBVIOUS
  <1>6. \A g, f : Makes(p, g, f) => Makes(q, g, f)
    BY <1>3, <1>4, <1>5 DEF Makes
  <1>7. Underway(ks, m, h, p) => Underway(ks, m, h, q)
    <2>1. (\A i \in 1..Len(p) : p[i].do \in {"HSET", "update", "ZREM", "ZADD"}) =>
              \A i \in 1..Len(q) : q[i].do \in {"HSET", "update", "ZREM", "ZADD"}
      OBVIOUS
    <2> QED BY <1>6, <2>1 DEF Underway
  <1>8. Moved(ks, m, h, p) => Moved(ks, m, h, q)
    <2>1. (\A i \in 1..Len(p) : p[i].do \in {"new", "ZREM", "ZADD"}) =>
              \A i \in 1..Len(q) : q[i].do \in {"new", "ZREM", "ZADD"}
      OBVIOUS
    <2> QED BY <2>1 DEF Moved
  <1> QED BY <1>1, <1>7, <1>8 DEF Promise

LEMMA HSETPromise ==
    ASSUME NEW ks, NEW m, NEW h \in [Keys -> Entries], NEW g, NEW p, Shape(p, ks), p # <<>>,
           Promise(ks, m, h, p), p[1].do = "HSET",
           g = [h EXCEPT ![p[1].key] =
                    IF @ \in {Missing, Ghost} THEN Ghost
                    ELSE IF p[1].field \in Sets THEN [@ EXCEPT ![p[1].field] = p[1].value]
                    ELSE @]
    PROVE  Promise(ks, m, g, Tail(p))
  <1> DEFINE q == Tail(p)
             x == p[1]
  <1>1. /\ p \in Seq(Commands) /\ Len(p) \in Nat /\ 1 \in 1..Len(p) /\ x \in Commands
        /\ x.key \in ks /\ x.key \in Keys
        /\ \A i \in 1..Len(q) : i + 1 \in 1..Len(p) /\ q[i] = p[i + 1]
        /\ \A i \in 2..Len(p) : i - 1 \in 1..Len(q) /\ q[i - 1] = p[i]
    BY First
  <1>2. Underway(ks, m, h, p)
    BY <1>1 DEF Promise, Unwritten, Moved
  <1>3. PICK k \in Keys, f \in Entries : ks = {k} /\ May(m[k], f) /\ Makes(p, h[k], f)
    BY <1>2 DEF Underway
  <1>4. x.key = k
    BY <1>1, <1>3
  <1>5. x.field \in Sets => x.value \in Atomic!Values[x.field]
    BY <1>1 DEF Shape, Typed
  <1> HIDE DEF q, x
  <1>6. Makes(q, g[k], f)
    <2>1. CASE h[k] \in {Missing, Ghost}
      <3>1. g[k] = Ghost
        BY <1>3, <1>4, <2>1 DEF x
      <3>2. f = Ghost
        BY <1>1, <1>3, <2>1 DEF Makes, x
      <3> QED BY <3>1, <3>2 DEF Makes
    <2>2. CASE h[k] \notin {Missing, Ghost}
      <3>1. h[k] \in FileData
        BY <1>3, <2>2 DEF Entries
      <3>2. /\ f \in FileData
            /\ \A s \in Sets : f[s] = h[k][s] \/ Overwrites(p, s)
            /\ \A i \in 1..Len(p) :
                   p[i].do = "HSET" /\ p[i].field \in Sets => f[p[i].field] = p[i].value
        BY <1>3, <2>2 DEF Makes
      <3>3. \A s \in Sets : Overwrites(p, s) => s = x.field \/ Overwrites(q, s)
        <4> SUFFICES ASSUME NEW s \in Sets, NEW i \in 1..Len(p), p[i].do = "HSET",
                            p[i].field = s, s # x.field
                     PROVE  Overwrites(q, s)
          BY DEF Overwrites
        <4>1. i \in 2..Len(p)
          BY <1>1 DEF x
        <4> QED BY <1>1, <4>1 DEF Overwrites
      <3>4. g[k] \in FileData /\ \A s \in Sets : g[k][s] = f[s] \/ Overwrites(q, s)
        <4>1. CASE x.field \in Sets
          <5>1. g[k] = [h[k] EXCEPT ![x.field] = x.value]
            BY <1>3, <1>4, <2>2, <4>1 DEF x
          <5>2. /\ g[k] \in FileData /\ g[k][x.field] = x.value
                /\ \A s \in Sets \ {x.field} : g[k][s] = h[k][s]
            <6>1. PICK s \in Sets, v \in {x.value}, d \in FileData :
                      s = x.field /\ d = h[k]
              BY <4>1, <3>1
            <6>2. v \in Atomic!Values[s]
              BY <6>1, <4>1, <1>5
            <6>3. /\ [d EXCEPT ![s] = v] \in FileData /\ [d EXCEPT ![s] = v][s] = v
                  /\ \A t \in Sets \ {s} : [d EXCEPT ![s] = v][t] = d[t]
              BY <6>2, WithField
            <6>4. g[k] = [d EXCEPT ![s] = v]
              BY <5>1, <6>1
            <6> QED BY <6>1, <6>3, <6>4
          <5>3. f[x.field] = x.value
            BY <1>1, <3>2, <4>1 DEF x
          <5> QED BY <3>2, <3>3, <5>2, <5>3
        <4>2. CASE x.field \notin Sets
          <5>1. g[k] = h[k]
            BY <1>3, <1>4, <2>2, <4>2 DEF x
          <5> QED BY <5>1, <4>2, <3>1, <3>2, <3>3
        <4> QED BY <4>1, <4>2
      <3>5. \A i \in 1..Len(q) :
                q[i].do = "HSET" /\ q[i].field \in Sets => f[q[i].field] = q[i].value
        BY <1>1, <3>2
      <3>6. g[k] \notin {Missing, Ghost}
        BY <3>4, StoreAssumption
      <3> QED BY <3>2, <3>4, <3>5, <3>6 DEF Makes
    <2> QED BY <2>1, <2>2
  <1>7. \A i \in 1..Len(q) : q[i].do \in {"HSET", "update", "ZREM", "ZADD"}
    BY <1>1, <1>2 DEF Underway
  <1> QED BY <1>3, <1>6, <1>7 DEF Promise, Underway, q

LEMMA DELPromise ==
    ASSUME NEW ks, NEW m, NEW h \in [Keys -> Entries], NEW p, Shape(p, ks), p # <<>>,
           m \in [Keys -> Entries \cup {Unknown}], \A k \in ks : m[k] # Unknown,
           Promise(ks, m, h, p), p[1].do = "DEL"
    PROVE  Promise(ks, m, [h EXCEPT ![p[1].key] = Missing], Tail(p))
  <1>1. /\ p \in Seq(Commands) /\ Len(p) \in Nat /\ 1 \in 1..Len(p)
        /\ p[1].key \in ks /\ p[1].key \in Keys
    BY First
  <1>2. Unwritten(ks, m, h, p)
    BY <1>1 DEF Promise, Underway, Moved
  <1>3. PICK k \in Keys : k = p[1].key
    BY <1>1
  <1>4. ks = {k}
    BY <1>1, <1>3 DEF Shape, Kinds, OfRename
  <1>5. Len(p) = 1
    BY <1>1 DEF Shape, Deletion
  <1>6. Tail(p) = <<>>
    BY <1>1, <1>5, Behind
  <1>7. m[k] \in FileData \cup {Missing}
    <2>1. m[k] # Ghost
      BY <1>1, <1>2, <1>3 DEF Unwritten
    <2>2. m[k] # Unknown
      BY <1>4
    <2> QED BY <2>1, <2>2 DEF Entries
  <1>8. May(m[k], Missing)
    BY <1>7 DEF May
  <1>9. Makes(<<>>, Missing, Missing)
    BY DEF Makes
  <1> DEFINE g == [h EXCEPT ![k] = Missing]
  <1>10. g[k] = Missing /\ Missing \in Entries
    BY DEF Entries
  <1> HIDE DEF g
  <1>11. Underway(ks, m, g, <<>>)
    BY <1>4, <1>8, <1>9, <1>10 DEF Underway
  <1> QED BY <1>3, <1>6, <1>11 DEF Promise, g

LEMMA RENAMEPromise ==
    ASSUME NEW ks, NEW m, NEW h \in [Keys -> Entries], NEW g, NEW p, Shape(p, ks), p # <<>>,
           Promise(ks, m, h, p), p[1].do = "RENAME",
           g = IF h[p[1].key] = Missing THEN h
               ELSE [h EXCEPT ![p[1].to] = h[p[1].key], ![p[1].key] = Missing]
    PROVE  Promise(ks, m, g, Tail(p))
  <1>1. /\ p \in Seq(Commands) /\ Len(p) \in Nat /\ 1 \in 1..Len(p) /\ p[1] \in Commands
        /\ p[1].key \in ks /\ p[1].key \in Keys
        /\ \A i \in 1..Len(Tail(p)) : i + 1 \in 1..Len(p) /\ Tail(p)[i] = p[i + 1]
    BY First
  <1>2. PICK k \in Keys, l \in Keys : k = p[1].key /\ l = p[1].to
    BY <1>1, Fields
  <1>3. k # l /\ Len(p) = 2 /\ p[2].do = "new"
    BY <1>1, <1>2 DEF Shape, Renaming
  <1>4. ks = {k, l}
    <2>1. l \in ks /\ k \in ks
      BY <1>1, <1>2 DEF Shape, About
    <2>2. \E a, b \in Keys : a # b /\ ks = {a, b}
      BY <1>1, OfTwo
    <2> QED BY <1>3, <2>1, <2>2
  <1>5. \A i \in 1..Len(Tail(p)) : Tail(p)[i].do = "new"
    <2> TAKE i \in 1..Len(Tail(p))
    <2>1. Tail(p)[i] = p[i + 1] /\ i + 1 = 2
      BY <1>1, <1>3
    <2> QED BY <1>3, <2>1
  <1>6. Unwritten(ks, m, h, p)
    BY <1>1 DEF Promise, Underway, Moved
  <1>7. h[k] = m[k] /\ m[k] # Ghost /\ \A j \in ks : h[j] = m[j]
    BY <1>1, <1>2, <1>6 DEF Unwritten
  <1>8. CASE h[k] = Missing
    <2>1. g = h
      BY <1>2, <1>8
    <2>2. Unwritten(ks, m, g, Tail(p))
      BY <1>5, <1>7, <2>1 DEF Unwritten
    <2> QED BY <2>2 DEF Promise
  <1>9. CASE h[k] # Missing
    <2>1. g = [h EXCEPT ![l] = h[k], ![k] = Missing]
      BY <1>2, <1>9
    <2>2. g[k] = Missing /\ g[l] = h[k]
      BY <1>3, <2>1
    <2>3. m[k] \in FileData
      BY <1>7, <1>9 DEF Entries
    <2>4. Moved(ks, m, g, Tail(p))
      <3>1. g[k] = Missing /\ g[l] = m[k]
        BY <1>7, <2>2
      <3>2. \E a, b \in Keys : /\ a # b /\ ks = {a, b}
                              /\ m[a] \in FileData /\ g[a] = Missing /\ g[b] = m[a]
        BY <1>3, <1>4, <2>3, <3>1
      <3>3. \A i \in 1..Len(Tail(p)) : Tail(p)[i].do \in {"new", "ZREM", "ZADD"}
        BY <1>5
      <3> QED BY <3>2, <3>3 DEF Moved
    <2> QED BY <2>4 DEF Promise
  <1> QED BY <1>8, <1>9

-----------------------------------------------------------------------------
(***************************************************************************)
(* What a setter promises.                                                 *)
(***************************************************************************)

\* p sets fields, and makes f of m.
Makers(p, m, f) ==
    /\ \A i \in 1..Len(p) : p[i].do \in {"HSET", "update"}
    /\ \E i \in 1..Len(p) : p[i].do = "HSET"
    /\ m \in FileData =>
           /\ f \in FileData /\ May(m, f)
           /\ \A s \in Sets : f[s] = m[s] \/ Overwrites(p, s)
           /\ \A i \in 1..Len(p) :
                  p[i].do = "HSET" /\ p[i].field \in Sets => f[p[i].field] = p[i].value

LEMMA MakersPromise ==
    ASSUME NEW k \in Keys, NEW m, NEW h, h[k] = m[k], m[k] \in Entries,
           NEW p, NEW f, Makers(p, m[k], f)
    PROVE  Underway({k}, m, h, p)
  <1>1. \E g \in Entries : May(m[k], g) /\ Makes(p, h[k], g)
    <2>1. CASE m[k] \in FileData
      <3>1. m[k] \notin {Missing, Ghost} /\ f \in Entries
        BY <2>1, StoreAssumption DEF Entries, Makers
      <3>2. May(m[k], f) /\ Makes(p, h[k], f)
        BY <2>1, <3>1 DEF Makers, Makes
      <3> QED BY <3>1, <3>2
    <2>2. CASE m[k] \in {Missing, Ghost}
      <3>1. Ghost \in Entries /\ May(m[k], Ghost)
        BY <2>2 DEF Entries, May
      <3>2. Makes(p, h[k], Ghost)
        BY <2>2 DEF Makes, Makers
      <3> QED BY <3>1, <3>2
    <2> QED BY <2>1, <2>2 DEF Entries
  <1>2. \A i \in 1..Len(p) : p[i].do \in {"HSET", "update", "ZREM", "ZADD"}
    BY DEF Makers
  <1>3. PICK g \in Entries : May(m[k], g) /\ Makes(p, h[k], g)
    BY <1>1
  <1> QED BY <1>2, <1>3 DEF Underway

LEMMA TouchMakers ==
    ASSUME NEW k \in Keys, NEW t \in Times, NEW m
    PROVE  /\ \E f : Makers(UpdateLastTimeModified(k, t), m, f)
           /\ \E f : Makers(SetOther(k, t), m, f)
           /\ \A n \in Sizes : \E f : Makers(SetFileSize(k, n, t), m, f)
           /\ \A n \in 0..MaxHits :
                  (m \in FileData => n = m.Times_Accessed + 1) =>
                      \E f : Makers(WriteTimesAccessed(k, n, t), m, f)
  <1> DEFINE a == HSET(k, "Last_Modified", t)
             b == Update(k, "Last_Modified")
             o == HSET(k, "other", 0)
             touched1 == [m EXCEPT !["Last_Modified"] = t]
  <1>1. /\ a \in Commands /\ b \in Commands /\ o \in Commands
        /\ a.do = "HSET" /\ a.field = "Last_Modified" /\ a.value = t
        /\ b.do = "update" /\ o.do = "HSET" /\ o.field = "other"
    <2>1. "Last_Modified" \in Sets /\ t \in Int /\ 0 \in Int
      BY ValuesAre
    <2>2. a \in Commands /\ b \in Commands /\ o \in Commands
      BY <2>1, Made
    <2> QED BY <2>2 DEF HSET, Update
  <1>2. UpdateLastTimeModified(k, t) = <<a, b>>
    BY DEF UpdateLastTimeModified
  <1>3. m \in FileData =>
            /\ touched1 \in FileData /\ touched1["Last_Modified"] = t
            /\ \A s \in Sets \ {"Last_Modified"} : touched1[s] = m[s]
            /\ touched1 = [m EXCEPT !.Last_Modified = touched1.Last_Modified]
    <2> SUFFICES ASSUME m \in FileData
                 PROVE  /\ touched1 \in FileData /\ touched1["Last_Modified"] = t
                        /\ \A s \in Sets \ {"Last_Modified"} : touched1[s] = m[s]
                        /\ touched1 = [m EXCEPT !.Last_Modified = touched1.Last_Modified]
      OBVIOUS
    <2>1. "Last_Modified" \in Sets /\ t \in Atomic!Values["Last_Modified"]
      BY ValuesAre
    <2> QED BY <2>1, WithField
  <1> HIDE DEF a, b, o, touched1
  <1>4. \E f : Makers(<<a, b>>, m, f)
    <2> DEFINE p == <<a, b>>
    <2>1. Len(p) = 2 /\ p[1] = a /\ p[2] = b
      OBVIOUS
    <2> HIDE DEF p
    <2>2. /\ \A i \in 1..Len(p) : i = 1 \/ i = 2
          /\ 1 \in 1..Len(p)
      BY <2>1
    <2>3. \A i \in 1..Len(p) : p[i].do \in {"HSET", "update"}
      BY <1>1, <2>1, <2>2
    <2>4. \A s \in Sets : s = "Last_Modified" => Overwrites(p, s)
      BY <1>1, <2>1, <2>2 DEF Overwrites
    <2>5. Makers(p, m, touched1)
      BY <1>1, <1>3, <2>1, <2>2, <2>3, <2>4 DEF Makers, May
    <2> QED BY <2>5 DEF p
  <1>5. \E f : Makers(<<o, a, b>>, m, f)
    <2> DEFINE p == <<o, a, b>>
    <2>1. Len(p) = 3 /\ p[1] = o /\ p[2] = a /\ p[3] = b
      OBVIOUS
    <2> HIDE DEF p
    <2>2. /\ \A i \in 1..Len(p) : i = 1 \/ i = 2 \/ i = 3
          /\ 1 \in 1..Len(p) /\ 2 \in 1..Len(p)
      BY <2>1
    <2>3. \A i \in 1..Len(p) : p[i].do \in {"HSET", "update"}
      BY <1>1, <2>1, <2>2
    <2>4. \A s \in Sets : s = "Last_Modified" => Overwrites(p, s)
      BY <1>1, <2>1, <2>2 DEF Overwrites
    <2>5. Makers(p, m, touched1)
      BY <1>1, <1>3, <2>1, <2>2, <2>3, <2>4, ValuesAre DEF Makers, May
    <2> QED BY <2>5 DEF p
  <1>6. SetOther(k, t) = <<o, a, b>>
    <2>1. SetOther(k, t) = <<o>> \o <<a, b>>
      BY <1>2 DEF SetOther, o
    <2>2. <<o, a>> \o <<a, b>> = <<o, a, a, b>> /\ <<o>> \o <<a, b>> = <<o, a, b>>
      BY <1>1, JoinedPairs
    <2> QED BY <2>1, <2>2
  <1>7. ASSUME NEW s \in {"File_Size", "Times_Accessed"}, NEW v \in Atomic!Values[s],
               s = "Times_Accessed" /\ m \in FileData => v = m.Times_Accessed + 1
        PROVE  \E f : Makers(<<HSET(k, s, v), Update(k, s)>> \o <<a, b>>, m, f)
    <2> DEFINE x == HSET(k, s, v)
               y == Update(k, s)
               p == <<x, y, a, b>>
               g == [m EXCEPT ![s] = v]
               f == [g EXCEPT !["Last_Modified"] = t]
    <2>0. s \in Sets /\ s # "Last_Modified" /\ "Last_Modified" \in Sets
          /\ t \in Atomic!Values["Last_Modified"]
      BY ValuesAre
    <2>1. /\ x \in Commands /\ y \in Commands
          /\ x.do = "HSET" /\ x.field = s /\ x.value = v /\ y.do = "update"
      BY <2>0, Made, FieldsOfData DEF HSET, Update
    <2>2. m \in FileData => /\ g \in FileData /\ g[s] = v
                            /\ \A u \in Sets \ {s} : g[u] = m[u]
      BY <2>0, WithField
    <2> HIDE DEF g
    <2>3. m \in FileData => /\ f \in FileData /\ f["Last_Modified"] = t
                            /\ \A u \in Sets \ {"Last_Modified"} : f[u] = g[u]
      BY <2>0, <2>2, WithField
    <2>4. m \in FileData => May(m, f)
      <3> SUFFICES ASSUME m \in FileData PROVE May(m, f)
        OBVIOUS
      <3>1. CASE s = "File_Size"
        <4>1. f["File_Size"] = v /\ f["Last_Modified"] = t
          BY <2>0, <2>2, <2>3, <3>1
        <4>2. f = [m EXCEPT !.File_Size = v, !.Last_Modified = t]
          BY <3>1 DEF g
        <4>3. [m EXCEPT !.File_Size = v, !.Last_Modified = t] =
                  [m EXCEPT !.Last_Modified = t, !.File_Size = v]
          BY DEF FileData, Atomic!FileData
        <4> HIDE DEF f
        <4>4. f = [m EXCEPT !.Last_Modified = f.Last_Modified, !.File_Size = f.File_Size]
          BY <4>1, <4>2, <4>3
        <4> QED BY <2>3, <4>4 DEF May
      <3>2. CASE s = "Times_Accessed"
        <4>1. f["Last_Modified"] = t /\ v = m.Times_Accessed + 1
          BY <1>7, <2>0, <2>2, <2>3, <3>2
        <4>2. f = [m EXCEPT !.Times_Accessed = m.Times_Accessed + 1, !.Last_Modified = t]
          BY <3>2, <4>1 DEF g
        <4>3. [m EXCEPT !.Times_Accessed = m.Times_Accessed + 1, !.Last_Modified = t] =
                  [m EXCEPT !.Last_Modified = t, !.Times_Accessed = @ + 1]
          BY DEF FileData, Atomic!FileData
        <4> HIDE DEF f
        <4>4. f = [m EXCEPT !.Last_Modified = f.Last_Modified, !.Times_Accessed = @ + 1]
          BY <4>1, <4>2, <4>3
        <4> QED BY <2>3, <4>4 DEF May
      <3> QED BY <3>1, <3>2
    <2> HIDE DEF x, y, f
    <2>5. <<x, y>> \o <<a, b>> = p
      <3>1. a \in Commands /\ b \in Commands /\ x \in Commands /\ y \in Commands
        BY <1>1, <2>1
      <3>2. <<x, y>> \o <<a, b>> = <<x, y, a, b>> /\ <<x>> \o <<a, b>> = <<x, a, b>>
        BY <3>1, JoinedPairs
      <3> QED BY <3>2
    <2>6. Len(p) = 4 /\ p[1] = x /\ p[2] = y /\ p[3] = a /\ p[4] = b
      OBVIOUS
    <2> HIDE DEF p
    <2>7. /\ \A i \in 1..Len(p) : i = 1 \/ i = 2 \/ i = 3 \/ i = 4
          /\ 1 \in 1..Len(p) /\ 3 \in 1..Len(p)
      BY <2>6
    <2>8. \A i \in 1..Len(p) : p[i].do \in {"HSET", "update"}
      BY <1>1, <2>1, <2>6, <2>7
    <2>9. Overwrites(p, s) /\ Overwrites(p, "Last_Modified")
      BY <1>1, <2>1, <2>6, <2>7 DEF Overwrites
    <2>10. ASSUME m \in FileData
           PROVE  /\ \A u \in Sets : f[u] = m[u] \/ Overwrites(p, u)
                  /\ \A i \in 1..Len(p) :
                         p[i].do = "HSET" /\ p[i].field \in Sets => f[p[i].field] = p[i].value
      <3>1. f[s] = v /\ f["Last_Modified"] = t
        BY <2>0, <2>2, <2>3, <2>10
      <3>2. \A u \in Sets : f[u] = m[u] \/ Overwrites(p, u)
        BY <2>2, <2>3, <2>9, <2>10
      <3>3. \A i \in 1..Len(p) :
                p[i].do = "HSET" /\ p[i].field \in Sets => f[p[i].field] = p[i].value
        BY <1>1, <2>1, <2>6, <2>7, <3>1
      <3> QED BY <3>2, <3>3
    <2>11. Makers(p, m, f)
      BY <1>1, <2>1, <2>3, <2>4, <2>6, <2>7, <2>8, <2>10 DEF Makers
    <2> QED BY <2>5, <2>11 DEF x, y
  <1>8. ASSUME NEW n \in Sizes PROVE \E f : Makers(SetFileSize(k, n, t), m, f)
    <2>1. n \in Atomic!Values["File_Size"]
      BY ValuesAre
    <2>2. SetFileSize(k, n, t) = <<HSET(k, "File_Size", n), Update(k, "File_Size")>> \o <<a, b>>
      BY <1>2 DEF SetFileSize
    <2> QED BY <1>7, <2>1, <2>2
  <1>9. ASSUME NEW n \in 0..MaxHits, m \in FileData => n = m.Times_Accessed + 1
        PROVE  \E f : Makers(WriteTimesAccessed(k, n, t), m, f)
    <2>1. n \in Atomic!Values["Times_Accessed"]
      BY ValuesAre
    <2>2. WriteTimesAccessed(k, n, t)
              = <<HSET(k, "Times_Accessed", n), Update(k, "Times_Accessed")>> \o <<a, b>>
      BY <1>2 DEF WriteTimesAccessed
    <2> QED BY <1>7, <1>9, <2>1, <2>2
  <1> QED BY <1>2, <1>4, <1>5, <1>6, <1>8, <1>9

LEMMA FlagMakers ==
    ASSUME NEW k \in Keys, NEW m
    PROVE  /\ \A flag \in {0, 1} : \E f : Makers(SetIsLocal(k, flag), m, f)
           /\ \E f : Makers(SetIsOpen(k), m, f)
  <1>1. ASSUME NEW flag \in {0, 1} PROVE \E f : Makers(SetIsLocal(k, flag), m, f)
    <2> DEFINE x == HSET(k, "Is_Local", flag)
               y == Update(k, "Is_Local")
               p == <<x, y>>
               f == [m EXCEPT !["Is_Local"] = flag]
    <2>1. "Is_Local" \in Sets /\ flag \in Atomic!Values["Is_Local"]
      BY ValuesAre
    <2>2. x.do = "HSET" /\ x.field = "Is_Local" /\ x.value = flag /\ y.do = "update"
      BY DEF HSET, Update
    <2>3. m \in FileData => /\ f \in FileData /\ f["Is_Local"] = flag
                            /\ \A s \in Sets \ {"Is_Local"} : f[s] = m[s]
      BY <2>1, WithField
    <2>4. m \in FileData => f = [m EXCEPT !.Is_Local = f.Is_Local]
      BY <2>3
    <2>5. Len(p) = 2 /\ p[1] = x /\ p[2] = y
      OBVIOUS
    <2>6. SetIsLocal(k, flag) = p
      BY DEF SetIsLocal
    <2> HIDE DEF x, y, p, f
    <2>7. /\ \A i \in 1..Len(p) : i = 1 \/ i = 2
          /\ 1 \in 1..Len(p)
      BY <2>5
    <2>8. Overwrites(p, "Is_Local")
      BY <2>2, <2>5, <2>7 DEF Overwrites
    <2>9. Makers(p, m, f)
      BY <2>2, <2>3, <2>4, <2>5, <2>7, <2>8 DEF Makers, May
    <2> QED BY <2>6, <2>9
  <1>2. Makers(SetIsOpen(k), m, m)
    <2> DEFINE x == HSET(k, "other", 0)
               p == <<x>>
    <2>1. x.do = "HSET" /\ x.field = "other"
      BY DEF HSET
    <2>2. Len(p) = 1 /\ p[1] = x
      OBVIOUS
    <2>3. SetIsOpen(k) = p
      BY DEF SetIsOpen
    <2> HIDE DEF x, p
    <2>4. /\ \A i \in 1..Len(p) : i = 1
          /\ 1 \in 1..Len(p)
      BY <2>2
    <2> QED BY <2>1, <2>2, <2>3, <2>4, ValuesAre DEF Makers, May
  <1> QED BY <1>1, <1>2

-----------------------------------------------------------------------------
(***************************************************************************)
(* What a call promises at its beginning, and after it has read.           *)
(***************************************************************************)

\* A call that has written nothing yet, and begins with a command of its own kind.
LEMMA NothingWritten ==
    ASSUME NEW ks, NEW m, NEW h, NEW p, Promise(ks, m, h, p), NEW i \in 1..Len(p),
           p[i].do \in {"HGET", "HMSET", "gone", "old", "RENAME", "DEL"}
    PROVE  Unwritten(ks, m, h, p)
  BY DEF Promise, Underway, Moved

LEMMA ReadsCount ==
    ASSUME NEW k \in Keys, NEW t \in Times, NEW m, NEW h, NEW n, h[k] = m[k],
           h[k] \in Entries, n < MaxHits,
           n = IF h[k] \in FileData THEN h[k].Times_Accessed ELSE -1
    PROVE  /\ Promise({k}, m, h, WriteTimesAccessed(k, n + 1, t))
           /\ n + 1 \in 0..MaxHits
  <1>1. n \in -1..MaxHits
    BY FieldsOfData, ValuesAre, StoreAssumption
  <1>2. n + 1 \in 0..MaxHits
    BY <1>1, StoreAssumption
  <1>3. h[k] \in FileData => n + 1 = h[k].Times_Accessed + 1
    OBVIOUS
  <1>4. PICK f : Makers(WriteTimesAccessed(k, n + 1, t), h[k], f)
    BY <1>2, <1>3, TouchMakers
  <1>5. Underway({k}, m, h, WriteTimesAccessed(k, n + 1, t))
    BY <1>4, MakersPromise
  <1> QED BY <1>2, <1>5 DEF Promise

\* updateFileInFileSizeSet and its like, with what HGETALL has read.
LEMMA UpdatePromise ==
    ASSUME NEW ks, NEW m, NEW h, NEW p, Shape(p, ks), p # <<>>, Promise(ks, m, h, p),
           p[1].do = "update", NEW fd \in FileData
    PROVE  Promise(ks, m, h, AfterUpdate(p, fd))
  <1>1. PICK q : q = AfterUpdate(p, fd)
    OBVIOUS
  <1>2. /\ Shape(q, ks) /\ Len(q) = Len(p) + 1
        /\ q[1].do = "ZREM" /\ q[2].do = "ZADD"
        /\ \A i \in 3..Len(q) : i - 1 \in 2..Len(p) /\ q[i] = p[i - 1]
        /\ \A i \in 2..Len(p) : i + 1 \in 3..Len(q) /\ q[i + 1] = p[i]
    BY <1>1, Updated
  <1>3. p \in Seq(Commands) /\ q \in Seq(Commands) /\ Len(p) \in Nat
    BY <1>2 DEF Shape
  <1>4. ASSUME NEW i \in 1..Len(q)
        PROVE  q[i].do \in {"ZADD", "ZREM"} \/ \E j \in 1..Len(p) : q[i] = p[j]
    <2>1. i = 1 \/ i = 2 \/ i \in 3..Len(q)
      OBVIOUS
    <2>2. ASSUME i \in 3..Len(q) PROVE \E j \in 1..Len(p) : q[i] = p[j]
      <3>1. i - 1 \in 2..Len(p) /\ q[i] = p[i - 1]
        BY <1>2, <2>2
      <3>2. i - 1 \in 1..Len(p)
        BY <3>1
      <3> QED BY <3>1, <3>2
    <2> QED BY <1>2, <2>1, <2>2
  <1>5. ASSUME NEW j \in 2..Len(p) PROVE \E i \in 1..Len(q) : q[i] = p[j]
    <2>1. j + 1 \in 3..Len(q) /\ q[j + 1] = p[j]
      BY <1>2
    <2>2. j + 1 \in 1..Len(q)
      BY <2>1
    <2> QED BY <2>1, <2>2
  <1>6. Promise(ks, m, h, q)
    BY <1>3, <1>4, <1>5, PromiseGoesOn
  <1> QED BY <1>1, <1>6

\* A command is through that changes the sorted sets only, or nothing at all.
LEMMA TailPromise ==
    ASSUME NEW ks, NEW m, NEW h, NEW p, Shape(p, ks), p # <<>>, Promise(ks, m, h, p),
           p[1].do \in {"ZADD", "ZREM", "update"}
    PROVE  Promise(ks, m, h, Tail(p))
  <1>1. PICK q : q = Tail(p)
    OBVIOUS
  <1>2. /\ p \in Seq(Commands) /\ q \in Seq(Commands)
        /\ \A i \in 1..Len(q) : i + 1 \in 1..Len(p) /\ q[i] = p[i + 1]
        /\ \A i \in 2..Len(p) : i - 1 \in 1..Len(q) /\ q[i - 1] = p[i]
    BY <1>1, First
  <1>3. \A i \in 1..Len(q) : \E j \in 1..Len(p) : q[i] = p[j]
    BY <1>2
  <1>4. \A j \in 2..Len(p) : \E i \in 1..Len(q) : q[i] = p[j]
    BY <1>2
  <1>5. Promise(ks, m, h, q)
    BY <1>2, <1>3, <1>4, PromiseGoesOn
  <1> QED BY <1>1, <1>5

\* The handler's IN_DELETE, after its HGETALL.
LEMMA GonePromise ==
    ASSUME NEW ks, NEW m, NEW h, NEW p, Shape(p, ks), p # <<>>, Promise(ks, m, h, p),
           p[1].do = "gone", h[p[1].key] # Ghost
    PROVE  Promise(ks, m, h, AfterGone(p)) /\ Promise(ks, m, h, Tail(p))
  <1>1. PICK k, q, r : k = p[1].key /\ q = AfterGone(p) /\ r = Tail(p)
    OBVIOUS
  <1>2. /\ 1 \in 1..Len(p) /\ k \in ks /\ Len(r) = Len(p) - 1
        /\ \A i \in 1..Len(r) : i + 1 \in 1..Len(p) /\ r[i] = p[i + 1]
    BY <1>1, First
  <1>3. Unwritten(ks, m, h, p)
    BY <1>2, NothingWritten
  <1>4. m[k] # Ghost /\ \A l \in ks : h[l] = m[l]
    BY <1>1, <1>2, <1>3 DEF Unwritten
  <1>5. GoneGoesOn(q, p, ks)
    BY <1>1, Going
  <1>6. /\ Len(q) = 5 /\ \A i \in 1..4 : q[i].do = "ZREM"
        /\ q[5].do = "DEL" /\ q[5].key = k
        /\ Len(p) = 2 /\ p[2].do = "DEL" /\ p[2].key = k
    BY <1>1, <1>5 DEF GoneGoesOn
  <1>7. Unwritten(ks, m, h, q)
    <2>1. \A i \in 1..Len(q) : i \in 1..4 \/ i = 5
      BY <1>6
    <2> QED BY <1>4, <1>6, <2>1 DEF Unwritten
  <1>8. Unwritten(ks, m, h, r)
    <2>1. \A i \in 1..Len(r) : r[i].do = "DEL" /\ r[i].key = k
      <3> TAKE i \in 1..Len(r)
      <3>1. r[i] = p[i + 1] /\ i + 1 = 2
        BY <1>2, <1>6
      <3> QED BY <1>6, <3>1
    <2> QED BY <1>4, <2>1 DEF Unwritten
  <1> QED BY <1>1, <1>7, <1>8 DEF Promise

\* Redis_RENAME, after the HGETALL that comes first.
LEMMA OldPromise ==
    ASSUME NEW ks, NEW m, NEW h, NEW p, Shape(p, ks), p # <<>>, Promise(ks, m, h, p),
           p[1].do = "old", h[p[1].key] # Ghost, NEW o \in {p[1].key, NoKey}
    PROVE  Promise(ks, m, h, RenameFrom(p[1].key, p[1].to, o))
  <1>1. PICK k, q : k = p[1].key /\ q = RenameFrom(p[1].key, p[1].to, o)
    OBVIOUS
  <1>2. 1 \in 1..Len(p) /\ k \in ks
    BY <1>1, First
  <1>3. Unwritten(ks, m, h, p)
    BY <1>2, NothingWritten
  <1>4. m[k] # Ghost /\ \A l \in ks : h[l] = m[l]
    BY <1>1, <1>2, <1>3 DEF Unwritten
  <1>5. Len(q) = 2 /\ q[1].do = "RENAME" /\ q[1].key = k /\ q[2].do = "new"
    <2>1. OldGoesOn(q, p, ks, o)
      BY <1>1, OldShape
    <2> QED BY <1>1, <2>1 DEF OldGoesOn
  <1>6. \A i \in 1..Len(q) : i = 1 \/ i = 2
    BY <1>5
  <1>7. Unwritten(ks, m, h, q)
    BY <1>4, <1>5, <1>6 DEF Unwritten
  <1> QED BY <1>1, <1>7 DEF Promise

\* And after the HGETALL that comes last.
LEMMA NewPromise ==
    ASSUME NEW ks, NEW m, NEW h, NEW p, Shape(p, ks), p # <<>>, Promise(ks, m, h, p),
           p[1].do = "new", NEW q,
           \/ q = DeleteFileFromAllSets(p[1].old)
           \/ \E fd \in FileData : q = AfterNew(p, fd)
    PROVE  Promise(ks, m, h, q)
  <1>1. \A i \in 1..Len(q) : q[i].do \in {"ZREM", "ZADD"}
    <2>1. CASE q = DeleteFileFromAllSets(p[1].old)
      BY <2>1, RenamedAway
    <2>2. ASSUME NEW fd \in FileData, q = AfterNew(p, fd)
          PROVE  \A i \in 1..Len(q) : q[i].do \in {"ZREM", "ZADD"}
      <3>1. RenameGoesOn(q, p, ks, fd)
        BY <2>2, NewShape
      <3>2. Len(q) = 8 /\ \A i \in 1..4 : q[i].do = "ZREM"
        BY <3>1 DEF RenameGoesOn
      <3>3. \A i \in 5..8 : q[i].do = "ZADD"
        BY <3>1 DEF RenameGoesOn
      <3>4. \A i \in 1..Len(q) : i \in 1..4 \/ i \in 5..8
        BY <3>2
      <3> QED BY <3>2, <3>3, <3>4
    <2> QED BY <2>1, <2>2
  <1>2. 1 \in 1..Len(p)
    BY First
  <1>3. Unwritten(ks, m, h, p) => Unwritten(ks, m, h, q)
    BY <1>1 DEF Unwritten
  <1>4. ~Underway(ks, m, h, p)
    BY <1>2 DEF Underway
  <1>5. Moved(ks, m, h, p) => Moved(ks, m, h, q)
    BY <1>1 DEF Moved
  <1> QED BY <1>3, <1>4, <1>5 DEF Promise

\* A method that begins with something else than a setter.
LEMMA FirstPromise ==
    ASSUME NEW ks, NEW m, NEW h, NEW p, Opening(p, ks), \A k \in ks : h[k] = m[k],
           \A i \in 1..Len(p) : p[i].do # "HSET"
    PROVE  Promise(ks, m, h, p)
  BY DEF Promise, Unwritten, Opening, Starts

LEMMA NoSetters ==
    ASSUME NEW k \in Keys, NEW t \in Times
    PROVE  /\ \A i \in 1..Len(IncrementTimesAccessed(k, t)) :
                  IncrementTimesAccessed(k, t)[i].do # "HSET"
           /\ \A fd \in Written : \A i \in 1..Len(HMSET(k, fd)) : HMSET(k, fd)[i].do # "HSET"
           /\ \A i \in 1..Len(DeleteFile(k)) : DeleteFile(k)[i].do # "HSET"
           /\ \A l \in Keys : \A i \in 1..Len(RENAME(k, l)) : RENAME(k, l)[i].do # "HSET"
  <1>1. \A i \in 1..Len(IncrementTimesAccessed(k, t)) :
            IncrementTimesAccessed(k, t)[i].do # "HSET"
    BY DEF IncrementTimesAccessed
  <1>2. \A i \in 1..Len(DeleteFile(k)) : DeleteFile(k)[i].do # "HSET"
    BY DEF DeleteFile
  <1>3. \A l \in Keys : \A i \in 1..Len(RENAME(k, l)) : RENAME(k, l)[i].do # "HSET"
    BY DEF RENAME
  <1>4. ASSUME NEW fd \in Written
        PROVE  \A i \in 1..Len(HMSET(k, fd)) : HMSET(k, fd)[i].do # "HSET"
    <2>1. PICK x, w, a, q : /\ x = [do |-> "HMSET", key |-> k, data |-> fd] /\ w = <<x>>
                            /\ a = AddFileToAllSets(k, fd) /\ q = w \o a
      OBVIOUS
    <2>2. /\ a \in Seq(Commands) /\ Len(a) = 4
          /\ \A i \in 1..4 : a[i].do = "ZADD"
      BY <2>1, AddsAll, StoreAssumption
    <2>3. x.do = "HMSET" /\ w \in Seq(Commands) /\ Len(w) = 1 /\ w[1] = x
      <3>1. x \in Commands
        BY <2>1, Made, ValuesAre
      <3> QED BY <2>1, <3>1
    <2>4. /\ Len(w \o a) = Len(w) + Len(a)
          /\ \A i \in 1..Len(w) : (w \o a)[i] = w[i]
          /\ \A i \in 1..Len(a) : (w \o a)[Len(w) + i] = a[i]
      BY <2>2, <2>3, Joined
    <2>5. Len(q) = 5 /\ q[1] = x /\ \A i \in 1..4 : q[1 + i] = a[i]
      BY <2>1, <2>2, <2>3, <2>4
    <2>6. \A i \in 1..Len(q) : i = 1 \/ (i - 1 \in 1..4 /\ 1 + (i - 1) = i)
      BY <2>5
    <2>7. \A i \in 1..Len(q) : q[i].do # "HSET"
      BY <2>2, <2>3, <2>5, <2>6
    <2> QED BY <2>1, <2>7 DEF HMSET
  <1> QED BY <1>1, <1>2, <1>3, <1>4

-----------------------------------------------------------------------------
(***************************************************************************)
(* Every step keeps the promises, and is one of AtomicStore's, or none.    *)
(***************************************************************************)
Steps == Promises' /\ [Atomic!Next]_known

\* A step of c: the others are where they were, and so are their files.
Aside(c) ==
    /\ \A d \in Clients \ {c} : prog'[d] = prog[d] /\ on'[d] = on[d]
    /\ overlapped \ {c} \subseteq overlapped'
    /\ \A k \in Keys \ on[c] : hash'[k] = hash[k] /\ known'[k] \in {known[k], Unknown}

LEMMA OthersPromised ==
    ASSUME CallsInv, CallsInv', Promises, NEW c \in Clients, Aside(c)
    PROVE  /\ \A d \in Clients \ {c} : Promised(d)'
           /\ \A k \in Keys \ on[c] : AtRest(k)' /\ known'[k] # Unknown => hash'[k] = known'[k]
  <1>1. ASSUME NEW d \in Clients \ {c}, on'[d] # {}, \A k \in on'[d] : known'[k] # Unknown
        PROVE  Promise(on'[d], known', hash', prog'[d])
    <2>1. prog'[d] = prog[d] /\ on'[d] = on[d]
      BY DEF Aside
    <2>2. on[d] \subseteq Keys /\ Shape(prog[d], on[d])
      <3>1. on[d] \subseteq Keys
        BY DEF CallsInv, StoreTypes, TypeOK
      <3> QED BY <1>1, <2>1, <3>1 DEF CallsInv, Shapes
    <2>3. on[d] \cap on[c] = {}
      <3> SUFFICES ASSUME on[d] \cap on[c] # {} PROVE FALSE
        OBVIOUS
      <3>1. d \in overlapped
        BY DEF CallsInv, Overlaps
      <3>2. d \in overlapped'
        BY <3>1 DEF Aside
      <3>3. \A k \in on'[d] : known'[k] = Unknown
        BY <3>2 DEF CallsInv, Overlaps
      <3> QED BY <1>1, <3>3
    <2>4. \A k \in on[d] : hash'[k] = hash[k] /\ known'[k] = known[k]
      BY <1>1, <2>1, <2>2, <2>3 DEF Aside
    <2>5. Promise(on[d], known, hash, prog[d])
      BY <1>1, <2>1, <2>4 DEF Promises, Promised
    <2> QED BY <2>1, <2>2, <2>4, <2>5, PromiseIsLocal
  <1>2. \A d \in Clients \ {c} : Promised(d)'
    BY <1>1 DEF Promised
  <1>3. ASSUME NEW k \in Keys \ on[c], AtRest(k)', known'[k] # Unknown
        PROVE  hash'[k] = known'[k]
    <2>1. hash'[k] = hash[k] /\ known'[k] = known[k]
      BY <1>3 DEF Aside
    <2>2. AtRest(k)
      BY <1>3 DEF AtRest, Aside
    <2> QED BY <1>3, <2>1, <2>2 DEF Promises, KnownIsKept
  <1> QED BY <1>2, <1>3

\* A command of a call that knows its files, and keeps its promise.
LEMMA ContinueSteps ==
    ASSUME CallsInv, CallsInv', Promises, NEW c \in Clients, prog[c] # <<>>,
           NEW q, q \in Seq(Commands), Continue(c, q),
           \A k \in Keys \ on[c] : hash'[k] = hash[k],
           (\A k \in on[c] : known[k] # Unknown) => Promise(on[c], known, hash', q)
    PROVE  Steps
  <1>1. /\ prog'[c] = q /\ \A d \in Clients \ {c} : prog'[d] = prog[d] /\ on'[d] = on[d]
        /\ on[c] # {} /\ on[c] \subseteq Keys
        /\ q # <<>> => UNCHANGED <<on, overlapped, known, strayed>>
        /\ q = <<>> => on'[c] = {} /\ overlapped' = overlapped \ {c}
        /\ \A k \in Keys \ on[c] : known'[k] = known[k]
    BY Continuing
  <1>2. Aside(c)
    BY <1>1 DEF Aside
  <1>3. /\ known \in [Keys -> Entries \cup {Unknown}] /\ hash' \in [Keys -> Entries]
    BY DEF CallsInv, StoreTypes, TypeOK
  <1>4. CASE q # <<>>
    <2>1. Promised(c)'
      BY <1>1, <1>4 DEF Promised
    <2>2. \A k \in on[c] : ~AtRest(k)'
      BY <1>1, <1>4 DEF AtRest
    <2>3. Promises'
      BY <1>2, <2>1, <2>2, OthersPromised DEF Promises, KnownIsKept
    <2> QED BY <1>1, <1>4, <2>3 DEF Steps
  <1>5. CASE q = <<>>
    <2>1. Promised(c)'
      BY <1>1, <1>5 DEF Promised
    <2>2. known' = IF \E k \in on[c] : known[k] = Unknown THEN Forget(on[c])
                   ELSE [k \in Keys |-> IF k \in on[c] THEN hash'[k] ELSE known[k]]
      BY <1>5 DEF Continue
    <2>3. \A k \in on[c] : known'[k] # Unknown => hash'[k] = known'[k]
      <3>1. \A k \in on[c] : k \in Keys
        BY <1>1
      <3>2. CASE \E k \in on[c] : known[k] = Unknown
        BY <2>2, <3>1, <3>2 DEF Forget
      <3>3. CASE ~ \E k \in on[c] : known[k] = Unknown
        BY <2>2, <3>1, <3>3
      <3> QED BY <3>2, <3>3
    <2>4. Promises'
      BY <1>2, <2>1, <2>3, OthersPromised DEF Promises, KnownIsKept
    <2>5. [Atomic!Next]_known
      <3>1. CASE \E k \in on[c] : known[k] = Unknown
        <4>1. known' = Forget(on[c])
          BY <2>2, <3>1
        <4> QED BY <1>1, <4>1, ForgetStep
      <3>2. CASE ~ \E k \in on[c] : known[k] = Unknown
        <4>1. known' = [k \in Keys |-> IF k \in on[c] THEN hash'[k] ELSE known[k]]
          BY <2>2, <3>2
        <4>2. Promise(on[c], known, hash', <<>>)
          BY <1>5, <3>2
        <4> QED BY <1>1, <1>3, <4>1, <4>2, Ended
      <3> QED BY <3>1, <3>2
    <2> QED BY <2>4, <2>5 DEF Steps
  <1> QED BY <1>4, <1>5

\* What a call that knows its files has promised.
LEMMA HasPromised ==
    ASSUME CallsInv, Promises, NEW c \in Clients, prog[c] # <<>>,
           \A k \in on[c] : known[k] # Unknown
    PROVE  Promise(on[c], known, hash, prog[c])
  BY InCall DEF Promises, Promised

LEMMA HSETSteps ==
    ASSUME CallsInv, Promises, NEW c \in Clients, SendHSET(c)
    PROVE  Steps
  <1>1. PICK p, x, q : p = prog[c] /\ x = p[1] /\ q = Tail(p)
    OBVIOUS
  <1>2. CallsInv' /\ p # <<>>
    BY <1>1, HSETCalls DEF SendHSET, Sends
  <1>3. /\ Head(p) = x /\ Shape(p, on[c]) /\ hash \in [Keys -> Entries]
        /\ x.do # "ZREM" => x.key \in on[c] /\ x.key \in Keys
    BY <1>1, <1>2, Sent
  <1>4. /\ x.do = "HSET" /\ Continue(c, q)
        /\ hash' = [hash EXCEPT ![x.key] =
                    IF @ \in {Missing, Ghost} THEN Ghost
                    ELSE IF x.field \in Sets THEN [@ EXCEPT ![x.field] = x.value]
                    ELSE @]
    BY <1>1, <1>3 DEF SendHSET, Sends
  <1>5. q \in Seq(Commands)
    BY <1>1, <1>2, <1>3, First
  <1>6. \A k \in Keys \ on[c] : hash'[k] = hash[k]
    BY <1>3, <1>4
  <1>7. ASSUME \A k \in on[c] : known[k] # Unknown
        PROVE  Promise(on[c], known, hash', q)
    <2>1. Promise(on[c], known, hash, p)
      BY <1>1, <1>2, <1>7, HasPromised
    <2> QED BY <1>1, <1>2, <1>3, <1>4, <2>1, HSETPromise
  <1> QED BY <1>1, <1>2, <1>4, <1>5, <1>6, <1>7, ContinueSteps

LEMMA HGETSteps ==
    ASSUME CallsInv, Promises, NEW c \in Clients, SendHGET(c)
    PROVE  Steps
  <1>1. PICK p, x, k, n, q :
            /\ p = prog[c]
            /\ x = p[1]
            /\ k = x.key
            /\ n = (IF hash[k] \in FileData THEN hash[k].Times_Accessed ELSE -1)
            /\ q = WriteTimesAccessed(k, n + 1, x.time)
    OBVIOUS
  <1>2. CallsInv' /\ Len(p) = 1
    BY <1>1, HGETCalls
  <1>3. p # <<>> /\ x.do = "HGET" /\ hash' = hash
    BY <1>1, Sent DEF SendHGET, Sends, redis
  <1>4. /\ Head(p) = x /\ Shape(p, on[c]) /\ x \in Commands /\ 1 \in 1..Len(p)
        /\ hash \in [Keys -> Entries]
    BY <1>1, <1>3, Sent
  <1>5. k \in Keys /\ on[c] = {k} /\ x.time \in Times
    BY <1>1, <1>3, <1>4, OfOne, Fields
  <1>6. Continue(c, q) /\ n < MaxHits
    BY <1>1, <1>4 DEF SendHGET
  <1>7. n + 1 \in 0..MaxHits
    <2>1. n \in -1..MaxHits
      BY <1>1, FieldsOfData, ValuesAre, StoreAssumption
    <2> QED BY <1>6, <2>1, StoreAssumption
  <1>8. q \in Seq(Commands)
    BY <1>1, <1>5, <1>7, TouchShape DEF Opening, Shape
  <1>9. ASSUME \A l \in on[c] : known[l] # Unknown
        PROVE  Promise(on[c], known, hash', q)
    <2>1. Promise(on[c], known, hash, p)
      BY <1>1, <1>3, <1>9, HasPromised
    <2>2. Unwritten(on[c], known, hash, p)
      BY <1>1, <1>3, <1>4, <2>1, NothingWritten
    <2>3. hash[k] = known[k] /\ hash[k] \in Entries
      BY <1>4, <1>5, <2>2 DEF Unwritten
    <2>4. Promise({k}, known, hash, q)
      BY <1>1, <1>5, <1>6, <2>3, ReadsCount
    <2> QED BY <1>3, <1>5, <2>4
  <1> QED BY <1>1, <1>2, <1>3, <1>6, <1>8, <1>9, ContinueSteps

LEMMA DELSteps ==
    ASSUME CallsInv, Promises, NEW c \in Clients, SendDEL(c)
    PROVE  Steps
  <1>1. PICK p, x, q : p = prog[c] /\ x = p[1] /\ q = Tail(p)
    OBVIOUS
  <1>2. CallsInv' /\ p # <<>>
    BY <1>1, DELCalls DEF SendDEL, Sends
  <1>3. /\ Head(p) = x /\ Shape(p, on[c]) /\ hash \in [Keys -> Entries]
        /\ x.do # "ZREM" => x.key \in on[c] /\ x.key \in Keys
        /\ known \in [Keys -> Entries \cup {Unknown}]
    BY <1>1, <1>2, Sent
  <1>4. x.do = "DEL" /\ Continue(c, q) /\ hash' = [hash EXCEPT ![x.key] = Missing]
    BY <1>1, <1>3 DEF SendDEL, Sends
  <1>5. q \in Seq(Commands)
    BY <1>1, <1>2, <1>3, First
  <1>6. \A k \in Keys \ on[c] : hash'[k] = hash[k]
    BY <1>3, <1>4
  <1>7. ASSUME \A k \in on[c] : known[k] # Unknown
        PROVE  Promise(on[c], known, hash', q)
    <2>1. Promise(on[c], known, hash, p)
      BY <1>1, <1>2, <1>7, HasPromised
    <2> QED BY <1>1, <1>2, <1>3, <1>4, <1>7, <2>1, DELPromise
  <1> QED BY <1>1, <1>2, <1>4, <1>5, <1>6, <1>7, ContinueSteps

LEMMA ZSteps ==
    ASSUME CallsInv, Promises, NEW c \in Clients, SendZ(c)
    PROVE  Steps
  <1>1. PICK p, x, q : p = prog[c] /\ x = p[1] /\ q = Tail(p)
    OBVIOUS
  <1>2. CallsInv' /\ p # <<>>
    BY <1>1, ZCalls DEF SendZ, Sends
  <1>3. Head(p) = x /\ Shape(p, on[c])
    BY <1>1, <1>2, Sent
  <1>4. x.do \in {"ZADD", "ZREM"} /\ Continue(c, q) /\ hash' = hash
    BY <1>1, <1>3 DEF SendZ, Sends
  <1>5. q \in Seq(Commands)
    BY <1>1, <1>2, <1>3, First
  <1>6. ASSUME \A k \in on[c] : known[k] # Unknown
        PROVE  Promise(on[c], known, hash', q)
    <2>1. Promise(on[c], known, hash, p)
      BY <1>1, <1>2, <1>6, HasPromised
    <2> QED BY <1>1, <1>2, <1>3, <1>4, <2>1, TailPromise
  <1> QED BY <1>1, <1>2, <1>4, <1>5, <1>6, ContinueSteps

LEMMA RENAMESteps ==
    ASSUME CallsInv, Promises, NEW c \in Clients, SendRENAME(c)
    PROVE  Steps
  <1>1. PICK p, x, q : p = prog[c] /\ x = p[1] /\ q = Tail(p)
    OBVIOUS
  <1>2. CallsInv' /\ p # <<>>
    BY <1>1, RENAMECalls DEF SendRENAME, Sends
  <1>3. /\ Head(p) = x /\ Shape(p, on[c]) /\ hash \in [Keys -> Entries] /\ 1 \in 1..Len(p)
        /\ x.do # "ZREM" => x.key \in on[c] /\ x.key \in Keys
    BY <1>1, <1>2, Sent
  <1>4. /\ x.do = "RENAME" /\ Continue(c, q)
        /\ hash' = IF hash[x.key] = Missing THEN hash
                   ELSE [hash EXCEPT ![x.to] = hash[x.key], ![x.key] = Missing]
    BY <1>1, <1>3 DEF SendRENAME, Sends
  <1>5. q \in Seq(Commands)
    BY <1>1, <1>2, <1>3, First
  <1>6. x.to \in on[c]
    BY <1>1, <1>3, <1>4 DEF Shape, About
  <1>7. \A k \in Keys \ on[c] : hash'[k] = hash[k]
    BY <1>3, <1>4, <1>6
  <1>8. ASSUME \A k \in on[c] : known[k] # Unknown
        PROVE  Promise(on[c], known, hash', q)
    <2>1. Promise(on[c], known, hash, p)
      BY <1>1, <1>2, <1>8, HasPromised
    <2> QED BY <1>1, <1>2, <1>3, <1>4, <2>1, RENAMEPromise
  <1> QED BY <1>1, <1>2, <1>4, <1>5, <1>7, <1>8, ContinueSteps

LEMMA HGETALLSteps ==
    ASSUME CallsInv, Promises, NEW c \in Clients, SendHGETALL(c)
    PROVE  Steps
  <1>1. PICK p, x, fd : p = prog[c] /\ x = p[1] /\ fd = hash[x.key]
    OBVIOUS
  <1>2. CallsInv' /\ p # <<>> /\ hash' = hash
    BY <1>1, HGETALLCalls DEF SendHGETALL, Reads, Misses, Sends, redis
  <1>3. Head(p) = x /\ Shape(p, on[c]) /\ Tail(p) \in Seq(Commands)
    BY <1>1, <1>2, Sent, First
  <1>4. \A k \in Keys \ on[c] : hash'[k] = hash[k]
    BY <1>2
  <1>5. (\A k \in on[c] : known[k] # Unknown) => Promise(on[c], known, hash, p)
    BY <1>1, <1>2, HasPromised
  <1>6. Missing # Ghost /\ Ghost \notin FileData
    BY StoreAssumption
  <1>7. \/ /\ x.do = "update" /\ fd \in FileData
           /\ Continue(c, AfterUpdate(p, fd))
        \/ x.do \in {"update", "gone"} /\ fd = Missing /\ Continue(c, Tail(p))
        \/ /\ x.do = "gone" /\ fd \in FileData
           /\ Continue(c, AfterGone(p))
        \/ /\ x.do = "old" /\ fd \in FileData
           /\ Continue(c, RenameFrom(x.key, x.to, x.key))
        \/ /\ x.do = "old" /\ fd = Missing
           /\ Continue(c, RenameFrom(x.key, x.to, NoKey))
        \/ /\ x.do = "new" /\ fd \in FileData
           /\ Continue(c, AfterNew(p, fd))
        \/ /\ x.do = "new" /\ fd = Missing
           /\ Continue(c, DeleteFileFromAllSets(x.old))
    BY <1>1, <1>3 DEF SendHGETALL, Reads, Misses, Sends, AfterUpdate, AfterGone, AfterNew
  <1>8. ASSUME x.do = "update", fd \in FileData, Continue(c, AfterUpdate(p, fd))
        PROVE  Steps
    <2>1. PICK q : q = AfterUpdate(p, fd)
      OBVIOUS
    <2>2. Shape(q, on[c])
      BY <1>1, <1>2, <1>3, <1>8, <2>1, Updated
    <2>3. q \in Seq(Commands) /\ Continue(c, q)
      BY <1>8, <2>1, <2>2 DEF Shape
    <2>4. Promise(on[c], known, hash, p) => Promise(on[c], known, hash', q)
      BY <1>1, <1>2, <1>3, <1>8, <2>1, UpdatePromise
    <2> QED BY <1>1, <1>2, <1>4, <1>5, <2>3, <2>4, ContinueSteps
  <1>9. ASSUME x.do \in {"update", "gone"}, fd = Missing, Continue(c, Tail(p))
        PROVE  Steps
    <2>1. CASE x.do = "update"
      <3>1. Promise(on[c], known, hash, p) => Promise(on[c], known, hash', Tail(p))
        BY <1>1, <1>2, <1>3, <2>1, TailPromise
      <3> QED BY <1>1, <1>2, <1>3, <1>4, <1>5, <1>9, <3>1, ContinueSteps
    <2>2. CASE x.do = "gone"
      <3>1. Promise(on[c], known, hash, p) => Promise(on[c], known, hash', Tail(p))
        BY <1>1, <1>2, <1>3, <1>6, <1>9, <2>2, GonePromise
      <3> QED BY <1>1, <1>2, <1>3, <1>4, <1>5, <1>9, <3>1, ContinueSteps
    <2> QED BY <1>9, <2>1, <2>2
  <1>10. ASSUME x.do = "gone", fd \in FileData, Continue(c, AfterGone(p))
         PROVE  Steps
    <2>1. PICK q : q = AfterGone(p)
      OBVIOUS
    <2>2. Shape(q, on[c])
      BY <1>1, <1>2, <1>3, <1>10, <2>1, Going DEF GoneGoesOn
    <2>3. q \in Seq(Commands) /\ Continue(c, q)
      BY <1>10, <2>1, <2>2 DEF Shape
    <2>4. Promise(on[c], known, hash, p) => Promise(on[c], known, hash', q)
      BY <1>1, <1>2, <1>3, <1>6, <1>10, <2>1, GonePromise
    <2> QED BY <1>1, <1>2, <1>4, <1>5, <2>3, <2>4, ContinueSteps
  <1>11. ASSUME x.do = "old", fd # Ghost, NEW o \in {x.key, NoKey},
                Continue(c, RenameFrom(x.key, x.to, o))
         PROVE  Steps
    <2>1. PICK q : q = RenameFrom(x.key, x.to, o)
      OBVIOUS
    <2>2. Shape(q, on[c])
      <3>1. OldGoesOn(q, p, on[c], o)
        BY <1>1, <1>2, <1>3, <1>11, <2>1, OldShape
      <3> QED BY <3>1 DEF OldGoesOn
    <2>3. q \in Seq(Commands) /\ Continue(c, q)
      BY <1>11, <2>1, <2>2 DEF Shape
    <2>4. Promise(on[c], known, hash, p) => Promise(on[c], known, hash', q)
      BY <1>1, <1>2, <1>3, <1>11, <2>1, OldPromise
    <2> QED BY <1>1, <1>2, <1>4, <1>5, <2>3, <2>4, ContinueSteps
  <1>12. ASSUME x.do = "new", NEW q, Continue(c, q),
                \/ fd \in FileData /\ q = AfterNew(p, fd)
                \/ q = DeleteFileFromAllSets(x.old)
         PROVE  Steps
    <2>1. Shape(q, on[c])
      <3>1. CASE fd \in FileData /\ q = AfterNew(p, fd)
        <4>1. RenameGoesOn(q, p, on[c], fd)
          BY <1>1, <1>2, <1>3, <1>12, <3>1, RenamedTo
        <4> QED BY <4>1 DEF RenameGoesOn
      <3>2. CASE q = DeleteFileFromAllSets(x.old)
        BY <1>1, <1>2, <1>3, <1>12, <3>2, RenamedAway
      <3> QED BY <1>12, <3>1, <3>2
    <2>2. q \in Seq(Commands)
      BY <2>1 DEF Shape
    <2>3. Promise(on[c], known, hash, p) => Promise(on[c], known, hash', q)
      BY <1>1, <1>2, <1>3, <1>12, NewPromise
    <2> QED BY <1>1, <1>2, <1>4, <1>5, <1>12, <2>2, <2>3, ContinueSteps
  <1> QED BY <1>6, <1>7, <1>8, <1>9, <1>10, <1>11, <1>12

\* Redis_HMSET writes the hash in one command: that one is AtomicStore's step.
LEMMA HMSETSteps ==
    ASSUME CallsInv, Promises, NEW c \in Clients, SendHMSET(c)
    PROVE  Steps
  <1>1. PICK p, x, k, q, new :
            /\ p = prog[c]
            /\ x = p[1]
            /\ k = x.key
            /\ q = Tail(p)
            /\ new = (IF hash[k] = Ghost THEN Ghost ELSE x.data)
    OBVIOUS
  <1>2. /\ CallsInv' /\ p # <<>> /\ x.do = "HMSET" /\ x.data \in FileData
        /\ k \in Keys /\ on[c] = {k} /\ q # <<>>
    BY <1>1, HMSETCalls
  <1>3. /\ Shape(p, on[c]) /\ 1 \in 1..Len(p) /\ Head(p) = x /\ x \in Commands
        /\ hash \in [Keys -> Entries] /\ known \in [Keys -> Entries \cup {Unknown}]
    BY <1>1, <1>2, Sent
  <1>4. x.data \in Written
    BY <1>2, <1>3, Fields
  <1>5. /\ hash' = [hash EXCEPT ![k] = new] /\ prog' = [prog EXCEPT ![c] = q]
        /\ on' = on /\ overlapped' = overlapped
        /\ c \in overlapped => known' = known
        /\ c \notin overlapped => known' = [known EXCEPT ![k] = new]
    BY <1>1, <1>3 DEF SendHMSET
  <1>6. prog'[c] = q /\ \A d \in Clients \ {c} : prog'[d] = prog[d]
    BY <1>5 DEF CallsInv, StoreTypes
  <1>7. Aside(c)
    <2>1. \A l \in Keys \ on[c] : hash'[l] = hash[l] /\ known'[l] = known[l]
      BY <1>2, <1>3, <1>5
    <2> QED BY <1>5, <1>6, <2>1 DEF Aside
  <1>8. known[k] # Unknown => hash[k] = known[k]
    <2> SUFFICES ASSUME known[k] # Unknown PROVE hash[k] = known[k]
      OBVIOUS
    <2>1. Promise(on[c], known, hash, p)
      BY <1>1, <1>2, HasPromised
    <2>2. Unwritten(on[c], known, hash, p)
      BY <1>1, <1>2, <1>3, <2>1, NothingWritten
    <2> QED BY <1>2, <2>2 DEF Unwritten
  <1>9. Promised(c)'
    <2>1. CASE c \in overlapped
      BY <1>2, <1>5, <2>1 DEF Promised, CallsInv, Overlaps
    <2>2. CASE c \notin overlapped
      <3>1. hash'[k] = new /\ known'[k] = new
        BY <1>2, <1>3, <1>5, <2>2
      <3>2. \A i \in 1..Len(q) : i + 1 \in 2..Len(p) /\ q[i] = p[i + 1]
        BY <1>1, <1>2, <1>3, First
      <3>3. \A j \in 2..Len(p) : p[j].do = "ZADD"
        BY <1>1, <1>2, <1>3 DEF Shape, WritesAndAdds
      <3>4. \A i \in 1..Len(q) : q[i].do = "ZADD"
        BY <3>2, <3>3
      <3>5. Unwritten(on'[c], known', hash', q)
        BY <1>2, <1>5, <3>1, <3>4 DEF Unwritten
      <3> QED BY <1>6, <3>5 DEF Promised, Promise
    <2> QED BY <2>1, <2>2
  <1>10. ~AtRest(k)'
    BY <1>2, <1>5 DEF AtRest
  <1>11. Promises'
    BY <1>2, <1>7, <1>9, <1>10, OthersPromised DEF Promises, KnownIsKept
  <1>12. [Atomic!Next]_known
    <2>1. CASE c \in overlapped
      BY <1>5, <2>1
    <2>2. CASE c \notin overlapped /\ hash[k] = Ghost
      <3>1. known' = [known EXCEPT ![k] = Ghost]
        BY <1>1, <1>5, <2>2
      <3>2. CASE known[k] = Unknown
        <4>1. Atomic!Write(k)
          BY <1>4, <3>1, <3>2 DEF Atomic!Write, Atomic!Becomes
        <4> QED BY <1>2, <4>1 DEF Atomic!Next
      <3>3. CASE known[k] # Unknown
        <4>1. known[k] = Ghost
          BY <1>8, <2>2, <3>3
        <4>2. known' = known
          BY <1>2, <1>3, <3>1, <4>1
        <4> QED BY <4>2
      <3> QED BY <3>2, <3>3
    <2>3. CASE c \notin overlapped /\ hash[k] # Ghost
      <3>1. known' = [known EXCEPT ![k] = x.data]
        BY <1>1, <1>5, <2>3
      <3>2. known[k] # Ghost
        BY <1>8, <2>3, StoreAssumption
      <3>3. Atomic!Write(k)
        BY <1>4, <3>1, <3>2 DEF Atomic!Write, Atomic!Becomes
      <3> QED BY <1>2, <3>3 DEF Atomic!Next
    <2> QED BY <2>1, <2>2, <2>3
  <1> QED BY <1>11, <1>12 DEF Steps

LEMMA CallSteps ==
    ASSUME CallsInv, Promises, NEW c \in Clients, NEW ks \in SUBSET Keys, ks # {},
           NEW p, Opening(p, ks), Call(c, ks, p),
           (\A k \in ks : known[k] # Unknown /\ hash[k] = known[k]) =>
               Promise(ks, known, hash, p)
    PROVE  Steps
  <1>1. PICK met : met = {d \in Clients : on[d] \cap ks # {}}
    OBVIOUS
  <1>2. /\ CallsInv' /\ prog' = [prog EXCEPT ![c] = p] /\ on' = [on EXCEPT ![c] = ks]
        /\ hash' = hash /\ prog[c] = <<>>
        /\ IF met = {} THEN overlapped' = overlapped /\ known' = known
           ELSE /\ overlapped' = overlapped \cup met \cup {c}
                /\ known' = Forget(ks \cup UNION {on[d] : d \in met})
    BY <1>1, Called DEF Call, Idle, redis
  <1>3. /\ prog \in [Clients -> Seq(Commands)] /\ on \in [Clients -> SUBSET Keys]
        /\ on[c] = {}
    BY <1>2 DEF CallsInv, StoreTypes, TypeOK
  <1>4. /\ prog'[c] = p /\ on'[c] = ks
        /\ \A d \in Clients \ {c} : prog'[d] = prog[d] /\ on'[d] = on[d]
    BY <1>2, <1>3
  <1>5. Aside(c)
    <2>1. \A k \in Keys : known'[k] \in {known[k], Unknown}
      BY <1>2 DEF Forget
    <2>2. overlapped \subseteq overlapped'
      BY <1>2
    <2> QED BY <1>2, <1>4, <2>1, <2>2 DEF Aside
  <1>6. Promised(c)'
    <2>1. CASE met = {}
      <3> SUFFICES ASSUME \A k \in ks : known[k] # Unknown
                   PROVE  Promise(ks, known, hash, p)
        BY <1>2, <1>4, <2>1 DEF Promised
      <3>1. \A k \in ks : AtRest(k)
        BY <1>1, <2>1 DEF AtRest
      <3>2. \A k \in ks : hash[k] = known[k]
        BY <3>1 DEF Promises, KnownIsKept
      <3> QED BY <3>2
    <2>2. CASE met # {}
      <3>1. \A k \in ks : known'[k] = Unknown
        BY <1>2, <2>2 DEF Forget
      <3> QED BY <1>4, <3>1 DEF Promised
    <2> QED BY <2>1, <2>2
  <1>7. Promises'
    BY <1>2, <1>3, <1>5, <1>6, OthersPromised DEF Promises, KnownIsKept
  <1>8. [Atomic!Next]_known
    <2>1. CASE met = {}
      BY <1>2, <2>1
    <2>2. CASE met # {}
      <3>1. PICK fs : fs = ks \cup UNION {on[d] : d \in met}
        OBVIOUS
      <3>2. fs \in SUBSET Keys
        BY <1>1, <1>3, <3>1
      <3>3. known' = Forget(fs)
        BY <1>2, <2>2, <3>1
      <3> QED BY <3>2, <3>3, ForgetStep
    <2> QED BY <2>1, <2>2
  <1> QED BY <1>7, <1>8 DEF Steps

\* A setter of k promises what it will make of it.
LEMMA SetterSteps ==
    ASSUME CallsInv, Promises, NEW c \in Clients, NEW k \in Keys,
           NEW p, Opening(p, {k}), Call(c, {k}, p), \E f : Makers(p, known[k], f)
    PROVE  Steps
  <1>1. ASSUME known[k] # Unknown, hash[k] = known[k]
        PROVE  Promise({k}, known, hash, p)
    <2>1. known[k] \in Entries
      BY <1>1 DEF CallsInv, StoreTypes, TypeOK
    <2>2. PICK f : Makers(p, known[k], f)
      OBVIOUS
    <2>3. Underway({k}, known, hash, p)
      BY <1>1, <2>1, <2>2, MakersPromise
    <2> QED BY <2>3 DEF Promise
  <1>2. (\A l \in {k} : known[l] # Unknown /\ hash[l] = known[l]) =>
            Promise({k}, known, hash, p)
    BY <1>1
  <1>3. {k} \in SUBSET Keys /\ {k} # {}
    OBVIOUS
  <1> QED BY <1>2, <1>3, CallSteps

LEMMA OtherSteps ==
    ASSUME CallsInv, Promises, NEW c \in Clients, NEW ks \in SUBSET Keys, ks # {},
           NEW p, Opening(p, ks), Call(c, ks, p), \A i \in 1..Len(p) : p[i].do # "HSET"
    PROVE  Steps
  <1>1. (\A k \in ks : known[k] # Unknown /\ hash[k] = known[k]) =>
            Promise(ks, known, hash, p)
    BY FirstPromise
  <1> QED BY <1>1, CallSteps

LEMMA BeginSteps ==
    ASSUME CallsInv, Promises, NEW c \in Clients, Begin(c)
    PROVE  Steps
  <1>1. PICK k \in Keys, t \in Times :
        \/ \E n \in Sizes : Call(c, {k}, SetFileSize(k, n, t))
        \/ \E flag \in {0, 1} : Call(c, {k}, SetIsLocal(k, flag))
        \/ Call(c, {k}, SetIsOpen(k))
        \/ Call(c, {k}, SetOther(k, t))
        \/ Call(c, {k}, UpdateLastTimeModified(k, t))
        \/ Call(c, {k}, IncrementTimesAccessed(k, t))
        \/ \E fd \in Written : Call(c, {k}, HMSET(k, fd))
        \/ Call(c, {k}, DeleteFile(k))
        \/ \E l \in Keys \ {k} : Call(c, {k, l}, RENAME(k, l))
    BY DEF Begin
  <1>2. {k} \in SUBSET Keys /\ {k} # {}
    OBVIOUS
  <1>3. ASSUME NEW n \in Sizes, Call(c, {k}, SetFileSize(k, n, t)) PROVE Steps
    BY <1>3, SetterSteps, TouchShape, TouchMakers
  <1>4. ASSUME NEW flag \in {0, 1}, Call(c, {k}, SetIsLocal(k, flag)) PROVE Steps
    BY <1>4, SetterSteps, CallShape, FlagMakers
  <1>5. ASSUME Call(c, {k}, SetIsOpen(k)) PROVE Steps
    BY <1>5, SetterSteps, CallShape, FlagMakers
  <1>6. ASSUME Call(c, {k}, SetOther(k, t)) PROVE Steps
    BY <1>6, SetterSteps, TouchShape, TouchMakers
  <1>7. ASSUME Call(c, {k}, UpdateLastTimeModified(k, t)) PROVE Steps
    BY <1>7, SetterSteps, TouchShape, TouchMakers
  <1>8. ASSUME Call(c, {k}, IncrementTimesAccessed(k, t)) PROVE Steps
    BY <1>2, <1>8, OtherSteps, CallShape, NoSetters
  <1>9. ASSUME NEW fd \in Written, Call(c, {k}, HMSET(k, fd)) PROVE Steps
    BY <1>2, <1>9, OtherSteps, HMSETShape, NoSetters
  <1>10. ASSUME Call(c, {k}, DeleteFile(k)) PROVE Steps
    BY <1>2, <1>10, OtherSteps, CallShape, NoSetters
  <1>11. ASSUME NEW l \in Keys \ {k}, Call(c, {k, l}, RENAME(k, l)) PROVE Steps
    <2>1. {k, l} \in SUBSET Keys /\ {k, l} # {}
      OBVIOUS
    <2> QED BY <2>1, <1>11, OtherSteps, CallShape, NoSetters
  <1> QED BY <1>1, <1>3, <1>4, <1>5, <1>6, <1>7, <1>8, <1>9, <1>10, <1>11

LEMMA AbortSteps ==
    ASSUME CallsInv, Promises, NEW c \in Clients, Abort(c)
    PROVE  Steps
  <1>1. /\ CallsInv' /\ hash' = hash /\ overlapped' = overlapped \ {c}
        /\ prog' = [prog EXCEPT ![c] = <<>>] /\ on' = [on EXCEPT ![c] = {}]
        /\ known' = Forget(on[c])
    BY Aborted DEF Abort, redis
  <1>2. /\ prog \in [Clients -> Seq(Commands)] /\ on \in [Clients -> SUBSET Keys]
        /\ on[c] \in SUBSET Keys
    BY DEF CallsInv, StoreTypes, TypeOK
  <1>3. /\ on'[c] = {} /\ \A d \in Clients \ {c} : prog'[d] = prog[d] /\ on'[d] = on[d]
        /\ \A k \in on[c] : known'[k] = Unknown
        /\ \A k \in Keys \ on[c] : known'[k] = known[k]
    BY <1>1, <1>2 DEF Forget
  <1>4. Aside(c) /\ Promised(c)'
    BY <1>1, <1>3 DEF Aside, Promised
  <1>5. Promises'
    BY <1>1, <1>3, <1>4, OthersPromised DEF Promises, KnownIsKept
  <1>6. [Atomic!Next]_known
    BY <1>1, <1>2, ForgetStep
  <1> QED BY <1>5, <1>6 DEF Steps

LEMMA SameSteps ==
    ASSUME Promises, UNCHANGED <<hash, prog, on, known>>
    PROVE  Steps
  <1>1. \A k : AtRest(k)' <=> AtRest(k)
    BY DEF AtRest
  <1>2. KnownIsKept'
    BY <1>1 DEF Promises, KnownIsKept
  <1>3. \A c \in Clients : Promised(c)'
    BY DEF Promises, Promised
  <1>4. Promises'
    BY <1>2, <1>3 DEF Promises
  <1> QED BY <1>4 DEF Steps

LEMMA InitPromises == Init => Promises /\ Atomic!Init
  <1> SUFFICES ASSUME Init PROVE Promises /\ Atomic!Init
    OBVIOUS
  <1>1. /\ known = hash /\ hash = [k \in Keys |-> Missing] /\ on = [c \in Clients |-> {}]
    BY DEF Init
  <1>2. Promises
    BY <1>1 DEF Promises, KnownIsKept, Promised
  <1>3. Atomic!Init
    BY <1>1 DEF Atomic!Init
  <1> QED BY <1>2, <1>3

LEMMA NextSteps == CallsInv /\ Promises /\ [Next]_vars => Steps
  <1> SUFFICES ASSUME CallsInv, Promises, [Next]_vars PROVE Steps
    OBVIOUS
  <1>1. CASE UNCHANGED vars
    BY <1>1, SameSteps DEF vars, redis
  <1>2. ASSUME NEW c \in Clients,
               \/ Begin(c)
               \/ SendHSET(c) \/ SendHGET(c) \/ SendHMSET(c) \/ SendDEL(c) \/ SendZ(c)
               \/ SendHGETALL(c) \/ DieOfHGETALL(c) \/ SendRENAME(c)
               \/ Kill(c)
               \/ \E q \in Queries : Ask(c, q)
               \/ ReadFound(c) \/ DieOfQuery(c) \/ EndQuery(c)
        PROVE  Steps
    <2>1. CASE DieOfHGETALL(c) \/ Kill(c) \/ DieOfQuery(c)
      BY <2>1, AbortSteps DEF DieOfHGETALL, Kill, DieOfQuery
    <2>2. CASE (\E q \in Queries : Ask(c, q)) \/ ReadFound(c) \/ EndQuery(c)
      BY <2>2, QueryCalls, SameSteps
    <2> QED BY <1>2, <2>1, <2>2, BeginSteps, HSETSteps, HGETSteps, HMSETSteps, DELSteps,
               ZSteps, HGETALLSteps, RENAMESteps
  <1> QED BY <1>1, <1>2 DEF Next

-----------------------------------------------------------------------------
\* While a call is neither cut short nor overlapped, what was known before it and
\* the rest of its program agree on what it will leave.
THEOREM PromisesKept == Spec => []Promises
  <1>1. StoreInv => CallsInv
    BY DEF StoreInv
  <1>2. Steps => Promises'
    BY DEF Steps
  <1> QED BY <1>1, <1>2, InitPromises, NextSteps, CallsMend, PTL DEF Spec

\* Every method of Redis_Client, several commands though it is, is one step of
\* AtomicStore, as long as it is neither cut short nor overlapped for the same file.
THEOREM CallsAreAtomic == Spec => ImplementsAtomicStore
  <1>1. StoreInv => CallsInv
    BY DEF StoreInv
  <1>2. Steps => [Atomic!Next]_known
    BY DEF Steps
  <1> QED BY <1>1, <1>2, InitPromises, NextSteps, CallsMend, PromisesKept, PTL
          DEF Spec, ImplementsAtomicStore, Atomic!Spec
==============================================================================
