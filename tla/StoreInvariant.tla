---------------------------- MODULE StoreInvariant ----------------------------
(***************************************************************************)
(* Why the sorted sets agree with the hashes although every method of      *)
(* Redis_Client is several commands: an inductive invariant of Store.tla.  *)
(* It says, for the commands that a process has still to send, what they   *)
(* will mend of what the commands before them have broken.                 *)
(***************************************************************************)
EXTENDS Store

-----------------------------------------------------------------------------
(***************************************************************************)
(* The rest of a program p.                                                *)
(***************************************************************************)
Commands ==
    [field : Sets \cup {"other"}, do : {"HSET"}, key : Keys, value : Int]
    \cup [set : Sets, do : {"ZADD"}, key : Keys, score : Int]
    \cup [set : Sets, do : {"ZREM"}, key : Keys \cup {NoKey}]
    \cup [set : Sets, do : {"update"}, key : Keys]
    \cup [time : Times, do : {"HGET"}, key : Keys]
    \cup [do : {"HMSET"}, key : Keys, data : Written]
    \cup [do : {"DEL", "gone"}, key : Keys]
    \cup [do : {"old", "RENAME"}, key : Keys, to : Keys]
    \cup [do : {"new"}, key : Keys, old : Keys \cup {NoKey}]

Adds(x, s, k) == x.do = "ZADD" /\ x.set = s /\ x.key = k
Removes(x, s, k) == x.do = "ZREM" /\ x.set = s /\ x.key = k
Deletes(x, k) == x.do = "DEL" /\ x.key = k
ReadsNew(x, k) == x.do = "new" /\ x.key = k
ReadsOld(x, k) == x.do = "new" /\ x.old = k
Updates(x, s, k) == x.do = "update" /\ x.set = s /\ x.key = k

\* The values that commands carry are in the range of their field.
Typed(p) == \A i \in 1..Len(p) :
    /\ p[i].do = "ZADD" => p[i].score \in Atomic!Values[p[i].set]
    /\ p[i].do = "HSET" /\ p[i].field \in Sets => p[i].value \in Atomic!Values[p[i].field]

\* The commands are about these keys.
About(p, ks) == \A i \in 1..Len(p) :
    /\ p[i].key \in ks \cup {NoKey}
    /\ p[i].do \in {"old", "RENAME"} => p[i].to \in ks
    /\ p[i].do = "new" => p[i].old \in ks \cup {NoKey}

\* Only a rename is about two keys.
OfRename == {"old", "RENAME", "new", "ZREM", "ZADD"}
Kinds(p, ks) ==
    \/ /\ \E k \in Keys : ks = {k}
       /\ \A i \in 1..Len(p) : p[i].do \notin {"old", "RENAME", "new"}
    \/ /\ \E k, l \in Keys : k # l /\ ks = {k, l}
       /\ \A i \in 1..Len(p) : p[i].do \in OfRename

\* A call that removes a key from a set puts it there again, or deletes the hash.
RemovesAndAdds(p) == \A i \in 1..Len(p) :
    p[i].do = "ZREM" =>
        \E j \in i + 1 .. Len(p) : \/ Adds(p[j], p[i].set, p[i].key)
                                   \/ Deletes(p[j], p[i].key)

\* A call that changes a field updates the set of that name, afterwards.
SetsAndUpdates(p) == \A i \in 1..Len(p) :
    p[i].do = "HSET" /\ p[i].field \in Sets =>
        \E j \in i + 1 .. Len(p) : Updates(p[j], p[i].field, p[i].key)

NoSetAfter(p) == \A i, j \in 1..Len(p) :
    p[j].do = "HSET" =>
        /\ p[i].do = "ZADD" => p[i].set # p[j].field
        /\ p[i].do = "update" /\ i < j => p[i].set # p[j].field

\* HMSET is followed by what puts the file into all sets.
WritesAndAdds(p) == \A i \in 1..Len(p) :
    p[i].do = "HMSET" =>
        /\ i = 1
        /\ \A j \in 2..Len(p) : /\ p[j].do = "ZADD"
                                /\ p[j].score = p[1].data[p[j].set]
        /\ \A s \in Sets : \E j \in 2..Len(p) : Adds(p[j], s, p[1].key)

Deletion(p) == \A i \in 1..Len(p) :
    /\ p[i].do = "gone" => i = 1 /\ Len(p) = 2 /\ p[2].do = "DEL"
    /\ p[i].do = "DEL" => /\ i = Len(p)
                          /\ \A j \in 1 .. i - 1 : p[j].do \in {"gone", "ZREM"}

Renaming(p) == \A i \in 1..Len(p) :
    /\ p[i].do \in {"old", "HGET"} => Len(p) = 1
    /\ p[i].do = "old" => p[i].key # p[i].to
    /\ p[i].do = "RENAME" => /\ i = 1 /\ Len(p) = 2
                             /\ p[2].do = "new"
                             /\ p[2].key = p[1].to
                             /\ p[2].old \in {p[1].key, NoKey}
                             /\ p[1].key # p[1].to
    /\ p[i].do = "new" => /\ i = Len(p) /\ i <= 2
                          /\ i = 2 => p[1].do = "RENAME"
                          /\ p[i].key # p[i].old

\* The program p is the rest of a call for ks.
Shape(p, ks) ==
    /\ p \in Seq(Commands)
    /\ Typed(p) /\ About(p, ks) /\ Kinds(p, ks)
    /\ (\E k \in Keys : ks = {k}) => RemovesAndAdds(p)
    /\ SetsAndUpdates(p) /\ NoSetAfter(p) /\ WritesAndAdds(p)
    /\ Deletion(p) /\ Renaming(p)

-----------------------------------------------------------------------------
(***************************************************************************)
(* The invariant.                                                          *)
(***************************************************************************)
At(c) == 1..Len(prog[c])

Shapes == \A c \in Clients : IF on[c] = {} THEN prog[c] = <<>>
                             ELSE prog[c] # <<>> /\ Shape(prog[c], on[c])

\* Calls for the same file are overlapped, and nothing is known of their files.
Overlaps == /\ \A c, d \in Clients :
                   c # d /\ on[c] \cap on[d] # {} => {c, d} \subseteq overlapped
            /\ \A c \in overlapped : \A k \in on[c] : known[k] = Unknown

\* A call that meets no other adds the score that the hash has,
AddsRight(c) == \A i \in At(c) :
    LET x == prog[c][i] IN
    x.do = "ZADD" /\ prog[c][1].do # "HMSET" =>
        \/ hash[x.key] = Ghost
        \/ hash[x.key] \in FileData /\ hash[x.key][x.set] = x.score

\* and removes a renamed key after its hash is gone.
Gone(k) == k = NoKey \/ hash[k] = Missing
RenamesRight(c) == \A i \in At(c) :
    LET x == prog[c][i] IN
    /\ x.do = "ZREM" /\ (\E k, l \in Keys : k # l /\ on[c] = {k, l}) => Gone(x.key)
    /\ x.do = "new" /\ i = 1 => Gone(x.old)
    /\ x.do = "RENAME" => (hash[x.key] = Missing) = (prog[c][2].old = NoKey)

\* A hash is deleted after its key is out of the sets.
DeletesRight(c) == \A i \in At(c) :
    LET x == prog[c][i] IN
    x.do = "DEL" /\ known[x.key] # Unknown =>
        \A s \in Sets : \/ index[s][x.key] = Out
                        \/ \E j \in At(c) : Removes(prog[c][j], s, x.key)
                        \/ prog[c][1].do = "gone"

Right(c) == c \notin overlapped => AddsRight(c) /\ RenamesRight(c) /\ DeletesRight(c)
Undisturbed == \A c \in Clients : Right(c)

\* Somebody has still to send a command that puts k into the set s, or makes up
\* for its not being there; one that brings the score up to date; one that removes
\* k from the set.
Mends(x, s, k) == Adds(x, s, k) \/ Deletes(x, k) \/ ReadsNew(x, k)
Clears(x, s, k) == Removes(x, s, k) \/ ReadsOld(x, k)
ToMend(p, s, k) == \E i \in 1..Len(p) : Mends(p[i], s, k)
ToUpdate(p, s, k) == \E i \in 1..Len(p) : Updates(p[i], s, k)
ToClear(p, s, k) == \E i \in 1..Len(p) : Clears(p[i], s, k)
WillMend(s, k) == \E c \in Clients : ToMend(prog[c], s, k)
WillUpdate(s, k) == \E c \in Clients : ToUpdate(prog[c], s, k)
WillClear(s, k) == \E c \in Clients : ToClear(prog[c], s, k)

\* A rename that has met another call is under way.
Muddled(k) == \E c \in overlapped : k \in on[c] /\ Cardinality(on[c]) = 2

\* A file that is missing in a set is about to be put there, or to be deleted.
Held(k) == hash[k] \in FileData => \A s \in Sets : index[s][k] # Out \/ WillMend(s, k)
CoveredAt(k) == k \notin strayed /\ ~Muddled(k) => Held(k)

\* What is known of a file is what the sets have, or will have.
Agreed(k) ==
    /\ hash[k] \in FileData =>
           \A s \in Sets : \/ index[s][k] = hash[k][s]
                            \/ WillMend(s, k) \/ WillUpdate(s, k)
    /\ hash[k] = Missing => \A s \in Sets : index[s][k] = Out \/ WillClear(s, k)
FreshAt(k) == known[k] # Unknown => Agreed(k)

Covered == \A k \in Keys : CoveredAt(k)
Fresh == \A k \in Keys : FreshAt(k)

\* What a query has read of a file that nobody has written to meanwhile, and what
\* it has still to read.
Answers(c, k) ==
    LET hit == /\ hash[k] \in FileData
               /\ InRange(hash[k][query[c].what.set], query[c].what) IN
    /\ {r \in query[c].result : r[1] = k} =
           IF hit /\ k \notin query[c].found THEN {<<k, hash[k]>>} ELSE {}
    /\ k \in query[c].found /\ hash[k] \in FileData => hit
Asked == \A c \in Clients : query[c] # None =>
    /\ query[c] \in [what : Queries, found : SUBSET Keys, result : SUBSET (Keys \X FileData)]
    /\ \A k \in Keys \ touched[c] : AtRest(k) /\ (known[k] # Unknown => Answers(c, k))

\* The type invariant, and what it needs of the variables that it leaves open.
StoreTypes == /\ TypeOK
              /\ index \in [Sets -> [Keys -> Int \cup {Out}]]
              /\ prog \in [Clients -> Seq(Commands)]
              /\ query = [c \in Clients |-> query[c]]
              /\ touched \in [Clients -> SUBSET Keys]

CallsInv == StoreTypes /\ Shapes /\ Overlaps

StoreInv == CallsInv /\ Undisturbed /\ Covered /\ Fresh

-----------------------------------------------------------------------------
(***************************************************************************)
(* Why a call that meets no other is one step of AtomicStore.  Until it is *)
(* through, known has what was, and the rest of its program what will be.  *)
(***************************************************************************)

\* What one step of AtomicStore may make of m, m itself included.
May(m, f) ==
    \/ f = m
    \/ m = Missing /\ f = Ghost
    \/ m \in FileData /\ f = Missing
    \/ /\ m \in FileData /\ f \in FileData
       /\ \/ f = [m EXCEPT !.Is_Local = f.Is_Local]
          \/ f = [m EXCEPT !.Last_Modified = f.Last_Modified]
          \/ f = [m EXCEPT !.Last_Modified = f.Last_Modified, !.File_Size = f.File_Size]
          \/ f = [m EXCEPT !.Last_Modified = f.Last_Modified, !.Times_Accessed = @ + 1]

\* The HSETs of p make f of h.
Overwrites(p, s) == \E i \in 1..Len(p) : p[i].do = "HSET" /\ p[i].field = s
Makes(p, h, f) ==
    IF h \in {Missing, Ghost}
    THEN f = IF \E i \in 1..Len(p) : p[i].do = "HSET" THEN Ghost ELSE h
    ELSE /\ f \in FileData
         /\ \A s \in Sets : f[s] = h[s] \/ Overwrites(p, s)
         /\ \A i \in 1..Len(p) :
                p[i].do = "HSET" /\ p[i].field \in Sets => f[p[i].field] = p[i].value

\* A call for the files ks, known as m before it, has the hashes h so far and the
\* commands p still to send: either it has written nothing yet, and sets no field; or
\* it sets fields of one file; or it has renamed a file.
Unwritten(ks, m, h, p) ==
    /\ \A k \in ks : h[k] = m[k]
    /\ \A i \in 1..Len(p) :
           /\ p[i].do # "HSET"
           /\ p[i].do = "DEL" /\ p[1].do # "gone" => m[p[i].key] # Ghost
           /\ p[i].do = "RENAME" => m[p[i].key] # Ghost
Underway(ks, m, h, p) ==
    /\ \A i \in 1..Len(p) : p[i].do \in {"HSET", "update", "ZREM", "ZADD"}
    /\ \E k \in Keys, f \in Entries : ks = {k} /\ May(m[k], f) /\ Makes(p, h[k], f)
Moved(ks, m, h, p) ==
    /\ \A i \in 1..Len(p) : p[i].do \in {"new", "ZREM", "ZADD"}
    /\ \E k, l \in Keys : /\ k # l /\ ks = {k, l}
                          /\ m[k] \in FileData /\ h[k] = Missing /\ h[l] = m[k]
Promise(ks, m, h, p) ==
    Unwritten(ks, m, h, p) \/ Underway(ks, m, h, p) \/ Moved(ks, m, h, p)

\* A file at rest has the hash that is known of it, and a call keeps its promise.
KnownIsKept == \A k \in Keys : AtRest(k) /\ known[k] # Unknown => hash[k] = known[k]
Promised(c) ==
    on[c] # {} /\ (\A k \in on[c] : known[k] # Unknown) =>
        Promise(on[c], known, hash, prog[c])
Promises == KnownIsKept /\ \A c \in Clients : Promised(c)
==============================================================================
