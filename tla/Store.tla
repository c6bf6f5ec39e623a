--------------------------------- MODULE Store ---------------------------------
(***************************************************************************)
(* Redis_Client and the sorted sets of Redis_Scanner, command by command.  *)
(* A method is a program of Redis commands.  Redis executes a command as a *)
(* whole; between two commands of one process come those of the other.     *)
(* There are no transactions.                                              *)
(*                                                                         *)
(* The members of a hash that no sorted set goes by (File_Name, Is_Open,   *)
(* ...) are "other" here; Catalogue.tla has them.                          *)
(***************************************************************************)
EXTENDS Integers, FiniteSets, SequencesExt

CONSTANTS
    Keys, Sizes, Times, MaxHits, Written, Missing, Ghost, Unknown,   \* AtomicStore's
    Clients,    \* the processes
    Queries,    \* what is asked for: a set, the least and the greatest score
    NoKey,      \* "", the localURI of a FileData that nothing was read into
    Out,        \* the score of a key that is not in a sorted set
    None,       \* no query
    MaxCalls    \* bound on the number of calls and queries

\* The sorted sets, in the order of addFileToAllSets and of
\* deleteFileFromAllSets.  Each has the name of the field it goes by.
Added == <<"File_Size", "Times_Accessed", "Is_Local", "Last_Modified">>
Removed == <<"File_Size", "Is_Local", "Times_Accessed", "Last_Modified">>
Sets == Range(Added)

VARIABLES
    hash,       \* the hashes
    index,      \* the sorted sets: set -> key -> score
    prog,       \* the commands each process has still to send
    on,         \* the keys that the call of each process writes to
    query,      \* each process' query, the keys it has still to read, and what
                \* it has read of the others
    calls,      \* the number of calls so far
    known,      \* history: what is known of each file.  While a call for it is
                \* under way, what was known before; Unknown as soon as two calls
                \* for it overlap or one is cut short
    overlapped, \* history: the processes whose call has met another one's
    strayed,    \* history: keys of calls that have been cut short, and of renames
                \* that have overlapped another call
    touched     \* history: the keys that have been written to since the query
                \* of a process began

redis == <<hash, index>>
vars == <<redis, prog, on, query, calls, known, overlapped, strayed, touched>>

Atomic == INSTANCE AtomicStore WITH meta <- known

FileData == Atomic!FileData

ASSUME StoreAssumption ==
    /\ MaxHits \in Nat /\ Sizes \subseteq Nat /\ Times \subseteq Nat
    /\ Written \subseteq FileData
    /\ {Missing, Ghost, Unknown} \cap FileData = {}
    /\ Missing # Ghost /\ Missing # Unknown /\ Ghost # Unknown
    /\ Out \notin Int /\ NoKey \notin Keys
    /\ Queries \subseteq [set : Sets, low : Int, high : Int]

Init ==
    /\ hash = [k \in Keys |-> Missing]
    /\ index = [s \in Sets |-> [k \in Keys |-> Out]]
    /\ prog = [c \in Clients |-> <<>>]
    /\ on = [c \in Clients |-> {}]
    /\ query = [c \in Clients |-> None]
    /\ calls = 0
    /\ known = hash
    /\ overlapped = {} /\ strayed = {}
    /\ touched = [c \in Clients |-> {}]

-----------------------------------------------------------------------------
(***************************************************************************)
(* The methods, as programs.                                               *)
(***************************************************************************)
HSET(k, field, v) == [field |-> field, do |-> "HSET", key |-> k, value |-> v]
ZADD(s, k, v) == [set |-> s, do |-> "ZADD", key |-> k, score |-> v]
ZREM(s, k) == [set |-> s, do |-> "ZREM", key |-> k]

\* HGETALL and then updateFileInFileSizeSet, or its like for another set.
Update(k, s) == [set |-> s, do |-> "update", key |-> k]
\* Mutant: every set goes by the count.
UpdateInSetByHits(s, k, fd) == <<ZREM(s, k), ZADD(s, k, fd["Times_Accessed"])>>
UpdateInSet(s, k, fd) == <<ZREM(s, k), ZADD(s, k, fd[s])>>

UpdateLastTimeModified(k, t) ==
    <<HSET(k, "Last_Modified", t), Update(k, "Last_Modified")>>
SetFileSize(k, n, t) ==
    <<HSET(k, "File_Size", n), Update(k, "File_Size")>> \o UpdateLastTimeModified(k, t)
\* Mutant: the line that is commented out is not.
SetIsLocalAndTouch(k, flag) ==
    <<HSET(k, "Is_Local", flag), Update(k, "Is_Local")>> \o UpdateLastTimeModified(k, flag)
SetIsLocal(k, flag) == <<HSET(k, "Is_Local", flag), Update(k, "Is_Local")>>
SetIsOpen(k) == <<HSET(k, "other", 0)>>
\* setRemoteURI, setFileName, setIsMetadata
SetOther(k, t) == <<HSET(k, "other", 0)>> \o UpdateLastTimeModified(k, t)

\* getTimesAccessed, and then the rest.
IncrementTimesAccessed(k, t) == <<[time |-> t, do |-> "HGET", key |-> k]>>
WriteTimesAccessed(k, n, t) ==
    <<HSET(k, "Times_Accessed", n), Update(k, "Times_Accessed")>>
        \o UpdateLastTimeModified(k, t)

AddFileToAllSets(k, fd) == [i \in 1..4 |-> ZADD(Added[i], k, fd[Added[i]])]
\* Mutant: a set is left out.
DeleteFileFromMostSets(k) == [i \in 1..3 |-> ZREM(Removed[i], k)]
DeleteFileFromAllSets(k) == [i \in 1..4 |-> ZREM(Removed[i], k)]

HMSET(k, fd) == <<[do |-> "HMSET", key |-> k, data |-> fd]>> \o AddFileToAllSets(k, fd)

\* Mutant: the hash goes before the members of the sets.
DeleteHashFirst(k) == <<[do |-> "DEL", key |-> k]>> \o DeleteFileFromAllSets(k)
\* The handler's IN_DELETE: HGETALL, deleteFileFromAllSets, Redis_DEL.
DeleteFile(k) == <<[do |-> "gone", key |-> k], [do |-> "DEL", key |-> k]>>

RENAME(k, l) == <<[do |-> "old", key |-> k, to |-> l]>>
RenameFrom(k, l, oldKey) == <<[do |-> "RENAME", key |-> k, to |-> l],
                              [do |-> "new", key |-> l, old |-> oldKey]>>

-----------------------------------------------------------------------------
(***************************************************************************)
(* The calls that a process may make, one after the other.                 *)
(***************************************************************************)
Idle(c) == prog[c] = <<>> /\ query[c] = None

\* Nothing is known of these files any more.
Forget(ks) == [k \in Keys |-> IF k \in ks THEN Unknown ELSE known[k]]

Call(c, ks, program) ==
    LET met == {d \in Clients : on[d] \cap ks # {}} IN
    /\ Idle(c)
    /\ calls < MaxCalls /\ calls' = calls + 1
    /\ prog' = [prog EXCEPT ![c] = program]
    /\ on' = [on EXCEPT ![c] = ks]
    /\ IF met = {} THEN UNCHANGED <<overlapped, known>>
       ELSE /\ overlapped' = overlapped \cup met \cup {c}
            /\ known' = Forget(ks \cup UNION {on[d] : d \in met})
    /\ touched' = [d \in Clients |-> IF query[d] = None THEN {} ELSE touched[d] \cup ks]
    /\ UNCHANGED <<redis, query, strayed>>

Begin(c) ==
    \E k \in Keys, t \in Times :
        \/ \E n \in Sizes : Call(c, {k}, SetFileSize(k, n, t))
        \/ \E flag \in {0, 1} : Call(c, {k}, SetIsLocal(k, flag))
        \/ Call(c, {k}, SetIsOpen(k))
        \/ Call(c, {k}, SetOther(k, t))
        \/ Call(c, {k}, UpdateLastTimeModified(k, t))  \* setLastTimeModified, too
        \/ Call(c, {k}, IncrementTimesAccessed(k, t))
        \/ \E fd \in Written : Call(c, {k}, HMSET(k, fd))
        \/ Call(c, {k}, DeleteFile(k))
        \/ \E l \in Keys \ {k} : Call(c, {k, l}, RENAME(k, l))

\* A process is through with a command and goes on with this program.  At the
\* end of the call the hash is what is known of a file, unless nothing was known
\* of it, or of the file that was renamed to it.
Continue(c, program) ==
    /\ prog' = [prog EXCEPT ![c] = program]
    /\ IF program # <<>> THEN UNCHANGED <<on, overlapped, known, strayed>>
       ELSE /\ on' = [on EXCEPT ![c] = {}]
            /\ overlapped' = overlapped \ {c}
            /\ known' = IF \E k \in on[c] : known[k] = Unknown THEN Forget(on[c])
                        ELSE [k \in Keys |-> IF k \in on[c] THEN hash'[k] ELSE known[k]]
            /\ strayed' = IF c \in overlapped /\ Cardinality(on[c]) = 2
                          THEN strayed \cup on[c] ELSE strayed
    /\ UNCHANGED <<query, calls, touched>>

\* The process ends, and is started again.
Abort(c) ==
    /\ prog' = [prog EXCEPT ![c] = <<>>]
    /\ on' = [on EXCEPT ![c] = {}]
    /\ query' = [query EXCEPT ![c] = None]
    /\ overlapped' = overlapped \ {c}
    /\ known' = Forget(on[c])
    /\ strayed' = strayed \cup on[c]
    /\ touched' = [touched EXCEPT ![c] = {}]
    /\ UNCHANGED <<redis, calls>>

-----------------------------------------------------------------------------
(***************************************************************************)
(* The commands.                                                           *)
(***************************************************************************)

\* The next command of c is this one.
Sends(c, what) == prog[c] # <<>> /\ Head(prog[c]).do = what

SendHSET(c) ==
    LET x == Head(prog[c]) IN
    /\ Sends(c, "HSET")
    /\ hash' = [hash EXCEPT ![x.key] =
                    IF @ \in {Missing, Ghost} THEN Ghost
                    ELSE IF x.field \in Sets THEN [@ EXCEPT ![x.field] = x.value]
                    ELSE @]
    /\ Continue(c, Tail(prog[c]))
    /\ UNCHANGED index

\* Without a count getTimesAccessed returns -1.
SendHGET(c) ==
    LET x == Head(prog[c])
        n == IF hash[x.key] \in FileData THEN hash[x.key].Times_Accessed ELSE -1 IN
    /\ Sends(c, "HGET")
    /\ n < MaxHits
    /\ UNCHANGED redis
    /\ Continue(c, WriteTimesAccessed(x.key, n + 1, x.time))

SendHMSET(c) ==
    LET x == Head(prog[c])
        new == IF hash[x.key] = Ghost THEN Ghost ELSE x.data IN
    /\ prog[c] # <<>> /\ x.do = "HMSET"
    /\ hash' = [hash EXCEPT ![x.key] = new]
    /\ prog' = [prog EXCEPT ![c] = Tail(prog[c])]
    /\ IF c \in overlapped THEN UNCHANGED <<known, strayed>>
       ELSE /\ known' = [known EXCEPT ![x.key] = new]
            /\ strayed' = strayed \ {x.key}
    /\ UNCHANGED <<index, on, query, calls, overlapped, touched>>

SendDEL(c) ==
    /\ Sends(c, "DEL")
    /\ hash' = [hash EXCEPT ![Head(prog[c]).key] = Missing]
    /\ Continue(c, Tail(prog[c]))
    /\ UNCHANGED index

\* A member "" has no place in index: what becomes of it is not modelled.
SendZ(c) ==
    LET x == Head(prog[c]) IN
    /\ Sends(c, "ZADD") \/ Sends(c, "ZREM")
    /\ index' = IF x.key = NoKey THEN index
                ELSE [index EXCEPT ![x.set][x.key] =
                          IF x.do = "ZADD" THEN x.score ELSE Out]
    /\ UNCHANGED hash
    /\ Continue(c, Tail(prog[c]))

\* Redis_HGETALL of a key that exists.
Reads(c, what) == Sends(c, what) /\ hash[Head(prog[c]).key] \in FileData

\* Redis_HGETALL of a missing key: the FileData has the name "".
Misses(c, what) == Sends(c, what) /\ hash[Head(prog[c]).key] = Missing

SendHGETALL(c) ==
    LET x == Head(prog[c])
        fd == hash[x.key]
        rest == Tail(prog[c]) IN
    /\ UNCHANGED redis
    /\ \/ Reads(c, "update") /\ Continue(c, UpdateInSet(x.set, x.key, fd) \o rest)
       \/ Misses(c, "update") /\ Continue(c, rest)
       \/ Reads(c, "gone") /\ Continue(c, DeleteFileFromAllSets(x.key) \o rest)
       \/ Misses(c, "gone") /\ Continue(c, rest)
       \/ Reads(c, "old") /\ Continue(c, RenameFrom(x.key, x.to, x.key))
       \/ Misses(c, "old") /\ Continue(c, RenameFrom(x.key, x.to, NoKey))
       \/ Reads(c, "new") /\ Continue(c, DeleteFileFromAllSets(x.old)
                                             \o AddFileToAllSets(x.key, fd))
       \/ Misses(c, "new") /\ Continue(c, DeleteFileFromAllSets(x.old))

\* The reply has too few fields, or has them out of order.
DieOfHGETALL(c) == /\ \E what \in {"update", "gone", "old", "new"} : Sends(c, what)
                   /\ hash[Head(prog[c]).key] = Ghost
                   /\ Abort(c)

\* RENAME of a missing key is an error, and nothing happens.
SendRENAME(c) ==
    LET x == Head(prog[c]) IN
    /\ Sends(c, "RENAME")
    /\ hash' = IF hash[x.key] = Missing THEN hash
               ELSE [hash EXCEPT ![x.to] = hash[x.key], ![x.key] = Missing]
    /\ Continue(c, Tail(prog[c]))
    /\ UNCHANGED index

\* The process is killed in the midst of a call.
Kill(c) == on[c] # {} /\ Abort(c)

-----------------------------------------------------------------------------
(***************************************************************************)
(* Queries: ZRANGEBYSCORE, then HGETALL of every key it has returned.      *)
(***************************************************************************)
InRange(score, q) == score # Out /\ q.low <= score /\ score <= q.high

\* Mutant: the upper bound is exclusive.
RangeByScoreBelow(q) == {k \in Keys : /\ InRange(index[q.set][k], q)
                                      /\ index[q.set][k] < q.high}
\* ZRANGEBYSCORE; its order is left out, since sortVector undoes it.
RangeByScore(q) == {k \in Keys : InRange(index[q.set][k], q)}

Ask(c, q) ==
    /\ Idle(c)
    /\ calls < MaxCalls /\ calls' = calls + 1
    /\ query' = [query EXCEPT ![c] =
                     [what |-> q, found |-> RangeByScore(q), result |-> {}]]
    /\ touched' = [touched EXCEPT ![c] = UNION Range(on)]
    /\ UNCHANGED <<redis, prog, on, known, overlapped, strayed>>

ReadFound(c) ==
    /\ query[c] # None
    /\ \E k \in query[c].found :
           /\ hash[k] # Ghost
           /\ query' = [query EXCEPT
                  ![c].found = @ \ {k},
                  ![c].result = IF hash[k] = Missing THEN @ ELSE @ \cup {<<k, hash[k]>>}]
    /\ UNCHANGED <<redis, prog, on, calls, known, overlapped, strayed, touched>>

DieOfQuery(c) == /\ query[c] # None
                 /\ \E k \in query[c].found : hash[k] = Ghost
                 /\ Abort(c)

Answered(c) == query[c] # None /\ query[c].found = {}

\* getDemotionList or getPromotionList has its vector.
EndQuery(c) ==
    /\ Answered(c)
    /\ query' = [query EXCEPT ![c] = None]
    /\ touched' = [touched EXCEPT ![c] = {}]
    /\ UNCHANGED <<redis, prog, on, calls, known, overlapped, strayed>>

-----------------------------------------------------------------------------
Next == \E c \in Clients :
    \/ Begin(c)
    \/ SendHSET(c) \/ SendHGET(c) \/ SendHMSET(c) \/ SendDEL(c) \/ SendZ(c)
    \/ SendHGETALL(c) \/ DieOfHGETALL(c) \/ SendRENAME(c)
    \/ Kill(c)
    \/ \E q \in Queries : Ask(c, q)
    \/ ReadFound(c) \/ DieOfQuery(c) \/ EndQuery(c)

Spec == Init /\ [][Next]_vars

-----------------------------------------------------------------------------
(***************************************************************************)
(* Properties.                                                             *)
(***************************************************************************)

AtRest(k) == \A c \in Clients : k \notin on[c]

Entries == FileData \cup {Missing, Ghost}

\* Type invariant.
TypeOK ==
    /\ hash \in [Keys -> Entries] /\ known \in [Keys -> Entries \cup {Unknown}]
    /\ \A s \in Sets : index[s] \in [Keys -> Atomic!Values[s] \cup {Out}]
    /\ on \in [Clients -> SUBSET Keys]
    /\ \A c \in Clients : (on[c] = {}) = (prog[c] = <<>>)
    /\ overlapped \subseteq {c \in Clients : on[c] # {}}
    /\ \A k \in strayed : k \in Keys /\ known[k] = Unknown
    /\ \A c \in Clients : query[c] # None => prog[c] = <<>>

\* The calls for a file that have met no other, and have not been cut short,
\* leave it in the four sorted sets with the scores its hash has, or in none of
\* them if they leave no hash.
IndexAgrees ==
    \A k \in Keys : AtRest(k) /\ known[k] # Unknown =>
        /\ hash[k] \in FileData => \A s \in Sets : index[s][k] = hash[k][s]
        /\ hash[k] = Missing => \A s \in Sets : index[s][k] = Out

\* A file whose hash exists is in all four sorted sets when nobody is at work on
\* it, even if setters, creations and deletions have overlapped in any way: with
\* a score that may be out of date, but a policy can still find it.
NothingGetsLost ==
    \A k \in Keys \ strayed :
        AtRest(k) /\ hash[k] \in FileData => \A s \in Sets : index[s][k] # Out

\* Although a query reads the sets and the hashes at different times, its answer
\* is exact about every file that is not written to meanwhile.
QueriesAreRight ==
    \A c \in Clients : Answered(c) =>
        \A k \in Keys \ touched[c] : known[k] # Unknown =>
            {r \in query[c].result : r[1] = k} =
                IF /\ hash[k] \in FileData
                   /\ InRange(hash[k][query[c].what.set], query[c].what)
                THEN {<<k, hash[k]>>} ELSE {}

\* Each method is one step of AtomicStore, as long as it is neither cut short
\* nor overlapped for the same file.
ImplementsAtomicStore == Atomic!Spec
==============================================================================
