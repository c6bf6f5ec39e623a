----------------------------- MODULE AtomicStore -----------------------------
(***************************************************************************)
(* What the methods of Redis_Client promise their callers: each of them    *)
(* changes what is known of a file in one step, the four members that the  *)
(* sorted sets are ordered by included.  After two calls for one file have *)
(* overlapped, or a process has ended in the midst of one, nothing is      *)
(* known of the file until it is written as a whole.                       *)
(***************************************************************************)
EXTENDS Integers

CONSTANTS
    Keys,       \* the local URIs of files
    Sizes,      \* values of File_Size
    Times,      \* values of Last_Modified, as HGETALL reads them
    MaxHits,    \* bound on Times_Accessed
    Written,    \* what Redis_HMSET is called with: a subset of FileData
    Missing,    \* there is no such key
    Ghost,      \* a hash that a lone HSET made: HGETALL cannot read it
    Unknown     \* nothing is known of this file

Values == [File_Size      |-> Sizes,
           Times_Accessed |-> 0..MaxHits,
           Is_Local       |-> {0, 1},
           Last_Modified  |-> Times]

\* The members of FileData that a sorted set goes by.
FileData == [File_Size : Values.File_Size, Times_Accessed : Values.Times_Accessed,
             Is_Local : Values.Is_Local, Last_Modified : Values.Last_Modified]

VARIABLE meta   \* what is known of each file

Init == meta \in [Keys -> FileData \cup {Missing, Unknown}]

Becomes(k, new) == meta' = [meta EXCEPT ![k] = new]

\* Redis_HMSET.  The fields of a ghost stay in disorder.
Write(k) ==
    \E fd \in Written :
        \/ meta[k] # Ghost /\ Becomes(k, fd)
        \/ meta[k] = Unknown /\ Becomes(k, Ghost)

\* setIsLocal and setLastTimeModified.
Set(k, field) ==
    /\ meta[k] \in FileData
    /\ \E v \in Values[field] : Becomes(k, [meta[k] EXCEPT ![field] = v])

\* Every other setter leaves the present time.
SetAndTouch(k) ==
    /\ meta[k] \in FileData
    /\ \E t \in Times, n \in Sizes :
           \/ Becomes(k, [meta[k] EXCEPT !.Last_Modified = t])
           \/ Becomes(k, [meta[k] EXCEPT !.Last_Modified = t, !.File_Size = n])

\* incrementTimesAccessed.
Increment(k) ==
    /\ meta[k] \in FileData
    /\ \E t \in Times :
           Becomes(k, [meta[k] EXCEPT !.Last_Modified = t, !.Times_Accessed = @ + 1])

\* setIsOpen on a missing key.
Haunt(k) == meta[k] = Missing /\ Becomes(k, Ghost)

\* A file is deleted; it is gone even from the sorted sets.
Delete(k) == meta[k] \in FileData /\ Becomes(k, Missing)

\* Redis_RENAME.
Rename(k, l) ==
    /\ meta[k] \in FileData
    /\ meta' = [meta EXCEPT ![k] = Missing, ![l] = meta[k]]

\* Two calls overlap, or one is cut short.
Disturb == \E ks \in SUBSET Keys :
    meta' = [k \in Keys |-> IF k \in ks THEN Unknown ELSE meta[k]]

Next == \/ \E k \in Keys : \/ Write(k) \/ SetAndTouch(k) \/ Increment(k)
                           \/ Set(k, "Is_Local") \/ Set(k, "Last_Modified")
                           \/ Haunt(k) \/ Delete(k)
                           \/ \E l \in Keys \ {k} : Rename(k, l)
        \/ Disturb

Spec == Init /\ [][Next]_meta
==============================================================================
