------------------------------ MODULE Catalogue ------------------------------
(***************************************************************************)
(* The Redis hash that describes one file, and what each method of         *)
(* Redis_Client does to it.  A hash is keyed by the file's local URI; the  *)
(* methods are total functions from the hash before to the hash after.     *)
(*                                                                         *)
(* File_Size and Times_Accessed are left out (no decision modelled here    *)
(* reads them).  Last_Modified is reduced to what Supervisor.cpp tests:    *)
(* "recent" (at most 60 seconds old) or "old".                             *)
(***************************************************************************)
CONSTANTS
    Files,      \* the names of files, which are also the names of objects
    None,       \* the empty string as a name, an absent file, an absent object
    Nil         \* a field the hash does not have

Flag == {0, 1}

Ages == {"old", "recent"}

ASSUME NamesAssumption == /\ None \notin Files
                          /\ Nil \notin Files /\ Nil \notin Flag /\ Nil \notin Ages
                          /\ None # Nil

(***************************************************************************)
(* form records how the hash came into being, because Redis_HGETALL reads  *)
(* the reply by position (metaData[1], metaData[3], ...).                  *)
(*   "none"   the key does not exist;                                      *)
(*   "made"   created by Redis_HMSET, so every field is where HGETALL      *)
(*            expects it;                                                  *)
(*   "ghost"  created by a lone HSET on a missing key: the reply has too   *)
(*            few fields, or has them in another order, until the next     *)
(*            DEL.                                                         *)
(***************************************************************************)
Entries == [form         : {"none", "made", "ghost"},
            fileName     : Files \cup {Nil},
            remoteURI    : Files \cup {None, Nil},
            isLocal      : Flag \cup {Nil},
            isMetadata   : Flag \cup {Nil},
            isOpen       : Flag \cup {Nil},
            lastModified : Ages \cup {Nil}]

\* The key is not in Redis.
NoEntry == [form |-> "none", fileName |-> Nil, remoteURI |-> Nil,
            isLocal |-> Nil, isMetadata |-> Nil, isOpen |-> Nil,
            lastModified |-> Nil]

\* The FileData that newFileDataObject fills in.  It never assigns isOpen, and
\* lastModified is the file's access time, of any age.
NewFileData(f, open, age) ==
    [form |-> "made", fileName |-> f, remoteURI |-> None, isLocal |-> 1,
     isMetadata |-> 0, isOpen |-> open, lastModified |-> age]

\* Redis_HMSET: every field is written; the order of the fields of a hash that
\* already exists does not change.
HMSET(e, fd) == [fd EXCEPT !.form = IF e.form = "none" THEN "made" ELSE e.form]

\* A lone HSET on a missing key makes a hash of its own.
Kept(e) == IF e.form = "none" THEN "ghost" ELSE e.form

\* The setters that end in updateLastTimeModified.
SetRemoteURI(e, uri) ==
    [e EXCEPT !.form = Kept(e), !.remoteURI = uri, !.lastModified = "recent"]
SetFileName(e, name) ==
    [e EXCEPT !.form = Kept(e), !.fileName = name, !.lastModified = "recent"]
SetIsMetadata(e, flag) ==
    [e EXCEPT !.form = Kept(e), !.isMetadata = flag, !.lastModified = "recent"]
SetFileSize(e) ==
    [e EXCEPT !.form = Kept(e), !.lastModified = "recent"]
IncrementTimesAccessed(e) ==
    [e EXCEPT !.form = Kept(e), !.lastModified = "recent"]

\* The setters that leave Last_Modified alone, or write a given value to it.
SetIsLocal(e, flag) == [e EXCEPT !.form = Kept(e), !.isLocal = flag]
SetIsOpen(e, flag) == [e EXCEPT !.form = Kept(e), !.isOpen = flag]
SetLastTimeModified(e, age) ==
    [e EXCEPT !.form = Kept(e), !.lastModified = age]

\* Whether Redis_HGETALL's reads by position are defined on this hash.  On a
\* missing key it returns a FileData with empty names and no other value.
Readable(e) == e.form # "ghost"

\* Every setter but setIsOpen reads the hash back with Redis_HGETALL after its
\* HSET: on a key that did not exist, the process dies there.
SetterReturns(e) == e.form = "made"

\* The hash has been added to the sorted sets that Redis_Scanner queries:
\* only Redis_HMSET and Redis_RENAME add to all of them.
Indexed(e) == /\ e.form # "none"
              /\ e.fileName # Nil
              /\ e.remoteURI # Nil
              /\ e.isLocal # Nil

\* A file whose content is in the bucket only, as the catalogue tells it.
Cold(e) == e.isLocal = 0
==============================================================================
