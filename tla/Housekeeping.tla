----------------------------- MODULE Housekeeping -----------------------------
(***************************************************************************)
(* initialize, the event handler it starts, and users who tidy up: the     *)
(* handler watches two directories, the files and the trash, and files its *)
(* events under the name alone, whichever directory they come from.  So a  *)
(* file that is moved to the trash keeps its hash, a file that is restored *)
(* has it still, and a file that is deleted from the trash loses it.       *)
(*                                                                         *)
(* supervise is here as the demotions it has made (Migration.tla has their *)
(* steps): it is not running while there is anything in the trash.         *)
(***************************************************************************)
EXTENDS EventHandler, FiniteSets

CONSTANTS
    Patient,    \* TRUE: users wait until both directories are watched, and
                \* until a file that is being fetched back is there
    FreshNames, \* TRUE: no file is given a name that another one has in the
                \* trash, and none is moved to a name in use
    MaxQueue    \* bound: users act only while fewer events are queued

ASSUME TidyAssumption == /\ Patient \in BOOLEAN /\ FreshNames \in BOOLEAN
                         /\ MaxQueue \in Nat \ {0}

VARIABLES
    trash,      \* the trash directory: name -> content, or None
    ipc,        \* where initialize is, and then its child
    left,       \* the listed files that initialize has still to catalogue
    truth,      \* the content each file should have: what users last wrote
    binned      \* the content each file of the trash should have

initializeVars == <<ipc, left>>
userVars == <<trash, truth, binned>>
vars == <<worldVars, handlerVars, initializeVars, userVars>>

Init ==
    /\ truth \in [Files -> Versions \cup {None}] /\ disk = truth
    /\ trash = [f \in Files |-> None] /\ binned = trash
    /\ bucket = [f \in Files |-> None]
    /\ db = [f \in Files |-> NoEntry]
    /\ queue = <<>>
    /\ opened = [f \in Files |-> "no"]
    /\ ipc = "list" /\ left = {}
    /\ hpc = "dead"
    /\ hfile = None /\ hremote = None /\ hgot = None /\ oldName = None

-----------------------------------------------------------------------------
(***************************************************************************)
(* initialize: it catalogues what it finds, forks, and returns; only then  *)
(* does its child add the two watches.                                     *)
(***************************************************************************)
Initialize(from, next) ==
    /\ ipc = from /\ ipc' = next
    /\ UNCHANGED <<disk, bucket, queue, opened, handlerVars, userVars>>

\* Mutant: the entry of the directory itself is not left out.
ListWithDot ==
    /\ Initialize("list", "add")
    /\ left' = {f \in Files : disk[f] # None} \cup {None}
    /\ UNCHANGED <<db, hpc>>

List ==
    /\ Initialize("list", "add")
    /\ left' = {f \in Files : disk[f] # None}
    /\ UNCHANGED <<db, hpc>>

Add ==
    /\ Initialize("add", "add")
    /\ \E f \in left, open \in Flag, age \in Ages :
           /\ db' = [db EXCEPT ![f] = HMSET(@, NewFileData(f, open, age))]
           /\ left' = left \ {f}
    /\ UNCHANGED hpc

Fork == Initialize("add", "forked") /\ left = {} /\ UNCHANGED <<db, hpc, left>>

WatchFiles ==
    /\ Initialize("forked", "half")
    /\ hpc' = "idle"
    /\ UNCHANGED <<db, left>>

WatchTrash == Initialize("half", "watching") /\ UNCHANGED <<db, hpc, left>>

\* Mutant: the second watch is forgotten.
TrashUnwatched == ipc \notin {"list", "add", "forked", "half", "watching"}

TrashWatched == ipc = "watching"

Startup == List \/ Add \/ Fork \/ WatchFiles \/ WatchTrash

Handler == /\ ipc = "watching"
           /\ HandlerNext
           /\ UNCHANGED <<initializeVars, userVars>>

-----------------------------------------------------------------------------
(***************************************************************************)
(* Users.                                                                  *)
(***************************************************************************)

\* f was opened and is not there yet, or the handler is still fetching it back.
BeingRecalled(f) ==
    \/ hfile = f /\ hpc \in {"openLocal", "openMeta"} \cup RecallSteps
    \/ /\ disk[f] # truth[f]
       /\ \E i \in 1..Len(queue) : queue[i] = Ev("open", f)

UserTurn(f) == /\ Len(queue) < MaxQueue
               /\ Patient => ipc = "watching" /\ ~BeingRecalled(f)
               /\ UNCHANGED <<bucket, db, hpc, handlerVars, initializeVars>>

\* No file has this name in either directory.
Unused(f) == disk[f] = None /\ trash[f] = None

\* A file may be moved to this name, or created under it.
Takes(f) == FreshNames => Unused(f)

UserOpen(f) ==
    /\ UserTurn(f)
    /\ opened[f] = "no" /\ disk[f] # None
    /\ opened' = [opened EXCEPT ![f] = "yes"]
    /\ Notify(<<Ev("open", f)>>)
    /\ UNCHANGED <<disk, userVars>>

UserWrite(f, v) ==
    /\ UserTurn(f)
    /\ opened[f] = "yes" /\ disk[f] = truth[f] /\ truth[f] \notin {None, v}
    /\ truth' = [truth EXCEPT ![f] = v]
    /\ disk' = [disk EXCEPT ![f] = v]
    /\ Notify(<<Ev("modify", f)>>)
    /\ UNCHANGED <<opened, trash, binned>>

UserClose(f) ==
    /\ UserTurn(f)
    /\ opened[f] = "yes"
    /\ opened' = [opened EXCEPT ![f] = "no"]
    /\ Notify(<<Ev("close", f)>>)
    /\ UNCHANGED <<disk, userVars>>

UserCreate(f, v) ==
    /\ UserTurn(f) /\ Takes(f)
    /\ disk[f] = None
    /\ disk' = [disk EXCEPT ![f] = v]
    /\ truth' = [truth EXCEPT ![f] = v]
    /\ Notify(RewriteEvents(f, v))
    /\ UNCHANGED <<opened, trash, binned>>

UserDelete(f) ==
    /\ UserTurn(f)
    /\ disk[f] # None /\ opened[f] = "no"
    /\ disk' = [disk EXCEPT ![f] = None]
    /\ truth' = [truth EXCEPT ![f] = None]
    /\ Notify(<<Ev("delete", f)>>)
    /\ UNCHANGED <<opened, trash, binned>>

UserRename(f, g) ==
    /\ UserTurn(f) /\ UserTurn(g) /\ Takes(g)
    /\ disk[f] # None /\ opened[f] = "no" /\ disk[g] = None
    /\ disk' = [disk EXCEPT ![f] = None, ![g] = disk[f]]
    /\ truth' = [truth EXCEPT ![f] = None, ![g] = truth[f]]
    /\ Notify(<<Ev("movedFrom", f), Ev("movedTo", g)>>)
    /\ UNCHANGED <<opened, trash, binned>>

\* What the watch on the trash adds to the queue.
FromTrash(events) == IF TrashWatched THEN events ELSE <<>>

ToTrash(f, g) ==
    /\ UserTurn(f) /\ UserTurn(g) /\ (f = g \/ Takes(g))
    /\ disk[f] # None /\ opened[f] = "no" /\ trash[g] = None
    /\ disk' = [disk EXCEPT ![f] = None]
    /\ trash' = [trash EXCEPT ![g] = disk[f]]
    /\ truth' = [truth EXCEPT ![f] = None]
    /\ binned' = [binned EXCEPT ![g] = truth[f]]
    /\ Notify(<<Ev("movedFrom", f)>> \o FromTrash(<<Ev("movedTo", g)>>))
    /\ UNCHANGED opened

Restore(f, g) ==
    /\ UserTurn(f) /\ UserTurn(g) /\ (f = g \/ Takes(g))
    /\ trash[f] # None /\ disk[g] = None
    /\ disk' = [disk EXCEPT ![g] = trash[f]]
    /\ trash' = [trash EXCEPT ![f] = None]
    /\ truth' = [truth EXCEPT ![g] = binned[f]]
    /\ binned' = [binned EXCEPT ![f] = None]
    /\ Notify(FromTrash(<<Ev("movedFrom", f)>>) \o <<Ev("movedTo", g)>>)
    /\ UNCHANGED opened

EmptyTrash(f) ==
    /\ UserTurn(f)
    /\ trash[f] # None
    /\ trash' = [trash EXCEPT ![f] = None]
    /\ binned' = [binned EXCEPT ![f] = None]
    /\ Notify(FromTrash(<<Ev("delete", f)>>))
    /\ UNCHANGED <<disk, truth, opened>>

Users == \E f \in Files :
            \/ UserOpen(f) \/ UserClose(f) \/ UserDelete(f) \/ EmptyTrash(f)
            \/ \E v \in Versions : UserWrite(f, v) \/ UserCreate(f, v)
            \/ \E g \in Files : \/ UserRename(f, g)
                              \/ ToTrash(f, g) \/ Restore(f, g)

-----------------------------------------------------------------------------
\* What supervise leaves of a closed file that has been alone for a minute: a
\* placeholder, an object of the file's name, which no other file may have, and
\* a hash that says so.
Demote(f) ==
    /\ ipc = "watching" /\ HandlerIdle
    /\ disk[f] = truth[f] /\ truth[f] # None /\ opened[f] = "no"
    /\ trash = [g \in Files |-> None]
    /\ db[f].isLocal = 1 /\ db[f].isOpen = 0
    /\ \A g \in Files : db[g].remoteURI # f
    /\ bucket' = [bucket EXCEPT ![f] = disk[f]]
    /\ disk' = [disk EXCEPT ![f] = Empty]
    /\ db' = [db EXCEPT ![f] = [@ EXCEPT !.remoteURI = f, !.isLocal = 0,
                                         !.isMetadata = 1, !.lastModified = "old"]]
    /\ UNCHANGED <<queue, opened, hpc, handlerVars, initializeVars, userVars>>

-----------------------------------------------------------------------------
Next == Startup \/ Handler \/ Users \/ \E f \in Files : Demote(f)

Spec == Init /\ [][Next]_vars

\* initialize runs to its end, and the handler blocks in read() only.
FairSpec == Spec /\ WF_vars(Startup) /\ WF_vars(Handler)

-----------------------------------------------------------------------------
(***************************************************************************)
(* Properties.                                                             *)
(***************************************************************************)

\* Type invariant.
TypeOK ==
    /\ disk \in [Files -> Contents \cup {None}] /\ trash \in [Files -> Contents \cup {None}]
    /\ bucket \in [Files -> Contents \cup {None}]
    /\ db \in [Files -> Entries]
    /\ queue \in Seq(Events)
    /\ opened \in [Files -> {"no", "yes"}]
    /\ hpc \in HandlerSteps
    /\ ipc \in {"list", "add", "forked", "half", "watching"} /\ left \subseteq Files
    /\ hfile \in Files \cup {None} /\ oldName \in Files \cup {None}
    /\ hremote \in Files \cup {None, Nil} /\ hgot \in Contents \cup {None}
    /\ truth \in [Files -> Versions \cup {None}]
    /\ binned \in [Files -> Versions \cup {None}]

\* The file of this name, in either directory: what it should hold, what it does.
Should(f) == IF truth[f] # None THEN truth[f] ELSE binned[f]
Holds(f) == IF truth[f] # None THEN disk[f] ELSE trash[f]

\* Once the handler has caught up, the hashes are those of the files of both
\* directories, whatever has been moved, restored, deleted or fetched back in
\* the meantime, and they say truly which of them are placeholders.
BothCatalogued ==
    ipc = "watching" /\ HandlerIdle => \A f \in Files :
        /\ Should(f) = None <=> db[f].form = "none"
        /\ Should(f) # None => /\ db[f].form = "made"
                               /\ db[f].fileName = f
                               /\ db[f].isLocal = 1 <=> Holds(f) = Should(f)
                               /\ db[f].isMetadata = 1 - db[f].isLocal

\* The hash of g leads a recall to what file f should hold.
LeadsTo(g, f) ==
    /\ db[g].form = "made" /\ db[g].isLocal = 0 /\ db[g].isMetadata = 1
    /\ InBucket(db[g].remoteURI) /\ bucket[db[g].remoteURI] = Should(f)

\* The handler has not yet renamed the hash of the file that became f.
MovePending(f) == \/ \E i \in 1..Len(queue) : queue[i] = Ev("movedTo", f)
                  \/ hpc = "rename" /\ hfile = f

\* A cold file keeps its way back through every move, to the trash and out of
\* it as well: its own hash leads to its object, or the hash under the name it
\* had before a move that the handler has not seen yet.
TidyingStrandsNothing ==
    \A f \in Files : Should(f) # None =>
        \/ Holds(f) = Should(f)
        \/ LeadsTo(f, f)
        \/ MovePending(f) /\ \E g \in Files : LeadsTo(g, f)

\* A recall replaces a placeholder ("Promote file back into the file system"),
\* never what a user has written.
RecallFillsPlaceholders ==
    [][RecallWrite => disk[hfile] \in {Empty, hgot}]_vars

\* The handler does not chase its own tail: although each recall puts events of
\* its own into the queue, it comes to rest, alive, when the users do.
CatchesUp == <>[][~Users]_vars => <>[](ipc = "watching" /\ HandlerIdle)
==============================================================================
