----------------------------- MODULE EventHandler -----------------------------
(***************************************************************************)
(* The process forked by initialize: the loop of initializeINotify in      *)
(* FileEventHandler.cpp.  It reads the events of the watched directory one *)
(* by one and keeps the catalogue up to date; on the first access to a     *)
(* cold file it fetches the content back.                                  *)
(*                                                                         *)
(* One action per call that reads or changes shared state.  hpc is the     *)
(* next call; "idle" stands between two events.                            *)
(***************************************************************************)
EXTENDS World

VARIABLES
    hfile,      \* the file of the event at hand
    hremote,    \* remoteURI of the FileData read for an OPEN event; Nil when
                \* there was no hash to read (and localURI is "" as well)
    hgot,       \* GetObject's body, not yet written to the file
    oldName     \* oldFileName: the source of a move, until its target comes

handlerVars == <<hfile, hremote, hgot, oldName>>

RecallSteps == {"get", "write", "delete", "unlink", "hot", "unmeta"}
HandlerSteps == {"idle", "insert", "openLocal", "openMeta", "openMark",
                 "openHits", "erase", "resize", "rename", "setName", "dead"}
                    \cup RecallSteps

InitHandler == /\ hpc = "idle"
               /\ hfile = None
               /\ hremote = None
               /\ hgot = None
               /\ oldName = None

-----------------------------------------------------------------------------
(***************************************************************************)
(* Reading the next event.  next is the call that comes after the first    *)
(* one; "idle" ends the event.  A death leaves nothing watching.           *)
(***************************************************************************)
At(type) == hpc = "idle" /\ queue # <<>> /\ Head(queue).type = type

Take(next) ==
    /\ hpc' = next
    /\ queue' = IF next = "dead" THEN <<>> ELSE Tail(queue)
    /\ hfile' = IF next \in {"idle", "dead"} THEN None ELSE Head(queue).file
    /\ UNCHANGED hgot

\* The call at step hpc is over; next is the one that follows it.
Step(next) ==
    /\ hpc' = next
    /\ queue' = IF next = "dead" THEN <<>> ELSE queue
    /\ hfile' = IF next \in {"idle", "dead"} THEN None ELSE hfile

\* A setter on the file of the event, e being the hash it leaves.
HandlerSets(e, next) ==
    /\ db' = [db EXCEPT ![hfile] = e]
    /\ Step(IF SetterReturns(e) THEN next ELSE "dead")
    /\ UNCHANGED <<disk, bucket, opened, hgot, oldName>>

-----------------------------------------------------------------------------
\* Mutant: every IN_CREATE makes a new hash.
CreateAlways ==
    /\ At("create")
    /\ Take("insert")
    /\ UNCHANGED <<disk, bucket, db, opened, hremote, oldName>>

\* IN_CREATE: a file the catalogue does not know is added to it.
Create ==
    /\ At("create")
    /\ LET e == db[Head(queue).file] IN
           Take(CASE e.form = "ghost" -> "dead"
                  [] e.form = "none"  -> "insert"
                  [] e.form = "made"  -> "idle")
    /\ UNCHANGED <<disk, bucket, db, opened, hremote, oldName>>

\* newFileDataObject: stat, fill a FileData, Redis_HMSET.
Insert ==
    /\ hpc = "insert"
    /\ \E open \in Flag, age \in Ages :
           db' = [db EXCEPT ![hfile] = HMSET(@, NewFileData(hfile, open, age))]
    /\ Step("idle")
    /\ UNCHANGED <<disk, bucket, opened, hremote, hgot, oldName>>

-----------------------------------------------------------------------------
\* IN_OPEN: HGETALL, then getIsLocal and getIsMetadata decide on a recall.
Open ==
    /\ At("open")
    /\ LET e == db[Head(queue).file] IN
        /\ Take(IF Readable(e) THEN "openLocal" ELSE "dead")
        /\ hremote' = IF Readable(e) THEN e.remoteURI ELSE None
    /\ UNCHANGED <<disk, bucket, db, opened, oldName>>

\* Mutant: the marking of the file as open went into the test, with the recall.
OpenLocalReturns ==
    /\ hpc = "openLocal"
    /\ Step(CASE db[hfile].isLocal = Nil -> "dead"
              [] db[hfile].isLocal = 1   -> "idle"
              [] db[hfile].isLocal = 0   -> "openMeta")
    /\ hremote' = IF hpc' = "openMeta" THEN hremote ELSE None
    /\ UNCHANGED <<disk, bucket, db, opened, hgot, oldName>>

OpenLocal ==
    /\ hpc = "openLocal"
    /\ Step(CASE db[hfile].isLocal = Nil -> "dead"
              [] db[hfile].isLocal = 1   -> "openMark"
              [] db[hfile].isLocal = 0   -> "openMeta")
    /\ hremote' = IF hpc' = "openMeta" THEN hremote ELSE None
    /\ UNCHANGED <<disk, bucket, db, opened, hgot, oldName>>

\* Mutant: the test of isMetadata is inverted.
OpenMetaInverted ==
    /\ hpc = "openMeta"
    /\ Step(CASE db[hfile].isMetadata = Nil -> "dead"
              [] db[hfile].isMetadata = 1   -> "openMark"
              [] db[hfile].isMetadata = 0   -> "get")
    /\ hremote' = IF hpc' = "get" THEN hremote ELSE None
    /\ UNCHANGED <<disk, bucket, db, opened, hgot, oldName>>

OpenMeta ==
    /\ hpc = "openMeta"
    /\ Step(CASE db[hfile].isMetadata = Nil -> "dead"
              [] db[hfile].isMetadata = 0   -> "openMark"
              [] db[hfile].isMetadata = 1   -> "get")
    /\ hremote' = IF hpc' = "get" THEN hremote ELSE None
    /\ UNCHANGED <<disk, bucket, db, opened, hgot, oldName>>

RecallGet ==
    /\ hpc = "get"
    /\ InBucket(hremote)
    /\ hgot' = bucket[hremote]
    /\ Step("write")
    /\ UNCHANGED <<disk, bucket, db, opened, hremote, oldName>>

RecallGetFails ==
    /\ hpc = "get"
    /\ ~InBucket(hremote) \/ "get" \in S3Faults
    /\ Step("unlink")
    /\ UNCHANGED <<disk, bucket, db, opened, hremote, hgot, oldName>>

RecallWrite ==
    /\ hpc = "write"
    /\ disk' = [disk EXCEPT ![hfile] = hgot]
    /\ Notify(RewriteEvents(hfile, hgot))
    /\ hpc' = "delete"
    /\ hgot' = None
    /\ UNCHANGED <<bucket, db, opened, hfile, hremote, oldName>>

RecallDelete ==
    /\ hpc = "delete"
    /\ bucket' = [bucket EXCEPT ![hremote] = None]
    /\ Step("unlink")
    /\ UNCHANGED <<disk, db, opened, hremote, hgot, oldName>>

RecallDeleteFails ==
    /\ hpc = "delete" /\ "delete" \in S3Faults
    /\ Step("unlink")
    /\ UNCHANGED <<disk, bucket, db, opened, hremote, hgot, oldName>>

\* Mutant: the file is left marked as it was.
RecallUnlinkSkipped ==
    /\ hpc = "unlink"
    /\ Step(IF hremote = Nil THEN "dead" ELSE "openMark")
    /\ hremote' = None
    /\ UNCHANGED <<disk, bucket, db, opened, hgot, oldName>>

\* fd.localURI is "" when HGETALL found no hash: the setter makes a ghost of
\* the key "" and dies reading it back.
RecallUnlink ==
    /\ hpc = "unlink"
    /\ IF hremote = Nil
       THEN Step("dead") /\ UNCHANGED <<disk, bucket, db, opened, hgot, oldName>>
       ELSE HandlerSets(SetRemoteURI(db[hfile], None), "hot")
    /\ hremote' = None

\* Mutant: the mark goes first and the file stays cold.
RecallHotWrongFlag ==
    hpc = "hot" /\ HandlerSets(SetIsMetadata(db[hfile], 0), "unmeta")
                /\ UNCHANGED hremote

RecallHot == hpc = "hot" /\ HandlerSets(SetIsLocal(db[hfile], 1), "unmeta")
                         /\ UNCHANGED hremote

RecallUnmeta ==
    hpc = "unmeta" /\ HandlerSets(SetIsMetadata(db[hfile], 0), "openMark")
                   /\ UNCHANGED hremote

\* setIsOpen does not read the hash back: it returns even on a missing key.
OpenMark ==
    /\ hpc = "openMark"
    /\ db' = [db EXCEPT ![hfile] = SetIsOpen(@, 1)]
    /\ Step("openHits")
    /\ UNCHANGED <<disk, bucket, opened, hremote, hgot, oldName>>

OpenHits == hpc = "openHits"
                /\ HandlerSets(IncrementTimesAccessed(db[hfile]), "idle")
                /\ UNCHANGED hremote

-----------------------------------------------------------------------------
\* IN_DELETE: HGETALL, then the key and its places in the sorted sets go.
Delete ==
    /\ At("delete")
    /\ Take(IF Readable(db[Head(queue).file]) THEN "erase" ELSE "dead")
    /\ UNCHANGED <<disk, bucket, db, opened, hremote, oldName>>

Erase ==
    /\ hpc = "erase"
    /\ db' = [db EXCEPT ![hfile] = NoEntry]
    /\ Step("idle")
    /\ UNCHANGED <<disk, bucket, opened, hremote, hgot, oldName>>

\* IN_MODIFY: stat and setFileSize, unless the file is a placeholder.
Modify ==
    /\ At("modify")
    /\ LET e == db[Head(queue).file] IN
           Take(CASE e.isMetadata = Nil -> "dead"
                  [] e.isMetadata = 0   -> "resize"
                  [] e.isMetadata = 1   -> "idle")
    /\ UNCHANGED <<disk, bucket, db, opened, hremote, oldName>>

Resize == hpc = "resize" /\ HandlerSets(SetFileSize(db[hfile]), "idle")
                         /\ UNCHANGED hremote

\* IN_CLOSE_WRITE and IN_CLOSE_NOWRITE.
Close ==
    /\ At("close")
    /\ db' = [db EXCEPT ![Head(queue).file] = SetIsOpen(@, 0)]
    /\ Take("idle")
    /\ UNCHANGED <<disk, bucket, opened, hremote, oldName>>

-----------------------------------------------------------------------------
\* Mutant: the test of oldFileName is inverted.
MovedFromInverted ==
    /\ At("movedFrom")
    /\ oldName' = IF oldName = None THEN oldName ELSE Head(queue).file
    /\ Take("idle")
    /\ UNCHANGED <<disk, bucket, db, opened, hremote>>

\* IN_MOVED_FROM: remembered, unless an earlier source still waits.
MovedFrom ==
    /\ At("movedFrom")
    /\ oldName' = IF oldName = None THEN Head(queue).file ELSE oldName
    /\ Take("idle")
    /\ UNCHANGED <<disk, bucket, db, opened, hremote>>

\* IN_MOVED_TO: taken for the target of the source remembered.
MovedTo ==
    /\ At("movedTo")
    /\ Take(IF oldName = None THEN "idle" ELSE "rename")
    /\ UNCHANGED <<disk, bucket, db, opened, hremote, oldName>>

\* Redis_RENAME reads both hashes: RENAME of a missing key is an error reply
\* that changes nothing, and reading a ghost is fatal, before or after it.
Rename ==
    /\ hpc = "rename"
    /\ LET e == db[oldName] IN
        /\ db' = IF e.form = "made"
                 THEN [db EXCEPT ![oldName] = NoEntry, ![hfile] = e]
                 ELSE db
        /\ Step(IF Readable(e) /\ Readable(db'[hfile]) THEN "setName" ELSE "dead")
    /\ oldName' = None
    /\ UNCHANGED <<disk, bucket, opened, hremote, hgot>>

\* Mutant: the hash keeps the old file name.
SetNameSkipped == hpc = "setName"
                      /\ Step("idle")
                      /\ UNCHANGED <<disk, bucket, db, opened, hremote, hgot, oldName>>

SetName == hpc = "setName"
               /\ HandlerSets(SetFileName(db[hfile], hfile), "idle")
               /\ UNCHANGED hremote

-----------------------------------------------------------------------------
OpenFile == \/ Open \/ OpenLocal \/ OpenMeta
            \/ RecallGet \/ RecallGetFails \/ RecallWrite
            \/ RecallDelete \/ RecallDeleteFails
            \/ RecallUnlink \/ RecallHot \/ RecallUnmeta
            \/ OpenMark \/ OpenHits

HandlerNext == \/ Create \/ Insert
               \/ OpenFile
               \/ Delete \/ Erase
               \/ Modify \/ Resize
               \/ Close
               \/ MovedFrom \/ MovedTo \/ Rename \/ SetName
==============================================================================
