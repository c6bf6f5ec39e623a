----------------------------- MODULE HandlerProofs -----------------------------
(***************************************************************************)
(* The event handler's variables keep their types, whoever shares the      *)
(* catalogue, the bucket and the directory with it: what the theorems      *)
(* about Migration.tla and about Housekeeping.tla have in common.          *)
(***************************************************************************)
EXTENDS EventHandler, TLAPS

\* The types of what the handler reads and writes; and while it works on a file,
\* it has one at hand.
HandlerInv ==
    /\ disk \in [Files -> Contents \cup {None}]
    /\ bucket \in [Files -> Contents \cup {None}]
    /\ db \in [Files -> Entries]
    /\ queue \in Seq(Events)
    /\ hpc \in HandlerSteps
    /\ hfile \in Files \cup {None} /\ oldName \in Files \cup {None}
    /\ hremote \in Files \cup {None, Nil} /\ hgot \in Contents \cup {None}
    /\ hpc \notin {"idle", "dead"} => hfile \in Files
    /\ hpc = "rename" => oldName \in Files

-----------------------------------------------------------------------------
(***************************************************************************)
(* What the methods of Redis_Client leave is again a hash.                 *)
(***************************************************************************)

\* Every setter of Redis_Client, applied to a hash, leaves a hash.
LEMMA SettersType ==
    ASSUME NEW e \in Entries
    PROVE  /\ \A uri \in Files \cup {None, Nil} : SetRemoteURI(e, uri) \in Entries
           /\ \A name \in Files \cup {Nil} : SetFileName(e, name) \in Entries
           /\ \A flag \in Flag : /\ SetIsMetadata(e, flag) \in Entries
                                 /\ SetIsLocal(e, flag) \in Entries
                                 /\ SetIsOpen(e, flag) \in Entries
           /\ \A age \in Ages \cup {Nil} : SetLastTimeModified(e, age) \in Entries
           /\ SetFileSize(e) \in Entries
           /\ IncrementTimesAccessed(e) \in Entries
  <1>1. Kept(e) \in {"none", "made", "ghost"}
    BY DEF Entries, Kept
  <1>2. "recent" \in Ages \cup {Nil} /\ "old" \in Ages \cup {Nil}
    BY DEF Ages
  <1>3. \A uri \in Files \cup {None, Nil} : SetRemoteURI(e, uri) \in Entries
    BY <1>1, <1>2 DEF Entries, SetRemoteURI
  <1>4. \A name \in Files \cup {Nil} : SetFileName(e, name) \in Entries
    BY <1>1, <1>2 DEF Entries, SetFileName
  <1>5. ASSUME NEW flag \in Flag
        PROVE  /\ SetIsMetadata(e, flag) \in Entries
               /\ SetIsLocal(e, flag) \in Entries
               /\ SetIsOpen(e, flag) \in Entries
    <2>1. SetIsMetadata(e, flag) \in Entries
      BY <1>1, <1>2 DEF Entries, SetIsMetadata
    <2>2. SetIsLocal(e, flag) \in Entries
      BY <1>1 DEF Entries, SetIsLocal
    <2>3. SetIsOpen(e, flag) \in Entries
      BY <1>1 DEF Entries, SetIsOpen
    <2> QED BY <2>1, <2>2, <2>3
  <1>6. \A age \in Ages \cup {Nil} : SetLastTimeModified(e, age) \in Entries
    BY <1>1 DEF Entries, SetLastTimeModified
  <1>7. SetFileSize(e) \in Entries /\ IncrementTimesAccessed(e) \in Entries
    BY <1>1, <1>2 DEF Entries, SetFileSize, IncrementTimesAccessed
  <1> QED BY <1>3, <1>4, <1>5, <1>6, <1>7

\* A new FileData is a hash, and Redis_HMSET of a hash over a hash leaves one.
LEMMA HMSETType ==
    /\ NoEntry \in Entries
    /\ \A f \in Files, open \in Flag, age \in Ages :
           NewFileData(f, open, age) \in Entries
    /\ \A e, fd \in Entries : HMSET(e, fd) \in Entries
  BY DEF Entries, Flag, Ages, NoEntry, NewFileData, HMSET

\* The events of an operation on a file are a sequence of events.
LEMMA EventsType ==
    ASSUME NEW f \in Files
    PROVE  /\ \A type \in EventTypes : Ev(type, f) \in Events
           /\ \A content : RewriteEvents(f, content) \in Seq(Events)
           /\ ReadEvents(f) \in Seq(Events)
  <1>1. \A type \in EventTypes : Ev(type, f) \in Events
    BY DEF Ev, Events
  <1>2. \A content : RewriteEvents(f, content) \in Seq(Events)
    BY <1>1 DEF RewriteEvents, EventTypes
  <1>3. ReadEvents(f) \in Seq(Events)
    BY <1>1 DEF ReadEvents, EventTypes
  <1> QED BY <1>1, <1>2, <1>3

\* Whatever inotify queues, the queue stays a sequence of events.
LEMMA NotifyType ==
    ASSUME queue \in Seq(Events), NEW events \in Seq(Events), Notify(events)
    PROVE  queue' \in Seq(Events)
  BY DEF Notify

-----------------------------------------------------------------------------
(***************************************************************************)
(* The event handler keeps the invariant.                                  *)
(***************************************************************************)

\* The part of the invariant about the handler's own variables.
HandlerOK == /\ hpc \in HandlerSteps
             /\ queue \in Seq(Events)
             /\ hfile \in Files \cup {None}
             /\ hpc \notin {"idle", "dead"} => hfile \in Files

\* Reading an event leaves the handler at the call named, with a file at hand.
LEMMA TakeKeeps ==
    ASSUME HandlerInv, queue # <<>>, NEW next \in HandlerSteps, Take(next)
    PROVE  HandlerOK' /\ hpc' = next /\ hgot' = hgot /\ Head(queue).file \in Files
  <1>1. Head(queue) \in Events /\ Tail(queue) \in Seq(Events)
    BY DEF HandlerInv
  <1>2. Head(queue).file \in Files
    BY <1>1 DEF Events
  <1> QED BY <1>1, <1>2 DEF Take, HandlerOK

\* So does going from one call to the next.
LEMMA StepKeeps ==
    ASSUME HandlerInv, hpc \notin {"idle", "dead"}, NEW next \in HandlerSteps, Step(next)
    PROVE  HandlerOK' /\ hpc' = next
  BY DEF Step, HandlerOK, HandlerInv

\* A setter called on the file of the event, leaving the hash e.
LEMMA HandlerSetsKeeps ==
    ASSUME HandlerInv, hpc \notin {"idle", "dead"},
           NEW e \in Entries, NEW next \in HandlerSteps, HandlerSets(e, next)
    PROVE  /\ HandlerOK'
           /\ hpc' \in {next, "dead"}
           /\ db' \in [Files -> Entries]
           /\ UNCHANGED <<disk, bucket, opened, hgot, oldName>>
  <1>1. "dead" \in HandlerSteps
    BY DEF HandlerSteps
  <1> QED
    BY <1>1, StepKeeps DEF HandlerSets, HandlerInv

\* The steps of the handler reduce the invariant to its own part of it.
LEMMA HandlerFrame ==
    ASSUME HandlerInv, HandlerOK', disk' \in [Files -> Contents \cup {None}],
           bucket' \in [Files -> Contents \cup {None}],
           db' \in [Files -> Entries],
           hremote' \in Files \cup {None, Nil},
           hgot' \in Contents \cup {None},
           oldName' \in Files \cup {None},
           hpc' = "rename" => oldName' \in Files
    PROVE  HandlerInv'
  BY DEF HandlerOK, HandlerInv

\* The hash of the file of the event.
LEMMA InHandType ==
    ASSUME HandlerInv, hpc \notin {"idle", "dead"}
    PROVE  hfile \in Files /\ db[hfile] \in Entries
  BY DEF HandlerInv

\* Every step that reads an event keeps the invariant.
LEMMA EventKeeps ==
    ASSUME HandlerInv,
           Create \/ Open \/ Delete \/ Modify \/ Close \/ MovedFrom \/ MovedTo
    PROVE  HandlerInv'
  <1>0. /\ {"dead", "insert", "idle", "openLocal", "erase", "resize", "rename"}
               \subseteq HandlerSteps
        /\ \A type : At(type) => queue # <<>>
        /\ queue # <<>> => Head(queue).file \in Files /\ db[Head(queue).file] \in Entries
    <2>1. queue # <<>> => Head(queue) \in Events
      BY DEF HandlerInv
    <2> QED BY <2>1 DEF HandlerSteps, At, Events, HandlerInv
  <1>1. CASE Create
    <2>1. db[Head(queue).file].form \in {"none", "made", "ghost"}
      BY <1>0, <1>1 DEF Create, Entries
    <2>2. HandlerOK' /\ hpc' \in {"dead", "insert", "idle"} /\ hgot' = hgot
      BY <1>0, <1>1, <2>1, TakeKeeps DEF Create
    <2> QED BY <1>1, <2>2, HandlerFrame DEF Create, HandlerInv
  <1>2. CASE Open
    <2>1. db[Head(queue).file].remoteURI \in Files \cup {None, Nil}
      BY <1>0, <1>2 DEF Open, Entries
    <2>2. HandlerOK' /\ hpc' \in {"openLocal", "dead"} /\ hgot' = hgot
      BY <1>0, <1>2, TakeKeeps DEF Open
    <2>3. hremote' \in Files \cup {None, Nil}
      BY <1>2, <2>1 DEF Open
    <2> QED BY <1>2, <2>2, <2>3, HandlerFrame DEF Open, HandlerInv
  <1>3. CASE Delete
    <2>1. HandlerOK' /\ hpc' \in {"erase", "dead"} /\ hgot' = hgot
      BY <1>0, <1>3, TakeKeeps DEF Delete
    <2> QED BY <1>3, <2>1, HandlerFrame DEF Delete, HandlerInv
  <1>4. CASE Modify
    <2>1. db[Head(queue).file].isMetadata \in {0, 1, Nil}
      BY <1>0, <1>4 DEF Modify, Entries, Flag
    <2>2. HandlerOK' /\ hpc' \in {"dead", "resize", "idle"} /\ hgot' = hgot
      BY <1>0, <1>4, <2>1, TakeKeeps DEF Modify
    <2> QED BY <1>4, <2>2, HandlerFrame DEF Modify, HandlerInv
  <1>5. CASE Close
    <2>1. HandlerOK' /\ hpc' = "idle" /\ hgot' = hgot
      BY <1>0, <1>5, TakeKeeps DEF Close
    <2>2. SetIsOpen(db[Head(queue).file], 0) \in Entries
      BY <1>0, <1>5, SettersType DEF Close, Flag
    <2>3. db' \in [Files -> Entries]
      BY <1>5, <2>2 DEF Close, HandlerInv
    <2> QED BY <1>5, <2>1, <2>3, HandlerFrame DEF Close, HandlerInv
  <1>6. CASE MovedFrom
    <2>1. HandlerOK' /\ hpc' = "idle" /\ hgot' = hgot /\ Head(queue).file \in Files
      BY <1>0, <1>6, TakeKeeps DEF MovedFrom
    <2> QED BY <1>6, <2>1, HandlerFrame DEF MovedFrom, HandlerInv
  <1>7. CASE MovedTo
    <2>1. /\ HandlerOK' /\ hgot' = hgot
          /\ hpc' = IF oldName = None THEN "idle" ELSE "rename"
      BY <1>0, <1>7, TakeKeeps DEF MovedTo
    <2> QED BY <1>7, <2>1, HandlerFrame DEF MovedTo, HandlerInv
  <1> QED BY <1>1, <1>2, <1>3, <1>4, <1>5, <1>6, <1>7

\* Every call of the recall that an OPEN event may start keeps the invariant.
LEMMA RecallKeeps ==
    ASSUME HandlerInv,
           \/ OpenLocal \/ OpenMeta
           \/ RecallGet \/ RecallGetFails \/ RecallWrite
           \/ RecallDelete \/ RecallDeleteFails
           \/ RecallUnlink \/ RecallHot \/ RecallUnmeta
    PROVE  HandlerInv'
  <1>0. {"dead", "openMark", "openMeta", "get", "write", "delete", "unlink", "hot",
         "unmeta"} \subseteq HandlerSteps
    BY DEF HandlerSteps, RecallSteps
  <1>a. hpc \notin {"idle", "dead"} => hfile \in Files /\ db[hfile] \in Entries
    BY InHandType
  <1>1. CASE OpenLocal
    <2>1. db[hfile].isLocal \in {0, 1, Nil}
      BY <1>a, <1>1 DEF OpenLocal, Entries, Flag
    <2>2. HandlerOK' /\ hpc' \in {"dead", "openMark", "openMeta"}
      BY <1>0, <1>1, <2>1, StepKeeps DEF OpenLocal
    <2> QED BY <1>1, <2>2, HandlerFrame DEF OpenLocal, HandlerInv
  <1>2. CASE OpenMeta
    <2>1. db[hfile].isMetadata \in {0, 1, Nil}
      BY <1>a, <1>2 DEF OpenMeta, Entries, Flag
    <2>2. HandlerOK' /\ hpc' \in {"dead", "openMark", "get"}
      BY <1>0, <1>2, <2>1, StepKeeps DEF OpenMeta
    <2> QED BY <1>2, <2>2, HandlerFrame DEF OpenMeta, HandlerInv
  <1>3. CASE RecallGet
    <2>1. HandlerOK' /\ hpc' = "write"
      BY <1>0, <1>3, StepKeeps DEF RecallGet
    <2>2. hgot' \in Contents \cup {None}
      BY <1>3 DEF RecallGet, InBucket, HandlerInv
    <2> QED BY <1>3, <2>1, <2>2, HandlerFrame DEF RecallGet, HandlerInv
  <1>4. CASE RecallGetFails
    <2>1. HandlerOK' /\ hpc' = "unlink"
      BY <1>0, <1>4, StepKeeps DEF RecallGetFails
    <2> QED BY <1>4, <2>1, HandlerFrame DEF RecallGetFails, HandlerInv
  <1>5. CASE RecallWrite
    <2>1. hfile \in Files
      BY <1>a, <1>5 DEF RecallWrite
    <2>2. queue' \in Seq(Events)
      BY <1>5, <2>1, EventsType, NotifyType DEF RecallWrite, HandlerInv
    <2>3. HandlerOK' /\ hpc' = "delete"
      BY <1>0, <1>5, <2>1, <2>2 DEF RecallWrite, HandlerOK
    <2>4. disk' \in [Files -> Contents \cup {None}]
      BY <1>5, <2>1 DEF RecallWrite, HandlerInv
    <2> QED BY <1>5, <2>3, <2>4, HandlerFrame DEF RecallWrite, HandlerInv
  <1>6. CASE RecallDelete
    <2>1. HandlerOK' /\ hpc' = "unlink"
      BY <1>0, <1>6, StepKeeps DEF RecallDelete
    <2>2. bucket' \in [Files -> Contents \cup {None}]
      BY <1>6 DEF RecallDelete, HandlerInv
    <2> QED BY <1>6, <2>1, <2>2, HandlerFrame DEF RecallDelete, HandlerInv
  <1>7. CASE RecallDeleteFails
    <2>1. HandlerOK' /\ hpc' = "unlink"
      BY <1>0, <1>7, StepKeeps DEF RecallDeleteFails
    <2> QED BY <1>7, <2>1, HandlerFrame DEF RecallDeleteFails, HandlerInv
  <1>8. CASE RecallUnlink
    <2>1. hfile \in Files /\ SetRemoteURI(db[hfile], None) \in Entries
      BY <1>a, <1>8, SettersType DEF RecallUnlink
    <2>2. /\ HandlerOK' /\ hpc' \in {"hot", "dead"}
          /\ db' \in [Files -> Entries]
          /\ UNCHANGED <<disk, bucket, opened, hgot, oldName>>
      <3>1. CASE hremote = Nil
        BY <1>0, <1>8, <3>1, StepKeeps DEF RecallUnlink, HandlerInv
      <3>2. CASE hremote # Nil
        BY <1>0, <1>8, <2>1, <3>2, HandlerSetsKeeps DEF RecallUnlink
      <3> QED BY <3>1, <3>2
    <2> QED BY <1>8, <2>2, HandlerFrame DEF RecallUnlink, HandlerInv
  <1>9. CASE RecallHot
    <2>1. hfile \in Files /\ SetIsLocal(db[hfile], 1) \in Entries
      BY <1>a, <1>9, SettersType DEF RecallHot, Flag
    <2>2. /\ HandlerOK' /\ hpc' \in {"unmeta", "dead"}
          /\ db' \in [Files -> Entries]
          /\ UNCHANGED <<disk, bucket, opened, hgot, oldName>>
      BY <1>0, <1>9, <2>1, HandlerSetsKeeps DEF RecallHot
    <2> QED BY <1>9, <2>2, HandlerFrame DEF RecallHot, HandlerInv
  <1>10. CASE RecallUnmeta
    <2>1. hfile \in Files /\ SetIsMetadata(db[hfile], 0) \in Entries
      BY <1>a, <1>10, SettersType DEF RecallUnmeta, Flag
    <2>2. /\ HandlerOK' /\ hpc' \in {"openMark", "dead"}
          /\ db' \in [Files -> Entries]
          /\ UNCHANGED <<disk, bucket, opened, hgot, oldName>>
      BY <1>0, <1>10, <2>1, HandlerSetsKeeps DEF RecallUnmeta
    <2> QED BY <1>10, <2>2, HandlerFrame DEF RecallUnmeta, HandlerInv
  <1> QED
    BY <1>1, <1>2, <1>3, <1>4, <1>5, <1>6, <1>7, <1>8, <1>9, <1>10

\* So does every other call of the handler.
LEMMA CallKeeps ==
    ASSUME HandlerInv,
           Insert \/ OpenMark \/ OpenHits \/ Erase \/ Resize \/ Rename \/ SetName
    PROVE  HandlerInv'
  <1>0. {"dead", "idle", "openHits", "setName"} \subseteq HandlerSteps
    BY DEF HandlerSteps
  <1>a. hpc \notin {"idle", "dead"} => hfile \in Files /\ db[hfile] \in Entries
    BY InHandType
  <1>1. CASE Insert
    <2>1. HandlerOK' /\ hpc' = "idle"
      BY <1>0, <1>1, StepKeeps DEF Insert
    <2>2. db' \in [Files -> Entries]
      BY <1>a, <1>1, HMSETType DEF Insert, HandlerInv
    <2> QED BY <1>1, <2>1, <2>2, HandlerFrame DEF Insert, HandlerInv
  <1>2. CASE OpenMark
    <2>1. HandlerOK' /\ hpc' = "openHits"
      BY <1>0, <1>2, StepKeeps DEF OpenMark
    <2>2. SetIsOpen(db[hfile], 1) \in Entries
      BY <1>a, <1>2, SettersType DEF OpenMark, Flag
    <2>3. db' \in [Files -> Entries]
      BY <1>2, <2>2 DEF OpenMark, HandlerInv
    <2> QED BY <1>2, <2>1, <2>3, HandlerFrame DEF OpenMark, HandlerInv
  <1>3. CASE OpenHits
    <2>1. hfile \in Files /\ IncrementTimesAccessed(db[hfile]) \in Entries
      BY <1>a, <1>3, SettersType DEF OpenHits
    <2>2. /\ HandlerOK' /\ hpc' \in {"idle", "dead"}
          /\ db' \in [Files -> Entries]
          /\ UNCHANGED <<disk, bucket, opened, hgot, oldName>>
      BY <1>0, <1>3, <2>1, HandlerSetsKeeps DEF OpenHits
    <2> QED BY <1>3, <2>2, HandlerFrame DEF OpenHits, HandlerInv
  <1>4. CASE Erase
    <2>1. HandlerOK' /\ hpc' = "idle"
      BY <1>0, <1>4, StepKeeps DEF Erase
    <2>2. db' \in [Files -> Entries]
      BY <1>4, HMSETType DEF Erase, HandlerInv
    <2> QED BY <1>4, <2>1, <2>2, HandlerFrame DEF Erase, HandlerInv
  <1>5. CASE Resize
    <2>1. hfile \in Files /\ SetFileSize(db[hfile]) \in Entries
      BY <1>a, <1>5, SettersType DEF Resize
    <2>2. /\ HandlerOK' /\ hpc' \in {"idle", "dead"}
          /\ db' \in [Files -> Entries]
          /\ UNCHANGED <<disk, bucket, opened, hgot, oldName>>
      BY <1>0, <1>5, <2>1, HandlerSetsKeeps DEF Resize
    <2> QED BY <1>5, <2>2, HandlerFrame DEF Resize, HandlerInv
  <1>6. CASE Rename
    <2>1. HandlerOK' /\ hpc' \in {"setName", "dead"}
      BY <1>0, <1>6, StepKeeps DEF Rename
    <2>2. oldName \in Files /\ db[oldName] \in Entries
      BY <1>6 DEF Rename, HandlerInv
    <2>3. db' \in [Files -> Entries]
      BY <1>6, <2>2, HMSETType DEF Rename, HandlerInv
    <2> QED BY <1>6, <2>1, <2>3, HandlerFrame DEF Rename, HandlerInv
  <1>7. CASE SetName
    <2>1. hfile \in Files /\ SetFileName(db[hfile], hfile) \in Entries
      BY <1>a, <1>7, SettersType DEF SetName
    <2>2. /\ HandlerOK' /\ hpc' \in {"idle", "dead"}
          /\ db' \in [Files -> Entries]
          /\ UNCHANGED <<disk, bucket, opened, hgot, oldName>>
      BY <1>0, <1>7, <2>1, HandlerSetsKeeps DEF SetName
    <2> QED BY <1>7, <2>2, HandlerFrame DEF SetName, HandlerInv
  <1> QED BY <1>1, <1>2, <1>3, <1>4, <1>5, <1>6, <1>7

\* It has nothing to do with who has the files open.
LEMMA OpenedStays == HandlerNext => opened' = opened
  BY DEF HandlerNext, OpenFile, Create, Insert, Open, OpenLocal, OpenMeta, RecallGet,
         RecallGetFails, RecallWrite, RecallDelete, RecallDeleteFails, RecallUnlink,
         RecallHot, RecallUnmeta, OpenMark, OpenHits, Delete, Erase, Modify, Resize,
         Close, MovedFrom, MovedTo, Rename, SetName, HandlerSets

\* So does the whole of initializeINotify.
LEMMA HandlerKeeps ==
    ASSUME HandlerInv, HandlerNext
    PROVE  HandlerInv'
  BY EventKeeps, RecallKeeps, CallKeeps DEF HandlerNext, OpenFile
==============================================================================
