--------------------------- MODULE MigrationProofs ---------------------------
(***************************************************************************)
(* Theorems about Migration.tla, for any files, contents, bounds, faults   *)
(* and user behaviour.                                                     *)
(***************************************************************************)
EXTENDS Migration, HandlerProofs

-----------------------------------------------------------------------------
(***************************************************************************)
(* The inductive invariant.  TypeOK alone is not inductive: the calls on   *)
(* the file at hand index disk, bucket and db with cur, hfile and oldName, *)
(* which are None at other times.                                          *)
(***************************************************************************)
AtWork == /\ mpc \in (DemotionSteps \ {"demote"}) \cup (PromotionSteps \ {"promote"})
                => cur \in Files
          /\ hpc \notin {"idle", "dead"} => hfile \in Files
          /\ hpc = "rename" => oldName \in Files

IInv == TypeOK /\ AtWork

-----------------------------------------------------------------------------
\* What HandlerProofs.tla says of the handler is part of it.
LEMMA HandlerPart == IInv => HandlerInv
  BY DEF IInv, TypeOK, AtWork, HandlerInv

\* A hash that grows older is still a hash.
LEMMA AgedType == \A e \in Entries : Aged(e) \in Entries
  BY DEF Entries, Ages, Aged

\* The initial states satisfy the invariant.
LEMMA InitIInv == Init => IInv
  <1> SUFFICES ASSUME Init PROVE IInv
    OBVIOUS
  <1>1. db \in [Files -> Entries]
    BY HMSETType DEF Init
  <1>2. todo \in [Files -> Entries]
    BY HMSETType DEF Init, InitMigrator, NothingToDo
  <1>3. disk \in [Files -> Contents \cup {None}] /\ truth \in [Files -> Versions \cup {None}]
    BY DEF Init, Contents
  <1>4. queue \in Seq(Events) /\ opened \in [Files -> {"no", "yes", "orphan"}]
    BY DEF Init
  <1> QED
    BY <1>1, <1>2, <1>3, <1>4
       DEF Init, InitMigrator, InitHandler, IInv, TypeOK, AtWork, Contents,
           HandlerSteps, MigratorSteps, DemotionSteps, PromotionSteps

-----------------------------------------------------------------------------
(***************************************************************************)
(* The migrator keeps the invariant.                                       *)
(***************************************************************************)

\* A setter called on the file at hand, leaving the hash e.
LEMMA SetKeeps ==
    ASSUME IInv, cur \in Files,
           NEW e \in Entries, NEW next \in MigratorSteps, Set(e, next)
    PROVE  /\ db' \in [Files -> Entries]
           /\ mpc' \in MigratorSteps
           /\ mpc' \in {next, "dead"}
           /\ UNCHANGED <<disk, bucket, queue, opened, hpc, mgot>>
  BY DEF Set, IInv, TypeOK, MigratorSteps

\* The hash of the file at hand, and its FileData.
LEMMA AtHandType ==
    ASSUME IInv, cur \in Files
    PROVE  db[cur] \in Entries /\ todo[cur] \in Entries
  BY DEF IInv, TypeOK

\* A scan lists hashes as they are, but for the age they are read back with.
LEMMA ScanKeeps ==
    ASSUME IInv, NEW flag, NEW next \in {"demote", "promote"}, Scan(flag, next),
           UNCHANGED <<handlerVars, truth>>
    PROVE  IInv'
  <1>0. PICK chosen \in SUBSET {f \in Files : db[f].form = "made"
                                                /\ db[f].isLocal = flag} :
             \E age \in [chosen -> Ages] : todo' = Listed(chosen, age)
    BY DEF Scan
  <1>1. PICK age \in [chosen -> Ages] : todo' = Listed(chosen, age)
    BY <1>0
  <1>2. todo' \in [Files -> Entries]
    <2> SUFFICES ASSUME NEW f \in Files
                 PROVE  (IF f \in chosen THEN [db[f] EXCEPT !.lastModified = age[f]]
                                         ELSE NoEntry) \in Entries
      BY <1>1 DEF Listed
    <2>1. db[f] \in Entries
      BY DEF IInv, TypeOK
    <2>2. CASE f \in chosen
      <3>1. age[f] \in Ages
        BY <1>1, <2>2
      <3> QED BY <2>1, <2>2, <3>1 DEF Entries
    <2>3. CASE f \notin chosen
      BY <2>3, HMSETType
    <2> QED BY <2>2, <2>3
  <1> QED
    BY <1>2 DEF Scan, worldVars, handlerVars, IInv, TypeOK, AtWork, MigratorSteps,
                DemotionSteps, PromotionSteps

\* Every step of a demotion keeps the invariant.
LEMMA DemotionKeeps ==
    ASSUME IInv, Demotion, UNCHANGED <<handlerVars, truth>>
    PROVE  IInv'
  <1> USE DEF handlerVars
  <1>0. /\ UNCHANGED <<hfile, hremote, hgot, oldName, truth>>
        /\ NoEntry \in Entries
        /\ "old" \in Ages /\ "recent" \in Ages
    BY HMSETType DEF Ages
  <1>1. CASE ScanDemotion
    BY <1>0, <1>1, ScanKeeps DEF ScanDemotion
  <1>2. CASE EndDemotion
    BY <1>2, <1>0
       DEF EndDemotion, worldVars, IInv, TypeOK, AtWork, MigratorSteps,
           DemotionSteps, PromotionSteps
  <1>3. ASSUME NEW f \in Files, PickDies(f) \/ SkipDemotion(f) \/ PickDemotion(f)
        PROVE  IInv'
    <2>1. CASE PickDies(f)
      BY <2>1, <1>0
         DEF PickDies, worldVars, IInv, TypeOK, AtWork, MigratorSteps,
             DemotionSteps, PromotionSteps
    <2>2. CASE SkipDemotion(f)
      BY <2>2, <1>0
         DEF SkipDemotion, worldVars, IInv, TypeOK, AtWork, MigratorSteps,
             DemotionSteps, PromotionSteps
    <2>3. CASE PickDemotion(f)
      BY <2>3, <1>0
         DEF PickDemotion, worldVars, IInv, TypeOK, AtWork, MigratorSteps,
             DemotionSteps, PromotionSteps
    <2> QED BY <1>3, <2>1, <2>2, <2>3
  <1>4. CASE LinkRemote
    <2>1. cur \in Files /\ db[cur] \in Entries /\ todo[cur] \in Entries
      BY <1>4, AtHandType DEF IInv, AtWork, LinkRemote, DemotionSteps, PromotionSteps
    <2>2. todo[cur].fileName \in Files \cup {None, Nil}
      BY <2>1 DEF Entries
    <2>3. SetRemoteURI(db[cur], todo[cur].fileName) \in Entries
      BY <2>1, <2>2, SettersType
    <2>4. [todo[cur] EXCEPT !.remoteURI = todo[cur].fileName] \in Entries
      BY <2>1, <2>2 DEF Entries
    <2>5. todo' \in [Files -> Entries]
      BY <1>4, <2>1, <2>4 DEF LinkRemote, IInv, TypeOK
    <2>6. "upload" \in MigratorSteps
      BY DEF MigratorSteps, DemotionSteps
    <2>7. /\ db' \in [Files -> Entries]
          /\ mpc' \in MigratorSteps
          /\ UNCHANGED <<disk, bucket, queue, opened, hpc, mgot>>
      BY <1>4, <2>1, <2>3, <2>6, SetKeeps DEF LinkRemote
    <2> QED
      BY <1>0, <1>4, <2>1, <2>5, <2>7 DEF LinkRemote, IInv, TypeOK, AtWork
  <1>5. CASE Upload
    <2>1. cur \in Files /\ todo[cur] \in Entries
      BY <1>5, AtHandType DEF IInv, AtWork, Upload, DemotionSteps, PromotionSteps
    <2>2. queue' \in Seq(Events)
      BY <1>5, <2>1, EventsType, NotifyType DEF Upload, IInv, TypeOK
    <2>3. bucket' \in [Files -> Contents \cup {None}]
      BY <1>5, <2>1 DEF Upload, IInv, TypeOK
    <2> QED
      BY <1>0, <1>5, <2>1, <2>2, <2>3
         DEF Upload, IInv, TypeOK, AtWork, MigratorSteps, DemotionSteps
  <1>6. CASE UploadFails
    <2>1. cur \in Files
      BY <1>6 DEF IInv, AtWork, UploadFails, DemotionSteps
    <2>2. queue' \in Seq(Events)
      BY <1>6, <2>1, EventsType, NotifyType DEF UploadFails, IInv, TypeOK
    <2> QED
      BY <1>0, <1>6, <2>1, <2>2
         DEF UploadFails, IInv, TypeOK, AtWork, MigratorSteps, DemotionSteps
  <1>7. CASE Remove
    <2>1. cur \in Files
      BY <1>7 DEF IInv, AtWork, Remove, DemotionSteps
    <2>2. queue' \in Seq(Events)
      <3>1. <<Ev("delete", cur)>> \in Seq(Events)
        BY <2>1, EventsType DEF EventTypes
      <3> QED BY <1>7, <3>1, NotifyType DEF Remove, IInv, TypeOK
    <2>3. /\ disk' \in [Files -> Contents \cup {None}]
          /\ opened' \in [Files -> {"no", "yes", "orphan"}]
      BY <1>7, <2>1 DEF Remove, IInv, TypeOK
    <2> QED
      BY <1>0, <1>7, <2>1, <2>2, <2>3
         DEF Remove, IInv, TypeOK, AtWork, MigratorSteps, DemotionSteps
  <1>8. CASE Record
    <2>1. cur \in Files /\ db[cur] \in Entries /\ todo[cur] \in Entries
      BY <1>8, AtHandType DEF IInv, AtWork, Record, DemotionSteps
    <2>2. db' \in [Files -> Entries]
      BY <1>8, <2>1, HMSETType DEF Record, IInv, TypeOK
    <2> QED
      BY <1>0, <1>8, <2>1, <2>2
         DEF Record, IInv, TypeOK, AtWork, MigratorSteps, DemotionSteps
  <1>9. CASE MarkMeta
    <2>1. cur \in Files /\ SetIsMetadata(db[cur], 1) \in Entries
      BY <1>9, AtHandType, SettersType DEF IInv, AtWork, MarkMeta, DemotionSteps, Flag
    <2>2. "stub" \in MigratorSteps
      BY DEF MigratorSteps, DemotionSteps
    <2> QED
      BY <1>0, <1>9, <2>1, <2>2, SetKeeps
         DEF MarkMeta, IInv, TypeOK, AtWork
  <1>10. CASE Stub
    <2>1. cur \in Files
      BY <1>10 DEF IInv, AtWork, Stub, DemotionSteps
    <2>2. queue' \in Seq(Events)
      BY <1>10, <2>1, EventsType, NotifyType DEF Stub, IInv, TypeOK
    <2>3. disk' \in [Files -> Contents \cup {None}]
      BY <1>10, <2>1 DEF Stub, IInv, TypeOK, Contents
    <2> QED
      BY <1>0, <1>10, <2>1, <2>2, <2>3
         DEF Stub, IInv, TypeOK, AtWork, MigratorSteps, DemotionSteps
  <1>11. CASE MarkCold
    <2>1. cur \in Files /\ SetIsLocal(db[cur], 0) \in Entries
      BY <1>11, AtHandType, SettersType DEF IInv, AtWork, MarkCold, DemotionSteps, Flag
    <2>2. "restore" \in MigratorSteps
      BY DEF MigratorSteps, DemotionSteps
    <2> QED
      BY <1>0, <1>11, <2>1, <2>2, SetKeeps
         DEF MarkCold, IInv, TypeOK, AtWork
  <1>12. CASE RestoreTime
    <2>1. cur \in Files /\ db[cur] \in Entries /\ todo[cur] \in Entries
      BY <1>12, AtHandType DEF IInv, AtWork, RestoreTime, DemotionSteps
    <2>2. SetLastTimeModified(db[cur], todo[cur].lastModified) \in Entries
      <3>1. todo[cur].lastModified \in Ages \cup {Nil}
        BY <2>1 DEF Entries
      <3> QED BY <2>1, <3>1, SettersType
    <2>3. "demote" \in MigratorSteps
      BY DEF MigratorSteps, DemotionSteps
    <2>4. /\ db' \in [Files -> Entries]
          /\ mpc' \in {"demote", "dead"}
          /\ UNCHANGED <<disk, bucket, queue, opened, hpc, mgot>>
      BY <1>12, <2>1, <2>2, <2>3, SetKeeps DEF RestoreTime
    <2>5. todo' \in [Files -> Entries] /\ cur' \in Files \cup {None}
      BY <1>0, <1>12, <2>1 DEF RestoreTime, Finish, IInv, TypeOK
    <2> QED
      BY <1>0, <2>4, <2>5
         DEF IInv, TypeOK, AtWork, MigratorSteps, DemotionSteps, PromotionSteps
  <1> QED
    BY <1>1, <1>2, <1>3, <1>4, <1>5, <1>6, <1>7, <1>8, <1>9, <1>10, <1>11,
       <1>12 DEF Demotion

\* Every step of a promotion keeps the invariant.
LEMMA PromotionKeeps ==
    ASSUME IInv, Promotion, UNCHANGED <<handlerVars, truth>>
    PROVE  IInv'
  <1> USE DEF handlerVars
  <1>0. UNCHANGED <<hfile, hremote, hgot, oldName, truth>> /\ NoEntry \in Entries
    BY HMSETType
  <1>a. mpc \in PromotionSteps \ {"promote"} =>
            cur \in Files /\ db[cur] \in Entries /\ todo[cur] \in Entries
    BY AtHandType DEF IInv, AtWork
  <1>1. CASE ScanPromotion
    BY <1>1, ScanKeeps DEF ScanPromotion
  <1>2. CASE EndPromotion
    BY <1>0, <1>2
       DEF EndPromotion, worldVars, IInv, TypeOK, AtWork, MigratorSteps,
           DemotionSteps, PromotionSteps
  <1>3. ASSUME NEW f \in Files, PickPromotion(f)
        PROVE  IInv'
    BY <1>0, <1>3
       DEF PickPromotion, worldVars, IInv, TypeOK, AtWork, MigratorSteps,
           DemotionSteps, PromotionSteps
  <1>4. CASE GetObject
    <2>1. mgot' \in Contents \cup {None}
      BY <1>4 DEF GetObject, InBucket, IInv, TypeOK
    <2> QED
      BY <1>0, <1>a, <1>4, <2>1
         DEF GetObject, worldVars, IInv, TypeOK, AtWork, MigratorSteps,
             PromotionSteps
  <1>5. CASE GetObjectFails
    BY <1>0, <1>a, <1>5
       DEF GetObjectFails, worldVars, IInv, TypeOK, AtWork, MigratorSteps,
           PromotionSteps
  <1>6. CASE WriteFile
    <2>1. cur \in Files
      BY <1>a, <1>6 DEF WriteFile, PromotionSteps
    <2>2. queue' \in Seq(Events)
      BY <1>6, <2>1, EventsType, NotifyType DEF WriteFile, IInv, TypeOK
    <2>3. disk' \in [Files -> Contents \cup {None}]
      BY <1>6, <2>1 DEF WriteFile, IInv, TypeOK
    <2> QED
      BY <1>0, <1>6, <2>1, <2>2, <2>3
         DEF WriteFile, IInv, TypeOK, AtWork, MigratorSteps, PromotionSteps
  <1>7. CASE DeleteObject
    <2>1. bucket' \in [Files -> Contents \cup {None}]
      BY <1>7 DEF DeleteObject, IInv, TypeOK
    <2> QED
      BY <1>0, <1>a, <1>7, <2>1
         DEF DeleteObject, IInv, TypeOK, AtWork, MigratorSteps, PromotionSteps
  <1>8. CASE DeleteObjectFails
    BY <1>0, <1>a, <1>8
       DEF DeleteObjectFails, worldVars, IInv, TypeOK, AtWork, MigratorSteps,
           PromotionSteps
  <1>9. CASE Unlink
    <2>1. cur \in Files /\ SetRemoteURI(db[cur], None) \in Entries
      BY <1>a, <1>9, SettersType DEF Unlink, PromotionSteps
    <2>2. "hot" \in MigratorSteps
      BY DEF MigratorSteps, PromotionSteps
    <2> QED
      BY <1>0, <1>9, <2>1, <2>2, SetKeeps DEF Unlink, IInv, TypeOK, AtWork
  <1>10. CASE MarkHot
    <2>1. cur \in Files /\ SetIsLocal(db[cur], 1) \in Entries
      BY <1>a, <1>10, SettersType DEF MarkHot, PromotionSteps, Flag
    <2>2. "unmeta" \in MigratorSteps
      BY DEF MigratorSteps, PromotionSteps
    <2> QED
      BY <1>0, <1>10, <2>1, <2>2, SetKeeps DEF MarkHot, IInv, TypeOK, AtWork
  <1>11. CASE ClearMeta
    <2>1. cur \in Files /\ SetIsMetadata(db[cur], 0) \in Entries
      BY <1>a, <1>11, SettersType DEF ClearMeta, PromotionSteps, Flag
    <2>2. "promote" \in MigratorSteps
      BY DEF MigratorSteps, PromotionSteps
    <2>3. /\ db' \in [Files -> Entries]
          /\ mpc' \in {"promote", "dead"}
          /\ UNCHANGED <<disk, bucket, queue, opened, hpc, mgot>>
      BY <1>11, <2>1, <2>2, SetKeeps DEF ClearMeta
    <2>4. todo' \in [Files -> Entries] /\ cur' \in Files \cup {None}
      BY <1>0, <1>11, <2>1 DEF ClearMeta, Finish, IInv, TypeOK
    <2> QED
      BY <1>0, <2>3, <2>4
         DEF IInv, TypeOK, AtWork, MigratorSteps, DemotionSteps, PromotionSteps
  <1> QED
    BY <1>1, <1>2, <1>3, <1>4, <1>5, <1>6, <1>7, <1>8, <1>9, <1>10, <1>11
       DEF Promotion

\* So does the whole of manageFiles.
LEMMA MigratorKeeps ==
    ASSUME IInv, MigratorNext, UNCHANGED <<handlerVars, truth>>
    PROVE  IInv'
  <1>1. CASE ScanGhost
    BY <1>1
       DEF ScanGhost, worldVars, handlerVars, IInv, TypeOK, AtWork,
           MigratorSteps, DemotionSteps, PromotionSteps
  <1> QED BY <1>1, DemotionKeeps, PromotionKeeps DEF MigratorNext
-----------------------------------------------------------------------------
\* The event handler keeps the invariant.
LEMMA HandlerKeepsAll ==
    ASSUME IInv, HandlerNext, UNCHANGED <<migratorVars, truth>>
    PROVE  IInv'
  <1>1. HandlerInv' /\ opened' = opened
    BY HandlerPart, HandlerKeeps, OpenedStays
  <1> QED BY <1>1 DEF migratorVars, HandlerInv, IInv, TypeOK, AtWork

-----------------------------------------------------------------------------
(***************************************************************************)
(* Users, the clock and the operator keep the invariant.                   *)
(***************************************************************************)

\* A user's operation touches the directory and the queue only.
LEMMA UserFrame ==
    ASSUME IInv, UNCHANGED servers, NEW events \in Seq(Events), Notify(events),
           disk' \in [Files -> Contents \cup {None}],
           opened' \in [Files -> {"no", "yes", "orphan"}],
           truth' \in [Files -> Versions \cup {None}]
    PROVE  IInv'
  <1>1. queue' \in Seq(Events)
    BY NotifyType DEF IInv, TypeOK
  <1> QED
    BY <1>1 DEF servers, migratorVars, handlerVars, IInv, TypeOK, AtWork

\* No operation of a user breaks the invariant.
LEMMA UsersKeep ==
    ASSUME IInv, Users
    PROVE  IInv'
  <1> SUFFICES ASSUME NEW f \in Files,
                      \/ UserOpen(f) \/ UserClose(f) \/ UserRead(f)
                      \/ \E v \in Versions : UserWrite(f, v) \/ UserCreate(f, v)
                      \/ UserDelete(f)
                      \/ \E g \in Files : UserRename(f, g)
               PROVE  IInv'
    BY DEF Users
  <1>0. /\ \A type \in EventTypes, g \in Files : <<Ev(type, g)>> \in Seq(Events)
        /\ ReadEvents(f) \in Seq(Events)
        /\ \A content : RewriteEvents(f, content) \in Seq(Events)
        /\ \A g \in Files : <<Ev("movedFrom", f), Ev("movedTo", g)>> \in Seq(Events)
    <2>1. \A type \in EventTypes, g \in Files : Ev(type, g) \in Events
      BY EventsType
    <2>2. {"movedFrom", "movedTo"} \subseteq EventTypes
      BY DEF EventTypes
    <2> QED BY <2>1, <2>2, EventsType
  <1>a. {"open", "close", "modify", "delete"} \subseteq EventTypes
    BY DEF EventTypes
  <1>1. CASE UserOpen(f)
    BY <1>0, <1>a, <1>1, UserFrame DEF UserOpen, IInv, TypeOK
  <1>2. CASE UserClose(f)
    BY <1>0, <1>a, <1>2, UserFrame DEF UserClose, IInv, TypeOK
  <1>3. CASE UserRead(f)
    BY <1>0, <1>3, UserFrame DEF UserRead, IInv, TypeOK
  <1>4. ASSUME NEW v \in Versions, UserWrite(f, v)
        PROVE  IInv'
    BY <1>0, <1>a, <1>4, UserFrame DEF UserWrite, IInv, TypeOK, Contents
  <1>5. ASSUME NEW v \in Versions, UserCreate(f, v)
        PROVE  IInv'
    BY <1>0, <1>5, UserFrame DEF UserCreate, IInv, TypeOK, Contents
  <1>6. CASE UserDelete(f)
    BY <1>0, <1>a, <1>6, UserFrame DEF UserDelete, IInv, TypeOK
  <1>7. ASSUME NEW g \in Files, UserRename(f, g)
        PROVE  IInv'
    BY <1>0, <1>7, UserFrame DEF UserRename, IInv, TypeOK
  <1> QED BY <1>1, <1>2, <1>3, <1>4, <1>5, <1>6, <1>7

\* The passing of time only ages hashes.
LEMMA TimeKeeps ==
    ASSUME IInv, TimePasses
    PROVE  IInv'
  <1>1. \A f \in Files : Aged(db[f]) \in Entries /\ Aged(todo[f]) \in Entries
    BY AgedType DEF IInv, TypeOK
  <1>2. db' \in [Files -> Entries] /\ todo' \in [Files -> Entries]
    BY <1>1 DEF TimePasses
  <1> QED
    BY <1>2 DEF TimePasses, handlerVars, IInv, TypeOK, AtWork

\* Kills and restarts reset the process they are about.
LEMMA OperatorKeeps ==
    ASSUME IInv, Operator
    PROVE  IInv'
  <1>1. NothingToDo \in [Files -> Entries]
    BY HMSETType DEF NothingToDo
  <1>2. CASE KillSupervisor
    BY <1>1, <1>2
       DEF KillSupervisor, worldVars, handlerVars, IInv, TypeOK, AtWork,
           MigratorSteps, DemotionSteps, PromotionSteps
  <1>3. CASE StartSupervisor
    BY <1>1, <1>3
       DEF StartSupervisor, worldVars, handlerVars, IInv, TypeOK, AtWork,
           MigratorSteps, DemotionSteps, PromotionSteps
  <1>4. CASE KillHandler
    BY <1>4
       DEF KillHandler, migratorVars, IInv, TypeOK, AtWork, HandlerSteps
  <1> QED BY <1>2, <1>3, <1>4 DEF Operator

-----------------------------------------------------------------------------
\* The invariant is inductive.
LEMMA NextIInv == IInv /\ [Next]_vars => IInv'
  <1> SUFFICES ASSUME IInv, [Next]_vars PROVE IInv'
    OBVIOUS
  <1>1. CASE UNCHANGED vars
    BY <1>1 DEF vars, worldVars, migratorVars, handlerVars, IInv, TypeOK, AtWork
  <1> QED
    BY <1>1, MigratorKeeps, HandlerKeepsAll, UsersKeep, TimeKeeps, OperatorKeeps
       DEF Next

\* Type correctness: whatever the users, S3, the clock and the operator do, the
\* variables of the two processes, the catalogue, the bucket and the event queue
\* keep their types, and a process that works on a file has one at hand.
THEOREM TypeCorrect == Spec => []TypeOK
  <1>1. IInv => TypeOK
    BY DEF IInv
  <1> QED BY <1>1, InitIInv, NextIInv, PTL DEF Spec

-----------------------------------------------------------------------------
(***************************************************************************)
(* The event handler recalls a file only if its hash is cold and marked.   *)
(* The rest of this module proves that a cold file never lacks the mark,   *)
(* for any files, S3 faults, kills and restarts, when the sleeps of the    *)
(* migrator are long enough and users open, read and write files but       *)
(* neither create, remove nor rename them.                                 *)
(***************************************************************************)

\* The assumptions on the world.
Settled == /\ Prompt
           /\ UserOps \cap {"create", "delete", "rename"} = {}

-----------------------------------------------------------------------------
(***************************************************************************)
(* The inductive invariant.                                                *)
(***************************************************************************)

\* An event of one of the types waits in the queue.
Waits(types) == \E i \in 1..Len(queue) : queue[i].type \in types

\* Nothing is moved, so no hash takes the place of another.
NothingMoves == /\ ~Waits({"movedFrom", "movedTo"})
                /\ hpc \notin {"rename", "setName"}

\* What a demotion writes back was local when it was listed.
LocalListed == mpc \in DemotionSteps => \A f \in Files : todo[f].isLocal # 0

\* Between the mark and the flag that makes it cold, the hash of the file being
\* demoted is whole and marked, and the handler has nothing to do that would
\* erase it, replace it or clear its mark.
Undisturbed == /\ hpc # "dead" => ~Waits({"delete"})
               /\ hpc # "erase"
               /\ hfile = cur => hpc \notin {"insert", "openMeta"} \cup RecallSteps

BetweenMarks == mpc \in {"stub", "markCold"} =>
                    /\ db[cur].form = "made"
                    /\ db[cur].isMetadata = 1
                    /\ Undisturbed

\* Neither process is about to clear the mark of a cold file.
ClearedWhenHot ==
    /\ mpc \in {"markMeta", "stub", "markCold", "unmeta"} => db[cur].isLocal # 0
    /\ hpc = "unmeta" => db[hfile].isLocal # 0

MarkInv == /\ NothingMoves
           /\ LocalListed
           /\ BetweenMarks
           /\ ClearedWhenHot
           /\ ColdIsMarked

-----------------------------------------------------------------------------
(***************************************************************************)
(* Waiting events.                                                         *)
(***************************************************************************)

\* No event of the sequence is of one of the types.
Lacks(events, types) == \A i \in 1..Len(events) : events[i].type \notin types

\* What is not among the new events, and did not wait, does not wait.
LEMMA NotifyWaits ==
    ASSUME IInv, NEW CONSTANT types, ~Waits(types),
           NEW events \in Seq(Events), Lacks(events, types), Notify(events)
    PROVE  ~Waits(types)'
  <1>1. queue \in Seq(Events)
    BY DEF IInv, TypeOK
  <1>2. CASE queue' = queue
    BY <1>2 DEF Waits
  <1>3. CASE queue' = queue \o events
    <2> SUFFICES ASSUME NEW i \in 1..Len(queue'), queue'[i].type \in types
                 PROVE  FALSE
      BY DEF Waits
    <2>1. CASE i <= Len(queue)
      BY <1>1, <1>3, <2>1 DEF Waits
    <2>2. CASE i > Len(queue)
      <3>1. /\ i - Len(queue) \in 1..Len(events)
            /\ queue'[i] = events[i - Len(queue)]
        BY <1>1, <1>3, <2>2
      <3> QED BY <3>1 DEF Lacks
    <2> QED BY <1>1, <2>1, <2>2
  <1> QED BY <1>2, <1>3 DEF Notify

\* Reading an event, or losing all, brings none.
LEMMA ReadWaits ==
    ASSUME IInv, NEW CONSTANT types, ~Waits(types),
           queue' \in {queue, <<>>} \/ (queue # <<>> /\ queue' = Tail(queue))
    PROVE  ~Waits(types)'
  <1>1. queue \in Seq(Events)
    BY DEF IInv, TypeOK
  <1>2. CASE queue' \in {queue, <<>>}
    BY <1>2 DEF Waits
  <1>3. CASE queue # <<>> /\ queue' = Tail(queue)
    <2> SUFFICES ASSUME NEW i \in 1..Len(queue'), queue'[i].type \in types
                 PROVE  FALSE
      BY DEF Waits
    <2>1. i + 1 \in 1..Len(queue) /\ queue'[i] = queue[i + 1]
      BY <1>1, <1>3
    <2> QED BY <2>1 DEF Waits
  <1> QED BY <1>2, <1>3

\* An event that is read was waiting.
LEMMA HeadWaits ==
    ASSUME IInv, queue # <<>>, NEW CONSTANT types, Head(queue).type \in types
    PROVE  Waits(types)
  <1>1. queue \in Seq(Events)
    BY DEF IInv, TypeOK
  <1>2. 1 \in 1..Len(queue) /\ queue[1] = Head(queue)
    BY <1>1
  <1> QED BY <1>2 DEF Waits

\* The daemons' own accesses to files move and delete nothing.
LEMMA OwnEvents ==
    ASSUME NEW f \in Files
    PROVE  /\ \A content : Lacks(RewriteEvents(f, content),
                                 {"movedFrom", "movedTo", "delete"})
           /\ Lacks(ReadEvents(f), {"movedFrom", "movedTo", "delete"})
  <1>1. ASSUME NEW content
        PROVE  Lacks(RewriteEvents(f, content), {"movedFrom", "movedTo", "delete"})
    BY DEF Lacks, RewriteEvents, Ev
  <1>2. Lacks(ReadEvents(f), {"movedFrom", "movedTo", "delete"})
    BY DEF Lacks, ReadEvents, Ev
  <1> QED BY <1>1, <1>2

-----------------------------------------------------------------------------
(***************************************************************************)
(* Steps that touch no flag.                                               *)
(***************************************************************************)

\* d is as local, as marked and as whole as e.
SameFlags(e, d) == /\ d.isLocal = e.isLocal
                   /\ d.isMetadata = e.isMetadata
                   /\ d.form = "made" <=> e.form = "made"

\* Only setIsLocal and setIsMetadata change the two flags.
LEMMA SettersKeepFlags ==
    ASSUME NEW e \in Entries
    PROVE  /\ \A uri : SameFlags(e, SetRemoteURI(e, uri))
           /\ \A flag : SameFlags(e, SetIsOpen(e, flag))
           /\ \A age : SameFlags(e, SetLastTimeModified(e, age))
           /\ SameFlags(e, SetFileSize(e))
           /\ SameFlags(e, IncrementTimesAccessed(e))
           /\ SameFlags(e, Aged(e))
           /\ SameFlags(e, e)
  <1>1. \A uri : SameFlags(e, SetRemoteURI(e, uri))
    BY DEF Entries, SameFlags, SetRemoteURI, Kept
  <1>2. \A flag : SameFlags(e, SetIsOpen(e, flag))
    BY DEF Entries, SameFlags, SetIsOpen, Kept
  <1>3. \A age : SameFlags(e, SetLastTimeModified(e, age))
    BY DEF Entries, SameFlags, SetLastTimeModified, Kept
  <1>4. SameFlags(e, SetFileSize(e)) /\ SameFlags(e, IncrementTimesAccessed(e))
    BY DEF Entries, SameFlags, SetFileSize, IncrementTimesAccessed, Kept
  <1>5. SameFlags(e, Aged(e)) /\ SameFlags(e, e)
    BY DEF Entries, SameFlags, Aged
  <1> QED BY <1>1, <1>2, <1>3, <1>4, <1>5

\* A step that changes no flag and brings neither process nearer to a mark
\* keeps the invariant.
LEMMA FrameKeeps ==
    ASSUME IInv, MarkInv, IInv',
           \A f \in Files : SameFlags(db[f], db'[f]),
           NothingMoves', LocalListed',
           mpc' \in {"stub", "markCold"} => mpc \in {"stub", "markCold"} /\ Undisturbed',
           mpc' \in {"markMeta", "stub", "markCold", "unmeta"} =>
               mpc \in {"markMeta", "stub", "markCold", "unmeta"} /\ cur' = cur,
           hpc' = "unmeta" => hpc = "unmeta" /\ hfile' = hfile
    PROVE  MarkInv'
  <1>1. ColdIsMarked'
    BY DEF MarkInv, ColdIsMarked, SameFlags
  <1>2. mpc' \in {"markMeta", "stub", "markCold", "unmeta"} => cur \in Files
    BY DEF IInv, AtWork, DemotionSteps, PromotionSteps
  <1>3. hpc' = "unmeta" => hfile \in Files
    BY DEF IInv, AtWork
  <1>4. BetweenMarks'
    BY <1>2 DEF MarkInv, BetweenMarks, SameFlags
  <1>5. ClearedWhenHot'
    BY <1>2, <1>3 DEF MarkInv, ClearedWhenHot, SameFlags
  <1> QED BY <1>1, <1>4, <1>5 DEF MarkInv

-----------------------------------------------------------------------------
(***************************************************************************)
(* The migrator keeps the invariant.                                       *)
(***************************************************************************)

\* What no step of the migrator touches, and what most do not.
LEMMA MigratorFrame ==
    ASSUME IInv, MarkInv, IInv', UNCHANGED <<handlerVars, truth>>, hpc' = hpc,
           \A f \in Files : SameFlags(db[f], db'[f]),
           ~Waits({"movedFrom", "movedTo"})', LocalListed',
           mpc' \in {"stub", "markCold"} =>
               mpc \in {"stub", "markCold"} /\ ~Waits({"delete"})',
           mpc' \in {"markMeta", "stub", "markCold", "unmeta"} =>
               mpc \in {"markMeta", "stub", "markCold", "unmeta"} /\ cur' = cur
    PROVE  MarkInv'
  <1>1. NothingMoves'
    BY DEF MarkInv, NothingMoves
  <1>2. mpc' \in {"stub", "markCold"} => Undisturbed'
    BY DEF MarkInv, BetweenMarks, Undisturbed, handlerVars
  <1> QED BY <1>1, <1>2, FrameKeeps DEF handlerVars

\* Steps of the migrator that leave the directory and the catalogue alone.
LEMMA LookingKeeps ==
    ASSUME IInv, MarkInv, IInv', UNCHANGED <<worldVars, handlerVars, truth>>,
           LocalListed', mpc' \notin {"markMeta", "stub", "markCold", "unmeta"}
    PROVE  MarkInv'
  <1>1. \A f \in Files : SameFlags(db[f], db'[f])
    BY SettersKeepFlags DEF worldVars, IInv, TypeOK
  <1>2. ~Waits({"movedFrom", "movedTo"})'
    BY ReadWaits DEF worldVars, MarkInv, NothingMoves
  <1> QED BY <1>1, <1>2, MigratorFrame DEF worldVars

\* Calls of a setter that changes no flag.
LEMMA SettingKeeps ==
    ASSUME IInv, MarkInv, IInv', UNCHANGED <<handlerVars, truth>>, cur \in Files,
           NEW e \in Entries, SameFlags(db[cur], e),
           NEW next, Set(e, next), LocalListed',
           next \notin {"markMeta", "stub", "markCold", "unmeta"}
    PROVE  MarkInv'
  <1>1. \A f \in Files : SameFlags(db[f], db'[f])
    BY SettersKeepFlags DEF Set, IInv, TypeOK
  <1>2. ~Waits({"movedFrom", "movedTo"})'
    BY ReadWaits DEF Set, MarkInv, NothingMoves
  <1>3. mpc' \notin {"markMeta", "stub", "markCold", "unmeta"}
    BY DEF Set
  <1> QED BY <1>1, <1>2, <1>3, MigratorFrame DEF Set

\* Steps on the directory and the bucket.
LEMMA MovingKeeps ==
    ASSUME IInv, MarkInv, IInv', UNCHANGED <<handlerVars, truth, db, hpc, todo>>,
           NEW events \in Seq(Events), Notify(events) \/ queue' = queue,
           Lacks(events, {"movedFrom", "movedTo"}), LocalListed',
           mpc' \notin {"markMeta", "stub", "markCold", "unmeta"}
    PROVE  MarkInv'
  <1>1. \A f \in Files : SameFlags(db[f], db'[f])
    BY SettersKeepFlags DEF IInv, TypeOK
  <1>2. ~Waits({"movedFrom", "movedTo"})'
    BY NotifyWaits, ReadWaits DEF MarkInv, NothingMoves
  <1> QED BY <1>1, <1>2, MigratorFrame

\* A scan lists files of one tier.
LEMMA ScanLists ==
    ASSUME IInv, NEW next, Scan(1, next)
    PROVE  \A f \in Files : todo'[f].isLocal # 0
  <1>0. PICK chosen \in SUBSET {f \in Files : db[f].form = "made"
                                                /\ db[f].isLocal = 1} :
             \E age \in [chosen -> Ages] : todo' = Listed(chosen, age)
    BY DEF Scan
  <1>1. PICK age \in [chosen -> Ages] : todo' = Listed(chosen, age)
    BY <1>0
  <1> SUFFICES ASSUME NEW f \in Files
               PROVE  todo'[f].isLocal # 0
    OBVIOUS
  <1>2. CASE f \in chosen
    <2>1. db[f] \in Entries /\ db[f].isLocal = 1
      BY <1>2 DEF IInv, TypeOK
    <2>2. todo'[f] = [db[f] EXCEPT !.lastModified = age[f]]
      BY <1>1, <1>2 DEF Listed
    <2> QED BY <2>1, <2>2 DEF Entries
  <1>3. CASE f \notin chosen
    <2>1. todo'[f] = NoEntry
      BY <1>1, <1>3 DEF Listed
    <2> QED BY <2>1, NamesAssumption DEF NoEntry, Flag
  <1> QED BY <1>2, <1>3

\* Every step of a demotion keeps the invariant.
LEMMA DemotionMarks ==
    ASSUME Settled, IInv, MarkInv, IInv', Demotion, UNCHANGED <<handlerVars, truth>>
    PROVE  MarkInv'
  <1>0. /\ mpc \in DemotionSteps \ {"demote"} =>
               cur \in Files /\ db[cur] \in Entries /\ todo[cur] \in Entries
        /\ \A f \in Files : db[f] \in Entries /\ todo[f] \in Entries
        /\ mpc \in DemotionSteps => \A f \in Files : todo[f].isLocal # 0
        /\ NoEntry.isLocal # 0
        /\ todo \in [Files -> Entries]
    BY NamesAssumption DEF MarkInv, LocalListed, IInv, AtWork, TypeOK, NoEntry, Flag
  <1>a. \A f \in Files : \A e :
            mpc \in DemotionSteps /\ todo' = [todo EXCEPT ![f] = e] /\ e.isLocal # 0
                => LocalListed'
    BY <1>0 DEF LocalListed
  <1>1. CASE ScanDemotion
    <2>1. LocalListed'
      BY <1>1, ScanLists DEF ScanDemotion, LocalListed
    <2> QED
      BY <1>1, <2>1, LookingKeeps DEF ScanDemotion, Scan, worldVars
  <1>2. CASE EndDemotion
    BY <1>2, LookingKeeps DEF EndDemotion, LocalListed, DemotionSteps
  <1>3. ASSUME NEW f \in Files, PickDies(f) \/ SkipDemotion(f) \/ PickDemotion(f)
        PROVE  MarkInv'
    <2>1. CASE PickDies(f)
      BY <2>1, LookingKeeps DEF PickDies, LocalListed, DemotionSteps
    <2>2. CASE SkipDemotion(f)
      <3>1. LocalListed'
        BY <1>0, <1>a, <2>2 DEF SkipDemotion, DemotionSteps
      <3> QED BY <2>2, <3>1, LookingKeeps DEF SkipDemotion
    <2>3. CASE PickDemotion(f)
      <3>1. LocalListed'
        BY <1>0, <2>3 DEF PickDemotion, LocalListed, DemotionSteps
      <3> QED BY <2>3, <3>1, LookingKeeps DEF PickDemotion
    <2> QED BY <1>3, <2>1, <2>2, <2>3
  <1>4. CASE LinkRemote
    <2>1. cur \in Files /\ db[cur] \in Entries /\ todo[cur] \in Entries
      BY <1>0, <1>4 DEF LinkRemote, DemotionSteps
    <2>2. [todo[cur] EXCEPT !.remoteURI = todo[cur].fileName].isLocal # 0
      BY <1>0, <1>4, <2>1 DEF LinkRemote, Entries, DemotionSteps
    <2>3. LocalListed'
      BY <1>a, <1>4, <2>1, <2>2 DEF LinkRemote, DemotionSteps
    <2>4. todo[cur].fileName \in Files \cup {None, Nil}
      BY <2>1 DEF Entries
    <2>5. SetRemoteURI(db[cur], todo[cur].fileName) \in Entries
      BY <2>1, <2>4, SettersType
    <2> QED BY <1>4, <2>1, <2>3, <2>5, SettersKeepFlags, SettingKeeps DEF LinkRemote
  <1>5. CASE Upload \/ UploadFails
    <2>1. cur \in Files
      BY <1>0, <1>5 DEF Upload, UploadFails, DemotionSteps
    <2>2. LocalListed'
      BY <1>0, <1>5 DEF Upload, UploadFails, LocalListed, DemotionSteps
    <2>3. Lacks(ReadEvents(cur), {"movedFrom", "movedTo"})
      BY <2>1, OwnEvents DEF Lacks
    <2> QED
      BY <1>5, <2>1, <2>2, <2>3, EventsType, MovingKeeps DEF Upload, UploadFails
  <1>6. CASE Remove
    <2>1. cur \in Files
      BY <1>0, <1>6 DEF Remove, DemotionSteps
    <2>2. LocalListed'
      BY <1>0, <1>6 DEF Remove, LocalListed, DemotionSteps
    <2>3. <<Ev("delete", cur)>> \in Seq(Events)
      BY <2>1, EventsType DEF EventTypes
    <2>4. Lacks(<<Ev("delete", cur)>>, {"movedFrom", "movedTo"})
      BY DEF Lacks, Ev
    <2> QED BY <1>6, <2>2, <2>3, <2>4, MovingKeeps DEF Remove
  <1>7. CASE Record
    <2>1. cur \in Files /\ todo[cur] \in Entries /\ db[cur] \in Entries
      BY <1>0, <1>7 DEF Record, DemotionSteps
    <2>2. HMSET(db[cur], todo[cur]).isLocal # 0
      BY <1>0, <1>7, <2>1 DEF Record, HMSET, Entries, DemotionSteps
    <2>3. db'[cur].isLocal # 0 /\ \A f \in Files : f # cur => db'[f] = db[f]
      BY <1>7, <2>1, <2>2 DEF Record, IInv, TypeOK
    <2>4. LocalListed'
      BY <1>0, <1>7 DEF Record, LocalListed, DemotionSteps
    <2>5. hfile # cur => db'[hfile] = db[hfile] \/ hfile \notin Files
      BY <2>3
    <2>6. ClearedWhenHot'
      BY <1>7, <2>3, <2>5 DEF Record, MarkInv, ClearedWhenHot, handlerVars, IInv, AtWork
    <2>7. ColdIsMarked'
      BY <2>3 DEF MarkInv, ColdIsMarked
    <2>8. NothingMoves' /\ BetweenMarks'
      BY <1>7, ReadWaits DEF Record, MarkInv, NothingMoves, BetweenMarks
    <2> QED BY <2>4, <2>6, <2>7, <2>8 DEF MarkInv
  <1>8. CASE MarkMeta
    <2>1. cur \in Files /\ db[cur] \in Entries
      BY <1>0, <1>8 DEF MarkMeta, DemotionSteps
    <2>2. /\ mpc' \in {"stub", "dead"}
          /\ mpc' = "stub" => SetIsMetadata(db[cur], 1).form = "made"
          /\ db' = [db EXCEPT ![cur] = SetIsMetadata(db[cur], 1)]
          /\ UNCHANGED <<queue, hpc, todo, cur>>
      BY <1>8 DEF MarkMeta, Set, SetterReturns
    <2>3. /\ SetIsMetadata(db[cur], 1).isLocal = db[cur].isLocal
          /\ SetIsMetadata(db[cur], 1).isMetadata = 1
      BY <2>1 DEF SetIsMetadata, Entries
    <2>4. /\ db'[cur].isLocal = db[cur].isLocal /\ db'[cur].isMetadata = 1
          /\ mpc' = "stub" => db'[cur].form = "made"
          /\ \A f \in Files : f # cur => db'[f] = db[f]
      BY <2>1, <2>2, <2>3 DEF IInv, TypeOK
    <2>5. hpc = "dead" \/ HandlerIdle
      BY <1>8 DEF MarkMeta, Slept, Settled
    <2>6. Undisturbed'
      BY <2>2, <2>5 DEF Undisturbed, Waits, RecallSteps, HandlerIdle
    <2>7. BetweenMarks'
      BY <2>2, <2>4, <2>6 DEF BetweenMarks
    <2>8. ClearedWhenHot'
      BY <1>8, <2>2, <2>4, <2>5 DEF MarkMeta, MarkInv, ClearedWhenHot, HandlerIdle
    <2>9. ColdIsMarked'
      BY <2>4 DEF MarkInv, ColdIsMarked
    <2>10. NothingMoves'
      BY <2>2, ReadWaits DEF MarkInv, NothingMoves
    <2>11. LocalListed'
      BY <1>0, <1>8, <2>2 DEF MarkMeta, LocalListed, DemotionSteps
    <2> QED BY <2>7, <2>8, <2>9, <2>10, <2>11 DEF MarkInv
  <1>9. CASE Stub
    <2>1. cur \in Files /\ queue \in Seq(Events)
      BY <1>0, <1>9 DEF Stub, DemotionSteps, IInv, TypeOK
    <2>2. /\ RewriteEvents(cur, Empty) \in Seq(Events)
          /\ Lacks(RewriteEvents(cur, Empty), {"movedFrom", "movedTo"})
          /\ Lacks(RewriteEvents(cur, Empty), {"delete"})
      BY <2>1, EventsType, OwnEvents DEF Lacks
    <2>3. ~Waits({"movedFrom", "movedTo"})'
      BY <1>9, <2>2, NotifyWaits DEF Stub, MarkInv, NothingMoves
    <2>4. hpc # "dead" => ~Waits({"delete"})'
      BY <1>9, <2>2, NotifyWaits DEF Stub, MarkInv, BetweenMarks, Undisturbed
    <2>5. Undisturbed'
      BY <1>9, <2>4 DEF Stub, MarkInv, BetweenMarks, Undisturbed, handlerVars
    <2>6. LocalListed' /\ NothingMoves'
      BY <1>0, <1>9, <2>3 DEF Stub, LocalListed, DemotionSteps, MarkInv, NothingMoves
    <2>7. \A f \in Files : SameFlags(db[f], db'[f])
      BY <1>0, <1>9, SettersKeepFlags DEF Stub
    <2> QED
      BY <1>9, <2>5, <2>6, <2>7, FrameKeeps DEF Stub, handlerVars
  <1>10. CASE MarkCold
    <2>1. cur \in Files /\ db[cur] \in Entries
      BY <1>0, <1>10 DEF MarkCold, DemotionSteps
    <2>2. /\ mpc' \in {"restore", "dead"}
          /\ db' = [db EXCEPT ![cur] = SetIsLocal(db[cur], 0)]
          /\ UNCHANGED <<queue, hpc, todo, cur>>
      BY <1>10 DEF MarkCold, Set
    <2>3. SetIsLocal(db[cur], 0).isMetadata = 1
      BY <1>10, <2>1 DEF MarkCold, MarkInv, BetweenMarks, SetIsLocal, Entries
    <2>4. ColdIsMarked'
      BY <2>1, <2>2, <2>3 DEF MarkInv, ColdIsMarked, IInv, TypeOK
    <2>5. hpc = "dead" \/ hpc = "idle"
      BY <1>10 DEF MarkCold, Slept, HandlerIdle, Settled
    <2>6. ClearedWhenHot' /\ BetweenMarks'
      BY <2>2, <2>5 DEF ClearedWhenHot, BetweenMarks
    <2>7. NothingMoves'
      BY <2>2, ReadWaits DEF MarkInv, NothingMoves
    <2>8. LocalListed'
      BY <1>0, <1>10, <2>2 DEF MarkCold, LocalListed, DemotionSteps
    <2> QED BY <2>4, <2>6, <2>7, <2>8 DEF MarkInv
  <1>11. CASE RestoreTime
    <2>1. cur \in Files /\ db[cur] \in Entries /\ todo[cur] \in Entries
      BY <1>0, <1>11 DEF RestoreTime, DemotionSteps
    <2>2. SetLastTimeModified(db[cur], todo[cur].lastModified) \in Entries
      <3>1. todo[cur].lastModified \in Ages \cup {Nil}
        BY <2>1 DEF Entries
      <3> QED BY <2>1, <3>1, SettersType
    <2>3. LocalListed'
      BY <1>0, <1>a, <1>11, <2>1 DEF RestoreTime, Finish, LocalListed, DemotionSteps
    <2> QED BY <1>11, <2>1, <2>2, <2>3, SettersKeepFlags, SettingKeeps DEF RestoreTime
  <1> QED
    BY <1>1, <1>2, <1>3, <1>4, <1>5, <1>6, <1>7, <1>8, <1>9, <1>10, <1>11
       DEF Demotion

\* Every step of a promotion keeps the invariant.
LEMMA PromotionMarks ==
    ASSUME IInv, MarkInv, IInv', Promotion, UNCHANGED <<handlerVars, truth>>
    PROVE  MarkInv'
  <1>0. /\ mpc \in PromotionSteps \ {"promote"} =>
               cur \in Files /\ db[cur] \in Entries /\ todo[cur] \in Entries
        /\ mpc' \in PromotionSteps \cup {"scanDemotion", "dead"} => LocalListed'
    BY DEF IInv, AtWork, TypeOK, LocalListed, PromotionSteps, DemotionSteps
  <1>1. CASE ScanPromotion
    BY <1>0, <1>1, LookingKeeps DEF ScanPromotion, Scan, PromotionSteps
  <1>2. CASE EndPromotion
    BY <1>0, <1>2, LookingKeeps DEF EndPromotion
  <1>3. ASSUME NEW f \in Files, PickPromotion(f)
        PROVE  MarkInv'
    BY <1>0, <1>3, LookingKeeps DEF PickPromotion, PromotionSteps
  <1>4. CASE GetObject
    BY <1>0, <1>4, LookingKeeps DEF GetObject, PromotionSteps
  <1>5. CASE GetObjectFails \/ DeleteObjectFails
    BY <1>0, <1>5, LookingKeeps
       DEF GetObjectFails, DeleteObjectFails, PromotionSteps
  <1>6. CASE WriteFile
    <2>1. cur \in Files
      BY <1>0, <1>6 DEF WriteFile, PromotionSteps
    <2>2. /\ RewriteEvents(cur, mgot) \in Seq(Events)
          /\ Lacks(RewriteEvents(cur, mgot), {"movedFrom", "movedTo"})
      BY <2>1, EventsType, OwnEvents DEF Lacks
    <2> QED BY <1>0, <1>6, <2>2, MovingKeeps DEF WriteFile, PromotionSteps
  <1>7. CASE DeleteObject
    <2>1. <<>> \in Seq(Events) /\ Lacks(<<>>, {"movedFrom", "movedTo"})
      BY DEF Lacks
    <2> QED BY <1>0, <1>7, <2>1, MovingKeeps DEF DeleteObject, PromotionSteps
  <1>8. CASE Unlink
    <2>1. cur \in Files /\ db[cur] \in Entries
      BY <1>0, <1>8 DEF Unlink, PromotionSteps
    <2>2. SetRemoteURI(db[cur], None) \in Entries
      BY <2>1, SettersType
    <2>3. mpc' \in {"hot", "dead"}
      BY <1>8 DEF Unlink, Set
    <2> QED
      BY <1>0, <1>8, <2>1, <2>2, <2>3, SettersKeepFlags, SettingKeeps
         DEF Unlink, PromotionSteps
  <1>9. CASE MarkHot
    <2>1. cur \in Files /\ db[cur] \in Entries
      BY <1>0, <1>9 DEF MarkHot, PromotionSteps
    <2>2. /\ mpc' \in {"unmeta", "dead"}
          /\ db' = [db EXCEPT ![cur] = SetIsLocal(db[cur], 1)]
          /\ UNCHANGED <<queue, hpc, todo, cur>>
      BY <1>9 DEF MarkHot, Set
    <2>3. SetIsLocal(db[cur], 1).isLocal = 1
      BY <2>1 DEF SetIsLocal, Entries
    <2>4. db'[cur].isLocal = 1 /\ \A f \in Files : f # cur => db'[f] = db[f]
      BY <2>1, <2>2, <2>3 DEF IInv, TypeOK
    <2>5. hpc = "unmeta" => hfile \in Files
      BY DEF IInv, AtWork
    <2>6. ClearedWhenHot' /\ BetweenMarks' /\ ColdIsMarked'
      BY <2>2, <2>4, <2>5
         DEF MarkInv, ClearedWhenHot, BetweenMarks, ColdIsMarked, handlerVars
    <2>7. NothingMoves' /\ LocalListed'
      BY <1>0, <2>2, ReadWaits DEF MarkInv, NothingMoves, PromotionSteps
    <2> QED BY <2>6, <2>7 DEF MarkInv
  <1>10. CASE ClearMeta
    <2>1. cur \in Files /\ db[cur] \in Entries /\ db[cur].isLocal # 0
      BY <1>0, <1>10 DEF ClearMeta, PromotionSteps, MarkInv, ClearedWhenHot
    <2>2. /\ mpc' \in {"promote", "dead"}
          /\ db' = [db EXCEPT ![cur] = SetIsMetadata(db[cur], 0)]
          /\ UNCHANGED <<queue, hpc>>
      BY <1>10 DEF ClearMeta, Set
    <2>3. SetIsMetadata(db[cur], 0).isLocal = db[cur].isLocal
      BY <2>1 DEF SetIsMetadata, Entries
    <2>4. db'[cur].isLocal # 0 /\ \A f \in Files : f # cur => db'[f] = db[f]
      BY <2>1, <2>2, <2>3 DEF IInv, TypeOK
    <2>5. hpc = "unmeta" => hfile \in Files
      BY DEF IInv, AtWork
    <2>6. ClearedWhenHot' /\ BetweenMarks' /\ ColdIsMarked'
      BY <2>2, <2>4, <2>5
         DEF MarkInv, ClearedWhenHot, BetweenMarks, ColdIsMarked, handlerVars
    <2>7. NothingMoves' /\ LocalListed'
      BY <1>0, <2>2, ReadWaits DEF MarkInv, NothingMoves, PromotionSteps
    <2> QED BY <2>6, <2>7 DEF MarkInv
  <1> QED
    BY <1>1, <1>2, <1>3, <1>4, <1>5, <1>6, <1>7, <1>8, <1>9, <1>10 DEF Promotion

\* So does the whole of manageFiles.
LEMMA MigratorMarks ==
    ASSUME Settled, IInv, MarkInv, IInv', MigratorNext,
           UNCHANGED <<handlerVars, truth>>
    PROVE  MarkInv'
  <1>1. CASE ScanGhost
    <2>1. LocalListed'
      BY <1>1 DEF ScanGhost, LocalListed, DemotionSteps
    <2> QED BY <1>1, <2>1, LookingKeeps DEF ScanGhost
  <1> QED BY <1>1, DemotionMarks, PromotionMarks DEF MigratorNext

-----------------------------------------------------------------------------
(***************************************************************************)
(* The event handler keeps the invariant.                                  *)
(***************************************************************************)

\* The handler's next call leaves the file being demoted alone.
LeavesAlone == mpc \in {"stub", "markCold"} =>
                   /\ hpc' # "erase"
                   /\ hfile' = cur => hpc' \notin {"insert", "openMeta"} \cup RecallSteps

\* The queue goes on as it was, is read from, or is lost.
ReadsOn == queue' \in {queue, <<>>} \/ (queue # <<>> /\ queue' = Tail(queue))

\* Reading on, no event that was not waiting waits.
LEMMA ReadingBringsNone ==
    ASSUME IInv, MarkInv, ReadsOn
    PROVE  /\ ~Waits({"movedFrom", "movedTo"})'
           /\ mpc \in {"stub", "markCold"} /\ hpc # "dead" => ~Waits({"delete"})'
  <1>1. ~Waits({"movedFrom", "movedTo"})'
    BY ReadWaits DEF ReadsOn, MarkInv, NothingMoves
  <1>2. ~Waits({"delete"}) => ~Waits({"delete"})'
    BY ReadWaits DEF ReadsOn
  <1> QED BY <1>1, <1>2 DEF MarkInv, BetweenMarks, Undisturbed

\* Calls of the handler that change no flag.
LEMMA CallingKeeps ==
    ASSUME IInv, MarkInv, IInv', UNCHANGED <<migratorVars, truth>>, hpc # "dead",
           \A f \in Files : SameFlags(db[f], db'[f]),
           ~Waits({"movedFrom", "movedTo"})',
           mpc \in {"stub", "markCold"} => ~Waits({"delete"})',
           hpc' \notin {"rename", "setName", "unmeta"}, LeavesAlone
    PROVE  MarkInv'
  <1>1. NothingMoves' /\ LocalListed'
    BY DEF MarkInv, NothingMoves, LocalListed, migratorVars
  <1>2. mpc' \in {"stub", "markCold"} => mpc \in {"stub", "markCold"} /\ Undisturbed'
    BY DEF migratorVars, LeavesAlone, Undisturbed
  <1> QED BY <1>1, <1>2, FrameKeeps DEF migratorVars

\* The first call of each event.
LEMMA EventMarks ==
    ASSUME IInv, MarkInv, IInv', UNCHANGED <<migratorVars, truth>>,
           Create \/ Open \/ Delete \/ Modify \/ Close \/ MovedFrom \/ MovedTo
    PROVE  MarkInv'
  <1>0. /\ \A f \in Files : db[f] \in Entries /\ SameFlags(db[f], db[f])
        /\ queue # <<>> => Head(queue).file \in Files
    <2>1. queue # <<>> => Head(queue) \in Events
      BY DEF IInv, TypeOK
    <2> QED BY <2>1, SettersKeepFlags DEF IInv, TypeOK, Events
  <1>1. hpc = "idle" /\ queue # <<>>
    BY DEF Create, Open, Delete, Modify, Close, MovedFrom, MovedTo, At
  <1>2. ReadsOn
    BY <1>1 DEF Create, Open, Delete, Modify, Close, MovedFrom, MovedTo, Take, ReadsOn
  <1>3. /\ ~Waits({"movedFrom", "movedTo"})'
        /\ mpc \in {"stub", "markCold"} => ~Waits({"delete"})'
    BY <1>1, <1>2, ReadingBringsNone
  <1>4. mpc \in {"stub", "markCold"} => cur \in Files /\ db[cur].form = "made"
    BY DEF IInv, AtWork, DemotionSteps, MarkInv, BetweenMarks
  <1>5. CASE Create
    <2>1. hpc' = "insert" => hfile' = Head(queue).file /\ db[hfile'].form # "made"
      BY <1>0, <1>1, <1>5 DEF Create, Take, Entries
    <2>2. hpc' \in {"dead", "insert", "idle"}
      <3>1. db[Head(queue).file].form \in {"none", "made", "ghost"}
        BY <1>0, <1>1 DEF Entries
      <3> QED BY <1>5, <3>1 DEF Create, Take
    <2>3. LeavesAlone
      BY <1>4, <2>1, <2>2 DEF LeavesAlone, RecallSteps
    <2> QED BY <1>0, <1>1, <1>3, <1>5, <2>2, <2>3, CallingKeeps DEF Create
  <1>6. CASE Open
    <2>1. hpc' \in {"openLocal", "dead"}
      BY <1>6 DEF Open, Take
    <2>2. LeavesAlone
      BY <2>1 DEF LeavesAlone, RecallSteps
    <2> QED BY <1>0, <1>1, <1>3, <1>6, <2>1, <2>2, CallingKeeps DEF Open
  <1>7. CASE Delete
    <2>1. hpc' \in {"erase", "dead"}
      BY <1>7 DEF Delete, Take
    <2>2. Waits({"delete"})
      BY <1>1, <1>7, HeadWaits DEF Delete, At
    <2>3. mpc \notin {"stub", "markCold"}
      BY <1>1, <2>2 DEF MarkInv, BetweenMarks, Undisturbed
    <2>4. LeavesAlone
      BY <2>3 DEF LeavesAlone
    <2> QED BY <1>0, <1>1, <1>3, <1>7, <2>1, <2>4, CallingKeeps DEF Delete
  <1>8. CASE Modify
    <2>1. db[Head(queue).file].isMetadata \in {0, 1, Nil}
      BY <1>0, <1>1 DEF Entries, Flag
    <2>2. hpc' \in {"dead", "resize", "idle"}
      BY <1>8, <2>1 DEF Modify, Take
    <2>3. LeavesAlone
      BY <2>2 DEF LeavesAlone, RecallSteps
    <2> QED BY <1>0, <1>1, <1>3, <1>8, <2>2, <2>3, CallingKeeps DEF Modify
  <1>9. CASE Close
    <2>1. hpc' = "idle"
      BY <1>9 DEF Close, Take
    <2>2. LeavesAlone
      BY <2>1 DEF LeavesAlone, RecallSteps
    <2>3. \A f \in Files : SameFlags(db[f], db'[f])
      BY <1>0, <1>9, SettersKeepFlags DEF Close, IInv, TypeOK
    <2> QED BY <1>1, <1>3, <1>9, <2>1, <2>2, <2>3, CallingKeeps DEF Close
  <1>10. CASE MovedFrom \/ MovedTo
    <2>1. Waits({"movedFrom", "movedTo"})
      BY <1>1, <1>10, HeadWaits DEF MovedFrom, MovedTo, At
    <2> QED BY <2>1 DEF MarkInv, NothingMoves
  <1> QED BY <1>5, <1>6, <1>7, <1>8, <1>9, <1>10

\* The calls that follow the first one and change no flag.
LEMMA FlaglessCallMarks ==
    ASSUME IInv, MarkInv, IInv', UNCHANGED <<migratorVars, truth>>,
           \/ OpenLocal \/ OpenMeta
           \/ RecallGet \/ RecallGetFails \/ RecallWrite
           \/ RecallDelete \/ RecallDeleteFails \/ RecallUnlink
           \/ OpenMark \/ OpenHits \/ Resize
    PROVE  MarkInv'
  <1>0. hpc \notin {"idle", "dead"} /\ hfile \in Files /\ db[hfile] \in Entries
    BY HandlerPart, InHandType
       DEF OpenLocal, OpenMeta, RecallGet, RecallGetFails, RecallWrite,
           RecallDelete, RecallDeleteFails, RecallUnlink, OpenMark, OpenHits, Resize
  <1>a. /\ mpc \in {"stub", "markCold"} => cur \in Files
        /\ mpc \in {"stub", "markCold"} /\ hpc \in {"openMeta"} \cup RecallSteps
               => hfile # cur
        /\ mpc \in {"stub", "markCold"} => db[cur].isLocal # 0
    BY DEF IInv, AtWork, DemotionSteps, MarkInv, BetweenMarks, Undisturbed,
           ClearedWhenHot
  <1>b. \A f \in Files : SameFlags(db[f], db[f])
    BY SettersKeepFlags DEF IInv, TypeOK
  <1>c. \A next : Step(next) => ReadsOn /\ hpc' = next /\ hfile' \in {hfile, None}
    BY DEF Step, ReadsOn
  <1>d. \A e, next : HandlerSets(e, next) =>
            /\ hpc' \in {next, "dead"} /\ ReadsOn /\ hfile' \in {hfile, None}
            /\ SameFlags(db[hfile], e) => \A f \in Files : SameFlags(db[f], db'[f])
    BY <1>b, <1>c DEF HandlerSets, IInv, TypeOK
  <1>e. ReadsOn => /\ ~Waits({"movedFrom", "movedTo"})'
                   /\ mpc \in {"stub", "markCold"} => ~Waits({"delete"})'
    BY <1>0, ReadingBringsNone
  <1>1. CASE OpenLocal
    <2>1. db[hfile].isLocal \in {0, 1, Nil}
      BY <1>0 DEF Entries, Flag
    <2>2. hpc' \in {"dead", "openMark", "openMeta"} /\ ReadsOn
      BY <1>1, <1>c, <2>1 DEF OpenLocal
    <2>3. hpc' = "openMeta" => db[hfile].isLocal = 0 /\ hfile' = hfile
      BY <1>1, <2>1, NamesAssumption DEF OpenLocal, Step, Flag
    <2>4. LeavesAlone
      BY <1>a, <2>2, <2>3 DEF LeavesAlone, RecallSteps
    <2> QED BY <1>0, <1>1, <1>b, <1>e, <2>2, <2>4, CallingKeeps DEF OpenLocal
  <1>2. CASE OpenMeta
    <2>1. db[hfile].isMetadata \in {0, 1, Nil}
      BY <1>0 DEF Entries, Flag
    <2>2. hpc' \in {"dead", "openMark", "get"} /\ ReadsOn /\ hfile' \in {hfile, None}
      BY <1>2, <1>c, <2>1 DEF OpenMeta
    <2>3. LeavesAlone
      BY <1>2, <1>a, <2>2, NamesAssumption DEF LeavesAlone, OpenMeta, RecallSteps
    <2> QED BY <1>0, <1>2, <1>b, <1>e, <2>2, <2>3, CallingKeeps DEF OpenMeta
  <1>3. CASE RecallGet \/ RecallGetFails \/ RecallDelete \/ RecallDeleteFails
    <2>1. /\ hpc \in RecallSteps /\ hpc' \in {"write", "unlink"} /\ ReadsOn
          /\ hfile' \in {hfile, None} /\ db' = db
      BY <1>3, <1>c
         DEF RecallGet, RecallGetFails, RecallDelete, RecallDeleteFails, RecallSteps
    <2>2. LeavesAlone
      BY <1>a, <2>1, NamesAssumption DEF LeavesAlone
    <2> QED BY <1>0, <1>b, <1>e, <2>1, <2>2, CallingKeeps
  <1>4. CASE RecallWrite
    <2>1. /\ RewriteEvents(hfile, hgot) \in Seq(Events)
          /\ Lacks(RewriteEvents(hfile, hgot), {"movedFrom", "movedTo"})
          /\ Lacks(RewriteEvents(hfile, hgot), {"delete"})
      BY <1>0, EventsType, OwnEvents DEF Lacks
    <2>2. ~Waits({"movedFrom", "movedTo"})'
      BY <1>4, <2>1, NotifyWaits DEF RecallWrite, MarkInv, NothingMoves
    <2>3. mpc \in {"stub", "markCold"} => ~Waits({"delete"})'
      BY <1>0, <1>4, <2>1, NotifyWaits
         DEF RecallWrite, MarkInv, BetweenMarks, Undisturbed
    <2>4. LeavesAlone
      BY <1>4, <1>a DEF LeavesAlone, RecallWrite, RecallSteps
    <2> QED BY <1>0, <1>4, <1>b, <2>2, <2>3, <2>4, CallingKeeps DEF RecallWrite
  <1>5. CASE RecallUnlink
    <2>1. \/ Step("dead") /\ db' = db
          \/ HandlerSets(SetRemoteURI(db[hfile], None), "hot")
      BY <1>5 DEF RecallUnlink
    <2>2. SameFlags(db[hfile], SetRemoteURI(db[hfile], None))
      BY <1>0, SettersKeepFlags
    <2>3. /\ hpc' \in {"hot", "dead"} /\ ReadsOn /\ hfile' \in {hfile, None}
          /\ \A f \in Files : SameFlags(db[f], db'[f])
      BY <1>b, <1>c, <1>d, <2>1, <2>2
    <2>4. LeavesAlone
      BY <1>5, <1>a, <2>3, NamesAssumption DEF LeavesAlone, RecallUnlink, RecallSteps
    <2> QED BY <1>0, <1>e, <2>3, <2>4, CallingKeeps
  <1>6. CASE OpenMark
    <2>1. \A f \in Files : SameFlags(db[f], db'[f])
      BY <1>0, <1>6, <1>b, SettersKeepFlags DEF OpenMark, IInv, TypeOK
    <2>2. hpc' = "openHits" /\ ReadsOn
      BY <1>6, <1>c DEF OpenMark
    <2>3. LeavesAlone
      BY <2>2 DEF LeavesAlone, RecallSteps
    <2> QED BY <1>0, <1>e, <2>1, <2>2, <2>3, CallingKeeps
  <1>7. CASE OpenHits \/ Resize
    <2>1. /\ SameFlags(db[hfile], IncrementTimesAccessed(db[hfile]))
          /\ SameFlags(db[hfile], SetFileSize(db[hfile]))
      BY <1>0, SettersKeepFlags
    <2>2. /\ hpc' \in {"idle", "dead"} /\ ReadsOn
          /\ \A f \in Files : SameFlags(db[f], db'[f])
      BY <1>7, <1>d, <2>1 DEF OpenHits, Resize
    <2>3. LeavesAlone
      BY <2>2 DEF LeavesAlone, RecallSteps
    <2> QED BY <1>0, <1>e, <2>2, <2>3, CallingKeeps
  <1> QED BY <1>1, <1>2, <1>3, <1>4, <1>5, <1>6, <1>7

\* A call that leaves the file of the event hot, or cold no more than before,
\* keeps the invariant when that file is not between its marks.
LEMMA FlagCallKeeps ==
    ASSUME IInv, MarkInv, UNCHANGED <<migratorVars, truth>>,
           hfile \in Files, ReadsOn, hpc # "dead",
           mpc \in {"stub", "markCold"} => hfile # cur,
           db'[hfile].isLocal # 0,
           \A f \in Files : f # hfile => db'[f] = db[f],
           hfile' \in {hfile, None},
           hpc' \in {"idle", "dead", "openMark"} \/ (hpc' = "unmeta" /\ hfile' = hfile)
    PROVE  MarkInv'
  <1>1. /\ ~Waits({"movedFrom", "movedTo"})'
        /\ mpc \in {"stub", "markCold"} => ~Waits({"delete"})'
    BY ReadingBringsNone
  <1>2. NothingMoves' /\ LocalListed'
    BY <1>1 DEF MarkInv, NothingMoves, LocalListed, migratorVars
  <1>3. mpc \in {"markMeta", "stub", "markCold", "unmeta"} => cur \in Files
    BY DEF IInv, AtWork, DemotionSteps, PromotionSteps
  <1>4. ColdIsMarked'
    BY DEF MarkInv, ColdIsMarked
  <1>5. ClearedWhenHot'
    BY <1>3 DEF MarkInv, ClearedWhenHot, migratorVars
  <1>6. mpc \in {"stub", "markCold"} => Undisturbed'
    BY <1>1, <1>3, NamesAssumption DEF Undisturbed, migratorVars, RecallSteps
  <1>7. BetweenMarks'
    BY <1>3, <1>6 DEF MarkInv, BetweenMarks, migratorVars
  <1> QED BY <1>2, <1>4, <1>5, <1>7 DEF MarkInv

\* The calls that make, erase or change the flags of a hash.
LEMMA FlagCallMarks ==
    ASSUME IInv, MarkInv, UNCHANGED <<migratorVars, truth>>,
           Insert \/ Erase \/ RecallHot \/ RecallUnmeta \/ Rename \/ SetName
    PROVE  MarkInv'
  <1>0. hpc \notin {"idle", "dead"} /\ hfile \in Files /\ db[hfile] \in Entries
    BY HandlerPart, InHandType DEF Insert, Erase, RecallHot, RecallUnmeta, Rename, SetName
  <1>1. hpc \in {"insert", "erase", "hot", "unmeta"}
    BY DEF Insert, Erase, RecallHot, RecallUnmeta, Rename, SetName, MarkInv, NothingMoves
  <1>2. mpc \in {"stub", "markCold"} => hfile # cur
    BY <1>0, <1>1 DEF MarkInv, BetweenMarks, Undisturbed, RecallSteps
  <1>3. CASE Insert
    <2>1. PICK open \in Flag, age \in Ages :
              db' = [db EXCEPT ![hfile] = HMSET(@, NewFileData(hfile, open, age))]
      BY <1>3 DEF Insert
    <2>2. HMSET(db[hfile], NewFileData(hfile, open, age)).isLocal = 1
      BY DEF HMSET, NewFileData
    <2>3. db'[hfile].isLocal = 1 /\ \A f \in Files : f # hfile => db'[f] = db[f]
      BY <1>0, <2>1, <2>2 DEF IInv, TypeOK
    <2> QED
      BY <1>0, <1>2, <1>3, <2>3, FlagCallKeeps DEF Insert, Step, ReadsOn
  <1>4. CASE Erase
    <2>1. db'[hfile].isLocal # 0 /\ \A f \in Files : f # hfile => db'[f] = db[f]
      BY <1>0, <1>4, NamesAssumption DEF Erase, NoEntry, Flag, IInv, TypeOK
    <2> QED
      BY <1>0, <1>2, <1>4, <2>1, FlagCallKeeps DEF Erase, Step, ReadsOn
  <1>5. CASE RecallHot
    <2>1. SetIsLocal(db[hfile], 1).isLocal = 1
      BY <1>0 DEF SetIsLocal, Entries
    <2>2. db'[hfile].isLocal = 1 /\ \A f \in Files : f # hfile => db'[f] = db[f]
      BY <1>0, <1>5, <2>1 DEF RecallHot, HandlerSets, IInv, TypeOK
    <2> QED
      BY <1>0, <1>2, <1>5, <2>2, FlagCallKeeps
         DEF RecallHot, HandlerSets, Step, ReadsOn
  <1>6. CASE RecallUnmeta
    <2>1. SetIsMetadata(db[hfile], 0).isLocal = db[hfile].isLocal
      BY <1>0 DEF SetIsMetadata, Entries
    <2>2. db[hfile].isLocal # 0
      BY <1>6 DEF RecallUnmeta, MarkInv, ClearedWhenHot
    <2>3. db'[hfile].isLocal # 0 /\ \A f \in Files : f # hfile => db'[f] = db[f]
      BY <1>0, <1>6, <2>1, <2>2 DEF RecallUnmeta, HandlerSets, IInv, TypeOK
    <2> QED
      BY <1>0, <1>2, <1>6, <2>3, FlagCallKeeps
         DEF RecallUnmeta, HandlerSets, Step, ReadsOn
  <1>7. CASE Rename \/ SetName
    BY <1>1, <1>7 DEF Rename, SetName
  <1> QED BY <1>3, <1>4, <1>5, <1>6, <1>7

\* So does the whole of initializeINotify.
LEMMA HandlerMarks ==
    ASSUME IInv, MarkInv, IInv', HandlerNext, UNCHANGED <<migratorVars, truth>>
    PROVE  MarkInv'
  BY EventMarks, FlaglessCallMarks, FlagCallMarks DEF HandlerNext, OpenFile

-----------------------------------------------------------------------------
(***************************************************************************)
(* Users, the clock and the operator keep the invariant.                   *)
(***************************************************************************)

\* Users who neither create, remove nor rename files queue no event that
\* deletes or moves one.
LEMMA UsersMark ==
    ASSUME Settled, IInv, MarkInv, IInv', Users
    PROVE  MarkInv'
  <1> SUFFICES ASSUME NEW f \in Files,
                      \/ UserOpen(f) \/ UserClose(f) \/ UserRead(f)
                      \/ \E v \in Versions : UserWrite(f, v) \/ UserCreate(f, v)
                      \/ UserDelete(f)
                      \/ \E g \in Files : UserRename(f, g)
               PROVE  MarkInv'
    BY DEF Users
  <1>1. UserOpen(f) \/ UserClose(f) \/ UserRead(f) \/ \E v \in Versions : UserWrite(f, v)
    BY DEF UserCreate, UserDelete, UserRename, UserTurn, Settled
  <1>2. UNCHANGED <<db, hpc, migratorVars, handlerVars>>
    BY <1>1 DEF UserOpen, UserClose, UserRead, UserWrite, servers
  <1>3. ~Waits({"movedFrom", "movedTo"})' /\ (~Waits({"delete"}) => ~Waits({"delete"})')
    <2>1. \A type \in {"open", "close", "modify"} :
              /\ <<Ev(type, f)>> \in Seq(Events)
              /\ Lacks(<<Ev(type, f)>>, {"movedFrom", "movedTo"})
              /\ Lacks(<<Ev(type, f)>>, {"delete"})
      <3> SUFFICES ASSUME NEW type \in {"open", "close", "modify"}
                   PROVE  /\ <<Ev(type, f)>> \in Seq(Events)
                          /\ Lacks(<<Ev(type, f)>>, {"movedFrom", "movedTo"})
                          /\ Lacks(<<Ev(type, f)>>, {"delete"})
        OBVIOUS
      <3>1. type \in EventTypes
        BY DEF EventTypes
      <3>2. Ev(type, f) \in Events
        BY <3>1, EventsType
      <3>3. Lacks(<<Ev(type, f)>>, {"movedFrom", "movedTo", "delete"})
        BY DEF Lacks, Ev
      <3> QED BY <3>2, <3>3 DEF Lacks
    <2>2. /\ ReadEvents(f) \in Seq(Events)
          /\ Lacks(ReadEvents(f), {"movedFrom", "movedTo"})
          /\ Lacks(ReadEvents(f), {"delete"})
      BY EventsType, OwnEvents DEF Lacks
    <2>3. PICK events \in Seq(Events) : /\ Notify(events)
                                        /\ Lacks(events, {"movedFrom", "movedTo"})
                                        /\ Lacks(events, {"delete"})
      BY <1>1, <2>1, <2>2 DEF UserOpen, UserClose, UserRead, UserWrite
    <2>4. ~Waits({"movedFrom", "movedTo"})
      BY DEF MarkInv, NothingMoves
    <2>5. ~Waits({"movedFrom", "movedTo"})'
      BY <2>3, <2>4, NotifyWaits
    <2>6. ~Waits({"delete"}) => ~Waits({"delete"})'
      BY <2>3, NotifyWaits
    <2> QED BY <2>5, <2>6
  <1>4. \A g \in Files : SameFlags(db[g], db'[g])
    BY <1>2, SettersKeepFlags DEF IInv, TypeOK
  <1>5. NothingMoves' /\ LocalListed'
    BY <1>2, <1>3 DEF MarkInv, NothingMoves, LocalListed, migratorVars
  <1>6. mpc \in {"stub", "markCold"} => Undisturbed'
    BY <1>2, <1>3
       DEF MarkInv, BetweenMarks, Undisturbed, migratorVars, handlerVars
  <1> QED
    BY <1>2, <1>4, <1>5, <1>6, FrameKeeps DEF migratorVars, handlerVars

\* The passing of time changes no flag.
LEMMA TimeMarks ==
    ASSUME IInv, MarkInv, IInv', TimePasses
    PROVE  MarkInv'
  <1>1. \A f \in Files : SameFlags(db[f], db'[f])
    BY SettersKeepFlags DEF TimePasses, IInv, TypeOK
  <1>2. \A f \in Files : SameFlags(todo[f], todo'[f])
    BY SettersKeepFlags DEF TimePasses, IInv, TypeOK
  <1>3. NothingMoves' /\ LocalListed'
    BY <1>2 DEF TimePasses, MarkInv, NothingMoves, LocalListed, SameFlags, Waits
  <1>4. mpc \in {"stub", "markCold"} => Undisturbed'
    BY DEF TimePasses, MarkInv, BetweenMarks, Undisturbed, Waits, handlerVars
  <1> QED BY <1>1, <1>3, <1>4, FrameKeeps DEF TimePasses, handlerVars

\* A killed process is about to do nothing.
LEMMA OperatorMarks ==
    ASSUME IInv, MarkInv, IInv', Operator
    PROVE  MarkInv'
  <1>1. \A f \in Files : SameFlags(db[f], db'[f])
    BY SettersKeepFlags
       DEF Operator, KillSupervisor, StartSupervisor, KillHandler, worldVars,
           IInv, TypeOK
  <1>2. ReadsOn
    BY DEF Operator, KillSupervisor, StartSupervisor, KillHandler, worldVars, ReadsOn
  <1>3. ~Waits({"movedFrom", "movedTo"})'
    BY <1>2, ReadingBringsNone
  <1>4. CASE KillSupervisor \/ StartSupervisor
    <2>1. mpc' \in {"dead", "scanDemotion"} /\ hpc' = hpc /\ hfile' = hfile
      BY <1>4 DEF KillSupervisor, StartSupervisor, worldVars, handlerVars
    <2>2. NothingMoves' /\ LocalListed'
      BY <1>3, <2>1 DEF MarkInv, NothingMoves, LocalListed, DemotionSteps
    <2> QED BY <1>1, <2>1, <2>2, FrameKeeps
  <1>5. CASE KillHandler
    <2>1. hpc' = "dead" /\ UNCHANGED <<mpc, cur, todo>> /\ hfile' = None
      BY <1>5 DEF KillHandler, migratorVars
    <2>2. NothingMoves' /\ LocalListed'
      BY <1>3, <2>1 DEF MarkInv, NothingMoves, LocalListed
    <2>3. Undisturbed'
      BY <2>1 DEF Undisturbed, RecallSteps
    <2> QED BY <1>1, <2>1, <2>2, <2>3, FrameKeeps
  <1> QED BY <1>4, <1>5 DEF Operator

-----------------------------------------------------------------------------
\* Initially every file that has a hash is hot, and nothing is under way.
LEMMA InitMarks == Init => MarkInv
  <1> SUFFICES ASSUME Init PROVE MarkInv
    OBVIOUS
  <1>1. queue = <<>> /\ hpc = "idle" /\ mpc = "scanDemotion"
    BY DEF Init, InitMigrator, InitHandler
  <1>2. NothingMoves /\ LocalListed /\ BetweenMarks /\ ClearedWhenHot
    BY <1>1 DEF NothingMoves, LocalListed, BetweenMarks, ClearedWhenHot, Waits,
                DemotionSteps
  <1>3. ASSUME NEW f \in Files
        PROVE  db[f].isLocal # 0
    <2>1. PICK open \in [Files -> Flag], age \in [Files -> Ages] :
              db = [g \in Files |-> IF truth[g] = None THEN NoEntry
                                   ELSE NewFileData(g, open[g], age[g])]
      BY DEF Init
    <2>2. db[f] = NoEntry \/ db[f] = NewFileData(f, open[f], age[f])
      BY <2>1
    <2>3. NoEntry.isLocal = Nil /\ NewFileData(f, open[f], age[f]).isLocal = 1
      BY DEF NoEntry, NewFileData
    <2> QED BY <2>2, <2>3, NamesAssumption DEF Flag
  <1> QED BY <1>2, <1>3 DEF MarkInv, ColdIsMarked

\* The invariant is inductive.
LEMMA NextMarks ==
    ASSUME Settled
    PROVE  IInv /\ MarkInv /\ [Next]_vars => MarkInv'
  <1> SUFFICES ASSUME IInv, MarkInv, [Next]_vars PROVE MarkInv'
    OBVIOUS
  <1>1. IInv'
    BY NextIInv
  <1>2. CASE UNCHANGED vars
    <2>1. \A f \in Files : SameFlags(db[f], db'[f])
      BY <1>2, SettersKeepFlags DEF vars, worldVars, IInv, TypeOK
    <2>2. NothingMoves' /\ LocalListed' /\ (BetweenMarks => BetweenMarks')
      BY <1>2 DEF vars, worldVars, migratorVars, handlerVars, MarkInv, NothingMoves,
                  LocalListed, BetweenMarks, Undisturbed, Waits
    <2>3. mpc \in {"stub", "markCold"} => Undisturbed'
      BY <1>2 DEF vars, worldVars, migratorVars, handlerVars, MarkInv,
                  BetweenMarks, Undisturbed, Waits
    <2> QED
      BY <1>1, <1>2, <2>1, <2>2, <2>3, FrameKeeps
         DEF vars, worldVars, migratorVars, handlerVars
  <1> QED
    BY <1>1, <1>2, MigratorMarks, HandlerMarks, UsersMark, TimeMarks, OperatorMarks
       DEF Next

\* With sleeps long enough for the handler to catch up, and users who neither
\* create, remove nor rename files, a cold file is always marked as metadata,
\* whatever S3 fails to do and whichever process is killed or started again:
\* the test of isMetadata inside that of isLocal (FileEventHandler's IN_OPEN)
\* never passes over a file whose content is in the bucket.
THEOREM ColdAlwaysMarked ==
    ASSUME Settled
    PROVE  Spec => []ColdIsMarked
  <1>1. Init => IInv /\ MarkInv
    BY InitIInv, InitMarks
  <1>2. IInv /\ MarkInv /\ [Next]_vars => (IInv /\ MarkInv)'
    BY NextIInv, NextMarks
  <1>3. IInv /\ MarkInv => ColdIsMarked
    BY DEF MarkInv
  <1> QED BY <1>1, <1>2, <1>3, PTL DEF Spec

-----------------------------------------------------------------------------
(***************************************************************************)
(* Deletions.  The rest of this module proves that no object is deleted    *)
(* that holds the only copy of what a user wrote, for any files, users     *)
(* who wait for nothing, S3 faults, kills and restarts, when the sleeps of *)
(* the migrator are long enough and nothing is renamed.                    *)
(***************************************************************************)

\* The assumptions on the world.
Unmoved == Prompt /\ "rename" \notin UserOps

-----------------------------------------------------------------------------
(***************************************************************************)
(* The inductive invariant.                                                *)
(***************************************************************************)

\* A hash of f names f and no object but that of f.
Own(e, f) == e.fileName \in {f, Nil} /\ e.remoteURI \in {f, None, Nil}

\* Every hash, in the catalogue and in the list, is of its own file, and so is
\* the object that the handler has in hand.
Opening == {"openLocal", "openMeta"} \cup RecallSteps

NamesAreOwn == /\ \A f \in Files : Own(db[f], f) /\ Own(todo[f], f)
               /\ hpc \in Opening => hremote \in {hfile, None, Nil}

\* What is listed was read from a whole hash, and what is worked on is listed.
AtWorkSteps == (DemotionSteps \ {"demote"}) \cup (PromotionSteps \ {"promote"})

ListedIsMade == /\ \A f \in Files : todo[f] = NoEntry \/ todo[f].form = "made"
                /\ mpc \in AtWorkSteps => todo[cur].form = "made"

OwnInv == NothingMoves /\ NamesAreOwn /\ ListedIsMade

\* f is listed for demotion, and has not been marked cold yet.
Demoting(f) == /\ mpc \in DemotionSteps
               /\ todo[f].form = "made"
               /\ ~(mpc = "restore" /\ cur = f)

\* The handler has not got as far as fetching f back.
Fetching == {"openMeta"} \cup RecallSteps

NotRecalled(f) == hfile = f => hpc \notin Fetching

\* A file that is being demoted is not cold, so the handler does not fetch it.
DemotedIsLocal ==
    \A f \in Files : Demoting(f) =>
        db[f].isLocal # 0 /\ todo[f].isLocal # 0 /\ NotRecalled(f)

\* The object of f may go: it is gone, the file holds what it holds, or what it
\* holds is not what the user wrote last.
Back(f) == \/ bucket[f] = None
           \/ disk[f] = bucket[f]
           \/ truth[f] = None
           \/ opened[f] # "orphan" /\ disk[f] = truth[f]

\* A process that is about to write has the body of the object, unless it has
\* gone; one that is about to delete the object may.
HandlerBringsBack ==
    /\ hpc = "write" => hremote = hfile /\ bucket[hfile] \in {None, hgot}
    /\ hpc = "delete" => hremote = hfile /\ Back(hfile)

MigratorBringsBack ==
    /\ mpc = "write" => todo[cur].remoteURI = cur /\ bucket[cur] \in {None, mgot}
    /\ mpc = "delete" => todo[cur].remoteURI = cur /\ Back(cur)

BackInv == HandlerBringsBack /\ MigratorBringsBack

DeleteInv == OwnInv /\ DemotedIsLocal /\ BackInv

-----------------------------------------------------------------------------
(***************************************************************************)
(* Hashes.                                                                 *)
(***************************************************************************)

\* What every setter makes of a hash of f is a hash of f, as local as before
\* except for setIsLocal, if it is given no other name.
LEMMA SettersKeepOwn ==
    ASSUME NEW f \in Files, NEW e \in Entries, Own(e, f)
    PROVE  /\ \A uri \in {f, None, Nil} : Own(SetRemoteURI(e, uri), f)
           /\ \A flag : /\ Own(SetIsLocal(e, flag), f)
                        /\ Own(SetIsMetadata(e, flag), f)
                        /\ Own(SetIsOpen(e, flag), f)
           /\ \A age : Own(SetLastTimeModified(e, age), f)
           /\ Own(SetFileSize(e), f) /\ Own(IncrementTimesAccessed(e), f)
           /\ Own(Aged(e), f)
           /\ \A d : Own(HMSET(d, e), f)
  <1>1. \A uri \in {f, None, Nil} : Own(SetRemoteURI(e, uri), f)
    BY DEF Own, Entries, SetRemoteURI
  <1>2. \A flag : Own(SetIsLocal(e, flag), f)
    BY DEF Own, Entries, SetIsLocal
  <1>3. \A flag : Own(SetIsMetadata(e, flag), f)
    BY DEF Own, Entries, SetIsMetadata
  <1>4. \A flag : Own(SetIsOpen(e, flag), f)
    BY DEF Own, Entries, SetIsOpen
  <1>5. \A age : Own(SetLastTimeModified(e, age), f)
    BY DEF Own, Entries, SetLastTimeModified
  <1>6. Own(SetFileSize(e), f) /\ Own(IncrementTimesAccessed(e), f)
    BY DEF Own, Entries, SetFileSize, IncrementTimesAccessed
  <1>7. Own(Aged(e), f)
    BY DEF Own, Entries, Aged
  <1>8. \A d : Own(HMSET(d, e), f)
    BY DEF Own, Entries, HMSET
  <1> QED BY <1>1, <1>2, <1>3, <1>4, <1>5, <1>6, <1>7, <1>8

\* A new hash is one of its file, and so is none at all.
LEMMA NewIsOwn ==
    ASSUME NEW f \in Files
    PROVE  /\ Own(NoEntry, f)
           /\ \A open \in Flag, age \in Ages : Own(NewFileData(f, open, age), f)
  BY DEF Own, NoEntry, NewFileData

\* Only setIsLocal makes a file cold.
LEMMA SettersKeepLocal ==
    ASSUME NEW e \in Entries
    PROVE  /\ \A uri : SetRemoteURI(e, uri).isLocal = e.isLocal
           /\ \A flag : /\ SetIsMetadata(e, flag).isLocal = e.isLocal
                        /\ SetIsOpen(e, flag).isLocal = e.isLocal
           /\ \A age : SetLastTimeModified(e, age).isLocal = e.isLocal
           /\ SetFileSize(e).isLocal = e.isLocal
           /\ IncrementTimesAccessed(e).isLocal = e.isLocal
           /\ Aged(e).isLocal = e.isLocal
           /\ \A flag : SetIsLocal(e, flag).isLocal = flag
           /\ \A d : HMSET(d, e).isLocal = e.isLocal
  <1>1. /\ \A uri : SetRemoteURI(e, uri).isLocal = e.isLocal
        /\ \A flag : SetIsMetadata(e, flag).isLocal = e.isLocal
    BY DEF Entries, SetRemoteURI, SetIsMetadata
  <1>2. /\ \A flag : SetIsOpen(e, flag).isLocal = e.isLocal
        /\ \A age : SetLastTimeModified(e, age).isLocal = e.isLocal
    BY DEF Entries, SetIsOpen, SetLastTimeModified
  <1>3. /\ SetFileSize(e).isLocal = e.isLocal
        /\ IncrementTimesAccessed(e).isLocal = e.isLocal
        /\ Aged(e).isLocal = e.isLocal
    BY DEF Entries, SetFileSize, IncrementTimesAccessed, Aged
  <1>4. /\ \A flag : SetIsLocal(e, flag).isLocal = flag
        /\ \A d : HMSET(d, e).isLocal = e.isLocal
    BY DEF Entries, SetIsLocal, HMSET
  <1> QED BY <1>1, <1>2, <1>3, <1>4

-----------------------------------------------------------------------------
(***************************************************************************)
(* What a call of the event handler does where nothing is moved.           *)
(***************************************************************************)

\* What the handler makes of a hash of f is a hash of f, and no colder.
TendedBy(e, d, f) == /\ Own(e, f) => Own(d, f)
                     /\ d.isLocal = 0 => e.isLocal = 0

LEMMA HandlerTends ==
    ASSUME IInv, NothingMoves, HandlerNext
    PROVE  \A f \in Files : TendedBy(db[f], db'[f], f)
  <1>0. \A f \in Files : db[f] \in Entries /\ TendedBy(db[f], db[f], f)
    BY DEF IInv, TypeOK, TendedBy
  <1>a. db \in [Files -> Entries]
    BY DEF IInv, TypeOK
  <1>b. ASSUME NEW g \in Files, NEW e, TendedBy(db[g], e, g), db' = [db EXCEPT ![g] = e]
        PROVE  \A f \in Files : TendedBy(db[f], db'[f], f)
    BY <1>0, <1>a, <1>b
  <1>c. \A e, next : HandlerSets(e, next) => db' = [db EXCEPT ![hfile] = e]
    BY DEF HandlerSets
  <1>d. hpc \notin {"idle", "dead"} => hfile \in Files
    BY HandlerPart, InHandType
  <1>1. CASE Create \/ Open \/ Delete \/ Modify
    BY <1>0, <1>1 DEF Create, Open, Delete, Modify
  <1>2. CASE OpenLocal \/ OpenMeta \/ RecallGet \/ RecallGetFails \/ RecallWrite
                \/ RecallDelete \/ RecallDeleteFails
    BY <1>0, <1>2
       DEF OpenLocal, OpenMeta, RecallGet, RecallGetFails, RecallWrite, RecallDelete,
           RecallDeleteFails
  <1>3. CASE Close
    <2>1. queue # <<>> /\ Head(queue).file \in Files
      <3>1. queue # <<>> => Head(queue) \in Events
        BY DEF IInv, TypeOK
      <3> QED BY <1>3, <3>1 DEF Close, At, Events
    <2>2. TendedBy(db[Head(queue).file], SetIsOpen(db[Head(queue).file], 0), Head(queue).file)
      BY <1>0, <2>1, SettersKeepOwn, SettersKeepLocal DEF TendedBy
    <2> QED BY <1>3, <1>b, <2>1, <2>2 DEF Close
  <1>4. CASE Insert
    <2>1. PICK open \in Flag, age \in Ages :
              db' = [db EXCEPT ![hfile] = HMSET(@, NewFileData(hfile, open, age))]
      BY <1>4 DEF Insert
    <2>2. hfile \in Files
      BY <1>d, <1>4 DEF Insert
    <2>3. /\ NewFileData(hfile, open, age) \in Entries
          /\ Own(NewFileData(hfile, open, age), hfile)
          /\ NewFileData(hfile, open, age).isLocal = 1
      BY <2>2, HMSETType, NewIsOwn DEF NewFileData
    <2>4. /\ Own(HMSET(db[hfile], NewFileData(hfile, open, age)), hfile)
          /\ HMSET(db[hfile], NewFileData(hfile, open, age)).isLocal = 1
      BY <2>2, <2>3, SettersKeepOwn, SettersKeepLocal
    <2>5. TendedBy(db[hfile], HMSET(db[hfile], NewFileData(hfile, open, age)), hfile)
      BY <2>4 DEF TendedBy
    <2> QED BY <1>b, <2>1, <2>2, <2>5
  <1>5. CASE Erase
    <2>1. hfile \in Files
      BY <1>d, <1>5 DEF Erase
    <2>2. TendedBy(db[hfile], NoEntry, hfile)
      BY <2>1, NewIsOwn, NamesAssumption DEF TendedBy, NoEntry, Flag
    <2> QED BY <1>5, <1>b, <2>1, <2>2 DEF Erase
  <1>6. CASE RecallUnlink
    <2>1. hfile \in Files
      BY <1>d, <1>6 DEF RecallUnlink
    <2>2. TendedBy(db[hfile], SetRemoteURI(db[hfile], None), hfile)
      BY <1>0, <2>1, SettersKeepOwn, SettersKeepLocal DEF TendedBy
    <2> QED BY <1>0, <1>6, <1>b, <1>c, <2>1, <2>2 DEF RecallUnlink
  <1>7. CASE RecallHot \/ RecallUnmeta
    <2>1. hfile \in Files
      BY <1>d, <1>7 DEF RecallHot, RecallUnmeta
    <2>2. /\ TendedBy(db[hfile], SetIsLocal(db[hfile], 1), hfile)
          /\ TendedBy(db[hfile], SetIsMetadata(db[hfile], 0), hfile)
      BY <1>0, <2>1, SettersKeepOwn, SettersKeepLocal DEF TendedBy
    <2> QED BY <1>7, <1>b, <1>c, <2>1, <2>2 DEF RecallHot, RecallUnmeta
  <1>8. CASE OpenMark
    <2>1. hfile \in Files
      BY <1>d, <1>8 DEF OpenMark
    <2>2. TendedBy(db[hfile], SetIsOpen(db[hfile], 1), hfile)
      BY <1>0, <2>1, SettersKeepOwn, SettersKeepLocal DEF TendedBy
    <2> QED BY <1>8, <1>b, <2>1, <2>2 DEF OpenMark
  <1>9. CASE OpenHits \/ Resize
    <2>1. hfile \in Files
      BY <1>d, <1>9 DEF OpenHits, Resize
    <2>2. /\ TendedBy(db[hfile], IncrementTimesAccessed(db[hfile]), hfile)
          /\ TendedBy(db[hfile], SetFileSize(db[hfile]), hfile)
      BY <1>0, <2>1, SettersKeepOwn, SettersKeepLocal DEF TendedBy
    <2> QED BY <1>9, <1>b, <1>c, <2>1, <2>2 DEF OpenHits, Resize
  <1>10. CASE MovedFrom \/ MovedTo \/ Rename \/ SetName
    <2>1. MovedFrom \/ MovedTo => Waits({"movedFrom", "movedTo"})
      BY HeadWaits DEF MovedFrom, MovedTo, At
    <2> QED BY <1>10, <2>1 DEF NothingMoves, Rename, SetName
  <1> QED
    BY <1>1, <1>2, <1>3, <1>4, <1>5, <1>6, <1>7, <1>8, <1>9, <1>10
       DEF HandlerNext, OpenFile

\* A recall is of the file that was opened, found cold, and of the object that
\* its hash named.
LEMMA HandlerWay ==
    ASSUME IInv, NothingMoves, HandlerNext
    PROVE  /\ NothingMoves'
           /\ hpc' = "openLocal" => hfile' \in Files /\ hremote' = db[hfile'].remoteURI
           /\ hpc' \in Fetching => /\ hfile' = hfile /\ hfile \in Files
                                   /\ hremote' \in {hremote, None}
                                   /\ \/ hpc \in Fetching
                                      \/ hpc = "openLocal" /\ db[hfile].isLocal = 0
  <1>0. /\ hpc \notin {"idle", "dead"} => hfile \in Files /\ db[hfile] \in Entries
        /\ queue # <<>> => Head(queue).file \in Files /\ db[Head(queue).file] \in Entries
    <2>1. queue # <<>> => Head(queue) \in Events
      BY DEF IInv, TypeOK
    <2> QED BY <2>1, HandlerPart, InHandType DEF Events, IInv, TypeOK
  <1>a. \A next : Step(next) => /\ ReadsOn /\ hpc' = next
                                /\ next \notin {"idle", "dead"} => hfile' = hfile
    BY DEF Step, ReadsOn
  <1>b. \A next : Take(next) /\ queue # <<>> =>
            /\ ReadsOn /\ hpc' = next
            /\ next \notin {"idle", "dead"} => hfile' = Head(queue).file
    BY DEF Take, ReadsOn
  <1>c. \A e, next : HandlerSets(e, next) =>
            /\ ReadsOn /\ hpc' \in {next, "dead"}
            /\ hpc' \notin {"idle", "dead"} => hfile' = hfile
    BY <1>a DEF HandlerSets
  <1>d. ReadsOn => ~Waits({"movedFrom", "movedTo"})'
    BY ReadWaits DEF ReadsOn, NothingMoves
  <1>1. CASE Create \/ Delete \/ Modify \/ Close
    <2>1. queue # <<>> /\ db[Head(queue).file] \in Entries
      BY <1>0, <1>1 DEF Create, Delete, Modify, Close, At
    <2>2. ReadsOn /\ hpc' \in {"dead", "insert", "idle", "erase", "resize"}
      <3>1. CASE Create
        <4>1. db[Head(queue).file].form \in {"none", "made", "ghost"}
          BY <2>1 DEF Entries
        <4> QED BY <1>b, <2>1, <3>1, <4>1 DEF Create
      <3>2. CASE Delete
        BY <1>b, <2>1, <3>2 DEF Delete
      <3>3. CASE Modify
        <4>1. db[Head(queue).file].isMetadata \in {0, 1, Nil}
          BY <2>1 DEF Entries, Flag
        <4> QED BY <1>b, <2>1, <3>3, <4>1 DEF Modify
      <3>4. CASE Close
        BY <1>b, <2>1, <3>4 DEF Close
      <3> QED BY <1>1, <3>1, <3>2, <3>3, <3>4
    <2> QED BY <1>d, <2>2 DEF NothingMoves, Fetching, RecallSteps
  <1>2. CASE Open
    <2>1. queue # <<>> /\ Head(queue).file \in Files
      BY <1>0, <1>2 DEF Open, At
    <2>2. /\ ReadsOn /\ hpc' \in {"openLocal", "dead"}
          /\ hpc' = "openLocal" => /\ hfile' = Head(queue).file
                                   /\ hremote' = db[Head(queue).file].remoteURI
      BY <1>2, <1>b, <2>1 DEF Open
    <2> QED BY <1>d, <2>1, <2>2 DEF NothingMoves, Fetching, RecallSteps
  <1>3. CASE OpenLocal
    <2>1. hpc = "openLocal" /\ hfile \in Files /\ db[hfile].isLocal \in {0, 1, Nil}
      BY <1>0, <1>3 DEF OpenLocal, Entries, Flag
    <2>2. /\ ReadsOn /\ hpc' \in {"openMark", "dead", "openMeta"}
          /\ hpc' = "openMeta" => db[hfile].isLocal = 0
          /\ hpc' = "openMeta" => hfile' = hfile /\ hremote' = hremote
      BY <1>3, <1>a, <2>1, NamesAssumption DEF OpenLocal, Flag
    <2> QED BY <1>d, <2>1, <2>2 DEF NothingMoves, Fetching, RecallSteps
  <1>4. CASE OpenMeta
    <2>1. hpc = "openMeta" /\ hfile \in Files /\ db[hfile].isMetadata \in {0, 1, Nil}
      BY <1>0, <1>4 DEF OpenMeta, Entries, Flag
    <2>2. /\ ReadsOn /\ hpc' \in {"openMark", "dead", "get"}
          /\ hpc' = "get" => hfile' = hfile /\ hremote' = hremote
      BY <1>4, <1>a, <2>1 DEF OpenMeta
    <2> QED BY <1>d, <2>1, <2>2 DEF NothingMoves, Fetching, RecallSteps
  <1>5. CASE RecallGet \/ RecallGetFails \/ RecallDelete \/ RecallDeleteFails
    <2>1. /\ hpc \in RecallSteps /\ hfile \in Files
          /\ ReadsOn /\ hpc' \in {"write", "unlink"} /\ hfile' = hfile /\ hremote' = hremote
      BY <1>0, <1>5, <1>a
         DEF RecallGet, RecallGetFails, RecallDelete, RecallDeleteFails, RecallSteps
    <2> QED BY <1>d, <2>1 DEF NothingMoves, Fetching, RecallSteps
  <1>6. CASE RecallWrite
    <2>1. hpc = "write" /\ hpc' = "delete" /\ hfile' = hfile /\ hremote' = hremote
      BY <1>6 DEF RecallWrite
    <2>2. /\ RewriteEvents(hfile, hgot) \in Seq(Events)
          /\ Lacks(RewriteEvents(hfile, hgot), {"movedFrom", "movedTo"})
      BY <1>0, <2>1, EventsType, OwnEvents DEF Lacks
    <2>3. ~Waits({"movedFrom", "movedTo"})'
      BY <1>6, <2>2, NotifyWaits DEF RecallWrite, NothingMoves
    <2> QED BY <1>0, <2>1, <2>3 DEF NothingMoves, Fetching, RecallSteps
  <1>7. CASE RecallUnlink
    <2>1. hpc = "unlink" /\ hremote' = None
      BY <1>7 DEF RecallUnlink
    <2>2. ReadsOn /\ hpc' \in {"hot", "dead"} /\ (hpc' = "hot" => hfile' = hfile)
      BY <1>7, <1>a, <1>c DEF RecallUnlink
    <2> QED BY <1>0, <1>d, <2>1, <2>2 DEF NothingMoves, Fetching, RecallSteps
  <1>8. CASE RecallHot \/ RecallUnmeta
    <2>1. /\ hpc \in {"hot", "unmeta"} /\ hremote' = hremote
          /\ ReadsOn /\ hpc' \in {"unmeta", "openMark", "dead"}
          /\ hpc' = "unmeta" => hfile' = hfile
      BY <1>8, <1>c DEF RecallHot, RecallUnmeta
    <2> QED BY <1>0, <1>d, <2>1 DEF NothingMoves, Fetching, RecallSteps
  <1>9. CASE OpenMark \/ OpenHits \/ Insert \/ Erase \/ Resize
    <2>1. ReadsOn /\ hpc' \in {"openHits", "idle", "dead"}
      BY <1>9, <1>a, <1>c DEF OpenMark, OpenHits, Insert, Erase, Resize
    <2> QED BY <1>d, <2>1 DEF NothingMoves, Fetching, RecallSteps
  <1>10. CASE MovedFrom \/ MovedTo \/ Rename \/ SetName
    <2>1. MovedFrom \/ MovedTo => Waits({"movedFrom", "movedTo"})
      BY HeadWaits DEF MovedFrom, MovedTo, At
    <2> QED BY <1>10, <2>1 DEF NothingMoves, Rename, SetName
  <1> QED
    BY <1>1, <1>2, <1>3, <1>4, <1>5, <1>6, <1>7, <1>8, <1>9, <1>10
       DEF HandlerNext, OpenFile

\* So every hash stays that of its own file under the handler.
LEMMA HandlerOwns ==
    ASSUME IInv, OwnInv, HandlerNext, UNCHANGED <<migratorVars, truth>>
    PROVE  OwnInv'
  <1>1. NothingMoves' /\ \A f \in Files : TendedBy(db[f], db'[f], f)
    BY HandlerWay, HandlerTends DEF OwnInv
  <1>2. \A f \in Files : Own(db'[f], f) /\ Own(todo'[f], f)
    BY <1>1 DEF OwnInv, NamesAreOwn, TendedBy, migratorVars
  <1>3. hpc' \in Opening => hremote' \in {hfile', None, Nil}
    <2>1. CASE hpc' = "openLocal"
      BY <2>1, HandlerWay DEF OwnInv, NamesAreOwn, Own
    <2>2. CASE hpc' \in Fetching
      <3>1. hfile' = hfile /\ hremote' \in {hremote, None} /\ hpc \in Opening
        BY <2>2, HandlerWay DEF OwnInv, Opening, Fetching
      <3> QED BY <3>1 DEF OwnInv, NamesAreOwn
    <2> QED BY <2>1, <2>2 DEF Opening, Fetching
  <1>4. ListedIsMade'
    BY DEF OwnInv, ListedIsMade, migratorVars
  <1> QED BY <1>1, <1>2, <1>3, <1>4 DEF OwnInv, NamesAreOwn

-----------------------------------------------------------------------------
(***************************************************************************)
(* What a call of the migrator does.                                       *)
(***************************************************************************)

\* What a call of the migrator makes of a hash of f is a hash of f.
LEMMA MigratorTends ==
    ASSUME IInv, NamesAreOwn, MigratorNext
    PROVE  \A f \in Files : Own(db'[f], f)
  <1>0. /\ \A f \in Files : Own(db[f], f) /\ Own(todo[f], f)
        /\ db \in [Files -> Entries]
        /\ \A f \in Files : db[f] \in Entries /\ todo[f] \in Entries
        /\ mpc \in AtWorkSteps => cur \in Files
    BY DEF IInv, TypeOK, AtWork, AtWorkSteps, NamesAreOwn
  <1>a. ASSUME cur \in Files, NEW e, Own(e, cur), db' = [db EXCEPT ![cur] = e]
        PROVE  \A f \in Files : Own(db'[f], f)
    BY <1>0, <1>a
  <1>b. \A e, next : Set(e, next) => db' = [db EXCEPT ![cur] = e]
    BY DEF Set
  <1>c. \/ UNCHANGED db
        \/ LinkRemote \/ Record \/ MarkMeta \/ MarkCold \/ RestoreTime
        \/ Unlink \/ MarkHot \/ ClearMeta
    BY DEF MigratorNext, Demotion, Promotion, ScanGhost, ScanDemotion, ScanPromotion, Scan,
           EndDemotion, EndPromotion, PickDies, SkipDemotion, PickDemotion, Upload,
           UploadFails, Remove, Stub, PickPromotion, GetObject, GetObjectFails, WriteFile,
           DeleteObject, DeleteObjectFails, worldVars
  <1>d. LinkRemote \/ Record \/ MarkMeta \/ MarkCold \/ RestoreTime
           \/ Unlink \/ MarkHot \/ ClearMeta => cur \in Files
    BY <1>0 DEF LinkRemote, Record, MarkMeta, MarkCold, RestoreTime, Unlink, MarkHot,
                ClearMeta, AtWorkSteps, DemotionSteps, PromotionSteps
  <1>1. CASE UNCHANGED db
    BY <1>0, <1>1
  <1>2. CASE LinkRemote
    <2>1. cur \in Files /\ todo[cur].fileName \in {cur, Nil}
      BY <1>0, <1>2, <1>d DEF Own
    <2>2. Own(SetRemoteURI(db[cur], todo[cur].fileName), cur)
      BY <1>0, <2>1, SettersKeepOwn
    <2> QED BY <1>2, <1>a, <1>b, <2>1, <2>2 DEF LinkRemote
  <1>3. CASE Record
    <2>1. cur \in Files /\ Own(HMSET(db[cur], todo[cur]), cur)
      BY <1>0, <1>3, <1>d, SettersKeepOwn
    <2> QED BY <1>3, <1>a, <2>1 DEF Record
  <1>4. CASE MarkMeta \/ ClearMeta
    <2>1. /\ cur \in Files
          /\ Own(SetIsMetadata(db[cur], 1), cur) /\ Own(SetIsMetadata(db[cur], 0), cur)
      BY <1>0, <1>4, <1>d, SettersKeepOwn
    <2> QED BY <1>4, <1>a, <1>b, <2>1 DEF MarkMeta, ClearMeta
  <1>5. CASE MarkCold \/ MarkHot
    <2>1. /\ cur \in Files
          /\ Own(SetIsLocal(db[cur], 0), cur) /\ Own(SetIsLocal(db[cur], 1), cur)
      BY <1>0, <1>5, <1>d, SettersKeepOwn
    <2> QED BY <1>5, <1>a, <1>b, <2>1 DEF MarkCold, MarkHot
  <1>6. CASE RestoreTime
    <2>1. cur \in Files /\ Own(SetLastTimeModified(db[cur], todo[cur].lastModified), cur)
      BY <1>0, <1>6, <1>d, SettersKeepOwn
    <2> QED BY <1>6, <1>a, <1>b, <2>1 DEF RestoreTime
  <1>7. CASE Unlink
    <2>1. cur \in Files /\ Own(SetRemoteURI(db[cur], None), cur)
      BY <1>0, <1>7, <1>d, SettersKeepOwn
    <2> QED BY <1>7, <1>a, <1>b, <2>1 DEF Unlink
  <1> QED BY <1>1, <1>2, <1>3, <1>4, <1>5, <1>6, <1>7, <1>c

\* A scan reads whole hashes of the tier it asks for.
LEMMA ScanReads ==
    ASSUME IInv, NEW flag, NEW next, Scan(flag, next)
    PROVE  \A f \in Files :
              \/ todo'[f] = NoEntry
              \/ /\ todo'[f].form = "made" /\ db[f].isLocal = flag
                 /\ todo'[f].isLocal = flag
                 /\ Own(db[f], f) => Own(todo'[f], f)
  <1>0. PICK chosen \in SUBSET {f \in Files : db[f].form = "made"
                                                /\ db[f].isLocal = flag} :
             \E age \in [chosen -> Ages] : todo' = Listed(chosen, age)
    BY DEF Scan
  <1>1. PICK age \in [chosen -> Ages] : todo' = Listed(chosen, age)
    BY <1>0
  <1> SUFFICES ASSUME NEW f \in Files
               PROVE  \/ todo'[f] = NoEntry
                      \/ /\ todo'[f].form = "made" /\ db[f].isLocal = flag
                         /\ todo'[f].isLocal = flag
                         /\ Own(db[f], f) => Own(todo'[f], f)
    OBVIOUS
  <1>2. CASE f \in chosen
    <2>1. db[f] \in Entries /\ db[f].form = "made" /\ db[f].isLocal = flag
      BY <1>2 DEF IInv, TypeOK
    <2>2. todo'[f] = [db[f] EXCEPT !.lastModified = age[f]]
      BY <1>1, <1>2 DEF Listed
    <2> QED BY <2>1, <2>2 DEF Entries, Own
  <1>3. CASE f \notin chosen
    BY <1>1, <1>3 DEF Listed
  <1> QED BY <1>2, <1>3

\* The list of manageFiles is what the scan read, less what is done; the file at
\* hand is listed, and may be given an object.
LEMMA MigratorLists ==
    ASSUME IInv, NamesAreOwn, ListedIsMade, MigratorNext
    PROVE  ListedIsMade' /\ \A f \in Files : Own(todo'[f], f)
  <1>0. /\ \A f \in Files : Own(db[f], f) /\ Own(todo[f], f) /\ Own(NoEntry, f)
        /\ todo \in [Files -> Entries]
        /\ \A f \in Files : todo[f] \in Entries
        /\ \A f \in Files : todo[f] = NoEntry \/ todo[f].form = "made"
        /\ mpc \in AtWorkSteps => cur \in Files /\ todo[cur].form = "made"
    BY NewIsOwn DEF IInv, TypeOK, AtWork, AtWorkSteps, NamesAreOwn, ListedIsMade
  <1>a. ASSUME UNCHANGED todo, mpc' \in AtWorkSteps => todo[cur'].form = "made"
        PROVE  ListedIsMade' /\ \A f \in Files : Own(todo'[f], f)
    BY <1>0, <1>a DEF ListedIsMade
  <1>b. ASSUME NEW g \in Files, todo' = [todo EXCEPT ![g] = NoEntry],
               mpc' \notin AtWorkSteps
        PROVE  ListedIsMade' /\ \A f \in Files : Own(todo'[f], f)
    BY <1>0, <1>b DEF ListedIsMade
  <1>1. CASE ScanDemotion \/ ScanPromotion
    <2>1. /\ \A f \in Files : (todo'[f] = NoEntry \/ todo'[f].form = "made")
                                 /\ Own(todo'[f], f)
          /\ mpc' \in {"demote", "promote"}
      BY <1>0, <1>1, ScanReads DEF ScanDemotion, ScanPromotion, Scan
    <2> QED BY <2>1 DEF ListedIsMade, AtWorkSteps, DemotionSteps, PromotionSteps
  <1>2. CASE EndDemotion \/ EndPromotion \/ ScanGhost \/ \E f \in Files : PickDies(f)
    BY <1>2, <1>a
       DEF EndDemotion, EndPromotion, ScanGhost, PickDies, AtWorkSteps, DemotionSteps,
           PromotionSteps
  <1>3. ASSUME NEW f \in Files, SkipDemotion(f) \/ PickDemotion(f) \/ PickPromotion(f)
        PROVE  ListedIsMade' /\ \A g \in Files : Own(todo'[g], g)
    <2>1. CASE SkipDemotion(f)
      BY <1>b, <2>1 DEF SkipDemotion, AtWorkSteps, PromotionSteps
    <2>2. CASE PickDemotion(f) \/ PickPromotion(f)
      BY <1>0, <1>a, <2>2 DEF PickDemotion, PickPromotion
    <2> QED BY <1>3, <2>1, <2>2
  <1>4. CASE LinkRemote
    <2>1. cur \in Files /\ todo[cur].form = "made" /\ todo[cur].fileName \in {cur, Nil}
      BY <1>0, <1>4 DEF LinkRemote, AtWorkSteps, DemotionSteps, Own
    <2>2. todo' = [todo EXCEPT ![cur].remoteURI = todo[cur].fileName] /\ cur' = cur
      BY <1>4 DEF LinkRemote
    <2>3. todo'[cur].form = "made" /\ Own(todo'[cur], cur)
      BY <1>0, <2>1, <2>2 DEF Entries, Own
    <2>4. \A f \in Files : f # cur => todo'[f] = todo[f]
      BY <1>0, <2>2
    <2> QED BY <1>0, <2>2, <2>3, <2>4 DEF ListedIsMade
  <1>5. CASE Upload \/ UploadFails \/ Remove \/ Record \/ MarkMeta \/ Stub \/ MarkCold
    BY <1>0, <1>5, <1>a
       DEF Upload, UploadFails, Remove, Record, MarkMeta, Stub, MarkCold, AtWorkSteps,
           DemotionSteps
  <1>6. CASE GetObject \/ GetObjectFails \/ WriteFile \/ DeleteObject
                \/ DeleteObjectFails \/ Unlink \/ MarkHot
    BY <1>0, <1>6, <1>a
       DEF GetObject, GetObjectFails, WriteFile, DeleteObject, DeleteObjectFails, Unlink,
           MarkHot, AtWorkSteps, PromotionSteps
  <1>7. CASE RestoreTime \/ ClearMeta
    <2>1. cur \in Files /\ todo[cur].form = "made"
      BY <1>0, <1>7 DEF RestoreTime, ClearMeta, AtWorkSteps, DemotionSteps, PromotionSteps
    <2>2. \/ mpc' \in {"demote", "promote"} /\ todo' = [todo EXCEPT ![cur] = NoEntry]
          \/ UNCHANGED <<todo, cur>>
      BY <1>7 DEF RestoreTime, ClearMeta, Finish
    <2>3. CASE mpc' \in {"demote", "promote"} /\ todo' = [todo EXCEPT ![cur] = NoEntry]
      BY <1>b, <2>1, <2>3 DEF AtWorkSteps, DemotionSteps, PromotionSteps
    <2> QED BY <1>a, <2>1, <2>2, <2>3
  <1> QED
    BY <1>1, <1>2, <1>3, <1>4, <1>5, <1>6, <1>7 DEF MigratorNext, Demotion, Promotion

\* So every hash stays that of its own file under the migrator.
LEMMA MigratorOwns ==
    ASSUME IInv, OwnInv, MigratorNext, UNCHANGED <<handlerVars, truth>>
    PROVE  OwnInv'
  <1>0. mpc \in AtWorkSteps => cur \in Files
    BY DEF IInv, AtWork, AtWorkSteps
  <1>1. hpc' = hpc
    BY DEF MigratorNext, Demotion, Promotion, ScanGhost, ScanDemotion, ScanPromotion, Scan,
           EndDemotion, EndPromotion, PickDies, SkipDemotion, PickDemotion, Upload,
           UploadFails, Remove, Stub, PickPromotion, GetObject, GetObjectFails, WriteFile,
           DeleteObject, DeleteObjectFails, worldVars, LinkRemote, Record, MarkMeta,
           MarkCold, RestoreTime, Unlink, MarkHot, ClearMeta, Set
  <1>2. \/ queue' = queue
        \/ \E events \in Seq(Events) :
               Notify(events) /\ Lacks(events, {"movedFrom", "movedTo"})
    <2>1. CASE Upload \/ UploadFails
      <3>1. cur \in Files
        BY <1>0, <2>1 DEF Upload, UploadFails, AtWorkSteps, DemotionSteps
      <3>2. /\ ReadEvents(cur) \in Seq(Events)
            /\ Lacks(ReadEvents(cur), {"movedFrom", "movedTo"})
        BY <3>1, EventsType, OwnEvents DEF Lacks
      <3> QED BY <2>1, <3>2 DEF Upload, UploadFails
    <2>2. CASE Remove
      <3>1. cur \in Files
        BY <1>0, <2>2 DEF Remove, AtWorkSteps, DemotionSteps
      <3>2. <<Ev("delete", cur)>> \in Seq(Events)
        BY <3>1, EventsType DEF EventTypes
      <3>3. Lacks(<<Ev("delete", cur)>>, {"movedFrom", "movedTo"})
        BY DEF Lacks, Ev
      <3> QED BY <2>2, <3>2, <3>3 DEF Remove
    <2>3. CASE Stub \/ WriteFile
      <3>1. cur \in Files
        BY <1>0, <2>3 DEF Stub, WriteFile, AtWorkSteps, DemotionSteps, PromotionSteps
      <3>2. \A content : /\ RewriteEvents(cur, content) \in Seq(Events)
                         /\ Lacks(RewriteEvents(cur, content), {"movedFrom", "movedTo"})
        BY <3>1, EventsType, OwnEvents DEF Lacks
      <3> QED BY <2>3, <3>2 DEF Stub, WriteFile
    <2>4. \/ Upload \/ UploadFails \/ Remove \/ Stub \/ WriteFile
          \/ queue' = queue
      BY DEF MigratorNext, Demotion, Promotion, ScanGhost, ScanDemotion, ScanPromotion,
             Scan, EndDemotion, EndPromotion, PickDies, SkipDemotion, PickDemotion,
             PickPromotion, GetObject, GetObjectFails, DeleteObject, DeleteObjectFails,
             worldVars, LinkRemote, Record, MarkMeta, MarkCold, RestoreTime, Unlink,
             MarkHot, ClearMeta, Set
    <2> QED BY <2>1, <2>2, <2>3, <2>4
  <1>3. NothingMoves'
    BY <1>1, <1>2, NotifyWaits, ReadWaits DEF OwnInv, NothingMoves
  <1>4. NamesAreOwn' /\ ListedIsMade'
    BY <1>1, MigratorTends, MigratorLists DEF OwnInv, NamesAreOwn, handlerVars
  <1> QED BY <1>3, <1>4 DEF OwnInv

-----------------------------------------------------------------------------
\* Users who rename nothing queue no event of a move.
LEMMA UsersMoveNothing ==
    ASSUME Unmoved, IInv, OwnInv, Users
    PROVE  /\ OwnInv'
           /\ UNCHANGED <<bucket, db, hpc, migratorVars, handlerVars>>
  <1>1. PICK f \in Files :
            \/ UserOpen(f) \/ UserClose(f) \/ UserRead(f)
            \/ \E v \in Versions : UserWrite(f, v) \/ UserCreate(f, v)
            \/ UserDelete(f)
            \/ \E g \in Files : UserRename(f, g)
    BY DEF Users
  <1>2. \/ UserOpen(f) \/ UserClose(f) \/ UserRead(f) \/ UserDelete(f)
        \/ \E v \in Versions : UserWrite(f, v) \/ UserCreate(f, v)
    BY <1>1 DEF UserRename, UserTurn, Unmoved
  <1>3. UNCHANGED <<bucket, db, hpc, migratorVars, handlerVars>>
    BY <1>2 DEF UserOpen, UserClose, UserRead, UserWrite, UserCreate, UserDelete, servers
  <1>4. \A type \in {"open", "close", "modify", "delete"} :
            <<Ev(type, f)>> \in Seq(Events) /\ Lacks(<<Ev(type, f)>>, {"movedFrom", "movedTo"})
    <2> SUFFICES ASSUME NEW type \in {"open", "close", "modify", "delete"}
                 PROVE  /\ <<Ev(type, f)>> \in Seq(Events)
                        /\ Lacks(<<Ev(type, f)>>, {"movedFrom", "movedTo"})
      OBVIOUS
    <2>1. Ev(type, f) \in Events
      BY EventsType DEF EventTypes
    <2>2. Lacks(<<Ev(type, f)>>, {"movedFrom", "movedTo"})
      BY DEF Lacks, Ev
    <2> QED BY <2>1, <2>2
  <1>5. /\ ReadEvents(f) \in Seq(Events) /\ Lacks(ReadEvents(f), {"movedFrom", "movedTo"})
        /\ \A content : /\ RewriteEvents(f, content) \in Seq(Events)
                        /\ Lacks(RewriteEvents(f, content), {"movedFrom", "movedTo"})
    BY EventsType, OwnEvents DEF Lacks
  <1>6. PICK events \in Seq(Events) :
            Notify(events) /\ Lacks(events, {"movedFrom", "movedTo"})
    BY <1>2, <1>4, <1>5
       DEF UserOpen, UserClose, UserRead, UserWrite, UserCreate, UserDelete
  <1>7. NothingMoves'
    BY <1>3, <1>6, NotifyWaits DEF OwnInv, NothingMoves
  <1>8. NamesAreOwn' /\ ListedIsMade'
    BY <1>3 DEF OwnInv, NamesAreOwn, ListedIsMade, migratorVars, handlerVars
  <1> QED BY <1>3, <1>7, <1>8 DEF OwnInv

\* A hash that grows older is the hash of the same file, and one that is not
\* there stays so.
LEMMA AgedStays ==
    ASSUME NEW e \in Entries
    PROVE  /\ Aged(e).form = e.form /\ Aged(e).isLocal = e.isLocal
           /\ Aged(e).remoteURI = e.remoteURI
           /\ e = NoEntry => Aged(e) = NoEntry
  <1>1. /\ Aged(e).form = e.form /\ Aged(e).isLocal = e.isLocal
        /\ Aged(e).remoteURI = e.remoteURI
    BY DEF Aged, Entries
  <1>2. NoEntry.lastModified # "recent"
    BY NamesAssumption DEF NoEntry, Ages
  <1>3. e = NoEntry => Aged(e) = NoEntry
    BY <1>2 DEF Aged
  <1> QED BY <1>1, <1>3

\* Neither do the clock and the operator.
LEMMA TimeMovesNothing ==
    ASSUME IInv, OwnInv, TimePasses
    PROVE  OwnInv'
  <1>0. \A f \in Files : db[f] \in Entries /\ todo[f] \in Entries
    BY DEF IInv, TypeOK
  <1>1. \A f \in Files : Own(db'[f], f) /\ Own(todo'[f], f)
    BY <1>0, SettersKeepOwn DEF TimePasses, OwnInv, NamesAreOwn
  <1>2. \A f \in Files : (todo'[f] = NoEntry \/ todo'[f].form = "made")
                            /\ todo'[f].form = todo[f].form
    BY <1>0, AgedStays DEF TimePasses, OwnInv, ListedIsMade
  <1>3. mpc \in AtWorkSteps => cur \in Files
    BY DEF IInv, AtWork, AtWorkSteps
  <1>4. ListedIsMade'
    BY <1>2, <1>3 DEF TimePasses, OwnInv, ListedIsMade
  <1>5. NamesAreOwn' /\ NothingMoves'
    BY <1>1 DEF TimePasses, OwnInv, NamesAreOwn, NothingMoves, Waits, handlerVars
  <1> QED BY <1>4, <1>5 DEF OwnInv

LEMMA OperatorMovesNothing ==
    ASSUME IInv, OwnInv, Operator
    PROVE  OwnInv'
  <1>0. \A f \in Files : Own(NoEntry, f)
    BY NewIsOwn
  <1>1. CASE KillSupervisor \/ StartSupervisor
    <2>1. /\ UNCHANGED <<db, queue, hpc, hfile, hremote>>
          /\ todo' = NothingToDo /\ mpc' \in {"dead", "scanDemotion"}
      BY <1>1 DEF KillSupervisor, StartSupervisor, worldVars, handlerVars
    <2>2. NamesAreOwn' /\ NothingMoves'
      BY <1>0, <2>1 DEF OwnInv, NamesAreOwn, NothingMoves, Waits, NothingToDo
    <2>3. ListedIsMade'
      BY <2>1 DEF ListedIsMade, NothingToDo, AtWorkSteps, DemotionSteps, PromotionSteps
    <2> QED BY <2>2, <2>3 DEF OwnInv
  <1>2. CASE KillHandler
    <2>1. UNCHANGED <<db, todo, mpc, cur>> /\ hpc' = "dead" /\ queue' = <<>>
      BY <1>2 DEF KillHandler, migratorVars
    <2>2. NamesAreOwn' /\ NothingMoves'
      BY <2>1, ReadWaits DEF OwnInv, NamesAreOwn, NothingMoves, Opening, RecallSteps
    <2>3. ListedIsMade'
      BY <2>1 DEF OwnInv, ListedIsMade
    <2> QED BY <2>2, <2>3 DEF OwnInv
  <1> QED BY <1>1, <1>2 DEF Operator

\* Where nothing is renamed, every hash is that of its own file.
LEMMA NextOwns ==
    ASSUME Unmoved, IInv, OwnInv, [Next]_vars
    PROVE  OwnInv'
  <1>1. CASE UNCHANGED vars
    BY <1>1 DEF vars, worldVars, migratorVars, handlerVars, OwnInv, NamesAreOwn,
                ListedIsMade, NothingMoves, Waits
  <1> QED
    BY <1>1, MigratorOwns, HandlerOwns, UsersMoveNothing, TimeMovesNothing,
       OperatorMovesNothing DEF Next

-----------------------------------------------------------------------------
(***************************************************************************)
(* A file that is being demoted is not fetched.                            *)
(***************************************************************************)

\* The handler makes no file cold, and fetches only cold ones.
LEMMA HandlerSpares ==
    ASSUME IInv, NothingMoves, DemotedIsLocal, HandlerNext, UNCHANGED <<migratorVars, truth>>
    PROVE  DemotedIsLocal'
  <1> SUFFICES ASSUME NEW f \in Files, Demoting(f)'
               PROVE  db'[f].isLocal # 0 /\ todo'[f].isLocal # 0 /\ NotRecalled(f)'
    BY DEF DemotedIsLocal
  <1>1. Demoting(f) /\ todo' = todo
    BY DEF Demoting, migratorVars
  <1>2. db[f].isLocal # 0 /\ todo[f].isLocal # 0 /\ NotRecalled(f)
    BY <1>1 DEF DemotedIsLocal
  <1>3. db'[f].isLocal # 0
    BY <1>2, HandlerTends DEF TendedBy
  <1>4. NotRecalled(f)'
    BY <1>2, HandlerWay DEF NotRecalled
  <1> QED BY <1>1, <1>2, <1>3, <1>4

\* The migrator's demotions make no file cold but the one they have finished.
LEMMA DemotionSpares ==
    ASSUME Prompt, IInv, DemotedIsLocal, ListedIsMade, Demotion,
           UNCHANGED <<handlerVars, truth>>
    PROVE  DemotedIsLocal'
  <1>0. /\ \A f \in Files : db[f] \in Entries /\ todo[f] \in Entries
        /\ db \in [Files -> Entries] /\ todo \in [Files -> Entries]
        /\ mpc \in AtWorkSteps => cur \in Files /\ todo[cur].form = "made"
        /\ NoEntry.form = "none"
    BY DEF IInv, TypeOK, AtWork, AtWorkSteps, ListedIsMade, NoEntry
  <1>a. ASSUME UNCHANGED <<db, hpc, hfile>>,
               \A f \in Files : \/ todo'[f] = NoEntry
                                \/ /\ todo'[f].form = todo[f].form
                                   /\ todo'[f].isLocal = todo[f].isLocal,
               mpc' \in DemotionSteps => mpc \in DemotionSteps \ {"restore"}
        PROVE  DemotedIsLocal'
    BY <1>0, <1>a DEF DemotedIsLocal, Demoting, NotRecalled
  <1>b. ASSUME cur \in Files, NEW e \in Entries, e.isLocal # 0, UNCHANGED <<hpc, hfile, todo>>,
               db' = [db EXCEPT ![cur] = e], mpc \in DemotionSteps \ {"restore"}
        PROVE  DemotedIsLocal'
    BY <1>0, <1>b DEF DemotedIsLocal, Demoting, NotRecalled
  <1>c. mpc \in AtWorkSteps \ {"restore"} /\ mpc \in DemotionSteps
           => db[cur].isLocal # 0 /\ todo[cur].isLocal # 0
    BY <1>0 DEF DemotedIsLocal, Demoting
  <1>1. CASE ScanDemotion
    <2>1. hpc \in {"dead", "idle"} /\ UNCHANGED <<db, hpc, hfile>>
      BY <1>1 DEF ScanDemotion, Scan, Slept, HandlerIdle, worldVars, handlerVars
    <2>2. \A f \in Files : todo'[f].form = "made"
                              => db[f].isLocal = 1 /\ todo'[f].isLocal = 1
      BY <1>0, <1>1, ScanReads DEF ScanDemotion
    <2> QED BY <2>1, <2>2 DEF DemotedIsLocal, Demoting, NotRecalled, Fetching, RecallSteps
  <1>2. CASE EndDemotion \/ \E f \in Files : PickDies(f)
    BY <1>2 DEF EndDemotion, PickDies, DemotedIsLocal, Demoting, DemotionSteps
  <1>3. ASSUME NEW f \in Files, SkipDemotion(f) \/ PickDemotion(f)
        PROVE  DemotedIsLocal'
    <2>1. /\ UNCHANGED <<db, hpc, hfile>> /\ mpc = "demote"
          /\ todo' \in {todo, [todo EXCEPT ![f] = NoEntry]}
      BY <1>3 DEF SkipDemotion, PickDemotion, worldVars, handlerVars
    <2> QED BY <1>0, <1>a, <2>1 DEF DemotionSteps
  <1>4. CASE LinkRemote
    <2>1. /\ cur \in Files /\ UNCHANGED <<hpc, hfile, cur>>
          /\ mpc = "link"
          /\ db' = [db EXCEPT ![cur] = SetRemoteURI(db[cur], todo[cur].fileName)]
          /\ todo' = [todo EXCEPT ![cur].remoteURI = todo[cur].fileName]
      BY <1>0, <1>4 DEF LinkRemote, Set, AtWorkSteps, DemotionSteps, handlerVars
    <2>2. \A f \in Files : todo'[f].form = todo[f].form /\ todo'[f].isLocal = todo[f].isLocal
      BY <1>0, <2>1 DEF Entries
    <2>3. SetRemoteURI(db[cur], todo[cur].fileName).isLocal = db[cur].isLocal
      BY <1>0, <2>1, SettersKeepLocal
    <2>4. \A f \in Files : db'[f].isLocal = db[f].isLocal
      BY <1>0, <2>1, <2>3
    <2> QED BY <2>1, <2>2, <2>4 DEF DemotedIsLocal, Demoting, NotRecalled, DemotionSteps
  <1>5. CASE Upload \/ UploadFails \/ Remove \/ Stub
    BY <1>5, <1>a DEF Upload, UploadFails, Remove, Stub, DemotionSteps, handlerVars
  <1>6. CASE Record
    <2>1. /\ cur \in Files /\ UNCHANGED <<hpc, hfile, todo>> /\ mpc = "record"
          /\ db' = [db EXCEPT ![cur] = HMSET(db[cur], todo[cur])]
      BY <1>0, <1>6 DEF Record, AtWorkSteps, DemotionSteps, handlerVars
    <2>2. todo[cur].isLocal # 0
      BY <1>c, <2>1 DEF AtWorkSteps, DemotionSteps
    <2>3. HMSET(db[cur], todo[cur]) \in Entries /\ HMSET(db[cur], todo[cur]).isLocal # 0
      BY <1>0, <2>1, <2>2, HMSETType, SettersKeepLocal
    <2> QED BY <1>b, <2>1, <2>3 DEF DemotionSteps
  <1>7. CASE MarkMeta
    <2>1. /\ cur \in Files /\ UNCHANGED <<hpc, hfile, todo>> /\ mpc = "markMeta"
          /\ db' = [db EXCEPT ![cur] = SetIsMetadata(db[cur], 1)]
      BY <1>0, <1>7 DEF MarkMeta, Set, AtWorkSteps, DemotionSteps, handlerVars
    <2>2. db[cur].isLocal # 0 /\ db[cur] \in Entries
      BY <1>0, <1>c, <2>1 DEF AtWorkSteps, DemotionSteps
    <2>3. SetIsMetadata(db[cur], 1) \in Entries /\ SetIsMetadata(db[cur], 1).isLocal # 0
      BY <2>2, SettersType, SettersKeepLocal DEF Flag
    <2> QED BY <1>b, <2>1, <2>3 DEF DemotionSteps
  <1>8. CASE MarkCold
    <2>1. /\ cur \in Files /\ UNCHANGED <<hpc, hfile, todo, cur>> /\ mpc = "markCold"
          /\ db' = [db EXCEPT ![cur] = SetIsLocal(db[cur], 0)]
          /\ mpc' \in {"restore", "dead"}
      BY <1>0, <1>8 DEF MarkCold, Set, AtWorkSteps, DemotionSteps, handlerVars
    <2>2. \A f \in Files : f # cur => db'[f] = db[f]
      BY <1>0, <2>1
    <2> QED BY <2>1, <2>2 DEF DemotedIsLocal, Demoting, NotRecalled, DemotionSteps
  <1>9. CASE RestoreTime
    <2>1. /\ cur \in Files /\ UNCHANGED <<hpc, hfile>> /\ mpc = "restore"
          /\ db' = [db EXCEPT ![cur] = SetLastTimeModified(db[cur], todo[cur].lastModified)]
          /\ mpc' \in {"demote", "dead"}
          /\ mpc' = "demote" => todo' = [todo EXCEPT ![cur] = NoEntry]
      BY <1>0, <1>9 DEF RestoreTime, Set, Finish, AtWorkSteps, DemotionSteps, handlerVars
    <2>2. \A f \in Files : f # cur => db'[f] = db[f]
      BY <1>0, <2>1
    <2>3. mpc' = "demote" => /\ todo'[cur].form = "none"
                             /\ \A f \in Files : f # cur => todo'[f] = todo[f]
      BY <1>0, <2>1
    <2> QED BY <2>1, <2>2, <2>3 DEF DemotedIsLocal, Demoting, NotRecalled, DemotionSteps
  <1> QED BY <1>1, <1>2, <1>3, <1>4, <1>5, <1>6, <1>7, <1>8, <1>9 DEF Demotion

\* During a promotion nothing is being demoted.
LEMMA PromotionSpares ==
    ASSUME Promotion \/ ScanGhost
    PROVE  DemotedIsLocal'
  <1>1. mpc' \notin DemotionSteps
    BY DEF Promotion, ScanGhost, ScanPromotion, Scan, EndPromotion, PickPromotion, GetObject,
           GetObjectFails, WriteFile, DeleteObject, DeleteObjectFails, Unlink, MarkHot,
           ClearMeta, Set, DemotionSteps
  <1> QED BY <1>1 DEF DemotedIsLocal, Demoting

LEMMA NextSpares ==
    ASSUME Unmoved, IInv, OwnInv, DemotedIsLocal, [Next]_vars
    PROVE  DemotedIsLocal'
  <1>1. CASE UNCHANGED vars
    BY <1>1 DEF vars, worldVars, migratorVars, handlerVars, DemotedIsLocal, Demoting,
                NotRecalled
  <1>2. CASE MigratorNext /\ UNCHANGED <<handlerVars, truth>>
    BY <1>2, DemotionSpares, PromotionSpares DEF MigratorNext, Unmoved, OwnInv
  <1>3. CASE HandlerNext /\ UNCHANGED <<migratorVars, truth>>
    BY <1>3, HandlerSpares DEF OwnInv
  <1>4. CASE Users
    BY <1>4, UsersMoveNothing
       DEF DemotedIsLocal, Demoting, NotRecalled, migratorVars, handlerVars
  <1>5. CASE TimePasses
    <2>1. \A f \in Files : /\ db'[f].isLocal = db[f].isLocal
                           /\ todo'[f].isLocal = todo[f].isLocal
                           /\ todo'[f].form = todo[f].form
      BY <1>5, AgedStays DEF TimePasses, IInv, TypeOK
    <2> QED
      BY <1>5, <2>1 DEF TimePasses, DemotedIsLocal, Demoting, NotRecalled, handlerVars
  <1>6. CASE KillSupervisor \/ StartSupervisor
    BY <1>6 DEF KillSupervisor, StartSupervisor, DemotedIsLocal, Demoting, DemotionSteps
  <1>7. CASE KillHandler
    BY <1>7 DEF KillHandler, migratorVars, DemotedIsLocal, Demoting, NotRecalled, Fetching,
                RecallSteps
  <1> QED BY <1>1, <1>2, <1>3, <1>4, <1>5, <1>6, <1>7 DEF Next, Operator

-----------------------------------------------------------------------------
(***************************************************************************)
(* What is deleted is back.                                                *)
(***************************************************************************)

\* What DeletedIsBack says of one step.
DeletesWhatIsBack == \A f \in Files :
    bucket[f] # None /\ bucket'[f] = None /\ truth[f] = bucket[f] => disk[f] = truth[f]

\* Deleting the object of f where it may go is such a step.
LEMMA BackMayGo ==
    ASSUME IInv, NEW g \in Files, Back(g), bucket' = [bucket EXCEPT ![g] = None]
    PROVE  DeletesWhatIsBack
  <1>1. bucket \in [Files -> Contents \cup {None}]
    BY DEF IInv, TypeOK
  <1>2. \A f \in Files : f # g => bucket'[f] = bucket[f]
    BY <1>1
  <1>3. bucket[g] # None /\ truth[g] = bucket[g] => disk[g] = truth[g]
    BY DEF Back
  <1> QED BY <1>2, <1>3 DEF DeletesWhatIsBack

\* The file and the object that each process has in hand.
LEMMA InHands ==
    ASSUME IInv, OwnInv
    PROVE  /\ mpc \in AtWorkSteps => /\ cur \in Files
                                     /\ todo[cur].form = "made"
                                     /\ todo[cur].remoteURI \in {cur, None, Nil}
           /\ hpc \in RecallSteps => hfile \in Files /\ hremote \in {hfile, None, Nil}
           /\ None \notin Files /\ Nil \notin Files
           /\ bucket \in [Files -> Contents \cup {None}]
           /\ disk \in [Files -> Contents \cup {None}]
           /\ None \notin Contents
           /\ opened \in [Files -> {"no", "yes", "orphan"}]
  BY NamesAssumption, ContentsAssumption
     DEF IInv, TypeOK, AtWork, AtWorkSteps, OwnInv, ListedIsMade, NamesAreOwn, Own, Opening,
         RecallSteps, Contents

LEMMA HandlerDeletes ==
    ASSUME IInv, OwnInv, BackInv, HandlerNext, UNCHANGED <<migratorVars, truth>>
    PROVE  BackInv' /\ DeletesWhatIsBack
  <1>0. opened' = opened
    BY OpenedStays
  <1>a. ASSUME UNCHANGED <<disk, bucket>>, hpc' \notin {"write", "delete"}
        PROVE  BackInv' /\ DeletesWhatIsBack
    <2>1. MigratorBringsBack'
      BY <1>0, <1>a DEF BackInv, MigratorBringsBack, Back, migratorVars
    <2> QED BY <1>a, <2>1 DEF BackInv, HandlerBringsBack, DeletesWhatIsBack
  <1>1. CASE RecallGet
    <2>1. /\ hpc = "get" /\ hremote \in Files /\ hpc' = "write" /\ hgot' = bucket[hremote]
          /\ UNCHANGED <<disk, bucket, hfile, hremote>>
      BY <1>1 DEF RecallGet, InBucket, Step
    <2>2. hremote = hfile
      BY <2>1, InHands DEF RecallSteps
    <2>3. MigratorBringsBack'
      BY <1>0, <2>1 DEF BackInv, MigratorBringsBack, Back, migratorVars
    <2> QED BY <2>1, <2>2, <2>3 DEF BackInv, HandlerBringsBack, DeletesWhatIsBack
  <1>2. CASE RecallWrite
    <2>1. /\ hpc = "write" /\ hpc' = "delete" /\ disk' = [disk EXCEPT ![hfile] = hgot]
          /\ UNCHANGED <<bucket, hfile, hremote>>
      BY <1>2 DEF RecallWrite
    <2>2. hfile \in Files /\ hremote = hfile /\ bucket[hfile] \in {None, hgot}
      BY <2>1, InHands DEF BackInv, HandlerBringsBack, RecallSteps
    <2>3. Back(hfile)'
      BY <2>1, <2>2, InHands DEF Back
    <2>4. MigratorBringsBack'
      <3>1. mpc = "write" => MigratorBringsBack'
        BY <2>1 DEF BackInv, MigratorBringsBack, migratorVars
      <3>2. ASSUME mpc = "delete" PROVE MigratorBringsBack'
        <4>1. cur \in Files /\ todo[cur].remoteURI = cur /\ Back(cur)
          BY <3>2, InHands DEF BackInv, MigratorBringsBack, AtWorkSteps, PromotionSteps
        <4>2. cur # hfile => Back(cur)'
          BY <1>0, <2>1, <4>1, InHands DEF Back, migratorVars
        <4> QED BY <2>3, <2>1, <3>2, <4>1, <4>2 DEF MigratorBringsBack, migratorVars
      <3> QED BY <3>1, <3>2 DEF MigratorBringsBack, migratorVars
    <2> QED BY <2>1, <2>2, <2>3, <2>4 DEF BackInv, HandlerBringsBack, DeletesWhatIsBack
  <1>3. CASE RecallDelete
    <2>1. /\ hpc = "delete" /\ hpc' = "unlink" /\ bucket' = [bucket EXCEPT ![hremote] = None]
          /\ UNCHANGED disk
      BY <1>3 DEF RecallDelete, Step
    <2>2. hfile \in Files /\ hremote = hfile /\ Back(hfile)
      BY <2>1, InHands DEF BackInv, HandlerBringsBack, RecallSteps
    <2>3. DeletesWhatIsBack
      BY <2>1, <2>2, BackMayGo
    <2>4. \A f \in Files : bucket'[f] \in {bucket[f], None}
      BY <2>1, <2>2, InHands
    <2>5. MigratorBringsBack'
      <3>1. ASSUME mpc = "write" PROVE MigratorBringsBack'
        BY <2>4, <3>1, InHands
           DEF BackInv, MigratorBringsBack, migratorVars, AtWorkSteps, PromotionSteps
      <3>2. ASSUME mpc = "delete" PROVE MigratorBringsBack'
        <4>1. cur \in Files /\ todo[cur].remoteURI = cur /\ Back(cur)
          BY <3>2, InHands DEF BackInv, MigratorBringsBack, AtWorkSteps, PromotionSteps
        <4>2. Back(cur)'
          BY <1>0, <2>1, <2>4, <4>1 DEF Back, migratorVars
        <4> QED BY <3>2, <4>1, <4>2 DEF MigratorBringsBack, migratorVars
      <3> QED BY <3>1, <3>2 DEF MigratorBringsBack, migratorVars
    <2> QED BY <2>1, <2>3, <2>5 DEF BackInv, HandlerBringsBack
  <1>4. \/ RecallGet \/ RecallWrite \/ RecallDelete
        \/ UNCHANGED <<disk, bucket>> /\ hpc' \notin {"write", "delete"}
    <2>1. CASE Create \/ Open \/ Delete \/ Modify \/ Close \/ MovedFrom \/ MovedTo
      <3>1. UNCHANGED <<disk, bucket>>
        BY <2>1 DEF Create, Open, Delete, Modify, Close, MovedFrom, MovedTo
      <3>2. hpc = "idle"
        BY <2>1 DEF Create, Open, Delete, Modify, Close, MovedFrom, MovedTo, At
      <3>3. hpc' \notin {"write", "delete"}
        BY <3>2, HandlerWay DEF OwnInv, Fetching, RecallSteps
      <3> QED BY <3>1, <3>3
    <2>2. CASE OpenLocal \/ OpenMeta
      <3>1. UNCHANGED <<disk, bucket>>
        BY <2>2 DEF OpenLocal, OpenMeta
      <3>2. hfile \in Files /\ db[hfile] \in Entries
        BY <2>2, HandlerPart, InHandType DEF OpenLocal, OpenMeta
      <3>3. db[hfile].isLocal \in {0, 1, Nil} /\ db[hfile].isMetadata \in {0, 1, Nil}
        BY <3>2 DEF Entries, Flag
      <3>4. hpc' \notin {"write", "delete"}
        BY <2>2, <3>3 DEF OpenLocal, OpenMeta, Step
      <3> QED BY <3>1, <3>4
    <2>3. CASE RecallGetFails \/ RecallDeleteFails \/ RecallUnlink \/ RecallHot
                  \/ RecallUnmeta \/ OpenMark \/ OpenHits \/ Insert \/ Erase \/ Resize
                  \/ Rename \/ SetName
      BY <2>3 DEF RecallGetFails, RecallDeleteFails, RecallUnlink, RecallHot, RecallUnmeta,
                  OpenMark, OpenHits, Insert, Erase, Resize, Rename, SetName, Step,
                  HandlerSets
    <2> QED BY <2>1, <2>2, <2>3 DEF HandlerNext, OpenFile
  <1> QED BY <1>a, <1>1, <1>2, <1>3, <1>4

\* A demotion touches no file that the handler is about to write or whose
\* object it is about to delete.
LEMMA DemotionDeletesNothing ==
    ASSUME IInv, OwnInv, DemotedIsLocal, BackInv, Demotion, UNCHANGED <<handlerVars, truth>>
    PROVE  BackInv' /\ DeletesWhatIsBack
  <1>1. mpc' \notin {"write", "delete"} /\ hpc' = hpc
    BY DEF Demotion, ScanDemotion, Scan, EndDemotion, PickDies, SkipDemotion, PickDemotion,
           LinkRemote, Upload, UploadFails, Remove, Record, MarkMeta, Stub, MarkCold,
           RestoreTime, Set, worldVars
  <1>2. MigratorBringsBack'
    BY <1>1 DEF MigratorBringsBack
  <1>a. ASSUME DeletesWhatIsBack,
               \A f \in Files : (hfile = f => hpc \notin Fetching)
                                  \/ (disk'[f] = disk[f] /\ bucket'[f] = bucket[f]
                                        /\ opened'[f] = opened[f])
        PROVE  BackInv' /\ DeletesWhatIsBack
    <2>1. hpc \in {"write", "delete"} =>
              /\ hfile \in Files
              /\ UNCHANGED <<disk[hfile], bucket[hfile], opened[hfile]>>
      BY <1>a, InHands DEF Fetching, RecallSteps, handlerVars
    <2>2. HandlerBringsBack'
      BY <1>1, <2>1 DEF BackInv, HandlerBringsBack, Back, handlerVars
    <2> QED BY <1>2, <1>a, <2>2 DEF BackInv
  <1>b. ASSUME Upload \/ Remove \/ Stub
        PROVE  cur \in Files /\ (hfile = cur => hpc \notin Fetching)
    <2>1. mpc \in {"upload", "remove", "stub"} /\ cur \in Files /\ todo[cur].form = "made"
      BY <1>b, InHands DEF Upload, Remove, Stub, AtWorkSteps, DemotionSteps
    <2> QED BY <2>1 DEF DemotedIsLocal, Demoting, NotRecalled, DemotionSteps
  <1>3. CASE Upload
    <2>1. /\ disk[cur] # None /\ disk' = disk /\ opened' = opened
          /\ bucket' = [bucket EXCEPT ![todo[cur].remoteURI] = disk[cur]]
          /\ todo[cur].remoteURI \in {cur, None, Nil}
      BY <1>3, InHands DEF Upload, AtWorkSteps, DemotionSteps
    <2>2. \A f \in Files : f # cur => bucket'[f] = bucket[f]
      BY <2>1, InHands
    <2>3. bucket'[cur] \in {bucket[cur], disk[cur]}
      BY <1>3, <1>b, <2>1, InHands
    <2>4. DeletesWhatIsBack
      BY <2>1, <2>2, <2>3 DEF DeletesWhatIsBack
    <2> QED BY <1>3, <1>a, <1>b, <2>1, <2>2, <2>4
  <1>4. CASE Remove
    <2>1. /\ bucket' = bucket /\ disk' = [disk EXCEPT ![cur] = None]
          /\ opened' = [opened EXCEPT ![cur] = IF @ = "yes" THEN "orphan" ELSE @]
      BY <1>4 DEF Remove
    <2>2. \A f \in Files : f # cur => disk'[f] = disk[f] /\ opened'[f] = opened[f]
      BY <2>1, InHands
    <2> QED BY <1>4, <1>a, <1>b, <2>1, <2>2 DEF DeletesWhatIsBack
  <1>5. CASE Stub
    <2>1. bucket' = bucket /\ disk' = [disk EXCEPT ![cur] = Empty] /\ opened' = opened
      BY <1>5 DEF Stub
    <2>2. \A f \in Files : f # cur => disk'[f] = disk[f]
      BY <2>1, InHands
    <2> QED BY <1>5, <1>a, <1>b, <2>1, <2>2 DEF DeletesWhatIsBack
  <1>6. \/ Upload \/ Remove \/ Stub
        \/ UNCHANGED <<disk, bucket, opened>>
    BY DEF Demotion, ScanDemotion, Scan, EndDemotion, PickDies, SkipDemotion, PickDemotion,
           LinkRemote, UploadFails, Record, MarkMeta, MarkCold, RestoreTime, Set, worldVars
  <1> QED BY <1>a, <1>3, <1>4, <1>5, <1>6 DEF DeletesWhatIsBack

LEMMA PromotionDeletes ==
    ASSUME IInv, OwnInv, BackInv, Promotion \/ ScanGhost, UNCHANGED <<handlerVars, truth>>
    PROVE  BackInv' /\ DeletesWhatIsBack
  <1>0. hpc' = hpc /\ opened' = opened
    BY DEF Promotion, ScanGhost, ScanPromotion, Scan, EndPromotion, PickPromotion, GetObject,
           GetObjectFails, WriteFile, DeleteObject, DeleteObjectFails, Unlink, MarkHot,
           ClearMeta, Set, worldVars
  <1>a. ASSUME UNCHANGED <<disk, bucket>>
        PROVE  HandlerBringsBack' /\ DeletesWhatIsBack
    BY <1>0, <1>a DEF BackInv, HandlerBringsBack, Back, handlerVars, DeletesWhatIsBack
  <1>1. CASE GetObject
    <2>1. /\ mpc = "get" /\ todo[cur].remoteURI \in Files /\ mpc' = "write"
          /\ mgot' = bucket[todo[cur].remoteURI]
          /\ UNCHANGED <<disk, bucket, todo, cur>>
      BY <1>1 DEF GetObject, InBucket, worldVars
    <2>2. todo[cur].remoteURI = cur
      BY <2>1, InHands DEF AtWorkSteps, PromotionSteps
    <2>3. MigratorBringsBack'
      BY <2>1, <2>2 DEF MigratorBringsBack
    <2> QED BY <1>a, <2>1, <2>3 DEF BackInv
  <1>2. CASE WriteFile
    <2>1. /\ mpc = "write" /\ mpc' = "delete" /\ disk' = [disk EXCEPT ![cur] = mgot]
          /\ UNCHANGED <<bucket, todo, cur>>
      BY <1>2 DEF WriteFile
    <2>2. cur \in Files /\ todo[cur].remoteURI = cur /\ bucket[cur] \in {None, mgot}
      BY <2>1, InHands DEF BackInv, MigratorBringsBack, AtWorkSteps, PromotionSteps
    <2>3. Back(cur)'
      BY <2>1, <2>2, InHands DEF Back
    <2>4. HandlerBringsBack'
      <3>1. hpc = "write" => HandlerBringsBack'
        BY <1>0, <2>1 DEF BackInv, HandlerBringsBack, handlerVars
      <3>2. ASSUME hpc = "delete" PROVE HandlerBringsBack'
        <4>1. hfile \in Files /\ hremote = hfile /\ Back(hfile)
          BY <3>2, InHands DEF BackInv, HandlerBringsBack, RecallSteps
        <4>2. hfile # cur => Back(hfile)'
          BY <1>0, <2>1, <4>1, InHands DEF Back, handlerVars
        <4> QED BY <1>0, <2>3, <2>1, <3>2, <4>1, <4>2 DEF HandlerBringsBack, handlerVars
      <3> QED BY <1>0, <3>1, <3>2 DEF HandlerBringsBack
    <2>5. DeletesWhatIsBack
      BY <2>1 DEF DeletesWhatIsBack
    <2> QED BY <2>1, <2>2, <2>3, <2>4, <2>5 DEF BackInv, MigratorBringsBack
  <1>3. CASE DeleteObject
    <2>1. /\ mpc = "delete" /\ mpc' = "unlink" /\ UNCHANGED disk
          /\ bucket' = [bucket EXCEPT ![todo[cur].remoteURI] = None]
      BY <1>3 DEF DeleteObject
    <2>2. cur \in Files /\ todo[cur].remoteURI = cur /\ Back(cur)
      BY <2>1, InHands DEF BackInv, MigratorBringsBack, AtWorkSteps, PromotionSteps
    <2>3. DeletesWhatIsBack
      BY <2>1, <2>2, BackMayGo
    <2>4. \A f \in Files : bucket'[f] \in {bucket[f], None}
      BY <2>1, <2>2, InHands
    <2>5. HandlerBringsBack'
      <3>1. ASSUME hpc = "write" PROVE HandlerBringsBack'
        BY <1>0, <2>4, <3>1, InHands DEF BackInv, HandlerBringsBack, handlerVars, RecallSteps
      <3>2. ASSUME hpc = "delete" PROVE HandlerBringsBack'
        <4>1. hfile \in Files /\ hremote = hfile /\ Back(hfile)
          BY <3>2, InHands DEF BackInv, HandlerBringsBack, RecallSteps
        <4>2. Back(hfile)'
          BY <1>0, <2>1, <2>4, <4>1 DEF Back, handlerVars
        <4> QED BY <1>0, <3>2, <4>1, <4>2 DEF HandlerBringsBack, handlerVars
      <3> QED BY <1>0, <3>1, <3>2 DEF HandlerBringsBack
    <2> QED BY <2>1, <2>3, <2>5 DEF BackInv, MigratorBringsBack
  <1>4. \/ GetObject \/ WriteFile \/ DeleteObject
        \/ UNCHANGED <<disk, bucket>> /\ mpc' \notin {"write", "delete"}
    BY DEF Promotion, ScanGhost, ScanPromotion, Scan, EndPromotion, PickPromotion,
           GetObjectFails, DeleteObjectFails, Unlink, MarkHot, ClearMeta, Set, worldVars
  <1> QED BY <1>a, <1>1, <1>2, <1>3, <1>4 DEF BackInv, MigratorBringsBack

\* A user who writes to the file gives it what it should have; one who writes
\* to a removed file does not change what the file holds.
LEMMA UsersDeleteNothing ==
    ASSUME Unmoved, IInv, OwnInv, BackInv, Users
    PROVE  BackInv' /\ DeletesWhatIsBack
  <1>0. UNCHANGED <<bucket, db, hpc, migratorVars, handlerVars>>
    BY UsersMoveNothing
  <1>1. ASSUME NEW g \in Files, Back(g)
        PROVE  Back(g)'
    <2>1. PICK f \in Files :
              \/ UserOpen(f) \/ UserClose(f) \/ UserRead(f)
              \/ \E v \in Versions : UserWrite(f, v) \/ UserCreate(f, v)
              \/ UserDelete(f)
              \/ \E h \in Files : UserRename(f, h)
      BY DEF Users
    <2>0. disk \in [Files -> Contents \cup {None}] /\ opened \in [Files -> {"no", "yes", "orphan"}]
            /\ truth \in [Files -> Versions \cup {None}]
      BY DEF IInv, TypeOK
    <2>2. CASE UserOpen(f) \/ UserClose(f) \/ UserRead(f)
      <3>1. UNCHANGED <<disk, truth>> /\ (opened'[g] = opened[g] \/ opened'[g] # "orphan")
        BY <2>0, <2>2 DEF UserOpen, UserClose, UserRead
      <3> QED BY <1>0, <1>1, <3>1 DEF Back
    <2>3. ASSUME NEW v \in Versions, UserWrite(f, v)
          PROVE  Back(g)'
      <3>1. CASE opened[f] = "yes"
        BY <1>0, <1>1, <2>0, <2>3, <3>1 DEF UserWrite, Back
      <3>2. CASE opened[f] = "orphan"
        <4>1. UNCHANGED <<disk, opened>> /\ truth' = [truth EXCEPT ![f] = v] /\ truth[f] # None
          BY <2>3, <3>2 DEF UserWrite
        <4> QED BY <1>0, <1>1, <2>0, <3>2, <4>1 DEF Back
      <3> QED BY <2>3, <3>1, <3>2 DEF UserWrite
    <2>4. ASSUME NEW v \in Versions, UserCreate(f, v)
          PROVE  Back(g)'
      BY <1>0, <1>1, <2>0, <2>4 DEF UserCreate, Back
    <2>5. CASE UserDelete(f)
      BY <1>0, <1>1, <2>0, <2>5 DEF UserDelete, Back
    <2>6. CASE \E h \in Files : UserRename(f, h)
      BY <2>6 DEF UserRename, UserTurn, Unmoved
    <2> QED BY <2>1, <2>2, <2>3, <2>4, <2>5, <2>6
  <1>2. /\ hpc = "delete" => hfile \in Files
        /\ mpc = "delete" => cur \in Files
    BY InHands DEF RecallSteps, AtWorkSteps, PromotionSteps
  <1>3. HandlerBringsBack' /\ MigratorBringsBack'
    BY <1>0, <1>1, <1>2
       DEF BackInv, HandlerBringsBack, MigratorBringsBack, migratorVars, handlerVars
  <1> QED BY <1>0, <1>3 DEF BackInv, DeletesWhatIsBack

LEMMA NextDeletes ==
    ASSUME Unmoved, IInv, DeleteInv, [Next]_vars
    PROVE  BackInv' /\ DeletesWhatIsBack
  <1>0. OwnInv /\ DemotedIsLocal /\ BackInv
    BY DEF DeleteInv
  <1>1. CASE UNCHANGED vars
    BY <1>0, <1>1 DEF vars, worldVars, migratorVars, handlerVars, BackInv, HandlerBringsBack,
                      MigratorBringsBack, Back, DeletesWhatIsBack
  <1>2. CASE MigratorNext /\ UNCHANGED <<handlerVars, truth>>
    BY <1>0, <1>2, DemotionDeletesNothing, PromotionDeletes DEF MigratorNext
  <1>3. CASE HandlerNext /\ UNCHANGED <<migratorVars, truth>>
    BY <1>0, <1>3, HandlerDeletes
  <1>4. CASE Users
    BY <1>0, <1>4, UsersDeleteNothing
  <1>5. CASE TimePasses
    <2>1. /\ UNCHANGED <<disk, bucket, opened, hpc, mpc, cur, mgot, truth, handlerVars>>
          /\ \A f \in Files : todo'[f].remoteURI = todo[f].remoteURI
      BY <1>5, AgedStays DEF TimePasses, IInv, TypeOK
    <2>2. mpc \in {"write", "delete"} => cur \in Files
      BY <1>0, InHands DEF AtWorkSteps, PromotionSteps
    <2> QED
      BY <1>0, <2>1, <2>2 DEF BackInv, HandlerBringsBack, MigratorBringsBack, Back,
                              DeletesWhatIsBack, handlerVars
  <1>6. CASE KillSupervisor \/ StartSupervisor
    BY <1>0, <1>6 DEF KillSupervisor, StartSupervisor, worldVars, handlerVars, BackInv,
                      HandlerBringsBack, MigratorBringsBack, Back, DeletesWhatIsBack
  <1>7. CASE KillHandler
    BY <1>0, <1>7 DEF KillHandler, migratorVars, BackInv, HandlerBringsBack,
                      MigratorBringsBack, Back, DeletesWhatIsBack
  <1> QED BY <1>1, <1>2, <1>3, <1>4, <1>5, <1>6, <1>7 DEF Next, Operator

-----------------------------------------------------------------------------
\* Initially nothing is in the bucket, nothing is listed and nothing is under way.
LEMMA InitDeletes == Init => DeleteInv
  <1> SUFFICES ASSUME Init PROVE DeleteInv
    OBVIOUS
  <1>1. queue = <<>> /\ hpc = "idle" /\ mpc = "scanDemotion" /\ todo = NothingToDo
    BY DEF Init, InitMigrator, InitHandler
  <1>2. ASSUME NEW f \in Files
        PROVE  Own(db[f], f) /\ Own(todo[f], f) /\ todo[f] = NoEntry
    <2>1. PICK open \in [Files -> Flag], age \in [Files -> Ages] :
              db = [g \in Files |-> IF truth[g] = None THEN NoEntry
                                   ELSE NewFileData(g, open[g], age[g])]
      BY DEF Init
    <2>2. db[f] = NoEntry \/ db[f] = NewFileData(f, open[f], age[f])
      BY <2>1
    <2>3. Own(NoEntry, f) /\ Own(NewFileData(f, open[f], age[f]), f)
      BY NewIsOwn
    <2> QED BY <1>1, <2>2, <2>3 DEF NothingToDo
  <1>3. OwnInv
    BY <1>1, <1>2 DEF OwnInv, NothingMoves, Waits, NamesAreOwn, ListedIsMade, Opening,
                      RecallSteps, AtWorkSteps, DemotionSteps, PromotionSteps
  <1>4. DemotedIsLocal /\ BackInv
    BY <1>1 DEF DemotedIsLocal, Demoting, DemotionSteps, BackInv, HandlerBringsBack,
                MigratorBringsBack
  <1> QED BY <1>3, <1>4 DEF DeleteInv

\* With sleeps long enough for the handler to catch up, and nothing renamed, no
\* promotion and no recall deletes an object that holds what the user last wrote
\* while the file does not: however many files there are, whatever users write,
\* create and remove meanwhile, also through a file that was removed under them,
\* whatever S3 fails to do, and whichever process is killed or started again.
THEOREM OnlyWhatIsBackGoes ==
    ASSUME Unmoved
    PROVE  Spec => DeletedIsBack
  <1>1. Init => IInv /\ DeleteInv
    BY InitIInv, InitDeletes
  <1>2. IInv /\ DeleteInv /\ [Next]_vars => (IInv /\ DeleteInv)'
    BY NextIInv, NextOwns, NextSpares, NextDeletes DEF DeleteInv
  <1>3. IInv /\ DeleteInv /\ [Next]_vars => [DeletesWhatIsBack]_vars
    BY NextDeletes
  <1>4. [DeletesWhatIsBack]_vars
           => [\A f \in Files :
                  bucket[f] # None /\ bucket'[f] = None /\ truth[f] = bucket[f]
                      => disk[f] = truth[f]]_vars
    BY DEF DeletesWhatIsBack
  <1> QED BY <1>1, <1>2, <1>3, <1>4, PTL DEF Spec, DeletedIsBack
==============================================================================
