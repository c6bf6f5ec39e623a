------------------------------- MODULE Migrator -------------------------------
(***************************************************************************)
(* The migrator thread of supervise: manageFiles in Supervisor.cpp, with   *)
(* the calls it makes to AWSConnector and Redis_Client.                    *)
(*                                                                         *)
(* One action per call that reads or changes something another process     *)
(* can see.  demoteObject and promoteObject are two actions each (the S3   *)
(* call and the file operation), because an event or a user can come in    *)
(* between.  Which files the policies select is not modelled here: a scan  *)
(* yields any subset of the files the code may select at all (the local    *)
(* ones to demote, the others to promote), none of them when the policies  *)
(* have not been parsed.                                                   *)
(***************************************************************************)
EXTENDS World

CONSTANT
    DaylightZone    \* TRUE: local time has a daylight-saving rule, so a time
                    \* read back with an uninitialised tm_isdst may come out
                    \* an hour early or late

ASSUME DaylightZoneAssumption == DaylightZone \in BOOLEAN

VARIABLES
    mpc,        \* the next call of manageFiles
    todo,       \* the rest of demotionList or promotionList: the FileData of
                \* each listed file as the scan read it, NoEntry when not listed
    cur,        \* the file at hand, None between two files
    mgot        \* GetObject's body, not yet written to the file

migratorVars == <<mpc, todo, cur, mgot>>

DemotionSteps == {"demote", "link", "upload", "remove", "record", "markMeta",
                  "stub", "markCold", "restore"}
PromotionSteps == {"promote", "get", "write", "delete", "unlink", "hot",
                   "unmeta"}
MigratorSteps == {"scanDemotion", "scanPromotion", "dead"}
                     \cup DemotionSteps \cup PromotionSteps

NothingToDo == [f \in Files |-> NoEntry]

InitMigrator == /\ mpc = "scanDemotion"
                /\ todo = NothingToDo
                /\ cur = None
                /\ mgot = None

-----------------------------------------------------------------------------
(***************************************************************************)
(* Scans.  A scan reads every selected hash with HGETALL.                  *)
(***************************************************************************)

\* The FileData of the chosen files, with Last_Modified as HGETALL parsed it.
Listed(chosen, age) ==
    [f \in Files |-> IF f \in chosen THEN [db[f] EXCEPT !.lastModified = age[f]]
                                     ELSE NoEntry]

Scan(flag, next) ==
    /\ Slept
    /\ \E chosen \in SUBSET {f \in Files : db[f].form = "made"
                                              /\ db[f].isLocal = flag} :
           \E age \in [chosen -> Ages] :
               /\ DaylightZone \/ \A f \in chosen : age[f] = db[f].lastModified
               /\ todo' = Listed(chosen, age)
    /\ mpc' = next
    /\ UNCHANGED <<worldVars, cur, mgot>>

\* A query that selects a ghost hash reads past the end of the reply.
ScanGhost ==
    /\ mpc \in {"scanDemotion", "scanPromotion"} /\ Slept
    /\ \E f \in Files : Indexed(db[f]) /\ ~Readable(db[f])
    /\ mpc' = "dead"
    /\ UNCHANGED <<worldVars, todo, cur, mgot>>

ScanDemotion == mpc = "scanDemotion" /\ Scan(1, "demote")
ScanPromotion == mpc = "scanPromotion" /\ Scan(0, "promote")

\* The list is finished.
EndDemotion ==
    /\ mpc = "demote" /\ todo = NothingToDo
    /\ mpc' = "scanPromotion"
    /\ UNCHANGED <<worldVars, todo, cur, mgot>>

EndPromotion ==
    /\ mpc = "promote" /\ todo = NothingToDo
    /\ mpc' = "scanDemotion"
    /\ UNCHANGED <<worldVars, todo, cur, mgot>>

-----------------------------------------------------------------------------
(***************************************************************************)
(* A call of one of Redis_Client's setters on the file at hand, e being    *)
(* the hash it leaves.                                                     *)
(***************************************************************************)
Set(e, next) == /\ db' = [db EXCEPT ![cur] = e]
                /\ mpc' = IF SetterReturns(e) THEN next ELSE "dead"
                /\ UNCHANGED <<disk, bucket, queue, opened, hpc, mgot>>

\* The file at hand is done: on to the next one.
Finish(next) == IF mpc' = next
                THEN todo' = [todo EXCEPT ![cur] = NoEntry] /\ cur' = None
                ELSE UNCHANGED <<todo, cur>>

-----------------------------------------------------------------------------
(***************************************************************************)
(* Demotion.                                                               *)
(***************************************************************************)

\* getIsOpen on a hash without the field ends in stoi(""), which throws.
PickDies(f) ==
    /\ mpc = "demote" /\ todo[f] # NoEntry
    /\ db[f].isOpen = Nil
    /\ mpc' = "dead"
    /\ UNCHANGED <<worldVars, todo, cur, mgot>>

\* Mutant: the bounce-back test is left out.
AnyAge(f) == f \notin Files

TooYoung(f) == todo[f].lastModified = "recent"

\* The file is open, or was modified at most a minute ago: not demoted.
SkipDemotion(f) ==
    /\ mpc = "demote" /\ todo[f] # NoEntry
    /\ db[f].isOpen = 1 \/ (db[f].isOpen = 0 /\ TooYoung(f))
    /\ todo' = [todo EXCEPT ![f] = NoEntry]
    /\ UNCHANGED <<worldVars, mpc, cur, mgot>>

PickDemotion(f) ==
    /\ mpc = "demote" /\ todo[f] # NoEntry
    /\ db[f].isOpen = 0 /\ ~TooYoung(f)
    /\ cur' = f
    /\ mpc' = IF todo[f].remoteURI = None THEN "link" ELSE "upload"
    /\ UNCHANGED <<worldVars, todo, mgot>>

\* A file that has no object yet gets one of its own name.
LinkRemote ==
    /\ mpc = "link"
    /\ Set(SetRemoteURI(db[cur], todo[cur].fileName), "upload")
    /\ todo' = [todo EXCEPT ![cur].remoteURI = todo[cur].fileName]
    /\ UNCHANGED cur

\* Mutant: an object that exists is taken to be up to date.
UploadOnce ==
    /\ mpc = "upload"
    /\ disk[cur] # None
    /\ bucket' = [bucket EXCEPT ![todo[cur].remoteURI] =
                      IF @ = None THEN disk[cur] ELSE @]
    /\ Notify(ReadEvents(cur))
    /\ mpc' = "remove"
    /\ UNCHANGED <<disk, db, opened, hpc, todo, cur, mgot>>

\* putObject; the file is removed only if it succeeded.
Upload ==
    /\ mpc = "upload"
    /\ disk[cur] # None
    /\ bucket' = [bucket EXCEPT ![todo[cur].remoteURI] = disk[cur]]
    /\ Notify(ReadEvents(cur))
    /\ mpc' = "remove"
    /\ UNCHANGED <<disk, db, opened, hpc, todo, cur, mgot>>

UploadFails ==
    /\ mpc = "upload"
    /\ disk[cur] = None \/ "put" \in S3Faults
    /\ Notify(ReadEvents(cur))
    /\ mpc' = "record"
    /\ UNCHANGED <<disk, bucket, db, opened, hpc, todo, cur, mgot>>

\* std::remove, whose result demoteObject inverts and nobody reads.
Remove ==
    /\ mpc = "remove"
    /\ disk' = [disk EXCEPT ![cur] = None]
    /\ opened' = [opened EXCEPT ![cur] = IF @ = "yes" THEN "orphan" ELSE @]
    /\ IF disk[cur] = None THEN UNCHANGED queue
                           ELSE Notify(<<Ev("delete", cur)>>)
    /\ mpc' = "record"
    /\ UNCHANGED <<bucket, db, hpc, todo, cur, mgot>>

\* Mutant: the hash is taken to have outlived the removal.
RecordSkipped ==
    /\ mpc = "record" /\ Slept
    /\ mpc' = "markMeta"
    /\ UNCHANGED <<worldVars, todo, cur, mgot>>

\* Redis_HMSET(tempFD): the whole hash, as the scan read it.
Record ==
    /\ mpc = "record" /\ Slept
    /\ db' = [db EXCEPT ![cur] = HMSET(@, todo[cur])]
    /\ mpc' = "markMeta"
    /\ UNCHANGED <<disk, bucket, queue, opened, hpc, todo, cur, mgot>>

\* Mutant: the hash that was written is taken to be marked.
MarkMetaSkipped == /\ mpc = "markMeta" /\ Slept
                   /\ mpc' = "stub"
                   /\ UNCHANGED <<worldVars, todo, cur, mgot>>

MarkMeta == /\ mpc = "markMeta" /\ Slept
            /\ Set(SetIsMetadata(db[cur], 1), "stub")
            /\ UNCHANGED <<todo, cur>>

\* ofstream newFile(localURI): an empty placeholder under the file's name.
Stub ==
    /\ mpc = "stub" /\ Slept
    /\ Notify(RewriteEvents(cur, Empty))
    /\ disk' = [disk EXCEPT ![cur] = Empty]
    /\ mpc' = "markCold"
    /\ UNCHANGED <<bucket, db, opened, hpc, todo, cur, mgot>>

MarkCold == /\ mpc = "markCold" /\ Slept
            /\ Set(SetIsLocal(db[cur], 0), "restore")
            /\ UNCHANGED <<todo, cur>>

\* The access time of before the demotion is put back.
RestoreTime ==
    /\ mpc = "restore" /\ Slept
    /\ Set(SetLastTimeModified(db[cur], todo[cur].lastModified), "demote")
    /\ Finish("demote")

-----------------------------------------------------------------------------
(***************************************************************************)
(* Promotion.  What promoteObject returns is never looked at.              *)
(***************************************************************************)
PickPromotion(f) ==
    /\ mpc = "promote" /\ todo[f] # NoEntry
    /\ cur' = f
    /\ mpc' = "get"
    /\ UNCHANGED <<worldVars, todo, mgot>>

\* Mutant: the object is deleted before its body is written.
GetWithoutWrite ==
    /\ mpc = "get"
    /\ InBucket(todo[cur].remoteURI)
    /\ mpc' = "delete"
    /\ UNCHANGED <<worldVars, todo, cur, mgot>>

GetObject ==
    /\ mpc = "get"
    /\ InBucket(todo[cur].remoteURI)
    /\ mgot' = bucket[todo[cur].remoteURI]
    /\ mpc' = "write"
    /\ UNCHANGED <<worldVars, todo, cur>>

GetObjectFails ==
    /\ mpc = "get"
    /\ ~InBucket(todo[cur].remoteURI) \/ "get" \in S3Faults
    /\ mpc' = "unlink"
    /\ UNCHANGED <<worldVars, todo, cur, mgot>>

WriteFile ==
    /\ mpc = "write"
    /\ Notify(RewriteEvents(cur, mgot))
    /\ disk' = [disk EXCEPT ![cur] = mgot]
    /\ mgot' = None
    /\ mpc' = "delete"
    /\ UNCHANGED <<bucket, db, opened, hpc, todo, cur>>

DeleteObject ==
    /\ mpc = "delete"
    /\ bucket' = [bucket EXCEPT ![todo[cur].remoteURI] = None]
    /\ mpc' = "unlink"
    /\ UNCHANGED <<disk, db, queue, opened, hpc, todo, cur, mgot>>

DeleteObjectFails ==
    /\ mpc = "delete" /\ "delete" \in S3Faults
    /\ mpc' = "unlink"
    /\ UNCHANGED <<worldVars, todo, cur, mgot>>

Unlink == /\ mpc = "unlink"
          /\ Set(SetRemoteURI(db[cur], None), "hot")
          /\ UNCHANGED <<todo, cur>>

MarkHot == /\ mpc = "hot"
           /\ Set(SetIsLocal(db[cur], 1), "unmeta")
           /\ UNCHANGED <<todo, cur>>

\* Mutant: the flag is counted down instead of cleared.
DecrementMeta == /\ mpc = "unmeta"
                 /\ Set(SetIsMetadata(db[cur], db[cur].isMetadata - 1), "promote")
                 /\ Finish("promote")

ClearMeta == /\ mpc = "unmeta"
             /\ Set(SetIsMetadata(db[cur], 0), "promote")
             /\ Finish("promote")

-----------------------------------------------------------------------------
Demotion ==
    \/ ScanDemotion \/ EndDemotion
    \/ \E f \in Files : PickDies(f) \/ SkipDemotion(f) \/ PickDemotion(f)
    \/ LinkRemote \/ Upload \/ UploadFails \/ Remove
    \/ Record \/ MarkMeta \/ Stub \/ MarkCold \/ RestoreTime

Promotion ==
    \/ ScanPromotion \/ EndPromotion
    \/ \E f \in Files : PickPromotion(f)
    \/ GetObject \/ GetObjectFails \/ WriteFile
    \/ DeleteObject \/ DeleteObjectFails
    \/ Unlink \/ MarkHot \/ ClearMeta

MigratorNext == Demotion \/ Promotion \/ ScanGhost
==============================================================================
