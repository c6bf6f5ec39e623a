------------------------------ MODULE Migration ------------------------------
(***************************************************************************)
(* The migrator thread and the event handler working on one directory,     *)
(* one bucket and one catalogue, with the users of the directory and the   *)
(* operator who stops and starts the daemon.                               *)
(***************************************************************************)
EXTENDS Migrator, EventHandler, FiniteSets

CONSTANTS
    UserOps,    \* what users do: a subset of AllUserOps
    Quiet,      \* TRUE: users leave a file alone while it is being moved
    FreshNames, \* TRUE: no file is given a name that the object of another has
    LongOpens,  \* TRUE: a user may keep a file open for more than 60 seconds
    MaxQueue,   \* bound: users act only while fewer events are queued
    Kills,      \* the processes that may be killed: {"supervisor","handler"}
    Restart     \* TRUE: supervise may be started again

AllUserOps == {"open", "write", "create", "delete", "rename", "read"}

ASSUME UsersAssumption == /\ UserOps \subseteq AllUserOps
                          /\ Quiet \in BOOLEAN
                          /\ FreshNames \in BOOLEAN
                          /\ LongOpens \in BOOLEAN
                          /\ MaxQueue \in Nat \ {0}
                          /\ Kills \subseteq {"supervisor", "handler"}
                          /\ Restart \in BOOLEAN

VARIABLE
    truth       \* the content each file should have: what users last wrote

vars == <<worldVars, migratorVars, handlerVars, truth>>

servers == <<bucket, db, hpc, migratorVars, handlerVars>>

-----------------------------------------------------------------------------
(***************************************************************************)
(* Init: initialize has catalogued the files of the directory and started  *)
(* the handler; supervise has just started.  isOpen is whatever the        *)
(* uninitialised member of FileData held.                                  *)
(***************************************************************************)
Init ==
    /\ truth \in [Files -> Versions \cup {None}]
    /\ disk = truth
    /\ bucket = [f \in Files |-> None]
    /\ \E open \in [Files -> Flag], age \in [Files -> Ages] :
           db = [f \in Files |-> IF truth[f] = None THEN NoEntry
                                 ELSE NewFileData(f, open[f], age[f])]
    /\ queue = <<>>
    /\ opened = [f \in Files |-> "no"]
    /\ InitMigrator
    /\ InitHandler

-----------------------------------------------------------------------------
(***************************************************************************)
(* Where the hash of a file is: it is renamed when the handler gets to the *)
(* events of a move, and until then filed under the old name.              *)
(***************************************************************************)

\* The handler has not yet renamed the hash of the file that became f.
MovePending(f) == \/ \E i \in 1..Len(queue) : queue[i] = Ev("movedTo", f)
                  \/ hpc = "rename" /\ hfile = f

\* The source of the move whose target is queue[i].
MoveSource(i) == IF i > 1 /\ queue[i - 1].type = "movedFrom" THEN queue[i - 1].file
                                                             ELSE oldName

\* The name under which the hash of the file now called f is filed: the moves
\* that the handler has not heard of, taken back one after the other.
FiledUnder(f) ==
    LET last == Len(queue) + 1
        name[i \in 1..last] ==
            IF i = last THEN f
            ELSE IF queue[i] = Ev("movedTo", name[i + 1]) THEN MoveSource(i)
            ELSE name[i + 1]
    IN  IF ~MovePending(f) THEN f
        ELSE IF hpc = "rename" /\ hfile = name[1] THEN oldName
        ELSE name[1]

-----------------------------------------------------------------------------
(***************************************************************************)
(* The users of the directory.                                             *)
(***************************************************************************)

\* The handler is about to fetch f back, or is doing so.
BeingRecalled(f) ==
    \/ hfile = f /\ hpc \in {"openLocal", "openMeta"} \cup RecallSteps
    \/ /\ Cold(db[f]) \/ disk[f] = Empty
       /\ \E i \in 1..Len(queue) : queue[i] = Ev("open", f)

\* A quiet user does not change a file that is being moved or still has to
\* be fetched back, and does not open one that is about to be demoted.
MayChange(f) == Quiet => todo[f] = NoEntry /\ ~BeingRecalled(f)
MayOpen(f) == Quiet => todo[f] = NoEntry \/ mpc \in PromotionSteps

\* No object of another file has this name: own is the name under which the
\* hash of the file is filed that may have one so called.
Fresh(name, own) ==
    FreshNames => \A f \in Files : /\ db[f].remoteURI = name => f = own
                                   /\ todo[f].remoteURI # name

UserTurn(op) == op \in UserOps /\ Len(queue) < MaxQueue

UserOpen(f) ==
    /\ UserTurn("open") /\ MayOpen(f)
    /\ opened[f] = "no" /\ disk[f] # None
    /\ opened' = [opened EXCEPT ![f] = "yes"]
    /\ Notify(<<Ev("open", f)>>)
    /\ UNCHANGED <<disk, truth, servers>>

\* A write to a file that was removed meanwhile goes to the removed file; its
\* events still carry the name it had.
UserWrite(f, v) ==
    /\ UserTurn("write") /\ MayChange(f)
    /\ opened[f] \in {"yes", "orphan"}
    /\ truth[f] \notin {None, v}
    /\ Quiet => disk[f] = truth[f]
    /\ truth' = [truth EXCEPT ![f] = v]
    /\ disk' = IF opened[f] = "yes" THEN [disk EXCEPT ![f] = v] ELSE disk
    /\ Notify(<<Ev("modify", f)>>)
    /\ UNCHANGED <<opened, servers>>

UserClose(f) ==
    /\ UserTurn("open")
    /\ opened[f] # "no"
    /\ opened' = [opened EXCEPT ![f] = "no"]
    /\ Notify(<<Ev("close", f)>>)
    /\ UNCHANGED <<disk, truth, servers>>

\* Another program reads the file while the first may have it open.
UserRead(f) ==
    /\ UserTurn("read") /\ MayOpen(f)
    /\ disk[f] # None
    /\ Notify(ReadEvents(f))
    /\ UNCHANGED <<disk, opened, truth, servers>>

UserCreate(f, v) ==
    /\ UserTurn("create") /\ MayChange(f) /\ Fresh(f, None)
    /\ disk[f] = None /\ truth[f] = None /\ opened[f] = "no"
    /\ disk' = [disk EXCEPT ![f] = v]
    /\ truth' = [truth EXCEPT ![f] = v]
    /\ Notify(RewriteEvents(f, v))
    /\ UNCHANGED <<opened, servers>>

\* Removing a file through its name; a quiet user closes it first.
UserDelete(f) ==
    /\ UserTurn("delete") /\ MayChange(f)
    /\ disk[f] # None /\ truth[f] # None
    /\ opened[f] = "no" \/ (~Quiet /\ opened[f] = "yes")
    /\ disk' = [disk EXCEPT ![f] = None]
    /\ truth' = [truth EXCEPT ![f] = None]
    /\ opened' = [opened EXCEPT ![f] = IF @ = "yes" THEN "orphan" ELSE @]
    /\ Notify(<<Ev("delete", f)>>)
    /\ UNCHANGED servers

UserRename(f, g) ==
    /\ UserTurn("rename") /\ MayChange(f) /\ MayChange(g) /\ Fresh(g, FiledUnder(f))
    /\ f # g
    /\ disk[f] # None /\ truth[f] # None /\ opened[f] = "no"
    /\ disk[g] = None /\ truth[g] = None /\ opened[g] = "no"
    /\ disk' = [disk EXCEPT ![g] = disk[f], ![f] = None]
    /\ truth' = [truth EXCEPT ![g] = truth[f], ![f] = None]
    /\ Notify(<<Ev("movedFrom", f), Ev("movedTo", g)>>)
    /\ UNCHANGED <<opened, servers>>

Users == \E f \in Files :
            \/ UserOpen(f) \/ UserClose(f) \/ UserRead(f)
            \/ \E v \in Versions : UserWrite(f, v) \/ UserCreate(f, v)
            \/ UserDelete(f)
            \/ \E g \in Files : UserRename(f, g)

-----------------------------------------------------------------------------
(***************************************************************************)
(* Time, and the operator.                                                 *)
(***************************************************************************)
Aged(e) == IF e.lastModified = "recent" THEN [e EXCEPT !.lastModified = "old"]
                                        ELSE e

\* More than 60 seconds pass.
TimePasses ==
    /\ LongOpens \/ \A f \in Files : opened[f] = "no"
    /\ db' = [f \in Files |-> Aged(db[f])]
    /\ todo' = [f \in Files |-> Aged(todo[f])]
    /\ <<db', todo'>> # <<db, todo>>
    /\ UNCHANGED <<disk, bucket, queue, opened, hpc, mpc, cur, mgot,
                   handlerVars, truth>>

\* pkill supervise: the thread stops wherever it is.
KillSupervisor ==
    /\ "supervisor" \in Kills /\ mpc # "dead"
    /\ mpc' = "dead" /\ todo' = NothingToDo /\ cur' = None /\ mgot' = None
    /\ UNCHANGED <<worldVars, handlerVars, truth>>

StartSupervisor ==
    /\ Restart /\ mpc = "dead"
    /\ mpc' = "scanDemotion" /\ todo' = NothingToDo /\ cur' = None
    /\ mgot' = None
    /\ UNCHANGED <<worldVars, handlerVars, truth>>

\* The handler is killed: the events it had not read are lost.
KillHandler ==
    /\ "handler" \in Kills /\ hpc # "dead"
    /\ hpc' = "dead" /\ queue' = <<>>
    /\ hfile' = None /\ hremote' = None /\ hgot' = None /\ oldName' = None
    /\ UNCHANGED <<disk, bucket, db, opened, migratorVars, truth>>

Operator == KillSupervisor \/ StartSupervisor \/ KillHandler

-----------------------------------------------------------------------------
Next == \/ MigratorNext /\ UNCHANGED <<handlerVars, truth>>
        \/ HandlerNext /\ UNCHANGED <<migratorVars, truth>>
        \/ Users
        \/ TimePasses
        \/ Operator

Spec == Init /\ [][Next]_vars

-----------------------------------------------------------------------------
(***************************************************************************)
(* Fairness.  The handler's process blocks in read() and nowhere else, so  *)
(* it takes its next call as long as there is one.  Nothing is assumed of  *)
(* the migrator, the users, the operator or the clock.                     *)
(***************************************************************************)
Fairness == WF_vars(HandlerNext /\ UNCHANGED <<migratorVars, truth>>)

FairSpec == Spec /\ Fairness

-----------------------------------------------------------------------------
(***************************************************************************)
(* Properties.                                                             *)
(***************************************************************************)

\* Type invariant: what every variable of the two processes and of the world
\* may hold.
TypeOK ==
    /\ disk \in [Files -> Contents \cup {None}]
    /\ bucket \in [Files -> Contents \cup {None}]
    /\ db \in [Files -> Entries]
    /\ queue \in Seq(Events)
    /\ opened \in [Files -> {"no", "yes", "orphan"}]
    /\ hpc \in HandlerSteps
    /\ mpc \in MigratorSteps
    /\ todo \in [Files -> Entries]
    /\ cur \in Files \cup {None}
    /\ mgot \in Contents \cup {None}
    /\ hfile \in Files \cup {None}
    /\ hremote \in Files \cup {None, Nil}
    /\ hgot \in Contents \cup {None}
    /\ oldName \in Files \cup {None}
    /\ truth \in [Files -> Versions \cup {None}]

\* Nothing the users wrote is lost: the content of each file is in the
\* directory under its name, or in the bucket under some name, whatever
\* demotion, promotion or recall (demoteObject, promoteObject) is under way.
ContentSomewhere ==
    \A f \in Files : truth[f] # None =>
        \/ disk[f] = truth[f]
        \/ \E o \in Files : bucket[o] = truth[f]

\* The hash of g leads a recall (FileEventHandler's IN_OPEN) to the content
\* that file f should have.
LeadsTo(g, f) ==
    /\ db[g].form = "made" /\ db[g].isLocal = 0 /\ db[g].isMetadata = 1
    /\ InBucket(db[g].remoteURI) /\ bucket[db[g].remoteURI] = truth[f]

\* f is between its removal and the flag that makes it cold; manageFiles holds
\* the name of its object.
MidDemotion(f) ==
    /\ cur = f /\ mpc \in {"record", "markMeta", "stub", "markCold"}
    /\ bucket[todo[f].remoteURI] = truth[f]

\* No file is stranded: either its content is in the directory, or its hash
\* (still under the old name while a move is pending) says cold, metadata only
\* and names an object with that very content, or manageFiles is on the way
\* from the first to the second.
Reachable ==
    \A f \in Files : truth[f] # None =>
        \/ disk[f] = truth[f]
        \/ LeadsTo(f, f)
        \/ MovePending(f) /\ \E g \in Files : LeadsTo(g, f)
        \/ MidDemotion(f)

\* What a user gets who opens f and waits: a placeholder stands for the object
\* that the hash names; a file that manageFiles has removed, for the object it
\* has just been uploaded to.
Content(f) ==
    CASE cur = f /\ mpc \in {"record", "markMeta", "stub"} ->
             bucket[todo[f].remoteURI]
      [] disk[f] = Empty ->
             LET e == IF cur = f /\ mpc = "markCold" THEN todo[f] ELSE db[FiledUnder(f)]
             IN  IF InBucket(e.remoteURI) THEN bucket[e.remoteURI] ELSE Empty
      [] OTHER -> disk[f]

Plain == INSTANCE Directory WITH content <- [f \in Files |-> Content(f)]

\* The tiered directory is a directory: demotions, promotions, recalls and the
\* catalogue change no content under any name, and a user's change is one step.
ImplementsDirectory == Plain!Spec

\* Neither process reads a hash that is not there or not laid out as
\* Redis_HGETALL expects: the stoi of a missing field throws and kills it.
NoCrash == /\ mpc = "dead" => "supervisor" \in Kills
           /\ hpc = "dead" => "handler" \in Kills

\* Once the handler has caught up and no migration is under way, the catalogue
\* tells the truth of every file: it has a hash iff it exists, under its own
\* name, and isLocal and isMetadata say where the content is.
CatalogueAgrees ==
    HandlerIdle /\ cur = None => \A f \in Files :
        /\ truth[f] = None <=> db[f].form = "none"
        /\ truth[f] # None => /\ db[f].form = "made"
                              /\ db[f].fileName = f
                              /\ db[f].isLocal = 1 <=> disk[f] = truth[f]
                              /\ db[f].isMetadata = 1 - db[f].isLocal

\* A cold file is always marked as metadata.  An OPEN event recalls only files
\* that are both (FileEventHandler.cpp tests one flag inside the other), so a
\* cold file without the mark would never come back.
ColdIsMarked ==
    \A f \in Files :
        db[f].form = "made" /\ db[f].isLocal = 0 => db[f].isMetadata = 1

\* promoteObject deletes an object only when the content it holds has been
\* written back to every file that should have it (or is in another object).
DeleteKeepsContent ==
    [][\A o, f \in Files :
         bucket[o] # None /\ bucket'[o] = None /\ truth[f] = bucket[o]
            => \/ disk[f] = truth[f]
               \/ \E p \in Files : bucket'[p] = truth[f]]_vars

\* Where nothing is renamed, an object is only ever that of the file of its name,
\* and no step deletes the last content a user wrote to a file while the file
\* does not have it: promoteObject and IN_OPEN delete what is back.
DeletedIsBack ==
    [][\A f \in Files :
         bucket[f] # None /\ bucket'[f] = None /\ truth[f] = bucket[f]
            => disk[f] = truth[f]]_vars

\* manageFiles demotes no file that was modified, opened or recalled at most a
\* minute ago ("Do not bounce back if under a minute old").
NoBounceBack ==
    [][\A f \in Files : PickDemotion(f) => db[f].lastModified # "recent"]_vars

\* The migrator never takes a file away from a user who has it open ("File is
\* open, skipping demotion!").
OpenRespected ==
    [][\A f \in Files :
         Remove /\ cur = f => opened[f] # "yes"]_vars

\* The whole of a demotion is on record when manageFiles turns to the next
\* file: the hash still is the one it made, and says cold, metadata only.
DemotionRecorded ==
    [][\A f \in Files : RestoreTime /\ cur = f =>
         /\ db'[f].form = "made"
         /\ db'[f].isLocal = 0
         /\ db'[f].isMetadata = 1]_vars

\* A user who opens a cold file and waits gets its content.
RecallCompletes ==
    \A f \in Files :
        opened[f] = "yes" /\ disk[f] = Empty
            ~> disk[f] = truth[f] \/ opened[f] # "yes"
==============================================================================
