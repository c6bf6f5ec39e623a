-------------------------------- MODULE World --------------------------------
(***************************************************************************)
(* What the two processes of the system share, and the outside world they  *)
(* act on: the watched directory, the S3 bucket, the Redis catalogue and   *)
(* the inotify queue.  Migrator.tla and EventHandler.tla extend this       *)
(* module; Migration.tla composes them with the users of the directory.    *)
(***************************************************************************)
EXTENDS Catalogue, Naturals, Sequences

CONSTANTS
    Versions,   \* contents a user may give to a file
    Empty,      \* the content of the placeholder that stands for a cold file
    S3Faults,   \* the S3 calls that may fail: a subset of {"put","get","delete"}
    Prompt      \* TRUE: the migrator's sleeps are long enough for the event
                \* handler to have emptied its queue when they end

ASSUME ContentsAssumption == /\ Empty \notin Versions
                             /\ None \notin Versions \cup {Empty}

ASSUME WorldAssumption == /\ S3Faults \subseteq {"put", "get", "delete"}
                          /\ Prompt \in BOOLEAN

VARIABLES
    disk,       \* the watched directory: name -> content, or None
    bucket,     \* the S3 bucket: object -> content, or None
    db,         \* the Redis catalogue: name -> hash
    queue,      \* inotify events the handler has not read
    opened,     \* "yes": a user has the file open; "orphan": has open a file
                \* that was removed under that name
    hpc         \* where the event handler's process is ("dead": gone)

worldVars == <<disk, bucket, db, queue, opened, hpc>>

Contents == Versions \cup {Empty}

EventTypes == {"create", "open", "modify", "close", "delete",
               "movedFrom", "movedTo"}
Events == [type : EventTypes, file : Files]

Ev(type, f) == [type |-> type, file |-> f]

\* inotify queues events only for a process that is watching.
Notify(events) == queue' = IF hpc = "dead" THEN queue ELSE queue \o events

\* Opening f for writing with truncation, writing content and closing it.
\* Truncating a file that exists is a modification; so is writing some bytes.
RewriteEvents(f, content) ==
    IF disk[f] = None
    THEN <<Ev("create", f), Ev("open", f)>>
         \o (IF content = Empty THEN <<>> ELSE <<Ev("modify", f)>>)
         \o <<Ev("close", f)>>
    ELSE <<Ev("open", f), Ev("modify", f), Ev("close", f)>>

\* A file opened for reading and closed: PutObject's body.
ReadEvents(f) ==
    IF disk[f] = None THEN <<>> ELSE <<Ev("open", f), Ev("close", f)>>

\* GetObject can succeed: the key names an object.  ("" names none.)
InBucket(object) == object \in Files /\ bucket[object] # None

\* The handler has read and finished everything the kernel queued for it.
HandlerIdle == hpc = "idle" /\ queue = <<>>

\* Guard of the steps that follow a sleep.
Slept == Prompt => hpc = "dead" \/ HandlerIdle
==============================================================================
