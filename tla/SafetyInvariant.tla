--------------------------- MODULE SafetyInvariant ----------------------------
(***************************************************************************)
(* Why no content is lost, no file is stranded and neither process dies:   *)
(* an inductive invariant of Migration.tla, for a world in which the code  *)
(* may count on its sleeps and on its users.  SafetyProofs.tla proves it.  *)
(*                                                                         *)
(* Without moves a file is filed, and stored, under its own name for good, *)
(* so the invariant is stated file by file.                                *)
(***************************************************************************)
EXTENDS Migration

\* The assumptions on the world.
Calm == /\ Prompt /\ Quiet /\ ~LongOpens /\ ~DaylightZone
        /\ S3Faults \subseteq {"delete"}
        /\ "rename" \notin UserOps
        /\ "handler" \notin Kills
        /\ Restart => "supervisor" \notin Kills

-----------------------------------------------------------------------------
(***************************************************************************)
(* The two processes as one file sees them.                                *)
(***************************************************************************)

\* The call that manageFiles makes next for f, and the handler's.
Moving(f) == IF cur = f THEN mpc ELSE "off"
Handling(f) == IF hfile = f THEN hpc ELSE "off"

\* f is on the list of the pass under way, or at hand.
ToDemote(f) == todo[f] # NoEntry /\ mpc \in DemotionSteps
ToPromote(f) == todo[f] # NoEntry /\ mpc \in PromotionSteps

Stopped == mpc = "dead"

\* The steps of an OPEN event.
OpenSteps == {"openLocal", "openMeta", "openMark", "openHits"} \cup RecallSteps

-----------------------------------------------------------------------------
(***************************************************************************)
(* The events of f in a queue q.                                           *)
(***************************************************************************)
NoDelete(f, q) == \A i \in 1..Len(q) : q[i] # Ev("delete", f)

OpenPending(f, q) == \E i \in 1..Len(q) : q[i] = Ev("open", f)

\* An open event of the file that is there now.
FreshOpen(f, q) == \E i \in 1..Len(q) :
                       /\ q[i] = Ev("open", f)
                       /\ \A k \in i + 1 .. Len(q) : q[k] # Ev("delete", f)

\* No open event is followed by the delete event of the same file.
OpensAreFresh(f, q) ==
    \A i, k \in 1..Len(q) :
        i < k /\ q[i] = Ev("open", f) => q[k] # Ev("delete", f)

OnlyCloses(f, q) == \A i \in 1..Len(q) : q[i].file = f => q[i].type = "close"

Silent(f, q) == \A i \in 1..Len(q) : q[i].file # f

NoMoves(q) == \A i \in 1..Len(q) : q[i].type \notin {"movedFrom", "movedTo"}

\* The first n events leave f with a hash if they find none.
CreatedIn(f, q, n) ==
    \E j \in 1..n : /\ q[j] = Ev("create", f)
                    /\ \A k \in j + 1 .. n : q[k] # Ev("delete", f)

Recreated(f, q) == CreatedIn(f, q, Len(q))

\* The events that the handler can only serve when f has a hash.
NeedsHash(f, e) == e.file = f /\ e.type \in {"open", "modify", "close"}

\* Every event of f finds a hash, if there is none at first,
ServedWithout(f, q) ==
    \A i \in 1..Len(q) : NeedsHash(f, q[i]) => CreatedIn(f, q, i - 1)

\* or if there is one at first.
ServedWith(f, q) ==
    \A i \in 1..Len(q) :
        NeedsHash(f, q[i]) => \/ \A k \in 1 .. i - 1 : q[k] # Ev("delete", f)
                              \/ CreatedIn(f, q, i - 1)

-----------------------------------------------------------------------------
(***************************************************************************)
(* What becomes of the hash of f.                                          *)
(***************************************************************************)

\* Once the handler is through with the call at hand, f has a hash.
HashStands(f) == \/ db[f].form = "made" /\ Handling(f) # "erase"
                 \/ Handling(f) = "insert"

\* No event is handled for a file without a hash.
EventsServed(f) == \/ HashStands(f) /\ ServedWith(f, queue)
                   \/ ~HashStands(f) /\ ServedWithout(f, queue)

\* f has a hash when all events are handled.
WillStand(f) == \/ HashStands(f) /\ NoDelete(f, queue)
                \/ Recreated(f, queue)

\* The hash is that of the file that is there now.
Current(f) == db[f].form = "made" /\ Handling(f) # "erase" /\ NoDelete(f, queue)

-----------------------------------------------------------------------------
(***************************************************************************)
(* The invariant, for a file f.                                            *)
(***************************************************************************)

\* A hash, or the copy of it in a list, with every field it needs.
Whole(e, f) ==
    /\ e.form = "made" /\ e.fileName = f /\ e.remoteURI \in {None, f}
    /\ e.isLocal \in Flag /\ e.isMetadata \in Flag /\ e.isOpen \in Flag
    /\ e.lastModified \in Ages

HashIsWhole(f) == db[f] = NoEntry \/ Whole(db[f], f)

\* The handler works on a hash that is there, and makes none that is.
HandlerHasHash(f) ==
    /\ Handling(f) \in OpenSteps \cup {"resize"} => db[f].form = "made"
    /\ Handling(f) = "insert" => db[f] = NoEntry

\* When the events are handled, there is a hash iff there is a file.
HashIffFile(f) ==
    /\ EventsServed(f)
    /\ disk[f] # None => WillStand(f)
    /\ disk[f] = None /\ WillStand(f) =>
           Stopped \/ Moving(f) \in {"markMeta", "stub"}

\* A name holds what it should, a placeholder or nothing.
DiskHolds(f) ==
    /\ disk[f] \in {truth[f], Empty, None}
    /\ truth[f] = None => disk[f] = None
    /\ disk[f] = None => \/ truth[f] = None \/ Stopped
                         \/ Moving(f) \in {"record", "markMeta", "stub"}
    /\ disk[f] = Empty => \/ Current(f) /\ db[f].isLocal = 0
                          \/ Stopped \/ Moving(f) = "markCold"

\* The content is in the directory or in the object of the file's name.
Somewhere(f) == truth[f] # None => disk[f] = truth[f] \/ bucket[f] = truth[f]

\* What is known of the content while a recall or a promotion may be under way.
Fetchable(f) == /\ truth[f] # None
                /\ disk[f] \in {Empty, truth[f]}
                /\ bucket[f] \in {None, truth[f]}

\* A cold hash leads to the content, or the content is back and an event of
\* that waits, or is at hand, which will make the hash local.
ColdLeads(f) ==
    Current(f) /\ db[f].isLocal = 0 =>
        /\ Fetchable(f)
        /\ disk[f] = Empty => db[f].remoteURI = f
        /\ disk[f] = truth[f] =>
               \/ OpenPending(f, queue)
               \/ Handling(f) \in {"openLocal", "openMeta", "get", "write",
                                   "delete", "unlink", "hot"}

\* A cold hash that is about to go is not asked for its object.
ColdIsFresh(f) ==
    db[f].form = "made" /\ db[f].isLocal = 0 =>
        /\ OpensAreFresh(f, queue)
        /\ Handling(f) \in {"openLocal", "openMeta"} \cup RecallSteps => NoDelete(f, queue)
        /\ db[f].isMetadata = 1

\* A local hash is true, but for a demotion that has removed the file.
LocalIsTrue(f) ==
    Current(f) /\ db[f].isLocal = 1 =>
        \/ disk[f] = truth[f] /\ truth[f] # None
        \/ Stopped \/ Moving(f) \in {"markMeta", "stub", "markCold"}

\* Only a process between two setters leaves a local hash marked.
MarkIsTrue(f) ==
    db[f].form = "made" /\ db[f].isLocal = 1 /\ db[f].isMetadata = 1 =>
        \/ Stopped
        \/ Moving(f) \in {"stub", "markCold", "unmeta"}
        \/ Handling(f) = "unmeta"

\* The recall of the handler.
Recall(f) ==
    /\ Handling(f) = "openLocal" =>
           /\ hremote \in {None, f}
           /\ db[f].isLocal = 0 /\ disk[f] = Empty => hremote = f
    /\ Handling(f) \in {"openMeta", "get"} =>
           /\ Fetchable(f)
           /\ hremote \in {None, f}
           /\ disk[f] = Empty => hremote = f
    /\ Handling(f) = "write" => Fetchable(f) /\ hremote = f /\ hgot = truth[f]
    /\ Handling(f) = "delete" =>
           Fetchable(f) /\ hremote = f /\ disk[f] = truth[f]
    /\ Handling(f) \in {"unlink", "hot", "unmeta"} =>
           Fetchable(f) /\ disk[f] = truth[f]
    /\ Handling(f) = "unlink" => hremote # Nil
    /\ Handling(f) = "unmeta" => db[f].isLocal = 1

\* A file on the list of a demotion pass, until its upload, is as the scan
\* found it, except for a user's close.
Demotion1(f) ==
    ToDemote(f) =>
        /\ Whole(todo[f], f) /\ todo[f].isLocal = 1 /\ todo[f].isMetadata = 0
        /\ Moving(f) \in {"off", "link", "upload"} =>
               /\ OnlyCloses(f, queue) /\ Handling(f) = "off"
               /\ db[f].form = "made" /\ db[f].isLocal = 1
               /\ disk[f] = truth[f] /\ truth[f] # None
        /\ Moving(f) = "off" => /\ db[f].lastModified = todo[f].lastModified
                                /\ opened[f] = "yes" => todo[f].lastModified = "recent"
        /\ Moving(f) # "off" => opened[f] = "no"
        /\ Moving(f) \notin {"off", "link"} => todo[f].remoteURI = f

\* The file at hand from its upload on.
Demotion2(f) ==
    /\ Moving(f) = "remove" => /\ Current(f)
                               /\ disk[f] = truth[f]
    /\ Moving(f) = "record" => disk[f] = None
    /\ Moving(f) \in {"remove", "record", "markCold"} =>
           /\ Handling(f) \notin {"openMeta"} \cup RecallSteps
           /\ db[f].form = "made" => db[f].isLocal = 1
    /\ Moving(f) \in {"remove", "record", "markMeta", "stub", "markCold"} =>
           bucket[f] = truth[f] /\ truth[f] # None
    /\ Moving(f) \in {"markMeta", "stub", "restore"} =>
           Silent(f, queue) /\ Handling(f) = "off"
    /\ Moving(f) \in {"markMeta", "stub"} => disk[f] = None
    /\ Moving(f) \in {"markMeta", "stub", "markCold"} =>
           Current(f) /\ db[f].isLocal = 1 /\ db[f].remoteURI = f
    /\ Moving(f) \in {"stub", "markCold"} => db[f].isMetadata = 1
    /\ Moving(f) = "markCold" => disk[f] = Empty
    /\ Moving(f) = "restore" => Current(f) /\ db[f].isLocal = 0

\* A file on the list of a promotion pass.
Promotion1(f) ==
    ToPromote(f) =>
        /\ Whole(todo[f], f) /\ todo[f].remoteURI = f
        /\ Fetchable(f) /\ Current(f)
        /\ Moving(f) = "write" => mgot = truth[f]
        /\ Moving(f) \in {"delete", "unlink", "hot", "unmeta"} => disk[f] = truth[f]
        /\ Moving(f) = "unmeta" => db[f].isLocal = 1

\* A file that is open, or soon known to be, has been used recently.
OpenIsRecent(f) ==
    /\ opened[f] \in {"no", "yes"}
    /\ opened[f] = "yes" =>
           /\ disk[f] # None
           /\ \/ FreshOpen(f, queue)
              \/ Handling(f) \in OpenSteps /\ NoDelete(f, queue)
              \/ Current(f) /\ db[f].lastModified = "recent"

FileInv(f) ==
    /\ HashIsWhole(f) /\ HandlerHasHash(f) /\ HashIffFile(f)
    /\ DiskHolds(f) /\ Somewhere(f)
    /\ ColdLeads(f) /\ ColdIsFresh(f) /\ LocalIsTrue(f) /\ MarkIsTrue(f)
    /\ Recall(f)
    /\ Demotion1(f) /\ Demotion2(f) /\ Promotion1(f)
    /\ OpenIsRecent(f)

-----------------------------------------------------------------------------
(***************************************************************************)
(* The invariant of the processes.                                         *)
(***************************************************************************)
ProcessInv ==
    /\ mpc \in {"scanDemotion", "scanPromotion", "dead"} => todo = NothingToDo
    /\ mpc \in {"scanDemotion", "scanPromotion", "dead", "demote", "promote"}
           => cur = None
    /\ cur # None => cur \in Files /\ todo[cur] # NoEntry
    /\ Stopped => "supervisor" \in Kills
    /\ hpc \notin {"dead", "rename", "setName"}
    /\ hpc = "idle" => hfile = None
    /\ NoMoves(queue)

SafetyInv == ProcessInv /\ \A f \in Files : FileInv(f)
==============================================================================
