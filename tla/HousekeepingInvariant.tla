------------------------- MODULE HousekeepingInvariant -------------------------
(***************************************************************************)
(* Why the hashes follow the files through every move, although the        *)
(* handler hears of a move late, in two events, and fetches files back in  *)
(* between: an inductive invariant of Housekeeping.tla.                    *)
(*                                                                         *)
(* The events that wait say what the catalogue will be.  A forecast is a   *)
(* sequence of views of the catalogue, from the one that the handler will  *)
(* leave when it is through with the event at hand, one more for each      *)
(* event, to the one that is true of the two directories.                  *)
(***************************************************************************)
EXTENDS Housekeeping

\* The assumptions on users and on S3.
Tidy == Patient /\ FreshNames /\ "get" \notin S3Faults

-----------------------------------------------------------------------------
(***************************************************************************)
(* Forecasts.                                                              *)
(***************************************************************************)

\* What matters of a hash: there is none, the file is local, or the object it has.
Absent == None
Hot == Nil
Kinds == Files \cup {Absent, Hot}

Kind(e) == IF e.form = "none" THEN Absent
           ELSE IF e.isLocal = 1 THEN Hot ELSE e.remoteURI

\* A view of the catalogue, and of oldFileName.
Views == [hash : [Files -> Kinds], old : Files \cup {None}]

\* What the handler makes of the event e, when it survives it.
Follows(e, v, w) ==
    \/ /\ e.type = "create"
       /\ w = [v EXCEPT !.hash[e.file] = IF @ = Absent THEN Hot ELSE @]
    \/ /\ e.type = "open" /\ v.hash[e.file] # Absent
       /\ w = [v EXCEPT !.hash[e.file] = Hot]
    \/ e.type \in {"modify", "close"} /\ v.hash[e.file] # Absent /\ w = v
    \/ /\ e.type = "delete"
       /\ w = [v EXCEPT !.hash[e.file] = Absent]
    \/ /\ e.type = "movedFrom" /\ v.old = None
       /\ w = [v EXCEPT !.old = e.file]
    \/ /\ e.type = "movedTo" /\ v.old # None /\ v.hash[v.old] # Absent
       /\ w = [hash |-> [v.hash EXCEPT ![v.old] = Absent, ![e.file] = v.hash[v.old]],
               old |-> None]

\* h forecasts what the handler makes of the events q: the view before each
\* event, and the one after the last.
Forecasts(q, h) == /\ h \in [1..Len(q) + 1 -> Views]
                   /\ \A i \in 1..Len(q) : Follows(q[i], h[i], h[i + 1])

Last(q, h) == h[Len(q) + 1]

\* An object in a view was in the hash of some file in every view before, and in
\* that of the same file, unless that file comes out of a move in between.
Traced(q, h) ==
    \A k \in 1..Len(q) + 1, f \in Files : h[k].hash[f] \in Files =>
        \A i \in 1..k :
            /\ \E g \in Files : h[i].hash[g] = h[k].hash[f]
            /\ \/ h[i].hash[f] = h[k].hash[f]
               \/ \E j \in i..k - 1 : q[j] = Ev("movedTo", f)

\* The i-th event is the first access to the cold file f, whose object is o.
Recalls(q, h, i, f, o) == q[i] = Ev("open", f) /\ h[i].hash[f] = o

\* There is such an event.
Wants(q, h, f, o) == \E i \in 1..Len(q) : Recalls(q, h, i, f, o)

\* From that event on the file is hot, and stays where it is.
HotAfter(q, h) ==
    \A i \in 1..Len(q), f, o \in Files : Recalls(q, h, i, f, o) =>
        \A j \in i + 1 .. Len(q) + 1 : h[j].hash[f] = Hot

\* The files of the set fetched are hot from the beginning.
HotAlways(q, h, fetched) ==
    \A i \in 1..Len(q) + 1, f \in fetched : h[i].hash[f] = Hot

Plausible(q, h, fetched) == /\ Forecasts(q, h) /\ Traced(q, h)
                            /\ HotAfter(q, h) /\ HotAlways(q, h, fetched)

-----------------------------------------------------------------------------
(***************************************************************************)
(* What the forecast says of the files.                                    *)
(***************************************************************************)
OpenSteps == {"openLocal", "openMeta", "openMark", "openHits"} \cup RecallSteps

\* What the event at hand will have made of the hash of f, and of oldFileName.
Now(f) ==
    IF hpc = "rename" THEN IF f = hfile THEN Kind(db[oldName])
                           ELSE IF f = oldName THEN Absent ELSE Kind(db[f])
    ELSE IF f # hfile THEN Kind(db[f])
    ELSE IF hpc = "erase" THEN Absent
    ELSE IF hpc \in OpenSteps \cup {"insert"} THEN Hot ELSE Kind(db[f])

View == [hash |-> [f \in Files |-> Now(f)],
         old |-> IF hpc = "rename" THEN None ELSE oldName]

\* f has a placeholder, and the object o has its content.
Fetchable(f, o) == /\ truth[f] # None /\ disk[f] = Empty
                   /\ o \in Files /\ bucket[o] = truth[f]

\* The handler is fetching f back.
Fetching(f) == /\ hfile = f
               /\ \/ hpc \in {"get", "write"}
                  \/ hpc \in {"openLocal", "openMeta"} /\ db[f].isLocal = 0

Fetched == {f \in Files : Fetching(f)}

\* The file f is as the last view says, or will be.
Fits(h, f) ==
    LET kind == Last(queue, h).hash[f] IN
    /\ kind = Absent <=> Should(f) = None
    /\ kind = Hot => \/ Holds(f) = Should(f)
                     \/ Fetching(f)
                     \/ \E o \in Files : Wants(queue, h, f, o)
    /\ kind \in Files => Holds(f) = Empty /\ bucket[kind] = Should(f)

Foretells(h) ==
    /\ Plausible(queue, h, Fetched)
    /\ h[1] = View
    /\ Last(queue, h).old = None
    /\ \A f, o \in Files : Wants(queue, h, f, o) => Fetchable(f, o)
    /\ \A f \in Files : Fits(h, f)

-----------------------------------------------------------------------------
(***************************************************************************)
(* The invariant.                                                          *)
(***************************************************************************)

\* The hash of f has all that it needs, but for what the call at hand is about.
Whole(f) ==
    /\ db[f].form = "made"
    /\ db[f].fileName = f \/ (hpc = "setName" /\ hfile = f)
    /\ db[f].isLocal \in Flag
    /\ db[f].isLocal = 1 =>
           /\ db[f].remoteURI = None
           /\ db[f].isMetadata = 0 \/ (db[f].isMetadata = 1 /\ hpc = "unmeta" /\ hfile = f)
    /\ db[f].isLocal = 0 =>
           /\ db[f].isMetadata = 1
           /\ db[f].remoteURI \in Files \/ (hpc = "hot" /\ hfile = f)

Hashes == \A f \in Files : db[f] = NoEntry \/ Whole(f)

\* No two files have the same object.
ObjectsDiffer == \A f, g \in Files :
    db[f].remoteURI \in Files /\ db[f].remoteURI = db[g].remoteURI => f = g

\* A file is in one directory.
InOnePlace == \A f \in Files :
    /\ disk[f] = None <=> truth[f] = None
    /\ trash[f] = None <=> binned[f] = None
    /\ truth[f] = None \/ binned[f] = None
    /\ opened[f] = "yes" => truth[f] # None

\* What the handler has found out, and still relies on, at each call.
InHand ==
    /\ hpc # "dead"
    /\ hpc = "insert" => db[hfile] = NoEntry
    /\ hpc \in OpenSteps \cup {"resize", "setName"} => db[hfile].form = "made"
    /\ hpc \in {"openMeta", "get", "write", "delete", "unlink"} =>
           db[hfile].isLocal = 0
    /\ hpc \in {"openLocal", "openMeta", "get", "write", "delete", "unlink"}
            /\ db[hfile].isLocal = 0 =>
           hremote = db[hfile].remoteURI
    /\ \A f \in Files : Fetching(f) => Fetchable(f, hremote)
    /\ hpc = "write" => hgot = truth[hfile]
    /\ hpc \in {"delete", "unlink", "hot", "unmeta"} =>
           truth[hfile] # None /\ disk[hfile] = truth[hfile]
    /\ hpc = "hot" => db[hfile].isLocal = 0 /\ db[hfile].remoteURI = None
    /\ hpc \in {"unmeta", "openMark", "openHits"} => db[hfile].isLocal = 1
    /\ hpc = "rename" => db[oldName].form = "made"

\* Until both directories are watched nobody does anything, and initialize has
\* still to catalogue what is left.
Listed == CASE ipc = "list" -> {}
            [] ipc = "add" -> {f \in Files : truth[f] # None /\ f \notin left}
            [] OTHER -> {f \in Files : truth[f] # None}

Starting ==
    /\ hpc = IF ipc = "half" THEN "idle" ELSE "dead"
    /\ hfile = None /\ oldName = None /\ queue = <<>>
    /\ disk = truth
    /\ \A f \in Files : trash[f] = None /\ binned[f] = None /\ opened[f] = "no"
    /\ \A f \in left : truth[f] # None
    /\ \A f \in Files : IF f \in Listed THEN Whole(f) /\ db[f].isLocal = 1
                                        ELSE db[f] = NoEntry

Coherent == Hashes /\ ObjectsDiffer /\ InOnePlace /\ InHand

\* Of a forecast h.
HousekeepingInv(h) == IF ipc = "watching" THEN Coherent /\ Foretells(h) ELSE Starting
==============================================================================
