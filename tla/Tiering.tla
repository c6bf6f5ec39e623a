------------------------------- MODULE Tiering -------------------------------
(***************************************************************************)
(* The cycle of manageFiles at the scale of the policies: a demotion pass, *)
(* a pause, a promotion pass, a pause, with users accessing files and the  *)
(* policies being replaced at runtime.  A migration is one step here (its  *)
(* calls are Migrator.tla's); what is kept of it is what it leaves in the  *)
(* members that the policies and manageFiles look at.                      *)
(***************************************************************************)
EXTENDS Selection

CONSTANTS
    PolicyFiles,    \* the contents policies.xml may have: sets of policy lists
    BounceBack,     \* 60 in the code: a file this recent is not demoted
    Hour,           \* how far daylight saving moves the clock
    Sizes,          \* the sizes files may have
    MaxHits,        \* bound on timesAccessed
    MaxTime         \* bound on now

ASSUME TieringAssumption ==
    /\ PolicyFiles \subseteq SUBSET SUBSET Policies
    /\ BounceBack \in Nat
    /\ Hour \in Nat
    /\ Sizes \subseteq Nat
    /\ MaxHits \in Nat
    /\ MaxTime \in Nat

VARIABLES
    meta,       \* the catalogue
    lists,      \* the policy lists in force
    now,        \* time(NULL)
    pass,       \* which pass comes next: "demote" or "promote"
    excused,    \* history: the files for which the policies have changed
                \* since their last demotion
    daylight    \* whether local time has a daylight-saving rule

vars == <<meta, lists, now, pass, excused, daylight>>

\* isOpen is whatever the uninitialised member of FileData held.
Init == /\ meta \in [Files -> [fileSize : Sizes, timesAccessed : {0}, lastModified : {0},
                               isLocal : {1}, written : {0}, isOpen : {0, 1}]]
        /\ lists \in PolicyFiles
        /\ now = 0
        /\ pass = "demote"
        /\ excused = {}
        /\ daylight \in BOOLEAN

-----------------------------------------------------------------------------
(***************************************************************************)
(* Times.  The hash has them as text in local time; HGETALL reads that     *)
(* back with a tm_isdst nobody assigned, and what it reads is the age in a *)
(* list and the score in the sorted set.                                   *)
(***************************************************************************)
Skews == IF daylight THEN {-Hour, 0, Hour} ELSE {0}

ReadBack(time) == {time + skew : skew \in Skews}

\* Bounce-back, decided by the age of the file as the list has it.
TooYoung(time) == now - time <= BounceBack

-----------------------------------------------------------------------------
\* Mutant: the opens of the demotion itself are discounted once too often.
DemotedDiscounted(m, time, score) ==
    [m EXCEPT !.isLocal = 0, !.timesAccessed = @ - 1, !.isOpen = 0,
              !.written = time, !.lastModified = score]

\* Mutant: lastModified is not restored.
DemotedJustNow(m, time, score) ==
    [m EXCEPT !.isLocal = 0, !.timesAccessed = @ + 1, !.isOpen = 0,
              !.written = now, !.lastModified = now]

\* A demotion opens the file twice, and the handler counts both: the upload
\* before Redis_HMSET writes the old count back, the placeholder after it.
\* setLastTimeModified then writes the time that the list has; score is what
\* is read back from it.
Demoted(m, time, score) ==
    [m EXCEPT !.isLocal = 0, !.timesAccessed = @ + 1, !.isOpen = 0,
              !.written = time, !.lastModified = score]

\* The present time is written, and read back as score.
Stamped(m, score) == [m EXCEPT !.written = now, !.lastModified = score]

\* A promotion writes the file: one more counted open, and a close; the
\* setters and the handler leave the present time.
Promoted(m, score) ==
    [Stamped(m, score) EXCEPT !.isLocal = 1, !.timesAccessed = @ + 1, !.isOpen = 0]

\* lastModified of the FileData that HGETALL made of f's hash.
Listed(f, read) == meta[f].written + read[f]

\* The candidates that are demoted: not those marked as open or too young.
Chosen(list, read) ==
    {f \in list : meta[f].isOpen = 0 /\ ~TooYoung(Listed(f, read))}

\* The demotion half of a cycle, with the 20 seconds of sleep that end it.
DemotionPass ==
    /\ pass = "demote"
    /\ \E list \in DemotionLists(meta, lists, now) :
       \E read \in [list -> Skews] : \E again \in [Chosen(list, read) -> Skews] :
           /\ \A f \in Chosen(list, read) : meta[f].timesAccessed < MaxHits
           /\ meta' = [f \in Files |->
                          IF f \in Chosen(list, read)
                          THEN Demoted(meta[f], Listed(f, read), Listed(f, read) + again[f])
                          ELSE meta[f]]
           /\ excused' = excused \ Chosen(list, read)
    /\ pass' = "promote"
    /\ now < MaxTime /\ now' = now + 1
    /\ UNCHANGED <<lists, daylight>>

\* The promotion half, with sleep(migrateTime).
PromotionPass ==
    /\ pass = "promote"
    /\ \E list \in PromotionLists(meta, lists, now) : \E read \in [list -> Skews] :
           /\ \A f \in list : meta[f].timesAccessed < MaxHits
           /\ meta' = [f \in Files |-> IF f \in list THEN Promoted(meta[f], now + read[f])
                                                     ELSE meta[f]]
    /\ pass' = "demote"
    /\ now < MaxTime /\ now' = now + 1
    /\ UNCHANGED <<lists, excused, daylight>>

-----------------------------------------------------------------------------
(***************************************************************************)
(* Users, the clock, and whoever edits res/policies.xml.                   *)
(***************************************************************************)

\* The handler counts an OPEN and marks the file; for a cold file it recalls
\* the content first, and then counts the open of its own write too, whose
\* CLOSE clears the mark.
Opened(m, score) ==
    IF m.isLocal = 1
    THEN [Stamped(m, score) EXCEPT !.timesAccessed = @ + 1, !.isOpen = 1]
    ELSE [Stamped(m, score) EXCEPT !.isLocal = 1, !.timesAccessed = @ + 2, !.isOpen = 0]

Open(f) ==
    /\ meta[f].timesAccessed + 1 < MaxHits
    /\ \E score \in ReadBack(now) : meta' = [meta EXCEPT ![f] = Opened(@, score)]
    /\ UNCHANGED <<lists, now, pass, excused, daylight>>

\* IN_CLOSE_WRITE and IN_CLOSE_NOWRITE: setIsOpen leaves the times alone.
Close(f) ==
    /\ meta[f].isOpen = 1
    /\ meta' = [meta EXCEPT ![f].isOpen = 0]
    /\ UNCHANGED <<lists, now, pass, excused, daylight>>

\* IN_MODIFY on a file that is in the directory.
Modify(f, size) ==
    /\ meta[f].isLocal = 1
    /\ \E score \in ReadBack(now) :
           meta' = [meta EXCEPT ![f] = [Stamped(@, score) EXCEPT !.fileSize = size]]
    /\ UNCHANGED <<lists, now, pass, excused, daylight>>

Tick == /\ now < MaxTime
        /\ now' = now + 1
        /\ UNCHANGED <<meta, lists, pass, excused, daylight>>

\* updatePolicies has parsed a new policies.xml.
ChangePolicies ==
    /\ lists' \in PolicyFiles \ {lists}
    /\ excused' = Files
    /\ UNCHANGED <<meta, now, pass, daylight>>

Next == \/ DemotionPass \/ PromotionPass
        \/ \E f \in Files : Open(f) \/ Close(f) \/ \E size \in Sizes : Modify(f, size)
        \/ Tick \/ ChangePolicies

Spec == Init /\ [][Next]_vars

-----------------------------------------------------------------------------
(***************************************************************************)
(* Properties.                                                             *)
(***************************************************************************)

\* Type invariant.
TypeOK == /\ meta \in [Files -> Metadata]
          /\ lists \in PolicyFiles
          /\ now \in Nat
          /\ pass \in {"demote", "promote"}
          /\ excused \subseteq Files
          /\ daylight \in BOOLEAN

\* isFileKept of HitPolicy.hpp and TimePolicy.hpp, which nothing calls, and of
\* the range of a SizePolicy: what a policy promises, told file by file.
IsFileKept(m, p) ==
    CASE p.type = "sizepolicy" -> p.low <= m.fileSize /\ m.fileSize <= p.high
      [] p.type = "timepolicy" -> ~(m.lastModified <= now - p.minimumAge)
      [] p.type = "hitspolicy" -> p.hits <= m.timesAccessed

\* No list keeps the file: each has a policy that gives it up.
GivenUp(m) == \A list \in NonEmpty(lists) : \E p \in list : ~IsFileKept(m, p)

WentCold(f) == meta[f].isLocal = 1 /\ meta'[f].isLocal = 0
CameBack(f) == meta[f].isLocal = 0 /\ meta'[f].isLocal = 1

\* A demotion pass demotes the local files that no policy list keeps and that
\* are neither marked as open nor too young: getDemotionList's queries and the
\* union and intersections built from them agree with isFileKept, and nothing
\* but those two tests stands between a candidate and its demotion.  Where
\* there is daylight saving, a file may be younger in the list than it is, or
\* older.
DemotesTheGivenUp ==
    [][DemotionPass => \A f \in Files :
         LET may == meta[f].isLocal = 1 /\ meta[f].isOpen = 0
                       /\ NonEmpty(lists) # {} /\ GivenUp(meta[f])
             times == ReadBack(meta[f].written)
         IN  /\ WentCold(f) => may /\ \E time \in times : ~TooYoung(time)
             /\ may /\ (\A time \in times : ~TooYoung(time)) => WentCold(f)]_vars

\* A demotion itself adds to the accesses of a file: policies that count them
\* may want it back.
CountsAccesses == \E list \in lists : \E p \in list : p.type = "hitspolicy"

\* Between the query that gives a file up and the score that a demotion leaves,
\* its time is read back three times.
Slack == IF daylight THEN 3 * Hour ELSE 0

\* f is less than the slack away from an age that gives it up.
Wavers(f, list) == \E p \in list : /\ p.type = "timepolicy"
                                   /\ meta[f].lastModified < now - p.minimumAge + Slack

\* The migrator does not undo its own demotions: as long as no policy counts
\* accesses, a cold file is taken back by a promotion pass only if the policies
\* have changed since it was demoted, or, where there is daylight saving, for
\* its age, in the first three hours.  (Users get theirs back through the event
\* handler.)
NoSelfPromotion ==
    [][PromotionPass /\ ~CountsAccesses =>
         \A f \in Files : CameBack(f) =>
             \/ f \in excused
             \/ \E list \in NonEmpty(lists) : /\ f \in GetPromotionList(meta, list, now)
                                              /\ Wavers(f, list)]_vars
==============================================================================
