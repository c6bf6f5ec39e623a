------------------------------ MODULE Selection ------------------------------
(***************************************************************************)
(* Which files the policies select: getDemotionList, getPromotionList,     *)
(* findIntersection and findUnion in Supervisor.cpp, over the range        *)
(* queries of Redis_Scanner.                                               *)
(*                                                                         *)
(* A vector of FileData is the set of its files: every query sorts its     *)
(* result, and set_intersection depends on nothing else.  meta maps each   *)
(* file to what the queries look at, lastModified being its score in the   *)
(* sorted set, and to what manageFiles looks at besides: the time in the   *)
(* hash, from which that score was read back, and isOpen.                  *)
(***************************************************************************)
EXTENDS Integers

CONSTANTS
    Files,      \* local URIs, the keys of the catalogue
    Names,      \* file names
    NameOf      \* the File_Name in the hash of each local URI

ASSUME NameOfAssumption == NameOf \in [Files -> Names]

Metadata == [fileSize : Nat, timesAccessed : Nat, lastModified : Int,
             isLocal : {0, 1}, written : Int, isOpen : {0, 1}]

SizePolicies == [type : {"sizepolicy"}, low : Int, high : Int]
TimePolicies == [type : {"timepolicy"}, minimumAge : Int]
HitPolicies == [type : {"hitspolicy"}, hits : Int]
Policies == SizePolicies \cup TimePolicies \cup HitPolicies

-----------------------------------------------------------------------------
(***************************************************************************)
(* Redis_Scanner's queries.  A "(" before a bound excludes it.             *)
(***************************************************************************)
FilesInSizeRange(meta, p) ==
    {f \in Files : p.low <= meta[f].fileSize /\ meta[f].fileSize <= p.high}
\* Mutant: the bounds are not excluded.
FilesAtOrOutOfSizeRange(meta, p) ==
    {f \in Files : meta[f].fileSize <= p.low \/ meta[f].fileSize >= p.high}
FilesOutOfSizeRange(meta, p) ==
    {f \in Files : meta[f].fileSize < p.low \/ meta[f].fileSize > p.high}

FilesInLastModifiedTime(meta, p, now) ==
    {f \in Files : meta[f].lastModified <= now - p.minimumAge}
FilesOutOfLastModifiedTime(meta, p, now) ==
    {f \in Files : meta[f].lastModified >= now - p.minimumAge}

FilesInTimesAccessedRange(meta, p) ==
    {f \in Files : meta[f].timesAccessed < p.hits}
FilesOutOfTimesAccessedRange(meta, p) ==
    {f \in Files : meta[f].timesAccessed >= p.hits}

LocalFiles(meta) == {f \in Files : meta[f].isLocal = 1}
NonLocalFiles(meta) == {f \in Files : meta[f].isLocal = 0}

-----------------------------------------------------------------------------
(***************************************************************************)
(* Combining lists of files.                                               *)
(***************************************************************************)
FindIntersection(lists) ==
    {f \in UNION lists : \A list \in lists : f \in list}

\* unique() after a sort by file name: of the files with one name, only one
\* stays, and std::sort does not say which.
OnePerName(files) ==
    {kept \in SUBSET files :
        /\ \A f, g \in kept : NameOf[f] = NameOf[g] => f = g
        /\ \A f \in files : \E g \in kept : NameOf[g] = NameOf[f]}

FindUnions(lists) == OnePerName(UNION lists)

-----------------------------------------------------------------------------
(***************************************************************************)
(* One policy list: a file is a candidate for demotion if it falls out of  *)
(* some policy, for promotion if it meets every one.                       *)
(***************************************************************************)
FallsOut(meta, p, now) ==
    CASE p.type = "sizepolicy" -> FilesOutOfSizeRange(meta, p)
      [] p.type = "timepolicy" -> FilesInLastModifiedTime(meta, p, now)
      [] p.type = "hitspolicy" -> FilesInTimesAccessedRange(meta, p)

Meets(meta, p, now) ==
    CASE p.type = "sizepolicy" -> FilesInSizeRange(meta, p)
      [] p.type = "timepolicy" -> FilesOutOfLastModifiedTime(meta, p, now)
      [] p.type = "hitspolicy" -> FilesOutOfTimesAccessedRange(meta, p)

GetDemotionLists(meta, list, now) ==
    {FindIntersection({union, LocalFiles(meta)}) :
        union \in FindUnions({FallsOut(meta, p, now) : p \in list})}

GetPromotionList(meta, list, now) ==
    FindIntersection({Meets(meta, p, now) : p \in list}
                        \cup {NonLocalFiles(meta)})

-----------------------------------------------------------------------------
(***************************************************************************)
(* All policy lists: manageFiles demotes what every list gives up, and     *)
(* promotes what some list wants back.  An empty list is passed over.      *)
(***************************************************************************)
NonEmpty(lists) == {list \in lists : list # {}}

DemotionLists(meta, lists, now) ==
    {FindIntersection({pick[list] : list \in NonEmpty(lists)}) :
        pick \in {p \in [NonEmpty(lists) -> SUBSET Files] :
                    \A list \in NonEmpty(lists) :
                        p[list] \in GetDemotionLists(meta, list, now)}}

PromotionLists(meta, lists, now) ==
    FindUnions({GetPromotionList(meta, list, now) : list \in NonEmpty(lists)})
==============================================================================
