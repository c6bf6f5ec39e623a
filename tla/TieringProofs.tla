---------------------------- MODULE TieringProofs ----------------------------
(***************************************************************************)
(* Theorems about Selection.tla and Tiering.tla, for any files, sizes and  *)
(* policies.  Two files of one directory have different names.             *)
(***************************************************************************)
EXTENDS Tiering, TLAPS

\* Different local URIs carry different file names, so unique() drops nothing.
DistinctFileNames == \A f, g \in Files : NameOf[f] = NameOf[g] => f = g

-----------------------------------------------------------------------------
(***************************************************************************)
(* What the lists built by Supervisor.cpp hold.                            *)
(***************************************************************************)

\* A query for the files that fall out of a policy returns those that its
\* isFileKept would not keep.
LEMMA FallsOutIsNotKept ==
    ASSUME TypeOK, NEW p \in Policies, NEW f \in Files
    PROVE  f \in FallsOut(meta, p, now) <=> ~IsFileKept(meta[f], p)
  <1>1. /\ meta[f].fileSize \in Int /\ meta[f].lastModified \in Int
        /\ meta[f].timesAccessed \in Int /\ now \in Int
    BY DEF TypeOK, Metadata
  <1>2. CASE p \in SizePolicies
    <2>1. p.type = "sizepolicy" /\ p.low \in Int /\ p.high \in Int
      BY <1>2 DEF SizePolicies
    <2>2. FallsOut(meta, p, now) = FilesOutOfSizeRange(meta, p)
      BY <2>1 DEF FallsOut
    <2>3. IsFileKept(meta[f], p) <=> (p.low <= meta[f].fileSize /\ meta[f].fileSize <= p.high)
      BY <2>1 DEF IsFileKept
    <2> QED BY <1>1, <2>1, <2>2, <2>3 DEF FilesOutOfSizeRange
  <1>3. CASE p \in TimePolicies
    <2>1. p.type = "timepolicy" /\ p.minimumAge \in Int
      BY <1>3 DEF TimePolicies
    <2>2. FallsOut(meta, p, now) = FilesInLastModifiedTime(meta, p, now)
      BY <2>1 DEF FallsOut
    <2>3. IsFileKept(meta[f], p) <=> ~(meta[f].lastModified <= now - p.minimumAge)
      BY <2>1 DEF IsFileKept
    <2> QED BY <1>1, <2>1, <2>2, <2>3 DEF FilesInLastModifiedTime
  <1>4. CASE p \in HitPolicies
    <2>1. p.type = "hitspolicy" /\ p.hits \in Int
      BY <1>4 DEF HitPolicies
    <2>2. FallsOut(meta, p, now) = FilesInTimesAccessedRange(meta, p)
      BY <2>1 DEF FallsOut
    <2>3. IsFileKept(meta[f], p) <=> p.hits <= meta[f].timesAccessed
      BY <2>1 DEF IsFileKept
    <2> QED BY <1>1, <2>1, <2>2, <2>3 DEF FilesInTimesAccessedRange
  <1> QED BY <1>2, <1>3, <1>4 DEF Policies

\* Queries return files of the catalogue.
LEMMA QueriesReturnFiles ==
    ASSUME NEW p \in Policies
    PROVE  FallsOut(meta, p, now) \subseteq Files /\ Meets(meta, p, now) \subseteq Files
  BY DEF Policies, SizePolicies, TimePolicies, HitPolicies, FallsOut, Meets,
         FilesOutOfSizeRange, FilesInLastModifiedTime, FilesInTimesAccessedRange,
         FilesInSizeRange, FilesOutOfLastModifiedTime, FilesOutOfTimesAccessedRange

\* With distinct names, the union of lists has all their files.
LEMMA UnionIsUnion ==
    ASSUME DistinctFileNames, NEW lst, lst \subseteq SUBSET Files,
           NEW union \in FindUnions(lst)
    PROVE  union = UNION lst
  <1>1. /\ union \subseteq UNION lst
        /\ \A f \in UNION lst : \E g \in union : NameOf[g] = NameOf[f]
    BY DEF FindUnions, OnePerName
  <1>2. \A f \in UNION lst : f \in Files
    OBVIOUS
  <1>3. \A f \in UNION lst : f \in union
    BY <1>1, <1>2 DEF DistinctFileNames
  <1> QED BY <1>1, <1>3

\* One list of policies selects for demotion the local files that some policy
\* of it gives up.
LEMMA OneListDemotes ==
    ASSUME DistinctFileNames, TypeOK, NEW list \in SUBSET Policies,
           NEW chosen \in GetDemotionLists(meta, list, now), NEW f \in Files
    PROVE  f \in chosen <=> /\ meta[f].isLocal = 1
                            /\ \E p \in list : ~IsFileKept(meta[f], p)
  <1> DEFINE outs == {FallsOut(meta, p, now) : p \in list}
  <1>1. PICK union \in FindUnions(outs) :
            chosen = FindIntersection({union, LocalFiles(meta)})
    BY DEF GetDemotionLists
  <1>2. outs \subseteq SUBSET Files
    BY QueriesReturnFiles
  <1>3. union = UNION outs
    BY <1>1, <1>2, UnionIsUnion
  <1>4. f \in chosen <=> f \in union /\ f \in LocalFiles(meta)
    BY <1>1 DEF FindIntersection
  <1>5. f \in union <=> \E p \in list : ~IsFileKept(meta[f], p)
    BY <1>3, FallsOutIsNotKept
  <1> QED BY <1>4, <1>5 DEF LocalFiles

\* What a demotion pass takes up: the local files that no list keeps, if there
\* is a list with a policy at all.
LEMMA AllListsDemote ==
    ASSUME DistinctFileNames, TypeOK,
           NEW chosen \in DemotionLists(meta, lists, now), NEW f \in Files
    PROVE  f \in chosen <=> /\ meta[f].isLocal = 1
                            /\ NonEmpty(lists) # {}
                            /\ GivenUp(meta[f])
  <1>1. PICK pick \in [NonEmpty(lists) -> SUBSET Files] :
            /\ \A list \in NonEmpty(lists) :
                   pick[list] \in GetDemotionLists(meta, list, now)
            /\ chosen = FindIntersection({pick[list] : list \in NonEmpty(lists)})
    BY DEF DemotionLists
  <1>2. \A list \in NonEmpty(lists) : list \in SUBSET Policies
    BY TieringAssumption DEF NonEmpty, TypeOK
  <1>3. \A list \in NonEmpty(lists) :
            f \in pick[list] <=> /\ meta[f].isLocal = 1
                                 /\ \E p \in list : ~IsFileKept(meta[f], p)
    BY <1>1, <1>2, OneListDemotes
  <1>4. f \in chosen <=> /\ NonEmpty(lists) # {}
                         /\ \A list \in NonEmpty(lists) : f \in pick[list]
    BY <1>1 DEF FindIntersection
  <1> QED BY <1>3, <1>4 DEF GivenUp

\* What a promotion pass takes up: non-local files that meet every policy of
\* some list with a policy in it.
LEMMA PromotionMeets ==
    ASSUME DistinctFileNames, TypeOK,
           NEW chosen \in PromotionLists(meta, lists, now), NEW f \in chosen
    PROVE  /\ f \in Files /\ meta[f].isLocal = 0
           /\ \E list \in NonEmpty(lists) :
                  /\ f \in GetPromotionList(meta, list, now)
                  /\ \A p \in list : f \in Meets(meta, p, now)
  <1> DEFINE wanted == {GetPromotionList(meta, list, now) : list \in NonEmpty(lists)}
  <1>1. chosen \subseteq UNION wanted
    BY DEF PromotionLists, FindUnions, OnePerName
  <1>2. PICK list \in NonEmpty(lists) : f \in GetPromotionList(meta, list, now)
    BY <1>1
  <1>3. f \in NonLocalFiles(meta) /\ \A p \in list : f \in Meets(meta, p, now)
    BY <1>2 DEF GetPromotionList, FindIntersection
  <1> QED BY <1>2, <1>3 DEF NonLocalFiles

-----------------------------------------------------------------------------
(***************************************************************************)
(* Type correctness.                                                       *)
(***************************************************************************)

\* What is read back is a time.
LEMMA ReadBackIsTime ==
    ASSUME NEW time \in Int
    PROVE  ReadBack(time) \subseteq Int /\ Skews \subseteq Int /\ 0 \in Skews
  BY TieringAssumption DEF ReadBack, Skews

\* Passes and opens keep the types of what the policies look at.
LEMMA MetadataType ==
    ASSUME TypeOK, NEW m \in Metadata, NEW score \in Int, NEW time \in Int
    PROVE  /\ Demoted(m, time, score) \in Metadata
           /\ Promoted(m, score) \in Metadata
           /\ Opened(m, score) \in Metadata
           /\ [m EXCEPT !.isOpen = 0] \in Metadata
           /\ \A size \in Sizes : [Stamped(m, score) EXCEPT !.fileSize = size] \in Metadata
  <1>1. Sizes \subseteq Nat /\ now \in Int
    BY TieringAssumption DEF TypeOK
  <1>2. /\ m.timesAccessed \in Nat
        /\ m.timesAccessed + 1 \in Nat /\ m.timesAccessed + 2 \in Nat
    BY DEF Metadata
  <1>3. Demoted(m, time, score) \in Metadata
    BY <1>2 DEF Metadata, Demoted
  <1>4. Stamped(m, score) \in Metadata /\ Stamped(m, score).timesAccessed = m.timesAccessed
    BY <1>1 DEF Metadata, Stamped
  <1>5. Promoted(m, score) \in Metadata
    BY <1>2, <1>4 DEF Metadata, Promoted
  <1>6. Opened(m, score) \in Metadata
    BY <1>2, <1>4 DEF Metadata, Opened
  <1>7. \A size \in Sizes : [Stamped(m, score) EXCEPT !.fileSize = size] \in Metadata
    BY <1>1, <1>4 DEF Metadata
  <1>8. [m EXCEPT !.isOpen = 0] \in Metadata
    BY DEF Metadata
  <1> QED BY <1>3, <1>5, <1>6, <1>7, <1>8

\* What a demotion pass does to a file.
LEMMA DemotionPassDoes ==
    ASSUME TypeOK, DemotionPass
    PROVE  \E list \in DemotionLists(meta, lists, now) : \E chosen \in SUBSET list :
               /\ excused' = excused \ chosen
               /\ \A f \in Files :
                      /\ f \notin chosen => meta'[f] = meta[f]
                      /\ f \in chosen => \E time \in ReadBack(meta[f].written) :
                            /\ meta[f].isOpen = 0 /\ ~TooYoung(time)
                            /\ \E score \in ReadBack(time) :
                                   meta'[f] = Demoted(meta[f], time, score)
                      /\ f \in list \ chosen =>
                            \/ meta[f].isOpen = 1
                            \/ \E time \in ReadBack(meta[f].written) : TooYoung(time)
               /\ meta' = [f \in Files |-> meta'[f]]
  <1>1. PICK list \in DemotionLists(meta, lists, now) :
            \E read \in [list -> Skews] : \E again \in [Chosen(list, read) -> Skews] :
                /\ meta' = [f \in Files |->
                               IF f \in Chosen(list, read)
                               THEN Demoted(meta[f], Listed(f, read), Listed(f, read) + again[f])
                               ELSE meta[f]]
                /\ excused' = excused \ Chosen(list, read)
    BY DEF DemotionPass
  <1>2. PICK read \in [list -> Skews] : \E again \in [Chosen(list, read) -> Skews] :
            /\ meta' = [f \in Files |->
                           IF f \in Chosen(list, read)
                           THEN Demoted(meta[f], Listed(f, read), Listed(f, read) + again[f])
                           ELSE meta[f]]
            /\ excused' = excused \ Chosen(list, read)
    BY <1>1
  <1>3. PICK again \in [Chosen(list, read) -> Skews] :
            /\ meta' = [f \in Files |->
                           IF f \in Chosen(list, read)
                           THEN Demoted(meta[f], Listed(f, read), Listed(f, read) + again[f])
                           ELSE meta[f]]
            /\ excused' = excused \ Chosen(list, read)
    BY <1>2
  <1>4. /\ \A f \in list : Listed(f, read) \in ReadBack(meta[f].written)
        /\ \A f \in Chosen(list, read) : Listed(f, read) + again[f] \in ReadBack(Listed(f, read))
    BY DEF ReadBack, Listed
  <1>5. \A f \in Files : meta[f].isOpen \in {0, 1}
    BY DEF TypeOK, Metadata
  <1>6. /\ \A f \in Files : meta'[f] =
               IF f \in Chosen(list, read)
               THEN Demoted(meta[f], Listed(f, read), Listed(f, read) + again[f])
               ELSE meta[f]
        /\ meta' = [f \in Files |-> meta'[f]]
    BY <1>3
  <1>7. /\ Chosen(list, read) \in SUBSET list
        /\ \A f \in list : f \in Chosen(list, read) <=>
                             meta[f].isOpen = 0 /\ ~TooYoung(Listed(f, read))
    BY DEF Chosen
  <1>8. ASSUME NEW f \in Files
        PROVE  /\ f \notin Chosen(list, read) => meta'[f] = meta[f]
               /\ f \in Chosen(list, read) => \E time \in ReadBack(meta[f].written) :
                     /\ meta[f].isOpen = 0 /\ ~TooYoung(time)
                     /\ \E score \in ReadBack(time) :
                            meta'[f] = Demoted(meta[f], time, score)
               /\ f \in list \ Chosen(list, read) =>
                     \/ meta[f].isOpen = 1
                     \/ \E time \in ReadBack(meta[f].written) : TooYoung(time)
    BY <1>4, <1>5, <1>6, <1>7
  <1> QED BY <1>3, <1>6, <1>7, <1>8

\* What a promotion pass does to a file.
LEMMA PromotionPassDoes ==
    ASSUME TypeOK, PromotionPass
    PROVE  \E list \in PromotionLists(meta, lists, now) :
               /\ \A f \in Files :
                      /\ f \notin list => meta'[f] = meta[f]
                      /\ f \in list => \E score \in ReadBack(now) :
                                           meta'[f] = Promoted(meta[f], score)
               /\ meta' = [f \in Files |-> meta'[f]]
  <1>0. PICK list \in PromotionLists(meta, lists, now) : \E read \in [list -> Skews] :
            meta' = [f \in Files |-> IF f \in list THEN Promoted(meta[f], now + read[f])
                                                 ELSE meta[f]]
    BY DEF PromotionPass
  <1>1. PICK read \in [list -> Skews] :
            meta' = [f \in Files |-> IF f \in list THEN Promoted(meta[f], now + read[f])
                                                 ELSE meta[f]]
    BY <1>0
  <1>2. \A f \in list : now + read[f] \in ReadBack(now)
    BY DEF ReadBack
  <1> QED BY <1>1, <1>2

\* The types are kept by every step.
LEMMA TypeKept == TypeOK /\ [Next]_vars => TypeOK'
  <1> SUFFICES ASSUME TypeOK, [Next]_vars PROVE TypeOK'
    OBVIOUS
  <1>0. /\ meta \in [Files -> Metadata] /\ now \in Nat /\ excused \subseteq Files
        /\ \A f \in Files : meta[f].written \in Int
    BY DEF TypeOK, Metadata
  <1>a. ASSUME NEW f \in Files
        PROVE  /\ \A time \in ReadBack(meta[f].written) : \A score \in ReadBack(time) :
                      Demoted(meta[f], time, score) \in Metadata
               /\ \A score \in ReadBack(now) :
                      /\ Promoted(meta[f], score) \in Metadata
                      /\ Opened(meta[f], score) \in Metadata
                      /\ \A size \in Sizes :
                            [Stamped(meta[f], score) EXCEPT !.fileSize = size] \in Metadata
               /\ [meta[f] EXCEPT !.isOpen = 0] \in Metadata
    <2>1. meta[f] \in Metadata /\ ReadBack(meta[f].written) \subseteq Int
          /\ ReadBack(now) \subseteq Int /\ now \in Int
      BY <1>0, ReadBackIsTime
    <2>2. \A time \in ReadBack(meta[f].written) : ReadBack(time) \subseteq Int
      BY <2>1, ReadBackIsTime
    <2> QED BY <2>1, <2>2, MetadataType
  <1>1. CASE DemotionPass
    <2>1. PICK chosen :
              /\ excused' = excused \ chosen
              /\ \A f \in Files :
                    /\ f \notin chosen => meta'[f] = meta[f]
                    /\ f \in chosen => \E time \in ReadBack(meta[f].written) :
                          \E score \in ReadBack(time) :
                              meta'[f] = Demoted(meta[f], time, score)
              /\ meta' = [f \in Files |-> meta'[f]]
      BY <1>1, DemotionPassDoes
    <2>2. ASSUME NEW f \in Files PROVE meta'[f] \in Metadata
      BY <1>0, <1>a, <2>1
    <2>3. meta' \in [Files -> Metadata] /\ excused' \subseteq Files
      BY <1>0, <2>1, <2>2
    <2> QED BY <1>0, <1>1, <2>3 DEF DemotionPass, TypeOK
  <1>2. CASE PromotionPass
    <2>1. PICK list : /\ \A f \in Files :
                             /\ f \notin list => meta'[f] = meta[f]
                             /\ f \in list => \E score \in ReadBack(now) :
                                                  meta'[f] = Promoted(meta[f], score)
                      /\ meta' = [f \in Files |-> meta'[f]]
      BY <1>2, PromotionPassDoes
    <2>2. ASSUME NEW f \in Files PROVE meta'[f] \in Metadata
      BY <1>0, <1>a, <2>1
    <2>3. meta' \in [Files -> Metadata]
      BY <2>1, <2>2
    <2> QED BY <1>0, <1>2, <2>3 DEF PromotionPass, TypeOK
  <1>3. ASSUME NEW f \in Files, Open(f)
        PROVE  TypeOK'
    <2>1. PICK score \in ReadBack(now) : meta' = [meta EXCEPT ![f] = Opened(@, score)]
      BY <1>3 DEF Open
    <2>2. Opened(meta[f], score) \in Metadata
      BY <1>a
    <2> QED BY <1>0, <1>3, <2>1, <2>2 DEF Open, TypeOK
  <1>4. ASSUME NEW f \in Files, Close(f)
        PROVE  TypeOK'
    <2>1. [meta[f] EXCEPT !.isOpen = 0] \in Metadata
      BY <1>a
    <2>2. meta' = [meta EXCEPT ![f] = [meta[f] EXCEPT !.isOpen = 0]]
      BY <1>0, <1>4 DEF Close, Metadata
    <2> QED BY <1>0, <1>4, <2>1, <2>2 DEF Close, TypeOK
  <1>5. ASSUME NEW f \in Files, NEW size \in Sizes, Modify(f, size)
        PROVE  TypeOK'
    <2>1. PICK score \in ReadBack(now) :
              meta' = [meta EXCEPT ![f] = [Stamped(@, score) EXCEPT !.fileSize = size]]
      BY <1>5 DEF Modify
    <2>2. [Stamped(meta[f], score) EXCEPT !.fileSize = size] \in Metadata
      BY <1>a
    <2> QED BY <1>0, <1>5, <2>1, <2>2 DEF Modify, TypeOK
  <1>6. CASE Tick
    BY <1>0, <1>6 DEF Tick, TypeOK
  <1>7. CASE ChangePolicies
    BY <1>0, <1>7 DEF ChangePolicies, TypeOK
  <1>8. CASE UNCHANGED vars
    BY <1>8 DEF vars, TypeOK
  <1> QED BY <1>1, <1>2, <1>3, <1>4, <1>5, <1>6, <1>7, <1>8 DEF Next

\* The members the policies look at stay natural numbers, times and flags, the
\* policies stay those of some policy file, whatever users and passes do.
THEOREM TieringTypeCorrect == Spec => []TypeOK
  <1>1. Init => TypeOK
    <2> SUFFICES ASSUME Init PROVE TypeOK
      OBVIOUS
    <2>1. Sizes \subseteq Nat
      BY TieringAssumption
    <2>2. ASSUME NEW m \in [fileSize : Sizes, timesAccessed : {0}, lastModified : {0},
                            isLocal : {1}, written : {0}, isOpen : {0, 1}]
          PROVE  m \in Metadata
      <3>1. /\ m = [fileSize |-> m.fileSize, timesAccessed |-> m.timesAccessed,
                    lastModified |-> m.lastModified, isLocal |-> m.isLocal,
                    written |-> m.written, isOpen |-> m.isOpen]
            /\ m.fileSize \in Nat /\ m.timesAccessed = 0 /\ m.written = 0
            /\ m.lastModified = 0 /\ m.isLocal = 1 /\ m.isOpen \in {0, 1}
        BY <2>1
      <3> QED BY <3>1 DEF Metadata
    <2>3. meta \in [Files -> Metadata]
      BY <2>2 DEF Init
    <2> QED BY <2>3 DEF Init, TypeOK
  <1> QED BY <1>1, TypeKept, PTL DEF Spec

-----------------------------------------------------------------------------
(***************************************************************************)
(* A demotion pass and isFileKept agree.                                   *)
(***************************************************************************)

\* The agreement in one step.
LEMMA PassAgrees ==
    ASSUME DistinctFileNames, TypeOK, DemotionPass, NEW f \in Files
    PROVE  LET may == meta[f].isLocal = 1 /\ meta[f].isOpen = 0
                         /\ NonEmpty(lists) # {} /\ GivenUp(meta[f])
               times == ReadBack(meta[f].written)
           IN  /\ WentCold(f) => may /\ \E time \in times : ~TooYoung(time)
               /\ may /\ (\A time \in times : ~TooYoung(time)) => WentCold(f)
  <1>1. PICK list \in DemotionLists(meta, lists, now) : \E chosen \in SUBSET list :
            /\ f \notin chosen => meta'[f] = meta[f]
            /\ f \in chosen => \E time \in ReadBack(meta[f].written) :
                  /\ meta[f].isOpen = 0 /\ ~TooYoung(time)
                  /\ \E score \in ReadBack(time) :
                         meta'[f] = Demoted(meta[f], time, score)
            /\ f \in list \ chosen =>
                  \/ meta[f].isOpen = 1
                  \/ \E time \in ReadBack(meta[f].written) : TooYoung(time)
    BY DemotionPassDoes
  <1>2. f \in list <=> /\ meta[f].isLocal = 1
                       /\ NonEmpty(lists) # {}
                       /\ GivenUp(meta[f])
    BY AllListsDemote
  <1>3. meta[f] \in Metadata
    BY DEF TypeOK
  <1>4. \A time, score : Demoted(meta[f], time, score).isLocal = 0
    BY <1>3 DEF Demoted, Metadata
  <1>5. meta[f].isOpen = 1 => meta[f].isOpen # 0
    OBVIOUS
  <1> QED BY <1>1, <1>2, <1>4, <1>5 DEF WentCold

\* For any policies, any metadata and any local time: a demotion pass demotes
\* the local files that no policy list keeps in the sense of isFileKept and that
\* are neither marked as open nor too young, and no others.
THEOREM DemotionsAgree ==
    ASSUME DistinctFileNames
    PROVE  Spec => DemotesTheGivenUp
  <1>1. TypeOK /\ [Next]_vars =>
            [DemotionPass => \A f \in Files :
                LET may == meta[f].isLocal = 1 /\ meta[f].isOpen = 0
                              /\ NonEmpty(lists) # {} /\ GivenUp(meta[f])
                    times == ReadBack(meta[f].written)
                IN  /\ WentCold(f) => may /\ \E time \in times : ~TooYoung(time)
                    /\ may /\ (\A time \in times : ~TooYoung(time)) => WentCold(f)]_vars
    BY PassAgrees
  <1> QED BY <1>1, TieringTypeCorrect, PTL DEF Spec, DemotesTheGivenUp

-----------------------------------------------------------------------------
(***************************************************************************)
(* The migrator does not undo its own demotions.  The invariant: a cold    *)
(* file that the policies have not changed for is out of some policy of    *)
(* every list, up to the slack of its reading back, and time can only take *)
(* it further away from one that counts no accesses.  It needs that the    *)
(* scores are what may be read back from the hashes.                       *)
(***************************************************************************)

\* f is out of policy p, the slack taken off its age.
IsOut(m, f, p, t) ==
    /\ p \in SizePolicies => ~(p.low <= m[f].fileSize /\ m[f].fileSize <= p.high)
    /\ p \in TimePolicies => m[f].lastModified < t - p.minimumAge + Slack

\* No list of the policies in force wants the file back.
Unwanted(m, f, t) ==
    \A list \in NonEmpty(lists) : \E p \in list : IsOut(m, f, p, t)

ColdIsUnwanted ==
    ~CountsAccesses => \A f \in Files :
        meta[f].isLocal = 0 /\ f \notin excused => Unwanted(meta, f, now)

ScoresAreRead == \A f \in Files : meta[f].lastModified \in ReadBack(meta[f].written)

\* Whether a file meets a policy that counts no accesses depends on its size
\* and age only.
LEMMA MeetsIs ==
    ASSUME NEW m, NEW t, NEW f \in Files, NEW p \in Policies, p.type # "hitspolicy"
    PROVE  /\ p \in SizePolicies =>
                  (f \in Meets(m, p, t) <=> /\ p.low <= m[f].fileSize
                                            /\ m[f].fileSize <= p.high)
           /\ p \in SizePolicies \cup TimePolicies
  <1>1. CASE p \in SizePolicies
    <2>1. p.type = "sizepolicy"
      BY <1>1 DEF SizePolicies
    <2>2. Meets(m, p, t) = FilesInSizeRange(m, p)
      BY <2>1 DEF Meets
    <2> QED BY <1>1, <2>1, <2>2 DEF FilesInSizeRange
  <1>2. CASE p \in TimePolicies
    BY <1>2 DEF TimePolicies, SizePolicies
  <1> QED BY <1>1, <1>2 DEF Policies, HitPolicies

\* The slack is a time.
LEMMA SlackIsTime == TypeOK => Slack \in Nat
  BY TieringAssumption DEF TypeOK, Slack

\* A file that is out of a policy stays out as time passes.
LEMMA StaysOut ==
    ASSUME TypeOK, NEW m \in [Files -> Metadata], NEW t \in Int,
           NEW n, NEW u \in Int, NEW f \in Files,
           n[f].fileSize = m[f].fileSize, n[f].lastModified = m[f].lastModified,
           t <= u,
           NEW p \in Policies, IsOut(m, f, p, t)
    PROVE  IsOut(n, f, p, u)
  <1>1. m[f].lastModified \in Int /\ Slack \in Int
    BY SlackIsTime DEF Metadata
  <1>2. ASSUME p \in TimePolicies PROVE n[f].lastModified < u - p.minimumAge + Slack
    <2>1. p.minimumAge \in Int
      BY <1>2 DEF TimePolicies
    <2>2. m[f].lastModified < t - p.minimumAge + Slack
      BY <1>2 DEF IsOut
    <2> QED BY <1>1, <2>1, <2>2
  <1>3. p \in SizePolicies => ~(p.low <= n[f].fileSize /\ n[f].fileSize <= p.high)
    BY DEF IsOut
  <1> QED BY <1>2, <1>3 DEF IsOut

\* The time of a file, its score, the time in a list and the score after a
\* demotion: the last is at most the slack above the first score.
LEMMA ReadThreeTimes ==
    ASSUME TypeOK, NEW written \in Int, NEW before \in ReadBack(written),
           NEW time \in ReadBack(written), NEW after \in ReadBack(time)
    PROVE  after \in Int /\ before \in Int /\ after <= before + Slack
  <1>1. Hour \in Nat
    BY TieringAssumption
  <1>2. CASE daylight
    <2>1. PICK r \in {-Hour, 0, Hour}, s \in {-Hour, 0, Hour}, q \in {-Hour, 0, Hour} :
              before = written + r /\ time = written + s /\ after = time + q
      BY <1>2 DEF ReadBack, Skews
    <2>2. /\ r \in Int /\ s \in Int /\ q \in Int
          /\ -Hour <= r /\ s <= Hour /\ q <= Hour
      BY <1>1
    <2>3. Slack = 3 * Hour
      BY <1>2 DEF Slack
    <2> QED BY <1>1, <2>1, <2>2, <2>3
  <1>3. CASE ~daylight
    <2>1. before = written + 0 /\ time = written + 0 /\ after = time + 0 /\ Slack = 0
      BY <1>3 DEF ReadBack, Skews, Slack
    <2> QED BY <2>1
  <1> QED BY <1>2, <1>3

\* A file that a policy gives up is out of it after its demotion: the threshold
\* itself is on both sides, but the pause between passes is not zero.
LEMMA GivenUpIsOut ==
    ASSUME TypeOK, ScoresAreRead, NEW f \in Files, NEW p \in Policies,
           p.type # "hitspolicy", ~IsFileKept(meta[f], p),
           NEW n, NEW u \in Int, now < u,
           n[f].fileSize = meta[f].fileSize,
           NEW time \in ReadBack(meta[f].written), n[f].lastModified \in ReadBack(time)
    PROVE  IsOut(n, f, p, u)
  <1>1. now \in Int /\ meta[f].written \in Int /\ Slack \in Int
    BY SlackIsTime DEF TypeOK, Metadata
  <1>2. CASE p \in SizePolicies
    <2>1. p.type = "sizepolicy" /\ p \notin TimePolicies
      BY <1>2 DEF SizePolicies, TimePolicies
    <2> QED BY <1>2, <2>1 DEF IsFileKept, IsOut
  <1>3. CASE p \in TimePolicies
    <2>1. p.type = "timepolicy" /\ p.minimumAge \in Int /\ p \notin SizePolicies
      BY <1>3 DEF TimePolicies, SizePolicies
    <2>2. meta[f].lastModified <= now - p.minimumAge
      BY <2>1 DEF IsFileKept
    <2>3. meta[f].lastModified \in ReadBack(meta[f].written)
      BY DEF ScoresAreRead
    <2>4. /\ n[f].lastModified \in Int /\ meta[f].lastModified \in Int
          /\ n[f].lastModified <= meta[f].lastModified + Slack
      BY <1>1, <2>3, ReadThreeTimes
    <2>5. n[f].lastModified < u - p.minimumAge + Slack
      BY <1>1, <2>1, <2>2, <2>4
    <2> QED BY <2>1, <2>5 DEF IsOut
  <1> QED BY <1>2, <1>3, MeetsIs

\* The policies in force.
LEMMA InForce ==
    ASSUME ~CountsAccesses, TypeOK
    PROVE  \A list \in NonEmpty(lists) : \A p \in list :
               p \in Policies /\ p.type # "hitspolicy"
  BY TieringAssumption DEF CountsAccesses, TypeOK, NonEmpty

\* The zone does not change.
LEMMA ZoneStays ==
    ASSUME [Next]_vars
    PROVE  /\ daylight' = daylight /\ Slack' = Slack
           /\ \A time : ReadBack(time)' = ReadBack(time)
  <1>1. daylight' = daylight
    BY DEF Next, DemotionPass, PromotionPass, Open, Close, Modify, Tick,
           ChangePolicies, vars
  <1> QED BY <1>1 DEF Slack, ReadBack, Skews

\* Scores are what may be read back.
LEMMA ScoresKept == TypeOK /\ ScoresAreRead /\ [Next]_vars => ScoresAreRead'
  <1> SUFFICES ASSUME TypeOK, ScoresAreRead, [Next]_vars, NEW f \in Files
               PROVE  meta'[f].lastModified \in ReadBack(meta'[f].written)
    BY ZoneStays DEF ScoresAreRead
  <1>0. /\ meta \in [Files -> Metadata] /\ meta[f] \in Metadata
        /\ meta[f].lastModified \in ReadBack(meta[f].written)
    BY DEF TypeOK, ScoresAreRead
  <1>1. \A time, score : /\ Demoted(meta[f], time, score).lastModified = score
                         /\ Demoted(meta[f], time, score).written = time
    BY <1>0 DEF Demoted, Metadata
  <1>2. \A score : Stamped(meta[f], score) =
            [meta[f] EXCEPT !.written = now, !.lastModified = score]
    BY DEF Stamped
  <1>3. \A score : /\ Promoted(meta[f], score).lastModified = score
                   /\ Promoted(meta[f], score).written = now
                   /\ Opened(meta[f], score).lastModified = score
                   /\ Opened(meta[f], score).written = now
                   /\ \A size :
                         LET m == [Stamped(meta[f], score) EXCEPT !.fileSize = size]
                         IN  m.lastModified = score /\ m.written = now
    BY <1>0, <1>2 DEF Promoted, Opened, Metadata
  <1>4. CASE DemotionPass
    BY <1>0, <1>1, <1>4, DemotionPassDoes
  <1>5. CASE PromotionPass
    BY <1>0, <1>3, <1>5, PromotionPassDoes
  <1>6. ASSUME NEW g \in Files, Open(g)
        PROVE  meta'[f].lastModified \in ReadBack(meta'[f].written)
    <2>1. PICK score \in ReadBack(now) : meta' = [meta EXCEPT ![g] = Opened(@, score)]
      BY <1>6 DEF Open
    <2> QED BY <1>0, <1>3, <2>1
  <1>7. ASSUME NEW g \in Files, Close(g)
        PROVE  meta'[f].lastModified \in ReadBack(meta'[f].written)
    BY <1>0, <1>7 DEF Close, Metadata
  <1>8. ASSUME NEW g \in Files, NEW size \in Sizes, Modify(g, size)
        PROVE  meta'[f].lastModified \in ReadBack(meta'[f].written)
    <2>1. PICK score \in ReadBack(now) :
              meta' = [meta EXCEPT ![g] = [Stamped(@, score) EXCEPT !.fileSize = size]]
      BY <1>8 DEF Modify
    <2> QED BY <1>0, <1>3, <2>1
  <1>9. CASE Tick \/ ChangePolicies \/ UNCHANGED vars
    BY <1>0, <1>9 DEF Tick, ChangePolicies, vars
  <1> QED BY <1>4, <1>5, <1>6, <1>7, <1>8, <1>9 DEF Next

\* The invariant is inductive.
LEMMA UnwantedKept ==
    ASSUME DistinctFileNames
    PROVE  TypeOK /\ ScoresAreRead /\ ColdIsUnwanted /\ [Next]_vars => ColdIsUnwanted'
  <1> SUFFICES ASSUME TypeOK, ScoresAreRead, ColdIsUnwanted, [Next]_vars
               PROVE  ColdIsUnwanted'
    OBVIOUS
  <1> SUFFICES ASSUME NEW f \in Files, meta'[f].isLocal = 0, f \notin excused',
                      lists' = lists, ~CountsAccesses
               PROVE  Unwanted(meta', f, now')
    <2>1. lists' # lists => excused' = Files
      BY DEF Next, DemotionPass, PromotionPass, Open, Close, Modify, Tick,
             ChangePolicies, vars
    <2>2. lists' = lists => (ColdIsUnwanted' <=> (~CountsAccesses =>
            \A f \in Files : meta'[f].isLocal = 0 /\ f \notin excused'
                                 => Unwanted(meta', f, now')))
      BY ZoneStays DEF ColdIsUnwanted, Unwanted, IsOut, CountsAccesses
    <2>3. excused' = Files => ColdIsUnwanted'
      BY DEF ColdIsUnwanted
    <2> QED BY <2>1, <2>2, <2>3
  <1>0. /\ meta \in [Files -> Metadata] /\ now \in Int
        /\ meta[f] \in Metadata
        /\ meta[f].isLocal = 0 /\ f \notin excused => Unwanted(meta, f, now)
    BY DEF TypeOK, ColdIsUnwanted
  <1>1. ASSUME meta[f].isLocal = 0, f \notin excused,
               meta'[f].fileSize = meta[f].fileSize,
               meta'[f].lastModified = meta[f].lastModified,
               now' \in Int, now <= now'
        PROVE  Unwanted(meta', f, now')
    BY <1>0, <1>1, InForce, StaysOut DEF Unwanted
  <1>2. CASE DemotionPass
    <2>1. PICK list \in DemotionLists(meta, lists, now) : \E chosen \in SUBSET list :
              /\ excused' = excused \ chosen
              /\ f \notin chosen => meta'[f] = meta[f]
              /\ f \in chosen => \E time \in ReadBack(meta[f].written) :
                    \E score \in ReadBack(time) :
                        meta'[f] = Demoted(meta[f], time, score)
      BY <1>2, DemotionPassDoes
    <2>a. PICK chosen :
              /\ chosen \subseteq list
              /\ excused' = excused \ chosen
              /\ f \notin chosen => meta'[f] = meta[f]
              /\ f \in chosen => \E time \in ReadBack(meta[f].written) :
                    \E score \in ReadBack(time) :
                        meta'[f] = Demoted(meta[f], time, score)
      BY <2>1
    <2>2. now' = now + 1
      BY <1>2 DEF DemotionPass
    <2>3. CASE f \in chosen
      <3>1. GivenUp(meta[f])
        BY <2>1, <2>a, <2>3, AllListsDemote
      <3>2. PICK time \in ReadBack(meta[f].written) : \E score \in ReadBack(time) :
                meta'[f] = Demoted(meta[f], time, score)
        BY <2>a, <2>3
      <3>3. meta'[f].fileSize = meta[f].fileSize /\ meta'[f].lastModified \in ReadBack(time)
        BY <1>0, <3>2 DEF Demoted, Metadata
      <3>4. now + 1 \in Int /\ now < now + 1
        BY <1>0
      <3>5. \A list_ \in NonEmpty(lists) : \E p \in list_ :
                /\ p \in Policies /\ p.type # "hitspolicy"
                /\ ~IsFileKept(meta[f], p)
        BY <3>1, InForce DEF GivenUp
      <3> QED BY <2>2, <3>3, <3>4, <3>5, GivenUpIsOut DEF Unwanted
    <2>4. CASE f \notin chosen
      <3>1. meta'[f] = meta[f] /\ f \notin excused
        BY <2>a, <2>4
      <3>2. now' \in Int /\ now <= now'
        BY <1>0, <2>2
      <3> QED BY <1>1, <3>1, <3>2
    <2> QED BY <2>3, <2>4
  <1>3. CASE PromotionPass
    <2>1. PICK list : /\ f \notin list => meta'[f] = meta[f]
                      /\ f \in list => \E score \in ReadBack(now) :
                                           meta'[f] = Promoted(meta[f], score)
      BY <1>3, PromotionPassDoes
    <2>2. \A score : Promoted(meta[f], score).isLocal = 1
      BY <1>0 DEF Promoted, Stamped, Metadata
    <2>3. meta'[f] = meta[f]
      BY <2>1, <2>2
    <2>4. now' \in Int /\ now <= now' /\ f \notin excused
      BY <1>0, <1>3 DEF PromotionPass
    <2> QED BY <1>1, <2>3, <2>4
  <1>4. ASSUME NEW g \in Files, Open(g)
        PROVE  Unwanted(meta', f, now')
    <2>1. \A score : Opened(meta[f], score).isLocal = 1
      BY <1>0 DEF Opened, Stamped, Metadata
    <2>2. g # f /\ meta'[f] = meta[f]
      BY <1>0, <1>4, <2>1 DEF Open
    <2> QED BY <1>0, <1>1, <1>4, <2>2 DEF Open
  <1>5. ASSUME NEW g \in Files, Close(g)
        PROVE  Unwanted(meta', f, now')
    <2>1. /\ meta'[f].isLocal = meta[f].isLocal
          /\ meta'[f].fileSize = meta[f].fileSize
          /\ meta'[f].lastModified = meta[f].lastModified
      BY <1>0, <1>5 DEF Close, Metadata
    <2> QED BY <1>0, <1>1, <1>5, <2>1 DEF Close
  <1>6. ASSUME NEW g \in Files, NEW size \in Sizes, Modify(g, size)
        PROVE  Unwanted(meta', f, now')
    <2>1. meta[g].isLocal = 1
      BY <1>6 DEF Modify
    <2>2. g # f /\ meta'[f] = meta[f]
      BY <1>0, <1>6, <2>1 DEF Modify, Stamped, Metadata
    <2> QED BY <1>0, <1>1, <1>6, <2>2 DEF Modify
  <1>7. CASE Tick
    <2>1. now' \in Int /\ now <= now'
      BY <1>0, <1>7 DEF Tick
    <2> QED BY <1>1, <1>7, <2>1 DEF Tick
  <1>8. CASE ChangePolicies
    BY <1>8 DEF ChangePolicies
  <1>9. CASE UNCHANGED vars
    BY <1>0, <1>1, <1>9 DEF vars
  <1> QED BY <1>2, <1>3, <1>4, <1>5, <1>6, <1>7, <1>8, <1>9 DEF Next

\* For any policies, files, users and local time: as long as the policies in
\* force count no accesses, a promotion pass takes back no file that the
\* migrator has demoted under them; and where there is daylight saving, none
\* but for its age and within three hours of it.
THEOREM NoDemotionUndone ==
    ASSUME DistinctFileNames
    PROVE  Spec => NoSelfPromotion
  <1>1. Init => ColdIsUnwanted /\ ScoresAreRead
    <2> SUFFICES ASSUME Init PROVE ColdIsUnwanted /\ ScoresAreRead
      OBVIOUS
    <2>1. \A f \in Files : /\ meta[f].isLocal = 1
                           /\ meta[f].lastModified = 0 /\ meta[f].written = 0
      BY DEF Init
    <2>2. 0 \in ReadBack(0)
      BY DEF ReadBack, Skews
    <2> QED BY <2>1, <2>2 DEF ColdIsUnwanted, ScoresAreRead
  <1>2. TypeOK /\ ScoresAreRead /\ ColdIsUnwanted /\ [Next]_vars
            => ScoresAreRead' /\ ColdIsUnwanted'
    BY UnwantedKept, ScoresKept
  <1>3. TypeOK /\ ColdIsUnwanted /\ [Next]_vars =>
            [PromotionPass /\ ~CountsAccesses =>
                \A f \in Files : CameBack(f) =>
                    \/ f \in excused
                    \/ \E list \in NonEmpty(lists) :
                           /\ f \in GetPromotionList(meta, list, now)
                           /\ Wavers(f, list)]_vars
    <2> SUFFICES ASSUME TypeOK, ColdIsUnwanted, PromotionPass, ~CountsAccesses,
                        NEW f \in Files, CameBack(f), f \notin excused
                 PROVE  \E list \in NonEmpty(lists) :
                           /\ f \in GetPromotionList(meta, list, now)
                           /\ Wavers(f, list)
      OBVIOUS
    <2>1. PICK chosen \in PromotionLists(meta, lists, now) :
              f \notin chosen => meta'[f] = meta[f]
      BY PromotionPassDoes
    <2>2. f \in chosen
      BY <2>1 DEF CameBack
    <2>3. PICK list \in NonEmpty(lists) :
              /\ f \in GetPromotionList(meta, list, now)
              /\ \A p \in list : f \in Meets(meta, p, now)
      BY <2>2, PromotionMeets
    <2>4. PICK p \in list : IsOut(meta, f, p, now)
      BY <2>3 DEF CameBack, ColdIsUnwanted, Unwanted
    <2>5. p \in Policies /\ p.type # "hitspolicy"
      BY InForce
    <2>6. p \in TimePolicies
      BY <2>3, <2>4, <2>5, MeetsIs DEF IsOut
    <2>7. Wavers(f, list)
      BY <2>4, <2>6 DEF IsOut, Wavers, TimePolicies
    <2> QED BY <2>3, <2>7
  <1> QED
    BY <1>1, <1>2, <1>3, TieringTypeCorrect, PTL DEF Spec, NoSelfPromotion
==============================================================================
