---------------------------- MODULE MCHousekeeping ----------------------------
(***************************************************************************)
(* Housekeeping.tla with model values for the files and their contents,    *)
(* and the forecast that its invariant is about, computed event by event.  *)
(***************************************************************************)
EXTENDS HousekeepingInvariant, TLC

CONSTANTS a, b, v1, v2

Symmetry == Permutations({a, b}) \cup Permutations({v1, v2})

\* The view that the event e makes of v.
After(e, v) ==
    CASE e.type = "create" -> [v EXCEPT !.hash[e.file] = IF @ = Absent THEN Hot ELSE @]
      [] e.type = "open" -> [v EXCEPT !.hash[e.file] = Hot]
      [] e.type = "delete" -> [v EXCEPT !.hash[e.file] = Absent]
      [] e.type = "movedFrom" -> [v EXCEPT !.old = e.file]
      [] e.type = "movedTo" /\ v.old # None ->
             [hash |-> [v.hash EXCEPT ![v.old] = Absent, ![e.file] = v.hash[v.old]],
              old |-> None]
      [] OTHER -> v

\* The views from the present one on.
Forecast == LET h[i \in 1..Len(queue) + 1] ==
                    IF i = 1 THEN View ELSE After(queue[i - 1], h[i - 1])
            IN h

\* The events that wait always turn the present catalogue into one that is true of
\* the two directories, through no event that would kill the handler and no recall
\* of an object that is not there: initializeINotify may be as late as it likes.
ForecastIsTrue == HousekeepingInv(Forecast)
==============================================================================
