------------------------------ MODULE MCTiering ------------------------------
(***************************************************************************)
(* Tiering.tla with small policies.  A unit of time is a minute: the       *)
(* bounce-back limit is one unit, and a cycle of manageFiles is rounded up *)
(* to two; the hour is one, too.                                           *)
(***************************************************************************)
EXTENDS Tiering, TLC

CONSTANTS a, one

Size(low, high) == [type |-> "sizepolicy", low |-> low, high |-> high]
Age(age) == [type |-> "timepolicy", minimumAge |-> age]
Hits(hits) == [type |-> "hitspolicy", hits |-> hits]

\* Sizes are 1 and 3.  Two lists of two policies, one list of two, one list
\* with an empty one, no list at all, and lists that count accesses.
SmallPolicies == { {{Size(1, 2), Age(2)}, {Size(2, 3), Age(3)}},
                   {{Size(1, 2), Age(4)}},
                   {{Age(2)}, {}},
                   {},
                   {{Hits(2)}, {Size(2, 3), Age(3)}},
                   {{Hits(1), Size(1, 2)}} }

OneName == a :> one
==============================================================================
