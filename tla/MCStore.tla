-------------------------------- MODULE MCStore --------------------------------
(***************************************************************************)
(* Store.tla with two processes, the event handler and the migrator.       *)
(***************************************************************************)
EXTENDS StoreInvariant, TLC

Data(size, hits, local, time) ==
    [File_Size |-> size, Times_Accessed |-> hits, Is_Local |-> local,
     Last_Modified |-> time]

\* A new file, and what the migrator writes back of an old one.
SmallWritten == {Data(0, 0, 1, 0), Data(1, 1, 1, 1)}

SmallQueries == { [set |-> "Is_Local", low |-> 1, high |-> 1],
                  [set |-> "File_Size", low |-> 1, high |-> 9] }

Symmetric == Permutations(Keys) \cup Permutations(Clients)
==============================================================================
