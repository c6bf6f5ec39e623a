----------------------------- MODULE MCMigration -----------------------------
(***************************************************************************)
(* Migration.tla with model values for the files and their contents.  All  *)
(* files are alike, and so are all contents.                               *)
(***************************************************************************)
EXTENDS SafetyInvariant, TLC

CONSTANTS a, b, c, v1, v2

Symmetry == Permutations(Files) \cup Permutations({v1, v2})
==============================================================================
