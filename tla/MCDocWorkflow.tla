--------------------------- MODULE MCDocWorkflow ---------------------------
(* Small instances: one document and three checkers, each of a level of its *)
(* own; or a document and its copy, and checkers of two levels.             *)
EXTENDS DocWorkflow, TLC

CONSTANTS d1, d2, a, b, c

MCLevels    == a :> 1 @@ b :> 2 @@ c :> 3
MCTwoLevels == a :> 1 @@ c :> 2

MCSymmetry     == Permutations(Edits) \cup Permutations(Reviews) \cup Permutations(Orders)
MCCopySymmetry == Permutations(Edits) \cup Permutations(Reviews)
=============================================================================
