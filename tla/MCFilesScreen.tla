---------------------------- MODULE MCFilesScreen ----------------------------
(* Instances of FilesScreen. *)
EXTENDS FilesScreen, TLC

CONSTANTS a, b, q1, q2

\* Transactions differ in their names only, and so do requests.
Symmetry == Permutations(Writers) \cup Permutations(Requests)

=============================================================================
