------------------------------ MODULE MCRunLock ------------------------------
(* Instances of RunLock. *)
EXTENDS RunLock, TLC

CONSTANTS t1, t2

\* Tasks differ in their names only.
Symmetry == Permutations(Tasks)

=============================================================================
