--------------------------- MODULE MCRunLifecycle ---------------------------
(* Small instances of RunLifecycle: ids and processes are interchangeable. *)
EXTENDS RunLifecycle, TLC

Symmetry == Permutations(Runs) \cup Permutations(Workers)
                \cup Permutations(Starters)

=============================================================================
