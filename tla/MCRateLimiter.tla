----------------------------- MODULE MCRateLimiter -----------------------------
(* Instances of RateLimiter. *)
EXTENDS RateLimiter, TLC

\* Runs differ in their names only.
Symmetry == Permutations(Runs)

=============================================================================
