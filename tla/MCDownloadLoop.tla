--------------------------- MODULE MCDownloadLoop ---------------------------
(* Names, contents and runs of DownloadLoop as interchangeable model values. *)
EXTENDS DownloadLoop, TLC

Symmetry == Permutations(Names) \cup Permutations(Contents) \cup Permutations(Runs)

=============================================================================
