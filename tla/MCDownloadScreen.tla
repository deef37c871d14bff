--------------------------- MODULE MCDownloadScreen ---------------------------
(* Instances of DownloadScreen. *)
EXTENDS DownloadScreen

CONSTANTS p1, p2

=============================================================================
