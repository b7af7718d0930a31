------------------------------ MODULE MCDownloads ------------------------------
(* JobManager with downloads, and the mapping onto JobLifecycle, for TLC. *)
EXTENDS Downloads, MCJobManager

\* Jobs, cancels and downloads are interchangeable.
DownloadSymmetry == Symmetry \cup Permutations(Readers)
=============================================================================
