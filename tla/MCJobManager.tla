----------------------------- MODULE MCJobManager -----------------------------
(***************************************************************************)
(* Small instances of JobManager for TLC.                                  *)
(***************************************************************************)
EXTENDS JobManager, TLC

\* Identifiers are interchangeable, and so are the requests that cancel.
Symmetry == Permutations(Jobs) \cup Permutations(Cancelers)
=============================================================================
