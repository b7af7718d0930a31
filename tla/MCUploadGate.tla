----------------------------- MODULE MCUploadGate -----------------------------
(* UploadGate with two racing requests of two subjects. *)
EXTENDS UploadGate, TLC

\* Requests, subjects, challenges and tokens are interchangeable.
GateSymmetry ==
    Permutations(Requests) \cup Permutations(Subjects)
        \cup Permutations(Challenges) \cup Permutations(Tickets)

\* Spent tokens and used challenges are not drawn again, so every run of the
\* model ends; the clock stops at MaxTime.
=============================================================================
