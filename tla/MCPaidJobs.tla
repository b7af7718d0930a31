------------------------------ MODULE MCPaidJobs ------------------------------
(***************************************************************************)
(* A small instance of PaidJobs for TLC, in which both jobs belong to one  *)
(* wallet.                                                                 *)
(***************************************************************************)
EXTENDS PaidJobs, TLC

CONSTANT a1

OneOwner == [j \in Jobs |-> a1]

Symmetry == Permutations(Jobs) \cup Permutations(Vouchers)
=============================================================================
