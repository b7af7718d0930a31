---------------------------- MODULE MCCreditLedger ----------------------------
(* A small instance of StripeGateway, and so of CreditLedger, for TLC. *)
EXTENDS StripeGateway, TLC

\* Every event that a callback can become.
MCEvents ==
    [id : Types \X Sessions, order : Orders, account : Accounts, session : Sessions,
     paid : BOOLEAN, final : BOOLEAN]

Symmetry == Permutations(Jobs) \cup Permutations(Orders) \cup Permutations(Sessions)
            \cup Permutations(Accounts)
=============================================================================
