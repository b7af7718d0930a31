------------------------------- MODULE MCAccess -------------------------------
(* Two tabs, of one browser or of two, and one code. *)
EXTENDS Access, TLC

\* A complete environment of each mode, and what one may get wrong in it.
PrivateEnvironment ==
    [public |-> FALSE, credentials |-> TRUE, sessionSecret |-> "first", secureCookie |-> TRUE,
     https |-> FALSE, ledgerPath |-> TRUE, label |-> TRUE, numbers |-> TRUE, r2 |-> 0,
     stripe |-> 0, voucherSecret |-> "", siteKey |-> FALSE, turnstileSecret |-> FALSE,
     provider |-> "", challenge |-> ""]

PublicEnvironment ==
    [PrivateEnvironment EXCEPT !.public = TRUE, !.credentials = FALSE, !.https = TRUE,
                               !.r2 = 4, !.voucherSecret = "long"]

\* The operator changes to Stripe and Turnstile, and draws another secret.
OtherEnvironment ==
    [PublicEnvironment EXCEPT !.sessionSecret = "second", !.stripe = 3,
                              !.siteKey = TRUE, !.turnstileSecret = TRUE]

Variants(e) == {
    e,
    [e EXCEPT !.sessionSecret = "short"],
    [e EXCEPT !.r2 = 3],
    [e EXCEPT !.r2 = 0],
    [e EXCEPT !.numbers = FALSE],
    [e EXCEPT !.stripe = 1],
    [e EXCEPT !.voucherSecret = "short"],
    [e EXCEPT !.provider = "stripe"],
    [e EXCEPT !.siteKey = FALSE],
    [e EXCEPT !.turnstileSecret = ~@],
    [e EXCEPT !.https = FALSE],
    [e EXCEPT !.credentials = FALSE]}

MCEnvironments ==
    Variants(PrivateEnvironment) \cup Variants(PublicEnvironment) \cup Variants(OtherEnvironment)

AccessSymmetry ==
    Permutations(Requests) \cup Permutations(Pages) \cup Permutations(Browsers)
=============================================================================
