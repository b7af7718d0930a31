---------------------------- MODULE Configuration ----------------------------
(***************************************************************************)
(* config.Load and what main makes of its answer: which environments start  *)
(* a server, and with which parts.  An environment says of each setting      *)
(* only what the code asks about it; settings with a default that is always  *)
(* good, and the exact ranges of numbers, are left out.                      *)
(***************************************************************************)
EXTENDS Integers

CONSTANT Secrets    \* session secrets of at least 32 bytes

\* public, credentials, secureCookie, https, ledgerPath, label, numbers say
\* whether a setting is on or acceptable; r2 and stripe count the values that
\* are set, of four and of three.
Environments ==
    [public : BOOLEAN, credentials : BOOLEAN, sessionSecret : Secrets \cup {"short"},
     secureCookie : BOOLEAN, https : BOOLEAN, ledgerPath : BOOLEAN, label : BOOLEAN,
     numbers : BOOLEAN, r2 : 0..4, stripe : 0..3, voucherSecret : {"", "short", "long"},
     siteKey : BOOLEAN, turnstileSecret : BOOLEAN,
     provider : {"", "stripe", "voucher", "other"},
     challenge : {"", "turnstile", "altcha", "other"}]

\* Without a name, any value of Stripe's chooses Stripe.
PaymentProvider(e) ==
    IF e.provider # "" THEN e.provider ELSE IF e.stripe > 0 THEN "stripe" ELSE "voucher"

ChallengeProvider(e) ==
    IF e.challenge # "" THEN e.challenge
    ELSE IF e.siteKey \/ e.turnstileSecret THEN "turnstile" ELSE "altcha"

R2Enabled(e) == e.r2 = 4

\* Mutated form: the provider need not be configured when it was inferred.
PublicReadyIfNamed(e) ==
    /\ e.secureCookie /\ e.https /\ e.ledgerPath /\ e.label /\ R2Enabled(e)
    /\ e.provider = "stripe" => e.stripe = 3
    /\ e.provider = "voucher" => e.voucherSecret = "long"
    /\ e.challenge = "turnstile" => e.siteKey /\ e.turnstileSecret

\* What public access requires.
PublicReady(e) ==
    /\ e.secureCookie /\ e.https /\ e.ledgerPath /\ e.label /\ R2Enabled(e)
    /\ \/ PaymentProvider(e) = "stripe" /\ e.stripe = 3
       \/ PaymentProvider(e) = "voucher" /\ e.voucherSecret = "long"
    /\ \/ ChallengeProvider(e) = "turnstile" /\ e.siteKey /\ e.turnstileSecret
       \/ ChallengeProvider(e) = "altcha"

\* Load answers with a configuration.
Loads(e) ==
    /\ e.public \/ e.credentials
    /\ e.sessionSecret \in Secrets
    /\ e.r2 \in {0, 4}
    /\ e.numbers
    /\ e.public => PublicReady(e)

\* The server main wires up; a part it has no use for in private mode is off.
Wire(e) ==
    [public |-> e.public,
     secret |-> e.sessionSecret,
     store |-> R2Enabled(e),
     checkout |-> e.public /\ PaymentProvider(e) = "stripe" /\ e.stripe = 3,
     vouchers |-> e.public /\ e.voucherSecret = "long",
     verifier |-> IF ~e.public THEN "none" ELSE ChallengeProvider(e),
     siteKey |-> e.public /\ ChallengeProvider(e) = "turnstile" /\ e.siteKey]

\* The constructors main calls refuse, too: NewStripeGateway an empty key,
\* commerce.Open a short voucher secret or a ledger nobody can pay into,
\* NewTurnstile an empty secret.
Starts(e) ==
    /\ Loads(e)
    /\ e.public => /\ PaymentProvider(e) = "stripe" => e.stripe = 3
                   /\ e.voucherSecret # "short"
                   /\ PaymentProvider(e) = "stripe" \/ e.voucherSecret = "long"
                   /\ ChallengeProvider(e) = "turnstile" => e.turnstileSecret
=============================================================================
