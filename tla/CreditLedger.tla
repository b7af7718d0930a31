----------------------------- MODULE CreditLedger -----------------------------
(***************************************************************************)
(* commerce.Service: accounts' balances, the ledger of credits, the        *)
(* charges of jobs, the orders of the payment provider and the vouchers.   *)
(* Every db.Update of the service is one serial transaction: one step that *)
(* happens as a whole, or, where the code returns an error, not at all.    *)
(* CreateCheckout is two transactions with a call of the provider between  *)
(* them, so other requests, callbacks and a crash come in there.           *)
(*                                                                         *)
(* An entry of the ledger is found by its reference, and the reference     *)
(* fixes the amount and the reason; an entry is kept as the account it was *)
(* written for.  Left out: the accounts bucket, which only records that an *)
(* account was seen; GrantCredits, which nothing but tests calls; voucher  *)
(* expiry and signatures; record timestamps.                               *)
(***************************************************************************)
EXTENDS Integers, FiniteSets

CONSTANTS
    Accounts,        \* wallets
    NoAccount,
    Jobs,            \* job identifiers
    Orders,          \* order identifiers, drawn at random
    Sessions,        \* checkout sessions of the provider
    NoSession,
    NoOrder,
    Vouchers,        \* identifiers inside valid voucher codes
    Events,          \* signed callbacks: [id, order, account, session, paid, final]
    PackCredits,     \* Config.Pack.Credits
    VoucherCredits   \* the credits a voucher code carries

ASSUME NoAccountAssumption == NoAccount \notin Accounts
ASSUME NoSessionAssumption == NoSession \notin Sessions
ASSUME NoOrderAssumption == NoOrder \notin Orders
\* Open requires a positive pack, Generate a positive amount.
ASSUME CreditsAssumption == PackCredits \in Nat \ {0} /\ VoucherCredits \in Nat \ {0}
ASSUME FiniteAssumption ==
    IsFiniteSet(Jobs) /\ IsFiniteSet(Orders) /\ IsFiniteSet(Vouchers)
ASSUME EventsAssumption ==
    \A e \in Events : /\ e.order \in Orders
                      /\ e.session \in Sessions
                      /\ e.paid \in BOOLEAN /\ e.final \in BOOLEAN

VARIABLES
    balances,   \* the balances bucket
    ledger,     \* reference -> account of the entry, NoAccount without one
    charges,    \* the job_charges bucket
    orders,     \* the orders bucket
    events,     \* the payment_events bucket: identifiers of events seen
    checkout,   \* where the CreateCheckout call that drew the order is
    opened      \* external: the provider's sessions and their order metadata

ledgerVars == <<balances, ledger, charges>>
orderVars == <<orders, events, checkout, opened>>
creditVars == <<ledgerVars, orderVars>>

References == ({"job", "refund"} \X Jobs) \cup ({"order"} \X Orders)
              \cup ({"voucher"} \X Vouchers)

NoCharge == [status |-> "none", account |-> NoAccount]

NoOrderRecord == [status |-> "none", account |-> NoAccount, session |-> NoSession]

CreditInit ==
    /\ balances = [a \in Accounts |-> 0]
    /\ ledger = [r \in References |-> NoAccount]
    /\ charges = [j \in Jobs |-> NoCharge]
    /\ orders = [o \in Orders |-> NoOrderRecord]
    /\ events = {}
    /\ checkout = [o \in Orders |-> "none"]
    /\ opened = [s \in Sessions |-> NoOrder]

\* Mutated form: references are not looked up under the key they were put.
NoEntryFound(r) == FALSE

\* A lookup in the bucket of references.
HasEntry(r) == ledger[r] # NoAccount

\* Mutated form: a balance may be overdrawn.
AnyBalance(a, delta) == TRUE

Covered(a, delta) == balances[a] + delta >= 0

\* addLedgerEntryTx: an entry with a known reference changes nothing; a
\* negative balance is an error, and the whole transaction is rolled back.
AddEntry(a, delta, r) ==
    IF HasEntry(r)
    THEN UNCHANGED <<balances, ledger>>
    ELSE /\ Covered(a, delta)
         /\ balances' = [balances EXCEPT ![a] = @ + delta]
         /\ ledger' = [ledger EXCEPT ![r] = a]

-----------------------------------------------------------------------------
(* Jobs. *)

\* Mutated form: the charge is written without its entry in the ledger.
AuthorizeUnpaid(a, j) ==
    /\ charges[j].status = "none"
    /\ Covered(a, -1)
    /\ charges' = [charges EXCEPT ![j] = [status |-> "authorized", account |-> a]]
    /\ UNCHANGED <<balances, ledger, orderVars>>

\* A repeated call for an open or completed charge of the same account
\* succeeds without a change, one for any other charge is an error.
AuthorizeJob(a, j) ==
    /\ charges[j].status = "none"
    /\ Covered(a, -1)
    /\ AddEntry(a, -1, <<"job", j>>)
    /\ charges' = [charges EXCEPT ![j] = [status |-> "authorized", account |-> a]]
    /\ UNCHANGED orderVars

\* Mutated form: only a refunded charge counts as settled.
SettledIfRefunded(charge) == charge.status = "refunded"

Settled(charge) == charge.status \in {"completed", "refunded"}

\* Without a charge, or with a settled one, nothing happens; an outcome for
\* another owner is an error.
RecordJobOutcome(j, owner, status) ==
    LET charge == charges[j] IN
    /\ \/ /\ charge.status = "none" \/ (charge.account = owner /\ Settled(charge))
          /\ UNCHANGED ledgerVars
       \/ /\ charge.status # "none" /\ charge.account = owner /\ ~Settled(charge)
          /\ status = "succeeded"
          /\ charges' = [charges EXCEPT ![j].status = "completed"]
          /\ UNCHANGED <<balances, ledger>>
       \/ /\ charge.status # "none" /\ charge.account = owner /\ ~Settled(charge)
          /\ status # "succeeded"
          /\ AddEntry(owner, 1, <<"refund", j>>)
          /\ charges' = [charges EXCEPT ![j].status = "refunded"]
    /\ UNCHANGED orderVars

\* Mutated form: charges whose job completed are refunded, too.
UnsettledOnRestart(charge) == charge.status \in {"authorized", "completed"}

Interrupted(charge) == charge.status = "authorized"

\* reconcileOpenCharges, one transaction when the service is opened.
Reconcile ==
    LET open == {j \in Jobs : Interrupted(charges[j])}
        due == {j \in open : ~HasEntry(<<"refund", j>>)} IN
    /\ balances' = [a \in Accounts |->
           balances[a] + Cardinality({j \in due : charges[j].account = a})]
    /\ ledger' = [r \in References |->
           IF r \in {"refund"} \X due THEN charges[r[2]].account ELSE ledger[r]]
    /\ charges' = [j \in Jobs |->
           IF j \in open THEN [charges[j] EXCEPT !.status = "refunded"] ELSE charges[j]]

\* The process stops anywhere and is started again: the database is as the
\* last transaction left it, a checkout that was under way is not resumed.
RestartService ==
    /\ Reconcile
    /\ checkout' = [o \in Orders |-> IF checkout[o] \in {"requested", "answered"}
                                     THEN "abandoned" ELSE checkout[o]]
    /\ UNCHANGED <<orders, events, opened>>

-----------------------------------------------------------------------------
(* Orders. *)

\* The first transaction of CreateCheckout.
BeginCheckout(a, o) ==
    /\ orders[o].status = "none"
    /\ orders' = [orders EXCEPT ![o] =
           [status |-> "pending", account |-> a, session |-> NoSession]]
    /\ checkout' = [checkout EXCEPT ![o] = "requested"]
    /\ UNCHANGED <<ledgerVars, events, opened>>

\* External: the provider opens the one session of an order (the order is the
\* idempotency key); its answer may be lost, or there may be no session at all.
ProviderOpens(o, s) ==
    /\ checkout[o] = "requested"
    /\ opened[s] = NoOrder
    /\ opened' = [opened EXCEPT ![s] = o]
    /\ \E next \in {"answered", "abandoned"} : checkout' = [checkout EXCEPT ![o] = next]
    /\ UNCHANGED <<ledgerVars, orders, events>>

ProviderRefuses(o) ==
    /\ checkout[o] = "requested"
    /\ checkout' = [checkout EXCEPT ![o] = "abandoned"]
    /\ UNCHANGED <<ledgerVars, orders, events, opened>>

\* Mutated form: the order is written back as it was before the call.
WithSessionStale(order, s) == [order EXCEPT !.status = "pending", !.session = s]

WithSession(order, s) == [order EXCEPT !.session = s]

\* The second transaction reads the order again, which a callback may have
\* settled by now, and sets its session.
BindSession(o) ==
    /\ checkout[o] = "answered"
    /\ \E s \in Sessions :
          /\ opened[s] = o
          /\ orders' = [orders EXCEPT ![o] = WithSession(@, s)]
    /\ checkout' = [checkout EXCEPT ![o] = "returned"]
    /\ UNCHANGED <<ledgerVars, events, opened>>

\* Mutated form: a paid order is not recognised.
NeverPaid(order) == FALSE

AlreadyPaid(order) == order.status = "paid"

Acceptable(e) ==
    LET order == orders[e.order] IN
    /\ order.status # "none"
    /\ order.account = e.account
    /\ order.session \in {NoSession, e.session}

\* A seen event changes nothing; one that cannot be accepted is an error, and
\* is not remembered.  An event that is not final is only remembered.
HandleWebhook(e) ==
    LET order == orders[e.order] IN
    /\ e.id \notin events
    /\ events' = events \cup {e.id}
    /\ \/ /\ ~e.final \/ (Acceptable(e) /\ AlreadyPaid(order))
          /\ UNCHANGED <<balances, ledger, orders>>
       \/ /\ e.final /\ Acceptable(e) /\ ~AlreadyPaid(order) /\ ~e.paid
          /\ orders' = [orders EXCEPT ![e.order].status = "failed",
                                      ![e.order].session = e.session]
          /\ UNCHANGED <<balances, ledger>>
       \/ /\ e.final /\ Acceptable(e) /\ ~AlreadyPaid(order) /\ e.paid
          /\ AddEntry(order.account, PackCredits, <<"order", e.order>>)
          /\ orders' = [orders EXCEPT ![e.order].status = "paid",
                                      ![e.order].session = e.session]
    /\ UNCHANGED <<charges, checkout, opened>>

-----------------------------------------------------------------------------
(* Vouchers. *)

\* The first redemption binds the voucher to the wallet; later ones only
\* answer with that wallet.
RedeemVoucher(a, v) ==
    /\ ~HasEntry(<<"voucher", v>>)
    /\ AddEntry(a, VoucherCredits, <<"voucher", v>>)
    /\ UNCHANGED <<charges, orderVars>>

-----------------------------------------------------------------------------
Outcomes == {"succeeded", "failed", "canceled"}

\* Any caller may call at any time and as often as it likes.
ServiceNext ==
    \/ \E a \in Accounts, j \in Jobs :
          \/ AuthorizeJob(a, j)
          \/ \E status \in Outcomes : RecordJobOutcome(j, a, status)
    \/ \E a \in Accounts, o \in Orders : BeginCheckout(a, o)
    \/ \E o \in Orders, s \in Sessions : ProviderOpens(o, s)
    \/ \E o \in Orders : ProviderRefuses(o) \/ BindSession(o)
    \/ \E a \in Accounts, v \in Vouchers : RedeemVoucher(a, v)
    \/ RestartService

\* A callback may come once the session was opened, repeatedly, in any order,
\* and whatever it says.
CreditNext ==
    \/ ServiceNext
    \/ \E e \in Events : opened[e.session] # NoOrder /\ HandleWebhook(e)

CreditSpec == CreditInit /\ [][CreditNext]_creditVars

-----------------------------------------------------------------------------
(* Properties. *)

CreditTypeOK ==
    /\ balances \in [Accounts -> Nat]
    /\ ledger \in [References -> Accounts \cup {NoAccount}]
    /\ charges \in [Jobs -> {NoCharge} \cup
           [status : {"authorized", "completed", "refunded"}, account : Accounts]]
    /\ orders \in [Orders -> {NoOrderRecord} \cup
           [status : {"pending", "failed", "paid"}, account : Accounts,
            session : Sessions \cup {NoSession}]]
    /\ events \in SUBSET {e.id : e \in Events}
    /\ checkout \in [Orders -> {"none", "requested", "answered", "returned", "abandoned"}]
    /\ opened \in [Sessions -> Orders \cup {NoOrder}]

PaidOrders(a) == {o \in Orders : orders[o].status = "paid" /\ orders[o].account = a}

Redeemed(a) == {v \in Vouchers : ledger[<<"voucher", v>>] = a}

\* The jobs of an account that are to be paid for: open or completed.
Billed(a) == {j \in Jobs : charges[j].status \in {"authorized", "completed"}
                           /\ charges[j].account = a}

\* A balance is what the account bought and redeemed, less one credit for each
\* of its jobs that is running or delivered: nothing is credited or refunded
\* twice, and nothing is lost, whatever repeats, overlaps or is cut off.
BalanceIsAccounted ==
    \A a \in Accounts :
        balances[a] = PackCredits * Cardinality(PaidOrders(a))
                      + VoucherCredits * Cardinality(Redeemed(a))
                      - Cardinality(Billed(a))

\* The state of a charge and the ledger tell the same story: a charged job has
\* its debit, and only a refunded one has a refund, all of the same account.
ChargeMatchesLedger ==
    \A j \in Jobs :
        /\ ledger[<<"job", j>>] = charges[j].account
        /\ ledger[<<"refund", j>>] = IF charges[j].status = "refunded"
                                     THEN charges[j].account ELSE NoAccount

\* An order is paid exactly when its account was credited for it.
OrderMatchesLedger ==
    \A o \in Orders :
        ledger[<<"order", o>>] = IF orders[o].status = "paid"
                                 THEN orders[o].account ELSE NoAccount

\* Charges and orders tell the same story as the ledger, to the last credit.
RecordsMatchLedger == ChargeMatchesLedger /\ OrderMatchesLedger

\* A job that was delivered is never refunded, and a refund is never undone,
\* though the worker, a cancel and a restart may each report an outcome.
SettledStaysSettled ==
    [][\A j \in Jobs : charges[j].status \in {"completed", "refunded"}
                        => charges'[j] = charges[j]]_creditVars

\* A paid order stays paid, although a failed callback may come late and the
\* second transaction of CreateCheckout writes the whole order.
PaidStaysPaid ==
    [][\A o \in Orders : orders[o].status = "paid" => orders'[o].status = "paid"]_creditVars

\* The ledger is append-only; in particular a voucher stays bound to the wallet
\* that redeemed it first.
LedgerIsAppendOnly ==
    [][\A r \in References : ledger[r] # NoAccount => ledger'[r] = ledger[r]]_creditVars

\* What is decided about money stays decided, whatever is repeated, late or cut
\* off: settled charges, paid orders and entries of the ledger never change.
RecordsAreFinal == SettledStaysSettled /\ PaidStaysPaid /\ LedgerIsAppendOnly
=============================================================================
