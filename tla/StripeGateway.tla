---------------------------- MODULE StripeGateway ----------------------------
(***************************************************************************)
(* The ledger with the payment provider behind it: what happens to a         *)
(* checkout session at the provider, the callbacks it sends about that, and   *)
(* what StripeGateway.VerifyWebhook makes of them.  A callback may arrive     *)
(* never, late, repeatedly and in any order; it says what was true when the   *)
(* provider wrote it.  One that is refused is tried again by the provider     *)
(* with a new signature, so its refusal is no step.                          *)
(***************************************************************************)
EXTENDS CreditLedger

CONSTANTS
    Tolerance,   \* of the age of a signature
    MaxDelay     \* bound on that age

VARIABLE sent    \* external: the callbacks the provider has written

stripeVars == <<creditVars, sent>>

Types == {"completed", "async_payment_succeeded", "async_payment_failed", "expired"}

PaymentStatuses == {"paid", "no_payment_required", "unpaid"}

Callbacks == [type : Types, status : PaymentStatuses, session : Sessions]

-----------------------------------------------------------------------------
(* VerifyWebhook. *)

Verified(signed, age) == signed /\ age <= Tolerance

\* Mutated form: the type alone tells that a checkout is paid for.
PaidByType(c) == c.type \in {"completed", "async_payment_succeeded"}

Paid(c) ==
    /\ c.type \in {"completed", "async_payment_succeeded"}
    /\ c.status \in {"paid", "no_payment_required"}

\* A session names its order and the account of that order.
EventOf(c, order, account) ==
    [id |-> <<c.type, c.session>>, order |-> order, account |-> account,
     session |-> c.session, paid |-> Paid(c),
     final |-> Paid(c) \/ c.type \in {"async_payment_failed", "expired"}]

ASSUME CallbackAssumption ==
    /\ Tolerance \in Nat /\ MaxDelay \in Nat
    /\ \A c \in Callbacks, o \in Orders, a \in Accounts : EventOf(c, o, a) \in Events

StripeInit == CreditInit /\ sent = {}

-----------------------------------------------------------------------------
(* External: a session at the provider. *)

TypesOf(s) == {c.type : c \in {d \in sent : d.session = s}}

Write(type, status, s) ==
    /\ sent' = sent \cup {[type |-> type, status |-> status, session |-> s]}
    /\ UNCHANGED creditVars

\* The customer is through, with a payment that is done, unneeded or pending.
Complete(s, status) == TypesOf(s) = {} /\ Write("completed", status, s)

Expire(s) == TypesOf(s) = {} /\ Write("expired", "unpaid", s)

Pending(s) ==
    /\ TypesOf(s) = {"completed"}
    /\ [type |-> "completed", status |-> "unpaid", session |-> s] \in sent

PendingPaid(s) == Pending(s) /\ Write("async_payment_succeeded", "paid", s)

PendingFails(s) == Pending(s) /\ Write("async_payment_failed", "unpaid", s)

-----------------------------------------------------------------------------
(* handleBillingWebhook. *)

\* What the provider wrote is signed, and anybody may send something else.
ReceiveWebhook(c, signed, age) ==
    /\ opened[c.session] # NoOrder
    /\ signed => c \in sent
    /\ Verified(signed, age)
    /\ LET order == opened[c.session] IN HandleWebhook(EventOf(c, order, orders[order].account))
    /\ UNCHANGED sent

-----------------------------------------------------------------------------
StripeNext ==
    \/ ServiceNext /\ UNCHANGED sent
    \/ \E s \in Sessions :
          /\ opened[s] # NoOrder
          /\ \/ \E status \in PaymentStatuses : Complete(s, status)
             \/ Expire(s) \/ PendingPaid(s) \/ PendingFails(s)
    \/ \E c \in Callbacks, signed \in BOOLEAN, age \in 0..MaxDelay : ReceiveWebhook(c, signed, age)

StripeSpec == StripeInit /\ [][StripeNext]_stripeVars

-----------------------------------------------------------------------------
(* Properties. *)

\* The provider holds the money of a session, or asked for none.
Collected(s) == \E c \in sent : c.session = s /\ c.status # "unpaid"

\* Credits and money go together, although the answer to the checkout, the
\* callbacks about it and a restart come in any order: an order is paid only
\* if its session was, and once the service has acknowledged the callback that
\* tells of the money, after which the provider sends no other, it is paid.
CreditsFollowPayment ==
    /\ \A o \in Orders :
          orders[o].status = "paid" => \E s \in Sessions : opened[s] = o /\ Collected(s)
    /\ \A c \in sent :
          c.status # "unpaid" /\ <<c.type, c.session>> \in events
              => orders[opened[c.session]].status = "paid"
=============================================================================
