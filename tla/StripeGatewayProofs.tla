-------------------------- MODULE StripeGatewayProofs --------------------------
(***************************************************************************)
(* The ledger behind the provider is a CreditLedger, so that all that is     *)
(* proved of that holds here; and credits follow payments, for any sessions,  *)
(* orders and accounts.                                                     *)
(***************************************************************************)
EXTENDS StripeGateway, CreditLedgerProofs

\* What the provider has written is a callback about an open session, one of
\* each type, and tells of money only where VerifyWebhook looks for it.
SentInv ==
    /\ sent \subseteq Callbacks
    /\ \A c \in sent : opened[c.session] # NoOrder
    /\ \A c, d \in sent : c.type = d.type /\ c.session = d.session => c = d
    /\ \A c \in sent : c.status # "unpaid" => Paid(c)

\* A session belongs to an order that exists.
OpenedInv == \A s \in Sessions : opened[s] # NoOrder => orders[opened[s]].status # "none"

\* The service remembers only what the provider has written.
SeenInv ==
    \A t \in Types, s \in Sessions :
        <<t, s>> \in events => \E c \in sent : c.type = t /\ c.session = s

PaymentInv == LedgerInv /\ SentInv /\ OpenedInv /\ SeenInv /\ CreditsFollowPayment

LEMMA PaymentInit == StripeInit => PaymentInv
<1> SUFFICES ASSUME StripeInit PROVE PaymentInv
  OBVIOUS
<1>1. LedgerInv
  BY LedgerInit DEF StripeInit
<1>2. SentInv /\ SeenInv
  BY DEF StripeInit, CreditInit, SentInv, SeenInv
<1>3. OpenedInv
  BY DEF StripeInit, CreditInit, OpenedInv
<1>4. CreditsFollowPayment
  BY DEF StripeInit, CreditInit, CreditsFollowPayment, NoOrderRecord
<1> QED  BY <1>1, <1>2, <1>3, <1>4 DEF PaymentInv

\* A callback that gets through is one the provider wrote, and becomes an event
\* of CreditLedger.
LEMMA GenuineCallback ==
    ASSUME PaymentInv, NEW c \in Callbacks, NEW signed \in BOOLEAN, NEW age \in 0..MaxDelay,
           ReceiveWebhook(c, signed, age)
    PROVE  /\ c \in sent
           /\ opened[c.session] \in Orders
           /\ EventOf(c, opened[c.session], orders[opened[c.session]].account) \in Events
<1>1. c \in sent /\ c.session \in Sessions
  BY DEF ReceiveWebhook, Verified, Callbacks
<1>2. opened[c.session] \in Orders /\ orders[opened[c.session]].status # "none"
  BY <1>1 DEF PaymentInv, LedgerInv, CreditTypeOK, OpenedInv, ReceiveWebhook
<1>3. orders[opened[c.session]].account \in Accounts
  BY <1>2 DEF PaymentInv, LedgerInv, CreditTypeOK, NoOrderRecord
<1> QED  BY <1>1, <1>2, <1>3, CallbackAssumption

\* Every step is a step of CreditLedger, or changes nothing there.
LEMMA StripeStepImplements ==
    PaymentInv /\ [StripeNext]_stripeVars => [CreditNext]_creditVars
<1> SUFFICES ASSUME PaymentInv, [StripeNext]_stripeVars
             PROVE  [CreditNext]_creditVars
  OBVIOUS
<1>1. CASE ServiceNext /\ UNCHANGED sent
  BY <1>1 DEF CreditNext
<1>2. ASSUME NEW s \in Sessions, NEW status \in PaymentStatuses,
             Complete(s, status) \/ Expire(s) \/ PendingPaid(s) \/ PendingFails(s)
      PROVE  UNCHANGED creditVars
  BY <1>2 DEF Complete, Expire, PendingPaid, PendingFails, Write
<1>3. ASSUME NEW c \in Callbacks, NEW signed \in BOOLEAN, NEW age \in 0..MaxDelay,
             ReceiveWebhook(c, signed, age)
      PROVE  CreditNext
  <2> DEFINE e == EventOf(c, opened[c.session], orders[opened[c.session]].account)
  <2>1. e \in Events /\ HandleWebhook(e)
    BY <1>3, GenuineCallback DEF ReceiveWebhook
  <2>2. opened[e.session] # NoOrder
    BY <1>3 DEF ReceiveWebhook, EventOf
  <2> QED  BY <2>1, <2>2 DEF CreditNext
<1>4. CASE UNCHANGED stripeVars
  BY <1>4 DEF stripeVars
<1>5. "paid" \in PaymentStatuses
  BY DEF PaymentStatuses
<1> QED  BY <1>1, <1>2, <1>3, <1>4, <1>5 DEF StripeNext

\* What a step of CreditLedger leaves as it is: a paid order stays paid with
\* its account, an order stays there, an open session stays open for its order.
LEMMA OrdersStay ==
    ASSUME LedgerInv, [CreditNext]_creditVars
    PROVE  /\ \A o \in Orders : orders[o].status # "none" => orders'[o].status # "none"
           /\ \A o \in Orders : orders[o].status = "paid" => orders'[o].status = "paid"
           /\ \A s \in Sessions : opened[s] # NoOrder => opened'[s] = opened[s]
<1> DEFINE Stay ==
      /\ \A o \in Orders : orders[o].status # "none" => orders'[o].status # "none"
      /\ \A o \in Orders : orders[o].status = "paid" => orders'[o].status = "paid"
      /\ \A s \in Sessions : opened[s] # NoOrder => opened'[s] = opened[s]
<1>t. /\ orders \in [Orders -> {NoOrderRecord} \cup
             [status : {"pending", "failed", "paid"}, account : Accounts,
              session : Sessions \cup {NoSession}]]
      /\ opened \in [Sessions -> Orders \cup {NoOrder}]
  BY DEF LedgerInv, CreditTypeOK
<1>1. CASE UNCHANGED <<orders, opened>>
  BY <1>1
<1>2. ASSUME NEW a \in Accounts, NEW j \in Jobs,
             AuthorizeJob(a, j) \/ \E status \in Outcomes : RecordJobOutcome(j, a, status)
      PROVE  UNCHANGED <<orders, opened>>
  BY <1>2 DEF AuthorizeJob, RecordJobOutcome, orderVars
<1>3. ASSUME NEW a \in Accounts, NEW o \in Orders, BeginCheckout(a, o)
      PROVE  Stay
  BY <1>3, <1>t DEF BeginCheckout
<1>4. ASSUME NEW o \in Orders, NEW s \in Sessions, ProviderOpens(o, s)
      PROVE  Stay
  BY <1>4, <1>t DEF ProviderOpens
<1>5. ASSUME NEW o \in Orders, BindSession(o)
      PROVE  Stay
  BY <1>5, <1>t DEF BindSession, WithSession, NoOrderRecord
<1>6. ASSUME NEW e \in Events, HandleWebhook(e)
      PROVE  Stay
  BY <1>6, <1>t, EventsAssumption DEF HandleWebhook, AlreadyPaid, NoOrderRecord
<1>7. CASE \/ \E o \in Orders : ProviderRefuses(o)
           \/ \E a \in Accounts, v \in Vouchers : RedeemVoucher(a, v)
           \/ RestartService
  BY <1>1, <1>7 DEF ProviderRefuses, RedeemVoucher, RestartService, orderVars
<1>8. CASE UNCHANGED creditVars
  BY <1>1, <1>8 DEF creditVars, orderVars
<1> QED
  BY <1>1, <1>2, <1>3, <1>4, <1>5, <1>6, <1>7, <1>8 DEF CreditNext, ServiceNext

\* Only a callback makes an order paid, and only a session of an order that
\* exists is opened.
LEMMA ServiceWaits ==
    ASSUME LedgerInv, ServiceNext
    PROVE  /\ events' = events
           /\ \A o \in Orders : orders'[o].status = "paid" => orders[o].status = "paid"
           /\ \A s \in Sessions : opened'[s] # NoOrder =>
                 opened'[s] = opened[s] \/ (opened'[s] \in Orders /\ orders[opened'[s]].status # "none")
<1> DEFINE Waits ==
      /\ events' = events
      /\ \A o \in Orders : orders'[o].status = "paid" => orders[o].status = "paid"
      /\ \A s \in Sessions : opened'[s] # NoOrder =>
            opened'[s] = opened[s] \/ (opened'[s] \in Orders /\ orders[opened'[s]].status # "none")
<1>t. /\ orders \in [Orders -> {NoOrderRecord} \cup
             [status : {"pending", "failed", "paid"}, account : Accounts,
              session : Sessions \cup {NoSession}]]
      /\ opened \in [Sessions -> Orders \cup {NoOrder}]
      /\ CheckoutHasOrder
  BY DEF LedgerInv, CreditTypeOK
<1>1. CASE UNCHANGED <<orders, events, opened>>
  BY <1>1
<1>2. ASSUME NEW a \in Accounts, NEW j \in Jobs,
             AuthorizeJob(a, j) \/ \E status \in Outcomes : RecordJobOutcome(j, a, status)
      PROVE  UNCHANGED <<orders, events, opened>>
  BY <1>2 DEF AuthorizeJob, RecordJobOutcome, orderVars
<1>3. ASSUME NEW a \in Accounts, NEW o \in Orders, BeginCheckout(a, o)
      PROVE  Waits
  BY <1>3, <1>t DEF BeginCheckout
<1>4. ASSUME NEW o \in Orders, NEW s \in Sessions, ProviderOpens(o, s)
      PROVE  Waits
  BY <1>4, <1>t DEF ProviderOpens, CheckoutHasOrder
<1>5. ASSUME NEW o \in Orders, BindSession(o)
      PROVE  Waits
  BY <1>5, <1>t DEF BindSession, WithSession, NoOrderRecord
<1>6. CASE \/ \E o \in Orders : ProviderRefuses(o)
           \/ \E a \in Accounts, v \in Vouchers : RedeemVoucher(a, v)
           \/ RestartService
  BY <1>1, <1>6 DEF ProviderRefuses, RedeemVoucher, RestartService, orderVars
<1> QED
  BY <1>1, <1>2, <1>3, <1>4, <1>5, <1>6 DEF ServiceNext

\* After an acknowledged callback, the order it tells of money for is paid.
LEMMA AcknowledgedIsPaid ==
    ASSUME PaymentInv, NEW c \in Callbacks, NEW signed \in BOOLEAN, NEW age \in 0..MaxDelay,
           ReceiveWebhook(c, signed, age)
    PROVE  /\ events' = events \cup {<<c.type, c.session>>}
           /\ UNCHANGED <<opened, sent>>
           /\ Paid(c) => orders'[opened[c.session]].status = "paid"
           /\ \A o \in Orders : orders'[o].status = "paid" =>
                 orders[o].status = "paid" \/ (o = opened[c.session] /\ Paid(c))
<1> DEFINE e == EventOf(c, opened[c.session], orders[opened[c.session]].account)
<1>1. HandleWebhook(e) /\ sent' = sent /\ opened[c.session] \in Orders
  BY GenuineCallback DEF ReceiveWebhook
<1>2. /\ e.id = <<c.type, c.session>> /\ e.order = opened[c.session]
      /\ e.paid = Paid(c) /\ (Paid(c) => e.final)
  BY DEF EventOf
<1>3. orders \in [Orders -> {NoOrderRecord} \cup
          [status : {"pending", "failed", "paid"}, account : Accounts,
           session : Sessions \cup {NoSession}]]
  BY DEF PaymentInv, LedgerInv, CreditTypeOK
<1> HIDE DEF e
<1>4. events' = events \cup {e.id} /\ opened' = opened
  BY <1>1 DEF HandleWebhook
<1>5. CASE orders' = orders /\ (~e.final \/ AlreadyPaid(orders[e.order]))
  BY <1>1, <1>2, <1>4, <1>5 DEF AlreadyPaid
<1>6. CASE /\ ~e.paid
           /\ orders' = [orders EXCEPT ![e.order].status = "failed", ![e.order].session = e.session]
  BY <1>1, <1>2, <1>3, <1>4, <1>6 DEF NoOrderRecord
<1>7. CASE /\ e.paid
           /\ orders' = [orders EXCEPT ![e.order].status = "paid", ![e.order].session = e.session]
  BY <1>1, <1>2, <1>3, <1>4, <1>7 DEF NoOrderRecord
<1> QED  BY <1>1, <1>5, <1>6, <1>7 DEF HandleWebhook

LEMMA PaymentStep == PaymentInv /\ [StripeNext]_stripeVars => PaymentInv'
<1> SUFFICES ASSUME PaymentInv, [StripeNext]_stripeVars
             PROVE  PaymentInv'
  OBVIOUS
<1>1. LedgerInv'
  BY StripeStepImplements, LedgerStep DEF PaymentInv
<1>2. /\ \A o \in Orders : orders[o].status # "none" => orders'[o].status # "none"
      /\ \A o \in Orders : orders[o].status = "paid" => orders'[o].status = "paid"
      /\ \A s \in Sessions : opened[s] # NoOrder => opened'[s] = opened[s]
  BY StripeStepImplements, OrdersStay DEF PaymentInv
<1>3. opened \in [Sessions -> Orders \cup {NoOrder}] /\ sent \subseteq Callbacks
  BY DEF PaymentInv, LedgerInv, CreditTypeOK, SentInv
<1>4. ASSUME ServiceNext, sent' = sent
      PROVE  SentInv' /\ OpenedInv' /\ SeenInv' /\ CreditsFollowPayment'
  <2>1. /\ events' = events
        /\ \A o \in Orders : orders'[o].status = "paid" => orders[o].status = "paid"
        /\ \A s \in Sessions : opened'[s] # NoOrder =>
              opened'[s] = opened[s] \/ (opened'[s] \in Orders /\ orders[opened'[s]].status # "none")
    BY <1>4, ServiceWaits DEF PaymentInv
  <2>2. SentInv'
    BY <1>2, <1>3, <1>4 DEF PaymentInv, SentInv, Callbacks, Paid
  <2>3. OpenedInv'
    BY <1>2, <1>3, <2>1 DEF PaymentInv, OpenedInv
  <2>4. SeenInv'
    BY <1>4, <2>1 DEF PaymentInv, SeenInv
  <2>5. CreditsFollowPayment'
    <3>1. ASSUME NEW o \in Orders, orders'[o].status = "paid"
          PROVE  \E s \in Sessions : opened'[s] = o /\ Collected(s)'
      <4>1. PICK s \in Sessions : opened[s] = o /\ Collected(s)
        BY <2>1, <3>1 DEF PaymentInv, CreditsFollowPayment
      <4> QED  BY <1>2, <1>4, <4>1, NoOrderAssumption DEF Collected
    <3>2. ASSUME NEW c \in sent, c.status # "unpaid", <<c.type, c.session>> \in events'
          PROVE  orders'[opened'[c.session]].status = "paid"
      <4>1. orders[opened[c.session]].status = "paid" /\ opened[c.session] # NoOrder
        BY <2>1, <3>2 DEF PaymentInv, CreditsFollowPayment, SentInv
      <4>2. c.session \in Sessions /\ opened[c.session] \in Orders
        BY <1>3, <4>1 DEF Callbacks
      <4> QED  BY <1>2, <4>1, <4>2
    <3> QED  BY <1>4, <3>1, <3>2 DEF CreditsFollowPayment
  <2> QED  BY <2>2, <2>3, <2>4, <2>5
<1>5. ASSUME NEW s \in Sessions, opened[s] # NoOrder, NEW c \in Callbacks,
             c.session = s, sent' = sent \cup {c}, UNCHANGED creditVars,
             c.type \notin TypesOf(s), c.status # "unpaid" => Paid(c)
      PROVE  SentInv' /\ OpenedInv' /\ SeenInv' /\ CreditsFollowPayment'
  <2>1. \A d \in sent : d.session = s => d.type # c.type
    BY <1>5 DEF TypesOf
  <2>2. UNCHANGED <<orders, events, opened>>
    BY <1>5 DEF creditVars, orderVars
  <2>3. SentInv'
    BY <1>3, <1>5, <2>1, <2>2 DEF PaymentInv, SentInv, Paid
  <2>4. OpenedInv' /\ SeenInv'
    BY <1>5, <2>2 DEF PaymentInv, OpenedInv, SeenInv
  <2>5. <<c.type, c.session>> \notin events
    BY <1>5, <2>1 DEF PaymentInv, SeenInv, Callbacks
  <2>6. CreditsFollowPayment'
    <3>1. \A o \in Orders :
             orders[o].status = "paid" => \E q \in Sessions : opened[q] = o /\ Collected(q)'
      BY <1>5 DEF PaymentInv, CreditsFollowPayment, Collected
    <3> QED  BY <1>5, <2>2, <2>5, <3>1 DEF PaymentInv, CreditsFollowPayment
  <2> QED  BY <2>3, <2>4, <2>6
<1>6. ASSUME NEW c \in Callbacks, NEW signed \in BOOLEAN, NEW age \in 0..MaxDelay,
             ReceiveWebhook(c, signed, age)
      PROVE  SentInv' /\ OpenedInv' /\ SeenInv' /\ CreditsFollowPayment'
  <2>1. /\ events' = events \cup {<<c.type, c.session>>}
        /\ UNCHANGED <<opened, sent>>
        /\ Paid(c) => orders'[opened[c.session]].status = "paid"
        /\ \A o \in Orders : orders'[o].status = "paid" =>
              orders[o].status = "paid" \/ (o = opened[c.session] /\ Paid(c))
    BY <1>6, AcknowledgedIsPaid
  <2>2. c \in sent /\ c.session \in Sessions /\ opened[c.session] \in Orders
    BY <1>6, GenuineCallback DEF Callbacks
  <2>3. SentInv' /\ SeenInv'
    BY <2>1, <2>2 DEF PaymentInv, SentInv, SeenInv, Paid
  <2>4. OpenedInv'
    BY <1>2, <1>3, <2>1 DEF PaymentInv, OpenedInv
  <2>5. CreditsFollowPayment'
    <3>1. ASSUME NEW o \in Orders, orders'[o].status = "paid"
          PROVE  \E s \in Sessions : opened'[s] = o /\ Collected(s)'
      <4>1. CASE orders[o].status = "paid"
        BY <2>1, <4>1 DEF PaymentInv, CreditsFollowPayment, Collected
      <4>2. CASE o = opened[c.session] /\ Paid(c)
        BY <2>1, <2>2, <4>2 DEF Collected, Paid
      <4> QED  BY <2>1, <3>1, <4>1, <4>2
    <3>2. ASSUME NEW d \in sent, d.status # "unpaid", <<d.type, d.session>> \in events'
          PROVE  orders'[opened'[d.session]].status = "paid"
      <4>1. CASE <<d.type, d.session>> \in events
        <5>1. orders[opened[d.session]].status = "paid" /\ opened[d.session] # NoOrder
          BY <3>2, <4>1 DEF PaymentInv, CreditsFollowPayment, SentInv
        <5>2. d.session \in Sessions /\ opened[d.session] \in Orders
          BY <1>3, <5>1 DEF Callbacks
        <5> QED  BY <1>2, <2>1, <5>1, <5>2
      <4>2. CASE d.type = c.type /\ d.session = c.session
        BY <2>1, <2>2, <3>2, <4>2 DEF PaymentInv, SentInv
      <4> QED  BY <2>1, <3>2, <4>1, <4>2
    <3> QED  BY <2>1, <3>1, <3>2 DEF CreditsFollowPayment
  <2> QED  BY <2>3, <2>4, <2>5
<1>7. CASE UNCHANGED stripeVars
  BY <1>1, <1>7 DEF stripeVars, creditVars, orderVars, PaymentInv, SentInv, OpenedInv, SeenInv,
                    CreditsFollowPayment, Collected, Paid
<1>8. ASSUME NEW s \in Sessions, opened[s] # NoOrder, NEW status \in PaymentStatuses,
             Complete(s, status) \/ Expire(s) \/ PendingPaid(s) \/ PendingFails(s)
      PROVE  \E c \in Callbacks :
                /\ c.session = s /\ sent' = sent \cup {c} /\ UNCHANGED creditVars
                /\ c.type \notin TypesOf(s) /\ (c.status # "unpaid" => Paid(c))
  <2> DEFINE d(type, st) == [type |-> type, status |-> st, session |-> s]
  <2>1. CASE Complete(s, status)
    <3>1. d("completed", status) \in Callbacks /\ (status # "unpaid" => Paid(d("completed", status)))
      BY DEF Callbacks, Types, Paid, PaymentStatuses
    <3> QED  BY <2>1, <3>1 DEF Complete, Write
  <2>2. CASE Expire(s)
    <3>1. d("expired", "unpaid") \in Callbacks
      BY DEF Callbacks, Types, PaymentStatuses
    <3> QED  BY <2>2, <3>1 DEF Expire, Write
  <2>3. CASE PendingPaid(s)
    <3>1. d("async_payment_succeeded", "paid") \in Callbacks /\ Paid(d("async_payment_succeeded", "paid"))
      BY DEF Callbacks, Types, PaymentStatuses, Paid
    <3> QED  BY <2>3, <3>1 DEF PendingPaid, Pending, Write
  <2>4. CASE PendingFails(s)
    <3>1. d("async_payment_failed", "unpaid") \in Callbacks
      BY DEF Callbacks, Types, PaymentStatuses
    <3> QED  BY <2>4, <3>1 DEF PendingFails, Pending, Write
  <2> QED  BY <1>8, <2>1, <2>2, <2>3, <2>4
<1>9. "paid" \in PaymentStatuses
  BY DEF PaymentStatuses
<1> QED  BY <1>1, <1>4, <1>5, <1>6, <1>7, <1>8, <1>9 DEF StripeNext, PaymentInv

THEOREM PaymentInvariant == StripeSpec => []PaymentInv
BY PaymentInit, PaymentStep, PTL DEF StripeSpec

\* The ledger behind the provider is a CreditLedger: whatever is proved of
\* CreditSpec holds of StripeSpec.
THEOREM StripeImplementsLedger == StripeSpec => CreditSpec
<1>1. StripeInit => CreditInit
  BY DEF StripeInit
<1> QED  BY <1>1, PaymentInvariant, StripeStepImplements, PTL DEF StripeSpec, CreditSpec

\* An order is paid only with a session whose money was collected, and once the
\* service has acknowledged the callback that tells of the money, it is paid.
THEOREM CreditsAndMoney == StripeSpec => []CreditsFollowPayment
<1>1. PaymentInv => CreditsFollowPayment
  BY DEF PaymentInv
<1> QED  BY <1>1, PaymentInvariant, PTL
=============================================================================
