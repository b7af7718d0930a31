-------------------------- MODULE CreditLedgerProofs --------------------------
(***************************************************************************)
(* Theorems about CreditLedger, for any accounts, jobs, orders, vouchers   *)
(* and callbacks, and any positive amounts.                                *)
(***************************************************************************)
EXTENDS CreditLedger, FiniteSetTheorems, TLAPS

-----------------------------------------------------------------------------
(* References. *)

\* The references of the ledger, by kind.
LEMMA ReferenceKinds ==
    /\ \A j \in Jobs : <<"job", j>> \in References /\ <<"refund", j>> \in References
    /\ \A o \in Orders : <<"order", o>> \in References
    /\ \A v \in Vouchers : <<"voucher", v>> \in References
BY DEF References

\* An entry for one reference leaves all others alone.
LEMMA NewEntry ==
    ASSUME CreditTypeOK, NEW a \in Accounts, NEW r \in References,
           ledger' = [ledger EXCEPT ![r] = a]
    PROVE  /\ ledger' \in [References -> Accounts \cup {NoAccount}]
           /\ ledger'[r] = a
           /\ \A q \in References : q # r => ledger'[q] = ledger[q]
BY DEF CreditTypeOK

-----------------------------------------------------------------------------
(* The inductive invariant. *)

\* A checkout that was begun has its order.
CheckoutHasOrder == \A o \in Orders : checkout[o] # "none" => orders[o].status # "none"

\* BalanceIsAccounted alone is not inductive: a refund or a payment is counted
\* once only because charge, order and ledger agree.
LedgerInv ==
    /\ CreditTypeOK
    /\ CheckoutHasOrder
    /\ ChargeMatchesLedger
    /\ OrderMatchesLedger
    /\ BalanceIsAccounted

\* The sets a balance is counted from are finite.
LEMMA CountedSets ==
    ASSUME NEW a
    PROVE  /\ IsFiniteSet(PaidOrders(a)) /\ IsFiniteSet(Redeemed(a)) /\ IsFiniteSet(Billed(a))
           /\ Cardinality(PaidOrders(a)) \in Nat /\ Cardinality(Redeemed(a)) \in Nat
           /\ Cardinality(Billed(a)) \in Nat
BY FiniteAssumption, FS_Subset, FS_CardinalityType DEF PaidOrders, Redeemed, Billed

\* BalanceIsAccounted of one account.
Accounted(a) ==
    balances[a] = PackCredits * Cardinality(PaidOrders(a))
                  + VoucherCredits * Cardinality(Redeemed(a))
                  - Cardinality(Billed(a))

\* An account stays accounted when its balance follows what is billed.
LEMMA BilledChange ==
    ASSUME LedgerInv, NEW a \in Accounts, NEW d \in Int,
           PaidOrders(a)' = PaidOrders(a), Redeemed(a)' = Redeemed(a),
           balances'[a] = balances[a] - d,
           Cardinality(Billed(a)') = Cardinality(Billed(a)) + d
    PROVE  Accounted(a)'
<1> DEFINE x == Cardinality(PaidOrders(a))
           y == Cardinality(Redeemed(a))
           z == Cardinality(Billed(a))
<1>1. x \in Nat /\ y \in Nat /\ z \in Nat
  BY CountedSets
<1>2. balances[a] = PackCredits * x + VoucherCredits * y - z
  BY DEF LedgerInv, BalanceIsAccounted
<1>3. Cardinality(PaidOrders(a)') = x /\ Cardinality(Redeemed(a)') = y
      /\ Cardinality(Billed(a)') = z + d
  OBVIOUS
<1> HIDE DEF x, y, z
<1>4. PackCredits * x \in Int /\ VoucherCredits * y \in Int
  BY <1>1, CreditsAssumption
<1>5. balances'[a] = PackCredits * x + VoucherCredits * y - (z + d)
  BY <1>1, <1>2, <1>4
<1> QED  BY <1>3, <1>5 DEF Accounted

\* It stays accounted when its balance follows what it bought and redeemed.
LEMMA BoughtChange ==
    ASSUME LedgerInv, NEW a \in Accounts, NEW m \in Nat, NEW n \in Nat, Billed(a)' = Billed(a),
           Cardinality(PaidOrders(a)') = Cardinality(PaidOrders(a)) + m,
           Cardinality(Redeemed(a)') = Cardinality(Redeemed(a)) + n,
           balances'[a] = balances[a] + PackCredits * m + VoucherCredits * n
    PROVE  Accounted(a)'
<1> DEFINE x == Cardinality(PaidOrders(a))
           y == Cardinality(Redeemed(a))
           z == Cardinality(Billed(a))
<1>1. x \in Nat /\ y \in Nat /\ z \in Nat
  BY CountedSets
<1>2. balances[a] = PackCredits * x + VoucherCredits * y - z
  BY DEF LedgerInv, BalanceIsAccounted
<1> HIDE DEF x, y, z
<1>3. PackCredits * (x + m) = PackCredits * x + PackCredits * m
  BY <1>1, CreditsAssumption
<1>4. VoucherCredits * (y + n) = VoucherCredits * y + VoucherCredits * n
  BY <1>1, CreditsAssumption
<1>5. /\ PackCredits * x \in Int /\ PackCredits * m \in Int
      /\ VoucherCredits * y \in Int /\ VoucherCredits * n \in Int
  BY <1>1, CreditsAssumption
<1>6. balances'[a] = PackCredits * (x + m) + VoucherCredits * (y + n) - z
  BY <1>1, <1>2, <1>3, <1>4, <1>5
<1> QED  BY <1>6 DEF Accounted, x, y, z

\* A new database has no money and no records.
LEMMA LedgerInit == CreditInit => LedgerInv
<1> SUFFICES ASSUME CreditInit PROVE LedgerInv
  OBVIOUS
<1>1. CreditTypeOK
  BY DEF CreditInit, CreditTypeOK
<1>2. CheckoutHasOrder
  BY DEF CreditInit, CheckoutHasOrder
<1>3. ChargeMatchesLedger
  BY ReferenceKinds DEF CreditInit, ChargeMatchesLedger, NoCharge
<1>4. OrderMatchesLedger
  BY ReferenceKinds DEF CreditInit, OrderMatchesLedger, NoOrderRecord
<1>5. BalanceIsAccounted
  <2> SUFFICES ASSUME NEW a \in Accounts
               PROVE  Accounted(a)
    BY DEF BalanceIsAccounted, Accounted
  <2>1. PaidOrders(a) = {} /\ Billed(a) = {}
    BY DEF CreditInit, PaidOrders, Billed, NoOrderRecord, NoCharge
  <2>2. Redeemed(a) = {}
    BY ReferenceKinds, NoAccountAssumption DEF CreditInit, Redeemed
  <2> QED  BY <2>1, <2>2, FS_EmptySet, CreditsAssumption DEF CreditInit, Accounted
<1> QED  BY <1>1, <1>2, <1>3, <1>4, <1>5 DEF LedgerInv

-----------------------------------------------------------------------------
(* One lemma for each kind of step. *)

\* A charge: the debit and the record are written together.
LEMMA AuthorizeStep ==
    ASSUME LedgerInv, NEW a \in Accounts, NEW j \in Jobs, AuthorizeJob(a, j)
    PROVE  LedgerInv'
<1> USE ReferenceKinds
<1>1. charges[j] = NoCharge /\ ~HasEntry(<<"job", j>>)
  <2>1. charges[j] = NoCharge
    BY DEF LedgerInv, CreditTypeOK, AuthorizeJob
  <2>2. ledger[<<"job", j>>] = charges[j].account
    BY DEF LedgerInv, ChargeMatchesLedger
  <2> QED  BY <2>1, <2>2 DEF NoCharge, HasEntry
<1>2. /\ balances' = [balances EXCEPT ![a] = @ - 1] /\ balances[a] - 1 >= 0
      /\ ledger' = [ledger EXCEPT ![<<"job", j>>] = a]
      /\ charges' = [charges EXCEPT ![j] = [status |-> "authorized", account |-> a]]
      /\ UNCHANGED orderVars
  BY <1>1 DEF AuthorizeJob, AddEntry, Covered, LedgerInv, CreditTypeOK
<1>3. /\ ledger' \in [References -> Accounts \cup {NoAccount}] /\ ledger'[<<"job", j>>] = a
      /\ \A q \in References : q # <<"job", j>> => ledger'[q] = ledger[q]
  BY <1>2, NewEntry DEF LedgerInv
<1>4. CreditTypeOK'
  <2>1. balances' \in [Accounts -> Nat]
    BY <1>2 DEF LedgerInv, CreditTypeOK
  <2>2. charges' \in [Jobs -> {NoCharge} \cup
            [status : {"authorized", "completed", "refunded"}, account : Accounts]]
    BY <1>2 DEF LedgerInv, CreditTypeOK
  <2> QED  BY <1>2, <1>3, <2>1, <2>2 DEF LedgerInv, CreditTypeOK, orderVars
<1>5. CheckoutHasOrder'
  BY <1>2 DEF LedgerInv, CheckoutHasOrder, orderVars
<1>6. ChargeMatchesLedger'
  <2> SUFFICES ASSUME NEW k \in Jobs
               PROVE  /\ ledger'[<<"job", k>>] = charges'[k].account
                      /\ ledger'[<<"refund", k>>] = IF charges'[k].status = "refunded"
                                                    THEN charges'[k].account ELSE NoAccount
    BY DEF ChargeMatchesLedger
  <2>1. /\ ledger[<<"job", k>>] = charges[k].account
        /\ ledger[<<"refund", k>>] = IF charges[k].status = "refunded"
                                     THEN charges[k].account ELSE NoAccount
    BY DEF LedgerInv, ChargeMatchesLedger
  <2>2. ledger'[<<"refund", k>>] = ledger[<<"refund", k>>]
    BY <1>3
  <2>3. CASE k = j
    <3>1. charges'[j] = [status |-> "authorized", account |-> a]
      BY <1>2 DEF LedgerInv, CreditTypeOK
    <3>2. ledger[<<"refund", j>>] = NoAccount
      BY <1>1, <2>1, <2>3 DEF NoCharge
    <3> QED  BY <1>3, <2>2, <2>3, <3>1, <3>2
  <2>4. CASE k # j
    <3>1. charges'[k] = charges[k] /\ ledger'[<<"job", k>>] = ledger[<<"job", k>>]
      BY <1>2, <1>3, <2>4 DEF LedgerInv, CreditTypeOK
    <3> QED  BY <2>1, <2>2, <3>1
  <2> QED  BY <2>3, <2>4
<1>7. OrderMatchesLedger'
  BY <1>2, <1>3 DEF LedgerInv, OrderMatchesLedger, orderVars
<1>8. BalanceIsAccounted'
  <2> SUFFICES ASSUME NEW b \in Accounts
               PROVE  Accounted(b)'
    BY DEF BalanceIsAccounted, Accounted
  <2>1. PaidOrders(b)' = PaidOrders(b) /\ Redeemed(b)' = Redeemed(b)
    BY <1>2, <1>3 DEF PaidOrders, Redeemed, orderVars
  <2>2. CASE b = a
    <3>1. Billed(b)' = Billed(b) \cup {j} /\ j \notin Billed(b)
      BY <1>1, <1>2, <2>2 DEF Billed, LedgerInv, CreditTypeOK, NoCharge
    <3>2. Cardinality(Billed(b)') = Cardinality(Billed(b)) + 1
      BY <3>1, CountedSets, FS_AddElement
    <3> QED  BY <1>2, <2>1, <2>2, <3>2, BilledChange DEF LedgerInv, CreditTypeOK
  <2>3. CASE b # a
    <3>1. Billed(b)' = Billed(b)
      BY <1>1, <1>2, <2>3 DEF Billed, LedgerInv, CreditTypeOK, NoCharge
    <3>2. balances'[b] = balances[b] - 0 /\ Cardinality(Billed(b)') = Cardinality(Billed(b)) + 0
      BY <1>2, <2>3, <3>1, CountedSets DEF LedgerInv, CreditTypeOK
    <3> QED  BY <2>1, <3>2, BilledChange
  <2> QED  BY <2>2, <2>3
<1> QED  BY <1>4, <1>5, <1>6, <1>7, <1>8 DEF LedgerInv

\* The outcome of a job: nothing, or a completed charge, or the refund and its
\* record together.
LEMMA OutcomeRecorded ==
    ASSUME LedgerInv, NEW j \in Jobs, NEW owner \in Accounts, NEW status,
           RecordJobOutcome(j, owner, status)
    PROVE  LedgerInv'
<1> USE ReferenceKinds
<1>1. CASE UNCHANGED ledgerVars
  BY <1>1 DEF RecordJobOutcome, ledgerVars, orderVars, LedgerInv, CreditTypeOK, CheckoutHasOrder,
              ChargeMatchesLedger, OrderMatchesLedger, BalanceIsAccounted, PaidOrders, Redeemed,
              Billed
<1>2. CASE /\ charges[j].status # "none" /\ charges[j].account = owner /\ ~Settled(charges[j])
           /\ charges' = [charges EXCEPT ![j].status = "completed"]
           /\ UNCHANGED <<balances, ledger>>
  <2>1. charges[j] = [status |-> "authorized", account |-> owner]
    BY <1>2 DEF LedgerInv, CreditTypeOK, NoCharge, Settled
  <2>2. /\ charges'[j] = [status |-> "completed", account |-> owner]
        /\ \A k \in Jobs : k # j => charges'[k] = charges[k]
        /\ charges' \in [Jobs -> {NoCharge} \cup
               [status : {"authorized", "completed", "refunded"}, account : Accounts]]
    BY <1>2, <2>1 DEF LedgerInv, CreditTypeOK
  <2>3. UNCHANGED orderVars
    BY DEF RecordJobOutcome
  <2>4. \A a : Billed(a)' = Billed(a) /\ PaidOrders(a)' = PaidOrders(a) /\ Redeemed(a)' = Redeemed(a)
    BY <1>2, <2>1, <2>2, <2>3 DEF Billed, PaidOrders, Redeemed, orderVars
  <2>5. CreditTypeOK' /\ CheckoutHasOrder' /\ OrderMatchesLedger' /\ BalanceIsAccounted'
    BY <1>2, <2>2, <2>3, <2>4 DEF LedgerInv, CreditTypeOK, CheckoutHasOrder, OrderMatchesLedger,
                                  BalanceIsAccounted, orderVars
  <2>6. ChargeMatchesLedger'
    <3> SUFFICES ASSUME NEW k \in Jobs
                 PROVE  /\ ledger'[<<"job", k>>] = charges'[k].account
                        /\ ledger'[<<"refund", k>>] = IF charges'[k].status = "refunded"
                                                      THEN charges'[k].account ELSE NoAccount
      BY DEF ChargeMatchesLedger
    <3>1. /\ ledger'[<<"job", k>>] = charges[k].account
          /\ ledger'[<<"refund", k>>] = IF charges[k].status = "refunded"
                                        THEN charges[k].account ELSE NoAccount
      BY <1>2 DEF LedgerInv, ChargeMatchesLedger
    <3>2. CASE k = j
      BY <2>1, <2>2, <3>1, <3>2
    <3>3. CASE k # j
      BY <2>2, <3>1, <3>3
    <3> QED  BY <3>2, <3>3
  <2> QED  BY <2>5, <2>6 DEF LedgerInv
<1>3. CASE /\ charges[j].status # "none" /\ charges[j].account = owner /\ ~Settled(charges[j])
           /\ AddEntry(owner, 1, <<"refund", j>>)
           /\ charges' = [charges EXCEPT ![j].status = "refunded"]
  <2>1. charges[j] = [status |-> "authorized", account |-> owner]
    BY <1>3 DEF LedgerInv, CreditTypeOK, NoCharge, Settled
  <2>2. ~HasEntry(<<"refund", j>>) /\ ledger[<<"job", j>>] = owner
    BY <2>1 DEF LedgerInv, ChargeMatchesLedger, HasEntry
  <2>3. /\ charges'[j] = [status |-> "refunded", account |-> owner]
        /\ \A k \in Jobs : k # j => charges'[k] = charges[k]
        /\ charges' \in [Jobs -> {NoCharge} \cup
               [status : {"authorized", "completed", "refunded"}, account : Accounts]]
    BY <1>3, <2>1 DEF LedgerInv, CreditTypeOK
  <2>4. /\ balances' = [balances EXCEPT ![owner] = @ + 1]
        /\ ledger' = [ledger EXCEPT ![<<"refund", j>>] = owner]
    BY <1>3, <2>2 DEF AddEntry
  <2>5. /\ ledger' \in [References -> Accounts \cup {NoAccount}]
        /\ ledger'[<<"refund", j>>] = owner
        /\ \A q \in References : q # <<"refund", j>> => ledger'[q] = ledger[q]
    BY <2>4, NewEntry DEF LedgerInv
  <2>6. UNCHANGED orderVars
    BY DEF RecordJobOutcome
  <2>7. balances' \in [Accounts -> Nat]
    BY <2>4 DEF LedgerInv, CreditTypeOK
  <2>8. CreditTypeOK' /\ CheckoutHasOrder'
    BY <2>3, <2>5, <2>6, <2>7 DEF LedgerInv, CreditTypeOK, CheckoutHasOrder, orderVars
  <2>9. OrderMatchesLedger'
    BY <2>5, <2>6 DEF LedgerInv, OrderMatchesLedger, orderVars
  <2>10. ChargeMatchesLedger'
    <3> SUFFICES ASSUME NEW k \in Jobs
                 PROVE  /\ ledger'[<<"job", k>>] = charges'[k].account
                        /\ ledger'[<<"refund", k>>] = IF charges'[k].status = "refunded"
                                                      THEN charges'[k].account ELSE NoAccount
      BY DEF ChargeMatchesLedger
    <3>1. CASE k = j
      BY <2>2, <2>3, <2>5, <3>1
    <3>2. CASE k # j
      <4>1. ledger'[<<"job", k>>] = ledger[<<"job", k>>]
            /\ ledger'[<<"refund", k>>] = ledger[<<"refund", k>>]
        BY <2>5, <3>2
      <4> QED  BY <2>3, <3>2, <4>1 DEF LedgerInv, ChargeMatchesLedger
    <3> QED  BY <3>1, <3>2
  <2>11. BalanceIsAccounted'
    <3> SUFFICES ASSUME NEW b \in Accounts
                 PROVE  Accounted(b)'
      BY DEF BalanceIsAccounted, Accounted
    <3>1. PaidOrders(b)' = PaidOrders(b) /\ Redeemed(b)' = Redeemed(b)
      BY <2>5, <2>6 DEF PaidOrders, Redeemed, orderVars
    <3>2. CASE b = owner
      <4>1. Billed(b)' = Billed(b) \ {j} /\ j \in Billed(b)
        BY <2>1, <2>3, <3>2 DEF Billed
      <4>2. Cardinality(Billed(b)') = Cardinality(Billed(b)) + (-1)
        BY <4>1, CountedSets, FS_RemoveElement
      <4>3. balances'[b] = balances[b] - (-1)
        BY <2>4, <3>2 DEF LedgerInv, CreditTypeOK
      <4> QED  BY <3>1, <4>2, <4>3, BilledChange
    <3>3. CASE b # owner
      <4>1. Billed(b)' = Billed(b)
        BY <2>1, <2>3, <3>3 DEF Billed
      <4>2. balances'[b] = balances[b] - 0 /\ Cardinality(Billed(b)') = Cardinality(Billed(b)) + 0
        BY <2>4, <3>3, <4>1, CountedSets DEF LedgerInv, CreditTypeOK
      <4> QED  BY <3>1, <4>2, BilledChange
    <3> QED  BY <3>2, <3>3
  <2> QED  BY <2>8, <2>9, <2>10, <2>11 DEF LedgerInv
<1> QED  BY <1>1, <1>2, <1>3 DEF RecordJobOutcome

\* A restart refunds every open charge once.
LEMMA RestartStep ==
    ASSUME LedgerInv, RestartService
    PROVE  LedgerInv'
<1> USE ReferenceKinds
<1> DEFINE open == {j \in Jobs : charges[j].status = "authorized"}
           mine(a) == {j \in open : charges[j].account = a}
<1>1. {j \in open : ~HasEntry(<<"refund", j>>)} = open
  BY DEF LedgerInv, ChargeMatchesLedger, HasEntry
<1>2. /\ balances' = [a \in Accounts |-> balances[a] + Cardinality(mine(a))]
      /\ ledger' = [r \in References |->
             IF r \in {"refund"} \X open THEN charges[r[2]].account ELSE ledger[r]]
      /\ charges' = [j \in Jobs |-> IF j \in open THEN [charges[j] EXCEPT !.status = "refunded"]
                                                  ELSE charges[j]]
  BY <1>1 DEF RestartService, Reconcile, Interrupted
<1>3. /\ UNCHANGED <<orders, events, opened>>
      /\ checkout' \in [Orders -> {"none", "requested", "answered", "returned", "abandoned"}]
      /\ \A o \in Orders : checkout'[o] # "none" => checkout[o] # "none"
  BY DEF RestartService, LedgerInv, CreditTypeOK
<1>4. \A j \in open : /\ charges[j].account \in Accounts
                      /\ charges'[j] = [status |-> "refunded", account |-> charges[j].account]
                      /\ charges[j].status = "authorized"
                      /\ charges'[j].status = "refunded"
                      /\ charges'[j].account = charges[j].account
  <2> TAKE j \in open
  <2>1. charges[j] \in [status : {"authorized", "completed", "refunded"}, account : Accounts]
    BY DEF LedgerInv, CreditTypeOK, NoCharge
  <2>2. charges'[j] = [charges[j] EXCEPT !.status = "refunded"]
    BY <1>2
  <2> QED  BY <2>1, <2>2
<1>5. \A j \in Jobs \ open : charges'[j] = charges[j]
  BY <1>2
<1>6. /\ \A j \in open : ledger'[<<"refund", j>>] = charges[j].account
      /\ \A j \in Jobs \ open : ledger'[<<"refund", j>>] = ledger[<<"refund", j>>]
      /\ \A j \in Jobs : ledger'[<<"job", j>>] = ledger[<<"job", j>>]
      /\ \A o \in Orders : ledger'[<<"order", o>>] = ledger[<<"order", o>>]
      /\ \A v \in Vouchers : ledger'[<<"voucher", v>>] = ledger[<<"voucher", v>>]
  BY <1>2
<1>7. \A a : /\ IsFiniteSet(mine(a)) /\ Cardinality(mine(a)) \in Nat /\ mine(a) \subseteq Billed(a)
             /\ Billed(a)' = Billed(a) \ mine(a)
  <2> TAKE a
  <2>1. mine(a) \subseteq Billed(a)
    BY DEF Billed
  <2>2. Billed(a)' = Billed(a) \ mine(a)
    <3>1. \A j \in open : j \notin Billed(a)' /\ (j \in Billed(a) => j \in mine(a))
      BY <1>4 DEF Billed
    <3>2. \A j \in Jobs \ open : (j \in Billed(a)' <=> j \in Billed(a)) /\ j \notin mine(a)
      BY <1>5 DEF Billed
    <3>3. Billed(a) \subseteq Jobs /\ Billed(a)' \subseteq Jobs /\ mine(a) \subseteq open
      BY DEF Billed
    <3> HIDE DEF open, mine
    <3> QED  BY <3>1, <3>2, <3>3
  <2> QED  BY <2>1, <2>2, CountedSets, FS_Subset, FS_CardinalityType
<1>8. CreditTypeOK'
  <2>1. balances' \in [Accounts -> Nat]
    <3>1. balances \in [Accounts -> Nat]
      BY DEF LedgerInv, CreditTypeOK
    <3> HIDE DEF mine, open
    <3>2. \A a \in Accounts : balances[a] + Cardinality(mine(a)) \in Nat
      BY <1>7, <3>1
    <3> QED  BY <1>2, <3>2
  <2>2. ledger' \in [References -> Accounts \cup {NoAccount}]
    <3>1. \A r \in References : r \in {"refund"} \X open => charges[r[2]].account \in Accounts
      BY <1>4
    <3> QED  BY <1>2, <3>1 DEF LedgerInv, CreditTypeOK
  <2>3. charges' \in [Jobs -> {NoCharge} \cup
            [status : {"authorized", "completed", "refunded"}, account : Accounts]]
    <3>1. \A j \in Jobs : charges'[j] \in {NoCharge} \cup
              [status : {"authorized", "completed", "refunded"}, account : Accounts]
      <4> SUFFICES ASSUME NEW j \in Jobs
                   PROVE  charges'[j] \in {NoCharge} \cup
                              [status : {"authorized", "completed", "refunded"}, account : Accounts]
        OBVIOUS
      <4>1. CASE j \in open
        <5>1. charges'[j] = [status |-> "refunded", account |-> charges[j].account]
              /\ charges[j].account \in Accounts
          BY <1>4, <4>1
        <5>2. charges'[j] \in [status : {"authorized", "completed", "refunded"},
                               account : Accounts]
          BY <5>1
        <5> QED  BY <5>2
      <4>2. CASE j \notin open
        <5> HIDE DEF open
        <5> QED  BY <1>5, <4>2 DEF LedgerInv, CreditTypeOK
      <4> QED  BY <4>1, <4>2
    <3> QED  BY <1>2, <3>1
  <2> QED  BY <1>3, <2>1, <2>2, <2>3 DEF LedgerInv, CreditTypeOK
<1>9. CheckoutHasOrder' /\ OrderMatchesLedger'
  BY <1>3, <1>6 DEF LedgerInv, CheckoutHasOrder, OrderMatchesLedger
<1>10. ChargeMatchesLedger'
  <2> SUFFICES ASSUME NEW k \in Jobs
               PROVE  /\ ledger'[<<"job", k>>] = charges'[k].account
                      /\ ledger'[<<"refund", k>>] = IF charges'[k].status = "refunded"
                                                    THEN charges'[k].account ELSE NoAccount
    BY DEF ChargeMatchesLedger
  <2>1. /\ ledger[<<"job", k>>] = charges[k].account
        /\ ledger[<<"refund", k>>] = IF charges[k].status = "refunded"
                                     THEN charges[k].account ELSE NoAccount
    BY DEF LedgerInv, ChargeMatchesLedger
  <2>2. CASE k \in open
    <3> HIDE DEF open
    <3> QED  BY <1>4, <1>6, <2>1, <2>2
  <2>3. CASE k \notin open
    BY <1>5, <1>6, <2>1, <2>3
  <2> QED  BY <2>2, <2>3
<1>11. BalanceIsAccounted'
  <2> SUFFICES ASSUME NEW a \in Accounts
               PROVE  Accounted(a)'
    BY DEF BalanceIsAccounted, Accounted
  <2>1. PaidOrders(a)' = PaidOrders(a) /\ Redeemed(a)' = Redeemed(a)
    BY <1>3, <1>6 DEF PaidOrders, Redeemed
  <2>2. Cardinality(Billed(a)') = Cardinality(Billed(a)) - Cardinality(mine(a))
    <3>1. Billed(a) \cap mine(a) = mine(a)
      BY <1>7
    <3>2. Cardinality(Billed(a) \ mine(a)) = Cardinality(Billed(a)) - Cardinality(mine(a))
      <4> HIDE DEF mine
      <4>1. IsFiniteSet(Billed(a)) /\ IsFiniteSet(mine(a))
        BY <1>7, CountedSets
      <4> QED  BY <3>1, <4>1, FS_Difference
    <3>3. Billed(a)' = Billed(a) \ mine(a)
      BY <1>7
    <3> QED  BY <3>2, <3>3
  <2>3. balances'[a] = balances[a] + Cardinality(mine(a)) /\ balances[a] \in Nat
    BY <1>2 DEF LedgerInv, CreditTypeOK
  <2> HIDE DEF mine
  <2> DEFINE d == -Cardinality(mine(a))
  <2>4. /\ d \in Int /\ balances'[a] = balances[a] - d
        /\ Cardinality(Billed(a)') = Cardinality(Billed(a)) + d
    BY <1>7, <2>2, <2>3, CountedSets
  <2> HIDE DEF d
  <2> QED  BY <2>1, <2>4, BilledChange
<1> QED  BY <1>8, <1>9, <1>10, <1>11 DEF LedgerInv

\* The steps of a checkout leave the money alone: a new order is not paid, and
\* the session is set in the order as it is by then.
LEMMA CheckoutSteps ==
    ASSUME LedgerInv,
           \/ \E a \in Accounts, o \in Orders : BeginCheckout(a, o)
           \/ \E o \in Orders, s \in Sessions : ProviderOpens(o, s)
           \/ \E o \in Orders : ProviderRefuses(o) \/ BindSession(o)
    PROVE  LedgerInv'
<1>1. /\ UNCHANGED ledgerVars /\ events' = events
      /\ \A o \in Orders : /\ orders'[o].status = "paid" <=> orders[o].status = "paid"
                           /\ orders[o].status = "paid" => orders'[o].account = orders[o].account
      /\ orders' \in [Orders -> {NoOrderRecord} \cup
             [status : {"pending", "failed", "paid"}, account : Accounts,
              session : Sessions \cup {NoSession}]]
      /\ checkout' \in [Orders -> {"none", "requested", "answered", "returned", "abandoned"}]
      /\ opened' \in [Sessions -> Orders \cup {NoOrder}]
      /\ CheckoutHasOrder'
  <2>1. CASE \E a \in Accounts, o \in Orders : BeginCheckout(a, o)
    BY <2>1 DEF BeginCheckout, LedgerInv, CreditTypeOK, CheckoutHasOrder
  <2>2. CASE \E o \in Orders, s \in Sessions : ProviderOpens(o, s)
    BY <2>2 DEF ProviderOpens, LedgerInv, CreditTypeOK, CheckoutHasOrder
  <2>3. CASE \E o \in Orders : ProviderRefuses(o)
    BY <2>3 DEF ProviderRefuses, LedgerInv, CreditTypeOK, CheckoutHasOrder
  <2>4. CASE \E o \in Orders : BindSession(o)
    <3>1. PICK o \in Orders, s \in Sessions :
              /\ checkout[o] = "answered"
              /\ orders' = [orders EXCEPT ![o] = [@ EXCEPT !.session = s]]
              /\ checkout' = [checkout EXCEPT ![o] = "returned"]
              /\ UNCHANGED <<ledgerVars, events, opened>>
      BY <2>4 DEF BindSession, WithSession
    <3>2. orders[o] \in [status : {"pending", "failed", "paid"}, account : Accounts,
                         session : Sessions \cup {NoSession}]
      BY <3>1 DEF LedgerInv, CreditTypeOK, CheckoutHasOrder, NoOrderRecord
    <3>3. /\ orders'[o] = [status |-> orders[o].status, account |-> orders[o].account,
                           session |-> s]
          /\ \A p \in Orders : p # o => orders'[p] = orders[p]
      BY <3>1, <3>2 DEF LedgerInv, CreditTypeOK
    <3>4. orders' \in [Orders -> {NoOrderRecord} \cup
              [status : {"pending", "failed", "paid"}, account : Accounts,
               session : Sessions \cup {NoSession}]]
      BY <3>1, <3>2, <3>3 DEF LedgerInv, CreditTypeOK
    <3>5. \A p \in Orders : orders'[p].status = orders[p].status
                            /\ orders'[p].account = orders[p].account
      BY <3>3
    <3> QED  BY <3>1, <3>2, <3>4, <3>5 DEF LedgerInv, CreditTypeOK, CheckoutHasOrder
  <2> QED  BY <2>1, <2>2, <2>3, <2>4
<1>2. CreditTypeOK'
  BY <1>1 DEF LedgerInv, CreditTypeOK, ledgerVars
<1>3. ChargeMatchesLedger' /\ OrderMatchesLedger'
  BY <1>1 DEF LedgerInv, ChargeMatchesLedger, OrderMatchesLedger, ledgerVars
<1>4. \A a : PaidOrders(a)' = PaidOrders(a) /\ Redeemed(a)' = Redeemed(a) /\ Billed(a)' = Billed(a)
  BY <1>1 DEF PaidOrders, Redeemed, Billed, ledgerVars
<1>5. BalanceIsAccounted'
  BY <1>1, <1>4 DEF LedgerInv, BalanceIsAccounted, ledgerVars
<1> QED  BY <1>1, <1>2, <1>3, <1>5 DEF LedgerInv

\* A callback: nothing, a failed order, or the credits and the paid order.
LEMMA WebhookStep ==
    ASSUME LedgerInv, NEW e \in Events, HandleWebhook(e)
    PROVE  LedgerInv'
<1> USE ReferenceKinds
<1> DEFINE o == e.order
           a == orders[o].account
<1>1. /\ o \in Orders /\ e.session \in Sessions
      /\ UNCHANGED <<charges, checkout, opened>>
      /\ events' \in SUBSET {f.id : f \in Events}
  BY EventsAssumption DEF HandleWebhook, LedgerInv, CreditTypeOK
<1>2. CASE UNCHANGED <<balances, ledger, orders>>
  BY <1>1, <1>2 DEF LedgerInv, CreditTypeOK, CheckoutHasOrder, ChargeMatchesLedger,
                    OrderMatchesLedger, BalanceIsAccounted, PaidOrders, Redeemed, Billed
<1>3. CASE /\ Acceptable(e) /\ ~AlreadyPaid(orders[o])
           /\ orders' = [orders EXCEPT ![o].status = "failed", ![o].session = e.session]
           /\ UNCHANGED <<balances, ledger>>
  <2>1. /\ orders[o] \in [status : {"pending", "failed", "paid"}, account : Accounts,
                           session : Sessions \cup {NoSession}]
        /\ orders[o].status # "paid"
    BY <1>1, <1>3 DEF Acceptable, AlreadyPaid, LedgerInv, CreditTypeOK, NoOrderRecord
  <2>2. /\ orders'[o] = [status |-> "failed", account |-> a, session |-> e.session]
        /\ \A p \in Orders : p # o => orders'[p] = orders[p]
    BY <1>1, <1>3, <2>1 DEF LedgerInv, CreditTypeOK
  <2>3. orders' \in [Orders -> {NoOrderRecord} \cup
            [status : {"pending", "failed", "paid"}, account : Accounts,
             session : Sessions \cup {NoSession}]]
    BY <1>1, <1>3, <2>1, <2>2 DEF LedgerInv, CreditTypeOK
  <2>4. CreditTypeOK' /\ CheckoutHasOrder' /\ ChargeMatchesLedger'
    BY <1>1, <1>3, <2>1, <2>2, <2>3
    DEF LedgerInv, CreditTypeOK, CheckoutHasOrder, ChargeMatchesLedger
  <2>5. \A p \in Orders : /\ orders'[p].status = "paid" <=> orders[p].status = "paid"
                          /\ orders'[p].account = orders[p].account \/ orders[p].status # "paid"
    BY <2>1, <2>2
  <2>6. OrderMatchesLedger'
    BY <1>3, <2>5 DEF LedgerInv, OrderMatchesLedger
  <2>7. \A b : PaidOrders(b)' = PaidOrders(b) /\ Redeemed(b)' = Redeemed(b) /\ Billed(b)' = Billed(b)
    BY <1>1, <1>3, <2>5 DEF PaidOrders, Redeemed, Billed
  <2>8. BalanceIsAccounted'
    BY <1>3, <2>7 DEF LedgerInv, BalanceIsAccounted
  <2> QED  BY <2>4, <2>6, <2>8 DEF LedgerInv
<1>4. CASE /\ Acceptable(e) /\ ~AlreadyPaid(orders[o])
           /\ AddEntry(a, PackCredits, <<"order", o>>)
           /\ orders' = [orders EXCEPT ![o].status = "paid", ![o].session = e.session]
  <2>1. /\ orders[o] \in [status : {"pending", "failed", "paid"}, account : Accounts,
                           session : Sessions \cup {NoSession}]
        /\ orders[o].status # "paid" /\ a \in Accounts
    BY <1>1, <1>4 DEF Acceptable, AlreadyPaid, LedgerInv, CreditTypeOK, NoOrderRecord
  <2>2. ~HasEntry(<<"order", o>>)
    BY <1>1, <2>1 DEF LedgerInv, OrderMatchesLedger, HasEntry
  <2>3. /\ balances' = [balances EXCEPT ![a] = @ + PackCredits]
        /\ ledger' = [ledger EXCEPT ![<<"order", o>>] = a]
    BY <1>4, <2>2 DEF AddEntry
  <2>4. /\ ledger' \in [References -> Accounts \cup {NoAccount}]
        /\ ledger'[<<"order", o>>] = a
        /\ \A q \in References : q # <<"order", o>> => ledger'[q] = ledger[q]
    BY <1>1, <2>1, <2>3, NewEntry DEF LedgerInv
  <2>5. balances' \in [Accounts -> Nat]
    BY <2>1, <2>3, CreditsAssumption DEF LedgerInv, CreditTypeOK
  <2>6. /\ orders'[o] = [status |-> "paid", account |-> a, session |-> e.session]
        /\ \A p \in Orders : p # o => orders'[p] = orders[p]
    BY <1>1, <1>4, <2>1 DEF LedgerInv, CreditTypeOK
  <2>7. orders' \in [Orders -> {NoOrderRecord} \cup
            [status : {"pending", "failed", "paid"}, account : Accounts,
             session : Sessions \cup {NoSession}]]
    BY <1>1, <1>4, <2>1, <2>6 DEF LedgerInv, CreditTypeOK
  <2>8. CreditTypeOK' /\ CheckoutHasOrder'
    BY <1>1, <2>4, <2>5, <2>6, <2>7 DEF LedgerInv, CreditTypeOK, CheckoutHasOrder
  <2>9. ChargeMatchesLedger'
    BY <1>1, <2>4 DEF LedgerInv, ChargeMatchesLedger
  <2>10. OrderMatchesLedger'
    <3> SUFFICES ASSUME NEW p \in Orders
                 PROVE  ledger'[<<"order", p>>] = IF orders'[p].status = "paid"
                                                  THEN orders'[p].account ELSE NoAccount
      BY DEF OrderMatchesLedger
    <3>1. CASE p = o
      BY <2>4, <2>6, <3>1
    <3>2. CASE p # o
      BY <2>4, <2>6, <3>2 DEF LedgerInv, OrderMatchesLedger
    <3> QED  BY <3>1, <3>2
  <2>11. BalanceIsAccounted'
    <3> SUFFICES ASSUME NEW b \in Accounts
                 PROVE  Accounted(b)'
      BY DEF BalanceIsAccounted, Accounted
    <3>1. Redeemed(b)' = Redeemed(b) /\ Billed(b)' = Billed(b)
      BY <1>1, <2>4 DEF Redeemed, Billed
    <3>2. balances[b] \in Nat
      BY DEF LedgerInv, CreditTypeOK
    <3>3. CASE b = a
      <4>1. PaidOrders(b)' = PaidOrders(b) \cup {o} /\ o \notin PaidOrders(b)
        BY <1>1, <2>1, <2>6, <3>3 DEF PaidOrders
      <4>2. Cardinality(PaidOrders(b)') = Cardinality(PaidOrders(b)) + 1
        BY <4>1, CountedSets, FS_AddElement
      <4>3. balances'[b] = balances[b] + PackCredits * 1 + VoucherCredits * 0
        BY <2>3, <3>2, <3>3, CreditsAssumption DEF LedgerInv, CreditTypeOK
      <4>4. Cardinality(Redeemed(b)') = Cardinality(Redeemed(b)) + 0
        BY <3>1, CountedSets
      <4> QED  BY <3>1, <4>2, <4>3, <4>4, BoughtChange
    <3>4. CASE b # a
      <4>1. PaidOrders(b)' = PaidOrders(b)
        BY <1>1, <2>1, <2>6, <3>4 DEF PaidOrders
      <4>2. balances'[b] = balances[b]
        BY <2>3, <3>4 DEF LedgerInv, CreditTypeOK
      <4> QED  BY <3>1, <4>1, <4>2 DEF LedgerInv, BalanceIsAccounted, Accounted
    <3> QED  BY <3>3, <3>4
  <2> QED  BY <2>8, <2>9, <2>10, <2>11 DEF LedgerInv
<1> QED  BY <1>2, <1>3, <1>4 DEF HandleWebhook

\* A voucher: its credits and its entry together, once.
LEMMA VoucherStep ==
    ASSUME LedgerInv, NEW a \in Accounts, NEW v \in Vouchers, RedeemVoucher(a, v)
    PROVE  LedgerInv'
<1> USE ReferenceKinds
<1>1. /\ ~HasEntry(<<"voucher", v>>)
      /\ balances' = [balances EXCEPT ![a] = @ + VoucherCredits]
      /\ ledger' = [ledger EXCEPT ![<<"voucher", v>>] = a]
      /\ UNCHANGED <<charges, orderVars>>
  BY DEF RedeemVoucher, AddEntry
<1>2. /\ ledger' \in [References -> Accounts \cup {NoAccount}]
      /\ ledger'[<<"voucher", v>>] = a
      /\ \A q \in References : q # <<"voucher", v>> => ledger'[q] = ledger[q]
  BY <1>1, NewEntry DEF LedgerInv
<1>3. balances' \in [Accounts -> Nat]
  BY <1>1, CreditsAssumption DEF LedgerInv, CreditTypeOK
<1>4. CreditTypeOK' /\ CheckoutHasOrder'
  BY <1>1, <1>2, <1>3 DEF LedgerInv, CreditTypeOK, CheckoutHasOrder, orderVars
<1>5. ChargeMatchesLedger' /\ OrderMatchesLedger'
  BY <1>1, <1>2 DEF LedgerInv, ChargeMatchesLedger, OrderMatchesLedger, orderVars
<1>6. BalanceIsAccounted'
  <2> SUFFICES ASSUME NEW b \in Accounts
               PROVE  Accounted(b)'
    BY DEF BalanceIsAccounted, Accounted
  <2>1. PaidOrders(b)' = PaidOrders(b) /\ Billed(b)' = Billed(b)
    BY <1>1 DEF PaidOrders, Billed, orderVars
  <2>2. balances[b] \in Nat
    BY DEF LedgerInv, CreditTypeOK
  <2>3. CASE b = a
    <3>1. Redeemed(b)' = Redeemed(b) \cup {v} /\ v \notin Redeemed(b)
      BY <1>1, <1>2, <2>3, NoAccountAssumption DEF Redeemed, HasEntry
    <3>2. Cardinality(Redeemed(b)') = Cardinality(Redeemed(b)) + 1
      BY <3>1, CountedSets, FS_AddElement
    <3>3. balances'[b] = balances[b] + PackCredits * 0 + VoucherCredits * 1
      BY <1>1, <2>2, <2>3, CreditsAssumption DEF LedgerInv, CreditTypeOK
    <3>4. Cardinality(PaidOrders(b)') = Cardinality(PaidOrders(b)) + 0
      BY <2>1, CountedSets
    <3> QED  BY <2>1, <3>2, <3>3, <3>4, BoughtChange
  <2>4. CASE b # a
    <3>1. Redeemed(b)' = Redeemed(b)
      BY <1>1, <1>2, <2>4, NoAccountAssumption DEF Redeemed, HasEntry
    <3>2. balances'[b] = balances[b]
      BY <1>1, <2>4 DEF LedgerInv, CreditTypeOK
    <3> QED  BY <2>1, <3>1, <3>2 DEF LedgerInv, BalanceIsAccounted, Accounted
  <2> QED  BY <2>3, <2>4
<1> QED  BY <1>4, <1>5, <1>6 DEF LedgerInv

\* Every step keeps the inductive invariant.
LEMMA LedgerStep == LedgerInv /\ [CreditNext]_creditVars => LedgerInv'
<1> SUFFICES ASSUME LedgerInv, [CreditNext]_creditVars
             PROVE  LedgerInv'
  OBVIOUS
<1>1. ASSUME NEW a \in Accounts, NEW j \in Jobs, AuthorizeJob(a, j)
      PROVE  LedgerInv'
  BY <1>1, AuthorizeStep
<1>2. ASSUME NEW a \in Accounts, NEW j \in Jobs, NEW status \in Outcomes,
             RecordJobOutcome(j, a, status)
      PROVE  LedgerInv'
  BY <1>2, OutcomeRecorded
<1>3. CASE \/ \E a \in Accounts, o \in Orders : BeginCheckout(a, o)
           \/ \E o \in Orders, s \in Sessions : ProviderOpens(o, s)
           \/ \E o \in Orders : ProviderRefuses(o) \/ BindSession(o)
  BY <1>3, CheckoutSteps
<1>4. ASSUME NEW e \in Events, HandleWebhook(e)
      PROVE  LedgerInv'
  BY <1>4, WebhookStep
<1>5. ASSUME NEW a \in Accounts, NEW v \in Vouchers, RedeemVoucher(a, v)
      PROVE  LedgerInv'
  BY <1>5, VoucherStep
<1>6. CASE RestartService
  BY <1>6, RestartStep
<1>7. CASE UNCHANGED creditVars
  BY <1>7 DEF creditVars, ledgerVars, orderVars, LedgerInv, CreditTypeOK, CheckoutHasOrder,
              ChargeMatchesLedger, OrderMatchesLedger, BalanceIsAccounted, PaidOrders, Redeemed,
              Billed
<1> QED  BY <1>1, <1>2, <1>3, <1>4, <1>5, <1>6, <1>7 DEF CreditNext, ServiceNext

-----------------------------------------------------------------------------
(* Theorems. *)

\* The inductive invariant holds in every reachable state of the service.
THEOREM LedgerInvariant == CreditSpec => []LedgerInv
BY LedgerInit, LedgerStep, PTL DEF CreditSpec

\* Balances are never negative, and every bucket holds records of its type:
\* the service's transactions keep CreditTypeOK.
THEOREM CreditTypeCorrect == CreditSpec => []CreditTypeOK
<1>1. LedgerInv => CreditTypeOK
  BY DEF LedgerInv
<1> QED  BY <1>1, LedgerInvariant, PTL

\* Every balance is what was bought and redeemed less what is billed, whatever
\* repeats, overlaps or is cut off by a restart.
THEOREM BalancesAccounted == CreditSpec => []BalanceIsAccounted
<1>1. LedgerInv => BalanceIsAccounted
  BY DEF LedgerInv
<1> QED  BY <1>1, LedgerInvariant, PTL

\* The state of every charge agrees with its entries in the ledger.
THEOREM ChargesMatch == CreditSpec => []ChargeMatchesLedger
<1>1. LedgerInv => ChargeMatchesLedger
  BY DEF LedgerInv
<1> QED  BY <1>1, LedgerInvariant, PTL

\* An order is paid exactly when its account was credited for it.
THEOREM OrdersMatch == CreditSpec => []OrderMatchesLedger
<1>1. LedgerInv => OrderMatchesLedger
  BY DEF LedgerInv
<1> QED  BY <1>1, LedgerInvariant, PTL

\* No step changes a settled charge: a delivered job is not refunded, and a
\* refund is not undone.
THEOREM SettledIsFinal == CreditSpec => SettledStaysSettled
<1>1. ASSUME LedgerInv, [CreditNext]_creditVars
      PROVE  \A j \in Jobs : charges[j].status \in {"completed", "refunded"}
                            => charges'[j] = charges[j]
  <2> SUFFICES ASSUME NEW j \in Jobs, charges[j].status \in {"completed", "refunded"}
               PROVE  charges'[j] = charges[j]
    OBVIOUS
  <2>1. charges \in [Jobs -> {NoCharge} \cup
            [status : {"authorized", "completed", "refunded"}, account : Accounts]]
    BY <1>1 DEF LedgerInv, CreditTypeOK
  <2>2. ASSUME NEW a \in Accounts, NEW k \in Jobs, AuthorizeJob(a, k)
        PROVE  charges'[j] = charges[j]
    BY <2>1, <2>2 DEF AuthorizeJob
  <2>3. ASSUME NEW a \in Accounts, NEW k \in Jobs, NEW status \in Outcomes,
               RecordJobOutcome(k, a, status)
        PROVE  charges'[j] = charges[j]
    BY <2>1, <2>3 DEF RecordJobOutcome, ledgerVars, Settled
  <2>4. CASE RestartService
    BY <2>4 DEF RestartService, Reconcile, Interrupted
  <2>5. CASE UNCHANGED charges
    BY <2>5
  <2> QED  BY <1>1, <2>2, <2>3, <2>4, <2>5
           DEF CreditNext, ServiceNext, BeginCheckout, ProviderOpens, ProviderRefuses, BindSession,
               HandleWebhook, RedeemVoucher, creditVars, ledgerVars
<1> QED  BY <1>1, LedgerInvariant, PTL DEF CreditSpec, SettledStaysSettled

\* No step takes an order out of "paid", neither a late callback nor the second
\* transaction of CreateCheckout.
THEOREM PaidIsFinal == CreditSpec => PaidStaysPaid
<1>1. ASSUME LedgerInv, [CreditNext]_creditVars
      PROVE  \A o \in Orders : orders[o].status = "paid" => orders'[o].status = "paid"
  <2> SUFFICES ASSUME NEW o \in Orders, orders[o].status = "paid"
               PROVE  orders'[o].status = "paid"
    OBVIOUS
  <2>1. orders \in [Orders -> {NoOrderRecord} \cup
            [status : {"pending", "failed", "paid"}, account : Accounts,
             session : Sessions \cup {NoSession}]]
    BY <1>1 DEF LedgerInv, CreditTypeOK
  <2>2. ASSUME NEW a \in Accounts, NEW p \in Orders, BeginCheckout(a, p)
        PROVE  orders'[o].status = "paid"
    BY <2>1, <2>2 DEF BeginCheckout
  <2>3. ASSUME NEW p \in Orders, BindSession(p)
        PROVE  orders'[o].status = "paid"
    <3>1. PICK s \in Sessions : orders' = [orders EXCEPT ![p] = [@ EXCEPT !.session = s]]
      BY <2>3 DEF BindSession, WithSession
    <3>2. orders[o] \in [status : {"pending", "failed", "paid"}, account : Accounts,
                         session : Sessions \cup {NoSession}]
      BY <2>1 DEF NoOrderRecord
    <3> QED  BY <2>1, <3>1, <3>2
  <2>4. ASSUME NEW e \in Events, HandleWebhook(e)
        PROVE  orders'[o].status = "paid"
    <3>1. CASE e.order = o
      BY <2>4, <3>1 DEF HandleWebhook, AlreadyPaid
    <3>2. CASE e.order # o
      BY <2>1, <2>4, <3>2, EventsAssumption DEF HandleWebhook
    <3> QED  BY <3>1, <3>2
  <2>5. CASE UNCHANGED orders
    BY <2>5
  <2> QED  BY <1>1, <2>2, <2>3, <2>4, <2>5
           DEF CreditNext, ServiceNext, AuthorizeJob, RecordJobOutcome, ProviderOpens, ProviderRefuses,
               RedeemVoucher, RestartService, creditVars, orderVars
<1> QED  BY <1>1, LedgerInvariant, PTL DEF CreditSpec, PaidStaysPaid

\* No step changes or removes an entry of the ledger.
THEOREM LedgerGrows == CreditSpec => LedgerIsAppendOnly
<1>1. ASSUME LedgerInv, [CreditNext]_creditVars
      PROVE  \A r \in References : ledger[r] # NoAccount => ledger'[r] = ledger[r]
  <2> SUFFICES ASSUME NEW r \in References, ledger[r] # NoAccount
               PROVE  ledger'[r] = ledger[r]
    OBVIOUS
  <2>1. ledger \in [References -> Accounts \cup {NoAccount}]
    BY <1>1 DEF LedgerInv, CreditTypeOK
  <2>2. ASSUME NEW a, NEW delta, NEW q, AddEntry(a, delta, q)
        PROVE  ledger'[r] = ledger[r]
    BY <2>1, <2>2 DEF AddEntry, HasEntry
  <2>3. ASSUME NEW a \in Accounts, NEW j \in Jobs, NEW status \in Outcomes,
               RecordJobOutcome(j, a, status)
        PROVE  ledger'[r] = ledger[r]
    BY <2>2, <2>3 DEF RecordJobOutcome, ledgerVars
  <2>4. ASSUME NEW e \in Events, HandleWebhook(e)
        PROVE  ledger'[r] = ledger[r]
    BY <2>2, <2>4 DEF HandleWebhook
  <2>5. CASE RestartService
    <3>1. ledger' = [q \in References |->
              IF q \in {"refund"} \X {j \in Jobs : /\ charges[j].status = "authorized"
                                                   /\ ~HasEntry(<<"refund", j>>)}
              THEN charges[q[2]].account ELSE ledger[q]]
      BY <2>5 DEF RestartService, Reconcile, Interrupted
    <3> QED  BY <3>1 DEF HasEntry
  <2>6. CASE UNCHANGED ledger
    BY <2>6
  <2>7. ASSUME NEW a \in Accounts, NEW j \in Jobs, AuthorizeJob(a, j)
        PROVE  ledger'[r] = ledger[r]
    BY <2>2, <2>7 DEF AuthorizeJob
  <2>8. ASSUME NEW a \in Accounts, NEW v \in Vouchers, RedeemVoucher(a, v)
        PROVE  ledger'[r] = ledger[r]
    BY <2>2, <2>8 DEF RedeemVoucher
  <2> QED  BY <1>1, <2>3, <2>4, <2>5, <2>6, <2>7, <2>8
           DEF CreditNext, ServiceNext, BeginCheckout, ProviderOpens, ProviderRefuses, BindSession,
               creditVars, ledgerVars
<1> QED  BY <1>1, LedgerInvariant, PTL DEF CreditSpec, LedgerIsAppendOnly

\* Charges, orders and ledger never disagree.
THEOREM RecordsMatch == CreditSpec => []RecordsMatchLedger
BY ChargesMatch, OrdersMatch, PTL DEF RecordsMatchLedger

\* Charges, orders and entries of the ledger, once settled, paid or written,
\* never change.
THEOREM RecordsFinal == CreditSpec => RecordsAreFinal
BY SettledIsFinal, PaidIsFinal, LedgerGrows, PTL DEF RecordsAreFinal
=============================================================================
