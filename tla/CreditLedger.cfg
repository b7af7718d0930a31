\* Two wallets, two jobs, two orders with late, repeated and wrong callbacks.
SPECIFICATION StripeSpec
CONSTANTS
    Accounts = {a1, a2}
    NoAccount = NoAccount
    Jobs = {j1, j2}
    Orders = {o1, o2}
    Sessions = {s1, s2}
    NoSession = NoSession
    NoOrder = NoOrder
    Vouchers = {v1}
    Events <- MCEvents
    PackCredits = 2
    VoucherCredits = 1
    Tolerance = 1
    MaxDelay = 2
SYMMETRY Symmetry
INVARIANTS
    CreditTypeOK
    BalanceIsAccounted
    RecordsMatchLedger
    CreditsFollowPayment
PROPERTIES
    RecordsAreFinal
