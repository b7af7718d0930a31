\* Two tabs in one or two browsers, two requests at a time, one code, two starts.
SPECIFICATION AccessSpec
CONSTANTS
    Secrets = {"first", "second"}
    Pages = {p1, p2}
    Browsers = {b1, b2}
    Requests = {r1, r2}
    Vouchers = {v1}
    OfferedEnvironments <- MCEnvironments
    SessionTTL = 1
    VoucherTTL = 1
    MaxSessions = 3
    MaxLogins = 2
    MaxTime = 1
    MaxStarts = 2
    MaxLoads = 3
SYMMETRY AccessSymmetry
CHECK_DEADLOCK FALSE
INVARIANTS
    ActsForShownWallet
    CodeOpensItsWallet
    NeverHalfConfigured
PROPERTY
    LoggedOutStaysOut
