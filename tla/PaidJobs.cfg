\* Two jobs of one wallet, a cancel, a shutdown, a restart and a failing write.
SPECIFICATION PaidSpec
CONSTANTS
    Jobs = {j1, j2}
    Cancelers = {c1}
    NoJob = NoJob
    QueueCapacity = 0
    Public = TRUE
    HasStore = TRUE
    a1 = a1
    Accounts = {a1}
    NoAccount = NoAccount
    Owner <- OneOwner
    Vouchers = {v1}
    VoucherCredits = 2
    MaxRestarts = 1
    MaxFaults = 1
SYMMETRY Symmetry
CHECK_DEADLOCK FALSE
INVARIANTS
    RunningIsReserved
    ShutdownSettles
PROPERTY
    ImplementsPromise
