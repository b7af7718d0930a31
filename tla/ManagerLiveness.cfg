\* More uploads than slots: accounting, and under fairness an end to everything.
SPECIFICATION FairSpec
CONSTANTS
    Jobs = {j1, j2}
    Cancelers = {c1}
    NoJob = NoJob
    QueueCapacity = 0
    Public = FALSE
    HasStore = FALSE
CHECK_DEADLOCK FALSE
INVARIANTS
    SlotAccounting
    SendNeverBlocks
PROPERTIES
    NothingEnqueuedAfterClose
    CancelCompletes
    JobsSettle
    CloseCompletes
