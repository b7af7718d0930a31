\* Private mode with an optional store, a job waiting behind another, downloads.
SPECIFICATION DownloadSpec
CONSTANTS
    Jobs = {j1, j2}
    Cancelers = {c1}
    Readers = {r1}
    NoJob = NoJob
    QueueCapacity = 1
    Public = FALSE
    HasStore = TRUE
SYMMETRY DownloadSymmetry
CHECK_DEADLOCK FALSE
INVARIANTS
    StartedJobIsCleaned
    SucceededIsDeliverable
    AnsweredIsServed
PROPERTIES
    ImplementsLifecycle
