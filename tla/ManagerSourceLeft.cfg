\* A job canceled between the worker's check and Start keeps its PDF.
SPECIFICATION Spec
CONSTANTS
    Jobs = {j1}
    Cancelers = {c1}
    NoJob = NoJob
    QueueCapacity = 0
    Public = TRUE
    HasStore = TRUE
CHECK_DEADLOCK FALSE
INVARIANT
    SourceRemovedAtEnd
