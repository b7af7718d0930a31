\* Public mode: two jobs, and two cancels at the same time.
SPECIFICATION Spec
CONSTANTS
    Jobs = {j1, j2}
    Cancelers = {c1, c2}
    NoJob = NoJob
    QueueCapacity = 1
    Public = TRUE
    HasStore = TRUE
SYMMETRY Symmetry
CHECK_DEADLOCK FALSE
INVARIANTS
    TypeOK
    OutcomeIsFinal
    DoneIsSettled
    CancelStopsWork
    NoUntrackedObject
    CloseLeavesNothing
PROPERTIES
    TerminalIsFinal
