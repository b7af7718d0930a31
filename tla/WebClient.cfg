\* Three submissions, two polls in flight, one cancel and one reload.
SPECIFICATION WebSpec
CONSTANTS
    Jobs <- MCJobs
    NoJob = 0
    Polls = {p1, p2}
    MaxCancels = 1
    MaxReloads = 1
CHECK_DEADLOCK FALSE
INVARIANT CancelReachesUpload
PROPERTY EndIsShown
