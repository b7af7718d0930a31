\* Two tokens return in every unit of time; a bucket of time 1 is dropped at 5.
SPECIFICATION LimiterSpec
CONSTANTS
    r1 = r1
    r2 = r2
    k1 = k1
    k2 = k2
    Requests <- MCRequests
    Keys <- MCKeys
    NoKey = NoKey
    PerSec = 2
    Burst = 2
    TrimAge = 3
    Skew = 1
    MaxTime = 5
SYMMETRY Symmetry
INVARIANT RateIsBounded
PROPERTY BucketsForgetNothing
CHECK_DEADLOCK FALSE
