\* A cap of two and three jobs, so that a stale sample overshoots it; one request.
SPECIFICATION FairSpec
CONSTANTS
    Jobs = {j1, j2, j3}
    Max = 2
    DrainTimeout = 3
    MaxInterview = 2
    Requests = {q1}
    Horizon = 2
INVARIANTS
    KillsOnlyHungInterviews
    ForcedExitIsClean
PROPERTIES
    OvershootBySampleOnly
    DrainEnds
CHECK_DEADLOCK FALSE
