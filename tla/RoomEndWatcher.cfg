\* An interview of 3 ticks and one clamped to 5, a grace of 2, a candidate and
\* one more participant, watched from tick 0 or 1.
SPECIFICATION FairSpec
CONSTANTS
    Durations <- MCDurations
    MaxDuration = 5
    Grace = 2
    Candidate = candidate
    Others = {bystander}
    Horizon = 2
INVARIANTS
    LeaverEndsInterview
    DurationBounds
PROPERTIES
    AbsentForTheWholeGrace
    InterviewEnds
CHECK_DEADLOCK FALSE
