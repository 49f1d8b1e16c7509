SPECIFICATION Spec
CONSTANTS
    MaxReconnects = 1
    RecentTurnsLimit = 1
    MaxItems = 1
    MaxFaults = 1
INVARIANT
    OptionalRecordingNeverAborts
