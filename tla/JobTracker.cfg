\* Two cancel requests against one job, two calls that fail.
SPECIFICATION FairSpec
CONSTANTS
    c1 = c1
    c2 = c2
    Requests = {c1, c2}
    MaxFaults = 2
INVARIANTS
    ChildUpdatesKept
    
PROPERTIES
    UpdatesSettle
