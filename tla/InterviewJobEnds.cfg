\* At most one Redis call fails or is sent twice; two reconnects, one conversation item.
SPECIFICATION FairSpec
CONSTANTS
    MaxReconnects = 2
    RecentTurnsLimit = 1
    MaxItems = 1
    MaxFaults = 1
PROPERTIES
    PromiseKept
    PromiseFulfilled
    JobSettles
