\* A job that is dispatched again after its child has died.
CONSTANTS
    Documents <- MCDocuments
    Environments <- MCEnvironments
    Contexts <- MCContexts
    Followed <- MCFollowed
    MaxDispatches = 2
    MaxTurns = 3
SPECIFICATION Spec
INVARIANT RetryReseeds
CHECK_DEADLOCK FALSE
