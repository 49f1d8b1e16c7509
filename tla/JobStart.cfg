\* Every document from one source, good and bad ones from two, under ten environments of
\* which six load; two jobs followed through two dispatches and three turns.
CONSTANTS
    Documents <- MCDocuments
    Environments <- MCEnvironments
    Contexts <- MCContexts
    Followed <- MCFollowed
    MaxDispatches = 2
    MaxTurns = 3
SPECIFICATION Spec
INVARIANTS
    AdmissionIsExact
    SessionsObeyTheDispatch
    ReseedSpansDispatches
    CountersNeverAhead
    
    UnlistedLeftNothing
CHECK_DEADLOCK FALSE
