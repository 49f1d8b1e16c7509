\* At most one Redis call fails or is sent twice, at any point, with or without effect;
\* two reconnects, and two conversation items, so that there is an order to keep.
SPECIFICATION Spec
CONSTANTS
    MaxReconnects = 2
    RecentTurnsLimit = 1
    MaxItems = 2
    MaxFaults = 1
INVARIANTS
    TypeOK
    ReseedSeesEverything
    CompletedRecordIsWhole
    CompletedKeysExpire
    NoCompletionAfterAbort
    QuietTeardown
    ReconnectOnRecord
    WriteThroughOrder
    TranscriptInOrder
    EgressStopAttempted
