\* Two responses, no retry at all, none but the first attempt, and two retries.
SPECIFICATION FairSpec
CONSTANTS
    r1 = r1
    r2 = r2
    Responses = {r1, r2}
    Metrics <- MCMetrics
    RetrySettings <- MCRetrySettings
    MaxSessions = 2
INVARIANTS
    ReceiptsBeforeReport
    DuplicatesOnlyAfterLoss
    TokensAccountedFor
PROPERTY
    DeliverySettles
