SPECIFICATION FairSpec
CONSTANTS
    Msgs = {1}
    Relays = {r1, r2}
    Batch = 1
    Workers = 1
    MaxAttempts = 2
    SendTimeout = 1
    ClaimTTL = 2
    PublishedTTL = 1
    FailedTTL = 2
    MaxBackoff = 1
    AttemptBound = 5
    MaxFaults = 2
PROPERTY RowsSettle
