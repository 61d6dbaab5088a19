SPECIFICATION PipeFairSpec
CONSTANTS
    Msgs = {1}
    Relays = {r1}
    Batch = 1
    Workers = 1
    MaxAttempts = 2
    SendTimeout = 0
    ClaimTTL = 0
    PublishedTTL = 0
    FailedTTL = 0
    MaxBackoff = 0
    AttemptBound = 2
    MaxFaults = 1
    Prefetch = 2
    WorkerMaxAttempts = 2
INVARIANTS MessagesAccountedFor
PROPERTY MessagesSettle
