SPECIFICATION Spec
CONSTANTS
    Msgs = {1, 2}
    Relays = {r1, r2}
    Batch = 2
    Workers = 1
    MaxAttempts = 2
    SendTimeout = 0
    ClaimTTL = 1
    PublishedTTL = 1
    FailedTTL = 2
    MaxBackoff = 1
    AttemptBound = 2
    MaxFaults = 1
INVARIANTS OutboxSound NoSilentDrop
PROPERTY SettledIsFinal

