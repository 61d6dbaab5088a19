SPECIFICATION IdentitySpec
CONSTANTS
    Slots = {q1, q2}
    MaxIds = 3
    Google <- GoogleAccounts
    Scenarios <- AccountPlans
    Provision = TRUE
    Hands = {h1, h2}
    FactorScenarios <- FactorPlans
    TOTPOnly = FALSE
    MaxAttempts = 1
    MaxSends = 1
    TTL = 1
    CodeTTL = 1
    Cooldown = 0
    Retain = 0
    MaxSessions = 2
    MaxResets = 1
    MaxSeeds = 2
SYMMETRY Symmetry
INVARIANTS PrivilegeIsFresh CredentialsSound GuessesBounded
PROPERTIES SeatSpec FactorsSound
CHECK_DEADLOCK FALSE
