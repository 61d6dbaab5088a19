SPECIFICATION WorkersSpec
CONSTANTS
    Key = {k1, k2}
    Notes = {n1, n2}
    Sessions = {s1, s2}
    Sweeper = sweeper
    BatchMax = 1
    MediaScenarios <- SharedPlans
    k1 = k1
    k2 = k2
    n1 = n1
    n2 = n2
    CheckScenarios <- NoChecks
    PushScenarios <- NoPushes
    Endpoints = {"e1", "e2"}
    MaxSubscriptionsPerUser = 1
    PoolScenarios <- NoPools
    ProxyScenarios <- NoTunnels
INVARIANT ClaimedObjectExists
CHECK_DEADLOCK FALSE
