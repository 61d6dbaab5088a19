SPECIFICATION WorkersSpec
CONSTANTS
    Key = {k1, k2}
    Notes = {n1, n2}
    Sessions = {s1, s2}
    Sweeper = sweeper
    BatchMax = 1
    MediaScenarios <- MediaPlans
    k1 = k1
    k2 = k2
    n1 = n1
    n2 = n2
    CheckScenarios <- CheckPlans
    PushScenarios <- PushPlans
    Endpoints = {"e1", "e2"}
    MaxSubscriptionsPerUser = 1
    PoolScenarios <- PoolPlans
    ProxyScenarios <- ProxyPlans
INVARIANTS MediaSound ChecksSound CapturesSound
PROPERTIES BaselineAdvances ChannelsKept CapturesEnd Swept
CHECK_DEADLOCK FALSE
