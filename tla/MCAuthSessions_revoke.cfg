SPECIFICATION Spec
CONSTANTS
    Users = {u1}
    Passwords = {p1, p2}
    Access = 1
    Refresh = 3
    Absolute = 2
    Grace = 1
    Retain = 1
    FamilyLimit = 2
    MaxTime = 0
    MaxSessions = 3
    MaxTriples = 4
    MaxEpoch = 1
    MaxRotations = 1
    MaxRevocations = 1
    MaxLogins = 1
INVARIANTS RevocationSound
PROPERTY IssuedFromCurrentProof
CHECK_DEADLOCK FALSE
