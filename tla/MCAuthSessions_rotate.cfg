SPECIFICATION Spec
CONSTANTS
    Users = {u1}
    Passwords = {p1}
    Access = 1
    Refresh = 3
    Absolute = 2
    Grace = 1
    Retain = 1
    FamilyLimit = 3
    MaxTime = 5
    MaxSessions = 4
    MaxTriples = 6
    MaxEpoch = 0
    MaxRotations = 2
    MaxRevocations = 0
    MaxLogins = 1
ACTION_CONSTRAINT Narrow
INVARIANTS RotationSound FamilyCap ReuseEndsFamily
CHECK_DEADLOCK FALSE
