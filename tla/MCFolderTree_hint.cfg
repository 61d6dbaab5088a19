SPECIFICATION Spec
CONSTANTS
    i1 = i1
    p1 = p1
    p2 = p2
    p3 = p3
    FolderScenarios <- HintPlans
INVARIANT HintIsNotPassword
CHECK_DEADLOCK FALSE
