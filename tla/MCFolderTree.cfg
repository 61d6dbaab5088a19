SPECIFICATION Spec
CONSTANTS
    i1 = i1
    p1 = p1
    p2 = p2
    p3 = p3
    FolderScenarios <- FolderPlans
INVARIANT TreeSound
PROPERTIES CascadeBounded EditAuthorized
CHECK_DEADLOCK FALSE
