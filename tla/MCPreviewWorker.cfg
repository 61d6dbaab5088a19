SPECIFICATION PreviewSpec
CONSTANTS
    PreviewScenarios <- PreviewPlans
INVARIANTS RequestsAnswered ShownObjectExists
PROPERTIES PreviewSettles HealSparesNewer
CHECK_DEADLOCK FALSE
