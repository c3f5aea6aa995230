CONSTANTS
    RequirePlan = TRUE
    RequireUpdate = TRUE
    CanCrash = TRUE
    Batches <- CrashCalls
    Goal <- GoalScreens
    MaxTurns = 2
    MaxScreen = 1
    MaxKept = 1
SPECIFICATION Spec
INVARIANTS ApprovedBeforeDispatch DurablePlanFirst
PROPERTIES ImplementsLifecycle VerifiedUnlessMoved
