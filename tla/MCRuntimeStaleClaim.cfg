CONSTANTS
    RequirePlan = TRUE
    RequireUpdate = TRUE
    CanCrash = FALSE
    Batches <- PairedCalls
    Goal <- GoalScreens
    MaxTurns = 3
    MaxScreen = 1
    MaxKept = 0
SPECIFICATION Spec
INVARIANTS VerifiedMeansGoal
