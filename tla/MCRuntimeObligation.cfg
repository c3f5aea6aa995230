CONSTANTS
    RequirePlan = TRUE
    RequireUpdate = TRUE
    CanCrash = TRUE
    Batches <- PairedCalls
    Goal <- GoalScreens
    MaxTurns = 2
    MaxScreen = 1
    MaxKept = 0
SPECIFICATION Spec
INVARIANTS ObligationBlocks
