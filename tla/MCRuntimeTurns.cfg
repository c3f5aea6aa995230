CONSTANTS
    RequirePlan = FALSE
    RequireUpdate = TRUE
    CanCrash = FALSE
    Batches <- PairedCalls
    Goal <- GoalScreens
    MaxTurns = 3
    MaxScreen = 1
    MaxKept = 0
SPECIFICATION FairSpec
INVARIANTS TypeOK ApprovedBeforeDispatch ObligationBlocks ReplayedOnce
PROPERTIES ReturnsSettled RunReturns
