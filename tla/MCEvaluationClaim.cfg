SPECIFICATION Spec
CONSTANTS
    Tasks = 2
    MaxSteps = 2
INVARIANT ClaimsAreScored
CHECK_DEADLOCK FALSE
