CONSTANTS
    a = a
    b = b
    Ids = {a, b}
    Budgets = {2}
    SetAttempts = {0, 1}
    SetStatuses = {"pending", "in_progress", "completed"}
    SetRetries = {"none", "invalid"}
    MaxSteps = 2
    MaxAttempts = 2
SYMMETRY IdSymmetry
SPECIFICATION Spec
INVARIANTS TypeOK PlanWellFormed BudgetRespected
PROPERTIES RecoverySafe
