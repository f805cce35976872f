SPECIFICATION Spec
CONSTANTS
    NoSet = NoSet
    Inputs <- MCInputs
    Objects <- MCObjects
    Decisions <- MCDecisions
    MaxHead = 1
INVARIANTS UnblockedIsClean QueuedBulkIsSafe BudgetKept
CHECK_DEADLOCK FALSE
