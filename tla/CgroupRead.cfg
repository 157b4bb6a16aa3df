SPECIFICATION Spec
CONSTANTS
    Kinds = {"RESOURCE", "PROCFS"}
    FileLimit <- MCFileLimit
    ByteLimit = 7
    Sizes = {0, 2, 3, 5, 6}
    NoOutcome = NoOutcome
    MaxCalls = 3
INVARIANT BudgetHolds
INVARIANT OneReadAfterDeadline
PROPERTY ReadsAreAtomic
