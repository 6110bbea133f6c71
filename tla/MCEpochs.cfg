SPECIFICATION Spec
CONSTANTS
    Fraction <- MCFraction
    Sample = 1
    PerEdge = 2
    Capacity = 4
    ResultBound = 8
INVARIANT BudgetKept
PROPERTY
    EpochsAdvance
CHECK_DEADLOCK FALSE
