\* Two crawls of three products of two sources flush while one request is answered.
SPECIFICATION ReadSpec
CONSTANTS
    Products = {1, 2, 3}
    Sources = {"shop", "other"}
    SourceOf <- ProductSource
    DefaultOf <- DefaultCurrency
    Writers = {w1, w2}
    Earlier <- Series
    RawItems <- Items
    MaxTime = 4
    MinDrop = 3333
    StaleAfter <- Budgets
    Windows = {1, 3}
    RawLimits <- Limits
    MinLimit = 1
    MaxLimit = 2
INVARIANTS TypeOK LastSeenIsNewest RowTrueAlone AnswerCoherent StaleIsAllStale
PROPERTIES DealsForCause
SYMMETRY Symmetry
CHECK_DEADLOCK FALSE
