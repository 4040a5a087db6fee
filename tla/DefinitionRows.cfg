SPECIFICATION Spec
CONSTANTS
    MaxRows = 3
    LastPeriod = 2
    PeriodOf <- Single
    Rules <- LateRun
    Kinds = {TRUE, FALSE}
    Price = 1
    Typed <- ZeroPrice
    MaxActs = 3
    MaxUsed = 1
    MaxSpent = 2
    MaxBudget = 2
INVARIANTS RowsAnswerOnce PassesSettle CarriesMoveThePlan
PROPERTIES ClaimedRowsSurvive
CHECK_DEADLOCK FALSE
