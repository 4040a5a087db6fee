SPECIFICATION LoanSpec
CONSTANTS
    None = None
    Removed = Removed
    LastDay = 6
    MonthLength = 2
    Origination = 0
    Principal = 8
    Lines = {"tax", "insurance"}
    MonthsPerYear = 1
    RateUnit = 4
    Payments = {1, 2}
    PayDays = {0, 1}
    Rates = {0, 2}
    Cash = {0, 3, 9}
    PlannedCash = 4
    PaidDays = {2, 4}
    DueDays = {2, 3, 4}
    Balances = {5}
    StatedDays = {0, 3}
    Amounts = {1}
    EscrowDays = {4, 6}
    RateDays = {3}
    FirstVersions <- OneLine
    FirstToday = 5
    MaxActs = 4
INVARIANTS LedgerReadsTheFacts PlanLeavesTheRecordAlone NoMonthClearedTwice
PROPERTIES LaterPaymentsMoveNoSplit EscrowDoorsMoveNoSplit
CHECK_DEADLOCK FALSE
