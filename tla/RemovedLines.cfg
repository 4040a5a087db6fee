SPECIFICATION LoanSpec
CONSTANTS
    None = None
    Removed = Removed
    LastDay = 4
    MonthLength = 2
    Origination = 0
    Principal = 8
    Lines = {"tax", "insurance"}
    MonthsPerYear = 1
    RateUnit = 4
    Payments = {1, 2}
    PayDays = {0}
    Rates = {1}
    Cash = {0, 3}
    PlannedCash = 4
    PaidDays = {1}
    DueDays = {2, 4}
    Balances = {5}
    StatedDays = {0}
    Amounts = {1, 2}
    EscrowDays = {0, 2, 3}
    RateDays = {}
    FirstVersions <- NoLines
    FirstToday = 1
    MaxActs = 5
PROPERTIES RemovedLinesStayRemoved
CHECK_DEADLOCK FALSE
