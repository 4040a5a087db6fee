SPECIFICATION SpecOfTwo
CONSTANTS
    checking = checking
    card = card
    bill = bill
    groceries = groceries
    Accounts = {checking, card}
    Movements = {bill, groceries}
    Purchases = {groceries}
    RowAccount <- TwoAccounts
    Categories = {food, rent}
    Periods = {p1}
    LastDay = 3
    Amounts = {2, 1}
    Balances = {0, 1}
    Equities = {1}
    MaxAsserts = 2
SYMMETRY Filings
INVARIANTS CorrectionsMatchWalk SourcesAtTarget LedgerReadsAssertions
PROPERTIES TrueUpMovesOnlyItsSpan
