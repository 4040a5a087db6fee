SPECIFICATION Spec
CONSTANTS
    checking = checking
    card = card
    bill = bill
    groceries = groceries
    Accounts = {checking, card}
    Movements = {bill, groceries}
    Purchases = {groceries}
    RowAccount <- TwoAccounts
    Categories = {food}
    Periods = {p1}
    LastDay = 2
    Amounts = {2}
    Balances = {0, 1}
    Equities = {0, 1}
    MaxAsserts = 2
INVARIANTS TotalIsLatestAndLater
