SPECIFICATION Spec
CONSTANTS
    r1 = r1
    r2 = r2
    p1 = p1
    p2 = p2
    e1 = e1
    e2 = e2
    Envelopes = {r1}
    Bills = {r2}
    Paybacks = {p1, p2}
    Purchases = {e1, e2}
    Figures = {0, 1}
    Amounts <- CardAmounts
    NoRow = NoRow
SYMMETRY Symmetry
INVARIANTS PaybacksMatchSpending PaidFigureIsThePlan
PROPERTIES PaidSpendIsClosed RepaysCardDebt
