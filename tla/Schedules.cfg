SPECIFICATION Spec
CONSTANTS
    Items = {i1}
    Closed <- Week
    Rhythms <- Changing
    Stated <- ThreeDays
    Opening = 4
    LastToday = 6
    Sizes = {1, 2}
    Targets = {2}
    MaxPaydays = 4
    MaxActs = 4
INVARIANTS CalendarIsReadable EarlierUndoes WindowNeverOverfills
PROPERTIES MoneyKeepsItsPaycheck
CHECK_DEADLOCK FALSE
