SPECIFICATION Spec
CONSTANTS
    Items = {}
    Closed <- OwnGridDay
    Rhythms <- Faster
    Stated <- GridDays
    Opening = 3
    LastToday = 9
    Sizes = {1, 2, 3}
    Targets = {2}
    MaxPaydays = 6
    MaxActs = 2
INVARIANTS NoPaycheckSkipped
CHECK_DEADLOCK FALSE
