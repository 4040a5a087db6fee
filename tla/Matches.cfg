CONSTANTS
    Lines = {l1, l2}
    Imports = {i1, i2}
    Bills = {e}
    Envelopes = {}
    Spares = {s}
    MaxPurchases = 2
    Doors <- AllDoors
SPECIFICATION Spec
SYMMETRY MCSymmetry
INVARIANTS MatchesAreWhole CreatedRowsKeepTheirLine UndoFinishes FreshPagesSave
PROPERTIES UndosTakeTheirOwn FreedLinesWereNamed
