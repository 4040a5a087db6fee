SPECIFICATION Spec
CONSTANTS
    Plans <- TwoPlans
    Figures <- TypedFigures
    LastDay = 3
INVARIANTS PairIsOneFact PairIsDated LedgerMatchesPair
PROPERTIES FreshFormsShowThePair RepeatsChangeNothing
