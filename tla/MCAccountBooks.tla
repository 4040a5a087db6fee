--------------------------- MODULE MCAccountBooks ---------------------------
(* Small instances of AccountBooks for TLC. *)
EXTENDS AccountBooks, TLC

CONSTANTS checking, card, bill, groceries

\* A bill on checking and a purchase on the card.
TwoAccounts == bill :> checking @@ groceries :> card

\* Checking opened on the first day, the card on the second.
OpenedInTurn == Init /\ open[checking].day = 1 /\ open[card].day = 2
SpecOfTwo == OpenedInTurn /\ [][Next]_vars

\* Categories are interchangeable, and so are pay periods.
Filings == Permutations(Categories) \cup Permutations(Periods)
=============================================================================
