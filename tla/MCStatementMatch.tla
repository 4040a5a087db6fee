-------------------------- MODULE MCStatementMatch --------------------------
\* One account's statement lines for TLC.
EXTENDS StatementMatch

\* Every door of the review page and of the month's settle panel.
AllDoors == {"delete", "purchase", "card", "settle"}

\* Nothing tells two lines, or two imports, apart.
MCSymmetry == Permutations(Lines) \cup Permutations(Imports)
=============================================================================
