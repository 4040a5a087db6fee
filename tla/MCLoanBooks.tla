----------------------------- MODULE MCLoanBooks -----------------------------
\* Small instances of LoanBooks for TLC: months of two days, a loan of 8 begun on
\* the first day at a quarter of the balance a month.
EXTENDS LoanBooks

\* One line of escrow since the origination, and the rest not entered yet.
OneLine == [l \in Lines |-> [d \in Days |-> IF d = 0 /\ l = "tax" THEN 1 ELSE None]]

NoLines == [l \in Lines |-> [d \in Days |-> None]]

=============================================================================
