-------------------------- MODULE MCCreditPayback --------------------------
\* Small instances of CreditPayback for TLC.
EXTENDS CreditPayback, TLC

CONSTANTS r1, r2, p1, p2, e1, e2

\* A charge and a refund.
CardAmounts == {-1, 2}

Symmetry == Permutations(Purchases) \cup Permutations(Paybacks)

=============================================================================
