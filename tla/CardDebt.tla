------------------------------ MODULE CardDebt ------------------------------
(***************************************************************************)
(* What the card side of an envelope promises its owner: spending on the   *)
(* card is a debt, a debt has one repayment, and a repayment that was made *)
(* closes its debt, which then moves only to the very figure that was      *)
(* repaid, until the repayment is taken back or the debtor is deleted.     *)
(* CreditPayback implements it with purchases, payback rows and statuses.  *)
(***************************************************************************)
EXTENDS Integers

CONSTANT Debtors    \* what may run up a debt

VARIABLES
    known,          \* the debtors there are
    owed,           \* debtor -> what it spent on the card
    repayment       \* debtor -> whether one is planned, and what it repaid

debts == <<known, owed, repayment>>

Unpaid == -1
NoRepayment == [planned |-> FALSE, paid |-> Unpaid]
Repayment(f) == [planned |-> TRUE, paid |-> f]
Paid(d) == repayment[d].paid # Unpaid

DebtInit ==
    /\ known = {}
    /\ owed = [d \in Debtors |-> 0]
    /\ repayment = [d \in Debtors |-> NoRepayment]

Appear(d) ==
    /\ known' = known \cup {d}
    /\ UNCHANGED <<owed, repayment>>

\* A debtor is deleted with all it owes and what repaid it.
Disappear(d) ==
    /\ known' = known \ {d}
    /\ owed' = [owed EXCEPT ![d] = 0]
    /\ repayment' = [repayment EXCEPT ![d] = NoRepayment]

\* Spending plans, keeps or drops the repayment of an open debt.
Spend(d) ==
    LET n == owed'[d]
    IN /\ d \in known
       /\ n \in Nat
       /\ Paid(d) => n > 0 /\ n = repayment[d].paid
       /\ owed' = [owed EXCEPT ![d] = n]
       /\ repayment' = [repayment EXCEPT
                           ![d] = IF n = 0 THEN NoRepayment ELSE Repayment(@.paid)]
       /\ UNCHANGED known

\* A planned repayment is made, corrected or taken back.
Repay(d) ==
    /\ repayment[d].planned
    /\ repayment'[d].paid \in Nat \cup {Unpaid}
    /\ repayment' = [repayment EXCEPT ![d] = Repayment(repayment'[d].paid)]
    /\ UNCHANGED <<known, owed>>

DebtNext ==
    \E d \in Debtors : Appear(d) \/ Disappear(d) \/ Spend(d) \/ Repay(d)

DebtSpec == DebtInit /\ [][DebtNext]_debts

=============================================================================
