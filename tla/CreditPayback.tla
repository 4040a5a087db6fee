--------------------------- MODULE CreditPayback ---------------------------
(***************************************************************************)
(* What is owed on a credit card and the rows that repay it.               *)
(*                                                                         *)
(* Spending reaches a card in two ways.  A bill marked Credit leaves the   *)
(* cash balance and a CC payback row repays it (credit_workflow).  An      *)
(* envelope holds purchases, and one payback row repays the sum of those   *)
(* ticked as card purchases (entry_credit_workflow): every purchase door   *)
(* ends in a sync that creates, re-prices or deletes that row, or refuses  *)
(* the whole request.  A payback is an ordinary row once it exists: it is  *)
(* paid, reverted, corrected, cancelled and may itself be marked Credit.   *)
(*                                                                         *)
(* A refused request is rolled back and is no step.  That the owner may    *)
(* have no next pay period to put a payback in is one of those refusals.   *)
(* Whether a row tracks purchases is its definition's box; edits of the    *)
(* box are left out.                                                       *)
(***************************************************************************)
EXTENDS Integers, FiniteSets, Functions

CONSTANTS
    Envelopes,      \* expense rows whose definition tracks purchases
    Bills,          \* expense rows whose definition does not
    Paybacks,       \* bound: rows the payback doors may insert
    Purchases,      \* bound: purchases that may exist at once
    Figures,        \* plans and typed amounts of a row
    Amounts,        \* purchase amounts, a refund being negative
    NoRow           \* the absent row

ASSUME RowsAssumption == /\ Envelopes \cap Bills = {}
                         /\ Paybacks \cap (Envelopes \cup Bills) = {}
                         /\ NoRow \notin Envelopes \cup Bills \cup Paybacks
ASSUME FiguresAssumption == Figures \subseteq Nat /\ Amounts \subseteq Int \ {0}
ASSUME PurchasesAssumption == IsFiniteSet(Purchases)

Sources == Envelopes \cup Bills
Rows == Sources \cup Paybacks
Statuses == {"gone", "projected", "done", "credit", "cancelled"}
NoFigure == -1

VARIABLES
    status,         \* row -> status; "gone" when deleted or not inserted yet
    plan,           \* row -> estimated_amount
    record,         \* row -> figure of its covering movement, kept by a revert
    stated,         \* row -> somebody typed that figure
    repays,         \* payback -> credit_payback_for_id
    bought          \* purchase -> the row it is under, its amount and card box

money == <<status, plan, record, stated, repays>>
vars == <<money, bought>>

Absent == [row |-> NoRow, amount |-> 0, card |-> FALSE, link |-> NoRow]
Purchase(r, a, c) == [row |-> r, amount |-> a, card |-> c, link |-> NoRow]

PurchaseRows == [row : Sources, amount : Amounts, card : BOOLEAN,
                 link : Paybacks \cup {NoRow}] \cup {Absent}

PurchasesOf(b, r) == {e \in Purchases : b[e].row = r}
CardPurchases(b, r) == {e \in PurchasesOf(b, r) : b[e].card}

\* card_total
CardTotal(b, r) == SumFunction([e \in CardPurchases(b, r) |-> b[e].amount])

\* get_active_payback; the unique index on credit_payback_for_id allows one.
LivePaybacks(r) == {p \in Paybacks : repays[p] = r}
Free == {p \in Paybacks : repays[p] = NoRow}

Settled(x) == status[x] = "done"

\* settled_figure of a row without purchases; a $0.00 close has no movement.
SettledFigure(x) == IF record[x] = NoFigure THEN 0 ELSE record[x]

(***************************************************************************)
(* The payback rows.                                                       *)
(***************************************************************************)

\* live_payback_chain: the row's payback, that one's, and so on.
Chain(r) ==
    {p \in Paybacks :
        \A C \in SUBSET Paybacks :
            (\A q \in Paybacks : repays[q] \in C \cup {r} => q \in C) => p \in C}

\* create_cc_payback_transaction: a Projected row owning the figure it repays.
Open(p, r, figure, st) ==
    /\ repays[p] = NoRow
    /\ repays' = [repays EXCEPT ![p] = r]
    /\ status' = [st EXCEPT ![p] = "projected"]
    /\ plan' = [plan EXCEPT ![p] = figure]
    /\ UNCHANGED <<record, stated>>

\* A deleted row takes its movements.  The foreign key is ON DELETE RESTRICT:
\* a row whose payback stays is not deleted, and the request is refused.
Erase(xs, st) ==
    /\ \A p \in Paybacks : repays[p] \in xs => p \in xs
    /\ repays' = [p \in Paybacks |-> IF p \in xs THEN NoRow ELSE repays[p]]
    /\ status' = [x \in Rows |-> IF x \in xs THEN "gone" ELSE st[x]]
    /\ plan' = [x \in Rows |-> IF x \in xs THEN 0 ELSE plan[x]]
    /\ record' = [x \in Rows |-> IF x \in xs THEN NoFigure ELSE record[x]]
    /\ stated' = [x \in Rows |-> IF x \in xs THEN FALSE ELSE stated[x]]

\* Mutant of Linked: a purchase taken off the card keeps its payback.
LinkedForGood(b, r, p) ==
    [e \in Purchases |-> IF b[e].row = r /\ b[e].card THEN [b[e] EXCEPT !.link = p]
                         ELSE b[e]]

\* The links of r's purchases after a sync that found or made payback p.
Linked(b, r, p) ==
    [e \in Purchases |->
        IF b[e].row # r THEN b[e]
        ELSE IF b[e].card THEN [b[e] EXCEPT !.link = p]
        ELSE IF b[e].link = p THEN [b[e] EXCEPT !.link = NoRow]
        ELSE b[e]]

\* credit_payback_id of a purchase is set null when its payback is deleted.
Unlinked(b, ps) ==
    [e \in Purchases |-> IF b[e].link \in ps THEN [b[e] EXCEPT !.link = NoRow]
                         ELSE b[e]]

(***************************************************************************)
(* The sync every purchase door ends in, b being the purchases it left.    *)
(***************************************************************************)

\* sync_entry_payback: no payback yet.
SyncCreates(r, b) ==
    /\ CardTotal(b, r) > 0
    /\ LivePaybacks(r) = {}
    /\ \E p \in Free : /\ Open(p, r, CardTotal(b, r), status)
                       /\ bought' = Linked(b, r, p)

\* Mutant of SyncReprices: the plan of a paid payback is moved all the same.
SyncRepricesPaid(r, b, moves) ==
    /\ CardTotal(b, r) > 0
    /\ \E p \in LivePaybacks(r) : /\ plan' = [plan EXCEPT ![p] = CardTotal(b, r)]
                                  /\ bought' = Linked(b, r, p)
    /\ UNCHANGED <<status, record, stated, repays>>

\* A settled payback is re-priced only to the figure it recorded.
SyncReprices(r, b, moves) ==
    /\ CardTotal(b, r) > 0
    /\ \E p \in LivePaybacks(r) :
           /\ moves /\ Settled(p) => SettledFigure(p) = CardTotal(b, r)
           /\ plan' = [plan EXCEPT ![p] = CardTotal(b, r)]
           /\ bought' = Linked(b, r, p)
    /\ UNCHANGED <<status, record, stated, repays>>

\* Mutant of SyncDeletes: a paid payback goes with its last purchase.
SyncDeletesPaid(r, b) ==
    /\ CardTotal(b, r) = 0
    /\ \E p \in LivePaybacks(r) : /\ Erase({p}, status)
                                  /\ bought' = Unlinked(b, {p})

\* A settled payback is not torn down.
SyncDeletes(r, b) ==
    /\ CardTotal(b, r) = 0
    /\ \E p \in LivePaybacks(r) : /\ ~Settled(p)
                                  /\ Erase({p}, status)
                                  /\ bought' = Unlinked(b, {p})

SyncHasNothingToDo(r, b) ==
    /\ CardTotal(b, r) = 0
    /\ LivePaybacks(r) = {}
    /\ bought' = b
    /\ UNCHANGED money

\* A card that would owe the owner satisfies none of the four.
Sync(r, b, moves) ==
    \/ SyncCreates(r, b)
    \/ SyncReprices(r, b, moves)
    \/ SyncDeletes(r, b)
    \/ SyncHasNothingToDo(r, b)

(***************************************************************************)
(* Purchase doors (entry_service).                                         *)
(***************************************************************************)

\* A settled row whose figure is a movement of its own has closed purchases.
ClosedAtAFigure(r) == Settled(r) /\ record[r] # NoFigure

\* create_entry
AddPurchase(e, r, a, c) ==
    /\ bought[e] = Absent
    /\ r \in Envelopes
    /\ status[r] \in {"projected", "done"}
    /\ ~ClosedAtAFigure(r)
    /\ Sync(r, [bought EXCEPT ![e] = Purchase(r, a, c)], c)

\* update_entry: of a settled row's purchases only a cash one is re-priced,
\* by the statement; credit_total_moves.
EditPurchase(e, a, c) ==
    LET old == bought[e]
        before == IF old.card THEN old.amount ELSE 0
        after == IF c THEN a ELSE 0
    IN /\ old # Absent
       /\ Settled(old.row) => c = old.card /\ (c => a = old.amount)
       /\ Sync(old.row, [bought EXCEPT ![e].amount = a, ![e].card = c],
               before # after)

\* delete_entry
RemovePurchase(e) ==
    /\ bought[e] # Absent
    /\ ~ClosedAtAFigure(bought[e].row)
    /\ Sync(bought[e].row, [bought EXCEPT ![e] = Absent], bought[e].card)

(***************************************************************************)
(* Row doors (routes.transactions, transaction_service, credit_workflow).  *)
(***************************************************************************)

\* A new Projected row of a definition.
AddRow(r, f) ==
    /\ status[r] = "gone"
    /\ status' = [status EXCEPT ![r] = "projected"]
    /\ plan' = [plan EXCEPT ![r] = f]
    /\ UNCHANGED <<record, stated, repays, bought>>

\* The Estimated box; a payback's is refused, and so is a finalised row's.
EditPlan(r, f) ==
    /\ status[r] = "projected"
    /\ plan' = [plan EXCEPT ![r] = f]
    /\ UNCHANGED <<status, record, stated, repays, bought>>

\* mark_as_credit
MarkCredit(x) ==
    /\ status[x] = "projected"
    /\ x \notin Envelopes
    /\ LivePaybacks(x) = {}
    /\ \E p \in Free : Open(p, x, plan[x], [status EXCEPT ![x] = "credit"])
    /\ UNCHANGED bought

\* The status box of the full edit form moves a row to Credit by itself.
SetCredit(x) ==
    /\ status[x] = "projected"
    /\ x \notin Envelopes
    /\ status' = [status EXCEPT ![x] = "credit"]
    /\ UNCHANGED <<plan, record, stated, repays, bought>>

\* unmark_credit, and the status box leaving Credit.
UndoCredit(x) ==
    /\ status[x] = "credit"
    /\ Erase(LivePaybacks(x), [status EXCEPT ![x] = "projected"])
    /\ bought' = Unlinked(bought, LivePaybacks(x))

\* cancel_transaction
Cancel(x) ==
    /\ status[x] = "projected"
    /\ status' = [status EXCEPT ![x] = "cancelled"]
    /\ UNCHANGED <<plan, record, stated, repays, bought>>

\* A settled or cancelled row back to Projected keeps its movement, undated.
Revert(x) ==
    /\ status[x] \in {"done", "cancelled"}
    /\ status' = [status EXCEPT ![x] = "projected"]
    /\ UNCHANGED <<plan, record, stated, repays, bought>>

\* sync_covering_movement: a figure of zero withdraws the movement.
Cover(x, f, byHand) ==
    /\ record' = [record EXCEPT ![x] = IF f = 0 THEN NoFigure ELSE f]
    /\ stated' = [stated EXCEPT ![x] = byHand /\ f # 0]

\* Mutant of Booked: whatever a revert kept is booked again.
BookedAgain(x) == IF record[x] # NoFigure THEN record[x] ELSE plan[x]

\* honoured_correction: a figure somebody stated survives a revert.
Booked(x) == IF stated[x] THEN record[x] ELSE plan[x]

\* settle_transaction of a row without purchases, f being what was typed.
Settle(x, f) ==
    /\ status[x] = "projected"
    /\ PurchasesOf(bought, x) = {}
    /\ status' = [status EXCEPT ![x] = "done"]
    /\ Cover(x, f, stated[x] \/ f # Booked(x))
    /\ UNCHANGED <<plan, repays, bought>>

\* settle_from_entries: the purchases are the figure.
SettleFromEntries(x) ==
    /\ status[x] = "projected"
    /\ PurchasesOf(bought, x) # {}
    /\ x \in Envelopes
    /\ status' = [status EXCEPT ![x] = "done"]
    /\ Cover(x, 0, FALSE)
    /\ UNCHANGED <<plan, repays, bought>>

\* The Actual box of a settled row (_correction_for_status).
Correct(x, f) ==
    /\ Settled(x)
    /\ PurchasesOf(bought, x) = {}
    /\ f # SettledFigure(x)
    /\ Cover(x, f, TRUE)
    /\ UNCHANGED <<status, plan, repays, bought>>

\* delete_transaction: a row takes its purchases and its chain of paybacks.
DeleteRow(r) ==
    /\ status[r] # "gone"
    /\ Erase(Chain(r) \cup {r}, status)
    /\ bought' = [e \in Purchases |-> IF bought[e].row = r THEN Absent ELSE bought[e]]

Init ==
    /\ status = [x \in Rows |-> "gone"]
    /\ plan = [x \in Rows |-> 0]
    /\ record = [x \in Rows |-> NoFigure]
    /\ stated = [x \in Rows |-> FALSE]
    /\ repays = [p \in Paybacks |-> NoRow]
    /\ bought = [e \in Purchases |-> Absent]

PurchaseDoors ==
    \E e \in Purchases :
        \/ \E a \in Amounts, c \in BOOLEAN :
               \/ \E r \in Sources : AddPurchase(e, r, a, c)
               \/ EditPurchase(e, a, c)
        \/ RemovePurchase(e)

CreditDoors == \E x \in Rows : MarkCredit(x) \/ SetCredit(x) \/ UndoCredit(x)

StatusDoors ==
    \E x \in Rows :
        \/ Cancel(x) \/ Revert(x) \/ SettleFromEntries(x)
        \/ \E f \in Figures \cup {Booked(x)} : Settle(x, f)
        \/ \E f \in Figures : Correct(x, f)

RowDoors ==
    \E r \in Sources : \/ DeleteRow(r)
                       \/ \E f \in Figures : AddRow(r, f) \/ EditPlan(r, f)

Next == PurchaseDoors \/ CreditDoors \/ StatusDoors \/ RowDoors

Spec == Init /\ [][Next]_vars

(***************************************************************************)
(* Properties.                                                             *)
(***************************************************************************)

\* The columns hold what their types allow; a purchase is under a row or absent.
TypeOK ==
    /\ status \in [Rows -> Statuses]
    /\ plan \in [Rows -> Nat]
    /\ record \in [Rows -> Nat \cup {NoFigure}]
    /\ stated \in [Rows -> BOOLEAN]
    /\ repays \in [Paybacks -> Rows \cup {NoRow}]
    /\ bought \in [Purchases -> PurchaseRows]

\* entry_credit_workflow, "a single CC Payback expense whose amount equals the
\* sum of all credit entries": whatever purchases, settles, reverts and
\* deletions came before, a row that is not itself Credit has no payback or
\* exactly one, planned at its card total, and its card owes nobody.
CardSpendIsRepaid ==
    \A r \in Rows :
        status[r] # "credit" =>
            /\ CardTotal(bought, r) >= 0
            /\ \A p \in LivePaybacks(r) : plan[p] = CardTotal(bought, r)
            /\ CardTotal(bought, r) > 0 <=> LivePaybacks(r) # {}
            /\ \A p, q \in LivePaybacks(r) : p = q

\* sync_entry_payback's links: a purchase names the payback that repays it
\* exactly while it is a card purchase and its row's payback lives, so that a
\* flipped box or a deleted payback leaves no purchase claiming to be repaid.
LinksFollowThePayback ==
    \A e \in Purchases, p \in Paybacks :
        bought[e].link = p <=> /\ bought[e].card
                               /\ repays[p] = bought[e].row

\* Card spending and its paybacks are two halves of one record, whatever door
\* each half was changed by.
PaybacksMatchSpending == TypeOK /\ CardSpendIsRepaid /\ LinksFollowThePayback

\* settle_transaction and the refusal of a settled payback: what a paid payback
\* took from the account is what it repays, unless somebody typed another
\* figure, through every later purchase, revert and re-settle.
PaidFigureIsThePlan ==
    \A p \in Paybacks :
        Settled(p) /\ record[p] # NoFigure /\ ~stated[p] => record[p] = plan[p]

\* The refusals of sync_entry_payback: once the payback of a row is paid, the
\* row's card total moves only to the very figure that was paid, and no
\* purchase door touches what the payback recorded.
PaidSpendIsClosed ==
    [][\A r \in Sources, p \in Paybacks :
          /\ repays[p] = r /\ Settled(p)
          /\ status'[r] # "gone"
          /\ CardTotal(bought', r) # CardTotal(bought, r)
          => /\ CardTotal(bought', r) = SettledFigure(p)
             /\ Settled(p)' /\ record'[p] = record[p] /\ repays'[p] = r]_vars

\* The debt of an envelope: its card total, and its payback's figure once paid.
PaidFigures(r) == {SettledFigure(p) : p \in {q \in LivePaybacks(r) : Settled(q)}}

CardRepayment(r) ==
    [planned |-> LivePaybacks(r) # {},
     paid |-> IF PaidFigures(r) = {} THEN NoFigure
              ELSE CHOOSE f \in PaidFigures(r) : TRUE]

Debt == INSTANCE CardDebt
            WITH Debtors <- Envelopes,
                 known <- {r \in Envelopes : status[r] # "gone"},
                 owed <- [r \in Envelopes |-> CardTotal(bought, r)],
                 repayment <- [r \in Envelopes |-> CardRepayment(r)]

\* entry_credit_workflow as its owner sees it: the purchase, payment, credit
\* and delete doors together implement the debt of CardDebt.
RepaysCardDebt == Debt!DebtSpec

=============================================================================
