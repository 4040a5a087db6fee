------------------------------- MODULE LoanBooks -------------------------------
(***************************************************************************)
(* A loan account's facts and its posted ledger: the doors that set the    *)
(* loan up, state its balance, change its terms, its rates and its escrow  *)
(* lines, and plan, settle, correct, move, delete and restore the          *)
(* transfers that pay it, each re-posting the loan's linked ledger from    *)
(* one replay of the facts (app/services/loan_posting_service,             *)
(* loan_anchor_service.py, transfer_service, app/routes/loan).             *)
(*                                                                         *)
(* One action is one committed request; app/db_transaction.py serialises   *)
(* them by the owner's write lock (RequestTransactions).  The linked       *)
(* ledger is kept as its net per day: the cash legs the transfers post and *)
(* the corrections the loan posts.                                         *)
(***************************************************************************)
EXTENDS LoanReplay

CONSTANTS Payments,      \* transfers into the loan, 1..n in their loader's order
          PayDays,       \* payment days a loan may have, counted from 0
          Rates,         \* interest rates an owner may enter
          Cash,          \* figures a payment may record, 0 a close of nothing
          PlannedCash,   \* what a planned or estimated payment is priced at
          PaidDays,      \* days money may move on
          DueDays,       \* days a payment may fall due
          Balances,      \* balances an owner may state
          StatedDays,    \* days a balance may be stated for
          Amounts,       \* yearly escrow amounts
          EscrowDays,    \* days an escrow change may take effect
          RateDays,      \* days a rate change may take effect
          FirstVersions, \* escrow lines entered before the history starts
          FirstToday,    \* the day the history starts
          MaxActs        \* bound on the doors opened

ASSUME BooksAssumption ==
  /\ Payments \subseteq Nat \ {0} /\ IsFiniteSet(Payments)
  /\ PayDays \subseteq 0..(MonthLength - 1) /\ PayDays # {}
  /\ Rates \subseteq Nat /\ Cash \subseteq Nat /\ PlannedCash \in Nat
  /\ PaidDays \subseteq Days /\ DueDays \subseteq Days /\ StatedDays \subseteq Days
  /\ EscrowDays \subseteq Days /\ RateDays \subseteq Days
  /\ Balances \subseteq Nat /\ Amounts \subseteq Nat
  /\ FirstVersions \in [Lines -> [Days -> Amounts \cup {None}]]
  /\ FirstToday \in Days /\ MaxActs \in Nat

VARIABLES today,
          configured,    \* whether the loan has its params
          payDay,        \* the contract's payment day
          rates,         \* day |-> the rate effective from it, or None
          versions,      \* line |-> day |-> the amount effective from it, Removed or None
          statements,    \* the standing assertions in the order they were written
          payments,      \* the transfers that pay the loan
          cashLegs,      \* posted on the linked ledger by the transfers, net per day
          corrections,   \* posted on it by the loan, net per day
          acts

loanFacts == <<configured, payDay, rates, versions, statements, payments>>
loanVars == <<today, loanFacts, cashLegs, corrections, acts>>

NoPayment == [status |-> "none", place |-> "loan", due |-> 0, cash |-> 0, day |-> None]

LoanInit ==
  /\ today = FirstToday
  /\ configured = FALSE
  /\ payDay = CHOOSE d \in PayDays : TRUE
  /\ rates = [d \in Days |-> None]
  /\ versions = FirstVersions
  /\ statements = <<>>
  /\ payments = [p \in Payments |-> NoPayment]
  /\ cashLegs = [d \in Days |-> 0]
  /\ corrections = [d \in Days |-> 0]
  /\ acts = 0

----------------------------------------------------------------------------
(* What the facts say.                                                     *)

\* settled_income_shadows: the settled transfers that pay this loan.
Settled == {p \in Payments : payments[p].status = "settled" /\ payments[p].place = "loan"}

\* payment_visible_on: the day its money moved; a close of nothing, the
\* installment it skips.
SeenOn(p) ==
  IF payments[p].cash = 0 THEN InstallmentPaidBy(payDay, payments[p].due) ELSE payments[p].day

Resets ==
  {[who |-> 0, on |-> Origination, balance |-> Principal, source |-> "opening"]}
    \cup {[who |-> i, on |-> statements[i].on, balance |-> statements[i].balance,
           source |-> statements[i].source] : i \in DOMAIN statements}

\* Mutant of Stream: a payment walks on the day its money moved.
StreamMutant ==
  [payments |-> {[who |-> p, on |-> SeenOn(p), cash |-> payments[p].cash,
                  seen |-> SeenOn(p)] : p \in Settled},
   resets |-> Resets, planned |-> {}]

Stream ==
  [payments |-> {[who |-> p, on |-> payments[p].due, cash |-> payments[p].cash,
                  seen |-> SeenOn(p)] : p \in Settled},
   resets |-> Resets, planned |-> {}]

Terms == [payDay |-> payDay, rates |-> rates, versions |-> versions]

Walk == Replay(Stream, Terms, 0)

\* The loan's forward plan on a day: the rows not settled yet and an estimate for
\* each installment no row falls in, all due after the last statement.
Planned(asOf) ==
  LET lastStated == Max({r.on : r \in Resets})
      rows == {p \in Payments : payments[p].status = "planned" /\ payments[p].place = "loan"}
      dues == {payments[p].due : p \in rows \cup Settled}
      covered == {InstallmentPaidBy(payDay, due) : due \in dues}
      estimated == {c \in Installments(payDay, LastDay + MonthLength) :
                      c >= asOf /\ c \notin covered}
      event(who, due) == [who |-> who, on |-> due, cash |-> PlannedCash,
                          seen |-> Max({due, asOf + 1})]
  IN  {event(p, payments[p].due) : p \in {q \in rows : payments[q].due > lastStated}}
        \cup {event(Max(Payments \cup {0}) + 1, c) : c \in {c \in estimated : c > lastStated}}

\* merged_stream: the facts with the plan appended.
Merged(asOf) == [Stream EXCEPT !.planned = Planned(asOf)]

----------------------------------------------------------------------------
(* The posted ledger.                                                      *)

\* One transfer's own entry: the figure its record states, on the record's day.
CashTarget ==
  [d \in Days |-> SumFunction([p \in {p \in Settled : payments[p].cash # 0 /\ payments[p].day = d} |->
                                 payments[p].cash])]

\* The parts of a payment that paid no debt.
Booked(split) == split.interest + split.escrow + split.excess

\* What the loan posts beside the cash: those parts, and each statement's step.
CorrectionTarget(walk) ==
  [d \in Days |->
     SumFunction([r \in {r \in Resets : r.on = d} |-> walk.reset[r.who] - r.balance])
     - SumFunction([p \in {p \in Settled : SeenOn(p) = d} |-> Booked(walk.payment[p].split)])]

\* sync_transfer_postings, sync_loan_postings: bring either half to its target,
\* the loan's off one walk.
SyncTransfer == cashLegs' = CashTarget'
SyncLoan ==
  IF configured' THEN \E walk \in {Walk'} : corrections' = CorrectionTarget(walk)'
  ELSE UNCHANGED corrections

Door == acts < MaxActs /\ acts' = acts + 1

----------------------------------------------------------------------------
(* Setting the loan up and stating its balance.                            *)

MovedDays == {payments[p].day : p \in Settled} \ {None}

\* A tracking start comes before every payment's money moved.
StartAllowed(on) == \A d \in MovedDays : on < d

Statement(on, balance, source) == [on |-> on, balance |-> balance, source |-> source]

\* _governing_loan_anchor: the last of one source's statements up to a day.
Governing(source, on) ==
  LET upTo == {i \in DOMAIN statements : statements[i].source = source /\ statements[i].on <= on}
      last == {i \in upTo : \A j \in upTo : \/ statements[j].on < statements[i].on
                                            \/ statements[j].on = statements[i].on /\ j <= i}
  IN  {statements[i] : i \in last}

\* create_params: the opening, the origination's rate and, for a balance stated
\* after the origination, a tracking start.
Configure(day, rate, balance, on) ==
  /\ Door
  /\ ~configured /\ Origination <= on /\ on <= today
  /\ Origination < on => StartAllowed(on)
  /\ configured' = TRUE
  /\ payDay' = day
  /\ rates' = [rates EXCEPT ![Origination] = rate]
  /\ statements' = IF Origination < on THEN Append(statements, Statement(on, balance, "start"))
                   ELSE statements
  /\ UNCHANGED <<today, versions, payments, cashLegs>>
  /\ SyncLoan

\* _append_loan_anchor_and_sync: unless that statement already governs.
State(on, balance, source) ==
  /\ Door
  /\ configured /\ Origination <= on /\ on <= today
  /\ Statement(on, balance, source) \notin Governing(source, on)
  /\ statements' = Append(statements, Statement(on, balance, source))
  /\ UNCHANGED <<today, configured, payDay, rates, versions, payments, cashLegs>>
  /\ SyncLoan

RecordBalance(on, balance) == State(on, balance, "trueup")
TrackFrom(on, balance) == StartAllowed(on) /\ State(on, balance, "start")

\* add_rate_change: one rate a day; update_params moves the origination's own.
AddRate(on, rate) ==
  /\ Door
  /\ configured /\ Origination <= on /\ rates[on] = None
  /\ rates' = [rates EXCEPT ![on] = rate]
  /\ UNCHANGED <<today, configured, payDay, versions, statements, payments, cashLegs>>
  /\ SyncLoan

UpdateTerms(day, rate) ==
  /\ Door
  /\ configured
  /\ payDay' = day
  /\ rates' = [rates EXCEPT ![Origination] = rate]
  /\ UNCHANGED <<today, configured, versions, statements, payments, cashLegs>>
  /\ SyncLoan

----------------------------------------------------------------------------
(* The transfers that pay it.                                              *)

\* _reject_payment_before_origination: no installment at or before the loan's start.
DueAllowed(due) == configured => Origination < due

\* One transfer becomes row; its entry and the loan it pays, paid or stopped
\* paying are re-posted.
OnPayment(p, row) ==
  /\ Door
  /\ payments' = [payments EXCEPT ![p] = row]
  /\ UNCHANGED <<today, configured, payDay, rates, versions, statements>>
  /\ SyncTransfer
  /\ SyncLoan

Here(p, status) == payments[p].status = status /\ payments[p].place = "loan"

Plan(p, due) ==
  /\ payments[p].status = "none" /\ DueAllowed(due)
  /\ OnPayment(p, [NoPayment EXCEPT !.status = "planned", !.due = due])

Recorded(row, cash, day) ==
  [row EXCEPT !.status = "settled", !.cash = cash, !.day = IF cash = 0 THEN None ELSE day]

\* A transfer entered as already paid.
Record(p, due, cash, day) ==
  /\ payments[p].status = "none" /\ DueAllowed(due) /\ 0 < cash /\ day <= today
  /\ OnPayment(p, Recorded([NoPayment EXCEPT !.due = due], cash, day))

Settle(p, cash, day) ==
  /\ Here(p, "planned") /\ day <= today
  /\ OnPayment(p, Recorded(payments[p], cash, day))

Revert(p) ==
  /\ Here(p, "settled")
  /\ OnPayment(p, [NoPayment EXCEPT !.status = "planned", !.due = payments[p].due])

\* The figure alone: a record that is re-covered after a close of nothing is today's.
ReFigure(p, cash) ==
  /\ Here(p, "settled") /\ cash # payments[p].cash
  /\ OnPayment(p, Recorded(payments[p], cash,
                           IF payments[p].day = None THEN today ELSE payments[p].day))

ReDay(p, day) ==
  /\ Here(p, "settled") /\ payments[p].cash # 0 /\ day <= today /\ day # payments[p].day
  /\ OnPayment(p, [payments[p] EXCEPT !.day = day])

\* A settled transfer's due date is locked.
ReDue(p, due) ==
  /\ Here(p, "planned") /\ due # payments[p].due /\ DueAllowed(due)
  /\ OnPayment(p, [payments[p] EXCEPT !.due = due])

\* Deleted or, while planned, pointed at another account: this loan is re-posted
\* without it.
Leave(p, place) ==
  /\ Here(p, "planned") \/ (Here(p, "settled") /\ place = "deleted")
  /\ OnPayment(p, [payments[p] EXCEPT !.place = place])

Return(p) ==
  /\ payments[p].place # "loan"
  /\ payments[p].place = "elsewhere" => DueAllowed(payments[p].due)
  /\ OnPayment(p, [payments[p] EXCEPT !.place = "loan"])

----------------------------------------------------------------------------
(* Escrow lines.                                                           *)

\* Mutant of AfterPaid: only the payments that moved money count.
AfterPaidMutant(on) ==
  configured => \A p \in Settled : payments[p].cash # 0 => payments[p].day < on

\* _forward_boundary: after the due date of every settled payment.
AfterPaid(on) == configured => \A p \in Settled : payments[p].due < on

EffectiveAllowed(on) == (configured => Origination <= on) /\ AfterPaid(on)

Exists(l) == \E d \in Days : versions[l][d] # None

OnEscrow(new) ==
  /\ Door
  /\ versions' = new
  /\ UNCHANGED <<today, configured, payDay, rates, statements, payments, cashLegs>>
  /\ SyncLoan

With(l, on, entry) == [versions EXCEPT ![l][on] = entry]

AddLine(l, on, amount) ==
  /\ ~Exists(l) /\ EffectiveAllowed(on)
  /\ OnEscrow(With(l, on, amount))

AddVersion(l, on, amount) ==
  /\ Exists(l) /\ EffectiveAllowed(on) /\ versions[l][on] = None
  /\ OnEscrow(With(l, on, amount))

EditVersion(l, from, on, amount) ==
  /\ versions[l][from] \notin {None, Removed} /\ AfterPaid(from)
  /\ EffectiveAllowed(on) /\ (on = from \/ versions[l][on] = None)
  /\ OnEscrow([versions EXCEPT ![l] = [@ EXCEPT ![from] = None, ![on] = amount]])

DeleteAllowed(on) == AfterPaid(on) /\ today < on

DeleteVersion(l, on) ==
  /\ versions[l][on] # None /\ DeleteAllowed(on)
  /\ OnEscrow(With(l, on, None))

\* _tombstone_line_today: unless the line is already inactive today.
RemoveLine(l) ==
  /\ Exists(l) /\ EffectiveAllowed(today)
  /\ OnEscrow(IF l \in ActiveLines(versions, {l}, today) THEN With(l, today, Removed) ELSE versions)

MergedVersions(source, target) ==
  [d \in Days |-> IF versions[target][d] # None THEN versions[target][d] ELSE versions[source][d]]

\* plan_escrow_line_merge: the two lines' escrow is the merged line's on every date.
MergeAllowed(source, target) ==
  /\ source # target
  /\ \A d \in Days :
       versions[source][d] # None \/ versions[target][d] # None =>
         MonthlyEscrow(versions, {source, target}, d)
           = MonthlyEscrow([versions EXCEPT ![target] = MergedVersions(source, target)], {target}, d)

MergeLines(source, target) ==
  /\ Exists(source) /\ Exists(target) /\ MergeAllowed(source, target)
  /\ OnEscrow([versions EXCEPT ![target] = MergedVersions(source, target),
                               ![source] = [d \in Days |-> None]])

----------------------------------------------------------------------------
NextDay ==
  /\ today < LastDay
  /\ today' = today + 1
  /\ UNCHANGED <<loanFacts, cashLegs, corrections, acts>>

StatementDoors ==
  \E on \in StatedDays, balance \in Balances :
    \/ \E day \in PayDays, rate \in Rates : Configure(day, rate, balance, on)
    \/ RecordBalance(on, balance)
    \/ TrackFrom(on, balance)

TermDoors ==
  \/ \E on \in RateDays, rate \in Rates : AddRate(on, rate)
  \/ \E day \in PayDays, rate \in Rates : UpdateTerms(day, rate)

PaymentDoors ==
  \E p \in Payments :
    \/ \E due \in DueDays : Plan(p, due) \/ ReDue(p, due)
    \/ \E cash \in Cash, day \in PaidDays :
         \/ Settle(p, cash, day)
         \/ \E due \in DueDays : Record(p, due, cash, day)
    \/ \E cash \in Cash : ReFigure(p, cash)
    \/ \E day \in PaidDays : ReDay(p, day)
    \/ Revert(p)
    \/ \E place \in {"deleted", "elsewhere"} : Leave(p, place)
    \/ Return(p)

EscrowDoors ==
  \E l \in Lines :
    \/ \E on \in EscrowDays, amount \in Amounts :
         \/ AddLine(l, on, amount) \/ AddVersion(l, on, amount)
         \/ \E from \in EscrowDays : EditVersion(l, from, on, amount)
    \/ \E on \in EscrowDays : DeleteVersion(l, on)
    \/ RemoveLine(l)
    \/ \E target \in Lines : MergeLines(l, target)

LoanNext == StatementDoors \/ TermDoors \/ PaymentDoors \/ EscrowDoors \/ NextDay

LoanSpec == LoanInit /\ [][LoanNext]_loanVars

----------------------------------------------------------------------------
(* Properties.                                                             *)

\* The facts keep their types.
FactsTyped ==
  /\ today \in Days /\ configured \in BOOLEAN /\ payDay \in PayDays
  /\ rates \in [Days -> Rates \cup {None}]
  /\ versions \in [Lines -> [Days -> Amounts \cup {None, Removed}]]
  /\ statements \in Seq([on : StatedDays, balance : Balances, source : {"trueup", "start"}])
  /\ payments \in [Payments -> [status : {"none", "planned", "settled"},
                                place : {"loan", "deleted", "elsewhere"},
                                due : DueDays \cup {0}, cash : Cash \cup {0},
                                day : Days \cup {None}]]
  /\ acts \in 0..MaxActs

\* The facts and the ledger keep their types.
LoanTypeOK ==
  FactsTyped /\ cashLegs \in [Days -> Int] /\ corrections \in [Days -> Int]

\* _assert_checked_projection: on every day the linked ledger's net is what the
\* replay of today's facts adds to the debt that day, negated.  No door that moves
\* a payment, a statement, a term or an escrow line skips the half it owes.
LedgerIsTheWalk ==
  configured =>
    \A walk \in {Walk}, d \in Days : cashLegs[d] + corrections[d] = -DeltaOn(Stream, walk, d)

\* merged_stream, projection_boundary: whatever is planned, and whatever extra a
\* what-if adds to each month, every recorded payment and statement walks as it
\* does in the posted ledger.
PlanLeavesTheRecordAlone ==
  configured =>
    \A alone \in {Walk}, extra \in {0, 1} :
      \A merged \in {Replay(Merged(today), Terms, extra)} :
          merged.payment = alone.payment /\ merged.reset = alone.reset

\* load_loan_anchor_facts, dated_deltas: a balance the owner stated reads back on
\* its own day, when no payment falls due on one side of it and moves on the other.
StatementsReadBack ==
  configured =>
    \A walk \in {Walk} :
        \A r \in Resets :
          (/\ \A p \in Settled : payments[p].due <= r.on <=> SeenOn(p) <= r.on
           /\ \A other \in Resets : other.on = r.on => other.who <= r.who)
          => SumFunction([d \in 0..r.on |-> DeltaOn(Stream, walk, d)]) = r.balance

\* The linked ledger reads what the facts replay to, stated balances included.
LedgerReadsTheFacts == LoanTypeOK /\ LedgerIsTheWalk /\ StatementsReadBack

EscrowPaid(walk, due) ==
  SumFunction([p \in {p \in Settled : payments[p].due <= due} |-> walk.payment[p].split.escrow])
EscrowCharged(due) ==
  SumFunction([c \in Installments(payDay, due) |-> MonthlyEscrow(versions, Lines, c)])

\* _replay.py: no month's escrow is cleared twice, through arrears, second payments
\* in a month, statements and tracking starts; and while nothing but the opening
\* was stated and the debt stands, every month due is cleared by the next payment.
NoMonthClearedTwice ==
  configured /\ Settled # {} =>
    \A walk \in {Walk} :
        \A p \in Settled :
          /\ EscrowPaid(walk, payments[p].due) <= EscrowCharged(payments[p].due)
          /\ (statements = <<>> /\ Origination < payments[p].due
                /\ \A q \in Settled : payments[q].due <= payments[p].due /\ Origination < payments[q].due
                                        => walk.payment[q].split.after > 0)
             => EscrowPaid(walk, payments[p].due) = EscrowCharged(payments[p].due)

\* _forward_boundary: an escrow line added, changed, removed or merged moves no
\* settled payment's split.
EscrowDoorsMoveNoSplit ==
  [][configured /\ versions' # versions => Walk'.payment = Walk.payment]_loanVars

\* loan_event_stream keeps contract time: what happens to one payment, and the day
\* any payment's money moved, never re-splits another that falls due before it.
LaterPaymentsMoveNoSplit ==
  [][configured /\ payments' # payments =>
       LET changed == {q \in Payments : payments'[q] # payments[q]}
           unmoved == {p \in Settled \cap Settled' :
                         \A q \in changed :
                           \/ payments'[q] = [payments[q] EXCEPT !.day = payments'[q].day]
                           \/ payments[p].due < payments'[q].due}
       IN  unmoved # {} =>
             \A before \in {Walk}, after \in {Walk'}, p \in unmoved :
               after.payment[p] = before.payment[p]]_loanVars

\* _tombstone_line_today: "the line resolves to 0 from today forward".
RemovedLinesStayRemoved ==
  [][\A l \in Lines : RemoveLine(l) /\ versions' # versions =>
       \A d \in today..LastDay : l \notin ActiveLines(versions', {l}, d)]_loanVars
=============================================================================
