------------------------------ MODULE LoanReplay ------------------------------
(***************************************************************************)
(* How a loan's facts become its balances: the calendar of installments,   *)
(* the escrow and the rate each installment is charged at, and the replay  *)
(* that orders charges, payments, statements of the balance and planned    *)
(* payments into one sequence and splits every payment's cash              *)
(* (app/services/loan_ledger, installment_calendar.py,                     *)
(* escrow_calculator.py, utils/money.py).                                  *)
(*                                                                         *)
(* Pure: no variables.  LoanBooks keeps the facts and the posted ledger.   *)
(* A month has MonthLength days and every month is the same, so the        *)
(* clamping of a payment day to a short month is left out.  Money is a     *)
(* whole number of cents and every rounding is half up, as round_money's.  *)
(***************************************************************************)
EXTENDS Integers, FiniteSets, SequencesExt

CONSTANTS LastDay,        \* the last day anything is dated on
          MonthLength,    \* days in a month
          Origination,    \* the day the loan begins
          Principal,      \* the amount it begins with
          Lines,          \* escrow lines
          MonthsPerYear,  \* an escrow amount is a year's
          RateUnit,       \* a rate is this many parts of the balance a month
          None,           \* nothing recorded
          Removed         \* an escrow line's removal

ASSUME LoanAssumption ==
  /\ LastDay \in Nat /\ Origination \in 0..LastDay
  /\ MonthLength \in Nat \ {0} /\ MonthsPerYear \in Nat \ {0} /\ RateUnit \in Nat \ {0}
  /\ Principal \in Nat /\ IsFiniteSet(Lines)
  /\ None \notin Int /\ Removed \notin Int /\ None # Removed

Days == 0..LastDay

\* n / d to the nearest cent, halves away from zero; n is never negative here.
Rounded(n, d) == (2 * n + d) \div (2 * d)

----------------------------------------------------------------------------
(* The contract: installments, rate and escrow.                            *)

MonthOf(day) == day \div MonthLength

\* The grid starts in the month after the origination.
Installments(payDay, through) ==
  {m * MonthLength + payDay : m \in (MonthOf(Origination) + 1)..MonthOf(through)}
    \cap 0..through

\* The installment a payment due on that day pays; before the first, its own day.
InstallmentPaidBy(payDay, due) ==
  LET upTo == Installments(payDay, due) IN IF upTo = {} THEN due ELSE Max(upTo)

\* The row of an effective-dated history in force on a day.
InEffectOn(dated, day) ==
  LET upTo == {d \in DOMAIN dated : d <= day /\ dated[d] # None}
  IN  IF upTo = {} THEN None ELSE dated[Max(upTo)]

ActiveLines(versions, lines, day) ==
  {l \in lines : InEffectOn(versions[l], day) \notin {None, Removed}}

\* A month of the lines' yearly amounts, rounded once on their sum.
MonthlyEscrow(versions, lines, day) ==
  Rounded(SumFunction([l \in ActiveLines(versions, lines, day) |-> InEffectOn(versions[l], day)]),
          MonthsPerYear)

AccruedInterest(balance, rate) ==
  IF rate <= 0 THEN 0 ELSE Rounded(balance * rate, RateUnit)

----------------------------------------------------------------------------
(* One loan's stream of events.  Payments and planned payments are sets of *)
(* [who, on, cash, seen], resets a set of [who, on, balance, source]; who  *)
(* numbers each kind in the order its loader returns it.                   *)

RecordedDays(stream) == {e.on : e \in stream.payments \cup stream.resets}

\* The first day a planned payment may be walked on.
Boundary(stream) == Max(RecordedDays(stream)) + 1

Charges(stream, payDay) ==
  Installments(payDay, Max(RecordedDays(stream) \cup {e.on : e \in stream.planned}))

\* Mutant of PushedTo: a planned payment walks on its own day.
PushedToMutant(stream, day) == day

PushedTo(stream, day) == Max({day, Boundary(stream)})

KindOrder(kind) ==
  CASE kind = "charge" -> 0 [] kind \in {"payment", "planned"} -> 1 [] OTHER -> 2

\* Mutant of Before: a statement stands before the payments due on its day.
BeforeMutant(a, b) ==
  \/ a.at < b.at
  \/ a.at = b.at /\ a.on < b.on
  \/ a.at = b.at /\ a.on = b.on /\ KindOrder(b.kind) < KindOrder(a.kind)
  \/ a.at = b.at /\ a.on = b.on /\ KindOrder(a.kind) = KindOrder(b.kind) /\ a.who < b.who

Before(a, b) ==
  \/ a.at < b.at
  \/ a.at = b.at /\ a.on < b.on
  \/ a.at = b.at /\ a.on = b.on /\ KindOrder(a.kind) < KindOrder(b.kind)
  \/ a.at = b.at /\ a.on = b.on /\ KindOrder(a.kind) = KindOrder(b.kind) /\ a.who < b.who

Event(kind, at, on, who, figure) ==
  [kind |-> kind, at |-> at, on |-> on, who |-> who, figure |-> figure]

Events(stream, payDay) ==
  {Event("charge", c, c, 0, 0) : c \in Charges(stream, payDay)}
    \cup {Event("payment", e.on, e.on, e.who, e.cash) : e \in stream.payments}
    \cup {Event("reset", e.on, e.on, e.who, e.balance) : e \in stream.resets}
    \cup {Event("planned", PushedTo(stream, e.on), e.on, e.who, e.cash) : e \in stream.planned}

\* _ordered: charges, payments, resets and, behind every recorded fact, the plan.
Ordered(stream, payDay) ==
  LET inOrder[left \in SUBSET Events(stream, payDay)] ==
        IF left = {} THEN <<>>
        ELSE LET first == CHOOSE e \in left : \A f \in left \ {e} : Before(e, f)
             IN  <<first>> \o inOrder[left \ {first}]
  IN  inOrder[Events(stream, payDay)]

Statements(stream) == {r \in stream.resets : r.source # "opening"}

\* The day of the loan's first statement, when that is a tracking start.
FirstTrackingStart(stream) ==
  LET first == {r \in Statements(stream) : \A other \in Statements(stream) : r.on <= other.on}
  IN  IF \E r \in first : r.source = "start" THEN (CHOOSE r \in first : TRUE).on ELSE None

\* The same day, unless a recorded balance shares it.
RechargeOn(stream) ==
  IF \E r \in Statements(stream) : r.source = "trueup" /\ r.on = FirstTrackingStart(stream)
  THEN None ELSE FirstTrackingStart(stream)

Pays(event) == event.kind \in {"payment", "planned"}

UnpaidChargeBefore(order, i) ==
  \E c \in 1..(i - 1) : /\ order[c].kind = "charge"
                        /\ \A j \in (c + 1)..(i - 1) : ~Pays(order[j])

CashBeforeNextCharge(order, i) ==
  \E p \in (i + 1)..Len(order) : /\ Pays(order[p])
                                 /\ \A j \in (i + 1)..(p - 1) : order[j].kind = "reset"

\* The starts among resets that charge the installment they land in again.
Recharges(stream, order, i) ==
  /\ order[i].kind = "reset"
  /\ order[i].on = RechargeOn(stream)
  /\ \E r \in stream.resets : r.who = order[i].who /\ r.source = "start"
  /\ UnpaidChargeBefore(order, i)
  /\ CashBeforeNextCharge(order, i)

----------------------------------------------------------------------------
(* The replay.                                                             *)

Due(interest, escrow, extra) == [interest |-> interest, escrow |-> escrow, extra |-> extra]
NothingDue == Due(0, 0, 0)
Plus(a, b) == Due(a.interest + b.interest, a.escrow + b.escrow, a.extra + b.extra)

\* What one installment charges on a balance; a closed loan charges nothing.
Accrued(terms, boundary, extra, charge, balance) ==
  IF balance <= 0 THEN NothingDue
  ELSE Due(AccruedInterest(balance, InEffectOn(terms.rates, charge)),
           MonthlyEscrow(terms.versions, Lines, charge),
           IF charge >= boundary THEN extra ELSE 0)

\* apply_payment_cash: charges first, then the debt, and what is left over back.
Split(cash, balance, due) ==
  IF balance <= 0
  THEN [interest |-> 0, escrow |-> 0, principal |-> 0, excess |-> cash, after |-> balance]
  ELSE LET down == cash - due.interest - due.escrow
           principal == Min({down, balance})
       IN  [interest |-> due.interest, escrow |-> due.escrow, principal |-> principal,
            excess |-> down - principal, after |-> balance - principal]

\* A dict entry: what is recorded of who.
Noted(entries, who, entry) ==
  [w \in DOMAIN entries \cup {who} |-> IF w = who THEN entry ELSE entries[w]]

\* Mutant of AfterPayment: the charges a payment cleared stay due.
AfterPaymentMutant(state, event) ==
  LET split == Split(event.figure + state.due.extra, state.balance, state.due)
  IN  [state EXCEPT !.balance = split.after,
                    !.payment = IF event.kind = "planned" THEN @
                                ELSE Noted(@, event.who, [split |-> split, charge |-> state.standing])]

\* What a planned payment splits into is left out; its balance is not.
AfterPayment(state, event) ==
  LET split == Split(event.figure + state.due.extra, state.balance, state.due)
  IN  [state EXCEPT !.balance = split.after,
                    !.due = NothingDue,
                    !.payment = IF event.kind = "planned" THEN @
                                ELSE Noted(@, event.who, [split |-> split, charge |-> state.standing])]

\* A month on or before the first tracking start drops what stood before it.
AfterCharge(state, terms, boundary, extra, start, event) ==
  LET kept == IF start # None /\ event.on <= start THEN NothingDue ELSE state.due
  IN  [state EXCEPT !.standing = event.on,
                    !.due = Plus(kept, Accrued(terms, boundary, extra, event.on, state.balance))]

AfterReset(state, terms, boundary, extra, recharges, event) ==
  [state EXCEPT !.reset = Noted(@, event.who, state.balance),
                !.balance = event.figure,
                !.due = IF recharges
                        THEN Accrued(terms, boundary, extra, state.standing, event.figure)
                        ELSE NothingDue]

AfterEvent(state, stream, terms, extra, order, i) ==
  CASE order[i].kind = "charge" ->
         AfterCharge(state, terms, Boundary(stream), extra, FirstTrackingStart(stream), order[i])
    [] Pays(order[i]) -> AfterPayment(state, order[i])
    [] OTHER ->
         AfterReset(state, terms, Boundary(stream), extra, Recharges(stream, order, i), order[i])

\* replay_loan_events over a whole stream; the splits of payments and what
\* was owed before each reset, by number.  (The singleton sets
\* only bind the stream, its order and the state before each event to their values.)
Replayed(stream, terms, extra, order) ==
  LET after[i \in 0..Len(order)] ==
        IF i = 0
        THEN [balance |-> 0, due |-> NothingDue, standing |-> None,
              payment |-> <<>>, reset |-> <<>>]
        ELSE CHOOSE next \in {AfterEvent(state, stream, terms, extra, order, i) :
                                state \in {after[i - 1]}} : TRUE
  IN  after[Len(order)]

Replay(stream, terms, extra) ==
  LET walks == UNION {{Replayed(s, t, extra, order) : order \in {Ordered(s, t.payDay)}} :
                        s \in {stream}, t \in {terms}}
  IN  CHOOSE walk \in walks : TRUE

\* dated_deltas: a statement moves the balance on its day, a payment on the day
\* its money moved.  What one day adds to the debt.
DeltaOn(stream, walk, day) ==
  SumFunction([r \in {r \in stream.resets : r.on = day} |-> r.balance - walk.reset[r.who]])
  - SumFunction([p \in {p \in stream.payments : p.seen = day} |->
                   walk.payment[p.who].split.principal])
=============================================================================
