---------------------------- MODULE PaySchedule ----------------------------
(***************************************************************************)
(* An owner's paydays, the eras that plan them, and the doors that change  *)
(* either.                                                                 *)
(*                                                                         *)
(* A payday is recorded and is never edited; the paycheck it opens ends    *)
(* the day before the next one.  An era states a rhythm from a nominal     *)
(* day on; the plan is its grid, each day displaced off closed days, until *)
(* the next era's first payday.  Registration and the rebuilding doors     *)
(* state a batch, the others continue the plan at one end or remove        *)
(* paydays.  Whatever is filed in a removed paycheck goes with it, so the  *)
(* doors ask first what it holds.                                          *)
(*                                                                         *)
(* Days are integers and rhythms a fixed number of days; the two           *)
(* day-of-month kinds, pay stubs and refusals of a day outside the app's   *)
(* calendar are left out.  An item is one thing of the owner's a paycheck  *)
(* can hold, or a recorded balance, whose correction the ledger files in a *)
(* paycheck; every correction here is of some money.  A door that refuses  *)
(* is rolled back and is no step.  Doors of one owner are serial: each     *)
(* runs under the owner's write lock (RequestTransactions).                *)
(***************************************************************************)
EXTENDS Integers, Sequences, FiniteSets, FiniteSetsExt

CONSTANTS
    Items,          \* what the owner enters or records
    Closed,         \* days that are not business days
    Rhythms,        \* [gap, shift] a form may state
    Stated,         \* days a form may state
    Opening,        \* the day the owner registers
    LastToday,      \* bound: the last day that comes
    Sizes,          \* how many paydays one batch covers
    Targets,        \* rolling windows, 0 when rolling is off
    MaxPaydays,     \* bound: recorded paydays
    MaxActs         \* bound: schedule forms and records of the owner

ASSUME DaysAssumption ==
    /\ Closed \subseteq Int /\ IsFiniteSet(Closed) /\ Stated \subseteq Int
    /\ Opening \in Int /\ LastToday \in Int /\ Opening <= LastToday
ASSUME RhythmsAssumption ==
    Rhythms \subseteq [gap : Nat \ {0}, shift : {"none", "prior", "next"}]
ASSUME SizesAssumption ==
    Sizes \subseteq Nat \ {0} /\ Targets \subseteq Nat /\ MaxPaydays \in Nat /\ MaxActs \in Nat

\* No day stated, below every day.
NoDay == -1000

VARIABLES
    paydays,        \* budget.pay_periods, each the day that opens it
    eras,           \* budget.pay_eras, by effective_from
    history,        \* history_opens_on, or NoDay
    target,         \* rolling_target_periods, 0 when rolling is off
    items,          \* item -> what it is
    today,
    acts

vars == <<paydays, eras, history, target, items, today, acts>>

(***************************************************************************)
(* The grid                                                                *)
(***************************************************************************)

\* shortest_collision_free_cadence: the longest closed run and one.
ShortestShiftedGap ==
    1 + Max({0} \cup {n \in 1..Cardinality(Closed) :
                          \E d \in Closed : d..(d + n - 1) \subseteq Closed})

\* shift_to_business_day.
Displaced(day, shift) ==
    IF shift = "none" \/ day \notin Closed THEN day
    ELSE IF shift = "prior" THEN Max((day - ShortestShiftedGap)..day \ Closed)
    ELSE Min(day..(day + ShortestShiftedGap) \ Closed)

\* projected_payday: the nominal grid runs on, each day is displaced alone.
Payday(era, k) == Displaced(era.from + k * era.gap, era.shift)
FirstPayday(era) == Payday(era, 0)

StepsTo(era, day) == (day - era.from) \div era.gap
OnGrid(era, day) == day = era.from + StepsTo(era, day) * era.gap

StepAfter(era, day) ==
    Min({k \in StepsTo(era, day)..(StepsTo(era, day) + 2) : Payday(era, k) > day})

Distance(a, b) == IF a > b THEN a - b ELSE b - a

\* matched_step: the nearest payday of the grid, the later of two.
MatchedStep(era, day) ==
    LET near == (StepsTo(era, day) - 1)..(StepsTo(era, day) + 2)
        off(k) == Distance(Payday(era, k), day)
    IN Max({k \in near : \A j \in near : off(k) <= off(j)})

(***************************************************************************)
(* The plan: the eras' grids, one after another                            *)
(***************************************************************************)

\* era_index_at.
EraAt(es, day) ==
    Max({1} \cup {i \in 2..Len(es) : \A j \in 2..i : FirstPayday(es[j]) <= day})

\* last_step_of: a later era's first payday replaces the last planned one at
\* or before it.
LastStep(es, i) == StepAfter(es[i], FirstPayday(es[i + 1])) - 2

\* matched_planned.
Matched(es, day) ==
    LET i == EraAt(es, day)
        k == MatchedStep(es[i], day)
    IN IF i = Len(es) \/ k < LastStep(es, i) THEN [era |-> i, step |-> k]
       ELSE IF Distance(FirstPayday(es[i + 1]), day)
                 <= Distance(Payday(es[i], LastStep(es, i)), day)
            THEN [era |-> i + 1, step |-> 0]
            ELSE [era |-> i, step |-> LastStep(es, i)]

\* following_planned.
Following(es, at) ==
    IF at.era < Len(es) /\ at.step >= LastStep(es, at.era)
    THEN [era |-> at.era + 1, step |-> 0]
    ELSE [at EXCEPT !.step = @ + 1]

\* planned_paydays_after: the nth payday the plan holds after day.
PlannedAfter(es, day, n) ==
    LET at[k \in 0..n] == IF k = 0 THEN Matched(es, day) ELSE Following(es, at[k - 1])
    IN Payday(es[at[n].era], at[n].step)

PaydayAfter(es, day) == PlannedAfter(es, day, 1)

\* Mutant of Readable: the eras are only held to their order.
ReadableInOrder(es) == \A i \in 1..(Len(es) - 1) : es[i].from < es[i + 1].from

\* validate_eras: the eras ascend, and every one but the last pays at least once.
Readable(es) ==
    \A i \in 1..(Len(es) - 1) : es[i].from < es[i + 1].from /\ LastStep(es, i) >= 0

(***************************************************************************)
(* The record                                                              *)
(***************************************************************************)

First(ps) == Min(ps)
Latest(ps) == Max(ps)

\* derive_periods: a paycheck ends the day before the next payday opens.
EndOf(ps, es, p) ==
    IF p = Latest(ps) THEN PaydayAfter(es, p) - 1
    ELSE Min({q \in ps : q > p}) - 1

\* filing_period: the latest paycheck started by day, else the first.
FilingPeriod(ps, day) ==
    IF First(ps) <= day THEN Max({p \in ps : p <= day}) ELSE First(ps)

\* earliest_recordable_day.
Floor(ps, day) == IF ps # {} /\ First(ps) < day THEN First(ps) ELSE day

\* record_below_history.
BelowHistory(day, opens) == opens # NoDay /\ opens > day

NoItem == [kind |-> "none", row |-> 0, day |-> 0, filed |-> 0]

\* The delete's cascade: a removed paycheck takes the rows it holds and the
\* corrections filed in it, never the balance itself.
Cascaded(it, gone) ==
    [i \in Items |->
        IF it[i].kind \in {"owned", "held", "settled"} /\ it[i].row \in gone THEN NoItem
        ELSE IF it[i].kind = "balance" /\ it[i].filed \in gone
             THEN [it[i] EXCEPT !.filed = 0] ELSE it[i]]

\* Mutant of Refiled: only what the ledger still holds is filed again.
RefiledHeld(it, ps) ==
    [i \in Items |-> IF it[i].kind = "balance" /\ it[i].filed # 0
                     THEN [it[i] EXCEPT !.filed = FilingPeriod(ps, @)] ELSE it[i]]

\* _refile_ledger: every balance's correction, from the balance.
Refiled(it, ps) ==
    [i \in Items |-> IF it[i].kind = "balance"
                     THEN [it[i] EXCEPT !.filed = FilingPeriod(ps, it[i].day)] ELSE it[i]]

Holding(p, kinds) == {i \in Items : items[i].kind \in kinds /\ items[i].row = p}

\* classify_schedule_locks: past, settled, holding a movement, or booked.
Locked(ps, es, p) ==
    \/ EndOf(ps, es, p) < today
    \/ Holding(p, {"held", "settled"}) # {}
    \/ \E i \in Items : items[i].kind = "balance" /\ items[i].filed = p

(***************************************************************************)
(* Stating a batch (record_paydays)                                        *)
(***************************************************************************)

\* Eras as they are read back, by the day they take effect.
ByDay(es) ==
    [i \in 1..Cardinality(es) |->
        CHOOSE e \in es : Cardinality({d \in es : d.from <= e.from}) = i]

\* eras_describing: the earliest era, and those with a payday that stands.
ErasStanding(es, ps) ==
    IF ps = {} THEN <<>>
    ELSE ByDay({es[i] : i \in {j \in DOMAIN es : j = 1 \/ FirstPayday(es[j]) <= Latest(ps)}})

\* era_to_mint: a rhythm or a phase the covering era does not hold.
Mints(es, first, rhythm) ==
    IF es = <<>> THEN TRUE
    ELSE LET covering == es[Max({1} \cup {i \in DOMAIN es : es[i].from <= first})]
         IN \/ covering.gap # rhythm.gap \/ covering.shift # rhythm.shift
            \/ ~OnGrid(covering, first)

\* mint_era.
Minted(es, era) ==
    ByDay({es[i] : i \in {j \in DOMAIN es : es[j].from # era.from}} \cup {era})

\* reject_backward_payday: the plan's next payday after what is kept.
Earliest(es, kept) == PaydayAfter(es, Latest(kept))

\* record_paydays: the fences (reject_shift_on_short_cadence,
\* reject_backward_payday, reject_skipped_paycheck), then the record and the
\* eras it leaves, and whether uq_pay_eras_user_effective_from refuses the era.
Batch(ps, es, first, n, rhythm, retiring) ==
    LET kept == ps \ retiring
        era == [from |-> first, gap |-> rhythm.gap, shift |-> rhythm.shift]
        new == {Payday(era, k) : k \in 0..(n - 1)} \ kept
        standing == ErasStanding(es, kept)
        mints == new # {} /\ Mints(standing, first, rhythm)
    IN [paydays |-> kept \cup new,
        eras |-> IF new = {} THEN es ELSE IF mints THEN Minted(standing, era) ELSE standing,
        taken |-> mints /\ \E i \in DOMAIN standing : standing[i].from = first,
        ok |-> /\ mints /\ rhythm.shift # "none" => rhythm.gap >= ShortestShiftedGap
               /\ kept # {} /\ new # {} =>
                     /\ Min(IF mints THEN {Payday(era, 0)} \cup new ELSE new)
                          >= Earliest(es, kept)
                     /\ Min(new) < PlannedAfter(standing, Latest(kept), 2)]

\* continue_paydays: what the stored eras plan next.
Continued(ps, es, n) == ps \cup {PlannedAfter(es, Latest(ps), k) : k \in 1..n}

\* earlier_paydays: the n paydays of the earliest grid below the record.
EarlierSteps(ps, es, n) ==
    LET top == MatchedStep(es[1], First(ps)) - 1 IN (top - n + 1)..top

\* Mutant of Rephased: the phase moves to the payday, not to its grid day.
RephasedToPayday(es, k) == [es EXCEPT ![1].from = Payday(es[1], k)]

\* rephase_earliest_era, which asks validate_eras of the eras it would leave.
Rephased(es, k) == [es EXCEPT ![1].from = @ + k * es[1].gap]

(***************************************************************************)
(* The doors                                                               *)
(***************************************************************************)

Act == acts < MaxActs /\ acts' = acts + 1
Room == Cardinality(paydays') <= MaxPaydays

\* POST /pay-periods/generate for an owner with paydays, and /extend.
Extend ==
    \E n \in Sizes :
        /\ Act /\ paydays' = Continued(paydays, eras, n) /\ Room
        /\ UNCHANGED <<eras, history, target, items, today>>

\* Mutant of RollDeficit: the paycheck that covers today is not counted.
RollDeficitAhead(ps, es) == target - Cardinality({p \in ps : p > today})

\* current_and_future counts the paycheck that covers today.
RollDeficit(ps, es) == target - Cardinality({p \in ps : EndOf(ps, es, p) >= today})

\* top_up_rolling_window, on a render.
Rolled(ps) ==
    IF RollDeficit(ps, eras) > 0 THEN Continued(ps, eras, RollDeficit(ps, eras)) ELSE ps

TopUp ==
    /\ target # 0 /\ RollDeficit(paydays, eras) > 0
    /\ paydays' = Rolled(paydays) /\ Room
    /\ UNCHANGED <<eras, history, target, items, today, acts>>

\* prepend_paydays.
AddEarlier ==
    \E n \in Sizes :
        LET steps == EarlierSteps(paydays, eras, n)
            new == {Payday(eras[1], k) : k \in steps}
            moved == Rephased(eras, Min(steps))
        IN /\ Act /\ ~BelowHistory(Min(new), history) /\ Readable(moved)
           /\ paydays' = paydays \cup new /\ Room
           /\ eras' = moved
           /\ UNCHANGED <<history, target, items, today>>

\* _reject_dated_money: what is dated where the floor would move over it.
HeadDates(head, kept) ==
    {i \in Items : /\ items[i].kind \in {"settled", "balance"}
                   /\ items[i].day \in Floor(head, today)..(Floor(kept, today) - 1)}

\* gate_removable_head, retire_paydays and _refile_ledger.
RemoveEarlier ==
    \E p \in paydays :
        LET head == {q \in paydays : q < p}
            kept == paydays \ head
            at == Matched(eras, p)
            moved == Rephased(eras, at.step)
        IN /\ head # {} /\ Act
           /\ \A q \in head : Holding(q, {"owned", "held", "settled"}) = {}
           /\ HeadDates(head, kept) = {} /\ at.era = 1 /\ Readable(moved)
           /\ paydays' = kept /\ eras' = moved
           /\ items' = Refiled(Cascaded(items, head), kept)
           /\ UNCHANGED <<history, target, today>>

\* gate_deletable_tail: nothing locked; owned rows go with a confirmation.
Deletable(tail) == \A q \in tail : ~Locked(paydays, eras, q)

After(p) == {q \in paydays : q > p}

Truncate ==
    \E p \in paydays :
        LET tail == After(p)
        IN /\ tail # {} /\ Act /\ Deletable(tail)
           /\ paydays' = paydays \ tail /\ items' = Cascaded(items, tail)
           /\ UNCHANGED <<eras, history, target, today>>

\* regenerate_keep_through_period: from the first paycheck not yet started
\* and not locked on.
Rebuildable ==
    LET open == {p \in paydays : p > today /\ ~Locked(paydays, eras, p)}
    IN IF open = {} THEN {} ELSE {p \in paydays : p >= Min(open)}

\* populate_new_periods reads the calendar the batch leaves: when it cannot be
\* read, the request fails and the batch with it.
Regenerate ==
    \E first \in Stated, n \in Sizes, rhythm \in Rhythms :
        LET doomed == Rebuildable
            batch == Batch(paydays, eras, first, n, rhythm, doomed)
        IN /\ Act /\ Deletable(doomed) /\ batch.ok /\ ~batch.taken
           /\ Readable(batch.eras)
           /\ paydays' = batch.paydays /\ eras' = batch.eras /\ Room
           /\ items' = Cascaded(items, doomed)
           /\ UNCHANGED <<history, target, today>>

\* reset_pay_periods: everything goes while nothing is settled or held.
Reset ==
    \E first \in Stated, n \in Sizes, rhythm \in Rhythms :
        LET batch == Batch(paydays, eras, first, n, rhythm, paydays)
        IN /\ Act /\ \A i \in Items : items[i].kind \notin {"held", "settled"}
           /\ batch.ok
           /\ paydays' = batch.paydays /\ eras' = batch.eras
           /\ items' = Refiled(Cascaded(items, paydays), batch.paydays)
           /\ UNCHANGED <<history, target, today>>

\* set_history_opening and set_rolling.
StateHistory ==
    \E day \in Stated \cup {NoDay} :
        /\ Act /\ ~BelowHistory(First(paydays), day)
        /\ history' = day /\ UNCHANGED <<paydays, eras, target, items, today>>

SetRolling ==
    \E n \in Targets :
        Act /\ target' = n /\ UNCHANGED <<paydays, eras, history, items, today>>

Put(i, item) ==
    /\ Act /\ items' = [items EXCEPT ![i] = item]
    /\ UNCHANGED <<paydays, eras, history, target, today>>

Recordable == Floor(paydays, today)..today

\* A row of the owner's own, its payment, the payment a revert keeps.
Enter(i) ==
    items[i] = NoItem /\ \E p \in paydays : Put(i, [NoItem EXCEPT !.kind = "owned", !.row = p])
Settle(i) ==
    /\ items[i].kind \in {"owned", "held"}
    /\ \E d \in Recordable : Put(i, [items[i] EXCEPT !.kind = "settled", !.day = d])
Revert(i) == items[i].kind = "settled" /\ Put(i, [items[i] EXCEPT !.kind = "held", !.day = 0])

\* A recorded balance and the correction its account books.
RecordBalance(i) ==
    items[i] = NoItem /\ \E d \in Recordable :
        Put(i, [NoItem EXCEPT !.kind = "balance", !.day = d, !.filed = FilingPeriod(paydays, d)])

Tomorrow ==
    today < LastToday /\ today' = today + 1
    /\ UNCHANGED <<paydays, eras, history, target, items, acts>>

\* register_user: the stated paycheck is the one that covers today.
Init ==
    /\ today = Opening /\ acts = 0 /\ items = [i \in Items |-> NoItem] /\ target = 0
    /\ \E first \in Stated, n \in Sizes, rhythm \in Rhythms :
           LET batch == Batch({}, <<>>, first, n, rhythm, {})
           IN /\ batch.ok /\ Payday(batch.eras[1], 0) <= today
              /\ today < Payday(batch.eras[1], 1)
              /\ paydays = batch.paydays /\ eras = batch.eras
              /\ history \in {d \in Stated : ~BelowHistory(First(paydays), d)} \cup {NoDay}

Next ==
    \/ Extend \/ TopUp \/ AddEarlier \/ RemoveEarlier \/ Truncate \/ Regenerate \/ Reset
    \/ StateHistory \/ SetRolling \/ Tomorrow
    \/ \E i \in Items : Enter(i) \/ Settle(i) \/ Revert(i) \/ RecordBalance(i)

Spec == Init /\ [][Next]_vars

(***************************************************************************)
(* Properties                                                              *)
(***************************************************************************)

Item == [kind : {"none", "owned", "held", "settled", "balance"},
         row : Int, day : Int, filed : Int]

\* Paydays and eras are days and rhythms, at least one of each.
TypeOK ==
    /\ paydays \subseteq Int /\ paydays # {} /\ eras # <<>>
    /\ \A i \in DOMAIN eras :
           eras[i] \in [from : Int, gap : Nat \ {0}, shift : {"none", "prior", "next"}]
    /\ history \in Int /\ target \in Targets \cup {0}
    /\ items \in [Items -> Item] /\ today \in Opening..LastToday /\ acts \in 0..MaxActs

\* The first payday recorded is the earliest era's first grid step, as every
\* door leaves it (opening_rephase).
RecordOpensTheEarliestEra == Matched(eras, First(paydays)) = [era |-> 1, step |-> 0]

\* Whatever doors came before, the calendar can be read (validate_eras), from
\* the payday its plan opens with.
CalendarIsReadable == TypeOK /\ Readable(eras) /\ RecordOpensTheEarliestEra

\* reject_skipped_paycheck: "A hole in the schedule is UNREPRESENTABLE".
\* Between two recorded paydays the plan names no other.
NoPaycheckSkipped ==
    \A p \in paydays : p # Latest(paydays) => EndOf(paydays, eras, p) < PaydayAfter(eras, p)

\* Removing what was just added earlier leaves the record and the eras as
\* they were found (opening_rephase).
EarlierUndoes ==
    \A n \in Sizes :
        LET steps == EarlierSteps(paydays, eras, n)
            moved == Rephased(eras, Min(steps))
        IN Rephased(moved, Matched(moved, First(paydays)).step) = eras

\* Every door leaves a recorded balance booked in a paycheck that exists, and
\* a row in one, whichever paychecks it removed or rebuilt.
RecordsKeepTheirPaycheck ==
    [][\A i \in Items :
          /\ items'[i].kind = "balance" => items'[i].filed \in paydays'
          /\ items'[i].kind \in {"owned", "held", "settled"} => items'[i].row \in paydays']_vars

\* What is settled or paid for is never removed with its paycheck.
PaidItemsStay ==
    [][\A i \in Items : items[i].kind \in {"held", "settled", "balance"} =>
          items'[i].kind # "none"]_vars

\* Removing the first paychecks strands no money below the day it may be
\* dated from that stood on or above it (_reject_dated_money).
RemovalsKeepMoneyDatable ==
    [][RemoveEarlier =>
          \A i \in Items : items[i].kind \in {"settled", "balance"} =>
              \/ items[i].day < Floor(paydays, today)
              \/ items[i].day >= Floor(paydays', today)]_vars

\* Money keeps a paycheck to be filed in and a day it may be dated on.
MoneyKeepsItsPaycheck ==
    RecordsKeepTheirPaycheck /\ PaidItemsStay /\ RemovalsKeepMoneyDatable

\* A render's paydays fill the window and go no further: with the paycheck
\* that covers today, no more open ones than the target.
WindowNeverOverfills ==
    LET ps == Rolled(paydays)
    IN target # 0 /\ ps # paydays => Cardinality({p \in ps : EndOf(ps, eras, p) >= today}) <= target

=============================================================================
