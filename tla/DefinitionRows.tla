--------------------------- MODULE DefinitionRows ---------------------------
(***************************************************************************)
(* The rows of one recurring definition, and what carries them forward.    *)
(*                                                                         *)
(* A rule names occurrences; each falls in one paycheck.  The recurrence   *)
(* engine writes a row for a named occurrence nothing claims, and when the *)
(* definition is edited it updates, retires or leaves alone the rows it    *)
(* wrote.  The owner moves, re-prices, deletes, spends on and settles      *)
(* them, archives the definition and brings it back, and carries what is   *)
(* unpaid in one paycheck into the current one.  A row is identified by    *)
(* the occurrence it answers, never by its paycheck; a leftover's row      *)
(* answers none.                                                           *)
(*                                                                         *)
(* Dates are the ordinals of occurrences and paychecks.  A derived row is  *)
(* priced by the definition, one price here whatever day; a request that   *)
(* is refused or answered by the chooser is rolled back and is no step.    *)
(* Books openings, rule-less definitions, notes, Credit and Cancelled rows *)
(* are left out.  A slot of Ids stands for one row id and may be reused    *)
(* after a hard delete.                                                    *)
(***************************************************************************)
EXTENDS Integers, FiniteSets, Functions

CONSTANTS
    MaxRows,        \* bound: row ids
    LastPeriod,     \* bound: paychecks the schedule reaches
    PeriodOf,       \* occurrence (1..n) -> the paycheck it falls in
    Rules,          \* sets of occurrences a rule may name
    Kinds,          \* of definitions: TRUE one that tracks purchases, FALSE a bill
    Price,          \* what the definition prices a row at
    Typed,          \* amounts an owner may type
    MaxActs,        \* bound: what the owner does to single rows
    MaxUsed,        \* bound: rows one answer to the chooser hands back
    MaxSpent,       \* bound: purchases of one row
    MaxBudget       \* bound: what a row can be topped up to

ASSUME RowsAssumption == MaxRows \in Nat \ {0}
ASSUME PeriodsAssumption == LastPeriod \in Nat \ {0, 1}
ASSUME OccurrencesAssumption ==
    /\ DOMAIN PeriodOf \subseteq Nat \ {0} /\ IsFiniteSet(DOMAIN PeriodOf)
    /\ PeriodOf \in [DOMAIN PeriodOf -> 1..LastPeriod]
ASSUME RulesAssumption == Rules \subseteq SUBSET DOMAIN PeriodOf
ASSUME KindsAssumption == Kinds \subseteq BOOLEAN
ASSUME ActsAssumption == MaxActs \in Nat
ASSUME AmountsAssumption == Price \in Nat \ {0} /\ Typed \subseteq Nat

Ids == 1..MaxRows
Periods == 1..LastPeriod
Occurrences == DOMAIN PeriodOf
NoOcc == 0
Derived == -1

\* A slot that holds no row, and the row generation writes.
NoRow == [status |-> "none", occ |-> NoOcc, period |-> 1, override |-> FALSE,
          deleted |-> FALSE, own |-> Derived, spent |-> 0, payment |-> FALSE]
Generated(o) == [NoRow EXCEPT !.status = "projected", !.occ = o, !.period = PeriodOf[o]]

VARIABLES
    envelope,       \* the definition tracks purchases
    rows,           \* id -> row
    named,          \* occurrences the rule names
    active,         \* is_active of the definition
    saved,          \* paychecks 1..saved exist
    now,            \* the current paycheck
    acts            \* how many rows the owner has touched

vars == <<envelope, rows, named, active, saved, now, acts>>

Exists(r) == r.status # "none"
Live(r) == Exists(r) /\ ~r.deleted
Open(r) == Live(r) /\ r.status = "projected"
Budget(r) == IF r.own = Derived THEN Price ELSE r.own

\* holds_nothing and _rows_holding_owner_records: no purchase and no payment.
Recorded(r) == r.spent # 0 \/ r.payment

(***************************************************************************)
(* Which occurrences a pass writes                                         *)
(***************************************************************************)

\* resolve_generation_plan: named, in the write window, at or after eff.
Placements(rule, on, window, eff) ==
    {o \in rule : on /\ PeriodOf[o] \in window /\ PeriodOf[o] >= eff}

\* Mutant of Claims: a row its owner deleted claims nothing.
ClaimsLive(rs, o) ==
    \E i \in Ids : Live(rs[i]) /\ \/ rs[i].occ = o
                                  \/ rs[i].occ = NoOcc /\ rs[i].period = PeriodOf[o]

\* OccurrenceClaims over rows_claiming: deleted rows claim too, and a row
\* that answers no occurrence holds its whole paycheck.
Claims(rs, o) ==
    \E i \in Ids : Exists(rs[i]) /\ \/ rs[i].occ = o
                                    \/ rs[i].occ = NoOcc /\ rs[i].period = PeriodOf[o]

Unclaimed(rs, occs) == {o \in occs : ~Claims(rs, o)}

Free(rs) == {i \in Ids : ~Exists(rs[i])}
Room(rs, occs) == Cardinality(occs) <= Cardinality(Free(rs))

\* The new rows take the free ids in order.
Written(rs, occs) ==
    LET slot(i) == Cardinality({j \in Free(rs) : j < i})
        for(i) == {o \in occs : Cardinality({p \in occs : p < o}) = slot(i)}
    IN [i \in Ids |-> IF i \in Free(rs) /\ for(i) # {}
                      THEN Generated(CHOOSE o \in for(i) : TRUE) ELSE rs[i]]

(***************************************************************************)
(* A maintain pass (classify_maintain_work, _apply_maintain_work)          *)
(***************************************************************************)

\* owner_hold_on.
Held(r) == r.status = "done" \/ r.override \/ r.deleted

InScope(r, eff) == Exists(r) /\ r.period \in 1..saved /\ r.period >= eff

\* A dated row nobody holds, that the pass does not name and nothing is
\* recorded on.
Retires(r, occs, eff) ==
    /\ InScope(r, eff) /\ ~Held(r)
    /\ r.occ # NoOcc /\ r.occ \notin occs /\ ~Recorded(r)

\* Mutant of Updates: the figure an owner typed is overwritten.
UpdatesOverrides(r, occs, eff) ==
    InScope(r, eff) /\ r.status # "done" /\ ~r.deleted /\ r.occ \in occs

Updates(r, occs, eff) == InScope(r, eff) /\ ~Held(r) /\ r.occ \in occs

\* Mutant of MaintainClaims: whatever sits in its paycheck answers for it.
MaintainClaimsByPaycheck(rs, occs, eff) ==
    {o \in occs : \A i \in Ids : Exists(rs[i]) => rs[i].period # PeriodOf[o]}

\* The occurrences a maintain pass creates; a row it retires claims none of
\* them, and rows outside its window do.
MaintainClaims(rs, occs, eff) ==
    Unclaimed([i \in Ids |-> IF Retires(rs[i], occs, eff) THEN NoRow ELSE rs[i]], occs)

\* The new rows are written before the retired ones go, so the ids differ.
Maintained(rs, occs, eff) ==
    LET kept == [i \in Ids |-> IF Updates(rs[i], occs, eff)
                               THEN [rs[i] EXCEPT !.own = Derived] ELSE rs[i]]
        all == Written(kept, MaintainClaims(rs, occs, eff))
    IN [i \in Ids |-> IF Retires(rs[i], occs, eff) THEN NoRow ELSE all[i]]

\* The rows a pass reports as overridden or deleted.
Conflicts(rs, eff) ==
    {i \in Ids : InScope(rs[i], eff) /\ rs[i].status # "done"
                   /\ (rs[i].override \/ rs[i].deleted)}

\* resolve_conflicts: "use" hands a row back to its definition where it sits.
HandedBack(rs, used) ==
    [i \in Ids |-> IF i \in used
                   THEN [rs[i] EXCEPT !.override = FALSE, !.deleted = FALSE, !.own = Derived]
                   ELSE rs[i]]

\* idx_transactions_template_scenario_undated refuses the save.
OneUndatedPerPaycheck(rs) ==
    \A i, j \in {k \in Ids : Live(rs[k]) /\ rs[k].occ = NoOcc /\ ~rs[k].override} :
        rs[i].period = rs[j].period => i = j

(***************************************************************************)
(* Carry forward                                                           *)
(***************************************************************************)

At(rs, p) == {i \in Ids : Live(rs[i]) /\ rs[i].period = p}
OpenAt(rs, p) == {i \in At(rs, p) : rs[i].status = "projected"}

\* Purchases, never a payment a revert kept, are what was spent.
Leftover(r) == IF Budget(r) > r.spent THEN Budget(r) - r.spent ELSE 0

\* _leftover_recipient: the one open row, or the earliest occurrence's when
\* none of several is overridden, undated or a second answer.
Recipients(rs, p) ==
    LET open == OpenAt(rs, p) IN
    IF Cardinality(open) = 1 THEN open
    ELSE IF \/ \E i \in open : rs[i].override \/ rs[i].occ = NoOcc
            \/ \E i, j \in open : i # j /\ rs[i].occ = rs[j].occ
         THEN {}
         ELSE {i \in open : \A j \in open : rs[i].occ <= rs[j].occ}

\* What the engine would write in paycheck p (can_generate_in_period).
Generable(rs, p) ==
    {o \in Unclaimed(rs, named) : active /\ PeriodOf[o] = p}

\* _classify_leftover_target.
TargetKind(rs, p) ==
    IF OpenAt(rs, p) # {}
    THEN IF Recipients(rs, p) = {} THEN "ambiguous" ELSE "top_up"
    ELSE IF At(rs, p) = {} /\ Generable(rs, p) # {} THEN "generate"
    ELSE "create"

\* The batch's schedule writes in the target paycheck alone.
GenerateWindow(rs, p) == Generable(rs, p)

LeftoverRow(p) == [NoRow EXCEPT !.status = "projected", !.period = p,
                                !.override = TRUE, !.own = 0]

\* Mutant of Topped: the leftover replaces the target's own budget.
ToppedOver(rs, i, by) == [rs EXCEPT ![i].own = by, ![i].override = TRUE]

Topped(rs, i, by) == [rs EXCEPT ![i].own = Budget(rs[i]) + by, ![i].override = TRUE]

Earliest(rs, ids) == CHOOSE i \in ids : \A j \in ids : rs[i].occ <= rs[j].occ

\* What a query of the batch sees: nothing is flushed before it, so a row
\* the batch only added is not there, unless another definition's generation
\* has flushed it since.
Seen(st) == [i \in Ids |-> IF i \in st.added THEN NoRow ELSE st.rows[i]]

\* _resolve_or_create_target_row and the bump.
RolledOver(st, p, by, flushed) ==
    LET seen == Seen(st)
        kind == TargetKind(seen, p)
        free == Free(st.rows)
        made == Written(st.rows, GenerateWindow(seen, p))
    IN CASE kind = "ambiguous" -> [st EXCEPT !.refused = TRUE]
         [] kind = "top_up" ->
              [st EXCEPT !.rows = Topped(st.rows, CHOOSE i \in Recipients(seen, p) : TRUE, by)]
         [] kind = "generate" /\ Room(st.rows, GenerateWindow(seen, p)) ->
              [st EXCEPT !.rows = Topped(made, Earliest(made, OpenAt(made, p) \cap free), by),
                         !.added = {}]
         [] kind = "create" /\ free # {} ->
              LET i == CHOOSE j \in free : \A k \in free : j <= k
              IN [st EXCEPT !.rows = Topped([st.rows EXCEPT ![i] = LeftoverRow(p)], i, by),
                            !.added = IF flushed THEN {} ELSE @ \cup {i}]
         [] OTHER -> [st EXCEPT !.room = FALSE]

\* settle_from_entries: the purchases are the figure and a kept payment goes.
Closed(st, i) == [st EXCEPT !.rows[i].status = "done", !.rows[i].payment = FALSE]

\* _settle_source_and_roll_leftover.
Rolled(st, i, p, flushed) ==
    LET by == Leftover(st.rows[i])
        rolled == IF by = 0 THEN st ELSE RolledOver(st, p, by, flushed)
    IN IF rolled.refused \/ ~rolled.room THEN rolled ELSE Closed(rolled, i)

\* _partition_discrete: a recurring bill moves whole and is held.
Moved(rs, s, p) ==
    [i \in Ids |-> IF i \in OpenAt(rs, s)
                   THEN [rs[i] EXCEPT !.period = p, !.override = TRUE] ELSE rs[i]]

\* carry_forward_unpaid of paycheck s into p: the sources in id order.
Carried(rs, s, p, flushed) ==
    LET start == [rows |-> rs, added |-> {}, refused |-> FALSE, room |-> TRUE]
        sources == OpenAt(rs, s)
        after[k \in 0..MaxRows] ==
            IF k = 0 THEN start
            ELSE IF k \in sources /\ ~after[k - 1].refused /\ after[k - 1].room
                 THEN Rolled(after[k - 1], k, p, flushed)
                 ELSE after[k - 1]
    IN IF envelope THEN after[MaxRows] ELSE [start EXCEPT !.rows = Moved(rs, s, p)]

(***************************************************************************)
(* The doors                                                               *)
(***************************************************************************)

\* The owner touches one row.
Touch(i, row) ==
    /\ acts < MaxActs /\ acts' = acts + 1
    /\ rows' = [rows EXCEPT ![i] = row]
    /\ UNCHANGED <<named, active, saved, now>>

\* populate_periods_from_active_templates, for a paycheck the schedule gains.
TopUp ==
    LET occs == Unclaimed(rows, Placements(named, active, {saved + 1}, 1))
    IN /\ saved < LastPeriod /\ Room(rows, occs)
       /\ saved' = saved + 1 /\ rows' = Written(rows, occs)
       /\ UNCHANGED <<named, active, now, acts>>

\* A day comes; today's paycheck is saved.
Advance == now < saved /\ now' = now + 1 /\ UNCHANGED <<rows, named, active, saved, acts>>

\* update_template, regenerate_or_conflict_chooser and apply_conflict_decisions.
Edit ==
    \E rule \in Rules, eff \in 1..saved : \E used \in SUBSET Conflicts(rows, eff) :
        LET occs == Placements(rule, active, 1..saved, eff)
        IN /\ Cardinality(used) <= MaxUsed /\ (active \/ used = {})
           /\ Room(rows, MaintainClaims(rows, occs, eff))
           /\ named' = rule
           /\ rows' = HandedBack(Maintained(rows, occs, eff), used)
           /\ OneUndatedPerPaycheck(rows')
           /\ UNCHANGED <<active, saved, now, acts>>

\* archive_template hides the open rows that hold nothing.
Hides(r) == Open(r) /\ ~Recorded(r)

Archive ==
    /\ active /\ active' = FALSE
    /\ rows' = [i \in Ids |-> [rows[i] EXCEPT !.deleted = @ \/ Hides(rows[i])]]
    /\ UNCHANGED <<named, saved, now, acts>>

\* unarchive_template restores every hidden open row, then generates.
Unarchive ==
    LET restored == [i \in Ids |-> [rows[i] EXCEPT !.deleted = @ /\ rows[i].status = "done"]]
        occs == Unclaimed(restored, Placements(named, TRUE, 1..saved, now))
    IN /\ ~active /\ active' = TRUE
       /\ OneUndatedPerPaycheck(restored) /\ Room(restored, occs)
       /\ rows' = Written(restored, occs)
       /\ UNCHANGED <<named, saved, now, acts>>

\* A purchase on an open envelope.
Spend(i) ==
    /\ envelope /\ Open(rows[i]) /\ rows[i].spent < MaxSpent
    /\ Touch(i, [rows[i] EXCEPT !.spent = @ + 1])

\* settle_transaction: from the purchases when there are any, else a payment.
MarkDone(i) ==
    /\ Open(rows[i])
    /\ Touch(i, [rows[i] EXCEPT !.status = "done", !.payment = (rows[i].spent = 0)])

\* A revert keeps the payment, un-dated.
Revert(i) ==
    /\ Live(rows[i]) /\ rows[i].status = "done"
    /\ Touch(i, [rows[i] EXCEPT !.status = "projected"])

\* _apply_field_updates: a typed amount or another paycheck holds the row.
Reprice(i) ==
    /\ Open(rows[i])
    /\ \E a \in Typed : Touch(i, [rows[i] EXCEPT !.own = a, !.override = TRUE])

Refile(i) ==
    /\ Open(rows[i])
    /\ \E p \in 1..saved \ {rows[i].period} :
           Touch(i, [rows[i] EXCEPT !.period = p, !.override = TRUE])

\* delete_transaction of a recurring row: soft, and its movements go.
Delete(i) ==
    /\ Live(rows[i])
    /\ Touch(i, [rows[i] EXCEPT !.deleted = TRUE, !.spent = 0, !.payment = FALSE])

\* carry_forward of paycheck s into the current one.
CarryForward(s) ==
    \E flushed \in BOOLEAN : LET carried == Carried(rows, s, now, flushed)
    IN /\ s # now /\ OpenAt(rows, s) # {}
       /\ ~carried.refused /\ carried.room
       /\ \A i \in Ids : Budget(carried.rows[i]) <= MaxBudget
       /\ rows' = carried.rows
       /\ UNCHANGED <<named, active, saved, now, acts>>

Init ==
    /\ envelope \in Kinds
    /\ named \in Rules /\ active = TRUE /\ saved = 1 /\ now = 1 /\ acts = 0
    /\ LET occs == Placements(named, TRUE, {1}, 1)
           empty == [i \in Ids |-> NoRow]
       IN Room(empty, occs) /\ rows = Written(empty, occs)

Next ==
    /\ UNCHANGED envelope
    /\ \/ TopUp \/ Advance \/ Edit \/ Archive \/ Unarchive
       \/ \E i \in Ids : \/ Spend(i) \/ MarkDone(i) \/ Revert(i)
                         \/ Reprice(i) \/ Refile(i) \/ Delete(i)
       \/ \E s \in 1..saved : CarryForward(s)

Spec == Init /\ [][Next]_vars

(***************************************************************************)
(* Properties                                                              *)
(***************************************************************************)

Row == [status : {"none", "projected", "done"}, occ : Occurrences \cup {NoOcc},
        period : Periods, override : BOOLEAN, deleted : BOOLEAN,
        own : Nat \cup {Derived}, spent : Nat, payment : BOOLEAN]

\* Every row answers an occurrence of the cadence or none, sits in a saved
\* paycheck and is budgeted at no less than nothing.
TypeOK ==
    /\ envelope \in Kinds
    /\ rows \in [Ids -> Row] /\ named \subseteq Occurrences /\ active \in BOOLEAN
    /\ saved \in Periods /\ now \in 1..saved /\ acts \in 0..MaxActs
    /\ \A i \in Ids : Exists(rows[i]) => rows[i].period <= saved

\* Whatever is moved, deleted, archived, handed back, topped up or edited, no
\* pass answers an occurrence a second time: the unique index of the table
\* is never what stops one, and a row its owner deleted stays the answer.
OneRowPerOccurrence ==
    \A i, j \in Ids :
        Exists(rows[i]) /\ Exists(rows[j]) /\ rows[i].occ = rows[j].occ
            /\ rows[i].occ # NoOcc => i = j

\* The rows answer the occurrences of their rule, each at most once.
RowsAnswerOnce == TypeOK /\ OneRowPerOccurrence

\* A maintain pass repeated at once finds nothing left to do, from whatever
\* rows the owner's acts left (a second save of one form writes no row).
PassesSettle ==
    \A rule \in Rules, eff \in 1..saved :
        LET occs == Placements(rule, active, 1..saved, eff)
            once == Maintained(rows, occs, eff)
        IN Room(rows, MaintainClaims(rows, occs, eff))
             => Maintained(once, occs, eff) = once

\* A row that holds a purchase or a payment is never removed or hidden with
\* them, by any edit, archive or carry: only its owner's delete takes them.
RecordsNeverVanish ==
    [][\A i \in Ids : Recorded(rows[i]) =>
          Exists(rows'[i]) /\ (rows'[i].deleted => ~Recorded(rows'[i]))]_vars

\* The figure a row owns, typed or topped up by a carried leftover, is lost
\* to the definition's only when the owner hands the row back.
OwnFiguresKept ==
    [][\A i \in Ids : rows[i].own # Derived =>
          Exists(rows'[i]) /\ (rows'[i].own # Derived \/ ~rows'[i].override)]_vars

\* A row the rule still names is never removed by a maintain pass (_maintain),
\* wherever its owner moved it.  One handed back to its definition away from
\* its own paycheck is the exception: an edit effective between the two
\* paychecks does not see the occurrence it answers.
NamedRowsSurvive ==
    [][\A i \in Ids :
          Open(rows[i]) /\ rows[i].occ \in named' /\ active'
            /\ (rows[i].override \/ rows[i].period = PeriodOf[rows[i].occ])
          => Exists(rows'[i])]_vars

\* What a person did to a row outlasts every later pass, carry and archive.
ClaimedRowsSurvive == RecordsNeverVanish /\ OwnFiguresKept /\ NamedRowsSurvive

Planned(rs) == SumFunctionOnSet([i \in Ids |-> Budget(rs[i])], {i \in Ids : Open(rs[i])})

\* Carrying a paycheck forward moves plan and makes none: what is open after
\* it is what was open, less what the sources spent of their budgets, plus
\* the price of a row the engine had still to write.
CarryConservesPlan ==
    \A s \in 1..saved \ {now}, flushed \in BOOLEAN :
        LET after == Carried(rows, s, now, flushed)
            used == [i \in Ids |-> Budget(rows[i]) - Leftover(rows[i])]
            spent == SumFunctionOnSet(used, OpenAt(rows, s))
            written == {i \in Ids : ~Exists(rows[i]) /\ after.rows[i].occ # NoOcc}
        IN envelope /\ ~after.refused /\ after.room =>
             Planned(after.rows) + spent = Planned(rows) + Price * Cardinality(written)

\* A carry that is not refused leaves nothing of the definition open in the
\* paycheck it came from.
CarriedPaychecksEmpty ==
    \A s \in 1..saved \ {now}, flushed \in BOOLEAN :
        LET after == Carried(rows, s, now, flushed)
        IN ~after.refused /\ after.room => OpenAt(after.rows, s) = {}

\* A carry moves all of the paycheck it is asked of, and its plan with it.
CarriesMoveThePlan == CarryConservesPlan /\ CarriedPaychecksEmpty

=============================================================================
