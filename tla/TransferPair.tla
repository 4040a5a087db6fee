---------------------------- MODULE TransferPair ----------------------------
(***************************************************************************)
(* A transfer and the two legs it moves money on.                          *)
(*                                                                         *)
(* A transfer is three rows, the parent and an expense and an income leg,  *)
(* each leg holding the day its account saw the money and, once settled, a *)
(* record of what moved (its covering movement).  transfer_service is the  *)
(* one writer: it verifies the transition on all three rows, resolves one  *)
(* day for each leg, prices the pair once and writes all of it, so the     *)
(* three rows' status is one variable here.  What may part, and is apart   *)
(* here, is the legs' days, the records, the journal and an open form.     *)
(* The transfer owns its amount; one its definition prices is left out.    *)
(*                                                                         *)
(* A leg's day is stated (observed by the bank or known to a person), or   *)
(* borrowed from the other leg while nobody has said.  A reconciled leg    *)
(* links the statement it was ticked on.  A refused request is rolled back *)
(* and is no step.  The legs' accounts stand still: an endpoint moves only *)
(* under a Projected transfer that holds no record, when nothing is dated. *)
(***************************************************************************)
EXTENDS Integers

CONSTANTS
    Plans,          \* amounts a transfer may be planned at
    Figures,        \* figures a person may type for what moved
    LastDay         \* bound: days run from 1 to LastDay

ASSUME PlansAssumption == Plans \subseteq Nat \ {0} /\ Plans # {}
ASSUME FiguresAssumption == Figures \subseteq Nat
ASSUME LastDayAssumption == LastDay \in Nat \ {0}

Sides == {"expense", "income"}
Other(s) == IF s = "expense" THEN "income" ELSE "expense"
Days == 1..LastDay
Never == 0

\* A SettleDay, or Unstated; a leg's day also carries the statement it links.
Evidence == {"observed", "known"}
Unstated == [day |-> Never, basis |-> "none"]
Known(d) == [day |-> d, basis |-> "known"]
Observed(d) == [day |-> d, basis |-> "observed"]
Borrowed(d) == [day |-> d, basis |-> "borrowed"]
SettleDays == {Unstated} \cup [day : Days, basis : Evidence \cup {"borrowed"}]

Nowhere == [settle |-> Unstated, link |-> Never]
NoFigure == -1
NoRecord == [amount |-> 0, stated |-> FALSE, at |-> Nowhere]
Nothing == [day |-> Never, amount |-> 0]

VARIABLES
    status,         \* of the three rows; "gone" before creation and after a hard delete
    deleted,        \* is_deleted of the three rows
    plan,           \* amount
    leg,            \* side -> its SettleDay and the statement day it links
    record,         \* side -> the covering movement, amount 0 when there is none
    posted,         \* side -> what the journal holds for that movement
    fresh,          \* an open form still carries the parent's version_id
    today

pair == <<status, deleted, plan, leg, record>>
vars == <<pair, posted, fresh, today>>

Live == status # "gone" /\ ~deleted
Immutable == {"done", "cancelled"}

\* _build_transitions, the transfer workflow.
Reachable == CASE status = "projected" -> {"projected", "done", "cancelled"}
               [] status = "done" -> {"done", "projected"}
               [] OTHER -> {"cancelled", "projected"}

(***************************************************************************)
(* The day of each leg (_side_days).                                       *)
(***************************************************************************)

\* Mutant of OwnDay: a borrowed day counts as something the leg was told.
OwnDayOrGuess(s, said) ==
    IF said[s] # Unstated THEN said[s]
    ELSE IF status = "done" THEN leg[s].settle ELSE Unstated

\* _own: what was just stated, else the evidence a settled leg already has.
OwnDay(s, said) ==
    IF said[s] # Unstated THEN said[s]
    ELSE IF status = "done" /\ leg[s].settle.basis \in Evidence THEN leg[s].settle
    ELSE Unstated

\* Mutant of Fallback: a pair of guesses is dated again at every press.
FallbackToday == today

\* repair_fallback: the day a settled pair already shows, else today.
Fallback == IF status = "done" THEN leg["expense"].settle.day ELSE today

\* resolve_pair_days, with borrowed_day.
ResolvedDay(s, said) ==
    LET own == OwnDay(s, said)
        others == OwnDay(Other(s), said)
    IN IF own # Unstated THEN own
       ELSE Borrowed(IF others # Unstated THEN others.day ELSE Fallback)

\* apply_status_change: a leg that leaves its day leaves its statement.
Dated(s, settle) ==
    [settle |-> settle,
     link |-> IF settle.day = leg[s].settle.day THEN leg[s].link ELSE Never]

(***************************************************************************)
(* The record of each leg (status_seam._covering).                         *)
(***************************************************************************)

\* _mirror_assertion: the record follows its leg's day and statement.
Mirror(at, to) ==
    IF at.settle.day # to.settle.day THEN to
    ELSE [settle |-> IF to.settle.basis = "observed" \/ at.settle.basis \notin Evidence
                     THEN to.settle ELSE at.settle,
          link |-> IF at.link = Never THEN to.link ELSE at.link]

Follows(r, to) == IF r.amount = 0 THEN r ELSE [r EXCEPT !.at = Mirror(r.at, to)]

\* _cover: the leg's one movement at a figure; a figure of zero has none.
Covered(s, amount, byHand, to) ==
    IF amount = 0 THEN NoRecord
    ELSE [amount |-> amount, stated |-> byHand, at |-> Mirror(record[s].at, to)]

\* recorded_leg_settlement of the expense leg, and honoured_figure of it.
Held == record["expense"]
Booked(p) == IF Held.stated THEN Held.amount ELSE p

(***************************************************************************)
(* The journal and the version of the parent.                              *)
(***************************************************************************)

\* purchase_posts and _purchase_target of a leg's movement.
Target(s) ==
    IF status' = "done" /\ ~deleted' /\ record'[s].amount # 0
    THEN [day |-> record'[s].at.settle.day, amount |-> record'[s].amount]
    ELSE Nothing

SyncPostings == posted' = [s \in Sides |-> Target(s)]

PostingRelevant == {"status_id", "amount_ownership", "figure"}

\* Mutant of Reconcile: a stated day is no reason to book again.
ReconcileFieldsOnly(keys) ==
    IF keys \cap PostingRelevant # {} THEN SyncPostings ELSE UNCHANGED posted

\* _reconcile_postings_after_update
Reconcile(keys) ==
    IF \/ keys \cap PostingRelevant # {}
       \/ "side_days" \in keys /\ status' = "done"
    THEN SyncPostings
    ELSE UNCHANGED posted

\* _record_moved: a movement written, withdrawn or given another figure.
RecordMoved ==
    \E s \in Sides : \/ record'[s].amount # record[s].amount
                     \/ record'[s].stated # record[s].stated

\* Mutant of Versioned: a leg that moved under an unmoved parent is not told.
VersionedParentOnly == fresh' = (fresh /\ <<status, deleted, plan>>' = <<status, deleted, plan>>)

\* _bump_parent_version_if_a_leg_moved, and the parent's own columns.
Versioned ==
    fresh' = /\ fresh
             /\ <<status, deleted, plan, leg>>' = <<status, deleted, plan, leg>>
             /\ ~RecordMoved

(***************************************************************************)
(* _apply_transfer_updates and the doors above it.                         *)
(***************************************************************************)

\* apply_status_to_all_three under Done, the pair priced once.
LandDone(said, amount, byHand) ==
    /\ status' = "done"
    /\ leg' = [s \in Sides |-> Dated(s, ResolvedDay(s, said))]
    /\ record' = [s \in Sides |-> Covered(s, amount, byHand, leg'[s])]

\* apply_status_to_all_three under a status that settles nothing.
LandOpen(new) ==
    /\ status' = new
    /\ leg' = [s \in Sides |-> Nowhere]
    /\ record' = [s \in Sides |-> IF status = "done" THEN Follows(record[s], Nowhere)
                                  ELSE record[s]]

\* Mutant of Settle: a reverted transfer books whatever it booked before.
SettleAsBefore(said, p, figure) ==
    LET booked == IF Held.amount # 0 THEN Held.amount ELSE p
    IN LandDone(said, IF figure = NoFigure THEN booked ELSE figure,
                Held.stated \/ figure \notin {NoFigure, booked})

\* _settle.settle: a submitted figure that differs from the booked one is a
\* correction, and a figure somebody stated before a revert is kept.
Settle(said, p, figure) ==
    IF figure \in {NoFigure, Booked(p)}
    THEN LandDone(said, Booked(p), Held.stated)
    ELSE LandDone(said, figure, TRUE)

\* A settled pair written again at the figure it records, or at another one.
Correct(said, figure) ==
    IF figure \in {NoFigure, Held.amount}
    THEN LandDone(said, Held.amount, Held.stated)
    ELSE LandDone(said, figure, TRUE)

NothingSaid == [s \in Sides |-> Unstated]
Saying(s, day) == [NothingSaid EXCEPT ![s] = day]

\* create_transfer
Create(p) ==
    /\ status = "gone"
    /\ status' = "projected"
    /\ plan' = p
    /\ fresh' = FALSE
    /\ UNCHANGED <<deleted, leg, record, posted, today>>

\* settle_transfer from mark_done; a pair already settled is only written
\* again, and the days drifted_sides_only leaves of those stated are none.
MarkDone ==
    /\ Live
    /\ "done" \in Reachable
    /\ IF status = "done" THEN Correct(NothingSaid, NoFigure)
                          ELSE Settle(NothingSaid, plan, NoFigure)
    /\ UNCHANGED <<deleted, plan, today>>
    /\ Reconcile({"status_id"})
    /\ Versioned

\* _apply_day: the bank's line settles the leg, or says its day better.
MatchLine(s, d) ==
    /\ Live
    /\ d <= today
    /\ UNCHANGED <<deleted, plan, today>>
    /\ \/ /\ status = "projected"
          /\ Settle(Saying(s, Observed(d)), plan, NoFigure)
          /\ Reconcile({"status_id", "side_days"})
       \/ /\ status = "done"
          /\ record[s].amount # 0
          /\ record[s].at.settle # Observed(d)
          /\ Correct(Saying(s, Observed(d)), NoFigure)
          /\ UNCHANGED <<deleted, plan, today>>
    /\ Reconcile({"side_days"})
    /\ Versioned

\* The reconcile panel's _settle_one: settled on the statement's day, and
\* then record_clearing links the ticked leg and its record.
Tick(s, d, figure) ==
    LET said == Saying(s, Known(d))
        to == [t \in Sides |-> IF t = s THEN [settle |-> ResolvedDay(t, said), link |-> d]
                               ELSE Dated(t, ResolvedDay(t, said))]
        amount == IF figure = NoFigure THEN Booked(plan) ELSE figure
        byHand == Held.stated \/ amount # Booked(plan)
    IN /\ Live
       /\ status = "projected"
       /\ d <= today
       /\ status' = "done"
       /\ leg' = to
       /\ record' = [t \in Sides |-> Covered(t, amount, byHand, to[t])]
       /\ UNCHANGED <<deleted, plan, today>>
       /\ Reconcile({"status_id", "side_days"})
       /\ Versioned

\* transfer_side_boxes: a box shows its record's day, a guess as a caption.
Prefill(s) ==
    IF record[s].amount # 0 /\ record[s].at.settle.basis \in Evidence
    THEN record[s].at.settle ELSE Unstated

\* _grade_submitted_side_days: a box left as it was drawn states nothing.
Graded(boxes) ==
    [s \in Sides |-> IF boxes[s] \in {Never, Prefill(s).day} THEN Unstated
                     ELSE Known(boxes[s])]

\* The popover's PATCH.  Its version must be the parent's; a finalised
\* transfer's amount is locked; a figure needs a status that settles.
Save(new, p, figure, boxes) ==
    /\ Live
    /\ fresh
    /\ new \in Reachable
    /\ {status, new} \subseteq Immutable => p = plan
    /\ \A s \in Sides : boxes[s] <= today
    /\ IF new = "done"
       THEN IF status = "done" THEN Correct(Graded(boxes), figure)
                               ELSE Settle(Graded(boxes), p, figure)
       ELSE figure = NoFigure /\ LandOpen(new)
    /\ plan' = p
    /\ UNCHANGED <<deleted, today>>
    /\ Reconcile({"status_id"})
    /\ Versioned

\* cancel_transfer
Cancel ==
    /\ Live
    /\ "cancelled" \in Reachable
    /\ LandOpen("cancelled")
    /\ UNCHANGED <<deleted, plan, today>>
    /\ Reconcile({"status_id"})
    /\ Versioned

\* reverse_transfer_postings_before_delete
TearDown == posted' = [s \in Sides |-> Nothing]

\* delete_transfer(soft=True); the records stay on the hidden legs.
SoftDelete ==
    /\ status # "gone"
    /\ TearDown
    /\ deleted' = TRUE
    /\ fresh' = FALSE
    /\ UNCHANGED <<status, plan, leg, record, today>>

\* delete_transfer(soft=False)
HardDelete ==
    /\ status # "gone"
    /\ TearDown
    /\ status' = "gone"
    /\ deleted' = FALSE
    /\ leg' = [s \in Sides |-> Nowhere]
    /\ record' = [s \in Sides |-> NoRecord]
    /\ fresh' = FALSE
    /\ UNCHANGED <<plan, today>>

\* restore_transfer writes the pair again under its own status, and books it.
Restore ==
    /\ deleted
    /\ deleted' = FALSE
    /\ IF status = "done" THEN Correct(NothingSaid, NoFigure) ELSE LandOpen(status)
    /\ SyncPostings
    /\ fresh' = FALSE
    /\ UNCHANGED <<plan, today>>

\* A cell or popover is drawn with the parent's version_id.
Render ==
    /\ Live
    /\ fresh' = TRUE
    /\ UNCHANGED <<pair, posted, today>>

NewDay ==
    /\ today < LastDay
    /\ today' = today + 1
    /\ UNCHANGED <<pair, posted, fresh>>

Init ==
    /\ status = "gone"
    /\ deleted = FALSE
    /\ plan \in Plans
    /\ leg = [s \in Sides |-> Nowhere]
    /\ record = [s \in Sides |-> NoRecord]
    /\ posted = [s \in Sides |-> Nothing]
    /\ fresh = FALSE
    /\ today = 1

BankDoors ==
    \E s \in Sides, d \in Days :
        \/ MatchLine(s, d)
        \/ \E f \in Figures \cup {NoFigure} : Tick(s, d, f)

OwnerDoors ==
    \/ \E p \in Plans : Create(p)
    \/ \E p \in Plans, f \in Figures \cup {NoFigure}, new \in Immutable \cup {"projected"},
          boxes \in [Sides -> Days \cup {Never}] : Save(new, p, f, boxes)
    \/ MarkDone \/ Cancel \/ SoftDelete \/ HardDelete \/ Restore \/ Render

Next == BankDoors \/ OwnerDoors \/ NewDay

Spec == Init /\ [][Next]_vars

(***************************************************************************)
(* Properties.                                                             *)
(***************************************************************************)

\* The columns hold what their types allow.
TypeOK ==
    /\ status \in {"gone", "projected", "done", "cancelled"}
    /\ deleted \in BOOLEAN
    /\ plan \in Plans
    /\ leg \in [Sides -> [settle : SettleDays, link : Days \cup {Never}]]
    /\ record \in [Sides -> [amount : Nat, stated : BOOLEAN,
                             at : [settle : SettleDays, link : Days \cup {Never}]]]
    /\ posted \in [Sides -> [day : Days \cup {Never}, amount : Nat]]
    /\ fresh \in BOOLEAN
    /\ today \in Days

\* apply_status_to_all_three, "one record for the pair": after any sequence of
\* settles, corrections, reverts and restores both legs state one figure and
\* one author of it, and the journal moves it on both accounts or on neither.
PairMovesOneFigure ==
    /\ record["expense"].amount = record["income"].amount
    /\ record["expense"].stated = record["income"].stated
    /\ posted["expense"].amount = posted["income"].amount

\* Settlement.from_settle: a figure nobody stated is priced at every settle
\* anew, whatever an earlier settle of the same transfer had recorded.
UnstatedFigureIsThePlan ==
    \A s \in Sides :
        status = "done" /\ record[s].amount # 0 /\ ~record[s].stated =>
            record[s].amount = plan

\* One figure for the pair: the plan's, or the one somebody stated, on every row.
PairIsOneFact == TypeOK /\ PairMovesOneFigure /\ UnstatedFigureIsThePlan

\* _mirror_assertion: a leg and the movement that records it say the same day,
\* know it the same way and stand on the same statement, so that the boxes
\* drawn from the records grade a submission against what the legs hold.
RecordsMirrorLegs ==
    \A s \in Sides : record[s].amount # 0 => record[s].at = leg[s]

\* borrowed_day: a leg nobody dated follows the leg somebody did, through every
\* later correction of that one, and is never counted as seen by a statement.
GuessesFollowEvidence ==
    \A s \in Sides :
        leg[s].settle.basis = "borrowed" => /\ leg[s].settle.day = leg[Other(s)].settle.day
                                            /\ leg[s].link = Never

\* A settled transfer is dated on both legs, no later than today, and nothing
\* that is not settled keeps a day (ck on the settle day and its status).
DatedExactlyWhenSettled ==
    \A s \in Sides : (leg[s].settle.day \in 1..today) <=> (status = "done")

\* apply_status_change releases the statement of a leg that leaves its day:
\* what a statement is told to hold happened on that statement's day.
LinksNameTheirDay ==
    \A s \in Sides : leg[s].link # Never => /\ leg[s].settle.day = leg[s].link
                                            /\ leg[s].settle.basis \in Evidence

\* The days of a pair: on both legs or none, each leg's record and statement
\* say its leg's, and a guess says the other leg's.
PairIsDated ==
    /\ DatedExactlyWhenSettled /\ RecordsMirrorLegs
    /\ GuessesFollowEvidence /\ LinksNameTheirDay

\* sync_transfer_postings: the journal holds what the records say of a settled
\* transfer that is not deleted, day and figure, and nothing otherwise.
LedgerMatchesPair ==
    \A s \in Sides :
        posted[s] = IF status = "done" /\ ~deleted /\ record[s].amount # 0
                    THEN [day |-> leg[s].settle.day, amount |-> record[s].amount]
                    ELSE Nothing

\* _bump_parent_version_if_a_leg_moved: no door leaves an open form's version
\* standing while the pair behind it has changed, its records included.
FreshFormsShowThePair == [][pair' # pair => ~fresh']_vars

\* settle_transfer and restore_transfer repeated on a settled transfer, on any
\* later day, move no day, no figure and no statement.
RepeatsChangeNothing ==
    [][status = "done" /\ (MarkDone \/ Restore) => UNCHANGED <<leg, record>>]_vars

=============================================================================
