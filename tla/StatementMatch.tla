--------------------------- MODULE StatementMatch ---------------------------
(***************************************************************************)
(* What the lines of one account's bank statements are said to be.         *)
(*                                                                         *)
(* A match act says that some bank lines and some movements of the app are *)
(* the same money.  Accepting one may pay a planned row and may create     *)
(* rows: a purchase, the envelope holding it, an income row, the           *)
(* difference of a group.  Undoing one takes back what it created, except  *)
(* what the owner has made his own by an edit.  A movement that leaves the *)
(* books, or the account, leaves its acts, and an act left naming no       *)
(* movement is withdrawn: its lines wait again.  The page a save is posted *)
(* from has to have named the lines the save frees.                        *)
(*                                                                         *)
(* A subject is a pair: <<r, 0>> is row r, and its payment (the movement   *)
(* that covers its settlement, by which an act names the row); <<r, n>> is *)
(* a purchase of r.  Figures and days are left out: which rows add up to a *)
(* line is the owner's choice, a group's difference may or may not mint a  *)
(* row.  Left out too are transfers, card purchases with their paybacks,   *)
(* merchants' standing answers, and other accounts' acts.  A door that     *)
(* refuses is rolled back and is no step; the doors of one owner are       *)
(* serial (RequestTransactions).                                           *)
(***************************************************************************)
EXTENDS Naturals, Sequences, FiniteSets, SequencesExt

CONSTANTS
    Lines,          \* statement lines a file of the bank's may hold
    Imports,        \* import acts
    Bills,          \* planned rows tracking no purchases
    Envelopes,      \* planned rows tracking purchases
    Spares,         \* rows an accepted match may create
    MaxPurchases,   \* bound: standing purchases of one row
    Doors           \* which forms are ever drawn

ASSUME BoundAssumption == MaxPurchases \in Nat
ASSUME DoorsAssumption == Doors \subseteq {"delete", "purchase", "card", "settle"}

Rows == Bills \cup Envelopes \cup Spares
Subjects == Rows \X (0..MaxPurchases)

VARIABLES
    seen,           \* line -> the imports that sighted it, {} when unrecorded
    skips,          \* lines said to be explained by nothing
    acts,           \* match acts, oldest first
    budget,         \* row -> [state, tracks]
    moves,          \* movements on the books
    elsewhere,      \* payments recorded on another account
    fresh,          \* created subjects at the version their act recorded
    page            \* the form the owner has open, or NoPage

vars == <<seen, skips, acts, budget, moves, elsewhere, fresh, page>>

NoPage == [door |-> "none", on |-> {}, named |-> {}, holds |-> {}]

Payment(r) == <<r, 0>>
Covers(m) == m[2] = 0
Purchases(r) == {m \in moves : m[1] = r /\ ~Covers(m)}
Standing(r) == budget[r].state # "none"
Paid(r) == budget[r].state = "paid"

\* settles_from_entries: a tracked row holding purchases costs what they do.
SettlesFromEntries(r) == budget[r].tracks /\ Purchases(r) # {}

(***************************************************************************)
(* Acts                                                                    *)
(***************************************************************************)

ActsOn == ToSet(acts)
MatchedLines == UNION {a.lines : a \in ActsOn}
Claimed == UNION {a.entries : a \in ActsOn}
Recorded == {l \in Lines : seen[l] # {}}

\* load_lines: what a new match may name.
Waiting == Recorded \ (MatchedLines \cup skips)

\* candidates_for, unmatched_rows.
OfferedRows ==
    {r \in Rows : /\ budget[r].state = "open" /\ ~SettlesFromEntries(r)
                  /\ Payment(r) \notin elsewhere \cup Claimed}

OfferedMoves ==
    {m \in moves \ (elsewhere \cup Claimed) : Covers(m) => Paid(m[1])}

\* takes_a_purchase: an open row, or one whose close booked its purchases.
TakesAPurchase(r) ==
    /\ Standing(r) /\ budget[r].tracks
    /\ Paid(r) => Payment(r) \notin moves

NextPurchase(r) ==
    IF \A n \in 1..MaxPurchases : <<r, n>> \in moves THEN {}
    ELSE {<<r, CHOOSE n \in 1..MaxPurchases :
                  /\ <<r, n>> \notin moves
                  /\ \A k \in 1..(n - 1) : <<r, k>> \in moves>>}

\* Mutant of EmptiedBy.
EmptiedByMutant(gone) == {a \in ActsOn : a.entries \cap gone # {}}

\* _loses_every_row: what an act stands on is going.
EmptiedBy(gone) == {a \in ActsOn : a.entries \subseteq gone}

Freed(gone) == UNION {a.lines : a \in EmptiedBy(gone)}

\* The acts at the positions keep, in their order.
Kept(some, keep) ==
    LET F[k \in 0..Len(some)] ==
            IF k = 0 THEN <<>>
            ELSE IF k \in keep THEN Append(F[k - 1], some[k])
            ELSE F[k - 1]
    IN F[Len(some)]

\* take_out_of_matches, and the cascade of the creation keys: an act emptied
\* goes, the others lose the movements, and no act creates what is gone.
Without(some, gone, subjects) ==
    LET left == [k \in 1..Len(some) |->
                    [some[k] EXCEPT !.entries = @ \ gone, !.made = @ \ subjects]]
    IN Kept(left, {k \in DOMAIN left : left[k].entries # {}})

(***************************************************************************)
(* Pages.  A door's form is drawn over what it would remove now, and posts *)
(* the lines that would free.                                              *)
(***************************************************************************)

\* The movements a door takes out for one of the things it was drawn on.
Removal(door, s) ==
    IF door = "delete" THEN {m \in moves : m[1] = s[1]}
    ELSE IF door = "purchase" THEN {s} \cap moves
    ELSE IF door = "settle" THEN
        IF SettlesFromEntries(s[1]) THEN {Payment(s[1])} \cap moves ELSE {}
    ELSE {Payment(s[1])} \cap moves

RemovalOf(door, on) == UNION {Removal(door, s) : s \in on}

\* pending_alone_and_together, NamedLines.for_ticks: an act one of the ticked
\* rows empties alone, and an act several empty together when all are ticked.
Named(door, on) ==
    LET Keys(a) == {s \in Subjects : Covers(s) = (door # "purchase")
                                     /\ Removal(door, s) \cap a.entries # {}}
        Alone(a) == \E s \in on : a.entries \subseteq Removal(door, s)
        Shared(a) == /\ a.entries \subseteq RemovalOf(door, Keys(a))
                     /\ Keys(a) \subseteq on
    IN UNION {a.lines : a \in {b \in ActsOn : Alone(b) \/ Shared(b)}}

\* What a form of the door can be drawn on.
Drawable(door) ==
    CASE door = "delete"   -> {{Payment(r)} : r \in {q \in Rows : Standing(q)}}
      [] door = "purchase" ->
            {{m} : m \in {q \in moves : ~Covers(q)
                                        /\ (Paid(q[1]) => Payment(q[1]) \notin moves)}}
      [] door = "card"     -> {{Payment(r)} : r \in {q \in Rows : Paid(q)}}
      [] door = "settle"   ->
            {{Payment(r) : r \in some} :
                 some \in SUBSET {q \in Rows : budget[q].state = "open"} \ {{}}}

Held(on) == UNION {Purchases(s[1]) : s \in on}

DrawPage(door, on) ==
    /\ page = NoPage
    /\ page' = [door |-> door, on |-> on, named |-> Named(door, on),
                holds |-> IF door = "delete" THEN Held(on) ELSE {}]
    /\ UNCHANGED <<seen, skips, acts, budget, moves, elsewhere, fresh>>

ClosePage ==
    /\ page # NoPage /\ page' = NoPage
    /\ UNCHANGED <<seen, skips, acts, budget, moves, elsewhere, fresh>>

\* Press: compared once for the save.  A card's save is compared when it took
\* a movement out; the panel promised what it named, and is always compared.
PressAdmits(gone, promised) ==
    (promised \/ gone # {}) => Freed(gone) = page.named

\* A form over something that is gone answers that it is gone.
Reopened(subjects) == IF page.on \cap subjects # {} THEN NoPage ELSE page

(***************************************************************************)
(* Imports                                                                 *)
(***************************************************************************)

OnFile(i) == \E l \in Lines : i \in seen[l]

\* record_statement: a line already held gets another sighting.
RecordStatement(i, file) ==
    /\ ~OnFile(i) /\ file # {}
    /\ seen' = [l \in Lines |-> seen[l] \cup (IF l \in file THEN {i} ELSE {})]
    /\ UNCHANGED <<skips, acts, budget, moves, elsewhere, fresh, page>>

(***************************************************************************)
(* Undo                                                                    *)
(***************************************************************************)

\* What releasing the acts numbered by released takes back, oldest first.
MadeAndNamed(k) == acts[k].made \cap acts[k].entries

\* Mutant of TakenBack.
TakenBackMutant(released) == {}

TakenBack(released) == UNION {MadeAndNamed(k) : k \in released}

\* Mutant of ContainerEmptied.
ContainerEmptiedMutant(s, k, released) == s \in fresh

\* _container_survives.
ContainerEmptied(s, k, released) ==
    /\ s \in fresh
    /\ Purchases(s[1]) \subseteq TakenBack({j \in released : j <= k})

Emptied(released) ==
    UNION {{s \in acts[k].made \ acts[k].entries : ContainerEmptied(s, k, released)} :
               k \in released}

\* Mutant of Undoable.
UndoableMutant(k) ==
    \A s \in MadeAndNamed(k) : ~Covers(s) /\ Paid(s[1]) => Payment(s[1]) \notin moves

\* planned_removals: an edited subject refuses, and so does one its own door
\* would refuse to remove.
Undoable(k) ==
    \A s \in MadeAndNamed(k) :
        /\ s \in fresh
        /\ ~Covers(s) /\ Paid(s[1]) => Payment(s[1]) \notin moves

Removed(released) == TakenBack(released) \cup Emptied(released)
GoneRows(released) == {s[1] : s \in {q \in Removed(released) : Covers(q)}}
GoneMoves(released) ==
    {m \in moves : m \in TakenBack(released) \/ m[1] \in GoneRows(released)}

Others(released) == Kept(acts, DOMAIN acts \ released)

\* The doors a release removes rows through: each is a press of its own that
\* names nothing, and the row's door names no purchase.
DoorsAdmit(released) ==
    LET others == ToSet(Others(released))
    IN /\ \A a \in others : ~(a.entries \subseteq GoneMoves(released))
       /\ \A r \in GoneRows(released) : Purchases(r) \subseteq TakenBack(released)

TakeBack(released) ==
    /\ \A k \in released : Undoable(k)
    /\ DoorsAdmit(released)
    /\ acts' = Without(Others(released), GoneMoves(released), Removed(released))
    /\ moves' = moves \ GoneMoves(released)
    /\ elsewhere' = elsewhere \ GoneMoves(released)
    /\ fresh' = fresh \ (Removed(released) \cup GoneMoves(released))
    /\ budget' = [r \in Rows |-> IF r \in GoneRows(released)
                                 THEN [budget[r] EXCEPT !.state = "none"] ELSE budget[r]]
    /\ page' = Reopened(Removed(released) \cup GoneMoves(released))

\* release_match: the act first, then what it created.
ReleaseMatch(k) ==
    /\ k \in DOMAIN acts
    /\ TakeBack({k})
    /\ UNCHANGED <<seen, skips>>

\* delete_import: every act naming a line no other import sighted, then those
\* lines and what was said of them.
SoleLines(i) == {l \in Lines : seen[l] = {i}}

\* Mutant of ActsOfImport.
ActsOfImportMutant(i) ==
    {k \in DOMAIN acts : acts[k].lines \subseteq SoleLines(i)}

ActsOfImport(i) == {k \in DOMAIN acts : acts[k].lines \cap SoleLines(i) # {}}

DeleteImport(i) ==
    /\ OnFile(i)
    /\ TakeBack(ActsOfImport(i))
    /\ seen' = [l \in Lines |-> seen[l] \ {i}]
    /\ skips' = skips \ SoleLines(i)

(***************************************************************************)
(* Explaining lines                                                        *)
(***************************************************************************)

Act(lines, entries, made) == [lines |-> lines, entries |-> entries, made |-> made]
Unused == {r \in Spares : ~Standing(r)}

\* accept_match, record_match: at least one line and one movement.  A planned
\* row is paid, its payment made if it kept none; a movement is moved to the
\* line's day, which edits it and its row; a difference may mint a row.
AcceptMatch(lines, rows, entries, minted) ==
    LET payments == {Payment(r) : r \in rows}
        touched == entries \cup payments \cup {Payment(m[1]) : m \in {e \in entries : Covers(e)}}
        created == {Payment(r) : r \in minted}
    IN /\ lines # {} /\ rows \cup entries # {}
       /\ lines \subseteq Waiting /\ rows \subseteq OfferedRows /\ entries \subseteq OfferedMoves
       /\ minted \subseteq Unused /\ Cardinality(minted) <= 1
       /\ acts' = Append(acts, Act(lines, entries \cup payments \cup created, created))
       /\ budget' = [r \in Rows |->
                        IF r \in rows THEN [budget[r] EXCEPT !.state = "paid"]
                        ELSE IF r \in minted THEN [state |-> "paid", tracks |-> FALSE]
                        ELSE budget[r]]
       /\ moves' = moves \cup payments \cup created
       /\ fresh' = (fresh \ touched) \cup created
       /\ UNCHANGED <<seen, skips, elsewhere, page>>

\* create_purchase_from_line into a row the account has.  A row picked by its
\* definition is closed again on the line's day if that is later.
FilePurchase(l, r, recloses) ==
    \E p \in NextPurchase(r) :
        /\ l \in Waiting /\ TakesAPurchase(r) /\ (recloses => Paid(r))
        /\ acts' = Append(acts, Act({l}, {p}, {p}))
        /\ moves' = moves \cup {p}
        /\ fresh' = (fresh \ (IF recloses THEN {Payment(r)} ELSE {})) \cup {p}
        /\ UNCHANGED <<seen, skips, budget, elsewhere, page>>

\* The same into an envelope the act makes, closed from its purchases.
FileIntoNew(l, r) ==
    /\ l \in Waiting /\ r \in Unused /\ MaxPurchases > 0
    /\ acts' = Append(acts, Act({l}, {<<r, 1>>}, {<<r, 1>>, Payment(r)}))
    /\ budget' = [budget EXCEPT ![r] = [state |-> "paid", tracks |-> TRUE]]
    /\ moves' = moves \cup {<<r, 1>>}
    /\ fresh' = fresh \cup {<<r, 1>>, Payment(r)}
    /\ UNCHANGED <<seen, skips, elsewhere, page>>

\* record_income_from_line.
RecordIncome(l, r) ==
    /\ l \in Waiting /\ r \in Unused
    /\ acts' = Append(acts, Act({l}, {Payment(r)}, {Payment(r)}))
    /\ budget' = [budget EXCEPT ![r] = [state |-> "paid", tracks |-> FALSE]]
    /\ moves' = moves \cup {Payment(r)}
    /\ fresh' = fresh \cup {Payment(r)}
    /\ UNCHANGED <<seen, skips, elsewhere, page>>

\* skip_line: a line already skipped keeps its skip.
SkipLine(l) ==
    /\ l \in Recorded /\ l \notin MatchedLines
    /\ skips' = skips \cup {l}
    /\ UNCHANGED <<seen, acts, budget, moves, elsewhere, fresh, page>>

UnskipLine(l) ==
    /\ l \in skips
    /\ skips' = skips \ {l}
    /\ UNCHANGED <<seen, acts, budget, moves, elsewhere, fresh, page>>

(***************************************************************************)
(* The doors of the budget                                                 *)
(***************************************************************************)

\* remove_movements: the acts' step, then the movements.  A payment gone, or
\* moved, is an edit of its row.
TakeOut(gone) ==
    /\ acts' = Without(acts, gone, gone \ {m \in gone : Covers(m)})
    /\ moves' = moves \ gone
    /\ elsewhere' = elsewhere \ gone
    /\ fresh' = fresh \ gone

\* delete_transaction: the row, its payment, and the purchases the form named.
DeleteRow ==
    \E s \in page.on :
        LET gone == Removal("delete", s)
        IN /\ page.door = "delete" /\ page.holds = Held(page.on)
           /\ PressAdmits(gone, FALSE)
           /\ acts' = Without(acts, gone, gone \cup {s})
           /\ budget' = [budget EXCEPT ![s[1]].state = "none"]
           /\ moves' = moves \ gone /\ elsewhere' = elsewhere \ gone
           /\ fresh' = fresh \ (gone \cup {s})
           /\ page' = NoPage
           /\ UNCHANGED <<seen, skips>>

\* delete_entry: a purchase of a row whose close booked no figure of its own.
DeletePurchase ==
    \E s \in page.on :
        /\ page.door = "purchase"
        /\ Paid(s[1]) => Payment(s[1]) \notin moves
        /\ PressAdmits({s}, FALSE)
        /\ TakeOut({s})
        /\ page' = NoPage
        /\ UNCHANGED <<seen, skips, budget>>

\* A settled row's figure stated as nothing withdraws its payment (_cover).
RecordNothing ==
    \E s \in page.on :
        LET gone == Removal("card", s)
        IN /\ page.door = "card" /\ Paid(s[1]) /\ ~SettlesFromEntries(s[1])
           /\ PressAdmits(gone, FALSE)
           /\ TakeOut(gone)
           /\ page' = NoPage
           /\ UNCHANGED <<seen, skips, budget>>

\* _re_point: a payment moved to another account leaves this one's acts; one
\* brought back was in none of them.
RePoint ==
    \E s \in page.on :
        /\ page.door = "card" /\ Paid(s[1]) /\ s \in moves
        /\ PressAdmits({s}, FALSE)
        /\ acts' = Without(acts, {s}, {})
        /\ elsewhere' = IF s \in elsewhere THEN elsewhere \ {s} ELSE elsewhere \cup {s}
        /\ fresh' = fresh \ {s}
        /\ page' = NoPage
        /\ UNCHANGED <<seen, skips, budget, moves>>

\* What settling the rows leaves: those holding purchases close from them and
\* withdraw a payment they kept, the others hold a payment.
Settle(rows) ==
    LET gone == RemovalOf("settle", {Payment(r) : r \in rows})
        paying == {Payment(r) : r \in {q \in rows : ~SettlesFromEntries(q)}}
    IN /\ acts' = Without(acts, gone, {})
       /\ budget' = [r \in Rows |-> IF r \in rows THEN [budget[r] EXCEPT !.state = "paid"]
                                    ELSE budget[r]]
       /\ moves' = (moves \ gone) \cup paying
       /\ elsewhere' = elsewhere \ gone
       /\ fresh' = fresh \ {Payment(r) : r \in rows}

OpenRows == {r \in Rows : budget[r].state = "open"}

\* record_outstanding: the panel's ticks, one save.
SettleTicked ==
    LET rows == {s[1] : s \in page.on}
    IN /\ page.door = "settle" /\ rows \subseteq OpenRows
       /\ PressAdmits(RemovalOf("settle", page.on), TRUE)
       /\ Settle(rows)
       /\ page' = NoPage
       /\ UNCHANGED <<seen, skips>>

\* The owner's one-click is silent; a companion's is refused any line.
MarkPaid(r) ==
    /\ r \in OpenRows
    /\ Settle({r})
    /\ UNCHANGED <<seen, skips, page>>

\* Mutant of CompanionMay.
CompanionMayMutant(r) == TRUE

CompanionMay(r) == Freed(Removal("settle", Payment(r))) = {}

CompanionMarksPaid(r) ==
    /\ r \in OpenRows /\ CompanionMay(r)
    /\ Settle({r})
    /\ UNCHANGED <<seen, skips, page>>

\* A row set back to Projected keeps its payment.
Revert(r) ==
    /\ Paid(r)
    /\ budget' = [budget EXCEPT ![r].state = "open"]
    /\ fresh' = fresh \ {Payment(r)}
    /\ UNCHANGED <<seen, skips, acts, moves, elsewhere, page>>

\* create_entry, by hand.
AddPurchase(r) ==
    \E p \in NextPurchase(r) :
        /\ TakesAPurchase(r)
        /\ moves' = moves \cup {p}
        /\ UNCHANGED <<seen, skips, acts, budget, elsewhere, fresh, page>>

\* Any other write of a row or a purchase moves its version.
Edit(s) ==
    /\ s \in fresh
    /\ fresh' = fresh \ {s}
    /\ UNCHANGED <<seen, skips, acts, budget, moves, elsewhere, page>>

(***************************************************************************)
(* Specification                                                           *)
(***************************************************************************)

Init ==
    /\ seen = [l \in Lines |-> {}] /\ skips = {} /\ acts = <<>>
    /\ budget = [r \in Rows |-> [state |-> IF r \in Spares THEN "none" ELSE "open",
                                 tracks |-> r \in Envelopes]]
    /\ moves = {} /\ elsewhere = {} /\ fresh = {} /\ page = NoPage

Next ==
    \/ \E i \in Imports : DeleteImport(i) \/ \E file \in SUBSET Lines : RecordStatement(i, file)
    \/ \E k \in DOMAIN acts : ReleaseMatch(k)
    \/ \E lines \in SUBSET Waiting \ {{}}, rows \in SUBSET OfferedRows,
          entries \in SUBSET OfferedMoves, minted \in SUBSET Unused :
          AcceptMatch(lines, rows, entries, minted)
    \/ \E l \in Lines, r \in Rows :
          \/ \E recloses \in BOOLEAN : FilePurchase(l, r, recloses)
          \/ FileIntoNew(l, r) \/ RecordIncome(l, r)
    \/ \E l \in Lines : SkipLine(l) \/ UnskipLine(l)
    \/ \E door \in Doors : \E on \in Drawable(door) : DrawPage(door, on)
    \/ ClosePage
    \/ DeleteRow \/ DeletePurchase \/ RecordNothing \/ RePoint \/ SettleTicked
    \/ \E r \in Rows :
          MarkPaid(r) \/ CompanionMarksPaid(r) \/ Revert(r) \/ AddPurchase(r)
    \/ \E s \in fresh : Edit(s)

Spec == Init /\ [][Next]_vars

(***************************************************************************)
(* Properties                                                              *)
(***************************************************************************)

TypeOK ==
    /\ seen \in [Lines -> SUBSET Imports] /\ skips \subseteq Lines
    /\ \A a \in ActsOn : /\ a.lines \subseteq Lines
                         /\ a.entries \subseteq Subjects /\ a.made \subseteq Subjects
    /\ budget \in [Rows -> [state : {"none", "open", "paid"}, tracks : BOOLEAN]]
    /\ moves \subseteq Subjects /\ elsewhere \subseteq moves /\ fresh \subseteq Subjects
    /\ page.on \cup page.holds \subseteq Subjects /\ page.named \subseteq Lines

\* A match stands on both its sides whatever door a line or a movement left
\* by: its lines are recorded, its movements are on the books and on this
\* account (match_withdrawal's "an act naming no app row is unrepresentable").
ActsNameBothSides ==
    \A a \in ActsOn : /\ a.lines # {} /\ a.lines \subseteq Recorded
                      /\ a.entries # {} /\ a.entries \subseteq moves \ elsewhere

\* A line has one answer and a movement explains one act: acts share neither
\* lines nor movements, and a skipped line is recorded and matched by none.
OneAnswerPerLine ==
    /\ \A j, k \in DOMAIN acts : j # k =>
          /\ acts[j].lines \cap acts[k].lines = {}
          /\ acts[j].entries \cap acts[k].entries = {}
          /\ acts[j].made \cap acts[k].made = {}
    /\ skips \subseteq Recorded \ MatchedLines

\* Matches are whole, and exclusive.
MatchesAreWhole == TypeOK /\ ActsNameBothSides /\ OneAnswerPerLine

\* No line is counted twice: what was created from a line, and is as the act
\* left it, is named by that act still.  Otherwise its line waits, is recorded
\* again, and nothing takes the first record back (findings N-333, N-340).
CreatedRowsKeepTheirLine ==
    \A s \in fresh :
        ~(Covers(s) /\ budget[s[1]].tracks)
            => \E a \in ActsOn : s \in a.entries /\ s \in a.made

\* An undo that is offered is carried out: no door it removes a row through
\* meets another act, or a purchase the undo does not take back
\* (planned_removals: all refusals "are asked before anything is written").
UndoFinishes ==
    \A k \in DOMAIN acts : Undoable(k) => DoorsAdmit({k})

\* A row drawn now is saved now: the lines its form names are the lines the
\* save frees, alone or ticked with others (finding CC-384).
FreshPagesSave ==
    \A door \in Doors : \A on \in Drawable(door) :
        Named(door, on) = Freed(RemovalOf(door, on))

\* Undoing a match, or an import, never takes what the owner entered or has
\* edited since: a step by which more than fresh creations of the acts on file
\* leaves the books is not an undo.
UndoTakesOnlyItsOwn ==
    [][\/ ~(moves \ moves' \subseteq fresh \cap UNION {a.made : a \in ActsOn})
       \/ \E r \in {q \in Rows : Standing(q)} : ~Standing(r)' /\ Payment(r) \notin fresh
       => /\ \A k \in DOMAIN acts : ~ReleaseMatch(k)
          /\ \A i \in Imports : ~DeleteImport(i)]_<<moves, budget>>

\* What another import also saw stays recorded, and a match leaves with an
\* import only when a line of it does: no step that breaks either removes one.
SharedLinesStay ==
    [][\A i \in {j \in Imports : OnFile(j) /\ ~OnFile(j)'} :
          \/ \E l \in Recorded \ Recorded' : seen[l] # {i}
          \/ \E a \in ActsOn \ ToSet(acts') : a.lines \subseteq Recorded'
          => ~DeleteImport(i)]_seen

\* An undo, of a match or of an import, takes back its own and no more.
UndosTakeTheirOwn == UndoTakesOnlyItsOwn /\ SharedLinesStay

\* A line loses its match only where the owner asked for it or was told: by
\* an undo, by the removal of an import, by a save whose page named it, or by
\* the owner's own Mark Paid of the row (R-CC56); never by a companion.
FreedLinesWereNamed ==
    [][\A l \in MatchedLines \ MatchedLines' :
          \/ \E k \in DOMAIN acts : ReleaseMatch(k)
          \/ \E i \in Imports : DeleteImport(i)
          \/ page' = NoPage /\ l \in page.named
          \/ \E r \in Rows : /\ MarkPaid(r) /\ ~CompanionMarksPaid(r)
                             /\ Payment(r) \in Claimed \ Claimed']_acts

=============================================================================
