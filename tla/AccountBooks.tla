---------------------------- MODULE AccountBooks ----------------------------
(***************************************************************************)
(* The books of an owner's cash accounts and the ledger posted for them.   *)
(*                                                                         *)
(* A movement (budget.transaction_entries) is the money a row moved: the   *)
(* covering movement of a settled bill or a purchase of an envelope.  A    *)
(* dated movement is posted to the append-only ledger (posting_service,    *)
(* _posting_write); an account also has an opening (account_openings) and  *)
(* balances its owner asserted (account_anchor_history), whose corrections *)
(* are posted so that the ledger reads what was asserted                   *)
(* (account_posting_service).  Every door edits rows, posts the DELTA      *)
(* between target and ledger, and re-checks the corrections of the         *)
(* accounts it believes it touched, when it believes they can have moved.  *)
(***************************************************************************)
EXTENDS Integers, Sequences, FiniteSets, Functions

CONSTANTS
    Accounts,       \* the owner's checking account and cards: what a row may be paid from
    Movements,      \* movements, one to a row
    Purchases,      \* those that are an envelope's purchase; the others cover a bill
    RowAccount,     \* Transaction.account_id, the account of a movement's row
    Categories,     \* Transaction.category_id, each with a ledger account
    Periods,        \* pay periods
    LastDay,        \* today: the days 1..LastDay can be recorded
    Amounts,        \* a movement's signed cash leg
    Balances,       \* asserted balances
    Equities,       \* what the books may open with
    MaxAsserts      \* bound: assertions of one account, its first one included

ASSUME AccountsAssumption == /\ IsFiniteSet(Accounts) /\ IsFiniteSet(Movements)
                             /\ IsFiniteSet(Periods) /\ Accounts \cap Categories = {}
ASSUME MovementsAssumption == /\ Purchases \subseteq Movements
                              /\ RowAccount \in [Movements -> Accounts]
                              /\ Categories # {} /\ Periods # {} /\ Amounts # {}
ASSUME AmountsAssumption == /\ Amounts \subseteq Int \ {0}
                            /\ Balances \subseteq Int /\ Equities \subseteq Balances
ASSUME BooksBoundAssumption == LastDay \in Nat /\ MaxAsserts \in Nat \ {0}

Days == 1..LastDay
Typed == 1..(LastDay + 1)   \* what a date box may say, tomorrow included
Undated == 0        \* settled_on is None: the money has not been seen to move
NoLink == 0         \* reconciled_by_id is None

VARIABLES
    mv,             \* the movements with the columns of their rows
    said,           \* account -> its assertions, in the order they were recorded
    open,           \* account -> its governing opening
    posted,         \* movement -> net posted for it, by period, day and ledger
    corr,           \* account -> net of its posted corrections, by kind and day
    booked,         \* accounts a correction entry was ever posted for
    vacated         \* history: accounts a movement left without a re-check since

rows == <<mv, said, open>>
ledger == <<posted, corr, booked, vacated>>
vars == <<rows, ledger>>

Row == [acct : Accounts, day : Days \cup {Undated}, amt : Amounts,
        cat : Categories, per : Periods, link : 0..MaxAsserts]
Assertion == [day : Days, bal : Balances]
Opening == [day : Days, equity : Equities]
Kinds == {"opening", "trueup"}
Keys == Periods \X Days \X (Accounts \cup Categories)

\* The facts a walk reads and the nets it reads them against.
Books(mvs, nets, asserted, opened) ==
    [mv |-> mvs, net |-> nets, said |-> asserted, open |-> opened]

(***************************************************************************)
(* Posting a movement.                                                     *)
(***************************************************************************)

\* _purchase_target: a dated movement posts its cash leg to its account's
\* ledger and the opposite leg to its row's category, in the row's period.
PurchaseTarget(r) ==
    [k \in Keys |->
        IF k[1] # r.per \/ k[2] # r.day THEN 0
        ELSE IF k[3] = r.acct THEN r.amt
        ELSE IF k[3] = r.cat THEN -r.amt
        ELSE 0]

NothingPosted == [k \in Keys |-> 0]

\* Mutant of DeltaKeys: the keys a movement left are not visited.
DeltaKeysOfTarget(m, r) ==
    {k \in Keys : /\ PurchaseTarget(r)[k] # posted[m][k]
                  /\ k[1] = r.per /\ k[2] = r.day}

\* reconcile_periods: the keys, of the target or already posted, that differ.
DeltaKeys(m, r) == {k \in Keys : PurchaseTarget(r)[k] # posted[m][k]}

\* emit_source_deltas: append the difference under each of them.
EmitDeltas(m, r) ==
    [posted EXCEPT ![m] =
        [k \in Keys |-> @[k] + IF k \in DeltaKeys(m, r)
                               THEN PurchaseTarget(r)[k] - @[k] ELSE 0]]

(***************************************************************************)
(* The account walk: corrections that make the ledger read what was said.   *)
(***************************************************************************)

\* Mutant of Earlier: assertions in the order they were recorded.
EarlierRecorded(s, i, j) == i < j

\* The order of cash_anchor_facts: the day observed, then the order recorded.
Earlier(s, i, j) ==
    s[i].day < s[j].day \/ (s[i].day = s[j].day /\ i < j)

\* The last of the assertions I of s in that order, and the first of them.
LastOf(s, I) == CHOOSE i \in I : \A j \in I \ {i} : Earlier(s, j, i)
FirstOf(s, I) == CHOOSE i \in I : \A j \in I \ {i} : Earlier(s, i, j)

\* _governing_row: the assertion in force on day d, 0 when there is none.
GoverningOn(s, d) ==
    LET I == {i \in DOMAIN s : s[i].day <= d}
    IN IF I = {} THEN 0 ELSE LastOf(s, I)

\* Mutant of FirstCovering: an assertion does not cover its own day.
FirstCoveringStrict(s, d) ==
    LET I == {i \in DOMAIN s : s[i].day > d}
    IN IF I = {} THEN NoLink ELSE FirstOf(s, I)

\* _first_covering: an assertion is the closing balance of its day, so the
\* first one on or after day d has the money of day d inside it.
FirstCovering(s, d) ==
    LET I == {i \in DOMAIN s : s[i].day >= d}
    IN IF I = {} THEN NoLink ELSE FirstOf(s, I)

\* clearing_anchor_id: a recorded link is honoured among the assertions of the
\* day the date rule names.
ClearingAssertion(s, r) ==
    LET c == FirstCovering(s, r.day)
    IN IF r.link # NoLink /\ c # NoLink /\ s[r.link].day = s[c].day THEN r.link ELSE c

\* _source_net_days: what a movement has posted on an account's linked ledger.
SourceNet(b, a, m) == SumFunctionOnSet(b.net[m], {k \in Keys : k[3] = a})

Cleared(b, a, i) ==
    SumFunctionOnSet([m \in Movements |-> SourceNet(b, a, m)],
                     {m \in Movements : /\ SourceNet(b, a, m) # 0
                                        /\ ClearingAssertion(b.said[a], b.mv[m]) = i})

\* The running total just before assertion i: the one before it, or the opening
\* equity, and what i cleared.
LedgerBefore(b, a, i) ==
    LET I == {j \in DOMAIN b.said[a] : Earlier(b.said[a], j, i)}
    IN Cleared(b, a, i) + IF I = {} THEN b.open[a].equity
                          ELSE b.said[a][LastOf(b.said[a], I)].bal

\* walk_account_ledger and _account_anchor_correction_targets: an account books
\* its opening, and on each asserted day what the ledger is off by.
CorrectionTarget(b, a) ==
    [k \in Kinds \X Days |->
        IF k[1] = "opening"
        THEN IF k[2] = b.open[a].day THEN b.open[a].equity ELSE 0
        ELSE SumFunction([i \in {i \in DOMAIN b.said[a] : b.said[a][i].day = k[2]} |->
                              b.said[a][i].bal - LedgerBefore(b, a, i)])]

\* sync_account_anchor_postings for the accounts S: append what their
\* corrections lack.  A delta of nothing posts nothing.
SyncAnchors(b, S, left) ==
    /\ corr' = [a \in Accounts |-> IF a \in S THEN CorrectionTarget(b, a) ELSE corr[a]]
    /\ booked' = booked \cup {a \in Accounts : corr'[a] # corr[a]}
    /\ vacated' = (vacated \cup left) \ S

\* reconciled_through(a).covers: some assertion is on or after one of the days.
Covered(a, days) == \E d \in days, i \in DOMAIN said[a] : d <= said[a][i].day

\* Mutant of FamilyAccounts: the row's own account only.
RowAccountOnly(m, r) == {RowAccount[m]}

\* _family_accounts: the row's account and the one its movement is on now.
FamilyAccounts(m, r) == {RowAccount[m], r.acct}

\* sync_transaction_postings for the row r of m: post the deltas, then
\* self_heal_anchor_corrections of its accounts if there were any.
Rebook(m, r, left) ==
    LET days == {k[2] : k \in DeltaKeys(m, r)}
        b == Books([mv EXCEPT ![m] = r], EmitDeltas(m, r), said, open)
    IN /\ posted' = b.net
       /\ SyncAnchors(b, {a \in FamilyAccounts(m, r) :
                            /\ days # {}
                            /\ Covered(a, days) \/ a \notin booked}, left)

\* The rows a movement can begin as: undated, and a bill's on its own account.
NewRows(m) ==
    {r \in [acct : Accounts, day : {Undated}, amt : Amounts,
            cat : Categories, per : Periods, link : {NoLink}] :
        m \in Purchases \/ r.acct = RowAccount[m]}

(***************************************************************************)
(* The doors.                                                              *)
(***************************************************************************)

\* books_hold and reject_future_settle_day: an opening is its day's closing
\* balance, so money moves on a later day, up to today.  A bill has the day on
\* its row too, which is graded against the row's account.
RecordableDays(m, a) ==
    {d \in Days : /\ d > open[a].day
                  /\ m \in Purchases \/ d > open[RowAccount[m]].day}

\* Save row r of m and re-book it.
Save(m, r, left) ==
    /\ Rebook(m, r, left)
    /\ mv' = [mv EXCEPT ![m] = r]
    /\ UNCHANGED <<said, open>>

\* settle_transaction, or a purchase's posting day: the money moved through
\* account a on day d.  A bill is paid from the tender its door names, a
\* purchase from the account it was recorded on.
Settle(m, a, d) ==
    /\ mv[m].day = Undated
    /\ m \in Purchases => a = mv[m].acct
    /\ d \in RecordableDays(m, a)
    /\ Save(m, [mv[m] EXCEPT !.acct = a, !.day = d], {})

\* record_settle_day on a settled row: the day moves, the link is released.
Redate(m, d) ==
    /\ mv[m].day \notin {Undated, d}
    /\ d \in RecordableDays(m, mv[m].acct)
    /\ Save(m, [mv[m] EXCEPT !.day = d, !.link = NoLink], {})

\* A status out of the settled band, or a purchase's day cleared: the movement
\* stays, undated.
Revert(m) ==
    /\ mv[m].day # Undated
    /\ Save(m, [mv[m] EXCEPT !.day = Undated, !.link = NoLink], {})

\* correction_record, or an edited purchase: another figure moved.
CorrectAmount(m, v) ==
    /\ v # mv[m].amt
    /\ Save(m, [mv[m] EXCEPT !.amt = v], {})

\* _re_point: one save of a settled bill names another account it was paid
\* from, and possibly another day.
RePoint(m, a, d) ==
    /\ m \notin Purchases
    /\ mv[m].day # Undated
    /\ a # mv[m].acct
    /\ d \in RecordableDays(m, a)
    /\ Save(m, [mv[m] EXCEPT !.acct = a, !.day = d, !.link = NoLink], {mv[m].acct})

\* The category and pay period of a row that is not settled: a bill whose
\* movement is undated, or an envelope whatever its purchases' days.
MoveRow(m, c, p) ==
    /\ m \in Purchases \/ mv[m].day = Undated
    /\ <<c, p>> # <<mv[m].cat, mv[m].per>>
    /\ Save(m, [mv[m] EXCEPT !.cat = c, !.per = p], {})

\* reverse_postings_before_delete, and the next row to be written.
Delete(m) ==
    /\ Rebook(m, [mv[m] EXCEPT !.day = Undated], {})
    /\ \E r \in NewRows(m) : mv' = [mv EXCEPT ![m] = r]
    /\ UNCHANGED <<said, open>>

\* The reconcile panel's tick: settle on the day of the governing statement of
\* the account the money is on, and name the statement.  A purchase is stamped
\* with both and then re-booked; a bill is settled, re-booked, and only then
\* linked.
Tick(m) ==
    LET a == mv[m].acct
        g == GoverningOn(said[a], LastDay)
        dated == [mv[m] EXCEPT !.day = said[a][g].day]
        linked == [dated EXCEPT !.link = g]
    IN /\ mv[m].day = Undated
       /\ dated.day \in RecordableDays(m, a)
       /\ Rebook(m, IF m \in Purchases THEN linked ELSE dated, {})
       /\ mv' = [mv EXCEPT ![m] = linked]
       /\ UNCHANGED <<said, open>>

\* apply_anchor_true_up: append an assertion unless it repeats the one in force
\* on that day, and re-base the account.
TrueUp(a, d, v) ==
    LET g == GoverningOn(said[a], d)
    IN /\ Len(said[a]) < MaxAsserts
       /\ g # 0 => said[a][g] # [day |-> d, bal |-> v]
       /\ said' = [said EXCEPT ![a] = Append(@, [day |-> d, bal |-> v])]
       /\ SyncAnchors(Books(mv, posted, said', open), {a}, {})
       /\ UNCHANGED <<mv, open, posted>>

\* apply_opening_restatement: refused when the books would open on or after a
\* recorded movement, or after an asserted day.
RestateOpening(a, d, v) ==
    /\ [day |-> d, equity |-> v] # open[a]
    /\ \A m \in Movements : mv[m].acct = a /\ mv[m].day # Undated => d < mv[m].day
    /\ \A i \in DOMAIN said[a] : d <= said[a][i].day
    /\ open' = [open EXCEPT ![a] = [day |-> d, equity |-> v]]
    /\ SyncAnchors(Books(mv, posted, said, open'), {a}, {})
    /\ UNCHANGED <<mv, said, posted>>

\* The deploy: resync_all_cash_postings, then every account's corrections.
Deploy ==
    /\ posted' = [m \in Movements |-> PurchaseTarget(mv[m])]
    /\ SyncAnchors(Books(mv, posted', said, open), Accounts, {})
    /\ UNCHANGED rows

(***************************************************************************)
(* The specification.                                                      *)
(***************************************************************************)

\* create_account: the books open on a day with a balance, which is also the
\* account's first assertion, and its corrections are posted.
Init ==
    /\ mv \in [Movements -> Row]
    /\ \A m \in Movements : mv[m] \in NewRows(m)
    /\ open \in [Accounts -> Opening]
    /\ said = [a \in Accounts |-> <<[day |-> open[a].day, bal |-> open[a].equity]>>]
    /\ posted = [m \in Movements |-> NothingPosted]
    /\ corr = [a \in Accounts |-> CorrectionTarget(Books(mv, posted, said, open), a)]
    /\ booked = {a \in Accounts : \E k \in DOMAIN corr[a] : corr[a][k] # 0}
    /\ vacated = {}

MovementDoor(m) ==
    \/ \E a \in Accounts, d \in Typed : Settle(m, a, d) \/ RePoint(m, a, d)
    \/ \E d \in Typed : Redate(m, d)
    \/ Revert(m)
    \/ \E v \in Amounts : CorrectAmount(m, v)
    \/ \E c \in Categories, p \in Periods : MoveRow(m, c, p)
    \/ Delete(m)
    \/ Tick(m)

AccountDoor(a) ==
    \E d \in Days : \/ \E v \in Balances : TrueUp(a, d, v)
                    \/ \E v \in Equities : RestateOpening(a, d, v)

Next ==
    \/ \E m \in Movements : MovementDoor(m)
    \/ \E a \in Accounts : AccountDoor(a)
    \/ Deploy

Spec == Init /\ [][Next]_vars

(***************************************************************************)
(* Properties.                                                             *)
(***************************************************************************)

\* A link names an assertion of the account its movement is on, and only a
\* dated movement has one (fk_transaction_entries_reconciled_by and
\* ck_transaction_entries_cleared_needs_settle_day).
LinkOK(m) == /\ mv[m].link \in 0..Len(said[mv[m].acct])
             /\ mv[m].day = Undated => mv[m].link = NoLink

\* The rows and the ledger of movements hold values of their kinds.
FactsTypeOK ==
    /\ mv \in [Movements -> Row]
    /\ said \in [Accounts -> Seq(Assertion)]
    /\ \A a \in Accounts : Len(said[a]) \in 1..MaxAsserts
    /\ \A m \in Movements : LinkOK(m)
    /\ open \in [Accounts -> Opening]
    /\ posted \in [Movements -> [Keys -> Int]]
    /\ booked \subseteq Accounts
    /\ vacated \subseteq Accounts

\* Every variable holds a value of its kind.
TypeOK == FactsTypeOK /\ corr \in [Accounts -> [Kinds \X Days -> Int]]

\* Whatever was re-dated, re-priced, re-pointed, re-filed, reverted or deleted
\* in whatever order, the append-only ledger nets, under every period, day and
\* ledger account it ever touched, to what the movement says now.
SourcesAtTarget == \A m \in Movements : posted[m] = PurchaseTarget(mv[m])

Now == Books(mv, posted, said, open)

\* Although a door re-checks an account only when it believes it must, and a
\* clearing link is recorded without any re-check, the posted corrections are
\* always the ones a full walk would post, for every account no movement was
\* re-pointed away from since its last re-check.
OnlyVacatedLedgersDrift ==
    \A a \in Accounts \ vacated : corr[a] = CorrectionTarget(Now, a)

\* No door leaves rows or histories their tables would refuse, or corrections
\* a full walk would change where it did not know of a payment moved away.
CorrectionsMatchWalk == TypeOK /\ OnlyVacatedLedgersDrift

\* What account a's linked ledger reads at the end of day d.
LedgerBalance(a, d) ==
    SumFunction([m \in Movements |->
                     SumFunctionOnSet(posted[m], {k \in Keys : k[2] <= d /\ k[3] = a})])
    + SumFunctionOnSet(corr[a], {k \in Kinds \X Days : k[2] <= d})

\* The balance last asserted by day d, or the opening, and the money since.
StatedBalance(a, d) ==
    LET g == GoverningOn(said[a], d)
        from == IF g = 0 THEN open[a].day ELSE said[a][g].day
    IN (IF g = 0 THEN open[a].equity ELSE said[a][g].bal)
       + SumFunctionOnSet([m \in Movements |-> mv[m].amt],
                          {m \in Movements : mv[m].acct = a /\ mv[m].day \in (from + 1)..d})

\* The ledger of an account reads, at the end of every day its books are
\* open, the last balance asserted by then and what moved since
\* (walk_account_ledger: an assertion always wins).
LedgerReadsAssertions ==
    \A a \in Accounts \ vacated : \A d \in open[a].day..LastDay :
        LedgerBalance(a, d) = StatedBalance(a, d)

\* The ledger total is the latest assertion plus what moved later
\* (walk_account_ledger: "the account's ABSOLUTE ledger total equals the latest
\* anchor plus the later source nets").
TotalIsLatestAndLater ==
    \A a \in Accounts : LedgerBalance(a, LastDay) = StatedBalance(a, LastDay)

\* A new assertion of an account changes what the ledger reads
\* only from its own day to the day before the next assertion: a back-dated
\* balance rewrites neither the days before it nor what was asserted later.
TrueUpMovesOnlyItsSpan ==
    [][\A a \in Accounts \ vacated : \A d \in Days :
          LET n == Len(said'[a])
              D == said'[a][n].day
              later == {i \in DOMAIN said[a] : said[a][i].day > D}
          IN /\ n = Len(said[a]) + 1
             /\ d < D \/ \E i \in later : said[a][i].day <= d
             => LedgerBalance(a, d)' = LedgerBalance(a, d)]_vars
=============================================================================
