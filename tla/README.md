# Shekel: specifications and proofs

Shekel is a self-hosted budgeting application: a Flask application on
PostgreSQL, served by several gunicorn threads.  Its owners plan income, bills,
envelopes and transfers over pay periods, settle them, match them to what the
bank sent, assert what it says, pay their loans, and read projected balances.
Behind the rows a person edits there is an append-only double-entry ledger that
every edit must bring back in line.

This directory holds TLA+ modules for the parts of the application that are hard
to test, the TLC runs that check them on small instances and the TLAPS proofs of
what they guarantee for every instance.

    tlc -config Books.cfg MCAccountBooks        # one of the twelve runs listed below
    tlapm AccountBooksProofs.tla                # one of the eight proof modules

## 1. The system

Paths are under `src/`, and services are under `src/app/services/`.

| Component | State it keeps | Operations | Correct when |
|---|---|---|---|
| Request transactions (`app/db_transaction.py`, `user_write_lock.py`) | the open transaction, its mode and actor; the keys of `flask.g`; advisory locks | open a request, bind its actor, lock its owner, commit any number of times, `write_transaction`, teardown; the deploy's lock over every owner | no delta is lost or repeated; a render sees one state; no waiting in a circle; every request ends |
| Posting ledger (`posting_service.py`, `_posting_write.py`, `_posting_purchases.py`) | journal entries and postings, append-only, keyed by source, period, day and ledger account | re-book a row, reverse before a delete, resync everything | what is posted nets to what the rows say, under every key it ever touched |
| Account anchor corrections (`account_posting_service/`) | posted openings and true-up corrections by account and day | walk an account, re-check it, resync it | the ledger reads what the owner asserted, on its day, and the money since |
| Cash facts and clearing (`cash_ledger/`) | none: operators over rows, openings and assertions | order of assertions, the governing one, the one that clears a movement, the books boundary | agrees with the walk |
| Balance assertions (`anchor_service.py`) | `account_anchor_history`, append-only | true-up of an account on a day | back-dating rewrites only its own span |
| Books openings (`opening_service.py`, `account_service.py`) | `account_openings`, append-only | create an account, restate its opening | no movement is on or before the opening |
| Status seam and covering movements (`status_seam/`) | a row's status, settle day and clearing link; the movement that records what it paid | change status, record a day, a figure, an account, a clearing link | the movement follows the row's record; a link never outlives its day or its account |
| Reconcile panel (`reconcile_service/`) | none | tick a line: settle it on the statement's day, name the statement | a tick does not move the balance that was asserted |
| State machine (`state_machine.py`) | none | which status may follow which | no settled row slips back by another door |
| Transactions, purchases (`transaction_service/`, `entry_service/`) | `transactions`, `transaction_entries` | settle, cancel, edit, record and date purchases | figure, day and status agree |
| Transfers (`transfer_service/`, `transfer_legs/`) | a transfer and its two shadow rows | create, edit, settle, re-point, delete, restore | the pair agrees at all times, and both accounts are re-walked |
| Credit payback (`credit_workflow.py`, `entry_credit_workflow.py`) | payback rows | create, re-price, remove with the purchases they repay | one payback for each card's period, its figure the purchases' |
| Carry forward (`carry_forward_service/`) | none of its own | settle an envelope at its purchases, roll the rest over | money is neither lost nor doubled |
| Recurrence (`recurrence/`, `recurrence_engine/`) | definitions and the rows they generated | generate, regenerate, resolve conflicts | one row for an occurrence, and no claimed row is lost |
| Pay calendar and periods (`pay_calendar/`, `pay_period_*.py`) | schedules and pay periods | top up the rolling window, truncate, regenerate | periods tile; nothing referenced is deleted |
| Statements (`statement_import/`, `statement_match/`, `match_withdrawal.py`) | imported lines, matches, withdrawals | import, match, withdraw | a line is matched at most once and freed exactly when its row goes |
| Loans (`loan_posting_service/`, `loan_ledger/`, `loan_resolver/`, `amortization_engine/`) | loan anchors and splits | resolve, post, assert a principal | principal, interest and payments add up |
| Balance projection (`balance_at/`) | none | read a balance on a day | agrees with the ledger |
| Sign-in (`auth_service.py`, `mfa_service.py`, `app/routes/auth/`) | failed counts, lockouts, backup codes, last accepted time step | log in, verify a code, set up or disable MFA | no update lost; a code is accepted once |
| Audit and append-only triggers (`app/*_infrastructure.py`) | audit rows | written by triggers | every write names its actor |
| Deploy (`scripts/deploy.sh`, `scripts/init_database.py`) | schema version | migrate, then resync every ledger | leaves what the doors would have left |
| Salary and tax, savings and reports, templates | none, or plain records | compute and render | arithmetic and presentation |

**How they interact.** A request handler edits rows through the doors.  Each door
calls the posting service in the same transaction, which derives the target of
the edited source, reads what is posted, appends the difference, and then lets
the account postings service re-check the corrections of the accounts the edit
can have touched.  Everything reads and writes one database; what keeps two
handlers of one owner apart is the advisory lock that the request's transaction
takes before its first statement of its own.

**What is hard.**  Deltas are computed from reads of earlier statements, so any
two unserialised writers corrupt a ledger that nothing can edit.  Requests may
commit several times, and each transaction starts from nothing.  Corrections are
*derived* facts about an account's whole history: each door decides, by cheap
tests, which accounts to re-derive, and a wrong skip stays.  Assertions, openings
and movements are recorded in one order and take effect in another.

Rows are written by several hands: the owner, the recurrence engine, a carry of
unpaid rows, a payback or a bank match each create and maintain rows that the
owner may move, re-price, settle or delete in between, so every one of them must
recognise what it wrote earlier and leave alone what a person has claimed.  A form
is posted against a page drawn before other requests changed what it shows.

`PROJECT.json` lists each of these hazards at its line, with the properties that
catch it, and the components with what is modelled of each.  Hazards of parts no
module covers are under section 6.

## 2. The modules

| Module | What it is |
|---|---|
| `RequestTransactions` | the transactions of requests and deploys, and the owner write lock |
| `AccountBooks` | rows, openings, assertions, the movements' ledger and the corrections of an owner's cash accounts |
| `CreditPayback`, `CardDebt` | card spending and the rows that repay it; the abstract debt they implement |
| `TransferPair` | a transfer, its two legs, their records, its journal and an open form |
| `DefinitionRows` | the rows of one recurring definition: generated, maintained, carried forward |
| `PaySchedule` | paydays, the eras that plan them, and the doors that rebuild, extend and truncate them |
| `StatementMatch` | one account's bank lines, the matches that explain them, and what undoes a match |
| `LoanReplay`, `LoanBooks` | how a loan's facts become its balances; the facts, the doors and the posted ledger |
| `RequestsAndLoansProofs`, `AccountBooksProofs`, `CreditPaybackProofs`, `TransferPairProofs`, `DefinitionRowsProofs`, `PayScheduleProofs`, `StatementMatchProofs` | their theorems; the first holds those of `RequestTransactions` and, in a second part, of `LoanBooks` |
| `SumsProofs` | what a sum over a finite set does, and the inductions the other proofs share |
| `MC...` | the instances for TLC |

All but the first have each door (a POST handler, with every call it makes) as one
atomic step.  `RequestTransactions` is the reason they may: it abstracts the books
to `facts` and `posted`, with a target that is any function of the facts, and shows
that whole handlers of one owner, each a sequence of separate statements, leave a
ledger at its target, because the transaction takes the owner's lock before it
reads.  A request that is refused is rolled back and is no step.

The other modules share an idea: a *movement* (`transaction_entries`) is what a
settled row or a purchase leaves on the books.  `AccountBooks` says where it is
posted, `TransferPair` and `CreditPayback` what its figure and day are,
`StatementMatch` which bank line it explains, `PaySchedule` which paycheck it is
filed in.  They are checked apart since no door of one reads what another adds.

### RequestTransactions

A process is a gunicorn thread serving one request at a time, or a deploy
reconcile.  `pc` is where the request is, from `idle` through the before-request
hooks to the handler; `mode` is `query` (one read-only snapshot) or `command`
(READ COMMITTED); `actor`, `pending` and `armed` are the keys of `flask.g` and the
session that say who acts and whose lock each transaction takes; `lock` is
PostgreSQL's table of advisory locks.  `staged`, `delta` and `bumped` are a
transaction's uncommitted writes, `pend` is the change the ORM session holds
before a flush, and `cached` the user row it loaded.

* `LoadUser`, `Guard`, `TakeRequestLock` are the three kinds of before-request
  hook, in their order of registration: the user is loaded, and the transaction
  open, *before* the lock is taken, and a refused request must not take it.
* `BeginTx` is the `after_begin` listener, run at every transaction of a request;
  `LockOpenTx` locks a transaction that is open already and expires what it read.
* `Stage`, `Flush`, `ReadTarget`, `EmitDelta` are the steps of a handler that edits
  a row and re-books it.  They are separate because the statements are: the
  other processes run between them.
* `BumpUser` is a door that increments a column of the user's own row.
* `EnterBlock` and `Commit` model `write_transaction` as well as plain commits.
* `StartDeploy` to `CommitDeploy` are one reconcile of the deploy.

PostgreSQL, SQLAlchemy and Flask-Login are external: a transaction reads committed
rows under its own writes; row locks are held to its end; `EndTx` releases
everything, which is what `pg_advisory_xact_lock` means.  A lock is waited for
without a time limit, as in the code.

### AccountBooks

A *movement* is a `transaction_entries` row: the covering movement of a settled
bill, or a purchase of an envelope.  `mv` holds each movement together with the
columns of its row that postings read: the account it is on, its day, signed
amount, category and pay period, and the assertion it is linked to.  `said` is
each account's assertions in the order recorded, `open` its governing opening,
`posted` the net of what was posted for each movement under each period, day and
ledger account, `corr` the net of each account's posted corrections.

The operators follow the code from the rows up: `PurchaseTarget`, `DeltaKeys` and
`EmitDeltas` post a movement; `Earlier`, `GoverningOn` and `FirstCovering` order the
assertions; `ClearingAssertion`, `LedgerBefore` and `CorrectionTarget` are the walk;
`Covered`, `FamilyAccounts` and `Rebook` are the decision of which accounts to
re-check.  The doors are `Settle`, `Redate`, `Revert`, `CorrectAmount`, `RePoint`,
`MoveRow`, `Delete`, `Tick`, `TrueUp`, `RestateOpening` and `Deploy`.  Each is the
whole act, its re-booking and its re-check included, in the order the code has:
a bill's tick is re-booked *before* its link is written, a purchase's after.

What is left out or abstracted:

* Statuses.  A movement is dated or it is not; `Revert` stands for every way out of
  the settled band, the cancelling ones included.  A row's plan below the books,
  which refuses some reverts, is not modelled, so the model reverts more often.
* The link of a row and that of its movement are one value, as the code keeps them
  together for a covering movement.
* An account's creation is in `Init`: opening and first assertion, of the same day
  and balance, with the corrections posted.  A purchase keeps the account it was
  recorded on.  `Delete` hands the identity to the next row that is written.
* A correction has an opposite leg on an equity account.  Only the leg on the
  account's linked ledger is kept, since the two are posted together.
* A movement of amount zero is left out: its target is the empty one, which
  `Revert` already reaches.
* Loan accounts (`LoanBooks`), scenarios, transfers (`TransferPair`), and the bounds a restatement also
  takes from matched lines and planned rows.
* `vacated` is a history variable: accounts a movement was re-pointed away from and
  which were not re-checked since.  No step reads it but to keep it.

### CreditPayback and CardDebt

Rows are `status`, `plan`, `record` (the figure of the covering movement, kept by a
revert), `stated` (somebody typed it) and, of a payback, `repays`; `bought` holds
purchases with their card box and their link.  `Sync` is `sync_entry_payback`: it
creates, re-prices or deletes the one payback of an envelope, or refuses the
request, and is part of every purchase door.  `MarkCredit` and `UndoCredit` are the
bill's two doors, `SetCredit` the status box, which makes no payback;
`Settle`, `SettleFromEntries`, `Revert`, `Correct`, `Cancel` and `DeleteRow` are the
ordinary doors, to which a payback is a row like any other, so there are paybacks
of paybacks.  `CardDebt` is what the owner is promised: a debt has one repayment,
and one that was made closes its debt.  `RepaysCardDebt` is the refinement, of the
envelopes, with the debt mapped to the card total and the repayment to the
payback.  Edits of a definition's tracking box while its rows hold card purchases
are left out.

### TransferPair

One status for the three rows, which `apply_status_to_all_three` writes together;
`leg` and `record` for each side, `posted` for the journal, `fresh` for whether an
open form still carries the parent's version.  A leg's day is *stated* (observed by
the bank or known to a person) or *borrowed* from the other leg.
`ResolvedDay` is the seam's choice, `Mirror` and `Covered` write the record,
`Reconcile` re-posts where a posting field changed.  The actions are `MarkDone`,
`MatchLine`, `Tick`, `Save` (the full form: status, figure, either day), `Cancel`,
`SoftDelete`, `HardDelete`, `Restore`, `Create` and `Render`.

### DefinitionRows

A definition names occurrences (`named`), a row answers one (`occ`) or, as a
leftover's, none.  `Claims` and `Unclaimed` decide what a pass writes, `InScope`,
`Held`, `Retires` and `Updates` what a maintain pass does to what is there,
`HandedBack` the answer *use* of the conflict chooser.  `Carried` is one whole
carry-forward batch: discrete rows moved, envelopes settled at their purchases and
their leftovers rolled to a target row that exists, is generated or is made, source
by source, with what an un-flushed insert hides from the next query (`Seen`).  The
kind of the definition, envelope or bill, is chosen in `Init`.

### PaySchedule

`paydays` are recorded; `eras` plan the next ones: a grid from a nominal day, each
payday displaced off closed days.  `MatchedStep` is how a displaced payday finds its
step again.  The actions are registration (in `Init`), `Extend`, `TopUp` (the
rolling window, at every render), `AddEarlier`, `RemoveEarlier`, `Truncate`,
`Regenerate`, `Reset`, `StateHistory`, `SetRolling`, and what the owner files in a
paycheck: rows entered, settled and reverted, balances recorded.  Rhythms are a
fixed number of days; the two day-of-month kinds and pay stubs are left out.  Every
form that records paydays goes on to fill them with rows, which reads the calendar:
eras that `validate_eras` refuses fail the request, and `Regenerate` has `Readable`
as a guard for it; the two doors at the first end ask it of the phase they move to.

### StatementMatch

A *subject* is a row's payment or a purchase.  An act names lines and entries, and
remembers what it `made`; `fresh` are creations nobody has edited.
`RecordStatement` and `DeleteImport` record and remove sightings of lines, several
imports seeing one line; `AcceptMatch`, `FilePurchase`, `FileIntoNew`,
`RecordIncome` and `SkipLine` answer lines; `ReleaseMatch` undoes an act with what
`TakenBack` says it may take.  Every door that takes a movement off the books or
off the account goes through `Without` (`take_out_of_matches`).  `DrawPage` is a GET:
its form names the lines a save would free, any number of steps before the save,
and `PressAdmits` is the server's comparison.  Figures and days are left out, so
which rows add up to a line is any choice; transfers, card purchases with paybacks,
merchants' standing answers and other accounts are left out too.

### LoanReplay and LoanBooks

`LoanReplay` is pure: `Installments` is the contract's calendar, `MonthlyEscrow` and
`AccruedInterest` what one month is charged, `Ordered` the one sequence of charges,
payments, statements and planned payments, `Replayed` its fold, and `Split` what a
payment's cash pays, in whole cents and rounded half up.  `LoanBooks` keeps the
facts (the params, payment day, rates, escrow versions, statements and payment
transfers) and the ledger as its net per day in two halves, `cashLegs`, which the
transfers post, and `corrections`, which the loan posts from one walk.  Every door
of `app/routes/loan` and every transfer door that touches a payment is an action
and re-posts the halves the code re-posts.  Months have equal length, so clamping
a day to a short month is left out, as are several scenarios, escrow lines of equal
names, what a planned payment splits into (its balance is kept), and the start of a recurring payment kept in step with the loan.

## 3. The runs

Every bound is a constant of a configuration.

| Run | Instance | Question |
|---|---|---|
| `requests` | two threads, an owner and a companion, two rows, three units of work | Does any interleaving of queries, commands, sign-ins and `write_transaction` blocks leave a ledger off its target, an inconsistent render, a write without its actor, a lost update of a user row, or a lock held by a reader or a refused request? |
| `requests_end` | a thread, two deploys, two owners, strong fairness | Do an owner's facts and ledger change only as that owner's lock is given up?  Do locks taken in id order never wait in a circle, and does every request and deploy that starts end? |
| `books` | checking and a card, a bill and a purchase, two categories, three days, each account asserted twice | Does the ledger net to the rows under every key?  Are the lazily re-checked corrections those of a full walk, but where a payment was re-pointed away?  Does it read each day what was asserted and what moved since?  Does a back-dated balance move only its own span? |
| `paybacks` | an envelope, a bill, two paybacks, two purchases, a refund among them | Has card spending one payback at its total, whatever came before?  Did a paid one move what it repays, and is its spending closed?  Do the doors implement `CardDebt`? |
| `transfers` | two plans, three figures, three days | Do legs, records, journal and an open form's version stay one fact through every door? |
| `definition_rows` | an envelope or a bill, two paychecks, three row ids, three acts of the owner | Is an occurrence answered once?  Does a repeated pass do nothing?  Does everything typed, bought or topped up stay?  Does a carry conserve the plan? |
| `schedules` | three rhythms, closed days, three days to state, four forms | Can the eras stored always be read, from their first payday?  Are paydays added earlier removed without a trace?  Is no paycheck removed from under a record?  Does the rolling window stop at its target? |
| `matches` | two lines, two imports, a bill, a row a match may create, two purchases, four forms | Do acts stand on both sides?  Does a line have one answer, and its creation one line?  Does an undo finish and take only its own?  Was every freed line named? |
| `loans` | three installments, two escrow lines, two payments, statements, payment days and rates changing, four doors | Is the ledger the replay of the facts?  Is no month's escrow cleared twice?  Does what is planned leave the record alone, and a later payment an earlier split?  Does any escrow door move a settled payment's split?  Does a stated balance read back? |
| `repointed` | as `books`, one category | *Violated*: does every account's ledger total its latest assertion and the later money? |
| `removed_lines` | two escrow lines, one rate, five doors | *Violated*: does a removed escrow line stay removed from today on? |
| `restated` | two rhythms, a closed day on every grid day, two forms | *Violated*: does the plan name no payday between two recorded ones? |

**Bounds, and why they are enough.**

* `MaxWork`, `MaxCount` (requests): two processes are what a lost delta needs, and two
  locks taken in two orders what a circle needs.  `BothSet`, the target, is 1 exactly
  when both rows are set, so a delta computed from a stale read of *either* row is
  wrong.  A `MaxWork` of 3 has room for a write, its commit and a second transaction.
* `LastDay`, `MaxAsserts` (books): three days are a day before, an assertion's own and
  one after.  Checking opens on the first day and the card on the second, which a
  restatement may move back, so a true-up can be back-dated before the first balance,
  follow it or share its day.  `Balances` are two, so that two assertions of one day
  can differ; `Equities`, what the books open with, is one.
* Paybacks: two purchases of both signs reach a card total of zero and below; two
  payback rows reach a payback of a payback and one made anew.
* Transfers: three days tell a leg's day, the other leg's and today apart.
* `MaxRows`, `MaxActs`, `MaxUsed`, `MaxSpent`, `MaxBudget` (definition rows): a source,
  a target and one row more; three acts move, re-price and settle one row or meet on
  two.  `MaxUsed` is how many rows one answer hands back, `MaxSpent` the purchases of
  a row, `MaxBudget` how far carries may top it up.
* `MaxPaydays`, `MaxActs`, `LastToday` (schedules): four paydays hold a kept head, a
  rebuilt tail and an era boundary between; four forms can rebuild twice and remove
  in between.
* `MaxPurchases` (matches): two purchases of one row, so that a container empties in
  two steps.  Two lines are a match of several lines, and two acts.
* `MaxActs`, `LastDay`, `FirstToday`, `FirstVersions` (loans): the instance begins on a day
  when most installments are past, so four doors suffice to configure a loan, settle
  two payments and state a balance between them; cash of nothing, of less than a
  month and of more than the debt are all there.

A run that reaches its bound disables an action and nothing else.  Deadlock is
checked in the first five runs, in `matches` and in `repointed`; `CHECK_DEADLOCK FALSE` stands where acts and days are bounded, so that a
behaviour may use them all up (`definition_rows`, `schedules`, the loan runs).

Several checked properties are conjunctions of named parts, each part with its own
comment in the module, so that one exploration answers for all of them:

| Property | Parts |
|---|---|
| `RequestsActAsBound` | `TypeOK`, `ReadersAndRefusedHoldNoLock`, `WritesCarryTheirActor` |
| `CorrectionsMatchWalk` | `TypeOK`, `OnlyVacatedLedgersDrift` |
| `PairIsOneFact` | `TypeOK`, `PairMovesOneFigure`, `UnstatedFigureIsThePlan` |
| `PairIsDated` | `DatedExactlyWhenSettled`, `RecordsMirrorLegs`, `GuessesFollowEvidence`, `LinksNameTheirDay` |
| `RowsAnswerOnce` | `TypeOK`, `OneRowPerOccurrence` |
| `ClaimedRowsSurvive` | `RecordsNeverVanish`, `OwnFiguresKept`, `NamedRowsSurvive` |
| `CarriesMoveThePlan` | `CarryConservesPlan`, `CarriedPaychecksEmpty` |
| `CalendarIsReadable` | `TypeOK`, `Readable` of the eras, `RecordOpensTheEarliestEra` |
| `MoneyKeepsItsPaycheck` | `RecordsKeepTheirPaycheck`, `PaidItemsStay`, `RemovalsKeepMoneyDatable` |
| `MatchesAreWhole` | `TypeOK`, `ActsNameBothSides`, `OneAnswerPerLine` |
| `UndosTakeTheirOwn` | `UndoTakesOnlyItsOwn`, `SharedLinesStay` |
| `LedgerReadsTheFacts` | `TypeOK`, `LedgerIsTheWalk`, `StatementsReadBack` |

**Symmetry.**  Threads and rows in `requests`, categories and periods in `books`,
purchases and payback rows in `paybacks`, lines and imports in `matches` are touched
by quantifiers, equality and sums over sets only, so the symmetry is sound; the run
with a liveness property has none.

**Fairness.**  `FairSpec` has strong fairness of each process's `Progress`.  A thread
runs whatever step its request has next, which is weak fairness; strong is
needed for a step that waits for a lock, which is disabled each time another
process holds it.  PostgreSQL wakes the waiters of a lock in the order in which
they came, so a waiter whose lock keeps coming free gets it.  `Raise` and
`StartRequest` are not fair: an exception need not happen, and no client need come.
The other modules have no fairness, since no owner need press anything.

**The three violated runs.**

* `repointed` - a bill planned on checking is settled on the card, the card's
  balance is asserted on that day or later, and the payment is re-pointed to
  checking.  `_family_accounts` (`posting_service.py:474`) names the row's account
  and the account the movement is on *now*, so the card's leg is reversed while
  its corrections still account for it.  The card's ledger is off by the payment
  until something re-checks the card.  `OnlyVacatedLedgersDrift` shows that nothing
  else leaves a stale correction.
* `removed_lines` - `_tombstone_line_today` (`routes/loan/escrow_rates.py:319`) writes a
  version inactive from today and leaves the line's scheduled versions standing, so
  the next of them brings the line back on its day.
* `restated` - an owner is paid every fourth day, displaced past closed days, and their
  grid day is closed every time.  They rebuild to every second day from a payday the
  displacement reached, and then again to every fourth from the closed grid day before
  it.  `era_to_mint` (`pay_era_write.py:611`) asks which era covers that day by its
  nominal `effective_from`, finds the first one, whose rhythm and phase agree, and
  records no era; yet the paydays recorded follow the second era's first payday.  The
  record pays every fourth day, the plan every second: it names paydays inside
  recorded paychecks, and `Extend` continues at the rhythm given up.

## 4. Disagreements met while modelling

Besides the three above, these were found with earlier forms of the models, each by
a trace of TLC read back into the code.  No run of this directory repeats them; where
a property was weakened to exclude one, its comment says so.

* A balance asserted for a day before the books open: `resolve_observation_day`
  (`anchor_service.py:482`) bounds the day by the first pay period, not the opening, and
  the ledger reads the balance less the opening equity on that day.
  `LedgerReadsAssertions` speaks of days from the opening on.
* A bill put to Credit in the status box (`routes/transactions/_gates.py:87`) leaves the
  balance with no payback; `credit_workflow.py:5` says "When an expense is marked
  'credit', a payback expense is auto-generated in the next pay period."
* A payback whose figure was typed, set back to Projected and paid again after
  another purchase books the typed figure; `entry_credit_workflow.py:368` tells the
  owner that "marking it paid again books the new total."  `PaidFigureIsThePlan`
  excludes stated figures.
* A payback that is itself marked Credit is re-priced by the next purchase while the
  payback that copied its figure is not; `transaction_service/_row_rules.py:155` says
  "the source is immutable while it stays Credit".  `CardSpendIsRepaid` is of rows
  that are not Credit.
* With the tracking box unticked, an envelope that holds card purchases is put to
  Credit and back: `delete_payback_on_credit_revert` (`credit_workflow.py:166`) deletes
  the payback of those purchases.
* With two occurrences of an envelope in a paycheck, the carry-forward preview blocks
  neither source and the carry refuses the second, because the first topped up one
  of two rows; `carry_forward_service/_context.py:443` says the two paths can never
  diverge.
* Two sources of one envelope with nothing to top up each add a leftover row
  (`carry_forward_service/_execute.py:183` runs without autoflush), and the paycheck is
  ambiguous for every later carry.
* A row moved to a later paycheck and handed back with *use* is deleted by an edit
  effective from that paycheck; `recurrence_engine/_maintain.py:89` says "A row the rule
  still names is now never deleted".  `NamedRowsSurvive` excludes it.
* A rebuild stated from the day of the standing era, that day closed and its payday
  displaced past the floor, reaches the unique key; `pay_era_write.py:289` says it "is
  REFUSED at the door rather than colliding on the key".  The model has it as a refusal.
* A rebuild can state a first payday that leaves the era before it none of its own,
  after such a restatement: the forms' floor admits it, reading the calendar fails and
  the request is rolled back, where `pay_calendar/_derive.py:656` says "so this sequence
  was assembled by hand".
* An owner paid daily rebuilds from a closed day with paydays moved to the next business
  day, so the new era's nominal day lies below days the old era still pays.  Removing
  the paychecks before one of those would move the old era's phase past it, and
  `validate_eras` refuses; `pay_era_write.py:421` says the refusal "is unreachable from
  both doors" and that a caller "that reaches it built the move by hand".
* After an absence longer than a cadence one page load tops the window up from the old
  end of the record, in the past; `pay_period_rolling.py:57` says "periods to keep the
  rolling window N ahead of today".  Later page loads catch up.
* A loan's balance recorded, a tracking start stated for that day, and the balance
  recorded again: the last request writes nothing and reports that it already stands
  (`loan_anchor_service.py:302`), while the loan reads the tracking start's.
* Two of three escrow lines merged: the merge compares the two lines' own rounded month
  (`escrow_calculator.py:640`) and the charge rounds all three together, so it may move a
  cent; `routes/loan/escrow_rates.py:770` says "A merge moves no split".
* A statement between a payment's due date and the day its money moved absorbs the
  payment, which the code documents (REC-552); `StatementsReadBack` excludes it.

## 5. The proofs

The assumptions are the named ASSUMEs of the specifications: identities are distinct,
ids and bounds are naturals, amounts integers, the sets that are summed over finite.
TLC evaluates them in each run.

`RequestsAndLoansProofs`, in its first part, for any number of threads, deploys, users
and rows and any integer-valued target function:

* `TypeCorrect`: `TypeOK` always holds.
* `LedgerCorrect`: `LedgerMatchesFacts` always holds.  It is not inductive: a commit
  keeps it only if the delta it installs was computed for the very facts and
  ledger it is added to.  `LedgerInv` says so, process by process: a command's
  open transaction holds the lock of its armed owner; it has written only to
  that owner; between two acts, posted plus its delta is the target of the
  committed facts under its writes; between reading the target and emitting, the
  target read is still the target.  A deploy holds every lock it has passed.  The
  lemma `Frame` is the use of the lock: a step of another process that spares
  the owners a process has locked keeps that process's part.
* `HolderWrites`: facts and ledger of an owner change only in a step that gives up
  the owner's lock.

In the same module, from a second inductive invariant, `BindingInv`:
`LedgerInv` and, process by process, whose locks it may hold (`HoldingInv`), whom it acts
for (`ActorInv`), which user row it has read (`CounterInv`) and on which snapshot its
render stands (`RenderInv`).

* `RequestsBound` (`RequestsActAsBound`), `RendersConsistent` (`RenderIsConsistent`) and
  `UserUpdatesKept` (`NoLostUserUpdate`).  A user row is read before the lock is taken;
  that no update is lost needs that taking the lock makes the request forget what it
  read, which is `CounterInv`.
* `NobodyWaitsInACircle` (`NoWaitCycle`).  A request waits only while it holds nothing, and a
  row is never waited for, since who may write it holds its owner's lock; so a circle
  could only be of deploys.  Each locks in ascending order, so the users one that is
  waited for has left are fewer than those of the one that waits (`AwaitedIsAhead`),
  and no circle of strict inclusions exists.

`AccountBooksProofs`, for any accounts, movements, categories, periods, days, amounts
and bounds:

* `SourcesCorrect`: `SourcesAtTarget` always holds.  `DeltasReachTarget` is the heart
  of it: over integers, adding the differences under *all* keys at which target
  and ledger differ gives the target.  A door that visited only the keys of the
  new target would not: that is the mutant of `DeltaKeys`.  An undated row's target
  is empty (`UndatedTarget`), which is why reversing before a delete suffices, and
  a link is no part of a target (`LinkIrrelevant`), which is why a bill's tick may
  link after re-booking.
* `FactsTyped`: rows, histories, openings and the movements' ledger are typed and each
  link names an assertion of the account its movement is on, and goes with its
  day.  The database has a foreign key and a check constraint for this; no door
  ever writes what they would refuse.  `LastInSet` shows that a non-empty set of
  assertions has a last one in the walk's order: the governing assertion that
  a tick names exists.  It goes by a smallest counterexample under strict
  inclusion, since induction over a set has no rule the provers could instantiate.

In the same module, of the corrections the true-ups post:

* `WalkCorrect`: `CorrectionsMatchWalk` always holds.  The inductive invariant is
  `CorrectionsInv`: `BooksInv`, that money is dated after its account's opening, that
  corrections are typed, and the property.  A door re-checks only some accounts, so the
  proof must say that the walk of every other is unmoved.  `WalkIs` brings the walk,
  which goes assertion by assertion and follows links, to one formula a day (`Walk`): what
  the assertions of a day rise to, less the money whose first covering day it is.  In
  it no link is left, since a link is honoured only within its day; `UnrecheckedShares` is
  then that an account neither covered nor new to the books has no share in the row
  that changed.
* `AssertionsRead`: `LedgerReadsAssertions` always holds.  Up to a day the rises telescope to
  the last asserted balance (`RisenUpTo`), what they cover is what an assertion has
  absorbed (`CoveredUpTo`), and the movements' own postings cancel against it, so the
  ledger reads the last assertion and what moved since (`BalanceReads`).
* `TrueUpsLocal`: the action property `TrueUpMovesOnlyItsSpan`.  By `BalanceReads` the ledger is a
  function of the facts, before the step and after it, and `AppendReads` says on which
  days that function does not read the new assertion.

`SumsProofs`, of any function on any finite set: what `SumFunctionOnSet` of the
community modules returns, from its definition.  The library folds in an order it
CHOOSEs; `TablesAgree` and `SumUnfolds` show that a sum unfolds at its chosen element,
`SumRemove` that it unfolds at every element, and from that follow `SumPlus`,
`SumFilter`, `SumZeros` and `SumSwap` (a double sum either way round).  Induction is over
the subsets of a finite set, with the predicate given as the *set* of subsets it holds
of (`SubsetInduction`, `ElementInduction`): no theorem with an operator parameter is used.

`CreditPaybackProofs`, for any rows, figures, amounts and purchases:

* `PaybacksCorrect` (`PaybacksMatchSpending`) and `PaymentsCorrect`
  (`PaidFigureIsThePlan`).  `CardSpendIsRepaid` is not inductive: an erased payback must leave no
  link behind and a deleted row no payback.  `IInv` adds `RowsAgree` (a payback exists
  exactly while it repays a row that exists, one for each row; purchases are under
  envelopes that exist; an author implies a figure) and `LinksFollowThePayback`.  `SyncKeeps`
  is the heart: whatever a purchase door wrote, the sync that ends it restores the
  invariant or refuses.  `ChainSteps` carries it down a chain of paybacks that a delete
  erases.  Sums enter by `TotalTyped` and `SameTotal` alone: a card total is an integer, and a
  door that touches no card purchase of a row leaves it.
* `PaidSpendClosed`: the action property `PaidSpendIsClosed`, from the same invariant.
* `CardDebtImplemented`: `CreditPayback` implements `CardDebt` under the mapping of
  `RepaysCardDebt`.  A purchase door is a `Spend` of its envelope or nothing
  (`PurchaseRefines`); a status door is a `Repay` where the row is an envelope's payback and
  nothing elsewhere; a row door is an `Appear` or a `Disappear`; the bill's credit doors
  move no envelope's debt.  In each, the envelopes the door has no business with are
  `Undisturbed`, and `OnlyOneMoves` makes of that one abstract step.

`TransferPairProofs`, for any plans, figures and number of days: the three invariants
of the run `transfers`, with all their parts (`FigureCorrect`, `DatesCorrect`,
`JournalCorrect`), and both its action properties (`FormsCorrect`, `RepeatsCorrect`).

* `IInv` adds to the properties that a figure of nothing leaves no record
  (`NoEmptyRecord`), that only a settled leg holds a day (`OnlySettledHold`), that the two
  records state one figure (`RecordsAgree`) and that the journal is a function of the pair
  (`LedgerIsPair`).  Without the second a revert followed by a tick could borrow a day
  nobody holds.  A door that settles is one argument over what its legs were told:
  `LegsResolve` says which day each is given, `PairLands` that the pair written on those
  days is sound.  A door that settles nothing is `PairOpens`.
* `RepeatsCorrect` needs `RepeatLandsWhereItStood`: with nothing said, the resolution of a
  settled pair's days is the days it has, the fallback never being reached.

`DefinitionRowsProofs`, for any rules, calendar, prices and number of rows: all the
properties of the run `definition_rows`.

* `AnsweredOnce` (`RowsAnswerOnce`).  `IInv` adds `RowSound`, row by row: what is recorded is
  on a live row, a row with a figure of its own is held, an empty slot answers nothing.
  New rows take the free ids in order; `WrittenFills` brings that to one injection from
  free slots to the occurrences written, onto them when there is room, by the ranks of
  both in their sets (`RankTells`, `RankReached`).  A maintain pass is then one rule a
  slot (`Maintains`), and what it claims no row it keeps or retires answers
  (`ClaimsAreNew`).
* `ClaimsOutlast` (`ClaimedRowsSurvive`).  Every door but an edit leaves each row where it
  was with a figure of its own if it had one (`Stays`).  Of an edit, `EditKeeps` shows that
  a recorded row is not retired, that a figure of its own holds its row against the
  pass, and that a row the rule names in its own paycheck is among what the pass names.
* `PassesEnd` (`PassesSettle`).  After a pass no row is left to retire, what it would update
  is updated and every occurrence it names is claimed, by a row it kept or a row it
  wrote (`PassSettled`); the second of these needs that there was room.
* `PlanIsMoved` (`CarriesMoveThePlan`).  A carry walks its sources in id order.  `CarryInv`
  is its loop invariant: sources passed are closed, those to come are as they were, the
  plan is where it was less what the passed ones spent, and a row the batch added but
  has not flushed, which its own queries do not see, answers no occurrence.  One roll
  is a top-up, a write or a new row (`ToppedRolls`, `GeneratedRolls`, `CreatedRolls`); the
  recursion over the ids goes by `CarryTableExists`.

`PayScheduleProofs`, for any closed days, rhythms, stated days, window and things filed
in a paycheck: all the properties of the run `schedules`.  `NoPaycheckSkipped` is false
and has no theorem.

* The grid first.  With a gap no shorter than `ShortestShiftedGap` each payday is displaced
  by less than a gap (`PaydayFacts`), so paydays ascend strictly (`PaydaysAscend`), the three or four
  candidates the code looks at hold the right one (`StepAfterFacts`, `MatchedStepFacts`), and a
  recorded payday is matched to the step it came from.  `AnOpenDay` is why a
  search of that many days ends: it is the longest closed run and one.
* Then the plan.  For eras `validate_eras` admits (`Plan`), first paydays ascend with the
  nominal days (`ErasAscend`), `Following` moves from a position to a later one
  (`FollowingFacts`) and `planned_paydays_after` returns days after the one asked for
  (`PlannedFacts`).  Eras are read back by the day they take effect; `ReadBack` and `MintedFacts`
  show that what was minted is the last of them, or cannot be read.
* `IInv` is `TypeOK`, that rows and corrections are filed in paychecks that exist (`Filed`), and
  `Calendar`: the eras are a plan, the record opens on the earliest era's first payday, and
  whatever was recorded before the second era's first payday is a step the earliest era
  pays (`OnFirst`).  The last is why `RemoveEarlier` finds its phase, and is stated of the
  earliest era alone: of later eras it is false (`restated`).  `BatchCalendar` shows
  that `record_paydays`'s fences keep it, whichever of three things the batch does with
  the eras.
* `CalendarRead`, `EarlierIsUndone`; `WindowStops`, since a payday already recorded ends no later
  once the plan goes on (`EndsNoLater`), so a top-up opens no paycheck that was over.
* `MoneyStaysFiled`, the action property: the gates refuse to remove what the cascade would
  take wrongly (`DeletableFacts`, `CascadeFiled`), and the floor a removal moves over is the floor
  of what it removes (`MoneyStaysDatable`).

`RequestsAndLoansProofs`, in its second part, for any contract, finite set of payments and
of escrow lines, figures, days and bound on the doors: all the properties of the run
`loans`, one of them with a proviso.  A step of `LoanBooks` is one whole request, which
the first part is the reason for.

* The order.  `Before` is a strict order and tells any two events of a stream apart
  (`EventsOrderly`), so an event's place is one more than the number of events before it
  and `Ordered`, which takes the first event again and again, puts each in its place
  (`OrderedIsInPlace`).  Two streams with the same events before an event then have the
  same order up to it (`SamePlaces`), and a part that holds all that is before what it
  holds is the beginning of the order (`InitialPart`).  The fold is a table of states
  (`StatesStep`, `WalkStep`), over whose positions everything else is an induction.
* `FactsAlwaysSound`.  `FactsInv`: the facts are typed, a transfer's record has a day exactly when it
  moved money, no statement is before the origination and a loan that is set up has its
  origination's rate.  It makes the facts a stream and terms that can be walked
  (`SoundNow`, `FactsAlwaysWalk`); no property is inductive without it.
* `LedgerAlwaysReadsTheFacts` (`LedgerReadsTheFacts`).  A payment's cash is its split's parts
  (`CashIsSplit`), so the cash legs and the corrections of a day, each at its target after
  every request (`Posted`), add up to what the walk adds that day, negated.  A balance
  stated on a day reads back because the balance at each position is the sum of the steps
  taken so far (`BalanceIsSum`), summed by day instead of by position (`SumByDay`).
* `NoMonthEverClearedTwice` (`NoMonthClearedTwice`).  Along the walk, escrow paid plus escrow still
  due is at most escrow charged (`EscrowBound`); a statement or a tracking start may drop what
  is due, and what a start charges again is a month it dropped.  With nothing stated it
  is equal (`EscrowExact`).
* `PlanAlwaysLeavesTheRecordAlone` (`PlanLeavesTheRecordAlone`).  Everything a plan adds is on or after
  the boundary and all that is recorded before it (`PlanBehind`), so the record is the beginning
  of the merged order.  The two walks are the same up to the last recorded payment, since
  whether a tracking start charges its installment again is decided by the payment
  after it (`RechargesDecided`, `WalksAgree`).  Behind that payment it may be decided otherwise, by a planned
  payment: what is due then differs, and no balance does (`RecordsAgree`).
* `LaterPaymentsNeverMoveASplit` (`LaterPaymentsMoveNoSplit`): a door on a payment due later, or on
  a day money moved, leaves the events up to the earlier payment (`SplitStands`); a settled
  payment's due date never changes (`DueIsLocked`).
* `EscrowChangesNeverMoveASplit`: every escrow door but a merge changes lines after the last settled
  due date alone (`EscrowDoorsAfterPaid`), so every installment up to it costs what it did.
  `EscrowDoorsNeverMoveASplit` (`EscrowDoorsMoveNoSplit`) adds the merge, for amounts entered by the month or
  for two lines in all, as in the run; without the proviso the property is false, by the
  cent of the fourth section.  `MergeKeepsMonths` carries the comparison, which the merge makes
  on the days something is dated, to every day.

`StatementMatchProofs`, for any lines, imports, rows, doors and number of purchases: all the
properties of the run `matches`.

* `MatchesWhole` and `CreatedKeepLine` are parts of `IInv`, which adds that what a row holds
  goes with it (`RowsOwnTheirs`), that only rows that track purchases hold any, and that an
  envelope that is as its act left it has no payment of its own (`ContainersTrack`).  The
  acts are a sequence some doors filter and rewrite: `KeptPicks` says what a filter by
  positions returns, by an induction over the set of positions it holds of (`UpTo` of `SumsProofs`), and
  `WithoutStrips` what `take_out_of_matches` leaves.  Every door is then one of three
  steps: it strips acts (`StripKeeps`), records one (`AppendKeeps`) or leaves them
  (`SameActsKeep`); `ByPosition` restates the invariant act by act for them.
* `UndosFinish`: a payment an undo takes back is fresh and on the books, so its row tracks
  no purchases; a container it takes back is fresh and off them, and holds only what the
  undo takes.  Hence all that goes is the act's own (`OneUndo`).
* `PagesSave`: a movement is taken out for one thing a form can be drawn on (`OneRemover`),
  so an act all ticked rows empty together has none of its keys unticked.
* `UndosOwn`: what is taken back was fresh and made by a released act (`TakenIsFresh`);
  what is fresh is named by its one maker, so an act that is kept loses nothing and stays
  the very act it was (`KeptActsStay`).
* `FreedNamed`: a line that lost its match lost an act emptied by the door (`LinesLost`),
  which the press compares with what the page named (`PressFrees`).

**Only model-checked.** That requests end (`EveryRequestEnds`): liveness under fairness is
out of the prover's reach.  Every other property of a passing run has a theorem.

## 6. Not modelled

* **Sign-in beyond its transaction**: lockout windows, one-time codes and backup codes
  (`routes/auth/_helpers.py`, `auth_service.py`).  Verifying a backup code rewrites the
  whole list, and a first MFA set-up decides from a snapshot whether a configuration
  row exists.  `RequestTransactions` has only the lock such requests take.
* **Day arithmetic of recurrence rules** (`recurrence/`, `_recurrence_common.py`): which
  days a rule names is given to `DefinitionRows`.  The day-of-month pay rhythms and pay
  stubs of `pay_calendar/`.
* **The twin engine of recurring transfers**, and transfers carried forward.
* **Parsing of statements, identity of lines, proposals and merchants' answers.**
* **The cash projection of `balance_at/`**: a read over rows and assertions.
* **Amortization, payoff and refinance, salary and tax, savings, retirement, reports**:
  decimal computation over tables, without concurrency or history, left to unit tests.
* **Templates, form schemas, scripts, migrations and audits**: presentation, operations
  and text.  They are most of the repository: the modules map the ledger, settlement,
  schedule, match and loan cores and the doors into them, while about nine lines in
  ten are rendering, validation of forms, queries for reports, operator scripts and
  docstrings, of which a state machine says nothing.
