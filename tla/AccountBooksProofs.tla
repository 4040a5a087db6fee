------------------------- MODULE AccountBooksProofs -------------------------
(***************************************************************************)
(* For every set of accounts, movements, categories, periods and days: the  *)
(* rows keep their types, the append-only ledger of movements nets to what   *)
(* the movements say, the corrections an account has posted are those a     *)
(* full walk would post, and with them its ledger reads, on every day, what *)
(* was last asserted and what moved since.                                  *)
(***************************************************************************)
EXTENDS AccountBooks, SequenceTheorems, SumsProofs

(***************************************************************************)
(* The order of assertions.                                                *)
(***************************************************************************)

\* What a history of assertions gives at its positions.
LEMMA HistoryFacts ==
    ASSUME NEW s \in Seq(Assertion)
    PROVE  /\ Len(s) \in Nat
           /\ DOMAIN s = 1..Len(s)
           /\ \A i \in DOMAIN s : /\ i \in Int /\ s[i] \in Assertion
                                  /\ s[i].day \in Days /\ s[i].day \in Int
<1>1. /\ Len(s) \in Nat
      /\ DOMAIN s = 1..Len(s)
      /\ s \in [1..Len(s) -> Assertion]
  BY LenProperties
<1>2. ASSUME NEW i \in DOMAIN s
      PROVE  i \in Int /\ s[i] \in Assertion /\ s[i].day \in Days /\ s[i].day \in Int
  <2>1. i \in Int /\ s[i] \in Assertion
    BY <1>1
  <2>2. s[i].day \in Days
    BY <2>1 DEF Assertion
  <2> QED
    BY <2>1, <2>2, BooksBoundAssumption DEF Days
<1> QED
  BY <1>1, <1>2

\* Earlier is a strict total order on the positions of a history
\* (cash_anchor_facts sorts by the day observed and the order recorded).
LEMMA EarlierTotal ==
    ASSUME NEW s \in Seq(Assertion), NEW i \in DOMAIN s, NEW j \in DOMAIN s, i # j
    PROVE  Earlier(s, i, j) \/ Earlier(s, j, i)
BY HistoryFacts DEF Earlier

\* And it is transitive: a later day, or a later entry of one day, stays later.
LEMMA EarlierTransitive ==
    ASSUME NEW s \in Seq(Assertion),
           NEW i \in DOMAIN s, NEW j \in DOMAIN s, NEW k \in DOMAIN s,
           Earlier(s, i, j), Earlier(s, j, k)
    PROVE  Earlier(s, i, k)
BY HistoryFacts DEF Earlier

\* A set of assertions has a last one in that order.  Among the sets that have
\* none, a smallest one under inclusion would have one.
LEMMA LastInSet ==
    ASSUME NEW s \in Seq(Assertion), NEW I \in SUBSET DOMAIN s, I # {}
    PROVE  LastOf(s, I) \in I
<1> DEFINE HasLast(J) == \E i \in J : \A j \in J \ {i} : Earlier(s, j, i)
           Subs == FiniteSubsetsOf(DOMAIN s)
           Bad == {J \in Subs : J # {} /\ ~HasLast(J)}
<1>1. IsFiniteSet(DOMAIN s)
  BY FS_Interval, HistoryFacts
<1>2. \A J \in SUBSET DOMAIN s : J \in Subs
  BY <1>1, FS_Subset DEF FiniteSubsetsOf
<1>3. Bad = {}
  <2>1. SUFFICES ASSUME Bad # {} PROVE FALSE
    OBVIOUS
  <2>2. IsWellFoundedOn(StrictSubsetOrdering(DOMAIN s), Subs)
    BY <1>1, FS_StrictSubsetOrderingWellFounded
  <2>3. Bad \subseteq Subs
    OBVIOUS
  <2>4. PICK J \in Bad : \A K \in Bad : <<K, J>> \notin StrictSubsetOrdering(DOMAIN s)
    <3> HIDE DEF Bad, Subs
    <3> QED BY <2>1, <2>2, <2>3, WFMin
  <2>5. J \in SUBSET DOMAIN s /\ J # {} /\ ~HasLast(J)
    BY DEF FiniteSubsetsOf
  <2>6. PICK x \in J : TRUE
    BY <2>5
  <2> DEFINE K == J \ {x}
  <2>7. K # {}
    BY <2>5, <2>6
  <2>8. HasLast(K)
    <3>1. K \in Subs
      BY <2>5, <1>2
    <3>2. <<K, J>> \in StrictSubsetOrdering(DOMAIN s)
      BY <2>5, <2>6 DEF StrictSubsetOrdering
    <3> QED
      BY <2>4, <2>7, <3>1, <3>2
  <2>9. PICK y \in K : \A j \in K \ {y} : Earlier(s, j, y)
    BY <2>8
  <2>10. CASE Earlier(s, x, y)
    BY <2>5, <2>6, <2>9, <2>10
  <2>11. CASE Earlier(s, y, x)
    <3>1. \A j \in J \ {x} : Earlier(s, j, x)
      BY <2>5, <2>6, <2>9, <2>11, EarlierTransitive
    <3> QED
      BY <2>5, <2>6, <3>1
  <2> QED
    BY <2>5, <2>6, <2>9, <2>10, <2>11, EarlierTotal
<1>4. HasLast(I)
  BY <1>2, <1>3
<1> QED
  BY <1>4 DEF LastOf

(***************************************************************************)
(* Targets and deltas.                                                     *)
(***************************************************************************)

\* A movement's target is an integer under every key.
LEMMA TargetType ==
    ASSUME NEW r \in Row
    PROVE  PurchaseTarget(r) \in [Keys -> Int]
<1>1. r.amt \in Int
  BY AmountsAssumption DEF Row
<1> QED
  BY <1>1 DEF PurchaseTarget

\* An undated movement posts nothing (purchase_posts).
LEMMA UndatedTarget ==
    ASSUME NEW r \in Row, r.day = Undated
    PROVE  PurchaseTarget(r) = NothingPosted
<1>1. \A k \in Keys : k[2] # r.day
  BY BooksBoundAssumption DEF Keys, Days, Undated
<1>2. \A k \in Keys : PurchaseTarget(r)[k] = 0
  BY <1>1 DEF PurchaseTarget
<1>3. PurchaseTarget(r) = [k \in Keys |-> PurchaseTarget(r)[k]]
  BY DEF PurchaseTarget
<1> QED
  BY <1>2, <1>3 DEF NothingPosted

\* The clearing link of a movement is no part of what it posts.
LEMMA LinkIrrelevant ==
    ASSUME NEW r \in Row, NEW l \in 0..MaxAsserts
    PROVE  PurchaseTarget([r EXCEPT !.link = l]) = PurchaseTarget(r)
<1>1. /\ [r EXCEPT !.link = l].per = r.per
      /\ [r EXCEPT !.link = l].day = r.day
      /\ [r EXCEPT !.link = l].acct = r.acct
      /\ [r EXCEPT !.link = l].cat = r.cat
      /\ [r EXCEPT !.link = l].amt = r.amt
  BY DEF Row
<1> QED
  BY <1>1 DEF PurchaseTarget

\* Appending the deltas of a movement brings every key it ever posted under to
\* its target (reconcile_periods over the union of target and posted).
LEMMA DeltasReachTarget ==
    ASSUME FactsTypeOK, NEW m \in Movements, NEW r \in Row
    PROVE  EmitDeltas(m, r) = [posted EXCEPT ![m] = PurchaseTarget(r)]
<1>1. posted \in [Movements -> [Keys -> Int]]
  BY DEF FactsTypeOK
<1>2. PurchaseTarget(r) \in [Keys -> Int]
  BY TargetType
<1>3. \A k \in Keys :
        posted[m][k] + (IF k \in DeltaKeys(m, r)
                        THEN PurchaseTarget(r)[k] - posted[m][k] ELSE 0)
        = PurchaseTarget(r)[k]
  BY <1>1, <1>2 DEF DeltaKeys
<1>4. [k \in Keys |-> posted[m][k] + (IF k \in DeltaKeys(m, r)
                        THEN PurchaseTarget(r)[k] - posted[m][k] ELSE 0)]
      = PurchaseTarget(r)
  BY <1>2, <1>3
<1> QED
  BY <1>1, <1>4 DEF EmitDeltas

\* A re-check of accounts leaves the sets of accounts the ledger keeps typed.
LEMMA SyncKeepsSets ==
    ASSUME FactsTypeOK, NEW b, NEW S, NEW left \in SUBSET Accounts, SyncAnchors(b, S, left)
    PROVE  booked' \subseteq Accounts /\ vacated' \subseteq Accounts
BY DEF FactsTypeOK, SyncAnchors

\* sync_transaction_postings: afterwards the ledger holds the row's target for
\* its movement and what it held for the others.
LEMMA RebookReachesTarget ==
    ASSUME FactsTypeOK, NEW m \in Movements, NEW r \in Row,
           NEW left \in SUBSET Accounts, Rebook(m, r, left)
    PROVE  /\ posted' = [posted EXCEPT ![m] = PurchaseTarget(r)]
           /\ booked' \subseteq Accounts
           /\ vacated' \subseteq Accounts
<1>1. posted' = EmitDeltas(m, r)
  BY DEF Rebook, Books
<1>2. \E b, S : SyncAnchors(b, S, left)
  BY DEF Rebook
<1> QED
  BY <1>1, <1>2, DeltasReachTarget, SyncKeepsSets

(***************************************************************************)
(* The inductive invariant: the ledger is at target, and the facts are      *)
(* typed.  The types are needed because a delta is only right when target   *)
(* and ledger are integers, and because a link has to name an assertion     *)
(* for the day of a re-pointed or settled movement to be a day.             *)
(***************************************************************************)
BooksInv == FactsTypeOK /\ SourcesAtTarget

\* What the invariant says of one movement.
LEMMA MovementFacts ==
    ASSUME FactsTypeOK, NEW m \in Movements
    PROVE  /\ mv[m] \in Row
           /\ mv[m].acct \in Accounts
           /\ said[mv[m].acct] \in Seq(Assertion)
           /\ Len(said[mv[m].acct]) \in 0..MaxAsserts
           /\ mv[m].link \in 0..Len(said[mv[m].acct])
           /\ mv[m].day = Undated => mv[m].link = NoLink
<1>1. mv[m] \in Row
  BY DEF FactsTypeOK
<1>2. mv[m].acct \in Accounts
  BY <1>1 DEF Row
<1>3. said[mv[m].acct] \in Seq(Assertion)
  BY <1>2 DEF FactsTypeOK
<1>4. Len(said[mv[m].acct]) \in 1..MaxAsserts
  BY <1>2 DEF FactsTypeOK
<1>5. Len(said[mv[m].acct]) \in 0..MaxAsserts
  BY <1>4, BooksBoundAssumption
<1>6. /\ mv[m].link \in 0..Len(said[mv[m].acct])
      /\ mv[m].day = Undated => mv[m].link = NoLink
  <2>1. LinkOK(m)
    BY DEF FactsTypeOK
  <2> QED
    BY <2>1 DEF LinkOK
<1> QED
  BY <1>1, <1>2, <1>3, <1>5, <1>6

\* Writing a row of m and posting its target keeps the invariant: the target is
\* the row's, and no other movement's ledger or row changed.
LEMMA RowWritten ==
    ASSUME BooksInv, NEW m \in Movements, NEW r \in Row,
           r.link \in 0..Len(said[r.acct]),
           r.day = Undated => r.link = NoLink,
           mv' = [mv EXCEPT ![m] = r],
           posted' = [posted EXCEPT ![m] = PurchaseTarget(r)],
           booked' \subseteq Accounts, vacated' \subseteq Accounts,
           UNCHANGED <<said, open>>
    PROVE  BooksInv'
<1>1. mv' \in [Movements -> Row]
  BY DEF BooksInv, FactsTypeOK
<1>2. \A n \in Movements : mv'[n] = IF n = m THEN r ELSE mv[n]
  BY DEF BooksInv, FactsTypeOK
<1>3. \A n \in Movements : posted'[n] = IF n = m THEN PurchaseTarget(r) ELSE posted[n]
  BY DEF BooksInv, FactsTypeOK
<1>4. posted' \in [Movements -> [Keys -> Int]]
  BY TargetType DEF BooksInv, FactsTypeOK
<1>5. \A n \in Movements : LinkOK(n)'
  <2>1. ASSUME NEW n \in Movements
        PROVE  LinkOK(n)'
    <3>1. CASE n = m
      BY <1>2, <3>1 DEF LinkOK
    <3>2. CASE n # m
      <4>1. mv'[n] = mv[n] /\ said' = said
        BY <1>2, <3>2
      <4>2. LinkOK(n)
        BY DEF BooksInv, FactsTypeOK
      <4> QED
        BY <4>1, <4>2 DEF LinkOK
    <3> QED
      BY <3>1, <3>2
  <2> QED
    BY <2>1
<1>6. FactsTypeOK'
  BY <1>1, <1>4, <1>5 DEF BooksInv, FactsTypeOK
<1>7. \A n \in Movements : posted'[n] = PurchaseTarget(mv'[n])
  BY <1>2, <1>3 DEF BooksInv, SourcesAtTarget
<1>8. SourcesAtTarget'
  BY <1>7 DEF SourcesAtTarget, PurchaseTarget
<1> QED
  BY <1>6, <1>8 DEF BooksInv

\* Every door that saves a row and re-books it keeps the invariant.
LEMMA SaveKeeps ==
    ASSUME BooksInv, NEW m \in Movements, NEW r \in Row, NEW left \in SUBSET Accounts,
           r.link \in 0..Len(said[r.acct]),
           r.day = Undated => r.link = NoLink,
           Save(m, r, left)
    PROVE  BooksInv'
BY RebookReachesTarget, RowWritten DEF BooksInv, Save

(***************************************************************************)
(* The doors keep the invariant.                                           *)
(***************************************************************************)

\* settle_transaction: an undated movement has no link to lose.
LEMMA SettleKeeps ==
    ASSUME BooksInv, NEW m \in Movements, NEW a \in Accounts, NEW d \in Typed,
           Settle(m, a, d)
    PROVE  BooksInv'
<1> DEFINE r == [mv[m] EXCEPT !.acct = a, !.day = d]
<1>1. d \in Days
  BY DEF Settle, RecordableDays
<1>2. mv[m].link = NoLink
  BY MovementFacts DEF BooksInv, Settle
<1>3. r \in Row /\ r.link = mv[m].link
  BY <1>1, MovementFacts DEF BooksInv, Row
<1>4. Len(said[a]) \in 1..MaxAsserts
  BY DEF BooksInv, FactsTypeOK
<1>5. r.link \in 0..Len(said[r.acct]) /\ r.link = NoLink
  <2>1. r.acct = a
    BY MovementFacts DEF BooksInv, Row
  <2> QED
    BY <1>2, <1>3, <1>4, <2>1, BooksBoundAssumption DEF NoLink
<1>6. r.day = Undated => r.link = NoLink
  BY <1>5
<1>7. Save(m, r, {})
  BY DEF Settle
<1> HIDE DEF r
<1> QED
  BY <1>3, <1>5, <1>6, <1>7, SaveKeeps

\* A row whose link is released keeps the invariant wherever its movement goes
\* (record_settle_day, a revert, _re_point).
LEMMA ReleasedKeeps ==
    ASSUME BooksInv, NEW m \in Movements, NEW r \in Row, r.link = NoLink,
           NEW left \in SUBSET Accounts, Save(m, r, left)
    PROVE  BooksInv'
<1>1. r.acct \in Accounts
  BY DEF Row
<1>2. Len(said[r.acct]) \in 1..MaxAsserts
  BY <1>1 DEF BooksInv, FactsTypeOK
<1>3. r.link \in 0..Len(said[r.acct])
  BY <1>2, BooksBoundAssumption DEF NoLink
<1> QED
  BY <1>3, SaveKeeps

\* record_settle_day, a revert and _re_point release the link.
LEMMA ReleasingDoorsKeep ==
    ASSUME BooksInv, NEW m \in Movements, NEW a \in Accounts, NEW d \in Typed,
           Redate(m, d) \/ Revert(m) \/ RePoint(m, a, d)
    PROVE  BooksInv'
<1>1. mv[m] \in Row /\ {mv[m].acct} \in SUBSET Accounts
  BY MovementFacts DEF BooksInv
<1>2. NoLink \in 0..MaxAsserts
  BY BooksBoundAssumption DEF NoLink
<1>3. CASE Redate(m, d)
  <2> DEFINE r == [mv[m] EXCEPT !.day = d, !.link = NoLink]
  <2>1. d \in Days
    BY <1>3 DEF Redate, RecordableDays
  <2>2. r \in Row /\ r.link = NoLink
    BY <1>1, <1>2, <2>1 DEF Row
  <2>3. Save(m, r, {})
    BY <1>3 DEF Redate
  <2> HIDE DEF r
  <2> QED
    BY <2>2, <2>3, ReleasedKeeps
<1>4. CASE Revert(m)
  <2> DEFINE r == [mv[m] EXCEPT !.day = Undated, !.link = NoLink]
  <2>1. r \in Row /\ r.link = NoLink
    BY <1>1, <1>2 DEF Row
  <2>2. Save(m, r, {})
    BY <1>4 DEF Revert
  <2> HIDE DEF r
  <2> QED
    BY <2>1, <2>2, ReleasedKeeps
<1>5. CASE RePoint(m, a, d)
  <2> DEFINE r == [mv[m] EXCEPT !.acct = a, !.day = d, !.link = NoLink]
  <2>1. d \in Days
    BY <1>5 DEF RePoint, RecordableDays
  <2>2. r \in Row /\ r.link = NoLink
    BY <1>1, <1>2, <2>1 DEF Row
  <2>3. Save(m, r, {mv[m].acct})
    BY <1>5 DEF RePoint
  <2> HIDE DEF r
  <2> QED
    BY <1>1, <2>2, <2>3, ReleasedKeeps
<1> QED
  BY <1>3, <1>4, <1>5

\* correction_record and a move of the row change neither account, day nor link.
LEMMA EditingDoorsKeep ==
    ASSUME BooksInv, NEW m \in Movements, NEW v \in Amounts,
           NEW c \in Categories, NEW p \in Periods,
           CorrectAmount(m, v) \/ MoveRow(m, c, p)
    PROVE  BooksInv'
<1>1. CASE CorrectAmount(m, v)
  <2> DEFINE r == [mv[m] EXCEPT !.amt = v]
  <2>1. r \in Row /\ r.link = mv[m].link /\ r.acct = mv[m].acct /\ r.day = mv[m].day
    BY MovementFacts DEF BooksInv, Row
  <2>2. r.link \in 0..Len(said[r.acct]) /\ (r.day = Undated => r.link = NoLink)
    <3> HIDE DEF r
    <3> QED BY <2>1, MovementFacts DEF BooksInv
  <2>3. Save(m, r, {})
    BY <1>1 DEF CorrectAmount
  <2> HIDE DEF r
  <2> QED
    BY <2>1, <2>2, <2>3, SaveKeeps
<1>2. CASE MoveRow(m, c, p)
  <2> DEFINE r == [mv[m] EXCEPT !.cat = c, !.per = p]
  <2>1. r \in Row /\ r.link = mv[m].link /\ r.acct = mv[m].acct /\ r.day = mv[m].day
    BY MovementFacts DEF BooksInv, Row
  <2>2. r.link \in 0..Len(said[r.acct]) /\ (r.day = Undated => r.link = NoLink)
    <3> HIDE DEF r
    <3> QED BY <2>1, MovementFacts DEF BooksInv
  <2>3. Save(m, r, {})
    BY <1>2 DEF MoveRow
  <2> HIDE DEF r
  <2> QED
    BY <2>1, <2>2, <2>3, SaveKeeps
<1> QED
  BY <1>1, <1>2

\* A row a movement can begin as is a row.
LEMMA NewRowsAreRows ==
    ASSUME NEW m \in Movements, NEW r \in NewRows(m)
    PROVE  r \in Row /\ r.day = Undated /\ r.link = NoLink
<1>1. NoLink \in 0..MaxAsserts
  BY BooksBoundAssumption DEF NoLink
<1> QED
  BY <1>1 DEF NewRows, Row

\* reverse_postings_before_delete: the next row begins undated, and an undated
\* row's target is what reversing left, nothing.
LEMMA DeleteKeeps ==
    ASSUME BooksInv, NEW m \in Movements, Delete(m)
    PROVE  BooksInv'
<1> DEFINE gone == [mv[m] EXCEPT !.day = Undated]
<1>1. gone \in Row /\ gone.day = Undated
  BY MovementFacts DEF BooksInv, Row
<1>2. Rebook(m, gone, {}) /\ UNCHANGED <<said, open>>
  BY DEF Delete
<1>3. PICK r \in NewRows(m) : mv' = [mv EXCEPT ![m] = r]
  BY DEF Delete
<1>4. r \in Row /\ r.day = Undated /\ r.link = NoLink
  BY NewRowsAreRows
<1> HIDE DEF gone
<1>5. /\ posted' = [posted EXCEPT ![m] = PurchaseTarget(gone)]
      /\ booked' \subseteq Accounts
      /\ vacated' \subseteq Accounts
  BY <1>1, <1>2, RebookReachesTarget DEF BooksInv
<1>6. PurchaseTarget(gone) = PurchaseTarget(r)
  <2>1. PurchaseTarget(gone) = NothingPosted
    BY <1>1, UndatedTarget
  <2>2. PurchaseTarget(r) = NothingPosted
    BY <1>4, UndatedTarget
  <2> QED
    BY <2>1, <2>2
<1>7. r.link \in 0..Len(said[r.acct])
  <2>1. r.acct \in Accounts
    BY <1>4 DEF Row
  <2>2. Len(said[r.acct]) \in 1..MaxAsserts
    BY <2>1 DEF BooksInv, FactsTypeOK
  <2> QED
    BY <1>4, <2>2, BooksBoundAssumption DEF NoLink
<1> QED
  BY <1>2, <1>3, <1>4, <1>5, <1>6, <1>7, RowWritten

\* _governing_row names an assertion of the account, or none.
LEMMA GoverningInHistory ==
    ASSUME NEW s \in Seq(Assertion), NEW d \in Int
    PROVE  GoverningOn(s, d) \in 0..Len(s)
<1> DEFINE I == {i \in DOMAIN s : s[i].day <= d}
<1>1. CASE I = {}
  BY <1>1, HistoryFacts DEF GoverningOn
<1>2. CASE I # {}
  <2>1. LastOf(s, I) \in I
    BY <1>2, LastInSet
  <2>2. GoverningOn(s, d) = LastOf(s, I)
    BY <1>2 DEF GoverningOn
  <2> QED
    BY <2>1, <2>2, HistoryFacts
<1> QED
  BY <1>1, <1>2

\* The panel's tick links a bill after it was re-booked, which is sound since
\* the link is no part of the target.
LEMMA TickKeeps ==
    ASSUME BooksInv, NEW m \in Movements, Tick(m)
    PROVE  BooksInv'
<1> DEFINE a == mv[m].acct
           g == GoverningOn(said[a], LastDay)
           d == said[a][g].day
           dated == [mv[m] EXCEPT !.day = d]
           linked == [dated EXCEPT !.link = g]
<1>1. /\ mv[m] \in Row /\ a \in Accounts
      /\ said[a] \in Seq(Assertion)
      /\ Len(said[a]) \in 0..MaxAsserts
  BY MovementFacts DEF BooksInv
<1>2. g \in 0..Len(said[a])
  <2>1. LastDay \in Int
    BY BooksBoundAssumption
  <2> HIDE DEF a, g
  <2>2. GoverningOn(said[a], LastDay) \in 0..Len(said[a])
    BY <1>1, <2>1, GoverningInHistory
  <2> QED
    BY <2>2 DEF g
<1>3. d \in Days
  <2>1. dated.day \in RecordableDays(m, a)
    BY DEF Tick
  <2>2. dated.day = d
    BY <1>1 DEF Row
  <2> HIDE DEF dated, d
  <2> QED
    BY <2>1, <2>2 DEF RecordableDays
<1>4. /\ Rebook(m, IF m \in Purchases THEN linked ELSE dated, {})
      /\ mv' = [mv EXCEPT ![m] = linked]
      /\ UNCHANGED <<said, open>>
  BY DEF Tick
<1>5. g \in 0..MaxAsserts
  BY <1>1, <1>2, BooksBoundAssumption
<1> HIDE DEF g, d
<1>6. dated \in Row /\ dated.acct = a /\ dated.day = d
  BY <1>1, <1>3 DEF Row
<1>7. d # Undated
  BY <1>3, BooksBoundAssumption DEF Days, Undated
<1>8. /\ linked \in Row /\ linked.acct = a /\ linked.day # Undated
      /\ linked.link = g
      /\ PurchaseTarget(linked) = PurchaseTarget(dated)
  <2> HIDE DEF dated
  <2>1. PurchaseTarget(linked) = PurchaseTarget(dated)
    BY <1>5, <1>6, LinkIrrelevant
  <2> QED
    BY <1>5, <1>6, <1>7, <2>1 DEF Row
<1> HIDE DEF linked, dated
<1> DEFINE r == IF m \in Purchases THEN linked ELSE dated
<1>9. r \in Row /\ PurchaseTarget(r) = PurchaseTarget(linked)
  BY <1>6, <1>8
<1>10. Rebook(m, r, {})
  BY <1>4
<1> HIDE DEF r
<1>11. /\ posted' = [posted EXCEPT ![m] = PurchaseTarget(linked)]
       /\ booked' \subseteq Accounts
       /\ vacated' \subseteq Accounts
  BY <1>9, <1>10, RebookReachesTarget DEF BooksInv
<1> QED
  BY <1>2, <1>4, <1>8, <1>11, RowWritten

\* apply_anchor_true_up appends: what a link named before, it names still.
LEMMA TrueUpKeeps ==
    ASSUME BooksInv, NEW a \in Accounts, NEW d \in Days, NEW v \in Balances,
           TrueUp(a, d, v)
    PROVE  BooksInv'
<1> DEFINE e == [day |-> d, bal |-> v]
<1>1. /\ said' = [said EXCEPT ![a] = Append(said[a], e)]
      /\ Len(said[a]) < MaxAsserts
      /\ UNCHANGED <<mv, open, posted>>
  BY DEF TrueUp
<1>2. e \in Assertion
  BY DEF Assertion
<1>3. /\ said \in [Accounts -> Seq(Assertion)]
      /\ \A x \in Accounts : Len(said[x]) \in 1..MaxAsserts
  BY DEF BooksInv, FactsTypeOK
<1> HIDE DEF e
<1>4. /\ Append(said[a], e) \in Seq(Assertion)
      /\ Len(Append(said[a], e)) = Len(said[a]) + 1
  BY <1>2, <1>3, AppendProperties
<1>5. said' \in [Accounts -> Seq(Assertion)]
  BY <1>1, <1>3, <1>4
<1>6. \A x \in Accounts : Len(said'[x]) \in 1..MaxAsserts /\ Len(said[x]) <= Len(said'[x])
  <2>1. ASSUME NEW x \in Accounts
        PROVE  Len(said'[x]) \in 1..MaxAsserts /\ Len(said[x]) <= Len(said'[x])
    <3>1. CASE x = a
      <4>1. said'[x] = Append(said[a], e)
        BY <1>1, <1>3, <3>1
      <4>2. Len(said'[x]) = Len(said[a]) + 1 /\ Len(said[a]) \in 1..MaxAsserts
        BY <1>3, <1>4, <4>1
      <4> HIDE DEF e
      <4> QED
        BY <1>1, <3>1, <4>2, BooksBoundAssumption
    <3>2. CASE x # a
      <4>1. said'[x] = said[x] /\ Len(said[x]) \in 1..MaxAsserts
        BY <1>1, <1>3, <3>2
      <4> QED
        BY <4>1, BooksBoundAssumption
    <3> QED
      BY <3>1, <3>2
  <2> QED
    BY <2>1
<1>7. \A m \in Movements : LinkOK(m)'
  <2>1. ASSUME NEW m \in Movements
        PROVE  LinkOK(m)'
    <3>1. /\ mv[m].acct \in Accounts
          /\ mv[m].link \in 0..Len(said[mv[m].acct])
          /\ mv[m].day = Undated => mv[m].link = NoLink
      BY MovementFacts DEF BooksInv
    <3>2. /\ Len(said[mv[m].acct]) <= Len(said'[mv[m].acct])
          /\ Len(said[mv[m].acct]) \in 1..MaxAsserts
          /\ Len(said'[mv[m].acct]) \in 1..MaxAsserts
      BY <1>3, <1>6, <3>1
    <3>3. mv[m].link \in 0..Len(said'[mv[m].acct])
      BY <3>1, <3>2
    <3>4. mv' = mv
      BY <1>1
    <3> QED
      BY <3>1, <3>3, <3>4 DEF LinkOK
  <2> QED
    BY <2>1
<1>8. booked' \subseteq Accounts /\ vacated' \subseteq Accounts
  <2>1. \E b, S : SyncAnchors(b, S, {})
    BY DEF TrueUp
  <2> QED
    BY <2>1, SyncKeepsSets DEF BooksInv
<1>9. FactsTypeOK'
  BY <1>1, <1>5, <1>6, <1>7, <1>8 DEF BooksInv, FactsTypeOK
<1>10. SourcesAtTarget'
  BY <1>1 DEF BooksInv, SourcesAtTarget, PurchaseTarget
<1> QED
  BY <1>9, <1>10 DEF BooksInv

\* apply_opening_restatement writes no row and posts for no movement.
LEMMA RestateKeeps ==
    ASSUME BooksInv, NEW a \in Accounts, NEW d \in Days, NEW v \in Equities,
           RestateOpening(a, d, v)
    PROVE  BooksInv'
<1>1. /\ open' = [open EXCEPT ![a] = [day |-> d, equity |-> v]]
      /\ UNCHANGED <<mv, said, posted>>
  BY DEF RestateOpening
<1>2. open' \in [Accounts -> Opening]
  BY <1>1 DEF BooksInv, FactsTypeOK, Opening
<1>3. booked' \subseteq Accounts /\ vacated' \subseteq Accounts
  <2>1. \E b, S : SyncAnchors(b, S, {})
    BY DEF RestateOpening
  <2> QED
    BY <2>1, SyncKeepsSets DEF BooksInv
<1>4. \A m \in Movements : LinkOK(m)'
  BY <1>1 DEF BooksInv, FactsTypeOK, LinkOK
<1>5. FactsTypeOK'
  BY <1>1, <1>2, <1>3, <1>4 DEF BooksInv, FactsTypeOK
<1>6. SourcesAtTarget'
  BY <1>1 DEF BooksInv, SourcesAtTarget, PurchaseTarget
<1> QED
  BY <1>5, <1>6 DEF BooksInv

\* resync_all_cash_postings brings every movement to its target.
LEMMA DeployKeeps ==
    ASSUME BooksInv, Deploy
    PROVE  BooksInv'
<1>1. /\ posted' = [m \in Movements |-> PurchaseTarget(mv[m])]
      /\ UNCHANGED <<mv, said, open>>
  BY DEF Deploy, rows
<1>2. posted' \in [Movements -> [Keys -> Int]]
  <2>1. \A m \in Movements : PurchaseTarget(mv[m]) \in [Keys -> Int]
    BY TargetType, MovementFacts DEF BooksInv
  <2> QED
    BY <1>1, <2>1
<1>3. booked' \subseteq Accounts /\ vacated' \subseteq Accounts
  <2>1. \E b, S : SyncAnchors(b, S, {})
    BY DEF Deploy
  <2> QED
    BY <2>1, SyncKeepsSets DEF BooksInv
<1>4. \A m \in Movements : LinkOK(m)'
  BY <1>1 DEF BooksInv, FactsTypeOK, LinkOK
<1>5. FactsTypeOK'
  BY <1>1, <1>2, <1>3, <1>4 DEF BooksInv, FactsTypeOK
<1>6. SourcesAtTarget'
  BY <1>1 DEF SourcesAtTarget, PurchaseTarget
<1> QED
  BY <1>5, <1>6 DEF BooksInv

(***************************************************************************)
(* The theorems.                                                           *)
(***************************************************************************)

\* A new account has one assertion, and no movement of it is dated.
LEMMA InitEstablishes ==
    ASSUME Init
    PROVE  BooksInv
<1>1. /\ mv \in [Movements -> Row]
      /\ \A m \in Movements : mv[m].day = Undated /\ mv[m].link = NoLink
      /\ open \in [Accounts -> Opening]
      /\ said = [a \in Accounts |-> <<[day |-> open[a].day, bal |-> open[a].equity]>>]
      /\ posted = [m \in Movements |-> NothingPosted]
      /\ booked \subseteq Accounts
      /\ vacated \subseteq Accounts
  BY NewRowsAreRows DEF Init
<1>2. ASSUME NEW a \in Accounts
      PROVE  said[a] \in Seq(Assertion) /\ Len(said[a]) = 1
  <2> DEFINE e == [day |-> open[a].day, bal |-> open[a].equity]
  <2>1. e \in Assertion
    BY <1>1, AmountsAssumption DEF Assertion, Opening
  <2>2. said[a] = <<e>>
    BY <1>1
  <2> HIDE DEF e
  <2> QED
    BY <2>1, <2>2
<1>3. said \in [Accounts -> Seq(Assertion)]
  <2>1. said = [a \in Accounts |-> said[a]]
    BY <1>1
  <2> HIDE DEF Init
  <2> QED
    BY <1>2, <2>1
<1>4. \A a \in Accounts : Len(said[a]) \in 1..MaxAsserts
  <2>1. 1 \in 1..MaxAsserts
    BY BooksBoundAssumption
  <2>2. \A a \in Accounts : Len(said[a]) = 1
    BY <1>2
  <2> QED
    BY <2>1, <2>2
<1>5. \A m \in Movements : LinkOK(m)
  <2>1. ASSUME NEW m \in Movements
        PROVE  LinkOK(m)
    <3>1. mv[m].acct \in Accounts
      BY <1>1 DEF Row
    <3>2. Len(said[mv[m].acct]) = 1
      BY <1>2, <3>1
    <3> QED
      BY <1>1, <3>2 DEF LinkOK, NoLink
  <2> QED
    BY <2>1
<1>6. posted \in [Movements -> [Keys -> Int]]
  BY <1>1 DEF NothingPosted
<1>7. FactsTypeOK
  BY <1>1, <1>3, <1>4, <1>5, <1>6 DEF FactsTypeOK
<1>8. SourcesAtTarget
  <2>1. ASSUME NEW m \in Movements
        PROVE  posted[m] = PurchaseTarget(mv[m])
    BY <1>1, UndatedTarget
  <2> QED
    BY <2>1 DEF SourcesAtTarget
<1> QED
  BY <1>7, <1>8 DEF BooksInv

\* Every door keeps the invariant, and so does a step that changes nothing.
LEMMA NextKeeps ==
    ASSUME BooksInv, [Next]_vars
    PROVE  BooksInv'
<1>1. ASSUME NEW m \in Movements, MovementDoor(m)
      PROVE  BooksInv'
  <2>1. ASSUME NEW a \in Accounts, NEW d \in Typed, Settle(m, a, d) \/ RePoint(m, a, d)
        PROVE  BooksInv'
    BY <2>1, SettleKeeps, ReleasingDoorsKeep
  <2>2. ASSUME NEW d \in Typed, Redate(m, d)
        PROVE  BooksInv'
    <3>1. mv[m].acct \in Accounts
      BY MovementFacts DEF BooksInv
    <3> QED
      BY <2>2, <3>1, ReleasingDoorsKeep
  <2>3. CASE Revert(m)
    <3>1. mv[m].acct \in Accounts
      BY MovementFacts DEF BooksInv
    <3>2. 1 \in Typed
      BY BooksBoundAssumption DEF Typed
    <3> QED
      BY <2>3, <3>1, <3>2, ReleasingDoorsKeep
  <2>4. ASSUME NEW v \in Amounts, CorrectAmount(m, v)
        PROVE  BooksInv'
    BY <2>4, MovementsAssumption, EditingDoorsKeep
  <2>5. ASSUME NEW c \in Categories, NEW p \in Periods, MoveRow(m, c, p)
        PROVE  BooksInv'
    BY <2>5, MovementsAssumption, EditingDoorsKeep
  <2>6. CASE Delete(m)
    BY <2>6, DeleteKeeps
  <2>7. CASE Tick(m)
    BY <2>7, TickKeeps
  <2> QED
    BY <1>1, <2>1, <2>2, <2>3, <2>4, <2>5, <2>6, <2>7 DEF MovementDoor
<1>2. ASSUME NEW a \in Accounts, AccountDoor(a)
      PROVE  BooksInv'
  BY <1>2, TrueUpKeeps, RestateKeeps DEF AccountDoor
<1>3. CASE Deploy
  BY <1>3, DeployKeeps
<1>4. CASE UNCHANGED vars
  <2>1. UNCHANGED <<mv, said, open, posted, booked, vacated>>
    BY <1>4 DEF vars, rows, ledger
  <2>2. FactsTypeOK'
    BY <2>1 DEF BooksInv, FactsTypeOK, LinkOK
  <2>3. SourcesAtTarget'
    BY <2>1 DEF BooksInv, SourcesAtTarget, PurchaseTarget
  <2> QED
    BY <2>2, <2>3 DEF BooksInv
<1> QED
  BY <1>1, <1>2, <1>3, <1>4 DEF Next

\* The books' invariant holds in every state of every behaviour.
LEMMA BooksInvariant == Spec => []BooksInv
<1>1. Init => BooksInv
  BY InitEstablishes
<1>2. BooksInv /\ [Next]_vars => BooksInv'
  BY NextKeeps
<1> QED
  BY <1>1, <1>2, PTL DEF Spec

\* The rows, histories, openings and the movements' ledger hold values of their
\* kinds, and every clearing link names an assertion of the account the
\* movement is on now: no door writes what the database's foreign key and
\* check constraint would refuse.
THEOREM FactsTyped == Spec => []FactsTypeOK
<1>1. BooksInv => FactsTypeOK
  BY DEF BooksInv
<1> QED
  BY <1>1, BooksInvariant, PTL

\* Whatever doors are used in whatever order, the append-only ledger nets to
\* what each movement says now (emit_source_deltas, reconcile_periods).
THEOREM SourcesCorrect == Spec => []SourcesAtTarget
<1>1. BooksInv => SourcesAtTarget
  BY DEF BooksInv
<1> QED
  BY <1>1, BooksInvariant, PTL


(***************************************************************************)
(* What a movement has posted on an account.                               *)
(***************************************************************************)

\* The money of a row on account a: its leg, once it is dated.
Net(r, a) == IF r.day # Undated /\ r.acct = a THEN r.amt ELSE 0

LEMMA NetTyped ==
    ASSUME NEW r \in Row, NEW a
    PROVE  Net(r, a) \in Int
<1>1. r.amt \in Int
  BY AmountsAssumption DEF Row
<1> QED
  BY <1>1 DEF Net

\* An account's ledger has finitely many keys, one per period and day.
LEMMA AccountKeysFinite ==
    ASSUME NEW a \in Accounts
    PROVE  IsFiniteSet({k \in Keys : k[3] = a})
<1> DEFINE K == {k \in Keys : k[3] = a}
           Q == Periods \X Days
           f == [q \in Q |-> <<q[1], q[2], a>>]
<1>1. IsFiniteSet(Q)
  <2>1. IsFiniteSet(Days)
    BY FS_Interval, BooksBoundAssumption DEF Days
  <2> QED
    BY <2>1, FS_Product, AccountsAssumption
<1>2. f \in [Q -> K]
  <2>1. ASSUME NEW q \in Q PROVE <<q[1], q[2], a>> \in K
    BY DEF Keys
  <2> QED
    BY <2>1
<1>3. ASSUME NEW k \in K PROVE \E q \in Q : f[q] = k
  <2>1. /\ k \in Periods \X Days \X (Accounts \cup Categories)
        /\ k[3] = a
    BY DEF Keys
  <2>2. <<k[1], k[2]>> \in Q /\ k = <<k[1], k[2], a>>
    BY <2>1
  <2>3. f[<<k[1], k[2]>>] = k
    BY <2>2
  <2> QED
    BY <2>2, <2>3
<1>4. f \in Surjection(Q, K)
  <2> HIDE DEF f, K, Q
  <2> QED BY <1>2, <1>3 DEF Surjection
<1> QED
  <2> HIDE DEF f, K, Q
  <2>1. IsFiniteSet(K)
    BY <1>1, <1>4, FS_Surjection
  <2> QED
    BY <2>1 DEF K

\* What a target posts under the keys K of an account (_source_net_days).
LEMMA TargetSum ==
    ASSUME NEW r \in Row, NEW a \in Accounts, NEW K \in SUBSET {k \in Keys : k[3] = a}
    PROVE  SumFunctionOnSet(PurchaseTarget(r), K)
           = IF <<r.per, r.day, a>> \in K THEN Net(r, a) ELSE 0
<1> DEFINE y == <<r.per, r.day, a>>
           f == PurchaseTarget(r)
<1>1. IsFiniteSet(K)
  BY AccountKeysFinite, FS_Subset
<1>2. ASSUME NEW k \in K
      PROVE  /\ k \in Keys
             /\ f[k] = IF k = y /\ r.acct = a THEN r.amt ELSE 0
  <2>1. k \in Keys /\ k[3] = a /\ k = <<k[1], k[2], a>>
    BY DEF Keys
  <2>2. r.cat # a
    BY AccountsAssumption DEF Row
  <2>3. k = y <=> k[1] = r.per /\ k[2] = r.day
    BY <2>1
  <2> HIDE DEF y
  <2> QED
    BY <2>1, <2>2, <2>3 DEF PurchaseTarget
<1>3. \A k \in K : k # <<r.per, Undated, a>>
  BY <1>2, BooksBoundAssumption DEF Keys, Days, Undated
<1>4. r.amt \in Int
  BY AmountsAssumption DEF Row
<1> HIDE DEF f
<1>5. CASE y \in K
  <2>1. r.day # Undated
    BY <1>3, <1>5
  <2>2. f[y] = Net(r, a) /\ f[y] \in Int
    <3> HIDE DEF y
    <3> QED BY <1>2, <1>4, <1>5, <2>1 DEF Net
  <2>3. \A k \in K \ {y} : f[k] = 0
    BY <1>2
  <2>4. SumFunctionOnSet(f, K) = f[y]
    <3> HIDE DEF y
    <3> QED BY <1>1, <1>5, <2>2, <2>3, SumSingle
  <2> QED
    BY <1>5, <2>2, <2>4 DEF f
<1>6. CASE y \notin K
  <2>1. \A k \in K : f[k] = 0
    BY <1>2, <1>6
  <2>2. SumFunctionOnSet(f, K) = 0
    BY <1>1, <2>1, SumZeros
  <2> QED
    BY <1>6, <2>2 DEF f
<1> QED
  BY <1>5, <1>6

\* A movement at its target has its row's money on the account.
LEMMA SourceNetIs ==
    ASSUME NEW r \in Row, NEW a \in Accounts, NEW b, NEW m, b.net[m] = PurchaseTarget(r)
    PROVE  SourceNet(b, a, m) = Net(r, a)
<1> DEFINE K == {k \in Keys : k[3] = a}
           y == <<r.per, r.day, a>>
<1>1. SumFunctionOnSet(PurchaseTarget(r), K) = IF y \in K THEN Net(r, a) ELSE 0
  BY TargetSum
<1>2. r.day # Undated => y \in K
  BY DEF Row, Keys
<1>3. r.day = Undated => Net(r, a) = 0
  BY DEF Net
<1> HIDE DEF y
<1> QED
  BY <1>1, <1>2, <1>3 DEF SourceNet

(***************************************************************************)
(* Which assertion clears a movement.                                      *)
(***************************************************************************)

\* A set of assertions has a first one in their order, as it has a last one.
LEMMA FirstInSet ==
    ASSUME NEW s \in Seq(Assertion), NEW I \in SUBSET DOMAIN s, I # {}
    PROVE  /\ FirstOf(s, I) \in I
           /\ \A j \in I \ {FirstOf(s, I)} : Earlier(s, FirstOf(s, I), j)
<1> DEFINE HasFirst(J) == \E i \in J : \A j \in J \ {i} : Earlier(s, i, j)
           P == {J \in SUBSET I : J # {} => HasFirst(J)}
<1>1. IsFiniteSet(I)
  BY FS_Interval, FS_Subset, HistoryFacts
<1>2. ASSUME NEW J \in SUBSET I, NEW x \in I \ J, J \in P
      PROVE  J \cup {x} \in P
  <2>1. CASE J = {}
    BY <2>1
  <2>2. CASE J # {}
    <3>1. PICK y \in J : \A j \in J \ {y} : Earlier(s, y, j)
      BY <1>2, <2>2
    <3>2. x \in DOMAIN s /\ y \in DOMAIN s /\ x # y
      BY <3>1
    <3>3. CASE Earlier(s, y, x)
      <4>1. \A j \in (J \cup {x}) \ {y} : Earlier(s, y, j)
        BY <3>1, <3>3
      <4>2. HasFirst(J \cup {x})
        BY <4>1
      <4> QED
        BY <4>2
    <3>4. CASE Earlier(s, x, y)
      <4>1. \A j \in (J \cup {x}) \ {x} : Earlier(s, x, j)
        BY <3>1, <3>2, <3>4, EarlierTransitive
      <4>2. HasFirst(J \cup {x})
        BY <4>1
      <4> QED
        BY <4>2
    <3> QED
      BY <3>2, <3>3, <3>4, EarlierTotal
  <2> QED
    BY <2>1, <2>2
<1>3. I \in P
  <2>1. {} \in P
    OBVIOUS
  <2> HIDE DEF P
  <2> QED BY <1>1, <1>2, <2>1, ElementInduction
<1>4. HasFirst(I)
  BY <1>3
<1> QED
  BY <1>4 DEF FirstOf

\* e is the day of the first assertion on or after day d.
FallsOn(s, d, e) ==
    /\ \E i \in DOMAIN s : s[i].day = e
    /\ d <= e
    /\ \A j \in DOMAIN s : d <= s[j].day => e <= s[j].day

\* Whatever its link, a movement is cleared on the day of the first assertion
\* that covers it, if there is one (clearing_anchor_id).
LEMMA ClearingDay ==
    ASSUME NEW s \in Seq(Assertion), NEW r \in Row, r.day # Undated, r.link \in 0..Len(s)
    PROVE  LET c == ClearingAssertion(s, r)
           IN /\ c \in DOMAIN s => FallsOn(s, r.day, s[c].day)
              /\ c \notin DOMAIN s => c = NoLink /\ \A i \in DOMAIN s : ~(r.day <= s[i].day)
<1> DEFINE I == {i \in DOMAIN s : s[i].day >= r.day}
           f == FirstCovering(s, r.day)
           c == ClearingAssertion(s, r)
<1>1. r.day \in Int
  BY BooksBoundAssumption DEF Row, Days, Undated
<1>2. /\ \A i \in DOMAIN s : i \in Int /\ i # NoLink /\ s[i].day \in Int
      /\ r.link # NoLink => r.link \in DOMAIN s
  BY HistoryFacts DEF NoLink
<1>3. CASE I = {}
  <2>1. f = NoLink
    BY <1>3 DEF FirstCovering
  <2>2. c = NoLink
    BY <2>1 DEF ClearingAssertion
  <2>3. \A i \in DOMAIN s : ~(r.day <= s[i].day)
    BY <1>1, <1>2, <1>3
  <2> HIDE DEF c
  <2> QED
    BY <1>2, <2>2, <2>3 DEF c
<1>4. CASE I # {}
  <2>1. f = FirstOf(s, I)
    BY <1>4 DEF FirstCovering
  <2>2. f \in I /\ \A j \in I \ {f} : Earlier(s, f, j)
    BY <1>4, <2>1, FirstInSet
  <2>3. f \in DOMAIN s /\ r.day <= s[f].day /\ f # NoLink
    BY <1>1, <1>2, <2>2
  <2>4. \A j \in DOMAIN s : r.day <= s[j].day => s[f].day <= s[j].day
    <3>1. ASSUME NEW j \in DOMAIN s, r.day <= s[j].day
          PROVE  s[f].day <= s[j].day
      <4>1. j \in I
        BY <1>1, <1>2, <3>1
      <4>2. j = f \/ Earlier(s, f, j)
        BY <2>2, <4>1
      <4> HIDE DEF f, I
      <4> QED
        BY <1>2, <2>3, <4>2 DEF Earlier
    <3> QED
      BY <3>1
  <2>5. c \in DOMAIN s /\ s[c].day = s[f].day
    BY <1>2, <2>3 DEF ClearingAssertion
  <2> HIDE DEF c, f, I
  <2>6. FallsOn(s, r.day, s[c].day)
    BY <2>3, <2>4, <2>5 DEF FallsOn
  <2> QED
    BY <2>5, <2>6 DEF c
<1> QED
  BY <1>3, <1>4

\* Only one day is the first asserted on or after a day.
LEMMA FallsOnOneDay ==
    ASSUME NEW s \in Seq(Assertion), NEW d, NEW e, NEW x,
           FallsOn(s, d, e), FallsOn(s, d, x)
    PROVE  e = x
<1>1. PICK i \in DOMAIN s : s[i].day = e
  BY DEF FallsOn
<1>2. PICK j \in DOMAIN s : s[j].day = x
  BY DEF FallsOn
<1>3. e \in Int /\ x \in Int
  BY <1>1, <1>2, HistoryFacts
<1>4. e <= x /\ x <= e
  BY <1>1, <1>2 DEF FallsOn
<1> QED
  BY <1>3, <1>4

(***************************************************************************)
(* The corrections of an account as a function of its facts.  Summed over  *)
(* a day, they depend on a movement's day, account and leg alone, so a     *)
(* link recorded after the re-check moves none.                            *)
(***************************************************************************)

\* What the ledger read before assertion i, and what i lifts it by.
Base(s, eq, i) ==
    LET I == {j \in DOMAIN s : Earlier(s, j, i)}
    IN IF I = {} THEN eq ELSE s[LastOf(s, I)].bal
Rise(s, eq, i) == s[i].bal - Base(s, eq, i)

\* What the assertions of day e lift the ledger by, and what they cleared.
RisenOn(s, eq, e) ==
    SumFunctionOnSet([i \in DOMAIN s |-> IF s[i].day = e THEN Rise(s, eq, i) ELSE 0], DOMAIN s)
DayShare(s, r, a, e) == IF FallsOn(s, r.day, e) THEN Net(r, a) ELSE 0
CoveredOn(mvs, s, a, e) ==
    SumFunctionOnSet([m \in Movements |-> DayShare(s, mvs[m], a, e)], Movements)

Walk(mvs, s, o, a) ==
    [k \in Kinds \X Days |->
        IF k[1] = "opening" THEN IF k[2] = o.day THEN o.equity ELSE 0
        ELSE RisenOn(s, o.equity, k[2]) - CoveredOn(mvs, s, a, k[2])]

\* The part of a movement that assertion i cleared.
Share(s, r, a, i) == IF ClearingAssertion(s, r) = i THEN Net(r, a) ELSE 0

\* What a walk needs of the links: one of a dated movement names an assertion.
LinksFit(mvs, s, a) ==
    \A m \in Movements :
        mvs[m].day # Undated /\ mvs[m].acct = a => mvs[m].link \in 0..Len(s)

LEMMA RiseTyped ==
    ASSUME NEW s \in Seq(Assertion), NEW eq \in Int, NEW i \in DOMAIN s
    PROVE  Base(s, eq, i) \in Int /\ Rise(s, eq, i) \in Int
<1> DEFINE I == {j \in DOMAIN s : Earlier(s, j, i)}
<1>1. \A j \in DOMAIN s : s[j].bal \in Int
  BY HistoryFacts, AmountsAssumption DEF Assertion
<1>2. I # {} => LastOf(s, I) \in DOMAIN s
  BY LastInSet
<1>3. Base(s, eq, i) = IF I = {} THEN eq ELSE s[LastOf(s, I)].bal
  BY DEF Base
<1>4. Base(s, eq, i) \in Int
  <2> HIDE DEF I
  <2> QED BY <1>1, <1>2, <1>3
<1> QED
  BY <1>1, <1>4 DEF Rise

\* Cleared sums the shares of all movements.
LEMMA ClearedIs ==
    ASSUME NEW b, NEW a \in Accounts, NEW i, b.mv \in [Movements -> Row],
           \A m \in Movements : b.net[m] = PurchaseTarget(b.mv[m])
    PROVE  Cleared(b, a, i)
           = SumFunctionOnSet([m \in Movements |-> Share(b.said[a], b.mv[m], a, i)], Movements)
<1> DEFINE s == b.said[a]
           D == {m \in Movements : /\ SourceNet(b, a, m) # 0
                                   /\ ClearingAssertion(s, b.mv[m]) = i}
           f == [m \in Movements |-> SourceNet(b, a, m)]
           g == [m \in Movements |-> Share(s, b.mv[m], a, i)]
<1>1. ASSUME NEW m \in Movements
      PROVE  SourceNet(b, a, m) = Net(b.mv[m], a) /\ Net(b.mv[m], a) \in Int
  <2>1. b.mv[m] \in Row
    OBVIOUS
  <2> QED
    BY <2>1, SourceNetIs, NetTyped
<1>2. \A m \in D : f[m] \in Int
  BY <1>1
<1>3. \A m \in Movements : g[m] = IF m \in D THEN f[m] ELSE 0
  BY <1>1 DEF Share
<1>4. Cleared(b, a, i) = SumFunctionOnSet(f, D)
  BY DEF Cleared
<1>5. D \in SUBSET Movements
  OBVIOUS
<1> HIDE DEF f, g, D
<1>6. SumFunctionOnSet(f, D) = SumFunctionOnSet(g, Movements)
  BY <1>2, <1>3, <1>5, AccountsAssumption, SumFilter
<1> QED
  BY <1>4, <1>6 DEF g

\* A dated movement is cleared by one assertion, on the day it falls on.
LEMMA ShareSum ==
    ASSUME NEW s \in Seq(Assertion), NEW r \in Row, NEW a \in Accounts, NEW e,
           r.day # Undated /\ r.acct = a => r.link \in 0..Len(s)
    PROVE  SumFunctionOnSet([i \in DOMAIN s |-> IF s[i].day = e THEN Share(s, r, a, i) ELSE 0],
                            DOMAIN s)
           = DayShare(s, r, a, e)
<1> DEFINE f == [i \in DOMAIN s |-> IF s[i].day = e THEN Share(s, r, a, i) ELSE 0]
           c == ClearingAssertion(s, r)
<1>1. IsFiniteSet(DOMAIN s)
  BY FS_Interval, HistoryFacts
<1>2. Net(r, a) \in Int
  BY NetTyped
<1>3. CASE Net(r, a) = 0
  <2>1. \A i \in DOMAIN s : f[i] = 0
    BY <1>3 DEF Share
  <2> HIDE DEF f
  <2>2. SumFunctionOnSet(f, DOMAIN s) = 0
    BY <1>1, <2>1, SumZeros
  <2> QED
    BY <1>3, <2>2 DEF f, DayShare
<1>4. CASE Net(r, a) # 0
  <2>1. r.day # Undated /\ r.link \in 0..Len(s)
    BY <1>4 DEF Net
  <2>2. /\ c \in DOMAIN s => FallsOn(s, r.day, s[c].day)
        /\ c \notin DOMAIN s => \A i \in DOMAIN s : ~(r.day <= s[i].day)
    BY <2>1, ClearingDay
  <2>3. CASE c \in DOMAIN s /\ s[c].day = e
    <3>1. FallsOn(s, r.day, e)
      BY <2>2, <2>3
    <3>2. f[c] = Net(r, a) /\ \A i \in DOMAIN s \ {c} : f[i] = 0
      BY <2>3 DEF Share
    <3> HIDE DEF f, c
    <3>3. SumFunctionOnSet(f, DOMAIN s) = f[c]
      BY <1>1, <1>2, <2>3, <3>2, SumSingle
    <3> QED
      BY <3>1, <3>2, <3>3 DEF f, DayShare
  <2>4. CASE ~(c \in DOMAIN s /\ s[c].day = e)
    <3>1. \A i \in DOMAIN s : f[i] = 0
      BY <2>4 DEF Share
    <3>2. ~FallsOn(s, r.day, e)
      <4>1. CASE c \in DOMAIN s
        BY <2>2, <2>4, <4>1, FallsOnOneDay
      <4>2. CASE c \notin DOMAIN s
        BY <2>2, <4>2 DEF FallsOn
      <4> QED
        BY <4>1, <4>2
    <3> HIDE DEF f
    <3>3. SumFunctionOnSet(f, DOMAIN s) = 0
      BY <1>1, <3>1, SumZeros
    <3> QED
      BY <3>2, <3>3 DEF f, DayShare
  <2> QED
    BY <2>3, <2>4
<1> QED
  BY <1>3, <1>4

\* What the assertions of a day cleared, assertion by assertion and movement by
\* movement.
LEMMA DayCleared ==
    ASSUME NEW s \in Seq(Assertion), NEW mvs \in [Movements -> Row], NEW a \in Accounts,
           NEW e, LinksFit(mvs, s, a)
    PROVE  SumFunctionOnSet(
               [i \in DOMAIN s |->
                   IF s[i].day = e
                   THEN SumFunctionOnSet([m \in Movements |-> Share(s, mvs[m], a, i)], Movements)
                   ELSE 0], DOMAIN s)
           = CoveredOn(mvs, s, a, e)
<1> DEFINE h == [i \in DOMAIN s |-> [m \in Movements |->
                    IF s[i].day = e THEN Share(s, mvs[m], a, i) ELSE 0]]
           byRow == [i \in DOMAIN s |->
                   IF s[i].day = e
                   THEN SumFunctionOnSet([m \in Movements |-> Share(s, mvs[m], a, i)], Movements)
                   ELSE 0]
           byColumn == [m \in Movements |-> DayShare(s, mvs[m], a, e)]
<1>1. IsFiniteSet(DOMAIN s) /\ IsFiniteSet(Movements)
  BY FS_Interval, HistoryFacts, AccountsAssumption
<1>2. h \in [DOMAIN s -> [Movements -> Int]]
  BY NetTyped DEF Share
<1>3. SumFunctionOnSet([i \in DOMAIN s |-> SumFunctionOnSet(h[i], Movements)], DOMAIN s)
      = SumFunctionOnSet([m \in Movements |-> SumFunctionOnSet([i \in DOMAIN s |-> h[i][m]], DOMAIN s)],
                         Movements)
  <2> HIDE DEF h
  <2> QED BY <1>1, <1>2, SumSwap
<1>4. ASSUME NEW i \in DOMAIN s
      PROVE  SumFunctionOnSet(h[i], Movements) = byRow[i]
  <2>1. CASE s[i].day = e
    <3>1. h[i] = [m \in Movements |-> Share(s, mvs[m], a, i)]
      BY <2>1
    <3> QED
      BY <2>1, <3>1
  <2>2. CASE s[i].day # e
    <3>1. \A m \in Movements : h[i][m] = 0
      BY <2>2
    <3>2. SumFunctionOnSet(h[i], Movements) = 0
      <4> HIDE DEF h
      <4> QED BY <1>1, <3>1, SumZeros
    <3> QED
      BY <2>2, <3>2
  <2> QED
    BY <2>1, <2>2
<1>5. ASSUME NEW m \in Movements
      PROVE  SumFunctionOnSet([i \in DOMAIN s |-> h[i][m]], DOMAIN s) = byColumn[m]
  <2>1. [i \in DOMAIN s |-> h[i][m]]
        = [i \in DOMAIN s |-> IF s[i].day = e THEN Share(s, mvs[m], a, i) ELSE 0]
    OBVIOUS
  <2>2. mvs[m] \in Row
    OBVIOUS
  <2>3. mvs[m].day # Undated /\ mvs[m].acct = a => mvs[m].link \in 0..Len(s)
    BY DEF LinksFit
  <2>4. SumFunctionOnSet([i \in DOMAIN s |-> IF s[i].day = e THEN Share(s, mvs[m], a, i) ELSE 0],
                         DOMAIN s) = DayShare(s, mvs[m], a, e)
    BY <2>2, <2>3, ShareSum
  <2> QED
    BY <2>1, <2>4
<1>6. [i \in DOMAIN s |-> SumFunctionOnSet(h[i], Movements)] = byRow
  <2>1. byRow = [i \in DOMAIN s |-> byRow[i]]
    OBVIOUS
  <2> HIDE DEF h, byRow
  <2> QED BY <1>4, <2>1
<1>7. [m \in Movements |-> SumFunctionOnSet([i \in DOMAIN s |-> h[i][m]], DOMAIN s)] = byColumn
  <2>1. byColumn = [m \in Movements |-> byColumn[m]]
    OBVIOUS
  <2> HIDE DEF h, byColumn
  <2> QED BY <1>5, <2>1
<1> QED
  BY <1>3, <1>6, <1>7 DEF CoveredOn

\* A full walk of an account, from its facts (walk_account_ledger).
LEMMA WalkIs ==
    ASSUME NEW b, NEW a \in Accounts, b.mv \in [Movements -> Row],
           \A m \in Movements : b.net[m] = PurchaseTarget(b.mv[m]),
           b.said[a] \in Seq(Assertion), b.open[a] \in Opening,
           LinksFit(b.mv, b.said[a], a)
    PROVE  CorrectionTarget(b, a) = Walk(b.mv, b.said[a], b.open[a], a)
<1> DEFINE s == b.said[a]
           eq == b.open[a].equity
           share(i) == SumFunctionOnSet([m \in Movements |-> Share(s, b.mv[m], a, i)], Movements)
<1>1. IsFiniteSet(DOMAIN s) /\ IsFiniteSet(Movements)
  BY FS_Interval, HistoryFacts, AccountsAssumption
<1>2. eq \in Int
  BY AmountsAssumption DEF Opening
<1>3. ASSUME NEW i \in DOMAIN s
      PROVE  /\ LedgerBefore(b, a, i) = share(i) + Base(s, eq, i)
             /\ share(i) \in Int
             /\ Base(s, eq, i) \in Int
             /\ s[i].bal \in Int
  <2>1. Cleared(b, a, i) = share(i)
    BY ClearedIs
  <2>2. share(i) \in Int
    <3> DEFINE f == [m \in Movements |-> Share(s, b.mv[m], a, i)]
    <3>1. \A m \in Movements : f[m] \in Int
      BY NetTyped DEF Share
    <3> HIDE DEF f
    <3>2. SumFunctionOnSet(f, Movements) \in Int
      BY <1>1, <3>1, SumInt
    <3> QED
      BY <3>2 DEF f
  <2>3. Base(s, eq, i) \in Int
    BY <1>2, RiseTyped
  <2>4. s[i].bal \in Int
    BY HistoryFacts, AmountsAssumption DEF Assertion
  <2>5. LedgerBefore(b, a, i) = Cleared(b, a, i) + Base(s, eq, i)
    BY DEF LedgerBefore, Base
  <2> QED
    BY <2>1, <2>2, <2>3, <2>4, <2>5
<1>4. ASSUME NEW e
      PROVE  SumFunction([i \in {i \in DOMAIN s : s[i].day = e} |->
                              s[i].bal - LedgerBefore(b, a, i)])
             = RisenOn(s, eq, e) - CoveredOn(b.mv, s, a, e)
  <2> DEFINE D == {i \in DOMAIN s : s[i].day = e}
             f == [i \in D |-> s[i].bal - LedgerBefore(b, a, i)]
             g == [i \in DOMAIN s |-> IF i \in D THEN f[i] ELSE 0]
             cleared == [i \in DOMAIN s |-> IF s[i].day = e THEN share(i) ELSE 0]
             risen == [i \in DOMAIN s |-> IF s[i].day = e THEN Rise(s, eq, i) ELSE 0]
  <2>1. \A i \in D : f[i] \in Int
    <3>1. ASSUME NEW i \in D PROVE f[i] \in Int
      <4>1. /\ LedgerBefore(b, a, i) = share(i) + Base(s, eq, i)
            /\ share(i) \in Int /\ Base(s, eq, i) \in Int /\ s[i].bal \in Int
        BY <1>3
      <4>2. f[i] = s[i].bal - LedgerBefore(b, a, i)
        OBVIOUS
      <4> HIDE DEF f, D, s, eq, share
      <4> QED BY <4>1, <4>2
    <3> QED
      BY <3>1
  <2>2. SumFunction(f) = SumFunctionOnSet(f, D)
    BY DEF SumFunction
  <2>3. SumFunctionOnSet(f, D) = SumFunctionOnSet(g, DOMAIN s)
    <3>1. D \in SUBSET DOMAIN s /\ \A i \in DOMAIN s : g[i] = IF i \in D THEN f[i] ELSE 0
      OBVIOUS
    <3> HIDE DEF f, g, D, s
    <3> QED BY <1>1, <2>1, <3>1, SumFilter
  <2>4. ASSUME NEW i \in DOMAIN s
        PROVE  g[i] \in Int /\ cleared[i] \in Int /\ risen[i] = g[i] + cleared[i]
    <3>1. Rise(s, eq, i) = s[i].bal - Base(s, eq, i)
      BY DEF Rise
    <3>2. i \in D <=> s[i].day = e
      OBVIOUS
    <3>3. i \in D => g[i] = s[i].bal - (share(i) + Base(s, eq, i))
      BY <1>3
    <3>4. i \notin D => g[i] = 0
      OBVIOUS
    <3>5. /\ risen[i] = IF i \in D THEN Rise(s, eq, i) ELSE 0
          /\ cleared[i] = IF i \in D THEN share(i) ELSE 0
      BY <3>2
    <3>6. share(i) \in Int /\ Base(s, eq, i) \in Int /\ s[i].bal \in Int
      BY <1>3
    <3> HIDE DEF g, cleared, risen, D, share, s, eq
    <3> QED
      BY <3>1, <3>3, <3>4, <3>5, <3>6
  <2>5. SumFunctionOnSet(cleared, DOMAIN s) = CoveredOn(b.mv, s, a, e)
    BY DayCleared
  <2>6. SumFunctionOnSet(risen, DOMAIN s) = RisenOn(s, eq, e)
    BY DEF RisenOn
  <2> HIDE DEF f, g, D, cleared, risen
  <2>7. SumFunctionOnSet(risen, DOMAIN s)
        = SumFunctionOnSet(g, DOMAIN s) + SumFunctionOnSet(cleared, DOMAIN s)
    BY <1>1, <2>4, SumPlus
  <2>8. SumFunctionOnSet(g, DOMAIN s) \in Int /\ SumFunctionOnSet(cleared, DOMAIN s) \in Int
    BY <1>1, <2>4, SumInt
  <2>9. SumFunctionOnSet(g, DOMAIN s) = RisenOn(s, eq, e) - CoveredOn(b.mv, s, a, e)
    BY <2>5, <2>6, <2>7, <2>8
  <2>10. SumFunction(f) = RisenOn(s, eq, e) - CoveredOn(b.mv, s, a, e)
    BY <2>2, <2>3, <2>9
  <2> QED
    BY <2>10 DEF f, D
<1>5. \A k \in Kinds \X Days :
        CorrectionTarget(b, a)[k] = Walk(b.mv, s, b.open[a], a)[k]
  <2> HIDE DEF share
  <2> QED BY <1>4 DEF CorrectionTarget, Walk
<1> QED
  <2>1. /\ CorrectionTarget(b, a) = [k \in Kinds \X Days |-> CorrectionTarget(b, a)[k]]
        /\ Walk(b.mv, s, b.open[a], a) = [k \in Kinds \X Days |-> Walk(b.mv, s, b.open[a], a)[k]]
    BY DEF CorrectionTarget, Walk
  <2> QED
    BY <1>5, <2>1

\* A walk corrects by integers.
LEMMA WalkTyped ==
    ASSUME NEW mvs \in [Movements -> Row], NEW s \in Seq(Assertion), NEW o \in Opening,
           NEW a \in Accounts
    PROVE  Walk(mvs, s, o, a) \in [Kinds \X Days -> Int]
<1>1. IsFiniteSet(DOMAIN s) /\ IsFiniteSet(Movements)
  BY FS_Interval, HistoryFacts, AccountsAssumption
<1>2. o.equity \in Int
  BY AmountsAssumption DEF Opening
<1>3. ASSUME NEW e
      PROVE  RisenOn(s, o.equity, e) \in Int /\ CoveredOn(mvs, s, a, e) \in Int
  <2> DEFINE f == [i \in DOMAIN s |-> IF s[i].day = e THEN Rise(s, o.equity, i) ELSE 0]
             g == [m \in Movements |-> DayShare(s, mvs[m], a, e)]
  <2>1. \A i \in DOMAIN s : f[i] \in Int
    BY <1>2, RiseTyped
  <2>2. \A m \in Movements : g[m] \in Int
    BY NetTyped DEF DayShare
  <2> HIDE DEF f, g
  <2>3. SumFunctionOnSet(f, DOMAIN s) \in Int /\ SumFunctionOnSet(g, Movements) \in Int
    BY <1>1, <2>1, <2>2, SumInt
  <2> QED
    BY <2>3 DEF f, g, RisenOn, CoveredOn
<1> QED
  BY <1>2, <1>3 DEF Walk

\* Movements with the same shares are walked alike: no day, account or leg that
\* an assertion covers moved.
LEMMA SameWalk ==
    ASSUME NEW mvs, NEW mvt, NEW s, NEW o, NEW a,
           \A m \in Movements : \A e \in Days : DayShare(s, mvs[m], a, e) = DayShare(s, mvt[m], a, e)
    PROVE  Walk(mvs, s, o, a) = Walk(mvt, s, o, a)
<1>1. ASSUME NEW e \in Days
      PROVE  CoveredOn(mvs, s, a, e) = CoveredOn(mvt, s, a, e)
  <2>1. [m \in Movements |-> DayShare(s, mvs[m], a, e)]
        = [m \in Movements |-> DayShare(s, mvt[m], a, e)]
    OBVIOUS
  <2> QED
    BY <2>1 DEF CoveredOn
<1> QED
  BY <1>1 DEF Walk

(***************************************************************************)
(* The inductive invariant: the books' invariant, corrections that are     *)
(* those of a full walk wherever no movement was re-pointed away, and no   *)
(* movement dated by the day its account opened.                           *)
(***************************************************************************)

\* An opening is its day's closing balance: money moves on a later day.
DatedAfterOpening ==
    \A m \in Movements : mv[m].day # Undated => mv[m].day > open[mv[m].acct].day

CorrectionsTyped == corr \in [Accounts -> [Kinds \X Days -> Int]]

CorrectionsInv ==
    /\ BooksInv
    /\ DatedAfterOpening
    /\ CorrectionsTyped
    /\ OnlyVacatedLedgersDrift

\* A full walk now, from the rows and histories as they stand.
LEMMA NowWalk ==
    BooksInv => \A a \in Accounts : /\ said[a] \in Seq(Assertion) /\ open[a] \in Opening
                                    /\ LinksFit(mv, said[a], a)
                                    /\ CorrectionTarget(Now, a) = Walk(mv, said[a], open[a], a)
<1> SUFFICES ASSUME BooksInv, NEW a \in Accounts
             PROVE  /\ said[a] \in Seq(Assertion) /\ open[a] \in Opening
                    /\ LinksFit(mv, said[a], a)
                    /\ CorrectionTarget(Now, a) = Walk(mv, said[a], open[a], a)
  OBVIOUS
<1>1. said[a] \in Seq(Assertion) /\ open[a] \in Opening
  BY DEF BooksInv, FactsTypeOK
<1>2. LinksFit(mv, said[a], a)
  BY MovementFacts DEF BooksInv, LinksFit
<1>3. /\ Now.mv = mv /\ Now.net = posted /\ Now.said = said /\ Now.open = open
  BY DEF Now, Books
<1>4. mv \in [Movements -> Row] /\ \A m \in Movements : posted[m] = PurchaseTarget(mv[m])
  BY DEF BooksInv, FactsTypeOK, SourcesAtTarget
<1> HIDE DEF Now
<1>5. CorrectionTarget(Now, a) = Walk(Now.mv, Now.said[a], Now.open[a], a)
  BY <1>1, <1>2, <1>3, <1>4, WalkIs
<1> QED
  BY <1>1, <1>2, <1>3, <1>5

\* A step that re-checks the accounts S and leaves the walk of the others as it
\* was keeps the corrections those of a full walk.
LEMMA SyncKeeps ==
    ASSUME CorrectionsInv, BooksInv', NEW S, NEW left,
           corr' = [a \in Accounts |->
                       IF a \in S THEN Walk(mv', said'[a], open'[a], a) ELSE corr[a]],
           vacated' = (vacated \cup left) \ S,
           \A a \in Accounts : a \notin S /\ a \notin left =>
               Walk(mv, said[a], open[a], a) = Walk(mv', said'[a], open'[a], a)
    PROVE  CorrectionsTyped' /\ OnlyVacatedLedgersDrift'
<1>1. \A a \in Accounts : /\ said'[a] \in Seq(Assertion) /\ open'[a] \in Opening
                          /\ CorrectionTarget(Now, a)' = Walk(mv', said'[a], open'[a], a)
  <2>1. BooksInv' => (\A a \in Accounts : /\ said[a] \in Seq(Assertion) /\ open[a] \in Opening
                                          /\ LinksFit(mv, said[a], a)
                                          /\ CorrectionTarget(Now, a) = Walk(mv, said[a], open[a], a))'
    BY NowWalk, PTL
  <2> QED
    BY <2>1
<1>3. \A a \in Accounts : corr[a] \in [Kinds \X Days -> Int]
  BY DEF CorrectionsInv, CorrectionsTyped
<1>4. \A a \in Accounts \ vacated : corr[a] = Walk(mv, said[a], open[a], a)
  BY NowWalk DEF CorrectionsInv, OnlyVacatedLedgersDrift
<1>5. mv' \in [Movements -> Row]
  BY DEF BooksInv, FactsTypeOK
<1>6. \A a \in Accounts : Walk(mv', said'[a], open'[a], a) \in [Kinds \X Days -> Int]
  BY <1>1, <1>5, WalkTyped
<1>7. ASSUME NEW a \in Accounts
      PROVE  /\ corr'[a] \in [Kinds \X Days -> Int]
             /\ a \notin vacated' => corr'[a] = Walk(mv', said'[a], open'[a], a)
  BY <1>3, <1>4, <1>6
<1>8. CorrectionsTyped'
  <2>1. corr' = [a \in Accounts |-> corr'[a]]
    OBVIOUS
  <2> QED
    BY <1>7, <2>1 DEF CorrectionsTyped
<1>9. OnlyVacatedLedgersDrift'
  BY <1>1, <1>7 DEF OnlyVacatedLedgersDrift
<1> QED
  BY <1>8, <1>9

\* Rows that post the same leg on the same day are alike for every walk.
Alike(q, r) ==
    \/ q.day = r.day /\ q.acct = r.acct /\ q.amt = r.amt
    \/ q.day = Undated /\ r.day = Undated

LEMMA AlikeShares ==
    ASSUME NEW q, NEW r, Alike(q, r), NEW s, NEW a, NEW e
    PROVE  DayShare(s, q, a, e) = DayShare(s, r, a, e)
BY DEF Alike, DayShare, Net

\* A target equal under the key of a dated row's own leg is of a row alike.
LEMMA TargetTells ==
    ASSUME NEW q \in Row, NEW r \in Row, q.day # Undated,
           LET y == <<q.per, q.day, q.acct>>
           IN  y \in Keys => PurchaseTarget(r)[y] = PurchaseTarget(q)[y]
    PROVE  Alike(q, r)
<1> DEFINE y == <<q.per, q.day, q.acct>>
<1>1. y \in Keys
  BY DEF Row, Keys
<1>2. PurchaseTarget(q)[y] = q.amt /\ q.amt # 0
  BY <1>1, AmountsAssumption DEF PurchaseTarget, Row
<1>3. r.cat # q.acct
  BY AccountsAssumption DEF Row
<1>4. PurchaseTarget(r)[y] = IF q.per # r.per \/ q.day # r.day THEN 0
                             ELSE IF q.acct = r.acct THEN r.amt ELSE 0
  BY <1>1, <1>3 DEF PurchaseTarget
<1>5. PurchaseTarget(r)[y] = PurchaseTarget(q)[y]
  BY <1>1
<1> HIDE DEF y
<1> QED
  BY <1>2, <1>4, <1>5 DEF Alike

\* sync_transaction_postings leaves an account un-re-checked only when no day
\* that changed is covered there, or nothing of the row was ever on it: its
\* walk does not move.
LEMMA UnrecheckedShares ==
    ASSUME BooksInv, NEW m \in Movements, NEW r \in Row, NEW a \in Accounts, NEW e \in Days,
           \/ mv[m].day = Undated \/ mv[m].acct = r.acct \/ mv[m].acct # a,
           LET days == {k[2] : k \in DeltaKeys(m, r)}
           IN a \in FamilyAccounts(m, r) => days = {} \/ ~Covered(a, days)
    PROVE  DayShare(said[a], mv[m], a, e) = DayShare(said[a], r, a, e)
<1> DEFINE q == mv[m]
           s == said[a]
           days == {k[2] : k \in DeltaKeys(m, r)}
<1>1. q \in Row /\ posted[m] = PurchaseTarget(q)
  BY MovementFacts DEF BooksInv, SourcesAtTarget
<1>2. \A k \in Keys : k[2] \notin days => PurchaseTarget(r)[k] = PurchaseTarget(q)[k]
  BY <1>1 DEF DeltaKeys
<1> HIDE DEF q, days
<1>3. CASE q.day # Undated /\ q.day \notin days
  <2> DEFINE y == <<q.per, q.day, q.acct>>
  <2>1. y[2] = q.day
    OBVIOUS
  <2>2. y \in Keys => PurchaseTarget(r)[y] = PurchaseTarget(q)[y]
    BY <1>2, <1>3, <2>1
  <2>3. Alike(q, r)
    BY <1>1, <1>3, <2>2, TargetTells
  <2> QED
    BY <2>3, AlikeShares DEF q
<1>4. CASE r.day # Undated /\ r.day \notin days
  <2> DEFINE y == <<r.per, r.day, r.acct>>
  <2>1. y[2] = r.day
    OBVIOUS
  <2>2. y \in Keys => PurchaseTarget(q)[y] = PurchaseTarget(r)[y]
    BY <1>2, <1>4, <2>1
  <2>3. Alike(r, q)
    BY <1>1, <1>4, <2>2, TargetTells
  <2>4. Alike(q, r)
    BY <2>3 DEF Alike
  <2> QED
    BY <2>4, AlikeShares DEF q
<1>5. CASE /\ q.day = Undated \/ q.day \in days
           /\ r.day = Undated \/ r.day \in days
  <2>1. CASE a \notin FamilyAccounts(m, r)
    <3>1. a # r.acct
      BY <2>1 DEF FamilyAccounts
    <3>2. Net(q, a) = 0 /\ Net(r, a) = 0
      BY <3>1 DEF Net, q
    <3> QED
      BY <3>2 DEF DayShare, q
  <2>2. CASE a \in FamilyAccounts(m, r)
    <3>1. days = {} \/ ~Covered(a, days)
      BY <2>2 DEF days
    <3>2. \A d \in days : ~FallsOn(s, d, e)
      BY <3>1 DEF Covered, FallsOn
    <3>3. DayShare(s, q, a, e) = 0
      BY <1>5, <3>2 DEF DayShare, Net
    <3>4. DayShare(s, r, a, e) = 0
      BY <1>5, <3>2 DEF DayShare, Net
    <3> QED
      BY <3>3, <3>4 DEF q
  <2> QED
    BY <2>1, <2>2
<1> QED
  BY <1>3, <1>4, <1>5

(***************************************************************************)
(* The doors keep the corrections those of a full walk.                    *)
(***************************************************************************)

\* A door re-books row r of m and writes row t, which posts alike (a tick links
\* the row it re-booked, a delete leaves an undated one): the corrections stay
\* those of a full walk, unless the money left an account unnamed.
LEMMA RebookKeeps ==
    ASSUME CorrectionsInv, BooksInv', NEW m \in Movements, NEW r \in Row, NEW t \in Row,
           NEW left \in SUBSET Accounts,
           Rebook(m, r, left),
           mv' = [mv EXCEPT ![m] = t],
           UNCHANGED <<said, open>>,
           Alike(r, t),
           r.day # Undated => r.link \in 0..Len(said[r.acct]),
           mv[m].day = Undated \/ mv[m].acct = r.acct \/ mv[m].acct \in left
    PROVE  CorrectionsTyped' /\ OnlyVacatedLedgersDrift'
<1> DEFINE days == {k[2] : k \in DeltaKeys(m, r)}
           S == {a \in FamilyAccounts(m, r) : days # {} /\ (Covered(a, days) \/ a \notin booked)}
           rebooked == [mv EXCEPT ![m] = r]
           written == [mv EXCEPT ![m] = t]
           b == Books(rebooked, EmitDeltas(m, r), said, open)
<1>1. /\ corr' = [a \in Accounts |-> IF a \in S THEN CorrectionTarget(b, a) ELSE corr[a]]
      /\ vacated' = (vacated \cup left) \ S
  BY DEF Rebook, SyncAnchors
<1>2. /\ b.mv = rebooked
      /\ b.net = [posted EXCEPT ![m] = PurchaseTarget(r)]
      /\ b.said = said
      /\ b.open = open
  BY DeltasReachTarget DEF Books, CorrectionsInv, BooksInv
<1>3. /\ mv \in [Movements -> Row]
      /\ posted \in [Movements -> [Keys -> Int]]
      /\ \A n \in Movements : posted[n] = PurchaseTarget(mv[n])
  BY DEF CorrectionsInv, BooksInv, FactsTypeOK, SourcesAtTarget
<1>4. /\ rebooked \in [Movements -> Row]
      /\ rebooked[m] = r
      /\ \A n \in Movements \ {m} : rebooked[n] = mv[n]
  BY <1>3
<1>5. /\ written[m] = t
      /\ \A n \in Movements \ {m} : written[n] = mv[n]
      /\ mv' = written
  BY <1>3
<1>6. \A n \in Movements : b.net[n] = PurchaseTarget(rebooked[n])
  BY <1>2, <1>3, <1>4
<1> HIDE DEF b, rebooked, written
<1>7. \A a \in Accounts : said[a] \in Seq(Assertion) /\ open[a] \in Opening
                          /\ LinksFit(mv, said[a], a)
  BY NowWalk DEF CorrectionsInv
<1>8. \A a \in Accounts : LinksFit(rebooked, said[a], a)
  BY <1>4, <1>7 DEF LinksFit
<1>9. ASSUME NEW a \in Accounts
      PROVE  CorrectionTarget(b, a) = Walk(mv', said'[a], open'[a], a)
  <2>1. CorrectionTarget(b, a) = Walk(rebooked, said[a], open[a], a)
    BY <1>2, <1>4, <1>6, <1>7, <1>8, WalkIs
  <2>2. \A n \in Movements : \A e \in Days :
          DayShare(said[a], rebooked[n], a, e) = DayShare(said[a], written[n], a, e)
    BY <1>4, <1>5, AlikeShares
  <2>3. Walk(rebooked, said[a], open[a], a) = Walk(written, said[a], open[a], a)
    BY <2>2, SameWalk
  <2> QED
    BY <1>5, <2>1, <2>3
<1>10. ASSUME NEW a \in Accounts, a \notin S, a \notin left
       PROVE  Walk(mv, said[a], open[a], a) = Walk(mv', said'[a], open'[a], a)
  <2>1. a \in FamilyAccounts(m, r) => days = {} \/ ~Covered(a, days)
    BY <1>10
  <2>2. mv[m].day = Undated \/ mv[m].acct = r.acct \/ mv[m].acct # a
    BY <1>10
  <2>3. \A e \in Days : DayShare(said[a], mv[m], a, e) = DayShare(said[a], r, a, e)
    BY <2>1, <2>2, UnrecheckedShares DEF CorrectionsInv
  <2>4. \A e \in Days : DayShare(said[a], r, a, e) = DayShare(said[a], t, a, e)
    BY AlikeShares
  <2>5. \A n \in Movements : \A e \in Days :
          DayShare(said[a], mv[n], a, e) = DayShare(said[a], written[n], a, e)
    BY <1>5, <2>3, <2>4
  <2>6. Walk(mv, said[a], open[a], a) = Walk(written, said[a], open[a], a)
    BY <2>5, SameWalk
  <2> QED
    BY <1>5, <2>6
<1> HIDE DEF S
<1>11. corr' = [a \in Accounts |->
                   IF a \in S THEN Walk(mv', said'[a], open'[a], a) ELSE corr[a]]
  BY <1>1, <1>9
<1>12. \A a \in Accounts : a \notin S /\ a \notin left =>
           Walk(mv, said[a], open[a], a) = Walk(mv', said'[a], open'[a], a)
  BY <1>10
<1> QED
  BY <1>1, <1>11, <1>12, SyncKeeps, Zenon

\* A recordable day is one after the account opened, and the day stays a
\* movement's own.
LEMMA RowDated ==
    ASSUME CorrectionsInv, NEW m \in Movements, NEW t \in Row,
           mv' = [mv EXCEPT ![m] = t], open' = open,
           t.day # Undated => t.day > open[t.acct].day
    PROVE  DatedAfterOpening'
<1>1. mv \in [Movements -> Row]
  BY DEF CorrectionsInv, BooksInv, FactsTypeOK
<1>2. ASSUME NEW n \in Movements
      PROVE  mv'[n].day # Undated => mv'[n].day > open'[mv'[n].acct].day
  <2>1. CASE n = m
    BY <1>1, <2>1
  <2>2. CASE n # m
    <3>1. mv'[n] = mv[n]
      BY <1>1, <2>2
    <3> QED
      BY <3>1 DEF CorrectionsInv, DatedAfterOpening
  <2> QED
    BY <2>1, <2>2
<1> QED
  BY <1>2 DEF DatedAfterOpening

\* A door that saves the row it re-books.
LEMMA SaveCorrects ==
    ASSUME CorrectionsInv, BooksInv', NEW m \in Movements, NEW r \in Row,
           NEW left \in SUBSET Accounts, Save(m, r, left),
           r.day # Undated => /\ r.link \in 0..Len(said[r.acct])
                              /\ r.day > open[r.acct].day,
           mv[m].day = Undated \/ mv[m].acct = r.acct \/ mv[m].acct \in left
    PROVE  CorrectionsInv'
<1>1. /\ Rebook(m, r, left)
      /\ mv' = [mv EXCEPT ![m] = r]
      /\ UNCHANGED <<said, open>>
  BY DEF Save
<1>2. Alike(r, r)
  BY DEF Alike
<1>3. CorrectionsTyped' /\ OnlyVacatedLedgersDrift'
  BY <1>1, <1>2, RebookKeeps
<1>4. DatedAfterOpening'
  BY <1>1, RowDated
<1> QED
  BY <1>3, <1>4 DEF CorrectionsInv

\* What the invariant says of a movement's row.
LEMMA DatedRow ==
    ASSUME CorrectionsInv, NEW m \in Movements
    PROVE  /\ mv[m] \in Row /\ mv[m].acct \in Accounts
           /\ mv[m].link \in 0..Len(said[mv[m].acct])
           /\ mv[m].day = Undated => mv[m].link = NoLink
           /\ mv[m].day # Undated => mv[m].day > open[mv[m].acct].day
BY MovementFacts DEF CorrectionsInv, BooksInv, DatedAfterOpening

\* No link names no assertion, and fits any history.
LEMMA NoLinkFits ==
    ASSUME BooksInv, NEW a \in Accounts
    PROVE  NoLink \in 0..Len(said[a]) /\ NoLink \in 0..MaxAsserts
<1>1. Len(said[a]) \in 1..MaxAsserts
  BY DEF BooksInv, FactsTypeOK
<1> QED
  BY <1>1, BooksBoundAssumption DEF NoLink

\* settle_transaction: an undated movement had nothing on any account.
LEMMA SettleCorrects ==
    ASSUME CorrectionsInv, BooksInv', NEW m \in Movements, NEW a \in Accounts, NEW d \in Typed,
           Settle(m, a, d)
    PROVE  CorrectionsInv'
<1> DEFINE r == [mv[m] EXCEPT !.acct = a, !.day = d]
<1>1. d \in Days /\ d > open[a].day /\ mv[m].day = Undated
  BY DEF Settle, RecordableDays
<1>2. r \in Row /\ r.link = NoLink /\ r.acct = a /\ r.day = d
  BY <1>1, DatedRow DEF Row
<1>3. NoLink \in 0..Len(said[a])
  BY NoLinkFits DEF CorrectionsInv
<1>4. Save(m, r, {})
  BY DEF Settle
<1> HIDE DEF r
<1>5. r.link \in 0..Len(said[r.acct]) /\ r.day > open[r.acct].day
  BY <1>1, <1>2, <1>3
<1> QED
  BY <1>1, <1>2, <1>4, <1>5, SaveCorrects

\* record_settle_day keeps the account, and a later day is recordable there.
LEMMA RedateCorrects ==
    ASSUME CorrectionsInv, BooksInv', NEW m \in Movements, NEW d \in Typed, Redate(m, d)
    PROVE  CorrectionsInv'
<1> DEFINE r == [mv[m] EXCEPT !.day = d, !.link = NoLink]
           a == mv[m].acct
<1>1. a \in Accounts /\ mv[m] \in Row
  BY DatedRow
<1>2. d \in Days /\ d > open[a].day
  BY DEF Redate, RecordableDays
<1>3. NoLink \in 0..Len(said[a]) /\ NoLink \in 0..MaxAsserts
  BY <1>1, NoLinkFits DEF CorrectionsInv
<1>4. r \in Row /\ r.link = NoLink /\ r.acct = a /\ r.day = d
  BY <1>1, <1>2, <1>3 DEF Row
<1>5. Save(m, r, {})
  BY DEF Redate
<1> HIDE DEF r
<1>6. r.link \in 0..Len(said[r.acct]) /\ r.day > open[r.acct].day
  BY <1>2, <1>3, <1>4
<1> QED
  BY <1>4, <1>5, <1>6, SaveCorrects

\* A revert takes the money off every account.
LEMMA RevertCorrects ==
    ASSUME CorrectionsInv, BooksInv', NEW m \in Movements, Revert(m)
    PROVE  CorrectionsInv'
<1> DEFINE r == [mv[m] EXCEPT !.day = Undated, !.link = NoLink]
<1>1. mv[m].acct \in Accounts /\ mv[m] \in Row
  BY DatedRow
<1>2. NoLink \in 0..MaxAsserts
  BY <1>1, NoLinkFits DEF CorrectionsInv
<1>3. r \in Row /\ r.acct = mv[m].acct /\ r.day = Undated
  BY <1>1, <1>2 DEF Row
<1>4. Save(m, r, {})
  BY DEF Revert
<1> HIDE DEF r
<1> QED
  BY <1>3, <1>4, SaveCorrects

\* correction_record and a re-filing keep account, day and link.
LEMMA EditsCorrect ==
    ASSUME CorrectionsInv, BooksInv', NEW m \in Movements, NEW r \in Row, Save(m, r, {}),
           r.acct = mv[m].acct, r.day = mv[m].day, r.link = mv[m].link
    PROVE  CorrectionsInv'
<1>1. r.day # Undated => r.link \in 0..Len(said[r.acct]) /\ r.day > open[r.acct].day
  BY DatedRow
<1> QED
  BY <1>1, SaveCorrects

LEMMA AmountsAndFilingsCorrect ==
    ASSUME CorrectionsInv, BooksInv', NEW m \in Movements, NEW v \in Amounts,
           NEW c \in Categories, NEW p \in Periods,
           CorrectAmount(m, v) \/ MoveRow(m, c, p)
    PROVE  CorrectionsInv'
<1>1. mv[m] \in Row
  BY DatedRow
<1>2. CASE CorrectAmount(m, v)
  <2> DEFINE r == [mv[m] EXCEPT !.amt = v]
  <2>1. r \in Row /\ r.acct = mv[m].acct /\ r.day = mv[m].day /\ r.link = mv[m].link
    BY <1>1 DEF Row
  <2>2. Save(m, r, {})
    BY <1>2 DEF CorrectAmount
  <2> HIDE DEF r
  <2> QED
    BY <2>1, <2>2, EditsCorrect
<1>3. CASE MoveRow(m, c, p)
  <2> DEFINE r == [mv[m] EXCEPT !.cat = c, !.per = p]
  <2>1. r \in Row /\ r.acct = mv[m].acct /\ r.day = mv[m].day /\ r.link = mv[m].link
    BY <1>1 DEF Row
  <2>2. Save(m, r, {})
    BY <1>3 DEF MoveRow
  <2> HIDE DEF r
  <2> QED
    BY <2>1, <2>2, EditsCorrect
<1> QED
  BY <1>2, <1>3

\* _re_point names the account the money left.
LEMMA RePointCorrects ==
    ASSUME CorrectionsInv, BooksInv', NEW m \in Movements, NEW a \in Accounts, NEW d \in Typed,
           RePoint(m, a, d)
    PROVE  CorrectionsInv'
<1> DEFINE r == [mv[m] EXCEPT !.acct = a, !.day = d, !.link = NoLink]
           left == {mv[m].acct}
<1>1. mv[m] \in Row /\ left \in SUBSET Accounts
  BY DatedRow
<1>2. d \in Days /\ d > open[a].day
  BY DEF RePoint, RecordableDays
<1>3. NoLink \in 0..Len(said[a]) /\ NoLink \in 0..MaxAsserts
  BY NoLinkFits DEF CorrectionsInv
<1>4. r \in Row /\ r.link = NoLink /\ r.acct = a /\ r.day = d
  BY <1>1, <1>2, <1>3 DEF Row
<1>5. Save(m, r, left)
  BY DEF RePoint
<1>6. mv[m].acct \in left
  OBVIOUS
<1> HIDE DEF r, left
<1>7. r.link \in 0..Len(said[r.acct]) /\ r.day > open[r.acct].day
  BY <1>2, <1>3, <1>4
<1> QED
  BY <1>1, <1>4, <1>5, <1>6, <1>7, SaveCorrects

\* reverse_postings_before_delete re-books the row undated, and the next one
\* begins undated.
LEMMA DeleteCorrects ==
    ASSUME CorrectionsInv, BooksInv', NEW m \in Movements, Delete(m)
    PROVE  CorrectionsInv'
<1> DEFINE gone == [mv[m] EXCEPT !.day = Undated]
<1>1. gone \in Row /\ gone.day = Undated /\ gone.acct = mv[m].acct
  BY DatedRow DEF Row
<1>2. Rebook(m, gone, {}) /\ UNCHANGED <<said, open>>
  BY DEF Delete
<1>3. PICK t \in NewRows(m) : mv' = [mv EXCEPT ![m] = t]
  BY DEF Delete
<1>4. t \in Row /\ t.day = Undated
  BY NewRowsAreRows
<1> HIDE DEF gone
<1>5. Alike(gone, t)
  BY <1>1, <1>4 DEF Alike
<1>6. CorrectionsTyped' /\ OnlyVacatedLedgersDrift'
  BY <1>1, <1>2, <1>3, <1>4, <1>5, RebookKeeps
<1>7. DatedAfterOpening'
  BY <1>2, <1>3, <1>4, RowDated
<1> QED
  BY <1>6, <1>7 DEF CorrectionsInv

\* A bill is linked after its accounts were re-checked: the link moves it from
\* one assertion of its day to another, and no day's correction.
LEMMA TickCorrects ==
    ASSUME CorrectionsInv, BooksInv', NEW m \in Movements, Tick(m)
    PROVE  CorrectionsInv'
<1> DEFINE a == mv[m].acct
           g == GoverningOn(said[a], LastDay)
           d == said[a][g].day
           dated == [mv[m] EXCEPT !.day = d]
           linked == [dated EXCEPT !.link = g]
<1>1. /\ mv[m] \in Row /\ a \in Accounts
      /\ said[a] \in Seq(Assertion)
      /\ Len(said[a]) \in 0..MaxAsserts
      /\ mv[m].link \in 0..Len(said[a])
  BY MovementFacts DEF CorrectionsInv, BooksInv
<1>2. g \in 0..Len(said[a])
  <2>1. LastDay \in Int
    BY BooksBoundAssumption
  <2> HIDE DEF a, g
  <2>2. GoverningOn(said[a], LastDay) \in 0..Len(said[a])
    BY <1>1, <2>1, GoverningInHistory
  <2> QED
    BY <2>2 DEF g
<1>3. d \in Days /\ d > open[a].day
  <2>1. dated.day \in RecordableDays(m, a)
    BY DEF Tick
  <2>2. dated.day = d
    BY <1>1 DEF Row
  <2> HIDE DEF dated, d
  <2> QED
    BY <2>1, <2>2 DEF RecordableDays
<1>4. /\ Rebook(m, IF m \in Purchases THEN linked ELSE dated, {})
      /\ mv' = [mv EXCEPT ![m] = linked]
      /\ UNCHANGED <<said, open>>
  BY DEF Tick
<1>5. g \in 0..MaxAsserts
  BY <1>1, <1>2, BooksBoundAssumption
<1> HIDE DEF g, d
<1>6. /\ dated \in Row /\ dated.acct = a /\ dated.day = d
      /\ dated.amt = mv[m].amt /\ dated.link = mv[m].link
  BY <1>1, <1>3 DEF Row
<1>7. /\ linked \in Row /\ linked.acct = a /\ linked.day = d
      /\ linked.amt = dated.amt /\ linked.link = g
  <2> HIDE DEF dated
  <2> QED BY <1>5, <1>6 DEF Row
<1> HIDE DEF linked, dated
<1> DEFINE r == IF m \in Purchases THEN linked ELSE dated
<1>8. /\ r \in Row /\ r.acct = a /\ Alike(r, linked)
      /\ r.link \in 0..Len(said[a])
  BY <1>1, <1>2, <1>6, <1>7 DEF Alike
<1>9. Rebook(m, r, {})
  BY <1>4
<1> HIDE DEF r
<1>10. CorrectionsTyped' /\ OnlyVacatedLedgersDrift'
  BY <1>4, <1>7, <1>8, <1>9, RebookKeeps
<1>11. DatedAfterOpening'
  BY <1>3, <1>4, <1>7, RowDated
<1> QED
  BY <1>10, <1>11 DEF CorrectionsInv

\* A door that posts for no movement, and re-checks the accounts S against the
\* facts it leaves.
LEMMA RecheckKeeps ==
    ASSUME CorrectionsInv, BooksInv', NEW S \in SUBSET Accounts,
           corr' = [a \in Accounts |->
                       IF a \in S THEN CorrectionTarget(Books(mv', posted', said', open'), a)
                       ELSE corr[a]],
           vacated' = vacated \ S,
           mv' = mv,
           \A a \in Accounts \ S : said'[a] = said[a] /\ open'[a] = open[a]
    PROVE  CorrectionsTyped' /\ OnlyVacatedLedgersDrift'
<1>1. \A a \in Accounts : /\ said'[a] \in Seq(Assertion) /\ open'[a] \in Opening
                          /\ LinksFit(mv', said'[a], a)
                          /\ CorrectionTarget(Now, a)' = Walk(mv', said'[a], open'[a], a)
  <2>1. BooksInv' => (\A a \in Accounts : /\ said[a] \in Seq(Assertion) /\ open[a] \in Opening
                                          /\ LinksFit(mv, said[a], a)
                                          /\ CorrectionTarget(Now, a) = Walk(mv, said[a], open[a], a))'
    BY NowWalk, PTL
  <2> QED
    BY <2>1
<1> DEFINE b == Books(mv', posted', said', open')
<1>2. ASSUME NEW a \in Accounts
      PROVE  CorrectionTarget(b, a) = Walk(mv', said'[a], open'[a], a)
  <2>1. /\ b.mv = mv' /\ b.net = posted' /\ b.said = said' /\ b.open = open'
    BY DEF Books
  <2>2. mv' \in [Movements -> Row] /\ \A m \in Movements : posted'[m] = PurchaseTarget(mv'[m])
    <3>1. mv' \in [Movements -> Row]
      BY DEF BooksInv, FactsTypeOK
    <3>2. (\A m \in Movements : posted[m] = PurchaseTarget(mv[m]))'
      BY DEF BooksInv, SourcesAtTarget
    <3> QED
      BY <3>1, <3>2 DEF PurchaseTarget
  <2> HIDE DEF b
  <2> QED
    BY <1>1, <2>1, <2>2, WalkIs
<1>3. corr' = [a \in Accounts |->
                  IF a \in S THEN Walk(mv', said'[a], open'[a], a) ELSE corr[a]]
  <2>1. corr' = [a \in Accounts |-> IF a \in S THEN CorrectionTarget(b, a) ELSE corr[a]]
    OBVIOUS
  <2> HIDE DEF b
  <2> QED BY <1>2, <2>1
<1>4. vacated' = (vacated \cup {}) \ S
  OBVIOUS
<1>5. \A a \in Accounts : a \notin S /\ a \notin {} =>
          Walk(mv, said[a], open[a], a) = Walk(mv', said'[a], open'[a], a)
  OBVIOUS
<1> QED
  BY <1>3, <1>4, <1>5, SyncKeeps, Zenon

\* apply_anchor_true_up re-bases the account it was made of.
LEMMA TrueUpCorrects ==
    ASSUME CorrectionsInv, BooksInv', NEW a \in Accounts, NEW d \in Days, NEW v \in Balances,
           TrueUp(a, d, v)
    PROVE  CorrectionsInv'
<1>1. /\ said' = [said EXCEPT ![a] = Append(@, [day |-> d, bal |-> v])]
      /\ mv' = mv /\ open' = open /\ posted' = posted
      /\ corr' = [x \in Accounts |->
                     IF x \in {a} THEN CorrectionTarget(Books(mv, posted, said', open), x)
                     ELSE corr[x]]
      /\ vacated' = (vacated \cup {}) \ {a}
  BY DEF TrueUp, SyncAnchors
<1>2. corr' = [x \in Accounts |->
                  IF x \in {a} THEN CorrectionTarget(Books(mv', posted', said', open'), x)
                  ELSE corr[x]]
  BY <1>1
<1>3. vacated' = vacated \ {a} /\ {a} \in SUBSET Accounts
  BY <1>1
<1>4. \A x \in Accounts \ {a} : said'[x] = said[x] /\ open'[x] = open[x]
  BY <1>1 DEF CorrectionsInv, BooksInv, FactsTypeOK
<1>5. mv' = mv
  BY <1>1
<1>6. CorrectionsTyped' /\ OnlyVacatedLedgersDrift'
  BY <1>2, <1>3, <1>4, <1>5, RecheckKeeps, Zenon
<1>7. DatedAfterOpening'
  BY <1>1 DEF CorrectionsInv, DatedAfterOpening
<1> QED
  BY <1>6, <1>7 DEF CorrectionsInv

\* apply_opening_restatement refuses a day no earlier than a recorded movement.
LEMMA RestateCorrects ==
    ASSUME CorrectionsInv, BooksInv', NEW a \in Accounts, NEW d \in Days, NEW v \in Equities,
           RestateOpening(a, d, v)
    PROVE  CorrectionsInv'
<1>1. /\ open' = [open EXCEPT ![a] = [day |-> d, equity |-> v]]
      /\ mv' = mv /\ said' = said /\ posted' = posted
      /\ corr' = [x \in Accounts |->
                     IF x \in {a} THEN CorrectionTarget(Books(mv, posted, said, open'), x)
                     ELSE corr[x]]
      /\ vacated' = (vacated \cup {}) \ {a}
      /\ \A m \in Movements : mv[m].acct = a /\ mv[m].day # Undated => d < mv[m].day
  BY DEF RestateOpening, SyncAnchors
<1>2. corr' = [x \in Accounts |->
                  IF x \in {a} THEN CorrectionTarget(Books(mv', posted', said', open'), x)
                  ELSE corr[x]]
  BY <1>1
<1>3. vacated' = vacated \ {a} /\ {a} \in SUBSET Accounts
  BY <1>1
<1>4. open \in [Accounts -> Opening]
  BY DEF CorrectionsInv, BooksInv, FactsTypeOK
<1>5. \A x \in Accounts \ {a} : said'[x] = said[x] /\ open'[x] = open[x]
  BY <1>1, <1>4
<1>6. mv' = mv
  BY <1>1
<1>7. CorrectionsTyped' /\ OnlyVacatedLedgersDrift'
  BY <1>2, <1>3, <1>5, <1>6, RecheckKeeps, Zenon
<1>8. DatedAfterOpening'
  <2>1. ASSUME NEW m \in Movements, mv[m].day # Undated
        PROVE  mv[m].day > open'[mv[m].acct].day
    <3>1. mv[m].acct \in Accounts /\ mv[m].day > open[mv[m].acct].day /\ mv[m] \in Row
      BY <2>1, DatedRow
    <3>2. CASE mv[m].acct = a
      <4>1. d < mv[m].day
        BY <1>1, <2>1, <3>2
      <4>2. mv[m].day \in Int /\ d \in Int
        BY <3>1, BooksBoundAssumption DEF Row, Days, Undated
      <4>3. open'[mv[m].acct].day = d
        BY <1>1, <1>4, <3>2
      <4> QED
        BY <4>1, <4>2, <4>3
    <3>3. CASE mv[m].acct # a
      BY <1>5, <3>1, <3>3
    <3> QED
      BY <3>2, <3>3
  <2> QED
    BY <1>6, <2>1 DEF DatedAfterOpening
<1> QED
  BY <1>7, <1>8 DEF CorrectionsInv

\* The deploy re-checks every account.
LEMMA DeployCorrects ==
    ASSUME CorrectionsInv, BooksInv', Deploy
    PROVE  CorrectionsInv'
<1>1. /\ mv' = mv /\ said' = said /\ open' = open
      /\ corr' = [x \in Accounts |->
                     IF x \in Accounts THEN CorrectionTarget(Books(mv, posted', said, open), x)
                     ELSE corr[x]]
      /\ vacated' = (vacated \cup {}) \ Accounts
  BY DEF Deploy, SyncAnchors, rows
<1>2. corr' = [x \in Accounts |->
                  IF x \in Accounts THEN CorrectionTarget(Books(mv', posted', said', open'), x)
                  ELSE corr[x]]
  BY <1>1
<1>3. vacated' = vacated \ Accounts /\ Accounts \in SUBSET Accounts
  BY <1>1
<1>4. mv' = mv /\ \A x \in Accounts \ Accounts : said'[x] = said[x] /\ open'[x] = open[x]
  BY <1>1
<1>5. CorrectionsTyped' /\ OnlyVacatedLedgersDrift'
  BY <1>2, <1>3, <1>4, RecheckKeeps, Zenon
<1>6. DatedAfterOpening'
  BY <1>1 DEF CorrectionsInv, DatedAfterOpening
<1> QED
  BY <1>5, <1>6 DEF CorrectionsInv

\* A new account's corrections are posted in full, and no movement is dated.
LEMMA InitCorrects ==
    ASSUME Init
    PROVE  CorrectionsInv
<1>1. BooksInv
  BY InitEstablishes
<1>2. \A a \in Accounts : corr[a] = Walk(mv, said[a], open[a], a) /\ corr[a] = CorrectionTarget(Now, a)
  <2>1. corr = [a \in Accounts |-> CorrectionTarget(Now, a)]
    BY DEF Init, Now
  <2> QED
    BY <1>1, <2>1, NowWalk
<1>3. \A a \in Accounts : Walk(mv, said[a], open[a], a) \in [Kinds \X Days -> Int]
  <2>1. mv \in [Movements -> Row]
    BY DEF Init
  <2> QED
    BY <1>1, <2>1, NowWalk, WalkTyped
<1>4. CorrectionsTyped
  <2>1. corr = [a \in Accounts |-> corr[a]]
    BY DEF Init
  <2> QED
    BY <1>2, <1>3, <2>1 DEF CorrectionsTyped
<1>5. OnlyVacatedLedgersDrift
  BY <1>2 DEF OnlyVacatedLedgersDrift
<1>6. DatedAfterOpening
  BY NewRowsAreRows DEF DatedAfterOpening, Init
<1> QED
  BY <1>1, <1>4, <1>5, <1>6 DEF CorrectionsInv

\* Every door keeps the invariant, and so does a step that changes nothing.
LEMMA NextCorrects ==
    ASSUME CorrectionsInv, [Next]_vars
    PROVE  CorrectionsInv'
<1>1. BooksInv'
  BY NextKeeps DEF CorrectionsInv
<1>2. ASSUME NEW m \in Movements, MovementDoor(m)
      PROVE  CorrectionsInv'
  <2>1. ASSUME NEW a \in Accounts, NEW d \in Typed, Settle(m, a, d) \/ RePoint(m, a, d)
        PROVE  CorrectionsInv'
    BY <1>1, <2>1, SettleCorrects, RePointCorrects
  <2>2. ASSUME NEW d \in Typed, Redate(m, d)
        PROVE  CorrectionsInv'
    BY <1>1, <2>2, RedateCorrects
  <2>3. CASE Revert(m)
    BY <1>1, <2>3, RevertCorrects
  <2>4. ASSUME NEW v \in Amounts, CorrectAmount(m, v)
        PROVE  CorrectionsInv'
    BY <1>1, <2>4, MovementsAssumption, AmountsAndFilingsCorrect
  <2>5. ASSUME NEW c \in Categories, NEW p \in Periods, MoveRow(m, c, p)
        PROVE  CorrectionsInv'
    BY <1>1, <2>5, MovementsAssumption, AmountsAndFilingsCorrect
  <2>6. CASE Delete(m)
    BY <1>1, <2>6, DeleteCorrects
  <2>7. CASE Tick(m)
    BY <1>1, <2>7, TickCorrects
  <2> QED
    BY <1>2, <2>1, <2>2, <2>3, <2>4, <2>5, <2>6, <2>7 DEF MovementDoor
<1>3. ASSUME NEW a \in Accounts, AccountDoor(a)
      PROVE  CorrectionsInv'
  BY <1>1, <1>3, TrueUpCorrects, RestateCorrects DEF AccountDoor
<1>4. CASE Deploy
  BY <1>1, <1>4, DeployCorrects
<1>5. CASE UNCHANGED vars
  <2>1. UNCHANGED <<mv, said, open, posted, corr, vacated>>
    BY <1>5 DEF vars, rows, ledger
  <2>2. OnlyVacatedLedgersDrift'
    BY <2>1 DEF CorrectionsInv, OnlyVacatedLedgersDrift, Now
  <2> QED
    BY <1>1, <2>1, <2>2 DEF CorrectionsInv, DatedAfterOpening, CorrectionsTyped
<1> QED
  BY <1>2, <1>3, <1>4, <1>5 DEF Next

LEMMA CorrectionsInvariant == Spec => []CorrectionsInv
<1>1. Init => CorrectionsInv
  BY InitCorrects
<1>2. CorrectionsInv /\ [Next]_vars => CorrectionsInv'
  BY NextCorrects
<1> QED
  BY <1>1, <1>2, PTL DEF Spec

\* Whatever doors are used in whatever order, every variable is typed and no
\* account drifts from what a full walk would post, except one a payment was
\* re-pointed away from (self_heal_anchor_corrections re-checks the row's
\* account and the one the money is on now).
THEOREM WalkCorrect == Spec => []CorrectionsMatchWalk
<1>1. CorrectionsInv => CorrectionsMatchWalk
  BY DEF CorrectionsInv, BooksInv, CorrectionsTyped, CorrectionsMatchWalk, TypeOK
<1> QED
  BY <1>1, CorrectionsInvariant, PTL

(***************************************************************************)
(* What the ledger reads.                                                  *)
(***************************************************************************)

\* The last of a set of assertions comes after the others, and only one does.
LEMMA LastIsLast ==
    ASSUME NEW s \in Seq(Assertion), NEW I \in SUBSET DOMAIN s
    PROVE  /\ I # {} => /\ LastOf(s, I) \in I
                        /\ \A j \in I \ {LastOf(s, I)} : Earlier(s, j, LastOf(s, I))
           /\ \A l \in I : (\A j \in I \ {l} : Earlier(s, j, l)) => LastOf(s, I) = l
<1>1. ASSUME I # {}
      PROVE  \A j \in I \ {LastOf(s, I)} : Earlier(s, j, LastOf(s, I))
  <2> DEFINE HasLast(J) == \E i \in J : \A j \in J \ {i} : Earlier(s, j, i)
             P == {J \in SUBSET I : J # {} => HasLast(J)}
  <2>1. IsFiniteSet(I)
    BY FS_Interval, FS_Subset, HistoryFacts
  <2>2. ASSUME NEW J \in SUBSET I, NEW x \in I \ J, J \in P
        PROVE  J \cup {x} \in P
    <3>1. CASE J = {}
      BY <3>1
    <3>2. CASE J # {}
      <4>1. PICK y \in J : \A j \in J \ {y} : Earlier(s, j, y)
        BY <2>2, <3>2
      <4>2. x \in DOMAIN s /\ y \in DOMAIN s /\ x # y
        BY <4>1
      <4>3. CASE Earlier(s, x, y)
        <5>1. \A j \in (J \cup {x}) \ {y} : Earlier(s, j, y)
          BY <4>1, <4>3
        <5>2. HasLast(J \cup {x})
          BY <4>1, <5>1
        <5> QED
          BY <5>2
      <4>4. CASE Earlier(s, y, x)
        <5>1. \A j \in (J \cup {x}) \ {x} : Earlier(s, j, x)
          BY <4>1, <4>2, <4>4, EarlierTransitive
        <5>2. HasLast(J \cup {x})
          BY <5>1
        <5> QED
          BY <5>2
      <4> QED
        BY <4>2, <4>3, <4>4, EarlierTotal
    <3> QED
      BY <3>1, <3>2
  <2>3. {} \in P
    OBVIOUS
  <2>4. I \in P
    <3> HIDE DEF P
    <3> QED BY <2>1, <2>2, <2>3, ElementInduction
  <2>5. HasLast(I)
    BY <1>1, <2>4
  <2> QED
    BY <2>5 DEF LastOf
<1>2. I # {} => LastOf(s, I) \in I
  BY LastInSet
<1>3. ASSUME NEW l \in I, \A j \in I \ {l} : Earlier(s, j, l)
      PROVE  LastOf(s, I) = l
  <2> DEFINE k == LastOf(s, I)
  <2>1. k \in I /\ \A j \in I \ {k} : Earlier(s, j, k)
    BY <1>1, <1>2
  <2>2. k \in DOMAIN s /\ l \in DOMAIN s
    BY <2>1
  <2>3. ASSUME k # l PROVE FALSE
    <3>1. Earlier(s, k, l) /\ Earlier(s, l, k)
      BY <1>3, <2>1, <2>3
    <3> HIDE DEF k
    <3> QED
      BY <2>2, <3>1, HistoryFacts DEF Earlier
  <2> QED
    BY <2>3
<1> QED
  BY <1>1, <1>2, <1>3

\* The first assertions in their order lift the ledger from what the books
\* opened with to the last one's balance: each lifts it from the one before.
LEMMA Telescope ==
    ASSUME NEW s \in Seq(Assertion), NEW eq \in Int, NEW I \in SUBSET DOMAIN s,
           \A i \in I : \A j \in DOMAIN s : Earlier(s, j, i) => j \in I
    PROVE  SumFunctionOnSet([i \in DOMAIN s |-> Rise(s, eq, i)], I)
           = IF I = {} THEN 0 ELSE s[LastOf(s, I)].bal - eq
<1> DEFINE f == [i \in DOMAIN s |-> Rise(s, eq, i)]
           First(J) == \A i \in J : \A j \in DOMAIN s : Earlier(s, j, i) => j \in J
           P == {J \in SUBSET DOMAIN s :
                    First(J) => SumFunctionOnSet(f, J)
                                = IF J = {} THEN 0 ELSE s[LastOf(s, J)].bal - eq}
<1>1. IsFiniteSet(DOMAIN s)
  BY FS_Interval, HistoryFacts
<1>2. \A i \in DOMAIN s : f[i] \in Int /\ s[i].bal \in Int
  BY RiseTyped, HistoryFacts, AmountsAssumption DEF Assertion
<1>3. ASSUME NEW J \in SUBSET DOMAIN s, \A K \in SUBSET J : K # J => K \in P
      PROVE  J \in P
  <2>1. SUFFICES ASSUME First(J)
                 PROVE  SumFunctionOnSet(f, J)
                        = IF J = {} THEN 0 ELSE s[LastOf(s, J)].bal - eq
    OBVIOUS
  <2>2. CASE J = {}
    BY <2>2, SumEmpty
  <2>3. CASE J # {}
    <3> DEFINE l == LastOf(s, J)
               K == J \ {l}
               before == {j \in DOMAIN s : Earlier(s, j, l)}
    <3>1. l \in J /\ \A j \in K : Earlier(s, j, l)
      BY <2>3, LastIsLast
    <3> HIDE DEF l
    <3>2. K = before
      <4>1. ~Earlier(s, l, l)
        BY <3>1, HistoryFacts DEF Earlier
      <4> QED
        BY <2>1, <3>1, <4>1
    <3>3. First(K)
      <4>1. ASSUME NEW i \in K, NEW j \in DOMAIN s, Earlier(s, j, i)
            PROVE  j \in K
        <5>1. Earlier(s, j, l)
          BY <3>1, <4>1, EarlierTransitive
        <5> QED
          BY <3>2, <5>1
      <4> QED
        BY <4>1
    <3>4. K \in P
      BY <1>3, <3>1
    <3>5. SumFunctionOnSet(f, K) = IF K = {} THEN 0 ELSE s[LastOf(s, K)].bal - eq
      BY <3>3, <3>4
    <3>6. f[l] = s[l].bal - IF K = {} THEN eq ELSE s[LastOf(s, K)].bal
      <4>1. f[l] = Rise(s, eq, l)
        BY <3>1
      <4>2. Base(s, eq, l) = IF before = {} THEN eq ELSE s[LastOf(s, before)].bal
        BY DEF Base
      <4> HIDE DEF f, K, before
      <4> QED
        BY <3>2, <4>1, <4>2 DEF Rise
    <3>7. SumFunctionOnSet(f, J) = f[l] + SumFunctionOnSet(f, K)
      <4>1. IsFiniteSet(J) /\ \A i \in J : f[i] \in Int
        BY <1>1, <1>2, FS_Subset
      <4> HIDE DEF f
      <4> QED
        BY <3>1, <4>1, SumRemove
    <3>8. s[l].bal \in Int /\ (K # {} => s[LastOf(s, K)].bal \in Int)
      <4>1. K # {} => LastOf(s, K) \in DOMAIN s
        BY LastInSet
      <4> HIDE DEF K
      <4> QED
        BY <1>2, <3>1, <4>1
    <3>9. SumFunctionOnSet(f, J) = s[l].bal - eq
      <4> DEFINE earlier == s[LastOf(s, K)].bal
                 rest == SumFunctionOnSet(f, K)
                 rise == f[l]
                 own == s[l].bal
      <4>1. CASE K = {}
        <5>1. rest = 0 /\ rise = own - eq /\ own \in Int
          BY <3>5, <3>6, <3>8, <4>1
        <5>2. SumFunctionOnSet(f, J) = rise + rest
          BY <3>7
        <5> HIDE DEF rest, rise, own, K
        <5>3. rise + rest = own - eq
          BY <5>1
        <5> QED
          BY <5>2, <5>3 DEF own
      <4>2. CASE K # {}
        <5>1. rest = earlier - eq /\ rise = own - earlier /\ own \in Int /\ earlier \in Int
          BY <3>5, <3>6, <3>8, <4>2
        <5>2. SumFunctionOnSet(f, J) = rise + rest
          BY <3>7
        <5> HIDE DEF rest, rise, own, earlier, K
        <5>3. rise + rest = own - eq
          BY <5>1
        <5> QED
          BY <5>2, <5>3 DEF own
      <4> QED
        BY <4>1, <4>2
    <3> QED
      BY <2>3, <3>9 DEF l
  <2> QED
    BY <2>2, <2>3
<1>4. I \in P
  <2>1. \A J \in SUBSET DOMAIN s : J \in P
    <3> HIDE DEF P
    <3> QED BY <1>1, <1>3, SubsetInduction
  <2> QED
    BY <2>1
<1> QED
  BY <1>4

\* The keys of an account's corrections up to a day.
KeysUpTo(d) == {k \in Kinds \X Days : k[2] <= d}

LEMMA KeysUpToFinite ==
    ASSUME NEW d
    PROVE  IsFiniteSet(KeysUpTo(d))
<1>1. IsFiniteSet(Days)
  BY FS_Interval, BooksBoundAssumption DEF Days
<1>2. IsFiniteSet(Kinds)
  <2>1. IsFiniteSet({"opening"}) /\ Kinds = {"opening"} \cup {"trueup"}
    BY FS_Singleton DEF Kinds
  <2> QED
    BY <2>1, FS_AddElement
<1>3. IsFiniteSet(Kinds \X Days)
  BY <1>1, <1>2, FS_Product
<1>4. KeysUpTo(d) \in SUBSET (Kinds \X Days)
  BY DEF KeysUpTo
<1> QED
  BY <1>3, <1>4, FS_Subset

\* Figures x booked each on its own day, those of day e and those up to day d.
FiguresOn(J, x, at, e) == SumFunctionOnSet([j \in J |-> IF at[j] = e THEN x[j] ELSE 0], J)
FiguresUpTo(J, x, at, d) ==
    SumFunctionOnSet([j \in J |-> IF at[j] # Undated /\ at[j] <= d THEN x[j] ELSE 0], J)

\* Summed day by day they are all those up to the last of the days.
LEMMA ByDay ==
    ASSUME NEW J, IsFiniteSet(J), NEW x \in [J -> Int], NEW at \in [J -> Days \cup {Undated}],
           NEW d \in Days
    PROVE  SumFunctionOnSet(
               [k \in KeysUpTo(d) |->
                   IF k[1] = "trueup" THEN FiguresOn(J, x, at, k[2]) ELSE 0], KeysUpTo(d))
           = FiguresUpTo(J, x, at, d)
<1> USE DEF FiguresOn, FiguresUpTo
<1> DEFINE C == KeysUpTo(d)
           h == [k \in C |-> [j \in J |-> IF k[1] = "trueup" /\ at[j] = k[2] THEN x[j] ELSE 0]]
           byKey == [k \in C |->
                   IF k[1] = "trueup"
                   THEN SumFunctionOnSet([j \in J |-> IF at[j] = k[2] THEN x[j] ELSE 0], J)
                   ELSE 0]
           byPart == [j \in J |-> IF at[j] # Undated /\ at[j] <= d THEN x[j] ELSE 0]
<1>1. IsFiniteSet(C)
  BY KeysUpToFinite
<1>2. h \in [C -> [J -> Int]]
  OBVIOUS
<1>3. SumFunctionOnSet([k \in C |-> SumFunctionOnSet(h[k], J)], C)
      = SumFunctionOnSet([j \in J |-> SumFunctionOnSet([k \in C |-> h[k][j]], C)], J)
  <2> HIDE DEF h, C
  <2> QED BY <1>1, <1>2, SumSwap
<1>4. ASSUME NEW k \in C
      PROVE  SumFunctionOnSet(h[k], J) = byKey[k]
  <2>1. CASE k[1] = "trueup"
    <3>1. h[k] = [j \in J |-> IF at[j] = k[2] THEN x[j] ELSE 0]
      BY <2>1
    <3> QED
      BY <2>1, <3>1
  <2>2. CASE k[1] # "trueup"
    <3>1. \A j \in J : h[k][j] = 0
      BY <2>2
    <3>2. SumFunctionOnSet(h[k], J) = 0
      <4> HIDE DEF h
      <4> QED BY <3>1, SumZeros
    <3> QED
      BY <2>2, <3>2
  <2> QED
    BY <2>1, <2>2
<1>5. ASSUME NEW j \in J
      PROVE  SumFunctionOnSet([k \in C |-> h[k][j]], C) = byPart[j]
  <2> DEFINE f == [k \in C |-> h[k][j]]
             y == <<"trueup", at[j]>>
  <2>1. \A k \in C : f[k] = IF k = y THEN x[j] ELSE 0
    <3>1. ASSUME NEW k \in C
          PROVE  k = y <=> k[1] = "trueup" /\ at[j] = k[2]
      <4>1. k \in Kinds \X Days
        BY DEF KeysUpTo
      <4>2. k = <<k[1], k[2]>>
        BY <4>1
      <4> QED
        BY <4>2
    <3>2. \A k \in C : f[k] = IF k[1] = "trueup" /\ at[j] = k[2] THEN x[j] ELSE 0
      OBVIOUS
    <3> HIDE DEF f, C, y
    <3> QED BY <3>1, <3>2
  <2>2. y \in C <=> at[j] # Undated /\ at[j] <= d
    <3>1. at[j] \in Days \cup {Undated} /\ Undated \notin Days
      BY BooksBoundAssumption DEF Days, Undated
    <3> QED
      BY <3>1 DEF KeysUpTo, Kinds
  <2>3. x[j] \in Int
    OBVIOUS
  <2>4. CASE y \in C
    <3>1. f[y] = x[j] /\ \A k \in C \ {y} : f[k] = 0
      BY <2>1, <2>4
    <3> HIDE DEF f, C, y
    <3>2. SumFunctionOnSet(f, C) = f[y]
      BY <1>1, <2>3, <2>4, <3>1, SumSingle
    <3> QED
      BY <2>2, <2>4, <3>1, <3>2 DEF f
  <2>5. CASE y \notin C
    <3>1. \A k \in C : f[k] = 0
      BY <2>1, <2>5
    <3> HIDE DEF f, C, y
    <3>2. SumFunctionOnSet(f, C) = 0
      BY <1>1, <3>1, SumZeros
    <3> QED
      BY <2>2, <2>5, <3>2 DEF f
  <2> QED
    BY <2>4, <2>5
<1>6. [k \in C |-> SumFunctionOnSet(h[k], J)] = byKey
  <2>1. byKey = [k \in C |-> byKey[k]]
    OBVIOUS
  <2> HIDE DEF h, byKey, C
  <2> QED BY <1>4, <2>1
<1>7. [j \in J |-> SumFunctionOnSet([k \in C |-> h[k][j]], C)] = byPart
  <2>1. byPart = [j \in J |-> byPart[j]]
    OBVIOUS
  <2> HIDE DEF h, byPart, C
  <2> QED BY <1>5, <2>1
<1> QED
  BY <1>3, <1>6, <1>7

\* The balance last asserted by day d, over what the books opened with.
StoodOn(s, eq, d) ==
    IF GoverningOn(s, d) = 0 THEN 0 ELSE s[GoverningOn(s, d)].bal - eq

\* What _governing_row names: the last assertion by day d, when there is one.
LEMMA GoverningFacts ==
    ASSUME NEW s \in Seq(Assertion), NEW d \in Int
    PROVE  LET g == GoverningOn(s, d)
               I == {i \in DOMAIN s : s[i].day <= d}
           IN /\ g = 0 <=> I = {}
              /\ g # 0 => /\ g \in I /\ g = LastOf(s, I) /\ s[g].bal \in Int
                          /\ \A i \in I : s[i].day <= s[g].day
<1> DEFINE I == {i \in DOMAIN s : s[i].day <= d}
<1>1. CASE I = {}
  BY <1>1 DEF GoverningOn
<1>2. CASE I # {}
  <2> DEFINE g == LastOf(s, I)
  <2>1. GoverningOn(s, d) = g
    BY <1>2 DEF GoverningOn
  <2>2. g \in I /\ \A j \in I \ {g} : Earlier(s, j, g)
    BY <1>2, LastIsLast
  <2> HIDE DEF g
  <2>3. g # 0 /\ s[g].bal \in Int
    <3>1. g \in 1..Len(s) /\ Len(s) \in Nat /\ s[g] \in Assertion
      BY <2>2, HistoryFacts
    <3>2. g # 0
      BY <3>1
    <3>3. s[g].bal \in Balances
      BY <3>1 DEF Assertion
    <3> QED
      BY <3>2, <3>3, AmountsAssumption
  <2>4. \A i \in I : s[i].day <= s[g].day
    <3>1. ASSUME NEW i \in I
          PROVE  s[i].day <= s[g].day
      <4>1. i = g \/ Earlier(s, i, g)
        BY <2>2
      <4> QED
        BY <2>2, <4>1, HistoryFacts DEF Earlier
    <3> QED
      BY <3>1
  <2> QED
    BY <1>2, <2>1, <2>2, <2>3, <2>4 DEF g
<1> QED
  BY <1>1, <1>2

\* The assertions up to a day lift the ledger to the last one's balance.
LEMMA RisenUpTo ==
    ASSUME NEW s \in Seq(Assertion), NEW eq \in Int, NEW d \in Days
    PROVE  SumFunctionOnSet(
               [k \in KeysUpTo(d) |-> IF k[1] = "trueup" THEN RisenOn(s, eq, k[2]) ELSE 0],
               KeysUpTo(d))
           = StoodOn(s, eq, d)
<1> DEFINE I == {i \in DOMAIN s : s[i].day <= d}
           x == [i \in DOMAIN s |-> Rise(s, eq, i)]
           at == [i \in DOMAIN s |-> s[i].day]
           kept == [i \in DOMAIN s |-> IF at[i] # Undated /\ at[i] <= d THEN x[i] ELSE 0]
<1>1. IsFiniteSet(DOMAIN s)
  BY FS_Interval, HistoryFacts
<1>2. d \in Int
  BY BooksBoundAssumption DEF Days
<1>3. x \in [DOMAIN s -> Int]
  BY RiseTyped
<1>4. at \in [DOMAIN s -> Days \cup {Undated}]
  BY HistoryFacts
<1>5. ASSUME NEW e
      PROVE  RisenOn(s, eq, e)
             = FiguresOn(DOMAIN s, x, at, e)
  <2>1. [i \in DOMAIN s |-> IF s[i].day = e THEN Rise(s, eq, i) ELSE 0]
        = [i \in DOMAIN s |-> IF at[i] = e THEN x[i] ELSE 0]
    OBVIOUS
  <2> QED
    BY <2>1 DEF RisenOn, FiguresOn
<1>6. SumFunctionOnSet(
          [k \in KeysUpTo(d) |-> IF k[1] = "trueup" THEN RisenOn(s, eq, k[2]) ELSE 0],
          KeysUpTo(d))
      = SumFunctionOnSet(kept, DOMAIN s)
  <2> HIDE DEF x, at
  <2>1. [k \in KeysUpTo(d) |-> IF k[1] = "trueup" THEN RisenOn(s, eq, k[2]) ELSE 0]
        = [k \in KeysUpTo(d) |->
              IF k[1] = "trueup" THEN FiguresOn(DOMAIN s, x, at, k[2]) ELSE 0]
    BY <1>5
  <2> DEFINE J == DOMAIN s
  <2>2. IsFiniteSet(J) /\ x \in [J -> Int] /\ at \in [J -> Days \cup {Undated}]
    BY <1>1, <1>3, <1>4
  <2> HIDE DEF J
  <2>3. SumFunctionOnSet(
            [k \in KeysUpTo(d) |->
                IF k[1] = "trueup" THEN FiguresOn(J, x, at, k[2]) ELSE 0], KeysUpTo(d))
        = FiguresUpTo(J, x, at, d)
    BY <2>2, ByDay
  <2> QED
    BY <2>1, <2>3 DEF J, FiguresUpTo
<1>7. SumFunctionOnSet(x, I) = SumFunctionOnSet(kept, DOMAIN s)
  <2>1. \A i \in DOMAIN s : s[i].day # Undated
    BY HistoryFacts, BooksBoundAssumption DEF Days, Undated
  <2>2. \A i \in DOMAIN s : kept[i] = IF i \in I THEN x[i] ELSE 0
    BY <2>1
  <2>3. I \in SUBSET DOMAIN s /\ \A i \in I : x[i] \in Int
    BY <1>3
  <2> HIDE DEF x, kept, I
  <2> QED
    BY <1>1, <2>2, <2>3, SumFilter
<1>8. SumFunctionOnSet(x, I) = IF I = {} THEN 0 ELSE s[LastOf(s, I)].bal - eq
  <2>1. \A i \in I : \A j \in DOMAIN s : Earlier(s, j, i) => j \in I
    BY <1>2, HistoryFacts DEF Earlier
  <2>2. I \in SUBSET DOMAIN s
    OBVIOUS
  <2> HIDE DEF I
  <2> QED
    BY <2>1, <2>2, Telescope
<1>9. StoodOn(s, eq, d) = IF I = {} THEN 0 ELSE s[LastOf(s, I)].bal - eq
  BY <1>2, GoverningFacts DEF StoodOn
<1> HIDE DEF x, kept, I
<1> QED
  BY <1>6, <1>7, <1>8, <1>9

\* The money of a movement that an assertion by day d has inside it, and the
\* money that moved by day d and is in none.
Absorbed(s, r, a, d) ==
    IF \E i \in DOMAIN s : r.day <= s[i].day /\ s[i].day <= d THEN Net(r, a) ELSE 0
Since(s, r, a, d) ==
    IF r.day <= d /\ ~\E i \in DOMAIN s : r.day <= s[i].day /\ s[i].day <= d
    THEN Net(r, a) ELSE 0

\* A day with an assertion on or after it falls on one's day.
LEMMA FallsSomewhere ==
    ASSUME NEW s \in Seq(Assertion), NEW d \in Int, NEW i \in DOMAIN s, d <= s[i].day
    PROVE  \E e \in Days : FallsOn(s, d, e)
<1> DEFINE I == {j \in DOMAIN s : d <= s[j].day}
           f == FirstOf(s, I)
<1>1. I # {}
  OBVIOUS
<1>2. f \in I /\ \A j \in I \ {f} : Earlier(s, f, j)
  BY <1>1, FirstInSet
<1> HIDE DEF f
<1>3. \A j \in I : s[f].day <= s[j].day
  <2>1. ASSUME NEW j \in I
        PROVE  s[f].day <= s[j].day
    <3>1. j = f \/ Earlier(s, f, j)
      BY <1>2
    <3> QED
      BY <1>2, <3>1, HistoryFacts DEF Earlier
  <2> QED
    BY <2>1
<1>4. s[f].day \in Days /\ FallsOn(s, d, s[f].day)
  BY <1>2, <1>3, HistoryFacts DEF FallsOn
<1> QED
  BY <1>4

\* What the assertions up to a day cleared is what they absorbed.
LEMMA CoveredUpTo ==
    ASSUME NEW s \in Seq(Assertion), NEW mvs \in [Movements -> Row], NEW a \in Accounts,
           NEW d \in Days
    PROVE  SumFunctionOnSet(
               [k \in KeysUpTo(d) |-> IF k[1] = "trueup" THEN CoveredOn(mvs, s, a, k[2]) ELSE 0],
               KeysUpTo(d))
           = SumFunctionOnSet([m \in Movements |-> Absorbed(s, mvs[m], a, d)], Movements)
<1> DEFINE falls(m) == {e \in Days : FallsOn(s, mvs[m].day, e)}
           x == [m \in Movements |-> Net(mvs[m], a)]
           at == [m \in Movements |->
                     IF falls(m) = {} THEN Undated ELSE CHOOSE e \in falls(m) : TRUE]
<1>1. IsFiniteSet(Movements)
  BY AccountsAssumption
<1>2. x \in [Movements -> Int]
  BY NetTyped
<1>3. ASSUME NEW m \in Movements
      PROVE  /\ at[m] \in Days \cup {Undated}
             /\ at[m] # Undated => at[m] \in Days /\ FallsOn(s, mvs[m].day, at[m])
             /\ at[m] = Undated => \A e \in Days : ~FallsOn(s, mvs[m].day, e)
             /\ mvs[m] \in Row /\ mvs[m].day \in Int
  <2>1. Undated \notin Days
    BY BooksBoundAssumption DEF Days, Undated
  <2>2. mvs[m] \in Row /\ mvs[m].day \in Int
    BY BooksBoundAssumption DEF Row, Days, Undated
  <2> QED
    BY <2>1, <2>2
<1>4. at \in [Movements -> Days \cup {Undated}]
  BY <1>3
<1>5. d \in Int
  BY BooksBoundAssumption DEF Days
<1>6. ASSUME NEW m \in Movements, NEW e \in Days
      PROVE  DayShare(s, mvs[m], a, e) = IF at[m] = e THEN x[m] ELSE 0
  <2>1. FallsOn(s, mvs[m].day, e) <=> at[m] = e
    <3>1. e # Undated
      BY BooksBoundAssumption DEF Days, Undated
    <3> HIDE DEF at
    <3> QED
      BY <1>3, <3>1, FallsOnOneDay
  <2> HIDE DEF at
  <2> QED
    BY <2>1 DEF DayShare
<1>7. ASSUME NEW m \in Movements
      PROVE  Absorbed(s, mvs[m], a, d) = IF at[m] # Undated /\ at[m] <= d THEN x[m] ELSE 0
  <2>1. (\E i \in DOMAIN s : mvs[m].day <= s[i].day /\ s[i].day <= d)
        <=> at[m] # Undated /\ at[m] <= d
    <3> HIDE DEF at
    <3>1. CASE at[m] = Undated
      BY <1>3, <3>1, FallsSomewhere
    <3>2. CASE at[m] # Undated
      <4>1. /\ \E i \in DOMAIN s : s[i].day = at[m]
            /\ mvs[m].day <= at[m]
            /\ \A j \in DOMAIN s : mvs[m].day <= s[j].day => at[m] <= s[j].day
        BY <1>3, <3>2 DEF FallsOn
      <4>2. \A i \in DOMAIN s : s[i].day \in Int
        BY HistoryFacts
      <4>3. at[m] \in Int
        BY <4>1, <4>2
      <4> QED
        BY <1>5, <3>2, <4>1, <4>2, <4>3
    <3> QED
      BY <3>1, <3>2
  <2> HIDE DEF at
  <2> QED
    BY <2>1 DEF Absorbed
<1> HIDE DEF at
<1>8. ASSUME NEW e \in Days
      PROVE  CoveredOn(mvs, s, a, e)
             = FiguresOn(Movements, x, at, e)
  <2>1. [m \in Movements |-> DayShare(s, mvs[m], a, e)]
        = [m \in Movements |-> IF at[m] = e THEN x[m] ELSE 0]
    BY <1>6
  <2> QED
    BY <2>1 DEF CoveredOn, FiguresOn
<1>9. [m \in Movements |-> Absorbed(s, mvs[m], a, d)]
      = [m \in Movements |-> IF at[m] # Undated /\ at[m] <= d THEN x[m] ELSE 0]
  BY <1>7
<1> HIDE DEF x
<1>10. [k \in KeysUpTo(d) |-> IF k[1] = "trueup" THEN CoveredOn(mvs, s, a, k[2]) ELSE 0]
       = [k \in KeysUpTo(d) |->
             IF k[1] = "trueup" THEN FiguresOn(Movements, x, at, k[2]) ELSE 0]
  <2>1. \A k \in KeysUpTo(d) : k[2] \in Days
    BY DEF KeysUpTo
  <2> QED
    BY <1>8, <2>1
<1>11. SumFunctionOnSet(
           [k \in KeysUpTo(d) |->
               IF k[1] = "trueup" THEN FiguresOn(Movements, x, at, k[2]) ELSE 0], KeysUpTo(d))
       = FiguresUpTo(Movements, x, at, d)
  BY <1>1, <1>2, <1>4, ByDay
<1> QED
  BY <1>9, <1>10, <1>11 DEF FiguresUpTo

\* The corrections of an account up to a day.
LEMMA WalkUpTo ==
    ASSUME NEW s \in Seq(Assertion), NEW mvs \in [Movements -> Row], NEW o \in Opening,
           NEW a \in Accounts, NEW d \in Days
    PROVE  SumFunctionOnSet(Walk(mvs, s, o, a), KeysUpTo(d))
           = (IF o.day <= d THEN o.equity ELSE 0) + StoodOn(s, o.equity, d)
             - SumFunctionOnSet([m \in Movements |-> Absorbed(s, mvs[m], a, d)], Movements)
<1> DEFINE C == KeysUpTo(d)
           w == Walk(mvs, s, o, a)
           y == <<"opening", o.day>>
           opened == [k \in C |-> IF k = y THEN o.equity ELSE 0]
           risen == [k \in C |-> IF k[1] = "trueup" THEN RisenOn(s, o.equity, k[2]) ELSE 0]
           covered == [k \in C |-> IF k[1] = "trueup" THEN CoveredOn(mvs, s, a, k[2]) ELSE 0]
           lifted == [k \in C |-> opened[k] + risen[k]]
<1>1. IsFiniteSet(C)
  BY KeysUpToFinite
<1>2. o.equity \in Int /\ o.day \in Days
  BY AmountsAssumption DEF Opening
<1>3. IsFiniteSet(DOMAIN s) /\ IsFiniteSet(Movements)
  BY FS_Interval, HistoryFacts, AccountsAssumption
<1>4. ASSUME NEW e
      PROVE  RisenOn(s, o.equity, e) \in Int /\ CoveredOn(mvs, s, a, e) \in Int
  <2> DEFINE f == [i \in DOMAIN s |-> IF s[i].day = e THEN Rise(s, o.equity, i) ELSE 0]
             g == [m \in Movements |-> DayShare(s, mvs[m], a, e)]
  <2>1. \A i \in DOMAIN s : f[i] \in Int
    BY <1>2, RiseTyped
  <2>2. \A m \in Movements : g[m] \in Int
    BY NetTyped DEF DayShare
  <2> HIDE DEF f, g
  <2>3. SumFunctionOnSet(f, DOMAIN s) \in Int /\ SumFunctionOnSet(g, Movements) \in Int
    BY <1>3, <2>1, <2>2, SumInt
  <2> QED
    BY <2>3 DEF f, g, RisenOn, CoveredOn
<1>5. ASSUME NEW k \in C
      PROVE  /\ opened[k] \in Int /\ risen[k] \in Int /\ covered[k] \in Int /\ w[k] \in Int
             /\ lifted[k] = opened[k] + risen[k]
             /\ lifted[k] = w[k] + covered[k]
  <2>1. k \in Kinds \X Days /\ k[1] \in {"opening", "trueup"} /\ k = <<k[1], k[2]>>
    BY DEF KeysUpTo, Kinds
  <2>2. k = y <=> k[1] = "opening" /\ k[2] = o.day
    BY <2>1
  <2>3. w[k] = IF k[1] = "opening" THEN IF k[2] = o.day THEN o.equity ELSE 0
               ELSE RisenOn(s, o.equity, k[2]) - CoveredOn(mvs, s, a, k[2])
    BY <2>1 DEF Walk
  <2>4. /\ opened[k] = IF k = y THEN o.equity ELSE 0
        /\ risen[k] = IF k[1] = "trueup" THEN RisenOn(s, o.equity, k[2]) ELSE 0
        /\ covered[k] = IF k[1] = "trueup" THEN CoveredOn(mvs, s, a, k[2]) ELSE 0
        /\ lifted[k] = opened[k] + risen[k]
    OBVIOUS
  <2>5. RisenOn(s, o.equity, k[2]) \in Int /\ CoveredOn(mvs, s, a, k[2]) \in Int
    BY <1>4
  <2>6. k[1] = "opening" \/ k[1] = "trueup"
    BY <2>1
  <2> HIDE DEF opened, risen, covered, lifted, w, y, C
  <2>7. CASE k[1] = "opening"
    BY <1>2, <2>2, <2>3, <2>4, <2>7
  <2>8. CASE k[1] = "trueup"
    BY <2>2, <2>3, <2>4, <2>5, <2>8
  <2> QED
    BY <2>6, <2>7, <2>8
<1>6. SumFunctionOnSet(opened, C) = IF o.day <= d THEN o.equity ELSE 0
  <2>1. y \in C <=> o.day <= d
    BY <1>2 DEF KeysUpTo, Kinds
  <2>2. CASE y \in C
    <3>1. opened[y] = o.equity /\ \A k \in C \ {y} : opened[k] = 0
      BY <2>2
    <3> HIDE DEF opened, C, y
    <3>2. SumFunctionOnSet(opened, C) = opened[y]
      BY <1>1, <1>2, <2>2, <3>1, SumSingle
    <3> QED
      BY <2>1, <2>2, <3>1, <3>2
  <2>3. CASE y \notin C
    <3>1. \A k \in C : opened[k] = 0
      BY <2>3
    <3> HIDE DEF opened, C, y
    <3>2. SumFunctionOnSet(opened, C) = 0
      BY <1>1, <3>1, SumZeros
    <3> QED
      BY <2>1, <2>3, <3>2
  <2> QED
    BY <2>2, <2>3
<1>7. SumFunctionOnSet(risen, C) = StoodOn(s, o.equity, d)
  BY <1>2, RisenUpTo
<1>8. SumFunctionOnSet(covered, C)
      = SumFunctionOnSet([m \in Movements |-> Absorbed(s, mvs[m], a, d)], Movements)
  BY CoveredUpTo
<1> HIDE DEF opened, risen, covered, lifted, w, C
<1>9. SumFunctionOnSet(lifted, C) = SumFunctionOnSet(opened, C) + SumFunctionOnSet(risen, C)
  BY <1>1, <1>5, SumPlus
<1>10. SumFunctionOnSet(lifted, C) = SumFunctionOnSet(w, C) + SumFunctionOnSet(covered, C)
  BY <1>1, <1>5, SumPlus
<1>11. /\ SumFunctionOnSet(opened, C) \in Int /\ SumFunctionOnSet(risen, C) \in Int
       /\ SumFunctionOnSet(covered, C) \in Int /\ SumFunctionOnSet(w, C) \in Int
  BY <1>1, <1>5, SumInt
<1>12. SumFunctionOnSet(w, C)
       = SumFunctionOnSet(opened, C) + SumFunctionOnSet(risen, C) - SumFunctionOnSet(covered, C)
  BY <1>9, <1>10, <1>11
<1> QED
  BY <1>6, <1>7, <1>8, <1>12 DEF w, C

\* What an account's ledger reads at the end of a day, from its facts: the
\* opening once it is open, the last balance asserted over it, and the money
\* that moved since.
ReadsOn(mvs, s, o, a, d) ==
    (IF o.day <= d THEN o.equity ELSE 0) + StoodOn(s, o.equity, d)
    + SumFunctionOnSet([m \in Movements |-> Since(s, mvs[m], a, d)], Movements)

\* What the movements have posted on an account by a day.
LEMMA MovedUpTo ==
    ASSUME BooksInv, NEW a \in Accounts, NEW d \in Days
    PROVE  SumFunction([m \in Movements |->
               SumFunctionOnSet(posted[m], {k \in Keys : k[2] <= d /\ k[3] = a})])
           = SumFunctionOnSet([m \in Movements |-> Since(said[a], mv[m], a, d)], Movements)
             + SumFunctionOnSet([m \in Movements |-> Absorbed(said[a], mv[m], a, d)], Movements)
<1> DEFINE s == said[a]
           K == {k \in Keys : k[2] <= d /\ k[3] = a}
           moved == [m \in Movements |-> SumFunctionOnSet(posted[m], K)]
           since == [m \in Movements |-> Since(s, mv[m], a, d)]
           absorbed == [m \in Movements |-> Absorbed(s, mv[m], a, d)]
<1>1. s \in Seq(Assertion)
  BY DEF BooksInv, FactsTypeOK
<1>2. ASSUME NEW m \in Movements
      PROVE  /\ since[m] \in Int /\ absorbed[m] \in Int
             /\ moved[m] = since[m] + absorbed[m]
  <2> DEFINE r == mv[m]
             y == <<r.per, r.day, a>>
  <2>1. r \in Row /\ posted[m] = PurchaseTarget(r)
    BY MovementFacts DEF BooksInv, SourcesAtTarget
  <2>2. Net(r, a) \in Int
    BY <2>1, NetTyped
  <2>3. SumFunctionOnSet(posted[m], K) = IF y \in K THEN Net(r, a) ELSE 0
    <3>1. K \in SUBSET {k \in Keys : k[3] = a}
      OBVIOUS
    <3> HIDE DEF K, r
    <3> QED BY <2>1, <3>1, TargetSum
  <2>4. r.day \in Int /\ d \in Int /\ \A i \in DOMAIN s : s[i].day \in Int
    BY <1>1, <2>1, HistoryFacts, BooksBoundAssumption DEF Row, Days, Undated
  <2>5. y \in K <=> r.day # Undated /\ r.day <= d
    <3>1. Undated \notin Days
      BY BooksBoundAssumption DEF Days, Undated
    <3> HIDE DEF r
    <3> QED BY <2>1, <3>1 DEF Row, Keys
  <2>6. r.day = Undated => Net(r, a) = 0
    BY DEF Net
  <2>7. moved[m] = IF r.day <= d THEN Net(r, a) ELSE 0
    <3> HIDE DEF r, y, K
    <3>1. moved[m] = SumFunctionOnSet(posted[m], K)
      OBVIOUS
    <3> HIDE DEF moved
    <3> QED BY <2>3, <2>5, <2>6, <3>1
  <2>8. (\E i \in DOMAIN s : r.day <= s[i].day /\ s[i].day <= d) => r.day <= d
    <3> HIDE DEF r, s
    <3> QED BY <2>4
  <2>9. since[m] = Since(s, r, a, d) /\ absorbed[m] = Absorbed(s, r, a, d)
    OBVIOUS
  <2> HIDE DEF r, s, moved, since, absorbed
  <2> QED
    BY <2>2, <2>7, <2>8, <2>9 DEF Since, Absorbed
<1>3. SumFunction(moved) = SumFunctionOnSet(moved, Movements)
  BY DEF SumFunction
<1> HIDE DEF moved, since, absorbed
<1>4. SumFunctionOnSet(moved, Movements)
      = SumFunctionOnSet(since, Movements) + SumFunctionOnSet(absorbed, Movements)
  BY <1>2, AccountsAssumption, SumPlus
<1>5. SumFunction(moved)
      = SumFunctionOnSet(since, Movements) + SumFunctionOnSet(absorbed, Movements)
  BY <1>3, <1>4
<1> QED
  BY <1>5 DEF moved, since, absorbed

\* Where the corrections are a full walk's, the ledger reads the account's facts.
LEMMA BalanceReads ==
    CorrectionsInv => \A a \in Accounts \ vacated : \A d \in Days :
                          LedgerBalance(a, d) = ReadsOn(mv, said[a], open[a], a, d)
<1> SUFFICES ASSUME CorrectionsInv, NEW a \in Accounts \ vacated, NEW d \in Days
             PROVE  LedgerBalance(a, d) = ReadsOn(mv, said[a], open[a], a, d)
  OBVIOUS
<1> DEFINE s == said[a]
           o == open[a]
           since == SumFunctionOnSet([m \in Movements |-> Since(s, mv[m], a, d)], Movements)
           absorbed == SumFunctionOnSet([m \in Movements |-> Absorbed(s, mv[m], a, d)], Movements)
           moved == SumFunction([m \in Movements |->
                       SumFunctionOnSet(posted[m], {k \in Keys : k[2] <= d /\ k[3] = a})])
           corrected == SumFunctionOnSet(corr[a], {k \in Kinds \X Days : k[2] <= d})
           opened == IF o.day <= d THEN o.equity ELSE 0
<1>1. s \in Seq(Assertion) /\ o \in Opening /\ corr[a] = Walk(mv, s, o, a)
  BY NowWalk DEF CorrectionsInv, OnlyVacatedLedgersDrift
<1>2. mv \in [Movements -> Row]
  BY DEF CorrectionsInv, BooksInv, FactsTypeOK
<1>3. moved = since + absorbed
  BY MovedUpTo DEF CorrectionsInv
<1>4. corrected = opened + StoodOn(s, o.equity, d) - absorbed
  <2>1. SumFunctionOnSet(Walk(mv, s, o, a), KeysUpTo(d))
        = opened + StoodOn(s, o.equity, d) - absorbed
    <3> HIDE DEF s, o
    <3> QED BY <1>1, <1>2, WalkUpTo DEF opened, absorbed
  <2> HIDE DEF s, o, absorbed, opened
  <2> QED
    BY <1>1, <2>1 DEF KeysUpTo
<1>5. o.equity \in Int
  BY <1>1, AmountsAssumption DEF Opening
<1>6. StoodOn(s, o.equity, d) \in Int
  <2>1. d \in Int
    BY BooksBoundAssumption DEF Days
  <2> DEFINE eq == o.equity
  <2>2. eq \in Int
    BY <1>5
  <2> HIDE DEF s, o, eq
  <2>3. GoverningOn(s, d) # 0 => s[GoverningOn(s, d)].bal \in Int
    BY <1>1, <2>1, GoverningFacts
  <2>4. StoodOn(s, eq, d) \in Int
    BY <2>2, <2>3 DEF StoodOn
  <2> QED
    BY <2>4 DEF eq
<1>7. since \in Int /\ absorbed \in Int
  <2> DEFINE f == [m \in Movements |-> Since(s, mv[m], a, d)]
             g == [m \in Movements |-> Absorbed(s, mv[m], a, d)]
  <2>1. \A m \in Movements : f[m] \in Int /\ g[m] \in Int
    BY <1>2, NetTyped DEF Since, Absorbed
  <2> HIDE DEF f, g
  <2>2. SumFunctionOnSet(f, Movements) \in Int /\ SumFunctionOnSet(g, Movements) \in Int
    BY <2>1, AccountsAssumption, SumInt
  <2> QED
    BY <2>2 DEF f, g
<1>8. LedgerBalance(a, d) = moved + corrected
  BY DEF LedgerBalance
<1>9. ReadsOn(mv, s, o, a, d) = opened + StoodOn(s, o.equity, d) + since
  BY DEF ReadsOn
<1>10. opened \in Int
  BY <1>5
<1> HIDE DEF moved, corrected, since, absorbed, opened
<1>11. LedgerBalance(a, d) = opened + StoodOn(s, o.equity, d) + since
  <2> HIDE DEF s, o
  <2> QED BY <1>3, <1>4, <1>6, <1>7, <1>8, <1>10
<1> QED
  BY <1>9, <1>11

\* And the facts read are the balance last asserted and what moved since.
LEMMA StatedReads ==
    ASSUME CorrectionsInv, NEW a \in Accounts, NEW d \in open[a].day..LastDay
    PROVE  StatedBalance(a, d) = ReadsOn(mv, said[a], open[a], a, d)
<1> DEFINE s == said[a]
           o == open[a]
           g == GoverningOn(s, d)
           from == IF g = 0 THEN o.day ELSE s[g].day
           D == {m \in Movements : mv[m].acct = a /\ mv[m].day \in (from + 1)..d}
           legs == [m \in Movements |-> mv[m].amt]
           since == [m \in Movements |-> Since(s, mv[m], a, d)]
<1>1. s \in Seq(Assertion) /\ o \in Opening
  BY NowWalk DEF CorrectionsInv
<1>2. o.day \in Int /\ o.day >= 1 /\ d \in Int /\ o.day <= d /\ o.equity \in Int
  <2>1. o.day \in Days /\ o.equity \in Equities
    BY <1>1 DEF Opening
  <2>2. d \in o.day..LastDay
    OBVIOUS
  <2>3. o.equity \in Int
    BY <2>1, AmountsAssumption
  <2> DEFINE opens == o.day
  <2>4. opens \in Days /\ d \in opens..LastDay
    BY <2>1, <2>2
  <2> HIDE DEF opens
  <2>5. opens \in Int /\ opens >= 1 /\ d \in Int /\ opens <= d
    BY <2>4, BooksBoundAssumption DEF Days
  <2> QED
    BY <2>3, <2>5 DEF opens
<1>3. /\ g = 0 => \A i \in DOMAIN s : ~(s[i].day <= d)
      /\ g # 0 => /\ g \in DOMAIN s /\ s[g].day <= d /\ s[g].bal \in Int
                  /\ \A i \in DOMAIN s : s[i].day <= d => s[i].day <= s[g].day
  BY <1>1, <1>2, GoverningFacts
<1>4. \A i \in DOMAIN s : s[i].day \in Int /\ s[i].day >= 1
  BY <1>1, HistoryFacts, BooksBoundAssumption DEF Days
<1> HIDE DEF g, s
<1>5. from \in Int /\ from >= 1
  BY <1>2, <1>3, <1>4
<1>6. ASSUME NEW m \in Movements
      PROVE  since[m] = IF m \in D THEN legs[m] ELSE 0
  <2> DEFINE r == mv[m]
  <2>1. r \in Row /\ (r.acct = a /\ r.day # Undated => r.day > o.day)
    BY DatedRow
  <2>2. r.day \in Int
    BY <2>1, BooksBoundAssumption DEF Row, Days, Undated
  <2> HIDE DEF r
  <2>3. CASE r.acct = a /\ r.day # Undated
    <3>1. Net(r, a) = r.amt
      BY <2>3 DEF Net
    <3>2. (r.day <= d /\ ~\E i \in DOMAIN s : r.day <= s[i].day /\ s[i].day <= d)
          <=> r.day \in (from + 1)..d
      <4>1. CASE g = 0
        <5>1. from = o.day /\ r.day > o.day
          BY <2>1, <2>3, <4>1
        <5> HIDE DEF from
        <5> QED
          BY <1>2, <1>3, <2>2, <4>1, <5>1
      <4>2. CASE g # 0
        <5>1. from = s[g].day
          BY <4>2
        <5> HIDE DEF from
        <5> QED
          BY <1>2, <1>3, <1>4, <2>2, <4>2, <5>1
      <4> QED
        BY <4>1, <4>2
    <3> HIDE DEF from
    <3>3. m \in D <=> r.day \in (from + 1)..d
      BY <2>3 DEF r
    <3>4. legs[m] = r.amt /\ since[m] = Since(s, r, a, d)
      BY DEF r
    <3> HIDE DEF D, legs, since
    <3> QED
      BY <3>1, <3>2, <3>3, <3>4 DEF Since
  <2>4. CASE ~(r.acct = a /\ r.day # Undated)
    <3>1. Net(r, a) = 0
      BY <2>4 DEF Net
    <3>2. since[m] = 0
      BY <3>1 DEF Since, r
    <3>3. Undated \notin (from + 1)..d
      <4> HIDE DEF from
      <4> QED BY <1>2, <1>5 DEF Undated
    <3>4. m \notin D
      BY <2>4, <3>3 DEF r
    <3> QED
      BY <3>2, <3>4
  <2> QED
    BY <2>3, <2>4
<1>7. \A m \in D : legs[m] \in Int
  BY AmountsAssumption, MovementFacts DEF CorrectionsInv, BooksInv, Row
<1>8. D \in SUBSET Movements
  OBVIOUS
<1>9. StatedBalance(a, d) = (IF g = 0 THEN o.equity ELSE s[g].bal) + SumFunctionOnSet(legs, D)
  BY DEF StatedBalance, g, s
<1>10. ReadsOn(mv, s, o, a, d)
       = o.equity + (IF g = 0 THEN 0 ELSE s[g].bal - o.equity) + SumFunctionOnSet(since, Movements)
  BY <1>2 DEF ReadsOn, StoodOn, g
<1> HIDE DEF D, legs, since, from, o
<1>11. SumFunctionOnSet(legs, D) = SumFunctionOnSet(since, Movements)
  BY <1>6, <1>7, <1>8, AccountsAssumption, SumFilter
<1>12. SumFunctionOnSet(legs, D) \in Int
  <2>1. IsFiniteSet(D)
    BY <1>8, AccountsAssumption, FS_Subset
  <2> QED
    BY <1>7, <2>1, SumInt
<1>13. StatedBalance(a, d) = ReadsOn(mv, s, o, a, d)
  BY <1>2, <1>3, <1>9, <1>10, <1>11, <1>12
<1> QED
  BY <1>13 DEF s, o

\* On every day its books are open the ledger of an account reads the balance
\* last asserted and what moved since (walk_account_ledger: an assertion always
\* wins), wherever no payment was re-pointed away unseen.
THEOREM AssertionsRead == Spec => []LedgerReadsAssertions
<1>1. CorrectionsInv => LedgerReadsAssertions
  <2>1. ASSUME CorrectionsInv, NEW a \in Accounts \ vacated, NEW d \in open[a].day..LastDay
        PROVE  LedgerBalance(a, d) = StatedBalance(a, d)
    <3>1. open[a] \in Opening
      BY <2>1, NowWalk DEF CorrectionsInv
    <3>2. d \in Days
      BY <3>1, BooksBoundAssumption DEF Opening, Days
    <3>3. LedgerBalance(a, d) = ReadsOn(mv, said[a], open[a], a, d)
      BY <2>1, <3>2, BalanceReads
    <3>4. StatedBalance(a, d) = ReadsOn(mv, said[a], open[a], a, d)
      BY <2>1, StatedReads
    <3> QED
      BY <3>3, <3>4
  <2> QED
    BY <2>1 DEF LedgerReadsAssertions
<1> QED
  BY <1>1, CorrectionsInvariant, PTL

\* An assertion of a later day, or with another one between, is not read.
LEMMA AppendReads ==
    ASSUME NEW mvs \in [Movements -> Row], NEW s \in Seq(Assertion), NEW e \in Assertion,
           NEW o, NEW a, NEW d \in Days,
           d < e.day \/ \E i \in DOMAIN s : s[i].day > e.day /\ s[i].day <= d
    PROVE  ReadsOn(mvs, Append(s, e), o, a, d) = ReadsOn(mvs, s, o, a, d)
<1> DEFINE t == Append(s, e)
           n == Len(s) + 1
           Is == {i \in DOMAIN s : s[i].day <= d}
           It == {i \in DOMAIN t : t[i].day <= d}
           g == GoverningOn(s, d)
<1>1. /\ t \in Seq(Assertion) /\ DOMAIN t = DOMAIN s \cup {n}
      /\ t[n] = e /\ \A i \in DOMAIN s : t[i] = s[i]
  BY HistoryFacts
<1>2. /\ n \notin DOMAIN s /\ n # 0
      /\ \A i \in DOMAIN s : s[i].day \in Int
  BY HistoryFacts
<1>3. e.day \in Int /\ d \in Int
  BY BooksBoundAssumption DEF Assertion, Days
<1> HIDE DEF t, n, g
<1>4. n \in It => \E i \in Is : s[i].day > e.day
  BY <1>1, <1>2, <1>3
<1>5. \A i \in DOMAIN s : i \in It <=> i \in Is
  BY <1>1
<1>6. \A r \in Row : Since(t, r, a, d) = Since(s, r, a, d)
  <2>1. ASSUME NEW r \in Row
        PROVE  (\E i \in DOMAIN t : r.day <= t[i].day /\ t[i].day <= d)
               <=> \E i \in DOMAIN s : r.day <= s[i].day /\ s[i].day <= d
    <3>1. r.day \in Int
      BY BooksBoundAssumption DEF Row, Days, Undated
    <3>2. ASSUME r.day <= e.day, e.day <= d
          PROVE  \E i \in DOMAIN s : r.day <= s[i].day /\ s[i].day <= d
      BY <1>1, <1>2, <1>3, <1>4, <3>1, <3>2
    <3> QED
      BY <1>1, <3>2
  <2> QED
    BY <2>1 DEF Since
<1>7. GoverningOn(t, d) = g /\ (g # 0 => g \in DOMAIN s)
  <2>1. CASE Is = {}
    <3>1. It = {}
      BY <1>1, <1>4, <1>5, <2>1
    <3> QED
      BY <2>1, <3>1 DEF GoverningOn, g
  <2>2. CASE Is # {}
    <3>1. g = LastOf(s, Is)
      BY <2>2 DEF GoverningOn, g
    <3>2. g \in Is /\ \A j \in Is \ {g} : Earlier(s, j, g)
      <4>1. Is \in SUBSET DOMAIN s
        OBVIOUS
      <4> HIDE DEF Is
      <4> QED
        BY <2>2, <3>1, <4>1, LastIsLast
    <3>3. \A i \in Is : s[i].day <= s[g].day
      BY <1>3, <2>2, GoverningFacts, <3>1, <3>2, <1>2 DEF Earlier
    <3>4. g \in It
      BY <1>5, <3>2
    <3>5. \A j \in It \ {g} : Earlier(t, j, g)
      <4>1. ASSUME NEW j \in It \ {g}
            PROVE  Earlier(t, j, g)
        <5>1. CASE j = n
          <6>1. e.day < s[g].day
            BY <1>2, <1>3, <1>4, <3>2, <3>3, <5>1
          <6> QED
            BY <1>1, <3>2, <5>1, <6>1 DEF Earlier
        <5>2. CASE j # n
          <6>1. j \in Is \ {g}
            BY <1>1, <1>5, <4>1, <5>2
          <6> QED
            BY <1>1, <3>2, <6>1 DEF Earlier
        <5> QED
          BY <5>1, <5>2
      <4> QED
        BY <4>1
    <3>6. LastOf(t, It) = g
      <4>1. It \in SUBSET DOMAIN t
        OBVIOUS
      <4> HIDE DEF It
      <4> QED
        BY <1>1, <3>4, <3>5, <4>1, LastIsLast
    <3>7. GoverningOn(t, d) = LastOf(t, It)
      BY <3>4 DEF GoverningOn
    <3> QED
      BY <3>2, <3>6, <3>7
  <2> QED
    BY <2>1, <2>2
<1>8. g # 0 => t[g] = s[g]
  BY <1>1, <1>7
<1>9. StoodOn(t, o.equity, d) = StoodOn(s, o.equity, d)
  BY <1>7, <1>8 DEF StoodOn, g
<1>10. [m \in Movements |-> Since(t, mvs[m], a, d)] = [m \in Movements |-> Since(s, mvs[m], a, d)]
  BY <1>6
<1> QED
  BY <1>9, <1>10 DEF ReadsOn, t

\* Only a true-up lengthens a history.
LEMMA OnlyTrueUpAsserts ==
    ASSUME FactsTypeOK, [Next]_vars, NEW a \in Accounts, Len(said'[a]) = Len(said[a]) + 1
    PROVE  \E d \in Days, v \in Balances : TrueUp(a, d, v)
<1>1. said' # said
  <2>1. Len(said[a]) \in Nat
    BY HistoryFacts DEF FactsTypeOK
  <2> QED
    BY <2>1
<1>2. ASSUME NEW m \in Movements, MovementDoor(m)
      PROVE  said' = said
  BY <1>2 DEF MovementDoor, Settle, RePoint, Redate, Revert, CorrectAmount, MoveRow,
              Delete, Tick, Save
<1>3. ASSUME NEW b \in Accounts, NEW d \in Days, NEW v \in Equities, RestateOpening(b, d, v)
      PROVE  said' = said
  BY <1>3 DEF RestateOpening
<1>4. Deploy \/ UNCHANGED vars => said' = said
  BY DEF Deploy, vars, rows
<1>5. PICK b \in Accounts, d \in Days, v \in Balances : TrueUp(b, d, v)
  BY <1>1, <1>2, <1>3, <1>4 DEF Next, AccountDoor
<1>6. b = a
  <2>1. said' = [said EXCEPT ![b] = Append(@, [day |-> d, bal |-> v])]
    BY <1>5 DEF TrueUp
  <2>2. Len(said[a]) \in Nat /\ said \in [Accounts -> Seq(Assertion)]
    BY HistoryFacts DEF FactsTypeOK
  <2>3. CASE b # a
    <3>1. said'[a] = said[a]
      BY <2>1, <2>2, <2>3
    <3> QED
      BY <2>2, <3>1
  <2> QED
    BY <2>3
<1> QED
  BY <1>5, <1>6

\* A new assertion of an account changes what its ledger reads only from its
\* own day to the day before the next assertion (walk_account_ledger): a
\* back-dated balance rewrites no day before it and nothing asserted later.
THEOREM TrueUpsLocal == Spec => TrueUpMovesOnlyItsSpan
<1>1. CorrectionsInv' => (\A a \in Accounts \ vacated : \A d \in Days :
                             LedgerBalance(a, d) = ReadsOn(mv, said[a], open[a], a, d))'
  BY BalanceReads, PTL
<1>2. ASSUME CorrectionsInv, [Next]_vars
      PROVE  \A a \in Accounts \ vacated : \A d \in Days :
                 LET n == Len(said'[a])
                     D == said'[a][n].day
                     later == {i \in DOMAIN said[a] : said[a][i].day > D}
                 IN /\ n = Len(said[a]) + 1
                    /\ d < D \/ \E i \in later : said[a][i].day <= d
                    => LedgerBalance(a, d)' = LedgerBalance(a, d)
  <2>1. SUFFICES ASSUME NEW a \in Accounts \ vacated, NEW d \in Days,
                        Len(said'[a]) = Len(said[a]) + 1,
                        \/ d < said'[a][Len(said'[a])].day
                        \/ \E i \in DOMAIN said[a] : /\ said[a][i].day > said'[a][Len(said'[a])].day
                                                     /\ said[a][i].day <= d
                 PROVE  LedgerBalance(a, d)' = LedgerBalance(a, d)
    OBVIOUS
  <2>2. CorrectionsInv'
    BY <1>2, NextCorrects
  <2>3. FactsTypeOK
    BY <1>2 DEF CorrectionsInv, BooksInv
  <2>4. PICK D \in Days, v \in Balances : TrueUp(a, D, v)
    BY <1>2, <2>1, <2>3, OnlyTrueUpAsserts
  <2> DEFINE e == [day |-> D, bal |-> v]
             s == said[a]
  <2>5. /\ said' = [said EXCEPT ![a] = Append(@, e)] /\ mv' = mv /\ open' = open
        /\ vacated' = (vacated \cup {}) \ {a}
    BY <2>4 DEF TrueUp, SyncAnchors
  <2>6. said'[a] = Append(s, e) /\ a \in Accounts \ vacated'
    BY <2>3, <2>5 DEF FactsTypeOK
  <2>7. s \in Seq(Assertion) /\ e \in Assertion /\ mv \in [Movements -> Row]
    BY <2>3 DEF FactsTypeOK, Assertion
  <2>8. said'[a][Len(said'[a])] = e
    BY <2>6, <2>7
  <2>9. d < e.day \/ \E i \in DOMAIN s : s[i].day > e.day /\ s[i].day <= d
    BY <2>1, <2>8
  <2>10. LedgerBalance(a, d) = ReadsOn(mv, s, open[a], a, d)
    BY <1>2, BalanceReads
  <2>11. LedgerBalance(a, d)' = ReadsOn(mv', said'[a], open'[a], a, d)
    BY <1>1, <2>2, <2>6
  <2> HIDE DEF e, s
  <2>12. ReadsOn(mv, Append(s, e), open[a], a, d) = ReadsOn(mv, s, open[a], a, d)
    BY <2>7, <2>9, AppendReads
  <2> QED
    BY <2>5, <2>6, <2>10, <2>11, <2>12
<1> QED
  BY <1>2, CorrectionsInvariant, PTL DEF Spec, TrueUpMovesOnlyItsSpan
=============================================================================
