------------------------ MODULE CreditPaybackProofs ------------------------
(***************************************************************************)
(* Theorems of CreditPayback, for every number of envelopes, bills,        *)
(* paybacks and purchases: its invariants, that a paid card debt is        *)
(* closed, and that it implements CardDebt.                                *)
(***************************************************************************)
EXTENDS CreditPayback, SumsProofs

(***************************************************************************)
(* The inductive invariant.                                                *)
(***************************************************************************)

\* The rows, their paybacks and their purchases exist together.
RowsAgree ==
    /\ \A r \in Envelopes : status[r] # "credit"
    /\ \A p \in Paybacks : status[p] = "gone" <=> repays[p] = NoRow
    /\ \A p \in Paybacks : repays[p] # NoRow => status[repays[p]] # "gone"
    /\ \A p, q \in Paybacks : repays[p] # NoRow /\ repays[p] = repays[q] => p = q
    /\ \A e \in Purchases :
          bought[e].row # NoRow => /\ bought[e].row \in Envelopes
                                   /\ status[bought[e].row] # "gone"
    /\ \A x \in Rows : stated[x] => record[x] # NoFigure

IInv ==
    /\ TypeOK
    /\ RowsAgree
    /\ CardSpendIsRepaid
    /\ LinksFollowThePayback
    /\ PaidFigureIsThePlan

(***************************************************************************)
(* Card totals.                                                            *)
(***************************************************************************)

\* A card total is an integer, and zero where nothing is on the card.
LEMMA TotalTyped ==
    ASSUME NEW b \in [Purchases -> PurchaseRows], NEW r \in Rows
    PROVE  /\ CardTotal(b, r) \in Int
           /\ CardPurchases(b, r) = {} => CardTotal(b, r) = 0
<1> DEFINE S == CardPurchases(b, r)
           f == [e \in S |-> b[e].amount]
<1>1. S \in SUBSET Purchases
  BY DEF CardPurchases, PurchasesOf
<1>2. ASSUME NEW e \in S PROVE b[e].amount \in Amounts
  BY RowsAssumption DEF CardPurchases, PurchasesOf, PurchaseRows, Absent, Rows
<1>3. f \in [S -> Amounts]
  BY <1>2
<1> HIDE DEF S
<1>4. \A e \in S : f[e] \in Int
  BY <1>2, FiguresAssumption
<1>5. DOMAIN f = S /\ IsFiniteSet(S)
  BY <1>1, PurchasesAssumption, FS_Subset
<1> HIDE DEF f
<1>6. SumFunctionOnSet(f, S) \in Int
  BY <1>4, <1>5, SumInt
<1>7. S = {} => SumFunctionOnSet(f, S) = 0
  BY SumEmpty
<1>8. CardTotal(b, r) = SumFunctionOnSet(f, S)
  BY <1>5 DEF CardTotal, SumFunction, f, S
<1> QED
  BY <1>6, <1>7, <1>8 DEF S

\* A card total reads the card purchases of its row and nothing else.
LEMMA SameTotal ==
    ASSUME NEW b, NEW c, NEW r,
           \A e \in Purchases : (b[e].row = r /\ b[e].card) <=> (c[e].row = r /\ c[e].card),
           \A e \in Purchases : b[e].row = r /\ b[e].card => b[e].amount = c[e].amount
    PROVE  CardTotal(b, r) = CardTotal(c, r)
<1>1. CardPurchases(b, r) = CardPurchases(c, r)
  BY DEF CardPurchases, PurchasesOf
<1>2. [e \in CardPurchases(b, r) |-> b[e].amount] = [e \in CardPurchases(c, r) |-> c[e].amount]
  BY <1>1 DEF CardPurchases, PurchasesOf
<1> QED
  BY <1>2 DEF CardTotal


(***************************************************************************)
(* The sync.                                                               *)
(***************************************************************************)

\* What a purchase door of row r hands the sync: b differs from the purchases
\* only at purchases of r, and a link in it is one that was there.
Edited(r, b) ==
    /\ r \in Envelopes /\ status[r] # "gone"
    /\ b \in [Purchases -> PurchaseRows]
    /\ \A e \in Purchases :
          \/ b[e] = bought[e]
          \/ /\ b[e].row \in {r, NoRow} /\ bought[e].row \in {r, NoRow}
             /\ b[e].link # NoRow => /\ b[e].link = bought[e].link
                                     /\ b[e].row = bought[e].row

\* A link of an edited purchase is to a live payback of its row.
LEMMA EditedLinks ==
    ASSUME IInv, NEW r, NEW b, Edited(r, b),
           NEW e \in Purchases, b[e].link # NoRow
    PROVE  b[e].link \in Paybacks /\ repays[b[e].link] = b[e].row
BY RowsAssumption DEF IInv, TypeOK, LinksFollowThePayback, Edited, PurchaseRows, Absent

\* Re-linking moves no total: r's is the edited one and the others stand.
LEMMA Totals ==
    ASSUME IInv, NEW r, NEW b, Edited(r, b), NEW c,
           \A e \in Purchases : /\ c[e].row = b[e].row
                                /\ c[e].amount = b[e].amount
                                /\ c[e].card = b[e].card
    PROVE  /\ CardTotal(c, r) = CardTotal(b, r)
           /\ \A x \in Rows \ {r} : CardTotal(c, x) = CardTotal(bought, x)
<1>1. CardTotal(c, r) = CardTotal(b, r)
  BY SameTotal
<1>2. ASSUME NEW x \in Rows \ {r} PROVE CardTotal(c, x) = CardTotal(bought, x)
  <2>1. \A e \in Purchases : c[e].row = x \/ bought[e].row = x => b[e] = bought[e]
    BY <1>2, RowsAssumption DEF Edited, Rows, Sources
  <2> QED
    BY <2>1, SameTotal
<1> QED
  BY <1>1, <1>2

\* Linked and Unlinked are such re-linkings, of purchases to purchases.
SameButLinks(c, b) ==
    /\ c \in [Purchases -> PurchaseRows]
    /\ \A e \in Purchases : /\ c[e].row = b[e].row
                            /\ c[e].amount = b[e].amount
                            /\ c[e].card = b[e].card

LEMMA LinkedRelinks ==
    ASSUME NEW b \in [Purchases -> PurchaseRows], NEW r \in Sources, NEW p \in Paybacks
    PROVE  SameButLinks(Linked(b, r, p), b)
<1>1. ASSUME NEW e \in Purchases PROVE b[e] \in PurchaseRows
  OBVIOUS
<1> QED
  BY <1>1, RowsAssumption DEF SameButLinks, Linked, PurchaseRows, Absent, Sources

LEMMA UnlinkedRelinks ==
    ASSUME NEW b \in [Purchases -> PurchaseRows], NEW ps \in SUBSET Paybacks
    PROVE  SameButLinks(Unlinked(b, ps), b)
<1>1. ASSUME NEW e \in Purchases PROVE b[e] \in PurchaseRows
  OBVIOUS
<1> QED
  BY <1>1, RowsAssumption DEF SameButLinks, Unlinked, PurchaseRows, Absent, Sources

\* What every arm of the sync needs of the row that was edited.
LEMMA SyncedRow ==
    ASSUME IInv, NEW r, NEW b, Edited(r, b)
    PROVE  /\ r \in Rows /\ r \in Sources /\ r # NoRow /\ r \notin Paybacks
           /\ status[r] # "credit"
           /\ CardTotal(b, r) \in Int /\ CardTotal(bought, r) \in Int
           /\ b \in [Purchases -> PurchaseRows]
           /\ \A p, q \in LivePaybacks(r) : p = q
<1>1. r \in Rows /\ r \in Sources /\ r # NoRow /\ r \notin Paybacks
  BY RowsAssumption DEF Edited, Rows, Sources
<1>2. CardTotal(b, r) \in Int /\ CardTotal(bought, r) \in Int
  BY <1>1, TotalTyped DEF Edited, IInv, TypeOK
<1> QED
  BY <1>1, <1>2 DEF Edited, IInv, RowsAgree, LivePaybacks

LEMMA SyncCreatesKeeps ==
    ASSUME IInv, NEW r, NEW b, Edited(r, b), SyncCreates(r, b)
    PROVE  IInv'
<1>0. /\ r \in Rows /\ r \in Sources /\ r # NoRow /\ r \notin Paybacks
      /\ b \in [Purchases -> PurchaseRows]
  BY SyncedRow
<1>1. PICK p \in Free : /\ Open(p, r, CardTotal(b, r), status)
                        /\ bought' = Linked(b, r, p)
  BY DEF SyncCreates
<1>2. /\ p \in Paybacks /\ repays[p] = NoRow /\ p \in Rows /\ p # r
      /\ status[p] = "gone" /\ LivePaybacks(r) = {}
      /\ CardTotal(b, r) > 0 /\ CardTotal(b, r) \in Nat
  BY <1>1, SyncedRow DEF Free, SyncCreates, Rows, IInv, RowsAgree
<1>3. /\ bought' \in [Purchases -> PurchaseRows]
      /\ \A e \in Purchases : /\ bought'[e].row = b[e].row
                              /\ bought'[e].amount = b[e].amount
                              /\ bought'[e].card = b[e].card
  BY <1>0, <1>1, <1>2, LinkedRelinks DEF SameButLinks
<1>4. TypeOK'
  BY <1>1, <1>2, <1>3, SyncedRow DEF IInv, TypeOK, Open, Statuses
<1>5. RowsAgree'
  <2>1. ASSUME NEW e \in Purchases, bought'[e].row # NoRow
        PROVE  bought'[e].row \in Envelopes /\ status'[bought'[e].row] # "gone"
    <3>1. bought'[e].row = r \/ bought'[e].row = bought[e].row
      BY <1>3, <2>1 DEF Edited
    <3>2. r \in Envelopes /\ status[r] # "gone"
      BY DEF Edited
    <3> QED
      BY <1>1, <1>2, <2>1, <3>1, <3>2, RowsAssumption
         DEF IInv, TypeOK, RowsAgree, Open, Sources
  <2>2. /\ \A q \in Paybacks : status'[q] = "gone" <=> repays'[q] = NoRow
        /\ \A q \in Paybacks : repays'[q] # NoRow => status'[repays'[q]] # "gone"
    BY <1>0, <1>1, <1>2 DEF IInv, TypeOK, RowsAgree, Open, Edited, Rows
  <2>3. \A q, s \in Paybacks : repays'[q] # NoRow /\ repays'[q] = repays'[s] => q = s
    BY <1>0, <1>1, <1>2 DEF IInv, TypeOK, RowsAgree, Open, LivePaybacks
  <2>4. \A x \in Envelopes : status'[x] # "credit"
    BY <1>1, <1>2, RowsAssumption DEF IInv, TypeOK, RowsAgree, Open, Rows, Sources
  <2>5. /\ \A x \in Rows : stated'[x] => record'[x] # NoFigure
    BY <1>1 DEF IInv, RowsAgree, Open
  <2> QED
    BY <2>1, <2>2, <2>3, <2>4, <2>5 DEF RowsAgree
<1>6. CardSpendIsRepaid'
  <2>1. ASSUME NEW x \in Rows, status'[x] # "credit"
        PROVE  /\ CardTotal(bought', x) >= 0
               /\ \A q \in LivePaybacks(x)' : plan'[q] = CardTotal(bought', x)
               /\ CardTotal(bought', x) > 0 <=> LivePaybacks(x)' # {}
               /\ \A q, s \in LivePaybacks(x)' : q = s
    <3>1. CASE x = r
      <4>1. LivePaybacks(x)' = {p}
        BY <1>1, <1>2, <3>1 DEF Open, LivePaybacks, IInv, TypeOK
      <4>2. CardTotal(bought', x) = CardTotal(b, r)
        BY <1>3, <3>1, Totals
      <4> QED
        BY <1>1, <1>2, <4>1, <4>2 DEF Open, IInv, TypeOK
    <3>2. CASE x = p
      <4>1. CardPurchases(bought', x) = {}
        BY <1>2, <1>3, <3>2, RowsAssumption
           DEF CardPurchases, PurchasesOf, IInv, RowsAgree, Edited, Sources
      <4>2. LivePaybacks(x)' = {}
        BY <1>0, <1>1, <1>2, <3>2, RowsAssumption
           DEF Open, LivePaybacks, IInv, TypeOK, RowsAgree, Sources
      <4> QED
        BY <1>3, <4>1, <4>2, TotalTyped
    <3>3. CASE x # r /\ x # p
      <4>1. CardTotal(bought', x) = CardTotal(bought, x)
        BY <1>3, <3>3, Totals
      <4>2. LivePaybacks(x)' = LivePaybacks(x) /\ p \notin LivePaybacks(x)
        BY <1>1, <1>2, <3>3, RowsAssumption
           DEF Open, LivePaybacks, IInv, TypeOK, Rows, Sources
      <4> QED
        BY <1>1, <2>1, <3>3, <4>1, <4>2
           DEF Open, LivePaybacks, IInv, TypeOK, CardSpendIsRepaid, Rows
    <3> QED
      BY <3>1, <3>2, <3>3
  <2> QED
    BY <2>1 DEF CardSpendIsRepaid
<1>7. LinksFollowThePayback'
  <2>1. ASSUME NEW e \in Purchases, NEW q \in Paybacks
        PROVE  bought'[e].link = q <=> bought'[e].card /\ repays'[q] = bought'[e].row
    BY <1>1, <1>2, <1>3, EditedLinks, SyncedRow, RowsAssumption
       DEF Linked, Open, IInv, TypeOK, LinksFollowThePayback, Edited, PurchaseRows,
           Absent, LivePaybacks, Rows, Sources
  <2> QED
    BY <2>1 DEF LinksFollowThePayback
<1>8. PaidFigureIsThePlan'
  BY <1>1, <1>2 DEF Open, IInv, TypeOK, PaidFigureIsThePlan, Settled, Rows
<1> QED
  BY <1>4, <1>5, <1>6, <1>7, <1>8 DEF IInv

LEMMA SyncRepricesKeeps ==
    ASSUME IInv, NEW r, NEW b, Edited(r, b), NEW moves,
           SyncReprices(r, b, moves),
           moves \/ CardTotal(b, r) = CardTotal(bought, r)
    PROVE  IInv'
<1>0. /\ r \in Rows /\ r \in Sources /\ r # NoRow /\ r \notin Paybacks
      /\ b \in [Purchases -> PurchaseRows] /\ r \in Envelopes
      /\ status[r] # "gone" /\ status[r] # "credit"
  BY SyncedRow DEF Edited
<1>1. PICK p \in LivePaybacks(r) :
         /\ moves /\ Settled(p) => SettledFigure(p) = CardTotal(b, r)
         /\ plan' = [plan EXCEPT ![p] = CardTotal(b, r)]
         /\ bought' = Linked(b, r, p)
  BY DEF SyncReprices
<1>2. /\ p \in Paybacks /\ repays[p] = r /\ p \in Rows /\ p # r
      /\ CardTotal(b, r) > 0 /\ CardTotal(b, r) \in Nat
      /\ LivePaybacks(r) = {p}
      /\ UNCHANGED <<status, record, stated, repays>>
  BY <1>0, <1>1, SyncedRow DEF LivePaybacks, SyncReprices, Rows
<1>3. /\ bought' \in [Purchases -> PurchaseRows]
      /\ \A e \in Purchases : /\ bought'[e].row = b[e].row
                              /\ bought'[e].amount = b[e].amount
                              /\ bought'[e].card = b[e].card
  BY <1>0, <1>1, <1>2, LinkedRelinks DEF SameButLinks
<1>4. TypeOK'
  BY <1>1, <1>2, <1>3 DEF IInv, TypeOK
<1>5. RowsAgree'
  <2>1. ASSUME NEW e \in Purchases, bought'[e].row # NoRow
        PROVE  bought'[e].row \in Envelopes /\ status'[bought'[e].row] # "gone"
    BY <1>0, <1>2, <1>3, <2>1 DEF Edited, IInv, RowsAgree
  <2> QED
    BY <1>2, <2>1 DEF IInv, RowsAgree
<1>6. CardSpendIsRepaid'
  <2>1. ASSUME NEW x \in Rows, status'[x] # "credit"
        PROVE  /\ CardTotal(bought', x) >= 0
               /\ \A q \in LivePaybacks(x)' : plan'[q] = CardTotal(bought', x)
               /\ CardTotal(bought', x) > 0 <=> LivePaybacks(x)' # {}
               /\ \A q, s \in LivePaybacks(x)' : q = s
    <3>0. LivePaybacks(x)' = LivePaybacks(x)
      BY <1>2 DEF LivePaybacks
    <3>1. CASE x = r
      <4>1. CardTotal(bought', x) = CardTotal(b, r)
        BY <1>3, <3>1, Totals
      <4> QED
        BY <1>1, <1>2, <3>0, <3>1, <4>1 DEF IInv, TypeOK
    <3>2. CASE x # r
      <4>1. CardTotal(bought', x) = CardTotal(bought, x)
        BY <1>3, <3>2, Totals
      <4>2. p \notin LivePaybacks(x)
        BY <1>2, <3>2 DEF LivePaybacks
      <4>3. \A q \in LivePaybacks(x) : plan'[q] = plan[q]
        BY <1>1, <1>2, <4>2 DEF LivePaybacks, IInv, TypeOK, Rows
      <4> QED
        BY <1>2, <2>1, <3>0, <4>1, <4>3 DEF IInv, CardSpendIsRepaid
    <3> QED
      BY <3>1, <3>2
  <2> QED
    BY <2>1 DEF CardSpendIsRepaid
<1>7. LinksFollowThePayback'
  <2>1. ASSUME NEW e \in Purchases, NEW q \in Paybacks
        PROVE  bought'[e].link = q <=> bought'[e].card /\ repays'[q] = bought'[e].row
    <3>1. b[e].link # NoRow => b[e].link \in Paybacks /\ repays[b[e].link] = b[e].row
      BY EditedLinks
    <3>2. CASE b[e].row = r
      <4>1. bought'[e].link = (IF b[e].card THEN p
                               ELSE IF b[e].link = p THEN NoRow ELSE b[e].link)
        BY <1>0, <1>1, <3>2, RowsAssumption DEF Linked, PurchaseRows, Absent, Sources
      <4>2. repays[q] = r <=> q = p
        BY <1>2 DEF LivePaybacks
      <4> QED
        BY <1>2, <1>3, <3>1, <3>2, <4>1, <4>2, RowsAssumption
    <3>3. CASE b[e].row # r
      <4>1. bought'[e] = b[e]
        BY <1>1, <3>3 DEF Linked
      <4>2. CASE b[e] = bought[e]
        BY <1>2, <4>1, <4>2 DEF IInv, LinksFollowThePayback
      <4>3. CASE b[e].row = NoRow
        BY <1>0, <1>2, <4>1, <4>3, <3>1, RowsAssumption
           DEF IInv, TypeOK, PurchaseRows, Absent, Sources
      <4> QED
        BY <3>3, <4>2, <4>3 DEF Edited
    <3> QED
      BY <3>2, <3>3
  <2> QED
    BY <2>1 DEF LinksFollowThePayback
<1>8. PaidFigureIsThePlan'
  <2>1. CASE CardTotal(b, r) = CardTotal(bought, r)
    <3>1. plan[p] = CardTotal(bought, r)
      BY <1>0, <1>1 DEF IInv, CardSpendIsRepaid
    <3>2. plan' = plan
      BY <1>1, <1>2, <2>1, <3>1 DEF IInv, TypeOK
    <3> QED
      BY <1>2, <3>2 DEF IInv, PaidFigureIsThePlan, Settled
  <2>2. CASE moves
    BY <1>1, <1>2, <2>2 DEF IInv, TypeOK, PaidFigureIsThePlan, Settled, SettledFigure, Rows
  <2> QED
    BY <2>1, <2>2
<1> QED
  BY <1>4, <1>5, <1>6, <1>7, <1>8 DEF IInv

LEMMA SyncDeletesKeeps ==
    ASSUME IInv, NEW r, NEW b, Edited(r, b), SyncDeletes(r, b)
    PROVE  IInv'
<1>0. /\ r \in Rows /\ r \in Sources /\ r # NoRow /\ r \notin Paybacks
      /\ b \in [Purchases -> PurchaseRows] /\ r \in Envelopes
      /\ status[r] # "gone" /\ status[r] # "credit"
  BY SyncedRow DEF Edited
<1>1. PICK p \in LivePaybacks(r) : Erase({p}, status) /\ bought' = Unlinked(b, {p})
  BY DEF SyncDeletes
<1>2. /\ p \in Paybacks /\ repays[p] = r /\ p \in Rows /\ p # r /\ p # NoRow
      /\ CardTotal(b, r) = 0 /\ LivePaybacks(r) = {p} /\ LivePaybacks(p) = {}
  BY <1>0, <1>1, SyncedRow, RowsAssumption DEF LivePaybacks, SyncDeletes, Rows, Erase
<1>3. /\ bought' \in [Purchases -> PurchaseRows]
      /\ \A e \in Purchases : /\ bought'[e].row = b[e].row
                              /\ bought'[e].amount = b[e].amount
                              /\ bought'[e].card = b[e].card
  BY <1>0, <1>1, <1>2, UnlinkedRelinks DEF SameButLinks
<1>4. /\ repays' = [repays EXCEPT ![p] = NoRow]
      /\ status' = [status EXCEPT ![p] = "gone"]
      /\ plan' = [plan EXCEPT ![p] = 0]
      /\ record' = [record EXCEPT ![p] = NoFigure]
      /\ stated' = [stated EXCEPT ![p] = FALSE]
  BY <1>1, <1>2 DEF Erase, IInv, TypeOK
<1>5. TypeOK'
  BY <1>2, <1>3, <1>4 DEF IInv, TypeOK, Statuses
<1>6. RowsAgree'
  <2>1. ASSUME NEW e \in Purchases, bought'[e].row # NoRow
        PROVE  bought'[e].row \in Envelopes /\ status'[bought'[e].row] # "gone"
    <3>1. bought'[e].row \in Envelopes /\ status[bought'[e].row] # "gone"
      BY <1>0, <1>3, <2>1 DEF Edited, IInv, RowsAgree
    <3> QED
      BY <1>2, <1>4, <3>1, RowsAssumption DEF IInv, TypeOK, Rows, Sources
  <2>2. \A q \in Paybacks : repays'[q] # NoRow => repays'[q] = repays[q] /\ repays[q] # p
    BY <1>2, <1>4 DEF IInv, TypeOK, LivePaybacks
  <2>3. \A q \in Paybacks : repays'[q] # NoRow => status'[repays'[q]] # "gone"
    BY <1>4, <2>2 DEF IInv, TypeOK, RowsAgree
  <2>4. \A q, s \in Paybacks : repays'[q] # NoRow /\ repays'[q] = repays'[s] => q = s
    BY <2>2 DEF IInv, RowsAgree
  <2>5. /\ \A x \in Envelopes : status'[x] # "credit"
        /\ \A q \in Paybacks : status'[q] = "gone" <=> repays'[q] = NoRow
        /\ \A x \in Rows : stated'[x] => record'[x] # NoFigure
    BY <1>2, <1>4 DEF IInv, TypeOK, RowsAgree, Rows, Sources
  <2> QED
    BY <2>1, <2>3, <2>4, <2>5 DEF RowsAgree
<1>7. CardSpendIsRepaid'
  <2>1. ASSUME NEW x \in Rows, status'[x] # "credit"
        PROVE  /\ CardTotal(bought', x) >= 0
               /\ \A q \in LivePaybacks(x)' : plan'[q] = CardTotal(bought', x)
               /\ CardTotal(bought', x) > 0 <=> LivePaybacks(x)' # {}
               /\ \A q, s \in LivePaybacks(x)' : q = s
    <3>0. LivePaybacks(x)' = LivePaybacks(x) \ {p}
      BY <1>2, <1>4, RowsAssumption DEF LivePaybacks, IInv, TypeOK, Rows, Sources
    <3>1. CASE x = r
      <4>1. CardTotal(bought', x) = 0
        BY <1>2, <1>3, <3>1, Totals
      <4> QED
        BY <1>2, <3>0, <3>1, <4>1
    <3>2. CASE x = p
      <4>1. CardPurchases(bought', x) = {}
        BY <1>2, <1>3, <3>2, RowsAssumption
           DEF CardPurchases, PurchasesOf, IInv, RowsAgree, Edited, Sources
      <4> QED
        BY <1>2, <1>3, <3>0, <3>2, <4>1, TotalTyped
    <3>3. CASE x # r /\ x # p
      <4>1. CardTotal(bought', x) = CardTotal(bought, x)
        BY <1>3, <3>3, Totals
      <4>2. LivePaybacks(x)' = LivePaybacks(x) /\ p \notin LivePaybacks(x)
        BY <1>2, <3>0, <3>3 DEF LivePaybacks
      <4>3. \A q \in LivePaybacks(x) : plan'[q] = plan[q]
        BY <1>2, <1>4, <4>2 DEF LivePaybacks, IInv, TypeOK, Rows
      <4> QED
        BY <1>4, <2>1, <3>3, <4>1, <4>2, <4>3 DEF IInv, TypeOK, CardSpendIsRepaid
    <3> QED
      BY <3>1, <3>2, <3>3
  <2> QED
    BY <2>1 DEF CardSpendIsRepaid
<1>8. LinksFollowThePayback'
  <2>1. ASSUME NEW e \in Purchases, NEW q \in Paybacks
        PROVE  bought'[e].link = q <=> bought'[e].card /\ repays'[q] = bought'[e].row
    <3>1. b[e].link # NoRow => b[e].link \in Paybacks /\ repays[b[e].link] = b[e].row
      BY EditedLinks
    <3>2. bought'[e].link = (IF b[e].link = p THEN NoRow ELSE b[e].link)
      BY <1>0, <1>1, RowsAssumption DEF Unlinked, PurchaseRows, Absent
    <3>3. CASE b[e].row = r
      <4>1. bought'[e].link = NoRow
        BY <1>2, <3>1, <3>2, <3>3 DEF LivePaybacks
      <4>2. repays'[q] # r
        BY <1>0, <1>2, <1>4 DEF LivePaybacks, IInv, TypeOK
      <4> QED
        BY <1>3, <3>3, <4>1, <4>2, RowsAssumption
    <3>4. CASE b[e] = bought[e] /\ b[e].row # r
      BY <1>0, <1>2, <1>3, <1>4, <3>1, <3>2, <3>4, RowsAssumption
         DEF IInv, TypeOK, LinksFollowThePayback, PurchaseRows, Absent, Sources
    <3>5. CASE b[e].row = NoRow
      BY <1>0, <1>2, <1>3, <1>4, <3>1, <3>2, <3>5, RowsAssumption
         DEF PurchaseRows, Absent, Sources
    <3> QED
      BY <3>3, <3>4, <3>5 DEF Edited
  <2> QED
    BY <2>1 DEF LinksFollowThePayback
<1>9. PaidFigureIsThePlan'
  BY <1>2, <1>4 DEF IInv, TypeOK, PaidFigureIsThePlan, Settled, Rows
<1> QED
  BY <1>5, <1>6, <1>7, <1>8, <1>9 DEF IInv

LEMMA SyncKeeps ==
    ASSUME IInv, NEW r, NEW b, Edited(r, b), NEW moves, Sync(r, b, moves),
           moves \/ CardTotal(b, r) = CardTotal(bought, r)
    PROVE  IInv'
<1>1. CASE SyncHasNothingToDo(r, b)
  <2>1. SameButLinks(bought', b) /\ bought' = b
    BY <1>1 DEF SyncHasNothingToDo, SameButLinks, Edited
  <2>2. /\ CardTotal(bought', r) = 0 /\ LivePaybacks(r) = {}
        /\ \A x \in Rows \ {r} : CardTotal(bought', x) = CardTotal(bought, x)
    BY <1>1, <2>1, Totals DEF SyncHasNothingToDo, SameButLinks
  <2>3. UNCHANGED money
    BY <1>1 DEF SyncHasNothingToDo, Sync
  <2>4. TypeOK'
    BY <2>1, <2>3 DEF IInv, TypeOK, money, SameButLinks
  <2>5. RowsAgree'
    BY <2>1, <2>3 DEF IInv, RowsAgree, money, Edited
  <2>6. CardSpendIsRepaid'
    BY <2>2, <2>3 DEF IInv, CardSpendIsRepaid, money, LivePaybacks
  <2>7. LinksFollowThePayback'
    <3>1. ASSUME NEW e \in Purchases, NEW q \in Paybacks
          PROVE  b[e].link = q <=> b[e].card /\ repays[q] = b[e].row
      <4>1. b[e].link # NoRow => b[e].link \in Paybacks /\ repays[b[e].link] = b[e].row
        BY EditedLinks
      <4>2. CASE b[e] = bought[e]
        BY <4>2 DEF IInv, LinksFollowThePayback
      <4>3. CASE b[e].row = r
        BY <2>2, <4>1, <4>3, RowsAssumption DEF LivePaybacks
      <4>4. CASE b[e].row = NoRow
        <5>1. b[e] = Absent
          BY <2>1, <4>4, RowsAssumption DEF SameButLinks, PurchaseRows, Sources
        <5> QED
          BY <5>1, RowsAssumption DEF Absent
      <4> QED
        BY <4>2, <4>3, <4>4 DEF Edited
    <3> QED
      BY <2>1, <2>3, <3>1 DEF LinksFollowThePayback, money
  <2>8. PaidFigureIsThePlan'
    BY <2>3 DEF IInv, PaidFigureIsThePlan, money, Settled
  <2> QED
    BY <2>4, <2>5, <2>6, <2>7, <2>8 DEF IInv
<1> QED
  BY <1>1, SyncCreatesKeeps, SyncRepricesKeeps, SyncDeletesKeeps DEF Sync

(***************************************************************************)
(* Purchase doors.                                                         *)
(***************************************************************************)

\* A door ends in the sync of row r, told whether r's card total moves.
Synced(r) ==
    \E b, moves : /\ Edited(r, b) /\ Sync(r, b, moves)
                  /\ moves \/ CardTotal(b, r) = CardTotal(bought, r)

LEMMA AddPurchaseSyncs ==
    ASSUME IInv, NEW e \in Purchases, NEW r \in Sources, NEW a \in Amounts,
           NEW c \in BOOLEAN, AddPurchase(e, r, a, c)
    PROVE  Synced(r)
<1> DEFINE b == [bought EXCEPT ![e] = Purchase(r, a, c)]
<1>1. bought \in [Purchases -> PurchaseRows] /\ bought[e] = Absent
  BY DEF IInv, TypeOK, AddPurchase
<1>2. Purchase(r, a, c) \in PurchaseRows
  BY DEF Purchase, PurchaseRows
<1>3. r \in Envelopes /\ status[r] # "gone"
  BY DEF AddPurchase, IInv, RowsAgree, Rows
<1>4. /\ b \in [Purchases -> PurchaseRows]
      /\ b[e].row = r /\ b[e].card = c /\ b[e].link = NoRow
      /\ bought[e].row = NoRow /\ bought[e].card = FALSE
      /\ \A d \in Purchases \ {e} : b[d] = bought[d]
  BY <1>1, <1>2 DEF Purchase, Absent
<1>5. Edited(r, b)
  BY <1>3, <1>4 DEF Edited
<1>6. c \/ CardTotal(b, r) = CardTotal(bought, r)
  <2> HIDE DEF b
  <2> SUFFICES ASSUME ~c PROVE CardTotal(b, r) = CardTotal(bought, r)
    OBVIOUS
  <2>1. \A d \in Purchases : (b[d].row = r /\ b[d].card) <=> (bought[d].row = r /\ bought[d].card)
    BY <1>4
  <2>2. \A d \in Purchases : b[d].row = r /\ b[d].card => b[d].amount = bought[d].amount
    BY <1>4
  <2> QED
    BY <2>1, <2>2, SameTotal
<1> QED
  BY <1>5, <1>6 DEF AddPurchase, Synced

LEMMA EditPurchaseSyncs ==
    ASSUME IInv, NEW e \in Purchases, NEW a \in Amounts, NEW c \in BOOLEAN,
           EditPurchase(e, a, c)
    PROVE  Synced(bought[e].row)
<1> DEFINE b == [bought EXCEPT ![e].amount = a, ![e].card = c]
           r == bought[e].row
           before == IF bought[e].card THEN bought[e].amount ELSE 0
           after == IF c THEN a ELSE 0
<1>1. /\ bought \in [Purchases -> PurchaseRows] /\ bought[e] # Absent
      /\ bought[e] \in [row : Sources, amount : Amounts, card : BOOLEAN,
                         link : Paybacks \cup {NoRow}]
  BY DEF IInv, TypeOK, EditPurchase, PurchaseRows
<1>2. b[e] = [bought[e] EXCEPT !.amount = a, !.card = c]
  BY <1>1
<1>3. /\ b \in [Purchases -> PurchaseRows]
      /\ b[e].row = r /\ b[e].amount = a /\ b[e].card = c /\ b[e].link = bought[e].link
      /\ \A d \in Purchases \ {e} : b[d] = bought[d]
  BY <1>1, <1>2 DEF PurchaseRows
<1>4. r \in Envelopes /\ status[r] # "gone"
  BY <1>1, RowsAssumption DEF IInv, RowsAgree, Sources
<1>5. Edited(r, b)
  BY <1>1, <1>3, <1>4 DEF Edited
<1>6. before # after \/ CardTotal(b, r) = CardTotal(bought, r)
  <2> SUFFICES ASSUME before = after PROVE CardTotal(b, r) = CardTotal(bought, r)
    OBVIOUS
  <2>1. c = bought[e].card /\ (c => a = bought[e].amount)
    BY <1>1, FiguresAssumption
  <2> HIDE DEF b, r
  <2>2. \A d \in Purchases : (b[d].row = r /\ b[d].card) <=> (bought[d].row = r /\ bought[d].card)
    BY <1>3, <2>1 DEF r
  <2>3. \A d \in Purchases : b[d].row = r /\ b[d].card => b[d].amount = bought[d].amount
    BY <1>3, <2>1
  <2> QED
    BY <2>2, <2>3, SameTotal
<1> QED
  BY <1>5, <1>6 DEF EditPurchase, Synced

LEMMA RemovePurchaseSyncs ==
    ASSUME IInv, NEW e \in Purchases, RemovePurchase(e)
    PROVE  Synced(bought[e].row)
<1> DEFINE b == [bought EXCEPT ![e] = Absent]
           r == bought[e].row
<1>1. /\ bought \in [Purchases -> PurchaseRows] /\ bought[e] # Absent
      /\ bought[e] \in [row : Sources, amount : Amounts, card : BOOLEAN,
                         link : Paybacks \cup {NoRow}]
  BY DEF IInv, TypeOK, RemovePurchase, PurchaseRows
<1>2. r \in Envelopes /\ status[r] # "gone"
  BY <1>1, RowsAssumption DEF IInv, RowsAgree, Sources
<1>3. Edited(r, b)
  BY <1>1, <1>2 DEF Edited, PurchaseRows, Absent
<1>4. bought[e].card \/ CardTotal(b, r) = CardTotal(bought, r)
  <2> SUFFICES ASSUME ~bought[e].card PROVE CardTotal(b, r) = CardTotal(bought, r)
    OBVIOUS
  <2>1. b[e].card = FALSE /\ \A d \in Purchases \ {e} : b[d] = bought[d]
    BY <1>1 DEF Absent
  <2> HIDE DEF b, r
  <2>2. \A d \in Purchases : (b[d].row = r /\ b[d].card) <=> (bought[d].row = r /\ bought[d].card)
    BY <2>1
  <2>3. \A d \in Purchases : b[d].row = r /\ b[d].card => b[d].amount = bought[d].amount
    BY <2>1
  <2> QED
    BY <2>2, <2>3, SameTotal
<1> QED
  BY <1>3, <1>4 DEF RemovePurchase, Synced

\* Every purchase door ends in the sync of the row it touched.
LEMMA PurchaseDoorsSync ==
    ASSUME IInv, PurchaseDoors PROVE \E r : Synced(r)
BY AddPurchaseSyncs, EditPurchaseSyncs, RemovePurchaseSyncs DEF PurchaseDoors

(***************************************************************************)
(* Status, credit and row doors.                                           *)
(***************************************************************************)

\* A row whose purchases are none has nothing on the card.
LEMMA NothingBought ==
    ASSUME NEW b \in [Purchases -> PurchaseRows], NEW x \in Rows,
           \A e \in Purchases : b[e].row # x
    PROVE  CardTotal(b, x) = 0
BY TotalTyped DEF CardPurchases, PurchasesOf

\* A door that moves one live row's status and record, and nothing else.
LEMMA StatusDoorKeeps ==
    ASSUME IInv, NEW x \in Rows,
           UNCHANGED <<plan, repays, bought>>,
           status' \in [Rows -> Statuses],
           record' \in [Rows -> Nat \cup {NoFigure}],
           stated' \in [Rows -> BOOLEAN],
           \A y \in Rows \ {x} : /\ status'[y] = status[y]
                                 /\ record'[y] = record[y] /\ stated'[y] = stated[y],
           status[x] \notin {"gone", "credit"}, status'[x] # "gone",
           status'[x] = "credit" => x \notin Envelopes,
           stated'[x] => record'[x] # NoFigure,
           status'[x] = "done" /\ record'[x] # NoFigure /\ ~stated'[x]
              /\ x \in Paybacks => record'[x] = plan[x]
    PROVE  IInv'
<1>1. TypeOK'
  BY DEF IInv, TypeOK
<1>2. RowsAgree'
  <2>1. \A y \in Rows : status'[y] = "gone" <=> status[y] = "gone"
    OBVIOUS
  <2>2. \A p \in Paybacks : repays[p] # NoRow => repays[p] \in Rows
    BY DEF IInv, TypeOK
  <2>3. Paybacks \subseteq Rows /\ Envelopes \subseteq Rows
    BY DEF Rows, Sources
  <2> QED
    BY <2>1, <2>2, <2>3 DEF IInv, RowsAgree
<1>3. CardSpendIsRepaid'
  BY DEF IInv, CardSpendIsRepaid, LivePaybacks
<1>4. LinksFollowThePayback'
  BY DEF IInv, LinksFollowThePayback
<1>5. PaidFigureIsThePlan'
  BY DEF IInv, PaidFigureIsThePlan, Settled, Rows
<1> QED
  BY <1>1, <1>2, <1>3, <1>4, <1>5 DEF IInv

LEMMA SetCreditKeeps ==
    ASSUME IInv, NEW x \in Rows, SetCredit(x) PROVE IInv'
BY StatusDoorKeeps DEF SetCredit, IInv, TypeOK, RowsAgree, Statuses

LEMMA CancelKeeps ==
    ASSUME IInv, NEW x \in Rows, Cancel(x) PROVE IInv'
BY StatusDoorKeeps DEF Cancel, IInv, TypeOK, RowsAgree, Statuses

LEMMA RevertKeeps ==
    ASSUME IInv, NEW x \in Rows, Revert(x) PROVE IInv'
BY StatusDoorKeeps DEF Revert, IInv, TypeOK, RowsAgree, Statuses

\* What a settle books is a figure: a stated record is there to be booked.
LEMMA BookedTyped ==
    ASSUME IInv, NEW x \in Rows PROVE Booked(x) \in Nat
BY DEF Booked, IInv, TypeOK, RowsAgree, NoFigure

LEMMA SettleKeeps ==
    ASSUME IInv, NEW x \in Rows, NEW f \in Figures \cup {Booked(x)}, Settle(x, f)
    PROVE  IInv'
<1>1. f \in Nat
  BY BookedTyped, FiguresAssumption
<1>2. /\ status' = [status EXCEPT ![x] = "done"] /\ status[x] = "projected"
      /\ UNCHANGED <<plan, repays, bought>>
      /\ record' = [record EXCEPT ![x] = IF f = 0 THEN NoFigure ELSE f]
      /\ stated' = [stated EXCEPT ![x] = (stated[x] \/ f # Booked(x)) /\ f # 0]
  BY DEF Settle, Cover
<1>3. /\ status \in [Rows -> Statuses] /\ record \in [Rows -> Nat \cup {NoFigure}]
      /\ stated \in [Rows -> BOOLEAN]
  BY DEF IInv, TypeOK
<1>4. /\ status' \in [Rows -> Statuses] /\ record' \in [Rows -> Nat \cup {NoFigure}]
      /\ stated' \in [Rows -> BOOLEAN]
  BY <1>1, <1>2, <1>3 DEF Statuses
<1>5. stated'[x] => record'[x] # NoFigure
  <2>1. stated'[x] => f # 0
    BY <1>2, <1>3, Zenon
  <2>2. f # 0 => record'[x] = f
    BY <1>2, <1>3
  <2> QED
    BY <1>1, <2>1, <2>2 DEF NoFigure
<1>6. record'[x] # NoFigure /\ ~stated'[x] => record'[x] = plan[x]
  BY <1>1, <1>2, <1>3 DEF NoFigure, Booked
<1> QED
  BY <1>2, <1>3, <1>4, <1>5, <1>6, StatusDoorKeeps

LEMMA SettleFromEntriesKeeps ==
    ASSUME IInv, NEW x \in Rows, SettleFromEntries(x) PROVE IInv'
<1>1. /\ status' = [status EXCEPT ![x] = "done"] /\ status[x] = "projected"
      /\ UNCHANGED <<plan, repays, bought>>
      /\ record' = [record EXCEPT ![x] = NoFigure]
      /\ stated' = [stated EXCEPT ![x] = FALSE]
  BY DEF SettleFromEntries, Cover
<1>2. /\ status' \in [Rows -> Statuses] /\ record' \in [Rows -> Nat \cup {NoFigure}]
      /\ stated' \in [Rows -> BOOLEAN]
      /\ stated'[x] = FALSE /\ record'[x] = NoFigure /\ status'[x] = "done"
  BY <1>1 DEF IInv, TypeOK, Statuses
<1>3. \A y \in Rows \ {x} : /\ status'[y] = status[y]
                            /\ record'[y] = record[y] /\ stated'[y] = stated[y]
  BY <1>1 DEF IInv, TypeOK
<1> QED
  BY <1>1, <1>2, <1>3, StatusDoorKeeps

LEMMA CorrectKeeps ==
    ASSUME IInv, NEW x \in Rows, NEW f \in Figures, Correct(x, f) PROVE IInv'
<1>1. f \in Nat
  BY FiguresAssumption
<1>2. /\ UNCHANGED <<status, plan, repays, bought>> /\ status[x] = "done"
      /\ record' = [record EXCEPT ![x] = IF f = 0 THEN NoFigure ELSE f]
      /\ stated' = [stated EXCEPT ![x] = f # 0]
  BY DEF Correct, Cover, Settled
<1>3. /\ status \in [Rows -> Statuses] /\ record \in [Rows -> Nat \cup {NoFigure}]
      /\ stated \in [Rows -> BOOLEAN]
  BY DEF IInv, TypeOK
<1>4. /\ record' \in [Rows -> Nat \cup {NoFigure}] /\ stated' \in [Rows -> BOOLEAN]
      /\ \A y \in Rows \ {x} : record'[y] = record[y] /\ stated'[y] = stated[y]
  BY <1>1, <1>2, <1>3
<1>5. stated'[x] <=> record'[x] # NoFigure
  <2>1. stated'[x] <=> f # 0
    BY <1>2, <1>3, Zenon
  <2>2. record'[x] = IF f = 0 THEN NoFigure ELSE f
    BY <1>2, <1>3
  <2> QED
    BY <1>1, <2>1, <2>2 DEF NoFigure
<1> QED
  BY <1>2, <1>3, <1>4, <1>5, StatusDoorKeeps

LEMMA MarkCreditKeeps ==
    ASSUME IInv, NEW x \in Rows, MarkCredit(x) PROVE IInv'
<1>1. PICK p \in Free : Open(p, x, plan[x], [status EXCEPT ![x] = "credit"])
  BY DEF MarkCredit
<1>2. /\ p \in Paybacks /\ p \in Rows /\ repays[p] = NoRow /\ status[p] = "gone"
      /\ status[x] = "projected" /\ x # p /\ x \notin Envelopes /\ x # NoRow
      /\ LivePaybacks(x) = {} /\ UNCHANGED <<record, stated, bought>>
      /\ repays' = [repays EXCEPT ![p] = x]
      /\ status' = [status EXCEPT ![x] = "credit", ![p] = "projected"]
      /\ plan' = [plan EXCEPT ![p] = plan[x]]
  BY <1>1, RowsAssumption
     DEF MarkCredit, Open, Free, IInv, TypeOK, RowsAgree, Rows, Sources
<1>3. TypeOK'
  BY <1>2 DEF IInv, TypeOK, Statuses
<1>4. RowsAgree'
  <2>1. \A y \in Rows : status'[y] = "gone" <=> status[y] = "gone" /\ y # p
    BY <1>2 DEF IInv, TypeOK
  <2>2. \A q \in Paybacks : repays'[q] = IF q = p THEN x ELSE repays[q]
    BY <1>2 DEF IInv, TypeOK
  <2>3. \A q \in Paybacks \ {p} : repays[q] # x
    BY <1>2 DEF LivePaybacks
  <2>4. /\ \A q \in Paybacks : status'[q] = "gone" <=> repays'[q] = NoRow
        /\ \A q, s \in Paybacks : repays'[q] # NoRow /\ repays'[q] = repays'[s] => q = s
    <3>1. \A q \in Paybacks : q \in Rows
      BY DEF Rows
    <3>2. \A q, s \in Paybacks : repays[q] # NoRow /\ repays[q] = repays[s] => q = s
      BY DEF IInv, RowsAgree
    <3>3. \A q \in Paybacks : status[q] = "gone" <=> repays[q] = NoRow
      BY DEF IInv, RowsAgree
    <3>4. \A q \in Paybacks : status'[q] = "gone" <=> repays'[q] = NoRow
      BY <1>2, <2>1, <2>2, <3>1, <3>3
    <3>5. ASSUME NEW q \in Paybacks, NEW s \in Paybacks,
                 repays'[q] # NoRow, repays'[q] = repays'[s]
          PROVE  q = s
      <4>1. CASE q = p \/ s = p
        BY <2>2, <2>3, <3>5, <4>1
      <4>2. CASE q # p /\ s # p
        <5>1. repays[q] # NoRow /\ repays[q] = repays[s]
          BY <2>2, <3>5, <4>2
        <5> QED
          BY <3>2, <5>1
      <4> QED
        BY <4>1, <4>2
    <3> QED
      BY <3>4, <3>5
  <2>5. \A q \in Paybacks : repays'[q] # NoRow => status'[repays'[q]] # "gone"
    BY <1>2, <2>1, <2>2, RowsAssumption DEF IInv, TypeOK, RowsAgree, Rows, Sources
  <2>6. /\ \A r \in Envelopes : status'[r] # "credit"
        /\ \A e \in Purchases : bought'[e].row # NoRow =>
              bought'[e].row \in Envelopes /\ status'[bought'[e].row] # "gone"
    BY <1>2, <2>1, RowsAssumption DEF IInv, TypeOK, RowsAgree, Rows, Sources
  <2> QED
    BY <1>2, <2>4, <2>5, <2>6 DEF IInv, RowsAgree
<1>5. CardSpendIsRepaid'
  <2>1. ASSUME NEW y \in Rows, status'[y] # "credit"
        PROVE  /\ CardTotal(bought', y) >= 0
               /\ \A q \in LivePaybacks(y)' : plan'[q] = CardTotal(bought', y)
               /\ CardTotal(bought', y) > 0 <=> LivePaybacks(y)' # {}
               /\ \A q, s \in LivePaybacks(y)' : q = s
    <3>1. y # x /\ LivePaybacks(y)' = LivePaybacks(y) /\ p \notin LivePaybacks(y)
      BY <1>2, <2>1, RowsAssumption DEF LivePaybacks, IInv, TypeOK, Rows, Sources
    <3>2. CASE y = p
      <4>1. LivePaybacks(p) = {}
        BY <1>2, RowsAssumption DEF LivePaybacks, IInv, RowsAgree
      <4>2. CardTotal(bought, p) = 0
        BY <1>2, RowsAssumption, NothingBought DEF IInv, TypeOK, RowsAgree, Sources
      <4> QED
        BY <1>2, <3>1, <3>2, <4>1, <4>2
    <3>3. CASE y # p
      <4>1. \A q \in LivePaybacks(y) : plan'[q] = plan[q]
        BY <1>2, <3>1 DEF LivePaybacks, IInv, TypeOK, Rows
      <4> QED
        BY <1>2, <2>1, <3>1, <3>3, <4>1 DEF IInv, TypeOK, CardSpendIsRepaid
    <3> QED
      BY <3>2, <3>3
  <2> QED
    BY <2>1 DEF CardSpendIsRepaid
<1>6. LinksFollowThePayback'
  <2>1. ASSUME NEW e \in Purchases, NEW q \in Paybacks
        PROVE  bought[e].link = q <=> bought[e].card /\ repays'[q] = bought[e].row
    <3>1. bought[e].link = q <=> bought[e].card /\ repays[q] = bought[e].row
      BY DEF IInv, LinksFollowThePayback
    <3>2. bought[e].row # x /\ (bought[e].row = NoRow => ~bought[e].card)
      BY <1>2, RowsAssumption DEF IInv, TypeOK, RowsAgree, PurchaseRows, Absent, Sources
    <3>3. repays'[q] = IF q = p THEN x ELSE repays[q]
      BY <1>2 DEF IInv, TypeOK
    <3> QED
      BY <1>2, <3>1, <3>2, <3>3
  <2> QED
    BY <1>2, <2>1 DEF LinksFollowThePayback
<1>7. PaidFigureIsThePlan'
  BY <1>2 DEF IInv, TypeOK, PaidFigureIsThePlan, Settled, Rows
<1> QED
  BY <1>3, <1>4, <1>5, <1>6, <1>7 DEF IInv

LEMMA AddRowKeeps ==
    ASSUME IInv, NEW r \in Sources, NEW f \in Figures, AddRow(r, f) PROVE IInv'
<1>1. /\ f \in Nat /\ r \in Rows /\ r \notin Paybacks
      /\ status[r] = "gone"
      /\ status' = [status EXCEPT ![r] = "projected"]
      /\ plan' = [plan EXCEPT ![r] = f]
      /\ UNCHANGED <<record, stated, repays, bought>>
  BY FiguresAssumption, RowsAssumption DEF AddRow, Rows, Sources
<1>2. TypeOK'
  BY <1>1 DEF IInv, TypeOK, Statuses
<1>3. \A y \in Rows : /\ status'[y] = "gone" => status[y] = "gone"
                      /\ status'[y] = "credit" <=> status[y] = "credit"
                      /\ y # r => status'[y] = status[y] /\ plan'[y] = plan[y]
  BY <1>1 DEF IInv, TypeOK
<1>4. RowsAgree'
  <2>1. \A p \in Paybacks : repays[p] # NoRow => repays[p] \in Rows
    BY DEF IInv, TypeOK
  <2> QED
    BY <1>1, <1>3, <2>1 DEF IInv, RowsAgree, Rows, Sources
<1>5. CardSpendIsRepaid'
  BY <1>1, <1>3 DEF IInv, CardSpendIsRepaid, LivePaybacks, Rows
<1>6. LinksFollowThePayback' /\ PaidFigureIsThePlan'
  BY <1>1, <1>3 DEF IInv, LinksFollowThePayback, PaidFigureIsThePlan, Settled, Rows
<1> QED
  BY <1>2, <1>4, <1>5, <1>6 DEF IInv

LEMMA EditPlanKeeps ==
    ASSUME IInv, NEW r \in Sources, NEW f \in Figures, EditPlan(r, f) PROVE IInv'
<1>1. /\ f \in Nat /\ r \in Rows /\ r \notin Paybacks
      /\ plan' = [plan EXCEPT ![r] = f]
      /\ UNCHANGED <<status, record, stated, repays, bought>>
  BY FiguresAssumption, RowsAssumption DEF EditPlan, Rows, Sources
<1>2. TypeOK' /\ \A p \in Paybacks : plan'[p] = plan[p]
  BY <1>1 DEF IInv, TypeOK, Rows
<1> QED
  BY <1>1, <1>2 DEF IInv, RowsAgree, CardSpendIsRepaid, LivePaybacks,
                    LinksFollowThePayback, PaidFigureIsThePlan, Settled

\* Erasing rows with their purchases and their paybacks, where an envelope whose
\* payback goes is gone too.
LEMMA EraseKeeps ==
    ASSUME IInv, NEW xs \in SUBSET Rows, NEW st \in [Rows -> Statuses], Erase(xs, st),
           \A y \in Rows : \/ st[y] = status[y]
                           \/ /\ st[y] = "projected" /\ status[y] = "credit"
                              /\ \A p \in Paybacks : repays[p] = y => p \in xs,
           \A p \in Paybacks : p \in xs /\ repays[p] \in Envelopes => repays[p] \in xs,
           bought' = [e \in Purchases |-> IF bought[e].row \in xs THEN Absent ELSE bought[e]]
    PROVE  IInv'
<1>1. /\ \A p \in Paybacks : repays[p] \in xs => p \in xs
      /\ repays' = [p \in Paybacks |-> IF p \in xs THEN NoRow ELSE repays[p]]
      /\ status' = [y \in Rows |-> IF y \in xs THEN "gone" ELSE st[y]]
      /\ plan' = [y \in Rows |-> IF y \in xs THEN 0 ELSE plan[y]]
      /\ record' = [y \in Rows |-> IF y \in xs THEN NoFigure ELSE record[y]]
      /\ stated' = [y \in Rows |-> IF y \in xs THEN FALSE ELSE stated[y]]
  BY DEF Erase
<1>2. /\ \A p \in Paybacks : p \in Rows /\ p # NoRow
      /\ NoRow \notin xs /\ NoRow \notin Rows
      /\ Envelopes \subseteq Rows /\ Sources \subseteq Rows
      /\ \A p \in Paybacks : repays[p] \in Rows \cup {NoRow}
      /\ \A e \in Purchases : bought[e] \in PurchaseRows
  BY RowsAssumption DEF Rows, Sources, IInv, TypeOK
<1>3. TypeOK'
  <2>1. bought' \in [Purchases -> PurchaseRows]
    BY <1>2 DEF PurchaseRows
  <2>2. status' \in [Rows -> Statuses]
    BY <1>1 DEF Statuses
  <2> QED
    BY <1>1, <2>1, <2>2 DEF IInv, TypeOK
<1>4. \A y \in Rows : /\ y \in xs => status'[y] = "gone"
                      /\ y \notin xs => (status'[y] = "gone" <=> status[y] = "gone")
  BY <1>1
<1>5. /\ \A p \in Paybacks : p \notin xs => repays'[p] = repays[p] /\ repays[p] \notin xs
      /\ \A p \in Paybacks : p \in xs => repays'[p] = NoRow
  BY <1>1
<1>6. \A e \in Purchases : /\ bought[e].row \in xs => bought'[e] = Absent
                           /\ bought[e].row \notin xs => bought'[e] = bought[e]
  OBVIOUS
<1>7. RowsAgree'
  <2>1. \A y \in Envelopes : status'[y] # "credit"
    BY <1>1, <1>2 DEF IInv, RowsAgree
  <2>2. \A p \in Paybacks : status'[p] = "gone" <=> repays'[p] = NoRow
    BY <1>2, <1>4, <1>5 DEF IInv, RowsAgree
  <2>3. \A p \in Paybacks : repays'[p] # NoRow => status'[repays'[p]] # "gone"
    BY <1>2, <1>4, <1>5 DEF IInv, RowsAgree
  <2>4. \A p, q \in Paybacks : repays'[p] # NoRow /\ repays'[p] = repays'[q] => p = q
    BY <1>5 DEF IInv, RowsAgree
  <2>5. \A e \in Purchases : bought'[e].row # NoRow =>
            bought'[e].row \in Envelopes /\ status'[bought'[e].row] # "gone"
    BY <1>2, <1>4, <1>6 DEF IInv, RowsAgree, Absent
  <2>6. \A y \in Rows : stated'[y] => record'[y] # NoFigure
    BY <1>1 DEF IInv, RowsAgree
  <2> QED
    BY <2>1, <2>2, <2>3, <2>4, <2>5, <2>6 DEF IInv, RowsAgree
<1>8. CardSpendIsRepaid'
  <2>1. ASSUME NEW y \in Rows, status'[y] # "credit"
        PROVE  /\ CardTotal(bought', y) >= 0
               /\ \A q \in LivePaybacks(y)' : plan'[q] = CardTotal(bought', y)
               /\ CardTotal(bought', y) > 0 <=> LivePaybacks(y)' # {}
               /\ \A q, s \in LivePaybacks(y)' : q = s
    <3>1. bought' \in [Purchases -> PurchaseRows] /\ bought \in [Purchases -> PurchaseRows]
      BY <1>3 DEF IInv, TypeOK
    <3>2. CASE y \in xs
      <4>1. \A e \in Purchases : bought'[e].row # y
        BY <1>2, <1>6, <3>2 DEF Absent
      <4>2. CardTotal(bought', y) = 0
        BY <3>1, <4>1, NothingBought
      <4>3. LivePaybacks(y)' = {}
        BY <1>2, <1>5, <3>2 DEF LivePaybacks
      <4> QED
        BY <4>2, <4>3
    <3>3. CASE y \notin xs /\ y \in Envelopes
      <4>1. CardTotal(bought', y) = CardTotal(bought, y)
        <5>1. \A e \in Purchases : (bought'[e].row = y /\ bought'[e].card)
                                    <=> (bought[e].row = y /\ bought[e].card)
          BY <1>2, <1>6, <3>3 DEF Absent
        <5>2. \A e \in Purchases : bought'[e].row = y /\ bought'[e].card
                                    => bought'[e].amount = bought[e].amount
          BY <1>2, <1>6, <3>3 DEF Absent
        <5> QED
          BY <5>1, <5>2, SameTotal
      <4>2. LivePaybacks(y)' = LivePaybacks(y) /\ \A q \in LivePaybacks(y) : q \notin xs
        BY <1>2, <1>5, <3>3 DEF LivePaybacks
      <4>3. \A q \in LivePaybacks(y) : plan'[q] = plan[q]
        BY <1>1, <1>2, <4>2 DEF LivePaybacks
      <4>4. status[y] # "credit"
        BY <3>3 DEF IInv, RowsAgree
      <4> QED
        BY <4>1, <4>2, <4>3, <4>4 DEF IInv, CardSpendIsRepaid
    <3>4. CASE y \notin xs /\ y \notin Envelopes
      <4>1. \A e \in Purchases : bought'[e].row # y /\ bought[e].row # y
        BY <1>2, <1>6, <3>4 DEF Absent, IInv, RowsAgree
      <4>2. CardTotal(bought', y) = 0 /\ CardTotal(bought, y) = 0
        BY <3>1, <4>1, NothingBought
      <4>3. CASE st[y] = status[y]
        <5>1. status[y] # "credit"
          BY <1>1, <2>1, <3>4, <4>3
        <5>2. LivePaybacks(y) = {}
          BY <4>2, <5>1 DEF IInv, CardSpendIsRepaid
        <5>3. LivePaybacks(y)' = {}
          BY <1>2, <1>5, <5>2 DEF LivePaybacks
        <5> QED
          BY <4>2, <5>3
      <4>4. CASE \A p \in Paybacks : repays[p] = y => p \in xs
        <5>1. LivePaybacks(y)' = {}
          BY <1>2, <1>5, <4>4 DEF LivePaybacks
        <5> QED
          BY <4>2, <5>1
      <4> QED
        BY <4>3, <4>4
    <3> QED
      BY <3>2, <3>3, <3>4
  <2> QED
    BY <2>1 DEF CardSpendIsRepaid
<1>9. LinksFollowThePayback'
  <2>1. ASSUME NEW e \in Purchases, NEW q \in Paybacks
        PROVE  bought'[e].link = q <=> bought'[e].card /\ repays'[q] = bought'[e].row
    <3>1. bought[e].link = q <=> bought[e].card /\ repays[q] = bought[e].row
      BY DEF IInv, LinksFollowThePayback
    <3>2. CASE bought[e].row \in xs
      BY <1>2, <1>6, <3>2 DEF Absent
    <3>3. CASE bought[e].row \notin xs /\ bought[e].row = NoRow
      BY <1>2, <1>6, <3>3 DEF PurchaseRows, Absent
    <3>4. CASE bought[e].row \notin xs /\ bought[e].row # NoRow
      <4>1. bought[e].row \in Envelopes /\ bought'[e] = bought[e]
        BY <1>6, <3>4 DEF IInv, RowsAgree
      <4> QED
        BY <1>2, <1>5, <3>1, <3>4, <4>1
    <3> QED
      BY <3>2, <3>3, <3>4
  <2> QED
    BY <2>1 DEF LinksFollowThePayback
<1>10. PaidFigureIsThePlan'
  <2>1. \A p \in Paybacks : status'[p] = "done" => p \notin xs /\ status[p] = "done"
    BY <1>1, <1>2
  <2> QED
    BY <1>1, <1>2, <2>1 DEF IInv, PaidFigureIsThePlan, Settled
<1> QED
  BY <1>3, <1>7, <1>8, <1>9, <1>10 DEF IInv

LEMMA UndoCreditKeeps ==
    ASSUME IInv, NEW x \in Rows, UndoCredit(x) PROVE IInv'
<1> DEFINE xs == LivePaybacks(x)
           st == [status EXCEPT ![x] = "projected"]
<1>1. Erase(xs, st) /\ xs \in SUBSET Rows /\ status[x] = "credit"
  BY DEF UndoCredit, LivePaybacks, Rows
<1>2. x \notin Envelopes
  BY <1>1 DEF IInv, RowsAgree
<1>3. /\ st \in [Rows -> Statuses]
      /\ \A y \in Rows : \/ st[y] = status[y]
                         \/ /\ st[y] = "projected" /\ status[y] = "credit"
                            /\ \A p \in Paybacks : repays[p] = y => p \in xs
  BY <1>1 DEF IInv, TypeOK, Statuses, LivePaybacks
<1>4. \A p \in Paybacks : p \in xs /\ repays[p] \in Envelopes => repays[p] \in xs
  BY <1>2 DEF LivePaybacks
<1>5. \A e \in Purchases : bought[e].row \notin xs /\ bought[e].link \notin xs
  <2> SUFFICES ASSUME NEW e \in Purchases PROVE bought[e].row \notin xs /\ bought[e].link \notin xs
    OBVIOUS
  <2>1. bought[e].row \in Envelopes \cup {NoRow}
    BY DEF IInv, RowsAgree
  <2>2. \A q \in xs : q \in Paybacks /\ repays[q] = x
    BY DEF LivePaybacks
  <2>3. bought[e].row \notin xs /\ bought[e].row # x
    BY <1>2, <2>1, <2>2, RowsAssumption DEF Sources, Rows
  <2> QED
    BY <2>2, <2>3 DEF IInv, LinksFollowThePayback
<1>6. bought' = [e \in Purchases |-> IF bought[e].row \in xs THEN Absent ELSE bought[e]]
  BY <1>5 DEF UndoCredit, Unlinked
<1> HIDE DEF xs, st
<1> QED
  BY <1>1, <1>3, <1>4, <1>6, EraseKeeps

\* What a payback in the chain of r repays is r or in the chain itself.
LEMMA ChainSteps ==
    ASSUME NEW r, NEW p \in Chain(r) PROVE repays[p] \in Chain(r) \cup {r}
<1> DEFINE D == {q \in Chain(r) : repays[q] \in Chain(r) \cup {r}}
<1>1. Chain(r) \subseteq Paybacks /\ D \in SUBSET Paybacks
  BY DEF Chain
<1>2. ASSUME NEW q \in Paybacks, repays[q] \in D \cup {r} PROVE q \in D
  <2>1. repays[q] \in Chain(r) \cup {r}
    BY <1>2
  <2>2. q \in Chain(r)
    BY <2>1 DEF Chain
  <2> QED
    BY <2>1, <2>2
<1>3. p \in D
  <2> HIDE DEF D
  <2> QED
    BY <1>1, <1>2 DEF Chain
<1> QED
  BY <1>3

LEMMA DeleteRowKeeps ==
    ASSUME IInv, NEW r \in Sources, DeleteRow(r) PROVE IInv'
<1> DEFINE xs == Chain(r) \cup {r}
<1>1. /\ Erase(xs, status)
      /\ bought' = [e \in Purchases |-> IF bought[e].row = r THEN Absent ELSE bought[e]]
  BY DEF DeleteRow
<1>2. xs \in SUBSET Rows /\ Chain(r) \subseteq Paybacks /\ r \notin Paybacks
  BY RowsAssumption DEF Chain, Rows, Sources
<1>3. \A p \in Paybacks : p \in xs => repays[p] \in xs
  BY <1>2, ChainSteps
<1>4. \A e \in Purchases : bought[e].row \in xs <=> bought[e].row = r
  BY <1>2, RowsAssumption DEF IInv, RowsAgree, Sources
<1>5. bought' = [e \in Purchases |-> IF bought[e].row \in xs THEN Absent ELSE bought[e]]
  BY <1>1, <1>4
<1>6. status \in [Rows -> Statuses]
  BY DEF IInv, TypeOK
<1> HIDE DEF xs
<1> QED
  BY <1>1, <1>2, <1>3, <1>5, <1>6, EraseKeeps

(***************************************************************************)
(* The theorems.                                                           *)
(***************************************************************************)

LEMMA InitKeeps ==
    ASSUME Init PROVE IInv
<1>1. \A e \in Purchases : bought[e] = Absent
  BY DEF Init
<1>2. TypeOK
  BY <1>1 DEF Init, TypeOK, Statuses, PurchaseRows, NoFigure
<1>3. \A r \in Rows : CardTotal(bought, r) = 0 /\ LivePaybacks(r) = {}
  BY <1>1, <1>2, NothingBought, RowsAssumption
     DEF Init, LivePaybacks, Absent, Rows, Sources, TypeOK
<1>4. RowsAgree
  BY <1>1, RowsAssumption DEF Init, RowsAgree, Absent, Rows, Sources
<1>5. CardSpendIsRepaid
  BY <1>3 DEF CardSpendIsRepaid
<1>6. LinksFollowThePayback /\ PaidFigureIsThePlan
  BY <1>1, RowsAssumption
     DEF Init, LinksFollowThePayback, PaidFigureIsThePlan, Settled, Absent, Rows
<1> QED
  BY <1>2, <1>4, <1>5, <1>6 DEF IInv

LEMMA NextKeeps ==
    ASSUME IInv, [Next]_vars PROVE IInv'
<1>1. CASE UNCHANGED vars
  BY <1>1 DEF vars, money, IInv, TypeOK, RowsAgree, CardSpendIsRepaid, LivePaybacks,
              LinksFollowThePayback, PaidFigureIsThePlan, Settled
<1>2. CASE PurchaseDoors
  BY <1>2, PurchaseDoorsSync, SyncKeeps DEF Synced
<1>3. CASE CreditDoors
  BY <1>3, MarkCreditKeeps, SetCreditKeeps, UndoCreditKeeps DEF CreditDoors
<1>4. CASE StatusDoors
  BY <1>4, CancelKeeps, RevertKeeps, SettleKeeps, SettleFromEntriesKeeps, CorrectKeeps
     DEF StatusDoors
<1>5. CASE RowDoors
  BY <1>5, DeleteRowKeeps, AddRowKeeps, EditPlanKeeps DEF RowDoors
<1> QED
  BY <1>1, <1>2, <1>3, <1>4, <1>5 DEF Next

LEMMA Inductive ==
    Spec => []IInv
<1>1. Init => IInv
  BY InitKeeps
<1>2. IInv /\ [Next]_vars => IInv'
  BY NextKeeps
<1> QED
  BY <1>1, <1>2, PTL DEF Spec

\* The rows, figures, links and purchases hold what their columns may hold.
THEOREM TypeCorrect ==
    Spec => []TypeOK
<1>1. IInv => TypeOK
  BY DEF IInv
<1> QED
  BY <1>1, Inductive, PTL

\* Card spending has exactly one payback at its total, and its purchases name
\* it, whatever the envelope, the amounts and the history of purchases,
\* payments and deletions.
THEOREM PaybacksCorrect ==
    Spec => []PaybacksMatchSpending
<1>1. IInv => PaybacksMatchSpending
  BY DEF IInv, PaybacksMatchSpending
<1> QED
  BY <1>1, Inductive, PTL

\* A paid payback took from the account what it repays, or what somebody typed.
THEOREM PaymentsCorrect ==
    Spec => []PaidFigureIsThePlan
<1>1. IInv => PaidFigureIsThePlan
  BY DEF IInv
<1> QED
  BY <1>1, Inductive, PTL

(***************************************************************************)
(* How each door moves the debt of an envelope.                            *)
(***************************************************************************)

\* What a door leaves of an envelope it has no business with.
DebtStands(r) ==
    /\ CardTotal(bought', r) = CardTotal(bought, r)
    /\ LivePaybacks(r)' = LivePaybacks(r)
    /\ \A p \in LivePaybacks(r) :
          /\ Settled(p)' <=> Settled(p)
          /\ record'[p] = record[p]

\* The figure a payback paid, if it did.
PaidBy(p) == IF Settled(p) THEN SettledFigure(p) ELSE NoFigure

\* An envelope has no payback, or one, whose payment is the repayment.
RepaymentIs(r) ==
    \/ /\ LivePaybacks(r) = {}
       /\ CardRepayment(r) = [planned |-> FALSE, paid |-> NoFigure]
    \/ \E p \in Paybacks :
          /\ LivePaybacks(r) = {p}
          /\ CardRepayment(r) = [planned |-> TRUE, paid |-> PaidBy(p)]

LEMMA RepaymentOfNone ==
    ASSUME NEW r, LivePaybacks(r) = {}
    PROVE  CardRepayment(r) = [planned |-> FALSE, paid |-> NoFigure]
BY DEF CardRepayment, PaidFigures

LEMMA RepaymentOfOne ==
    ASSUME NEW r, NEW p, LivePaybacks(r) = {p}
    PROVE  CardRepayment(r) = [planned |-> TRUE, paid |-> PaidBy(p)]
<1>1. CASE Settled(p)
  <2>1. PaidFigures(r) = {SettledFigure(p)}
    BY <1>1 DEF PaidFigures
  <2>2. (CHOOSE f \in {SettledFigure(p)} : TRUE) = SettledFigure(p)
    OBVIOUS
  <2> QED
    BY <1>1, <2>1, <2>2 DEF CardRepayment, PaidBy
<1>2. CASE ~Settled(p)
  <2>1. PaidFigures(r) = {}
    BY <1>2 DEF PaidFigures
  <2> QED
    BY <1>2, <2>1 DEF CardRepayment, PaidBy
<1> QED
  BY <1>1, <1>2

LEMMA RepaymentCases ==
    IInv => \A r \in Envelopes : RepaymentIs(r)
<1> SUFFICES ASSUME IInv, NEW r \in Envelopes PROVE RepaymentIs(r)
  OBVIOUS
<1>1. CASE LivePaybacks(r) = {}
  BY <1>1, RepaymentOfNone DEF RepaymentIs
<1>2. CASE LivePaybacks(r) # {}
  <2>1. PICK p \in Paybacks : p \in LivePaybacks(r)
    BY <1>2 DEF LivePaybacks
  <2>2. r # NoRow
    BY RowsAssumption
  <2>3. LivePaybacks(r) = {p}
    BY <2>1, <2>2 DEF LivePaybacks, IInv, RowsAgree
  <2> QED
    BY <2>1, <2>3, RepaymentOfOne DEF RepaymentIs
<1> QED
  BY <1>1, <1>2

\* The same of the state a step leads to.
LEMMA RepaymentCasesNext ==
    IInv' => (\A r \in Envelopes : RepaymentIs(r))'
BY RepaymentCases, PTL

\* What the sync of r did to the debt of r: planned its repayment, kept it at
\* the new total, dropped it, or found nothing to repay.
Planned(r) ==
    /\ LivePaybacks(r) = {} /\ CardTotal(bought', r) > 0
    /\ \E p \in Paybacks : LivePaybacks(r)' = {p} /\ ~Settled(p)'

Kept(r) ==
    \E p \in Paybacks :
        /\ LivePaybacks(r) = {p} /\ LivePaybacks(r)' = {p}
        /\ (Settled(p)' <=> Settled(p)) /\ record'[p] = record[p]
        /\ CardTotal(bought', r) > 0
        /\ \/ CardTotal(bought', r) = CardTotal(bought, r)
           \/ Settled(p) => SettledFigure(p) = CardTotal(bought', r)

Dropped(r) ==
    /\ CardTotal(bought', r) = 0 /\ LivePaybacks(r)' = {}
    /\ \E p \in Paybacks : LivePaybacks(r) = {p} /\ ~Settled(p)

Nothing(r) ==
    CardTotal(bought', r) = 0 /\ LivePaybacks(r) = {} /\ LivePaybacks(r)' = {}

\* A sync of r moves no other debt, and r's in one of the four ways.
LEMMA SyncMoves ==
    ASSUME IInv, NEW r, NEW b, NEW moves, Edited(r, b), Sync(r, b, moves),
           moves \/ CardTotal(b, r) = CardTotal(bought, r)
    PROVE  /\ Planned(r) \/ Kept(r) \/ Dropped(r) \/ Nothing(r)
           /\ \A x \in Sources : status'[x] = status[x]
           /\ \A x \in Sources \ {r} : DebtStands(x)
<1>0. /\ r \in Rows /\ r \in Sources /\ r # NoRow /\ r \notin Paybacks
      /\ b \in [Purchases -> PurchaseRows] /\ NoRow \notin Sources
      /\ \A p \in Paybacks : p \notin Sources /\ p \in Rows
      /\ repays \in [Paybacks -> Rows \cup {NoRow}]
      /\ status \in [Rows -> Statuses]
      /\ \A p, q \in LivePaybacks(r) : p = q
      /\ Sources \subseteq Rows
  BY SyncedRow, RowsAssumption DEF IInv, TypeOK, Rows, Sources
<1>1. ASSUME NEW c, SameButLinks(c, b)
      PROVE  /\ CardTotal(c, r) = CardTotal(b, r)
             /\ \A x \in Sources \ {r} : CardTotal(c, x) = CardTotal(bought, x)
  BY <1>0, <1>1, Totals DEF SameButLinks, Rows
<1>2. CASE SyncCreates(r, b)
  <2>1. PICK p \in Free : Open(p, r, CardTotal(b, r), status) /\ bought' = Linked(b, r, p)
    BY <1>2 DEF SyncCreates
  <2>2. /\ p \in Paybacks /\ repays[p] = NoRow /\ LivePaybacks(r) = {}
        /\ CardTotal(b, r) > 0 /\ record' = record
        /\ repays' = [repays EXCEPT ![p] = r]
        /\ status' = [status EXCEPT ![p] = "projected"]
    BY <1>2, <2>1 DEF Free, Open, SyncCreates
  <2>3. SameButLinks(bought', b)
    BY <1>0, <2>1, <2>2, LinkedRelinks
  <2>4. LivePaybacks(r)' = {p} /\ ~Settled(p)'
    BY <1>0, <2>2 DEF LivePaybacks, Settled
  <2>5. Planned(r)
    BY <1>1, <2>2, <2>3, <2>4 DEF Planned
  <2>6. ASSUME NEW x \in Sources \ {r} PROVE DebtStands(x)
    <3>1. LivePaybacks(x)' = LivePaybacks(x) /\ p \notin LivePaybacks(x)
      BY <1>0, <2>2 DEF LivePaybacks
    <3>2. \A q \in LivePaybacks(x) : q \in Rows /\ q # p
      BY <1>0, <3>1 DEF LivePaybacks
    <3>3. \A q \in LivePaybacks(x) : Settled(q)' <=> Settled(q)
      BY <1>0, <2>2, <3>2 DEF Settled
    <3> QED
      BY <1>1, <2>2, <2>3, <3>1, <3>3 DEF DebtStands
  <2>7. \A x \in Sources : status'[x] = status[x]
    BY <1>0, <2>2
  <2> QED
    BY <2>5, <2>6, <2>7
<1>3. CASE SyncReprices(r, b, moves)
  <2>1. PICK p \in LivePaybacks(r) :
           /\ moves /\ Settled(p) => SettledFigure(p) = CardTotal(b, r)
           /\ bought' = Linked(b, r, p)
    BY <1>3 DEF SyncReprices
  <2>2. /\ p \in Paybacks /\ LivePaybacks(r) = {p} /\ CardTotal(b, r) > 0
        /\ UNCHANGED <<status, record, repays>>
    BY <1>0, <1>3, <2>1 DEF LivePaybacks, SyncReprices
  <2>3. SameButLinks(bought', b)
    BY <1>0, <2>1, <2>2, LinkedRelinks
  <2>4. \A x : LivePaybacks(x)' = LivePaybacks(x)
    BY <2>2 DEF LivePaybacks
  <2>5. \A q : Settled(q)' <=> Settled(q)
    BY <2>2 DEF Settled
  <2>6. Kept(r)
    BY <1>1, <2>1, <2>2, <2>3, <2>4, <2>5 DEF Kept
  <2> QED
    BY <1>1, <2>2, <2>3, <2>4, <2>5, <2>6 DEF DebtStands
<1>4. CASE SyncDeletes(r, b)
  <2>1. PICK p \in LivePaybacks(r) : /\ ~Settled(p) /\ Erase({p}, status)
                                     /\ bought' = Unlinked(b, {p})
    BY <1>4 DEF SyncDeletes
  <2>2. /\ p \in Paybacks /\ LivePaybacks(r) = {p} /\ CardTotal(b, r) = 0
        /\ repays' = [q \in Paybacks |-> IF q \in {p} THEN NoRow ELSE repays[q]]
        /\ status' = [x \in Rows |-> IF x \in {p} THEN "gone" ELSE status[x]]
        /\ record' = [x \in Rows |-> IF x \in {p} THEN NoFigure ELSE record[x]]
    BY <1>0, <1>4, <2>1 DEF LivePaybacks, SyncDeletes, Erase
  <2>3. SameButLinks(bought', b)
    BY <1>0, <2>1, <2>2, UnlinkedRelinks
  <2>4. LivePaybacks(r)' = {}
    BY <1>0, <2>2 DEF LivePaybacks
  <2>5. Dropped(r)
    BY <1>1, <2>1, <2>2, <2>3, <2>4 DEF Dropped
  <2>6. ASSUME NEW x \in Sources \ {r} PROVE DebtStands(x)
    <3>1. LivePaybacks(x)' = LivePaybacks(x) /\ p \notin LivePaybacks(x)
      BY <1>0, <2>2 DEF LivePaybacks
    <3>2. \A q \in LivePaybacks(x) : q \in Rows /\ q # p
      BY <1>0, <3>1 DEF LivePaybacks
    <3>3. \A q \in LivePaybacks(x) : status'[q] = status[q] /\ record'[q] = record[q]
      BY <2>2, <3>2
    <3> QED
      BY <1>1, <2>3, <3>1, <3>3 DEF DebtStands, Settled
  <2>7. \A x \in Sources : status'[x] = status[x]
    BY <1>0, <2>2
  <2> QED
    BY <2>5, <2>6, <2>7
<1>5. CASE SyncHasNothingToDo(r, b)
  <2>1. /\ CardTotal(b, r) = 0 /\ LivePaybacks(r) = {} /\ SameButLinks(bought', b)
        /\ UNCHANGED <<status, record, repays>>
    BY <1>0, <1>5 DEF SyncHasNothingToDo, SameButLinks, money
  <2>2. \A x : LivePaybacks(x)' = LivePaybacks(x)
    BY <2>1 DEF LivePaybacks
  <2>3. \A q : Settled(q)' <=> Settled(q)
    BY <2>1 DEF Settled
  <2> QED
    BY <1>1, <2>1, <2>2, <2>3 DEF DebtStands, Nothing
<1> QED
  BY <1>2, <1>3, <1>4, <1>5 DEF Sync

\* A door that marks or unmarks Credit moves no debt of an envelope, and no
\* card total of any row.
LEMMA CreditMoves ==
    ASSUME IInv, CreditDoors
    PROVE  /\ \A x \in Envelopes : status'[x] = status[x] /\ DebtStands(x)
           /\ \A x \in Rows : CardTotal(bought', x) = CardTotal(bought, x)
<1>0. /\ NoRow \notin Rows /\ Envelopes \subseteq Rows /\ Paybacks \subseteq Rows
      /\ \A p \in Paybacks : p \notin Envelopes
      /\ status \in [Rows -> Statuses] /\ repays \in [Paybacks -> Rows \cup {NoRow}]
      /\ bought \in [Purchases -> PurchaseRows]
      /\ record \in [Rows -> Nat \cup {NoFigure}]
  BY RowsAssumption DEF IInv, TypeOK, Rows, Sources
<1>1. ASSUME NEW x \in Rows, MarkCredit(x) \/ SetCredit(x)
      PROVE  /\ \A r \in Envelopes : status'[r] = status[r] /\ DebtStands(r)
             /\ bought' = bought
  <2>1. x \notin Envelopes /\ status[x] = "projected" /\ record' = record /\ bought' = bought
    BY <1>1 DEF MarkCredit, SetCredit, Open
  <2>2. \E p \in Paybacks \cup {NoRow} :
           /\ p \in Paybacks => repays[p] = NoRow
           /\ \A q \in Paybacks : repays'[q] = IF q = p THEN x ELSE repays[q]
           /\ \A y \in Rows : y # x /\ y # p => status'[y] = status[y]
           /\ status'[x] # "done" \/ x = p
    <3>1. CASE SetCredit(x)
      BY <1>0, <3>1 DEF SetCredit
    <3>2. CASE MarkCredit(x)
      <4>1. PICK p \in Free : Open(p, x, plan[x], [status EXCEPT ![x] = "credit"])
        BY <3>2 DEF MarkCredit
      <4>2. /\ p \in Paybacks /\ repays[p] = NoRow /\ repays' = [repays EXCEPT ![p] = x]
            /\ status' = [[status EXCEPT ![x] = "credit"] EXCEPT ![p] = "projected"]
        BY <4>1 DEF Free, Open
      <4>3. \A q \in Paybacks : repays'[q] = IF q = p THEN x ELSE repays[q]
        BY <1>0, <4>2
      <4>4. /\ \A y \in Rows : y # x /\ y # p => status'[y] = status[y]
            /\ status'[x] # "done"
        BY <1>0, <4>2
      <4> QED
        BY <4>2, <4>3, <4>4
    <3> QED
      BY <1>1, <3>1, <3>2
  <2>3. PICK p \in Paybacks \cup {NoRow} :
           /\ p \in Paybacks => repays[p] = NoRow
           /\ \A q \in Paybacks : repays'[q] = IF q = p THEN x ELSE repays[q]
           /\ \A y \in Rows : y # x /\ y # p => status'[y] = status[y]
           /\ status'[x] # "done" \/ x = p
    BY <2>2
  <2>4. ASSUME NEW r \in Envelopes PROVE status'[r] = status[r] /\ DebtStands(r)
    <3>1. LivePaybacks(r)' = LivePaybacks(r) /\ p \notin LivePaybacks(r)
      BY <1>0, <2>1, <2>3 DEF LivePaybacks
    <3>2. \A q \in LivePaybacks(r) : q \in Rows /\ q # p
      BY <1>0, <3>1 DEF LivePaybacks
    <3>3. \A q \in LivePaybacks(r) : Settled(q)' <=> Settled(q)
      BY <2>1, <2>3, <3>2 DEF Settled
    <3>4. r \in Rows /\ r # x /\ r # p
      BY <1>0, <2>1, <2>3
    <3>5. status'[r] = status[r]
      BY <2>3, <3>4
    <3> QED
      BY <2>1, <3>1, <3>3, <3>5 DEF DebtStands
  <2> QED
    BY <2>1, <2>4
<1>2. ASSUME NEW x \in Rows, UndoCredit(x)
      PROVE  /\ \A r \in Envelopes : status'[r] = status[r] /\ DebtStands(r)
             /\ \A y \in Rows : CardTotal(bought', y) = CardTotal(bought, y)
  <2> DEFINE xs == LivePaybacks(x)
  <2>1. /\ status[x] = "credit" /\ xs \in SUBSET Paybacks
        /\ repays' = [q \in Paybacks |-> IF q \in xs THEN NoRow ELSE repays[q]]
        /\ status' = [y \in Rows |-> IF y \in xs THEN "gone"
                                      ELSE [status EXCEPT ![x] = "projected"][y]]
        /\ record' = [y \in Rows |-> IF y \in xs THEN NoFigure ELSE record[y]]
        /\ bought' = Unlinked(bought, xs)
    BY <1>2 DEF UndoCredit, Erase, LivePaybacks
  <2>2. x \notin Envelopes /\ \A q \in Paybacks : q \in xs <=> repays[q] = x
    BY <2>1 DEF IInv, RowsAgree, LivePaybacks
  <2> HIDE DEF xs
  <2>3. SameButLinks(bought', bought)
    BY <1>0, <2>1, UnlinkedRelinks
  <2>4. \A y \in Rows : CardTotal(bought', y) = CardTotal(bought, y)
    BY <2>3, SameTotal DEF SameButLinks
  <2>5. ASSUME NEW r \in Envelopes PROVE status'[r] = status[r] /\ DebtStands(r)
    <3>1. LivePaybacks(r)' = LivePaybacks(r) /\ \A q \in LivePaybacks(r) : q \notin xs
      BY <1>0, <2>1, <2>2 DEF LivePaybacks
    <3>2. \A q \in LivePaybacks(r) : q \in Rows
      BY <1>0 DEF LivePaybacks
    <3>3. \A q \in LivePaybacks(r) : /\ Settled(q)' <=> Settled(q)
                                     /\ record'[q] = record[q]
      BY <1>0, <2>1, <3>1, <3>2 DEF Settled
    <3>4. r \in Rows /\ r # x /\ r \notin xs
      BY <1>0, <2>1, <2>2
    <3>5. status'[r] = status[r]
      BY <1>0, <2>1, <3>4
    <3>6. CardTotal(bought', r) = CardTotal(bought, r)
      BY <2>4, <3>4
    <3> QED
      BY <3>1, <3>3, <3>5, <3>6 DEF DebtStands
  <2> QED
    BY <2>4, <2>5
<1> QED
  BY <1>1, <1>2 DEF CreditDoors

\* A status door changes the status and the record of one live row.
LEMMA StatusMoves ==
    ASSUME IInv, StatusDoors
    PROVE  /\ UNCHANGED <<plan, repays, bought>>
           /\ \E x \in Rows :
                 /\ \A y \in Rows \ {x} : status'[y] = status[y] /\ record'[y] = record[y]
                 /\ status[x] \notin {"gone", "credit"} /\ status'[x] # "gone"
<1>0. status \in [Rows -> Statuses] /\ record \in [Rows -> Nat \cup {NoFigure}]
  BY DEF IInv, TypeOK
<1> DEFINE Moved(x) == /\ \A y \in Rows \ {x} : status'[y] = status[y] /\ record'[y] = record[y]
                       /\ status[x] \notin {"gone", "credit"} /\ status'[x] # "gone"
<1>1. ASSUME NEW x \in Rows, Cancel(x) \/ Revert(x)
      PROVE  UNCHANGED <<plan, repays, bought>> /\ Moved(x)
  BY <1>0, <1>1 DEF Cancel, Revert
<1>2. ASSUME NEW x \in Rows, SettleFromEntries(x)
      PROVE  UNCHANGED <<plan, repays, bought>> /\ Moved(x)
  BY <1>0, <1>2 DEF SettleFromEntries, Cover
<1>3. ASSUME NEW x \in Rows, NEW f, Settle(x, f)
      PROVE  UNCHANGED <<plan, repays, bought>> /\ Moved(x)
  BY <1>0, <1>3 DEF Settle, Cover
<1>4. ASSUME NEW x \in Rows, NEW f, Correct(x, f)
      PROVE  UNCHANGED <<plan, repays, bought>> /\ Moved(x)
  BY <1>0, <1>4 DEF Correct, Cover, Settled
<1> HIDE DEF Moved
<1>5. \E x \in Rows : UNCHANGED <<plan, repays, bought>> /\ Moved(x)
  BY <1>1, <1>2, <1>3, <1>4 DEF StatusDoors
<1> QED
  BY <1>5 DEF Moved

\* A row door adds r, deletes it with its chain, or leaves every debt alone;
\* the debts of the other rows stand.
LEMMA RowMoves ==
    ASSUME IInv, RowDoors
    PROVE  \/ /\ UNCHANGED <<status, record, repays, bought>>
           \/ \E r \in Sources :
                 /\ \A x \in Sources \ {r} : status'[x] = status[x] /\ DebtStands(x)
                 /\ \/ status[r] = "gone" /\ status'[r] # "gone" /\ DebtStands(r)
                    \/ /\ status'[r] = "gone" /\ LivePaybacks(r)' = {}
                       /\ CardTotal(bought', r) = 0
<1>0. /\ status \in [Rows -> Statuses] /\ bought \in [Purchases -> PurchaseRows]
      /\ repays \in [Paybacks -> Rows \cup {NoRow}]
      /\ Sources \subseteq Rows /\ Paybacks \subseteq Rows /\ NoRow \notin Rows
      /\ \A p \in Paybacks : p \notin Sources
  BY RowsAssumption DEF IInv, TypeOK, Rows, Sources
<1>1. ASSUME NEW r \in Sources, NEW f, EditPlan(r, f)
      PROVE  UNCHANGED <<status, record, repays, bought>>
  BY <1>1 DEF EditPlan
<1>2. ASSUME NEW r \in Sources, NEW f, AddRow(r, f)
      PROVE  /\ \A x \in Sources \ {r} : status'[x] = status[x] /\ DebtStands(x)
             /\ status[r] = "gone" /\ status'[r] # "gone" /\ DebtStands(r)
  <2>1. /\ status[r] = "gone" /\ status' = [status EXCEPT ![r] = "projected"]
        /\ UNCHANGED <<record, repays, bought>>
    BY <1>2 DEF AddRow
  <2>2. \A y \in Rows \ {r} : status'[y] = status[y]
    BY <1>0, <2>1
  <2>3. \A x : LivePaybacks(x)' = LivePaybacks(x) /\ r \notin LivePaybacks(x)
    BY <1>0, <2>1 DEF LivePaybacks
  <2>4. \A x : \A p \in LivePaybacks(x) : p \in Rows /\ p # r
    BY <1>0, <2>3 DEF LivePaybacks
  <2>5. \A x : \A p \in LivePaybacks(x) : Settled(p)' <=> Settled(p)
    BY <2>2, <2>4 DEF Settled
  <2>6. \A x : DebtStands(x)
    BY <2>1, <2>3, <2>5 DEF DebtStands
  <2>7. status'[r] # "gone"
    BY <1>0, <2>1
  <2> QED
    BY <1>0, <2>1, <2>2, <2>6, <2>7
<1>3. ASSUME NEW r \in Sources, DeleteRow(r)
      PROVE  /\ \A x \in Sources \ {r} : status'[x] = status[x] /\ DebtStands(x)
             /\ status'[r] = "gone" /\ LivePaybacks(r)' = {}
             /\ CardTotal(bought', r) = 0
  <2> DEFINE xs == Chain(r) \cup {r}
  <2>1. /\ \A p \in Paybacks : repays[p] \in xs => p \in xs
        /\ repays' = [p \in Paybacks |-> IF p \in xs THEN NoRow ELSE repays[p]]
        /\ status' = [x \in Rows |-> IF x \in xs THEN "gone" ELSE status[x]]
        /\ record' = [x \in Rows |-> IF x \in xs THEN NoFigure ELSE record[x]]
        /\ bought' = [e \in Purchases |-> IF bought[e].row = r THEN Absent ELSE bought[e]]
    BY <1>3 DEF DeleteRow, Erase
  <2>2. /\ r \in xs /\ Chain(r) \subseteq Paybacks
        /\ \A p \in Paybacks : p \in xs => repays[p] \in xs
    <3>1. Chain(r) \subseteq Paybacks
      BY DEF Chain
    <3>2. r \notin Paybacks
      BY <1>0
    <3> QED
      BY <3>1, <3>2, ChainSteps
  <2>3. \A x \in Sources \ {r} : x \in Rows /\ x # r /\ x # NoRow /\ x \notin xs
    BY <1>0, <2>2
  <2>4. r \in Rows /\ r # NoRow
    BY <1>0
  <2> HIDE DEF xs
  <2>5. \A x \in Sources \ {r} : status'[x] = status[x]
    BY <2>1, <2>3
  <2>6. ASSUME NEW x \in Sources \ {r} PROVE DebtStands(x)
    <3>1. CardTotal(bought', x) = CardTotal(bought, x)
      <4>1. \A e \in Purchases : bought'[e].row = x \/ bought[e].row = x
                                  => bought'[e] = bought[e]
        BY <2>1, <2>3 DEF Absent
      <4> QED
        BY <4>1, SameTotal
    <3>2. \A p \in Paybacks : repays[p] = x => p \notin xs
      BY <2>2, <2>3
    <3>3. \A p \in Paybacks : repays'[p] = x <=> repays[p] = x
      BY <2>1, <2>3, <3>2
    <3>4. LivePaybacks(x)' = LivePaybacks(x)
      BY <3>3 DEF LivePaybacks
    <3>5. \A p \in LivePaybacks(x) : p \in Rows /\ p \notin xs
      BY <1>0, <3>2 DEF LivePaybacks
    <3>6. \A p \in LivePaybacks(x) : status'[p] = status[p] /\ record'[p] = record[p]
      BY <2>1, <3>5
    <3> QED
      BY <3>1, <3>4, <3>6 DEF DebtStands, Settled
  <2>7. status'[r] = "gone"
    BY <2>1, <2>2, <2>4
  <2>8. LivePaybacks(r)' = {}
    BY <2>1, <2>2, <2>4 DEF LivePaybacks
  <2>9. CardTotal(bought', r) = 0
    <3>1. bought' \in [Purchases -> PurchaseRows]
      BY <1>0, <2>1 DEF PurchaseRows
    <3>2. \A e \in Purchases : bought'[e].row # r
      BY <2>1, <2>4 DEF Absent
    <3> QED
      BY <2>4, <3>1, <3>2, NothingBought
  <2> QED
    BY <2>5, <2>6, <2>7, <2>8, <2>9
<1> QED
  BY <1>1, <1>2, <1>3 DEF RowDoors

(***************************************************************************)
(* A paid debt is closed.                                                  *)
(***************************************************************************)

LEMMA PaidStep ==
    ASSUME IInv, [Next]_vars, NEW r \in Sources, NEW p \in Paybacks,
           repays[p] = r, Settled(p), status'[r] # "gone",
           CardTotal(bought', r) # CardTotal(bought, r)
    PROVE  /\ CardTotal(bought', r) = SettledFigure(p)
           /\ Settled(p)' /\ record'[p] = record[p] /\ repays'[p] = r
<1>0. r \in Rows /\ p \in LivePaybacks(r)
  BY DEF LivePaybacks, Rows
<1>1. CASE UNCHANGED vars
  BY <1>1 DEF vars
<1>2. CASE PurchaseDoors
  <2>1. PICK x, b, moves : /\ Edited(x, b) /\ Sync(x, b, moves)
                           /\ moves \/ CardTotal(b, x) = CardTotal(bought, x)
    BY <1>2, PurchaseDoorsSync DEF Synced
  <2>2. /\ Planned(x) \/ Kept(x) \/ Dropped(x) \/ Nothing(x)
        /\ \A y \in Sources \ {x} : DebtStands(y)
    BY <2>1, SyncMoves
  <2>3. r = x
    BY <2>2 DEF DebtStands
  <2>4. Kept(r)
    BY <1>0, <2>2, <2>3 DEF Planned, Dropped, Nothing
  <2> QED
    BY <1>0, <2>4 DEF Kept, LivePaybacks
<1>3. CASE CreditDoors
  BY <1>0, <1>3, CreditMoves
<1>4. CASE StatusDoors
  BY <1>4, StatusMoves
<1>5. CASE RowDoors
  BY <1>5, RowMoves DEF DebtStands
<1> QED
  BY <1>1, <1>2, <1>3, <1>4, <1>5 DEF Next

\* Once the payback of a row is paid, the row's card total moves only to the
\* very figure that was paid and no purchase door touches what the payback
\* recorded, whatever the purchases and however many paybacks there are.
THEOREM PaidSpendClosed ==
    Spec => PaidSpendIsClosed
<1>1. IInv /\ [Next]_vars =>
          [\A r \in Sources, p \in Paybacks :
              /\ repays[p] = r /\ Settled(p)
              /\ status'[r] # "gone"
              /\ CardTotal(bought', r) # CardTotal(bought, r)
              => /\ CardTotal(bought', r) = SettledFigure(p)
                 /\ Settled(p)' /\ record'[p] = record[p] /\ repays'[p] = r]_vars
  BY PaidStep
<1> QED
  BY <1>1, Inductive, PTL DEF Spec, PaidSpendIsClosed

(***************************************************************************)
(* The refinement of CardDebt.                                             *)
(***************************************************************************)

\* The debtors, their debts and their repayments, as CardDebt sees them.
Known == {r \in Envelopes : status[r] # "gone"}
Owed == [r \in Envelopes |-> CardTotal(bought, r)]
Repayments == [r \in Envelopes |-> CardRepayment(r)]

\* A row no debt of which moved.
Undisturbed(x) == (status'[x] = "gone" <=> status[x] = "gone") /\ DebtStands(x)

LEMMA RepaymentStands ==
    ASSUME IInv, IInv', NEW x \in Envelopes, DebtStands(x)
    PROVE  CardRepayment(x)' = CardRepayment(x)
<1>1. RepaymentIs(x) /\ RepaymentIs(x)'
  BY RepaymentCases, RepaymentCasesNext
<1>2. CASE LivePaybacks(x) = {}
  BY <1>1, <1>2 DEF RepaymentIs, DebtStands
<1>3. CASE LivePaybacks(x) # {}
  <2>1. PICK p \in Paybacks : /\ LivePaybacks(x) = {p}
                              /\ CardRepayment(x) = [planned |-> TRUE, paid |-> PaidBy(p)]
    BY <1>1, <1>3 DEF RepaymentIs
  <2>2. LivePaybacks(x)' = {p} /\ PaidBy(p)' = PaidBy(p)
    BY <2>1 DEF DebtStands, PaidBy, SettledFigure
  <2>3. CardRepayment(x)' = [planned |-> TRUE, paid |-> PaidBy(p)']
    BY <1>1, <2>2 DEF RepaymentIs
  <2> QED
    BY <2>1, <2>2, <2>3
<1> QED
  BY <1>2, <1>3

\* A step that disturbs the debt of r alone changes the three at r alone.
LEMMA OnlyOneMoves ==
    ASSUME IInv, IInv', NEW r \in Envelopes,
           \A x \in Envelopes \ {r} : Undisturbed(x)
    PROVE  /\ Known' \ {r} = Known \ {r}
           /\ Owed' = [Owed EXCEPT ![r] = CardTotal(bought', r)]
           /\ Repayments' = [Repayments EXCEPT ![r] = CardRepayment(r)']
<1>1. \A x \in Envelopes \ {r} : /\ CardTotal(bought', x) = CardTotal(bought, x)
                                 /\ CardRepayment(x)' = CardRepayment(x)
                                 /\ status'[x] = "gone" <=> status[x] = "gone"
  BY RepaymentStands DEF Undisturbed, DebtStands
<1> QED
  BY <1>1 DEF Known, Owed, Repayments

LEMMA NothingMoves ==
    ASSUME IInv, IInv', \A x \in Envelopes : Undisturbed(x)
    PROVE  UNCHANGED Debt!debts
<1>1. \A x \in Envelopes : /\ CardTotal(bought', x) = CardTotal(bought, x)
                           /\ CardRepayment(x)' = CardRepayment(x)
                           /\ status'[x] = "gone" <=> status[x] = "gone"
  BY RepaymentStands DEF Undisturbed, DebtStands
<1>2. Known' = Known /\ Owed' = Owed /\ Repayments' = Repayments
  BY <1>1 DEF Known, Owed, Repayments
<1> QED
  BY <1>2 DEF Debt!debts, Known, Owed, Repayments

\* What the sync of r did to its repayment.
LEMMA SyncRepayment ==
    ASSUME IInv, IInv', NEW r \in Envelopes, ~DebtStands(r),
           Planned(r) \/ Kept(r) \/ Dropped(r) \/ Nothing(r)
    PROVE  /\ CardRepayment(r).paid # NoFigure =>
                 /\ CardTotal(bought', r) > 0
                 /\ CardTotal(bought', r) = CardRepayment(r).paid
           /\ CardRepayment(r)' =
                 IF CardTotal(bought', r) = 0 THEN [planned |-> FALSE, paid |-> NoFigure]
                 ELSE [planned |-> TRUE, paid |-> CardRepayment(r).paid]
<1>1. RepaymentIs(r) /\ RepaymentIs(r)'
  BY RepaymentCases, RepaymentCasesNext
<1>2. ASSUME LivePaybacks(r) = {}
      PROVE  CardRepayment(r).paid = NoFigure
  BY <1>1, <1>2 DEF RepaymentIs
<1>3. ASSUME LivePaybacks(r)' = {}
      PROVE  CardRepayment(r)' = [planned |-> FALSE, paid |-> NoFigure]
  BY <1>1, <1>3 DEF RepaymentIs
<1>4. ASSUME NEW p, LivePaybacks(r) = {p}
      PROVE  CardRepayment(r).paid = PaidBy(p)
  BY <1>1, <1>4 DEF RepaymentIs
<1>5. ASSUME NEW p, LivePaybacks(r)' = {p}
      PROVE  CardRepayment(r)' = [planned |-> TRUE, paid |-> PaidBy(p)']
  BY <1>1, <1>5 DEF RepaymentIs
<1>6. CASE Planned(r)
  <2>1. PICK p \in Paybacks : LivePaybacks(r)' = {p} /\ ~Settled(p)'
    BY <1>6 DEF Planned
  <2>2. LivePaybacks(r) = {} /\ CardTotal(bought', r) > 0 /\ PaidBy(p)' = NoFigure
    BY <1>6, <2>1 DEF Planned, PaidBy
  <2>3. CardTotal(bought', r) # 0
    BY <1>6, TotalTyped DEF IInv, TypeOK, Planned, Rows, Sources
  <2> QED
    BY <1>2, <1>5, <2>1, <2>2, <2>3
<1>7. CASE Kept(r)
  <2>1. PICK p \in Paybacks :
           /\ LivePaybacks(r) = {p} /\ LivePaybacks(r)' = {p}
           /\ (Settled(p)' <=> Settled(p)) /\ record'[p] = record[p]
           /\ CardTotal(bought', r) > 0
           /\ \/ CardTotal(bought', r) = CardTotal(bought, r)
              \/ Settled(p) => SettledFigure(p) = CardTotal(bought', r)
    BY <1>7 DEF Kept
  <2>2. CardTotal(bought', r) # CardTotal(bought, r)
    BY <2>1 DEF DebtStands
  <2>3. PaidBy(p)' = PaidBy(p)
    BY <2>1 DEF PaidBy, SettledFigure
  <2>4. PaidBy(p) # NoFigure => PaidBy(p) = CardTotal(bought', r)
    BY <2>1, <2>2 DEF PaidBy
  <2>5. CardTotal(bought', r) # 0
    BY <2>1, TotalTyped DEF IInv, TypeOK, Rows, Sources
  <2> QED
    BY <1>4, <1>5, <2>1, <2>3, <2>4, <2>5
<1>8. CASE Dropped(r)
  <2>1. PICK p \in Paybacks : LivePaybacks(r) = {p} /\ PaidBy(p) = NoFigure
    BY <1>8 DEF Dropped, PaidBy
  <2> QED
    BY <1>3, <1>4, <1>8, <2>1 DEF Dropped
<1>9. CASE Nothing(r)
  BY <1>2, <1>3, <1>9 DEF Nothing
<1> QED
  BY <1>6, <1>7, <1>8, <1>9

LEMMA PurchaseRefines ==
    ASSUME IInv, IInv', PurchaseDoors
    PROVE  [Debt!DebtNext]_(Debt!debts)
<1>1. PICK r, b, moves : /\ Edited(r, b) /\ Sync(r, b, moves)
                         /\ moves \/ CardTotal(b, r) = CardTotal(bought, r)
  BY PurchaseDoorsSync DEF Synced
<1>2. /\ Planned(r) \/ Kept(r) \/ Dropped(r) \/ Nothing(r)
      /\ \A x \in Sources : status'[x] = status[x]
      /\ \A x \in Sources \ {r} : DebtStands(x)
  BY <1>1, SyncMoves
<1>3. r \in Envelopes /\ r \in Rows /\ status[r] # "gone"
  BY <1>1 DEF Edited, Rows, Sources
<1>4. \A x \in Envelopes \ {r} : Undisturbed(x)
  BY <1>2 DEF Undisturbed, Sources
<1>5. CASE DebtStands(r)
  <2>1. \A x \in Envelopes : Undisturbed(x)
    BY <1>2, <1>4, <1>5 DEF Undisturbed, Sources
  <2> QED
    BY <2>1, NothingMoves
<1>6. CASE ~DebtStands(r)
  <2>1. /\ Owed' = [Owed EXCEPT ![r] = CardTotal(bought', r)]
        /\ Repayments' = [Repayments EXCEPT ![r] = CardRepayment(r)']
    BY <1>3, <1>4, OnlyOneMoves
  <2>2. Known' = Known /\ r \in Known
    BY <1>2, <1>3 DEF Known, Sources
  <2>3. CardTotal(bought', r) \in Nat
    BY <1>3, TotalTyped DEF IInv, TypeOK, RowsAgree, CardSpendIsRepaid
  <2>4. Owed'[r] = CardTotal(bought', r) /\ Repayments[r] = CardRepayment(r)
    BY <1>3, <2>1 DEF Owed, Repayments
  <2>5. /\ CardRepayment(r).paid # NoFigure =>
              /\ CardTotal(bought', r) > 0
              /\ CardTotal(bought', r) = CardRepayment(r).paid
        /\ CardRepayment(r)' =
              IF CardTotal(bought', r) = 0 THEN [planned |-> FALSE, paid |-> NoFigure]
              ELSE [planned |-> TRUE, paid |-> CardRepayment(r).paid]
    BY <1>2, <1>3, <1>6, SyncRepayment
  <2>6. Debt!Spend(r)
    <3>1. Debt!Paid(r) => CardRepayment(r).paid # NoFigure
      BY <2>4 DEF Debt!Paid, Debt!Unpaid, Repayments, NoFigure
    <3>2. Repayments' = [Repayments EXCEPT ![r] =
                IF CardTotal(bought', r) = 0 THEN Debt!NoRepayment
                ELSE Debt!Repayment(@.paid)]
      BY <2>1, <2>4, <2>5 DEF Debt!NoRepayment, Debt!Repayment, Debt!Unpaid, NoFigure
    <3> QED
      BY <2>1, <2>2, <2>3, <2>4, <2>5, <3>1, <3>2 DEF Debt!Spend, Known, Owed, Repayments
  <2> QED
    BY <1>3, <2>6 DEF Debt!DebtNext
<1> QED
  BY <1>5, <1>6

LEMMA CreditRefines ==
    ASSUME IInv, IInv', CreditDoors
    PROVE  UNCHANGED Debt!debts
<1>1. \A x \in Envelopes : Undisturbed(x)
  BY CreditMoves DEF Undisturbed
<1> QED
  BY <1>1, NothingMoves

LEMMA StatusRefines ==
    ASSUME IInv, IInv', StatusDoors
    PROVE  [Debt!DebtNext]_(Debt!debts)
<1>1. PICK x \in Rows :
         /\ \A y \in Rows \ {x} : status'[y] = status[y] /\ record'[y] = record[y]
         /\ status[x] \notin {"gone", "credit"} /\ status'[x] # "gone"
  BY StatusMoves
<1>2. UNCHANGED <<repays, bought>>
  BY StatusMoves
<1>3. /\ \A r : LivePaybacks(r)' = LivePaybacks(r)
      /\ \A y \in Rows : status'[y] = "gone" <=> status[y] = "gone"
      /\ Envelopes \subseteq Rows /\ Paybacks \subseteq Rows
  BY <1>1, <1>2 DEF LivePaybacks, Rows, Sources
<1>4. ASSUME NEW r \in Envelopes, x \notin LivePaybacks(r) PROVE Undisturbed(r)
  <2>1. \A p \in LivePaybacks(r) : p \in Rows /\ p # x
    BY <1>3, <1>4 DEF LivePaybacks
  <2>2. \A p \in LivePaybacks(r) : /\ Settled(p)' <=> Settled(p)
                                   /\ record'[p] = record[p]
    BY <1>1, <2>1 DEF Settled
  <2> QED
    BY <1>2, <1>3, <2>2 DEF Undisturbed, DebtStands
<1>5. CASE \A r \in Envelopes : x \notin LivePaybacks(r)
  BY <1>4, <1>5, NothingMoves
<1>6. CASE \E r \in Envelopes : x \in LivePaybacks(r)
  <2>1. PICK r \in Envelopes : x \in LivePaybacks(r)
    BY <1>6
  <2>2. \A y \in Envelopes \ {r} : Undisturbed(y)
    BY <1>4, <2>1 DEF LivePaybacks
  <2>3. Repayments' = [Repayments EXCEPT ![r] = CardRepayment(r)']
    BY <2>2, OnlyOneMoves
  <2>4. Known' = Known /\ Owed' = Owed
    BY <1>2, <1>3 DEF Known, Owed
  <2>5. RepaymentIs(r) /\ RepaymentIs(r)'
    BY RepaymentCases, RepaymentCasesNext
  <2>6. CardRepayment(r).planned
    BY <2>1, <2>5 DEF RepaymentIs
  <2>7. PICK p \in Paybacks : CardRepayment(r)' = [planned |-> TRUE, paid |-> PaidBy(p)']
    BY <1>3, <2>1, <2>5 DEF RepaymentIs
  <2>8. PaidBy(p)' \in Nat \cup {NoFigure}
    BY <1>3 DEF PaidBy, SettledFigure, IInv, TypeOK
  <2>9. Repayments[r] = CardRepayment(r) /\ Repayments'[r] = CardRepayment(r)'
    BY <2>3 DEF Repayments
  <2>10. Debt!Repay(r)
    <3>1. Repayments[r].planned
      BY <2>6, <2>9
    <3>2. Repayments'[r].paid \in Nat \cup {Debt!Unpaid}
      BY <2>7, <2>8, <2>9 DEF Debt!Unpaid, NoFigure
    <3>3. Repayments' = [Repayments EXCEPT ![r] = Debt!Repayment(Repayments'[r].paid)]
      <4>1. CardRepayment(r)' = Debt!Repayment(CardRepayment(r)'.paid)
        BY <2>7 DEF Debt!Repayment
      <4> QED
        BY <2>3, <2>9, <4>1
    <3> QED
      BY <2>4, <3>1, <3>2, <3>3 DEF Debt!Repay, Known, Owed, Repayments
  <2> QED
    BY <2>1, <2>10 DEF Debt!DebtNext
<1> QED
  BY <1>5, <1>6

LEMMA RowRefines ==
    ASSUME IInv, IInv', RowDoors
    PROVE  [Debt!DebtNext]_(Debt!debts)
<1>1. CASE UNCHANGED <<status, record, repays, bought>>
  <2>1. \A x \in Envelopes : Undisturbed(x)
    BY <1>1 DEF Undisturbed, DebtStands, LivePaybacks, Settled
  <2> QED
    BY <2>1, NothingMoves
<1>2. ASSUME NEW r \in Sources,
             \A x \in Sources \ {r} : status'[x] = status[x] /\ DebtStands(x),
             status[r] = "gone", status'[r] # "gone", DebtStands(r)
      PROVE  [Debt!DebtNext]_(Debt!debts)
  <2>1. CASE r \notin Envelopes
    <3>1. \A x \in Envelopes : Undisturbed(x)
      BY <1>2, <2>1 DEF Undisturbed, Sources
    <3> QED
      BY <3>1, NothingMoves
  <2>2. CASE r \in Envelopes
    <3>1. \A x \in Envelopes \ {r} : Undisturbed(x)
      BY <1>2 DEF Undisturbed, Sources
    <3>2. \A x \in Envelopes : /\ CardTotal(bought', x) = CardTotal(bought, x)
                               /\ CardRepayment(x)' = CardRepayment(x)
      BY <1>2, <3>1, RepaymentStands DEF Undisturbed, DebtStands
    <3>3. Owed' = Owed /\ Repayments' = Repayments
      BY <3>2 DEF Owed, Repayments
    <3>4. Known' = Known \cup {r}
      BY <1>2, <2>2, <3>1 DEF Known, Undisturbed
    <3>5. Debt!Appear(r)
      BY <3>3, <3>4 DEF Debt!Appear, Known, Owed, Repayments
    <3> QED
      BY <2>2, <3>5 DEF Debt!DebtNext
  <2> QED
    BY <2>1, <2>2
<1>3. ASSUME NEW r \in Sources,
             \A x \in Sources \ {r} : status'[x] = status[x] /\ DebtStands(x),
             status'[r] = "gone", LivePaybacks(r)' = {}, CardTotal(bought', r) = 0
      PROVE  [Debt!DebtNext]_(Debt!debts)
  <2>1. CASE r \notin Envelopes
    <3>1. \A x \in Envelopes : Undisturbed(x)
      BY <1>3, <2>1 DEF Undisturbed, Sources
    <3> QED
      BY <3>1, NothingMoves
  <2>2. CASE r \in Envelopes
    <3>1. \A x \in Envelopes \ {r} : Undisturbed(x)
      BY <1>3 DEF Undisturbed, Sources
    <3>2. /\ Owed' = [Owed EXCEPT ![r] = 0]
          /\ Repayments' = [Repayments EXCEPT ![r] = CardRepayment(r)']
      BY <1>3, <2>2, <3>1, OnlyOneMoves
    <3>3. RepaymentIs(r)'
      BY <2>2, RepaymentCasesNext
    <3>4. CardRepayment(r)' = Debt!NoRepayment
      BY <1>3, <3>3 DEF RepaymentIs, Debt!NoRepayment, Debt!Unpaid, NoFigure
    <3>5. Known' = Known \ {r}
      BY <1>3, <3>1 DEF Known, Undisturbed
    <3>6. Debt!Disappear(r)
      BY <3>2, <3>4, <3>5 DEF Debt!Disappear, Known, Owed, Repayments
    <3> QED
      BY <2>2, <3>6 DEF Debt!DebtNext
  <2> QED
    BY <2>1, <2>2
<1> QED
  BY <1>1, <1>2, <1>3, RowMoves

LEMMA StepRefines ==
    ASSUME IInv, IInv', [Next]_vars
    PROVE  [Debt!DebtNext]_(Debt!debts)
<1>1. CASE UNCHANGED vars
  <2>1. UNCHANGED <<status, record, repays, bought>>
    BY <1>1 DEF vars, money
  <2>2. \A x \in Envelopes : Undisturbed(x)
    BY <2>1 DEF Undisturbed, DebtStands, LivePaybacks, Settled
  <2> QED
    BY <2>2, NothingMoves
<1> QED
  BY <1>1, PurchaseRefines, CreditRefines, StatusRefines, RowRefines DEF Next

LEMMA InitRefines ==
    ASSUME Init PROVE Debt!DebtInit
<1>1. IInv
  BY InitKeeps
<1>2. \A r \in Envelopes : r \in Rows /\ r # NoRow /\ status[r] = "gone"
  BY RowsAssumption DEF Init, Rows, Sources
<1>3. ASSUME NEW r \in Envelopes
      PROVE  CardTotal(bought, r) = 0 /\ CardRepayment(r) = Debt!NoRepayment
  <2>1. LivePaybacks(r) = {}
    BY <1>2 DEF Init, LivePaybacks
  <2>2. \A e \in Purchases : bought[e].row # r
    BY <1>2 DEF Init, Absent
  <2>3. CardTotal(bought, r) = 0
    BY <1>1, <1>2, <2>2, NothingBought DEF IInv, TypeOK
  <2> QED
    BY <2>1, <2>3, RepaymentOfNone DEF Debt!NoRepayment, Debt!Unpaid, NoFigure
<1>4. /\ Known = {}
      /\ Owed = [r \in Envelopes |-> 0]
      /\ Repayments = [r \in Envelopes |-> Debt!NoRepayment]
  BY <1>2, <1>3 DEF Known, Owed, Repayments
<1> QED
  BY <1>4 DEF Debt!DebtInit, Known, Owed, Repayments

\* The purchase, payment, credit and delete doors implement the debt of
\* CardDebt: spending on the card is a debt with one repayment, and a debt that
\* was repaid moves only to the very figure that repaid it, for every number of
\* envelopes, paybacks and purchases.
THEOREM CardDebtImplemented ==
    Spec => RepaysCardDebt
<1>1. Init => Debt!DebtInit
  BY InitRefines
<1>2. IInv /\ IInv' /\ [Next]_vars => [Debt!DebtNext]_(Debt!debts)
  BY StepRefines
<1> QED
  BY <1>1, <1>2, Inductive, PTL DEF Spec, RepaysCardDebt, Debt!DebtSpec

=============================================================================
