------------------------- MODULE TransferPairProofs -------------------------
(***************************************************************************)
(* Every door of a transfer keeps its two legs, their records and the      *)
(* journal in step, for any amounts, figures and days.                     *)
(*                                                                         *)
(* The inductive invariant adds three facts to the properties of the       *)
(* model: a figure of nothing leaves no record behind, a leg of a transfer *)
(* not settled holds nothing, and the records agree (the properties say it *)
(* of the journal too).  A door that settles is one argument over what its *)
(* legs were told: LegsResolve says which day each leg is given, and       *)
(* PairLands that the pair written on those days is sound.  A door that    *)
(* settles nothing is PairOpens.                                           *)
(***************************************************************************)
EXTENDS TransferPair, TLAPS

NoEmptyRecord == \A s \in Sides : record[s].amount = 0 => record[s] = NoRecord
OnlySettledHold == status # "done" => \A s \in Sides : leg[s] = Nowhere
RecordsAgree == /\ record["expense"].amount = record["income"].amount
                /\ record["expense"].stated = record["income"].stated

LegType == [settle : SettleDays, link : Days \cup {Never}]
RecordType == [amount : Nat, stated : BOOLEAN, at : LegType]

\* What the doors write of the legs and their records.
LegsTyped == /\ leg \in [Sides -> LegType]
             /\ record \in [Sides -> RecordType]
PairSound ==
    /\ LegsTyped /\ NoEmptyRecord /\ OnlySettledHold /\ RecordsAgree
    /\ RecordsMirrorLegs /\ GuessesFollowEvidence
    /\ DatedExactlyWhenSettled /\ LinksNameTheirDay

\* The plain columns.
ColumnsTyped ==
    /\ status \in {"gone", "projected", "done", "cancelled"}
    /\ deleted \in BOOLEAN
    /\ plan \in Plans
    /\ fresh \in BOOLEAN
    /\ today \in Days

\* LedgerMatchesPair, as the value of the whole journal.
LedgerIsPair ==
    posted = [s \in Sides |-> IF status = "done" /\ ~deleted /\ record[s].amount # 0
                              THEN [day |-> leg[s].settle.day, amount |-> record[s].amount]
                              ELSE Nothing]

IInv == ColumnsTyped /\ PairSound /\ UnstatedFigureIsThePlan /\ LedgerIsPair

\* What a door tells the legs: at most a day with its evidence, and a day the
\* record already shows only when the bank now shows it too.
Told(said) ==
    \A s \in Sides :
        \/ said[s] = Unstated
        \/ /\ said[s] \in [day : 1..today, basis : Evidence]
           /\ \/ said[s].basis = "observed"
              \/ record[s].amount = 0
              \/ record[s].at.settle.basis \notin Evidence
              \/ said[s].day # record[s].at.settle.day

-----------------------------------------------------------------------------
(***************************************************************************)
(* The days of the legs.                                                   *)
(***************************************************************************)

\* _own: a leg's own day is evidence, and an evidenced leg always has one.
LEMMA OwnDays ==
    ASSUME ColumnsTyped, PairSound, NEW said, Told(said), NEW s \in Sides
    PROVE /\ \/ OwnDay(s, said) = Unstated
             \/ OwnDay(s, said) \in [day : 1..today, basis : Evidence]
          /\ leg[s].settle.basis \in Evidence => OwnDay(s, said) # Unstated
BY DEF ColumnsTyped, PairSound, Told, OwnDay, LegsTyped, LegType, SettleDays, Unstated,
       Evidence, DatedExactlyWhenSettled, OnlySettledHold, Nowhere, Days, Never

\* repair_fallback dates a pair on a day that has come.
LEMMA FallbackDay ==
    ASSUME ColumnsTyped, PairSound
    PROVE Fallback \in 1..today
BY DEF ColumnsTyped, PairSound, Fallback, DatedExactlyWhenSettled, Sides, Days

\* resolve_pair_days: each leg has a day, a guess is the other leg's day, and
\* a leg that had evidence keeps evidence.
LEMMA LegsResolve ==
    ASSUME ColumnsTyped, PairSound, NEW said, Told(said), NEW s \in Sides
    PROVE /\ ResolvedDay(s, said) \in [day : 1..today, basis : Evidence \cup {"borrowed"}]
          /\ ResolvedDay(s, said).basis = "borrowed" =>
                 ResolvedDay(s, said).day = ResolvedDay(Other(s), said).day
          /\ leg[s].settle.basis \in Evidence => ResolvedDay(s, said).basis \in Evidence
          /\ said[s] # Unstated => ResolvedDay(s, said) = said[s]
          /\ said[s] = Unstated /\ leg[s].settle.basis \in Evidence
                 => ResolvedDay(s, said) = leg[s].settle
<1> DEFINE t == Other(s)
<1>1. t \in Sides /\ Other(t) = s
  BY DEF Sides, Other
<1>2. /\ \/ OwnDay(s, said) = Unstated
         \/ OwnDay(s, said) \in [day : 1..today, basis : Evidence]
      /\ leg[s].settle.basis \in Evidence => OwnDay(s, said) # Unstated
  BY OwnDays
<1>3. \/ OwnDay(t, said) = Unstated
      \/ OwnDay(t, said) \in [day : 1..today, basis : Evidence]
  BY OwnDays, <1>1
<1>4. Fallback \in 1..today
  BY FallbackDay
<1>5. /\ ResolvedDay(s, said) = IF OwnDay(s, said) # Unstated THEN OwnDay(s, said)
            ELSE Borrowed(IF OwnDay(t, said) # Unstated THEN OwnDay(t, said).day ELSE Fallback)
      /\ ResolvedDay(t, said) = IF OwnDay(t, said) # Unstated THEN OwnDay(t, said)
            ELSE Borrowed(IF OwnDay(s, said) # Unstated THEN OwnDay(s, said).day ELSE Fallback)
  BY <1>1 DEF ResolvedDay
<1>6. /\ said[s] # Unstated => OwnDay(s, said) = said[s]
      /\ said[s] = Unstated /\ leg[s].settle.basis \in Evidence => OwnDay(s, said) = leg[s].settle
  BY DEF OwnDay, PairSound, OnlySettledHold, Nowhere, Unstated, Evidence
<1> HIDE DEF t
<1>7. ResolvedDay(s, said) \in [day : 1..today, basis : Evidence \cup {"borrowed"}]
  BY <1>2, <1>3, <1>4, <1>5 DEF Borrowed
<1>8. ResolvedDay(s, said).basis = "borrowed" => ResolvedDay(s, said).day = ResolvedDay(t, said).day
  BY <1>2, <1>3, <1>4, <1>5 DEF Borrowed, Evidence
<1>9. /\ leg[s].settle.basis \in Evidence => ResolvedDay(s, said).basis \in Evidence
      /\ said[s] # Unstated => ResolvedDay(s, said) = said[s]
      /\ said[s] = Unstated /\ leg[s].settle.basis \in Evidence
             => ResolvedDay(s, said) = leg[s].settle
  BY <1>2, <1>5, <1>6
<1>q. QED
  BY <1>7, <1>8, <1>9 DEF t

-----------------------------------------------------------------------------
(***************************************************************************)
(* The records of the legs.                                                *)
(***************************************************************************)

\* A leg given a day is dated, and stays linked only with its evidence.
LEMMA DatedLeg ==
    ASSUME ColumnsTyped, PairSound, NEW said, Told(said), NEW s \in Sides,
           NEW to, to = Dated(s, ResolvedDay(s, said))
    PROVE /\ to \in LegType
          /\ to.settle = ResolvedDay(s, said)
          /\ to.settle.day \in 1..today
          /\ to.link # Never => to.settle.day = to.link /\ to.settle.basis \in Evidence
          /\ to.link = IF to.settle.day = leg[s].settle.day THEN leg[s].link ELSE Never
<1>1. /\ ResolvedDay(s, said) \in [day : 1..today, basis : Evidence \cup {"borrowed"}]
      /\ leg[s].settle.basis \in Evidence => ResolvedDay(s, said).basis \in Evidence
  BY LegsResolve
<1>2. leg[s].link # Never => /\ leg[s].settle.day = leg[s].link
                             /\ leg[s].settle.basis \in Evidence
  BY DEF PairSound, LinksNameTheirDay
<1>3. leg[s] \in LegType /\ today \in Days
  BY DEF PairSound, LegsTyped, ColumnsTyped
<1> DEFINE r == ResolvedDay(s, said)
<1> HIDE DEF r
<1>4. r \in SettleDays /\ r.day \in 1..today
  BY <1>1, <1>3, LastDayAssumption DEF r, SettleDays, Days
<1>5. to = [settle |-> r, link |-> IF r.day = leg[s].settle.day THEN leg[s].link ELSE Never]
  BY DEF Dated, r
<1>q. QED
  BY <1>1, <1>2, <1>3, <1>4, <1>5 DEF LegType, Never, r

\* _mirror_assertion: whatever the record said, it now says what its leg says.
LEMMA RecordFollows ==
    ASSUME ColumnsTyped, PairSound, NEW said, Told(said), NEW s \in Sides
    PROVE Mirror(record[s].at, Dated(s, ResolvedDay(s, said))) = Dated(s, ResolvedDay(s, said))
<1> DEFINE to == Dated(s, ResolvedDay(s, said))
           at == record[s].at
<1>1. /\ to \in LegType
      /\ to.settle = ResolvedDay(s, said)
      /\ to.settle.day \in 1..today
      /\ to.link = IF to.settle.day = leg[s].settle.day THEN leg[s].link ELSE Never
  BY DatedLeg
<1>2. at \in LegType
  BY DEF PairSound, LegsTyped, RecordType
<1>3. CASE record[s].amount = 0
  <2>1. at.settle.day = Never
    BY <1>3 DEF PairSound, NoEmptyRecord, NoRecord, Nowhere, Unstated
  <2>2. at.settle.day # to.settle.day
    BY <2>1, <1>1 DEF Never, ColumnsTyped, Days
  <2>q. QED
    BY <2>2 DEF Mirror
<1>4. CASE record[s].amount # 0 /\ at.settle.day # to.settle.day
  BY <1>4 DEF Mirror
<1>5. CASE record[s].amount # 0 /\ at.settle.day = to.settle.day
  <2>1. at = leg[s]
    BY <1>5 DEF PairSound, RecordsMirrorLegs
  <2>2. to.link = at.link
    BY <2>1, <1>1, <1>5
  <2>3. to.settle.basis = "observed" \/ at.settle.basis \notin Evidence \/ at.settle = to.settle
    <3>1. CASE said[s] = Unstated
      BY <3>1, <2>1, <1>1, LegsResolve
    <3>2. CASE said[s] # Unstated
      BY <3>2, <1>1, <1>5, LegsResolve DEF Told
    <3>q. QED
      BY <3>1, <3>2
  <2>4. Mirror(at, to) = [settle |-> to.settle, link |-> to.link]
    BY <2>2, <2>3, <1>5 DEF Mirror
  <2>5. to = [settle |-> to.settle, link |-> to.link]
    BY <1>1 DEF LegType
  <2>q. QED
    BY <2>4, <2>5
<1>q. QED
  BY <1>3, <1>4, <1>5


-----------------------------------------------------------------------------
(***************************************************************************)
(* The doors of the pair.                                                  *)
(***************************************************************************)

\* A leg dated, one that borrowed its day on the other's, and a record of the
\* one figure that says what its leg says.
Landed(amount, byHand) ==
    /\ status' = "done"
    /\ leg' \in [Sides -> LegType]
    /\ \A s \in Sides :
           /\ leg'[s].settle.day \in 1..today
           /\ leg'[s].settle.basis = "borrowed" =>
                  leg'[s].settle.day = leg'[Other(s)].settle.day /\ leg'[s].link = Never
           /\ leg'[s].link # Never =>
                  leg'[s].settle.day = leg'[s].link /\ leg'[s].settle.basis \in Evidence
    /\ record' = [s \in Sides |-> IF amount = 0 THEN NoRecord
                                  ELSE [amount |-> amount, stated |-> byHand, at |-> leg'[s]]]

\* A pair that landed is sound.
LEMMA LandedIsSound ==
    ASSUME NEW amount \in Nat, NEW byHand \in BOOLEAN, Landed(amount, byHand), today' = today
    PROVE PairSound'
<1>1. LegsTyped'
  <2>1. NoRecord \in RecordType
    BY DEF NoRecord, RecordType, Nowhere, LegType, SettleDays
  <2>2. \A s \in Sides : leg'[s] \in LegType
    BY DEF Landed
  <2>q. QED
    BY <2>1, <2>2 DEF Landed, LegsTyped, RecordType
<1>2. NoEmptyRecord' /\ RecordsAgree' /\ RecordsMirrorLegs'
  BY DEF Landed, NoEmptyRecord, RecordsAgree, RecordsMirrorLegs, NoRecord, Sides
<1>3. OnlySettledHold' /\ GuessesFollowEvidence' /\ LinksNameTheirDay' /\ DatedExactlyWhenSettled'
  BY DEF Landed, OnlySettledHold, GuessesFollowEvidence, LinksNameTheirDay,
         DatedExactlyWhenSettled
<1>q. QED
  BY <1>1, <1>2, <1>3 DEF PairSound

\* apply_status_to_all_three under Done: the pair lands on the resolved days.
LEMMA PairLands ==
    ASSUME ColumnsTyped, PairSound, NEW said, Told(said),
           NEW amount \in Nat, NEW byHand \in BOOLEAN, LandDone(said, amount, byHand)
    PROVE Landed(amount, byHand)
<1>1. \A s \in Sides : leg'[s] = Dated(s, ResolvedDay(s, said))
  BY DEF LandDone
<1>2. ASSUME NEW s \in Sides
      PROVE /\ leg'[s] \in LegType
            /\ leg'[s].settle = ResolvedDay(s, said)
            /\ leg'[s].settle.day \in 1..today
            /\ leg'[s].link # Never =>
                   leg'[s].settle.day = leg'[s].link /\ leg'[s].settle.basis \in Evidence
  BY <1>1, <1>2, DatedLeg
<1>3. ASSUME NEW s \in Sides, leg'[s].settle.basis = "borrowed"
      PROVE leg'[s].settle.day = leg'[Other(s)].settle.day /\ leg'[s].link = Never
  <2>1. Other(s) \in Sides
    BY DEF Other, Sides
  <2>2. leg'[s].settle = ResolvedDay(s, said) /\ leg'[Other(s)].settle = ResolvedDay(Other(s), said)
    BY <1>2, <2>1
  <2>3. leg'[s].settle.day = leg'[Other(s)].settle.day
    BY <2>2, <1>3, LegsResolve
  <2>4. leg'[s].link = Never
    BY <1>2, <1>3 DEF Evidence
  <2>q. QED
    BY <2>3, <2>4
<1>4. ASSUME NEW s \in Sides, amount # 0
      PROVE record'[s] = [amount |-> amount, stated |-> byHand, at |-> leg'[s]]
  <2>1. record'[s] = [amount |-> amount, stated |-> byHand, at |-> Mirror(record[s].at, leg'[s])]
    BY <1>4 DEF LandDone, Covered
  <2>2. Mirror(record[s].at, leg'[s]) = leg'[s]
    BY <1>1, RecordFollows
  <2>q. QED
    BY <2>1, <2>2
<1>5. record' = [s \in Sides |-> IF amount = 0 THEN NoRecord
                                 ELSE [amount |-> amount, stated |-> byHand, at |-> leg'[s]]]
  BY <1>4 DEF LandDone, Covered
<1>6. leg' \in [Sides -> LegType]
  BY <1>2 DEF LandDone
<1>q. QED
  BY <1>2, <1>3, <1>5, <1>6 DEF Landed, LandDone

\* apply_status_to_all_three under a status that settles nothing: the legs are
\* emptied and the records that stay say so.
LEMMA PairOpens ==
    ASSUME ColumnsTyped, PairSound, NEW new, new # "done", LandOpen(new), today' = today
    PROVE /\ PairSound'
          /\ \A s \in Sides : /\ record'[s].amount = record[s].amount
                              /\ record'[s].stated = record[s].stated
<1>1. ASSUME NEW s \in Sides
      PROVE /\ record'[s] \in RecordType
            /\ record[s].amount = 0 => record'[s] = NoRecord
            /\ record'[s].amount = record[s].amount
            /\ record'[s].stated = record[s].stated
            /\ record[s].amount # 0 => record'[s].at = Nowhere
  <2>1. record[s] \in RecordType /\ leg[s] \in LegType
    BY DEF PairSound, LegsTyped
  <2>2. Nowhere \in LegType
    BY DEF Nowhere, LegType, SettleDays
  <2>3. CASE record[s].amount = 0
    BY <2>1, <2>3 DEF LandOpen, Follows, PairSound, NoEmptyRecord
  <2>4. CASE record[s].amount # 0 /\ status # "done"
    BY <2>1, <2>4 DEF LandOpen, PairSound, RecordsMirrorLegs, OnlySettledHold
  <2>5. CASE record[s].amount # 0 /\ status = "done"
    <3>1. record[s].at.settle.day # Never
      BY <2>5 DEF PairSound, RecordsMirrorLegs, DatedExactlyWhenSettled, Never, ColumnsTyped, Days
    <3>2. Mirror(record[s].at, Nowhere) = Nowhere
      BY <3>1 DEF Mirror, Nowhere, Unstated
    <3>3. record'[s] = [record[s] EXCEPT !.at = Nowhere]
      BY <2>5, <3>2 DEF LandOpen, Follows
    <3>q. QED
      BY <2>1, <2>2, <2>5, <3>3 DEF RecordType
  <2>q. QED
    BY <2>3, <2>4, <2>5
<1>2. leg' = [s \in Sides |-> Nowhere] /\ status' = new
  BY DEF LandOpen
<1>3. LegsTyped'
  <2>1. Nowhere \in LegType
    BY DEF Nowhere, LegType, SettleDays
  <2>q. QED
    BY <1>1, <1>2, <2>1 DEF LegsTyped, LandOpen
<1>4. NoEmptyRecord' /\ RecordsMirrorLegs' /\ RecordsAgree'
  BY <1>1, <1>2 DEF NoEmptyRecord, RecordsMirrorLegs, RecordsAgree, PairSound, Sides
<1>5. OnlySettledHold' /\ GuessesFollowEvidence' /\ LinksNameTheirDay' /\ DatedExactlyWhenSettled'
  BY <1>2 DEF OnlySettledHold, GuessesFollowEvidence, LinksNameTheirDay, DatedExactlyWhenSettled,
              Nowhere, Unstated, Never
<1>q. QED
  BY <1>1, <1>3, <1>4, <1>5 DEF PairSound


-----------------------------------------------------------------------------
(***************************************************************************)
(* The invariant.                                                          *)
(***************************************************************************)

\* Nobody said anything: settle_transfer and restore_transfer.
LEMMA SilenceIsTold == Told(NothingSaid)
BY DEF Told, NothingSaid

\* One leg is told a day the bank saw.
LEMMA ObservedIsTold ==
    ASSUME NEW s \in Sides, NEW d \in 1..today
    PROVE Told(Saying(s, Observed(d)))
BY DEF Told, Saying, NothingSaid, Observed, Evidence, Sides

\* A leg not settled has a record that shows no day.
LEMMA KnownIsTold ==
    ASSUME ColumnsTyped, PairSound, status # "done", NEW s \in Sides, NEW d \in 1..today
    PROVE Told(Saying(s, Known(d)))
<1>1. Saying(s, Known(d)) = [t \in Sides |-> IF t = s THEN Known(d) ELSE Unstated]
  BY DEF Saying, NothingSaid
<1>2. \A t \in Sides : record[t].amount = 0 \/ record[t].at.settle.basis \notin Evidence
  BY DEF PairSound, RecordsMirrorLegs, OnlySettledHold, Nowhere, Unstated, Evidence
<1>3. Known(d) \in [day : 1..today, basis : Evidence]
  BY DEF Known, Evidence
<1>q. QED
  BY <1>1, <1>2, <1>3 DEF Told

\* _grade_submitted_side_days: a box that repeats what was drawn says nothing.
LEMMA GradedIsTold ==
    ASSUME ColumnsTyped, NEW boxes \in [Sides -> Days \cup {Never}],
           \A s \in Sides : boxes[s] <= today
    PROVE Told(Graded(boxes))
<1> SUFFICES ASSUME NEW s \in Sides, Graded(boxes)[s] # Unstated
             PROVE /\ Graded(boxes)[s] \in [day : 1..today, basis : Evidence]
                   /\ \/ record[s].amount = 0
                      \/ record[s].at.settle.basis \notin Evidence
                      \/ Graded(boxes)[s].day # record[s].at.settle.day
  BY DEF Told
<1>1. /\ Graded(boxes)[s] = Known(boxes[s])
      /\ boxes[s] # Never /\ boxes[s] # Prefill(s).day
  BY DEF Graded
<1>2. boxes[s] \in 1..today
  BY <1>1 DEF Days, Never, ColumnsTyped
<1>q. QED
  BY <1>1, <1>2 DEF Known, Evidence, Prefill

\* The figure a pair is booked at, and who said it.
LEMMA HeldFigure ==
    ASSUME PairSound
    PROVE Held.amount \in Nat /\ Held.stated \in BOOLEAN /\ (Held.stated => Held.amount # 0)
BY DEF PairSound, LegsTyped, RecordType, Held, Sides, NoEmptyRecord, NoRecord

\* Settle prices the pair once, at the plan unless somebody stated a figure.
LEMMA SettleSound ==
    ASSUME ColumnsTyped, PairSound, NEW said, Told(said), NEW p \in Plans,
           NEW figure \in Figures \cup {NoFigure}, Settle(said, p, figure),
           plan' = p, today' = today
    PROVE PairSound' /\ UnstatedFigureIsThePlan' /\ status' = "done"
<1>1. PICK amount \in Nat, byHand \in BOOLEAN :
          /\ LandDone(said, amount, byHand)
          /\ ~byHand => amount = p
  <2>1. CASE figure \in {NoFigure, Booked(p)}
    BY <2>1, HeldFigure, PlansAssumption DEF Settle, Booked
  <2>2. CASE figure \notin {NoFigure, Booked(p)}
    BY <2>2, FiguresAssumption DEF Settle
  <2>q. QED
    BY <2>1, <2>2
<1>2. Landed(amount, byHand)
  BY <1>1, PairLands
<1>3. PairSound'
  BY <1>2, LandedIsSound
<1>4. UnstatedFigureIsThePlan'
  BY <1>1, <1>2 DEF UnstatedFigureIsThePlan, Landed, NoRecord
<1>q. QED
  BY <1>2, <1>3, <1>4 DEF Landed

\* Correct keeps the recorded figure and its author, or takes a stated one.
LEMMA CorrectSound ==
    ASSUME ColumnsTyped, PairSound, UnstatedFigureIsThePlan, status = "done",
           NEW said, Told(said), NEW figure \in Figures \cup {NoFigure},
           Correct(said, figure), plan' = plan, today' = today
    PROVE PairSound' /\ UnstatedFigureIsThePlan' /\ status' = "done"
<1>1. PICK amount \in Nat, byHand \in BOOLEAN :
          /\ LandDone(said, amount, byHand)
          /\ ~byHand /\ amount # 0 => amount = plan
  <2>1. CASE figure \in {NoFigure, Held.amount}
    <3>1. ~Held.stated /\ Held.amount # 0 => Held.amount = plan
      BY DEF UnstatedFigureIsThePlan, Held, Sides
    <3>2. LandDone(said, Held.amount, Held.stated)
      BY <2>1 DEF Correct
    <3>q. QED
      BY <3>1, <3>2, HeldFigure
  <2>2. CASE figure \notin {NoFigure, Held.amount}
    BY <2>2, FiguresAssumption DEF Correct
  <2>q. QED
    BY <2>1, <2>2
<1>2. Landed(amount, byHand)
  BY <1>1, PairLands
<1>3. PairSound'
  BY <1>2, LandedIsSound
<1>4. UnstatedFigureIsThePlan'
  BY <1>1, <1>2 DEF UnstatedFigureIsThePlan, Landed, NoRecord
<1>q. QED
  BY <1>2, <1>3, <1>4 DEF Landed

\* sync_transfer_postings on a sound pair.
LEMMA SyncedLedger ==
    ASSUME PairSound', SyncPostings
    PROVE LedgerIsPair'
BY DEF SyncPostings, Target, LedgerIsPair, PairSound, RecordsMirrorLegs

\* _reconcile_postings_after_update of a door that settles or moves a status.
LEMMA ReconcileSyncs ==
    ASSUME NEW keys, Reconcile(keys),
           "status_id" \in keys \/ ("side_days" \in keys /\ status' = "done")
    PROVE SyncPostings
BY DEF Reconcile, PostingRelevant

\* The version of the parent is a fact about the form, in or out.
LEMMA VersionTyped == ASSUME ColumnsTyped, Versioned PROVE fresh' \in BOOLEAN
BY DEF ColumnsTyped, Versioned

LEMMA InitSound == ASSUME Init PROVE IInv
<1>1. ColumnsTyped
  <2>1. today \in Days
    BY LastDayAssumption DEF Init, Days
  <2>2. deleted \in BOOLEAN /\ fresh \in BOOLEAN
    BY Zenon DEF Init
  <2>q. QED
    BY <2>1, <2>2 DEF Init, ColumnsTyped
<1>2. PairSound
  <2>1. Nowhere \in LegType
    BY DEF Nowhere, LegType, SettleDays
  <2>2. NoRecord \in RecordType
    BY <2>1 DEF NoRecord, RecordType
  <2>3. LegsTyped
    BY <2>1, <2>2 DEF LegsTyped, Init
  <2>q. QED
    BY <2>3 DEF Init, PairSound, NoEmptyRecord, OnlySettledHold, RecordsAgree, RecordsMirrorLegs,
           GuessesFollowEvidence, DatedExactlyWhenSettled, LinksNameTheirDay, Sides, Nowhere,
           NoRecord, Unstated, Never
<1>3. UnstatedFigureIsThePlan /\ LedgerIsPair
  BY DEF Init, UnstatedFigureIsThePlan, LedgerIsPair
<1>q. QED
  BY <1>1, <1>2, <1>3 DEF IInv


\* A door that writes the whole pair and its journal keeps the invariant.
LEMMA DoorSound ==
    ASSUME IInv, PairSound', UnstatedFigureIsThePlan', SyncPostings, Versioned,
           status' \in {"gone", "projected", "done", "cancelled"},
           deleted' \in BOOLEAN, plan' \in Plans, today' = today
    PROVE IInv'
<1>1. LedgerIsPair'
  BY SyncedLedger
<1>2. fresh' \in BOOLEAN
  BY VersionTyped DEF IInv
<1>3. today' \in Days'
  BY DEF IInv, ColumnsTyped, Days
<1>4. ColumnsTyped'
  BY <1>2, <1>3 DEF ColumnsTyped, Days
<1>q. QED
  BY <1>1, <1>4 DEF IInv

\* mark_done
LEMMA MarkDoneSound == ASSUME IInv, MarkDone PROVE IInv'
<1>1. ColumnsTyped /\ PairSound /\ UnstatedFigureIsThePlan
  BY DEF IInv
<1>2. PairSound' /\ UnstatedFigureIsThePlan' /\ status' = "done"
  <2>1. CASE status = "done"
    BY <1>1, <2>1, CorrectSound, SilenceIsTold DEF MarkDone
  <2>2. CASE status # "done"
    BY <1>1, <2>2, SettleSound, SilenceIsTold DEF MarkDone, ColumnsTyped
  <2>q. QED
    BY <2>1, <2>2
<1>3. SyncPostings
  BY ReconcileSyncs DEF MarkDone
<1>4. /\ Versioned /\ today' = today /\ plan' \in Plans
      /\ deleted' = deleted /\ deleted \in BOOLEAN
  BY <1>1 DEF MarkDone, ColumnsTyped
<1>q. QED
  BY <1>2, <1>3, <1>4, DoorSound

\* _apply_day
LEMMA MatchLineSound ==
    ASSUME IInv, NEW s \in Sides, NEW d \in Days, MatchLine(s, d)
    PROVE IInv'
<1>1. ColumnsTyped /\ PairSound /\ UnstatedFigureIsThePlan
  BY DEF IInv
<1>2. Told(Saying(s, Observed(d)))
  BY <1>1, ObservedIsTold DEF MatchLine, ColumnsTyped, Days
<1>3. PairSound' /\ UnstatedFigureIsThePlan' /\ status' = "done"
  <2>1. CASE status = "projected"
    BY <1>1, <1>2, <2>1, SettleSound DEF MatchLine, ColumnsTyped
  <2>2. CASE status = "done"
    BY <1>1, <1>2, <2>2, CorrectSound DEF MatchLine
  <2>q. QED
    BY <2>1, <2>2 DEF MatchLine
<1>4. SyncPostings
  BY <1>3, ReconcileSyncs DEF MatchLine
<1>5. /\ Versioned /\ today' = today /\ plan' \in Plans
      /\ deleted' = deleted /\ deleted \in BOOLEAN
  BY <1>1 DEF MatchLine, ColumnsTyped
<1>q. QED
  BY <1>3, <1>4, <1>5, DoorSound

\* _settle_one and record_clearing
LEMMA TickSound ==
    ASSUME IInv, NEW s \in Sides, NEW d \in Days, NEW figure \in Figures \cup {NoFigure},
           Tick(s, d, figure)
    PROVE IInv'
<1>1. ColumnsTyped /\ PairSound /\ UnstatedFigureIsThePlan
  BY DEF IInv
<1> DEFINE said == Saying(s, Known(d))
           to == [t \in Sides |-> IF t = s THEN [settle |-> ResolvedDay(t, said), link |-> d]
                                  ELSE Dated(t, ResolvedDay(t, said))]
           amount == IF figure = NoFigure THEN Booked(plan) ELSE figure
           byHand == Held.stated \/ amount # Booked(plan)
<1>2. status = "projected" /\ d \in 1..today /\ status' = "done"
  BY <1>1 DEF Tick, ColumnsTyped, Days
<1>3. Told(said)
  BY <1>1, <1>2, KnownIsTold
<1>4. said = [t \in Sides |-> IF t = s THEN Known(d) ELSE Unstated]
  BY DEF Saying, NothingSaid
<1>5. amount \in Nat /\ byHand \in BOOLEAN /\ (~byHand => amount = plan)
  BY <1>1, HeldFigure, FiguresAssumption, PlansAssumption DEF Booked, ColumnsTyped
<1>6. leg' = to /\ record' = [t \in Sides |-> Covered(t, amount, byHand, to[t])]
  BY DEF Tick
<1> HIDE DEF said, amount, byHand
<1>7. ASSUME NEW t \in Sides
      PROVE /\ leg'[t].settle = ResolvedDay(t, said)
            /\ leg'[t].link = IF t = s THEN d ELSE Never
            /\ leg'[t] \in LegType
            /\ leg'[t].settle.day \in 1..today
            /\ t = s => leg'[t].settle.day = d /\ leg'[t].settle.basis = "known"
  <2>1. leg[t].link = Never
    BY <1>1, <1>2 DEF PairSound, OnlySettledHold, Nowhere
  <2>2. Dated(t, ResolvedDay(t, said)) = [settle |-> ResolvedDay(t, said), link |-> Never]
    BY <2>1 DEF Dated
  <2>3. leg'[t] = [settle |-> ResolvedDay(t, said), link |-> IF t = s THEN d ELSE Never]
    <3>1. CASE t = s
      BY <1>6, <3>1
    <3>2. CASE t # s
      BY <1>6, <2>2, <3>2
    <3>q. QED
      BY <3>1, <3>2
  <2>4. leg'[t].settle = ResolvedDay(t, said) /\ leg'[t].link = IF t = s THEN d ELSE Never
    BY <2>3
  <2>5. ResolvedDay(t, said) \in SettleDays /\ ResolvedDay(t, said).day \in 1..today
    BY <1>1, <1>3, LegsResolve, LastDayAssumption DEF SettleDays, Days, ColumnsTyped
  <2>6. leg'[t] \in LegType
    BY <2>3, <2>5 DEF LegType, Days
  <2>7. t = s => ResolvedDay(t, said) = Known(d)
    BY <1>1, <1>3, <1>4, LegsResolve DEF Known, Unstated
  <2>q. QED
    BY <2>4, <2>5, <2>6, <2>7 DEF Known
<1>8. ASSUME NEW t \in Sides
      PROVE /\ leg'[t] \in LegType
            /\ leg'[t].settle.day \in 1..today
            /\ leg'[t].settle.basis = "borrowed" =>
                   leg'[t].settle.day = leg'[Other(t)].settle.day /\ leg'[t].link = Never
            /\ leg'[t].link # Never =>
                   leg'[t].settle.day = leg'[t].link /\ leg'[t].settle.basis \in Evidence
            /\ Mirror(record[t].at, leg'[t]) = leg'[t]
  <2>1. leg'[t] \in LegType /\ leg'[t].settle.day \in 1..today
    BY <1>7
  <2>2. leg'[t].link # Never =>
            leg'[t].settle.day = leg'[t].link /\ leg'[t].settle.basis \in Evidence
    BY <1>7 DEF Evidence, Never
  <2>3. ASSUME leg'[t].settle.basis = "borrowed"
        PROVE leg'[t].settle.day = leg'[Other(t)].settle.day /\ leg'[t].link = Never
    <3>1. Other(t) \in Sides
      BY DEF Other, Sides
    <3>2. ResolvedDay(t, said).day = ResolvedDay(Other(t), said).day
      <4>1. ResolvedDay(t, said).basis = "borrowed"
        BY <1>7, <2>3
      <4>q. QED
        BY <1>1, <1>3, <4>1, LegsResolve
    <3>3. t # s
      BY <1>7, <2>3
    <3>q. QED
      BY <1>7, <3>1, <3>2, <3>3
  <2>4. record[t].at.settle.day = Never
    BY <1>1, <1>2 DEF PairSound, NoEmptyRecord, RecordsMirrorLegs, OnlySettledHold, NoRecord,
                      Nowhere, Unstated
  <2>5. Mirror(record[t].at, leg'[t]) = leg'[t]
    BY <2>1, <2>4 DEF Mirror, Never, ColumnsTyped, Days
  <2>q. QED
    BY <2>1, <2>2, <2>3, <2>5
<1>9. record' = [t \in Sides |-> IF amount = 0 THEN NoRecord
                                 ELSE [amount |-> amount, stated |-> byHand, at |-> leg'[t]]]
  <2>1. \A t \in Sides : Covered(t, amount, byHand, to[t]) =
            IF amount = 0 THEN NoRecord
            ELSE [amount |-> amount, stated |-> byHand, at |-> leg'[t]]
    BY <1>6, <1>8 DEF Covered
  <2>q. QED
    BY <1>6, <2>1
<1>10. Landed(amount, byHand)
  BY <1>2, <1>6, <1>8, <1>9 DEF Landed
<1>11. PairSound'
  BY <1>5, <1>10, LandedIsSound DEF Tick
<1>12. UnstatedFigureIsThePlan'
  BY <1>5, <1>9 DEF UnstatedFigureIsThePlan, NoRecord, Tick
<1>13. SyncPostings
  BY ReconcileSyncs DEF Tick
<1>14. /\ Versioned /\ today' = today /\ plan' \in Plans
       /\ deleted' = deleted /\ deleted \in BOOLEAN
  BY <1>1 DEF Tick, ColumnsTyped
<1>q. QED
  BY <1>2, <1>11, <1>12, <1>13, <1>14, DoorSound


\* The popover's PATCH: a settle, a correction, or a status that settles nothing.
LEMMA SaveSound ==
    ASSUME IInv, NEW new \in Immutable \cup {"projected"}, NEW p \in Plans,
           NEW figure \in Figures \cup {NoFigure}, NEW boxes \in [Sides -> Days \cup {Never}],
           Save(new, p, figure, boxes)
    PROVE IInv'
<1>1. ColumnsTyped /\ PairSound /\ UnstatedFigureIsThePlan
  BY DEF IInv
<1>2. PairSound' /\ UnstatedFigureIsThePlan' /\ status' \in {"projected", "done", "cancelled"}
  <2>1. Told(Graded(boxes))
    BY <1>1, GradedIsTold DEF Save
  <2>2. CASE new = "done" /\ status = "done"
    <3>1. plan' = plan
      BY <2>2 DEF Save, Immutable
    <3>2. Correct(Graded(boxes), figure) /\ today' = today
      BY <2>2 DEF Save
    <3>q. QED
      BY <1>1, <2>1, <2>2, <3>1, <3>2, CorrectSound
  <2>3. CASE new = "done" /\ status # "done"
    BY <1>1, <2>1, <2>3, SettleSound DEF Save
  <2>4. CASE new # "done"
    <3>1. LandOpen(new) /\ today' = today
      BY <2>4 DEF Save
    <3>2. PairSound'
      BY <1>1, <2>4, <3>1, PairOpens
    <3>3. status' = new
      BY <3>1 DEF LandOpen
    <3>q. QED
      BY <2>4, <3>2, <3>3 DEF UnstatedFigureIsThePlan, Immutable
  <2>q. QED
    BY <2>2, <2>3, <2>4
<1>3. SyncPostings
  BY ReconcileSyncs DEF Save
<1>4. /\ Versioned /\ today' = today /\ plan' \in Plans
      /\ deleted' = deleted /\ deleted \in BOOLEAN
  BY <1>1 DEF Save, ColumnsTyped
<1>q. QED
  BY <1>2, <1>3, <1>4, DoorSound

\* cancel_transfer
LEMMA CancelSound == ASSUME IInv, Cancel PROVE IInv'
<1>1. ColumnsTyped /\ PairSound
  BY DEF IInv
<1>2. LandOpen("cancelled") /\ today' = today
  BY DEF Cancel
<1>3. PairSound'
  BY <1>1, <1>2, PairOpens
<1>4. status' = "cancelled"
  BY <1>2 DEF LandOpen
<1>5. UnstatedFigureIsThePlan'
  BY <1>4 DEF UnstatedFigureIsThePlan
<1>6. SyncPostings
  BY ReconcileSyncs DEF Cancel
<1>7. /\ Versioned /\ plan' \in Plans
      /\ deleted' = deleted /\ deleted \in BOOLEAN
  BY <1>1 DEF Cancel, ColumnsTyped
<1>q. QED
  BY <1>2, <1>3, <1>4, <1>5, <1>6, <1>7, DoorSound

\* restore_transfer
LEMMA RestoreSound == ASSUME IInv, Restore PROVE IInv'
<1>1. ColumnsTyped /\ PairSound /\ UnstatedFigureIsThePlan
  BY DEF IInv
<1>2. PairSound' /\ UnstatedFigureIsThePlan' /\ status' = status
  <2>1. CASE status = "done"
    BY <1>1, <2>1, CorrectSound, SilenceIsTold DEF Restore
  <2>2. CASE status # "done"
    <3>1. LandOpen(status) /\ today' = today
      BY <2>2 DEF Restore
    <3>2. PairSound' /\ status' = status
      BY <1>1, <2>2, <3>1, PairOpens DEF LandOpen
    <3>q. QED
      BY <2>2, <3>2 DEF UnstatedFigureIsThePlan
  <2>q. QED
    BY <2>1, <2>2
<1>3. LedgerIsPair'
  BY <1>2, SyncedLedger DEF Restore
<1>4. ColumnsTyped'
  <2>1. deleted' \in BOOLEAN /\ fresh' \in BOOLEAN
    BY Zenon DEF Restore
  <2>q. QED
    BY <1>1, <1>2, <2>1 DEF Restore, ColumnsTyped, Days
<1>q. QED
  BY <1>2, <1>3, <1>4 DEF IInv

\* delete_transfer, in both of its forms.
LEMMA DeletesSound == ASSUME IInv, SoftDelete \/ HardDelete PROVE IInv'
<1>1. ColumnsTyped /\ PairSound /\ UnstatedFigureIsThePlan
  BY DEF IInv
<1>2. CASE SoftDelete
  <2>1. UNCHANGED <<status, plan, leg, record, today>>
    BY <1>2 DEF SoftDelete
  <2>2. PairSound'
    BY <1>1, <2>1 DEF PairSound, LegsTyped, NoEmptyRecord, OnlySettledHold, RecordsAgree,
       RecordsMirrorLegs, GuessesFollowEvidence, DatedExactlyWhenSettled, LinksNameTheirDay
  <2>3. UnstatedFigureIsThePlan'
    BY <1>1, <2>1 DEF UnstatedFigureIsThePlan
  <2>4. LedgerIsPair'
    BY <1>2 DEF SoftDelete, TearDown, LedgerIsPair
  <2>5. deleted' \in BOOLEAN /\ fresh' \in BOOLEAN
    BY <1>2, Zenon DEF SoftDelete
  <2>6. ColumnsTyped'
    BY <1>1, <2>1, <2>5 DEF ColumnsTyped, Days
  <2>q. QED
    BY <2>2, <2>3, <2>4, <2>6 DEF IInv
<1>3. CASE HardDelete
  <2>1. /\ status' = "gone" /\ today' = today /\ plan' = plan
        /\ leg' = [s \in Sides |-> Nowhere] /\ record' = [s \in Sides |-> NoRecord]
    BY <1>3 DEF HardDelete
  <2>2. PairSound'
    <3>1. Nowhere \in LegType
      BY DEF Nowhere, LegType, SettleDays
    <3>2. NoRecord \in RecordType
      BY <3>1 DEF NoRecord, RecordType
    <3>3. LegsTyped'
      BY <2>1, <3>1, <3>2 DEF LegsTyped
    <3>q. QED
      BY <2>1, <3>3 DEF PairSound, NoEmptyRecord, OnlySettledHold, RecordsAgree,
         RecordsMirrorLegs, GuessesFollowEvidence, DatedExactlyWhenSettled, LinksNameTheirDay,
         Sides, Nowhere, NoRecord, Unstated, Never
  <2>3. UnstatedFigureIsThePlan'
    BY <2>1 DEF UnstatedFigureIsThePlan
  <2>4. LedgerIsPair'
    BY <1>3, <2>1 DEF HardDelete, TearDown, LedgerIsPair
  <2>5. deleted' \in BOOLEAN /\ fresh' \in BOOLEAN
    BY <1>3, Zenon DEF HardDelete
  <2>6. ColumnsTyped'
    BY <1>1, <2>1, <2>5 DEF ColumnsTyped, Days
  <2>q. QED
    BY <2>2, <2>3, <2>4, <2>6 DEF IInv
<1>q. QED
  BY <1>2, <1>3

\* create_transfer, a rendering, and a day that passes write no leg.
LEMMA OthersSound ==
    ASSUME IInv, (\E p \in Plans : Create(p)) \/ Render \/ NewDay \/ UNCHANGED vars
    PROVE IInv'
<1>1. ColumnsTyped /\ PairSound /\ UnstatedFigureIsThePlan /\ LedgerIsPair
  BY DEF IInv
<1>2. /\ UNCHANGED <<deleted, leg, record, posted>>
      /\ status' = "done" <=> status = "done"
      /\ status' = "done" => plan' = plan
      /\ status' \in {"gone", "projected", "done", "cancelled"}
      /\ plan' \in Plans
      /\ today' \in Days /\ today' \in {today, today + 1}
  BY <1>1, LastDayAssumption DEF Create, Render, NewDay, vars, pair, ColumnsTyped, Days
<1>3. fresh' \in BOOLEAN
  <2>1. CASE Render \/ \E p \in Plans : Create(p)
    BY <2>1, Zenon DEF Create, Render
  <2>2. CASE NewDay \/ UNCHANGED vars
    BY <1>1, <2>2 DEF NewDay, vars, ColumnsTyped
  <2>q. QED
    BY <2>1, <2>2
<1>4. ColumnsTyped'
  BY <1>1, <1>2, <1>3 DEF ColumnsTyped, Days
<1>5. PairSound'
  <2>1. DatedExactlyWhenSettled'
    <3> SUFFICES ASSUME NEW s \in Sides
                 PROVE (leg[s].settle.day \in 1..today') <=> (status = "done")
      BY <1>2 DEF DatedExactlyWhenSettled
    <3>1. CASE status = "done"
      BY <1>1, <1>2, <3>1 DEF PairSound, DatedExactlyWhenSettled, ColumnsTyped, Days
    <3>2. CASE status # "done"
      BY <1>1, <3>2 DEF PairSound, OnlySettledHold, Nowhere, Unstated, Never
    <3>q. QED
      BY <3>1, <3>2
  <2>q. QED
    BY <1>1, <1>2, <2>1 DEF PairSound, LegsTyped, NoEmptyRecord, OnlySettledHold, RecordsAgree,
       RecordsMirrorLegs, GuessesFollowEvidence, LinksNameTheirDay
<1>6. UnstatedFigureIsThePlan' /\ LedgerIsPair'
  BY <1>1, <1>2 DEF UnstatedFigureIsThePlan, LedgerIsPair
<1>q. QED
  BY <1>4, <1>5, <1>6 DEF IInv

LEMMA NextSound == ASSUME IInv, [Next]_vars PROVE IInv'
<1>1. CASE BankDoors
  BY <1>1, MatchLineSound, TickSound DEF BankDoors
<1>2. CASE OwnerDoors
  BY <1>2, SaveSound, MarkDoneSound, CancelSound, DeletesSound, RestoreSound, OthersSound
     DEF OwnerDoors
<1>3. CASE NewDay \/ UNCHANGED vars
  BY <1>3, OthersSound
<1>q. QED
  BY <1>1, <1>2, <1>3 DEF Next

-----------------------------------------------------------------------------
(***************************************************************************)
(* Theorems.                                                               *)
(***************************************************************************)

\* The invariant holds of every reachable state, whatever the doors do.
THEOREM PairHolds == Spec => []IInv
<1>1. Init => IInv
  BY InitSound
<1>2. IInv /\ [Next]_vars => IInv'
  BY NextSound
<1>q. QED
  BY <1>1, <1>2, PTL DEF Spec

\* TypeOK follows from the invariant, the journal's type from what it holds.
LEMMA TypesFollow == ASSUME IInv PROVE TypeOK
<1>1. posted \in [Sides -> [day : Days \cup {Never}, amount : Nat]]
  <2>1. \A s \in Sides : leg[s].settle.day \in Days \cup {Never} /\ record[s].amount \in Nat
    BY DEF IInv, PairSound, LegsTyped, LegType, RecordType, SettleDays, Unstated
  <2>q. QED
    BY <2>1 DEF IInv, LedgerIsPair, Nothing, Never
<1>q. QED
  BY <1>1 DEF IInv, ColumnsTyped, PairSound, LegsTyped, LegType, RecordType, TypeOK

\* A transfer, its legs, records and journal hold what their columns allow.
LEMMA TypeCorrect == Spec => []TypeOK
<1>1. IInv => TypeOK
  BY TypesFollow
<1>q. QED
  BY <1>1, PairHolds, PTL

\* apply_status_to_all_three, one record for the pair: whatever was settled,
\* corrected, reverted and restored, one figure by one author moved on both
\* accounts or on neither.
LEMMA OneFigure == Spec => []PairMovesOneFigure
<1>1. IInv => PairMovesOneFigure
  BY DEF IInv, LedgerIsPair, PairSound, RecordsAgree, PairMovesOneFigure, Sides, Nothing
<1>q. QED
  BY <1>1, PairHolds, PTL

\* Settlement.from_settle: a record nobody stated the figure of says the plan.
LEMMA PlanCorrect == Spec => []UnstatedFigureIsThePlan
<1>1. IInv => UnstatedFigureIsThePlan
  BY DEF IInv
<1>q. QED
  BY <1>1, PairHolds, PTL

\* sync_transfer_postings: the journal says what the records say of a settled
\* transfer that is not deleted, and nothing of any other.
THEOREM JournalCorrect == Spec => []LedgerMatchesPair
<1>1. IInv => LedgerMatchesPair
  BY DEF IInv, LedgerIsPair, LedgerMatchesPair
<1>q. QED
  BY <1>1, PairHolds, PTL

\* resolve_pair_days: both legs of a settled transfer are dated, and no leg of
\* any other.
LEMMA DaysCorrect == Spec => []DatedExactlyWhenSettled
<1>1. IInv => DatedExactlyWhenSettled
  BY DEF IInv, PairSound
<1>q. QED
  BY <1>1, PairHolds, PTL

\* borrowed_day: a guess is the day of the leg somebody dated, on no statement.
LEMMA GuessesCorrect == Spec => []GuessesFollowEvidence
<1>1. IInv => GuessesFollowEvidence
  BY DEF IInv, PairSound
<1>q. QED
  BY <1>1, PairHolds, PTL

\* _mirror_assertion: every record repeats the day, the evidence and the
\* statement of its leg.
LEMMA RecordsCorrect == Spec => []RecordsMirrorLegs
<1>1. IInv => RecordsMirrorLegs
  BY DEF IInv, PairSound
<1>q. QED
  BY <1>1, PairHolds, PTL

\* apply_status_change: a statement holds only what happened on its day.
LEMMA LinksCorrect == Spec => []LinksNameTheirDay
<1>1. IInv => LinksNameTheirDay
  BY DEF IInv, PairSound
<1>q. QED
  BY <1>1, PairHolds, PTL

\* One figure for the pair, on every row: the plan's, or the one somebody stated.
THEOREM FigureCorrect == Spec => []PairIsOneFact
<1>1. TypeOK /\ PairMovesOneFigure /\ UnstatedFigureIsThePlan => PairIsOneFact
  BY DEF PairIsOneFact
<1>q. QED
  BY <1>1, TypeCorrect, OneFigure, PlanCorrect, PTL

\* The days of a pair, of its records, statements and guesses, are one account
\* of when its money moved.
THEOREM DatesCorrect == Spec => []PairIsDated
<1>1. DatedExactlyWhenSettled /\ RecordsMirrorLegs
        /\ GuessesFollowEvidence /\ LinksNameTheirDay => PairIsDated
  BY DEF PairIsDated
<1>q. QED
  BY <1>1, DaysCorrect, RecordsCorrect, GuessesCorrect, LinksCorrect, PTL

\* A record is its figure, its author and what its leg says.
LEMMA RecordsFollowLegs ==
    ASSUME PairSound, PairSound', leg' = leg,
           \A s \in Sides : /\ record'[s].amount = record[s].amount
                            /\ record'[s].stated = record[s].stated
    PROVE record' = record
<1>1. ASSUME NEW s \in Sides PROVE record'[s] = record[s]
  <2>1. record[s] \in RecordType /\ record'[s] \in RecordType
    BY DEF PairSound, LegsTyped
  <2>2. CASE record[s].amount = 0
    BY <2>2 DEF PairSound, NoEmptyRecord
  <2>3. CASE record[s].amount # 0
    <3>1. record[s].at = leg[s] /\ record'[s].at = leg[s]
      BY <2>3 DEF PairSound, RecordsMirrorLegs
    <3>q. QED
      BY <2>1, <3>1 DEF RecordType
  <2>q. QED
    BY <2>2, <2>3
<1>2. /\ record = [s \in Sides |-> record[s]]
      /\ record' = [s \in Sides |-> record'[s]]
  BY DEF PairSound, LegsTyped
<1>q. QED
  BY <1>1, <1>2

\* _bump_parent_version_if_a_leg_moved: a form opened before any change of the
\* pair, even of the day of one record, is told.
THEOREM FormsCorrect == Spec => FreshFormsShowThePair
<1>1. ASSUME IInv, IInv', [Next]_vars PROVE pair' # pair => ~fresh'
  <2>1. PairSound /\ PairSound'
    BY <1>1 DEF IInv
  <2>2. ASSUME Versioned PROVE pair' # pair => ~fresh'
    <3> SUFFICES ASSUME fresh' PROVE pair' = pair
      OBVIOUS
    <3>1. <<status, deleted, plan, leg>>' = <<status, deleted, plan, leg>> /\ ~RecordMoved
      BY <2>2 DEF Versioned
    <3>2. record' = record
      BY <2>1, <3>1, RecordsFollowLegs DEF RecordMoved
    <3>q. QED
      BY <3>1, <3>2 DEF pair
  <2>3. CASE BankDoors
    BY <2>2, <2>3 DEF BankDoors, MatchLine, Tick
  <2>4. CASE OwnerDoors
    BY <2>2, <2>4 DEF OwnerDoors, Save, MarkDone, Cancel, SoftDelete, HardDelete, Restore,
                      Create, Render
  <2>5. CASE NewDay \/ UNCHANGED vars
    BY <2>5 DEF NewDay, vars
  <2>q. QED
    BY <1>1, <2>3, <2>4, <2>5 DEF Next
<1>2. IInv /\ IInv' /\ [Next]_vars => (pair' # pair => ~fresh')
  BY <1>1
<1>3. IInv /\ IInv' /\ [Next]_vars => [pair' # pair => ~fresh']_vars
  BY <1>2
<1>q. QED
  BY <1>3, PairHolds, PTL DEF Spec, FreshFormsShowThePair

\* Written again with nothing said, a settled pair resolves to its own days.
LEMMA RepeatLandsWhereItStood ==
    ASSUME ColumnsTyped, PairSound, status = "done", Correct(NothingSaid, NoFigure)
    PROVE leg' = leg
<1>1. Told(NothingSaid)
  BY SilenceIsTold
<1>2. ASSUME NEW s \in Sides PROVE ResolvedDay(s, NothingSaid) = leg[s].settle
  <2>1. NothingSaid[s] = Unstated /\ NothingSaid[Other(s)] = Unstated /\ Other(s) \in Sides
    BY DEF NothingSaid, Other, Sides
  <2>2. CASE leg[s].settle.basis \in Evidence
    BY <1>1, <2>1, <2>2, LegsResolve
  <2>3. CASE leg[s].settle.basis \notin Evidence
    <3>1. leg[s].settle \in SettleDays /\ leg[s].settle.day # Never
      BY DEF PairSound, LegsTyped, LegType, DatedExactlyWhenSettled, ColumnsTyped, Days, Never
    <3>2. leg[s].settle.basis = "borrowed" /\ leg[s].settle = Borrowed(leg[s].settle.day)
      BY <2>3, <3>1 DEF SettleDays, Evidence, Unstated, Borrowed, Never
    <3>3. leg[s].settle.day = leg[Other(s)].settle.day
      BY <3>2 DEF PairSound, GuessesFollowEvidence
    <3>4. OwnDay(s, NothingSaid) = Unstated
      BY <2>1, <2>3 DEF OwnDay
    <3>5. ResolvedDay(s, NothingSaid) =
              Borrowed(IF OwnDay(Other(s), NothingSaid) # Unstated
                       THEN OwnDay(Other(s), NothingSaid).day ELSE leg["expense"].settle.day)
      BY <3>4 DEF ResolvedDay, Fallback
    <3>6. OwnDay(Other(s), NothingSaid) # Unstated =>
              OwnDay(Other(s), NothingSaid) = leg[Other(s)].settle
      BY <2>1 DEF OwnDay
    <3>7. leg["expense"].settle.day = leg[s].settle.day
      BY <3>3 DEF Sides, Other
    <3>q. QED
      BY <3>2, <3>3, <3>5, <3>6, <3>7
  <2>q. QED
    BY <2>2, <2>3
<1>3. \A s \in Sides : leg'[s] = [settle |-> leg[s].settle, link |-> leg[s].link]
  BY <1>2 DEF Correct, LandDone, Dated
<1>4. leg = [s \in Sides |-> leg[s]] /\ \A s \in Sides : leg[s] \in LegType
  BY DEF PairSound, LegsTyped
<1>5. \A s \in Sides : leg'[s] = leg[s]
  BY <1>3, <1>4 DEF LegType
<1>q. QED
  BY <1>4, <1>5 DEF Correct, LandDone

\* settle_transfer and restore_transfer are safe to repeat on any later day.
THEOREM RepeatsCorrect == Spec => RepeatsChangeNothing
<1>1. ASSUME IInv, IInv', status = "done", MarkDone \/ Restore
      PROVE UNCHANGED <<leg, record>>
  <2>1. Correct(NothingSaid, NoFigure)
    BY <1>1 DEF MarkDone, Restore
  <2>2. leg' = leg
    BY <1>1, <2>1, RepeatLandsWhereItStood DEF IInv
  <2>3. LandDone(NothingSaid, Held.amount, Held.stated)
    BY <2>1 DEF Correct
  <2>4. PairSound /\ PairSound' /\ ColumnsTyped
    BY <1>1 DEF IInv
  <2>5. Landed(Held.amount, Held.stated)
    BY <2>3, <2>4, SilenceIsTold, HeldFigure, PairLands
  <2>6. \A s \in Sides : record[s].amount = Held.amount /\ record[s].stated = Held.stated
    BY <2>4 DEF PairSound, RecordsAgree, Held, Sides
  <2>7. \A s \in Sides : record'[s].amount = record[s].amount /\ record'[s].stated = record[s].stated
    <3>1. Held.amount = 0 => Held.stated = FALSE
      BY <2>4 DEF Held, PairSound, NoEmptyRecord, NoRecord, Sides
    <3>q. QED
      BY <2>5, <2>6, <3>1 DEF Landed, NoRecord
  <2>q. QED
    BY <2>2, <2>4, <2>7, RecordsFollowLegs
<1>2. IInv /\ IInv' /\ [Next]_vars =>
          [status = "done" /\ (MarkDone \/ Restore) => UNCHANGED <<leg, record>>]_vars
  BY <1>1
<1>q. QED
  BY <1>2, PairHolds, PTL DEF Spec, RepeatsChangeNothing

=============================================================================
