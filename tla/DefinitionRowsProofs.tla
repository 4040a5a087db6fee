------------------------ MODULE DefinitionRowsProofs ------------------------
(***************************************************************************)
(* Theorems of DefinitionRows, for any rules, calendar, prices and number  *)
(* of rows.                                                                *)
(***************************************************************************)
EXTENDS DefinitionRows, SumsProofs

(***************************************************************************)
(* New rows take the free ids in order.  The rank of a number in a set is  *)
(* how many of the set are smaller; free ids and occurrences of one rank   *)
(* go together.                                                            *)
(***************************************************************************)

Below(S, x) == {y \in S : y < x}

\* A set of naturals that is not empty has a least element.
LEMMA LeastExists ==
    ASSUME NEW S \in SUBSET Nat, S # {}
    PROVE  \E m \in S : \A x \in S : m <= x
<1>1. PICK m \in S : \A x \in S : <<x, m>> \notin OpToRel(<, Nat)
  BY NatLessThanWellFounded, WFMin, Zenon
<1>2. \A x \in S : ~(x < m)
  BY <1>1 DEF OpToRel
<1>3. m \in Nat /\ \A x \in S : x \in Nat
  OBVIOUS
<1> QED
  BY <1>2, <1>3

\* Finitely many naturals are below one.
LEMMA BelowIsFinite ==
    ASSUME NEW S \in SUBSET Nat, NEW x \in Nat
    PROVE  IsFiniteSet(Below(S, x)) /\ Cardinality(Below(S, x)) \in Nat
<1>1. IsFiniteSet(0..x)
  BY FS_Interval
<1>2. Below(S, x) \in SUBSET (0..x)
  <2>1. ASSUME NEW y \in Below(S, x) PROVE y \in 0..x
    BY DEF Below
  <2> QED
    BY <2>1
<1>3. IsFiniteSet(Below(S, x))
  BY <1>1, <1>2, FS_Subset
<1> QED
  BY <1>3, FS_CardinalityType

\* No two elements of a set have one rank.
LEMMA RankTells ==
    ASSUME NEW S \in SUBSET Nat, NEW a \in S, NEW b \in S,
           Cardinality(Below(S, a)) = Cardinality(Below(S, b))
    PROVE  a = b
<1>0. \A y \in S : y \in Nat
  OBVIOUS
<1>1. ASSUME NEW c \in S, NEW d \in S, c < d,
             Cardinality(Below(S, c)) = Cardinality(Below(S, d))
      PROVE  FALSE
  <2>1. IsFiniteSet(Below(S, d))
    BY BelowIsFinite
  <2>2. Below(S, c) \in SUBSET Below(S, d)
    <3>1. ASSUME NEW y \in Below(S, c) PROVE y \in Below(S, d)
      BY <1>0, <1>1 DEF Below
    <3> QED
      BY <3>1
  <2>3. Below(S, c) = Below(S, d)
    BY <1>1, <2>1, <2>2, FS_Subset
  <2>4. c \in Below(S, d) /\ c \notin Below(S, c)
    BY <1>1 DEF Below
  <2> QED
    BY <2>3, <2>4
<1>2. a \in Nat /\ b \in Nat
  OBVIOUS
<1>3. CASE a < b
  BY <1>1, <1>3
<1>4. CASE b < a
  BY <1>1, <1>4
<1> QED
  BY <1>2, <1>3, <1>4

\* Every rank below its size is an element's.
LEMMA RankReached ==
    ASSUME NEW S \in SUBSET Nat, IsFiniteSet(S), NEW k \in Nat, k < Cardinality(S)
    PROVE  \E s \in S : Cardinality(Below(S, s)) = k
<1> DEFINE Ranked(n) == \E s \in S : Cardinality(Below(S, s)) = n
           Bad == {n \in Nat : n < Cardinality(S) /\ ~Ranked(n)}
<1>0. \A y \in S : y \in Nat
  OBVIOUS
<1>1. SUFFICES ASSUME Bad # {} PROVE FALSE
  OBVIOUS
<1>2. PICK n \in Bad : \A x \in Bad : n <= x
  BY <1>1, LeastExists
<1>3. n \in Nat /\ n < Cardinality(S) /\ ~Ranked(n)
  OBVIOUS
<1>4. Cardinality(S) \in Nat
  BY FS_CardinalityType
<1>5. CASE n = 0
  <2>1. S # {}
    BY <1>3, <1>4, <1>5, FS_EmptySet
  <2>2. PICK m \in S : \A x \in S : m <= x
    BY <2>1, LeastExists
  <2>3. Below(S, m) = {}
    <3>1. ASSUME NEW y \in Below(S, m) PROVE FALSE
      BY <1>0, <2>2 DEF Below
    <3> QED
      BY <3>1
  <2> QED
    BY <1>3, <1>5, <2>3, FS_EmptySet
<1>6. CASE n # 0
  <2>1. n - 1 \in Nat /\ n - 1 < Cardinality(S) /\ ~(n <= n - 1)
    BY <1>3, <1>4, <1>6
  <2>2. n - 1 \notin Bad
    BY <1>2, <2>1
  <2>3. PICK s \in S : Cardinality(Below(S, s)) = n - 1
    BY <2>1, <2>2
  <2> DEFINE T == Below(S, s) \cup {s}
  <2>4. IsFiniteSet(Below(S, s)) /\ s \notin Below(S, s)
    BY <1>0, BelowIsFinite DEF Below
  <2>5. Cardinality(T) = n
    <3>1. Cardinality(T) = Cardinality(Below(S, s)) + 1
      BY <2>4, FS_AddElement
    <3> QED
      BY <1>3, <2>3, <3>1
  <2>6. T \subseteq S
    BY DEF Below
  <2>7. S \ T # {}
    BY <1>3, <1>4, <2>5, <2>6
  <2>8. PICK m \in S \ T : \A x \in S \ T : m <= x
    BY <2>7, LeastExists
  <2>9. Below(S, m) = T
    <3>1. ASSUME NEW x \in S PROVE x < m <=> x \in T
      <4>1. x \in Nat /\ m \in Nat /\ s \in Nat
        OBVIOUS
      <4>2. s < m
        BY <2>8, <4>1 DEF Below
      <4> QED
        BY <2>8, <4>1, <4>2 DEF Below
    <3> QED
      BY <2>6, <3>1 DEF Below
  <2> QED
    BY <1>3, <2>5, <2>9
<1> QED
  BY <1>5, <1>6

\* w is rs with a row of its own for some of the occurrences, in free slots.
Fills(w, rs, occs, new, f) ==
    /\ new \subseteq Free(rs)
    /\ f \in [new -> occs]
    /\ \A i, j \in new : f[i] = f[j] => i = j
    /\ w = [i \in Ids |-> IF i \in new THEN Generated(f[i]) ELSE rs[i]]

\* Written writes so, and all of them when there is room.
LEMMA WrittenFills ==
    ASSUME NEW rs, NEW occs \in SUBSET Occurrences
    PROVE  \E new, f : /\ Fills(Written(rs, occs), rs, occs, new, f)
                       /\ Room(rs, occs) => \A o \in occs : \E i \in new : f[i] = o
<1> DEFINE free == Free(rs)
           slot(i) == Cardinality(Below(free, i))
           For(i) == {o \in occs : Cardinality(Below(occs, o)) = slot(i)}
           new == {i \in free : For(i) # {}}
           f == [i \in new |-> CHOOSE o \in For(i) : TRUE]
<1>1. free \in SUBSET Nat /\ occs \in SUBSET Nat /\ IsFiniteSet(free) /\ IsFiniteSet(occs)
  <2>1. IsFiniteSet(Ids) /\ free \subseteq Ids /\ Ids \subseteq Nat
    BY FS_Interval, RowsAssumption DEF Ids, Free
  <2>2. IsFiniteSet(free)
    BY <2>1, FS_Subset
  <2>3. IsFiniteSet(occs) /\ occs \subseteq Nat
    BY OccurrencesAssumption, FS_Subset DEF Occurrences
  <2> QED
    BY <2>1, <2>2, <2>3
<1>2. Written(rs, occs) = [i \in Ids |-> IF i \in free /\ For(i) # {}
                                         THEN Generated(CHOOSE o \in For(i) : TRUE) ELSE rs[i]]
  BY DEF Written, Below
<1> HIDE DEF free, slot
<1>3. \A i \in new : f[i] \in occs /\ Cardinality(Below(occs, f[i])) = slot(i)
  <2>1. ASSUME NEW i \in new PROVE f[i] \in For(i)
    BY Zenon
  <2> HIDE DEF new, f
  <2> QED
    BY <2>1
<1>4. f \in [new -> occs]
  <2> DEFINE g(i) == CHOOSE o \in For(i) : TRUE
  <2>1. \A i \in new : g(i) \in occs
    BY <1>3
  <2> HIDE DEF new, g
  <2>2. [i \in new |-> g(i)] \in [new -> occs]
    BY <2>1
  <2> QED
    BY <2>2 DEF g
<1>5. Written(rs, occs) = [i \in Ids |-> IF i \in new THEN Generated(f[i]) ELSE rs[i]]
  <2>1. \A i : (i \in new <=> i \in free /\ For(i) # {})
               /\ (i \in new => f[i] = CHOOSE o \in For(i) : TRUE)
    BY Zenon
  <2> HIDE DEF new, f, For
  <2> QED
    BY <1>2, <2>1
<1>6. ASSUME Room(rs, occs), NEW o \in occs
      PROVE  \E i \in new : f[i] = o
  <2> DEFINE k == Cardinality(Below(occs, o))
  <2>1. o \in Nat /\ k \in Nat
    BY <1>1, BelowIsFinite
  <2>2. k < Cardinality(occs)
    <3>1. Below(occs, o) \in SUBSET occs /\ o \notin Below(occs, o)
      BY <2>1 DEF Below
    <3>2. Cardinality(Below(occs, o)) <= Cardinality(occs)
          /\ Cardinality(Below(occs, o)) # Cardinality(occs)
      BY <1>1, <3>1, FS_Subset
    <3> QED
      BY <1>1, <2>1, <3>2, FS_CardinalityType
  <2>3. Cardinality(occs) <= Cardinality(free)
    BY <1>6 DEF Room, free
  <2>4. k < Cardinality(free)
    BY <1>1, <2>1, <2>2, <2>3, FS_CardinalityType
  <2>5. PICK i \in free : slot(i) = k
    BY <1>1, <2>1, <2>4, RankReached DEF slot
  <2>6. i \in new
    BY <2>5
  <2> HIDE DEF f, new
  <2>7. Cardinality(Below(occs, f[i])) = Cardinality(Below(occs, o)) /\ f[i] \in occs
    BY <1>3, <2>5, <2>6
  <2>8. f[i] = o
    <3>1. \A a, b \in occs : Cardinality(Below(occs, a)) = Cardinality(Below(occs, b)) => a = b
      BY <1>1, RankTells
    <3> HIDE DEF k
    <3> QED
      BY <2>7, <3>1
  <2> QED
    BY <2>6, <2>8
<1>7. \A i, j \in new : f[i] = f[j] => i = j
  <2>1. new \subseteq free
    OBVIOUS
  <2> HIDE DEF f, new
  <2>2. ASSUME NEW i \in new, NEW j \in new, f[i] = f[j] PROVE i = j
    <3>1. slot(i) = slot(j)
      BY <1>3, <2>2
    <3> QED
      BY <1>1, <2>1, <3>1, RankTells DEF slot
  <2> QED
    BY <2>2
<1>8. Fills(Written(rs, occs), rs, occs, new, f)
  <2> HIDE DEF f
  <2> QED BY <1>4, <1>5, <1>7 DEF Fills, free
<1> HIDE DEF new, f
<1> QED
  BY <1>6, <1>8

(***************************************************************************)
(* The inductive invariant.                                                *)
(***************************************************************************)

\* What is recorded is on a row that is live, a figure of its own holds the
\* row that has it, and a slot without a row answers nothing.
RowSound(r) ==
    /\ Recorded(r) => Live(r)
    /\ r.own # Derived => Exists(r) /\ r.override
    /\ ~Exists(r) => r.occ = NoOcc

\* Rows that are sound, lie in paychecks up to top and answer once.
RowsFit(rs, top) ==
    /\ rs \in [Ids -> Row]
    /\ \A i \in Ids : RowSound(rs[i]) /\ (Exists(rs[i]) => rs[i].period <= top)
    /\ \A i, j \in Ids : Exists(rs[i]) /\ Exists(rs[j]) /\ rs[i].occ = rs[j].occ
                            /\ rs[i].occ # NoOcc => i = j

IInv == RowsAnswerOnce /\ \A i \in Ids : RowSound(rows[i])

LEMMA InvIs ==
    IInv <=> /\ RowsFit(rows, saved)
             /\ envelope \in Kinds /\ named \subseteq Occurrences /\ active \in BOOLEAN
             /\ saved \in Periods /\ now \in 1..saved /\ acts \in 0..MaxActs
BY DEF IInv, RowsAnswerOnce, TypeOK, OneRowPerOccurrence, RowsFit

\* No row goes, and none loses a figure of its own.
Stays(rs, ss) ==
    \A i \in Ids : /\ Exists(rs[i]) => Exists(ss[i])
                   /\ rs[i].own # Derived => ss[i].own # Derived

LEMMA GeneratedIs ==
    ASSUME NEW o \in Occurrences
    PROVE  /\ Generated(o) \in Row /\ RowSound(Generated(o))
           /\ Generated(o).status = "projected" /\ Generated(o).occ = o
           /\ Generated(o).period = PeriodOf[o] /\ Generated(o).own = Derived
           /\ Generated(o).spent = 0 /\ Generated(o).payment = FALSE
           /\ Generated(o).deleted = FALSE /\ Generated(o).override = FALSE
           /\ o # NoOcc
<1>1. PeriodOf[o] \in Periods /\ o # 0
  BY OccurrencesAssumption DEF Occurrences, Periods
<1> QED
  BY <1>1, PeriodsAssumption
  DEF Generated, NoRow, Row, Derived, NoOcc, Periods, RowSound, Recorded, Live, Exists

\* Occurrences that nothing answers, written, are answered once.
LEMMA FilledFits ==
    ASSUME NEW rs, NEW top, RowsFit(rs, top), NEW occs \in SUBSET Occurrences,
           \A o \in occs : /\ PeriodOf[o] <= top
                           /\ \A i \in Ids : Exists(rs[i]) => rs[i].occ # o,
           NEW w, NEW new, NEW f, Fills(w, rs, occs, new, f)
    PROVE  RowsFit(w, top) /\ Stays(rs, w)
<1>1. /\ new \subseteq Ids /\ \A i \in new : ~Exists(rs[i])
      /\ \A i \in new : f[i] \in occs /\ f[i] \in Occurrences
      /\ \A i, j \in new : f[i] = f[j] => i = j
      /\ w = [i \in Ids |-> IF i \in new THEN Generated(f[i]) ELSE rs[i]]
  BY DEF Fills, Free
<1>2. /\ \A i \in new : w[i] = Generated(f[i])
      /\ \A i \in Ids \ new : w[i] = rs[i]
  BY <1>1
<1>3. ASSUME NEW i \in new
      PROVE  /\ w[i] \in Row /\ RowSound(w[i]) /\ Exists(w[i]) /\ w[i].occ = f[i]
             /\ w[i].period <= top
  BY <1>1, <1>2, GeneratedIs DEF Exists
<1>4. w \in [Ids -> Row]
  <2>1. \A i \in Ids : w[i] \in Row
    BY <1>2, <1>3 DEF RowsFit
  <2>2. w = [i \in Ids |-> w[i]]
    BY <1>1
  <2> QED
    BY <2>1, <2>2
<1>5. \A i \in Ids : RowSound(w[i]) /\ (Exists(w[i]) => w[i].period <= top)
  BY <1>2, <1>3 DEF RowsFit
<1>6. ASSUME NEW i \in Ids, NEW j \in Ids, Exists(w[i]), Exists(w[j]), w[i].occ = w[j].occ,
             w[i].occ # NoOcc
      PROVE  i = j
  <2>1. CASE i \in new /\ j \in new
    BY <1>1, <1>3, <1>6, <2>1
  <2>2. CASE i \in new /\ j \notin new
    BY <1>1, <1>2, <1>3, <1>6, <2>2
  <2>3. CASE i \notin new /\ j \in new
    BY <1>1, <1>2, <1>3, <1>6, <2>3
  <2>4. CASE i \notin new /\ j \notin new
    BY <1>2, <1>6, <2>4 DEF RowsFit
  <2> QED
    BY <2>1, <2>2, <2>3, <2>4
<1>7. Stays(rs, w)
  <2>1. \A i \in Ids : rs[i].own # Derived => Exists(rs[i])
    BY DEF RowsFit, RowSound
  <2> QED
    BY <1>1, <1>2, <2>1 DEF Stays
<1> QED
  BY <1>4, <1>5, <1>6, <1>7 DEF RowsFit

\* What a pass finds unclaimed nothing answers.
LEMMA UnclaimedIs ==
    ASSUME NEW rs, NEW occs, NEW o \in Unclaimed(rs, occs), NEW i \in Ids, Exists(rs[i])
    PROVE  rs[i].occ # o
BY DEF Unclaimed, Claims

\* A pass that writes.
LEMMA WrittenFits ==
    ASSUME NEW rs, NEW top, RowsFit(rs, top), NEW occs \in SUBSET Occurrences,
           \A o \in occs : PeriodOf[o] <= top
    PROVE  RowsFit(Written(rs, Unclaimed(rs, occs)), top)
           /\ Stays(rs, Written(rs, Unclaimed(rs, occs)))
<1> DEFINE free == Unclaimed(rs, occs)
<1>1. free \in SUBSET Occurrences /\ \A o \in free : PeriodOf[o] <= top
  BY DEF Unclaimed
<1>2. \A o \in free : \A i \in Ids : Exists(rs[i]) => rs[i].occ # o
  BY UnclaimedIs
<1> HIDE DEF free
<1>3. PICK new, f : Fills(Written(rs, free), rs, free, new, f)
  BY <1>1, WrittenFills
<1>4. RowsFit(Written(rs, free), top) /\ Stays(rs, Written(rs, free))
  BY <1>1, <1>2, <1>3, FilledFits
<1> QED
  BY <1>4 DEF free

(***************************************************************************)
(* A maintain pass.                                                        *)
(***************************************************************************)

\* What a maintain pass leaves: retired rows go, the others stay in place with
\* the figure it gave them, and the new rows fill free slots.
Maintains(m, rs, occs, eff, new, f) ==
    LET claims == MaintainClaims(rs, occs, eff) IN
    /\ new \subseteq Free(rs) /\ f \in [new -> claims]
    /\ \A i, j \in new : f[i] = f[j] => i = j
    /\ \A i \in Ids :
          m[i] = IF i \in new THEN Generated(f[i])
                 ELSE IF Retires(rs[i], occs, eff) THEN NoRow
                 ELSE IF Updates(rs[i], occs, eff) THEN [rs[i] EXCEPT !.own = Derived]
                 ELSE rs[i]

LEMMA MaintainedIsFunction ==
    ASSUME NEW rs, NEW occs, NEW eff
    PROVE  \E t : Maintained(rs, occs, eff) = [i \in Ids |-> t[i]]
<1> DEFINE kept == [i \in Ids |-> IF Updates(rs[i], occs, eff)
                                  THEN [rs[i] EXCEPT !.own = Derived] ELSE rs[i]]
           all == Written(kept, MaintainClaims(rs, occs, eff))
           t == [i \in Ids |-> IF Retires(rs[i], occs, eff) THEN NoRow ELSE all[i]]
<1>1. Maintained(rs, occs, eff) = [i \in Ids |-> IF Retires(rs[i], occs, eff)
                                                 THEN NoRow ELSE all[i]]
  BY DEF Maintained
<1>2. Maintained(rs, occs, eff) = [i \in Ids |-> t[i]]
  BY <1>1, Zenon
<1> HIDE DEF t
<1> QED
  BY <1>2

LEMMA MaintainedIs ==
    ASSUME NEW rs, rs \in [Ids -> Row], NEW occs \in SUBSET Occurrences, NEW eff,
           NEW m, m = Maintained(rs, occs, eff)
    PROVE  \E new, f : /\ Maintains(m, rs, occs, eff, new, f)
                       /\ Room(rs, MaintainClaims(rs, occs, eff)) =>
                             \A o \in MaintainClaims(rs, occs, eff) : \E i \in new : f[i] = o
<1> DEFINE kept == [i \in Ids |-> IF Updates(rs[i], occs, eff)
                                  THEN [rs[i] EXCEPT !.own = Derived] ELSE rs[i]]
           claims == MaintainClaims(rs, occs, eff)
           all == Written(kept, claims)
<1>1. m = [i \in Ids |-> IF Retires(rs[i], occs, eff) THEN NoRow ELSE all[i]]
  BY DEF Maintained
<1>2. \A i \in Ids : Exists(kept[i]) <=> Exists(rs[i])
  BY DEF Row, Exists
<1>3. Free(kept) = Free(rs)
  BY <1>2 DEF Free
<1>4. claims \in SUBSET Occurrences
  BY DEF MaintainClaims, Unclaimed
<1> HIDE DEF claims, kept
<1>5. PICK new, f : /\ Fills(all, kept, claims, new, f)
                    /\ Room(kept, claims) => \A o \in claims : \E i \in new : f[i] = o
  BY <1>4, WrittenFills
<1>6. Room(kept, claims) <=> Room(rs, claims)
  BY <1>3 DEF Room
<1>7. /\ new \subseteq Free(rs) /\ new \subseteq Ids /\ f \in [new -> claims]
      /\ \A i, j \in new : f[i] = f[j] => i = j
      /\ all = [i \in Ids |-> IF i \in new THEN Generated(f[i]) ELSE kept[i]]
  BY <1>3, <1>5 DEF Fills, Free
<1> HIDE DEF all
<1>8. ASSUME NEW i \in Ids
      PROVE  m[i] = IF i \in new THEN Generated(f[i])
                    ELSE IF Retires(rs[i], occs, eff) THEN NoRow
                    ELSE IF Updates(rs[i], occs, eff) THEN [rs[i] EXCEPT !.own = Derived]
                    ELSE rs[i]
  <2>1. CASE i \in new
    <3>1. ~Retires(rs[i], occs, eff)
      BY <1>7, <2>1 DEF Retires, InScope, Free
    <3> QED
      BY <1>1, <1>7, <2>1, <3>1
  <2>2. CASE i \notin new
    BY <1>1, <1>7, <2>2 DEF kept
  <2> QED
    BY <2>1, <2>2
<1>9. Maintains(m, rs, occs, eff, new, f)
  BY <1>7, <1>8 DEF Maintains, claims
<1>10. Room(rs, MaintainClaims(rs, occs, eff)) =>
          \A o \in MaintainClaims(rs, occs, eff) : \E i \in new : f[i] = o
  BY <1>5, <1>6 DEF claims
<1> WITNESS new, f
<1> QED
  BY <1>9, <1>10

\* A row a pass retires answers none of the occurrences it names.
LEMMA ClaimsAreNew ==
    ASSUME NEW rs, NEW occs, NEW eff, NEW o \in MaintainClaims(rs, occs, eff), NEW i \in Ids,
           Exists(rs[i])
    PROVE  o \in occs /\ rs[i].occ # o
<1> DEFINE left == [k \in Ids |-> IF Retires(rs[k], occs, eff) THEN NoRow ELSE rs[k]]
<1>1. o \in Unclaimed(left, occs)
  BY DEF MaintainClaims
<1>2. o \in occs
  BY <1>1 DEF Unclaimed
<1>3. CASE Retires(rs[i], occs, eff)
  BY <1>2, <1>3 DEF Retires
<1>4. CASE ~Retires(rs[i], occs, eff)
  <2>1. left[i] = rs[i]
    BY <1>4
  <2> HIDE DEF left
  <2> QED
    BY <1>1, <1>2, <2>1, UnclaimedIs
<1> QED
  BY <1>3, <1>4

LEMMA MaintainedFits ==
    ASSUME NEW rs, NEW top, RowsFit(rs, top), NEW occs \in SUBSET Occurrences, NEW eff,
           \A o \in occs : PeriodOf[o] <= top
    PROVE  RowsFit(Maintained(rs, occs, eff), top)
<1> DEFINE m == Maintained(rs, occs, eff)
           claims == MaintainClaims(rs, occs, eff)
<1>1. rs \in [Ids -> Row]
  BY DEF RowsFit
<1>2. PICK new, f : Maintains(m, rs, occs, eff, new, f)
  BY <1>1, MaintainedIs
<1>3. /\ new \subseteq Ids /\ \A i \in new : ~Exists(rs[i])
      /\ \A i \in new : f[i] \in claims
      /\ \A i, j \in new : f[i] = f[j] => i = j
      /\ \A i \in Ids :
            m[i] = IF i \in new THEN Generated(f[i])
                   ELSE IF Retires(rs[i], occs, eff) THEN NoRow
                   ELSE IF Updates(rs[i], occs, eff) THEN [rs[i] EXCEPT !.own = Derived]
                   ELSE rs[i]
  BY <1>2 DEF Maintains, Free
<1>4. claims \subseteq occs
  BY DEF MaintainClaims, Unclaimed
<1>5. \A o \in claims : \A i \in Ids : Exists(rs[i]) => rs[i].occ # o
  BY ClaimsAreNew
<1> HIDE DEF m, claims
<1>6. ASSUME NEW i \in new
      PROVE  /\ m[i] \in Row /\ RowSound(m[i]) /\ Exists(m[i]) /\ m[i].occ = f[i]
             /\ m[i].period <= top /\ f[i] \in claims
  <2>1. m[i] = Generated(f[i]) /\ f[i] \in Occurrences /\ f[i] \in occs
    BY <1>3, <1>4
  <2>2. /\ m[i] \in Row /\ RowSound(m[i]) /\ m[i].status = "projected" /\ m[i].occ = f[i]
        /\ m[i].period = PeriodOf[f[i]]
    BY <2>1, GeneratedIs
  <2> QED
    BY <1>3, <2>1, <2>2 DEF Exists
<1>7. ASSUME NEW i \in Ids \ new
      PROVE  /\ m[i] \in Row /\ RowSound(m[i])
             /\ Exists(m[i]) => /\ Exists(rs[i]) /\ m[i].occ = rs[i].occ
                                /\ m[i].period = rs[i].period
  <2>1. rs[i] \in Row /\ RowSound(rs[i])
    BY <1>1 DEF RowsFit
  <2>2. CASE Retires(rs[i], occs, eff)
    <3>1. m[i] = NoRow
      BY <1>3, <2>2
    <3>2. NoRow \in Row
      BY PeriodsAssumption DEF NoRow, Row, NoOcc, Derived, Periods
    <3> QED
      BY <3>1, <3>2 DEF NoRow, RowSound, Recorded, Exists
  <2>3. CASE ~Retires(rs[i], occs, eff) /\ Updates(rs[i], occs, eff)
    <3>1. m[i] = [rs[i] EXCEPT !.own = Derived]
      BY <1>3, <2>3
    <3> QED
      BY <2>1, <3>1 DEF Row, RowSound, Recorded, Live, Exists
  <2>4. CASE ~Retires(rs[i], occs, eff) /\ ~Updates(rs[i], occs, eff)
    <3>1. m[i] = rs[i]
      BY <1>3, <2>4
    <3> QED
      BY <2>1, <3>1
  <2> QED
    BY <2>2, <2>3, <2>4
<1>8. m \in [Ids -> Row]
  <2>1. \A i \in Ids : m[i] \in Row
    BY <1>6, <1>7
  <2>2. PICK t : m = [i \in Ids |-> t[i]]
    BY MaintainedIsFunction DEF m
  <2> QED
    BY <2>1, <2>2
<1>9. \A i \in Ids : RowSound(m[i]) /\ (Exists(m[i]) => m[i].period <= top)
  BY <1>6, <1>7 DEF RowsFit
<1>10. ASSUME NEW i \in Ids, NEW j \in Ids, Exists(m[i]), Exists(m[j]), m[i].occ = m[j].occ,
              m[i].occ # NoOcc
       PROVE  i = j
  <2>1. CASE i \in new /\ j \in new
    BY <1>3, <1>6, <1>10, <2>1
  <2>2. CASE i \in new /\ j \notin new
    BY <1>5, <1>6, <1>7, <1>10, <2>2
  <2>3. CASE i \notin new /\ j \in new
    BY <1>5, <1>6, <1>7, <1>10, <2>3
  <2>4. CASE i \notin new /\ j \notin new
    BY <1>7, <1>10, <2>4 DEF RowsFit
  <2> QED
    BY <2>1, <2>2, <2>3, <2>4
<1> QED
  BY <1>8, <1>9, <1>10 DEF RowsFit, m

(***************************************************************************)
(* The doors, the carry apart.                                             *)
(***************************************************************************)

\* Rows changed in place: each keeps the occurrence it answers.
LEMMA InPlaceFits ==
    ASSUME NEW rs, NEW top, RowsFit(rs, top), NEW ss, ss \in [Ids -> Row],
           \A i \in Ids : /\ RowSound(ss[i])
                          /\ Exists(ss[i]) => /\ Exists(rs[i]) /\ ss[i].occ = rs[i].occ
                                              /\ ss[i].period = rs[i].period
                                                 \/ ss[i].period <= top
    PROVE  RowsFit(ss, top)
<1>1. \A i \in Ids : Exists(ss[i]) => ss[i].period <= top
  BY DEF RowsFit
<1>2. ASSUME NEW i \in Ids, NEW j \in Ids, Exists(ss[i]), Exists(ss[j]), ss[i].occ = ss[j].occ,
             ss[i].occ # NoOcc
      PROVE  i = j
  BY <1>2 DEF RowsFit
<1> QED
  BY <1>1, <1>2 DEF RowsFit

\* The owner touches a row.
LEMMA TouchFits ==
    ASSUME IInv, NEW i \in Ids, NEW row \in Row, Touch(i, row), UNCHANGED envelope,
           RowSound(row), Exists(rows[i]), Exists(row), row.occ = rows[i].occ,
           row.period = rows[i].period \/ row.period <= saved,
           rows[i].own # Derived => row.own # Derived
    PROVE  IInv' /\ Stays(rows, rows')
<1>1. RowsFit(rows, saved) /\ rows \in [Ids -> Row]
  BY InvIs DEF RowsFit
<1>2. rows' = [rows EXCEPT ![i] = row] /\ UNCHANGED <<named, active, saved, now>>
      /\ acts < MaxActs /\ acts' = acts + 1
  BY DEF Touch
<1>3. /\ rows' \in [Ids -> Row] /\ rows'[i] = row
      /\ \A j \in Ids : j # i => rows'[j] = rows[j]
  BY <1>1, <1>2
<1>4. RowsFit(rows', saved)
  <2>1. \A j \in Ids : /\ RowSound(rows'[j])
                       /\ Exists(rows'[j]) => /\ Exists(rows[j]) /\ rows'[j].occ = rows[j].occ
                                              /\ rows'[j].period = rows[j].period
                                                 \/ rows'[j].period <= saved
    BY <1>1, <1>3 DEF RowsFit
  <2> QED
    BY <1>1, <1>3, <2>1, InPlaceFits
<1>5. acts' \in 0..MaxActs
  BY <1>2, InvIs, ActsAssumption
<1>6. RowsFit(rows, saved)'
  BY <1>2, <1>4 DEF RowsFit, RowSound, Recorded, Live, Exists
<1>7. IInv'
  <2>1. IInv' <=> (/\ RowsFit(rows, saved)
                   /\ envelope \in Kinds /\ named \subseteq Occurrences /\ active \in BOOLEAN
                   /\ saved \in Periods /\ now \in 1..saved /\ acts \in 0..MaxActs)'
    BY InvIs, PTL
  <2> QED
    BY <1>2, <1>5, <1>6, <2>1, InvIs DEF Periods
<1>8. Stays(rows, rows')
  BY <1>3 DEF Stays
<1> QED
  BY <1>7, <1>8

LEMMA InvNext ==
    ASSUME RowsFit(rows', saved'),
           envelope' \in Kinds, named' \subseteq Occurrences, active' \in BOOLEAN,
           saved' \in Periods, now' \in 1..saved', acts' \in 0..MaxActs
    PROVE  IInv'
<1>1. IInv' <=> (/\ RowsFit(rows, saved)
                 /\ envelope \in Kinds /\ named \subseteq Occurrences /\ active \in BOOLEAN
                 /\ saved \in Periods /\ now \in 1..saved /\ acts \in 0..MaxActs)'
  BY InvIs, PTL
<1>2. RowsFit(rows, saved)' <=> RowsFit(rows', saved')
  BY DEF RowsFit, RowSound, Recorded, Live, Exists
<1> QED
  BY <1>1, <1>2

\* A door of one row: what it writes.
LEMMA RowDoorKeeps ==
    ASSUME IInv, UNCHANGED envelope, NEW i \in Ids,
           Spend(i) \/ MarkDone(i) \/ Revert(i) \/ Reprice(i) \/ Refile(i) \/ Delete(i)
    PROVE  IInv' /\ Stays(rows, rows')
<1>1. rows[i] \in Row /\ RowSound(rows[i])
  BY InvIs DEF RowsFit
<1>2. CASE Spend(i)
  <2> DEFINE row == [rows[i] EXCEPT !.spent = @ + 1]
  <2>1. Open(rows[i]) /\ Touch(i, row)
    BY <1>2 DEF Spend
  <2>2. /\ row \in Row /\ row.occ = rows[i].occ /\ row.period = rows[i].period
        /\ row.own = rows[i].own /\ Exists(row) /\ RowSound(row) /\ Exists(rows[i])
    BY <1>1, <2>1 DEF Row, RowSound, Recorded, Live, Exists, Open
  <2> HIDE DEF row
  <2> QED
    BY <2>1, <2>2, TouchFits
<1>3. CASE MarkDone(i)
  <2> DEFINE row == [rows[i] EXCEPT !.status = "done", !.payment = (rows[i].spent = 0)]
  <2>1. Open(rows[i]) /\ Touch(i, row)
    BY <1>3 DEF MarkDone
  <2>2. /\ row \in Row /\ row.occ = rows[i].occ /\ row.period = rows[i].period
        /\ row.own = rows[i].own /\ Exists(row) /\ RowSound(row) /\ Exists(rows[i])
    BY <1>1, <2>1 DEF Row, RowSound, Recorded, Live, Exists, Open
  <2> HIDE DEF row
  <2> QED
    BY <2>1, <2>2, TouchFits
<1>4. CASE Revert(i)
  <2> DEFINE row == [rows[i] EXCEPT !.status = "projected"]
  <2>1. Live(rows[i]) /\ Touch(i, row)
    BY <1>4 DEF Revert
  <2>2. /\ row \in Row /\ row.occ = rows[i].occ /\ row.period = rows[i].period
        /\ row.own = rows[i].own /\ Exists(row) /\ RowSound(row) /\ Exists(rows[i])
    BY <1>1, <2>1 DEF Row, RowSound, Recorded, Live, Exists
  <2> HIDE DEF row
  <2> QED
    BY <2>1, <2>2, TouchFits
<1>5. CASE Reprice(i)
  <2>1. PICK a \in Typed : Touch(i, [rows[i] EXCEPT !.own = a, !.override = TRUE])
    BY <1>5 DEF Reprice
  <2> DEFINE row == [rows[i] EXCEPT !.own = a, !.override = TRUE]
  <2>2. Open(rows[i]) /\ Touch(i, row)
    BY <1>5, <2>1 DEF Reprice
  <2>4. a \in Nat /\ a # Derived
    BY AmountsAssumption DEF Derived
  <2>3. /\ row \in Row /\ row.occ = rows[i].occ /\ row.period = rows[i].period
        /\ row.own # Derived /\ Exists(row) /\ RowSound(row) /\ Exists(rows[i])
    BY <1>1, <2>2, <2>4 DEF Row, RowSound, Recorded, Live, Exists, Open
  <2> HIDE DEF row
  <2> QED
    BY <2>2, <2>3, TouchFits
<1>6. CASE Refile(i)
  <2>1. PICK p \in 1..saved : Touch(i, [rows[i] EXCEPT !.period = p, !.override = TRUE])
    BY <1>6 DEF Refile
  <2> DEFINE row == [rows[i] EXCEPT !.period = p, !.override = TRUE]
  <2>2. Open(rows[i]) /\ Touch(i, row)
    BY <1>6, <2>1 DEF Refile
  <2>4. p \in Periods /\ p <= saved
    <3>1. saved \in 1..LastPeriod /\ LastPeriod \in Nat
      BY InvIs, PeriodsAssumption DEF Periods
    <3> QED
      BY <3>1 DEF Periods
  <2>3. /\ row \in Row /\ row.occ = rows[i].occ /\ row.period = p
        /\ row.own = rows[i].own /\ Exists(row) /\ RowSound(row) /\ Exists(rows[i])
    BY <1>1, <2>2, <2>4 DEF Row, RowSound, Recorded, Live, Exists, Open
  <2> HIDE DEF row
  <2> QED
    BY <2>2, <2>3, <2>4, TouchFits
<1>7. CASE Delete(i)
  <2> DEFINE row == [rows[i] EXCEPT !.deleted = TRUE, !.spent = 0, !.payment = FALSE]
  <2>1. Live(rows[i]) /\ Touch(i, row)
    BY <1>7 DEF Delete
  <2>2. /\ row \in Row /\ row.occ = rows[i].occ /\ row.period = rows[i].period
        /\ row.own = rows[i].own /\ Exists(row) /\ RowSound(row) /\ Exists(rows[i])
    BY <1>1, <2>1 DEF Row, RowSound, Recorded, Live, Exists
  <2> HIDE DEF row
  <2> QED
    BY <2>1, <2>2, TouchFits
<1> QED
  BY <1>2, <1>3, <1>4, <1>5, <1>6, <1>7

LEMMA TopUpKeeps ==
    ASSUME IInv, UNCHANGED envelope, TopUp
    PROVE  IInv' /\ Stays(rows, rows')
<1> DEFINE occs == Placements(named, active, {saved + 1}, 1)
<1>1. /\ saved < LastPeriod /\ saved' = saved + 1 /\ rows' = Written(rows, Unclaimed(rows, occs))
      /\ UNCHANGED <<named, active, now, acts>>
  BY DEF TopUp
<1>2. /\ RowsFit(rows, saved) /\ saved \in Nat /\ saved \in 1..LastPeriod
      /\ envelope \in Kinds /\ named \subseteq Occurrences
      /\ active \in BOOLEAN /\ now \in 1..saved /\ acts \in 0..MaxActs
  BY InvIs, PeriodsAssumption DEF Periods
<1>3. RowsFit(rows, saved + 1)
  <2>1. \A i \in Ids : rows[i].period \in Nat
    BY <1>2, PeriodsAssumption DEF RowsFit, Row, Periods
  <2> QED
    BY <1>2, <2>1 DEF RowsFit
<1>4. occs \in SUBSET Occurrences /\ \A o \in occs : PeriodOf[o] <= saved + 1
  BY <1>2 DEF Placements
<1> HIDE DEF occs
<1>5. RowsFit(rows', saved') /\ Stays(rows, rows')
  BY <1>1, <1>3, <1>4, WrittenFits
<1> QED
  BY <1>1, <1>2, <1>5, InvNext, PeriodsAssumption DEF Periods

LEMMA AdvanceKeeps ==
    ASSUME IInv, UNCHANGED envelope, Advance
    PROVE  IInv' /\ Stays(rows, rows')
<1>1. /\ RowsFit(rows, saved) /\ saved \in Nat /\ saved \in Periods
      /\ envelope \in Kinds /\ named \subseteq Occurrences
      /\ active \in BOOLEAN /\ now \in 1..saved /\ acts \in 0..MaxActs
  BY InvIs, PeriodsAssumption DEF Periods
<1>2. now < saved /\ now' = now + 1 /\ UNCHANGED <<rows, named, active, saved, acts>>
  BY DEF Advance
<1>3. now' \in 1..saved' /\ RowsFit(rows', saved')
  BY <1>1, <1>2
<1>4. Stays(rows, rows')
  BY <1>2 DEF Stays
<1> QED
  BY <1>1, <1>2, <1>3, <1>4, InvNext

LEMMA ArchiveKeeps ==
    ASSUME IInv, UNCHANGED envelope, Archive
    PROVE  IInv' /\ Stays(rows, rows')
<1>1. /\ RowsFit(rows, saved) /\ saved \in Periods /\ rows \in [Ids -> Row]
      /\ envelope \in Kinds /\ named \subseteq Occurrences
      /\ active \in BOOLEAN /\ now \in 1..saved /\ acts \in 0..MaxActs
  BY InvIs DEF RowsFit
<1>2. /\ rows' = [i \in Ids |-> [rows[i] EXCEPT !.deleted = @ \/ Hides(rows[i])]]
      /\ active' = FALSE /\ UNCHANGED <<named, saved, now, acts>>
  BY DEF Archive
<1>3. ASSUME NEW i \in Ids
      PROVE  /\ rows'[i] \in Row /\ RowSound(rows'[i])
             /\ Exists(rows'[i]) <=> Exists(rows[i])
             /\ rows'[i].occ = rows[i].occ /\ rows'[i].period = rows[i].period
             /\ rows'[i].own = rows[i].own
  <2>1. rows[i] \in Row /\ RowSound(rows[i])
    BY <1>1 DEF RowsFit
  <2>2. Hides(rows[i]) \in BOOLEAN /\ (Hides(rows[i]) => ~Recorded(rows[i]))
    BY DEF Hides, Open, Live
  <2> DEFINE h == rows[i].deleted \/ Hides(rows[i])
  <2>3. rows'[i] = [rows[i] EXCEPT !.deleted = h] /\ h \in BOOLEAN
    BY <1>2, <2>1, <2>2 DEF Row
  <2>4. h => rows[i].deleted \/ ~Recorded(rows[i])
    BY <2>2
  <2> HIDE DEF h
  <2>5. /\ rows'[i] \in Row /\ rows'[i].deleted = h /\ rows'[i].status = rows[i].status
        /\ rows'[i].occ = rows[i].occ /\ rows'[i].period = rows[i].period
        /\ rows'[i].own = rows[i].own /\ rows'[i].override = rows[i].override
        /\ rows'[i].spent = rows[i].spent /\ rows'[i].payment = rows[i].payment
    BY <2>1, <2>3 DEF Row
  <2> QED
    BY <2>1, <2>4, <2>5 DEF RowSound, Recorded, Live, Exists
<1>4. rows' \in [Ids -> Row]
  BY <1>2, <1>3
<1>5. RowsFit(rows', saved)
  BY <1>1, <1>3, <1>4, InPlaceFits
<1>6. Stays(rows, rows')
  BY <1>3 DEF Stays
<1> QED
  BY <1>1, <1>2, <1>5, <1>6, InvNext

LEMMA UnarchiveKeeps ==
    ASSUME IInv, UNCHANGED envelope, Unarchive
    PROVE  IInv' /\ Stays(rows, rows')
<1> DEFINE restored == [i \in Ids |-> [rows[i] EXCEPT !.deleted = @ /\ rows[i].status = "done"]]
           occs == Placements(named, TRUE, 1..saved, now)
<1>1. /\ RowsFit(rows, saved) /\ saved \in Periods /\ rows \in [Ids -> Row]
      /\ envelope \in Kinds /\ named \subseteq Occurrences
      /\ active \in BOOLEAN /\ now \in 1..saved /\ acts \in 0..MaxActs
  BY InvIs DEF RowsFit
<1>2. /\ rows' = Written(restored, Unclaimed(restored, occs))
      /\ active' = TRUE /\ UNCHANGED <<named, saved, now, acts>>
  BY DEF Unarchive
<1>3. ASSUME NEW i \in Ids
      PROVE  /\ restored[i] \in Row /\ RowSound(restored[i])
             /\ Exists(restored[i]) <=> Exists(rows[i])
             /\ restored[i].occ = rows[i].occ /\ restored[i].period = rows[i].period
             /\ restored[i].own = rows[i].own
  <2>1. rows[i] \in Row /\ RowSound(rows[i])
    BY <1>1 DEF RowsFit
  <2> DEFINE h == rows[i].deleted /\ rows[i].status = "done"
  <2>2. restored[i] = [rows[i] EXCEPT !.deleted = h] /\ h \in BOOLEAN
    OBVIOUS
  <2>3. h => rows[i].deleted
    OBVIOUS
  <2> HIDE DEF h, restored
  <2>4. /\ restored[i] \in Row /\ restored[i].deleted = h /\ restored[i].status = rows[i].status
        /\ restored[i].occ = rows[i].occ /\ restored[i].period = rows[i].period
        /\ restored[i].own = rows[i].own /\ restored[i].override = rows[i].override
        /\ restored[i].spent = rows[i].spent /\ restored[i].payment = rows[i].payment
    BY <2>1, <2>2 DEF Row
  <2> QED
    BY <2>1, <2>3, <2>4 DEF RowSound, Recorded, Live, Exists
<1>4. restored \in [Ids -> Row]
  BY <1>3
<1>5. occs \in SUBSET Occurrences /\ \A o \in occs : PeriodOf[o] <= saved
  BY <1>1 DEF Placements, Periods
<1> HIDE DEF restored, occs
<1>6. RowsFit(restored, saved)
  BY <1>1, <1>3, <1>4, InPlaceFits
<1>7. RowsFit(rows', saved) /\ Stays(restored, rows')
  BY <1>2, <1>5, <1>6, WrittenFits
<1>8. Stays(rows, rows')
  BY <1>3, <1>7 DEF Stays
<1> QED
  BY <1>1, <1>2, <1>7, <1>8, InvNext

\* A row handed back keeps all but its hold.
LEMMA HandedFits ==
    ASSUME NEW rs, NEW top, RowsFit(rs, top), NEW used
    PROVE  /\ RowsFit(HandedBack(rs, used), top)
           /\ \A i \in Ids : /\ Exists(HandedBack(rs, used)[i]) <=> Exists(rs[i])
                             /\ HandedBack(rs, used)[i].own = rs[i].own
                                \/ ~HandedBack(rs, used)[i].override
<1> DEFINE ss == HandedBack(rs, used)
<1>1. ss = [i \in Ids |-> IF i \in used
                   THEN [rs[i] EXCEPT !.override = FALSE, !.deleted = FALSE, !.own = Derived]
                   ELSE rs[i]]
  BY DEF HandedBack
<1>2. rs \in [Ids -> Row]
  BY DEF RowsFit
<1> HIDE DEF ss
<1>3. ASSUME NEW i \in Ids
      PROVE  /\ ss[i] \in Row /\ RowSound(ss[i])
             /\ Exists(ss[i]) <=> Exists(rs[i])
             /\ ss[i].occ = rs[i].occ /\ ss[i].period = rs[i].period
             /\ ss[i].own = rs[i].own \/ ~ss[i].override
  <2>1. rs[i] \in Row /\ RowSound(rs[i])
    BY <1>2 DEF RowsFit
  <2>2. CASE i \in used
    <3>1. ss[i] = [rs[i] EXCEPT !.override = FALSE, !.deleted = FALSE, !.own = Derived]
      BY <1>1, <2>2
    <3>2. /\ ss[i] \in Row /\ ss[i].override = FALSE /\ ss[i].deleted = FALSE
          /\ ss[i].own = Derived /\ ss[i].status = rs[i].status /\ ss[i].occ = rs[i].occ
          /\ ss[i].period = rs[i].period /\ ss[i].spent = rs[i].spent
          /\ ss[i].payment = rs[i].payment
      BY <2>1, <3>1 DEF Row
    <3> QED
      BY <2>1, <3>2 DEF RowSound, Recorded, Live, Exists
  <2>3. CASE i \notin used
    BY <1>1, <2>1, <2>3
  <2> QED
    BY <2>2, <2>3
<1>4. ss \in [Ids -> Row]
  BY <1>1, <1>3
<1>5. RowsFit(ss, top)
  BY <1>3, <1>4, InPlaceFits
<1> QED
  BY <1>3, <1>5 DEF ss

\* What an edit leaves of the rows it met.
LEMMA EditKeeps ==
    ASSUME IInv, UNCHANGED envelope, Edit
    PROVE  /\ IInv'
           /\ \A i \in Ids :
                 /\ Recorded(rows[i]) => Exists(rows'[i])
                 /\ rows[i].own # Derived =>
                       Exists(rows'[i]) /\ (rows'[i].own # Derived \/ ~rows'[i].override)
                 /\ Open(rows[i]) /\ rows[i].occ \in named' /\ active'
                       /\ (rows[i].override \/ rows[i].period = PeriodOf[rows[i].occ])
                    => Exists(rows'[i])
<1>1. /\ RowsFit(rows, saved) /\ saved \in Periods /\ rows \in [Ids -> Row]
      /\ envelope \in Kinds /\ named \subseteq Occurrences
      /\ active \in BOOLEAN /\ now \in 1..saved /\ acts \in 0..MaxActs
  BY InvIs DEF RowsFit
<1>2. PICK rule \in Rules, eff \in 1..saved : \E used \in SUBSET Conflicts(rows, eff) :
        LET occs == Placements(rule, active, 1..saved, eff)
        IN /\ named' = rule
           /\ rows' = HandedBack(Maintained(rows, occs, eff), used)
           /\ UNCHANGED <<active, saved, now, acts>>
  BY DEF Edit
<1> DEFINE occs == Placements(rule, active, 1..saved, eff)
           m == Maintained(rows, occs, eff)
<1>3. PICK used : /\ named' = rule /\ rows' = HandedBack(m, used)
                  /\ UNCHANGED <<active, saved, now, acts>>
  BY <1>2
<1>4. rule \in SUBSET Occurrences
  BY RulesAssumption DEF Occurrences
<1>5. occs \in SUBSET Occurrences /\ \A o \in occs : PeriodOf[o] <= saved
  BY <1>1, <1>4 DEF Placements, Periods
<1>6. \A o \in rule : active /\ PeriodOf[o] \in 1..saved /\ PeriodOf[o] >= eff => o \in occs
  BY DEF Placements
<1> HIDE DEF occs
<1>7. RowsFit(m, saved)
  BY <1>1, <1>5, MaintainedFits
<1>8. PICK new, f : Maintains(m, rows, occs, eff, new, f)
  BY <1>1, <1>5, MaintainedIs
<1>9. ASSUME NEW i \in Ids, Exists(rows[i])
      PROVE  m[i] = IF Retires(rows[i], occs, eff) THEN NoRow
                    ELSE IF Updates(rows[i], occs, eff) THEN [rows[i] EXCEPT !.own = Derived]
                    ELSE rows[i]
  BY <1>8, <1>9 DEF Maintains, Free
<1> HIDE DEF m
<1>10. /\ RowsFit(rows', saved)
       /\ \A i \in Ids : /\ Exists(rows'[i]) <=> Exists(m[i])
                         /\ rows'[i].own = m[i].own \/ ~rows'[i].override
  BY <1>3, <1>7, HandedFits
<1>11. ASSUME NEW i \in Ids, Exists(rows[i]), ~Retires(rows[i], occs, eff)
       PROVE  Exists(m[i])
  BY <1>1, <1>9, <1>11 DEF Exists, Row
<1>12. \A i \in Ids : rows[i] \in Row /\ RowSound(rows[i])
  BY <1>1 DEF RowsFit
<1>13. ASSUME NEW i \in Ids, Recorded(rows[i])
       PROVE  Exists(rows'[i])
  BY <1>10, <1>11, <1>12, <1>13 DEF RowSound, Live, Retires
<1>14. ASSUME NEW i \in Ids, rows[i].own # Derived
       PROVE  Exists(rows'[i]) /\ (rows'[i].own # Derived \/ ~rows'[i].override)
  <2>1. Exists(rows[i]) /\ Held(rows[i])
    BY <1>12, <1>14 DEF RowSound, Held
  <2>2. m[i] = rows[i]
    BY <1>9, <2>1 DEF Retires, Updates
  <2> QED
    BY <1>10, <1>14, <2>1, <2>2
<1>15. ASSUME NEW i \in Ids, Open(rows[i]), rows[i].occ \in named', active',
              rows[i].override \/ rows[i].period = PeriodOf[rows[i].occ]
       PROVE  Exists(rows'[i])
  <2>1. ~Retires(rows[i], occs, eff)
    BY <1>3, <1>6, <1>15 DEF Retires, InScope, Held
  <2> QED
    BY <1>10, <1>11, <1>15, <2>1 DEF Open, Live
<1>16. IInv'
  BY <1>1, <1>3, <1>4, <1>10, InvNext
<1> QED
  BY <1>13, <1>14, <1>15, <1>16

(***************************************************************************)
(* What a definition plans, as the sum of what each of its slots does.     *)
(***************************************************************************)

Plan(r) == IF Open(r) THEN Budget(r) ELSE 0
PlanTable(rs) == [i \in Ids |-> Plan(rs[i])]

\* A row plans no less than nothing, and rolls no more than its budget.
LEMMA RowPlans ==
    ASSUME NEW r \in Row
    PROVE  /\ Budget(r) \in Nat /\ Leftover(r) \in Nat /\ Leftover(r) <= Budget(r)
           /\ Plan(r) \in Nat
<1>1. Budget(r) \in Nat /\ r.spent \in Nat
  BY AmountsAssumption DEF Budget, Row, Derived
<1> QED
  BY <1>1 DEF Leftover, Plan

LEMMA IdsAreFinite == IsFiniteSet(Ids)
BY FS_Interval, RowsAssumption DEF Ids

LEMMA PlannedIs ==
    ASSUME NEW rs, rs \in [Ids -> Row]
    PROVE  /\ Planned(rs) = SumFunctionOnSet(PlanTable(rs), Ids)
           /\ Planned(rs) \in Int
<1> DEFINE f == [i \in Ids |-> Budget(rs[i])]
           D == {i \in Ids : Open(rs[i])}
           g == PlanTable(rs)
<1>1. Planned(rs) = SumFunctionOnSet(f, D)
  BY DEF Planned
<1>2. \A i \in Ids : f[i] \in Int /\ g[i] \in Int
  BY RowPlans DEF PlanTable
<1>3. \A i \in Ids : g[i] = IF i \in D THEN f[i] ELSE 0
  BY DEF PlanTable, Plan
<1>4. D \in SUBSET Ids
  OBVIOUS
<1> HIDE DEF f, g, D
<1>5. SumFunctionOnSet(f, D) = SumFunctionOnSet(g, Ids)
  BY <1>2, <1>3, <1>4, IdsAreFinite, SumFilter
<1>6. SumFunctionOnSet(g, Ids) \in Int
  BY <1>2, IdsAreFinite, SumInt
<1> QED
  BY <1>1, <1>5, <1>6 DEF g

\* One row changes what it plans.
LEMMA OnePlanChanges ==
    ASSUME NEW rs, rs \in [Ids -> Row], NEW ss, ss \in [Ids -> Row], NEW i \in Ids,
           \A j \in Ids : j # i => Plan(ss[j]) = Plan(rs[j])
    PROVE  Planned(ss) = Planned(rs) + Plan(ss[i]) - Plan(rs[i])
<1> DEFINE f == PlanTable(rs)
           g == PlanTable(ss)
           Rest == Ids \ {i}
<1>1. \A j \in Ids : f[j] \in Int /\ g[j] \in Int
  BY RowPlans DEF PlanTable
<1>2. \A j \in Rest : f[j] = g[j]
  BY DEF PlanTable
<1>3. f[i] = Plan(rs[i]) /\ g[i] = Plan(ss[i])
  BY DEF PlanTable
<1>4. Planned(rs) = SumFunctionOnSet(f, Ids) /\ Planned(ss) = SumFunctionOnSet(g, Ids)
  BY PlannedIs
<1> HIDE DEF f, g
<1>5. SumFunctionOnSet(f, Ids) = f[i] + SumFunctionOnSet(f, Rest)
      /\ SumFunctionOnSet(g, Ids) = g[i] + SumFunctionOnSet(g, Rest)
  BY <1>1, IdsAreFinite, SumRemove
<1>6. IsFiniteSet(Rest)
  BY IdsAreFinite, FS_Subset
<1>7. SumFunctionOnSet(f, Rest) = SumFunctionOnSet(g, Rest) /\ SumFunctionOnSet(f, Rest) \in Int
  BY <1>1, <1>2, <1>6, SumSame, SumInt
<1> QED
  BY <1>1, <1>3, <1>4, <1>5, <1>7

\* Rows at the definition's price come on top.
LEMMA NewPlansAdd ==
    ASSUME NEW rs, rs \in [Ids -> Row], NEW ss, ss \in [Ids -> Row], NEW new \in SUBSET Ids,
           \A i \in new : Plan(rs[i]) = 0 /\ Plan(ss[i]) = Price,
           \A i \in Ids \ new : Plan(ss[i]) = Plan(rs[i])
    PROVE  Planned(ss) = Planned(rs) + Price * Cardinality(new)
<1> DEFINE f == PlanTable(rs)
           h == PlanTable(ss)
           g == [i \in Ids |-> IF i \in new THEN Price ELSE 0]
<1>1. \A i \in Ids : f[i] \in Int /\ g[i] \in Int /\ h[i] = f[i] + g[i]
  <2>1. ASSUME NEW i \in Ids
        PROVE  f[i] \in Int /\ g[i] \in Int /\ h[i] = f[i] + g[i]
    <3>1. f[i] = Plan(rs[i]) /\ h[i] = Plan(ss[i]) /\ f[i] \in Int /\ h[i] \in Int
      BY RowPlans DEF PlanTable
    <3>2. g[i] = IF i \in new THEN Price ELSE 0
      OBVIOUS
    <3> HIDE DEF f, g, h
    <3> QED
      BY <3>1, <3>2, AmountsAssumption
  <2> QED
    BY <2>1
<1>2. Planned(rs) = SumFunctionOnSet(f, Ids) /\ Planned(ss) = SumFunctionOnSet(h, Ids)
  BY PlannedIs
<1>3. (\A x \in new : g[x] = Price) /\ \A x \in Ids : g[x] = IF x \in new THEN g[x] ELSE 0
  OBVIOUS
<1> HIDE DEF f, g, h
<1>4. SumFunctionOnSet(h, Ids) = SumFunctionOnSet(f, Ids) + SumFunctionOnSet(g, Ids)
  BY <1>1, IdsAreFinite, SumPlus
<1>5. SumFunctionOnSet(g, new) = SumFunctionOnSet(g, Ids)
  BY <1>1, <1>3, IdsAreFinite, SumFilter
<1>6. SumFunctionOnSet(g, new) = Price * Cardinality(new)
  <2>1. IsFiniteSet(new)
    BY IdsAreFinite, FS_Subset
  <2> QED
    BY <1>3, <2>1, AmountsAssumption, SumConstant
<1> QED
  BY <1>2, <1>4, <1>5, <1>6

(***************************************************************************)
(* The carry.                                                              *)
(***************************************************************************)

\* A row that exists is topped up.
LEMMA ToppedFits ==
    ASSUME NEW rs, NEW top, RowsFit(rs, top), NEW i \in Ids, Exists(rs[i]), NEW by \in Nat,
           NEW ss, ss = Topped(rs, i, by)
    PROVE  /\ RowsFit(ss, top) /\ Stays(rs, ss)
           /\ \A j \in Ids : j # i => ss[j] = rs[j]
           /\ Exists(ss[i]) /\ ss[i].occ = rs[i].occ /\ ss[i].period = rs[i].period
           /\ Open(rs[i]) => Planned(ss) = Planned(rs) + by
<1>1. rs \in [Ids -> Row] /\ rs[i] \in Row /\ RowSound(rs[i])
  BY DEF RowsFit
<1>2. Budget(rs[i]) \in Nat
  BY <1>1, RowPlans
<1> DEFINE own == Budget(rs[i]) + by
           row == [rs[i] EXCEPT !.own = own, !.override = TRUE]
<1>3. own \in Nat
  BY <1>2
<1>4. ss = [rs EXCEPT ![i] = row]
  BY <1>1 DEF Topped, Row
<1> HIDE DEF own
<1>5. /\ row \in Row /\ row.own = own /\ row.own # Derived /\ row.override = TRUE
      /\ row.status = rs[i].status /\ row.deleted = rs[i].deleted /\ row.occ = rs[i].occ
      /\ row.period = rs[i].period /\ row.spent = rs[i].spent /\ row.payment = rs[i].payment
  <2>1. own # Derived
    BY <1>3 DEF Derived
  <2> QED
    BY <1>1, <1>3, <2>1 DEF Row
<1> HIDE DEF row
<1>6. ss \in [Ids -> Row] /\ ss[i] = row /\ \A j \in Ids : j # i => ss[j] = rs[j]
  BY <1>1, <1>4, <1>5
<1>7. RowSound(row) /\ Exists(row)
  BY <1>1, <1>5 DEF RowSound, Recorded, Live, Exists
<1>8. \A j \in Ids : /\ RowSound(ss[j])
                     /\ Exists(ss[j]) => /\ Exists(rs[j]) /\ ss[j].occ = rs[j].occ
                                         /\ ss[j].period = rs[j].period \/ ss[j].period <= top
  BY <1>5, <1>6, <1>7 DEF RowsFit
<1>9. RowsFit(ss, top)
  BY <1>6, <1>8, InPlaceFits
<1>10. Stays(rs, ss)
  BY <1>5, <1>6, <1>7 DEF Stays
<1>11. ASSUME Open(rs[i]) PROVE Planned(ss) = Planned(rs) + by
  <2>1. Plan(rs[i]) = Budget(rs[i]) /\ Plan(ss[i]) = own
    BY <1>5, <1>6, <1>11 DEF Plan, Open, Live, Exists, Budget
  <2>2. Planned(ss) = Planned(rs) + Plan(ss[i]) - Plan(rs[i])
    BY <1>1, <1>6, OnePlanChanges
  <2>3. Planned(rs) \in Int
    BY <1>1, PlannedIs
  <2> QED
    BY <1>2, <2>1, <2>2, <2>3 DEF own
<1> QED
  BY <1>5, <1>6, <1>7, <1>9, <1>10, <1>11

CarryState == [rows : [Ids -> Row], added : SUBSET Ids, refused : BOOLEAN, room : BOOLEAN]

\* Rows a carry may be at: what the batch only added answers nothing.
CarryFits(st, top) ==
    /\ st \in CarryState
    /\ RowsFit(st.rows, top)
    /\ \A i \in st.added : st.rows[i].occ = NoOcc

\* A roll of by into paycheck p: what changes lies in p, and by is planned
\* with the price of the rows new.
Rolls(st, nx, p, by) ==
    /\ \A i \in Ids : \/ nx.rows[i] = st.rows[i]
                      \/ /\ Exists(nx.rows[i]) /\ nx.rows[i].period = p
                         /\ Exists(st.rows[i]) => /\ st.rows[i].period = p
                                                  /\ nx.rows[i].occ = st.rows[i].occ
    /\ \E new \in SUBSET Ids :
          /\ \A i \in Ids : i \in new <=> ~Exists(st.rows[i]) /\ nx.rows[i].occ # NoOcc
          /\ Planned(nx.rows) = Planned(st.rows) + by + Price * Cardinality(new)

\* What the batch sees of its rows.
LEMMA SeenIs ==
    ASSUME NEW st, st \in CarryState, NEW i \in Ids
    PROVE  Seen(st)[i] = IF i \in st.added THEN NoRow ELSE st.rows[i]
BY DEF Seen

\* A query of open rows sees rows of the batch.
LEMMA OpenSeen ==
    ASSUME NEW st, st \in CarryState, NEW p, NEW i \in OpenAt(Seen(st), p)
    PROVE  i \in Ids /\ i \notin st.added /\ Open(st.rows[i]) /\ st.rows[i].period = p
<1>1. i \in Ids /\ Open(Seen(st)[i]) /\ Seen(st)[i].period = p
  BY DEF OpenAt, At, Open
<1>2. i \notin st.added
  BY <1>1, SeenIs DEF Open, Live, Exists, NoRow
<1> QED
  BY <1>1, <1>2, SeenIs

\* The target has an open row: it is topped up.
LEMMA ToppedRolls ==
    ASSUME NEW st, NEW top, CarryFits(st, top), NEW p, NEW by \in Nat,
           NEW i \in OpenAt(Seen(st), p), NEW nx, nx = [st EXCEPT !.rows = Topped(st.rows, i, by)]
    PROVE  CarryFits(nx, top) /\ Stays(st.rows, nx.rows) /\ Rolls(st, nx, p, by)
<1>1. /\ st \in CarryState /\ RowsFit(st.rows, top) /\ st.rows \in [Ids -> Row]
      /\ \A j \in st.added : st.rows[j].occ = NoOcc
  BY DEF CarryFits, CarryState
<1>2. i \in Ids /\ i \notin st.added /\ Open(st.rows[i]) /\ st.rows[i].period = p
  BY <1>1, OpenSeen
<1>3. Exists(st.rows[i])
  BY <1>2 DEF Open, Live
<1> DEFINE ss == Topped(st.rows, i, by)
<1>4. /\ RowsFit(ss, top) /\ Stays(st.rows, ss)
      /\ \A j \in Ids : j # i => ss[j] = st.rows[j]
      /\ Exists(ss[i]) /\ ss[i].occ = st.rows[i].occ /\ ss[i].period = st.rows[i].period
      /\ Planned(ss) = Planned(st.rows) + by
  BY <1>1, <1>2, <1>3, ToppedFits
<1> HIDE DEF ss
<1>5. ss \in [Ids -> Row]
  BY <1>4 DEF RowsFit
<1>6. /\ nx \in CarryState /\ nx.rows = ss /\ nx.added = st.added
  BY <1>1, <1>5 DEF CarryState, ss
<1>7. CarryFits(nx, top)
  BY <1>1, <1>2, <1>4, <1>6 DEF CarryFits, CarryState
<1>8. Rolls(st, nx, p, by)
  <2>1. \A j \in Ids : \/ nx.rows[j] = st.rows[j]
                       \/ /\ Exists(nx.rows[j]) /\ nx.rows[j].period = p
                          /\ Exists(st.rows[j]) => /\ st.rows[j].period = p
                                                   /\ nx.rows[j].occ = st.rows[j].occ
    BY <1>2, <1>4, <1>6
  <2>2. \A j \in Ids : j \in {} <=> ~Exists(st.rows[j]) /\ nx.rows[j].occ # NoOcc
    BY <1>1, <1>3, <1>4, <1>6 DEF RowsFit, RowSound
  <2>3. Planned(nx.rows) = Planned(st.rows) + by + Price * Cardinality({})
    BY <1>1, <1>4, <1>6, FS_EmptySet, AmountsAssumption, PlannedIs
  <2> QED
    BY <2>1, <2>2, <2>3 DEF Rolls
<1> QED
  BY <1>4, <1>6, <1>7, <1>8

\* The target has no open row and nothing to write: the leftover is a row of
\* its own.
LEMMA CreatedRolls ==
    ASSUME NEW st, NEW top, CarryFits(st, top), NEW p \in Periods, p <= top, NEW by \in Nat,
           NEW i \in Free(st.rows), NEW nx,
           NEW added \in SUBSET (st.added \cup {i}),
           nx = [st EXCEPT !.rows = Topped([st.rows EXCEPT ![i] = LeftoverRow(p)], i, by),
                           !.added = added]
    PROVE  CarryFits(nx, top) /\ Stays(st.rows, nx.rows) /\ Rolls(st, nx, p, by)
<1>1. /\ st \in CarryState /\ RowsFit(st.rows, top) /\ st.rows \in [Ids -> Row]
      /\ \A j \in st.added : j \in Ids /\ st.rows[j].occ = NoOcc
  BY DEF CarryFits, CarryState
<1>2. i \in Ids /\ ~Exists(st.rows[i])
  BY DEF Free
<1>3. st.rows[i].own = Derived /\ st.rows[i].occ = NoOcc
  BY <1>1, <1>2 DEF RowsFit, RowSound
<1> DEFINE r == LeftoverRow(p)
           ws == [st.rows EXCEPT ![i] = r]
           ss == Topped(ws, i, by)
<1>4. /\ r \in Row /\ RowSound(r) /\ Open(r) /\ Exists(r) /\ r.occ = NoOcc /\ r.period = p
      /\ r.own = 0
  BY DEF LeftoverRow, NoRow, Row, RowSound, Recorded, Open, Live, Exists, NoOcc, Derived
<1> HIDE DEF r
<1>5. /\ ws \in [Ids -> Row] /\ ws[i] = r /\ \A j \in Ids : j # i => ws[j] = st.rows[j]
  BY <1>1, <1>2, <1>4
<1> HIDE DEF ws
<1>6. RowsFit(ws, top)
  <2>1. \A j \in Ids : RowSound(ws[j]) /\ (Exists(ws[j]) => ws[j].period <= top)
    BY <1>1, <1>4, <1>5 DEF RowsFit
  <2>2. ASSUME NEW j \in Ids, NEW k \in Ids, Exists(ws[j]), Exists(ws[k]), ws[j].occ = ws[k].occ,
               ws[j].occ # NoOcc
        PROVE  j = k
    BY <1>1, <1>4, <1>5, <2>2 DEF RowsFit
  <2> QED
    BY <1>5, <2>1, <2>2 DEF RowsFit
<1>7. Planned(ws) = Planned(st.rows) /\ Planned(st.rows) \in Int
  <2>1. Plan(st.rows[i]) = 0
    BY <1>2 DEF Plan, Open, Live
  <2>2. Plan(ws[i]) = 0
    BY <1>4, <1>5 DEF Plan, Budget, Derived
  <2>3. Planned(ws) = Planned(st.rows) + Plan(ws[i]) - Plan(st.rows[i])
    BY <1>1, <1>2, <1>5, OnePlanChanges
  <2>4. Planned(st.rows) \in Int
    BY <1>1, PlannedIs
  <2> QED
    BY <2>1, <2>2, <2>3, <2>4
<1>8. /\ RowsFit(ss, top) /\ Stays(ws, ss)
      /\ \A j \in Ids : j # i => ss[j] = ws[j]
      /\ Exists(ss[i]) /\ ss[i].occ = NoOcc /\ ss[i].period = p
      /\ Planned(ss) = Planned(ws) + by
  BY <1>2, <1>4, <1>5, <1>6, ToppedFits
<1>9. nx.rows = ss /\ nx.added = added /\ nx \in CarryState
  <2>1. ss \in [Ids -> Row]
    BY <1>8 DEF RowsFit
  <2>2. nx = [st EXCEPT !.rows = ss, !.added = added]
    BY DEF ss, ws, r
  <2>3. added \in SUBSET Ids
    BY <1>1, <1>2
  <2> HIDE DEF ss
  <2> QED
    BY <1>1, <2>1, <2>2, <2>3 DEF CarryState
<1> HIDE DEF ss
<1>10. CarryFits(nx, top)
  <2>1. \A j \in nx.added : nx.rows[j].occ = NoOcc
    BY <1>1, <1>2, <1>5, <1>8, <1>9
  <2> QED
    BY <1>8, <1>9, <2>1 DEF CarryFits
<1>11. Stays(st.rows, nx.rows)
  BY <1>2, <1>3, <1>5, <1>8, <1>9 DEF Stays
<1>12. Rolls(st, nx, p, by)
  <2>1. \A j \in Ids : \/ nx.rows[j] = st.rows[j]
                       \/ /\ Exists(nx.rows[j]) /\ nx.rows[j].period = p
                          /\ Exists(st.rows[j]) => /\ st.rows[j].period = p
                                                   /\ nx.rows[j].occ = st.rows[j].occ
    BY <1>2, <1>5, <1>8, <1>9
  <2>2. \A j \in Ids : j \in {} <=> ~Exists(st.rows[j]) /\ nx.rows[j].occ # NoOcc
    BY <1>1, <1>2, <1>5, <1>8, <1>9 DEF RowsFit, RowSound
  <2>3. Planned(nx.rows) = Planned(st.rows) + by + Price * Cardinality({})
    BY <1>7, <1>8, <1>9, FS_EmptySet, AmountsAssumption
  <2> QED
    BY <2>1, <2>2, <2>3 DEF Rolls
<1> QED
  BY <1>10, <1>11, <1>12

\* Some id of a set comes first by the occurrences of its rows.
LEMMA EarliestIs ==
    ASSUME NEW rs, rs \in [Ids -> Row], NEW ids \in SUBSET Ids, ids # {}
    PROVE  Earliest(rs, ids) \in ids
<1> DEFINE S == {rs[i].occ : i \in ids}
<1>1. S \in SUBSET Nat
  BY OccurrencesAssumption DEF Row, NoOcc, Occurrences
<1>2. S # {}
  OBVIOUS
<1>3. PICK m \in S : \A x \in S : m <= x
  BY <1>1, <1>2, LeastExists
<1>4. PICK i \in ids : m = rs[i].occ
  OBVIOUS
<1>5. \A j \in ids : rs[i].occ <= rs[j].occ
  BY <1>3, <1>4
<1> QED
  BY <1>4, <1>5 DEF Earliest

\* The target has rows the engine can still write: they are written, and the
\* first is topped up.
LEMMA GeneratedRolls ==
    ASSUME NEW st, NEW top, CarryFits(st, top), NEW p \in Periods, p <= top, NEW by \in Nat,
           named \subseteq Occurrences,
           NEW occs, occs = GenerateWindow(Seen(st), p), occs # {}, Room(st.rows, occs),
           NEW made, made = Written(st.rows, occs), NEW nx,
           nx = [st EXCEPT
                   !.rows = Topped(made, Earliest(made, OpenAt(made, p) \cap Free(st.rows)), by),
                   !.added = {}]
    PROVE  CarryFits(nx, top) /\ Stays(st.rows, nx.rows) /\ Rolls(st, nx, p, by)
<1>1. /\ st \in CarryState /\ RowsFit(st.rows, top) /\ st.rows \in [Ids -> Row]
      /\ \A j \in st.added : j \in Ids /\ st.rows[j].occ = NoOcc
  BY DEF CarryFits, CarryState
<1>2. occs \in SUBSET Occurrences /\ \A o \in occs : PeriodOf[o] = p
  BY DEF GenerateWindow, Generable, Unclaimed
<1>3. ASSUME NEW o \in occs, NEW i \in Ids, Exists(st.rows[i])
      PROVE  st.rows[i].occ # o
  <2>1. o \in Unclaimed(Seen(st), named) /\ o # NoOcc
    BY <1>2, OccurrencesAssumption DEF GenerateWindow, Generable, Occurrences, NoOcc
  <2>2. CASE i \in st.added
    BY <1>1, <2>1, <2>2
  <2>3. CASE i \notin st.added
    <3>1. Seen(st)[i] = st.rows[i]
      BY <1>1, <2>3, SeenIs
    <3> QED
      BY <1>3, <2>1, <3>1, UnclaimedIs
  <2> QED
    BY <2>2, <2>3
<1>4. PICK new, f : /\ Fills(made, st.rows, occs, new, f)
                    /\ \A o \in occs : \E i \in new : f[i] = o
  BY <1>2, WrittenFills
<1>5. RowsFit(made, top) /\ Stays(st.rows, made)
  <2>1. \A o \in occs : /\ PeriodOf[o] <= top
                        /\ \A i \in Ids : Exists(st.rows[i]) => st.rows[i].occ # o
    BY <1>2, <1>3
  <2> QED
    BY <1>1, <1>2, <1>4, <2>1, FilledFits
<1>6. /\ new \subseteq Ids /\ \A i \in new : ~Exists(st.rows[i]) /\ f[i] \in occs
      /\ \A i \in new : made[i] = Generated(f[i])
      /\ \A i \in Ids \ new : made[i] = st.rows[i]
      /\ new \subseteq Free(st.rows)
  BY <1>4 DEF Fills, Free
<1>7. ASSUME NEW i \in new
      PROVE  /\ Open(made[i]) /\ Exists(made[i]) /\ made[i].period = p
             /\ made[i].occ = f[i] /\ made[i].occ # NoOcc /\ made[i].own = Derived
  <2>1. /\ made[i].status = "projected" /\ made[i].deleted = FALSE /\ made[i].occ = f[i]
        /\ made[i].own = Derived /\ made[i].period = PeriodOf[f[i]] /\ f[i] # NoOcc
    <3>1. made[i] = Generated(f[i]) /\ f[i] \in Occurrences
      BY <1>2, <1>6
    <3> QED
      BY <3>1, GeneratedIs
  <2> QED
    BY <1>2, <1>6, <2>1 DEF Open, Live, Exists
<1> DEFINE ids == OpenAt(made, p) \cap Free(st.rows)
           i == Earliest(made, ids)
           ss == Topped(made, i, by)
<1>8. made \in [Ids -> Row]
  BY <1>5 DEF RowsFit
<1>9. ids \in SUBSET Ids /\ ids # {}
  <2>1. PICK k \in new : TRUE
    BY <1>4
  <2>2. k \in OpenAt(made, p)
    BY <1>6, <1>7 DEF OpenAt, At, Open
  <2> QED
    BY <1>6, <2>1, <2>2 DEF Free
<1>10. i \in Ids /\ Open(made[i]) /\ Exists(made[i]) /\ made[i].period = p /\ ~Exists(st.rows[i])
  <2>1. i \in ids
    BY <1>8, <1>9, EarliestIs
  <2> HIDE DEF i
  <2> QED
    BY <2>1 DEF OpenAt, At, Open, Live, Free
<1>11. i \in new
  BY <1>6, <1>10
<1> HIDE DEF ids, i
<1>12. /\ RowsFit(ss, top) /\ Stays(made, ss)
       /\ \A j \in Ids : j # i => ss[j] = made[j]
       /\ Exists(ss[i]) /\ ss[i].occ = made[i].occ /\ ss[i].period = p
       /\ Planned(ss) = Planned(made) + by
  BY <1>5, <1>10, ToppedFits
<1>13. nx.rows = ss /\ nx.added = {} /\ nx \in CarryState
  <2>1. ss \in [Ids -> Row]
    BY <1>12 DEF RowsFit
  <2>2. nx = [st EXCEPT !.rows = ss, !.added = {}]
    BY DEF ss, i, ids
  <2> HIDE DEF ss
  <2> QED
    BY <1>1, <2>1, <2>2 DEF CarryState
<1> HIDE DEF ss
<1>14. CarryFits(nx, top)
  BY <1>12, <1>13 DEF CarryFits
<1>15. Stays(st.rows, nx.rows)
  BY <1>5, <1>12, <1>13 DEF Stays
<1>16. Planned(made) = Planned(st.rows) + Price * Cardinality(new)
  <2>1. \A j \in new : Plan(st.rows[j]) = 0 /\ Plan(made[j]) = Price
    BY <1>6, <1>7 DEF Plan, Open, Live, Budget
  <2>2. \A j \in Ids \ new : Plan(made[j]) = Plan(st.rows[j])
    BY <1>6
  <2> QED
    BY <1>1, <1>6, <1>8, <2>1, <2>2, NewPlansAdd
<1>17. Rolls(st, nx, p, by)
  <2>1. \A j \in Ids : \/ nx.rows[j] = st.rows[j]
                       \/ /\ Exists(nx.rows[j]) /\ nx.rows[j].period = p
                          /\ Exists(st.rows[j]) => /\ st.rows[j].period = p
                                                   /\ nx.rows[j].occ = st.rows[j].occ
    BY <1>6, <1>7, <1>11, <1>12, <1>13
  <2>2. \A j \in Ids : j \in new <=> ~Exists(st.rows[j]) /\ nx.rows[j].occ # NoOcc
    BY <1>1, <1>6, <1>7, <1>11, <1>12, <1>13 DEF RowsFit, RowSound
  <2>3. Planned(nx.rows) = Planned(st.rows) + by + Price * Cardinality(new)
    <3>1. Planned(st.rows) \in Int /\ Planned(made) \in Int
      BY <1>1, <1>8, PlannedIs
    <3>2. Price * Cardinality(new) \in Int
      BY <1>6, IdsAreFinite, FS_Subset, FS_CardinalityType, AmountsAssumption
    <3> QED
      BY <1>12, <1>13, <1>16, <3>1, <3>2
  <2> QED
    BY <1>6, <2>1, <2>2, <2>3 DEF Rolls
<1> QED
  BY <1>14, <1>15, <1>17

LEMMA RolledOverIs ==
    ASSUME NEW st, NEW top, CarryFits(st, top), NEW p \in Periods, p <= top, NEW by \in Nat,
           NEW flushed, named \subseteq Occurrences, NEW nx, nx = RolledOver(st, p, by, flushed)
    PROVE  /\ CarryFits(nx, top) /\ Stays(st.rows, nx.rows)
           /\ ~nx.refused /\ nx.room => Rolls(st, nx, p, by)
<1> DEFINE seen == Seen(st)
           kind == TargetKind(seen, p)
           free == Free(st.rows)
           occs == GenerateWindow(seen, p)
           made == Written(st.rows, occs)
           put(i) == [st EXCEPT !.rows = Topped([st.rows EXCEPT ![i] = LeftoverRow(p)], i, by),
                                !.added = IF flushed THEN {} ELSE @ \cup {i}]
           least == CHOOSE j \in free : \A k \in free : j <= k
           fill == [st EXCEPT !.rows = Topped(made, Earliest(made, OpenAt(made, p) \cap free), by),
                              !.added = {}]
           top_up == [st EXCEPT !.rows = Topped(st.rows, CHOOSE i \in Recipients(seen, p) : TRUE, by)]
<1>1. st \in CarryState /\ Stays(st.rows, st.rows)
  BY DEF CarryFits, Stays
<1>2. nx = CASE kind = "ambiguous" -> [st EXCEPT !.refused = TRUE]
             [] kind = "top_up" -> top_up
             [] kind = "generate" /\ Room(st.rows, occs) -> fill
             [] kind = "create" /\ free # {} -> put(least)
             [] OTHER -> [st EXCEPT !.room = FALSE]
  BY DEF RolledOver
<1>3. kind \in {"ambiguous", "top_up", "generate", "create"}
  BY DEF TargetKind
<1>4. CASE kind = "ambiguous"
  <2>1. nx = [st EXCEPT !.refused = TRUE]
    <3> HIDE DEF kind, top_up, fill, put
    <3> QED BY <1>2, <1>4
  <2>2. /\ nx \in CarryState /\ nx.rows = st.rows /\ nx.added = st.added /\ nx.refused = TRUE
    BY <1>1, <2>1 DEF CarryState
  <2> QED
    BY <1>1, <2>2 DEF CarryFits
<1>5. CASE kind = "top_up"
  <2>1. nx = top_up
    <3> HIDE DEF kind, top_up, fill, put
    <3> QED BY <1>2, <1>5
  <2>2. Recipients(seen, p) # {}
    BY <1>5 DEF TargetKind
  <2>3. Recipients(seen, p) \subseteq OpenAt(seen, p)
    BY DEF Recipients
  <2>4. PICK i \in OpenAt(seen, p) : i = CHOOSE j \in Recipients(seen, p) : TRUE
    BY <2>2, <2>3
  <2>5. nx = [st EXCEPT !.rows = Topped(st.rows, i, by)]
    BY <2>1, <2>4
  <2> QED
    BY <2>5, ToppedRolls
<1>6. CASE kind = "generate" /\ Room(st.rows, occs)
  <2>1. nx = fill
    <3> HIDE DEF kind, top_up, fill, put
    <3> QED BY <1>2, <1>6
  <2>2. occs # {}
    BY <1>6 DEF TargetKind, GenerateWindow
  <2>3. CarryFits(nx, top) /\ Stays(st.rows, nx.rows) /\ Rolls(st, nx, p, by)
    BY <1>6, <2>1, <2>2, GeneratedRolls
  <2> QED
    BY <2>3
<1>7. CASE kind = "create" /\ free # {}
  <2>1. nx = put(least)
    <3> HIDE DEF kind, top_up, fill, put
    <3> QED BY <1>2, <1>7
  <2>2. least \in free
    <3>1. free \in SUBSET Nat
      BY RowsAssumption DEF Free, Ids
    <3>2. \E j \in free : \A k \in free : j <= k
      BY <1>7, <3>1, LeastExists
    <3> HIDE DEF free
    <3> QED BY <3>2
  <2> DEFINE more == IF flushed THEN {} ELSE st.added \cup {least}
  <2>3. nx = [st EXCEPT !.rows = Topped([st.rows EXCEPT ![least] = LeftoverRow(p)], least, by),
                        !.added = more]
    BY <1>1, <2>1 DEF CarryState
  <2>4. more \in SUBSET (st.added \cup {least})
    OBVIOUS
  <2> HIDE DEF more, least
  <2>5. CarryFits(nx, top) /\ Stays(st.rows, nx.rows) /\ Rolls(st, nx, p, by)
    <3>1. least \in Free(st.rows)
      BY <2>2
    <3> QED
      BY <2>3, <2>4, <3>1, CreatedRolls
  <2> QED
    BY <2>5
<1>8. CASE /\ kind # "ambiguous" /\ kind # "top_up"
           /\ ~(kind = "generate" /\ Room(st.rows, occs))
           /\ ~(kind = "create" /\ free # {})
  <2>1. nx = [st EXCEPT !.room = FALSE]
    <3> HIDE DEF kind, top_up, fill, put
    <3> QED BY <1>2, <1>8
  <2>2. /\ nx \in CarryState /\ nx.rows = st.rows /\ nx.added = st.added /\ nx.room = FALSE
    BY <1>1, <2>1 DEF CarryState
  <2> QED
    BY <1>1, <2>2 DEF CarryFits
<1> QED
  BY <1>4, <1>5, <1>6, <1>7, <1>8

\* The source is settled from its purchases: it plans nothing more.
LEMMA ClosedFits ==
    ASSUME NEW st, NEW top, CarryFits(st, top), NEW i \in Ids, Open(st.rows[i]),
           NEW nx, nx = Closed(st, i)
    PROVE  /\ CarryFits(nx, top) /\ Stays(st.rows, nx.rows)
           /\ nx.refused = st.refused /\ nx.room = st.room
           /\ \A j \in Ids : j # i => nx.rows[j] = st.rows[j]
           /\ ~Open(nx.rows[i]) /\ nx.rows[i].occ = st.rows[i].occ /\ Exists(nx.rows[i])
           /\ Planned(nx.rows) = Planned(st.rows) - Budget(st.rows[i])
<1>1. /\ st \in CarryState /\ RowsFit(st.rows, top) /\ st.rows \in [Ids -> Row]
      /\ \A j \in st.added : j \in Ids /\ st.rows[j].occ = NoOcc
      /\ st.rows[i] \in Row /\ RowSound(st.rows[i])
  BY DEF CarryFits, CarryState, RowsFit
<1> DEFINE row == [st.rows[i] EXCEPT !.status = "done", !.payment = FALSE]
           ss == [st.rows EXCEPT ![i] = row]
<1>2. /\ row \in Row /\ row.status = "done" /\ row.payment = FALSE
      /\ row.deleted = st.rows[i].deleted /\ row.occ = st.rows[i].occ /\ row.own = st.rows[i].own
      /\ row.period = st.rows[i].period /\ row.spent = st.rows[i].spent
      /\ row.override = st.rows[i].override
  BY <1>1 DEF Row
<1>3. nx = [st EXCEPT !.rows = ss]
  BY <1>1 DEF Closed, CarryState, Row
<1> HIDE DEF row
<1>4. /\ ss \in [Ids -> Row] /\ ss[i] = row /\ \A j \in Ids : j # i => ss[j] = st.rows[j]
  BY <1>1, <1>2
<1> HIDE DEF ss
<1>5. /\ nx \in CarryState /\ nx.rows = ss /\ nx.added = st.added
      /\ nx.refused = st.refused /\ nx.room = st.room
  BY <1>1, <1>3, <1>4 DEF CarryState
<1>6. RowSound(row) /\ Exists(row) /\ ~Open(row)
  BY <1>1, <1>2 DEF RowSound, Recorded, Live, Exists, Open
<1>7. RowsFit(ss, top)
  <2>1. \A j \in Ids : /\ RowSound(ss[j])
                       /\ Exists(ss[j]) => /\ Exists(st.rows[j]) /\ ss[j].occ = st.rows[j].occ
                                           /\ ss[j].period = st.rows[j].period \/ ss[j].period <= top
    BY <1>1, <1>2, <1>4, <1>6 DEF RowsFit, Open, Live
  <2> QED
    BY <1>1, <1>4, <2>1, InPlaceFits
<1>8. CarryFits(nx, top)
  BY <1>1, <1>2, <1>4, <1>5, <1>7 DEF CarryFits
<1>9. Stays(st.rows, nx.rows)
  BY <1>2, <1>4, <1>5, <1>6 DEF Stays
<1>10. Planned(nx.rows) = Planned(st.rows) - Budget(st.rows[i])
  <2>1. Plan(st.rows[i]) = Budget(st.rows[i]) /\ Plan(ss[i]) = 0
    BY <1>4, <1>6 DEF Plan
  <2>2. Planned(ss) = Planned(st.rows) + Plan(ss[i]) - Plan(st.rows[i])
    BY <1>1, <1>4, OnePlanChanges
  <2>3. Planned(st.rows) \in Int /\ Budget(st.rows[i]) \in Int
    BY <1>1, PlannedIs, RowPlans
  <2> QED
    BY <1>5, <2>1, <2>2, <2>3
<1> QED
  BY <1>2, <1>4, <1>5, <1>6, <1>8, <1>9, <1>10

\* A source i of paycheck s is closed and its leftover rolled elsewhere.
Leaves(st, nx, s, i) ==
    /\ \A j \in Ids : Exists(st.rows[j]) => nx.rows[j].occ = st.rows[j].occ
    /\ \A j \in OpenAt(st.rows, s) : j # i => nx.rows[j] = st.rows[j]
    /\ \A j \in OpenAt(nx.rows, s) : j \in OpenAt(st.rows, s) /\ j # i
    /\ \E new \in SUBSET Ids :
          /\ \A j \in Ids : j \in new <=> ~Exists(st.rows[j]) /\ nx.rows[j].occ # NoOcc
          /\ Planned(nx.rows) + Budget(st.rows[i]) - Leftover(st.rows[i])
               = Planned(st.rows) + Price * Cardinality(new)

LEMMA OpenAtIs ==
    ASSUME NEW rs, NEW p, NEW i
    PROVE  i \in OpenAt(rs, p) <=> i \in Ids /\ Open(rs[i]) /\ rs[i].period = p
BY DEF OpenAt, At, Open

LEMMA RolledIs ==
    ASSUME NEW st, NEW top, CarryFits(st, top), ~st.refused, st.room,
           NEW p \in Periods, p <= top, NEW flushed, named \subseteq Occurrences,
           NEW s, s # p, NEW i \in OpenAt(st.rows, s), NEW nx, nx = Rolled(st, i, p, flushed)
    PROVE  /\ CarryFits(nx, top) /\ Stays(st.rows, nx.rows)
           /\ ~nx.refused /\ nx.room => Leaves(st, nx, s, i)
<1> DEFINE by == Leftover(st.rows[i])
           mid == IF by = 0 THEN st ELSE RolledOver(st, p, by, flushed)
<1>1. /\ st.rows \in [Ids -> Row] /\ RowsFit(st.rows, top)
      /\ i \in Ids /\ Open(st.rows[i]) /\ Exists(st.rows[i]) /\ st.rows[i].period = s
  BY OpenAtIs DEF CarryFits, CarryState, Open, Live
<1>2. by \in Nat /\ Budget(st.rows[i]) \in Nat
  BY <1>1, RowPlans
<1>3. nx = IF mid.refused \/ ~mid.room THEN mid ELSE Closed(mid, i)
  BY DEF Rolled
<1> HIDE DEF by
<1>4. /\ CarryFits(mid, top) /\ Stays(st.rows, mid.rows)
      /\ ~mid.refused /\ mid.room => Rolls(st, mid, p, by)
  <2>1. CASE by = 0
    <3>1. mid = st
      BY <2>1
    <3>2. Stays(st.rows, st.rows)
      BY DEF Stays
    <3>3. Rolls(st, st, p, by)
      <4>1. \A j \in Ids : j \in {} <=> ~Exists(st.rows[j]) /\ st.rows[j].occ # NoOcc
        BY <1>1 DEF RowsFit, RowSound
      <4>2. Planned(st.rows) = Planned(st.rows) + by + Price * Cardinality({})
        BY <1>1, <2>1, FS_EmptySet, AmountsAssumption, PlannedIs
      <4>3. \A j \in Ids : st.rows[j] = st.rows[j]
        OBVIOUS
      <4> QED
        BY <4>1, <4>2, <4>3 DEF Rolls
    <3> HIDE DEF mid
    <3> QED
      BY <3>1, <3>2, <3>3
  <2>2. CASE by # 0
    <3>1. mid = RolledOver(st, p, by, flushed)
      BY <2>2
    <3> HIDE DEF mid
    <3> QED
      BY <1>2, <3>1, RolledOverIs
  <2> QED
    BY <2>1, <2>2
<1> HIDE DEF mid
<1>5. CASE mid.refused \/ ~mid.room
  <2>1. nx = mid
    BY <1>3, <1>5
  <2> QED
    BY <1>4, <1>5, <2>1
<1>6. CASE ~mid.refused /\ mid.room
  <2>1. nx = Closed(mid, i) /\ Rolls(st, mid, p, by)
    BY <1>3, <1>4, <1>6
  <2>2. /\ \A j \in Ids : \/ mid.rows[j] = st.rows[j]
                          \/ /\ Exists(mid.rows[j]) /\ mid.rows[j].period = p
                             /\ Exists(st.rows[j]) => /\ st.rows[j].period = p
                                                      /\ mid.rows[j].occ = st.rows[j].occ
    BY <2>1 DEF Rolls
  <2>3. mid.rows[i] = st.rows[i]
    BY <1>1, <2>2
  <2>4. /\ CarryFits(nx, top) /\ Stays(mid.rows, nx.rows)
        /\ \A j \in Ids : j # i => nx.rows[j] = mid.rows[j]
        /\ ~Open(nx.rows[i]) /\ nx.rows[i].occ = st.rows[i].occ /\ Exists(nx.rows[i])
        /\ Planned(nx.rows) = Planned(mid.rows) - Budget(st.rows[i])
    <3>1. Open(mid.rows[i])
      BY <1>1, <2>3
    <3> QED
      BY <1>1, <1>4, <2>1, <2>3, <3>1, ClosedFits
  <2>5. Stays(st.rows, nx.rows)
    BY <1>4, <2>4 DEF Stays
  <2>6. \A j \in OpenAt(st.rows, s) : j # i => nx.rows[j] = st.rows[j]
    BY <2>2, <2>4, OpenAtIs DEF Open, Live
  <2>7. \A j \in OpenAt(nx.rows, s) : j \in OpenAt(st.rows, s) /\ j # i
    BY <2>2, <2>4, OpenAtIs
  <2>8. PICK new \in SUBSET Ids :
          /\ \A j \in Ids : j \in new <=> ~Exists(st.rows[j]) /\ mid.rows[j].occ # NoOcc
          /\ Planned(mid.rows) = Planned(st.rows) + by + Price * Cardinality(new)
    BY <2>1 DEF Rolls
  <2>9. \A j \in Ids : j \in new <=> ~Exists(st.rows[j]) /\ nx.rows[j].occ # NoOcc
    BY <1>1, <2>4, <2>8
  <2>10. Planned(nx.rows) + Budget(st.rows[i]) - Leftover(st.rows[i])
           = Planned(st.rows) + Price * Cardinality(new)
    <3>1. Planned(st.rows) \in Int
      BY <1>1, PlannedIs
    <3>2. Price * Cardinality(new) \in Int
      BY IdsAreFinite, FS_Subset, FS_CardinalityType, AmountsAssumption
    <3>3. by = Leftover(st.rows[i])
      BY DEF by
    <3> QED
      BY <1>2, <2>4, <2>8, <3>1, <3>2, <3>3
  <2>11. \A j \in Ids : Exists(st.rows[j]) => nx.rows[j].occ = st.rows[j].occ
    BY <2>2, <2>4
  <2>12. Leaves(st, nx, s, i)
    BY <2>6, <2>7, <2>9, <2>10, <2>11 DEF Leaves
  <2> QED
    BY <2>4, <2>5, <2>12
<1> QED
  BY <1>5, <1>6

(***************************************************************************)
(* The sources of a carry, in id order.                                    *)
(***************************************************************************)

CarryStart(rs) == [rows |-> rs, added |-> {}, refused |-> FALSE, room |-> TRUE]

CarryStep(st, k, sources, p, flushed) ==
    IF k \in sources /\ ~st.refused /\ st.room THEN Rolled(st, k, p, flushed) ELSE st

\* F is the table of where a carry is after each id up to n.
CarryTable(F, rs, sources, p, flushed, n) ==
    F = [k \in 0..n |-> IF k = 0 THEN CarryStart(rs)
                        ELSE CarryStep(F[k - 1], k, sources, p, flushed)]

LEMMA CarryTableExists ==
    ASSUME NEW rs, NEW sources, NEW p, NEW flushed, NEW n \in Nat
    PROVE  \E F : CarryTable(F, rs, sources, p, flushed, n)
<1> DEFINE P == {m \in 0..n : \E F : CarryTable(F, rs, sources, p, flushed, m)}
<1>1. 0 \in P
  <2> DEFINE F == [k \in 0..0 |-> CarryStart(rs)]
  <2>1. CarryTable(F, rs, sources, p, flushed, 0)
    BY DEF CarryTable
  <2> QED
    BY <2>1
<1>2. ASSUME NEW m \in 0..n, m # n, m \in P
      PROVE  m + 1 \in P
  <2>1. PICK F : CarryTable(F, rs, sources, p, flushed, m)
    BY <1>2
  <2> DEFINE step(st, k) == CarryStep(st, k, sources, p, flushed)
             G == [k \in 0..(m + 1) |-> IF k = m + 1 THEN step(F[m], m + 1) ELSE F[k]]
             H == [k \in 0..(m + 1) |-> IF k = 0 THEN CarryStart(rs) ELSE step(G[k - 1], k)]
  <2> HIDE DEF step
  <2>2. \A k \in 0..(m + 1) : G[k] = H[k]
    <3>1. ASSUME NEW k \in 0..(m + 1)
          PROVE  G[k] = H[k]
      <4>1. CASE k = m + 1
        <5>1. k # 0 /\ k - 1 = m /\ m \in 0..(m + 1) /\ m # m + 1
          BY <4>1
        <5>2. G[k - 1] = F[m]
          BY <5>1
        <5> QED
          BY <4>1, <5>1, <5>2
      <4>2. CASE k # m + 1
        <5>1. G[k] = F[k] /\ k \in 0..m
          BY <4>2
        <5>2. F[k] = IF k = 0 THEN CarryStart(rs) ELSE step(F[k - 1], k)
          BY <2>1, <5>1 DEF CarryTable, step
        <5>3. k # 0 => G[k - 1] = F[k - 1]
          BY <4>2
        <5> HIDE DEF G
        <5> QED
          BY <5>1, <5>2, <5>3
      <4> QED
        BY <4>1, <4>2
    <3> QED
      BY <3>1
  <2>3. G = H
    BY <2>2, Zenon
  <2>4. CarryTable(G, rs, sources, p, flushed, m + 1)
    BY <2>3 DEF CarryTable, step
  <2> QED
    BY <1>2, <2>4
<1> HIDE DEF P
<1>3. n \in P
  BY <1>1, <1>2, UpTo
<1> QED
  BY <1>3 DEF P

\* A carry of an envelope is the last of its steps.
LEMMA CarriedRuns ==
    ASSUME NEW rs, NEW s, NEW p, NEW flushed, envelope = TRUE
    PROVE  \E F : /\ F[0] = CarryStart(rs)
                  /\ \A k \in 1..MaxRows :
                        F[k] = CarryStep(F[k - 1], k, OpenAt(rs, s), p, flushed)
                  /\ Carried(rs, s, p, flushed) = F[MaxRows]
<1> DEFINE sources == OpenAt(rs, s)
           F == CHOOSE G : CarryTable(G, rs, sources, p, flushed, MaxRows)
<1>1. MaxRows \in Nat
  BY RowsAssumption
<1>2. CarryTable(F, rs, sources, p, flushed, MaxRows)
  BY <1>1, CarryTableExists
<1>3. Carried(rs, s, p, flushed) = F[MaxRows]
  BY DEF Carried, CarryTable, CarryStep, CarryStart
<1> HIDE DEF F
<1>4. /\ F[0] = CarryStart(rs)
      /\ \A k \in 1..MaxRows : F[k] = CarryStep(F[k - 1], k, sources, p, flushed)
  <2>1. \A k \in 0..MaxRows : F[k] = IF k = 0 THEN CarryStart(rs)
                                     ELSE CarryStep(F[k - 1], k, sources, p, flushed)
    BY <1>2 DEF CarryTable
  <2>2. 0 \in 0..MaxRows /\ \A k \in 1..MaxRows : k \in 0..MaxRows /\ k # 0
    BY <1>1
  <2> QED
    BY <2>1, <2>2
<1> QED
  BY <1>3, <1>4

\* What the sources up to id k spent of their budgets.
Used(rs) == [i \in Ids |-> Budget(rs[i]) - Leftover(rs[i])]
Passed(rs, s, k) == {i \in OpenAt(rs, s) : i <= k}

\* The rows a carry has newly written, by the occurrences they answer.
NewOf(rs, ss) == {i \in Ids : ~Exists(rs[i]) /\ ss[i].occ # NoOcc}

\* A carry of paycheck s at id k: the sources it has passed are closed, those
\* to come are as they were, and the plan is where it was.
CarryInv(st, rs, top, s, k) ==
    /\ CarryFits(st, top) /\ Stays(rs, st.rows)
    /\ ~st.refused /\ st.room =>
          /\ \A j \in OpenAt(rs, s) : j > k => st.rows[j] = rs[j]
          /\ \A j \in OpenAt(st.rows, s) : j \in OpenAt(rs, s) /\ j > k
          /\ Planned(st.rows) + SumFunctionOnSet(Used(rs), Passed(rs, s, k))
               = Planned(rs) + Price * Cardinality(NewOf(rs, st.rows))

LEMMA CarryStarts ==
    ASSUME NEW rs, NEW top, RowsFit(rs, top), NEW s
    PROVE  CarryInv(CarryStart(rs), rs, top, s, 0)
<1> DEFINE st == CarryStart(rs)
<1>1. rs \in [Ids -> Row]
  BY DEF RowsFit
<1>2. st.rows = rs /\ st.added = {} /\ st \in CarryState
  BY <1>1 DEF CarryStart, CarryState
<1> HIDE DEF st
<1>3. CarryFits(st, top) /\ Stays(rs, st.rows)
  BY <1>2 DEF CarryFits, Stays
<1>4. \A j \in OpenAt(rs, s) : j > 0
  BY RowsAssumption, OpenAtIs DEF Ids
<1>5. Passed(rs, s, 0) = {}
  <2>1. \A j \in OpenAt(rs, s) : ~(j <= 0)
    BY RowsAssumption, OpenAtIs DEF Ids
  <2> QED
    BY <2>1 DEF Passed
<1>6. NewOf(rs, st.rows) = {}
  BY <1>2 DEF NewOf, RowsFit, RowSound
<1>7. Planned(st.rows) + SumFunctionOnSet(Used(rs), Passed(rs, s, 0))
        = Planned(rs) + Price * Cardinality(NewOf(rs, st.rows))
  <2>1. SumFunctionOnSet(Used(rs), Passed(rs, s, 0)) = 0
    BY <1>5, SumEmpty
  <2>2. Price * Cardinality(NewOf(rs, st.rows)) = 0
    BY <1>6, FS_EmptySet, AmountsAssumption
  <2>3. Planned(rs) \in Int
    BY <1>1, PlannedIs
  <2> QED
    BY <1>2, <2>1, <2>2, <2>3
<1> QED
  BY <1>2, <1>3, <1>4, <1>7 DEF CarryInv, st

LEMMA CarrySteps ==
    ASSUME NEW rs, NEW top, RowsFit(rs, top), NEW p \in Periods, p <= top, NEW s, s # p,
           NEW flushed, named \subseteq Occurrences, NEW k \in Ids,
           NEW st, CarryInv(st, rs, top, s, k - 1),
           NEW nx, nx = CarryStep(st, k, OpenAt(rs, s), p, flushed)
    PROVE  CarryInv(nx, rs, top, s, k)
<1>1. /\ rs \in [Ids -> Row] /\ k \in Nat /\ \A j \in OpenAt(rs, s) : j \in Nat /\ j \in Ids
      /\ CarryFits(st, top) /\ Stays(rs, st.rows)
  BY RowsAssumption, OpenAtIs DEF RowsFit, Ids, CarryInv
<1>2. CASE st.refused \/ ~st.room
  <2>1. nx = st
    BY <1>2 DEF CarryStep
  <2> QED
    BY <1>1, <1>2, <2>1 DEF CarryInv
<1>3. CASE ~st.refused /\ st.room /\ k \notin OpenAt(rs, s)
  <2>1. nx = st
    BY <1>3 DEF CarryStep
  <2>2. \A j \in OpenAt(rs, s) : (j > k <=> j > k - 1) /\ (j <= k <=> j <= k - 1)
    BY <1>1, <1>3
  <2>3. Passed(rs, s, k) = Passed(rs, s, k - 1)
    BY <2>2 DEF Passed
  <2> QED
    BY <1>1, <1>3, <2>1, <2>2, <2>3 DEF CarryInv
<1>4. CASE ~st.refused /\ st.room /\ k \in OpenAt(rs, s)
  <2>1. nx = Rolled(st, k, p, flushed)
    BY <1>4 DEF CarryStep
  <2>2. /\ \A j \in OpenAt(rs, s) : j > k - 1 => st.rows[j] = rs[j]
        /\ \A j \in OpenAt(st.rows, s) : j \in OpenAt(rs, s) /\ j > k - 1
        /\ Planned(st.rows) + SumFunctionOnSet(Used(rs), Passed(rs, s, k - 1))
             = Planned(rs) + Price * Cardinality(NewOf(rs, st.rows))
    BY <1>4 DEF CarryInv
  <2>3. st.rows[k] = rs[k]
    BY <1>1, <1>4, <2>2
  <2>4. k \in OpenAt(st.rows, s)
    BY <1>4, <2>3, OpenAtIs
  <2>5. /\ CarryFits(nx, top) /\ Stays(st.rows, nx.rows)
        /\ ~nx.refused /\ nx.room => Leaves(st, nx, s, k)
    BY <1>1, <1>4, <2>1, <2>4, RolledIs
  <2>6. Stays(rs, nx.rows)
    BY <1>1, <2>5 DEF Stays
  <2>7. ASSUME ~nx.refused, nx.room
        PROVE  /\ \A j \in OpenAt(rs, s) : j > k => nx.rows[j] = rs[j]
               /\ \A j \in OpenAt(nx.rows, s) : j \in OpenAt(rs, s) /\ j > k
               /\ Planned(nx.rows) + SumFunctionOnSet(Used(rs), Passed(rs, s, k))
                    = Planned(rs) + Price * Cardinality(NewOf(rs, nx.rows))
    <3>1. /\ \A j \in OpenAt(st.rows, s) : j # k => nx.rows[j] = st.rows[j]
          /\ \A j \in OpenAt(nx.rows, s) : j \in OpenAt(st.rows, s) /\ j # k
      BY <2>5, <2>7 DEF Leaves
    <3>2. PICK new \in SUBSET Ids :
            /\ \A j \in Ids : j \in new <=> ~Exists(st.rows[j]) /\ nx.rows[j].occ # NoOcc
            /\ Planned(nx.rows) + Budget(st.rows[k]) - Leftover(st.rows[k])
                 = Planned(st.rows) + Price * Cardinality(new)
      BY <2>5, <2>7 DEF Leaves
    <3>3. ASSUME NEW j \in OpenAt(rs, s), j > k
          PROVE  nx.rows[j] = rs[j]
      <4>1. j > k - 1 /\ j # k
        BY <1>1, <3>3
      <4>2. st.rows[j] = rs[j]
        BY <2>2, <4>1
      <4>3. j \in OpenAt(st.rows, s)
        BY <4>2, OpenAtIs
      <4> QED
        BY <3>1, <4>1, <4>2, <4>3
    <3>4. ASSUME NEW j \in OpenAt(nx.rows, s)
          PROVE  j \in OpenAt(rs, s) /\ j > k
      BY <1>1, <2>2, <3>1, <3>4
    <3>5. SumFunctionOnSet(Used(rs), Passed(rs, s, k))
            = Budget(rs[k]) - Leftover(rs[k]) + SumFunctionOnSet(Used(rs), Passed(rs, s, k - 1))
          /\ SumFunctionOnSet(Used(rs), Passed(rs, s, k - 1)) \in Int
      <4> DEFINE u == Used(rs)
                 D == Passed(rs, s, k - 1)
      <4>1. Passed(rs, s, k) = D \cup {k} /\ k \notin D
        <5>1. \A j \in OpenAt(rs, s) : j <= k <=> j <= k - 1 \/ j = k
          BY <1>1
        <5>2. ~(k <= k - 1)
          BY <1>1
        <5> QED
          BY <1>4, <5>1, <5>2 DEF Passed
      <4>2. IsFiniteSet(D) /\ D \subseteq Ids
        <5>1. D \in SUBSET Ids
          BY <1>1 DEF Passed
        <5> QED
          BY <5>1, IdsAreFinite, FS_Subset
      <4>3. \A j \in Ids : u[j] = Budget(rs[j]) - Leftover(rs[j]) /\ u[j] \in Int
        BY <1>1, RowPlans DEF Used
      <4> HIDE DEF u, D
      <4>4. SumFunctionOnSet(u, D \cup {k}) = u[k] + SumFunctionOnSet(u, D)
        BY <4>1, <4>2, <4>3, SumAdd
      <4>5. SumFunctionOnSet(u, D) \in Int
        BY <4>2, <4>3, SumInt
      <4> QED
        BY <4>1, <4>3, <4>4, <4>5 DEF u, D
    <3>6. Cardinality(NewOf(rs, nx.rows)) = Cardinality(NewOf(rs, st.rows)) + Cardinality(new)
          /\ Cardinality(NewOf(rs, st.rows)) \in Nat /\ Cardinality(new) \in Nat
      <4> DEFINE A == NewOf(rs, st.rows)
      <4>1. /\ \A j \in Ids : Exists(rs[j]) => Exists(st.rows[j])
            /\ \A j \in Ids : ~Exists(st.rows[j]) => st.rows[j].occ = NoOcc
        BY <1>1 DEF Stays, CarryFits, RowsFit, RowSound
      <4>2. ASSUME NEW j \in Ids, Exists(st.rows[j])
            PROVE  nx.rows[j].occ # NoOcc <=> st.rows[j].occ # NoOcc
        BY <2>5, <2>7, <4>2 DEF Leaves
      <4>3. NewOf(rs, nx.rows) = A \cup new /\ A \cap new = {}
        BY <3>2, <4>1, <4>2 DEF NewOf
      <4>4. IsFiniteSet(A) /\ IsFiniteSet(new)
        BY IdsAreFinite, FS_Subset DEF NewOf
      <4> HIDE DEF A
      <4>5. Cardinality(A \cup new) = Cardinality(A) + Cardinality(new) - Cardinality(A \cap new)
        BY <4>4, FS_Union
      <4>6. Cardinality(A) \in Nat /\ Cardinality(new) \in Nat
        BY <4>4, FS_CardinalityType
      <4> QED
        BY <4>3, <4>5, <4>6, FS_EmptySet DEF A
    <3>7. Planned(nx.rows) + SumFunctionOnSet(Used(rs), Passed(rs, s, k))
            = Planned(rs) + Price * Cardinality(NewOf(rs, nx.rows))
      <4> DEFINE a == Cardinality(NewOf(rs, st.rows))
                 b == Cardinality(new)
      <4>1. Price * (a + b) = Price * a + Price * b /\ Price * a \in Int /\ Price * b \in Int
        <5> HIDE DEF a, b
        <5>1. a \in Nat /\ b \in Nat
          BY <3>6 DEF a, b
        <5> QED
          BY <5>1, AmountsAssumption
      <4>2. Planned(nx.rows) \in Int /\ Planned(st.rows) \in Int /\ Planned(rs) \in Int
        BY <1>1, <2>5, PlannedIs DEF CarryFits, CarryState
      <4>3. Budget(rs[k]) \in Int /\ Leftover(rs[k]) \in Int
        BY <1>1, RowPlans
      <4> HIDE DEF a, b
      <4>4. Price * Cardinality(NewOf(rs, nx.rows)) = Price * a + Price * b
        <5>1. Cardinality(NewOf(rs, nx.rows)) = a + b
          BY <3>6 DEF a, b
        <5> QED
          BY <4>1, <5>1
      <4>5. /\ Planned(nx.rows) + Budget(rs[k]) - Leftover(rs[k]) = Planned(st.rows) + Price * b
            /\ Planned(st.rows) + SumFunctionOnSet(Used(rs), Passed(rs, s, k - 1))
                 = Planned(rs) + Price * a
        BY <2>2, <2>3, <3>2 DEF a, b
      <4> DEFINE A == Price * a
                 B == Price * b
                 C == Price * Cardinality(NewOf(rs, nx.rows))
                 U == SumFunctionOnSet(Used(rs), Passed(rs, s, k))
                 V == SumFunctionOnSet(Used(rs), Passed(rs, s, k - 1))
                 after == Planned(nx.rows)
                 before == Planned(st.rows)
                 first == Planned(rs)
                 budget == Budget(rs[k])
                 left == Leftover(rs[k])
      <4>6. A \in Int /\ B \in Int /\ C = A + B
        BY <4>1, <4>4
      <4>7. U = budget - left + V /\ V \in Int
        BY <3>5
      <4>8. after + budget - left = before + B /\ before + V = first + A
        BY <4>5
      <4>9. /\ after \in Int /\ before \in Int /\ first \in Int
            /\ budget \in Int /\ left \in Int
        BY <4>2, <4>3
      <4> HIDE DEF A, B, C, U, V, after, before, first, budget, left
      <4>10. after + U = first + C
        BY <4>6, <4>7, <4>8, <4>9
      <4> QED
        BY <4>10 DEF C, U, after, first
    <3> QED
      BY <3>3, <3>4, <3>7
  <2> QED
    BY <2>5, <2>6, <2>7 DEF CarryInv
<1> QED
  BY <1>2, <1>3, <1>4

\* A carry of an envelope that is over.
LEMMA CarriedFits ==
    ASSUME NEW rs, NEW top, RowsFit(rs, top), NEW p \in Periods, p <= top, NEW s, s # p,
           NEW flushed, named \subseteq Occurrences, envelope = TRUE,
           NEW nx, nx = Carried(rs, s, p, flushed)
    PROVE  CarryInv(nx, rs, top, s, MaxRows)
<1>1. PICK F : /\ F[0] = CarryStart(rs)
               /\ \A k \in 1..MaxRows : F[k] = CarryStep(F[k - 1], k, OpenAt(rs, s), p, flushed)
               /\ nx = F[MaxRows]
  BY CarriedRuns
<1> DEFINE P == {m \in 0..MaxRows : CarryInv(F[m], rs, top, s, m)}
<1>2. MaxRows \in Nat
  BY RowsAssumption
<1>3. 0 \in P
  BY <1>1, <1>2, CarryStarts
<1>4. ASSUME NEW m \in 0..MaxRows, m # MaxRows, m \in P
      PROVE  m + 1 \in P
  <2>1. m + 1 \in 0..MaxRows /\ m + 1 \in 1..MaxRows /\ m + 1 \in Ids /\ (m + 1) - 1 = m
    BY <1>2, <1>4 DEF Ids
  <2>2. CarryInv(F[m], rs, top, s, (m + 1) - 1)
    BY <1>4, <2>1
  <2>3. F[m + 1] = CarryStep(F[m], m + 1, OpenAt(rs, s), p, flushed)
    BY <1>1, <2>1
  <2>4. CarryInv(F[m + 1], rs, top, s, m + 1)
    BY <2>1, <2>2, <2>3, CarrySteps
  <2> QED
    BY <2>1, <2>4
<1> HIDE DEF P
<1>5. MaxRows \in P
  BY <1>2, <1>3, <1>4, UpTo
<1> QED
  BY <1>1, <1>5 DEF P

\* A bill moves whole.
LEMMA MovedFits ==
    ASSUME NEW rs, NEW top, RowsFit(rs, top), NEW p \in Periods, p <= top, NEW s, s # p,
           NEW ss, ss = Moved(rs, s, p)
    PROVE  RowsFit(ss, top) /\ Stays(rs, ss) /\ OpenAt(ss, s) = {}
<1>1. rs \in [Ids -> Row] /\ \A i \in Ids : rs[i] \in Row /\ RowSound(rs[i])
  BY DEF RowsFit
<1>2. ss = [i \in Ids |-> IF i \in OpenAt(rs, s)
                          THEN [rs[i] EXCEPT !.period = p, !.override = TRUE] ELSE rs[i]]
  BY DEF Moved
<1>3. ASSUME NEW i \in Ids
      PROVE  /\ ss[i] \in Row /\ RowSound(ss[i])
             /\ Exists(ss[i]) <=> Exists(rs[i])
             /\ ss[i].occ = rs[i].occ /\ ss[i].own = rs[i].own
             /\ ss[i].period = rs[i].period \/ ss[i].period <= top
             /\ i \notin OpenAt(ss, s)
  <2>1. CASE i \in OpenAt(rs, s)
    <3> DEFINE row == [rs[i] EXCEPT !.period = p, !.override = TRUE]
    <3>1. ss[i] = row
      BY <1>2, <2>1
    <3>2. /\ row \in Row /\ row.period = p /\ row.override = TRUE /\ row.status = rs[i].status
          /\ row.deleted = rs[i].deleted /\ row.occ = rs[i].occ /\ row.own = rs[i].own
          /\ row.spent = rs[i].spent /\ row.payment = rs[i].payment
      BY <1>1 DEF Row
    <3> HIDE DEF row
    <3> QED
      BY <1>1, <3>1, <3>2, OpenAtIs DEF RowSound, Recorded, Live, Exists
  <2>2. CASE i \notin OpenAt(rs, s)
    <3>1. ss[i] = rs[i]
      BY <1>2, <2>2
    <3> QED
      BY <1>1, <2>2, <3>1, OpenAtIs
  <2> QED
    BY <2>1, <2>2
<1>4. ss \in [Ids -> Row]
  BY <1>2, <1>3
<1>5. RowsFit(ss, top)
  BY <1>3, <1>4, InPlaceFits
<1>6. Stays(rs, ss)
  BY <1>3 DEF Stays
<1>7. OpenAt(ss, s) = {}
  BY <1>3, OpenAtIs
<1> QED
  BY <1>5, <1>6, <1>7

\* What a carry of one paycheck leaves.
LEMMA CarryLeaves ==
    ASSUME IInv, NEW s, s # now, NEW flushed, NEW nx, nx = Carried(rows, s, now, flushed)
    PROVE  /\ RowsFit(nx.rows, saved) /\ Stays(rows, nx.rows)
           /\ ~nx.refused /\ nx.room => OpenAt(nx.rows, s) = {}
           /\ envelope => CarryInv(nx, rows, saved, s, MaxRows)
<1>1. /\ RowsFit(rows, saved) /\ saved \in 1..LastPeriod /\ LastPeriod \in Nat
      /\ envelope \in Kinds /\ named \subseteq Occurrences /\ now \in 1..saved
  BY InvIs, PeriodsAssumption DEF Periods
<1>2. now \in Periods /\ now <= saved /\ envelope \in BOOLEAN
  BY <1>1, KindsAssumption DEF Periods
<1>3. CASE envelope
  <2>1. CarryInv(nx, rows, saved, s, MaxRows)
    BY <1>1, <1>2, <1>3, CarriedFits
  <2>2. ASSUME ~nx.refused, nx.room PROVE OpenAt(nx.rows, s) = {}
    <3>1. ASSUME NEW j \in OpenAt(nx.rows, s) PROVE FALSE
      <4>1. j \in Ids /\ j > MaxRows
        BY <2>1, <2>2, <3>1, OpenAtIs DEF CarryInv
      <4> QED
        BY <4>1, RowsAssumption DEF Ids
    <3> QED
      BY <3>1
  <2> QED
    BY <2>1, <2>2 DEF CarryInv, CarryFits
<1>4. CASE ~envelope
  <2> DEFINE ss == Moved(rows, s, now)
  <2>1. nx.rows = ss
    BY <1>4 DEF Carried
  <2> HIDE DEF ss
  <2>2. RowsFit(ss, saved) /\ Stays(rows, ss) /\ OpenAt(ss, s) = {}
    BY <1>1, <1>2, MovedFits DEF ss
  <2> QED
    BY <1>4, <2>1, <2>2
<1> QED
  BY <1>2, <1>3, <1>4

LEMMA CarryForwardKeeps ==
    ASSUME IInv, UNCHANGED envelope, NEW s, CarryForward(s)
    PROVE  IInv' /\ Stays(rows, rows')
<1>1. PICK flushed \in BOOLEAN :
        /\ s # now /\ rows' = Carried(rows, s, now, flushed).rows
        /\ UNCHANGED <<named, active, saved, now, acts>>
  BY DEF CarryForward
<1>2. RowsFit(rows', saved) /\ Stays(rows, rows')
  BY <1>1, CarryLeaves
<1>3. IInv'
  BY <1>1, <1>2, InvIs, InvNext
<1> QED
  BY <1>2, <1>3

(***************************************************************************)
(* The invariant holds.                                                    *)
(***************************************************************************)

LEMMA InitInv == Init => IInv
<1> SUFFICES ASSUME Init PROVE IInv
  OBVIOUS
<1> DEFINE occs == Placements(named, TRUE, {1}, 1)
           empty == [i \in Ids |-> NoRow]
<1>1. /\ envelope \in Kinds /\ named \in Rules /\ active = TRUE /\ saved = 1 /\ now = 1
      /\ acts = 0 /\ rows = Written(empty, occs)
  BY DEF Init
<1>2. named \subseteq Occurrences
  BY <1>1, RulesAssumption DEF Occurrences
<1>3. occs \in SUBSET Occurrences /\ \A o \in occs : PeriodOf[o] <= 1
  BY <1>2 DEF Placements
<1>4. \A i \in Ids : empty[i] = NoRow
  OBVIOUS
<1>5. NoRow \in Row /\ RowSound(NoRow) /\ ~Exists(NoRow)
  BY PeriodsAssumption
  DEF NoRow, Row, NoOcc, Derived, Periods, RowSound, Recorded, Exists
<1>6. empty \in [Ids -> Row]
  BY <1>5
<1> HIDE DEF empty, occs
<1>7. RowsFit(empty, 1)
  BY <1>4, <1>5, <1>6 DEF RowsFit
<1>8. PICK new, f : Fills(Written(empty, occs), empty, occs, new, f)
  BY <1>3, WrittenFills
<1>9. RowsFit(rows, 1)
  <2>1. \A o \in occs : /\ PeriodOf[o] <= 1
                        /\ \A i \in Ids : Exists(empty[i]) => empty[i].occ # o
    BY <1>3, <1>4, <1>5
  <2> QED
    BY <1>1, <1>3, <1>7, <1>8, <2>1, FilledFits
<1>10. saved \in Periods /\ now \in 1..saved /\ acts \in 0..MaxActs /\ active \in BOOLEAN
  BY <1>1, PeriodsAssumption, ActsAssumption DEF Periods
<1> QED
  BY <1>1, <1>2, <1>9, <1>10, InvIs

\* The steps of the properties about what a person did to a row.
RecordsStay ==
    \A i \in Ids : Recorded(rows[i]) =>
        Exists(rows'[i]) /\ (rows'[i].deleted => ~Recorded(rows'[i]))
FiguresStay ==
    \A i \in Ids : rows[i].own # Derived =>
        Exists(rows'[i]) /\ (rows'[i].own # Derived \/ ~rows'[i].override)
NamedStay ==
    \A i \in Ids :
        Open(rows[i]) /\ rows[i].occ \in named' /\ active'
          /\ (rows[i].override \/ rows[i].period = PeriodOf[rows[i].occ])
        => Exists(rows'[i])

\* Where every row stays, what a person did to one stays with it.
LEMMA StayingKeeps ==
    ASSUME IInv, IInv', Stays(rows, rows')
    PROVE  RecordsStay /\ FiguresStay /\ NamedStay
<1>1. \A i \in Ids : RowSound(rows[i])
  BY DEF IInv
<1>2. \A i \in Ids : RowSound(rows[i])'
  BY DEF IInv
<1>3. \A i \in Ids : /\ Recorded(rows'[i]) => Live(rows'[i])
                     /\ rows'[i].own # Derived => Exists(rows'[i])
  BY <1>2 DEF RowSound, Recorded, Live, Exists
<1>4. RecordsStay
  BY <1>1, <1>3 DEF RecordsStay, Stays, RowSound, Live
<1>5. FiguresStay
  BY <1>3 DEF FiguresStay, Stays
<1>6. NamedStay
  BY DEF NamedStay, Stays, Open, Live
<1> QED
  BY <1>4, <1>5, <1>6

\* Every step keeps the invariant, and what a person did to a row.
LEMMA NextKeeps ==
    ASSUME IInv, [Next]_vars
    PROVE  IInv' /\ (Next => RecordsStay /\ FiguresStay /\ NamedStay)
<1>1. CASE UNCHANGED vars
  <2>1. IInv'
    BY <1>1 DEF vars, IInv, RowsAnswerOnce, TypeOK, OneRowPerOccurrence, RowSound, Recorded,
                Live, Exists
  <2>2. Stays(rows, rows')
    BY <1>1 DEF vars, Stays
  <2> QED
    BY <2>1, <2>2, StayingKeeps
<1>2. CASE Next
  <2>1. UNCHANGED envelope
    BY <1>2 DEF Next
  <2>2. CASE Edit
    <3>1. IInv' /\ FiguresStay /\ NamedStay /\ \A i \in Ids : Recorded(rows[i]) => Exists(rows'[i])
      BY <2>1, <2>2, EditKeeps DEF FiguresStay, NamedStay
    <3>2. \A i \in Ids : RowSound(rows[i])'
      BY <3>1 DEF IInv
    <3>3. \A i \in Ids : rows'[i].deleted => ~Recorded(rows'[i])
      BY <3>2 DEF RowSound, Recorded, Live, Exists
    <3> QED
      BY <3>1, <3>3 DEF RecordsStay
  <2>3. CASE ~Edit
    <3>1. IInv' /\ Stays(rows, rows')
      <4>1. CASE TopUp
        BY <2>1, <4>1, TopUpKeeps
      <4>2. CASE Advance
        BY <2>1, <4>2, AdvanceKeeps
      <4>3. CASE Archive
        BY <2>1, <4>3, ArchiveKeeps
      <4>4. CASE Unarchive
        BY <2>1, <4>4, UnarchiveKeeps
      <4>5. CASE \E i \in Ids : \/ Spend(i) \/ MarkDone(i) \/ Revert(i)
                                \/ Reprice(i) \/ Refile(i) \/ Delete(i)
        BY <2>1, <4>5, RowDoorKeeps
      <4>6. CASE \E s \in 1..saved : CarryForward(s)
        BY <2>1, <4>6, CarryForwardKeeps
      <4> QED
        BY <1>2, <2>3, <4>1, <4>2, <4>3, <4>4, <4>5, <4>6 DEF Next
    <3> QED
      BY <3>1, StayingKeeps
  <2> QED
    BY <2>2, <2>3
<1> QED
  BY <1>1, <1>2

LEMMA SpecInv == Spec => []IInv
<1>1. Init => IInv
  BY InitInv
<1>2. IInv /\ [Next]_vars => IInv'
  BY NextKeeps
<1> QED
  BY <1>1, <1>2, PTL DEF Spec

(***************************************************************************)
(* Theorems.                                                               *)
(***************************************************************************)

\* Whatever the owner moves, deletes, hands back, archives or edits, and
\* whatever is carried, no two rows of a definition answer one occurrence.
THEOREM AnsweredOnce == Spec => []RowsAnswerOnce
<1>1. IInv => RowsAnswerOnce
  BY DEF IInv
<1> QED
  BY <1>1, SpecInv, PTL

\* What a person did to a row outlasts every edit, carry and archive: what is
\* recorded on it stays, its own figure stays until it is handed back, and a
\* row the rule still names is not removed.
THEOREM ClaimsOutlast == Spec => ClaimedRowsSurvive
<1>1. IInv /\ [Next]_vars => [RecordsStay]_vars /\ [FiguresStay]_vars /\ [NamedStay]_vars
  BY NextKeeps
<1>2. Spec => [][RecordsStay]_vars /\ [][FiguresStay]_vars /\ [][NamedStay]_vars
  BY <1>1, SpecInv, PTL DEF Spec
<1>3. [][RecordsStay]_vars <=> RecordsNeverVanish
  BY PTL DEF RecordsStay, RecordsNeverVanish
<1>4. [][FiguresStay]_vars <=> OwnFiguresKept
  BY PTL DEF FiguresStay, OwnFiguresKept
<1>5. [][NamedStay]_vars <=> NamedRowsSurvive
  BY PTL DEF NamedStay, NamedRowsSurvive
<1> QED
  BY <1>2, <1>3, <1>4, <1>5, PTL DEF ClaimedRowsSurvive

\* A pass that meets its own work finds each row as it would leave it.
LEMMA PassSettled ==
    ASSUME NEW rs, rs \in [Ids -> Row], NEW occs \in SUBSET Occurrences, NEW eff,
           \A o \in occs : PeriodOf[o] \in 1..saved /\ PeriodOf[o] >= eff,
           Room(rs, MaintainClaims(rs, occs, eff)),
           NEW once, once = Maintained(rs, occs, eff)
    PROVE  Maintained(once, occs, eff) = once
<1> DEFINE claims == MaintainClaims(rs, occs, eff)
<1>1. PICK new, f : /\ Maintains(once, rs, occs, eff, new, f)
                    /\ \A o \in claims : \E i \in new : f[i] = o
  BY MaintainedIs
<1>2. /\ new \subseteq Free(rs) /\ f \in [new -> claims]
      /\ \A i \in Ids :
            once[i] = IF i \in new THEN Generated(f[i])
                      ELSE IF Retires(rs[i], occs, eff) THEN NoRow
                      ELSE IF Updates(rs[i], occs, eff) THEN [rs[i] EXCEPT !.own = Derived]
                      ELSE rs[i]
  BY <1>1 DEF Maintains
<1>3. new \subseteq Ids /\ claims \subseteq occs
  BY <1>2 DEF Free, MaintainClaims, Unclaimed
<1> HIDE DEF claims
<1>4. ASSUME NEW i \in Ids
      PROVE  /\ once[i] \in Row
             /\ ~Retires(once[i], occs, eff)
             /\ Updates(once[i], occs, eff) => once[i].own = Derived
             /\ Exists(rs[i]) /\ ~Retires(rs[i], occs, eff) =>
                   /\ Exists(once[i]) /\ once[i].occ = rs[i].occ
                   /\ once[i].period = rs[i].period
  <2>1. rs[i] \in Row
    OBVIOUS
  <2>2. CASE i \in new
    <3>1. f[i] \in occs /\ f[i] \in Occurrences /\ once[i] = Generated(f[i]) /\ ~Exists(rs[i])
      BY <1>2, <1>3, <2>2 DEF Free
    <3>2. /\ once[i] \in Row /\ once[i].occ = f[i] /\ once[i].own = Derived
      BY <3>1, GeneratedIs
    <3> QED
      BY <3>1, <3>2 DEF Retires
  <2>3. CASE i \notin new /\ Retires(rs[i], occs, eff)
    <3>1. once[i] = NoRow
      BY <1>2, <2>3
    <3>2. NoRow \in Row /\ ~Exists(NoRow)
      BY PeriodsAssumption DEF NoRow, Row, NoOcc, Derived, Periods, Exists
    <3> QED
      BY <2>3, <3>1, <3>2 DEF Retires, Updates, InScope
  <2>4. CASE i \notin new /\ ~Retires(rs[i], occs, eff) /\ Updates(rs[i], occs, eff)
    <3>1. once[i] = [rs[i] EXCEPT !.own = Derived]
      BY <1>2, <2>4
    <3>2. /\ once[i] \in Row /\ once[i].own = Derived /\ once[i].status = rs[i].status
          /\ once[i].occ = rs[i].occ /\ once[i].period = rs[i].period
      BY <2>1, <3>1 DEF Row
    <3>3. once[i].occ \in occs
      BY <2>4, <3>2 DEF Updates
    <3> QED
      BY <3>2, <3>3 DEF Retires, Exists
  <2>5. CASE i \notin new /\ ~Retires(rs[i], occs, eff) /\ ~Updates(rs[i], occs, eff)
    <3>1. once[i] = rs[i]
      BY <1>2, <2>5
    <3> QED
      BY <2>1, <2>5, <3>1
  <2> QED
    BY <2>2, <2>3, <2>4, <2>5
<1>5. once \in [Ids -> Row]
  <2>1. PICK t : once = [i \in Ids |-> t[i]]
    BY MaintainedIsFunction
  <2> QED
    BY <1>4, <2>1
<1>6. MaintainClaims(once, occs, eff) = {}
  <2> DEFINE left == [i \in Ids |-> IF Retires(once[i], occs, eff) THEN NoRow ELSE once[i]]
             was == [i \in Ids |-> IF Retires(rs[i], occs, eff) THEN NoRow ELSE rs[i]]
  <2>1. \A i \in Ids : left[i] = once[i]
    BY <1>4
  <2>2. \A i \in Ids : Exists(was[i]) => was[i] = rs[i] /\ ~Retires(rs[i], occs, eff)
    BY DEF Exists, NoRow
  <2>3. MaintainClaims(once, occs, eff) = {o \in occs : ~Claims(left, o)}
        /\ claims = {o \in occs : ~Claims(was, o)}
    BY DEF MaintainClaims, Unclaimed, claims
  <2> HIDE DEF left, was
  <2>4. ASSUME NEW o \in occs
        PROVE  Claims(left, o)
    <3>1. CASE o \in claims
      <4>1. PICK i \in new : f[i] = o
        BY <1>1, <3>1
      <4>2. once[i] = Generated(o) /\ i \in Ids /\ o \in Occurrences
        BY <1>2, <1>3, <4>1
      <4>3. once[i].status = "projected" /\ once[i].occ = o
        BY <4>2, GeneratedIs
      <4> QED
        BY <2>1, <4>2, <4>3 DEF Claims, Exists
    <3>2. CASE o \notin claims
      <4>1. PICK i \in Ids : Exists(was[i]) /\ \/ was[i].occ = o
                                               \/ was[i].occ = NoOcc /\ was[i].period = PeriodOf[o]
        <5>1. Claims(was, o)
          BY <2>3, <3>2
        <5> QED
          BY <5>1 DEF Claims
      <4>2. /\ Exists(once[i]) /\ once[i].occ = was[i].occ /\ once[i].period = was[i].period
        BY <1>4, <2>2, <4>1
      <4> QED
        BY <2>1, <4>1, <4>2 DEF Claims
    <3> QED
      BY <3>1, <3>2
  <2> QED
    BY <2>3, <2>4
<1> DEFINE twice == Maintained(once, occs, eff)
<1>7. PICK new2, f2 : Maintains(twice, once, occs, eff, new2, f2)
  BY <1>5, MaintainedIs
<1> HIDE DEF twice
<1>8. new2 = {}
  BY <1>6, <1>7 DEF Maintains
<1>9. ASSUME NEW i \in Ids
      PROVE  twice[i] = once[i]
  <2>1. twice[i] = IF Updates(once[i], occs, eff) THEN [once[i] EXCEPT !.own = Derived]
                   ELSE once[i]
    BY <1>4, <1>7, <1>8 DEF Maintains
  <2>2. once[i].own = Derived => [once[i] EXCEPT !.own = Derived] = once[i]
    BY <1>4 DEF Row
  <2> QED
    BY <1>4, <2>1, <2>2
<1>10. PICK t : twice = [i \in Ids |-> t[i]]
  BY MaintainedIsFunction DEF twice
<1>11. twice = once
  BY <1>5, <1>9, <1>10
<1> QED
  BY <1>11 DEF twice

\* A pass repeated at once finds nothing left to do, whatever the owner's
\* acts left and whichever rule and day it is asked for.
THEOREM PassesEnd == Spec => []PassesSettle
<1>1. ASSUME IInv PROVE PassesSettle
  <2>1. rows \in [Ids -> Row]
    BY <1>1, InvIs DEF RowsFit
  <2>2. ASSUME NEW rule \in Rules, NEW eff \in 1..saved,
               NEW occs, occs = Placements(rule, active, 1..saved, eff),
               Room(rows, MaintainClaims(rows, occs, eff))
        PROVE  Maintained(Maintained(rows, occs, eff), occs, eff) = Maintained(rows, occs, eff)
    <3>1. occs \in SUBSET Occurrences /\ \A o \in occs : PeriodOf[o] \in 1..saved /\ PeriodOf[o] >= eff
      BY <2>2, RulesAssumption DEF Placements, Occurrences
    <3> QED
      BY <2>1, <2>2, <3>1, PassSettled
  <2> QED
    BY <2>2 DEF PassesSettle
<1> QED
  BY <1>1, SpecInv, PTL

\* A carry takes all of the paycheck it is asked of, and its plan with it: no
\* row of the definition stays open there, and what is planned after it is
\* what was, less what the sources spent, plus the rows it had to write.
THEOREM PlanIsMoved == Spec => []CarriesMoveThePlan
<1>1. ASSUME IInv PROVE CarriesMoveThePlan
  <2>1. ASSUME NEW s \in 1..saved \ {now}, NEW flushed \in BOOLEAN,
               NEW after, after = Carried(rows, s, now, flushed), ~after.refused, after.room
        PROVE  OpenAt(after.rows, s) = {}
    BY <1>1, <2>1, CarryLeaves
  <2>2. ASSUME NEW s \in 1..saved \ {now}, NEW flushed \in BOOLEAN,
               NEW after, after = Carried(rows, s, now, flushed),
               envelope, ~after.refused, after.room
        PROVE  Planned(after.rows)
                 + SumFunctionOnSet([i \in Ids |-> Budget(rows[i]) - Leftover(rows[i])],
                                    OpenAt(rows, s))
               = Planned(rows)
                 + Price * Cardinality({i \in Ids : ~Exists(rows[i]) /\ after.rows[i].occ # NoOcc})
    <3>1. CarryInv(after, rows, saved, s, MaxRows)
      BY <1>1, <2>2, CarryLeaves
    <3>2. Planned(after.rows) + SumFunctionOnSet(Used(rows), Passed(rows, s, MaxRows))
            = Planned(rows) + Price * Cardinality(NewOf(rows, after.rows))
      BY <2>2, <3>1 DEF CarryInv
    <3>3. Passed(rows, s, MaxRows) = OpenAt(rows, s)
      BY RowsAssumption, OpenAtIs DEF Passed, Ids
    <3> QED
      BY <3>2, <3>3 DEF Used, NewOf
  <2>3. CarriedPaychecksEmpty
    BY <2>1 DEF CarriedPaychecksEmpty
  <2>4. CarryConservesPlan
    BY <2>2 DEF CarryConservesPlan
  <2> QED
    BY <2>3, <2>4 DEF CarriesMoveThePlan
<1> QED
  BY <1>1, SpecInv, PTL
=============================================================================
