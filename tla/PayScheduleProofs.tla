------------------------- MODULE PayScheduleProofs -------------------------
(***************************************************************************)
(* For every set of closed days, rhythms, stated days and things filed in  *)
(* a paycheck: the eras the doors leave can be read from the first payday  *)
(* recorded, what was added earlier is removed without a trace, the        *)
(* rolling window stops at its target, and money keeps a paycheck.         *)
(***************************************************************************)
EXTENDS PaySchedule, SumsProofs

(***************************************************************************)
(* Displacement.                                                           *)
(***************************************************************************)

LEMMA GapFacts ==
    /\ ShortestShiftedGap \in Nat /\ ShortestShiftedGap > 0
    /\ \A d \in Int, n \in Nat : d..(d + n - 1) \subseteq Closed => n < ShortestShiftedGap
<1> DEFINE C == Cardinality(Closed)
           Runs == {0} \cup {n \in 1..C : \E d \in Closed : d..(d + n - 1) \subseteq Closed}
<1>1. IsFiniteSet(Closed) /\ Closed \subseteq Int /\ C \in Nat
  BY DaysAssumption, FS_CardinalityType
<1>2. Runs \subseteq 0..C /\ Runs # {}
  BY <1>1
<1>3. IsFiniteSet(Runs) /\ Runs \subseteq Int
  <2>1. 0 \in Int /\ C \in Int /\ Runs \subseteq 0..C
    BY <1>1, <1>2
  <2> HIDE DEF Runs, C
  <2> QED BY <2>1, SpanFinite, Zenon
<1>4. Max(Runs) \in Runs /\ \A y \in Runs : y <= Max(Runs)
  <2> HIDE DEF Runs
  <2> QED BY <1>2, <1>3, MaxFacts
<1>5. Max(Runs) \in Nat
  BY <1>2, <1>4
<1>6. ShortestShiftedGap = 1 + Max(Runs)
  BY DEF ShortestShiftedGap
<1>7. ASSUME NEW d \in Int, NEW n \in Nat, d..(d + n - 1) \subseteq Closed
      PROVE  n <= Max(Runs)
  <2>1. CASE n = 0
    BY <1>5, <2>1
  <2>2. CASE n # 0
    <3>1. d \in Closed
      BY <1>7, <2>2
    <3>2. Cardinality(d..(d + n - 1)) = n
      <4>1. d + n - 1 \in Int /\ ~(d > d + n - 1) /\ (d + n - 1) - d + 1 = n
        BY <2>2
      <4> QED
        BY <4>1, FS_Interval
    <3>3. n <= C
      BY <1>1, <1>7, <3>2, FS_Subset
    <3>4. n \in Runs
      BY <1>7, <2>2, <3>1, <3>3
    <3> QED
      BY <1>4, <3>4
  <2> QED
    BY <2>1, <2>2
<1>8. ASSUME NEW d \in Int, NEW n \in Nat, d..(d + n - 1) \subseteq Closed
      PROVE  n < ShortestShiftedGap
  <2>1. n <= Max(Runs)
    BY <1>7, <1>8
  <2> HIDE DEF Runs
  <2> QED BY <1>5, <1>6, <2>1
<1>9. ShortestShiftedGap \in Nat /\ ShortestShiftedGap > 0
  <2> HIDE DEF Runs
  <2> QED BY <1>5, <1>6
<1> QED
  BY <1>8, <1>9

\* Of as many days as the shortest gap one at least is open.
LEMMA AnOpenDay ==
    ASSUME NEW d \in Int
    PROVE  \E x \in d..(d + ShortestShiftedGap - 1) : x \notin Closed
<1>1. ~(d..(d + ShortestShiftedGap - 1) \subseteq Closed)
  BY GapFacts
<1> QED
  BY <1>1

\* A payday is displaced by less than the shortest gap, to its side.
LEMMA DisplacedFacts ==
    ASSUME NEW day \in Int, NEW shift
    PROVE  /\ Displaced(day, shift) \in Int
           /\ shift = "none" => Displaced(day, shift) = day
           /\ shift = "prior" => /\ day - ShortestShiftedGap < Displaced(day, shift)
                                 /\ Displaced(day, shift) <= day
           /\ shift \notin {"none", "prior"} =>
                /\ day <= Displaced(day, shift)
                /\ Displaced(day, shift) < day + ShortestShiftedGap
<1> DEFINE G == ShortestShiftedGap
<1>1. G \in Nat /\ G > 0
  BY GapFacts
<1>2. CASE shift = "none" \/ day \notin Closed
  <2>1. Displaced(day, shift) = day
    BY <1>2 DEF Displaced
  <2> QED
    BY <1>1, <2>1
<1>3. CASE shift # "none" /\ day \in Closed /\ shift = "prior"
  <2> DEFINE S == (day - G)..day \ Closed
  <2>1. Displaced(day, shift) = Max(S)
    BY <1>3 DEF Displaced
  <2>2. PICK x \in (day - G + 1)..((day - G + 1) + G - 1) : x \notin Closed
    <3>1. day - G + 1 \in Int
      BY <1>1
    <3> QED
      BY <3>1, AnOpenDay
  <2>3. x \in S /\ x > day - G
    BY <1>1, <2>2
  <2>4. IsFiniteSet(S) /\ S \subseteq Int
    <3>1. S \subseteq (day - G)..day /\ day - G \in Int
      BY <1>1
    <3> HIDE DEF S, G
    <3> QED BY <3>1, SpanFinite
  <2>5. Max(S) \in S /\ Max(S) \in Int /\ \A y \in S : y <= Max(S)
    <3> HIDE DEF S
    <3> QED BY <2>3, <2>4, MaxFacts
  <2>6. Max(S) <= day
    BY <2>5
  <2>7. x <= Max(S) /\ x \in Int
    BY <2>2, <2>3, <2>5
  <2> HIDE DEF S
  <2> QED
    BY <1>1, <1>3, <2>1, <2>3, <2>5, <2>6, <2>7
<1>4. CASE shift # "none" /\ day \in Closed /\ shift # "prior"
  <2> DEFINE S == day..(day + G) \ Closed
  <2>1. Displaced(day, shift) = Min(S)
    BY <1>4 DEF Displaced
  <2>2. PICK x \in day..(day + G - 1) : x \notin Closed
    BY AnOpenDay
  <2>3. x \in S /\ x < day + G
    BY <1>1, <2>2
  <2>4. IsFiniteSet(S) /\ S \subseteq Int
    <3>1. S \subseteq day..(day + G) /\ day + G \in Int
      BY <1>1
    <3> HIDE DEF S, G
    <3> QED BY <3>1, SpanFinite
  <2>5. Min(S) \in S /\ Min(S) \in Int /\ \A y \in S : Min(S) <= y
    <3> HIDE DEF S
    <3> QED BY <2>3, <2>4, MinFacts
  <2>6. Min(S) >= day
    BY <2>5
  <2>7. Min(S) <= x /\ x \in Int
    BY <2>2, <2>3, <2>5
  <2> HIDE DEF S
  <2> QED
    BY <1>1, <1>4, <2>1, <2>3, <2>5, <2>6, <2>7
<1> QED
  BY <1>2, <1>3, <1>4

(***************************************************************************)
(* One era's grid.                                                         *)
(***************************************************************************)

EraType == [from : Int, gap : Nat \ {0}, shift : {"none", "prior", "next"}]

\* An era a form may state: reject_shift_on_short_cadence.
Sound(e) == e \in EraType /\ (e.shift # "none" => e.gap >= ShortestShiftedGap)

\* The kth day of the grid, before displacement.
Nominal(e, k) == e.from + k * e.gap

LEMMA NominalFacts ==
    ASSUME NEW e \in EraType, NEW k \in Int
    PROVE  /\ Nominal(e, k) \in Int
           /\ Nominal(e, k + 1) = Nominal(e, k) + e.gap
           /\ Nominal(e, k - 1) = Nominal(e, k) - e.gap
           /\ e.gap \in Nat /\ e.gap > 0 /\ e.from \in Int
<1>1. e.gap \in Nat /\ e.gap > 0 /\ e.from \in Int
  BY DEF EraType
<1>2. k * e.gap \in Int /\ (k + 1) * e.gap = k * e.gap + e.gap
      /\ (k - 1) * e.gap = k * e.gap - e.gap
  BY <1>1
<1> QED
  BY <1>1, <1>2 DEF Nominal

LEMMA NominalAscends ==
    ASSUME NEW e \in EraType, NEW j \in Int, NEW k \in Int, j <= k
    PROVE  Nominal(e, j) <= Nominal(e, k)
<1>1. e.gap \in Nat /\ e.from \in Int
  BY NominalFacts
<1>2. j * e.gap \in Int /\ k * e.gap \in Int /\ (k - j) * e.gap = k * e.gap - j * e.gap
  BY <1>1
<1>3. (k - j) * e.gap >= 0
  <2>1. k - j \in Nat
    OBVIOUS
  <2> QED
    BY <1>1, <2>1
<1> QED
  BY <1>1, <1>2, <1>3 DEF Nominal

\* A displaced payday stays between the grid days either side of its own.
LEMMA PaydayFacts ==
    ASSUME NEW e, Sound(e), NEW k \in Int
    PROVE  /\ Payday(e, k) \in Int
           /\ e.shift = "none" => Payday(e, k) = Nominal(e, k)
           /\ e.shift = "prior" => /\ Nominal(e, k) - e.gap < Payday(e, k)
                                   /\ Payday(e, k) <= Nominal(e, k)
           /\ e.shift = "next" => /\ Nominal(e, k) <= Payday(e, k)
                                  /\ Payday(e, k) < Nominal(e, k) + e.gap
           /\ Nominal(e, k - 1) < Payday(e, k)
           /\ Payday(e, k) < Nominal(e, k + 1)
<1>1. e \in EraType /\ (e.shift # "none" => e.gap >= ShortestShiftedGap)
  BY DEF Sound
<1>2. Nominal(e, k) \in Int /\ e.gap \in Nat /\ e.gap > 0
      /\ Nominal(e, k + 1) = Nominal(e, k) + e.gap /\ Nominal(e, k - 1) = Nominal(e, k) - e.gap
  BY <1>1, NominalFacts
<1>3. Payday(e, k) = Displaced(Nominal(e, k), e.shift)
  BY DEF Payday, Nominal
<1> DEFINE N == Nominal(e, k)
           D == Displaced(N, e.shift)
           G == ShortestShiftedGap
<1>4. /\ D \in Int
      /\ e.shift = "none" => D = N
      /\ e.shift = "prior" => N - G < D /\ D <= N
      /\ e.shift \notin {"none", "prior"} => N <= D /\ D < N + G
  BY <1>2, DisplacedFacts
<1>5. G \in Nat
  BY GapFacts
<1>6. e.shift \in {"none", "prior", "next"}
  BY <1>1 DEF EraType
<1>7. CASE e.shift = "none"
  BY <1>2, <1>3, <1>4, <1>7
<1>8. CASE e.shift = "prior"
  <2>1. N - G < D /\ D <= N /\ G <= e.gap
    BY <1>1, <1>4, <1>5, <1>8
  <2> HIDE DEF N, D, G
  <2> QED BY <1>2, <1>3, <1>4, <1>5, <1>8, <2>1 DEF N, D
<1>9. CASE e.shift = "next"
  <2>1. N <= D /\ D < N + G /\ G <= e.gap
    BY <1>1, <1>4, <1>5, <1>9
  <2> HIDE DEF N, D, G
  <2> QED BY <1>2, <1>3, <1>4, <1>5, <1>9, <2>1 DEF N, D
<1> QED
  BY <1>6, <1>7, <1>8, <1>9

\* A step later is a payday later: displacement never makes two collide.
LEMMA NextPaydayIsLater ==
    ASSUME NEW e, Sound(e), NEW k \in Int
    PROVE  Payday(e, k) < Payday(e, k + 1)
<1> DEFINE N == Nominal(e, k)
           M == Nominal(e, k + 1)
           p == Payday(e, k)
           q == Payday(e, k + 1)
<1>1. N \in Int /\ M = N + e.gap /\ e.gap \in Nat /\ e.gap > 0 /\ M \in Int /\ k + 1 \in Int
  BY NominalFacts DEF Sound
<1>2. /\ p \in Int
      /\ e.shift = "none" => p = N
      /\ e.shift = "prior" => p <= N
      /\ e.shift = "next" => p < N + e.gap
  BY PaydayFacts
<1>3. /\ q \in Int
      /\ e.shift = "none" => q = M
      /\ e.shift = "prior" => M - e.gap < q
      /\ e.shift = "next" => M <= q
  BY <1>1, PaydayFacts
<1>4. e.shift \in {"none", "prior", "next"}
  BY DEF Sound, EraType
<1> HIDE DEF N, M, p, q
<1>5. p < q
  BY <1>1, <1>2, <1>3, <1>4
<1> QED
  BY <1>5 DEF p, q

LEMMA PaydaysAscend ==
    ASSUME NEW e, Sound(e), NEW j \in Int, NEW k \in Int, j < k
    PROVE  Payday(e, j) < Payday(e, k)
<1>1. CASE k = j + 1
  BY <1>1, NextPaydayIsLater
<1>2. CASE k # j + 1
  <2>1. j + 1 <= k - 1 /\ j + 1 \in Int /\ k - 1 \in Int
    BY <1>2
  <2>2. Nominal(e, j + 1) <= Nominal(e, k - 1)
    BY <2>1, NominalAscends DEF Sound
  <2>3. Payday(e, j) < Nominal(e, j + 1) /\ Nominal(e, k - 1) < Payday(e, k)
        /\ Payday(e, j) \in Int /\ Payday(e, k) \in Int
    BY PaydayFacts
  <2>4. Nominal(e, j + 1) \in Int /\ Nominal(e, k - 1) \in Int
    BY <2>1, NominalFacts DEF Sound
  <2> QED
    BY <2>2, <2>3, <2>4
<1> QED
  BY <1>1, <1>2

\* Paydays and steps are in the same order.
LEMMA PaydayOrder ==
    ASSUME NEW e, Sound(e), NEW j \in Int, NEW k \in Int
    PROVE  /\ Payday(e, j) < Payday(e, k) <=> j < k
           /\ Payday(e, j) <= Payday(e, k) <=> j <= k
           /\ Payday(e, j) = Payday(e, k) <=> j = k
<1>1. Payday(e, j) \in Int /\ Payday(e, k) \in Int
  BY PaydayFacts
<1>2. CASE j < k
  BY <1>1, <1>2, PaydaysAscend
<1>3. CASE k < j
  BY <1>1, <1>3, PaydaysAscend
<1>4. CASE j = k
  BY <1>1, <1>4
<1> QED
  BY <1>2, <1>3, <1>4

LEMMA Division ==
    ASSUME NEW a \in Int, NEW g \in Nat, g > 0
    PROVE  /\ a \div g \in Int
           /\ (a \div g) * g <= a
           /\ a < (a \div g) * g + g
<1>1. a \div g \in Int
  OBVIOUS
<1>2. (a \div g) * g <= a
  OBVIOUS
<1>3. a < (a \div g) * g + g
  OBVIOUS
<1> QED
  BY <1>1, <1>2, <1>3

\* The grid step at or before a day.
LEMMA StepsFacts ==
    ASSUME NEW e \in EraType, NEW day \in Int
    PROVE  /\ StepsTo(e, day) \in Int
           /\ Nominal(e, StepsTo(e, day)) <= day
           /\ day < Nominal(e, StepsTo(e, day) + 1)
<1>1. e.gap \in Nat /\ e.gap > 0 /\ e.from \in Int
  BY NominalFacts
<1> DEFINE a == day - e.from
           s == a \div e.gap
<1>2. a \in Int /\ s \in Int
  BY <1>1, Division
<1>3. s * e.gap <= a /\ a < s * e.gap + e.gap
  <2> HIDE DEF a
  <2> QED BY <1>1, <1>2, Division
<1>4. StepsTo(e, day) = s
  BY DEF StepsTo
<1>5. Nominal(e, s) = e.from + s * e.gap /\ Nominal(e, s + 1) = Nominal(e, s) + e.gap
  BY <1>2, NominalFacts DEF Nominal
<1>6. s * e.gap \in Int
  BY <1>1, <1>2
<1> HIDE DEF s
<1> QED
  BY <1>1, <1>2, <1>3, <1>4, <1>5, <1>6

\* The paydays around a day: those a step below its grid step are not after
\* it, and those two steps above are.
LEMMA PaydaysAround ==
    ASSUME NEW e, Sound(e), NEW day \in Int
    PROVE  /\ Payday(e, StepsTo(e, day) - 1) < day
           /\ Payday(e, StepsTo(e, day) + 2) > day
<1> DEFINE s == StepsTo(e, day)
<1>1. s \in Int /\ Nominal(e, s) <= day /\ day < Nominal(e, s + 1)
  BY StepsFacts DEF Sound
<1> HIDE DEF s
<1>2. s - 1 \in Int /\ s + 2 \in Int /\ s + 1 \in Int /\ (s - 1) + 1 = s /\ (s + 2) - 1 = s + 1
  BY <1>1
<1>3. Payday(e, s - 1) < Nominal(e, s) /\ Payday(e, s - 1) \in Int
  BY <1>2, PaydayFacts
<1>4. Nominal(e, s + 1) < Payday(e, s + 2) /\ Payday(e, s + 2) \in Int
  BY <1>2, PaydayFacts
<1>5. Nominal(e, s) \in Int /\ Nominal(e, s + 1) \in Int
  BY <1>1, <1>2, NominalFacts DEF Sound
<1>6. Payday(e, s - 1) < day /\ Payday(e, s + 2) > day
  BY <1>1, <1>3, <1>4, <1>5
<1> QED
  BY <1>6 DEF s

\* step_after finds the first step paid after a day.
LEMMA StepAfterFacts ==
    ASSUME NEW e, Sound(e), NEW day \in Int
    PROVE  /\ StepAfter(e, day) \in Int
           /\ \A k \in Int : day < Payday(e, k) <=> StepAfter(e, day) <= k
<1> DEFINE s == StepsTo(e, day)
           S == {k \in s..(s + 2) : Payday(e, k) > day}
<1>1. s \in Int
  BY StepsFacts DEF Sound
<1>2. Payday(e, s - 1) < day /\ Payday(e, s + 2) > day
  BY PaydaysAround
<1>3. StepAfter(e, day) = Min(S)
  BY DEF StepAfter
<1> HIDE DEF s
<1>4. s + 2 \in S /\ S \subseteq s..(s + 2) /\ s + 2 \in Int
  BY <1>1, <1>2
<1>5. IsFiniteSet(S) /\ S \subseteq Int
  <2> HIDE DEF S
  <2> QED BY <1>1, <1>4, SpanFinite, Zenon
<1>6. Min(S) \in S /\ Min(S) \in Int /\ \A y \in S : Min(S) <= y
  <2> HIDE DEF S
  <2> QED BY <1>4, <1>5, MinFacts
<1> DEFINE m == Min(S)
<1>7. m \in Int /\ m >= s /\ m <= s + 2 /\ Payday(e, m) > day
  BY <1>1, <1>6
<1>8. \A y \in Int : y >= s /\ y <= s + 2 /\ Payday(e, y) > day => m <= y
  BY <1>1, <1>6
<1> HIDE DEF m, S
<1>9. ASSUME NEW k \in Int
      PROVE  day < Payday(e, k) <=> m <= k
  <2>1. Payday(e, k) \in Int /\ Payday(e, m) \in Int /\ Payday(e, s - 1) \in Int /\ s - 1 \in Int
    BY <1>1, <1>7, PaydayFacts
  <2>2. CASE m <= k
    <3>1. Payday(e, m) <= Payday(e, k)
      BY <1>7, <2>2, PaydayOrder
    <3> QED
      BY <1>7, <2>1, <2>2, <3>1
  <2>3. CASE k < m /\ k >= s
    <3>1. k <= s + 2
      BY <1>1, <1>7, <2>3
    <3>2. ~(Payday(e, k) > day)
      BY <1>7, <1>8, <2>3, <3>1
    <3> QED
      BY <1>7, <2>1, <2>3, <3>2
  <2>4. CASE k < m /\ k < s
    <3>1. k <= s - 1
      BY <1>1, <2>4
    <3>2. Payday(e, k) <= Payday(e, s - 1)
      BY <2>1, <3>1, PaydayOrder
    <3>3. ~(day < Payday(e, k))
      BY <1>2, <2>1, <3>2
    <3> QED
      BY <1>7, <2>4, <3>3
  <2> QED
    BY <1>1, <1>7, <2>2, <2>3, <2>4
<1>10. m = StepAfter(e, day)
  BY <1>3 DEF m
<1> QED
  BY <1>7, <1>9, <1>10

LEMMA DistanceFacts ==
    ASSUME NEW a \in Int, NEW b \in Int
    PROVE  /\ Distance(a, b) \in Nat
           /\ Distance(a, b) = 0 <=> a = b
           /\ a >= b => Distance(a, b) = a - b
           /\ a <= b => Distance(a, b) = b - a
BY DEF Distance

\* matched_step's candidates: some are nearest, and the later of them is taken.
LEMMA MatchedStepIsNearest ==
    ASSUME NEW e, Sound(e), NEW day \in Int
    PROVE  LET s == StepsTo(e, day)
               m == MatchedStep(e, day)
           IN  /\ m \in Int /\ s - 1 <= m /\ m <= s + 2
               /\ \A j \in (s - 1)..(s + 2) :
                      Distance(Payday(e, m), day) <= Distance(Payday(e, j), day)
<1> DEFINE s == StepsTo(e, day)
           near == (s - 1)..(s + 2)
           off(k) == Distance(Payday(e, k), day)
           S == {k \in near : \A j \in near : off(k) <= off(j)}
<1>1. s \in Int
  BY StepsFacts DEF Sound
<1>2. MatchedStep(e, day) = Max(S)
  BY DEF MatchedStep
<1> HIDE DEF s
<1>3. \A k \in near : off(k) \in Nat
  <2>1. \A k \in near : k \in Int
    BY <1>1
  <2> QED
    BY <2>1, PaydayFacts, DistanceFacts
<1>4. near = {s - 1, s, s + 1, s + 2}
  BY <1>1
<1>5. \E k \in near : \A j \in near : off(k) <= off(j)
  <2>1. off(s - 1) \in Nat /\ off(s) \in Nat /\ off(s + 1) \in Nat /\ off(s + 2) \in Nat
    BY <1>3, <1>4
  <2> DEFINE a == off(s - 1)
             b == off(s)
             c == off(s + 1)
             d == off(s + 2)
  <2>2. \/ a <= b /\ a <= c /\ a <= d
        \/ b <= a /\ b <= c /\ b <= d
        \/ c <= a /\ c <= b /\ c <= d
        \/ d <= a /\ d <= b /\ d <= c
    <3> HIDE DEF a, b, c, d
    <3>1. a \in Nat /\ b \in Nat /\ c \in Nat /\ d \in Nat
      BY <2>1 DEF a, b, c, d
    <3> QED BY <3>1
  <2>3. a <= a /\ b <= b /\ c <= c /\ d <= d
    BY <2>1
  <2> HIDE DEF off, near
  <2> QED BY <1>4, <2>2, <2>3
<1>6. S # {} /\ S \subseteq near /\ s - 1 \in Int /\ s + 2 \in Int
  BY <1>1, <1>5
<1>7. IsFiniteSet(S) /\ S \subseteq Int
  <2> HIDE DEF S
  <2> QED BY <1>6, SpanFinite, Zenon
<1>8. Max(S) \in S /\ Max(S) \in Int
  <2> HIDE DEF S
  <2> QED BY <1>6, <1>7, MaxFacts
<1> DEFINE m == Max(S)
<1>9. m \in near /\ \A j \in near : off(m) <= off(j)
  BY <1>8
<1> HIDE DEF S
<1>10. m \in Int /\ s - 1 <= m /\ m <= s + 2
  BY <1>1, <1>9
<1> QED
  BY <1>2, <1>9, <1>10 DEF s

\* matched_step finds the step a payday came from, and on any day a step with
\* the next one paid after it.
LEMMA MatchedStepFacts ==
    ASSUME NEW e, Sound(e), NEW day \in Int
    PROVE  /\ MatchedStep(e, day) \in Int
           /\ \A k \in Int : Payday(e, k) = day => MatchedStep(e, day) = k
           /\ day < Payday(e, MatchedStep(e, day) + 1)
           /\ FirstPayday(e) <= day => MatchedStep(e, day) >= 0
<1> DEFINE s == StepsTo(e, day)
           m == MatchedStep(e, day)
<1>1. /\ m \in Int /\ s - 1 <= m /\ m <= s + 2
      /\ \A j \in (s - 1)..(s + 2) :
             Distance(Payday(e, m), day) <= Distance(Payday(e, j), day)
  BY MatchedStepIsNearest
<1>2. s \in Int /\ Nominal(e, s) <= day /\ day < Nominal(e, s + 1)
  BY StepsFacts DEF Sound
<1>3. Payday(e, s + 2) > day
  BY PaydaysAround
<1>4. m + 1 \in Int /\ Payday(e, m) \in Int /\ Payday(e, m + 1) \in Int
      /\ Payday(e, m) < Payday(e, m + 1)
  BY <1>1, PaydayFacts, NextPaydayIsLater
<1> HIDE DEF s, m
<1>5. ASSUME NEW k \in Int, Payday(e, k) = day
      PROVE  m = k
  <2>1. Nominal(e, k - 1) < day /\ day < Nominal(e, k + 1)
    BY <1>5, PaydayFacts
  <2>2. Nominal(e, k - 1) \in Int /\ Nominal(e, k + 1) \in Int
        /\ Nominal(e, s) \in Int /\ Nominal(e, s + 1) \in Int
        /\ k - 1 \in Int /\ k + 1 \in Int /\ s + 1 \in Int
    BY <1>2, NominalFacts DEF Sound
  <2>3. s < k + 1
    <3>1. ~(k + 1 <= s)
      BY <1>2, <2>1, <2>2, NominalAscends DEF Sound
    <3> QED
      BY <1>2, <3>1
  <2>4. k - 1 < s + 1
    <3>1. ~(s + 1 <= k - 1)
      BY <1>2, <2>1, <2>2, NominalAscends DEF Sound
    <3> QED
      BY <1>2, <3>1
  <2>5. k \in (s - 1)..(s + 2)
    BY <1>2, <2>3, <2>4
  <2>6. Distance(Payday(e, m), day) <= Distance(Payday(e, k), day)
    BY <1>1, <2>5
  <2>7. Distance(Payday(e, k), day) = 0 /\ Distance(Payday(e, m), day) \in Nat
    BY <1>4, <1>5, DistanceFacts, Zenon
  <2>8. Payday(e, m) = Payday(e, k)
    <3>1. Distance(Payday(e, m), day) = 0
      BY <2>6, <2>7
    <3> QED
      BY <1>4, <1>5, <3>1, DistanceFacts, Zenon
  <2> QED
    BY <1>1, <2>8, PaydayOrder
<1>6. day < Payday(e, m + 1)
  <2>1. CASE m = s + 2
    BY <1>2, <1>3, <1>4, <2>1
  <2>2. CASE m # s + 2
    <3>1. m + 1 \in (s - 1)..(s + 2)
      BY <1>1, <1>2, <2>2
    <3>2. Distance(Payday(e, m), day) <= Distance(Payday(e, m + 1), day)
      BY <1>1, <3>1
    <3>3. SUFFICES ASSUME Payday(e, m + 1) <= day PROVE FALSE
      BY <1>4
    <3>4. Distance(Payday(e, m), day) = day - Payday(e, m)
          /\ Distance(Payday(e, m + 1), day) = day - Payday(e, m + 1)
      <4>1. Payday(e, m) <= day /\ Payday(e, m + 1) <= day
        BY <1>4, <3>3
      <4> QED
        BY <1>4, <4>1, DistanceFacts, Zenon
    <3> QED
      BY <1>4, <3>2, <3>4
  <2> QED
    BY <2>1, <2>2
<1>7. FirstPayday(e) <= day => m >= 0
  <2>1. SUFFICES ASSUME FirstPayday(e) <= day, m < 0 PROVE FALSE
    BY <1>1
  <2>2. Payday(e, m + 1) <= Payday(e, 0)
    BY <1>1, <1>4, <2>1, PaydayOrder
  <2>3. Payday(e, 0) \in Int /\ Payday(e, 0) <= day
    BY <2>1, PaydayFacts DEF FirstPayday
  <2> QED
    BY <1>4, <1>6, <2>2, <2>3
<1> QED
  BY <1>1, <1>5, <1>6, <1>7 DEF m

(***************************************************************************)
(* The plan of a sequence of eras.                                         *)
(***************************************************************************)

\* Eras the calendar can be read from.
Plan(es) ==
    /\ es \in Seq(EraType) /\ Len(es) >= 1
    /\ \A i \in 1..Len(es) : Sound(es[i])
    /\ Readable(es)

LEMMA PlanFacts ==
    ASSUME NEW es, Plan(es)
    PROVE  /\ Len(es) \in Nat /\ 1 \in 1..Len(es) /\ DOMAIN es = 1..Len(es)
           /\ \A i \in 1..Len(es) : Sound(es[i]) /\ es[i] \in EraType /\ FirstPayday(es[i]) \in Int
<1>1. \A i \in 1..Len(es) : Sound(es[i])
  BY DEF Plan
<1>2. \A i \in 1..Len(es) : FirstPayday(es[i]) \in Int
  BY <1>1, PaydayFacts DEF FirstPayday
<1>3. \A i \in 1..Len(es) : es[i] \in EraType
  BY <1>1 DEF Sound
<1> QED
  BY <1>1, <1>2, <1>3 DEF Plan

\* The last step an era pays is paid before the next era's first payday, and
\* the step after it no later than that payday.
LEMMA LastStepFacts ==
    ASSUME NEW es, Plan(es), NEW i \in 1..Len(es), i < Len(es)
    PROVE  /\ LastStep(es, i) \in Nat
           /\ i + 1 \in 1..Len(es)
           /\ \A k \in Int : FirstPayday(es[i + 1]) < Payday(es[i], k) <=> LastStep(es, i) + 2 <= k
<1>1. Len(es) \in Nat /\ i + 1 \in 1..Len(es)
  BY PlanFacts
<1>2. Sound(es[i]) /\ FirstPayday(es[i + 1]) \in Int
  BY <1>1, PlanFacts
<1> DEFINE a == StepAfter(es[i], FirstPayday(es[i + 1]))
<1>3. /\ a \in Int
      /\ \A k \in Int : FirstPayday(es[i + 1]) < Payday(es[i], k) <=> a <= k
  BY <1>2, StepAfterFacts
<1>4. LastStep(es, i) = a - 2
  BY DEF LastStep
<1>5. LastStep(es, i) >= 0
  <2>1. i \in 1..(Len(es) - 1)
    BY <1>1
  <2> QED
    BY <2>1 DEF Plan, Readable
<1> HIDE DEF a
<1> QED
  BY <1>1, <1>3, <1>4, <1>5

\* What that says of one step of an era that another follows.
LEMMA PaidBefore ==
    ASSUME NEW es, Plan(es), NEW i \in 1..Len(es), i < Len(es), NEW k \in Int
    PROVE  /\ k <= LastStep(es, i) => Payday(es[i], k) < FirstPayday(es[i + 1])
           /\ k <= LastStep(es, i) + 1 => Payday(es[i], k) <= FirstPayday(es[i + 1])
           /\ Payday(es[i], k + 1) <= FirstPayday(es[i + 1]) => k <= LastStep(es, i)
<1>1. /\ LastStep(es, i) \in Nat /\ i + 1 \in 1..Len(es)
      /\ \A j \in Int : FirstPayday(es[i + 1]) < Payday(es[i], j) <=> LastStep(es, i) + 2 <= j
  BY LastStepFacts
<1>2. Sound(es[i]) /\ FirstPayday(es[i + 1]) \in Int
  BY <1>1, PlanFacts
<1>3. Payday(es[i], k) \in Int /\ Payday(es[i], k + 1) \in Int /\ k + 1 \in Int
      /\ Payday(es[i], k) < Payday(es[i], k + 1)
  <2>1. k + 1 \in Int
    OBVIOUS
  <2> QED
    BY <1>2, <2>1, PaydayFacts, NextPaydayIsLater, Zenon
<1>4. FirstPayday(es[i + 1]) < Payday(es[i], k) <=> LastStep(es, i) + 2 <= k
  BY <1>1
<1>5. FirstPayday(es[i + 1]) < Payday(es[i], k + 1) <=> LastStep(es, i) + 2 <= k + 1
  BY <1>1, <1>3
<1> QED
  BY <1>1, <1>2, <1>3, <1>4, <1>5

\* Eras take effect, and first pay, one after another.
LEMMA ErasAscend ==
    ASSUME NEW es, Plan(es), NEW i \in 1..Len(es), NEW j \in 1..Len(es), i < j
    PROVE  es[i].from < es[j].from /\ FirstPayday(es[i]) < FirstPayday(es[j])
<1> DEFINE P == {k \in Nat : i + k + 1 <= Len(es) =>
                     /\ es[i].from < es[i + k + 1].from
                     /\ FirstPayday(es[i]) < FirstPayday(es[i + k + 1])}
<1>1. /\ Len(es) \in Nat
      /\ \A k \in 1..Len(es) : Sound(es[k]) /\ es[k].from \in Int /\ FirstPayday(es[k]) \in Int
  BY PlanFacts DEF EraType
<1>2. ASSUME NEW k \in 1..Len(es), k + 1 <= Len(es)
      PROVE  es[k].from < es[k + 1].from /\ FirstPayday(es[k]) < FirstPayday(es[k + 1])
  <2>1. k \in 1..(Len(es) - 1)
    BY <1>1, <1>2
  <2>2. es[k].from < es[k + 1].from
    BY <2>1 DEF Plan, Readable
  <2>3. LastStep(es, k) \in Nat /\ k < Len(es)
    BY <1>1, <1>2, LastStepFacts
  <2>4. Payday(es[k], 0) < FirstPayday(es[k + 1])
    BY <2>3, PaidBefore
  <2> QED
    BY <2>2, <2>4 DEF FirstPayday
<1>3. 0 \in P
  <2>1. i + 1 <= Len(es) => es[i].from < es[i + 1].from /\ FirstPayday(es[i]) < FirstPayday(es[i + 1])
    BY <1>2
  <2>2. i + 0 + 1 = i + 1
    OBVIOUS
  <2> QED
    BY <2>1, <2>2
<1>4. ASSUME NEW k \in Nat, k \in P
      PROVE  k + 1 \in P
  <2>1. SUFFICES ASSUME i + (k + 1) + 1 <= Len(es)
                 PROVE  /\ es[i].from < es[i + (k + 1) + 1].from
                        /\ FirstPayday(es[i]) < FirstPayday(es[i + (k + 1) + 1])
    BY <1>4
  <2> DEFINE m == i + k + 1
  <2>2. m \in 1..Len(es) /\ m + 1 \in 1..Len(es) /\ m + 1 <= Len(es) /\ m + 1 = i + (k + 1) + 1
    BY <1>1, <2>1
  <2>3. es[i].from < es[m].from /\ FirstPayday(es[i]) < FirstPayday(es[m])
    BY <1>4, <2>2
  <2> HIDE DEF m
  <2>4. es[m].from < es[m + 1].from /\ FirstPayday(es[m]) < FirstPayday(es[m + 1])
    BY <1>2, <2>2
  <2>5. es[i].from \in Int /\ es[m].from \in Int /\ es[m + 1].from \in Int
    BY <1>1, <2>2
  <2>6. FirstPayday(es[i]) \in Int /\ FirstPayday(es[m]) \in Int /\ FirstPayday(es[m + 1]) \in Int
    BY <1>1, <2>2
  <2>7. es[i].from < es[m + 1].from /\ FirstPayday(es[i]) < FirstPayday(es[m + 1])
    BY <2>3, <2>4, <2>5, <2>6
  <2> QED
    BY <2>2, <2>7
<1> DEFINE n == j - i - 1
<1>5. n \in Nat /\ n \in 0..n /\ i + n + 1 = j
  BY <1>1
<1>6. n \in P
  <2>1. \A k \in 0..n : k # n /\ k \in P => k + 1 \in P
    BY <1>4
  <2> HIDE DEF P, n
  <2> QED BY <1>3, <1>5, <2>1, UpTo
<1> QED
  BY <1>1, <1>5, <1>6

(***************************************************************************)
(* Where a day falls in the plan.                                          *)
(***************************************************************************)

\* era_index_at: the last of the eras that have first paid by a day.
LEMMA EraAtFacts ==
    ASSUME NEW es, Plan(es), NEW day \in Int
    PROVE  /\ EraAt(es, day) \in 1..Len(es)
           /\ \A j \in 2..EraAt(es, day) : FirstPayday(es[j]) <= day
           /\ \A j \in 2..Len(es) : j > EraAt(es, day) => day < FirstPayday(es[j])
<1> DEFINE S == {1} \cup {i \in 2..Len(es) : \A j \in 2..i : FirstPayday(es[j]) <= day}
           m == Max(S)
<1>1. Len(es) \in Nat /\ 1 \in 1..Len(es) /\ \A i \in 1..Len(es) : FirstPayday(es[i]) \in Int
  BY PlanFacts
<1>2. S \subseteq 1..Len(es) /\ 1 \in S /\ S # {} /\ 1 \in Int /\ Len(es) \in Int
  BY <1>1
<1>3. IsFiniteSet(S) /\ S \subseteq Int
  <2> HIDE DEF S
  <2> QED BY <1>2, SpanFinite, Zenon
<1>4. m \in S /\ m \in Int /\ \A y \in S : y <= m
  <2> HIDE DEF S
  <2> QED BY <1>2, <1>3, MaxFacts
<1>5. EraAt(es, day) = m
  BY DEF EraAt
<1> HIDE DEF m
<1>6. m \in 1..Len(es) /\ \A j \in 2..m : FirstPayday(es[j]) <= day
  BY <1>2, <1>4
<1>7. m < Len(es) => ~(FirstPayday(es[m + 1]) <= day)
  <2>1. SUFFICES ASSUME m < Len(es), FirstPayday(es[m + 1]) <= day PROVE FALSE
    OBVIOUS
  <2>2. m + 1 \in 2..Len(es) /\ \A j \in 2..(m + 1) : j \in 2..m \/ j = m + 1
    BY <1>1, <1>6, <2>1
  <2>3. m + 1 \in S
    BY <1>6, <2>1, <2>2
  <2> HIDE DEF S
  <2> QED BY <1>4, <2>3
<1>8. ASSUME NEW j \in 2..Len(es), j > m
      PROVE  day < FirstPayday(es[j])
  <2>1. m < Len(es) /\ m + 1 \in 1..Len(es) /\ j \in 1..Len(es)
    BY <1>1, <1>6, <1>8
  <2>2. day < FirstPayday(es[m + 1])
    BY <1>1, <1>7, <2>1
  <2>3. CASE j = m + 1
    BY <2>2, <2>3
  <2>4. CASE j # m + 1
    <3>1. m + 1 < j
      BY <1>6, <1>8, <2>4
    <3>2. FirstPayday(es[m + 1]) < FirstPayday(es[j])
      BY <2>1, <3>1, ErasAscend
    <3> QED
      BY <1>1, <2>1, <2>2, <3>2
  <2> QED
    BY <2>3, <2>4
<1> QED
  BY <1>5, <1>6, <1>8

(***************************************************************************)
(* Positions in the plan.                                                  *)
(***************************************************************************)

\* A step an era pays, from its first to its last.
Position(es, at) ==
    /\ at \in [era : 1..Len(es), step : Nat]
    /\ at.era < Len(es) => at.step <= LastStep(es, at.era)

Paid(es, at) == Payday(es[at.era], at.step)

LEMMA PaidFacts ==
    ASSUME NEW es, Plan(es), NEW at, Position(es, at)
    PROVE  /\ at.era \in 1..Len(es) /\ at.step \in Nat
           /\ Paid(es, at) \in Int
           /\ FirstPayday(es[at.era]) <= Paid(es, at)
           /\ FirstPayday(es[1]) <= Paid(es, at)
           /\ at.era = 1 \/ FirstPayday(es[2]) <= Paid(es, at)
<1>1. at.era \in 1..Len(es) /\ at.step \in Nat /\ Len(es) \in Nat
  BY PlanFacts DEF Position
<1>2. Sound(es[at.era]) /\ \A i \in 1..Len(es) : FirstPayday(es[i]) \in Int
  BY <1>1, PlanFacts
<1>3. Paid(es, at) \in Int /\ FirstPayday(es[at.era]) <= Paid(es, at)
  <2>1. at.step \in Int /\ 0 \in Int /\ 0 <= at.step
    BY <1>1
  <2>2. Payday(es[at.era], at.step) \in Int /\ Payday(es[at.era], 0) <= Payday(es[at.era], at.step)
    BY <1>2, <2>1, PaydayFacts, PaydayOrder, Zenon
  <2> QED
    BY <2>2 DEF Paid, FirstPayday
<1>4. CASE at.era = 1
  BY <1>1, <1>3, <1>4
<1>5. CASE at.era # 1
  <2>1. 1 \in 1..Len(es) /\ 2 \in 1..Len(es) /\ 1 < at.era
    BY <1>1, <1>5
  <2>2. FirstPayday(es[1]) < FirstPayday(es[at.era])
    BY <1>1, <2>1, ErasAscend
  <2>3. FirstPayday(es[2]) <= FirstPayday(es[at.era])
    <3>1. CASE at.era = 2
      BY <1>2, <2>1, <3>1
    <3>2. CASE at.era # 2
      <4>1. 2 < at.era
        BY <1>1, <1>5, <3>2
      <4>2. FirstPayday(es[2]) < FirstPayday(es[at.era])
        BY <1>1, <2>1, <4>1, ErasAscend
      <4> QED
        BY <1>1, <1>2, <2>1, <4>2
    <3> QED
      BY <3>1, <3>2
  <2>4. FirstPayday(es[1]) \in Int /\ FirstPayday(es[2]) \in Int /\ FirstPayday(es[at.era]) \in Int
    BY <1>1, <1>2, <2>1
  <2> QED
    BY <1>1, <1>3, <2>2, <2>3, <2>4
<1> QED
  BY <1>4, <1>5

\* following_planned names a position, paid later.
LEMMA FollowingFacts ==
    ASSUME NEW es, Plan(es), NEW at, Position(es, at)
    PROVE  /\ Position(es, Following(es, at))
           /\ Paid(es, at) < Paid(es, Following(es, at))
<1>1. /\ at \in [era : 1..Len(es), step : Nat] /\ at.era \in 1..Len(es) /\ at.step \in Nat
      /\ Len(es) \in Nat
      /\ at.era < Len(es) => at.step <= LastStep(es, at.era)
  BY PlanFacts DEF Position
<1>2. CASE at.era < Len(es) /\ at.step >= LastStep(es, at.era)
  <2>1. Following(es, at) = [era |-> at.era + 1, step |-> 0]
    BY <1>2 DEF Following
  <2>2. at.era + 1 \in 1..Len(es)
    BY <1>1, <1>2
  <2>3. at.era + 1 < Len(es) => LastStep(es, at.era + 1) \in Nat
    BY <2>2, LastStepFacts
  <2>4. Position(es, Following(es, at))
    BY <2>1, <2>2, <2>3 DEF Position
  <2>5. Payday(es[at.era], at.step) < FirstPayday(es[at.era + 1])
    BY <1>1, <1>2, PaidBefore
  <2> QED
    BY <2>1, <2>4, <2>5 DEF Paid, FirstPayday
<1>3. CASE ~(at.era < Len(es) /\ at.step >= LastStep(es, at.era))
  <2>1. Following(es, at) = [at EXCEPT !.step = @ + 1]
    BY <1>3 DEF Following
  <2>2. /\ Following(es, at) \in [era : 1..Len(es), step : Nat]
        /\ Following(es, at).era = at.era /\ Following(es, at).step = at.step + 1
    BY <1>1, <2>1
  <2>3. at.era < Len(es) => at.step + 1 <= LastStep(es, at.era)
    <3>1. SUFFICES ASSUME at.era < Len(es) PROVE at.step + 1 <= LastStep(es, at.era)
      OBVIOUS
    <3>2. LastStep(es, at.era) \in Nat
      BY <1>1, <3>1, LastStepFacts
    <3> QED
      BY <1>1, <1>3, <3>1, <3>2
  <2>4. Payday(es[at.era], at.step) < Payday(es[at.era], at.step + 1)
    <3>1. Sound(es[at.era]) /\ at.step \in Int
      BY <1>1, PlanFacts
    <3> QED
      BY <3>1, NextPaydayIsLater
  <2> QED
    BY <2>2, <2>3, <2>4 DEF Position, Paid
<1> QED
  BY <1>2, <1>3

\* matched_planned names a position from which the plan goes on after the day.
LEMMA MatchedFacts ==
    ASSUME NEW es, Plan(es), NEW day \in Int, FirstPayday(es[1]) <= day
    PROVE  /\ Position(es, Matched(es, day))
           /\ day < Paid(es, Following(es, Matched(es, day)))
           /\ Matched(es, day).era = 1 => EraAt(es, day) = 1
<1> DEFINE i == EraAt(es, day)
           k == MatchedStep(es[i], day)
<1>1. /\ i \in 1..Len(es) /\ Len(es) \in Nat
      /\ \A j \in 2..i : FirstPayday(es[j]) <= day
      /\ \A j \in 2..Len(es) : j > i => day < FirstPayday(es[j])
  BY EraAtFacts, PlanFacts
<1>2. Sound(es[i])
  BY <1>1, PlanFacts
<1>3. FirstPayday(es[i]) <= day
  <2>1. i = 1 \/ i \in 2..i
    BY <1>1
  <2> QED
    BY <1>1, <2>1
<1>4. k \in Nat /\ day < Payday(es[i], k + 1)
  BY <1>2, <1>3, MatchedStepFacts
<1>5. Matched(es, day) =
        IF i = Len(es) \/ k < LastStep(es, i) THEN [era |-> i, step |-> k]
        ELSE IF Distance(FirstPayday(es[i + 1]), day)
                  <= Distance(Payday(es[i], LastStep(es, i)), day)
             THEN [era |-> i + 1, step |-> 0]
             ELSE [era |-> i, step |-> LastStep(es, i)]
  BY DEF Matched
<1> HIDE DEF i, k
<1>6. CASE i = Len(es) \/ k < LastStep(es, i)
  <2>1. Matched(es, day) = [era |-> i, step |-> k]
    BY <1>5, <1>6
  <2>2. Position(es, Matched(es, day))
    <3>1. i < Len(es) => LastStep(es, i) \in Nat
      BY <1>1, LastStepFacts
    <3> QED
      BY <1>1, <1>4, <1>6, <2>1, <3>1 DEF Position
  <2>3. Following(es, Matched(es, day)) = [era |-> i, step |-> k + 1]
    <3>1. ~(i < Len(es) /\ k >= LastStep(es, i))
      <4>1. i < Len(es) => LastStep(es, i) \in Nat
        BY <1>1, LastStepFacts
      <4> QED
        BY <1>1, <1>4, <1>6, <4>1
    <3> QED
      BY <2>1, <3>1 DEF Following
  <2> QED
    BY <1>4, <2>1, <2>2, <2>3 DEF Paid, i
<1>7. CASE ~(i = Len(es) \/ k < LastStep(es, i))
  <2>1. i < Len(es) /\ i + 1 \in 1..Len(es) /\ i + 1 \in 2..Len(es) /\ i + 1 > i
    BY <1>1, <1>7
  <2>2. LastStep(es, i) \in Nat /\ day < FirstPayday(es[i + 1])
    BY <1>1, <2>1, LastStepFacts
  <2>3. CASE Matched(es, day) = [era |-> i + 1, step |-> 0]
    <3>1. i + 1 < Len(es) => LastStep(es, i + 1) \in Nat
      BY <2>1, LastStepFacts
    <3>2. Position(es, Matched(es, day))
      BY <2>1, <2>3, <3>1 DEF Position
    <3>3. Paid(es, Matched(es, day)) = FirstPayday(es[i + 1])
      BY <2>3 DEF Paid, FirstPayday
    <3>4. /\ Position(es, Following(es, Matched(es, day)))
          /\ FirstPayday(es[i + 1]) < Paid(es, Following(es, Matched(es, day)))
      BY <3>2, <3>3, FollowingFacts
    <3>5. Paid(es, Following(es, Matched(es, day))) \in Int /\ FirstPayday(es[i + 1]) \in Int
      BY <2>1, <3>4, PaidFacts, PlanFacts
    <3>6. Matched(es, day).era # 1
      BY <1>1, <2>3
    <3> QED
      BY <2>2, <3>2, <3>4, <3>5, <3>6
  <2>4. CASE Matched(es, day) = [era |-> i, step |-> LastStep(es, i)]
    <3>1. Position(es, Matched(es, day))
      BY <1>1, <2>2, <2>4 DEF Position
    <3>2. Following(es, Matched(es, day)) = [era |-> i + 1, step |-> 0]
      BY <2>1, <2>2, <2>4 DEF Following
    <3>3. Paid(es, Following(es, Matched(es, day))) = FirstPayday(es[i + 1])
      BY <3>2 DEF Paid, FirstPayday
    <3> QED
      BY <2>2, <2>4, <3>1, <3>3 DEF i
  <2> QED
    BY <1>5, <1>7, <2>3, <2>4
<1> QED
  BY <1>6, <1>7

(***************************************************************************)
(* The recursion of planned_paydays_after.                                 *)
(***************************************************************************)

PlanTable(es, day, n, at) ==
    at = [k \in 0..n |-> IF k = 0 THEN Matched(es, day) ELSE Following(es, at[k - 1])]

LEMMA PlanTableExists ==
    ASSUME NEW es, NEW day, NEW n \in Nat
    PROVE  \E at : PlanTable(es, day, n, at)
<1> DEFINE P == {m \in Nat : \E at : PlanTable(es, day, m, at)}
<1>1. 0 \in P
  <2>1. PlanTable(es, day, 0, [k \in 0..0 |-> Matched(es, day)])
    BY DEF PlanTable
  <2> QED
    BY <2>1
<1>2. ASSUME NEW m \in Nat, m \in P
      PROVE  m + 1 \in P
  <2>1. PICK at : PlanTable(es, day, m, at)
    BY <1>2
  <2> DEFINE more == [k \in 0..(m + 1) |-> IF k = m + 1 THEN Following(es, at[m]) ELSE at[k]]
  <2>2. ASSUME NEW k \in 0..(m + 1)
        PROVE  more[k] = IF k = 0 THEN Matched(es, day) ELSE Following(es, more[k - 1])
    <3>1. CASE k = m + 1
      <4>1. k # 0 /\ k - 1 = m /\ m \in 0..(m + 1) /\ m # m + 1
        BY <3>1
      <4>2. more[k] = Following(es, at[m]) /\ more[m] = at[m]
        BY <3>1, <4>1
      <4> QED
        BY <4>1, <4>2
    <3>2. CASE k # m + 1
      <4>1. k \in 0..m
        BY <3>2
      <4>2. more[k] = at[k]
        BY <3>2
      <4>3. at[k] = IF k = 0 THEN Matched(es, day) ELSE Following(es, at[k - 1])
        BY <2>1, <4>1, Zenon DEF PlanTable
      <4>4. k # 0 => more[k - 1] = at[k - 1]
        <5>1. k # 0 => k - 1 \in 0..(m + 1) /\ k - 1 # m + 1
          BY <4>1
        <5> QED
          BY <5>1
      <4> HIDE DEF more
      <4> QED BY <4>2, <4>3, <4>4
    <3> QED
      BY <3>1, <3>2
  <2>3. more = [k \in 0..(m + 1) |-> more[k]]
    OBVIOUS
  <2>4. PlanTable(es, day, m + 1, more)
    <3> HIDE DEF more
    <3> QED BY <2>2, <2>3 DEF PlanTable
  <2> QED
    BY <2>4
<1>3. n \in P
  <2>1. \A k \in 0..n : k # n /\ k \in P => k + 1 \in P
    BY <1>2
  <2> HIDE DEF P
  <2> QED BY <1>1, <2>1, UpTo
<1>4. \E at : PlanTable(es, day, n, at)
  BY <1>3, Zenon
<1> QED
  BY <1>4

\* Every planned payday after a day is one the plan pays, and is after it.
LEMMA PlannedFacts ==
    ASSUME NEW es, Plan(es), NEW day \in Int, FirstPayday(es[1]) <= day, NEW n \in Nat, n > 0
    PROVE  /\ PlannedAfter(es, day, n) \in Int
           /\ day < PlannedAfter(es, day, n)
           /\ \E at : Position(es, at) /\ PlannedAfter(es, day, n) = Paid(es, at)
<1> DEFINE at == CHOOSE f : PlanTable(es, day, n, f)
           P == {k \in 0..n : Position(es, at[k]) /\ (k # 0 => day < Paid(es, at[k]))}
<1>1. PlanTable(es, day, n, at)
  <2>1. \E f : PlanTable(es, day, n, f)
    BY PlanTableExists
  <2> QED
    BY <2>1, Zenon
<1>2. PlannedAfter(es, day, n) = Paid(es, at[n])
  BY DEF PlannedAfter, PlanTable, Paid
<1> HIDE DEF at
<1>3. \A k \in 0..n : at[k] = IF k = 0 THEN Matched(es, day) ELSE Following(es, at[k - 1])
  BY <1>1, Zenon DEF PlanTable
<1>4. at[0] = Matched(es, day) /\ 0 \in 0..n
  BY <1>3
<1>5. Position(es, at[0]) /\ day < Paid(es, Following(es, at[0]))
  BY <1>4, MatchedFacts
<1>6. 0 \in P
  BY <1>4, <1>5
<1>7. ASSUME NEW k \in 0..n, k # n, k \in P
      PROVE  k + 1 \in P
  <2>1. k + 1 \in 0..n /\ k + 1 # 0 /\ (k + 1) - 1 = k
    BY <1>7
  <2>2. at[k + 1] = Following(es, at[k])
    BY <1>3, <2>1
  <2>3. Position(es, at[k])
    BY <1>7
  <2>4. Position(es, at[k + 1]) /\ Paid(es, at[k]) < Paid(es, at[k + 1])
    BY <2>2, <2>3, FollowingFacts
  <2>5. day < Paid(es, at[k + 1])
    <3>1. CASE k = 0
      BY <1>5, <2>2, <3>1
    <3>2. CASE k # 0
      <4>1. day < Paid(es, at[k])
        BY <1>7, <3>2
      <4>2. Paid(es, at[k]) \in Int /\ Paid(es, at[k + 1]) \in Int
        BY <2>3, <2>4, PaidFacts
      <4> QED
        BY <2>4, <4>1, <4>2
    <3> QED
      BY <3>1, <3>2
  <2> QED
    BY <2>1, <2>4, <2>5
<1>8. n \in P
  <2> HIDE DEF P
  <2>1. \A k \in 0..n : k # n /\ k \in P => k + 1 \in P
    BY <1>7
  <2>2. n \in 0..n
    OBVIOUS
  <2> QED BY <1>6, <2>1, <2>2, UpTo
<1>9. Position(es, at[n]) /\ day < Paid(es, at[n])
  BY <1>8
<1> QED
  BY <1>2, <1>9, PaidFacts

\* The first payday planned after a day.
LEMMA NextPlanned ==
    ASSUME NEW es, NEW day
    PROVE  PaydayAfter(es, day) = Paid(es, Following(es, Matched(es, day)))
<1> DEFINE at == CHOOSE f : PlanTable(es, day, 1, f)
<1>1. PlanTable(es, day, 1, at)
  <2>1. \E f : PlanTable(es, day, 1, f)
    BY PlanTableExists
  <2> QED
    BY <2>1, Zenon
<1>2. PlannedAfter(es, day, 1) = Paid(es, at[1])
  BY DEF PlannedAfter, PlanTable, Paid
<1> HIDE DEF at
<1>3. at = [k \in 0..1 |-> IF k = 0 THEN Matched(es, day) ELSE Following(es, at[k - 1])]
  BY <1>1 DEF PlanTable
<1>4. at[0] = Matched(es, day)
  <2>1. 0 \in 0..1
    OBVIOUS
  <2> QED
    BY <1>3, <2>1, Zenon
<1>5. at[1] = Following(es, at[0])
  <2>1. 1 \in 0..1 /\ 1 # 0 /\ 1 - 1 = 0
    OBVIOUS
  <2> QED
    BY <1>3, <2>1, Zenon
<1> QED
  BY <1>2, <1>4, <1>5 DEF PaydayAfter

(***************************************************************************)
(* The earliest era.                                                       *)
(***************************************************************************)

\* A step of the earliest era that no later era replaces.
FirstStep(es, k) == k \in Nat /\ (1 < Len(es) => k <= LastStep(es, 1))

\* The payday of such a step is matched back to it.
LEMMA MatchedInFirst ==
    ASSUME NEW es, Plan(es), NEW k, FirstStep(es, k)
    PROVE  Matched(es, Payday(es[1], k)) = [era |-> 1, step |-> k]
<1> DEFINE day == Payday(es[1], k)
<1>1. /\ Len(es) \in Nat /\ 1 \in 1..Len(es) /\ Sound(es[1]) /\ k \in Nat /\ k \in Int
      /\ 1 < Len(es) => k <= LastStep(es, 1) /\ LastStep(es, 1) \in Nat
  BY PlanFacts, LastStepFacts DEF FirstStep
<1>2. day \in Int /\ MatchedStep(es[1], day) = k
  <2>1. day \in Int
    BY <1>1, PaydayFacts
  <2> QED
    BY <1>1, <2>1, MatchedStepFacts
<1>3. 1 < Len(es) => day < FirstPayday(es[2])
  <2>1. 1 + 1 = 2
    OBVIOUS
  <2> QED
    BY <1>1, <2>1, PaidBefore
<1>4. EraAt(es, day) = 1
  <2> DEFINE i == EraAt(es, day)
  <2>1. i \in 1..Len(es) /\ \A j \in 2..i : FirstPayday(es[j]) <= day
    BY <1>2, EraAtFacts
  <2> HIDE DEF i, day
  <2>2. CASE i # 1
    <3>1. 2 \in 2..i /\ 1 < Len(es) /\ 2 \in 1..Len(es)
      BY <1>1, <2>1, <2>2
    <3>2. FirstPayday(es[2]) <= day /\ FirstPayday(es[2]) \in Int
      BY <2>1, <3>1, PlanFacts
    <3> QED
      BY <1>2, <1>3, <3>1, <3>2
  <2> QED
    BY <2>2 DEF i
<1>5. Matched(es, day) =
        IF 1 = Len(es) \/ k < LastStep(es, 1) THEN [era |-> 1, step |-> k]
        ELSE IF Distance(FirstPayday(es[2]), day)
                  <= Distance(Payday(es[1], LastStep(es, 1)), day)
             THEN [era |-> 2, step |-> 0]
             ELSE [era |-> 1, step |-> LastStep(es, 1)]
  <2> HIDE DEF day
  <2>1. 1 + 1 = 2
    OBVIOUS
  <2> QED
    BY <1>2, <1>4, <2>1 DEF Matched
<1>6. CASE 1 = Len(es) \/ k < LastStep(es, 1)
  BY <1>5, <1>6
<1>7. CASE ~(1 = Len(es) \/ k < LastStep(es, 1))
  <2>1. 1 < Len(es) /\ k = LastStep(es, 1) /\ 2 \in 1..Len(es)
    <3>1. 1 < Len(es) /\ 2 \in 1..Len(es) /\ ~(k < LastStep(es, 1))
      BY <1>1, <1>7
    <3>2. k \in Nat /\ LastStep(es, 1) \in Nat /\ k <= LastStep(es, 1)
      BY <1>1, <3>1
    <3> QED
      BY <3>1, <3>2
  <2>2. FirstPayday(es[2]) \in Int
    BY <2>1, PlanFacts
  <2>3. Distance(Payday(es[1], LastStep(es, 1)), day) = 0
    BY <1>2, <2>1, DistanceFacts
  <2>4. Distance(FirstPayday(es[2]), day) \in Nat /\ Distance(FirstPayday(es[2]), day) # 0
    <3>1. FirstPayday(es[2]) # day
      BY <1>2, <1>3, <2>1, <2>2
    <3> HIDE DEF day
    <3> QED BY <1>2, <2>2, <3>1, DistanceFacts, Zenon
  <2>5. ~(Distance(FirstPayday(es[2]), day) <= Distance(Payday(es[1], LastStep(es, 1)), day))
    BY <2>3, <2>4
  <2> QED
    BY <1>5, <1>7, <2>1, <2>5
<1> QED
  BY <1>6, <1>7

\* After it the plan pays no sooner than the step that follows in the grid.
LEMMA AfterFirst ==
    ASSUME NEW es, Plan(es), NEW k, FirstStep(es, k)
    PROVE  Payday(es[1], k + 1) <= PaydayAfter(es, Payday(es[1], k))
<1>1. /\ Len(es) \in Nat /\ 1 \in 1..Len(es) /\ Sound(es[1]) /\ k \in Nat /\ k + 1 \in Int
      /\ 1 < Len(es) => k <= LastStep(es, 1) /\ LastStep(es, 1) \in Nat
  BY PlanFacts, LastStepFacts DEF FirstStep
<1> DEFINE at == [era |-> 1, step |-> k]
<1>2. PaydayAfter(es, Payday(es[1], k)) = Paid(es, Following(es, at))
  BY NextPlanned, MatchedInFirst
<1>3. Payday(es[1], k + 1) \in Int
  BY <1>1, PaydayFacts
<1>4. CASE 1 < Len(es) /\ k >= LastStep(es, 1)
  <2>1. Following(es, at) = [era |-> 2, step |-> 0]
    BY <1>4 DEF Following
  <2>2. Paid(es, Following(es, at)) = FirstPayday(es[2])
    BY <2>1 DEF Paid, FirstPayday
  <2>3. k + 1 <= LastStep(es, 1) + 1
    BY <1>1, <1>4
  <2>4. Payday(es[1], k + 1) <= FirstPayday(es[1 + 1])
    BY <1>1, <1>4, <2>3, PaidBefore
  <2>5. 1 + 1 = 2
    OBVIOUS
  <2> QED
    BY <1>2, <2>2, <2>4, <2>5
<1>5. CASE ~(1 < Len(es) /\ k >= LastStep(es, 1))
  <2>1. Following(es, at) = [era |-> 1, step |-> k + 1]
    BY <1>5 DEF Following
  <2> QED
    BY <1>2, <1>3, <2>1 DEF Paid
<1> QED
  BY <1>4, <1>5

\* Moving the phase of the earliest era renumbers its steps and nothing else.
LEMMA RephasedFacts ==
    ASSUME NEW es, Plan(es), NEW k \in Int
    PROVE  LET moved == Rephased(es, k)
           IN  /\ moved \in Seq(EraType) /\ Len(moved) = Len(es)
               /\ \A i \in 1..Len(es) : Sound(moved[i]) /\ (i # 1 => moved[i] = es[i])
               /\ moved[1] = [es[1] EXCEPT !.from = Nominal(es[1], k)]
               /\ \A j \in Int : Payday(moved[1], j) = Payday(es[1], j + k)
               /\ 1 < Len(es) => LastStep(moved, 1) = LastStep(es, 1) - k
               /\ \A i \in 2..(Len(es) - 1) : LastStep(moved, i) = LastStep(es, i)
<1> DEFINE moved == Rephased(es, k)
<1>1. /\ es \in Seq(EraType) /\ Len(es) \in Nat /\ 1 \in 1..Len(es) /\ DOMAIN es = 1..Len(es)
      /\ \A i \in 1..Len(es) : Sound(es[i])
  BY PlanFacts DEF Plan
<1>2. moved = [es EXCEPT ![1] = [es[1] EXCEPT !.from = Nominal(es[1], k)]]
  BY <1>1 DEF Rephased, Nominal
<1>3. /\ es[1] \in EraType /\ es[1].gap \in Nat /\ es[1].from \in Int
      /\ Nominal(es[1], k) \in Int
  <2>1. es[1] \in EraType
    BY <1>1 DEF Sound
  <2> QED
    BY <2>1, NominalFacts
<1>4. moved[1] = [es[1] EXCEPT !.from = Nominal(es[1], k)]
      /\ \A i \in 1..Len(es) : i # 1 => moved[i] = es[i]
  BY <1>1, <1>2
<1>5. moved[1].gap = es[1].gap /\ moved[1].shift = es[1].shift
      /\ moved[1].from = Nominal(es[1], k) /\ moved[1] \in EraType
  BY <1>3, <1>4 DEF EraType
<1>6. Sound(moved[1])
  BY <1>1, <1>5 DEF Sound
<1>7. moved \in Seq(EraType) /\ Len(moved) = Len(es)
  <2>1. DOMAIN moved = 1..Len(es)
    BY <1>1, <1>2
  <2>2. \A i \in 1..Len(es) : moved[i] \in EraType
    BY <1>1, <1>4, <1>5 DEF Sound
  <2> QED
    BY <1>1, <1>2, <1>5
<1> HIDE DEF moved
<1>8. ASSUME NEW j \in Int
      PROVE  Payday(moved[1], j) = Payday(es[1], j + k)
  <2>1. Nominal(es[1], k) + j * es[1].gap = es[1].from + (j + k) * es[1].gap
    <3>1. (j + k) * es[1].gap = j * es[1].gap + k * es[1].gap
          /\ j * es[1].gap \in Int /\ k * es[1].gap \in Int
      BY <1>3
    <3> QED
      BY <1>3, <3>1 DEF Nominal
  <2> QED
    BY <1>5, <2>1 DEF Payday
<1>9. ASSUME 1 < Len(es)
      PROVE  LastStep(moved, 1) = LastStep(es, 1) - k
  <2>1. moved[1 + 1] = es[1 + 1] /\ 1 + 1 \in 1..Len(es)
    BY <1>1, <1>4, <1>9
  <2> DEFINE day == FirstPayday(es[1 + 1])
             a == StepAfter(es[1], day)
             b == StepAfter(moved[1], day)
  <2>2. day \in Int
    BY <2>1, PlanFacts
  <2> HIDE DEF day
  <2>3. a \in Int /\ \A j \in Int : day < Payday(es[1], j) <=> a <= j
    BY <1>1, <2>2, StepAfterFacts
  <2>4. b \in Int /\ \A j \in Int : day < Payday(moved[1], j) <=> b <= j
    BY <1>6, <2>2, StepAfterFacts
  <2> HIDE DEF a, b
  <2>5. \A j \in Int : a <= j + k <=> b <= j
    <3>1. \A j \in Int : j + k \in Int
      OBVIOUS
    <3> QED
      BY <1>8, <2>3, <2>4, <3>1
  <2>6. a - k \in Int /\ (a - k) + k = a /\ a <= a /\ b <= b
    BY <2>3, <2>4
  <2>7. b <= a - k
    BY <2>3, <2>5, <2>6
  <2>8. a <= b + k
    BY <2>4, <2>5, <2>6
  <2>9. b = a - k
    BY <2>3, <2>4, <2>7, <2>8
  <2>10. LastStep(es, 1) = a - 2 /\ LastStep(moved, 1) = b - 2
    BY <2>1 DEF LastStep, a, b, day
  <2> QED
    BY <2>3, <2>9, <2>10
<1>10. ASSUME NEW i \in 2..(Len(es) - 1)
       PROVE  LastStep(moved, i) = LastStep(es, i)
  <2>1. i \in 1..Len(es) /\ i + 1 \in 1..Len(es) /\ i # 1 /\ i + 1 # 1
    BY <1>1
  <2> QED
    BY <1>4, <2>1 DEF LastStep
<1>11. \A i \in 1..Len(es) : Sound(moved[i])
  <2>1. ASSUME NEW i \in 1..Len(es) PROVE Sound(moved[i])
    BY <1>1, <1>4, <1>6
  <2> QED
    BY <2>1
<1> QED
  BY <1>4, <1>7, <1>8, <1>9, <1>10, <1>11 DEF moved

\* Moved down, the eras stay readable.
LEMMA MovedDown ==
    ASSUME NEW es, Plan(es), NEW k \in Int, k <= 0
    PROVE  Plan(Rephased(es, k))
<1> DEFINE moved == Rephased(es, k)
<1>1. /\ moved \in Seq(EraType) /\ Len(moved) = Len(es)
      /\ \A i \in 1..Len(es) : Sound(moved[i]) /\ (i # 1 => moved[i] = es[i])
      /\ moved[1] = [es[1] EXCEPT !.from = Nominal(es[1], k)]
      /\ 1 < Len(es) => LastStep(moved, 1) = LastStep(es, 1) - k
      /\ \A i \in 2..(Len(es) - 1) : LastStep(moved, i) = LastStep(es, i)
  BY RephasedFacts
<1>2. Len(es) \in Nat /\ Len(es) >= 1 /\ 1 \in 1..Len(es) /\ es[1] \in EraType
  BY PlanFacts DEF Plan
<1> HIDE DEF moved
<1>3. Nominal(es[1], k) <= es[1].from /\ Nominal(es[1], k) \in Int /\ es[1].from \in Int
      /\ moved[1].from = Nominal(es[1], k)
  <2>1. Nominal(es[1], k) <= Nominal(es[1], 0)
    BY <1>2, NominalAscends
  <2>2. Nominal(es[1], 0) = es[1].from /\ es[1].from \in Int
    <3>1. es[1].gap \in Nat /\ es[1].from \in Int
      BY <1>2, NominalFacts
    <3>2. 0 * es[1].gap = 0
      BY <3>1
    <3> QED
      BY <3>1, <3>2 DEF Nominal
  <2>3. Nominal(es[1], k) \in Int
    BY <1>2, NominalFacts
  <2> QED
    BY <1>1, <1>2, <2>1, <2>2, <2>3 DEF EraType
<1>4. ASSUME NEW i \in 1..(Len(es) - 1)
      PROVE  moved[i].from < moved[i + 1].from /\ LastStep(moved, i) >= 0
  <2>1. /\ i \in 1..Len(es) /\ i + 1 \in 1..Len(es) /\ i + 1 # 1 /\ i < Len(es)
        /\ i = 1 \/ i \in 2..(Len(es) - 1)
    BY <1>2
  <2>2. LastStep(es, i) \in Nat /\ es[i].from < es[i + 1].from
        /\ es[i].from \in Int /\ es[i + 1].from \in Int
    BY <2>1, LastStepFacts, PlanFacts DEF Plan, Readable, EraType
  <2>3. moved[i + 1] = es[i + 1]
    BY <1>1, <2>1
  <2>4. CASE i = 1
    <3>1. LastStep(moved, 1) = LastStep(es, 1) - k /\ LastStep(es, 1) \in Nat
      BY <1>1, <2>1, <2>2, <2>4
    <3>2. LastStep(moved, 1) >= 0
      BY <3>1
    <3>3. moved[1].from < moved[1 + 1].from
      <4>1. moved[1 + 1] = es[1 + 1] /\ es[1].from < es[1 + 1].from /\ es[1 + 1].from \in Int
        BY <2>2, <2>3, <2>4
      <4> QED
        BY <1>3, <4>1
    <3> QED
      BY <2>4, <3>2, <3>3
  <2>5. CASE i # 1
    BY <1>1, <2>1, <2>2, <2>3, <2>5
  <2> QED
    BY <2>4, <2>5
<1>5. Readable(moved)
  BY <1>1, <1>4 DEF Readable
<1> QED
  BY <1>1, <1>2, <1>5 DEF Plan, moved

(***************************************************************************)
(* Eras as they are read back.                                             *)
(***************************************************************************)

\* A sequence in the order its eras take effect is the one read back.
LEMMA ReadBack ==
    ASSUME NEW f \in Seq(EraType),
           \A i, j \in 1..Len(f) : i < j => f[i].from < f[j].from
    PROVE  ByDay({f[i] : i \in 1..Len(f)}) = f
<1> DEFINE n == Len(f)
           S == {f[i] : i \in 1..n}
           upTo(i) == {f[j] : j \in 1..i}
           rank(e) == Cardinality({d \in S : d.from <= e.from})
<1>1. n \in Nat /\ f = [i \in 1..n |-> f[i]] /\ \A i \in 1..n : f[i] \in EraType /\ f[i].from \in Int
  <2>1. n \in Nat /\ \A i \in 1..n : f[i] \in EraType
    OBVIOUS
  <2>2. f = [i \in 1..n |-> f[i]]
    OBVIOUS
  <2>3. \A i \in 1..n : f[i].from \in Int
    BY <2>1 DEF EraType
  <2> QED
    BY <2>1, <2>2, <2>3
<1>2. ASSUME NEW i \in 0..n
      PROVE  Cardinality(upTo(i)) = i
  <2> DEFINE g == [j \in 1..i |-> f[j]]
  <2>1. i \in Nat /\ 1..i \subseteq 1..n
    BY <1>1, <1>2
  <2>2. g \in [1..i -> upTo(i)]
    OBVIOUS
  <2>3. ASSUME NEW a \in 1..i, NEW b \in 1..i, g[a] = g[b]
        PROVE  a = b
    <3>1. f[a] = f[b] /\ a \in 1..n /\ b \in 1..n
      BY <2>1, <2>3
    <3>2. ~(a < b) /\ ~(b < a)
      <4>1. f[a].from \in Int /\ f[b].from \in Int /\ f[a].from = f[b].from
        BY <1>1, <3>1
      <4>2. a < b => f[a].from < f[b].from
        BY <3>1
      <4>3. b < a => f[b].from < f[a].from
        BY <3>1
      <4> QED
        BY <4>1, <4>2, <4>3
    <3> QED
      BY <3>2
  <2>4. \A t \in upTo(i) : \E a \in 1..i : g[a] = t
    OBVIOUS
  <2>5. g \in Bijection(1..i, upTo(i))
    <3> HIDE DEF g
    <3> QED BY <2>2, <2>3, <2>4 DEF Bijection, Injection, Surjection, IsInjective
  <2>6. ExistsBijection(1..i, upTo(i))
    BY <2>5 DEF ExistsBijection
  <2> HIDE DEF upTo
  <2> QED
    BY <2>1, <2>6, FS_CountingElements
<1>3. ASSUME NEW i \in 1..n
      PROVE  rank(f[i]) = i
  <2>1. {d \in S : d.from <= f[i].from} = upTo(i)
    <3>1. ASSUME NEW j \in 1..n
          PROVE  f[j].from <= f[i].from <=> j \in 1..i
      <4>1. f[i].from \in Int /\ f[j].from \in Int
        BY <1>1
      <4>2. i < j => f[i].from < f[j].from
        OBVIOUS
      <4>3. j < i => f[j].from < f[i].from
        OBVIOUS
      <4>4. i = j => f[i].from = f[j].from
        OBVIOUS
      <4>5. j \in 1..i <=> j <= i
        BY <1>1
      <4>6. i < j \/ j < i \/ i = j
        BY <1>1
      <4> QED
        BY <1>1, <4>1, <4>2, <4>3, <4>4, <4>5, <4>6
    <3>2. 1..i \subseteq 1..n
      BY <1>1
    <3> QED
      BY <3>1, <3>2
  <2>2. i \in 0..n
    BY <1>1
  <2> QED
    BY <1>2, <2>1, <2>2
<1>4. Cardinality(S) = n
  <2>1. n \in 0..n /\ S = upTo(n)
    BY <1>1
  <2> HIDE DEF S, upTo
  <2> QED BY <1>2, <2>1
<1>5. ASSUME NEW i \in 1..n
      PROVE  (CHOOSE e \in S : rank(e) = i) = f[i]
  <2> DEFINE c == CHOOSE e \in S : rank(e) = i
  <2>1. f[i] \in S /\ rank(f[i]) = i
    BY <1>3
  <2>2. c \in S /\ rank(c) = i
    <3> HIDE DEF S, rank
    <3> QED BY <2>1, Zenon
  <2>3. PICK j \in 1..n : c = f[j]
    <3> HIDE DEF c
    <3> QED BY <2>2
  <2>4. j = i
    <3> HIDE DEF c, rank, S
    <3> QED BY <1>3, <2>2, <2>3
  <2> QED
    BY <2>3, <2>4
<1>6. ByDay(S) = [i \in 1..n |-> CHOOSE e \in S : rank(e) = i]
  <2> HIDE DEF S
  <2> QED BY <1>4 DEF ByDay
<1>7. [i \in 1..n |-> CHOOSE e \in S : rank(e) = i] = [i \in 1..n |-> f[i]]
  <2> HIDE DEF S, rank
  <2> QED BY <1>5
<1> QED
  BY <1>1, <1>6, <1>7

\* eras_describing keeps the eras that have paid by the last payday kept, and
\* they read as they did.
LEMMA StandingFacts ==
    ASSUME NEW es, Plan(es), NEW kept \in SUBSET Int, IsFiniteSet(kept), kept # {}
    PROVE  LET st == ErasStanding(es, kept)
               m == EraAt(es, Latest(kept))
           IN  /\ m \in 1..Len(es) /\ Len(st) = m /\ \A i \in 1..m : st[i] = es[i]
               /\ Plan(st)
               /\ \A i \in 1..m : i < m => LastStep(st, i) = LastStep(es, i)
<1> DEFINE day == Latest(kept)
           m == EraAt(es, day)
           st == [i \in 1..m |-> es[i]]
           S == {es[i] : i \in {j \in DOMAIN es : j = 1 \/ FirstPayday(es[j]) <= day}}
<1>1. day \in Int
  BY MaxFacts DEF Latest
<1>2. /\ m \in 1..Len(es)
      /\ \A j \in 2..m : FirstPayday(es[j]) <= day
      /\ \A j \in 2..Len(es) : j > m => day < FirstPayday(es[j])
  BY <1>1, EraAtFacts
<1>3. /\ Len(es) \in Nat /\ 1 \in 1..Len(es) /\ DOMAIN es = 1..Len(es)
      /\ \A i \in 1..Len(es) : Sound(es[i]) /\ es[i] \in EraType /\ FirstPayday(es[i]) \in Int
  BY PlanFacts
<1>4. ErasStanding(es, kept) = ByDay(S)
  BY DEF ErasStanding
<1> HIDE DEF m, day
<1>5. st \in Seq(EraType) /\ Len(st) = m /\ m \in Nat /\ 1..m \subseteq 1..Len(es)
      /\ \A i \in 1..m : st[i] = es[i]
  BY <1>2, <1>3
<1>6. S = {st[i] : i \in 1..m}
  <2>1. ASSUME NEW j \in 1..Len(es)
        PROVE  (j = 1 \/ FirstPayday(es[j]) <= day) <=> j \in 1..m
    <3>1. j = 1 \/ j \in 2..m \/ (j \in 2..Len(es) /\ j > m)
      BY <1>2, <1>3
    <3>2. CASE j = 1
      BY <1>2, <1>3, <3>2
    <3>3. CASE j \in 2..m
      BY <1>2, <3>3
    <3>4. CASE j \in 2..Len(es) /\ j > m
      <4>1. day < FirstPayday(es[j]) /\ FirstPayday(es[j]) \in Int /\ j # 1
        BY <1>2, <1>3, <3>4
      <4> QED
        BY <1>1, <1>2, <3>4, <4>1
    <3> QED
      BY <3>1, <3>2, <3>3, <3>4
  <2>2. {j \in DOMAIN es : j = 1 \/ FirstPayday(es[j]) <= day} = 1..m
    BY <1>3, <1>5, <2>1
  <2>3. S = {es[i] : i \in 1..m}
    BY <2>2
  <2> HIDE DEF S, st
  <2> QED BY <1>5, <2>3
<1>7. ASSUME NEW i \in 1..m, NEW j \in 1..m, i < j
      PROVE  st[i].from < st[j].from
  BY <1>5, <1>7, ErasAscend
<1> HIDE DEF st, S
<1>8. ErasStanding(es, kept) = st
  BY <1>4, <1>5, <1>6, <1>7, ReadBack
<1>9. ASSUME NEW i \in 1..m, i < m
      PROVE  i + 1 \in 1..m /\ LastStep(st, i) = LastStep(es, i)
  <2>1. i + 1 \in 1..m
    BY <1>5, <1>9
  <2> QED
    BY <1>5, <2>1 DEF LastStep
<1>10. Plan(st)
  <2>1. ASSUME NEW i \in 1..(Len(st) - 1)
        PROVE  st[i].from < st[i + 1].from /\ LastStep(st, i) >= 0
    <3>1. i \in 1..m /\ i < m /\ i + 1 \in 1..m /\ i < i + 1 /\ i \in 1..Len(es) /\ i < Len(es)
      BY <1>2, <1>3, <1>5
    <3>2. LastStep(es, i) \in Nat
      BY <3>1, LastStepFacts
    <3> QED
      BY <1>7, <1>9, <3>1, <3>2
  <2>2. Readable(st)
    BY <2>1 DEF Readable
  <2>3. \A i \in 1..Len(st) : Sound(st[i])
    BY <1>3, <1>5
  <2>4. Len(st) >= 1
    BY <1>2, <1>5
  <2> QED
    BY <1>5, <2>2, <2>3, <2>4 DEF Plan
<1> QED
  BY <1>2, <1>5, <1>8, <1>9, <1>10 DEF m, day

\* mint_era, when the eras it leaves can be read: an era that first pays after
\* the others is the last of them.
LEMMA MintedFacts ==
    ASSUME NEW st, Plan(st), NEW era, Sound(era),
           \A i \in 1..Len(st) : st[i].from # era.from /\ FirstPayday(st[i]) < FirstPayday(era),
           Readable(Minted(st, era))
    PROVE  Minted(st, era) = Append(st, era)
<1> DEFINE m == Len(st)
           Below == {0} \cup {i \in 1..m : st[i].from < era.from}
           r == Max(Below)
           f == [j \in 1..(m + 1) |-> IF j <= r THEN st[j] ELSE IF j = r + 1 THEN era ELSE st[j - 1]]
<1>1. /\ m \in Nat /\ DOMAIN st = 1..m /\ st \in Seq(EraType)
      /\ \A i \in 1..m : Sound(st[i]) /\ st[i] \in EraType /\ st[i].from \in Int
                         /\ FirstPayday(st[i]) \in Int
  BY PlanFacts DEF EraType, Plan
<1>2. era \in EraType /\ era.from \in Int /\ FirstPayday(era) \in Int
  BY PaydayFacts DEF Sound, EraType, FirstPayday
<1>3. r \in Below /\ r \in Int /\ \A y \in Below : y <= r
  <2>1. Below \subseteq 0..m /\ Below # {} /\ 0 \in Int /\ m \in Int
    BY <1>1
  <2> HIDE DEF Below
  <2>2. IsFiniteSet(Below) /\ Below \subseteq Int
    BY <2>1, SpanFinite, Zenon
  <2> QED
    BY <2>1, <2>2, MaxFacts
<1>4. r \in 0..m
  BY <1>1, <1>3
<1>5. \A i \in 1..m : i > r => era.from < st[i].from
  <2>1. ASSUME NEW i \in 1..m, i > r PROVE era.from < st[i].from
    <3>1. ~(st[i].from < era.from)
      <4>1. i \notin Below
        <5> HIDE DEF Below, r
        <5> QED BY <1>1, <1>3, <2>1
      <4> QED
        BY <4>1
    <3> QED
      BY <1>1, <1>2, <3>1
  <2> QED
    BY <2>1
<1>6. \A i \in 1..m : i <= r => st[i].from < era.from
  <2>1. ASSUME NEW i \in 1..m, i <= r PROVE st[i].from < era.from
    <3>1. r \in 1..m /\ st[r].from < era.from
      <4>1. r # 0
        BY <1>4, <2>1
      <4> QED
        BY <1>3, <4>1
    <3>2. CASE i = r
      BY <3>1, <3>2
    <3>3. CASE i # r
      <4>1. i < r
        BY <1>4, <2>1, <3>3
      <4>2. st[i].from < st[r].from
        BY <3>1, <4>1, ErasAscend
      <4> QED
        BY <1>1, <1>2, <3>1, <4>2
    <3> QED
      BY <3>2, <3>3
  <2> QED
    BY <2>1
<1> HIDE DEF r
<1>7. \A j \in 1..(m + 1) :
          /\ j <= r => j \in 1..m /\ f[j] = st[j]
          /\ j = r + 1 => f[j] = era
          /\ j > r + 1 => j - 1 \in 1..m /\ f[j] = st[j - 1]
  BY <1>1, <1>4
<1>8. f \in Seq(EraType) /\ Len(f) = m + 1
  <2>1. \A j \in 1..(m + 1) : f[j] \in EraType
    <3>1. ASSUME NEW j \in 1..(m + 1) PROVE f[j] \in EraType
      <4>1. j <= r \/ j = r + 1 \/ j > r + 1
        BY <1>4
      <4> HIDE DEF f
      <4> QED BY <1>1, <1>2, <1>7, <4>1
    <3> QED
      BY <3>1
  <2> QED
    BY <1>1, <2>1
<1> HIDE DEF f
<1>9. ASSUME NEW i \in 1..(m + 1), NEW j \in 1..(m + 1), i < j
      PROVE  f[i].from < f[j].from
  <2>1. CASE j <= r
    <3>1. i <= r /\ i \in 1..m /\ j \in 1..m /\ f[i] = st[i] /\ f[j] = st[j]
      BY <1>4, <1>7, <1>9, <2>1
    <3> QED
      BY <1>9, <3>1, ErasAscend
  <2>2. CASE j = r + 1
    <3>1. i <= r /\ i \in 1..m /\ f[i] = st[i] /\ f[j] = era
      BY <1>4, <1>7, <1>9, <2>2
    <3> QED
      BY <1>6, <3>1
  <2>3. CASE j > r + 1
    <3>1. j - 1 \in 1..m /\ f[j] = st[j - 1] /\ j - 1 > r
      BY <1>4, <1>7, <2>3
    <3>2. CASE i <= r
      <4>1. i \in 1..m /\ f[i] = st[i]
        BY <1>7, <3>2
      <4>2. st[i].from < era.from /\ era.from < st[j - 1].from
        BY <1>5, <1>6, <3>1, <3>2, <4>1
      <4> QED
        BY <1>1, <1>2, <3>1, <4>1, <4>2
    <3>3. CASE i = r + 1
      BY <1>5, <1>7, <3>1, <3>3
    <3>4. CASE i > r + 1
      <4>1. i - 1 \in 1..m /\ f[i] = st[i - 1] /\ i - 1 < j - 1
        BY <1>7, <1>9, <3>4
      <4> QED
        BY <3>1, <4>1, ErasAscend
    <3> QED
      BY <1>4, <3>2, <3>3, <3>4
  <2> QED
    BY <1>4, <2>1, <2>2, <2>3
<1> DEFINE S == {st[i] : i \in {j \in DOMAIN st : st[j].from # era.from}} \cup {era}
<1>10. S = {f[i] : i \in 1..(m + 1)}
  <2>1. S = {st[i] : i \in 1..m} \cup {era}
    <3>1. {j \in DOMAIN st : st[j].from # era.from} = 1..m
      BY <1>1
    <3> QED
      BY <3>1
  <2>2. ASSUME NEW i \in 1..m PROVE \E j \in 1..(m + 1) : f[j] = st[i]
    <3>1. CASE i <= r
      <4>1. i \in 1..(m + 1)
        BY <1>1
      <4> QED
        BY <1>7, <3>1, <4>1
    <3>2. CASE i > r
      <4>1. i + 1 \in 1..(m + 1) /\ i + 1 > r + 1 /\ (i + 1) - 1 = i
        BY <1>1, <1>4, <3>2
      <4>2. f[i + 1] = st[i]
        BY <1>7, <4>1
      <4> QED
        BY <4>1, <4>2
    <3> QED
      BY <1>4, <3>1, <3>2
  <2>3. r + 1 \in 1..(m + 1) /\ f[r + 1] = era
    BY <1>1, <1>4, <1>7
  <2>4. ASSUME NEW j \in 1..(m + 1) PROVE f[j] = era \/ \E i \in 1..m : f[j] = st[i]
    <3>1. j <= r \/ j = r + 1 \/ j > r + 1
      BY <1>4
    <3> QED
      BY <1>7, <3>1
  <2> HIDE DEF S
  <2>5. S \subseteq {f[i] : i \in 1..(m + 1)}
    BY <2>1, <2>2, <2>3
  <2>6. {f[i] : i \in 1..(m + 1)} \subseteq S
    BY <2>1, <2>4
  <2> QED
    BY <2>5, <2>6
<1>11. Minted(st, era) = f
  <2>1. Minted(st, era) = ByDay(S)
    BY DEF Minted
  <2> HIDE DEF S
  <2>2. S = {f[i] : i \in 1..Len(f)}
    BY <1>8, <1>10
  <2>3. \A i, j \in 1..Len(f) : i < j => f[i].from < f[j].from
    BY <1>8, <1>9
  <2>4. ByDay({f[i] : i \in 1..Len(f)}) = f
    BY <1>8, <2>3, ReadBack
  <2> QED
    BY <2>1, <2>2, <2>4
<1>12. Plan(f)
  <2>1. ASSUME NEW j \in 1..(m + 1) PROVE Sound(f[j])
    <3>1. j <= r \/ j = r + 1 \/ j > r + 1
      BY <1>4
    <3> QED
      BY <1>1, <1>7, <3>1
  <2>2. Readable(f)
    BY <1>11
  <2> QED
    BY <1>1, <1>8, <2>1, <2>2 DEF Plan
<1>13. r = m
  <2>1. SUFFICES ASSUME r # m PROVE FALSE
    OBVIOUS
  <2>2. r + 1 \in 1..m /\ r + 1 \in 1..(m + 1) /\ r + 2 \in 1..(m + 1) /\ r + 1 < r + 2
        /\ r + 2 > r + 1 /\ (r + 2) - 1 = r + 1
    <3>1. r \in 0..m /\ m \in Nat /\ r # m
      BY <1>1, <1>4, <2>1, Zenon
    <3> HIDE DEF m
    <3> QED BY <3>1
  <2>3. f[r + 1] = era /\ f[r + 2] = st[r + 1]
    BY <1>7, <2>2
  <2>4. FirstPayday(era) < FirstPayday(st[r + 1])
    BY <1>8, <1>12, <2>2, <2>3, ErasAscend
  <2>5. FirstPayday(st[r + 1]) < FirstPayday(era)
    BY <2>2
  <2> QED
    BY <1>1, <1>2, <2>2, <2>4, <2>5
<1>14. f = Append(st, era)
  <2>1. Append(st, era) \in Seq(EraType) /\ Len(Append(st, era)) = m + 1
        /\ \A j \in 1..(m + 1) : Append(st, era)[j] = IF j = m + 1 THEN era ELSE st[j]
    BY <1>1, <1>2
  <2>2. \A j \in 1..(m + 1) : f[j] = IF j = m + 1 THEN era ELSE st[j]
    <3>1. ASSUME NEW j \in 1..(m + 1) PROVE f[j] = IF j = m + 1 THEN era ELSE st[j]
      <4>1. CASE j = m + 1
        BY <1>7, <1>13, <4>1
      <4>2. CASE j # m + 1
        <5>1. j <= r
          BY <1>1, <1>13, <4>2
        <5> QED
          BY <1>7, <4>2, <5>1
      <4> QED
        BY <4>1, <4>2
    <3> QED
      BY <3>1
  <2> QED
    BY <1>8, <2>1, <2>2
<1> QED
  BY <1>11, <1>14

(***************************************************************************)
(* The record and the eras together.                                       *)
(***************************************************************************)

\* What was recorded while the earliest era paid is that era's steps.
OnFirst(es, ps) ==
    \A p \in ps : (1 < Len(es) => p < FirstPayday(es[2])) =>
        \E k : FirstStep(es, k) /\ p = Payday(es[1], k)

\* The record opens with the plan.
Calendar(ps, es) ==
    /\ ps \in SUBSET Int /\ IsFiniteSet(ps) /\ ps # {}
    /\ Plan(es)
    /\ First(ps) = FirstPayday(es[1])
    /\ OnFirst(es, ps)

LEMMA CalendarFacts ==
    ASSUME NEW ps, NEW es, Calendar(ps, es)
    PROVE  /\ First(ps) \in ps /\ First(ps) \in Int /\ \A p \in ps : First(ps) <= p
           /\ Latest(ps) \in ps /\ Latest(ps) \in Int /\ \A p \in ps : p <= Latest(ps)
           /\ First(ps) = FirstPayday(es[1])
           /\ \A p \in ps : FirstPayday(es[1]) <= p /\ p \in Int
<1>1. ps \in SUBSET Int /\ IsFiniteSet(ps) /\ ps # {} /\ First(ps) = FirstPayday(es[1])
  BY DEF Calendar
<1>2. First(ps) \in ps /\ First(ps) \in Int /\ \A p \in ps : First(ps) <= p
  BY <1>1, MinFacts DEF First
<1>3. Latest(ps) \in ps /\ Latest(ps) \in Int /\ \A p \in ps : p <= Latest(ps)
  BY <1>1, MaxFacts DEF Latest
<1> QED
  BY <1>1, <1>2, <1>3

\* Paydays of a span of steps are finitely many days.
LEMMA GridSpan ==
    ASSUME NEW e, Sound(e), NEW a \in Int, NEW b \in Int
    PROVE  LET S == {Payday(e, k) : k \in a..b} IN IsFiniteSet(S) /\ S \in SUBSET Int
<1> DEFINE S == {Payday(e, k) : k \in a..b}
<1>1. Payday(e, a) \in Int /\ Payday(e, b) \in Int
  BY PaydayFacts
<1>2. ASSUME NEW k \in a..b
      PROVE  Payday(e, k) \in Payday(e, a)..Payday(e, b)
  <2>1. k \in Int /\ a <= k /\ k <= b
    OBVIOUS
  <2>2. Payday(e, k) \in Int /\ Payday(e, a) <= Payday(e, k) /\ Payday(e, k) <= Payday(e, b)
    BY <2>1, PaydayFacts, PaydayOrder
  <2> QED
    BY <1>1, <2>2
<1>3. S \subseteq Payday(e, a)..Payday(e, b)
  BY <1>2
<1>4. IsFiniteSet(S) /\ S \subseteq Int
  <2> HIDE DEF S
  <2> QED BY <1>1, <1>3, SpanFinite, Zenon
<1> QED
  BY <1>4

\* The image of the first n numbers has no more than n elements.
LEMMA ImageSize ==
    ASSUME NEW n \in Nat, NEW f, DOMAIN f = 1..n
    PROVE  LET S == {f[k] : k \in 1..n}
           IN  IsFiniteSet(S) /\ Cardinality(S) \in Nat /\ Cardinality(S) <= n
<1> DEFINE S == {f[k] : k \in 1..n}
           g == [k \in 1..n |-> f[k]]
<1>1. g \in Surjection(1..n, S)
  <2>1. g \in [1..n -> S] /\ \A t \in S : \E k \in 1..n : g[k] = t
    OBVIOUS
  <2> HIDE DEF g, S
  <2> QED BY <2>1 DEF Surjection
<1>2. IsFiniteSet(1..n) /\ Cardinality(1..n) = n
  <2>1. 1 \in Int /\ n \in Int
    OBVIOUS
  <2>2. IsFiniteSet(1..n) /\ Cardinality(1..n) = IF 1 > n THEN 0 ELSE n - 1 + 1
    BY <2>1, FS_Interval
  <2> QED
    BY <2>2
<1> HIDE DEF g, S
<1>3. IsFiniteSet(S) /\ Cardinality(S) <= Cardinality(1..n)
  BY <1>1, <1>2, FS_Surjection
<1>4. Cardinality(S) \in Nat
  BY <1>3, FS_CardinalityType
<1> QED
  BY <1>2, <1>3, <1>4 DEF S

\* Fewer paydays, the first one among them.
LEMMA KeptCalendar ==
    ASSUME NEW ps, NEW es, Calendar(ps, es), NEW kept \in SUBSET ps, First(ps) \in kept
    PROVE  Calendar(kept, es) /\ First(kept) = First(ps)
<1>1. ps \in SUBSET Int /\ IsFiniteSet(ps) /\ Plan(es) /\ OnFirst(es, ps)
  BY DEF Calendar
<1>2. kept \in SUBSET Int /\ IsFiniteSet(kept) /\ kept # {}
  BY <1>1, FS_Subset
<1>3. \A p \in kept : First(ps) <= p
  BY CalendarFacts
<1>4. First(kept) = First(ps)
  <2> DEFINE m == First(ps)
  <2>1. m \in kept /\ \A p \in kept : m <= p
    BY <1>3
  <2> HIDE DEF m
  <2>2. Min(kept) = m
    BY <1>2, <2>1, MinIs
  <2> QED
    BY <2>2 DEF m, First
<1>5. OnFirst(es, kept)
  BY <1>1 DEF OnFirst
<1> QED
  BY <1>1, <1>2, <1>4, <1>5, CalendarFacts DEF Calendar

\* What continue_paydays records.
Continuation(ps, es, n) == {PlannedAfter(es, Latest(ps), k) : k \in 1..n}

\* It goes on after the record as the eras plan.
LEMMA ContinuedFacts ==
    ASSUME NEW ps, NEW es, Calendar(ps, es), NEW n \in Nat
    PROVE  LET new == Continuation(ps, es, n)
           IN  /\ Continued(ps, es, n) = ps \cup new
               /\ IsFiniteSet(new) /\ Cardinality(new) \in Nat /\ Cardinality(new) <= n
               /\ \A q \in new : q \in Int /\ Latest(ps) < q
                                 /\ \E at : Position(es, at) /\ q = Paid(es, at)
<1> DEFINE new == {PlannedAfter(es, Latest(ps), k) : k \in 1..n}
           f == [k \in 1..n |-> PlannedAfter(es, Latest(ps), k)]
<1>1. Plan(es) /\ Latest(ps) \in Int /\ FirstPayday(es[1]) <= Latest(ps)
  BY CalendarFacts DEF Calendar
<1>2. IsFiniteSet(new) /\ Cardinality(new) \in Nat /\ Cardinality(new) <= n
  <2>1. DOMAIN f = 1..n /\ {f[k] : k \in 1..n} = new
    OBVIOUS
  <2> HIDE DEF f, new
  <2> QED BY <2>1, ImageSize
<1>3. ASSUME NEW k \in 1..n
      PROVE  LET q == PlannedAfter(es, Latest(ps), k)
             IN  q \in Int /\ Latest(ps) < q /\ \E at : Position(es, at) /\ q = Paid(es, at)
  <2>1. k \in Nat /\ k > 0
    OBVIOUS
  <2> QED
    BY <1>1, <2>1, PlannedFacts
<1> QED
  BY <1>2, <1>3 DEF Continued, Continuation

\* Paydays after the record's, the first era's among them on its grid.
LEMMA AddedCalendar ==
    ASSUME NEW ps, NEW es, Calendar(ps, es), NEW new \in SUBSET Int, IsFiniteSet(new),
           \A q \in new : Latest(ps) < q,
           OnFirst(es, new)
    PROVE  Calendar(ps \cup new, es)
<1> DEFINE all == ps \cup new
           m == First(ps)
<1>1. /\ ps \in SUBSET Int /\ IsFiniteSet(ps) /\ ps # {} /\ Plan(es) /\ OnFirst(es, ps)
      /\ First(ps) = FirstPayday(es[1])
  BY DEF Calendar
<1>2. m \in ps /\ m \in Int /\ Latest(ps) \in Int /\ m <= Latest(ps) /\ \A p \in ps : m <= p
  BY CalendarFacts
<1> HIDE DEF m
<1>3. all \in SUBSET Int /\ IsFiniteSet(all) /\ all # {} /\ m \in all
  BY <1>1, <1>2, FS_Union
<1>4. \A p \in all : m <= p
  BY <1>2
<1>5. OnFirst(es, all)
  BY <1>1 DEF OnFirst
<1> HIDE DEF all
<1>6. Min(all) = m
  BY <1>3, <1>4, MinIs
<1>7. First(all) = FirstPayday(es[1])
  BY <1>1, <1>6 DEF First, m
<1> QED
  BY <1>1, <1>3, <1>5, <1>7 DEF Calendar, all

LEMMA ContinuedCalendar ==
    ASSUME NEW ps, NEW es, Calendar(ps, es), NEW n \in Nat
    PROVE  Calendar(Continued(ps, es, n), es)
<1> DEFINE new == Continuation(ps, es, n)
<1>1. /\ Continued(ps, es, n) = ps \cup new /\ IsFiniteSet(new)
      /\ \A q \in new : q \in Int /\ Latest(ps) < q
                        /\ \E at : Position(es, at) /\ q = Paid(es, at)
  BY ContinuedFacts
<1>2. Plan(es)
  BY DEF Calendar
<1> HIDE DEF new
<1>3. OnFirst(es, new)
  <2>1. SUFFICES ASSUME NEW p \in new, 1 < Len(es) => p < FirstPayday(es[2])
                 PROVE  \E k : FirstStep(es, k) /\ p = Payday(es[1], k)
    BY DEF OnFirst
  <2>2. PICK at : Position(es, at) /\ p = Paid(es, at)
    BY <1>1
  <2>3. /\ at.era \in 1..Len(es) /\ at.step \in Nat /\ Len(es) \in Nat /\ p \in Int
        /\ at.era = 1 \/ FirstPayday(es[2]) <= p
    BY <1>2, <2>2, PaidFacts, PlanFacts
  <2>4. at.era = 1
    <3>1. SUFFICES ASSUME at.era # 1 PROVE FALSE
      OBVIOUS
    <3>2. 1 < Len(es) /\ 2 \in 1..Len(es)
      BY <2>3, <3>1
    <3>3. FirstPayday(es[2]) \in Int
      BY <1>2, <3>2, PlanFacts
    <3> QED
      BY <2>1, <2>3, <3>1, <3>2, <3>3
  <2>5. FirstStep(es, at.step)
    BY <2>2, <2>3, <2>4 DEF Position, FirstStep
  <2> QED
    BY <2>2, <2>4, <2>5 DEF Paid
<1>4. new \in SUBSET Int
  BY <1>1
<1> QED
  BY <1>1, <1>3, <1>4, AddedCalendar

(***************************************************************************)
(* Adding paydays earlier and removing the first ones.                     *)
(***************************************************************************)

\* A step of the earliest era, counted from the phase the era moves to.
LEMMA MovedStep ==
    ASSUME NEW es, Plan(es), NEW k \in Int, NEW j \in Int, k <= j,
           1 < Len(es) => j <= LastStep(es, 1)
    PROVE  /\ FirstStep(Rephased(es, k), j - k)
           /\ Payday(Rephased(es, k)[1], j - k) = Payday(es[1], j)
<1> DEFINE moved == Rephased(es, k)
<1>1. /\ Len(moved) = Len(es)
      /\ \A i \in Int : Payday(moved[1], i) = Payday(es[1], i + k)
      /\ 1 < Len(es) => LastStep(moved, 1) = LastStep(es, 1) - k
  BY RephasedFacts
<1>2. Len(es) \in Nat /\ 1 \in 1..Len(es)
  BY PlanFacts
<1>3. 1 < Len(es) => LastStep(es, 1) \in Int
  <2>1. SUFFICES ASSUME 1 < Len(es) PROVE LastStep(es, 1) \in Int
    OBVIOUS
  <2>2. LastStep(es, 1) \in Nat
    BY <1>2, <2>1, LastStepFacts
  <2> QED
    BY <2>2
<1> HIDE DEF moved
<1>4. j - k \in Nat /\ (j - k) + k = j
  OBVIOUS
<1>5. FirstStep(moved, j - k)
  BY <1>1, <1>2, <1>3, <1>4 DEF FirstStep
<1>6. Payday(moved[1], j - k) = Payday(es[1], j)
  BY <1>1, <1>4
<1> QED
  BY <1>5, <1>6 DEF moved

\* earlier_paydays counts down from the record's first payday.
LEMMA EarlierFacts ==
    ASSUME NEW ps, NEW es, Calendar(ps, es), NEW n \in Nat, n > 0
    PROVE  /\ EarlierSteps(ps, es, n) = (-n)..(-1)
           /\ Min(EarlierSteps(ps, es, n)) = -n
<1>1. Sound(es[1]) /\ First(ps) \in Int /\ First(ps) = Payday(es[1], 0)
  BY CalendarFacts, PlanFacts DEF Calendar, FirstPayday
<1>2. MatchedStep(es[1], First(ps)) = 0
  BY <1>1, MatchedStepFacts
<1>3. EarlierSteps(ps, es, n) = (-n)..(-1)
  BY <1>2 DEF EarlierSteps
<1> DEFINE S == (-n)..(-1)
           m == -n
<1>4. S \in SUBSET Int /\ m \in S /\ \A y \in S : m <= y
  OBVIOUS
<1> HIDE DEF S, m
<1>5. Min(S) = m
  BY <1>4, MinIs
<1> QED
  BY <1>3, <1>5 DEF S, m

\* prepend_paydays: the record and the earliest era move down together.
LEMMA EarlierCalendar ==
    ASSUME NEW ps, NEW es, Calendar(ps, es), NEW n \in Nat, n > 0
    PROVE  LET steps == EarlierSteps(ps, es, n)
           IN  Calendar(ps \cup {Payday(es[1], k) : k \in steps}, Rephased(es, Min(steps)))
<1> DEFINE m == -n
           new == {Payday(es[1], k) : k \in m..(-1)}
           all == ps \cup new
           moved == Rephased(es, m)
<1>1. /\ ps \in SUBSET Int /\ IsFiniteSet(ps) /\ ps # {} /\ Plan(es) /\ OnFirst(es, ps)
      /\ First(ps) = Payday(es[1], 0) /\ \A p \in ps : First(ps) <= p
  BY CalendarFacts DEF Calendar, FirstPayday
<1>2. Sound(es[1]) /\ Len(es) \in Nat /\ 1 \in 1..Len(es)
  BY <1>1, PlanFacts
<1>3. m \in Int /\ m < 0 /\ m <= 0 /\ -1 \in Int /\ m \in m..(-1) /\ m..(-1) \subseteq Int
      /\ \A k \in m..(-1) : m <= k /\ k < 0
  OBVIOUS
<1>4. EarlierSteps(ps, es, n) = m..(-1) /\ Min(EarlierSteps(ps, es, n)) = m
  BY EarlierFacts
<1>5. /\ Plan(moved) /\ Len(moved) = Len(es)
      /\ \A i \in 1..Len(es) : i # 1 => moved[i] = es[i]
  <2> HIDE DEF m
  <2> QED BY <1>1, <1>3, MovedDown, RephasedFacts
<1>6. 1 < Len(es) => LastStep(es, 1) \in Nat /\ 2 \in 1..Len(es)
  BY <1>1, <1>2, LastStepFacts
<1>7. ASSUME NEW j \in Int, m <= j, 1 < Len(es) => j <= LastStep(es, 1)
      PROVE  FirstStep(moved, j - m) /\ Payday(moved[1], j - m) = Payday(es[1], j)
  <2> HIDE DEF m
  <2> QED BY <1>1, <1>3, <1>7, MovedStep
<1>8. IsFiniteSet(new) /\ new \in SUBSET Int
  <2> HIDE DEF m
  <2> QED BY <1>2, <1>3, GridSpan
<1> HIDE DEF m, moved
<1>9. FirstPayday(moved[1]) = Payday(es[1], m)
  <2>1. 1 < Len(es) => m <= LastStep(es, 1)
    BY <1>3, <1>6
  <2>2. Payday(moved[1], m - m) = Payday(es[1], m)
    BY <1>3, <1>7, <2>1
  <2> QED
    BY <1>3, <2>2 DEF FirstPayday
<1>10. Payday(es[1], m) \in new
  BY <1>3
<1>11. ASSUME NEW p \in new PROVE Payday(es[1], m) <= p
  <2>1. PICK k \in m..(-1) : p = Payday(es[1], k)
    OBVIOUS
  <2>2. k \in Int /\ m <= k
    BY <1>3
  <2> QED
    BY <1>2, <1>3, <2>1, <2>2, PaydayOrder
<1>12. ASSUME NEW p \in ps PROVE Payday(es[1], m) <= p
  <2>1. Payday(es[1], m) \in Int /\ Payday(es[1], 0) \in Int /\ Payday(es[1], m) < Payday(es[1], 0)
    <3>1. 0 \in Int
      OBVIOUS
    <3>2. Payday(es[1], m) \in Int /\ Payday(es[1], 0) \in Int
      BY <1>2, <1>3, <3>1, PaydayFacts
    <3>3. Payday(es[1], m) < Payday(es[1], 0)
      BY <1>2, <1>3, <3>1, PaydayOrder
    <3> QED
      BY <3>2, <3>3
  <2>2. Payday(es[1], 0) <= p /\ p \in Int
    BY <1>1
  <2> QED
    BY <2>1, <2>2
<1>13. OnFirst(moved, all)
  <2>1. SUFFICES ASSUME NEW p \in all, 1 < Len(moved) => p < FirstPayday(moved[2])
                 PROVE  \E k : FirstStep(moved, k) /\ p = Payday(moved[1], k)
    BY DEF OnFirst
  <2>2. CASE p \in ps
    <3>1. 1 < Len(es) => p < FirstPayday(es[2])
      BY <1>5, <1>6, <2>1
    <3>2. PICK k : FirstStep(es, k) /\ p = Payday(es[1], k)
      BY <1>1, <2>2, <3>1 DEF OnFirst
    <3>3. k \in Int /\ m <= k /\ (1 < Len(es) => k <= LastStep(es, 1))
      BY <1>3, <3>2 DEF FirstStep
    <3> QED
      BY <1>7, <3>2, <3>3
  <2>3. CASE p \in new
    <3>1. PICK k \in m..(-1) : p = Payday(es[1], k)
      BY <2>3
    <3>2. k \in Int /\ m <= k /\ (1 < Len(es) => k <= LastStep(es, 1))
      BY <1>3, <1>6, <3>1
    <3> QED
      BY <1>7, <3>1, <3>2
  <2> QED
    BY <2>2, <2>3
<1> HIDE DEF new
<1>14. all \in SUBSET Int /\ IsFiniteSet(all) /\ all # {}
  BY <1>1, <1>8, FS_Union
<1>15. First(all) = Payday(es[1], m)
  <2> DEFINE d == Payday(es[1], m)
  <2>1. d \in all /\ \A p \in all : d <= p
    BY <1>10, <1>11, <1>12
  <2> HIDE DEF d, all
  <2>2. Min(all) = d
    BY <1>14, <2>1, MinIs
  <2> QED
    BY <2>2 DEF d, First
<1> HIDE DEF all
<1>16. Calendar(all, moved)
  BY <1>5, <1>9, <1>13, <1>14, <1>15 DEF Calendar
<1> QED
  BY <1>4, <1>16 DEF all, new, moved

\* remove_earlier_periods: what stays opens on a step of the earliest era, and
\* the era moves up to it.
LEMMA HeadlessCalendar ==
    ASSUME NEW ps, NEW es, Calendar(ps, es), NEW p \in ps,
           Matched(es, p).era = 1, Readable(Rephased(es, Matched(es, p).step))
    PROVE  /\ Calendar(ps \ {q \in ps : q < p}, Rephased(es, Matched(es, p).step))
           /\ First(ps \ {q \in ps : q < p}) = p
<1> DEFINE k == Matched(es, p).step
           kept == ps \ {q \in ps : q < p}
           moved == Rephased(es, k)
<1>1. /\ ps \in SUBSET Int /\ IsFiniteSet(ps) /\ Plan(es) /\ OnFirst(es, ps)
      /\ p \in Int /\ FirstPayday(es[1]) <= p
  BY CalendarFacts DEF Calendar
<1>2. Sound(es[1]) /\ Len(es) \in Nat /\ 1 \in 1..Len(es)
  BY <1>1, PlanFacts
<1>3. 1 < Len(es) => 2 \in 1..Len(es) /\ FirstPayday(es[2]) \in Int /\ p < FirstPayday(es[2])
  <2>1. SUFFICES ASSUME 1 < Len(es)
                 PROVE  2 \in 1..Len(es) /\ FirstPayday(es[2]) \in Int /\ p < FirstPayday(es[2])
    OBVIOUS
  <2>2. 2 \in 1..Len(es) /\ 2 \in 2..Len(es) /\ 2 > 1
    BY <1>2, <2>1
  <2>3. EraAt(es, p) = 1
    BY <1>1, MatchedFacts
  <2>4. p < FirstPayday(es[2])
    BY <1>1, <2>2, <2>3, EraAtFacts
  <2> QED
    BY <1>1, <2>2, <2>4, PlanFacts
<1>4. FirstStep(es, k) /\ p = Payday(es[1], k)
  <2>1. PICK j : FirstStep(es, j) /\ p = Payday(es[1], j)
    BY <1>1, <1>3 DEF OnFirst
  <2>2. Matched(es, p) = [era |-> 1, step |-> j]
    BY <1>1, <2>1, MatchedInFirst
  <2> QED
    BY <2>1, <2>2
<1>5. k \in Int /\ 0 \in Int /\ k - k = 0 /\ (1 < Len(es) => k <= LastStep(es, 1))
  BY <1>4 DEF FirstStep
<1> HIDE DEF k
<1>6. /\ moved \in Seq(EraType) /\ Len(moved) = Len(es)
      /\ \A i \in 1..Len(es) : Sound(moved[i]) /\ (i # 1 => moved[i] = es[i])
  <2>1. Plan(es) /\ k \in Int
    BY <1>1, <1>5
  <2>2. /\ moved \in Seq(EraType) /\ Len(moved) = Len(es)
        /\ \A i \in 1..Len(es) : Sound(moved[i])
    BY <2>1, RephasedFacts
  <2>3. \A i \in 1..Len(es) : i # 1 => moved[i] = es[i]
    BY <2>1, RephasedFacts
  <2> QED
    BY <2>2, <2>3
<1>7. Plan(moved)
  <2>1. Readable(moved)
    BY DEF k
  <2> QED
    BY <1>2, <1>6, <2>1 DEF Plan
<1>8. ASSUME NEW j \in Int, k <= j, 1 < Len(es) => j <= LastStep(es, 1)
      PROVE  FirstStep(moved, j - k) /\ Payday(moved[1], j - k) = Payday(es[1], j)
  BY <1>1, <1>5, <1>8, MovedStep
<1> HIDE DEF moved
<1>9. FirstPayday(moved[1]) = p
  <2>1. Payday(moved[1], k - k) = Payday(es[1], k)
    BY <1>5, <1>8
  <2> QED
    BY <1>4, <1>5, <2>1 DEF FirstPayday
<1>10. kept \in SUBSET Int /\ IsFiniteSet(kept) /\ kept # {} /\ p \in kept /\ \A q \in kept : p <= q
  <2>1. kept \subseteq ps /\ p \in kept
    BY <1>1
  <2>2. IsFiniteSet(kept)
    BY <1>1, <2>1, FS_Subset
  <2>3. \A q \in kept : p <= q
    BY <1>1
  <2> QED
    BY <1>1, <2>1, <2>2, <2>3
<1>11. First(kept) = p
  <2> HIDE DEF kept
  <2> QED BY <1>10, MinIs DEF First
<1>12. OnFirst(moved, kept)
  <2>1. SUFFICES ASSUME NEW q \in kept, 1 < Len(moved) => q < FirstPayday(moved[2])
                 PROVE  \E j : FirstStep(moved, j) /\ q = Payday(moved[1], j)
    BY DEF OnFirst
  <2>2. 1 < Len(es) => q < FirstPayday(es[2])
    BY <1>3, <1>6, <2>1
  <2>3. PICK j : FirstStep(es, j) /\ q = Payday(es[1], j)
    BY <1>1, <2>2 DEF OnFirst
  <2>4. j \in Int /\ (1 < Len(es) => j <= LastStep(es, 1))
    BY <2>3 DEF FirstStep
  <2>5. k <= j
    <3>1. Payday(es[1], k) <= Payday(es[1], j)
      BY <1>4, <1>10, <2>3
    <3> QED
      BY <1>2, <1>5, <2>4, <3>1, PaydayOrder
  <2> QED
    BY <1>8, <2>3, <2>4, <2>5
<1> HIDE DEF kept
<1>13. Calendar(kept, moved)
  BY <1>7, <1>9, <1>10, <1>11, <1>12 DEF Calendar
<1> QED
  BY <1>11, <1>13 DEF kept, moved, k

\* opening_rephase: adding earlier and removing it again leaves the earliest
\* era as it was.
LEMMA EarlierUndone ==
    ASSUME NEW ps, NEW es, Calendar(ps, es), NEW n \in Nat, n > 0
    PROVE  LET moved == Rephased(es, Min(EarlierSteps(ps, es, n)))
           IN  Rephased(moved, Matched(moved, First(ps)).step) = es
<1> DEFINE m == -n
           moved == Rephased(es, m)
<1>1. Plan(es) /\ First(ps) = Payday(es[1], 0)
  BY CalendarFacts DEF Calendar, FirstPayday
<1>2. Sound(es[1]) /\ Len(es) \in Nat /\ 1 \in 1..Len(es) /\ es \in Seq(EraType) /\ es[1] \in EraType
  BY <1>1, PlanFacts DEF Plan
<1>3. m \in Int /\ m <= 0 /\ 0 \in Int /\ 0 - m = n
  OBVIOUS
<1>4. Min(EarlierSteps(ps, es, n)) = m
  BY EarlierFacts
<1> HIDE DEF m
<1>5. Plan(moved)
  BY <1>1, <1>3, MovedDown
<1>6. FirstStep(moved, n) /\ Payday(moved[1], n) = First(ps)
  <2>1. 1 < Len(es) => 0 <= LastStep(es, 1)
    <3>1. SUFFICES ASSUME 1 < Len(es) PROVE 0 <= LastStep(es, 1)
      OBVIOUS
    <3>2. LastStep(es, 1) \in Nat
      BY <1>1, <1>2, <3>1, LastStepFacts
    <3> QED
      BY <3>2
  <2>2. FirstStep(moved, 0 - m) /\ Payday(moved[1], 0 - m) = Payday(es[1], 0)
    BY <1>1, <1>3, <2>1, MovedStep
  <2> QED
    BY <1>1, <1>3, <2>2
<1>7. Matched(moved, First(ps)).step = n
  <2> HIDE DEF moved
  <2>1. Matched(moved, Payday(moved[1], n)) = [era |-> 1, step |-> n]
    BY <1>5, <1>6, MatchedInFirst
  <2> QED
    BY <1>6, <2>1
<1>8. moved[1] = [es[1] EXCEPT !.from = Nominal(es[1], m)] /\ moved[1].gap = es[1].gap
      /\ Nominal(es[1], m) \in Int
      /\ Len(moved) = Len(es) /\ moved \in Seq(EraType) /\ \A i \in 1..Len(es) : i # 1 => moved[i] = es[i]
  <2>1. moved[1] = [es[1] EXCEPT !.from = Nominal(es[1], m)]
        /\ Len(moved) = Len(es) /\ moved \in Seq(EraType) /\ \A i \in 1..Len(es) : i # 1 => moved[i] = es[i]
    BY <1>1, <1>3, RephasedFacts
  <2>2. moved[1].gap = es[1].gap
    BY <1>2, <2>1 DEF EraType
  <2>3. Nominal(es[1], m) \in Int
    BY <1>2, <1>3, NominalFacts
  <2> QED
    BY <2>1, <2>2, <2>3
<1>9. Nominal(moved[1], n) = es[1].from
  <2>1. moved[1].from = Nominal(es[1], m)
    <3> HIDE DEF moved
    <3> QED BY <1>2, <1>8 DEF EraType
  <2>2. es[1].from \in Int /\ es[1].gap \in Int
    BY <1>2 DEF EraType
  <2> DEFINE g == es[1].gap
             d == es[1].from
  <2>3. (d + m * g) + n * g = d
    <3>1. d \in Int /\ g \in Int /\ m = -n
      BY <2>2 DEF m
    <3> HIDE DEF d, g, m
    <3> QED BY <3>1
  <2>4. Nominal(moved[1], n) = moved[1].from + n * g /\ Nominal(es[1], m) = d + m * g
    BY <1>8 DEF Nominal
  <2> QED
    BY <2>1, <2>3, <2>4
<1>10. /\ Rephased(moved, n) \in Seq(EraType) /\ Len(Rephased(moved, n)) = Len(es)
       /\ Rephased(moved, n)[1] = [moved[1] EXCEPT !.from = Nominal(moved[1], n)]
       /\ \A i \in 1..Len(es) : i # 1 => Rephased(moved, n)[i] = es[i]
  <2> DEFINE back == Rephased(moved, n)
  <2> HIDE DEF moved
  <2>1. /\ back \in Seq(EraType) /\ Len(back) = Len(moved)
        /\ \A i \in 1..Len(moved) : i # 1 => back[i] = moved[i]
    <3>1. n \in Int
      OBVIOUS
    <3> QED
      BY <1>5, <3>1, RephasedFacts, Zenon
  <2>2. back[1] = [moved[1] EXCEPT !.from = Nominal(moved[1], n)]
    BY <1>5, RephasedFacts
  <2> HIDE DEF back
  <2>3. \A i \in 1..Len(es) : i # 1 => back[i] = es[i]
    BY <1>8, <2>1
  <2>4. back \in Seq(EraType) /\ Len(back) = Len(es)
    BY <1>8, <2>1
  <2> QED
    BY <2>2, <2>3, <2>4 DEF back
<1>11. Rephased(moved, n)[1] = es[1]
  <2>1. Rephased(moved, n)[1] = [[es[1] EXCEPT !.from = Nominal(es[1], m)] EXCEPT !.from = es[1].from]
    BY <1>8, <1>9, <1>10
  <2>2. es[1] = [es[1] EXCEPT !.from = es[1].from]
    BY <1>2 DEF EraType
  <2> QED
    BY <1>2, <2>1, <2>2 DEF EraType
<1>12. Rephased(moved, n) = es
  <2>1. \A i \in 1..Len(es) : Rephased(moved, n)[i] = es[i]
    BY <1>10, <1>11
  <2> HIDE DEF moved
  <2> QED BY <1>2, <1>10, <2>1
<1> QED
  BY <1>4, <1>7, <1>12

(***************************************************************************)
(* Stating a batch.                                                        *)
(***************************************************************************)

\* Dropping the eras that have not paid by the last payday kept.
LEMMA StandingCalendar ==
    ASSUME NEW kept, NEW es, Calendar(kept, es)
    PROVE  LET st == ErasStanding(es, kept)
           IN  /\ Calendar(kept, st)
               /\ st[1] = es[1]
               /\ \A i \in 1..Len(st) : FirstPayday(st[i]) <= Latest(kept)
<1> DEFINE st == ErasStanding(es, kept)
           m == EraAt(es, Latest(kept))
<1>1. /\ kept \in SUBSET Int /\ IsFiniteSet(kept) /\ kept # {} /\ Plan(es) /\ OnFirst(es, kept)
      /\ First(kept) = FirstPayday(es[1])
  BY DEF Calendar
<1>2. /\ Latest(kept) \in Int /\ FirstPayday(es[1]) <= Latest(kept)
      /\ \A p \in kept : p \in Int /\ p <= Latest(kept)
  BY CalendarFacts
<1>3. /\ m \in 1..Len(es) /\ Len(st) = m /\ \A i \in 1..m : st[i] = es[i]
      /\ Plan(st)
      /\ \A i \in 1..m : i < m => LastStep(st, i) = LastStep(es, i)
  BY <1>1, StandingFacts
<1>4. /\ \A j \in 2..m : FirstPayday(es[j]) <= Latest(kept)
      /\ \A j \in 2..Len(es) : j > m => Latest(kept) < FirstPayday(es[j])
  BY <1>1, <1>2, EraAtFacts
<1>5. Len(es) \in Nat /\ 1 \in 1..Len(es) /\ \A i \in 1..Len(es) : FirstPayday(es[i]) \in Int
  BY <1>1, PlanFacts
<1> HIDE DEF st, m
<1>6. 1 \in 1..m /\ m \in Nat /\ st[1] = es[1]
  BY <1>3, <1>5
<1>7. ASSUME NEW i \in 1..Len(st) PROVE FirstPayday(st[i]) <= Latest(kept)
  <2>1. st[i] = es[i] /\ (i = 1 \/ i \in 2..m)
    BY <1>3, <1>6
  <2> QED
    BY <1>2, <1>4, <2>1
<1>8. OnFirst(st, kept)
  <2>1. SUFFICES ASSUME NEW p \in kept, 1 < Len(st) => p < FirstPayday(st[2])
                 PROVE  \E k : FirstStep(st, k) /\ p = Payday(st[1], k)
    BY DEF OnFirst
  <2>2. 1 < Len(es) => p < FirstPayday(es[2])
    <3>1. SUFFICES ASSUME 1 < Len(es) PROVE p < FirstPayday(es[2])
      OBVIOUS
    <3>2. CASE m = 1
      <4>1. 2 \in 2..Len(es) /\ 2 > m /\ 2 \in 1..Len(es)
        BY <1>5, <3>1, <3>2
      <4>2. Latest(kept) < FirstPayday(es[2]) /\ FirstPayday(es[2]) \in Int
        BY <1>4, <1>5, <4>1
      <4> QED
        BY <1>2, <4>2
    <3>3. CASE m # 1
      <4>1. 1 < Len(st) /\ 2 \in 1..m
        BY <1>3, <1>6, <3>3
      <4> QED
        BY <1>3, <2>1, <4>1
    <3> QED
      BY <3>2, <3>3
  <2>3. PICK k : FirstStep(es, k) /\ p = Payday(es[1], k)
    BY <1>1, <2>2 DEF OnFirst
  <2>4. FirstStep(st, k)
    <3>1. 1 < Len(st) => 1 < Len(es) /\ LastStep(st, 1) = LastStep(es, 1)
      BY <1>3, <1>5, <1>6
    <3> QED
      BY <2>3, <3>1 DEF FirstStep
  <2> QED
    BY <1>6, <2>3, <2>4
<1>9. Calendar(kept, st)
  BY <1>1, <1>3, <1>6, <1>8 DEF Calendar
<1> QED
  BY <1>6, <1>7, <1>9 DEF st

\* The steps the earliest era has paid are its steps still when an era is
\* added that first pays no sooner than what it would pay next.
LEMMA AppendedCalendar ==
    ASSUME NEW kept, NEW es, Calendar(kept, es), NEW st, Calendar(kept, st), st[1] = es[1],
           NEW era, Sound(era), Plan(Append(st, era)),
           PaydayAfter(es, Latest(kept)) <= FirstPayday(era),
           Len(st) = 1 /\ 1 < Len(es) => Latest(kept) < FirstPayday(es[2])
    PROVE  Calendar(kept, Append(st, era))
<1> DEFINE ns == Append(st, era)
           last == Latest(kept)
<1>1. /\ kept \in SUBSET Int /\ IsFiniteSet(kept) /\ kept # {} /\ Plan(es) /\ OnFirst(es, kept)
      /\ Plan(st) /\ OnFirst(st, kept) /\ First(kept) = FirstPayday(st[1])
  BY DEF Calendar
<1>2. last \in Int /\ last \in kept /\ \A p \in kept : p \in Int /\ p <= last
  BY CalendarFacts
<1>3. /\ Len(st) \in Nat /\ Len(st) >= 1 /\ 1 \in 1..Len(st) /\ st \in Seq(EraType) /\ era \in EraType
      /\ FirstPayday(era) \in Int /\ Sound(es[1])
  <2>1. FirstPayday(era) \in Int
    BY PaydayFacts DEF FirstPayday
  <2> QED
    BY <1>1, <2>1, PlanFacts DEF Plan, Sound
<1>4. /\ Len(ns) = Len(st) + 1
      /\ \A i \in 1..Len(st) : ns[i] = st[i]
      /\ ns[Len(st) + 1] = era
  BY <1>3
<1> HIDE DEF ns, last
<1>5. ns[1] = st[1] /\ 1 \in 1..Len(ns) /\ 1 < Len(ns)
  BY <1>3, <1>4
<1>6. ASSUME NEW p \in kept, p < FirstPayday(ns[2])
      PROVE  \E k : FirstStep(ns, k) /\ p = Payday(ns[1], k)
  <2>1. CASE Len(st) = 1
    <3>1. ASSUME NEW q \in kept PROVE \E k : FirstStep(es, k) /\ q = Payday(es[1], k)
      <4>1. 1 < Len(es) => q < FirstPayday(es[2])
        <5>1. SUFFICES ASSUME 1 < Len(es) PROVE q < FirstPayday(es[2])
          OBVIOUS
        <5>2. 2 \in 1..Len(es)
          BY <1>1, <5>1, PlanFacts
        <5>3. last < FirstPayday(es[2]) /\ FirstPayday(es[2]) \in Int
          BY <1>1, <2>1, <5>1, <5>2, PlanFacts DEF last
        <5> QED
          BY <1>2, <5>3
      <4> QED
        BY <1>1, <4>1 DEF OnFirst
    <3>2. PICK k : FirstStep(es, k) /\ p = Payday(es[1], k)
      BY <3>1
    <3>3. PICK j : FirstStep(es, j) /\ last = Payday(es[1], j)
      BY <1>2, <3>1
    <3>4. k \in Nat /\ j \in Nat /\ k \in Int /\ j \in Int /\ k + 1 \in Int /\ j + 1 \in Int
      BY <3>2, <3>3 DEF FirstStep
    <3>5. k <= j
      BY <1>2, <1>3, <3>2, <3>3, <3>4, PaydayOrder
    <3>6. Payday(es[1], j + 1) <= FirstPayday(era)
      <4>1. Payday(es[1], j + 1) <= PaydayAfter(es, last)
        BY <1>1, <3>3, AfterFirst
      <4>2. PaydayAfter(es, last) \in Int
        <5>1. 1 \in Nat /\ 1 > 0 /\ FirstPayday(es[1]) <= last
          BY CalendarFacts DEF last
        <5> QED
          BY <1>1, <1>2, <5>1, PlannedFacts DEF PaydayAfter
      <4>3. Payday(es[1], j + 1) \in Int
        BY <1>3, <3>4, PaydayFacts
      <4> QED
        BY <1>3, <4>1, <4>2, <4>3 DEF last
    <3>7. Payday(es[1], k + 1) <= Payday(es[1], j + 1)
      <4>1. k + 1 <= j + 1
        BY <3>4, <3>5
      <4> QED
        BY <1>3, <3>4, <4>1, PaydayOrder
    <3>8. Payday(ns[1], k + 1) <= FirstPayday(ns[1 + 1])
      <4>1. Payday(es[1], k + 1) \in Int /\ Payday(es[1], j + 1) \in Int
        BY <1>3, <3>4, PaydayFacts
      <4>2. ns[1 + 1] = era
        BY <1>4, <2>1
      <4> QED
        BY <1>3, <1>5, <3>6, <3>7, <4>1, <4>2
    <3>9. k <= LastStep(ns, 1)
      BY <1>5, <3>4, <3>8, PaidBefore DEF ns
    <3> QED
      BY <1>5, <3>2, <3>4, <3>9 DEF FirstStep
  <2>2. CASE Len(st) # 1
    <3>1. 1 < Len(st) /\ 2 \in 1..Len(st) /\ 1 + 1 = 2
      <4> DEFINE m == Len(st)
      <4>1. m \in Nat /\ m >= 1 /\ m # 1
        BY <1>3, <2>2
      <4> HIDE DEF m
      <4>2. 1 < m /\ 2 \in 1..m /\ 1 + 1 = 2
        BY <4>1
      <4> QED
        BY <4>2 DEF m
    <3>2. ns[2] = st[2]
      BY <1>4, <3>1
    <3>3. PICK k : FirstStep(st, k) /\ p = Payday(st[1], k)
      BY <1>1, <1>6, <3>2 DEF OnFirst
    <3>4. LastStep(ns, 1) = LastStep(st, 1)
      BY <1>5, <3>1, <3>2 DEF LastStep
    <3> QED
      BY <1>5, <3>1, <3>3, <3>4 DEF FirstStep
  <2> QED
    BY <2>1, <2>2
<1>7. OnFirst(ns, kept)
  BY <1>5, <1>6 DEF OnFirst
<1> QED
  BY <1>1, <1>5, <1>7 DEF Calendar, ns

\* The era a form states.
Form(first, rhythm) == [from |-> first, gap |-> rhythm.gap, shift |-> rhythm.shift]

\* An owner's first batch, or one that leaves nothing of the record.
LEMMA FreshCalendar ==
    ASSUME NEW era, Sound(era), NEW n \in Nat, n > 0
    PROVE  LET new == {Payday(era, k) : k \in 0..(n - 1)}
           IN  /\ Minted(<<>>, era) = <<era>>
               /\ new # {} /\ Calendar(new, <<era>>)
<1> DEFINE new == {Payday(era, k) : k \in 0..(n - 1)}
           es == <<era>>
           d == Payday(era, 0)
<1>1. /\ es \in Seq(EraType) /\ Len(es) = 1 /\ es[1] = era /\ 0 \in Int /\ n - 1 \in Int
      /\ 0 \in 0..(n - 1)
  BY DEF Sound
<1>2. Minted(<<>>, era) = es
  <2>1. {<<>>[i] : i \in {j \in DOMAIN <<>> : <<>>[j].from # era.from}} \cup {era} = {es[i] : i \in 1..Len(es)}
    BY <1>1
  <2>2. \A i, j \in 1..Len(es) : i < j => es[i].from < es[j].from
    BY <1>1
  <2> HIDE DEF es
  <2>3. ByDay({es[i] : i \in 1..Len(es)}) = es
    BY <1>1, <2>2, ReadBack
  <2> QED
    BY <2>1, <2>3 DEF Minted
<1> HIDE DEF es
<1>3. Plan(es)
  BY <1>1 DEF Plan, Readable
<1>4. IsFiniteSet(new) /\ new \in SUBSET Int
  <2> DEFINE b == n - 1
  <2>1. b \in Int /\ 0 \in Int
    BY <1>1
  <2> HIDE DEF b
  <2>2. LET S == {Payday(era, k) : k \in 0..b} IN IsFiniteSet(S) /\ S \in SUBSET Int
    BY <2>1, GridSpan
  <2> QED
    BY <2>2 DEF b
<1>5. d \in new /\ d = FirstPayday(es[1])
  BY <1>1 DEF FirstPayday
<1>6. ASSUME NEW p \in new PROVE d <= p
  <2>1. PICK k \in 0..(n - 1) : p = Payday(era, k)
    OBVIOUS
  <2>2. k \in Int /\ 0 <= k
    OBVIOUS
  <2> QED
    BY <1>1, <2>1, <2>2, PaydayOrder
<1>7. OnFirst(es, new)
  <2>1. SUFFICES ASSUME NEW p \in new
                 PROVE  \E k : FirstStep(es, k) /\ p = Payday(es[1], k)
    BY DEF OnFirst
  <2>2. PICK k \in 0..(n - 1) : p = Payday(era, k)
    OBVIOUS
  <2>3. FirstStep(es, k)
    BY <1>1 DEF FirstStep
  <2> QED
    BY <1>1, <2>2, <2>3
<1> HIDE DEF new, d
<1>8. First(new) = d
  BY <1>4, <1>5, <1>6, MinIs DEF First
<1>9. Calendar(new, es)
  BY <1>3, <1>4, <1>5, <1>7, <1>8 DEF Calendar
<1> QED
  BY <1>2, <1>5, <1>9 DEF new, es

\* A batch whose rhythm and phase the covering era holds goes on along it.
LEMMA CoveredCalendar ==
    ASSUME NEW kept, NEW es, Calendar(kept, es), NEW first \in Int,
           NEW rhythm \in [gap : Nat \ {0}, shift : {"none", "prior", "next"}],
           NEW n \in Nat, n > 0,
           ~Mints(ErasStanding(es, kept), first, rhythm),
           NEW new, new \subseteq {Payday(Form(first, rhythm), k) : k \in 0..(n - 1)},
           \A q \in new : q \in Int /\ Latest(kept) < q,
           IsFiniteSet(new)
    PROVE  Calendar(kept \cup new, ErasStanding(es, kept))
<1> DEFINE st == ErasStanding(es, kept)
           era == Form(first, rhythm)
<1>1. /\ Calendar(kept, st) /\ Plan(st)
      /\ \A i \in 1..Len(st) : FirstPayday(st[i]) <= Latest(kept)
  BY StandingCalendar DEF Calendar
<1>2. /\ Len(st) \in Nat /\ 1 \in 1..Len(st) /\ DOMAIN st = 1..Len(st) /\ Sound(st[1]) /\ st[1] \in EraType
      /\ \A i \in 1..Len(st) : FirstPayday(st[i]) \in Int
  BY <1>1, PlanFacts
<1>3. Latest(kept) \in Int
  BY CalendarFacts
<1>4. ~Mints(st, first, rhythm)
  OBVIOUS
<1> HIDE DEF st
<1>5. ASSUME NEW p \in new, 1 < Len(st) => p < FirstPayday(st[2])
      PROVE  \E k : FirstStep(st, k) /\ p = Payday(st[1], k)
  <2>1. Len(st) = 1
    <3>1. SUFFICES ASSUME Len(st) # 1 PROVE FALSE
      OBVIOUS
    <3>2. 1 < Len(st) /\ 2 \in 1..Len(st)
      BY <1>2, <3>1
    <3>3. FirstPayday(st[2]) <= Latest(kept) /\ FirstPayday(st[2]) \in Int
      BY <1>1, <1>2, <3>2
    <3> QED
      BY <1>3, <1>5, <3>2, <3>3
  <2>2. st[1].gap = rhythm.gap /\ st[1].shift = rhythm.shift /\ OnGrid(st[1], first)
    <3> DEFINE S == {1} \cup {i \in DOMAIN st : st[i].from <= first}
    <3>1. 1 \in Int /\ S = {1}
      BY <1>2, <2>1
    <3>2. Max(S) = 1
      <4> HIDE DEF S
      <4>1. S \in SUBSET Int /\ 1 \in S /\ \A y \in S : y <= 1
        BY <3>1
      <4> QED
        BY <4>1, MaxIs
    <3>3. st # <<>>
      BY <2>1
    <3> QED
      BY <1>4, <3>2, <3>3 DEF Mints
  <2> DEFINE s == StepsTo(st[1], first)
             g == st[1].gap
             d == st[1].from
  <2>3. s \in Int /\ g \in Int /\ d \in Int /\ first = d + s * g
    BY <1>2, <2>2, StepsFacts DEF OnGrid, EraType
  <2>4. PICK k \in 0..(n - 1) : p = Payday(era, k)
    BY <1>5
  <2>5. p = Payday(st[1], s + k)
    <3>1. era.from + k * era.gap = d + (s + k) * g
      <4>1. era.from = first /\ era.gap = g
        BY <2>2 DEF Form
      <4>2. (d + s * g) + k * g = d + (s + k) * g
        <5>1. k \in Int
          OBVIOUS
        <5> HIDE DEF s, g, d
        <5> QED BY <2>3, <5>1
      <4> QED
        BY <2>3, <4>1, <4>2
    <3>2. era.shift = st[1].shift
      BY <2>2 DEF Form
    <3> QED
      BY <2>4, <3>1, <3>2 DEF Payday
  <2>6. s + k \in Nat
    <3>1. FirstPayday(st[1]) <= Latest(kept) /\ FirstPayday(st[1]) \in Int
      BY <1>1, <1>2
    <3>2. Latest(kept) < p /\ p \in Int
      BY <1>5
    <3>3. Payday(st[1], 0) < Payday(st[1], s + k)
      BY <1>3, <2>5, <3>1, <3>2 DEF FirstPayday
    <3>4. s + k \in Int /\ 0 \in Int
      BY <2>3
    <3>5. 0 < s + k
      <4> HIDE DEF s
      <4> QED BY <1>2, <3>3, <3>4, PaydayOrder
    <3> QED
      BY <3>4, <3>5
  <2>7. FirstStep(st, s + k)
    BY <2>1, <2>6 DEF FirstStep
  <2> QED
    BY <2>5, <2>7
<1>6. OnFirst(st, new)
  BY <1>5 DEF OnFirst
<1>7. new \in SUBSET Int
  OBVIOUS
<1> QED
  BY <1>1, <1>6, <1>7, AddedCalendar DEF st

\* A batch that states an era of its own, which the calendar can be read with.
LEMMA StatedCalendar ==
    ASSUME NEW kept, NEW es, Calendar(kept, es), NEW era, Sound(era),
           NEW n \in Nat, n > 0,
           NEW new, new \subseteq {Payday(era, k) : k \in 0..(n - 1)},
           \A q \in new : q \in Int, IsFiniteSet(new),
           PaydayAfter(es, Latest(kept)) <= FirstPayday(era),
           \A i \in 1..Len(ErasStanding(es, kept)) : ErasStanding(es, kept)[i].from # era.from,
           Readable(Minted(ErasStanding(es, kept), era))
    PROVE  Calendar(kept \cup new, Minted(ErasStanding(es, kept), era))
<1> DEFINE st == ErasStanding(es, kept)
           ns == Append(st, era)
           last == Latest(kept)
<1>1. /\ Calendar(kept, st) /\ Plan(st) /\ st[1] = es[1]
      /\ \A i \in 1..Len(st) : FirstPayday(st[i]) <= last
      /\ Plan(es) /\ kept \in SUBSET Int /\ IsFiniteSet(kept) /\ kept # {}
  BY StandingCalendar DEF Calendar
<1>2. /\ Len(st) \in Nat /\ Len(st) >= 1 /\ st \in Seq(EraType)
      /\ \A i \in 1..Len(st) : FirstPayday(st[i]) \in Int /\ Sound(st[i])
  BY <1>1, PlanFacts DEF Plan
<1>3. last \in Int /\ FirstPayday(es[1]) <= last
  BY CalendarFacts
<1>4. PaydayAfter(es, last) \in Int /\ last < PaydayAfter(es, last)
  <2>1. 1 \in Nat /\ 1 > 0
    OBVIOUS
  <2> QED
    BY <1>1, <1>3, <2>1, PlannedFacts DEF PaydayAfter
<1>5. Len(st) = EraAt(es, last)
  BY <1>1, StandingFacts
<1>6. FirstPayday(era) \in Int /\ last < FirstPayday(era) /\ era \in EraType
  <2>1. FirstPayday(era) \in Int
    BY PaydayFacts DEF FirstPayday
  <2>2. PaydayAfter(es, last) <= FirstPayday(era)
    OBVIOUS
  <2> HIDE DEF last
  <2> QED
    BY <1>3, <1>4, <2>1, <2>2 DEF Sound
<1>7. Readable(Minted(st, era)) /\ \A i \in 1..Len(st) : st[i].from # era.from
  OBVIOUS
<1>8. PaydayAfter(es, last) <= FirstPayday(era)
  OBVIOUS
<1> HIDE DEF st, last
<1>9. \A i \in 1..Len(st) : st[i].from # era.from /\ FirstPayday(st[i]) < FirstPayday(era)
  BY <1>1, <1>2, <1>3, <1>6, <1>7
<1>10. Minted(st, era) = ns
  BY <1>1, <1>7, <1>9, MintedFacts
<1>11. /\ ns \in Seq(EraType) /\ Len(ns) = Len(st) + 1 /\ ns[Len(st) + 1] = era
       /\ \A i \in 1..Len(st) : ns[i] = st[i]
  BY <1>2, <1>6
<1>12. Plan(ns)
  <2>1. ASSUME NEW i \in 1..Len(ns) PROVE Sound(ns[i])
    <3>1. i \in 1..Len(st) \/ i = Len(st) + 1
      BY <1>2, <1>11
    <3> QED
      BY <1>2, <1>11, <3>1
  <2>2. Readable(ns)
    BY <1>7, <1>10
  <2> HIDE DEF ns
  <2> QED
    BY <1>2, <1>11, <2>1, <2>2 DEF Plan
<1>13. Len(st) = 1 /\ 1 < Len(es) => last < FirstPayday(es[2])
  <2>1. SUFFICES ASSUME Len(st) = 1, 1 < Len(es) PROVE last < FirstPayday(es[2])
    OBVIOUS
  <2>2. Len(es) \in Nat
    BY <1>1, PlanFacts
  <2>3. 2 \in 2..Len(es) /\ 2 > EraAt(es, last)
    BY <1>5, <2>1, <2>2
  <2> QED
    BY <1>1, <1>3, <2>3, EraAtFacts
<1>14. Calendar(kept, ns)
  BY <1>1, <1>8, <1>12, <1>13, AppendedCalendar DEF last
<1>15. ASSUME NEW p \in new PROVE FirstPayday(era) <= p /\ p \in Int
  <2>1. PICK k \in 0..(n - 1) : p = Payday(era, k)
    OBVIOUS
  <2>2. k \in Int /\ 0 \in Int /\ 0 <= k
    OBVIOUS
  <2> QED
    BY <2>1, <2>2, PaydayOrder, PaydayFacts DEF FirstPayday
<1>16. \A q \in new : last < q
  BY <1>3, <1>6, <1>15
<1>17. OnFirst(ns, new)
  <2>1. SUFFICES ASSUME NEW p \in new, 1 < Len(ns) => p < FirstPayday(ns[2]) PROVE FALSE
    BY DEF OnFirst
  <2>2. 1 < Len(ns) /\ 2 \in 1..Len(ns)
    <3> DEFINE a == Len(st)
               b == Len(ns)
    <3>1. a \in Nat /\ a >= 1 /\ b = a + 1
      BY <1>2, <1>11
    <3> HIDE DEF a, b
    <3>2. 1 < b /\ 2 \in 1..b
      BY <3>1
    <3> QED
      BY <3>2 DEF b
  <2>3. FirstPayday(ns[2]) <= p /\ FirstPayday(ns[2]) \in Int /\ p \in Int
    <3>1. CASE Len(st) = 1
      BY <1>6, <1>11, <1>15, <3>1
    <3>2. CASE Len(st) # 1
      <4>1. 2 \in 1..Len(st)
        <5> DEFINE a == Len(st)
        <5>1. a \in Nat /\ a >= 1 /\ a # 1
          BY <1>2, <3>2
        <5> HIDE DEF a
        <5>2. 2 \in 1..a
          BY <5>1
        <5> QED
          BY <5>2 DEF a
      <4>2. ns[2] = st[2] /\ FirstPayday(st[2]) <= last /\ FirstPayday(st[2]) \in Int
        BY <1>1, <1>2, <1>11, <4>1
      <4> QED
        BY <1>3, <1>15, <1>16, <4>2
    <3> QED
      BY <3>1, <3>2
  <2> QED
    BY <2>1, <2>2, <2>3
<1> HIDE DEF ns
<1>18. new \in SUBSET Int
  OBVIOUS
<1>19. Calendar(kept \cup new, ns)
  BY <1>14, <1>16, <1>17, <1>18, AddedCalendar DEF last
<1> QED
  BY <1>10, <1>19 DEF st

\* record_paydays on what is kept of a calendar: what passes its fences and can
\* be read is a calendar.
LEMMA BatchCalendar ==
    ASSUME NEW ps, NEW es, NEW retiring, NEW first \in Int, NEW n \in Nat, n > 0,
           NEW rhythm \in [gap : Nat \ {0}, shift : {"none", "prior", "next"}],
           ps \ retiring = {} \/ Calendar(ps \ retiring, es),
           LET batch == Batch(ps, es, first, n, rhythm, retiring)
           IN  /\ batch.ok /\ ~batch.taken
               /\ ps \ retiring # {} => Readable(batch.eras)
    PROVE  LET batch == Batch(ps, es, first, n, rhythm, retiring)
           IN  Calendar(batch.paydays, batch.eras)
<1> DEFINE batch == Batch(ps, es, first, n, rhythm, retiring)
           kept == ps \ retiring
           era == Form(first, rhythm)
           grid == {Payday(era, k) : k \in 0..(n - 1)}
           new == grid \ kept
           st == ErasStanding(es, kept)
           mints == new # {} /\ Mints(st, first, rhythm)
<1>1. /\ batch.paydays = kept \cup new
      /\ batch.eras = IF new = {} THEN es ELSE IF mints THEN Minted(st, era) ELSE st
      /\ batch.taken = (mints /\ \E i \in DOMAIN st : st[i].from = first)
      /\ batch.ok => (mints /\ rhythm.shift # "none" => rhythm.gap >= ShortestShiftedGap)
      /\ batch.ok => (kept # {} /\ new # {} =>
                        Min(IF mints THEN {Payday(era, 0)} \cup new ELSE new) >= Earliest(es, kept))
  BY Zenon DEF Batch, Form
<1>2. batch.ok /\ ~batch.taken /\ (kept # {} => Readable(batch.eras)) /\ (kept = {} \/ Calendar(kept, es))
  OBVIOUS
<1> HIDE DEF batch
<1>3. era \in EraType /\ era.from = first /\ era.gap = rhythm.gap /\ era.shift = rhythm.shift
  BY DEF Form, EraType
<1>4. mints => Sound(era)
  <2>1. SUFFICES ASSUME mints PROVE Sound(era)
    OBVIOUS
  <2> HIDE DEF mints, era
  <2> QED BY <1>1, <1>2, <1>3, <2>1 DEF Sound
<1>5. CASE kept = {}
  <2>1. st = <<>>
    BY <1>5 DEF ErasStanding
  <2>2. 0 \in 0..(n - 1)
    OBVIOUS
  <2>3. new # {} /\ new = grid
    BY <1>5, <2>2
  <2>4. mints
    BY <2>1, <2>3 DEF Mints
  <2>5. Sound(era)
    BY <1>4, <2>4
  <2> HIDE DEF era, st, kept, mints
  <2>6. Minted(<<>>, era) = <<era>> /\ Calendar(grid, <<era>>)
    BY <2>5, FreshCalendar
  <2> HIDE DEF grid, new
  <2>7. batch.eras = <<era>> /\ batch.paydays = grid
    <3>1. batch.eras = Minted(<<>>, era)
      BY <1>1, <2>1, <2>3, <2>4
    <3>2. batch.paydays = grid
      BY <1>1, <1>5, <2>3
    <3> QED
      BY <2>6, <3>1, <3>2
  <2> QED
    BY <2>6, <2>7 DEF batch
<1>6. CASE kept # {}
  <2>1. Calendar(kept, es)
    BY <1>2, <1>6
  <2>2. CASE new = {}
    <3>1. batch.paydays = kept /\ batch.eras = es
      <4> HIDE DEF new, kept
      <4> QED BY <1>1, <2>2
    <3> QED
      BY <2>1, <3>1 DEF batch
  <2>3. CASE new # {}
    <3>1. \A q \in new : Payday(era, 0) \in Int /\ q \in Int
      BY <1>3, DisplacedFacts DEF Payday, EraType
    <3>2. Payday(era, 0) \in Int /\ new \in SUBSET Int
      BY <2>3, <3>1
    <3>3. Payday(era, 0) \in grid
      <4>1. 0 \in 0..(n - 1)
        OBVIOUS
      <4> QED
        BY <4>1
    <3>4. IsFiniteSet(grid)
      <4> DEFINE f == [k \in 1..n |-> Payday(era, k - 1)]
      <4>1. ASSUME NEW k \in 0..(n - 1) PROVE \E j \in 1..n : f[j] = Payday(era, k)
        <5>1. k + 1 \in 1..n /\ (k + 1) - 1 = k
          OBVIOUS
        <5> HIDE DEF era
        <5> QED BY <5>1
      <4>2. ASSUME NEW j \in 1..n PROVE f[j] \in grid
        <5>1. j - 1 \in 0..(n - 1)
          OBVIOUS
        <5> HIDE DEF era
        <5> QED BY <5>1
      <4>3. grid = {f[j] : j \in 1..n} /\ DOMAIN f = 1..n
        <5> HIDE DEF era
        <5> QED BY <4>1, <4>2
      <4> HIDE DEF f, grid
      <4> QED
        BY <4>3, ImageSize
    <3>5. IsFiniteSet(new)
      BY <3>4, FS_Subset
    <3>6. Earliest(es, kept) = PaydayAfter(es, Latest(kept))
      BY DEF Earliest
    <3>7. PaydayAfter(es, Latest(kept)) \in Int /\ Latest(kept) < PaydayAfter(es, Latest(kept))
          /\ Latest(kept) \in Int
      <4>1. Plan(es) /\ Latest(kept) \in Int /\ FirstPayday(es[1]) <= Latest(kept)
        BY <2>1, CalendarFacts DEF Calendar
      <4>2. 1 \in Nat /\ 1 > 0
        OBVIOUS
      <4> QED
        BY <4>1, <4>2, PlannedFacts DEF PaydayAfter
    <3> DEFINE d == PaydayAfter(es, Latest(kept))
               stated == IF mints THEN {Payday(era, 0)} \cup new ELSE new
    <3>8. /\ stated \in SUBSET Int /\ IsFiniteSet(stated) /\ stated # {}
          /\ new \subseteq stated
          /\ mints => Payday(era, 0) \in stated
      <4>1. IsFiniteSet({Payday(era, 0)})
        BY FS_Singleton
      <4>2. IsFiniteSet({Payday(era, 0)} \cup new)
        BY <3>5, <4>1, FS_Union
      <4> HIDE DEF mints, new, era
      <4> QED
        BY <2>3, <3>2, <3>5, <4>2
    <3>9. Min(stated) \in Int /\ d <= Min(stated) /\ \A q \in stated : Min(stated) <= q
      <4>1. Min(stated) >= d
        <5> HIDE DEF mints, new, kept, era, batch
        <5> QED BY <1>1, <1>2, <1>6, <2>3, <3>6
      <4> HIDE DEF stated, d
      <4>2. Min(stated) \in Int /\ \A q \in stated : Min(stated) <= q
        BY <3>8, MinFacts
      <4> QED
        BY <3>7, <4>1, <4>2 DEF d
    <3>10. ASSUME NEW q \in stated PROVE d <= q
      <4> HIDE DEF stated, d
      <4> QED BY <3>7, <3>8, <3>9 DEF d
    <3>11. CASE mints
      <4>1. batch.eras = Minted(st, era) /\ batch.paydays = kept \cup new
        <5> HIDE DEF mints, new, kept, era, batch, st
        <5> QED BY <1>1, <2>3, <3>11
      <4>2. d <= FirstPayday(era)
        BY <3>8, <3>10, <3>11 DEF FirstPayday
      <4>3. \A i \in 1..Len(st) : st[i].from # era.from
        <5>1. Plan(st)
          BY <2>1, StandingCalendar DEF Calendar
        <5>2. DOMAIN st = 1..Len(st)
          BY <5>1, PlanFacts
        <5> HIDE DEF mints, st, batch, era
        <5> QED BY <1>1, <1>2, <1>3, <3>11, <5>2
      <4>4. Readable(Minted(st, era))
        BY <1>2, <1>6, <4>1
      <4>5. Sound(era)
        BY <1>4, <3>11
      <4>6. new \subseteq {Payday(era, k) : k \in 0..(n - 1)} /\ \A q \in new : q \in Int
        BY <3>2
      <4> HIDE DEF mints, new, kept, era, stated, grid
      <4>7. Calendar(kept \cup new, Minted(st, era))
        BY <2>1, <3>5, <4>2, <4>3, <4>4, <4>5, <4>6, StatedCalendar
      <4> QED
        BY <4>1, <4>7 DEF batch, kept, new, era
    <3>12. CASE ~mints
      <4>1. batch.eras = st /\ batch.paydays = kept \cup new
        <5> HIDE DEF mints, new, kept, era, batch, st
        <5> QED BY <1>1, <2>3, <3>12
      <4>2. ~Mints(st, first, rhythm)
        BY <2>3, <3>12
      <4>3. new \subseteq {Payday(era, k) : k \in 0..(n - 1)}
        OBVIOUS
      <4>4. \A q \in new : q \in Int /\ Latest(kept) < q
        <5> HIDE DEF stated, d, new
        <5> QED BY <3>2, <3>7, <3>8, <3>10 DEF d
      <4> HIDE DEF mints, new, kept, stated, grid
      <4>5. Calendar(kept \cup new, st)
        BY <2>1, <3>5, <4>2, <4>3, <4>4, CoveredCalendar
      <4> QED
        BY <4>1, <4>5 DEF batch, kept, new, era
    <3> QED
      BY <3>11, <3>12
  <2> QED
    BY <2>2, <2>3
<1> QED
  BY <1>5, <1>6

(***************************************************************************)
(* What a paycheck holds.                                                  *)
(***************************************************************************)

Rows == {"owned", "held", "settled"}

\* A row has its paycheck, and a balance the one its correction is filed in.
Filed(it, ps) ==
    \A i \in Items : /\ it[i].kind = "balance" => it[i].filed \in ps
                     /\ it[i].kind \in Rows => it[i].row \in ps

\* The day a correction is filed under opens a paycheck.
LEMMA FilingFacts ==
    ASSUME NEW ps \in SUBSET Int, IsFiniteSet(ps), ps # {}, NEW day \in Int
    PROVE  FilingPeriod(ps, day) \in ps /\ FilingPeriod(ps, day) \in Int
<1>1. First(ps) \in ps /\ First(ps) \in Int
  BY MinFacts DEF First
<1>2. CASE First(ps) <= day
  <2> DEFINE S == {p \in ps : p <= day}
  <2>1. S \in SUBSET Int /\ S # {}
    BY <1>1, <1>2
  <2>2. IsFiniteSet(S)
    BY FS_Subset
  <2>3. Max(S) \in S
    <3> HIDE DEF S
    <3> QED BY <2>1, <2>2, MaxFacts
  <2>4. FilingPeriod(ps, day) = Max(S)
    BY <1>2 DEF FilingPeriod
  <2>5. S \subseteq ps
    OBVIOUS
  <2> HIDE DEF S
  <2> QED
    BY <2>1, <2>3, <2>4, <2>5
<1>3. CASE ~(First(ps) <= day)
  BY <1>1, <1>3 DEF FilingPeriod
<1> QED
  BY <1>2, <1>3

\* The cascade takes the rows of what is removed and leaves every balance.
LEMMA CascadeFacts ==
    ASSUME NEW it \in [Items -> Item], NEW gone
    PROVE  LET c == Cascaded(it, gone)
           IN  /\ c \in [Items -> Item]
               /\ \A i \in Items :
                    /\ it[i].kind \in Rows /\ it[i].row \in gone => c[i] = NoItem
                    /\ it[i].kind \in Rows /\ it[i].row \notin gone => c[i] = it[i]
                    /\ it[i].kind = "balance" =>
                          c[i].kind = "balance" /\ (it[i].filed \notin gone => c[i] = it[i])
                    /\ it[i].kind = "none" => c[i] = it[i]
<1> DEFINE c == Cascaded(it, gone)
<1>1. c = [i \in Items |->
              IF it[i].kind \in Rows /\ it[i].row \in gone THEN NoItem
              ELSE IF it[i].kind = "balance" /\ it[i].filed \in gone
                   THEN [it[i] EXCEPT !.filed = 0] ELSE it[i]]
  BY DEF Cascaded, Rows
<1>2. NoItem \in Item
  BY DEF NoItem, Item
<1> HIDE DEF c
<1>3. ASSUME NEW i \in Items PROVE it[i] \in Item /\ [it[i] EXCEPT !.filed = 0] \in Item
                                   /\ [it[i] EXCEPT !.filed = 0].kind = it[i].kind
  <2>1. it[i] \in Item
    OBVIOUS
  <2> QED
    BY <2>1 DEF Item
<1>4. c \in [Items -> Item]
  <2>1. \A i \in Items : (IF it[i].kind \in Rows /\ it[i].row \in gone THEN NoItem
              ELSE IF it[i].kind = "balance" /\ it[i].filed \in gone
                   THEN [it[i] EXCEPT !.filed = 0] ELSE it[i]) \in Item
    BY <1>2, <1>3
  <2> QED
    BY <1>1, <2>1
<1>5. ASSUME NEW i \in Items
      PROVE  /\ it[i].kind \in Rows /\ it[i].row \in gone => c[i] = NoItem
             /\ it[i].kind \in Rows /\ it[i].row \notin gone => c[i] = it[i]
             /\ it[i].kind = "balance" =>
                   c[i].kind = "balance" /\ (it[i].filed \notin gone => c[i] = it[i])
             /\ it[i].kind = "none" => c[i] = it[i]
  <2>1. c[i] = IF it[i].kind \in Rows /\ it[i].row \in gone THEN NoItem
               ELSE IF it[i].kind = "balance" /\ it[i].filed \in gone
                    THEN [it[i] EXCEPT !.filed = 0] ELSE it[i]
    BY <1>1
  <2>2. "balance" \notin Rows /\ "none" \notin Rows
    BY DEF Rows
  <2> QED
    BY <1>3, <2>1, <2>2
<1> QED
  BY <1>4, <1>5 DEF c

\* _refile_ledger files every balance in a paycheck there is.
LEMMA RefiledFacts ==
    ASSUME NEW it \in [Items -> Item], NEW ps \in SUBSET Int, IsFiniteSet(ps), ps # {}
    PROVE  LET r == Refiled(it, ps)
           IN  /\ r \in [Items -> Item]
               /\ \A i \in Items :
                    /\ r[i].kind = it[i].kind /\ r[i].row = it[i].row /\ r[i].day = it[i].day
                    /\ it[i].kind = "balance" => r[i].filed \in ps
                    /\ it[i].kind # "balance" => r[i] = it[i]
<1> DEFINE r == Refiled(it, ps)
<1>1. r = [i \in Items |-> IF it[i].kind = "balance"
                          THEN [it[i] EXCEPT !.filed = FilingPeriod(ps, it[i].day)] ELSE it[i]]
  BY DEF Refiled
<1> HIDE DEF r
<1>2. ASSUME NEW i \in Items
      PROVE  LET f == [it[i] EXCEPT !.filed = FilingPeriod(ps, it[i].day)]
             IN  f \in Item /\ f.kind = it[i].kind /\ f.row = it[i].row /\ f.day = it[i].day /\ f.filed \in ps
  <2>1. it[i] \in Item /\ it[i].day \in Int
    BY DEF Item
  <2>2. FilingPeriod(ps, it[i].day) \in ps /\ FilingPeriod(ps, it[i].day) \in Int
    BY <2>1, FilingFacts
  <2> QED
    BY <2>1, <2>2 DEF Item
<1>3. r \in [Items -> Item]
  <2>1. \A i \in Items : (IF it[i].kind = "balance"
                          THEN [it[i] EXCEPT !.filed = FilingPeriod(ps, it[i].day)] ELSE it[i]) \in Item
    BY <1>2
  <2> QED
    BY <1>1, <2>1
<1>4. ASSUME NEW i \in Items
      PROVE  /\ r[i].kind = it[i].kind /\ r[i].row = it[i].row /\ r[i].day = it[i].day
             /\ it[i].kind = "balance" => r[i].filed \in ps
             /\ it[i].kind # "balance" => r[i] = it[i]
  BY <1>1, <1>2
<1> QED
  BY <1>3, <1>4 DEF r

\* Nothing locked: the rows the cascade takes are neither settled nor paid for,
\* and no correction is filed in what is removed.
LEMMA CascadeFiled ==
    ASSUME NEW it \in [Items -> Item], NEW ps, NEW gone, Filed(it, ps),
           \A i \in Items : /\ it[i].kind \in {"held", "settled"} => it[i].row \notin gone
                            /\ it[i].kind = "balance" => it[i].filed \notin gone
    PROVE  /\ Cascaded(it, gone) \in [Items -> Item]
           /\ Filed(Cascaded(it, gone), ps \ gone)
           /\ \A i \in Items : it[i].kind \in {"held", "settled", "balance"} =>
                                   Cascaded(it, gone)[i].kind # "none"
<1> DEFINE c == Cascaded(it, gone)
<1>1. /\ c \in [Items -> Item]
      /\ \A i \in Items :
             /\ it[i].kind \in Rows /\ it[i].row \in gone => c[i] = NoItem
             /\ it[i].kind \in Rows /\ it[i].row \notin gone => c[i] = it[i]
             /\ it[i].kind = "balance" =>
                   c[i].kind = "balance" /\ (it[i].filed \notin gone => c[i] = it[i])
             /\ it[i].kind = "none" => c[i] = it[i]
  BY CascadeFacts
<1> HIDE DEF c
<1>2. ASSUME NEW i \in Items
      PROVE  /\ c[i].kind = "balance" => c[i].filed \in ps \ gone
             /\ c[i].kind \in Rows => c[i].row \in ps \ gone
             /\ it[i].kind \in {"held", "settled", "balance"} => c[i].kind # "none"
  <2>1. it[i].kind \in Rows \/ it[i].kind = "balance" \/ it[i].kind = "none"
    BY DEF Item, Rows
  <2>2. /\ it[i].kind = "balance" => it[i].filed \in ps
        /\ it[i].kind \in Rows => it[i].row \in ps
    BY DEF Filed
  <2>3. CASE it[i].kind \in Rows
    <3>1. CASE it[i].row \in gone
      BY <1>1, <2>3, <3>1 DEF NoItem, Rows
    <3>2. CASE it[i].row \notin gone
      BY <1>1, <2>2, <2>3, <3>2 DEF Rows
    <3> QED
      BY <3>1, <3>2
  <2>4. CASE it[i].kind = "balance"
    BY <1>1, <2>2, <2>4 DEF Rows
  <2>5. CASE it[i].kind = "none"
    BY <1>1, <2>5 DEF Rows
  <2> QED
    BY <2>1, <2>3, <2>4, <2>5
<1> QED
  BY <1>1, <1>2 DEF c, Filed

(***************************************************************************)
(* The invariant.                                                          *)
(***************************************************************************)

IInv == TypeOK /\ Calendar(paydays, eras) /\ Filed(items, paydays)

\* The eras of a calendar have the types the record gives them.
LEMMA CalendarType ==
    ASSUME NEW ps, NEW es, Calendar(ps, es)
    PROVE  /\ ps \subseteq Int /\ ps # {} /\ es # <<>>
           /\ \A i \in DOMAIN es :
                  es[i] \in [from : Int, gap : Nat \ {0}, shift : {"none", "prior", "next"}]
<1>1. ps \in SUBSET Int /\ ps # {} /\ Plan(es)
  BY DEF Calendar
<1>2. DOMAIN es = 1..Len(es) /\ 1 \in 1..Len(es) /\ \A i \in 1..Len(es) : es[i] \in EraType
  BY <1>1, PlanFacts
<1>3. es # <<>>
  BY <1>2
<1> QED
  BY <1>1, <1>2, <1>3 DEF EraType

\* What the other conjuncts of IInv ask when only the schedule changed.
LEMMA IInvFromParts ==
    ASSUME TypeOK, Calendar(paydays', eras'), Filed(items', paydays'),
           items' \in [Items -> Item], history' \in Int, target' \in Targets \cup {0},
           today' \in Opening..LastToday, acts' \in 0..MaxActs
    PROVE  IInv'
<1>1. /\ paydays' \subseteq Int /\ paydays' # {} /\ eras' # <<>>
      /\ \A i \in DOMAIN eras' :
             eras'[i] \in [from : Int, gap : Nat \ {0}, shift : {"none", "prior", "next"}]
  BY CalendarType
<1> QED
  BY <1>1 DEF IInv, TypeOK

\* The types of the state.
LEMMA StateFacts ==
    ASSUME IInv
    PROVE  /\ Calendar(paydays, eras) /\ Filed(items, paydays) /\ items \in [Items -> Item]
           /\ paydays \in SUBSET Int /\ IsFiniteSet(paydays) /\ paydays # {}
           /\ history \in Int /\ target \in Targets \cup {0} /\ target \in Nat
           /\ today \in Opening..LastToday /\ today \in Int /\ acts \in 0..MaxActs /\ acts \in Int
           /\ Act => acts' \in 0..MaxActs
<1>1. target \in Nat
  BY SizesAssumption DEF IInv, TypeOK
<1>2. today \in Int
  BY DaysAssumption DEF IInv, TypeOK
<1>3. acts \in 0..MaxActs /\ MaxActs \in Nat
  BY SizesAssumption DEF IInv, TypeOK
<1>4. Act => acts' \in 0..MaxActs
  BY <1>3 DEF Act
<1> QED
  BY <1>1, <1>2, <1>3, <1>4 DEF IInv, TypeOK, Calendar

\* What is filed stays filed when paydays are added.
LEMMA FiledMore ==
    ASSUME NEW it, NEW ps, NEW more, Filed(it, ps), ps \subseteq more
    PROVE  Filed(it, more)
BY DEF Filed

LEMMA RhythmFacts ==
    ASSUME NEW first \in Stated, NEW n \in Sizes, NEW rhythm \in Rhythms
    PROVE  /\ first \in Int /\ n \in Nat /\ n > 0
           /\ rhythm \in [gap : Nat \ {0}, shift : {"none", "prior", "next"}]
<1>1. first \in Int
  BY DaysAssumption
<1>2. n \in Nat /\ n > 0
  BY SizesAssumption
<1> QED
  BY <1>1, <1>2, RhythmsAssumption

\* register_user leaves a calendar.
LEMMA InitIInv == Init => IInv
<1>1. SUFFICES ASSUME Init PROVE IInv
  OBVIOUS
<1>2. PICK first \in Stated, n \in Sizes, rhythm \in Rhythms :
          LET batch == Batch({}, <<>>, first, n, rhythm, {})
          IN /\ batch.ok
             /\ paydays = batch.paydays /\ eras = batch.eras
             /\ history \in {d \in Stated : ~BelowHistory(First(paydays), d)} \cup {NoDay}
  BY <1>1 DEF Init
<1>3. first \in Int /\ n \in Nat /\ n > 0
      /\ rhythm \in [gap : Nat \ {0}, shift : {"none", "prior", "next"}]
  BY RhythmFacts
<1> DEFINE batch == Batch({}, <<>>, first, n, rhythm, {})
<1>4. batch.ok /\ paydays = batch.paydays /\ eras = batch.eras
  BY <1>2
<1>5. ~batch.taken
  <2>1. ErasStanding(<<>>, {} \ {}) = <<>>
    BY DEF ErasStanding
  <2>2. batch.taken = (/\ {Payday(Form(first, rhythm), k) : k \in 0..(n - 1)} \ ({} \ {}) # {}
                          /\ Mints(ErasStanding(<<>>, {} \ {}), first, rhythm)
                       /\ \E i \in DOMAIN ErasStanding(<<>>, {} \ {}) :
                              ErasStanding(<<>>, {} \ {})[i].from = first)
    BY Zenon DEF Batch, Form
  <2> DEFINE st == ErasStanding(<<>>, {} \ {})
  <2>3. DOMAIN st = {}
    BY <2>1
  <2> HIDE DEF st, batch
  <2>4. ~\E i \in DOMAIN st : st[i].from = first
    BY <2>3
  <2> QED
    BY <2>2, <2>4 DEF st
<1>6. Calendar(paydays, eras)
  <2>1. {} \ {} = {}
    OBVIOUS
  <2> HIDE DEF batch
  <2>2. Calendar(batch.paydays, batch.eras)
    BY <1>3, <1>4, <1>5, <2>1, BatchCalendar DEF batch
  <2> QED
    BY <1>4, <2>2
<1>7. history \in Int
  BY <1>2, DaysAssumption DEF NoDay
<1>8. items \in [Items -> Item] /\ Filed(items, paydays)
  BY <1>1 DEF Init, NoItem, Item, Filed, Rows
<1>9. today \in Opening..LastToday /\ acts \in 0..MaxActs /\ target \in Targets \cup {0}
  BY <1>1, DaysAssumption, SizesAssumption DEF Init
<1> QED
  BY <1>6, <1>7, <1>8, <1>9, CalendarType DEF IInv, TypeOK

LEMMA ExtendIInv == IInv /\ Extend => IInv'
<1>1. SUFFICES ASSUME IInv, Extend PROVE IInv'
  OBVIOUS
<1>2. PICK n \in Sizes : Act /\ paydays' = Continued(paydays, eras, n)
                         /\ UNCHANGED <<eras, history, target, items, today>>
  BY <1>1 DEF Extend
<1>3. n \in Nat
  BY SizesAssumption
<1>4. Calendar(paydays', eras')
  BY <1>1, <1>2, <1>3, StateFacts, ContinuedCalendar
<1>5. Filed(items', paydays')
  <2>1. paydays \subseteq paydays'
    BY <1>2 DEF Continued
  <2> QED
    BY <1>1, <1>2, <2>1, StateFacts, FiledMore
<1> QED
  BY <1>1, <1>2, <1>4, <1>5, StateFacts, IInvFromParts DEF IInv

\* What the window is short of is a number.
LEMMA DeficitFacts ==
    ASSUME IInv, RollDeficit(paydays, eras) > 0
    PROVE  RollDeficit(paydays, eras) \in Nat
<1> DEFINE open == {p \in paydays : EndOf(paydays, eras, p) >= today}
<1>1. IsFiniteSet(open)
  BY StateFacts, FS_Subset
<1>2. Cardinality(open) \in Nat /\ target \in Nat
  BY <1>1, StateFacts, FS_CardinalityType
<1>3. RollDeficit(paydays, eras) = target - Cardinality(open)
  BY DEF RollDeficit
<1> HIDE DEF open
<1> QED
  BY <1>2, <1>3

LEMMA TopUpIInv == IInv /\ TopUp => IInv'
<1>1. SUFFICES ASSUME IInv, TopUp PROVE IInv'
  OBVIOUS
<1> DEFINE n == RollDeficit(paydays, eras)
<1>2. /\ n > 0 /\ paydays' = Continued(paydays, eras, n)
      /\ UNCHANGED <<eras, history, target, items, today, acts>>
  BY <1>1 DEF TopUp, Rolled
<1>3. n \in Nat
  BY <1>1, <1>2, DeficitFacts
<1> HIDE DEF n
<1>4. Calendar(paydays', eras')
  BY <1>1, <1>2, <1>3, StateFacts, ContinuedCalendar
<1>5. Filed(items', paydays')
  <2>1. paydays \subseteq paydays'
    BY <1>2 DEF Continued
  <2> QED
    BY <1>1, <1>2, <2>1, StateFacts, FiledMore
<1> QED
  BY <1>1, <1>2, <1>4, <1>5, StateFacts, IInvFromParts DEF IInv

LEMMA AddEarlierIInv == IInv /\ AddEarlier => IInv'
<1>1. SUFFICES ASSUME IInv, AddEarlier PROVE IInv'
  OBVIOUS
<1>2. PICK n \in Sizes :
          LET steps == EarlierSteps(paydays, eras, n)
          IN  /\ Act
              /\ paydays' = paydays \cup {Payday(eras[1], k) : k \in steps}
              /\ eras' = Rephased(eras, Min(steps))
              /\ UNCHANGED <<history, target, items, today>>
  BY <1>1 DEF AddEarlier
<1>3. n \in Nat /\ n > 0
  BY SizesAssumption
<1>4. Calendar(paydays', eras')
  BY <1>1, <1>2, <1>3, StateFacts, EarlierCalendar
<1>5. Filed(items', paydays')
  <2>1. paydays \subseteq paydays'
    BY <1>2
  <2> QED
    BY <1>1, <1>2, <2>1, StateFacts, FiledMore
<1> QED
  BY <1>1, <1>2, <1>4, <1>5, StateFacts, IInvFromParts DEF IInv

\* What stays of the record, when its last paydays go.
LEMMA TailGone ==
    ASSUME IInv, NEW tail \in SUBSET paydays, First(paydays) \notin tail
    PROVE  Calendar(paydays \ tail, eras)
<1>1. Calendar(paydays, eras)
  BY StateFacts
<1>2. paydays \ tail \in SUBSET paydays /\ First(paydays) \in paydays \ tail
  BY <1>1, CalendarFacts
<1> QED
  BY <1>1, <1>2, KeptCalendar

\* gate_deletable_tail: what a deletable paycheck holds.
LEMMA DeletableFacts ==
    ASSUME NEW tail, Deletable(tail)
    PROVE  \A i \in Items : /\ items[i].kind \in {"held", "settled"} => items[i].row \notin tail
                            /\ items[i].kind = "balance" => items[i].filed \notin tail
<1>1. \A q \in tail : ~Locked(paydays, eras, q)
  BY DEF Deletable
<1>2. \A q \in tail : /\ Holding(q, {"held", "settled"}) = {}
                      /\ ~\E i \in Items : items[i].kind = "balance" /\ items[i].filed = q
  BY <1>1 DEF Locked
<1> QED
  BY <1>2 DEF Holding

LEMMA TruncateIInv == IInv /\ Truncate => IInv'
<1>1. SUFFICES ASSUME IInv, Truncate PROVE IInv'
  OBVIOUS
<1>2. PICK p \in paydays :
          /\ Act /\ Deletable(After(p))
          /\ paydays' = paydays \ After(p) /\ items' = Cascaded(items, After(p))
          /\ UNCHANGED <<eras, history, target, today>>
  BY <1>1 DEF Truncate
<1>3. After(p) \in SUBSET paydays /\ First(paydays) \notin After(p)
  <2>1. First(paydays) <= p /\ First(paydays) \in Int /\ p \in Int
    BY <1>1, StateFacts, CalendarFacts
  <2> DEFINE m == First(paydays)
  <2> HIDE DEF m
  <2>2. m \notin {q \in paydays : q > p}
    BY <2>1 DEF m
  <2> QED
    BY <2>2 DEF After, m
<1>4. Calendar(paydays', eras')
  BY <1>1, <1>2, <1>3, TailGone
<1>5. items' \in [Items -> Item] /\ Filed(items', paydays')
  BY <1>1, <1>2, DeletableFacts, StateFacts, CascadeFiled
<1> QED
  BY <1>1, <1>2, <1>4, <1>5, StateFacts, IInvFromParts DEF IInv

\* What a rebuild dooms is the end of the record, or all of it.
LEMMA RebuildableFacts ==
    ASSUME IInv
    PROVE  paydays \ Rebuildable = {} \/ Calendar(paydays \ Rebuildable, eras)
<1>1. Calendar(paydays, eras) /\ First(paydays) \in paydays /\ \A p \in paydays : First(paydays) <= p /\ p \in Int
  BY StateFacts, CalendarFacts
<1>2. Rebuildable \in SUBSET paydays
  BY DEF Rebuildable
<1>3. CASE First(paydays) \notin Rebuildable
  BY <1>2, <1>3, TailGone
<1>4. CASE First(paydays) \in Rebuildable
  <2> DEFINE open == {p \in paydays : p > today /\ ~Locked(paydays, eras, p)}
  <2>1. open # {} /\ Rebuildable = {p \in paydays : p >= Min(open)}
    BY <1>4 DEF Rebuildable
  <2>2. IsFiniteSet(open) /\ open \in SUBSET Int
    BY StateFacts, FS_Subset
  <2>3. Min(open) \in Int
    <3> HIDE DEF open
    <3> QED BY <2>1, <2>2, MinFacts
  <2> DEFINE m == First(paydays)
  <2> HIDE DEF open, m
  <2>4. m >= Min(open) /\ m \in Int
    BY <1>1, <1>4, <2>1 DEF m
  <2>5. \A p \in paydays : p >= Min(open)
    BY <1>1, <2>3, <2>4 DEF m
  <2> QED
    BY <2>1, <2>5
<1> QED
  BY <1>3, <1>4

LEMMA RegenerateIInv == IInv /\ Regenerate => IInv'
<1>1. SUFFICES ASSUME IInv, Regenerate PROVE IInv'
  OBVIOUS
<1> DEFINE doomed == Rebuildable
<1>2. PICK first \in Stated, n \in Sizes, rhythm \in Rhythms :
          LET batch == Batch(paydays, eras, first, n, rhythm, doomed)
          IN  /\ Act /\ Deletable(doomed) /\ batch.ok /\ ~batch.taken
              /\ Readable(batch.eras)
              /\ paydays' = batch.paydays /\ eras' = batch.eras
              /\ items' = Cascaded(items, doomed)
              /\ UNCHANGED <<history, target, today>>
  BY <1>1 DEF Regenerate
<1> DEFINE batch == Batch(paydays, eras, first, n, rhythm, doomed)
<1>3. first \in Int /\ n \in Nat /\ n > 0
      /\ rhythm \in [gap : Nat \ {0}, shift : {"none", "prior", "next"}]
  BY RhythmFacts
<1>4. batch.ok /\ ~batch.taken /\ Readable(batch.eras)
  BY <1>2
<1>5. paydays' = batch.paydays /\ eras' = batch.eras /\ items' = Cascaded(items, doomed)
  BY <1>2
<1>6. paydays \ doomed = {} \/ Calendar(paydays \ doomed, eras)
  BY <1>1, RebuildableFacts
<1>7. batch.paydays = (paydays \ doomed) \cup
                          ({Payday(Form(first, rhythm), k) : k \in 0..(n - 1)} \ (paydays \ doomed))
  BY Zenon DEF Batch, Form
<1> HIDE DEF doomed
<1>8. Calendar(batch.paydays, batch.eras)
  BY <1>3, <1>4, <1>6, BatchCalendar
<1> HIDE DEF batch
<1>9. items' \in [Items -> Item] /\ Filed(items', paydays \ doomed)
  BY <1>1, <1>2, <1>5, DeletableFacts, StateFacts, CascadeFiled
<1>10. Filed(items', paydays')
  <2>1. paydays \ doomed \subseteq paydays'
    BY <1>5, <1>7
  <2> QED
    BY <1>9, <2>1, FiledMore
<1> QED
  BY <1>1, <1>2, <1>5, <1>8, <1>9, <1>10, StateFacts, IInvFromParts DEF IInv

\* A reset takes every row and files every correction in the batch.
LEMMA ResetIInv == IInv /\ Reset => IInv'
<1>1. SUFFICES ASSUME IInv, Reset PROVE IInv'
  OBVIOUS
<1>2. PICK first \in Stated, n \in Sizes, rhythm \in Rhythms :
          LET batch == Batch(paydays, eras, first, n, rhythm, paydays)
          IN  /\ Act /\ batch.ok
              /\ paydays' = batch.paydays /\ eras' = batch.eras
              /\ items' = Refiled(Cascaded(items, paydays), batch.paydays)
              /\ UNCHANGED <<history, target, today>>
  BY <1>1 DEF Reset
<1> DEFINE batch == Batch(paydays, eras, first, n, rhythm, paydays)
<1>3. first \in Int /\ n \in Nat /\ n > 0
      /\ rhythm \in [gap : Nat \ {0}, shift : {"none", "prior", "next"}]
  BY RhythmFacts
<1>4. batch.ok /\ paydays' = batch.paydays /\ eras' = batch.eras
      /\ items' = Refiled(Cascaded(items, paydays), batch.paydays)
  BY <1>2
<1>5. paydays \ paydays = {}
  OBVIOUS
<1>6. ~batch.taken
  <2> DEFINE st == ErasStanding(eras, paydays \ paydays)
  <2>1. batch.taken = (/\ {Payday(Form(first, rhythm), k) : k \in 0..(n - 1)} \ (paydays \ paydays) # {}
                          /\ Mints(st, first, rhythm)
                       /\ \E i \in DOMAIN st : st[i].from = first)
    BY Zenon DEF Batch, Form
  <2>2. st = <<>>
    BY <1>5 DEF ErasStanding
  <2>3. DOMAIN st = {}
    BY <2>2
  <2> HIDE DEF st, batch
  <2>4. ~\E i \in DOMAIN st : st[i].from = first
    BY <2>3
  <2> QED
    BY <2>1, <2>4
<1> HIDE DEF batch
<1>7. Calendar(batch.paydays, batch.eras)
  BY <1>3, <1>4, <1>5, <1>6, BatchCalendar DEF batch
<1> DEFINE c == Cascaded(items, paydays)
<1>8. c \in [Items -> Item] /\ \A i \in Items : c[i].kind \notin Rows
  <2>1. /\ c \in [Items -> Item]
        /\ \A i \in Items :
             /\ items[i].kind \in Rows /\ items[i].row \in paydays => c[i] = NoItem
             /\ items[i].kind = "balance" => c[i].kind = "balance"
             /\ items[i].kind = "none" => c[i] = items[i]
    BY <1>1, StateFacts, CascadeFacts
  <2> HIDE DEF c
  <2>2. ASSUME NEW i \in Items PROVE c[i].kind \notin Rows
    <3>1. items[i].kind \in Rows \/ items[i].kind = "balance" \/ items[i].kind = "none"
      BY <1>1, StateFacts DEF Item, Rows
    <3>2. items[i].kind \in Rows => items[i].row \in paydays
      BY <1>1, StateFacts DEF Filed
    <3> QED
      BY <2>1, <3>1, <3>2 DEF Rows, NoItem
  <2> QED
    BY <2>1, <2>2
<1> HIDE DEF c
<1>9. items' = Refiled(c, paydays')
  BY <1>4 DEF c
<1>10. paydays' \in SUBSET Int /\ IsFiniteSet(paydays') /\ paydays' # {}
  BY <1>4, <1>7 DEF Calendar
<1>11. /\ items' \in [Items -> Item]
       /\ \A i \in Items : /\ items'[i].kind = c[i].kind
                           /\ c[i].kind = "balance" => items'[i].filed \in paydays'
  BY <1>8, <1>9, <1>10, RefiledFacts
<1>12. Filed(items', paydays')
  BY <1>8, <1>11 DEF Filed
<1> QED
  BY <1>1, <1>2, <1>4, <1>7, <1>11, <1>12, StateFacts, IInvFromParts DEF IInv

LEMMA RemoveEarlierIInv == IInv /\ RemoveEarlier => IInv'
<1>1. SUFFICES ASSUME IInv, RemoveEarlier PROVE IInv'
  OBVIOUS
<1>2. PICK p \in paydays :
          LET head == {q \in paydays : q < p}
              at == Matched(eras, p)
          IN  /\ Act
              /\ \A q \in head : Holding(q, {"owned", "held", "settled"}) = {}
              /\ at.era = 1 /\ Readable(Rephased(eras, at.step))
              /\ paydays' = paydays \ head /\ eras' = Rephased(eras, at.step)
              /\ items' = Refiled(Cascaded(items, head), paydays \ head)
              /\ UNCHANGED <<history, target, today>>
  BY <1>1 DEF RemoveEarlier
<1> DEFINE head == {q \in paydays : q < p}
           c == Cascaded(items, head)
<1>3. Calendar(paydays', eras')
  BY <1>1, <1>2, StateFacts, HeadlessCalendar
<1>4. /\ items' = Refiled(c, paydays') /\ paydays' = paydays \ head
      /\ \A q \in head : Holding(q, Rows) = {}
  BY <1>2 DEF Rows
<1> HIDE DEF head
<1>5. /\ c \in [Items -> Item]
      /\ \A i \in Items :
             /\ items[i].kind \in Rows /\ items[i].row \notin head => c[i] = items[i]
             /\ items[i].kind = "balance" => c[i].kind = "balance"
             /\ items[i].kind = "none" => c[i] = items[i]
  BY <1>1, StateFacts, CascadeFacts
<1> HIDE DEF c
<1>6. ASSUME NEW i \in Items PROVE c[i].kind \in Rows => c[i].row \in paydays'
  <2>1. items[i].kind \in Rows \/ items[i].kind = "balance" \/ items[i].kind = "none"
    BY <1>1, StateFacts DEF Item, Rows
  <2>2. CASE items[i].kind \in Rows
    <3>1. items[i].row \notin head
      BY <1>4, <2>2 DEF Holding
    <3>2. items[i].row \in paydays
      BY <1>1, <2>2, StateFacts DEF Filed
    <3> QED
      BY <1>4, <1>5, <2>2, <3>1, <3>2
  <2> QED
    BY <1>5, <2>1, <2>2 DEF Rows
<1>7. paydays' \in SUBSET Int /\ IsFiniteSet(paydays') /\ paydays' # {}
  BY <1>3 DEF Calendar
<1>8. /\ items' \in [Items -> Item]
      /\ \A i \in Items : /\ items'[i].kind = c[i].kind /\ items'[i].row = c[i].row
                          /\ c[i].kind = "balance" => items'[i].filed \in paydays'
  <2>1. items' = Refiled(c, paydays') /\ c \in [Items -> Item]
    BY <1>4, <1>5
  <2>2. items' \in [Items -> Item]
    BY <1>7, <2>1, RefiledFacts
  <2>3. \A i \in Items : items'[i].kind = c[i].kind /\ items'[i].row = c[i].row
    BY <1>7, <2>1, RefiledFacts
  <2>4. \A i \in Items : c[i].kind = "balance" => items'[i].filed \in paydays'
    BY <1>7, <2>1, RefiledFacts
  <2> QED
    BY <2>2, <2>3, <2>4
<1>9. Filed(items', paydays')
  BY <1>6, <1>8 DEF Filed
<1> QED
  BY <1>1, <1>2, <1>3, <1>8, <1>9, StateFacts, IInvFromParts DEF IInv

\* The days money may be dated on are days.
LEMMA FloorFacts ==
    ASSUME NEW ps \in SUBSET Int, IsFiniteSet(ps), NEW day \in Int
    PROVE  Floor(ps, day) \in Int
<1>1. CASE ps = {}
  BY <1>1 DEF Floor
<1>2. CASE ps # {}
  <2>1. First(ps) \in Int
    BY <1>2, MinFacts DEF First
  <2> QED
    BY <2>1 DEF Floor
<1> QED
  BY <1>1, <1>2

\* What the owner enters or records has its paycheck.
LEMMA ItemsIInv ==
    IInv /\ (\E i \in Items : Enter(i) \/ Settle(i) \/ Revert(i) \/ RecordBalance(i)) => IInv'
<1>1. SUFFICES ASSUME IInv, NEW i \in Items,
                      Enter(i) \/ Settle(i) \/ Revert(i) \/ RecordBalance(i)
               PROVE  IInv'
  OBVIOUS
<1>2. /\ Calendar(paydays, eras) /\ Filed(items, paydays) /\ items \in [Items -> Item]
      /\ paydays \in SUBSET Int /\ IsFiniteSet(paydays) /\ paydays # {} /\ today \in Int
      /\ items[i] \in Item
  BY <1>1, StateFacts
<1>3. \A d \in Recordable : d \in Int
  <2>1. Floor(paydays, today) \in Int
    BY <1>2, FloorFacts
  <2> QED
    BY <1>2, <2>1 DEF Recordable
<1>4. ASSUME NEW item \in Item, Put(i, item),
             item.kind = "balance" => item.filed \in paydays,
             item.kind \in Rows => item.row \in paydays
      PROVE  IInv'
  <2>1. /\ Act /\ items' = [items EXCEPT ![i] = item]
        /\ UNCHANGED <<paydays, eras, history, target, today>>
    BY <1>4 DEF Put
  <2>2. items' \in [Items -> Item]
    BY <1>2, <2>1
  <2>3. Filed(items', paydays')
    <3>1. ASSUME NEW j \in Items
          PROVE  /\ items'[j].kind = "balance" => items'[j].filed \in paydays
                 /\ items'[j].kind \in Rows => items'[j].row \in paydays
      <4>1. CASE j = i
        BY <1>2, <1>4, <2>1, <4>1
      <4>2. CASE j # i
        BY <1>2, <2>1, <4>2 DEF Filed
      <4> QED
        BY <4>1, <4>2
    <3> QED
      BY <2>1, <3>1 DEF Filed
  <2>4. Calendar(paydays', eras')
    BY <1>2, <2>1
  <2> QED
    BY <1>1, <2>1, <2>2, <2>3, <2>4, StateFacts, IInvFromParts DEF IInv
<1>5. CASE Enter(i)
  <2>1. PICK p \in paydays : Put(i, [NoItem EXCEPT !.kind = "owned", !.row = p])
    BY <1>5 DEF Enter
  <2> DEFINE item == [NoItem EXCEPT !.kind = "owned", !.row = p]
  <2>2. item \in Item /\ item.kind = "owned" /\ item.row = p /\ p \in Int
    <3>1. NoItem \in Item
      BY DEF NoItem, Item
    <3>2. p \in Int
      BY <1>2
    <3> QED
      BY <3>1, <3>2 DEF Item
  <2> HIDE DEF item
  <2> QED
    BY <1>4, <2>1, <2>2 DEF item
<1>6. CASE Settle(i)
  <2>1. PICK d \in Recordable : Put(i, [items[i] EXCEPT !.kind = "settled", !.day = d])
    BY <1>6 DEF Settle
  <2> DEFINE item == [items[i] EXCEPT !.kind = "settled", !.day = d]
  <2>2. item \in Item /\ item.kind = "settled" /\ item.row = items[i].row
    BY <1>2, <1>3 DEF Item
  <2>3. items[i].row \in paydays
    BY <1>2, <1>6 DEF Settle, Filed, Rows
  <2> HIDE DEF item
  <2> QED
    BY <1>4, <2>1, <2>2, <2>3 DEF item
<1>7. CASE Revert(i)
  <2> DEFINE item == [items[i] EXCEPT !.kind = "held", !.day = 0]
  <2>1. Put(i, item)
    BY <1>7 DEF Revert
  <2>2. item \in Item /\ item.kind = "held" /\ item.row = items[i].row
    <3>1. items[i] \in Item /\ 0 \in Int
      BY <1>2
    <3> QED
      BY <3>1 DEF Item
  <2>3. items[i].row \in paydays
    BY <1>2, <1>7 DEF Revert, Filed, Rows
  <2> HIDE DEF item
  <2> QED
    BY <1>4, <2>1, <2>2, <2>3
<1>8. CASE RecordBalance(i)
  <2>1. PICK d \in Recordable :
            Put(i, [NoItem EXCEPT !.kind = "balance", !.day = d, !.filed = FilingPeriod(paydays, d)])
    BY <1>8 DEF RecordBalance
  <2> DEFINE f == FilingPeriod(paydays, d)
             item == [NoItem EXCEPT !.kind = "balance", !.day = d, !.filed = f]
  <2>2. f \in paydays /\ f \in Int /\ d \in Int
    BY <1>2, <1>3, FilingFacts
  <2>3. Put(i, item)
    BY <2>1
  <2> HIDE DEF f
  <2>4. item \in Item /\ item.kind = "balance" /\ item.filed = f
    <3>1. NoItem \in Item
      BY DEF NoItem, Item
    <3> QED
      BY <2>2, <3>1 DEF Item
  <2> HIDE DEF item
  <2> QED
    BY <1>4, <2>2, <2>3, <2>4 DEF Rows
<1> QED
  BY <1>1, <1>5, <1>6, <1>7, <1>8

LEMMA OtherIInv == IInv /\ (StateHistory \/ SetRolling \/ Tomorrow \/ UNCHANGED vars) => IInv'
<1>1. SUFFICES ASSUME IInv, StateHistory \/ SetRolling \/ Tomorrow \/ UNCHANGED vars
               PROVE  IInv'
  OBVIOUS
<1>2. Calendar(paydays, eras) /\ Filed(items, paydays) /\ items \in [Items -> Item]
      /\ history \in Int /\ target \in Targets \cup {0} /\ today \in Opening..LastToday
      /\ acts \in 0..MaxActs /\ (Act => acts' \in 0..MaxActs)
  BY <1>1, StateFacts
<1>3. UNCHANGED <<paydays, eras, items>>
  BY <1>1 DEF StateHistory, SetRolling, Tomorrow, vars
<1>4. Calendar(paydays', eras') /\ Filed(items', paydays') /\ items' \in [Items -> Item]
  BY <1>2, <1>3
<1>5. history' \in Int
  <2>1. Stated \cup {NoDay} \subseteq Int
    BY DaysAssumption DEF NoDay
  <2> QED
    BY <1>1, <1>2, <2>1 DEF StateHistory, SetRolling, Tomorrow, vars
<1>6. target' \in Targets \cup {0}
  BY <1>1, <1>2 DEF StateHistory, SetRolling, Tomorrow, vars
<1>7. today' \in Opening..LastToday
  BY <1>1, <1>2, DaysAssumption DEF StateHistory, SetRolling, Tomorrow, vars
<1>8. acts' \in 0..MaxActs
  BY <1>1, <1>2 DEF StateHistory, SetRolling, Tomorrow, vars
<1> QED
  BY <1>1, <1>4, <1>5, <1>6, <1>7, <1>8, IInvFromParts DEF IInv

\* IInv is inductive.
THEOREM Invariance == Spec => []IInv
<1>1. Init => IInv
  BY InitIInv
<1>2. IInv /\ [Next]_vars => IInv'
  BY ExtendIInv, TopUpIInv, AddEarlierIInv, RemoveEarlierIInv, TruncateIInv, RegenerateIInv,
     ResetIInv, ItemsIInv, OtherIInv DEF Next
<1> QED
  BY <1>1, <1>2, PTL DEF Spec

(***************************************************************************)
(* The properties the runs check.                                          *)
(***************************************************************************)

\* Whatever doors come before, the calendar can be read (validate_eras), and
\* the first payday recorded is the earliest era's first.
THEOREM CalendarRead == Spec => []CalendarIsReadable
<1>1. IInv => CalendarIsReadable
  <2>1. SUFFICES ASSUME IInv PROVE CalendarIsReadable
    OBVIOUS
  <2>2. Plan(eras) /\ First(paydays) = Payday(eras[1], 0)
    BY <2>1 DEF IInv, Calendar, FirstPayday
  <2>3. FirstStep(eras, 0)
    <3>1. Len(eras) \in Nat /\ 1 \in 1..Len(eras)
      BY <2>2, PlanFacts
    <3>2. 1 < Len(eras) => LastStep(eras, 1) \in Nat
      BY <2>2, <3>1, LastStepFacts
    <3> QED
      BY <3>2 DEF FirstStep
  <2>4. Matched(eras, First(paydays)) = [era |-> 1, step |-> 0]
    BY <2>2, <2>3, MatchedInFirst
  <2> QED
    BY <2>1, <2>2, <2>4 DEF IInv, CalendarIsReadable, RecordOpensTheEarliestEra, Plan
<1> QED
  BY <1>1, Invariance, PTL

\* Removing what was just added earlier leaves the eras as they were found
\* (opening_rephase).
THEOREM EarlierIsUndone == Spec => []EarlierUndoes
<1>1. IInv => EarlierUndoes
  <2>1. SUFFICES ASSUME IInv, NEW n \in Sizes
                 PROVE  LET moved == Rephased(eras, Min(EarlierSteps(paydays, eras, n)))
                        IN  Rephased(moved, Matched(moved, First(paydays)).step) = eras
    BY DEF EarlierUndoes
  <2>2. n \in Nat /\ n > 0
    BY SizesAssumption
  <2> QED
    BY <2>1, <2>2, StateFacts, EarlierUndone
<1> QED
  BY <1>1, Invariance, PTL

\* A payday already recorded ends no later once the plan is continued.
LEMMA EndsNoLater ==
    ASSUME NEW ps, NEW es, Calendar(ps, es), NEW n \in Nat, n > 0, NEW p \in ps,
           Continued(ps, es, n) # ps
    PROVE  LET more == Continued(ps, es, n)
           IN  /\ EndOf(ps, es, p) \in Int /\ EndOf(more, es, p) \in Int
               /\ EndOf(more, es, p) <= EndOf(ps, es, p)
<1> DEFINE new == Continuation(ps, es, n)
           more == Continued(ps, es, n)
           later == {q \in more : q > p}
<1>1. /\ more = ps \cup new /\ IsFiniteSet(new)
      /\ \A q \in new : q \in Int /\ Latest(ps) < q
  BY ContinuedFacts
<1>2. /\ ps \in SUBSET Int /\ IsFiniteSet(ps) /\ p \in Int /\ p <= Latest(ps) /\ Plan(es)
      /\ Latest(ps) \in ps /\ Latest(ps) \in Int /\ FirstPayday(es[1]) <= Latest(ps)
      /\ \A q \in ps : q <= Latest(ps)
  BY CalendarFacts DEF Calendar
<1>3. PaydayAfter(es, Latest(ps)) \in new
  <2>1. 1 \in 1..n
    OBVIOUS
  <2> QED
    BY <2>1 DEF PaydayAfter, Continuation
<1> HIDE DEF new, more
<1>4. more \in SUBSET Int /\ IsFiniteSet(more)
  <2>1. more \in SUBSET Int
    BY <1>1, <1>2
  <2> QED
    BY <1>1, <1>2, <2>1, FS_Union
<1>5. Latest(more) # p
  <2>1. PaydayAfter(es, Latest(ps)) \in more /\ p < PaydayAfter(es, Latest(ps))
    BY <1>1, <1>2, <1>3
  <2> DEFINE q == PaydayAfter(es, Latest(ps))
  <2> HIDE DEF q
  <2>2. q \in more /\ p < q
    BY <2>1 DEF q
  <2>3. Max(more) \in Int /\ q <= Max(more)
    BY <1>4, <2>2, MaxFacts
  <2> QED
    BY <1>2, <1>4, <2>2, <2>3 DEF Latest
<1>6. later \in SUBSET Int /\ IsFiniteSet(later) /\ PaydayAfter(es, Latest(ps)) \in later
  <2>1. later \in SUBSET Int /\ later \subseteq more
    BY <1>4
  <2>2. IsFiniteSet(later)
    BY <1>4, <2>1, FS_Subset
  <2>3. PaydayAfter(es, Latest(ps)) \in later
    BY <1>1, <1>2, <1>3
  <2> QED
    BY <2>1, <2>2, <2>3
<1>7. EndOf(more, es, p) = Min(later) - 1
  BY <1>5 DEF EndOf
<1> HIDE DEF later
<1>8. Min(later) \in later /\ Min(later) \in Int /\ \A q \in later : Min(later) <= q
  BY <1>6, MinFacts
<1>9. CASE p = Latest(ps)
  <2>1. EndOf(ps, es, p) = PaydayAfter(es, Latest(ps)) - 1
    BY <1>9 DEF EndOf
  <2> DEFINE d == PaydayAfter(es, Latest(ps))
  <2>2. d \in Int /\ Min(later) <= d
    BY <1>1, <1>3, <1>6, <1>8
  <2> HIDE DEF d
  <2>3. EndOf(ps, es, p) = d - 1
    BY <2>1 DEF d
  <2> QED
    BY <1>7, <1>8, <2>2, <2>3 DEF more
<1>10. CASE p # Latest(ps)
  <2> DEFINE rest == {q \in ps : q > p}
  <2>1. EndOf(ps, es, p) = Min(rest) - 1
    BY <1>10 DEF EndOf
  <2>2. rest \in SUBSET Int /\ IsFiniteSet(rest) /\ rest # {} /\ rest \subseteq later
    <3>1. rest \in SUBSET Int /\ rest \subseteq ps /\ rest \subseteq later
      BY <1>1, <1>2 DEF later
    <3>2. IsFiniteSet(rest)
      BY <1>2, <3>1, FS_Subset
    <3>3. Latest(ps) \in rest
      BY <1>2, <1>10
    <3> QED
      BY <3>1, <3>2, <3>3
  <2> HIDE DEF rest
  <2>3. Min(rest) \in rest /\ Min(rest) \in Int
    BY <2>2, MinFacts
  <2>4. Min(later) <= Min(rest)
    BY <1>8, <2>2, <2>3
  <2> QED
    BY <1>7, <1>8, <2>1, <2>3, <2>4 DEF more
<1> QED
  BY <1>9, <1>10

\* With what a render adds, no more than the target are open
\* (top_up_rolling_window).
THEOREM WindowStops == Spec => []WindowNeverOverfills
<1>1. IInv => WindowNeverOverfills
  <2>1. SUFFICES ASSUME IInv, Rolled(paydays) # paydays
                 PROVE  LET ps == Rolled(paydays)
                        IN  Cardinality({p \in ps : EndOf(ps, eras, p) >= today}) <= target
    BY DEF WindowNeverOverfills
  <2> DEFINE n == RollDeficit(paydays, eras)
             more == Continued(paydays, eras, n)
             new == Continuation(paydays, eras, n)
             open == {p \in paydays : EndOf(paydays, eras, p) >= today}
             wide == {p \in more : EndOf(more, eras, p) >= today}
  <2>2. n > 0 /\ Rolled(paydays) = more
    BY <2>1 DEF Rolled
  <2>3. n \in Nat
    BY <2>1, <2>2, DeficitFacts
  <2>4. /\ Calendar(paydays, eras) /\ today \in Int /\ IsFiniteSet(paydays) /\ target \in Nat
    BY <2>1, StateFacts
  <2>5. n = target - Cardinality(open)
    BY DEF RollDeficit
  <2>6. more # paydays
    BY <2>1, <2>2
  <2> HIDE DEF n
  <2>7. more = paydays \cup new /\ IsFiniteSet(new) /\ Cardinality(new) \in Nat /\ Cardinality(new) <= n
    BY <2>3, <2>4, ContinuedFacts
  <2>8. ASSUME NEW p \in paydays, EndOf(more, eras, p) >= today
        PROVE  p \in open
    <3>1. /\ EndOf(paydays, eras, p) \in Int /\ EndOf(more, eras, p) \in Int
          /\ EndOf(more, eras, p) <= EndOf(paydays, eras, p)
      BY <2>2, <2>3, <2>4, <2>6, EndsNoLater
    <3> DEFINE a == EndOf(more, eras, p)
               b == EndOf(paydays, eras, p)
    <3>2. a \in Int /\ b \in Int /\ a <= b /\ a >= today
      BY <2>8, <3>1
    <3> HIDE DEF a, b
    <3>3. b >= today
      BY <2>4, <3>2
    <3> QED
      BY <3>3 DEF b
  <2> HIDE DEF more
  <2>9. wide \subseteq open \cup new
    BY <2>7, <2>8
  <2>10. IsFiniteSet(open)
    BY <2>4, FS_Subset
  <2> HIDE DEF open, new, wide
  <2>11. /\ IsFiniteSet(open \cup new)
         /\ Cardinality(open \cup new) = Cardinality(open) + Cardinality(new) - Cardinality(open \cap new)
         /\ Cardinality(open) \in Nat /\ Cardinality(open \cap new) \in Nat
    <3>1. IsFiniteSet(open \cap new)
      BY <2>10, FS_Intersection
    <3> QED
      BY <2>7, <2>10, <3>1, FS_Union, FS_CardinalityType
  <2>12. Cardinality(wide) \in Nat /\ Cardinality(wide) <= Cardinality(open \cup new)
    BY <2>9, <2>11, FS_Subset, FS_CardinalityType
  <2>13. Cardinality(wide) <= target
    <3> DEFINE a == Cardinality(wide)
               b == Cardinality(open \cup new)
               c == Cardinality(open)
               d == Cardinality(new)
               e == Cardinality(open \cap new)
    <3>1. /\ a \in Nat /\ a <= b /\ b = c + d - e /\ c \in Nat /\ d \in Nat /\ e \in Nat
          /\ d <= n /\ n = target - c
      BY <2>5, <2>7, <2>11, <2>12
    <3> HIDE DEF a, b, c, d, e
    <3>2. a <= target
      BY <2>3, <2>4, <3>1
    <3> QED
      BY <3>2 DEF a
  <2> QED
    BY <2>2, <2>13 DEF wide
<1> QED
  BY <1>1, Invariance, PTL

\* A removed paycheck takes nothing settled or paid for with it, and a
\* recorded balance stays recorded.
LEMMA PaidStays ==
    ASSUME IInv, [Next]_vars, NEW i \in Items, items[i].kind \in {"held", "settled", "balance"}
    PROVE  items'[i].kind # "none"
<1>1. items \in [Items -> Item] /\ Filed(items, paydays) /\ Calendar(paydays, eras)
  BY StateFacts
<1>2. CASE items' = items
  BY <1>2
<1>3. CASE Truncate
  <2>1. PICK p \in paydays : Deletable(After(p)) /\ items' = Cascaded(items, After(p))
    BY <1>3 DEF Truncate
  <2> QED
    BY <1>1, <2>1, DeletableFacts, CascadeFiled
<1>4. CASE Regenerate
  <2>1. Deletable(Rebuildable) /\ items' = Cascaded(items, Rebuildable)
    BY <1>4 DEF Regenerate
  <2> QED
    BY <1>1, <2>1, DeletableFacts, CascadeFiled
<1>5. CASE RemoveEarlier
  <2>1. PICK p \in paydays :
            LET head == {q \in paydays : q < p}
            IN  /\ \A q \in head : Holding(q, {"owned", "held", "settled"}) = {}
                /\ Matched(eras, p).era = 1 /\ Readable(Rephased(eras, Matched(eras, p).step))
                /\ items' = Refiled(Cascaded(items, head), paydays \ head)
    BY <1>5 DEF RemoveEarlier
  <2> DEFINE head == {q \in paydays : q < p}
             c == Cascaded(items, head)
  <2>2. (\A q \in head : Holding(q, Rows) = {}) /\ items' = Refiled(c, paydays \ head)
    BY <2>1 DEF Rows
  <2>3. /\ paydays \ head \in SUBSET Int /\ IsFiniteSet(paydays \ head) /\ paydays \ head # {}
    BY <1>1, <2>1, HeadlessCalendar DEF Calendar
  <2> HIDE DEF head
  <2>4. /\ c \in [Items -> Item]
        /\ items[i].kind \in Rows /\ items[i].row \notin head => c[i] = items[i]
        /\ items[i].kind = "balance" => c[i].kind = "balance"
    BY <1>1, CascadeFacts
  <2> HIDE DEF c
  <2>5. c[i].kind # "none"
    <3>1. items[i].kind \in Rows => items[i].row \notin head
      BY <2>2 DEF Holding
    <3> QED
      BY <2>4, <3>1 DEF Rows
  <2> QED
    BY <2>2, <2>3, <2>4, <2>5, RefiledFacts
<1>6. CASE Reset
  <2>1. PICK first \in Stated, n \in Sizes, rhythm \in Rhythms :
            LET batch == Batch(paydays, eras, first, n, rhythm, paydays)
            IN  /\ \A j \in Items : items[j].kind \notin {"held", "settled"}
                /\ items' = Refiled(Cascaded(items, paydays), batch.paydays)
    BY <1>6 DEF Reset
  <2> DEFINE c == Cascaded(items, paydays)
             ps == Batch(paydays, eras, first, n, rhythm, paydays).paydays
  <2>2. items[i].kind = "balance" /\ items' = Refiled(c, ps)
    BY <2>1
  <2>3. c \in [Items -> Item] /\ c[i].kind = "balance"
    BY <1>1, <2>2, CascadeFacts
  <2> HIDE DEF c, ps
  <2>4. items'[i] = [c[i] EXCEPT !.filed = FilingPeriod(ps, c[i].day)]
    BY <2>2, <2>3 DEF Refiled
  <2>5. c[i] \in Item
    BY <2>3
  <2> QED
    BY <2>3, <2>4, <2>5 DEF Item
<1>7. ASSUME NEW j \in Items, Enter(j) \/ Settle(j) \/ Revert(j) \/ RecordBalance(j)
      PROVE  items'[i].kind # "none"
  <2>1. (Enter(j) \/ RecordBalance(j)) => j # i
    <3>1. (Enter(j) \/ RecordBalance(j)) => items[j] = NoItem
      BY DEF Enter, RecordBalance
    <3>2. NoItem.kind = "none"
      BY DEF NoItem
    <3> QED
      BY <3>1, <3>2
  <2>2. j # i => items'[i] = items[i]
    BY <1>1, <1>7 DEF Enter, Settle, Revert, RecordBalance, Put
  <2>3. j = i => items'[i].kind # "none"
    <3>1. SUFFICES ASSUME j = i, Settle(i) \/ Revert(i) PROVE items'[i].kind # "none"
      BY <1>7, <2>1
    <3>2. items[i] \in Item
      BY <1>1
    <3>3. CASE Settle(i)
      <4>1. PICK d \in Recordable : items' = [items EXCEPT ![i] = [items[i] EXCEPT !.kind = "settled", !.day = d]]
        BY <3>3 DEF Settle, Put
      <4>2. items'[i] = [items[i] EXCEPT !.kind = "settled", !.day = d]
        BY <1>1, <4>1
      <4> QED
        BY <3>2, <4>2 DEF Item
    <3>4. CASE Revert(i)
      <4>1. items'[i] = [items[i] EXCEPT !.kind = "held", !.day = 0]
        BY <1>1, <3>4 DEF Revert, Put
      <4> QED
        BY <3>2, <4>1 DEF Item
    <3> QED
      BY <3>1, <3>3, <3>4
  <2> QED
    BY <2>2, <2>3
<1> QED
  BY <1>2, <1>3, <1>4, <1>5, <1>6, <1>7
  DEF Next, Extend, TopUp, AddEarlier, StateHistory, SetRolling, Tomorrow, vars

\* _reject_dated_money: what the floor moves over carries no dated money.
LEMMA MoneyStaysDatable ==
    ASSUME IInv, RemoveEarlier, NEW i \in Items, items[i].kind \in {"settled", "balance"}
    PROVE  items[i].day < Floor(paydays, today) \/ items[i].day >= Floor(paydays', today)
<1>1. PICK p \in paydays :
          LET head == {q \in paydays : q < p}
          IN  /\ head # {} /\ HeadDates(head, paydays \ head) = {}
              /\ paydays' = paydays \ head
  BY DEF RemoveEarlier
<1> DEFINE head == {q \in paydays : q < p}
           m == First(paydays)
<1>2. /\ items \in [Items -> Item] /\ paydays \in SUBSET Int /\ IsFiniteSet(paydays) /\ paydays # {}
      /\ today \in Int /\ items[i].day \in Int
  BY StateFacts DEF Item
<1>3. m \in paydays /\ \A q \in paydays : m <= q
  BY StateFacts, CalendarFacts
<1>4. head # {} /\ HeadDates(head, paydays \ head) = {} /\ paydays' = paydays \ head
  BY <1>1
<1> HIDE DEF m
<1>5. m \in head /\ \A q \in head : m <= q
  <2>1. PICK q \in head : TRUE
    BY <1>4
  <2>2. m <= q /\ q < p /\ p \in Int /\ q \in Int /\ m \in Int
    BY <1>2, <1>3
  <2>3. m < p
    BY <2>2
  <2> QED
    BY <1>3, <2>3
<1>6. head \in SUBSET Int /\ head \subseteq paydays
  BY <1>2
<1> HIDE DEF head
<1>7. First(head) = First(paydays)
  BY <1>5, <1>6, MinIs DEF First, m
<1>8. Floor(head, today) = Floor(paydays, today)
  BY <1>2, <1>4, <1>7 DEF Floor
<1>9. Floor(paydays, today) \in Int /\ Floor(paydays', today) \in Int
  <2>1. paydays \ head \in SUBSET Int /\ IsFiniteSet(paydays \ head)
    BY <1>2, FS_Subset
  <2> QED
    BY <1>2, <1>4, <2>1, FloorFacts
<1>10. items[i].day \notin Floor(paydays, today)..(Floor(paydays', today) - 1)
  BY <1>4, <1>8 DEF HeadDates
<1> QED
  BY <1>2, <1>9, <1>10

\* Whatever paychecks a door removes or rebuilds, money keeps a paycheck to be
\* filed in and a day it may be dated on (gate_deletable_tail,
\* gate_removable_head, _reject_dated_money, _refile_ledger).
THEOREM MoneyStaysFiled == Spec => MoneyKeepsItsPaycheck
<1> DEFINE Kept == \A i \in Items :
                      /\ items'[i].kind = "balance" => items'[i].filed \in paydays'
                      /\ items'[i].kind \in {"owned", "held", "settled"} => items'[i].row \in paydays'
           Stays == \A i \in Items : items[i].kind \in {"held", "settled", "balance"} =>
                                        items'[i].kind # "none"
           Datable == RemoveEarlier =>
                        \A i \in Items : items[i].kind \in {"settled", "balance"} =>
                            \/ items[i].day < Floor(paydays, today)
                            \/ items[i].day >= Floor(paydays', today)
<1>1. IInv /\ IInv' /\ [Next]_vars => [Kept]_vars
  BY DEF IInv, Filed, Rows
<1>2. IInv /\ [Next]_vars => [Stays]_vars
  BY PaidStays
<1>3. IInv /\ [Next]_vars => [Datable]_vars
  BY MoneyStaysDatable
<1> HIDE DEF Kept, Stays, Datable
<1>4. Spec => [][Kept]_vars /\ [][Stays]_vars /\ [][Datable]_vars
  BY <1>1, <1>2, <1>3, Invariance, PTL DEF Spec
<1> QED
  BY <1>4 DEF Kept, Stays, Datable, MoneyKeepsItsPaycheck, RecordsKeepTheirPaycheck, PaidItemsStay,
              RemovalsKeepMoneyDatable

=============================================================================
