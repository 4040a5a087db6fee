----------------------------- MODULE SumsProofs -----------------------------
(***************************************************************************)
(* What the sum of a function over a finite set does.  The library defines *)
(* it by recursion over an element CHOOSEn from the set; a sum of          *)
(* integers is shown not to depend on that choice, which is what the       *)
(* ledgers and card totals of the models rest on.                          *)
(***************************************************************************)
EXTENDS Integers, Functions, FiniteSetsExt, FiniteSetTheorems, WellFoundedInduction, TLAPS

(***************************************************************************)
(* Induction over the subsets of a finite set.  The library states it with *)
(* a predicate as a parameter; here the predicate is the set P of subsets  *)
(* it holds of.                                                            *)
(***************************************************************************)

\* A set of subsets that contains a subset whenever it contains all smaller
\* ones contains them all: there is no smallest subset outside of it.
LEMMA SubsetInduction ==
    ASSUME NEW T, IsFiniteSet(T), NEW P,
           \A s \in SUBSET T : (\A u \in SUBSET s : u # s => u \in P) => s \in P
    PROVE  \A s \in SUBSET T : s \in P
<1> DEFINE Subs == FiniteSubsetsOf(T)
           Bad == {s \in Subs : s \notin P}
<1>1. \A s \in SUBSET T : s \in Subs
  BY FS_Subset DEF FiniteSubsetsOf
<1>2. IsWellFoundedOn(StrictSubsetOrdering(T), Subs)
  BY FS_StrictSubsetOrderingWellFounded
<1>3. SUFFICES ASSUME Bad # {} PROVE FALSE
  BY <1>1
<1>4. PICK s \in Bad : \A u \in Bad : <<u, s>> \notin StrictSubsetOrdering(T)
  <2>1. Bad \subseteq Subs
    OBVIOUS
  <2> HIDE DEF Bad, Subs
  <2> QED
    BY <1>2, <1>3, <2>1, WFMin
<1>5. s \in SUBSET T /\ s \notin P
  BY DEF FiniteSubsetsOf
<1>6. ASSUME NEW u \in SUBSET s, u # s
      PROVE  u \in P
  <2>1. u \in SUBSET T /\ <<u, s>> \in StrictSubsetOrdering(T)
    BY <1>5, <1>6 DEF StrictSubsetOrdering
  <2> QED
    BY <1>1, <1>4, <2>1
<1> QED
  BY <1>5, <1>6

\* A set of subsets that contains the empty one, and a subset with one more
\* element whenever it contains the subset, contains them all.
LEMMA ElementInduction ==
    ASSUME NEW T, IsFiniteSet(T), NEW P, {} \in P,
           \A s \in SUBSET T : \A x \in T \ s : s \in P => s \cup {x} \in P
    PROVE  T \in P
<1>1. ASSUME NEW s \in SUBSET T, \A u \in SUBSET s : u # s => u \in P
      PROVE  s \in P
  <2>1. CASE s = {}
    BY <2>1
  <2>2. CASE s # {}
    <3>1. PICK x \in s : TRUE
      BY <2>2
    <3>2. s \ {x} \in P
      BY <1>1, <3>1
    <3>3. (s \ {x}) \cup {x} \in P
      BY <3>1, <3>2
    <3>4. (s \ {x}) \cup {x} = s
      BY <3>1
    <3> QED
      BY <3>3, <3>4
  <2> QED
    BY <2>1, <2>2
<1>2. \A s \in SUBSET T : s \in P
  BY <1>1, SubsetInduction
<1> QED
  BY <1>2

\* A set with 0 in it and, with a number below n, the next, has n in it.
LEMMA UpTo ==
    ASSUME NEW n \in Nat, NEW P, 0 \in P, \A k \in 0..n : k # n /\ k \in P => k + 1 \in P
    PROVE  \A k \in 0..n : k \in P
<1> DEFINE Bad == {k \in 0..n : k \notin P}
<1>1. SUFFICES ASSUME Bad # {} PROVE FALSE
  OBVIOUS
<1>2. Bad \subseteq Nat
  OBVIOUS
<1>3. PICK k \in Bad : \A j \in Bad : <<j, k>> \notin OpToRel(<, Nat)
  BY <1>1, <1>2, NatLessThanWellFounded, WFMin, Zenon
<1>4. k \in Nat /\ k # 0 /\ k <= n
  OBVIOUS
<1>5. k - 1 \in 0..n /\ k - 1 # n /\ (k - 1) + 1 = k /\ k - 1 \in Nat
  BY <1>4
<1>6. k - 1 \in Bad
  BY <1>5
<1>7. <<k - 1, k>> \in OpToRel(<, Nat)
  BY <1>4, <1>5 DEF OpToRel
<1> QED
  BY <1>3, <1>6, <1>7

\* The values a function takes on a finite set are finitely many.
LEMMA ImageFinite ==
    ASSUME NEW f, NEW S, IsFiniteSet(S)
    PROVE  IsFiniteSet({f[x] : x \in S})
<1> DEFINE P == {s \in SUBSET S : IsFiniteSet({f[x] : x \in s})}
<1>1. {} \in P
  <2>1. {f[x] : x \in {}} = {}
    OBVIOUS
  <2> QED
    BY <2>1, FS_EmptySet
<1>2. ASSUME NEW s \in SUBSET S, NEW x \in S \ s, s \in P
      PROVE  s \cup {x} \in P
  <2>1. {f[y] : y \in s \cup {x}} = {f[y] : y \in s} \cup {f[x]}
    OBVIOUS
  <2>2. IsFiniteSet({f[y] : y \in s} \cup {f[x]})
    BY <1>2, FS_AddElement
  <2> QED
    BY <2>1, <2>2
<1>3. S \in P
  <2> HIDE DEF P
  <2> QED BY <1>1, <1>2, ElementInduction
<1> QED
  BY <1>3

(***************************************************************************)
(* Greatest and least.                                                     *)
(***************************************************************************)

\* A finite set of integers has a greatest element.
LEMMA Greatest ==
    ASSUME NEW S \in SUBSET Int, IsFiniteSet(S), S # {}
    PROVE  \E m \in S : \A y \in S : m >= y
<1> DEFINE P == {s \in SUBSET S : s # {} => \E m \in s : \A y \in s : m >= y}
<1>1. {} \in P
  OBVIOUS
<1>2. ASSUME NEW s \in SUBSET S, NEW x \in S \ s, s \in P
      PROVE  s \cup {x} \in P
  <2>1. CASE s = {}
    BY <2>1
  <2>2. CASE s # {}
    <3>1. PICK m \in s : \A y \in s : m >= y
      BY <1>2, <2>2
    <3>2. m \in Int /\ x \in Int /\ s \subseteq Int
      OBVIOUS
    <3>3. CASE m >= x
      BY <3>1, <3>3
    <3>4. CASE x > m
      BY <3>1, <3>2, <3>4
    <3> QED
      BY <3>2, <3>3, <3>4
  <2> QED
    BY <2>1, <2>2
<1>3. S \in P
  <2> HIDE DEF P
  <2> QED BY <1>1, <1>2, ElementInduction
<1> QED
  BY <1>3

\* A finite set of integers has a least element.
LEMMA Least ==
    ASSUME NEW S \in SUBSET Int, IsFiniteSet(S), S # {}
    PROVE  \E m \in S : \A y \in S : m <= y
<1> DEFINE P == {s \in SUBSET S : s # {} => \E m \in s : \A y \in s : m <= y}
<1>1. {} \in P
  OBVIOUS
<1>2. ASSUME NEW s \in SUBSET S, NEW x \in S \ s, s \in P
      PROVE  s \cup {x} \in P
  <2>1. CASE s = {}
    BY <2>1
  <2>2. CASE s # {}
    <3>1. PICK m \in s : \A y \in s : m <= y
      BY <1>2, <2>2
    <3>2. m \in Int /\ x \in Int /\ s \subseteq Int
      OBVIOUS
    <3>3. CASE m <= x
      BY <3>1, <3>3
    <3>4. CASE x < m
      BY <3>1, <3>2, <3>4
    <3> QED
      BY <3>2, <3>3, <3>4
  <2> QED
    BY <2>1, <2>2
<1>3. S \in P
  <2> HIDE DEF P
  <2> QED BY <1>1, <1>2, ElementInduction
<1> QED
  BY <1>3

LEMMA MaxFacts ==
    ASSUME NEW S \in SUBSET Int, IsFiniteSet(S), S # {}
    PROVE  /\ Max(S) \in S
           /\ Max(S) \in Int
           /\ \A y \in S : y <= Max(S)
<1>1. Max(S) \in S /\ \A y \in S : Max(S) >= y
  BY Greatest DEF Max
<1> QED
  BY <1>1

LEMMA MinFacts ==
    ASSUME NEW S \in SUBSET Int, IsFiniteSet(S), S # {}
    PROVE  /\ Min(S) \in S
           /\ Min(S) \in Int
           /\ \A y \in S : Min(S) <= y
<1>1. Min(S) \in S /\ \A y \in S : Min(S) <= y
  BY Least DEF Min
<1> QED
  BY <1>1

\* There is one greatest, and one least.
LEMMA MaxIs ==
    ASSUME NEW S \in SUBSET Int, NEW m \in S, \A y \in S : y <= m
    PROVE  Max(S) = m
<1>1. m \in S /\ \A y \in S : m >= y
  OBVIOUS
<1>2. Max(S) \in S /\ \A y \in S : Max(S) >= y
  BY <1>1, Zenon DEF Max
<1>3. Max(S) \in Int /\ m \in Int /\ Max(S) >= m /\ m >= Max(S)
  BY <1>1, <1>2
<1> QED
  BY <1>3

LEMMA MinIs ==
    ASSUME NEW S \in SUBSET Int, NEW m \in S, \A y \in S : m <= y
    PROVE  Min(S) = m
<1>1. Min(S) \in S /\ \A y \in S : Min(S) <= y
  BY Zenon DEF Min
<1>2. Min(S) \in Int /\ m \in Int /\ Min(S) <= m /\ m <= Min(S)
  BY <1>1
<1> QED
  BY <1>2

\* Days between two days are finitely many.
LEMMA SpanFinite ==
    ASSUME NEW a \in Int, NEW b \in Int, NEW S, S \subseteq a..b
    PROVE  IsFiniteSet(S) /\ S \subseteq Int
<1>1. IsFiniteSet(a..b) /\ S \in SUBSET (a..b) /\ a..b \subseteq Int
  BY FS_Interval
<1>2. IsFiniteSet(S)
  BY <1>1, FS_Subset, Zenon
<1> QED
  BY <1>1, <1>2

(***************************************************************************)
(* The recursion.                                                          *)
(***************************************************************************)
Pick(s) == CHOOSE x \in s : TRUE

\* g is a table of the sums of f over the subsets of T.
SumTable(f, g, T) ==
    g = [s \in SUBSET T |-> IF s = {} THEN 0 ELSE f[Pick(s)] + g[s \ {Pick(s)}]]

\* The sum is read from a table for its set.
LEMMA SumIsTableEntry ==
    ASSUME NEW f, NEW S
    PROVE  SumFunctionOnSet(f, S) = (CHOOSE g : SumTable(f, g, S))[S]
BY DEF SumFunctionOnSet, FoldFunctionOnSet, MapThenFoldSet, SumTable, Pick

\* Taking an element of a set leaves a smaller one.
LEMMA PickFacts ==
    ASSUME NEW s, s # {}
    PROVE  /\ Pick(s) \in s
           /\ s \ {Pick(s)} \in SUBSET s
           /\ s \ {Pick(s)} # s
BY DEF Pick

\* Two tables agree where both have an entry.
LEMMA TablesAgree ==
    ASSUME NEW f, NEW g, NEW h, NEW T, NEW U, IsFiniteSet(T),
           SumTable(f, g, T), SumTable(f, h, U), T \subseteq U
    PROVE  \A s \in SUBSET T : g[s] = h[s]
<1> DEFINE P == {s \in SUBSET T : g[s] = h[s]}
<1>1. ASSUME NEW s \in SUBSET T, \A u \in SUBSET s : u # s => u \in P
      PROVE  s \in P
  <2>1. /\ g[s] = IF s = {} THEN 0 ELSE f[Pick(s)] + g[s \ {Pick(s)}]
        /\ h[s] = IF s = {} THEN 0 ELSE f[Pick(s)] + h[s \ {Pick(s)}]
    BY DEF SumTable
  <2>2. s # {} => g[s \ {Pick(s)}] = h[s \ {Pick(s)}]
    BY <1>1, PickFacts
  <2> QED
    BY <2>1, <2>2
<1>2. \A s \in SUBSET T : s \in P
  <2> HIDE DEF P
  <2> QED BY <1>1, SubsetInduction
<1> QED
  BY <1>2

\* Every finite set has a table: the entry of a set is read from the table of
\* the set without the element taken first.
LEMMA TableExists ==
    ASSUME NEW f, NEW S, IsFiniteSet(S)
    PROVE  \E g : SumTable(f, g, S)
<1> DEFINE G(s) == CHOOSE g : SumTable(f, g, s)
           P == {s \in SUBSET S : \E g : SumTable(f, g, s)}
<1>1. ASSUME NEW T \in SUBSET S, \A u \in SUBSET T : u # T => u \in P
      PROVE  T \in P
  <2>1. \A u \in SUBSET T : u # T => SumTable(f, G(u), u)
    BY <1>1
  <2>2. \A u \in SUBSET T : IsFiniteSet(u)
    BY FS_Subset
  <2> DEFINE rest(s) == s \ {Pick(s)}
             g == [s \in SUBSET T |-> IF s = {} THEN 0 ELSE f[Pick(s)] + G(rest(s))[rest(s)]]
  <2>3. ASSUME NEW s \in SUBSET T, s # {}
        PROVE  g[rest(s)] = G(rest(s))[rest(s)]
    <3> DEFINE u == rest(s)
               v == rest(u)
    <3>1. u \in SUBSET T /\ u # T
      BY <2>3, PickFacts
    <3>2. SumTable(f, G(u), u)
      BY <2>1, <3>1
    <3>3. CASE u = {}
      <4>1. g[u] = 0
        BY <3>1, <3>3
      <4>2. G(u)[u] = 0
        BY <3>2, <3>3 DEF SumTable
      <4> QED
        BY <4>1, <4>2
    <3>4. CASE u # {}
      <4>1. v \in SUBSET u /\ v \in SUBSET T /\ v # T
        BY <3>1, <3>4, PickFacts
      <4>2. SumTable(f, G(v), v)
        BY <2>1, <4>1
      <4>3. G(v)[v] = G(u)[v]
        <5>1. IsFiniteSet(v) /\ v \subseteq u /\ v \in SUBSET v
          BY <2>2, <4>1
        <5> HIDE DEF G, v, u
        <5> QED BY <3>2, <4>2, <5>1, TablesAgree
      <4>4. g[u] = f[Pick(u)] + G(v)[v]
        BY <3>1, <3>4
      <4>5. G(u)[u] = f[Pick(u)] + G(u)[v]
        <5> HIDE DEF G
        <5> QED BY <3>2, <3>4 DEF SumTable
      <4> QED
        BY <4>3, <4>4, <4>5
    <3> QED
      BY <3>3, <3>4
  <2>4. \A s \in SUBSET T :
          (IF s = {} THEN 0 ELSE f[Pick(s)] + G(rest(s))[rest(s)])
          = (IF s = {} THEN 0 ELSE f[Pick(s)] + g[s \ {Pick(s)}])
    <3> HIDE DEF g, G
    <3> QED BY <2>3
  <2>5. g = [s \in SUBSET T |-> IF s = {} THEN 0 ELSE f[Pick(s)] + g[s \ {Pick(s)}]]
    <3>1. g = [s \in SUBSET T |-> IF s = {} THEN 0 ELSE f[Pick(s)] + G(rest(s))[rest(s)]]
      OBVIOUS
    <3> HIDE DEF g, G
    <3> QED BY <2>4, <3>1
  <2>6. SumTable(f, g, T)
    BY <2>5 DEF SumTable
  <2> QED
    BY <2>6
<1>2. \A T \in SUBSET S : T \in P
  <2> HIDE DEF P
  <2> QED BY <1>1, SubsetInduction
<1> QED
  BY <1>2

(***************************************************************************)
(* The sum.                                                                *)
(***************************************************************************)

\* The sum over no elements is zero, and over others what is taken first plus
\* the rest.
LEMMA SumUnfolds ==
    ASSUME NEW f, NEW S, IsFiniteSet(S)
    PROVE  SumFunctionOnSet(f, S) =
             IF S = {} THEN 0
             ELSE f[Pick(S)] + SumFunctionOnSet(f, S \ {Pick(S)})
<1> DEFINE G(s) == CHOOSE g : SumTable(f, g, s)
           R == S \ {Pick(S)}
<1>1. SumTable(f, G(S), S)
  BY TableExists
<1>2. SumFunctionOnSet(f, S) = G(S)[S]
  BY SumIsTableEntry
<1>3. SumFunctionOnSet(f, R) = G(R)[R]
  BY SumIsTableEntry
<1>4. G(S)[S] = IF S = {} THEN 0 ELSE f[Pick(S)] + G(S)[R]
  <2> HIDE DEF G
  <2> QED BY <1>1 DEF SumTable
<1>5. R \in SUBSET S /\ IsFiniteSet(R)
  BY FS_Subset
<1>6. SumTable(f, G(R), R)
  BY <1>5, TableExists
<1>7. G(R)[R] = G(S)[R]
  <2>1. R \in SUBSET R /\ R \subseteq S
    BY <1>5
  <2> HIDE DEF G, R
  <2> QED BY <1>1, <1>5, <1>6, <2>1, TablesAgree
<1> QED
  BY <1>2, <1>3, <1>4, <1>7

\* The sum over no elements is zero.
LEMMA SumEmpty ==
    ASSUME NEW f
    PROVE  SumFunctionOnSet(f, {}) = 0
BY SumUnfolds, FS_EmptySet

\* The sum of integers is an integer.
LEMMA SumInt ==
    ASSUME NEW f, NEW S, IsFiniteSet(S), \A x \in S : f[x] \in Int
    PROVE  SumFunctionOnSet(f, S) \in Int
<1> DEFINE P == {s \in SUBSET S : SumFunctionOnSet(f, s) \in Int}
<1>1. ASSUME NEW s \in SUBSET S, \A u \in SUBSET s : u # s => u \in P
      PROVE  s \in P
  <2>1. IsFiniteSet(s)
    BY FS_Subset
  <2>2. CASE s = {}
    BY <2>2, SumEmpty
  <2>3. CASE s # {}
    <3>1. SumFunctionOnSet(f, s \ {Pick(s)}) \in Int /\ f[Pick(s)] \in Int
      BY <1>1, <2>3, PickFacts
    <3> QED
      BY <2>1, <2>3, <3>1, SumUnfolds
  <2> QED
    BY <2>2, <2>3
<1>2. \A s \in SUBSET S : s \in P
  <2> HIDE DEF P
  <2> QED BY <1>1, SubsetInduction
<1> QED
  BY <1>2

\* Any element may be taken first.
LEMMA SumRemove ==
    ASSUME NEW f, NEW S, IsFiniteSet(S), \A x \in S : f[x] \in Int, NEW y \in S
    PROVE  SumFunctionOnSet(f, S) = f[y] + SumFunctionOnSet(f, S \ {y})
<1> DEFINE P == {s \in SUBSET S : \A x \in s :
                    SumFunctionOnSet(f, s) = f[x] + SumFunctionOnSet(f, s \ {x})}
<1>1. ASSUME NEW s \in SUBSET S, \A u \in SUBSET s : u # s => u \in P
      PROVE  s \in P
  <2>1. \A u \in SUBSET s : IsFiniteSet(u) /\ SumFunctionOnSet(f, u) \in Int
    <3>1. \A u \in SUBSET S : IsFiniteSet(u)
      BY FS_Subset
    <3> QED
      BY <3>1, SumInt
  <2>2. ASSUME NEW x \in s
        PROVE  SumFunctionOnSet(f, s) = f[x] + SumFunctionOnSet(f, s \ {x})
    <3> DEFINE p == Pick(s)
    <3>1. p \in s
      BY PickFacts
    <3> HIDE DEF p
    <3>2. SumFunctionOnSet(f, s) = f[p] + SumFunctionOnSet(f, s \ {p})
      BY <2>1, <2>2, SumUnfolds DEF p
    <3>3. CASE x = p
      BY <3>2, <3>3
    <3>4. CASE x # p
      <4>1. s \ {p} \in P /\ s \ {x} \in P
        BY <1>1, <3>1
      <4>2. SumFunctionOnSet(f, s \ {p}) = f[x] + SumFunctionOnSet(f, (s \ {p}) \ {x})
        BY <3>4, <4>1
      <4>3. SumFunctionOnSet(f, s \ {x}) = f[p] + SumFunctionOnSet(f, (s \ {x}) \ {p})
        BY <3>1, <3>4, <4>1
      <4>4. (s \ {x}) \ {p} = (s \ {p}) \ {x}
        OBVIOUS
      <4>5. /\ f[x] \in Int /\ f[p] \in Int
            /\ SumFunctionOnSet(f, (s \ {p}) \ {x}) \in Int
        <5>1. (s \ {p}) \ {x} \in SUBSET s
          OBVIOUS
        <5> QED
          BY <2>1, <3>1, <5>1
      <4> DEFINE W == SumFunctionOnSet(f, (s \ {p}) \ {x})
      <4>6. /\ SumFunctionOnSet(f, s \ {p}) = f[x] + W
            /\ SumFunctionOnSet(f, s \ {x}) = f[p] + W
            /\ W \in Int
        BY <4>2, <4>3, <4>4, <4>5
      <4> HIDE DEF P, W
      <4> QED
        BY <3>2, <4>5, <4>6
    <3> QED
      BY <3>3, <3>4
  <2> QED
    BY <2>2
<1>2. \A s \in SUBSET S : s \in P
  <2> HIDE DEF P
  <2> QED BY <1>1, SubsetInduction
<1> QED
  BY <1>2

\* An element is added to a sum.
LEMMA SumAdd ==
    ASSUME NEW f, NEW S, IsFiniteSet(S), NEW y, y \notin S, f[y] \in Int,
           \A x \in S : f[x] \in Int
    PROVE  SumFunctionOnSet(f, S \cup {y}) = f[y] + SumFunctionOnSet(f, S)
<1>1. IsFiniteSet(S \cup {y})
  BY FS_AddElement
<1>2. (S \cup {y}) \ {y} = S
  OBVIOUS
<1>3. SumFunctionOnSet(f, S \cup {y}) = f[y] + SumFunctionOnSet(f, (S \cup {y}) \ {y})
  BY <1>1, SumRemove
<1> QED
  BY <1>2, <1>3

\* Functions that agree on a set have one sum over it.
LEMMA SumSame ==
    ASSUME NEW f, NEW g, NEW S, IsFiniteSet(S), \A x \in S : f[x] = g[x]
    PROVE  SumFunctionOnSet(f, S) = SumFunctionOnSet(g, S)
<1> DEFINE P == {s \in SUBSET S : SumFunctionOnSet(f, s) = SumFunctionOnSet(g, s)}
<1>1. ASSUME NEW s \in SUBSET S, \A u \in SUBSET s : u # s => u \in P
      PROVE  s \in P
  <2>1. IsFiniteSet(s)
    BY FS_Subset
  <2>2. s # {} => /\ f[Pick(s)] = g[Pick(s)]
                  /\ SumFunctionOnSet(f, s \ {Pick(s)}) = SumFunctionOnSet(g, s \ {Pick(s)})
    BY <1>1, PickFacts
  <2> QED
    BY <2>1, <2>2, SumUnfolds
<1>2. \A s \in SUBSET S : s \in P
  <2> HIDE DEF P
  <2> QED BY <1>1, SubsetInduction
<1> QED
  BY <1>2

\* The sum of nothing but zeros is zero.
LEMMA SumZeros ==
    ASSUME NEW f, NEW S, IsFiniteSet(S), \A x \in S : f[x] = 0
    PROVE  SumFunctionOnSet(f, S) = 0
<1> DEFINE P == {s \in SUBSET S : SumFunctionOnSet(f, s) = 0}
<1>1. {} \in P
  BY SumEmpty
<1>2. ASSUME NEW s \in SUBSET S, NEW x \in S \ s, s \in P
      PROVE  s \cup {x} \in P
  <2>1. IsFiniteSet(s)
    BY FS_Subset
  <2>2. SumFunctionOnSet(f, s \cup {x}) = f[x] + SumFunctionOnSet(f, s)
    BY <2>1, SumAdd
  <2> QED
    BY <1>2, <2>2
<1>3. S \in P
  <2> HIDE DEF P
  <2> QED BY <1>1, <1>2, ElementInduction
<1> QED
  BY <1>3

\* The sum of sums is the sum of both.
LEMMA SumPlus ==
    ASSUME NEW f, NEW g, NEW h, NEW S, IsFiniteSet(S),
           \A x \in S : f[x] \in Int /\ g[x] \in Int /\ h[x] = f[x] + g[x]
    PROVE  SumFunctionOnSet(h, S) = SumFunctionOnSet(f, S) + SumFunctionOnSet(g, S)
<1> DEFINE P == {s \in SUBSET S :
                    SumFunctionOnSet(h, s) = SumFunctionOnSet(f, s) + SumFunctionOnSet(g, s)}
<1>1. {} \in P
  BY SumEmpty
<1>2. ASSUME NEW s \in SUBSET S, NEW x \in S \ s, s \in P
      PROVE  s \cup {x} \in P
  <2>1. IsFiniteSet(s)
    BY FS_Subset
  <2>2. /\ SumFunctionOnSet(f, s \cup {x}) = f[x] + SumFunctionOnSet(f, s)
        /\ SumFunctionOnSet(g, s \cup {x}) = g[x] + SumFunctionOnSet(g, s)
        /\ SumFunctionOnSet(h, s \cup {x}) = h[x] + SumFunctionOnSet(h, s)
    BY <2>1, SumAdd
  <2>3. SumFunctionOnSet(f, s) \in Int /\ SumFunctionOnSet(g, s) \in Int
    BY <2>1, SumInt
  <2>4. SumFunctionOnSet(h, s) = SumFunctionOnSet(f, s) + SumFunctionOnSet(g, s)
    BY <1>2
  <2>5. f[x] \in Int /\ g[x] \in Int /\ h[x] = f[x] + g[x]
    OBVIOUS
  <2>6. SumFunctionOnSet(h, s \cup {x})
        = SumFunctionOnSet(f, s \cup {x}) + SumFunctionOnSet(g, s \cup {x})
    <3> DEFINE F == SumFunctionOnSet(f, s)
               G == SumFunctionOnSet(g, s)
    <3>1. /\ SumFunctionOnSet(f, s \cup {x}) = f[x] + F
          /\ SumFunctionOnSet(g, s \cup {x}) = g[x] + G
          /\ SumFunctionOnSet(h, s \cup {x}) = h[x] + (F + G)
          /\ F \in Int /\ G \in Int
      BY <2>2, <2>3, <2>4
    <3> HIDE DEF P, F, G
    <3> QED BY <2>5, <3>1
  <2> QED
    BY <2>6
<1>3. S \in P
  <2> HIDE DEF P
  <2> QED BY <1>1, <1>2, ElementInduction
<1> QED
  BY <1>3

\* A sum over a part of a set is the sum over the set of what the part has.
LEMMA SumFilter ==
    ASSUME NEW f, NEW g, NEW S, IsFiniteSet(S), NEW D \in SUBSET S,
           \A x \in D : f[x] \in Int,
           \A x \in S : g[x] = IF x \in D THEN f[x] ELSE 0
    PROVE  SumFunctionOnSet(f, D) = SumFunctionOnSet(g, S)
<1> DEFINE P == {s \in SUBSET S : SumFunctionOnSet(f, s \cap D) = SumFunctionOnSet(g, s)}
<1>1. {} \in P
  <2>1. {} \cap D = {}
    OBVIOUS
  <2> QED
    BY <2>1, SumEmpty
<1>2. ASSUME NEW s \in SUBSET S, NEW x \in S \ s, s \in P
      PROVE  s \cup {x} \in P
  <2>1. IsFiniteSet(s) /\ IsFiniteSet(s \cap D)
    BY FS_Subset
  <2>2. \A y \in S : g[y] \in Int
    OBVIOUS
  <2>3. SumFunctionOnSet(g, s \cup {x}) = g[x] + SumFunctionOnSet(g, s)
    BY <2>1, <2>2, SumAdd
  <2>4. SumFunctionOnSet(g, s) \in Int
    BY <2>1, <2>2, SumInt
  <2>5. SumFunctionOnSet(f, s \cap D) = SumFunctionOnSet(g, s)
    BY <1>2
  <2>6. SumFunctionOnSet(f, (s \cup {x}) \cap D) = SumFunctionOnSet(g, s \cup {x})
    <3>1. CASE x \in D
      <4>1. (s \cup {x}) \cap D = (s \cap D) \cup {x} /\ x \notin s \cap D
        BY <3>1
      <4>2. f[x] \in Int /\ \A y \in s \cap D : f[y] \in Int
        BY <3>1
      <4>3. SumFunctionOnSet(f, (s \cap D) \cup {x}) = f[x] + SumFunctionOnSet(f, s \cap D)
        BY <2>1, <4>1, <4>2, SumAdd
      <4>4. g[x] = f[x]
        BY <3>1
      <4>5. SumFunctionOnSet(f, (s \cup {x}) \cap D) = SumFunctionOnSet(f, (s \cap D) \cup {x})
        BY <4>1, Zenon
      <4> HIDE DEF P
      <4> QED
        BY <2>3, <2>5, <4>3, <4>4, <4>5, Zenon
    <3>2. CASE x \notin D
      <4>1. (s \cup {x}) \cap D = s \cap D /\ g[x] = 0
        BY <3>2
      <4>2. SumFunctionOnSet(f, (s \cup {x}) \cap D) = SumFunctionOnSet(f, s \cap D)
        BY <4>1, Zenon
      <4>3. SumFunctionOnSet(g, s \cup {x}) = SumFunctionOnSet(g, s)
        BY <2>3, <2>4, <4>1
      <4> QED
        BY <2>5, <4>2, <4>3, Zenon
    <3> QED
      BY <3>1, <3>2
  <2> QED
    BY <2>6
<1>3. S \in P
  <2> HIDE DEF P
  <2> QED BY <1>1, <1>2, ElementInduction
<1>4. S \cap D = D
  OBVIOUS
<1> QED
  BY <1>3, <1>4

\* A sum with one element that is not zero is that element.
LEMMA SumSingle ==
    ASSUME NEW f, NEW S, IsFiniteSet(S), NEW y \in S, f[y] \in Int,
           \A x \in S \ {y} : f[x] = 0
    PROVE  SumFunctionOnSet(f, S) = f[y]
<1>1. IsFiniteSet(S \ {y})
  BY FS_Subset
<1>2. SumFunctionOnSet(f, S \ {y}) = 0
  BY <1>1, SumZeros
<1>3. \A x \in S : f[x] \in Int
  OBVIOUS
<1>4. SumFunctionOnSet(f, S) = f[y] + SumFunctionOnSet(f, S \ {y})
  BY <1>3, SumRemove
<1> QED
  BY <1>2, <1>4

\* The sum of one number over a set.
LEMMA SumConstant ==
    ASSUME NEW f, NEW S, IsFiniteSet(S), NEW c \in Nat, \A x \in S : f[x] = c
    PROVE  SumFunctionOnSet(f, S) = c * Cardinality(S)
<1> DEFINE P == {s \in SUBSET S : SumFunctionOnSet(f, s) = c * Cardinality(s)}
<1>1. {} \in P
  BY SumEmpty, FS_EmptySet
<1>2. ASSUME NEW s \in SUBSET S, NEW x \in S \ s, s \in P
      PROVE  s \cup {x} \in P
  <2>1. IsFiniteSet(s) /\ f[x] = c /\ \A y \in s : f[y] \in Int
    BY FS_Subset
  <2>2. Cardinality(s \cup {x}) = Cardinality(s) + 1 /\ Cardinality(s) \in Nat
    BY <2>1, FS_AddElement, FS_CardinalityType
  <2>3. SumFunctionOnSet(f, s \cup {x}) = c + c * Cardinality(s)
    BY <1>2, <2>1, SumAdd
  <2>4. c + c * Cardinality(s) = c * (Cardinality(s) + 1)
    BY <2>2
  <2> QED
    BY <2>2, <2>3, <2>4
<1>3. S \in P
  <2> HIDE DEF P
  <2> QED BY <1>1, <1>2, ElementInduction
<1> QED
  BY <1>3

\* The sum of a table by rows is its sum by columns.
LEMMA SumSwap ==
    ASSUME NEW I, NEW J, IsFiniteSet(I), IsFiniteSet(J), NEW h \in [I -> [J -> Int]]
    PROVE  SumFunctionOnSet([i \in I |-> SumFunctionOnSet(h[i], J)], I)
           = SumFunctionOnSet([j \in J |-> SumFunctionOnSet([i \in I |-> h[i][j]], I)], J)
<1> DEFINE row == [i \in I |-> SumFunctionOnSet(h[i], J)]
           col(s) == [j \in J |-> SumFunctionOnSet([i \in I |-> h[i][j]], s)]
           P == {s \in SUBSET I : SumFunctionOnSet(row, s) = SumFunctionOnSet(col(s), J)}
<1>1. {} \in P
  <2>1. \A j \in J : col({})[j] = 0
    BY SumEmpty
  <2>2. SumFunctionOnSet(col({}), J) = 0
    <3> HIDE DEF col
    <3> QED BY <2>1, SumZeros
  <2>3. SumFunctionOnSet(row, {}) = 0
    BY SumEmpty
  <2> QED
    BY <2>2, <2>3
<1>2. ASSUME NEW s \in SUBSET I, NEW x \in I \ s, s \in P
      PROVE  s \cup {x} \in P
  <2>1. IsFiniteSet(s)
    BY FS_Subset
  <2>2. \A i \in I : row[i] \in Int
    BY SumInt
  <2>3. SumFunctionOnSet(row, s \cup {x}) = row[x] + SumFunctionOnSet(row, s)
    <3> HIDE DEF row
    <3> QED BY <2>1, <2>2, SumAdd
  <2>4. ASSUME NEW j \in J
        PROVE  /\ h[x][j] \in Int
               /\ col(s)[j] \in Int
               /\ col(s \cup {x})[j] = h[x][j] + col(s)[j]
    <3> DEFINE hj == [i \in I |-> h[i][j]]
    <3>1. \A i \in I : hj[i] \in Int
      OBVIOUS
    <3>2. hj[x] = h[x][j]
      OBVIOUS
    <3>3. col(s)[j] = SumFunctionOnSet(hj, s) /\ col(s \cup {x})[j] = SumFunctionOnSet(hj, s \cup {x})
      OBVIOUS
    <3> HIDE DEF hj
    <3>4. SumFunctionOnSet(hj, s) \in Int
      BY <2>1, <3>1, SumInt
    <3>5. SumFunctionOnSet(hj, s \cup {x}) = hj[x] + SumFunctionOnSet(hj, s)
      BY <2>1, <3>1, SumAdd
    <3> HIDE DEF col
    <3> QED
      BY <3>1, <3>2, <3>3, <3>4, <3>5
  <2>5. SumFunctionOnSet(col(s \cup {x}), J)
        = SumFunctionOnSet(h[x], J) + SumFunctionOnSet(col(s), J)
    <3> DEFINE more == col(s \cup {x})
               less == col(s)
               added == h[x]
    <3>1. \A j \in J : added[j] \in Int /\ less[j] \in Int /\ more[j] = added[j] + less[j]
      BY <2>4
    <3> HIDE DEF more, less, added
    <3>2. SumFunctionOnSet(more, J) = SumFunctionOnSet(added, J) + SumFunctionOnSet(less, J)
      BY <3>1, SumPlus
    <3> QED
      BY <3>2 DEF more, less, added
  <2>6. row[x] = SumFunctionOnSet(h[x], J)
    OBVIOUS
  <2>7. SumFunctionOnSet(row, s) = SumFunctionOnSet(col(s), J)
    BY <1>2
  <2>8. SumFunctionOnSet(row, s \cup {x}) = SumFunctionOnSet(col(s \cup {x}), J)
    <3> HIDE DEF row, col
    <3> QED BY <2>3, <2>5, <2>6, <2>7
  <2> HIDE DEF row, col
  <2> QED
    BY <2>8
<1>3. I \in P
  <2> HIDE DEF P
  <2> QED BY <1>1, <1>2, ElementInduction
<1> QED
  BY <1>3
\* The sum of naturals is a natural.
LEMMA SumNat ==
    ASSUME NEW f, NEW S, IsFiniteSet(S), \A x \in S : f[x] \in Nat
    PROVE  SumFunctionOnSet(f, S) \in Nat
<1> DEFINE P == {s \in SUBSET S : SumFunctionOnSet(f, s) \in Nat}
<1>1. {} \in P
  BY SumEmpty
<1>2. ASSUME NEW s \in SUBSET S, NEW x \in S \ s, s \in P
      PROVE  s \cup {x} \in P
  <2>1. IsFiniteSet(s) /\ f[x] \in Int /\ \A y \in s : f[y] \in Int
    BY FS_Subset
  <2>2. SumFunctionOnSet(f, s \cup {x}) = f[x] + SumFunctionOnSet(f, s)
    BY <1>2, <2>1, SumAdd
  <2> QED
    BY <1>2, <2>2
<1>3. S \in P
  <2> HIDE DEF P
  <2> QED BY <1>1, <1>2, ElementInduction
<1> QED
  BY <1>3

\* Summing over names instead of what they name.
LEMMA SumRenamed ==
    ASSUME NEW f, NEW g, NEW m, NEW S, IsFiniteSet(S),
           \A x \in S : g[m[x]] \in Int /\ f[x] = g[m[x]],
           \A x, y \in S : m[x] = m[y] => x = y
    PROVE  SumFunctionOnSet(f, S) = SumFunctionOnSet(g, {m[x] : x \in S})
<1> DEFINE Named(s) == {m[x] : x \in s}
           P == {s \in SUBSET S : SumFunctionOnSet(f, s) = SumFunctionOnSet(g, Named(s))}
<1>1. {} \in P
  <2>1. Named({}) = {}
    OBVIOUS
  <2> HIDE DEF Named
  <2> QED
    BY <2>1, SumEmpty
<1>2. ASSUME NEW s \in SUBSET S, NEW x \in S \ s, s \in P
      PROVE  s \cup {x} \in P
  <2>1. IsFiniteSet(s) /\ IsFiniteSet(Named(s))
    BY FS_Subset, ImageFinite
  <2>2. Named(s \cup {x}) = Named(s) \cup {m[x]} /\ m[x] \notin Named(s)
    OBVIOUS
  <2>3. \A y \in Named(s) : g[y] \in Int
    OBVIOUS
  <2>4. SumFunctionOnSet(g, Named(s) \cup {m[x]}) = g[m[x]] + SumFunctionOnSet(g, Named(s))
    <3> HIDE DEF Named
    <3> QED BY <2>1, <2>2, <2>3, SumAdd
  <2>5. SumFunctionOnSet(f, s \cup {x}) = f[x] + SumFunctionOnSet(f, s)
    BY <2>1, SumAdd
  <2> HIDE DEF Named
  <2> QED
    BY <1>2, <2>2, <2>4, <2>5
<1>3. S \in P
  <2> HIDE DEF P
  <2> QED BY <1>1, <1>2, ElementInduction
<1> QED
  BY <1>3
=============================================================================
