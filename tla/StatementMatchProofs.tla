------------------------ MODULE StatementMatchProofs ------------------------
(***************************************************************************)
(* Theorems of StatementMatch, for any lines, imports, rows and purchases. *)
(***************************************************************************)
EXTENDS StatementMatch, SumsProofs, WellFoundedInduction, TLAPS

(***************************************************************************)
(* The acts that are kept.  Kept is a recursive function over the          *)
(* positions; induction over the positions goes by the set of those it     *)
(* holds of.                                                               *)
(***************************************************************************)

\* F is the table of what is kept of some up to position n.
KeptTable(F, some, keep, n) ==
    F = [k \in 0..n |-> IF k = 0 THEN <<>>
                        ELSE IF k \in keep THEN Append(F[k - 1], some[k])
                        ELSE F[k - 1]]

LEMMA KeptTableExists ==
    ASSUME NEW some, NEW keep, NEW n \in Nat
    PROVE  \E F : KeptTable(F, some, keep, n)
<1> DEFINE P == {m \in 0..n : \E F : KeptTable(F, some, keep, m)}
<1>1. 0 \in P
  <2> DEFINE F == [k \in 0..0 |-> <<>>]
  <2>1. KeptTable(F, some, keep, 0)
    BY DEF KeptTable
  <2> QED
    BY <2>1
<1>2. ASSUME NEW m \in 0..n, m # n, m \in P
      PROVE  m + 1 \in P
  <2>1. PICK F : KeptTable(F, some, keep, m)
    BY <1>2
  <2> DEFINE last == IF m + 1 \in keep THEN Append(F[m], some[m + 1]) ELSE F[m]
             G == [k \in 0..(m + 1) |-> IF k = m + 1 THEN last ELSE F[k]]
             H == [k \in 0..(m + 1) |-> IF k = 0 THEN <<>>
                                        ELSE IF k \in keep THEN Append(G[k - 1], some[k])
                                        ELSE G[k - 1]]
  <2>2. \A k \in 0..(m + 1) : G[k] = H[k]
    <3>1. ASSUME NEW k \in 0..(m + 1)
          PROVE  G[k] = H[k]
      <4>1. CASE k = m + 1
        <5>1. k # 0 /\ k - 1 = m /\ m \in 0..(m + 1) /\ m # m + 1
          BY <4>1
        <5>2. G[k - 1] = F[m]
          BY <5>1
        <5> QED
          BY <4>1, <5>1, <5>2
      <4>2. CASE k # m + 1
        <5>1. G[k] = F[k] /\ k \in 0..m
          BY <4>2
        <5>2. F[k] = IF k = 0 THEN <<>>
                     ELSE IF k \in keep THEN Append(F[k - 1], some[k]) ELSE F[k - 1]
          BY <2>1, <5>1 DEF KeptTable
        <5>3. k # 0 => G[k - 1] = F[k - 1]
          BY <4>2
        <5> HIDE DEF G
        <5> QED
          BY <5>1, <5>2, <5>3
      <4> QED
        BY <4>1, <4>2
    <3> QED
      BY <3>1
  <2>3. G = H
    BY <2>2, Zenon
  <2>4. KeptTable(G, some, keep, m + 1)
    <3> HIDE DEF last
    <3> QED BY <2>3 DEF KeptTable
  <2> QED
    BY <1>2, <2>4
<1> HIDE DEF P
<1>3. n \in P
  BY <1>1, <1>2, UpTo
<1> QED
  BY <1>3 DEF P

\* What is kept are the acts at the positions, each once.
Picks(t, some, keep, h) ==
    /\ h \in [DOMAIN t -> keep]
    /\ \A i \in DOMAIN t : t[i] = some[h[i]]
    /\ \A i, j \in DOMAIN t : i # j => h[i] # h[j]
    /\ \A k \in keep : \E i \in DOMAIN t : h[i] = k

LEMMA KeptPicks ==
    ASSUME NEW S, NEW some \in Seq(S), NEW keep \in SUBSET DOMAIN some
    PROVE  Kept(some, keep) \in Seq(S) /\ \E h : Picks(Kept(some, keep), some, keep, h)
<1> DEFINE n == Len(some)
           F == CHOOSE G : KeptTable(G, some, keep, n)
           P == {m \in 0..n : F[m] \in Seq(S)
                              /\ \E h : Picks(F[m], some, {k \in keep : k <= m}, h)}
<1>1. n \in Nat /\ DOMAIN some = 1..n /\ \A k \in 1..n : some[k] \in S
  OBVIOUS
<1>2. KeptTable(F, some, keep, n)
  BY <1>1, KeptTableExists
<1>3. Kept(some, keep) = F[n]
  BY DEF Kept, KeptTable
<1> HIDE DEF F, n
<1>4. F[0] = <<>> /\ \A k \in 1..n : F[k] = IF k \in keep THEN Append(F[k - 1], some[k]) ELSE F[k - 1]
  <2>1. \A k \in 0..n : F[k] = IF k = 0 THEN <<>>
                              ELSE IF k \in keep THEN Append(F[k - 1], some[k]) ELSE F[k - 1]
    BY <1>2 DEF KeptTable
  <2>2. 0 \in 0..n /\ \A k \in 1..n : k \in 0..n /\ k # 0
    BY <1>1
  <2> QED
    BY <2>1, <2>2
<1>5. 0 \in P
  <2> DEFINE h == [i \in {} |-> 0]
  <2>1. F[0] \in Seq(S) /\ DOMAIN F[0] = {}
    BY <1>4
  <2>2. {k \in keep : k <= 0} = {}
    BY <1>1
  <2>3. Picks(F[0], some, {k \in keep : k <= 0}, h)
    BY <2>1, <2>2 DEF Picks
  <2>4. 0 \in 0..n
    BY <1>1
  <2> HIDE DEF h
  <2> QED
    BY <2>1, <2>3, <2>4
<1>6. ASSUME NEW m \in 0..n, m # n, m \in P
      PROVE  m + 1 \in P
  <2> DEFINE t == F[m]
             K == {k \in keep : k <= m}
             L == {k \in keep : k <= m + 1}
  <2>1. t \in Seq(S)
    BY <1>6
  <2>2. PICK h : Picks(t, some, K, h)
    BY <1>6
  <2>3. m + 1 \in 1..n /\ (m + 1) - 1 = m /\ m + 1 \in 0..n
    BY <1>1, <1>6
  <2>4. CASE m + 1 \notin keep
    <3>1. F[m + 1] = t
      BY <1>4, <2>3, <2>4
    <3>2. L = K
      BY <1>1, <2>4
    <3> QED
      BY <2>1, <2>2, <2>3, <3>1, <3>2
  <2>5. CASE m + 1 \in keep
    <3> DEFINE e == some[m + 1]
               u == Append(t, e)
               g == [i \in DOMAIN u |-> IF i = Len(u) THEN m + 1 ELSE h[i]]
    <3>1. F[m + 1] = u
      BY <1>4, <2>3, <2>5
    <3>2. e \in S
      BY <1>1, <2>3
    <3>3. u \in Seq(S) /\ Len(u) = Len(t) + 1 /\ DOMAIN u = DOMAIN t \cup {Len(u)}
          /\ u[Len(u)] = e /\ Len(u) \notin DOMAIN t
          /\ \A i \in DOMAIN t : u[i] = t[i]
      <4> HIDE DEF t, e
      <4> QED BY <2>1, <3>2
    <3>4. L = K \cup {m + 1} /\ m + 1 \notin K
      BY <1>1, <2>3, <2>5
    <3> HIDE DEF u, t, e, K, L
    <3>5. \A i \in DOMAIN t : g[i] = h[i]
      BY <3>3
    <3>6. g[Len(u)] = m + 1
      BY <3>3
    <3>7. Picks(u, some, L, g)
      <4>1. g \in [DOMAIN u -> L]
        BY <2>2, <3>3, <3>4, <3>5, <3>6 DEF Picks
      <4> HIDE DEF g
      <4>2. \A i \in DOMAIN u : u[i] = some[g[i]]
        BY <2>2, <3>3, <3>5, <3>6 DEF Picks, e
      <4>3. \A i, j \in DOMAIN u : i # j => g[i] # g[j]
        BY <2>2, <3>3, <3>4, <3>5, <3>6 DEF Picks
      <4>4. \A k \in L : \E i \in DOMAIN u : g[i] = k
        BY <2>2, <3>3, <3>4, <3>5, <3>6 DEF Picks
      <4> QED
        BY <4>1, <4>2, <4>3, <4>4 DEF Picks
    <3> QED
      BY <2>3, <3>1, <3>3, <3>7 DEF L
  <2> QED
    BY <2>4, <2>5
<1>7. n \in P
  <2> HIDE DEF P
  <2> QED BY <1>1, <1>5, <1>6, UpTo
<1>8. {k \in keep : k <= n} = keep
  BY <1>1
<1> QED
  BY <1>3, <1>7, <1>8

(***************************************************************************)
(* The inductive invariant.                                                *)
(***************************************************************************)

Acts == [lines : SUBSET Lines, entries : SUBSET Subjects, made : SUBSET Subjects]

MadeByActs == UNION {a.made : a \in ActsOn}

\* What a row holds is deleted with it: no movement, version or creation is a
\* deleted row's, and a purchase an act made is on the books.
RowsOwnTheirs ==
    /\ \A s \in moves \cup fresh \cup MadeByActs : Standing(s[1])
    /\ \A s \in MadeByActs : ~Covers(s) => s \in moves

\* Purchases are of rows that track them, and an envelope that is as the act
\* left it has no payment of its own.
ContainersTrack ==
    /\ \A m \in moves : ~Covers(m) => budget[m[1]].tracks
    /\ \A s \in fresh : Covers(s) /\ budget[s[1]].tracks => s \notin moves

\* A page is drawn on rows, or on a purchase.
PageFits == page.door # "purchase" => \A s \in page.on : Covers(s)

IInv ==
    /\ acts \in Seq(Acts)
    /\ MatchesAreWhole
    /\ PageFits
    /\ CreatedRowsKeepTheirLine
    /\ RowsOwnTheirs
    /\ ContainersTrack

\* The acts, by their positions.
LEMMA ActsTell ==
    /\ \A k \in DOMAIN acts : acts[k] \in ActsOn
    /\ \A a \in ActsOn : \E k \in DOMAIN acts : a = acts[k]
BY DEF ActsOn, ToSet

\* t is some with the movements gone taken out of the acts at keep, those with
\* none left dropped, and the creations in subjects forgotten.
Strips(t, some, keep, gone, subjects, h) ==
    /\ h \in [DOMAIN t -> keep]
    /\ \A i \in DOMAIN t : /\ t[i].lines = some[h[i]].lines
                           /\ t[i].entries = some[h[i]].entries \ gone
                           /\ t[i].made = some[h[i]].made \ subjects
                           /\ t[i].entries # {}
    /\ \A i, j \in DOMAIN t : i # j => h[i] # h[j]
    /\ \A k \in keep : some[k].entries \subseteq gone \/ \E i \in DOMAIN t : h[i] = k

Stripped(t, some, keep, gone, subjects) ==
    t \in Seq(Acts) /\ \E h : Strips(t, some, keep, gone, subjects, h)

LEMMA WithoutStrips ==
    ASSUME NEW some \in Seq(Acts), NEW gone, NEW subjects
    PROVE  Stripped(Without(some, gone, subjects), some, DOMAIN some, gone, subjects)
<1> DEFINE n == Len(some)
           left == [k \in 1..n |-> [some[k] EXCEPT !.entries = @ \ gone, !.made = @ \ subjects]]
           keep == {k \in DOMAIN left : left[k].entries # {}}
           t == Kept(left, keep)
<1>1. n \in Nat /\ DOMAIN some = 1..n /\ \A k \in 1..n : some[k] \in Acts
  OBVIOUS
<1>2. \A k \in 1..n : /\ left[k] \in Acts /\ left[k].lines = some[k].lines
                      /\ left[k].entries = some[k].entries \ gone
                      /\ left[k].made = some[k].made \ subjects
  BY <1>1 DEF Acts
<1>3. DOMAIN left = 1..n
  OBVIOUS
<1>4. left \in Seq(Acts)
  <2>1. left \in [1..n -> Acts]
    BY <1>2, <1>3
  <2> HIDE DEF left, n
  <2> QED
    BY <1>1, <2>1
<1>5. Without(some, gone, subjects) = t
  BY DEF Without
<1> HIDE DEF left, n
<1>6. keep \in SUBSET DOMAIN left
  OBVIOUS
<1>7. t \in Seq(Acts) /\ \E h : Picks(t, left, keep, h)
  <2> HIDE DEF keep
  <2> QED BY <1>4, <1>6, KeptPicks
<1>8. PICK h : Picks(t, left, keep, h)
  BY <1>7
<1> HIDE DEF t
<1>9. Strips(t, some, DOMAIN some, gone, subjects, h)
  <2>1. h \in [DOMAIN t -> DOMAIN some]
    BY <1>1, <1>3, <1>8 DEF Picks
  <2>2. ASSUME NEW i \in DOMAIN t
        PROVE  /\ t[i].lines = some[h[i]].lines
               /\ t[i].entries = some[h[i]].entries \ gone
               /\ t[i].made = some[h[i]].made \ subjects
               /\ t[i].entries # {}
    BY <1>2, <1>3, <1>8 DEF Picks
  <2>3. ASSUME NEW k \in DOMAIN some
        PROVE  some[k].entries \subseteq gone \/ \E i \in DOMAIN t : h[i] = k
    BY <1>1, <1>2, <1>3, <1>8 DEF Picks
  <2> QED
    BY <1>8, <2>1, <2>2, <2>3 DEF Strips, Picks
<1> QED
  BY <1>5, <1>7, <1>9 DEF Stripped

\* The acts that are not released, stripped.
LEMMA OthersStrip ==
    ASSUME acts \in Seq(Acts), NEW released, NEW gone, NEW subjects
    PROVE  Stripped(Without(Others(released), gone, subjects), acts, DOMAIN acts \ released,
                    gone, subjects)
<1> DEFINE keep == DOMAIN acts \ released
           u == Others(released)
           t == Without(u, gone, subjects)
<1>1. u \in Seq(Acts) /\ \E g : Picks(u, acts, keep, g)
  BY KeptPicks DEF Others
<1>2. PICK g : Picks(u, acts, keep, g)
  BY <1>1
<1> HIDE DEF u
<1>3. t \in Seq(Acts) /\ \E h : Strips(t, u, DOMAIN u, gone, subjects, h)
  BY <1>1, WithoutStrips DEF Stripped
<1>4. PICK h : Strips(t, u, DOMAIN u, gone, subjects, h)
  BY <1>3
<1> HIDE DEF t, keep
<1> DEFINE f == [i \in DOMAIN t |-> g[h[i]]]
<1>5. Strips(t, acts, keep, gone, subjects, f)
  <2>1. f \in [DOMAIN t -> keep]
    BY <1>2, <1>4 DEF Picks, Strips
  <2>2. ASSUME NEW i \in DOMAIN t
        PROVE  /\ t[i].lines = acts[f[i]].lines
               /\ t[i].entries = acts[f[i]].entries \ gone
               /\ t[i].made = acts[f[i]].made \ subjects
               /\ t[i].entries # {}
    BY <1>2, <1>4 DEF Picks, Strips
  <2>3. \A i, j \in DOMAIN t : i # j => f[i] # f[j]
    BY <1>2, <1>4 DEF Picks, Strips
  <2>4. ASSUME NEW k \in keep
        PROVE  acts[k].entries \subseteq gone \/ \E i \in DOMAIN t : f[i] = k
    <3>1. PICK j \in DOMAIN u : g[j] = k
      BY <1>2 DEF Picks
    <3>2. u[j] = acts[k]
      BY <1>2, <3>1 DEF Picks
    <3>3. u[j].entries \subseteq gone \/ \E i \in DOMAIN t : h[i] = j
      BY <1>4, <3>1 DEF Strips
    <3> QED
      BY <3>1, <3>2, <3>3
  <2> HIDE DEF f
  <2> QED
    BY <2>1, <2>2, <2>3, <2>4 DEF Strips
<1> QED
  BY <1>3, <1>5 DEF Stripped, t, u, keep

\* The parts of the invariant, position by position.
RestTyped ==
    /\ seen \in [Lines -> SUBSET Imports] /\ skips \subseteq Lines
    /\ budget \in [Rows -> [state : {"none", "open", "paid"}, tracks : BOOLEAN]]
    /\ moves \subseteq Subjects /\ elsewhere \subseteq moves /\ fresh \subseteq Subjects
    /\ page.on \cup page.holds \subseteq Subjects /\ page.named \subseteq Lines
    /\ PageFits

ActsStand ==
    \A k \in DOMAIN acts :
        /\ acts[k].lines # {} /\ acts[k].lines \subseteq Recorded \ skips
        /\ acts[k].entries # {} /\ acts[k].entries \subseteq moves \ elsewhere
        /\ \A s \in acts[k].made : Standing(s[1]) /\ (~Covers(s) => s \in moves)

Apart(a, b) == /\ a.lines \cap b.lines = {} /\ a.entries \cap b.entries = {}
               /\ a.made \cap b.made = {}

FreshIsNamed ==
    \A s \in fresh :
        /\ Standing(s[1])
        /\ ~(Covers(s) /\ budget[s[1]].tracks) => \E k \in DOMAIN acts : s \in MadeAndNamed(k)
        /\ Covers(s) /\ budget[s[1]].tracks => s \notin moves

MovesAreFiled ==
    \A m \in moves : Standing(m[1]) /\ (~Covers(m) => budget[m[1]].tracks)

PositionInv ==
    /\ acts \in Seq(Acts) /\ RestTyped
    /\ ActsStand
    /\ \A j, k \in DOMAIN acts : j # k => Apart(acts[j], acts[k])
    /\ skips \subseteq Recorded
    /\ FreshIsNamed
    /\ MovesAreFiled

LEMMA ByPosition == IInv <=> PositionInv
<1>1. \A l : l \in MatchedLines <=> \E k \in DOMAIN acts : l \in acts[k].lines
  BY ActsTell DEF MatchedLines
<1>2. \A s : s \in MadeByActs <=> \E k \in DOMAIN acts : s \in acts[k].made
  BY ActsTell DEF MadeByActs
<1>3. ActsNameBothSides <=>
         \A k \in DOMAIN acts :
            /\ acts[k].lines # {} /\ acts[k].lines \subseteq Recorded
            /\ acts[k].entries # {} /\ acts[k].entries \subseteq moves \ elsewhere
  BY ActsTell DEF ActsNameBothSides
<1>4. skips \subseteq Recorded \ MatchedLines <=>
         /\ skips \subseteq Recorded
         /\ \A k \in DOMAIN acts : acts[k].lines \cap skips = {}
  BY <1>1
<1>5. CreatedRowsKeepTheirLine <=>
         \A s \in fresh : ~(Covers(s) /\ budget[s[1]].tracks)
                             => \E k \in DOMAIN acts : s \in MadeAndNamed(k)
  BY ActsTell DEF CreatedRowsKeepTheirLine, MadeAndNamed
<1>6. RowsOwnTheirs <=>
         /\ \A s \in moves \cup fresh : Standing(s[1])
         /\ \A k \in DOMAIN acts : \A s \in acts[k].made : /\ Standing(s[1])
                                                           /\ ~Covers(s) => s \in moves
  BY <1>2 DEF RowsOwnTheirs
<1>7. acts \in Seq(Acts) => (TypeOK /\ PageFits <=> RestTyped)
  <2>1. acts \in Seq(Acts) => \A k \in DOMAIN acts : acts[k] \in Acts
    OBVIOUS
  <2> QED
    BY <2>1, ActsTell DEF Acts, TypeOK, RestTyped
<1> QED
  BY <1>3, <1>4, <1>5, <1>6, <1>7
  DEF IInv, MatchesAreWhole, OneAnswerPerLine, ContainersTrack, PositionInv, ActsStand,
      Apart, FreshIsNamed, MovesAreFiled

\* A step that strips the acts at keep: what leaves the books is no longer
\* fresh, what an act dropped had made is not either, and what stays has its row.
StripStep(keep, gone, subjects) ==
    /\ keep \subseteq DOMAIN acts
    /\ Stripped(acts', acts, keep, gone, subjects)
    /\ RestTyped'
    /\ \A k \in keep : /\ acts[k].lines \subseteq Recorded'
                       /\ acts[k].lines \cap skips' = {}
                       /\ \A s \in acts[k].made \ subjects :
                             Standing(s[1])' /\ (~Covers(s) => s \in moves')
    /\ skips' \subseteq Recorded'
    /\ moves \ gone \subseteq moves' /\ elsewhere' \subseteq elsewhere \cup gone
    /\ fresh' \subseteq fresh \ (gone \cup subjects)
    /\ \A k \in DOMAIN acts \ keep : fresh' \cap MadeAndNamed(k) = {}
    /\ \A s \in fresh' : /\ Standing(s[1])' /\ budget'[s[1]].tracks = budget[s[1]].tracks
                         /\ s \in moves' => s \in moves
    /\ \A m \in moves' : Standing(m[1])' /\ (~Covers(m) => budget'[m[1]].tracks)

LEMMA StripKeeps ==
    ASSUME IInv, NEW keep, NEW gone, NEW subjects, StripStep(keep, gone, subjects)
    PROVE  IInv'
<1> USE DEF StripStep
<1> DEFINE t == acts'
<1>1. PICK h : Strips(t, acts, keep, gone, subjects, h)
  BY DEF Stripped
<1>2. acts' \in Seq(Acts)
  BY DEF Stripped
<1>3. /\ \A k \in DOMAIN acts :
            /\ acts[k].lines # {} /\ acts[k].entries \subseteq moves \ elsewhere
      /\ \A j, k \in DOMAIN acts : j # k =>
            /\ acts[j].lines \cap acts[k].lines = {}
            /\ acts[j].entries \cap acts[k].entries = {}
            /\ acts[j].made \cap acts[k].made = {}
      /\ \A s \in fresh :
            /\ ~(Covers(s) /\ budget[s[1]].tracks) => \E k \in DOMAIN acts : s \in MadeAndNamed(k)
            /\ Covers(s) /\ budget[s[1]].tracks => s \notin moves
  BY ByPosition DEF PositionInv, ActsStand, Apart, FreshIsNamed
<1>4. ASSUME NEW i \in DOMAIN t
      PROVE  /\ h[i] \in keep /\ h[i] \in DOMAIN acts
             /\ t[i].lines = acts[h[i]].lines
             /\ t[i].entries = acts[h[i]].entries \ gone
             /\ t[i].made = acts[h[i]].made \ subjects
             /\ t[i].entries # {}
  BY <1>1 DEF Strips
<1>5. ASSUME NEW i \in DOMAIN t
      PROVE  /\ t[i].lines # {} /\ t[i].lines \subseteq Recorded'
             /\ t[i].entries # {} /\ t[i].entries \subseteq moves' \ elsewhere'
             /\ t[i].lines \cap skips' = {}
             /\ \A s \in t[i].made : /\ Standing(s[1])'
                                     /\ ~Covers(s) => s \in moves'
  <2>1. t[i].entries \subseteq moves' \ elsewhere'
    BY <1>3, <1>4
  <2>2. t[i].lines # {} /\ t[i].lines \subseteq Recorded' /\ t[i].lines \cap skips' = {}
    BY <1>3, <1>4
  <2> QED
    BY <1>4, <2>1, <2>2
<1>6. ASSUME NEW i \in DOMAIN t, NEW j \in DOMAIN t, i # j
      PROVE  /\ t[i].lines \cap t[j].lines = {}
             /\ t[i].entries \cap t[j].entries = {}
             /\ t[i].made \cap t[j].made = {}
  <2>1. h[i] # h[j]
    BY <1>1, <1>6 DEF Strips
  <2>2. /\ acts[h[i]].lines \cap acts[h[j]].lines = {}
        /\ acts[h[i]].entries \cap acts[h[j]].entries = {}
        /\ acts[h[i]].made \cap acts[h[j]].made = {}
    BY <1>3, <1>4, <2>1
  <2> QED
    BY <1>4, <2>2
<1>7. ASSUME NEW s \in fresh', ~(Covers(s) /\ budget'[s[1]].tracks)
      PROVE  \E i \in DOMAIN t : s \in t[i].made \cap t[i].entries
  <2>1. s \in fresh /\ s \notin gone /\ s \notin subjects
        /\ budget'[s[1]].tracks = budget[s[1]].tracks
    OBVIOUS
  <2>2. PICK k \in DOMAIN acts : s \in MadeAndNamed(k)
    BY <1>3, <1>7, <2>1
  <2>3. k \in keep
    BY <2>2
  <2>4. s \in acts[k].made /\ s \in acts[k].entries
    BY <2>2 DEF MadeAndNamed
  <2>5. PICK i \in DOMAIN t : h[i] = k
    BY <1>1, <2>1, <2>3, <2>4 DEF Strips
  <2> QED
    BY <1>4, <2>1, <2>4, <2>5
<1>8. \A s \in fresh' : Covers(s) /\ budget'[s[1]].tracks => s \notin moves'
  BY <1>3
<1>9. \A s \in fresh' : ~(Covers(s) /\ budget'[s[1]].tracks)
                           => \E i \in DOMAIN acts' : s \in MadeAndNamed(i)'
  BY <1>7 DEF MadeAndNamed
<1>10. IInv' <=> PositionInv'
  BY ByPosition, PTL
<1> HIDE DEF t
<1> QED
  BY <1>2, <1>5, <1>6, <1>8, <1>9, <1>10
  DEF t, PositionInv, ActsStand, Apart, FreshIsNamed, MovesAreFiled

\* A step that records an act of lines that wait and movements in no act.
AppendStep(e) ==
    /\ e \in Acts /\ acts' = Append(acts, e) /\ RestTyped'
    /\ e.lines # {} /\ e.lines \subseteq Waiting
    /\ e.entries # {} /\ e.entries \subseteq moves' \ elsewhere' /\ e.entries \cap Claimed = {}
    /\ \A s \in e.made : /\ Standing(s[1])' /\ (~Covers(s) => s \in moves')
                         /\ s \notin MadeByActs
    /\ moves \subseteq moves' /\ UNCHANGED <<seen, skips, elsewhere>>
    /\ \A s \in fresh' \ fresh : /\ s \in e.made
                                 /\ s \in e.entries \/ (Covers(s) /\ budget'[s[1]].tracks)
                                 /\ Covers(s) /\ budget'[s[1]].tracks => s \notin moves'
    /\ \A s \in fresh' \cap fresh : s \in moves' => s \in moves
    /\ \A m \in moves' \ moves : Standing(m[1])' /\ (~Covers(m) => budget'[m[1]].tracks)
    /\ \A r \in Rows : Standing(r) => Standing(r)' /\ budget'[r].tracks = budget[r].tracks

LEMMA AppendKeeps ==
    ASSUME IInv, NEW e, AppendStep(e)
    PROVE  IInv'
<1> USE DEF AppendStep
<1> DEFINE n == Len(acts) + 1
           t == acts'
<1>1. /\ acts \in Seq(Acts) /\ RestTyped /\ ActsStand
      /\ \A j, k \in DOMAIN acts : j # k => Apart(acts[j], acts[k])
      /\ skips \subseteq Recorded /\ FreshIsNamed /\ MovesAreFiled
  BY ByPosition DEF PositionInv
<1>2. /\ t \in Seq(Acts) /\ DOMAIN t = DOMAIN acts \cup {n} /\ n \notin DOMAIN acts
      /\ t[n] = e /\ \A k \in DOMAIN acts : t[k] = acts[k]
  BY <1>1
<1> HIDE DEF t, n
<1>3. \A k \in DOMAIN acts : /\ acts[k].lines \cap e.lines = {}
                             /\ acts[k].entries \cap e.entries = {}
                             /\ acts[k].made \cap e.made = {}
  BY ActsTell DEF Waiting, MatchedLines, Claimed, MadeByActs
<1>4. Recorded' = Recorded /\ skips' = skips /\ elsewhere' = elsewhere
  BY DEF Recorded
<1>5. \A s \in Subjects : s[1] \in Rows
  BY DEF Subjects
<1>6. /\ \A s \in fresh \cup moves : s \in Subjects
      /\ \A k \in DOMAIN acts : \A s \in acts[k].made : s \in Subjects
  <2>1. \A k \in DOMAIN acts : acts[k] \in Acts
    BY <1>1
  <2> QED
    BY <1>1, <2>1 DEF RestTyped, Acts
<1>7. ASSUME NEW k \in DOMAIN t
      PROVE  /\ t[k].lines # {} /\ t[k].lines \subseteq Recorded' \ skips'
             /\ t[k].entries # {} /\ t[k].entries \subseteq moves' \ elsewhere'
             /\ \A s \in t[k].made : Standing(s[1])' /\ (~Covers(s) => s \in moves')
  <2>1. CASE k = n
    BY <1>2, <1>4, <2>1 DEF Waiting
  <2>2. CASE k \in DOMAIN acts
    BY <1>1, <1>2, <1>4, <1>5, <1>6, <2>2 DEF ActsStand
  <2> QED
    BY <1>2, <2>1, <2>2
<1>8. ASSUME NEW j \in DOMAIN t, NEW k \in DOMAIN t, j # k
      PROVE  Apart(t[j], t[k])
  BY <1>1, <1>2, <1>3, <1>8 DEF Apart
<1>9. ASSUME NEW s \in fresh'
      PROVE  /\ Standing(s[1])'
             /\ ~(Covers(s) /\ budget'[s[1]].tracks)
                   => \E k \in DOMAIN t : s \in t[k].made \cap t[k].entries
             /\ Covers(s) /\ budget'[s[1]].tracks => s \notin moves'
  <2>1. CASE s \notin fresh
    BY <1>2, <2>1
  <2>2. CASE s \in fresh
    <3>1. Standing(s[1]) /\ s[1] \in Rows
      BY <1>1, <1>5, <1>6, <2>2 DEF FreshIsNamed
    <3>2. Standing(s[1])' /\ budget'[s[1]].tracks = budget[s[1]].tracks
      BY <3>1
    <3>3. s \in moves' => s \in moves
      BY <2>2
    <3> QED
      BY <1>1, <1>2, <2>2, <3>2, <3>3 DEF FreshIsNamed, MadeAndNamed
  <2> QED
    BY <2>1, <2>2
<1>10. \A m \in moves' : Standing(m[1])' /\ (~Covers(m) => budget'[m[1]].tracks)
  BY <1>1, <1>5, <1>6 DEF MovesAreFiled
<1>11. IInv' <=> PositionInv'
  BY ByPosition, PTL
<1> QED
  BY <1>1, <1>2, <1>4, <1>7, <1>8, <1>9, <1>10, <1>11
  DEF t, PositionInv, ActsStand, FreshIsNamed, MovesAreFiled, MadeAndNamed

\* A step that leaves the acts alone.
SameActsStep ==
    /\ RestTyped' /\ acts' = acts
    /\ Recorded \subseteq Recorded' /\ skips' \subseteq Recorded \ MatchedLines
    /\ moves \subseteq moves' /\ elsewhere' = elsewhere /\ fresh' \subseteq fresh
    /\ \A s \in fresh' : s \in moves' => s \in moves
    /\ \A m \in moves' \ moves : Standing(m[1])' /\ (~Covers(m) => budget'[m[1]].tracks)
    /\ \A r \in Rows : Standing(r) => Standing(r)' /\ budget'[r].tracks = budget[r].tracks

LEMMA SameActsKeep ==
    ASSUME IInv, SameActsStep
    PROVE  IInv'
<1> USE DEF SameActsStep
<1> DEFINE h == [k \in DOMAIN acts |-> k]
           keep == DOMAIN acts
<1>1. /\ acts \in Seq(Acts) /\ RestTyped /\ ActsStand /\ FreshIsNamed /\ MovesAreFiled
  BY ByPosition DEF PositionInv
<1>2. Stripped(acts', acts, keep, {}, {})
  <2>1. Strips(acts, acts, DOMAIN acts, {}, {}, h)
    BY <1>1 DEF Strips, ActsStand
  <2> HIDE DEF h
  <2> QED
    BY <1>1, <2>1 DEF Stripped
<1>3. /\ \A s \in fresh \cup moves : s[1] \in Rows
      /\ \A k \in DOMAIN acts : \A s \in acts[k].made : s[1] \in Rows
  <2>1. \A k \in DOMAIN acts : acts[k] \in Acts
    BY <1>1
  <2> QED
    BY <1>1, <2>1 DEF RestTyped, Acts, Subjects
<1>4. \A k \in keep : /\ acts[k].lines \subseteq Recorded'
                      /\ acts[k].lines \cap skips' = {}
                      /\ \A s \in acts[k].made \ {} : /\ Standing(s[1])'
                                                      /\ ~Covers(s) => s \in moves'
  BY <1>1, <1>3, ActsTell DEF ActsStand, MatchedLines
<1>5. /\ \A s \in fresh' : /\ Standing(s[1])' /\ budget'[s[1]].tracks = budget[s[1]].tracks
                           /\ s \in moves' => s \in moves
      /\ \A m \in moves' : /\ Standing(m[1])'
                           /\ ~Covers(m) => budget'[m[1]].tracks
  BY <1>1, <1>3 DEF FreshIsNamed, MovesAreFiled
<1>6. fresh' \subseteq fresh \ ({} \cup {}) /\ moves \ {} \subseteq moves'
      /\ elsewhere' \subseteq elsewhere \cup {} /\ keep \in SUBSET DOMAIN acts
      /\ \A k \in DOMAIN acts \ keep : fresh' \cap MadeAndNamed(k) = {}
  OBVIOUS
<1>7. skips' \subseteq Recorded'
  OBVIOUS
<1>8. StripStep(keep, {}, {})
  BY <1>2, <1>4, <1>5, <1>6, <1>7 DEF StripStep
<1> HIDE DEF keep
<1> QED
  BY <1>8, StripKeeps

(***************************************************************************)
(* The doors keep it.                                                      *)
(***************************************************************************)

\* The purchase a row would hold next: the first number that is free.
LEMMA NextPurchaseIs ==
    ASSUME NEW r \in Rows, NEW p \in NextPurchase(r)
    PROVE  p \in Subjects /\ p[1] = r /\ ~Covers(p) /\ p \notin moves
<1> DEFINE First(n) == <<r, n>> \notin moves /\ \A k \in 1..(n - 1) : <<r, k>> \in moves
           P == {k \in 0..MaxPurchases : \A j \in 1..k : <<r, j>> \in moves}
<1>1. ~\A n \in 1..MaxPurchases : <<r, n>> \in moves
  BY DEF NextPurchase
<1>2. ASSUME \A n \in 1..MaxPurchases : ~First(n)
      PROVE  FALSE
  <2>1. 0 \in P
    BY BoundAssumption
  <2>2. ASSUME NEW k \in 0..MaxPurchases, k # MaxPurchases, k \in P
        PROVE  k + 1 \in P
    <3>1. k + 1 \in 1..MaxPurchases /\ k + 1 \in 0..MaxPurchases /\ (k + 1) - 1 = k
      BY <2>2, BoundAssumption
    <3>2. <<r, k + 1>> \in moves
      BY <1>2, <2>2, <3>1
    <3>3. \A j \in 1..(k + 1) : j = k + 1 \/ j \in 1..k
      BY <3>1
    <3> QED
      BY <2>2, <3>1, <3>2, <3>3
  <2>3. MaxPurchases \in P
    <3> HIDE DEF P
    <3>1. MaxPurchases \in 0..MaxPurchases
      BY BoundAssumption
    <3> QED
      BY <2>1, <2>2, <3>1, BoundAssumption, UpTo
  <2> QED
    BY <1>1, <2>3
<1> DEFINE n == CHOOSE i \in 1..MaxPurchases : First(i)
<1>3. n \in 1..MaxPurchases /\ First(n)
  BY <1>2
<1>4. p = <<r, n>>
  BY <1>1 DEF NextPurchase
<1> HIDE DEF n
<1>5. n \in 0..MaxPurchases /\ n # 0
  BY <1>3, BoundAssumption
<1> QED
  BY <1>3, <1>4, <1>5 DEF Subjects, Covers

\* What every state the invariant holds of has.
LEMMA Facts ==
    IInv => /\ acts \in Seq(Acts) /\ RestTyped
            /\ \A r \in Rows : Payment(r) \in Subjects /\ Covers(Payment(r)) /\ Payment(r)[1] = r
            /\ \A s \in Subjects : s[1] \in Rows /\ (Covers(s) => s = Payment(s[1]))
            /\ \A s \in fresh \cup moves \cup Claimed \cup MadeByActs :
                  s \in Subjects /\ s[1] \in Rows /\ Standing(s[1])
            /\ Claimed \subseteq moves \ elsewhere
            /\ MatchedLines \subseteq Recorded \ skips
<1> SUFFICES ASSUME IInv
             PROVE  /\ acts \in Seq(Acts) /\ RestTyped
                    /\ \A r \in Rows : Payment(r) \in Subjects /\ Covers(Payment(r)) /\ Payment(r)[1] = r
                    /\ \A s \in Subjects : s[1] \in Rows /\ (Covers(s) => s = Payment(s[1]))
                    /\ \A s \in fresh \cup moves \cup Claimed \cup MadeByActs :
                          s \in Subjects /\ s[1] \in Rows /\ Standing(s[1])
                    /\ Claimed \subseteq moves \ elsewhere
                    /\ MatchedLines \subseteq Recorded \ skips
  OBVIOUS
<1>1. /\ acts \in Seq(Acts) /\ RestTyped /\ ActsStand /\ FreshIsNamed /\ MovesAreFiled
  BY ByPosition DEF PositionInv
<1>2. \A k \in DOMAIN acts : acts[k] \in Acts
  BY <1>1
<1>3. Claimed \subseteq moves \ elsewhere /\ MatchedLines \subseteq Recorded \ skips
  BY <1>1, ActsTell DEF Claimed, MatchedLines, ActsStand
<1>4. \A s \in MadeByActs : s \in Subjects /\ Standing(s[1])
  BY <1>1, <1>2, ActsTell DEF MadeByActs, ActsStand, Acts
<1>5. \A s \in fresh \cup moves : s \in Subjects /\ Standing(s[1])
  BY <1>1 DEF RestTyped, FreshIsNamed, MovesAreFiled
<1>6. \A r \in Rows : Payment(r) \in Subjects /\ Covers(Payment(r)) /\ Payment(r)[1] = r
  BY BoundAssumption DEF Payment, Covers, Subjects
<1>7. \A s \in Subjects : s[1] \in Rows /\ (Covers(s) => s = Payment(s[1]))
  BY DEF Payment, Covers, Subjects
<1> QED
  BY <1>1, <1>3, <1>4, <1>5, <1>6, <1>7

\* Lines sighted, skipped or not; pages; a purchase by hand, a revert, an edit.
LEMMA RecordStatementKeeps ==
    ASSUME IInv, NEW i \in Imports, NEW file \in SUBSET Lines, RecordStatement(i, file)
    PROVE  IInv'
<1>1. /\ RestTyped /\ MatchedLines \subseteq Recorded \ skips /\ skips \subseteq Recorded
      /\ \A s \in moves \cup fresh : Standing(s[1])
  BY Facts, ByPosition DEF PositionInv
<1>2. seen' \in [Lines -> SUBSET Imports]
  BY <1>1 DEF RecordStatement, RestTyped
<1>3. RestTyped'
  BY <1>1, <1>2 DEF RecordStatement, RestTyped, PageFits, Covers
<1>4. Recorded \subseteq Recorded'
  BY DEF RecordStatement, Recorded
<1>5. skips' \subseteq Recorded \ MatchedLines
  BY <1>1 DEF RecordStatement
<1>6. SameActsStep
  BY <1>1, <1>3, <1>4, <1>5 DEF RecordStatement, SameActsStep, Standing
<1> QED
  BY <1>6, SameActsKeep

LEMMA SkipsKeep ==
    ASSUME IInv, NEW l \in Lines, SkipLine(l) \/ UnskipLine(l)
    PROVE  IInv'
<1>1. /\ RestTyped /\ MatchedLines \subseteq Recorded \ skips /\ skips \subseteq Recorded
  BY Facts, ByPosition DEF PositionInv
<1>2. seen' = seen /\ Recorded' = Recorded
  BY DEF SkipLine, UnskipLine, Recorded
<1>3. skips' \subseteq Recorded \ MatchedLines
  BY <1>1 DEF SkipLine, UnskipLine
<1>4. RestTyped'
  BY <1>1 DEF SkipLine, UnskipLine, RestTyped, PageFits, Covers
<1>5. SameActsStep
  BY <1>2, <1>3, <1>4 DEF SkipLine, UnskipLine, SameActsStep, Standing
<1> QED
  BY <1>5, SameActsKeep

LEMMA NamedLines ==
    ASSUME IInv, NEW door, NEW on
    PROVE  Named(door, on) \subseteq MatchedLines
BY DEF Named, MatchedLines

LEMMA DrawnFits ==
    ASSUME IInv, NEW door \in Doors, NEW on \in Drawable(door)
    PROVE  on \subseteq Subjects /\ (door # "purchase" => \A s \in on : Covers(s))
<1>1. moves \subseteq Subjects /\ \A r \in Rows : Payment(r) \in Subjects /\ Covers(Payment(r))
  BY Facts DEF RestTyped
<1>2. CASE door = "delete"
  BY <1>1, <1>2 DEF Drawable
<1>3. CASE door = "purchase"
  BY <1>1, <1>3 DEF Drawable
<1>4. CASE door = "card"
  BY <1>1, <1>4 DEF Drawable
<1>5. CASE door = "settle"
  BY <1>1, <1>5 DEF Drawable
<1> QED
  BY <1>2, <1>3, <1>4, <1>5, DoorsAssumption

LEMMA PagesKeep ==
    ASSUME IInv, ClosePage \/ \E door \in Doors : \E on \in Drawable(door) : DrawPage(door, on)
    PROVE  IInv'
<1>1. /\ RestTyped /\ MatchedLines \subseteq Recorded \ skips /\ skips \subseteq Recorded
      /\ Recorded \subseteq Lines
  BY Facts, ByPosition DEF PositionInv, Recorded
<1>2. UNCHANGED <<seen, skips, acts, budget, moves, elsewhere, fresh>>
  BY DEF ClosePage, DrawPage
<1>3. page'.on \cup page'.holds \subseteq Subjects /\ page'.named \subseteq Lines /\ PageFits'
  <2>1. CASE ClosePage
    BY <2>1 DEF ClosePage, NoPage, PageFits
  <2>2. ASSUME NEW door \in Doors, NEW on \in Drawable(door), DrawPage(door, on)
        PROVE  page'.on \cup page'.holds \subseteq Subjects /\ page'.named \subseteq Lines /\ PageFits'
    <3>1. page' = [door |-> door, on |-> on, named |-> Named(door, on),
                   holds |-> IF door = "delete" THEN Held(on) ELSE {}]
      BY <2>2 DEF DrawPage
    <3>2. Named(door, on) \subseteq Lines
      BY <1>1, NamedLines
    <3>3. Held(on) \subseteq Subjects
      BY <1>1 DEF Held, Purchases, RestTyped
    <3>4. on \subseteq Subjects /\ (door # "purchase" => \A s \in on : Covers(s))
      BY DrawnFits
    <3> QED
      BY <3>1, <3>2, <3>3, <3>4 DEF PageFits, Covers
  <2> QED
    BY <2>1, <2>2
<1>4. RestTyped'
  BY <1>1, <1>2, <1>3 DEF RestTyped
<1>5. SameActsStep
  BY <1>1, <1>2, <1>4 DEF SameActsStep, Standing, Recorded
<1> QED
  BY <1>5, SameActsKeep

LEMMA RevertKeeps ==
    ASSUME IInv, NEW r \in Rows, Revert(r)
    PROVE  IInv'
<1>1. /\ RestTyped /\ MatchedLines \subseteq Recorded \ skips /\ skips \subseteq Recorded
  BY Facts, ByPosition DEF PositionInv
<1>2. budget' \in [Rows -> [state : {"none", "open", "paid"}, tracks : BOOLEAN]]
  BY <1>1 DEF Revert, RestTyped
<1>3. \A q \in Rows : (Standing(q) => Standing(q)') /\ budget'[q].tracks = budget[q].tracks
  BY <1>1 DEF Revert, RestTyped, Standing
<1>4. RestTyped'
  BY <1>1, <1>2 DEF Revert, RestTyped, PageFits, Covers
<1>5. SameActsStep
  BY <1>1, <1>3, <1>4 DEF Revert, SameActsStep, Recorded
<1> QED
  BY <1>5, SameActsKeep

LEMMA AddPurchaseKeeps ==
    ASSUME IInv, NEW r \in Rows, AddPurchase(r)
    PROVE  IInv'
<1>1. /\ RestTyped /\ MatchedLines \subseteq Recorded \ skips /\ skips \subseteq Recorded
  BY Facts, ByPosition DEF PositionInv
<1>2. PICK p \in NextPurchase(r) : /\ TakesAPurchase(r) /\ moves' = moves \cup {p}
                                   /\ UNCHANGED <<seen, skips, acts, budget, elsewhere, fresh, page>>
  BY DEF AddPurchase
<1>3. p \in Subjects /\ p[1] = r /\ ~Covers(p) /\ p \notin moves
  BY NextPurchaseIs
<1>4. \A s \in fresh : s \in moves' => s \in moves
  <2>1. p \notin fresh
    <3>1. SUFFICES ASSUME p \in fresh PROVE FALSE
      OBVIOUS
    <3>2. PICK k \in DOMAIN acts : p \in MadeAndNamed(k)
      BY <1>3, <3>1, ByPosition DEF PositionInv, FreshIsNamed
    <3> QED
      BY <1>3, <3>2, Facts, ActsTell DEF MadeAndNamed, Claimed
  <2> QED
    BY <1>2, <2>1
<1>5. RestTyped'
  BY <1>1, <1>2, <1>3 DEF RestTyped, PageFits, Covers
<1>6. SameActsStep
  BY <1>1, <1>2, <1>3, <1>4, <1>5 DEF SameActsStep, Recorded, Standing, TakesAPurchase
<1> QED
  BY <1>6, SameActsKeep

LEMMA EditKeeps ==
    ASSUME IInv, NEW s \in fresh, Edit(s)
    PROVE  IInv'
<1>1. /\ RestTyped /\ MatchedLines \subseteq Recorded \ skips /\ skips \subseteq Recorded
  BY Facts, ByPosition DEF PositionInv
<1>2. RestTyped'
  BY <1>1 DEF Edit, RestTyped, PageFits, Covers
<1>3. SameActsStep
  BY <1>1, <1>2 DEF Edit, SameActsStep, Recorded, Standing
<1> QED
  BY <1>3, SameActsKeep

\* What an act may create has left no trace.
LEMMA UnusedIsNew ==
    ASSUME IInv, NEW r \in Unused, NEW s \in Subjects, s[1] = r
    PROVE  s \notin fresh \cup moves \cup Claimed \cup MadeByActs \cup elsewhere
BY Facts DEF Unused, RestTyped

\* A match accepted, a purchase and an income filed from a line.
LEMMA AcceptMatchKeeps ==
    ASSUME IInv, NEW lines, NEW rows, NEW entries, NEW minted,
           AcceptMatch(lines, rows, entries, minted)
    PROVE  IInv'
<1> DEFINE payments == {Payment(r) : r \in rows}
           created == {Payment(r) : r \in minted}
           touched == entries \cup payments \cup {Payment(m[1]) : m \in {e \in entries : Covers(e)}}
           e == Act(lines, entries \cup payments \cup created, created)
<1>1. /\ lines # {} /\ rows \cup entries # {}
      /\ lines \subseteq Waiting /\ rows \subseteq OfferedRows /\ entries \subseteq OfferedMoves
      /\ minted \subseteq Unused
      /\ acts' = Append(acts, e)
      /\ budget' = [r \in Rows |->
                       IF r \in rows THEN [budget[r] EXCEPT !.state = "paid"]
                       ELSE IF r \in minted THEN [state |-> "paid", tracks |-> FALSE]
                       ELSE budget[r]]
      /\ moves' = moves \cup payments \cup created
      /\ fresh' = (fresh \ touched) \cup created
      /\ UNCHANGED <<seen, skips, elsewhere, page>>
  BY DEF AcceptMatch
<1>2. /\ RestTyped /\ \A r \in Rows : Payment(r) \in Subjects /\ Covers(Payment(r)) /\ Payment(r)[1] = r
      /\ Claimed \subseteq moves \ elsewhere
  BY Facts
<1>3. /\ minted \subseteq Rows /\ rows \subseteq Rows /\ Waiting \subseteq Lines
      /\ entries \subseteq moves \ (elsewhere \cup Claimed)
  BY <1>1 DEF Unused, OfferedRows, OfferedMoves, Rows, Waiting, Recorded
<1>4. \A r \in minted : ~Standing(r) /\ r \notin rows
  BY <1>1 DEF Unused, OfferedRows, Standing
<1>5. \A s \in created : s \in Subjects /\ s[1] \in minted /\ Covers(s)
  BY <1>2, <1>3
<1>6. created \cap (fresh \cup moves \cup Claimed \cup MadeByActs \cup elsewhere) = {}
  BY <1>1, <1>5, UnusedIsNew
<1>7. \A s \in payments : s \in Subjects /\ s[1] \in rows /\ Covers(s) /\ s \notin elsewhere \cup Claimed
  BY <1>1, <1>2, <1>3 DEF OfferedRows
<1>8. e.lines = lines /\ e.entries = entries \cup payments \cup created /\ e.made = created
  BY DEF Act
<1>9. /\ payments \subseteq Subjects /\ created \subseteq Subjects /\ entries \subseteq Subjects
  BY <1>2, <1>3, <1>5, <1>7 DEF RestTyped
<1>10. e \in Acts /\ e.entries # {}
  <2>1. payments # {} \/ entries # {}
    BY <1>1
  <2> HIDE DEF payments, created
  <2> QED
    BY <1>1, <1>3, <1>8, <1>9, <2>1 DEF Acts, Act
<1> HIDE DEF e, payments, created
<1>11. budget' \in [Rows -> [state : {"none", "open", "paid"}, tracks : BOOLEAN]]
  BY <1>1, <1>2 DEF RestTyped
<1>12. /\ \A r \in rows : budget'[r].state = "paid" /\ budget'[r].tracks = budget[r].tracks
       /\ \A r \in minted : budget'[r].state = "paid" /\ budget'[r].tracks = FALSE
       /\ \A r \in Rows \ (rows \cup minted) : budget'[r] = budget[r]
  BY <1>1, <1>2, <1>3, <1>4 DEF RestTyped
<1>13. RestTyped'
  BY <1>1, <1>2, <1>9, <1>11 DEF RestTyped, PageFits, Covers
<1>14. \A r \in Rows : Standing(r) => Standing(r)' /\ budget'[r].tracks = budget[r].tracks
  BY <1>4, <1>12 DEF Standing
<1>15. \A m \in payments \cup created : Standing(m[1])' /\ Covers(m)
  BY <1>5, <1>7, <1>12 DEF Standing
<1>16. e.entries \subseteq moves' \ elsewhere' /\ e.entries \cap Claimed = {}
  BY <1>1, <1>3, <1>6, <1>7, <1>8
<1>17. \A s \in e.made : Standing(s[1])' /\ Covers(s) /\ s \notin MadeByActs
  BY <1>6, <1>8, <1>15
<1>18. \A s \in fresh' \ fresh : s \in e.made /\ s \in e.entries /\ ~budget'[s[1]].tracks
  BY <1>1, <1>5, <1>8, <1>12
<1>19. \A s \in fresh' \cap fresh : s \in moves' => s \in moves
  BY <1>1, <1>6
<1>20. AppendStep(e)
  BY <1>1, <1>8, <1>10, <1>13, <1>14, <1>15, <1>16, <1>17, <1>18, <1>19 DEF AppendStep
<1> QED
  BY <1>20, AppendKeeps

LEMMA FilePurchaseKeeps ==
    ASSUME IInv, NEW l, NEW r \in Rows, NEW recloses, FilePurchase(l, r, recloses)
    PROVE  IInv'
<1>1. PICK p \in NextPurchase(r) :
          /\ l \in Waiting /\ TakesAPurchase(r)
          /\ acts' = Append(acts, Act({l}, {p}, {p}))
          /\ moves' = moves \cup {p}
          /\ fresh' = (fresh \ (IF recloses THEN {Payment(r)} ELSE {})) \cup {p}
          /\ UNCHANGED <<seen, skips, budget, elsewhere, page>>
  BY DEF FilePurchase
<1> DEFINE e == Act({l}, {p}, {p})
<1>2. p \in Subjects /\ p[1] = r /\ ~Covers(p) /\ p \notin moves
  BY NextPurchaseIs
<1>3. /\ RestTyped /\ Claimed \subseteq moves \ elsewhere
      /\ \A s \in MadeByActs : ~Covers(s) => s \in moves
      /\ elsewhere \subseteq moves /\ Waiting \subseteq Lines
  BY Facts DEF IInv, RowsOwnTheirs, RestTyped, Waiting, Recorded
<1>4. e.lines = {l} /\ e.entries = {p} /\ e.made = {p} /\ e \in Acts
  BY <1>1, <1>2, <1>3 DEF Act, Acts
<1>5. Standing(r) /\ budget[r].tracks
  BY <1>1 DEF TakesAPurchase
<1>6. p \notin fresh
  <2>1. SUFFICES ASSUME p \in fresh PROVE FALSE
    OBVIOUS
  <2>2. PICK k \in DOMAIN acts : p \in MadeAndNamed(k)
    BY <1>2, <2>1, ByPosition DEF PositionInv, FreshIsNamed
  <2> QED
    BY <1>2, <1>3, <2>2, ActsTell DEF MadeAndNamed, Claimed
<1>7. RestTyped'
  BY <1>1, <1>2, <1>3 DEF RestTyped, PageFits, Covers
<1>8. AppendStep(e)
  <2> HIDE DEF e
  <2> QED BY <1>1, <1>2, <1>3, <1>4, <1>5, <1>6, <1>7 DEF AppendStep, Standing, e
<1> QED
  BY <1>8, AppendKeeps

LEMMA FileIntoNewKeeps ==
    ASSUME IInv, NEW l, NEW r \in Rows, FileIntoNew(l, r)
    PROVE  IInv'
<1> DEFINE p == <<r, 1>>
           e == Act({l}, {p}, {p, Payment(r)})
<1>1. /\ l \in Waiting /\ r \in Unused /\ MaxPurchases > 0
      /\ acts' = Append(acts, e)
      /\ budget' = [budget EXCEPT ![r] = [state |-> "paid", tracks |-> TRUE]]
      /\ moves' = moves \cup {p}
      /\ fresh' = fresh \cup {p, Payment(r)}
      /\ UNCHANGED <<seen, skips, elsewhere, page>>
  BY DEF FileIntoNew
<1>2. p \in Subjects /\ p[1] = r /\ ~Covers(p)
  BY <1>1, BoundAssumption DEF Subjects, Covers
<1>3. /\ RestTyped /\ Waiting \subseteq Lines
      /\ Payment(r) \in Subjects /\ Covers(Payment(r)) /\ Payment(r)[1] = r
  BY Facts DEF Waiting, Recorded
<1>4. {p, Payment(r)} \cap (fresh \cup moves \cup Claimed \cup MadeByActs \cup elsewhere) = {}
  BY <1>1, <1>2, <1>3, UnusedIsNew
<1>5. e.lines = {l} /\ e.entries = {p} /\ e.made = {p, Payment(r)} /\ e \in Acts
  BY <1>1, <1>2, <1>3 DEF Act, Acts
<1> HIDE DEF e, p
<1>6. /\ budget' \in [Rows -> [state : {"none", "open", "paid"}, tracks : BOOLEAN]]
      /\ budget'[r].state = "paid" /\ budget'[r].tracks
      /\ \A q \in Rows : q # r => budget'[q] = budget[q]
  BY <1>1, <1>3 DEF RestTyped
<1>7. ~Standing(r) /\ Standing(r)'
  BY <1>1, <1>6 DEF Unused, Standing
<1>8. RestTyped'
  BY <1>1, <1>2, <1>3, <1>6 DEF RestTyped, PageFits, Covers
<1>9. \A q \in Rows : Standing(q) => Standing(q)' /\ budget'[q].tracks = budget[q].tracks
  BY <1>6, <1>7 DEF Standing
<1>10. p # Payment(r)
  BY <1>2, <1>3
<1>11. AppendStep(e)
  BY <1>1, <1>2, <1>3, <1>4, <1>5, <1>6, <1>7, <1>8, <1>9, <1>10 DEF AppendStep
<1> QED
  BY <1>11, AppendKeeps

LEMMA RecordIncomeKeeps ==
    ASSUME IInv, NEW l, NEW r \in Rows, RecordIncome(l, r)
    PROVE  IInv'
<1> DEFINE p == Payment(r)
           e == Act({l}, {p}, {p})
<1>1. /\ l \in Waiting /\ r \in Unused
      /\ acts' = Append(acts, e)
      /\ budget' = [budget EXCEPT ![r] = [state |-> "paid", tracks |-> FALSE]]
      /\ moves' = moves \cup {p}
      /\ fresh' = fresh \cup {p}
      /\ UNCHANGED <<seen, skips, elsewhere, page>>
  BY DEF RecordIncome
<1>2. RestTyped /\ Waiting \subseteq Lines /\ p \in Subjects /\ p[1] = r /\ Covers(p)
  BY Facts DEF Waiting, Recorded
<1>3. p \notin fresh \cup moves \cup Claimed \cup MadeByActs \cup elsewhere
  BY <1>1, <1>2, UnusedIsNew
<1>4. e.lines = {l} /\ e.entries = {p} /\ e.made = {p} /\ e \in Acts
  BY <1>1, <1>2 DEF Act, Acts
<1> HIDE DEF e, p
<1>5. /\ budget' \in [Rows -> [state : {"none", "open", "paid"}, tracks : BOOLEAN]]
      /\ budget'[r].state = "paid" /\ ~budget'[r].tracks
      /\ \A q \in Rows : q # r => budget'[q] = budget[q]
  BY <1>1, <1>2 DEF RestTyped
<1>6. ~Standing(r) /\ Standing(r)'
  BY <1>1, <1>5 DEF Unused, Standing
<1>7. RestTyped'
  BY <1>1, <1>2, <1>5 DEF RestTyped, PageFits, Covers
<1>8. \A q \in Rows : Standing(q) => Standing(q)' /\ budget'[q].tracks = budget[q].tracks
  BY <1>5, <1>6 DEF Standing
<1>9. \A s \in {p} : /\ s[1] = r /\ Standing(s[1])' /\ Covers(s) /\ ~budget'[s[1]].tracks
  BY <1>2, <1>5, <1>6
<1>10. e.entries \subseteq moves' \ elsewhere' /\ e.entries \cap Claimed = {}
  BY <1>1, <1>3, <1>4
<1>11. AppendStep(e)
  BY <1>1, <1>3, <1>4, <1>7, <1>8, <1>9, <1>10 DEF AppendStep
<1> QED
  BY <1>11, AppendKeeps

\* Movements taken out, one or several, by a door that leaves the rows alone.
LEMMA TakeOutKeeps ==
    ASSUME IInv, NEW gone, TakeOut(gone), page' = NoPage, UNCHANGED <<seen, skips, budget>>
    PROVE  IInv'
<1> DEFINE subjects == gone \ {m \in gone : Covers(m)}
<1>1. /\ acts \in Seq(Acts) /\ RestTyped /\ ActsStand /\ skips \subseteq Recorded
      /\ FreshIsNamed /\ MovesAreFiled
  BY ByPosition DEF PositionInv
<1>2. /\ acts' = Without(acts, gone, subjects)
      /\ moves' = moves \ gone /\ elsewhere' = elsewhere \ gone /\ fresh' = fresh \ gone
  BY DEF TakeOut
<1>3. Stripped(acts', acts, DOMAIN acts, gone, subjects)
  BY <1>1, <1>2, WithoutStrips
<1>4. RestTyped'
  BY <1>1, <1>2 DEF RestTyped, PageFits, NoPage
<1>5. Recorded' = Recorded
  BY DEF Recorded
<1>6. \A k \in DOMAIN acts :
         /\ acts[k].lines \subseteq Recorded' /\ acts[k].lines \cap skips' = {}
         /\ \A s \in acts[k].made \ subjects : Standing(s[1])' /\ (~Covers(s) => s \in moves')
  BY <1>1, <1>2, <1>5 DEF ActsStand, Standing
<1>7. \A s \in fresh' \cup moves' : Standing(s[1])'
  BY <1>1, <1>2 DEF FreshIsNamed, MovesAreFiled, Standing
<1>8. \A m \in moves' : ~Covers(m) => budget'[m[1]].tracks
  BY <1>1, <1>2 DEF MovesAreFiled
<1> HIDE DEF subjects
<1>9. subjects \subseteq gone
  BY DEF subjects
<1>10. StripStep(DOMAIN acts, gone, subjects)
  BY <1>1, <1>2, <1>3, <1>4, <1>5, <1>6, <1>7, <1>8, <1>9 DEF StripStep
<1> QED
  BY <1>10, StripKeeps

LEMMA RePointKeeps ==
    ASSUME IInv, RePoint
    PROVE  IInv'
<1>1. /\ acts \in Seq(Acts) /\ RestTyped /\ ActsStand /\ skips \subseteq Recorded
      /\ FreshIsNamed /\ MovesAreFiled
  BY ByPosition DEF PositionInv
<1>2. PICK s \in page.on :
         /\ s \in moves
         /\ acts' = Without(acts, {s}, {})
         /\ elsewhere' = IF s \in elsewhere THEN elsewhere \ {s} ELSE elsewhere \cup {s}
         /\ fresh' = fresh \ {s} /\ page' = NoPage
         /\ UNCHANGED <<seen, skips, budget, moves>>
  BY DEF RePoint
<1>3. Stripped(acts', acts, DOMAIN acts, {s}, {})
  BY <1>1, <1>2, WithoutStrips
<1>4. RestTyped'
  BY <1>1, <1>2 DEF RestTyped, PageFits, NoPage
<1>5. Recorded' = Recorded
  BY <1>2 DEF Recorded
<1>6. \A k \in DOMAIN acts :
         /\ acts[k].lines \subseteq Recorded' /\ acts[k].lines \cap skips' = {}
         /\ \A q \in acts[k].made \ {} : Standing(q[1])' /\ (~Covers(q) => q \in moves')
  BY <1>1, <1>2, <1>5 DEF ActsStand, Standing
<1>7. \A q \in fresh' \cup moves' : Standing(q[1])'
  BY <1>1, <1>2 DEF FreshIsNamed, MovesAreFiled, Standing
<1>8. \A m \in moves' : ~Covers(m) => budget'[m[1]].tracks
  BY <1>1, <1>2 DEF MovesAreFiled
<1>9. StripStep(DOMAIN acts, {s}, {})
  BY <1>1, <1>2, <1>3, <1>4, <1>5, <1>6, <1>7, <1>8 DEF StripStep
<1> QED
  BY <1>9, StripKeeps

\* Rows paid: what was withdrawn were payments, and what was paid in are.
LEMMA SettleKeeps ==
    ASSUME IInv, NEW rows \in SUBSET OpenRows, Settle(rows),
           page' \in {page, NoPage}, UNCHANGED <<seen, skips>>
    PROVE  IInv'
<1> DEFINE payments == {Payment(r) : r \in rows}
           gone == RemovalOf("settle", payments)
           paying == {Payment(r) : r \in {q \in rows : ~SettlesFromEntries(q)}}
<1>1. /\ acts \in Seq(Acts) /\ RestTyped /\ ActsStand /\ skips \subseteq Recorded
      /\ FreshIsNamed /\ MovesAreFiled
  BY ByPosition DEF PositionInv
<1>2. /\ acts' = Without(acts, gone, {})
      /\ budget' = [r \in Rows |-> IF r \in rows THEN [budget[r] EXCEPT !.state = "paid"]
                                   ELSE budget[r]]
      /\ moves' = (moves \ gone) \cup paying
      /\ elsewhere' = elsewhere \ gone
      /\ fresh' = fresh \ payments
  BY DEF Settle
<1>3. rows \subseteq Rows
  BY DEF OpenRows
<1>4. \A r \in Rows : Payment(r) \in Subjects /\ Covers(Payment(r)) /\ Payment(r)[1] = r
  BY Facts
<1>5. \A s \in payments : s \in Subjects /\ Covers(s) /\ s[1] \in rows
  BY <1>3, <1>4
<1>6. gone \subseteq payments /\ paying \subseteq payments
  <2>1. \A s \in payments : Removal("settle", s) \subseteq payments
    <3>1. ASSUME NEW r \in rows PROVE Removal("settle", Payment(r)) \subseteq payments
      BY <1>3, <1>4 DEF Removal
    <3> QED
      BY <3>1
  <2> QED
    BY <2>1 DEF RemovalOf
<1> HIDE DEF payments, gone, paying
<1>7. Stripped(acts', acts, DOMAIN acts, gone, {})
  BY <1>1, <1>2, WithoutStrips
<1>8. /\ budget' \in [Rows -> [state : {"none", "open", "paid"}, tracks : BOOLEAN]]
      /\ \A r \in Rows : budget'[r].tracks = budget[r].tracks /\ (Standing(r) => Standing(r)')
      /\ \A r \in rows : Standing(r)'
  BY <1>1, <1>2, <1>3 DEF RestTyped, Standing
<1>9. RestTyped'
  BY <1>1, <1>2, <1>5, <1>6, <1>8 DEF RestTyped, PageFits, NoPage, Covers
<1>10. Recorded' = Recorded
  BY DEF Recorded
<1>11. /\ \A s \in fresh \cup moves : s[1] \in Rows
       /\ \A k \in DOMAIN acts : \A s \in acts[k].made : s[1] \in Rows
  <2>1. \A k \in DOMAIN acts : acts[k] \in Acts
    BY <1>1
  <2> QED
    BY <1>1, <2>1 DEF RestTyped, Acts, Subjects
<1>12. \A k \in DOMAIN acts :
          /\ acts[k].lines \subseteq Recorded' /\ acts[k].lines \cap skips' = {}
          /\ \A s \in acts[k].made \ {} : Standing(s[1])' /\ (~Covers(s) => s \in moves')
  BY <1>1, <1>2, <1>5, <1>6, <1>8, <1>10, <1>11 DEF ActsStand
<1>13. \A s \in fresh' : /\ Standing(s[1])' /\ budget'[s[1]].tracks = budget[s[1]].tracks
                         /\ s \in moves' => s \in moves
  BY <1>1, <1>2, <1>6, <1>8, <1>11 DEF FreshIsNamed
<1>14. \A m \in moves' : Standing(m[1])' /\ (~Covers(m) => budget'[m[1]].tracks)
  BY <1>1, <1>2, <1>5, <1>6, <1>8, <1>11 DEF MovesAreFiled
<1>15. StripStep(DOMAIN acts, gone, {})
  BY <1>1, <1>2, <1>6, <1>7, <1>9, <1>10, <1>12, <1>13, <1>14 DEF StripStep
<1> QED
  BY <1>15, StripKeeps

\* A row deleted: all it holds goes with it.
LEMMA DeleteRowKeeps ==
    ASSUME IInv, DeleteRow
    PROVE  IInv'
<1>1. /\ acts \in Seq(Acts) /\ RestTyped /\ ActsStand /\ skips \subseteq Recorded
      /\ FreshIsNamed /\ MovesAreFiled
  BY ByPosition DEF PositionInv
<1>2. PICK s \in page.on :
         LET gone == Removal("delete", s)
         IN /\ page.door = "delete"
            /\ acts' = Without(acts, gone, gone \cup {s})
            /\ budget' = [budget EXCEPT ![s[1]].state = "none"]
            /\ moves' = moves \ gone /\ elsewhere' = elsewhere \ gone
            /\ fresh' = fresh \ (gone \cup {s})
            /\ page' = NoPage
            /\ UNCHANGED <<seen, skips>>
  BY DEF DeleteRow
<1> DEFINE gone == Removal("delete", s)
           r == s[1]
<1>3. /\ page.door = "delete"
      /\ acts' = Without(acts, gone, gone \cup {s})
      /\ budget' = [budget EXCEPT ![r].state = "none"]
      /\ moves' = moves \ gone /\ elsewhere' = elsewhere \ gone
      /\ fresh' = fresh \ (gone \cup {s})
      /\ page' = NoPage
      /\ UNCHANGED <<seen, skips>>
  BY <1>2
<1>4. gone = {m \in moves : m[1] = r}
  BY DEF Removal
<1>5. s \in Subjects /\ Covers(s) /\ r \in Rows /\ s = Payment(r)
  BY <1>1, <1>3, Facts DEF RestTyped, PageFits
<1>6. \A q \in Subjects : Covers(q) /\ q[1] = r => q = s
  BY <1>5, Facts
<1>7. /\ \A q \in fresh \cup moves : q \in Subjects /\ q[1] \in Rows
      /\ \A k \in DOMAIN acts : \A q \in acts[k].made : q \in Subjects /\ q[1] \in Rows
  <2>1. \A k \in DOMAIN acts : acts[k] \in Acts
    BY <1>1
  <2> QED
    BY <1>1, <2>1 DEF RestTyped, Acts, Subjects
<1>8. \A q \in fresh : ~Covers(q) => q \in moves
  BY <1>1 DEF FreshIsNamed, MadeAndNamed, ActsStand
<1> HIDE DEF gone, r
<1>9. Stripped(acts', acts, DOMAIN acts, gone, gone \cup {s})
  BY <1>1, <1>3, WithoutStrips
<1>10. /\ budget' \in [Rows -> [state : {"none", "open", "paid"}, tracks : BOOLEAN]]
       /\ \A q \in Rows : budget'[q].tracks = budget[q].tracks
       /\ \A q \in Rows : q # r /\ Standing(q) => Standing(q)'
  BY <1>1, <1>3 DEF RestTyped, Standing
<1>11. RestTyped'
  BY <1>1, <1>3, <1>10 DEF RestTyped, PageFits, NoPage
<1>12. Recorded' = Recorded
  BY <1>3 DEF Recorded
<1>13. \A k \in DOMAIN acts : \A q \in acts[k].made \ (gone \cup {s}) :
          q[1] # r /\ Standing(q[1]) /\ (~Covers(q) => q \in moves')
  BY <1>1, <1>3, <1>4, <1>6, <1>7 DEF ActsStand
<1>14. \A k \in DOMAIN acts :
          /\ acts[k].lines \subseteq Recorded' /\ acts[k].lines \cap skips' = {}
          /\ \A q \in acts[k].made \ (gone \cup {s}) : Standing(q[1])' /\ (~Covers(q) => q \in moves')
  BY <1>1, <1>3, <1>7, <1>10, <1>12, <1>13 DEF ActsStand
<1>15. \A q \in fresh' : q[1] # r
  BY <1>3, <1>4, <1>6, <1>7, <1>8
<1>16. \A q \in fresh' : /\ Standing(q[1])' /\ budget'[q[1]].tracks = budget[q[1]].tracks
                         /\ q \in moves' => q \in moves
  BY <1>1, <1>3, <1>7, <1>10, <1>15 DEF FreshIsNamed
<1>17. \A m \in moves' : Standing(m[1])' /\ (~Covers(m) => budget'[m[1]].tracks)
  BY <1>1, <1>3, <1>4, <1>7, <1>10 DEF MovesAreFiled
<1>18. StripStep(DOMAIN acts, gone, gone \cup {s})
  BY <1>1, <1>3, <1>9, <1>11, <1>12, <1>14, <1>16, <1>17 DEF StripStep
<1> QED
  BY <1>18, StripKeeps

\* An undo: what it removes a row for takes what the row holds with it.
LEMMA RemovedRowsLeaveNothing ==
    ASSUME IInv, NEW released \in SUBSET DOMAIN acts, DoorsAdmit(released),
           NEW s \in Subjects, s[1] \in GoneRows(released), ~Covers(s) => s \in moves
    PROVE  s \in Removed(released)
<1>1. PICK q \in Removed(released) : Covers(q) /\ q[1] = s[1]
  BY DEF GoneRows
<1>2. CASE Covers(s)
  <2>1. q \in Subjects
    <3>1. PICK k \in released : q \in acts[k].made
      BY DEF Removed, TakenBack, Emptied, MadeAndNamed
    <3>2. acts[k] \in Acts
      BY Facts
    <3> QED
      BY <3>1, <3>2 DEF Acts
  <2> QED
    BY <1>1, <1>2, <2>1, Facts
<1>3. CASE ~Covers(s)
  <2>1. s \in Purchases(s[1])
    BY <1>3 DEF Purchases
  <2> QED
    BY <2>1 DEF DoorsAdmit, Removed
<1> QED
  BY <1>2, <1>3


LEMMA TakeBackKeeps ==
    ASSUME IInv, NEW released \in SUBSET DOMAIN acts, TakeBack(released),
           seen' \in [Lines -> SUBSET Imports], skips' \subseteq skips, skips' \subseteq Recorded',
           \A k \in DOMAIN acts \ released : acts[k].lines \subseteq Recorded'
    PROVE  IInv'
<1> DEFINE gone == GoneMoves(released)
           removed == Removed(released)
           keep == DOMAIN acts \ released
           rows == GoneRows(released)
<1>1. /\ acts \in Seq(Acts) /\ RestTyped /\ ActsStand /\ skips \subseteq Recorded
      /\ FreshIsNamed /\ MovesAreFiled
  BY ByPosition DEF PositionInv
<1>2. /\ DoorsAdmit(released)
      /\ acts' = Without(Others(released), gone, removed)
      /\ moves' = moves \ gone /\ elsewhere' = elsewhere \ gone
      /\ fresh' = fresh \ (removed \cup gone)
      /\ budget' = [r \in Rows |-> IF r \in rows THEN [budget[r] EXCEPT !.state = "none"]
                                   ELSE budget[r]]
      /\ page' = Reopened(removed \cup gone)
  BY DEF TakeBack
<1>3. \A s \in Subjects : s[1] \in rows /\ (~Covers(s) => s \in moves) => s \in removed
  BY <1>2, RemovedRowsLeaveNothing
<1>4. /\ TakenBack(released) \subseteq removed
      /\ gone = {m \in moves : m \in TakenBack(released) \/ m[1] \in rows}
  BY DEF GoneMoves, Removed
<1>5. /\ \A s \in fresh \cup moves : s \in Subjects /\ s[1] \in Rows
      /\ \A k \in DOMAIN acts : \A s \in acts[k].made : s \in Subjects /\ s[1] \in Rows
  <2>1. \A k \in DOMAIN acts : acts[k] \in Acts
    BY <1>1
  <2> QED
    BY <1>1, <2>1 DEF RestTyped, Acts, Subjects
<1>6. \A s \in fresh : ~Covers(s) => s \in moves
  BY <1>1 DEF FreshIsNamed, MadeAndNamed, ActsStand
<1>7. \A k \in released : MadeAndNamed(k) \subseteq removed
  BY DEF Removed, TakenBack
<1> HIDE DEF gone, removed, rows
<1>8. Stripped(acts', acts, keep, gone, removed)
  BY <1>1, <1>2, OthersStrip
<1>9. /\ budget' \in [Rows -> [state : {"none", "open", "paid"}, tracks : BOOLEAN]]
      /\ \A r \in Rows : budget'[r].tracks = budget[r].tracks
      /\ \A r \in Rows \ rows : Standing(r) => Standing(r)'
  BY <1>1, <1>2 DEF RestTyped, Standing
<1>10. RestTyped'
  <2>1. page' \in {page, NoPage}
    BY <1>2 DEF Reopened
  <2>2. /\ page'.on \cup page'.holds \subseteq Subjects /\ page'.named \subseteq Lines
        /\ PageFits'
    BY <1>1, <2>1 DEF RestTyped, PageFits, NoPage, Covers
  <2> QED
    BY <1>1, <1>2, <1>9, <2>2 DEF RestTyped
<1>11. \A k \in keep : \A s \in acts[k].made \ removed :
          s[1] \notin rows /\ (~Covers(s) => s \in moves')
  BY <1>1, <1>2, <1>3, <1>4, <1>5 DEF ActsStand
<1>12. \A k \in keep : /\ acts[k].lines \subseteq Recorded' /\ acts[k].lines \cap skips' = {}
                       /\ \A s \in acts[k].made \ removed :
                             Standing(s[1])' /\ (~Covers(s) => s \in moves')
  BY <1>1, <1>5, <1>9, <1>11 DEF ActsStand
<1>13. \A s \in fresh' : s[1] \notin rows
  BY <1>2, <1>3, <1>5, <1>6
<1>14. \A s \in fresh' : /\ Standing(s[1])' /\ budget'[s[1]].tracks = budget[s[1]].tracks
                         /\ s \in moves' => s \in moves
  BY <1>1, <1>2, <1>5, <1>9, <1>13 DEF FreshIsNamed
<1>15. \A m \in moves' : Standing(m[1])' /\ (~Covers(m) => budget'[m[1]].tracks)
  BY <1>1, <1>2, <1>4, <1>5, <1>9 DEF MovesAreFiled
<1>16. \A k \in DOMAIN acts \ keep : fresh' \cap MadeAndNamed(k) = {}
  BY <1>2, <1>7
<1>17. StripStep(keep, gone, removed)
  <2> HIDE DEF keep
  <2>1. keep \subseteq DOMAIN acts
    BY DEF keep
  <2> QED
    BY <1>2, <1>8, <1>10, <1>12, <1>14, <1>15, <1>16, <2>1 DEF StripStep
<1> QED
  BY <1>17, StripKeeps

LEMMA ReleaseMatchKeeps ==
    ASSUME IInv, NEW k \in DOMAIN acts, ReleaseMatch(k)
    PROVE  IInv'
<1>1. /\ RestTyped /\ ActsStand /\ skips \subseteq Recorded
  BY ByPosition DEF PositionInv
<1>2. TakeBack({k}) /\ seen' = seen /\ skips' = skips /\ Recorded' = Recorded
  BY DEF ReleaseMatch, Recorded
<1> QED
  BY <1>1, <1>2, TakeBackKeeps DEF ActsStand, RestTyped

LEMMA DeleteImportKeeps ==
    ASSUME IInv, NEW i \in Imports, DeleteImport(i)
    PROVE  IInv'
<1>1. /\ RestTyped /\ ActsStand /\ skips \subseteq Recorded
  BY ByPosition DEF PositionInv
<1>2. /\ TakeBack(ActsOfImport(i))
      /\ seen' = [l \in Lines |-> seen[l] \ {i}]
      /\ skips' = skips \ SoleLines(i)
  BY DEF DeleteImport
<1>3. seen' \in [Lines -> SUBSET Imports]
  BY <1>1, <1>2 DEF RestTyped
<1>4. Recorded \ SoleLines(i) \subseteq Recorded'
  BY <1>2 DEF Recorded, SoleLines
<1>5. ActsOfImport(i) \in SUBSET DOMAIN acts
  BY DEF ActsOfImport
<1>6. \A k \in DOMAIN acts \ ActsOfImport(i) : acts[k].lines \subseteq Recorded'
  BY <1>1, <1>4 DEF ActsOfImport, ActsStand
<1> QED
  BY <1>1, <1>2, <1>3, <1>4, <1>5, <1>6, TakeBackKeeps

LEMMA InitInv == Init => IInv
<1> SUFFICES ASSUME Init PROVE PositionInv
  BY ByPosition
<1>1. acts = <<>> /\ DOMAIN acts = {} /\ acts \in Seq(Acts)
  BY DEF Init
<1>2. budget \in [Rows -> [state : {"none", "open", "paid"}, tracks : BOOLEAN]]
  BY DEF Init
<1>3. seen \in [Lines -> SUBSET Imports]
  BY DEF Init
<1> QED
  BY <1>1, <1>2, <1>3
  DEF Init, PositionInv, RestTyped, ActsStand, FreshIsNamed, MovesAreFiled, PageFits, NoPage

LEMMA NextInv == IInv /\ [Next]_vars => IInv'
<1> SUFFICES ASSUME IInv, [Next]_vars PROVE IInv'
  OBVIOUS
<1>1. ASSUME NEW i \in Imports, DeleteImport(i) PROVE IInv'
  BY <1>1, DeleteImportKeeps
<1>2. ASSUME NEW i \in Imports, NEW file \in SUBSET Lines, RecordStatement(i, file) PROVE IInv'
  BY <1>2, RecordStatementKeeps
<1>3. ASSUME NEW k \in DOMAIN acts, ReleaseMatch(k) PROVE IInv'
  BY <1>3, ReleaseMatchKeeps
<1>4. ASSUME NEW lines, NEW rows, NEW entries, NEW minted,
             AcceptMatch(lines, rows, entries, minted)
      PROVE  IInv'
  BY <1>4, AcceptMatchKeeps
<1>5. ASSUME NEW l \in Lines, NEW r \in Rows,
             \/ \E recloses \in BOOLEAN : FilePurchase(l, r, recloses)
             \/ FileIntoNew(l, r) \/ RecordIncome(l, r)
      PROVE  IInv'
  BY <1>5, FilePurchaseKeeps, FileIntoNewKeeps, RecordIncomeKeeps
<1>6. ASSUME NEW l \in Lines, SkipLine(l) \/ UnskipLine(l) PROVE IInv'
  BY <1>6, SkipsKeep
<1>7. ASSUME ClosePage \/ \E door \in Doors : \E on \in Drawable(door) : DrawPage(door, on)
      PROVE  IInv'
  BY <1>7, PagesKeep
<1>8. CASE DeleteRow
  BY <1>8, DeleteRowKeeps
<1>9. CASE DeletePurchase
  BY <1>9, TakeOutKeeps DEF DeletePurchase
<1>10. CASE RecordNothing
  BY <1>10, TakeOutKeeps DEF RecordNothing
<1>11. CASE RePoint
  BY <1>11, RePointKeeps
<1>12. CASE SettleTicked
  <2> DEFINE rows == {s[1] : s \in page.on}
  <2>1. rows \in SUBSET OpenRows /\ Settle(rows) /\ page' = NoPage /\ UNCHANGED <<seen, skips>>
    BY <1>12 DEF SettleTicked
  <2> QED
    BY <2>1, SettleKeeps
<1>13. ASSUME NEW r \in Rows, MarkPaid(r) \/ CompanionMarksPaid(r) PROVE IInv'
  <2>1. {r} \in SUBSET OpenRows /\ Settle({r}) /\ UNCHANGED <<seen, skips, page>>
    BY <1>13 DEF MarkPaid, CompanionMarksPaid
  <2> QED
    BY <2>1, SettleKeeps
<1>14. ASSUME NEW r \in Rows, Revert(r) PROVE IInv'
  BY <1>14, RevertKeeps
<1>15. ASSUME NEW r \in Rows, AddPurchase(r) PROVE IInv'
  BY <1>15, AddPurchaseKeeps
<1>16. ASSUME NEW s \in fresh, Edit(s) PROVE IInv'
  BY <1>16, EditKeeps
<1>17. CASE UNCHANGED vars
  <2>1. RestTyped /\ MatchedLines \subseteq Recorded \ skips /\ skips \subseteq Recorded
    BY Facts, ByPosition DEF PositionInv
  <2>2. RestTyped'
    BY <1>17, <2>1 DEF vars, RestTyped, PageFits, Covers
  <2>3. SameActsStep
    BY <1>17, <2>1, <2>2 DEF vars, SameActsStep, Standing, Recorded
  <2> QED
    BY <2>3, SameActsKeep
<1> QED
  BY <1>1, <1>2, <1>3, <1>4, <1>5, <1>6, <1>7, <1>8, <1>9, <1>10, <1>11, <1>12, <1>13,
     <1>14, <1>15, <1>16, <1>17 DEF Next

\* In every reachable state a match names recorded lines, skipped by no one,
\* and movements on the account's books; no line and no movement is in two
\* (record_match, take_out_of_matches, release_match, delete_import and the
\* budget's doors).
THEOREM MatchesWhole == Spec => []MatchesAreWhole
<1>1. Spec => []IInv
  BY InitInv, NextInv, PTL DEF Spec
<1>2. IInv => MatchesAreWhole
  BY DEF IInv
<1> QED
  BY <1>1, <1>2, PTL

\* What was created from a line, and stands as the act left it, is named by
\* the act that created it still, whatever door moved or removed the rest.
THEOREM CreatedKeepLine == Spec => []CreatedRowsKeepTheirLine
<1>1. Spec => []IInv
  BY InitInv, NextInv, PTL DEF Spec
<1>2. IInv => CreatedRowsKeepTheirLine
  BY DEF IInv
<1> QED
  BY <1>1, <1>2, PTL

\* What a release takes back is one act's: a payment that is a row still, and
\* fresh, holds no purchases.
LEMMA OneUndo ==
    ASSUME IInv, NEW k \in DOMAIN acts, Undoable(k)
    PROVE  DoorsAdmit({k})
<1>1. /\ acts \in Seq(Acts) /\ ActsStand /\ FreshIsNamed /\ MovesAreFiled
      /\ \A j \in DOMAIN acts : j # k => Apart(acts[j], acts[k])
  BY ByPosition DEF PositionInv
<1>2. TakenBack({k}) = MadeAndNamed(k) /\ {j \in {k} : j <= k} = {k}
  <2>1. k \in Nat
    BY <1>1
  <2> QED
    BY <2>1 DEF TakenBack
<1>3. \A s \in Emptied({k}) : /\ s \in acts[k].made \ acts[k].entries
                              /\ s \in fresh /\ Purchases(s[1]) \subseteq MadeAndNamed(k)
  BY <1>2 DEF Emptied, ContainerEmptied
<1>4. ASSUME NEW r \in GoneRows({k})
      PROVE  Purchases(r) \subseteq MadeAndNamed(k)
  <2>1. PICK q \in Removed({k}) : Covers(q) /\ q[1] = r
    BY DEF GoneRows
  <2>2. CASE q \in TakenBack({k})
    <3>1. q \in fresh /\ q \in moves
      BY <1>1, <1>2, <2>2 DEF Undoable, MadeAndNamed, ActsStand
    <3>2. ~budget[r].tracks
      BY <1>1, <2>1, <3>1 DEF FreshIsNamed
    <3>3. Purchases(r) = {}
      BY <1>1, <3>2 DEF Purchases, MovesAreFiled
    <3> QED
      BY <3>3
  <2>3. CASE q \in Emptied({k})
    BY <1>3, <2>1, <2>3
  <2> QED
    BY <2>1, <2>2, <2>3 DEF Removed
<1>5. GoneMoves({k}) \subseteq MadeAndNamed(k)
  <2>1. SUFFICES ASSUME NEW m \in moves, m[1] \in GoneRows({k})
                 PROVE  m \in MadeAndNamed(k)
    BY <1>2 DEF GoneMoves
  <2>2. CASE ~Covers(m)
    BY <1>4, <2>1, <2>2 DEF Purchases
  <2>3. CASE Covers(m)
    <3>1. PICK q \in Removed({k}) : Covers(q) /\ q[1] = m[1]
      BY <2>1 DEF GoneRows
    <3>2. q \in acts[k].made
      BY <1>2, <1>3, <3>1 DEF Removed, MadeAndNamed
    <3>3. acts[k] \in Acts
      BY <1>1
    <3>4. q = m
      BY <2>3, <3>1, <3>2, <3>3, Facts DEF Acts
    <3>5. CASE q \in Emptied({k})
      <4>1. q \in fresh /\ q \notin acts[k].entries
        BY <1>3, <3>5
      <4>2. PICK j \in DOMAIN acts : q \in MadeAndNamed(j)
        BY <1>1, <2>1, <3>4, <4>1 DEF FreshIsNamed
      <4>3. j = k
        BY <1>1, <3>2, <4>2 DEF Apart, MadeAndNamed
      <4> QED
        BY <4>1, <4>2, <4>3 DEF MadeAndNamed
    <3> QED
      BY <1>2, <3>1, <3>4, <3>5 DEF Removed
  <2> QED
    BY <2>2, <2>3
<1>6. ASSUME NEW a \in ToSet(Others({k}))
      PROVE  ~(a.entries \subseteq GoneMoves({k}))
  <2>1. PICK h : Picks(Others({k}), acts, DOMAIN acts \ {k}, h)
    BY <1>1, KeptPicks DEF Others
  <2>2. PICK j \in DOMAIN acts \ {k} : a = acts[j]
    BY <2>1 DEF Picks, ToSet
  <2> QED
    BY <1>1, <1>5, <2>2 DEF ActsStand, Apart, MadeAndNamed
<1> QED
  BY <1>2, <1>4, <1>6 DEF DoorsAdmit

\* An undo that is offered is carried out: no door planned_removals asked can
\* refuse release_match midway.
THEOREM UndosFinish == Spec => []UndoFinishes
<1>1. Spec => []IInv
  BY InitInv, NextInv, PTL DEF Spec
<1>2. IInv => UndoFinishes
  BY OneUndo DEF UndoFinishes
<1> QED
  BY <1>1, <1>2, PTL

\* A movement is taken out for one thing a form can be drawn on.
LEMMA OneRemover ==
    ASSUME IInv, NEW door \in Doors, NEW s \in Subjects, NEW q \in Subjects,
           Covers(s) = (door # "purchase"), Covers(q) = (door # "purchase"),
           NEW m, m \in Removal(door, s), m \in Removal(door, q)
    PROVE  s = q
<1>1. /\ \A r \in Rows : Payment(r)[1] = r
      /\ \A p \in Subjects : p[1] \in Rows /\ (Covers(p) => p = Payment(p[1]))
  BY Facts
<1>2. CASE door = "purchase"
  BY <1>2 DEF Removal
<1>3. CASE door = "delete"
  <2>1. s[1] = q[1] /\ Covers(s) /\ Covers(q)
    BY <1>3 DEF Removal, Covers
  <2> QED
    BY <1>1, <2>1
<1>4. CASE door \in {"card", "settle"}
  <2>1. m = Payment(s[1]) /\ m = Payment(q[1]) /\ Covers(s) /\ Covers(q)
    BY <1>4 DEF Removal
  <2> QED
    BY <1>1, <2>1
<1> QED
  BY <1>2, <1>3, <1>4, DoorsAssumption

LEMMA DrawnOnKeys ==
    ASSUME IInv, NEW door \in Doors, NEW on \in Drawable(door), NEW s \in on
    PROVE  s \in Subjects /\ Covers(s) = (door # "purchase")
<1>1. s \in Subjects /\ (door # "purchase" => Covers(s))
  BY DrawnFits
<1>2. door = "purchase" => ~Covers(s)
  BY DEF Drawable
<1> QED
  BY <1>1, <1>2 DEF Covers

\* A row drawn now is saved now: what pending_alone_and_together names over
\* the ticked rows is what the save frees.
THEOREM PagesSave == Spec => []FreshPagesSave
<1>1. Spec => []IInv
  BY InitInv, NextInv, PTL DEF Spec
<1>2. ASSUME IInv, NEW door \in Doors, NEW on \in Drawable(door)
      PROVE  Named(door, on) = Freed(RemovalOf(door, on))
  <2> DEFINE Keys(a) == {s \in Subjects : Covers(s) = (door # "purchase")
                                          /\ Removal(door, s) \cap a.entries # {}}
             Alone(a) == \E s \in on : a.entries \subseteq Removal(door, s)
             Shared(a) == /\ a.entries \subseteq RemovalOf(door, Keys(a))
                          /\ Keys(a) \subseteq on
  <2>1. ASSUME NEW a \in ActsOn, Alone(a) \/ Shared(a)
        PROVE  a.entries \subseteq RemovalOf(door, on)
    <3> HIDE DEF Keys
    <3> QED BY <2>1 DEF RemovalOf
  <2>2. ASSUME NEW a \in ActsOn, a.entries \subseteq RemovalOf(door, on)
        PROVE  Shared(a)
    <3>1. \A s \in on : s \in Subjects /\ Covers(s) = (door # "purchase")
      BY <1>2, DrawnOnKeys
    <3>2. ASSUME NEW m \in a.entries
          PROVE  \E s \in on : s \in Keys(a) /\ m \in Removal(door, s)
      BY <2>2, <3>1 DEF RemovalOf
    <3>3. ASSUME NEW s \in Keys(a)
          PROVE  s \in on
      <4>1. PICK m \in a.entries : m \in Removal(door, s)
        OBVIOUS
      <4>2. PICK q \in on : m \in Removal(door, q)
        BY <2>2 DEF RemovalOf
      <4>3. s = q
        BY <1>2, <3>1, <4>1, <4>2, OneRemover
      <4> QED
        BY <4>3
    <3> HIDE DEF Keys
    <3> QED
      BY <3>2, <3>3 DEF RemovalOf
  <2>3. {a \in ActsOn : Alone(a) \/ Shared(a)} = EmptiedBy(RemovalOf(door, on))
    <3> HIDE DEF Alone, Shared
    <3> QED BY <2>1, <2>2 DEF EmptiedBy
  <2>4. Named(door, on) = UNION {a.lines : a \in {b \in ActsOn : Alone(b) \/ Shared(b)}}
    BY DEF Named
  <2> HIDE DEF Alone, Shared
  <2> QED
    BY <2>3, <2>4 DEF Freed
<1>3. IInv => FreshPagesSave
  BY <1>2 DEF FreshPagesSave
<1> QED
  BY <1>1, <1>3, PTL

\* What is taken back was created by the acts released, and is fresh.
LEMMA TakenIsFresh ==
    ASSUME IInv, NEW released \in SUBSET DOMAIN acts, TakeBack(released)
    PROVE  /\ Removed(released) \subseteq fresh
           /\ \A s \in Removed(released) : \E k \in released : s \in acts[k].made
           /\ GoneMoves(released) \subseteq Removed(released)
<1>1. \A k \in released : Undoable(k)
  BY DEF TakeBack
<1>2. /\ Removed(released) \subseteq fresh
      /\ \A s \in Removed(released) : \E k \in released : s \in acts[k].made
  BY <1>1 DEF Removed, TakenBack, Emptied, ContainerEmptied, Undoable, MadeAndNamed
<1>3. ASSUME NEW m \in GoneMoves(released)
      PROVE  m \in Removed(released)
  <2>1. m \in moves /\ m \in Subjects
    BY Facts DEF GoneMoves
  <2>2. DoorsAdmit(released)
    BY DEF TakeBack
  <2> QED
    BY <2>1, <2>2, RemovedRowsLeaveNothing DEF GoneMoves, Removed
<1> QED
  BY <1>2, <1>3

LEMMA UndoTakesItsOwn ==
    ASSUME IInv, NEW released \in SUBSET DOMAIN acts, TakeBack(released)
    PROVE  /\ moves \ moves' \subseteq fresh \cap UNION {a.made : a \in ActsOn}
           /\ \A r \in {q \in Rows : Standing(q)} : ~Standing(r)' => Payment(r) \in fresh
<1>1. /\ Removed(released) \subseteq fresh
      /\ \A s \in Removed(released) : \E k \in released : s \in acts[k].made
      /\ GoneMoves(released) \subseteq Removed(released)
  BY TakenIsFresh
<1>2. moves \ moves' \subseteq GoneMoves(released)
  BY DEF TakeBack
<1>3. ASSUME NEW r \in Rows, Standing(r), ~Standing(r)'
      PROVE  Payment(r) \in fresh
  <2>1. budget' = [q \in Rows |-> IF q \in GoneRows(released)
                                  THEN [budget[q] EXCEPT !.state = "none"] ELSE budget[q]]
    BY DEF TakeBack
  <2>2. r \in GoneRows(released)
    BY <1>3, <2>1 DEF Standing
  <2>3. PICK q \in Removed(released) : Covers(q) /\ q[1] = r
    BY <2>2 DEF GoneRows
  <2> QED
    BY <1>1, <2>3, Facts
<1> QED
  BY <1>1, <1>2, <1>3, ActsTell

\* An act kept by an undo is kept as it was.
LEMMA KeptActsStay ==
    ASSUME IInv, NEW released \in SUBSET DOMAIN acts, TakeBack(released),
           NEW k \in DOMAIN acts \ released
    PROVE  acts[k] \in ToSet(acts')
<1> DEFINE gone == GoneMoves(released)
           removed == Removed(released)
<1>1. /\ acts \in Seq(Acts) /\ ActsStand /\ FreshIsNamed
      /\ \A j \in DOMAIN acts : j # k => Apart(acts[j], acts[k])
  BY ByPosition DEF PositionInv
<1>2. /\ removed \subseteq fresh
      /\ \A s \in removed : \E j \in released : s \in acts[j].made
      /\ gone \subseteq removed /\ gone \subseteq moves
  BY TakenIsFresh DEF GoneMoves
<1>3. acts[k].made \cap removed = {}
  BY <1>1, <1>2 DEF Apart
<1>4. acts[k].entries \cap gone = {}
  <2>1. SUFFICES ASSUME NEW m \in gone, m \in acts[k].entries PROVE FALSE
    OBVIOUS
  <2>2. m \in fresh /\ m \in moves /\ m \in removed
    BY <1>2
  <2>3. PICK i \in DOMAIN acts : m \in MadeAndNamed(i)
    BY <1>1, <2>2 DEF FreshIsNamed
  <2>4. i = k
    BY <1>1, <2>1, <2>3 DEF Apart, MadeAndNamed
  <2> QED
    BY <1>3, <2>2, <2>3, <2>4 DEF MadeAndNamed
<1> HIDE DEF gone, removed
<1>5. Stripped(acts', acts, DOMAIN acts \ released, gone, removed)
  BY <1>1, OthersStrip DEF TakeBack, gone, removed
<1>6. PICK h : Strips(acts', acts, DOMAIN acts \ released, gone, removed, h)
  BY <1>5 DEF Stripped
<1>7. acts' \in Seq(Acts)
  BY <1>5 DEF Stripped
<1>8. PICK i \in DOMAIN acts' : h[i] = k
  BY <1>1, <1>4, <1>6 DEF Strips, ActsStand
<1>9. acts'[i] = acts[k]
  <2>1. acts'[i] \in Acts /\ acts[k] \in Acts
    BY <1>1, <1>7
  <2>2. /\ acts'[i].lines = acts[k].lines /\ acts'[i].entries = acts[k].entries
        /\ acts'[i].made = acts[k].made
    <3>1. /\ acts'[i].lines = acts[k].lines /\ acts'[i].entries = acts[k].entries \ gone
          /\ acts'[i].made = acts[k].made \ removed
      BY <1>6, <1>8 DEF Strips
    <3>2. acts[k].entries \ gone = acts[k].entries /\ acts[k].made \ removed = acts[k].made
      BY <1>3, <1>4
    <3> QED
      BY <3>1, <3>2
  <2> QED
    BY <2>1, <2>2 DEF Acts
<1> QED
  BY <1>8, <1>9 DEF ToSet

LEMMA SharedStay ==
    ASSUME IInv, NEW i \in Imports, DeleteImport(i)
    PROVE  ~(\/ \E l \in Recorded \ Recorded' : seen[l] # {i}
             \/ \E a \in ActsOn \ ToSet(acts') : a.lines \subseteq Recorded')
<1>1. /\ TakeBack(ActsOfImport(i)) /\ ActsOfImport(i) \in SUBSET DOMAIN acts
      /\ seen' = [l \in Lines |-> seen[l] \ {i}]
  BY DEF DeleteImport, ActsOfImport
<1>2. \A l \in Recorded \ Recorded' : seen[l] = {i}
  BY <1>1 DEF Recorded
<1>3. Recorded' \cap SoleLines(i) = {}
  BY <1>1 DEF Recorded, SoleLines
<1>4. ASSUME NEW a \in ActsOn, a.lines \subseteq Recorded'
      PROVE  a \in ToSet(acts')
  <2>1. PICK k \in DOMAIN acts : a = acts[k]
    BY ActsTell
  <2>2. k \notin ActsOfImport(i)
    BY <1>3, <1>4, <2>1 DEF ActsOfImport
  <2> QED
    BY <1>1, <2>1, <2>2, KeptActsStay
<1> QED
  BY <1>2, <1>4

\* Undoing a match, or an import, takes off the books only what the acts on
\* file created and nobody has edited, and leaves every line another import
\* saw, with its match (planned_removals, _container_survives, delete_import).
THEOREM UndosOwn == Spec => UndosTakeTheirOwn
<1>1. Spec => []IInv
  BY InitInv, NextInv, PTL DEF Spec
<1>2. IInv /\ [Next]_vars =>
        [\/ ~(moves \ moves' \subseteq fresh \cap UNION {a.made : a \in ActsOn})
         \/ \E r \in {q \in Rows : Standing(q)} : ~Standing(r)' /\ Payment(r) \notin fresh
         => /\ \A k \in DOMAIN acts : ~ReleaseMatch(k)
            /\ \A i \in Imports : ~DeleteImport(i)]_<<moves, budget>>
  <2>1. ASSUME IInv, NEW k \in DOMAIN acts, ReleaseMatch(k)
        PROVE  /\ moves \ moves' \subseteq fresh \cap UNION {a.made : a \in ActsOn}
               /\ \A r \in {q \in Rows : Standing(q)} : ~Standing(r)' => Payment(r) \in fresh
    <3>1. TakeBack({k}) /\ {k} \in SUBSET DOMAIN acts
      BY <2>1 DEF ReleaseMatch
    <3> QED
      BY <2>1, <3>1, UndoTakesItsOwn
  <2>2. ASSUME IInv, NEW i \in Imports, DeleteImport(i)
        PROVE  /\ moves \ moves' \subseteq fresh \cap UNION {a.made : a \in ActsOn}
               /\ \A r \in {q \in Rows : Standing(q)} : ~Standing(r)' => Payment(r) \in fresh
    <3>1. TakeBack(ActsOfImport(i)) /\ ActsOfImport(i) \in SUBSET DOMAIN acts
      BY <2>2 DEF DeleteImport, ActsOfImport
    <3> QED
      BY <2>2, <3>1, UndoTakesItsOwn
  <2> QED
    BY <2>1, <2>2
<1>3. IInv /\ [Next]_vars =>
        [\A i \in {j \in Imports : OnFile(j) /\ ~OnFile(j)'} :
            \/ \E l \in Recorded \ Recorded' : seen[l] # {i}
            \/ \E a \in ActsOn \ ToSet(acts') : a.lines \subseteq Recorded'
            => ~DeleteImport(i)]_seen
  BY SharedStay
<1> QED
  BY <1>1, <1>2, <1>3, PTL DEF Spec, UndosTakeTheirOwn, UndoTakesOnlyItsOwn, SharedLinesStay

\* A line that loses its match loses the act that is emptied.
LEMMA LinesLost ==
    ASSUME IInv, NEW gone, NEW subjects, acts' = Without(acts, gone, subjects),
           NEW l \in MatchedLines \ MatchedLines'
    PROVE  l \in Freed(gone) /\ \E m \in Claimed \cap gone : m \notin Claimed'
<1>1. acts \in Seq(Acts) /\ ActsStand
  BY ByPosition DEF PositionInv
<1>2. PICK h : Strips(acts', acts, DOMAIN acts, gone, subjects, h)
  BY <1>1, WithoutStrips DEF Stripped
<1>3. PICK k \in DOMAIN acts : l \in acts[k].lines
  BY ActsTell DEF MatchedLines
<1>4. \A i \in DOMAIN acts' : acts'[i] \in ActsOn'
  BY DEF ActsOn, ToSet
<1>5. \A a \in ActsOn' : \E i \in DOMAIN acts' : a = acts'[i]
  BY DEF ActsOn, ToSet
<1>6. \A i \in DOMAIN acts' : l \notin acts'[i].lines
  BY <1>4 DEF MatchedLines
<1>7. acts[k].entries \subseteq gone
  BY <1>2, <1>3, <1>6 DEF Strips
<1>8. l \in Freed(gone)
  BY <1>3, <1>7, ActsTell DEF Freed, EmptiedBy
<1>9. PICK m \in acts[k].entries : m \in gone
  BY <1>1, <1>7 DEF ActsStand
<1>10. m \in Claimed
  BY ActsTell DEF Claimed
<1>11. m \notin Claimed'
  <2>1. \A i \in DOMAIN acts' : m \notin acts'[i].entries
    BY <1>2, <1>9 DEF Strips
  <2> QED
    BY <1>5, <2>1 DEF Claimed
<1> QED
  BY <1>8, <1>9, <1>10, <1>11

\* A save that was admitted frees what its page named.
LEMMA PressFrees ==
    ASSUME IInv, NEW gone, NEW subjects, NEW promised, PressAdmits(gone, promised),
           acts' = Without(acts, gone, subjects), NEW l \in MatchedLines \ MatchedLines'
    PROVE  l \in page.named
BY LinesLost DEF PressAdmits

\* A line loses its match by an undo, by the removal of an import, by a save
\* whose page named it (press_lines), or by the owner's own Mark Paid of the
\* row; never by a companion's.
THEOREM FreedNamed == Spec => FreedLinesWereNamed
<1>1. Spec => []IInv
  BY InitInv, NextInv, PTL DEF Spec
<1>2. ASSUME IInv, [Next]_vars, NEW l \in MatchedLines \ MatchedLines'
      PROVE  \/ \E k \in DOMAIN acts : ReleaseMatch(k)
             \/ \E i \in Imports : DeleteImport(i)
             \/ page' = NoPage /\ l \in page.named
             \/ \E r \in Rows : /\ MarkPaid(r) /\ ~CompanionMarksPaid(r)
                                /\ Payment(r) \in Claimed \ Claimed'
  <2>1. acts' # acts
    BY <1>2 DEF MatchedLines, ActsOn
  <2>2. ASSUME NEW e, acts' = Append(acts, e)
        PROVE  FALSE
    <3>1. PICK k \in DOMAIN acts : l \in acts[k].lines
      BY ActsTell DEF MatchedLines
    <3>2. k \in DOMAIN acts' /\ acts'[k] = acts[k]
      BY <1>2, <2>2 DEF IInv
    <3>3. acts'[k] \in ActsOn'
      BY <3>2 DEF ActsOn, ToSet
    <3> QED
      BY <1>2, <3>1, <3>2, <3>3 DEF MatchedLines
  <2>3. CASE DeleteRow \/ DeletePurchase \/ RecordNothing \/ RePoint \/ SettleTicked
    <3>1. PICK gone, subjects, promised :
             /\ PressAdmits(gone, promised) /\ acts' = Without(acts, gone, subjects)
             /\ page' = NoPage
      <4>1. CASE DeleteRow
        BY <4>1 DEF DeleteRow
      <4>2. CASE DeletePurchase
        BY <4>2 DEF DeletePurchase, TakeOut
      <4>3. CASE RecordNothing
        BY <4>3 DEF RecordNothing, TakeOut
      <4>4. CASE RePoint
        BY <4>4 DEF RePoint
      <4>5. CASE SettleTicked
        <5>1. \A s \in page.on : s \in Subjects /\ (page.door = "settle" => Covers(s))
          BY <1>2, Facts DEF RestTyped, PageFits
        <5>2. page.door = "settle"
          BY <4>5 DEF SettleTicked
        <5>3. {Payment(r) : r \in {s[1] : s \in page.on}} = page.on
          BY <1>2, <5>1, <5>2, Facts
        <5> QED
          BY <4>5, <5>3 DEF SettleTicked, Settle
      <4> QED
        BY <2>3, <4>1, <4>2, <4>3, <4>4, <4>5
    <3> QED
      BY <1>2, <3>1, PressFrees
  <2>4. ASSUME NEW r \in Rows, Settle({r})
        PROVE  l \in Freed(Removal("settle", Payment(r))) /\ Payment(r) \in Claimed \ Claimed'
    <3> DEFINE gone == RemovalOf("settle", {Payment(q) : q \in {r}})
    <3>1. acts' = Without(acts, gone, {})
      BY <2>4 DEF Settle
    <3>2. gone = Removal("settle", Payment(r)) /\ gone \subseteq {Payment(r)}
      <4>1. Payment(r)[1] = r
        BY <1>2, Facts
      <4> QED
        BY <4>1 DEF RemovalOf, Removal
    <3> HIDE DEF gone
    <3> QED
      BY <1>2, <3>1, <3>2, LinesLost
  <2>5. ASSUME NEW r \in Rows, MarkPaid(r) \/ CompanionMarksPaid(r)
        PROVE  MarkPaid(r) /\ ~CompanionMarksPaid(r) /\ Payment(r) \in Claimed \ Claimed'
    <3>1. Settle({r})
      BY <2>5 DEF MarkPaid, CompanionMarksPaid
    <3>2. ~CompanionMarksPaid(r)
      BY <2>4, <3>1 DEF CompanionMarksPaid, CompanionMay
    <3> QED
      BY <2>4, <2>5, <3>1, <3>2
  <2>6. CASE \E lines \in SUBSET Waiting \ {{}}, rows \in SUBSET OfferedRows,
                entries \in SUBSET OfferedMoves, minted \in SUBSET Unused :
                AcceptMatch(lines, rows, entries, minted)
    BY <2>2, <2>6 DEF AcceptMatch
  <2>7. CASE \E k \in Lines, r \in Rows :
                \/ \E recloses \in BOOLEAN : FilePurchase(k, r, recloses)
                \/ FileIntoNew(k, r) \/ RecordIncome(k, r)
    BY <2>2, <2>7 DEF FilePurchase, FileIntoNew, RecordIncome
  <2>8. CASE \/ \E i \in Imports : \E file \in SUBSET Lines : RecordStatement(i, file)
             \/ \E k \in Lines : SkipLine(k) \/ UnskipLine(k)
             \/ \E door \in Doors : \E on \in Drawable(door) : DrawPage(door, on)
             \/ ClosePage
             \/ \E r \in Rows : Revert(r) \/ AddPurchase(r)
             \/ \E s \in fresh : Edit(s)
             \/ UNCHANGED vars
    BY <2>1, <2>8
    DEF RecordStatement, SkipLine, UnskipLine, DrawPage, ClosePage, Revert, AddPurchase, Edit, vars
  <2> QED
    BY <1>2, <2>3, <2>5, <2>6, <2>7, <2>8 DEF Next
<1>3. IInv /\ [Next]_vars =>
        [\A l \in MatchedLines \ MatchedLines' :
            \/ \E k \in DOMAIN acts : ReleaseMatch(k)
            \/ \E i \in Imports : DeleteImport(i)
            \/ page' = NoPage /\ l \in page.named
            \/ \E r \in Rows : /\ MarkPaid(r) /\ ~CompanionMarksPaid(r)
                               /\ Payment(r) \in Claimed \ Claimed']_acts
  BY <1>2
<1> QED
  BY <1>1, <1>3, PTL DEF Spec, FreedLinesWereNamed
=============================================================================
