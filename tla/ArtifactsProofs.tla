----------------------------- MODULE ArtifactsProofs -----------------------------
(* What Artifacts' components keep true: the inductive invariants are MatcherRun's  *)
(* RunInv, DutySchedule's ScheduleInv, DutyInv for DutyOwnership and NetworkCache's  *)
(* NetworkInv. Facts about numbers, folds and sequences come first, then each       *)
(* component, one step per action; the theorems are at the end.                     *)
EXTENDS Artifacts, TLAPS, FiniteSetTheorems, SequenceTheorems, WellFoundedInduction

--------------------------------------------------------------------------------
(* Least and greatest numbers, induction over the naturals without an operator    *)
(* parameter, and the fold of Lists, which is the last of the values a function   *)
(* takes step by step.                                                            *)

LEMMA LessThan == OpToRel(<, Nat) = {ss \in Nat \X Nat : ss[1] < ss[2]}
BY Zenon DEF OpToRel

LEMMA LeastOf == ASSUME NEW S, S \subseteq Nat, S # {} PROVE \E x \in S : \A y \in S : x <= y
<1> DEFINE R == {ss \in Nat \X Nat : ss[1] < ss[2]}
<1>1. IsWellFoundedOn(R, Nat) BY NatLessThanWellFounded, LessThan
<1> HIDE DEF R
<1>2. PICK x \in S : \A y \in S : ~(<<y, x>> \in R) BY <1>1, WFMin
<1>3. ASSUME NEW y \in S PROVE x <= y
  <2>1. x \in Nat /\ y \in Nat OBVIOUS
  <2>2. y < x => <<y, x>> \in R BY <2>1 DEF R
  <2> QED BY <1>2, <2>1, <2>2
<1> QED BY <1>3

\* Of numbers up to a bound there is a greatest.
LEMMA GreatestOf == ASSUME NEW n \in Nat, NEW S, S \subseteq 1 .. n, S # {} PROVE \E x \in S : \A y \in S : y <= x
<1> DEFINE Gaps == {n - x : x \in S}
<1>1. Gaps \subseteq Nat /\ Gaps # {} /\ \A y \in S : n - y \in Gaps
  <2>1. \A x \in S : n - x \in Nat /\ n - x \in Gaps
    OBVIOUS
  <2>2. Gaps \subseteq Nat
    BY <2>1
  <2> QED BY <2>1, <2>2
<1> HIDE DEF Gaps
<1>2. PICK g \in Gaps : \A m \in Gaps : g <= m
  BY <1>1, LeastOf
<1>3. PICK x \in S : g = n - x
  BY <1>2 DEF Gaps
<1>4. ASSUME NEW y \in S PROVE y <= x
  <2>1. g <= n - y /\ x \in 1 .. n /\ y \in 1 .. n
    BY <1>1, <1>2
  <2> QED BY <1>3, <2>1
<1> QED BY <1>4

\* A set that contains 0 and with each number the next one contains all of them.
LEMMA NatInd ==
  ASSUME NEW S, 0 \in S, \A n \in Nat : n \in S => n + 1 \in S
  PROVE  Nat \subseteq S
<1> SUFFICES ASSUME Nat \ S # {} PROVE FALSE OBVIOUS
<1>1. PICK x \in Nat \ S : \A y \in Nat \ S : x <= y
  BY LeastOf
<1>2. x # 0 /\ x - 1 \in Nat
  BY <1>1
<1>3. x - 1 \in S
  BY <1>1, <1>2
<1> QED BY <1>1, <1>2, <1>3

\* f lists the values a fold of seq by g takes, the first of them base.
Folded(f, S, g, base, seq) ==
  f \in [0 .. Len(seq) -> S] /\ f[0] = base /\ \A i \in 1 .. Len(seq) : f[i] = g[<<f[i - 1], seq[i]>>]

\* For a function there are such values.
LEMMA FoldExists ==
  ASSUME NEW S, NEW E, NEW g \in [S \X E -> S], NEW base \in S, NEW seq \in Seq(E)
  PROVE  \E f : Folded(f, S, g, base, seq)
<1> DEFINE Up(n) == \E f \in [0 .. n -> S] : f[0] = base /\ \A i \in 1 .. n : f[i] = g[<<f[i - 1], seq[i]>>]
           T == {n \in Nat : n <= Len(seq) => Up(n)}
<1>1. 0 \in T
  <2>1. [i \in 0 .. 0 |-> base] \in [0 .. 0 -> S] OBVIOUS
  <2>2. \A i \in 1 .. 0 : FALSE
    OBVIOUS
  <2>3. Up(0)
    <3>1. WITNESS [i \in 0 .. 0 |-> base] \in [0 .. 0 -> S]
    <3> QED BY <2>2
  <2> QED BY <2>3
<1>2. ASSUME NEW n \in Nat, n \in T PROVE n + 1 \in T
  <2> SUFFICES ASSUME n + 1 <= Len(seq) PROVE Up(n + 1)
    OBVIOUS
  <2>1. PICK f \in [0 .. n -> S] : f[0] = base /\ \A i \in 1 .. n : f[i] = g[<<f[i - 1], seq[i]>>]
    BY <1>2
  <2>2. n \in 0 .. n /\ n + 1 \in 1 .. Len(seq) /\ seq[n + 1] \in E
    OBVIOUS
  <2> DEFINE h == [i \in 0 .. n + 1 |-> IF i = n + 1 THEN g[<<f[n], seq[n + 1]>>] ELSE f[i]]
  <2>3. h \in [0 .. n + 1 -> S]
    BY <2>1, <2>2
  <2>4. h[0] = base
    BY <2>1
  <2>5. ASSUME NEW i \in 1 .. n + 1 PROVE h[i] = g[<<h[i - 1], seq[i]>>]
    <3>1. i \in 0 .. n + 1 /\ i - 1 \in 0 .. n + 1 /\ i - 1 # n + 1
      OBVIOUS
    <3>2. h[i - 1] = f[i - 1]
      BY <3>1
    <3>3. CASE i = n + 1
      <4>1. h[i] = g[<<f[n], seq[n + 1]>>] /\ i - 1 = n
        BY <3>1, <3>3
      <4> QED BY <3>2, <3>3, <4>1
    <3>4. CASE i # n + 1
      <4>1. h[i] = f[i] /\ i \in 1 .. n
        BY <3>1, <3>4
      <4> QED BY <2>1, <3>2, <4>1
    <3> QED BY <3>3, <3>4
  <2> QED BY <2>3, <2>4, <2>5
<1>3. Nat \subseteq T
  <2> HIDE DEF T
  <2> QED BY <1>1, <1>2, NatInd
<1>4. Up(Len(seq))
  BY <1>3
<1> QED BY <1>4 DEF Folded

\* Two recursions that agree at each step as long as they agreed before are the same.
LEMMA Agree ==
  ASSUME NEW n \in Nat, NEW f, NEW h, h[0] = f[0], \A i \in 1 .. n : h[i - 1] = f[i - 1] => h[i] = f[i]
  PROVE  h[n] = f[n]
<1> DEFINE T == {m \in Nat : m <= n => h[m] = f[m]}
<1>1. 0 \in T
  OBVIOUS
<1>2. ASSUME NEW m \in Nat, m \in T PROVE m + 1 \in T
  <2> SUFFICES ASSUME m + 1 <= n PROVE h[m + 1] = f[m + 1]
    OBVIOUS
  <2> DEFINE k == m + 1
  <2>1. k \in 1 .. n /\ k - 1 = m /\ h[m] = f[m]
    BY <1>2
  <2> HIDE DEF k
  <2>2. h[k] = f[k]
    BY <2>1
  <2> QED BY <2>2 DEF k
<1>3. Nat \subseteq T
  <2> HIDE DEF T
  <2> QED BY <1>1, <1>2, NatInd
<1> QED BY <1>3

--------------------------------------------------------------------------------
(* Strict orders of finite sets: who comes before an element is told by their     *)
(* number, which numbers the elements from 0; the first one comes before all.      *)

StrictOrder(R, S) ==
  /\ \A x \in S : <<x, x>> \notin R
  /\ \A x, y, z \in S : <<x, y>> \in R /\ <<y, z>> \in R => <<x, z>> \in R
  /\ \A x, y \in S : x # y => <<x, y>> \in R \/ <<y, x>> \in R

AheadOf(R, S, x) == {y \in S : <<y, x>> \in R}

LEMMA RankGrows ==
  ASSUME NEW S, IsFiniteSet(S), NEW R, StrictOrder(R, S), NEW x \in S, NEW y \in S, <<x, y>> \in R
  PROVE  /\ Cardinality(AheadOf(R, S, x)) \in Nat /\ Cardinality(AheadOf(R, S, y)) \in Nat
         /\ Cardinality(AheadOf(R, S, x)) < Cardinality(AheadOf(R, S, y))
<1>1. AheadOf(R, S, x) \subseteq S /\ AheadOf(R, S, y) \subseteq S BY DEF AheadOf
<1>2. AheadOf(R, S, x) \subseteq AheadOf(R, S, y) BY DEF AheadOf, StrictOrder
<1>3. x \in AheadOf(R, S, y) /\ x \notin AheadOf(R, S, x) BY DEF AheadOf, StrictOrder
<1>4. IsFiniteSet(AheadOf(R, S, x)) /\ IsFiniteSet(AheadOf(R, S, y)) BY <1>1, FS_Subset
<1>5. Cardinality(AheadOf(R, S, x)) \in Nat /\ Cardinality(AheadOf(R, S, y)) \in Nat BY <1>4, FS_CardinalityType
<1>6. /\ Cardinality(AheadOf(R, S, x)) <= Cardinality(AheadOf(R, S, y))
      /\ Cardinality(AheadOf(R, S, y)) = Cardinality(AheadOf(R, S, x)) => AheadOf(R, S, y) = AheadOf(R, S, x)
  BY <1>2, <1>4, FS_Subset
<1>7. AheadOf(R, S, x) # AheadOf(R, S, y) BY <1>3
<1> QED BY <1>5, <1>6, <1>7

LEMMA RankIs ==
  ASSUME NEW S, IsFiniteSet(S), NEW R, StrictOrder(R, S), NEW x \in S
  PROVE  Cardinality(AheadOf(R, S, x)) \in 0 .. Cardinality(S) - 1
<1>1. AheadOf(R, S, x) \subseteq S /\ x \notin AheadOf(R, S, x) BY DEF AheadOf, StrictOrder
<1>2. /\ IsFiniteSet(AheadOf(R, S, x)) /\ Cardinality(AheadOf(R, S, x)) <= Cardinality(S)
      /\ Cardinality(S) = Cardinality(AheadOf(R, S, x)) => S = AheadOf(R, S, x)
  BY <1>1, FS_Subset
<1>3. Cardinality(AheadOf(R, S, x)) \in Nat /\ Cardinality(S) \in Nat BY <1>2, FS_CardinalityType
<1>4. Cardinality(AheadOf(R, S, x)) # Cardinality(S) BY <1>1, <1>2
<1> QED BY <1>2, <1>3, <1>4

LEMMA RanksDiffer ==
  ASSUME NEW S, IsFiniteSet(S), NEW R, StrictOrder(R, S), NEW x \in S, NEW y \in S,
         Cardinality(AheadOf(R, S, x)) = Cardinality(AheadOf(R, S, y))
  PROVE  x = y
<1> SUFFICES ASSUME x # y PROVE FALSE OBVIOUS
<1>1. CASE <<x, y>> \in R BY <1>1, RankGrows
<1>2. CASE <<y, x>> \in R BY <1>2, RankGrows
<1> QED BY <1>1, <1>2 DEF StrictOrder

LEMMA RankOrders ==
  ASSUME NEW S, IsFiniteSet(S), NEW R, StrictOrder(R, S), NEW x \in S, NEW y \in S,
         Cardinality(AheadOf(R, S, x)) < Cardinality(AheadOf(R, S, y))
  PROVE  <<x, y>> \in R
<1> SUFFICES ASSUME <<x, y>> \notin R PROVE FALSE OBVIOUS
<1>1. Cardinality(AheadOf(R, S, x)) \in 0 .. Cardinality(S) - 1 BY RankIs
<1>2. IsFiniteSet(S) /\ Cardinality(S) \in Nat BY FS_CardinalityType
<1>3. CASE x = y BY <1>1, <1>2, <1>3
<1>4. CASE <<y, x>> \in R
  <2>1. /\ Cardinality(AheadOf(R, S, x)) \in Nat /\ Cardinality(AheadOf(R, S, y)) \in Nat
        /\ Cardinality(AheadOf(R, S, y)) < Cardinality(AheadOf(R, S, x))
    BY <1>4, RankGrows
  <2> QED BY <2>1
<1> QED BY <1>3, <1>4 DEF StrictOrder

\* Every place is taken.
LEMMA RankTaken ==
  ASSUME NEW S, IsFiniteSet(S), NEW R, StrictOrder(R, S), NEW m \in 0 .. Cardinality(S) - 1
  PROVE  \E x \in S : Cardinality(AheadOf(R, S, x)) = m
<1> DEFINE n == Cardinality(S)
           T == 0 .. n - 1
           f == [x \in S |-> Cardinality(AheadOf(R, S, x))]
<1>1. n \in Nat BY FS_CardinalityType
<1>2. IsFiniteSet(T) /\ Cardinality(T) = n
  <2>1. IsFiniteSet(T) /\ Cardinality(T) = IF 0 > n - 1 THEN 0 ELSE (n - 1) - 0 + 1
    <3>1. 0 \in Int /\ n - 1 \in Int BY <1>1
    <3> HIDE DEF n
    <3> QED BY <3>1, FS_Interval
  <2> QED BY <1>1, <2>1
<1>3. f \in Injection(S, T)
  <2>1. \A x \in S : f[x] \in T BY RankIs
  <2>2. \A x, y \in S : f[x] = f[y] => x = y BY RanksDiffer
  <2>3. f \in [S -> T] BY <2>1
  <2> HIDE DEF f, T
  <2> QED BY <2>2, <2>3 DEF Injection, IsInjective
<1>4. f \in Surjection(S, T)
  <2> HIDE DEF f, T
  <2> QED BY <1>2, <1>3, FS_Injection DEF n
<1>5. \E x \in S : f[x] = m
  <2>1. m \in T OBVIOUS
  <2> HIDE DEF f, T
  <2> QED BY <1>4, <2>1 DEF Surjection
<1> QED BY <1>5

\* The first one.
LEMMA FirstIs ==
  ASSUME NEW S, IsFiniteSet(S), S # {}, NEW R, StrictOrder(R, S)
  PROVE  \E x \in S : \A y \in S \ {x} : <<x, y>> \in R
<1>1. Cardinality(S) \in Nat /\ Cardinality(S) # 0 BY FS_CardinalityType, FS_EmptySet
<1>2. PICK x \in S : Cardinality(AheadOf(R, S, x)) = 0 BY <1>1, RankTaken
<1>3. ASSUME NEW y \in S \ {x} PROVE <<x, y>> \in R
  <2>1. Cardinality(AheadOf(R, S, y)) \in 0 .. Cardinality(S) - 1 BY RankIs
  <2>2. Cardinality(AheadOf(R, S, y)) # 0 BY <1>2, RanksDiffer
  <2> QED BY <1>1, <1>2, <2>1, <2>2, RankOrders
<1> QED BY <1>3

\* No more than m elements have fewer than m before them.
LEMMA FewAhead ==
  ASSUME NEW S, IsFiniteSet(S), NEW R, StrictOrder(R, S), NEW m \in Nat
  PROVE  LET T == {x \in S : Cardinality(AheadOf(R, S, x)) < m} IN IsFiniteSet(T) /\ Cardinality(T) <= m
<1> DEFINE T == {x \in S : Cardinality(AheadOf(R, S, x)) < m}
           U == 0 .. m - 1
           f == [x \in T |-> Cardinality(AheadOf(R, S, x))]
<1>1. IsFiniteSet(T)
  <2>1. T \subseteq S OBVIOUS
  <2> QED BY <2>1, FS_Subset
<1>2. IsFiniteSet(U) /\ Cardinality(U) = m
  <2>1. IsFiniteSet(U) /\ Cardinality(U) = IF 0 > m - 1 THEN 0 ELSE (m - 1) - 0 + 1
    <3>1. 0 \in Int /\ m - 1 \in Int OBVIOUS
    <3> QED BY <3>1, FS_Interval
  <2> QED BY <2>1
<1>3. f \in Injection(T, U)
  <2>1. ASSUME NEW x \in T PROVE f[x] \in U
    <3>1. Cardinality(AheadOf(R, S, x)) \in 0 .. Cardinality(S) - 1 BY RankIs
    <3>2. Cardinality(AheadOf(R, S, x)) \in Nat /\ Cardinality(AheadOf(R, S, x)) < m
      <4>1. Cardinality(S) \in Nat BY FS_CardinalityType
      <4> QED BY <3>1, <4>1
    <3> QED BY <3>2
  <2>2. \A x, y \in T : f[x] = f[y] => x = y BY RanksDiffer
  <2>3. f \in [T -> U] BY <2>1
  <2> HIDE DEF f, T, U
  <2> QED BY <2>2, <2>3 DEF Injection, IsInjective
<1>4. Cardinality(T) <= Cardinality(U)
  <2> HIDE DEF f, T, U
  <2> QED BY <1>2, <1>3, FS_Injection
<1> QED BY <1>1, <1>2, <1>4

LEMMA FiniteImage == ASSUME NEW S, IsFiniteSet(S), NEW f PROVE IsFiniteSet({f[x] : x \in S})
<1> DEFINE T == {f[x] : x \in S}
           g == [x \in S |-> f[x]]
<1>1. g \in Surjection(S, T) BY DEF Surjection
<1> HIDE DEF g, T
<1>2. IsFiniteSet(T) BY <1>1, FS_Surjection
<1> QED BY <1>2 DEF T

--------------------------------------------------------------------------------
(* A duty's day (DutyOwnership): v1 is the day, v2 the duty, v3 the evidence, v4  *)
(* the states, v5 how many courses are aligned, v7 the selection, v8 the outcomes.*)

\* A recursion over the places of a sequence.
Stepped(f, n, S, base, g) == f \in [0 .. n -> S] /\ f[0] = base /\ \A i \in 1 .. n : f[i] = g[<<f[i - 1], i>>]

LEMMA StepsExist ==
  ASSUME NEW n \in Nat, NEW S, NEW base \in S, NEW g \in [S \X (1 .. n) -> S]
  PROVE  \E f : Stepped(f, n, S, base, g)
<1> DEFINE E == 1 .. n
           ids == [i \in 1 .. n |-> i]
<1>1. ids \in Seq(E) /\ Len(ids) = n /\ \A i \in 1 .. n : ids[i] = i OBVIOUS
<1>2. g \in [S \X E -> S] OBVIOUS
<1> HIDE DEF E, ids
<1>3. \E f : Folded(f, S, g, base, ids) BY <1>1, <1>2, FoldExists
<1> QED BY <1>1, <1>3 DEF Folded, Stepped

Pings == [time : Nat, line : STRING, near : SUBSET STRING]
InTime(s) == \A j, k \in 1 .. Len(s) : j < k => s[j].time < s[k].time

\* Pings that were left out do not change the order of the others.
LEMMA OnlyInTime ==
  ASSUME NEW s \in Seq(Pings), InTime(s), NEW K
  PROVE  D!Only(s, K) \in Seq(Pings) /\ InTime(D!Only(s, K))
<1> DEFINE n == Len(s)
           R == 0 .. n
           P == Seq(Pings)
           T(p, i) == IF i \in K THEN Append(p, s[i]) ELSE p
           g == [p \in P \X (1 .. n) |-> T(p[1], p[2])]
           e(f, i) == IF i = 0 THEN <<>> ELSE IF i \in K THEN Append(f[i - 1], s[i]) ELSE f[i - 1]
           kept == CHOOSE f : f = [i \in R |-> e(f, i)]
<1>1. n \in Nat /\ <<>> \in P OBVIOUS
<1>2. g \in [P \X (1 .. n) -> P]
  <2>1. ASSUME NEW p \in P \X (1 .. n) PROVE T(p[1], p[2]) \in P
    <3>1. p[1] \in P /\ s[p[2]] \in Pings OBVIOUS
    <3> QED BY <3>1
  <2> QED BY <2>1
<1>3. PICK f \in [R -> P] : f[0] = <<>> /\ \A i \in 1 .. n : f[i] = g[<<f[i - 1], i>>]
  <2> HIDE DEF P, g, n
  <2>1. \E h : Stepped(h, n, P, <<>>, g) BY <1>1, <1>2, StepsExist
  <2> QED BY <2>1 DEF Stepped
<1>4. ASSUME NEW i \in 1 .. n PROVE f[i] = T(f[i - 1], i) /\ f[i - 1] \in P
  <2>1. i - 1 \in R /\ i \in R OBVIOUS
  <2>2. f[i - 1] \in P BY <1>3, <2>1
  <2> HIDE DEF P
  <2>3. f[i] = g[<<f[i - 1], i>>] /\ <<f[i - 1], i>> \in P \X (1 .. n) BY <1>3, <2>2
  <2> QED BY <2>2, <2>3
<1>5. f = [i \in R |-> e(f, i)]
  <2>1. \A i \in R : f[i] = e(f, i)
    <3> SUFFICES ASSUME NEW i \in R PROVE f[i] = e(f, i) OBVIOUS
    <3>1. CASE i = 0 BY <1>3, <3>1
    <3>2. CASE i # 0
      <4>1. i \in 1 .. n BY <1>1, <3>2
      <4> QED BY <1>4, <3>2, <4>1
    <3> QED BY <3>1, <3>2
  <2> HIDE DEF e, R, P
  <2> QED BY <1>3, <2>1
<1>6. kept = [i \in R |-> e(kept, i)]
  <2> HIDE DEF e, R
  <2> QED BY <1>5
<1>7. D!Only(s, K) = kept[n] BY DEF D!Only
<1>8. kept[n] = f[n]
  <2>1. kept[0] = f[0]
    <3>1. 0 \in R BY <1>1
    <3>2. kept[0] = e(kept, 0)
      <4> HIDE DEF e, kept, R
      <4> QED BY <1>6, <3>1
    <3> HIDE DEF kept
    <3> QED BY <1>3, <3>2
  <2>2. \A i \in 1 .. n : kept[i - 1] = f[i - 1] => kept[i] = f[i]
    <3> SUFFICES ASSUME NEW i \in 1 .. n, kept[i - 1] = f[i - 1] PROVE kept[i] = f[i] OBVIOUS
    <3>1. i \in R /\ i # 0 BY <1>1
    <3>2. kept[i] = e(kept, i)
      <4> HIDE DEF e, kept, R
      <4> QED BY <1>6, <3>1
    <3> HIDE DEF kept
    <3>3. kept[i] = T(kept[i - 1], i) BY <3>1, <3>2
    <3>4. f[i] = T(f[i - 1], i) BY <1>4
    <3> HIDE DEF T
    <3> QED BY <3>3, <3>4
  <2> HIDE DEF kept, n
  <2> QED BY <1>1, <2>1, <2>2, Agree
<1> DEFINE Good(i) == /\ InTime(f[i])
                      /\ \A j \in 1 .. Len(f[i]) : \E k \in 1 .. i : f[i][j] = s[k]
           G == {i \in Nat : i \in R => Good(i)}
<1> HIDE DEF kept, e, g
<1>9. 0 \in G
  <2>1. f[0] = <<>> BY <1>3
  <2>2. \A j \in 1 .. 0 : FALSE OBVIOUS
  <2> QED BY <2>1, <2>2 DEF InTime
<1>10. ASSUME NEW i \in Nat, i \in G PROVE i + 1 \in G
  <2> SUFFICES ASSUME i + 1 \in R PROVE Good(i + 1) OBVIOUS
  <2>1. i \in R /\ i + 1 \in 1 .. n /\ (i + 1) - 1 = i BY <1>1
  <2>2. Good(i) BY <1>10, <2>1
  <2>3. f[i + 1] = T(f[i], i + 1) /\ f[i] \in P BY <1>4, <2>1
  <2>4. s[i + 1] \in Pings BY <2>1
  <2>5. CASE i + 1 \notin K
    <3>1. f[i + 1] = f[i] BY <2>3, <2>5
    <3>2. \A k \in 1 .. i : k \in 1 .. i + 1 OBVIOUS
    <3> QED BY <2>2, <3>1, <3>2
  <2>6. CASE i + 1 \in K
    <3> DEFINE a == f[i]
               b == Append(a, s[i + 1])
    <3>1. f[i + 1] = b /\ a \in Seq(Pings) BY <2>3, <2>6
    <3>2. Len(b) = Len(a) + 1 /\ Len(a) \in Nat /\ b[Len(a) + 1] = s[i + 1]
          /\ \A j \in 1 .. Len(a) : b[j] = a[j]
      BY <2>4, <3>1
    <3>3. ASSUME NEW j \in 1 .. Len(a) PROVE \E k \in 1 .. i : b[j] = s[k]
      BY <2>2, <3>2
    <3>4. ASSUME NEW j \in 1 .. Len(a) PROVE b[j].time < s[i + 1].time
      <4>1. PICK k \in 1 .. i : b[j] = s[k] BY <3>3
      <4>2. k \in 1 .. Len(s) /\ i + 1 \in 1 .. Len(s) /\ k < i + 1 BY <2>1
      <4> QED BY <4>1, <4>2 DEF InTime
    <3> HIDE DEF b
    <3>5. InTime(b)
      <4> SUFFICES ASSUME NEW j \in 1 .. Len(b), NEW k \in 1 .. Len(b), j < k PROVE b[j].time < b[k].time BY DEF InTime
      <4>1. j \in 1 .. Len(a) BY <3>2
      <4>2. CASE k = Len(a) + 1 BY <3>2, <3>4, <4>1, <4>2
      <4>3. CASE k # Len(a) + 1
        <5>1. k \in 1 .. Len(a) BY <3>2, <4>3
        <5>2. a[j].time < a[k].time BY <2>2, <4>1, <5>1 DEF InTime
        <5> QED BY <3>2, <4>1, <5>1, <5>2
      <4> QED BY <4>2, <4>3
    <3>6. \A j \in 1 .. Len(b) : \E k \in 1 .. i + 1 : b[j] = s[k]
      <4> SUFFICES ASSUME NEW j \in 1 .. Len(b) PROVE \E k \in 1 .. i + 1 : b[j] = s[k] OBVIOUS
      <4>1. CASE j = Len(a) + 1
        <5>1. i + 1 \in 1 .. i + 1 OBVIOUS
        <5> QED BY <3>2, <4>1, <5>1
      <4>2. CASE j # Len(a) + 1
        <5>1. j \in 1 .. Len(a) BY <3>2, <4>2
        <5>2. PICK k \in 1 .. i : b[j] = s[k] BY <3>3, <5>1
        <5>3. k \in 1 .. i + 1 OBVIOUS
        <5> QED BY <5>2, <5>3
      <4> QED BY <4>1, <4>2
    <3> QED BY <3>1, <3>5, <3>6
  <2> QED BY <2>5, <2>6
<1>11. n \in G
  <2> HIDE DEF G, n
  <2> QED BY <1>1, <1>9, <1>10, NatInd
<1>12. f[n] \in P /\ InTime(f[n]) BY <1>1, <1>3, <1>11
<1> QED BY <1>7, <1>8, <1>12

\* The runs of one zone follow each other.
Spells(c) == [zone : {D!Zone(c, p) : p \in Pings}, start : Nat, end : Nat]
Ordered(r) ==
  /\ \A i \in 1 .. Len(r) : r[i].start <= r[i].end
  /\ \A i, j \in 1 .. Len(r) : i < j => r[i].end < r[j].start

Extension(c, r, p) ==
  IF r = <<>> \/ r[Len(r)].zone # D!Zone(c, p) \/ p.time - r[Len(r)].end > EpisodeGap
  THEN Append(r, [zone |-> D!Zone(c, p), start |-> p.time, end |-> p.time])
  ELSE [r EXCEPT ![Len(r)].end = p.time]

LEMMA ExtensionIs ==
  ASSUME NEW c, NEW r \in Seq(Spells(c)), Ordered(r), NEW p \in Pings, \A i \in 1 .. Len(r) : r[i].end < p.time
  PROVE  /\ Extension(c, r, p) \in Seq(Spells(c)) /\ Ordered(Extension(c, r, p))
         /\ \A i \in 1 .. Len(Extension(c, r, p)) : Extension(c, r, p)[i].end <= p.time
<1> DEFINE z == D!Zone(c, p)
           e == [zone |-> z, start |-> p.time, end |-> p.time]
           n == Len(r)
<1>1. e \in Spells(c) /\ p.time \in Nat /\ e.start = p.time /\ e.end = p.time
  BY DEF Spells, Pings
<1>2. n \in Nat /\ \A i \in 1 .. n : r[i] \in Spells(c) /\ r[i].start \in Nat /\ r[i].end \in Nat
  <2>1. \A x \in Spells(c) : x.start \in Nat /\ x.end \in Nat BY DEF Spells
  <2> QED BY <2>1
<1>3. CASE Extension(c, r, p) = Append(r, e)
  <2> DEFINE b == Append(r, e)
  <2>1. b \in Seq(Spells(c)) /\ Len(b) = n + 1 /\ b[n + 1] = e /\ \A i \in 1 .. n : b[i] = r[i] BY <1>1
  <2> HIDE DEF b, e
  <2>2. \A i \in 1 .. Len(b) : b[i].start <= b[i].end /\ b[i].end <= p.time
    <3> SUFFICES ASSUME NEW i \in 1 .. Len(b) PROVE b[i].start <= b[i].end /\ b[i].end <= p.time OBVIOUS
    <3>1. CASE i = n + 1 BY <1>1, <2>1, <3>1
    <3>2. CASE i # n + 1
      <4>1. i \in 1 .. n BY <1>2, <2>1, <3>2
      <4> QED BY <1>1, <1>2, <2>1, <4>1 DEF Ordered
    <3> QED BY <3>1, <3>2
  <2>3. \A i, j \in 1 .. Len(b) : i < j => b[i].end < b[j].start
    <3> SUFFICES ASSUME NEW i \in 1 .. Len(b), NEW j \in 1 .. Len(b), i < j PROVE b[i].end < b[j].start OBVIOUS
    <3>1. i \in 1 .. n BY <1>2, <2>1
    <3>2. CASE j = n + 1 BY <1>1, <2>1, <3>1, <3>2
    <3>3. CASE j # n + 1
      <4>1. j \in 1 .. n BY <1>2, <2>1, <3>3
      <4> QED BY <2>1, <3>1, <4>1 DEF Ordered
    <3> QED BY <3>2, <3>3
  <2> QED BY <1>3, <2>1, <2>2, <2>3 DEF Ordered, b
<1>4. CASE r # <<>> /\ Extension(c, r, p) = [r EXCEPT ![n].end = p.time]
  <2> DEFINE b == [r EXCEPT ![n].end = p.time]
             l == [r[n] EXCEPT !.end = p.time]
  <2>1. n \in 1 .. n /\ r[n] \in Spells(c)
    <3>1. n # 0 BY <1>4
    <3> QED BY <1>2, <3>1
  <2>2. l \in Spells(c) /\ l.end = p.time /\ l.start = r[n].start BY <1>1, <2>1 DEF Spells
  <2>3. b = [r EXCEPT ![n] = l] BY <2>1
  <2>4. b \in Seq(Spells(c)) /\ Len(b) = n /\ b[n] = l /\ \A i \in 1 .. n : i # n => b[i] = r[i]
    <3> HIDE DEF l, b
    <3> QED BY <1>2, <2>1, <2>2, <2>3
  <2> HIDE DEF b, l
  <2>5. \A i \in 1 .. n : b[i].start <= b[i].end /\ b[i].end <= p.time
    <3> SUFFICES ASSUME NEW i \in 1 .. n PROVE b[i].start <= b[i].end /\ b[i].end <= p.time OBVIOUS
    <3>0. r[i].start <= r[i].end /\ r[i].end < p.time /\ r[i].start \in Nat /\ r[i].end \in Nat BY <1>2 DEF Ordered
    <3>1. CASE i = n BY <1>1, <2>2, <2>4, <3>0, <3>1
    <3>2. CASE i # n BY <1>1, <2>4, <3>0, <3>2
    <3> QED BY <3>1, <3>2
  <2>6. \A i, j \in 1 .. n : i < j => b[i].end < b[j].start
    <3> SUFFICES ASSUME NEW i \in 1 .. n, NEW j \in 1 .. n, i < j PROVE b[i].end < b[j].start OBVIOUS
    <3>1. i # n BY <1>2
    <3>2. r[i].end < r[j].start BY DEF Ordered
    <3>3. b[j].start = r[j].start BY <2>2, <2>4
    <3> QED BY <2>4, <3>1, <3>2, <3>3
  <2> QED BY <1>4, <2>4, <2>5, <2>6 DEF Ordered, b
<1> QED BY <1>3, <1>4 DEF Extension

LEMMA EpisodesAre ==
  ASSUME NEW c, NEW s \in Seq(Pings), InTime(s)
  PROVE  D!Episodes(c, s) \in Seq(Spells(c)) /\ Ordered(D!Episodes(c, s))
<1> DEFINE n == Len(s)
           R == 0 .. n
           P == {r \in Seq(Spells(c)) : Ordered(r)}
           E(r, p) == Extension(c, r, p)
           T(r, p) == IF \A i \in 1 .. Len(r) : r[i].end < p.time THEN E(r, p) ELSE r
           g == [q \in P \X Pings |-> T(q[1], q[2])]
           e(f, i) == IF i = 0 THEN <<>> ELSE CHOOSE r \in {E(x, s[i]) : x \in {f[i - 1]}} : TRUE
           after == CHOOSE f : f = [i \in R |-> e(f, i)]
<1>1. n \in Nat /\ <<>> \in P
  <2>1. \A i \in 1 .. 0 : FALSE OBVIOUS
  <2> QED BY <2>1 DEF Ordered
<1>2. g \in [P \X Pings -> P]
  <2>1. ASSUME NEW q \in P \X Pings PROVE T(q[1], q[2]) \in P
    <3>1. q[1] \in P /\ q[2] \in Pings OBVIOUS
    <3> QED BY <3>1, ExtensionIs
  <2> QED BY <2>1
<1>3. PICK f \in [R -> P] : f[0] = <<>> /\ \A i \in 1 .. n : f[i] = g[<<f[i - 1], s[i]>>]
  <2> HIDE DEF P, g
  <2>1. \E h : Folded(h, P, g, <<>>, s) BY <1>1, <1>2, FoldExists
  <2> QED BY <2>1 DEF Folded
<1>4. ASSUME NEW i \in 1 .. n PROVE f[i] = T(f[i - 1], s[i]) /\ f[i - 1] \in P /\ s[i] \in Pings
  <2>1. i - 1 \in R /\ i \in R OBVIOUS
  <2>2. f[i - 1] \in P
    <3> HIDE DEF P, T, g, R
    <3> QED BY <1>3, <2>1
  <2>3. s[i] \in Pings OBVIOUS
  <2> HIDE DEF P
  <2>4. f[i] = g[<<f[i - 1], s[i]>>] /\ <<f[i - 1], s[i]>> \in P \X Pings BY <1>3, <2>2, <2>3
  <2> QED BY <2>2, <2>3, <2>4
<1> DEFINE Good(i) == \A j \in 1 .. Len(f[i]) : i > 0 /\ f[i][j].end <= s[i].time
           G == {i \in Nat : i \in R => Good(i)}
<1>5. 0 \in G
  <2>1. f[0] = <<>> BY <1>3
  <2>2. \A j \in 1 .. 0 : FALSE OBVIOUS
  <2> QED BY <2>1, <2>2
<1>6. ASSUME NEW i \in Nat, i + 1 \in 1 .. n, Good(i) PROVE f[i + 1] = E(f[i], s[i + 1]) /\ Good(i + 1)
  <2>1. i \in R /\ (i + 1) - 1 = i BY <1>1, <1>6
  <2>2. f[i + 1] = T(f[i], s[i + 1]) /\ f[i] \in P /\ s[i + 1] \in Pings BY <1>4, <1>6, <2>1
  <2>3. \A j \in 1 .. Len(f[i]) : f[i][j].end < s[i + 1].time
    <3> SUFFICES ASSUME NEW j \in 1 .. Len(f[i]) PROVE f[i][j].end < s[i + 1].time OBVIOUS
    <3>1. i > 0 /\ f[i][j].end <= s[i].time BY <1>6
    <3>2. i \in 1 .. Len(s) /\ i + 1 \in 1 .. Len(s) BY <1>6, <3>1
    <3>3. s[i].time < s[i + 1].time BY <3>2 DEF InTime
    <3>4. f[i][j].end \in Nat /\ s[i].time \in Nat /\ s[i + 1].time \in Nat
      <4>1. f[i][j] \in Spells(c) BY <2>2
      <4>2. s[i] \in Pings /\ s[i + 1] \in Pings BY <3>2
      <4> QED BY <4>1, <4>2 DEF Spells, Pings
    <3> QED BY <3>1, <3>3, <3>4
  <2>4. f[i + 1] = E(f[i], s[i + 1]) BY <2>2, <2>3
  <2>5. \A j \in 1 .. Len(f[i + 1]) : f[i + 1][j].end <= s[i + 1].time BY <2>2, <2>3, <2>4, ExtensionIs
  <2> QED BY <2>4, <2>5
<1>7. ASSUME NEW i \in Nat, i \in G PROVE i + 1 \in G
  <2> SUFFICES ASSUME i + 1 \in R PROVE Good(i + 1) OBVIOUS
  <2>1. i \in R /\ i + 1 \in 1 .. n BY <1>1
  <2>2. Good(i) BY <1>7, <2>1
  <2> HIDE DEF Good
  <2> QED BY <1>6, <2>1, <2>2
<1>8. Nat \subseteq G
  <2> HIDE DEF G
  <2> QED BY <1>5, <1>7, NatInd
<1>9. ASSUME NEW i \in 1 .. n PROVE f[i] = E(f[i - 1], s[i])
  <2>1. i - 1 \in Nat /\ i - 1 \in R /\ (i - 1) + 1 = i OBVIOUS
  <2>2. Good(i - 1) BY <1>8, <2>1
  <2> HIDE DEF Good, E
  <2> QED BY <1>6, <2>1, <2>2
<1> HIDE DEF Good, G
<1>10. f = [i \in R |-> e(f, i)]
  <2>1. ASSUME NEW i \in R PROVE f[i] = e(f, i)
    <3>1. CASE i = 0 BY <1>3, <3>1
    <3>2. CASE i # 0
      <4>1. i \in 1 .. n BY <1>1, <3>2
      <4>2. f[i] = E(f[i - 1], s[i]) BY <1>9, <4>1
      <4> HIDE DEF E
      <4> QED BY <3>2, <4>2
    <3> QED BY <3>1, <3>2
  <2> HIDE DEF e, R, P
  <2> QED BY <1>3, <2>1
<1>11. after = [i \in R |-> e(after, i)]
  <2> HIDE DEF e, R
  <2> QED BY <1>10
<1>12. D!Episodes(c, s) = after[n] BY DEF D!Episodes, D!Fold, Extension
<1>13. after[n] = f[n]
  <2>1. after[0] = f[0]
    <3>1. 0 \in R BY <1>1
    <3>2. after[0] = e(after, 0)
      <4> HIDE DEF e, after, R
      <4> QED BY <1>11, <3>1
    <3> HIDE DEF after
    <3> QED BY <1>3, <3>2
  <2>2. ASSUME NEW i \in 1 .. n, after[i - 1] = f[i - 1] PROVE after[i] = f[i]
    <3>1. i \in R /\ i # 0 BY <1>1
    <3>2. after[i] = e(after, i)
      <4> HIDE DEF e, after, R
      <4> QED BY <1>11, <3>1
    <3> HIDE DEF after, E
    <3>3. after[i] = E(after[i - 1], s[i]) BY <3>1, <3>2
    <3> QED BY <1>9, <2>2, <3>3
  <2> HIDE DEF after, n
  <2> QED BY <1>1, <2>1, <2>2, Agree
<1>14. f[n] \in P BY <1>1, <1>3
<1> QED BY <1>12, <1>13, <1>14

\* The traversals of one vehicle through one course: they begin apart, and the complete
\* ones follow each other.
Drive(v) == [vehicle : {v}, origin : Nat, departure : Nat, destination : Nat \union {-1}]
Whole(t) == t.destination # -1
Drives(T, v) ==
  /\ IsFiniteSet(T) /\ T \subseteq Drive(v)
  /\ \A t \in T : t.origin < t.departure /\ (Whole(t) => t.departure < t.destination)
  /\ \A t, u \in T : t.origin = u.origin => t = u
  /\ \A t, u \in T : Whole(t) /\ Whole(u) /\ t # u => t.destination < u.departure \/ u.destination < t.departure

LEMMA LeastIs == ASSUME NEW S, S \subseteq Nat, S # {} PROVE D!MinOf(S) \in S /\ \A x \in S : D!MinOf(S) <= x
BY LeastOf DEF D!MinOf

LEMMA TraversalsAre ==
  ASSUME NEW c, NEW v, NEW s \in Seq(Pings), InTime(s)
  PROVE  Drives(D!Traversals(c, v, s), v)
<1> DEFINE r == D!Episodes(c, s)
           n == Len(r)
           O == {o \in 1 .. n - 1 : r[o].zone[1] /\ r[o + 1].zone = D!Outside}
           A(o) == D!Arrival(r, o)
           a(o) == IF A(o) = {} THEN D!NoTime ELSE r[D!MinOf(A(o))].start
           t(o) == [vehicle |-> v, origin |-> r[o].start, departure |-> r[o + 1].start, destination |-> a(o)]
           T == {t(o) : o \in O}
<1>1. D!Traversals(c, v, s) = T BY DEF D!Traversals
<1>2. r \in Seq(Spells(c)) /\ Ordered(r) /\ n \in Nat BY EpisodesAre
<1> HIDE DEF r
<1>3. \A i \in 1 .. n : r[i].start \in Nat /\ r[i].end \in Nat /\ r[i].start <= r[i].end
  <2>1. \A x \in Spells(c) : x.start \in Nat /\ x.end \in Nat BY DEF Spells
  <2> QED BY <1>2, <2>1 DEF Ordered
<1>4. \A i, j \in 1 .. n : i < j => r[i].start < r[j].start
  <2> SUFFICES ASSUME NEW i \in 1 .. n, NEW j \in 1 .. n, i < j PROVE r[i].start < r[j].start OBVIOUS
  <2>1. r[i].end < r[j].start BY <1>2 DEF Ordered
  <2> QED BY <1>3, <2>1
<1>5. ASSUME NEW o \in O
      PROVE  /\ o \in 1 .. n /\ o + 1 \in 1 .. n /\ r[o].zone # D!Outside /\ r[o + 1].zone = D!Outside
             /\ \/ a(o) = -1
                \/ \E j \in o + 2 .. n : a(o) = r[j].start /\ \A k \in o + 2 .. j - 1 : r[k].zone = D!Outside
  <2>1. o \in 1 .. n /\ o + 1 \in 1 .. n BY <1>2
  <2>2. r[o].zone # D!Outside
    <3>1. r[o].zone[1] OBVIOUS
    <3>2. D!Outside[1] = FALSE BY DEF D!Outside
    <3> QED BY <3>1, <3>2
  <2>3. CASE A(o) = {} BY <2>1, <2>2, <2>3 DEF D!NoTime
  <2>4. CASE A(o) # {}
    <3>1. A(o) \subseteq Nat BY <1>2 DEF D!Arrival
    <3> DEFINE m == D!MinOf(A(o))
    <3>2. m \in A(o)
      <4> HIDE DEF A
      <4> QED BY <2>4, <3>1, LeastIs
    <3>3. a(o) = r[m].start BY <2>4
    <3> HIDE DEF m, a
    <3>4. m \in o + 2 .. n /\ \A k \in o + 2 .. m - 1 : r[k].zone = D!Outside BY <3>2 DEF D!Arrival
    <3> QED BY <2>1, <2>2, <3>3, <3>4
  <2> QED BY <2>3, <2>4
<1>6. IsFiniteSet(T)
  <2>1. IsFiniteSet(1 .. n - 1)
    <3>1. 1 \in Int /\ n - 1 \in Int BY <1>2
    <3> QED BY <3>1, FS_Interval
  <2>2. IsFiniteSet(O)
    <3>1. O \subseteq 1 .. n - 1 OBVIOUS
    <3> QED BY <2>1, <3>1, FS_Subset
  <2> DEFINE f == [o \in O |-> t(o)]
  <2>3. T = {f[o] : o \in O}
    <3> HIDE DEF t, O
    <3> QED OBVIOUS
  <2> HIDE DEF f, O, T
  <2> QED BY <2>2, <2>3, FiniteImage
<1>7. ASSUME NEW o \in O
      PROVE  /\ t(o) \in Drive(v) /\ t(o).origin = r[o].start /\ t(o).departure = r[o + 1].start /\ t(o).destination = a(o)
             /\ t(o).origin < t(o).departure /\ (Whole(t(o)) => t(o).departure < t(o).destination)
  <2>1. /\ o \in 1 .. n /\ o + 1 \in 1 .. n
        /\ a(o) = -1 \/ \E j \in o + 2 .. n : a(o) = r[j].start
    <3> HIDE DEF a, O
    <3> QED BY <1>5
  <2>2. a(o) \in Nat \union {-1} /\ (a(o) # -1 => r[o + 1].start < a(o))
    <3>1. CASE a(o) = -1
      <4> HIDE DEF a
      <4> QED BY <3>1
    <3>2. ASSUME NEW j \in o + 2 .. n, a(o) = r[j].start PROVE a(o) \in Nat /\ r[o + 1].start < a(o)
      <4>1. j \in 1 .. n /\ o + 1 < j BY <1>2, <2>1
      <4> HIDE DEF a
      <4> QED BY <1>3, <1>4, <2>1, <3>2, <4>1
    <3> HIDE DEF a
    <3> QED BY <2>1, <3>1, <3>2
  <2> HIDE DEF a, O, t, T
  <2>3. r[o].start \in Nat /\ r[o + 1].start \in Nat /\ r[o].start < r[o + 1].start
    <3>1. o < o + 1 BY <1>2, <2>1
    <3>2. r[o].start \in Nat /\ r[o + 1].start \in Nat BY <1>3, <2>1
    <3>3. r[o].start < r[o + 1].start BY <1>4, <2>1, <3>1
    <3> QED BY <3>2, <3>3
  <2> USE DEF t, T
  <2> QED BY <2>2, <2>3 DEF Drive, Whole
<1>8. ASSUME NEW o \in O, NEW q \in O, t(o).origin = t(q).origin PROVE o = q
  <2>1. o \in 1 .. n /\ q \in 1 .. n /\ r[o].start = r[q].start BY <1>2, <1>8
  <2>2. ~(o < q) /\ ~(q < o) BY <1>3, <1>4, <2>1
  <2> QED BY <2>1, <2>2
<1>9. ASSUME NEW o \in O, NEW q \in O, o < q, Whole(t(o)) PROVE t(o).destination < t(q).departure
  <2>1. a(o) # -1 /\ t(o).destination = a(o) /\ t(q).departure = r[q + 1].start
    <3> HIDE DEF a, O
    <3> QED BY <1>9 DEF Whole
  <2>2. PICK j \in o + 2 .. n : a(o) = r[j].start /\ \A k \in o + 2 .. j - 1 : r[k].zone = D!Outside
    <3> HIDE DEF a, O
    <3> QED BY <1>5, <2>1
  <2>3. /\ o \in 1 .. n /\ o + 1 \in 1 .. n /\ q \in 1 .. n /\ q + 1 \in 1 .. n
        /\ r[o + 1].zone = D!Outside /\ r[q].zone # D!Outside
    <3> HIDE DEF a, O
    <3> QED BY <1>5
  <2>4. q # o + 1 BY <2>3
  <2>5. ~(q < j)
    <3> SUFFICES ASSUME q < j PROVE FALSE OBVIOUS
    <3>1. q \in o + 2 .. j - 1 BY <1>2, <1>9, <2>3, <2>4
    <3> QED BY <2>2, <2>3, <3>1
  <2>6. j \in 1 .. n /\ j < q + 1 BY <1>2, <2>3, <2>5
  <2>7. r[j].start < r[q + 1].start BY <1>4, <2>3, <2>6
  <2> HIDE DEF a, O, t
  <2> QED BY <2>1, <2>2, <2>7
<1> HIDE DEF t, O
<1>10. \A x \in T : \E o \in O : x = t(o) OBVIOUS
<1>11. \A x, y \in T : x.origin = y.origin => x = y
  <2> SUFFICES ASSUME NEW x \in T, NEW y \in T, x.origin = y.origin PROVE x = y OBVIOUS
  <2>1. PICK o \in O : x = t(o) OBVIOUS
  <2>2. PICK q \in O : y = t(q) OBVIOUS
  <2>3. o = q BY <1>8, <2>1, <2>2
  <2> QED BY <2>1, <2>2, <2>3
<1>12. \A x, y \in T : Whole(x) /\ Whole(y) /\ x # y => x.destination < y.departure \/ y.destination < x.departure
  <2> SUFFICES ASSUME NEW x \in T, NEW y \in T, Whole(x), Whole(y), x # y
               PROVE  x.destination < y.departure \/ y.destination < x.departure
    OBVIOUS
  <2>1. PICK o \in O : x = t(o) OBVIOUS
  <2>2. PICK q \in O : y = t(q) OBVIOUS
  <2>3. o # q /\ o \in Nat /\ q \in Nat
    <3>1. o # q BY <2>1, <2>2
    <3> QED BY <3>1, <1>5
  <2>4. CASE o < q BY <1>9, <2>1, <2>2, <2>4
  <2>5. CASE q < o BY <1>9, <2>1, <2>2, <2>5
  <2> QED BY <2>3, <2>4, <2>5
<1>13. \A x \in T : x \in Drive(v) /\ x.origin < x.departure /\ (Whole(x) => x.departure < x.destination)
  <2> SUFFICES ASSUME NEW x \in T
               PROVE  x \in Drive(v) /\ x.origin < x.departure /\ (Whole(x) => x.departure < x.destination)
    OBVIOUS
  <2>1. PICK o \in O : x = t(o) OBVIOUS
  <2> QED BY <1>7, <2>1
<1> HIDE DEF T
<1> QED BY <1>1, <1>6, <1>11, <1>12, <1>13 DEF Drives

\* What the constants are, and the days.
CourseRecords == [line : STRING, dispatched : BOOLEAN, settled : BOOLEAN, fallback : BOOLEAN,
                  start : Int, end : Int, stops : Seq([near : STRING, passenger : BOOLEAN])]

LEMMA DutyFinite == \A S : D!IsFiniteSet(S) <=> IsFiniteSet(S)
BY DEF D!IsFiniteSet, IsFiniteSet

LEMMA DutySize == \A S : D!Cardinality(S) = Cardinality(S)
BY DEF D!Cardinality, Cardinality, D!IsFiniteSet, IsFiniteSet

LEMMA DutyConstants ==
  /\ IsFiniteSet(Fleet) /\ Fleet \subseteq Nat \ {0}
  /\ PathLimit \in Nat \ {0} /\ DiverseStates \in 0 .. PathLimit /\ TimingTie \in Int
BY DutyHolds, DutyFinite DEF D!DutyAssumption

LEMMA DayIs ==
  ASSUME v1 \in DutyInputs
  PROVE  /\ v1.duties \in Seq(Seq(CourseRecords)) /\ v1.duties # <<>> /\ v1.tracks \in [Fleet -> Seq(Pings)]
         /\ \A v \in Fleet : InTime(v1.tracks[v])
<1>1. /\ v1.duties \in Seq(Seq(CourseRecords)) /\ v1.duties # <<>> /\ v1.tracks \in [Fleet -> Seq(Pings)]
      /\ \A v \in Fleet : \A j, k \in DOMAIN v1.tracks[v] : j < k => v1.tracks[v][j].time < v1.tracks[v][k].time
  BY DutyHolds DEF D!DutyAssumption, CourseRecords, Pings
<1>2. \A v \in Fleet : InTime(v1.tracks[v])
  <2> SUFFICES ASSUME NEW v \in Fleet PROVE InTime(v1.tracks[v]) OBVIOUS
  <2>1. DOMAIN v1.tracks[v] = 1 .. Len(v1.tracks[v]) BY <1>1
  <2> QED BY <1>1, <2>1 DEF InTime
<1> QED BY <1>1, <1>2

\* The traversals of one course.
Found(T) ==
  /\ IsFiniteSet(T) /\ \A t \in T : t.vehicle \in Fleet
  /\ \A v \in Fleet : Drives({t \in T : t.vehicle = v}, v)

LEMMA EvidenceIs == ASSUME v1 \in DutyInputs, NEW i PROVE Found(D!Evidence(i).traversals)
<1> DEFINE s(v) == D!Trimmed(i, v)
           c == D!Courses[i]
           T(v) == D!Traversals(c, v, s(v))
           U == UNION {T(v) : v \in Fleet}
<1>1. ASSUME NEW v \in Fleet PROVE Drives(T(v), v)
  <2>1. v1.tracks[v] \in Seq(Pings) /\ InTime(v1.tracks[v]) BY DayIs
  <2>2. D!OfLine(i, v) \in Seq(Pings) /\ InTime(D!OfLine(i, v)) BY <2>1, OnlyInTime DEF D!OfLine
  <2>3. s(v) \in Seq(Pings) /\ InTime(s(v)) BY <2>2, OnlyInTime DEF D!Trimmed
  <2> HIDE DEF s, c
  <2> QED BY <2>3, TraversalsAre
<1>2. D!Evidence(i).traversals = IF ~D!Located(c) THEN {} ELSE U BY DEF D!Evidence
<1> HIDE DEF s, c, T
<1>3. \A v \in Fleet : \A t \in T(v) : t.vehicle = v BY <1>1 DEF Drives, Drive
<1>4. IsFiniteSet(U)
  <2> DEFINE f == [v \in Fleet |-> T(v)]
             X == {f[v] : v \in Fleet}
  <2>1. U = UNION X OBVIOUS
  <2>2. \A x \in X : IsFiniteSet(x) BY <1>1 DEF Drives
  <2> HIDE DEF f
  <2>3. IsFiniteSet(X) BY DutyConstants, FiniteImage
  <2> HIDE DEF X, U
  <2> QED BY <2>1, <2>2, <2>3, FS_UNION
<1>5. Found(U)
  <2>1. \A t \in U : t.vehicle \in Fleet BY <1>3
  <2>2. ASSUME NEW v \in Fleet PROVE Drives({t \in U : t.vehicle = v}, v)
    <3>1. {t \in U : t.vehicle = v} = T(v) BY <1>3
    <3> QED BY <1>1, <3>1
  <2> HIDE DEF U
  <2> QED BY <1>4, <2>1, <2>2 DEF Found
<1>6. Found({})
  <2>1. \A v : Drives({}, v) BY FS_EmptySet DEF Drives
  <2>2. \A v : {t \in {} : t.vehicle = v} = {} OBVIOUS
  <2> QED BY <2>1, <2>2, FS_EmptySet DEF Found
<1> HIDE DEF U
<1> QED BY <1>2, <1>5, <1>6

\* Paths of one vehicle through the first n courses, over its candidates for them.
Pick(v) == {D!None} \union Drive(v)
PathRecords(v) ==
  [picked : Seq(Pick(v)), used : SUBSET (Nat \X Nat \X Nat), destination : Nat \union {-1}, last : Pick(v),
   delay : Int, executed : Nat, cost : Int]

Apart(Z, v, n) ==
  \A i \in 1 .. n :
    /\ IsFiniteSet(Z[i]) /\ Z[i] \subseteq Drive(v)
    /\ \A t \in Z[i] : Whole(t) /\ t.departure < t.destination
    /\ \A t, u \in Z[i] : t.origin = u.origin => t = u

Along(s, Z, n) == Len(s) = n /\ \A i \in 1 .. n : s[i] = D!None \/ s[i] \in Z[i]

LEMMA NoneIs == ASSUME NEW v \in Fleet, NEW t \in Drive(v) PROVE t # D!None /\ t.vehicle = v /\ v \in Nat /\ v # 0
<1>1. t.vehicle = v /\ v \in Nat /\ v # 0 BY DutyConstants DEF Drive
<1>2. D!None.vehicle = 0 BY DEF D!None
<1> QED BY <1>1, <1>2

LEMMA SignatureIrreflexive == ASSUME NEW v \in Fleet, NEW s \in Seq(Pick(v)) PROVE ~D!SignatureLess(s, s)
<1> SUFFICES ASSUME D!SignatureLess(s, s) PROVE FALSE OBVIOUS
<1>1. PICK i \in DOMAIN s : s[i] # D!None /\ (s[i].origin < s[i].origin \/ s[i].destination < s[i].destination)
  BY DEF D!SignatureLess
<1>2. s[i] \in Drive(v)
  <2>1. s[i] \in Pick(v) OBVIOUS
  <2> QED BY <1>1, <2>1 DEF Pick
<1>3. s[i].origin \in Int /\ s[i].destination \in Int BY <1>2 DEF Drive
<1> QED BY <1>1, <1>3

\* What an entry is that comes first.
Sooner2(a, b) == b = D!None \/ a.origin < b.origin \/ (a.origin = b.origin /\ a.destination < b.destination)

LEMMA SignatureIs ==
  ASSUME NEW n \in Nat, NEW s, NEW t, DOMAIN s = 1 .. n
  PROVE  D!SignatureLess(s, t)
         <=> \E i \in 1 .. n : (\A j \in 1 .. i - 1 : s[j] = t[j]) /\ s[i] # D!None /\ Sooner2(s[i], t[i])
BY DEF D!SignatureLess, Sooner2

LEMMA SignatureTransitive ==
  ASSUME NEW v \in Fleet, NEW n \in Nat, NEW s \in Seq(Pick(v)), NEW t \in Seq(Pick(v)), NEW u \in Seq(Pick(v)),
         Len(s) = n, Len(t) = n, Len(u) = n, D!SignatureLess(s, t), D!SignatureLess(t, u)
  PROVE  D!SignatureLess(s, u)
<1>0. DOMAIN s = 1 .. n /\ DOMAIN t = 1 .. n OBVIOUS
<1>1. PICK i \in 1 .. n : (\A j \in 1 .. i - 1 : s[j] = t[j]) /\ s[i] # D!None /\ Sooner2(s[i], t[i])
  BY <1>0, SignatureIs
<1>2. PICK k \in 1 .. n : (\A j \in 1 .. k - 1 : t[j] = u[j]) /\ t[k] # D!None /\ Sooner2(t[k], u[k])
  BY <1>0, SignatureIs
<1>3. SUFFICES \E l \in 1 .. n : (\A j \in 1 .. l - 1 : s[j] = u[j]) /\ s[l] # D!None /\ Sooner2(s[l], u[l])
  BY <1>0, SignatureIs
<1>4. CASE i < k
  <2>1. i \in 1 .. k - 1 BY <1>4
  <2>2. u[i] = t[i] BY <1>2, <1>4, <2>1
  <2>3. \A j \in 1 .. i - 1 : j \in 1 .. k - 1 BY <1>4
  <2> QED BY <1>1, <1>2, <2>2, <2>3
<1>5. CASE k < i
  <2>1. k \in 1 .. i - 1 BY <1>5
  <2>2. s[k] = t[k] BY <1>1, <1>5, <2>1
  <2>3. \A j \in 1 .. k - 1 : j \in 1 .. i - 1 BY <1>5
  <2> QED BY <1>1, <1>2, <2>2, <2>3
<1>6. CASE i = k
  <2>1. s[i] \in Pick(v) /\ t[i] \in Pick(v) /\ u[i] \in Pick(v) OBVIOUS
  <2>2. /\ s[i].origin \in Int /\ s[i].destination \in Int /\ t[i].origin \in Int /\ t[i].destination \in Int
        /\ (u[i] = D!None \/ (u[i].origin \in Int /\ u[i].destination \in Int))
    BY <1>1, <1>2, <1>6, <2>1 DEF Pick, Drive
  <2>3. t[i] # D!None BY <1>2, <1>6
  <2>4. Sooner2(s[i], u[i]) BY <1>1, <1>2, <1>6, <2>2, <2>3 DEF Sooner2
  <2> QED BY <1>1, <1>2, <1>6, <2>4
<1> QED BY <1>4, <1>5, <1>6

LEMMA SignatureTotal ==
  ASSUME NEW v \in Fleet, NEW n \in Nat, NEW Z, Apart(Z, v, n), NEW s \in Seq(Pick(v)), NEW t \in Seq(Pick(v)),
         Along(s, Z, n), Along(t, Z, n), s # t
  PROVE  D!SignatureLess(s, t) \/ D!SignatureLess(t, s)
<1>0. Len(s) = n /\ Len(t) = n /\ DOMAIN s = 1 .. n /\ DOMAIN t = 1 .. n BY DEF Along
<1> DEFINE X == {i \in 1 .. n : s[i] # t[i]}
<1>1. X # {} BY <1>0
<1>2. X \subseteq Nat OBVIOUS
<1>3. PICK i \in X : \A j \in X : i <= j
  <2> HIDE DEF X
  <2> QED BY <1>1, <1>2, LeastOf
<1>4. i \in 1 .. n /\ s[i] # t[i] OBVIOUS
<1>5. \A j \in 1 .. i - 1 : s[j] = t[j]
  <2> SUFFICES ASSUME NEW j \in 1 .. i - 1, s[j] # t[j] PROVE FALSE OBVIOUS
  <2>1. j \in X /\ j < i BY <1>4
  <2> QED BY <1>3, <1>4, <2>1
<1>6. CASE s[i] = D!None BY <1>0, <1>4, <1>5, <1>6, SignatureIs DEF Sooner2
<1>7. CASE t[i] = D!None BY <1>0, <1>4, <1>5, <1>7, SignatureIs DEF Sooner2
<1>8. CASE s[i] # D!None /\ t[i] # D!None
  <2>1. s[i] \in Z[i] /\ t[i] \in Z[i] BY <1>4, <1>8 DEF Along
  <2>2. s[i].origin # t[i].origin /\ s[i] \in Drive(v) /\ t[i] \in Drive(v) BY <1>4, <2>1 DEF Apart
  <2>3. s[i].origin \in Nat /\ t[i].origin \in Nat BY <2>2 DEF Drive
  <2>4. CASE s[i].origin < t[i].origin
    <3>1. Sooner2(s[i], t[i]) BY <2>4 DEF Sooner2
    <3> QED BY <1>0, <1>4, <1>5, <1>8, <3>1, SignatureIs
  <2>5. CASE t[i].origin < s[i].origin
    <3>1. Sooner2(t[i], s[i]) BY <2>5 DEF Sooner2
    <3> QED BY <1>0, <1>4, <1>5, <1>8, <3>1, SignatureIs
  <2> QED BY <2>2, <2>3, <2>4, <2>5
<1> QED BY <1>6, <1>7, <1>8

\* Paths over the same candidates, each told by what it picked.
PathSet(P, Z, v, n) ==
  /\ \A p \in P : p \in PathRecords(v) /\ Along(p.picked, Z, n)
  /\ \A p, q \in P : p.picked = q.picked => p = q

BetterIn(P) == {x \in P \X P : D!Better(x[1], x[2])}

LEMMA PathIs ==
  ASSUME NEW v, NEW p \in PathRecords(v)
  PROVE  p.executed \in Nat /\ p.cost \in Int /\ p.picked \in Seq(Pick(v)) /\ p.delay \in Int /\ p.destination \in Nat \union {-1}
BY DEF PathRecords

LEMMA BetterOrders ==
  ASSUME NEW v \in Fleet, NEW n \in Nat, NEW Z, Apart(Z, v, n), NEW P, PathSet(P, Z, v, n)
  PROVE  StrictOrder(BetterIn(P), P)
<1>0. \A p \in P : /\ p.executed \in Nat /\ p.cost \in Int /\ p.picked \in Seq(Pick(v))
                   /\ Along(p.picked, Z, n) /\ Len(p.picked) = n
  BY PathIs DEF PathSet, Along
<1>1. \A p, q \in P : <<p, q>> \in BetterIn(P) <=> D!Better(p, q) BY DEF BetterIn
<1>2. ASSUME NEW p \in P PROVE <<p, p>> \notin BetterIn(P)
  <2>1. ~D!SignatureLess(p.picked, p.picked) BY <1>0, SignatureIrreflexive
  <2>2. p.executed \in Nat /\ p.cost \in Int BY <1>0
  <2> QED BY <1>1, <2>1, <2>2 DEF D!Better
<1>3. ASSUME NEW p \in P, NEW q \in P, NEW r \in P, <<p, q>> \in BetterIn(P), <<q, r>> \in BetterIn(P)
      PROVE  <<p, r>> \in BetterIn(P)
  <2>1. D!SignatureLess(p.picked, q.picked) /\ D!SignatureLess(q.picked, r.picked) => D!SignatureLess(p.picked, r.picked)
    BY <1>0, SignatureTransitive
  <2>2. p.executed \in Nat /\ p.cost \in Int /\ q.executed \in Nat /\ q.cost \in Int /\ r.executed \in Nat /\ r.cost \in Int
    BY <1>0
  <2>3. D!Better(p, q) /\ D!Better(q, r) BY <1>1, <1>3
  <2>4. D!Better(p, r) BY <2>1, <2>2, <2>3 DEF D!Better
  <2> QED BY <1>1, <2>4
<1>4. ASSUME NEW p \in P, NEW q \in P, p # q PROVE <<p, q>> \in BetterIn(P) \/ <<q, p>> \in BetterIn(P)
  <2>1. p.picked # q.picked BY <1>4 DEF PathSet
  <2>2. D!SignatureLess(p.picked, q.picked) \/ D!SignatureLess(q.picked, p.picked) BY <1>0, <2>1, SignatureTotal
  <2>3. p.executed \in Nat /\ p.cost \in Int /\ q.executed \in Nat /\ q.cost \in Int BY <1>0
  <2>4. D!Better(p, q) \/ D!Better(q, p) BY <2>2, <2>3 DEF D!Better
  <2> QED BY <1>1, <2>4
<1> QED BY <1>2, <1>3, <1>4 DEF StrictOrder

LEMMA BestIs ==
  ASSUME NEW v \in Fleet, NEW n \in Nat, NEW Z, Apart(Z, v, n), NEW P, PathSet(P, Z, v, n), IsFiniteSet(P), P # {}
  PROVE  D!Best(P) \in P /\ \A q \in P \ {D!Best(P)} : D!Better(D!Best(P), q)
<1>1. PICK p \in P : \A q \in P \ {p} : <<p, q>> \in BetterIn(P) BY BetterOrders, FirstIs
<1>2. \A q \in P \ {p} : D!Better(p, q) BY <1>1 DEF BetterIn
<1> QED BY <1>2 DEF D!Best

\* The traversals of a path follow each other.
Chain(p, n) ==
  /\ \A i, j \in 1 .. n :
       i < j /\ p.picked[i] # D!None /\ p.picked[j] # D!None => p.picked[i].destination < p.picked[j].departure
  /\ \A i \in 1 .. n : p.picked[i] # D!None => p.executed > 0 /\ p.picked[i].destination <= p.destination

Paths(P, Z, v, n) == IsFiniteSet(P) /\ P # {} /\ PathSet(P, Z, v, n) /\ \A p \in P : Chain(p, n)

LEMMA AppendIs ==
  ASSUME NEW X, NEW s \in Seq(X), NEW x \in X, NEW n \in Nat, Len(s) = n
  PROVE  /\ Append(s, x) \in Seq(X) /\ Len(Append(s, x)) = n + 1 /\ Append(s, x)[n + 1] = x
         /\ \A i \in 1 .. n : Append(s, x)[i] = s[i]
OBVIOUS

LEMMA AppendTells ==
  ASSUME NEW X, NEW s \in Seq(X), NEW t \in Seq(X), NEW x \in X, NEW y \in X, NEW n \in Nat, Len(s) = n, Len(t) = n,
         Append(s, x) = Append(t, y)
  PROVE  s = t /\ x = y
<1>1. x = y BY AppendIs
<1>2. \A i \in 1 .. n : s[i] = t[i] BY AppendIs
<1> QED BY <1>1, <1>2

LEMMA AlongMore ==
  ASSUME NEW v, NEW n \in Nat, NEW Z, NEW s \in Seq(Pick(v)), Along(s, Z, n), NEW x \in Pick(v),
         x = D!None \/ x \in Z[n + 1]
  PROVE  Along(Append(s, x), Z, n + 1)
<1> DEFINE a == Append(s, x)
<1>1. a \in Seq(Pick(v)) /\ Len(a) = n + 1 /\ a[n + 1] = x /\ \A i \in 1 .. n : a[i] = s[i] BY AppendIs DEF Along
<1> HIDE DEF a
<1>2. \A i \in 1 .. n + 1 : a[i] = D!None \/ a[i] \in Z[i]
  <2> SUFFICES ASSUME NEW i \in 1 .. n + 1 PROVE a[i] = D!None \/ a[i] \in Z[i] OBVIOUS
  <2>1. CASE i = n + 1 BY <1>1, <2>1
  <2>2. CASE i # n + 1
    <3>1. i \in 1 .. n BY <2>2
    <3> QED BY <1>1, <3>1 DEF Along
  <2> QED BY <2>1, <2>2
<1>3. Along(a, Z, n + 1) BY <1>1, <1>2 DEF Along
<1> QED BY <1>3 DEF a

LEMMA PassIs ==
  ASSUME NEW v \in Fleet, NEW n \in Nat, NEW Z, NEW p \in PathRecords(v), Along(p.picked, Z, n), Chain(p, n)
  PROVE  /\ D!Pass(p) \in PathRecords(v) /\ D!Pass(p).picked = Append(p.picked, D!None)
         /\ Along(D!Pass(p).picked, Z, n + 1) /\ Chain(D!Pass(p), n + 1)
<1> DEFINE q == D!Pass(p)
<1>1. p.picked \in Seq(Pick(v)) /\ D!None \in Pick(v) /\ Len(p.picked) = n BY PathIs DEF Pick, Along
<1>2. q = [p EXCEPT !.picked = Append(p.picked, D!None)] BY DEF D!Pass
<1>3. q \in PathRecords(v) /\ q.picked = Append(p.picked, D!None) /\ q.executed = p.executed /\ q.destination = p.destination
  <2>1. Append(p.picked, D!None) \in Seq(Pick(v)) BY <1>1
  <2> HIDE DEF q
  <2> QED BY <1>2, <2>1 DEF PathRecords
<1> HIDE DEF q
<1>4. Len(q.picked) = n + 1 /\ q.picked[n + 1] = D!None /\ \A i \in 1 .. n : q.picked[i] = p.picked[i] BY <1>1, <1>3, AppendIs
<1>5. Along(q.picked, Z, n + 1) BY <1>1, <1>3, AlongMore
<1>6. \A i \in 1 .. n + 1 : q.picked[i] # D!None => i \in 1 .. n BY <1>4
<1>7. Chain(q, n + 1) BY <1>3, <1>4, <1>6 DEF Chain
<1> QED BY <1>3, <1>5, <1>7 DEF q

LEMMA AbsIs == \A x \in Int : D!Abs(x) \in Nat
BY DEF D!Abs

LEMMA DelayIs == ASSUME NEW c, c.start \in Int, NEW v, NEW t \in Drive(v) PROVE D!Delay(c, t) \in Int
BY DEF D!Delay, Drive

LEMMA RunsOn ==
  ASSUME NEW v \in Fleet, NEW n \in Nat, NEW Z, Apart(Z, v, n + 1), NEW p \in PathRecords(v), Along(p.picked, Z, n), Chain(p, n),
         NEW c, c.start \in Int, NEW t \in Z[n + 1], D!Follows(p, c, t)
  PROVE  /\ D!Run(p, c, t) \in PathRecords(v) /\ D!Run(p, c, t).picked = Append(p.picked, t)
         /\ Along(D!Run(p, c, t).picked, Z, n + 1) /\ Chain(D!Run(p, c, t), n + 1)
<1> DEFINE q == D!Run(p, c, t)
<1>0. n + 1 \in 1 .. n + 1 OBVIOUS
<1>1. t \in Drive(v) /\ Whole(t) /\ t.departure < t.destination /\ t \in Pick(v) BY <1>0 DEF Apart, Pick
<1>2. t.vehicle \in Nat /\ t.origin \in Nat /\ t.departure \in Nat /\ t.destination \in Nat /\ t # D!None
  <2>1. t.vehicle = v /\ v \in Nat /\ t # D!None BY <1>1, NoneIs
  <2> QED BY <1>1, <2>1 DEF Drive, Whole
<1>3. p.picked \in Seq(Pick(v)) /\ Len(p.picked) = n /\ p.executed \in Nat /\ p.delay \in Int /\ p.cost \in Int
      /\ p.destination \in Nat \union {-1} /\ p.used \in SUBSET (Nat \X Nat \X Nat)
  BY DEF Along, PathRecords
<1>4. D!Id(t) \in Nat \X Nat \X Nat BY <1>2 DEF D!Id
<1>5. D!Delay(c, t) \in Int BY <1>1, DelayIs
<1>6. D!Abs(IF p.executed = 0 THEN D!Delay(c, t) ELSE D!Delay(c, t) - p.delay) \in Nat
  <2>1. (IF p.executed = 0 THEN D!Delay(c, t) ELSE D!Delay(c, t) - p.delay) \in Int BY <1>3, <1>5
  <2> QED BY <2>1, AbsIs
<1>7. /\ q.picked = Append(p.picked, t) /\ q.destination = t.destination /\ q.executed = p.executed + 1
  BY DEF D!Run
<1>8. q \in PathRecords(v)
  <2> DEFINE k == p.cost + D!Abs(IF p.executed = 0 THEN D!Delay(c, t) ELSE D!Delay(c, t) - p.delay)
  <2>1. k \in Int BY <1>3, <1>6
  <2>2. q = [picked |-> Append(p.picked, t), used |-> p.used \union {D!Id(t)}, destination |-> t.destination,
             last |-> t, delay |-> D!Delay(c, t), executed |-> p.executed + 1, cost |-> k]
    BY DEF D!Run
  <2>3. Append(p.picked, t) \in Seq(Pick(v)) /\ p.used \union {D!Id(t)} \in SUBSET (Nat \X Nat \X Nat) BY <1>1, <1>3, <1>4, SMTT(30)
  <2> HIDE DEF q, k
  <2> QED BY <1>1, <1>2, <1>3, <1>5, <2>1, <2>2, <2>3, SMTT(30) DEF PathRecords
<1> HIDE DEF q
<1>9. Len(q.picked) = n + 1 /\ q.picked[n + 1] = t /\ \A i \in 1 .. n : q.picked[i] = p.picked[i] BY <1>1, <1>3, <1>7, AppendIs
<1>10. Along(q.picked, Z, n + 1) BY <1>1, <1>3, <1>7, AlongMore
<1>11. \A i \in 1 .. n : p.picked[i] # D!None => p.picked[i].destination < t.departure /\ p.picked[i].destination \in Nat
  <2> SUFFICES ASSUME NEW i \in 1 .. n, p.picked[i] # D!None
               PROVE  p.picked[i].destination < t.departure /\ p.picked[i].destination \in Nat
    OBVIOUS
  <2>1. p.executed > 0 /\ p.picked[i].destination <= p.destination BY DEF Chain
  <2>2. t.departure > p.destination BY <2>1 DEF D!Follows
  <2>3. p.picked[i] \in Z[i] /\ i \in 1 .. n + 1 BY DEF Along
  <2>4. p.picked[i].destination \in Nat BY <2>3 DEF Apart, Drive, Whole
  <2> QED BY <1>2, <1>3, <2>1, <2>2, <2>4
<1>12. \A i, j \in 1 .. n + 1 :
         i < j /\ q.picked[i] # D!None /\ q.picked[j] # D!None => q.picked[i].destination < q.picked[j].departure
  <2> SUFFICES ASSUME NEW i \in 1 .. n + 1, NEW j \in 1 .. n + 1, i < j, q.picked[i] # D!None, q.picked[j] # D!None
               PROVE  q.picked[i].destination < q.picked[j].departure
    OBVIOUS
  <2>1. i \in 1 .. n OBVIOUS
  <2>2. CASE j = n + 1 BY <1>9, <1>11, <2>1, <2>2
  <2>3. CASE j # n + 1
    <3>1. j \in 1 .. n BY <2>3
    <3> QED BY <1>9, <2>1, <3>1 DEF Chain
  <2> QED BY <2>2, <2>3
<1>13. \A i \in 1 .. n + 1 : q.picked[i] # D!None => q.executed > 0 /\ q.picked[i].destination <= q.destination
  <2> SUFFICES ASSUME NEW i \in 1 .. n + 1, q.picked[i] # D!None
               PROVE  q.executed > 0 /\ q.picked[i].destination <= q.destination
    OBVIOUS
  <2>1. q.executed > 0 BY <1>3, <1>7
  <2>2. CASE i = n + 1 BY <1>2, <1>7, <1>9, <2>1, <2>2
  <2>3. CASE i # n + 1
    <3>1. i \in 1 .. n BY <2>3
    <3>2. p.picked[i].destination < t.departure /\ p.picked[i].destination \in Nat BY <1>9, <1>11, <3>1
    <3> QED BY <1>1, <1>2, <1>7, <1>9, <2>1, <3>1, <3>2
  <2> QED BY <2>2, <2>3
<1> QED BY <1>7, <1>8, <1>10, <1>12, <1>13 DEF q, Chain

LEMMA GrownIs ==
  ASSUME NEW v \in Fleet, NEW n \in Nat, NEW Z, Apart(Z, v, n + 1), NEW P, Paths(P, Z, v, n), NEW c, c.start \in Int
  PROVE  Paths(D!Grown(P, c, Z[n + 1]), Z, v, n + 1)
<1> DEFINE F(p) == {t \in Z[n + 1] : D!Follows(p, c, t)}
           R(p) == {D!Run(p, c, t) : t \in F(p)}
           A == {D!Pass(p) : p \in P}
           B == UNION {R(p) : p \in P}
           U == A \union B
           G == {p \in U : \A q \in U \ {p} : D!SameKey(p, q) => D!Better(p, q)}
<1>0. n + 1 \in Nat /\ n + 1 \in 1 .. n + 1 OBVIOUS
<1>1. D!Grown(P, c, Z[n + 1]) = G BY DEF D!Grown
<1>2. \A p \in P : p \in PathRecords(v) /\ Along(p.picked, Z, n) /\ Chain(p, n) /\ p.picked \in Seq(Pick(v)) /\ Len(p.picked) = n
  BY PathIs DEF Paths, PathSet, Along
<1>3. \A x \in U : \E p \in P : \E t \in Pick(v) :
        /\ x.picked = Append(p.picked, t)
        /\ (t = D!None /\ x = D!Pass(p)) \/ (t # D!None /\ x = D!Run(p, c, t))
        /\ x \in PathRecords(v) /\ Along(x.picked, Z, n + 1) /\ Chain(x, n + 1)
  <2> SUFFICES ASSUME NEW x \in U
               PROVE  \E p \in P : \E t \in Pick(v) :
                        /\ x.picked = Append(p.picked, t)
                        /\ (t = D!None /\ x = D!Pass(p)) \/ (t # D!None /\ x = D!Run(p, c, t))
                        /\ x \in PathRecords(v) /\ Along(x.picked, Z, n + 1) /\ Chain(x, n + 1)
    OBVIOUS
  <2>1. CASE x \in A
    <3>1. PICK p \in P : x = D!Pass(p) BY <2>1
    <3>2. D!None \in Pick(v) BY DEF Pick
    <3> QED BY <1>2, <3>1, <3>2, PassIs
  <2>2. CASE x \in B
    <3>1. PICK p \in P : \E t \in F(p) : x = D!Run(p, c, t) BY <2>2
    <3>2. PICK t \in Z[n + 1] : D!Follows(p, c, t) /\ x = D!Run(p, c, t) BY <3>1
    <3>3. t \in Drive(v) BY <1>0 DEF Apart
    <3>4. t \in Pick(v) /\ t # D!None BY <3>3, NoneIs DEF Pick
    <3> QED BY <1>2, <3>2, <3>4, RunsOn
  <2> QED BY <2>1, <2>2
<1>4. ASSUME NEW x \in U, NEW y \in U, x.picked = y.picked PROVE x = y
  <2> HIDE DEF U
  <2>1. PICK p \in P, t \in Pick(v) :
          x.picked = Append(p.picked, t) /\ ((t = D!None /\ x = D!Pass(p)) \/ (t # D!None /\ x = D!Run(p, c, t)))
    BY <1>3
  <2>2. PICK q \in P, u \in Pick(v) :
          y.picked = Append(q.picked, u) /\ ((u = D!None /\ y = D!Pass(q)) \/ (u # D!None /\ y = D!Run(q, c, u)))
    BY <1>3
  <2>3. p.picked = q.picked /\ t = u
    <3>1. Append(p.picked, t) = Append(q.picked, u) BY <1>4, <2>1, <2>2
    <3>2. p.picked \in Seq(Pick(v)) /\ q.picked \in Seq(Pick(v)) /\ Len(p.picked) = n /\ Len(q.picked) = n BY <1>2
    <3> QED BY <3>1, <3>2, AppendTells
  <2>4. p = q BY <2>3 DEF Paths, PathSet
  <2> QED BY <2>1, <2>2, <2>3, <2>4
<1>5. PathSet(U, Z, v, n + 1)
  <2> HIDE DEF U
  <2> QED BY <1>3, <1>4 DEF PathSet
<1>6. IsFiniteSet(U)
  <2>1. IsFiniteSet(A)
    <3> DEFINE f == [p \in P |-> D!Pass(p)]
    <3>1. A = {f[p] : p \in P} OBVIOUS
    <3> HIDE DEF f, A
    <3> QED BY <3>1, FiniteImage DEF Paths
  <2>2. ASSUME NEW p \in P PROVE IsFiniteSet(R(p))
    <3> DEFINE f == [t \in F(p) |-> D!Run(p, c, t)]
    <3>1. IsFiniteSet(F(p))
      <4>1. F(p) \subseteq Z[n + 1] /\ IsFiniteSet(Z[n + 1]) BY <1>0 DEF Apart
      <4> HIDE DEF F
      <4> QED BY <4>1, FS_Subset
    <3>2. R(p) = {f[t] : t \in F(p)} OBVIOUS
    <3> HIDE DEF f, F, R
    <3> QED BY <3>1, <3>2, FiniteImage
  <2>3. IsFiniteSet(B)
    <3> DEFINE f == [p \in P |-> R(p)]
               X == {f[p] : p \in P}
    <3>1. B = UNION X
      <4> HIDE DEF R
      <4> QED OBVIOUS
    <3>2. \A x \in X : IsFiniteSet(x)
      <4> HIDE DEF R
      <4> QED BY <2>2
    <3>3. IsFiniteSet(X)
      <4> HIDE DEF f
      <4> QED BY FiniteImage DEF Paths
    <3> HIDE DEF X, B
    <3> QED BY <3>1, <3>2, <3>3, FS_UNION
  <2> HIDE DEF A, B
  <2> QED BY <2>1, <2>3, FS_Union
<1>7. U # {} BY DEF Paths
<1> HIDE DEF U
<1>8. D!Best(U) \in U /\ \A q \in U \ {D!Best(U)} : D!Better(D!Best(U), q) BY <1>0, <1>5, <1>6, <1>7, BestIs
<1>9. D!Best(U) \in G BY <1>8
<1>10. G \subseteq U OBVIOUS
<1>11. IsFiniteSet(G) BY <1>6, <1>10, FS_Subset
<1>12. PathSet(G, Z, v, n + 1) BY <1>5, <1>10 DEF PathSet
<1>13. \A p \in G : Chain(p, n + 1) BY <1>3, <1>10
<1> HIDE DEF G
<1> QED BY <1>1, <1>9, <1>11, <1>12, <1>13 DEF Paths

\* Kept's order of the leaders.
Lateness(p) == IF p.executed = 0 THEN 1000 ELSE D!Abs(p.delay)
Punctual(p, q) == Lateness(p) < Lateness(q) \/ (Lateness(p) = Lateness(q) /\ D!Better(p, q))
PunctualIn(P) == {x \in P \X P : Punctual(x[1], x[2])}

LEMMA PunctualOrders ==
  ASSUME NEW v \in Fleet, NEW n \in Nat, NEW Z, Apart(Z, v, n), NEW P, PathSet(P, Z, v, n)
  PROVE  StrictOrder(PunctualIn(P), P)
<1>1. \A p \in P : Lateness(p) \in Nat
  <2> SUFFICES ASSUME NEW p \in P PROVE Lateness(p) \in Nat OBVIOUS
  <2>1. p.delay \in Int BY PathIs DEF PathSet
  <2> QED BY <2>1, AbsIs DEF Lateness
<1>2. StrictOrder(BetterIn(P), P) BY BetterOrders
<1>3. \A p, q \in P : D!Better(p, q) <=> <<p, q>> \in BetterIn(P) BY DEF BetterIn
<1>4. \A p, q \in P : <<p, q>> \in PunctualIn(P) <=> Punctual(p, q) BY DEF PunctualIn
<1>5. ASSUME NEW p \in P PROVE <<p, p>> \notin PunctualIn(P)
  <2>1. ~D!Better(p, p) BY <1>2, <1>3 DEF StrictOrder
  <2> QED BY <1>1, <1>4, <2>1 DEF Punctual
<1>6. ASSUME NEW p \in P, NEW q \in P, NEW r \in P, <<p, q>> \in PunctualIn(P), <<q, r>> \in PunctualIn(P)
      PROVE  <<p, r>> \in PunctualIn(P)
  <2>1. D!Better(p, q) /\ D!Better(q, r) => D!Better(p, r) BY <1>2, <1>3 DEF StrictOrder
  <2>2. Punctual(p, q) /\ Punctual(q, r) BY <1>4, <1>6
  <2>3. Lateness(p) \in Nat /\ Lateness(q) \in Nat /\ Lateness(r) \in Nat BY <1>1
  <2> QED BY <1>4, <2>1, <2>2, <2>3 DEF Punctual
<1>7. ASSUME NEW p \in P, NEW q \in P, p # q PROVE <<p, q>> \in PunctualIn(P) \/ <<q, p>> \in PunctualIn(P)
  <2>1. D!Better(p, q) \/ D!Better(q, p) BY <1>2, <1>3, <1>7 DEF StrictOrder
  <2>2. Lateness(p) \in Nat /\ Lateness(q) \in Nat BY <1>1
  <2> QED BY <1>4, <2>1, <2>2 DEF Punctual
<1> QED BY <1>5, <1>6, <1>7 DEF StrictOrder

LEMMA PathSubset ==
  ASSUME NEW Z, NEW v, NEW n, NEW P, PathSet(P, Z, v, n), NEW S, S \subseteq P PROVE PathSet(S, Z, v, n)
BY DEF PathSet

LEMMA KeptIs ==
  ASSUME NEW v \in Fleet, NEW n \in Nat, NEW Z, Apart(Z, v, n), NEW P, Paths(P, Z, v, n)
  PROVE  Paths(D!Kept(P), Z, v, n) /\ Cardinality(D!Kept(P)) <= PathLimit
<1> DEFINE L == {p \in P : \A q \in P \ {p} : q.delay = p.delay /\ (q.executed > 0 <=> p.executed > 0) => D!Better(p, q)}
           V == {p \in L : D!Cardinality({q \in L : Punctual(q, p)}) < DiverseStates}
           O == P \ V
           W == {p \in O : D!Cardinality({q \in O : D!Better(q, p)}) < PathLimit - D!Cardinality(V)}
<1>1. D!Kept(P) = V \union W BY DEF D!Kept, Punctual, Lateness
<1>2. L \subseteq P /\ V \subseteq P /\ O \subseteq P /\ W \subseteq O OBVIOUS
<1>3. IsFiniteSet(P) /\ P # {} /\ PathSet(P, Z, v, n) BY DEF Paths
<1>4. IsFiniteSet(L) /\ IsFiniteSet(O) /\ IsFiniteSet(V) /\ IsFiniteSet(W)
  <2> HIDE DEF L, O, V, W
  <2>1. IsFiniteSet(L) /\ IsFiniteSet(O) /\ IsFiniteSet(V) BY <1>2, <1>3, FS_Subset
  <2> QED BY <1>2, <2>1, FS_Subset
<1>5. StrictOrder(PunctualIn(L), L) /\ StrictOrder(BetterIn(O), O)
  <2>1. PathSet(L, Z, v, n) /\ PathSet(O, Z, v, n) BY <1>2, <1>3, PathSubset
  <2> HIDE DEF L, O
  <2> QED BY <2>1, PunctualOrders, BetterOrders
<1>6. V = {p \in L : Cardinality(AheadOf(PunctualIn(L), L, p)) < DiverseStates}
  <2>1. ASSUME NEW p \in L PROVE AheadOf(PunctualIn(L), L, p) = {q \in L : Punctual(q, p)}
    <3> HIDE DEF L
    <3> QED BY DEF AheadOf, PunctualIn
  <2> HIDE DEF L
  <2> QED BY <2>1, DutySize
<1>7. IsFiniteSet(V) /\ Cardinality(V) <= DiverseStates
  <2> HIDE DEF L
  <2>1. DiverseStates \in Nat BY DutyConstants
  <2> HIDE DEF V
  <2> QED BY <1>4, <1>5, <1>6, <2>1, FewAhead
<1>8. W = {p \in O : Cardinality(AheadOf(BetterIn(O), O, p)) < PathLimit - Cardinality(V)}
  <2>1. ASSUME NEW p \in O PROVE AheadOf(BetterIn(O), O, p) = {q \in O : D!Better(q, p)}
    <3> HIDE DEF O
    <3> QED BY DEF AheadOf, BetterIn
  <2> HIDE DEF O, V
  <2> QED BY <2>1, DutySize
<1>9. Cardinality(V) \in Nat /\ PathLimit - Cardinality(V) \in Nat
  <2>1. Cardinality(V) \in Nat
    <3> HIDE DEF V
    <3> QED BY <1>7, FS_CardinalityType
  <2> HIDE DEF V
  <2> QED BY <1>7, <2>1, DutyConstants
<1>10. Cardinality(W) <= PathLimit - Cardinality(V)
  <2> HIDE DEF O, V, W
  <2> QED BY <1>4, <1>5, <1>8, <1>9, FewAhead
<1>11. IsFiniteSet(V \union W) /\ Cardinality(V \union W) <= PathLimit
  <2> HIDE DEF V, W
  <2>1. /\ IsFiniteSet(V \union W)
        /\ Cardinality(V \union W) = Cardinality(V) + Cardinality(W) - Cardinality(V \intersect W)
    BY <1>4, FS_Union
  <2>2. V \intersect W \subseteq V OBVIOUS
  <2>3. IsFiniteSet(V \intersect W) BY <1>4, <2>2, FS_Subset
  <2>4. Cardinality(V \intersect W) \in Nat /\ Cardinality(W) \in Nat BY <1>4, <2>3, FS_CardinalityType
  <2>5. PathLimit \in Nat BY DutyConstants
  <2> QED BY <1>9, <1>10, <2>1, <2>4, <2>5
<1>12. V \union W # {}
  <2> SUFFICES ASSUME V = {} PROVE W # {} OBVIOUS
  <2>1. O = P /\ Cardinality(V) = 0 BY FS_EmptySet
  <2> HIDE DEF O, V, W
  <2>2. PICK p \in O : \A q \in O \ {p} : <<p, q>> \in BetterIn(O) BY <1>3, <1>4, <1>5, <2>1, FirstIs
  <2>3. AheadOf(BetterIn(O), O, p) = {}
    <3> SUFFICES ASSUME NEW q \in O, <<q, p>> \in BetterIn(O) PROVE FALSE BY DEF AheadOf
    <3>1. CASE q = p BY <1>5, <3>1 DEF StrictOrder
    <3>2. CASE q # p
      <4>1. <<p, q>> \in BetterIn(O) BY <2>2, <3>2
      <4>2. <<p, p>> \in BetterIn(O) BY <1>5, <4>1 DEF StrictOrder
      <4> QED BY <1>5, <4>2 DEF StrictOrder
    <3> QED BY <3>1, <3>2
  <2>4. PathLimit \in Nat /\ PathLimit # 0 BY DutyConstants
  <2>5. Cardinality(AheadOf(BetterIn(O), O, p)) < PathLimit - Cardinality(V) BY <2>1, <2>3, <2>4, FS_EmptySet
  <2> QED BY <1>8, <2>5
<1>13. V \union W \subseteq P BY <1>2
<1> HIDE DEF L, V, O, W
<1>14. PathSet(V \union W, Z, v, n) BY <1>3, <1>13, PathSubset
<1>15. \A p \in V \union W : Chain(p, n) BY <1>13 DEF Paths
<1> QED BY <1>1, <1>11, <1>12, <1>14, <1>15 DEF Paths

\* The candidates of a vehicle for the courses of a duty.
CandOf(cs, e, v) ==
  [i \in 1 .. Len(cs) |-> {t \in e[i].traversals : Whole(t) /\ t.vehicle = v /\ D!Plausible(cs[i], t)}]

LEMMA CandidatesAre ==
  ASSUME NEW i \in 1 .. Len(v1.duties[v2]), NEW v
  PROVE  D!Candidates(i, v) = CandOf(v1.duties[v2], v3, v)[i]
BY DEF D!Candidates, D!Complete, D!Courses, CandOf, Whole, D!NoTime

LEMMA CandidatesApart ==
  ASSUME NEW cs, NEW e, \A i \in 1 .. Len(cs) : Found(e[i].traversals), NEW v \in Fleet
  PROVE  Apart(CandOf(cs, e, v), v, Len(cs))
<1> SUFFICES ASSUME NEW i \in 1 .. Len(cs)
             PROVE  LET X == CandOf(cs, e, v)[i]
                    IN  /\ IsFiniteSet(X) /\ X \subseteq Drive(v)
                        /\ \A t \in X : Whole(t) /\ t.departure < t.destination
                        /\ \A t, u \in X : t.origin = u.origin => t = u
  BY DEF Apart
<1> DEFINE X == CandOf(cs, e, v)[i]
           Y == {t \in e[i].traversals : t.vehicle = v}
<1>1. X \subseteq Y /\ \A t \in X : Whole(t) BY DEF CandOf
<1>2. Drives(Y, v) BY DEF Found
<1> HIDE DEF X, Y
<1>3. IsFiniteSet(X) BY <1>1, <1>2, FS_Subset DEF Drives
<1>4. X \subseteq Drive(v) /\ \A t \in X : t.departure < t.destination BY <1>1, <1>2 DEF Drives
<1>5. \A t, u \in X : t.origin = u.origin => t = u BY <1>1, <1>2 DEF Drives
<1> QED BY <1>1, <1>3, <1>4, <1>5 DEF X

LEMMA StartIs ==
  ASSUME NEW v \in Fleet, NEW Z
  PROVE  Paths({D!Start}, Z, v, 0) /\ {D!Start} # {} /\ Cardinality({D!Start}) <= PathLimit
<1>1. D!Start \in PathRecords(v) /\ D!Start.picked = <<>> BY DEF D!Start, PathRecords, Pick, D!NoTime
<1>2. \A i \in 1 .. 0 : FALSE OBVIOUS
<1>3. Along(<<>>, Z, 0) BY <1>2 DEF Along
<1>4. Chain(D!Start, 0) BY <1>2 DEF Chain
<1>5. PathSet({D!Start}, Z, v, 0) BY <1>1, <1>3 DEF PathSet
<1>6. IsFiniteSet({D!Start}) /\ Cardinality({D!Start}) = 1 BY FS_Singleton
<1>7. 1 <= PathLimit BY DutyConstants
<1> QED BY <1>4, <1>5, <1>6, <1>7 DEF Paths

--------------------------------------------------------------------------------
(* The winner of a duty: S is the states.                                         *)

BestPathOf(S, v) == D!Best(S[v])
RunnersOf(S) == {v \in Fleet : BestPathOf(S, v).executed > 0}
AheadIn(S, v, w) ==
  \/ BestPathOf(S, v).executed > BestPathOf(S, w).executed
  \/ BestPathOf(S, v).executed = BestPathOf(S, w).executed
     /\ (BestPathOf(S, v).cost < BestPathOf(S, w).cost \/ (BestPathOf(S, v).cost = BestPathOf(S, w).cost /\ v < w))
WinnerOf(S) == CHOOSE v \in RunnersOf(S) : \A w \in RunnersOf(S) \ {v} : AheadIn(S, v, w)

LEMMA RunnersAre == D!Runners = RunnersOf(v4) /\ D!Winner = WinnerOf(v4) /\ \A v : D!PathOf(v) = BestPathOf(v4, v)
<1>1. \A v : D!PathOf(v) = BestPathOf(v4, v) BY DEF D!PathOf, BestPathOf
<1>2. D!Runners = RunnersOf(v4) BY <1>1 DEF D!Runners, RunnersOf
<1>3. \A v, w : D!Ahead(v, w) <=> AheadIn(v4, v, w) BY <1>1 DEF D!Ahead, AheadIn
<1>4. D!Winner = WinnerOf(v4) BY <1>2, <1>3 DEF D!Winner, WinnerOf
<1> QED BY <1>1, <1>2, <1>4

\* Every vehicle's best path is one of its paths.
Searched(S, cs, e, n) == \A v \in Fleet : Paths(S[v], CandOf(cs, e, v), v, n)

LEMMA BestPathIs ==
  ASSUME NEW cs, NEW e, Len(cs) \in Nat, \A i \in 1 .. Len(cs) : Found(e[i].traversals), NEW S, Searched(S, cs, e, Len(cs)),
         NEW v \in Fleet
  PROVE  /\ BestPathOf(S, v) \in S[v] /\ BestPathOf(S, v) \in PathRecords(v)
         /\ Along(BestPathOf(S, v).picked, CandOf(cs, e, v), Len(cs)) /\ Chain(BestPathOf(S, v), Len(cs))
<1>1. Paths(S[v], CandOf(cs, e, v), v, Len(cs)) BY DEF Searched
<1>2. Apart(CandOf(cs, e, v), v, Len(cs)) BY CandidatesApart
<1>3. D!Best(S[v]) \in S[v] BY <1>1, <1>2, BestIs DEF Paths
<1> QED BY <1>1, <1>3 DEF Paths, PathSet, BestPathOf

LEMMA WinnerIs ==
  ASSUME NEW S, \A v \in Fleet : BestPathOf(S, v).executed \in Nat /\ BestPathOf(S, v).cost \in Int, RunnersOf(S) # {}
  PROVE  /\ WinnerOf(S) \in RunnersOf(S) /\ WinnerOf(S) \in Fleet
         /\ \A w \in RunnersOf(S) \ {WinnerOf(S)} : AheadIn(S, WinnerOf(S), w)
<1> DEFINE R == {x \in RunnersOf(S) \X RunnersOf(S) : AheadIn(S, x[1], x[2])}
<1>1. RunnersOf(S) \subseteq Fleet /\ IsFiniteSet(RunnersOf(S))
  <2>1. RunnersOf(S) \subseteq Fleet BY DEF RunnersOf
  <2> QED BY <2>1, DutyConstants, FS_Subset
<1>2. \A v \in RunnersOf(S) : BestPathOf(S, v).executed \in Nat /\ BestPathOf(S, v).cost \in Int /\ v \in Int
  <2>1. \A v \in Fleet : v \in Nat BY DutyConstants
  <2> QED BY <1>1, <2>1
<1>3. \A v, w \in RunnersOf(S) : <<v, w>> \in R <=> AheadIn(S, v, w) OBVIOUS
<1> HIDE DEF R
<1>4. ASSUME NEW v \in RunnersOf(S) PROVE <<v, v>> \notin R BY <1>2, <1>3 DEF AheadIn
<1>5. ASSUME NEW v \in RunnersOf(S), NEW w \in RunnersOf(S), NEW x \in RunnersOf(S), <<v, w>> \in R, <<w, x>> \in R
      PROVE  <<v, x>> \in R
  <2>1. AheadIn(S, v, w) /\ AheadIn(S, w, x) BY <1>3, <1>5
  <2>2. /\ BestPathOf(S, v).executed \in Nat /\ BestPathOf(S, v).cost \in Int /\ v \in Int
        /\ BestPathOf(S, w).executed \in Nat /\ BestPathOf(S, w).cost \in Int /\ w \in Int
        /\ BestPathOf(S, x).executed \in Nat /\ BestPathOf(S, x).cost \in Int /\ x \in Int
    BY <1>2
  <2>3. AheadIn(S, v, x) BY <2>1, <2>2 DEF AheadIn
  <2> QED BY <1>3, <2>3
<1>6. ASSUME NEW v \in RunnersOf(S), NEW w \in RunnersOf(S), v # w PROVE <<v, w>> \in R \/ <<w, v>> \in R
  <2>1. /\ BestPathOf(S, v).executed \in Nat /\ BestPathOf(S, v).cost \in Int /\ v \in Int
        /\ BestPathOf(S, w).executed \in Nat /\ BestPathOf(S, w).cost \in Int /\ w \in Int
    BY <1>2
  <2>2. AheadIn(S, v, w) \/ AheadIn(S, w, v) BY <1>6, <2>1 DEF AheadIn
  <2> QED BY <1>3, <2>2
<1>7. StrictOrder(R, RunnersOf(S)) BY <1>4, <1>5, <1>6 DEF StrictOrder
<1>8. PICK v \in RunnersOf(S) : \A w \in RunnersOf(S) \ {v} : <<v, w>> \in R BY <1>1, <1>7, FirstIs
<1>9. \A w \in RunnersOf(S) \ {v} : AheadIn(S, v, w) BY <1>3, <1>8
<1>10. WinnerOf(S) \in RunnersOf(S) /\ \A w \in RunnersOf(S) \ {WinnerOf(S)} : AheadIn(S, WinnerOf(S), w)
  BY <1>9 DEF WinnerOf
<1> QED BY <1>1, <1>10

--------------------------------------------------------------------------------
(* The traversals selected for the courses of a duty: of one vehicle, one after     *)
(* the other.                                                                      *)

Turns(s, Z, v, n) ==
  /\ s \in [1 .. n -> Pick(v)]
  /\ \A i \in 1 .. n : s[i] = D!None \/ s[i] \in Z[i]
  /\ \A i, j \in 1 .. n : i < j /\ s[i] # D!None /\ s[j] # D!None => s[i].destination < s[j].departure

LEMMA TurnIs ==
  ASSUME NEW v \in Fleet, NEW n \in Nat, NEW Z, Apart(Z, v, n), NEW i \in 1 .. n, NEW t \in Z[i]
  PROVE  /\ t \in Drive(v) /\ t \in Pick(v) /\ t # D!None /\ t.vehicle = v /\ t.departure < t.destination
         /\ t.origin \in Nat /\ t.departure \in Nat /\ t.destination \in Nat
<1>1. t \in Drive(v) /\ Whole(t) /\ t.departure < t.destination BY DEF Apart
<1>2. t # D!None /\ t.vehicle = v BY <1>1, NoneIs
<1> QED BY <1>1, <1>2 DEF Pick, Drive, Whole

\* A traversal between its neighbours.
LEMMA TurnTaken ==
  ASSUME NEW v \in Fleet, NEW n \in Nat, NEW Z, Apart(Z, v, n), NEW s, Turns(s, Z, v, n), NEW i \in 1 .. n, s[i] = D!None,
         NEW t \in Z[i],
         \A j \in 1 .. n : j < i /\ s[j] # D!None => s[j].destination < t.departure,
         \A j \in 1 .. n : j > i /\ s[j] # D!None => t.destination < s[j].departure
  PROVE  Turns([s EXCEPT ![i] = t], Z, v, n)
<1> DEFINE r == [s EXCEPT ![i] = t]
<1>1. s \in [1 .. n -> Pick(v)] /\ t \in Pick(v) BY TurnIs DEF Turns
<1>2. r \in [1 .. n -> Pick(v)] /\ r[i] = t /\ \A j \in 1 .. n : j # i => r[j] = s[j] BY <1>1
<1> HIDE DEF r
<1>3. \A j \in 1 .. n : r[j] = D!None \/ r[j] \in Z[j]
  <2> SUFFICES ASSUME NEW j \in 1 .. n PROVE r[j] = D!None \/ r[j] \in Z[j] OBVIOUS
  <2> QED BY <1>2 DEF Turns
<1>4. ASSUME NEW j \in 1 .. n, NEW k \in 1 .. n, j < k, r[j] # D!None, r[k] # D!None
      PROVE  r[j].destination < r[k].departure
  <2>1. CASE j = i
    <3>1. k # i /\ k > i BY <1>4, <2>1
    <3>2. r[k] = s[k] /\ r[j] = t BY <1>2, <2>1, <3>1
    <3> QED BY <1>4, <3>1, <3>2
  <2>2. CASE k = i
    <3>1. j # i /\ j < i BY <1>4, <2>2
    <3>2. r[j] = s[j] /\ r[k] = t BY <1>2, <2>2, <3>1
    <3> QED BY <1>4, <3>1, <3>2
  <2>3. CASE j # i /\ k # i
    <3>1. r[j] = s[j] /\ r[k] = s[k] BY <1>2, <2>3
    <3> QED BY <1>4, <3>1 DEF Turns
  <2> QED BY <2>1, <2>2, <2>3
<1>5. Turns(r, Z, v, n) BY <1>2, <1>3, <1>4 DEF Turns
<1> QED BY <1>5 DEF r

LEMMA GreatestIs ==
  ASSUME NEW n \in Nat, NEW S, S \subseteq 1 .. n, S # {}
  PROVE  D!MaxOf(S) \in S /\ \A x \in S : x <= D!MaxOf(S)
<1>1. PICK x \in S : \A y \in S : y <= x BY GreatestOf
<1>2. \A y \in S : x >= y BY <1>1
<1>3. D!MaxOf(S) \in S /\ \A y \in S : D!MaxOf(S) >= y BY <1>2 DEF D!MaxOf
<1>4. \A y \in S : y \in Int BY <1>1
<1> QED BY <1>3, <1>4

\* Of the selection s of a duty with the courses cs, the evidence e and the states S.
SelectedOk(s, cs, e, S) ==
  /\ DOMAIN s = 1 .. Len(cs)
  /\ RunnersOf(S) = {} => \A i \in 1 .. Len(cs) : s[i] = D!None
  /\ RunnersOf(S) # {} => Turns(s, CandOf(cs, e, WinnerOf(S)), WinnerOf(S), Len(cs))

\* What the duty under way and its evidence are, and what is selected.
DutySelects ==
  /\ v1 \in DutyInputs /\ v2 \in 1 .. Len(v1.duties)
  /\ \A i \in 1 .. Len(v1.duties[v2]) : Found(v3[i].traversals)
  /\ Searched(v4, v1.duties[v2], v3, Len(v1.duties[v2]))
  /\ SelectedOk(v7, v1.duties[v2], v3, v4)

LEMMA CoursesAre ==
  ASSUME v1 \in DutyInputs, v2 \in 1 .. Len(v1.duties)
  PROVE  /\ v1.duties[v2] \in Seq(CourseRecords) /\ Len(v1.duties[v2]) \in Nat /\ D!Courses = v1.duties[v2]
         /\ DOMAIN D!Courses = 1 .. Len(v1.duties[v2])
         /\ \A i \in 1 .. Len(v1.duties[v2]) : v1.duties[v2][i].start \in Int
<1>1. v1.duties[v2] \in Seq(CourseRecords) BY DayIs
<1>2. D!Courses = v1.duties[v2] BY DEF D!Courses
<1>3. \A i \in 1 .. Len(v1.duties[v2]) : v1.duties[v2][i] \in CourseRecords BY <1>1
<1>4. \A i \in 1 .. Len(v1.duties[v2]) : v1.duties[v2][i].start \in Int BY <1>3 DEF CourseRecords
<1> QED BY <1>1, <1>2, <1>4

LEMMA WinnerHere ==
  ASSUME DutySelects, RunnersOf(v4) # {}
  PROVE  LET cs == v1.duties[v2]  w == WinnerOf(v4)  Z == CandOf(cs, v3, w)
         IN  /\ w \in RunnersOf(v4) /\ w \in Fleet /\ \A v \in RunnersOf(v4) \ {w} : AheadIn(v4, w, v)
             /\ Apart(Z, w, Len(cs)) /\ Turns(v7, Z, w, Len(cs))
             /\ \A i \in 1 .. Len(cs) : D!Candidates(i, D!Winner) = Z[i]
<1> DEFINE cs == v1.duties[v2]
           n == Len(cs)
<1>1. n \in Nat BY CoursesAre DEF DutySelects
<1>2. ASSUME NEW v \in Fleet PROVE BestPathOf(v4, v).executed \in Nat /\ BestPathOf(v4, v).cost \in Int
  <2>1. BestPathOf(v4, v) \in PathRecords(v) BY <1>1, BestPathIs DEF DutySelects
  <2> QED BY <2>1, PathIs
<1>3. /\ WinnerOf(v4) \in RunnersOf(v4) /\ WinnerOf(v4) \in Fleet
      /\ \A v \in RunnersOf(v4) \ {WinnerOf(v4)} : AheadIn(v4, WinnerOf(v4), v)
  BY <1>2, WinnerIs
<1>4. Apart(CandOf(cs, v3, WinnerOf(v4)), WinnerOf(v4), n) BY <1>3, CandidatesApart DEF DutySelects
<1>5. Turns(v7, CandOf(cs, v3, WinnerOf(v4)), WinnerOf(v4), n) BY DEF DutySelects, SelectedOk
<1>6. \A i \in 1 .. n : D!Candidates(i, D!Winner) = CandOf(cs, v3, WinnerOf(v4))[i] BY RunnersAre, CandidatesAre
<1> QED BY <1>3, <1>4, <1>5, <1>6

\* The neighbours of a gap.
LEMMA NeighboursAre ==
  ASSUME DutySelects, RunnersOf(v4) # {}, NEW i \in 1 .. Len(v1.duties[v2])
  PROVE  LET n == Len(v1.duties[v2])
         IN  /\ \A j : j \in D!Preceding(i) <=> j \in 1 .. n /\ j < i /\ v7[j] # D!None
             /\ \A j : j \in D!Following(i) <=> j \in 1 .. n /\ j > i /\ v7[j] # D!None
             /\ D!Preceding(i) # {} => /\ D!MaxOf(D!Preceding(i)) \in D!Preceding(i)
                                       /\ \A j \in D!Preceding(i) : j <= D!MaxOf(D!Preceding(i))
             /\ D!Following(i) # {} => /\ D!MinOf(D!Following(i)) \in D!Following(i)
                                       /\ \A j \in D!Following(i) : D!MinOf(D!Following(i)) <= j
             /\ \A j \in 1 .. n : v7[j] # D!None => D!DelayOf(j) \in Int
<1> DEFINE cs == v1.duties[v2]
           n == Len(cs)
           P == D!Preceding(i)
           F == D!Following(i)
<1>1. n \in Nat /\ D!Courses = cs /\ DOMAIN D!Courses = 1 .. n /\ \A j \in 1 .. n : cs[j].start \in Int
  BY CoursesAre DEF DutySelects
<1>2. \A j : j \in P <=> j \in 1 .. n /\ j < i /\ v7[j] # D!None BY <1>1 DEF D!Preceding, D!Executed
<1>3. \A j : j \in F <=> j \in 1 .. n /\ j > i /\ v7[j] # D!None BY <1>1 DEF D!Following, D!Executed
<1>4. \A j \in 1 .. n : v7[j] # D!None => D!DelayOf(j) \in Int
  <2> SUFFICES ASSUME NEW j \in 1 .. n, v7[j] # D!None PROVE D!DelayOf(j) \in Int OBVIOUS
  <2>0. PICK v \in Fleet : \E W : Apart(W, v, n) /\ Turns(v7, W, v, n) BY WinnerHere
  <2>1. PICK W : Apart(W, v, n) /\ Turns(v7, W, v, n) BY <2>0
  <2>2. v7[j] \in W[j] BY <2>1 DEF Turns
  <2>3. v7[j] \in Drive(v) BY <1>1, <2>1, <2>2, TurnIs
  <2>4. D!Delay(cs[j], v7[j]) \in Int BY <1>1, <2>3, DelayIs
  <2> QED BY <1>1, <2>4 DEF D!DelayOf
<1> HIDE DEF P, F, n
<1>5. P \subseteq 1 .. n /\ F \subseteq Nat BY <1>2, <1>3
<1>6. P # {} => D!MaxOf(P) \in P /\ \A j \in P : j <= D!MaxOf(P) BY <1>1, <1>5, GreatestIs DEF n
<1>7. F # {} => D!MinOf(F) \in F /\ \A j \in F : D!MinOf(F) <= j BY <1>5, LeastIs
<1> QED BY <1>2, <1>3, <1>4, <1>6, <1>7 DEF P, F, n

\* What fits between its neighbours fits between all.
LEMMA FitsBetween ==
  ASSUME DutySelects, RunnersOf(v4) # {}, NEW i \in 1 .. Len(v1.duties[v2]),
         NEW t \in CandOf(v1.duties[v2], v3, WinnerOf(v4))[i], D!Fits(i, t)
  PROVE  /\ \A j \in 1 .. Len(v1.duties[v2]) : j < i /\ v7[j] # D!None => v7[j].destination < t.departure
         /\ \A j \in 1 .. Len(v1.duties[v2]) : j > i /\ v7[j] # D!None => t.destination < v7[j].departure
<1> DEFINE cs == v1.duties[v2]
           n == Len(cs)
           w == WinnerOf(v4)
           Z == CandOf(cs, v3, w)
<1>1. n \in Nat BY CoursesAre DEF DutySelects
<1>2. w \in Fleet /\ Apart(Z, w, n) /\ Turns(v7, Z, w, n) BY WinnerHere
<1> HIDE DEF Z, w
<1>3. t \in Z[i] BY DEF Z, w
<1>4. t.departure \in Nat /\ t.destination \in Nat BY <1>1, <1>2, <1>3, TurnIs
<1>5. ASSUME NEW j \in 1 .. n, v7[j] # D!None
      PROVE  v7[j].departure \in Nat /\ v7[j].destination \in Nat /\ v7[j].departure < v7[j].destination
  <2>1. v7[j] \in Z[j] BY <1>2, <1>5 DEF Turns
  <2> QED BY <1>1, <1>2, <2>1, TurnIs
<1>6. ASSUME NEW j \in 1 .. n, j < i, v7[j] # D!None PROVE v7[j].destination < t.departure
  <2> DEFINE p == D!MaxOf(D!Preceding(i))
  <2>1. j \in D!Preceding(i) BY <1>6, NeighboursAre
  <2>2. p \in D!Preceding(i) /\ j <= p BY <2>1, NeighboursAre
  <2>3. t.departure > v7[p].destination BY <2>1 DEF D!Fits
  <2> HIDE DEF p
  <2>4. p \in 1 .. n /\ v7[p] # D!None BY <2>2, NeighboursAre
  <2>5. v7[p].departure \in Nat /\ v7[p].destination \in Nat /\ v7[p].departure < v7[p].destination BY <1>5, <2>4
  <2>6. v7[j].destination \in Nat BY <1>5, <1>6
  <2>7. CASE j = p BY <1>4, <2>3, <2>5, <2>7
  <2>8. CASE j < p
    <3>1. v7[j].destination < v7[p].departure BY <1>2, <1>6, <2>4, <2>8 DEF Turns
    <3> QED BY <1>4, <2>3, <2>5, <2>6, <3>1
  <2> QED BY <2>2, <2>4, <2>7, <2>8
<1>7. ASSUME NEW j \in 1 .. n, j > i, v7[j] # D!None PROVE t.destination < v7[j].departure
  <2> DEFINE p == D!MinOf(D!Following(i))
  <2>1. j \in D!Following(i) BY <1>7, NeighboursAre
  <2>2. p \in D!Following(i) /\ p <= j BY <2>1, NeighboursAre
  <2>3. t.destination < v7[p].departure BY <2>1 DEF D!Fits
  <2> HIDE DEF p
  <2>4. p \in 1 .. n /\ v7[p] # D!None BY <2>2, NeighboursAre
  <2>5. v7[p].departure \in Nat /\ v7[p].destination \in Nat /\ v7[p].departure < v7[p].destination BY <1>5, <2>4
  <2>6. v7[j].departure \in Nat BY <1>5, <1>7
  <2>7. CASE j = p BY <2>3, <2>7
  <2>8. CASE p < j
    <3>1. v7[p].destination < v7[j].departure BY <1>2, <1>7, <2>4, <2>8 DEF Turns
    <3> QED BY <1>4, <2>3, <2>5, <2>6, <3>1
  <2> QED BY <2>2, <2>4, <2>7, <2>8
<1> QED BY <1>6, <1>7

\* What a gap is filled with.
LEMMA FillingIs ==
  ASSUME DutySelects, RunnersOf(v4) # {}, NEW i \in 1 .. Len(v1.duties[v2])
  PROVE  \/ D!Filling(i) = v7[i]
         \/ /\ v7[i] = D!None
            /\ D!Filling(i) \in CandOf(v1.duties[v2], v3, WinnerOf(v4))[i] /\ D!Fits(i, D!Filling(i))
<1> DEFINE cs == v1.duties[v2]
           n == Len(cs)
           w == WinnerOf(v4)
           Z == CandOf(cs, v3, w)
           fits == {t \in D!Candidates(i, D!Winner) : D!Fits(i, t)}
           before == IF D!Preceding(i) = {} THEN 0 ELSE D!DelayOf(D!MaxOf(D!Preceding(i)))
           after == IF D!Following(i) = {} THEN 0 ELSE D!DelayOf(D!MinOf(D!Following(i)))
           k == IF D!Preceding(i) # {} /\ D!Following(i) # {} THEN 2 ELSE 1
           Far(t) == D!Abs(k * D!Delay(D!Courses[i], t) - (before + after))
           Closer(t, u) == \/ Far(t) < Far(u)
                           \/ Far(t) = Far(u) /\ (t.origin < u.origin \/ (t.origin = u.origin /\ t.destination < u.destination))
<1>1. /\ n \in Nat /\ w \in Fleet /\ Apart(Z, w, n) /\ Turns(v7, Z, w, n)
      /\ D!Candidates(i, D!Winner) = Z[i]
      /\ D!Courses[i].start \in Int
  <2>1. n \in Nat /\ D!Courses[i].start \in Int BY CoursesAre DEF DutySelects
  <2> QED BY <2>1, WinnerHere
<1>2. D!Filling(i) = IF v7[i] # D!None \/ fits = {} THEN v7[i] ELSE CHOOSE t \in fits : \A u \in fits \ {t} : Closer(t, u)
  BY DEF D!Filling
<1>3. before \in Int
  <2>1. ASSUME D!Preceding(i) # {} PROVE D!DelayOf(D!MaxOf(D!Preceding(i))) \in Int
    <3>1. D!MaxOf(D!Preceding(i)) \in D!Preceding(i) BY <2>1, NeighboursAre
    <3> QED BY <3>1, NeighboursAre
  <2> QED BY <2>1
<1>4. after \in Int
  <2>1. ASSUME D!Following(i) # {} PROVE D!DelayOf(D!MinOf(D!Following(i))) \in Int
    <3>1. D!MinOf(D!Following(i)) \in D!Following(i) BY <2>1, NeighboursAre
    <3> QED BY <3>1, NeighboursAre
  <2> QED BY <2>1
<1>5. k = 1 \/ k = 2 OBVIOUS
<1> HIDE DEF before, after, k
<1>6. ASSUME NEW t \in Drive(w) PROVE Far(t) \in Nat
  <2>1. D!Delay(D!Courses[i], t) \in Int BY <1>1, DelayIs
  <2> HIDE DEF w
  <2> DEFINE d == D!Delay(D!Courses[i], t)
  <2> HIDE DEF d
  <2>2. d \in Int BY <2>1 DEF d
  <2>3. k * d - (before + after) \in Int
    <3>1. CASE k = 1 BY <1>3, <1>4, <2>2, <3>1
    <3>2. CASE k = 2 BY <1>3, <1>4, <2>2, <3>2
    <3> QED BY <1>5, <3>1, <3>2
  <2> QED BY <2>3, AbsIs DEF d
<1> HIDE DEF Far
<1>7. \A t \in fits : t \in Z[i] /\ D!Fits(i, t) BY <1>1
<1>8. \A t \in fits : Far(t) \in Nat /\ t.origin \in Nat /\ t.destination \in Nat
  <2> SUFFICES ASSUME NEW t \in fits PROVE Far(t) \in Nat /\ t.origin \in Nat /\ t.destination \in Nat OBVIOUS
  <2>1. t \in Z[i] BY <1>7
  <2> HIDE DEF Z, fits, w
  <2>2. t \in Drive(w) /\ t.origin \in Nat /\ t.destination \in Nat BY <1>1, <2>1, TurnIs
  <2> QED BY <1>6, <2>2
<1>9. \A t, u \in fits : t.origin = u.origin => t = u
  <2>1. \A t, u \in Z[i] : t.origin = u.origin => t = u BY <1>1 DEF Apart
  <2> QED BY <1>7, <2>1
<1>10. IsFiniteSet(fits)
  <2>1. IsFiniteSet(Z[i]) BY <1>1 DEF Apart
  <2>2. fits \subseteq Z[i] BY <1>7
  <2> QED BY <2>1, <2>2, FS_Subset
<1> HIDE DEF fits, Z, w
<1>11. ASSUME fits # {} PROVE \E t \in fits : \A u \in fits \ {t} : Closer(t, u)
  <2> DEFINE R == {x \in fits \X fits : Closer(x[1], x[2])}
  <2>1. \A t, u \in fits : <<t, u>> \in R <=> Closer(t, u) OBVIOUS
  <2> HIDE DEF R
  <2>2. ASSUME NEW t \in fits PROVE <<t, t>> \notin R BY <1>8, <2>1
  <2>3. ASSUME NEW t \in fits, NEW u \in fits, NEW x \in fits, <<t, u>> \in R, <<u, x>> \in R PROVE <<t, x>> \in R
    <3>1. Closer(t, u) /\ Closer(u, x) BY <2>1, <2>3
    <3>2. /\ Far(t) \in Nat /\ t.origin \in Nat /\ t.destination \in Nat
          /\ Far(u) \in Nat /\ u.origin \in Nat /\ u.destination \in Nat
          /\ Far(x) \in Nat /\ x.origin \in Nat /\ x.destination \in Nat
      BY <1>8
    <3>3. Closer(t, x) BY <3>1, <3>2
    <3> QED BY <2>1, <3>3
  <2>4. ASSUME NEW t \in fits, NEW u \in fits, t # u PROVE <<t, u>> \in R \/ <<u, t>> \in R
    <3>1. t.origin # u.origin BY <1>9, <2>4
    <3>2. /\ Far(t) \in Nat /\ t.origin \in Nat /\ Far(u) \in Nat /\ u.origin \in Nat BY <1>8
    <3>3. Closer(t, u) \/ Closer(u, t) BY <3>1, <3>2
    <3> QED BY <2>1, <3>3
  <2>5. StrictOrder(R, fits) BY <2>2, <2>3, <2>4 DEF StrictOrder
  <2>6. PICK t \in fits : \A u \in fits \ {t} : <<t, u>> \in R BY <1>10, <1>11, <2>5, FirstIs
  <2>7. \A u \in fits \ {t} : Closer(t, u) BY <2>1, <2>6
  <2> QED BY <2>7
<1> HIDE DEF Closer
<1>12. CASE v7[i] # D!None \/ fits = {} BY <1>2, <1>12
<1>13. CASE v7[i] = D!None /\ fits # {}
  <2>1. D!Filling(i) = CHOOSE t \in fits : \A u \in fits \ {t} : Closer(t, u) BY <1>2, <1>13
  <2>2. D!Filling(i) \in fits BY <1>11, <1>13, <2>1
  <2>3. D!Filling(i) \in Z[i] /\ D!Fits(i, D!Filling(i)) BY <1>7, <2>2
  <2> QED BY <1>13, <2>3 DEF Z, w
<1> QED BY <1>12, <1>13

LEMMA FilledIs ==
  ASSUME DutySelects, NEW i \in 1 .. Len(v1.duties[v2])
  PROVE  SelectedOk(IF D!Runners = {} THEN v7 ELSE [v7 EXCEPT ![i] = D!Filling(i)], v1.duties[v2], v3, v4)
<1> DEFINE cs == v1.duties[v2]
           n == Len(cs)
           w == WinnerOf(v4)
           Z == CandOf(cs, v3, w)
           f == D!Filling(i)
<1>1. D!Runners = RunnersOf(v4) BY RunnersAre
<1>2. CASE RunnersOf(v4) = {} BY <1>1, <1>2 DEF DutySelects
<1>3. CASE RunnersOf(v4) # {}
  <2>1. n \in Nat BY CoursesAre DEF DutySelects
  <2>2. w \in Fleet /\ Apart(Z, w, n) /\ Turns(v7, Z, w, n) BY <1>3, WinnerHere
  <2>3. Turns([v7 EXCEPT ![i] = f], Z, w, n)
    <3>1. CASE f = v7[i]
      <4>1. [v7 EXCEPT ![i] = f] = v7 BY <2>2, <3>1 DEF Turns
      <4> QED BY <2>2, <4>1
    <3>2. CASE f # v7[i]
      <4>1. v7[i] = D!None /\ f \in Z[i] /\ D!Fits(i, f) BY <1>3, <3>2, FillingIs
      <4>2. /\ \A j \in 1 .. n : j < i /\ v7[j] # D!None => v7[j].destination < f.departure
            /\ \A j \in 1 .. n : j > i /\ v7[j] # D!None => f.destination < v7[j].departure
        BY <1>3, <4>1, FitsBetween
      <4> HIDE DEF f, Z, w, n
      <4> QED BY <2>1, <2>2, <4>1, <4>2, TurnTaken DEF n
    <3> QED BY <3>1, <3>2
  <2>4. DOMAIN [v7 EXCEPT ![i] = f] = 1 .. n BY DEF DutySelects, SelectedOk
  <2> HIDE DEF f
  <2>5. SelectedOk([v7 EXCEPT ![i] = f], cs, v3, v4) BY <1>3, <2>3, <2>4 DEF SelectedOk
  <2> QED BY <1>1, <1>3, <2>5 DEF f
<1> QED BY <1>2, <1>3

\* The winner's best path is such a selection.
LEMMA ChosenIs ==
  ASSUME v1 \in DutyInputs, v2 \in 1 .. Len(v1.duties), \A i \in 1 .. Len(v1.duties[v2]) : Found(v3[i].traversals),
         Searched(v4, v1.duties[v2], v3, Len(v1.duties[v2]))
  PROVE  SelectedOk(IF D!Runners = {} THEN [i \in DOMAIN D!Courses |-> D!None] ELSE D!PathOf(D!Winner).picked,
                    v1.duties[v2], v3, v4)
<1> DEFINE cs == v1.duties[v2]
           n == Len(cs)
           w == WinnerOf(v4)
           Z == CandOf(cs, v3, w)
           s == BestPathOf(v4, w).picked
<1>1. n \in Nat /\ DOMAIN D!Courses = 1 .. n BY CoursesAre
<1>2. D!Runners = RunnersOf(v4) /\ D!PathOf(D!Winner) = BestPathOf(v4, w) BY RunnersAre
<1>3. CASE RunnersOf(v4) = {}
  <2>1. SelectedOk([i \in 1 .. n |-> D!None], cs, v3, v4) BY <1>3 DEF SelectedOk
  <2> QED BY <1>1, <1>2, <1>3, <2>1
<1>4. CASE RunnersOf(v4) # {}
  <2>1. ASSUME NEW v \in Fleet PROVE BestPathOf(v4, v).executed \in Nat /\ BestPathOf(v4, v).cost \in Int
    <3>1. BestPathOf(v4, v) \in PathRecords(v) BY <1>1, BestPathIs
    <3> QED BY <3>1, PathIs
  <2>2. w \in Fleet BY <1>4, <2>1, WinnerIs
  <2>3. BestPathOf(v4, w) \in PathRecords(w) /\ Along(s, Z, n) /\ Chain(BestPathOf(v4, w), n) BY <1>1, <2>2, BestPathIs
  <2>4. s \in Seq(Pick(w)) /\ Len(s) = n BY <2>3, PathIs DEF Along
  <2>5. s \in [1 .. n -> Pick(w)] /\ DOMAIN s = 1 .. n
    <3> HIDE DEF s
    <3> QED BY <2>4
  <2>6. Turns(s, Z, w, n) BY <2>3, <2>5 DEF Turns, Along, Chain
  <2>7. SelectedOk(s, cs, v3, v4) BY <1>4, <2>5, <2>6 DEF SelectedOk
  <2> QED BY <1>2, <1>4, <2>7
<1> QED BY <1>3, <1>4

--------------------------------------------------------------------------------
(* Outcomes. *)

Statuses == {"vehicle_change_signal", "executed", "uncertain", "short_turned", "missed", "skipped"}
OutcomeRecords ==
  [duty : Nat, course : Nat, status : Statuses, vehicle : Nat, confidence : {"low", "medium", "high"},
   from : Nat \union {-1}, to : Nat \union {-1}]

\* An executed course has an owner and its interval.
Owned(o) == o.status = "executed" => o.vehicle \in Fleet /\ o.from \in Nat /\ o.to \in Nat /\ o.from < o.to

\* The outcomes of the first d duties.
OutcomesOk(O, d) ==
  /\ O \in Seq(OutcomeRecords)
  /\ \A k \in 1 .. Len(O) : O[k].duty <= d /\ Owned(O[k])
  /\ \A j, k \in 1 .. Len(O) :
       j < k /\ O[j].duty = O[k].duty /\ O[j].status = "executed" /\ O[k].status = "executed"
       => O[j].vehicle = O[k].vehicle /\ O[j].to < O[k].from

LEMMA OutcomeIs ==
  ASSUME DutySelects, NEW i \in 1 .. Len(v1.duties[v2])
  PROVE  /\ D!Outcome(i) \in OutcomeRecords /\ D!Outcome(i).duty = v2 /\ D!Outcome(i).course = i
         /\ D!Outcome(i).status = "executed"
            => /\ RunnersOf(v4) # {} /\ ~D!Ambiguous(i) /\ v7[i] # D!None
               /\ D!Outcome(i).vehicle = WinnerOf(v4)
               /\ D!Outcome(i).from = v7[i].departure /\ D!Outcome(i).to = v7[i].destination
<1> DEFINE cs == v1.duties[v2]
           n == Len(cs)
           w == WinnerOf(v4)
           Z == CandOf(cs, v3, w)
           owner == IF D!Status(i) = "executed" THEN v7[i] ELSE D!None
           conf == IF D!Courses[i].fallback \/ D!Status(i) \in {"vehicle_change_signal", "uncertain"} THEN "low"
                   ELSE IF D!Status(i) = "executed" THEN "high" ELSE "medium"
           from == IF owner = D!None THEN D!NoTime ELSE owner.departure
           to == IF owner = D!None THEN D!NoTime ELSE owner.destination
<1>1. n \in Nat /\ DOMAIN D!Courses = 1 .. n /\ v2 \in Nat BY CoursesAre DEF DutySelects
<1>2. D!Status(i) \in Statuses BY DEF D!Status, Statuses
<1>3. D!Status(i) = "executed" => ~D!Ambiguous(i) /\ v7[i] # D!None BY DEF D!Status, D!Executed
<1>4. v7[i] # D!None
      => /\ RunnersOf(v4) # {} /\ v7[i].vehicle = w /\ w \in Fleet
         /\ v7[i].departure \in Nat /\ v7[i].destination \in Nat
  <2> SUFFICES ASSUME v7[i] # D!None
               PROVE  /\ RunnersOf(v4) # {} /\ v7[i].vehicle = w /\ w \in Fleet
                      /\ v7[i].departure \in Nat /\ v7[i].destination \in Nat
    OBVIOUS
  <2>1. RunnersOf(v4) # {} BY DEF DutySelects, SelectedOk
  <2>2. w \in Fleet /\ Apart(Z, w, n) /\ Turns(v7, Z, w, n) BY <2>1, WinnerHere
  <2>3. v7[i] \in Z[i] BY <2>2 DEF Turns
  <2> HIDE DEF Z, w
  <2> QED BY <1>1, <2>1, <2>2, <2>3, TurnIs
<1>5. owner = D!None \/ (owner = v7[i] /\ v7[i] # D!None /\ D!Status(i) = "executed") OBVIOUS
<1>6. owner.vehicle \in Nat /\ from \in Nat \union {-1} /\ to \in Nat \union {-1}
  <2>1. D!None.vehicle = 0 /\ D!NoTime = -1 BY DEF D!None, D!NoTime
  <2>2. w \in Fleet => w \in Nat BY DutyConstants
  <2> HIDE DEF owner, w
  <2> QED BY <1>4, <1>5, <2>1, <2>2
<1>7. conf \in {"low", "medium", "high"} OBVIOUS
<1>8. D!Outcome(i) = [duty |-> v2, course |-> i, status |-> D!Status(i), vehicle |-> owner.vehicle, confidence |-> conf,
                      from |-> from, to |-> to]
  BY DEF D!Outcome
<1>9. D!Status(i) = "executed" => owner = v7[i] OBVIOUS
<1> HIDE DEF owner, conf, w
<1>10. D!Outcome(i) \in OutcomeRecords
  <2> HIDE DEF from, to
  <2> QED BY <1>1, <1>2, <1>6, <1>7, <1>8 DEF OutcomeRecords
<1>11. D!Outcome(i).status = "executed"
       => owner.vehicle = w /\ from = v7[i].departure /\ to = v7[i].destination
  BY <1>3, <1>4, <1>8, <1>9
<1> HIDE DEF from, to
<1> QED BY <1>3, <1>4, <1>8, <1>10, <1>11 DEF w

\* A duty settled after the others.
LEMMA SettledIs ==
  ASSUME DutySelects, OutcomesOk(v8, v2 - 1)
  PROVE  OutcomesOk(v8 \o [i \in DOMAIN D!Courses |-> D!Outcome(i)], v2)
<1> DEFINE cs == v1.duties[v2]
           n == Len(cs)
           w == WinnerOf(v4)
           Z == CandOf(cs, v3, w)
           m == Len(v8)
           new == [i \in 1 .. n |-> D!Outcome(i)]
           O == v8 \o new
<1>1. n \in Nat /\ DOMAIN D!Courses = 1 .. n /\ v2 \in Nat BY CoursesAre DEF DutySelects
<1>2. v8 \in Seq(OutcomeRecords) /\ m \in Nat BY DEF OutcomesOk
<1>3. new \in Seq(OutcomeRecords) /\ Len(new) = n /\ \A i \in 1 .. n : new[i] = D!Outcome(i)
  <2>1. \A i \in 1 .. n : D!Outcome(i) \in OutcomeRecords BY OutcomeIs
  <2> HIDE DEF n
  <2> QED BY <1>1, <2>1
<1> HIDE DEF new
<1>4. /\ O \in Seq(OutcomeRecords) /\ Len(O) = m + n
      /\ \A k \in 1 .. m : O[k] = v8[k]
      /\ \A k \in 1 .. m + n : k > m => k - m \in 1 .. n /\ O[k] = D!Outcome(k - m)
  <2>1. O \in Seq(OutcomeRecords) /\ Len(O) = m + n BY <1>2, <1>3
  <2>2. \A k \in 1 .. m : O[k] = v8[k] BY <1>2, <1>3
  <2>3. ASSUME NEW k \in 1 .. m + n, k > m PROVE k - m \in 1 .. n /\ O[k] = D!Outcome(k - m)
    <3>1. k - m \in 1 .. n BY <1>1, <1>2, <2>3
    <3>2. O[k] = new[k - m] BY <1>2, <1>3, <2>3, <1>1
    <3> QED BY <1>3, <3>1, <3>2
  <2> QED BY <2>1, <2>2, <2>3
<1> HIDE DEF O
<1>5. ASSUME NEW i \in 1 .. n, D!Outcome(i).status = "executed"
      PROVE  /\ D!Outcome(i).vehicle = w /\ w \in Fleet /\ D!Outcome(i).from = v7[i].departure /\ D!Outcome(i).to = v7[i].destination
             /\ v7[i] # D!None /\ v7[i].departure \in Nat /\ v7[i].destination \in Nat /\ v7[i].departure < v7[i].destination
             /\ Turns(v7, Z, w, n)
  <2>1. /\ RunnersOf(v4) # {} /\ v7[i] # D!None /\ D!Outcome(i).vehicle = w
        /\ D!Outcome(i).from = v7[i].departure /\ D!Outcome(i).to = v7[i].destination
    BY <1>5, OutcomeIs
  <2>2. w \in Fleet /\ Apart(Z, w, n) /\ Turns(v7, Z, w, n) BY <2>1, WinnerHere
  <2>3. v7[i] \in Z[i] BY <2>1, <2>2 DEF Turns
  <2> HIDE DEF Z, w
  <2>4. v7[i].departure \in Nat /\ v7[i].destination \in Nat /\ v7[i].departure < v7[i].destination
    BY <1>1, <2>2, <2>3, TurnIs
  <2> QED BY <2>1, <2>2, <2>4
<1>6. ASSUME NEW k \in 1 .. Len(O) PROVE O[k].duty <= v2 /\ Owned(O[k])
  <2>1. CASE k <= m
    <3>1. k \in 1 .. m /\ O[k] = v8[k] BY <1>2, <1>4, <1>6, <2>1
    <3>2. v8[k].duty <= v2 - 1 /\ Owned(v8[k]) BY <3>1 DEF OutcomesOk
    <3>3. v8[k].duty \in Nat
      <4>1. v8[k] \in OutcomeRecords BY <1>2, <3>1
      <4> QED BY <4>1 DEF OutcomeRecords
    <3> QED BY <1>1, <3>1, <3>2, <3>3
  <2>2. CASE k > m
    <3>1. k - m \in 1 .. n /\ O[k] = D!Outcome(k - m) BY <1>4, <1>6, <2>2
    <3>2. D!Outcome(k - m).duty = v2 BY <3>1, OutcomeIs
    <3>3. Owned(D!Outcome(k - m)) BY <1>5, <3>1 DEF Owned
    <3> QED BY <1>1, <3>1, <3>2, <3>3
  <2> QED BY <1>2, <1>4, <2>1, <2>2
<1>7. ASSUME NEW j \in 1 .. Len(O), NEW k \in 1 .. Len(O), j < k, O[j].duty = O[k].duty,
             O[j].status = "executed", O[k].status = "executed"
      PROVE  O[j].vehicle = O[k].vehicle /\ O[j].to < O[k].from
  <2>1. CASE k <= m
    <3>1. j \in 1 .. m /\ k \in 1 .. m /\ O[j] = v8[j] /\ O[k] = v8[k] BY <1>2, <1>4, <1>7, <2>1
    <3> QED BY <1>7, <3>1 DEF OutcomesOk
  <2>2. CASE j <= m /\ k > m
    <3>1. j \in 1 .. m /\ O[j] = v8[j] BY <1>2, <1>4, <2>2
    <3>2. k - m \in 1 .. n /\ O[k] = D!Outcome(k - m) BY <1>4, <2>2
    <3>3. O[k].duty = v2 BY <3>2, OutcomeIs
    <3>4. O[j].duty <= v2 - 1 BY <3>1 DEF OutcomesOk
    <3> QED BY <1>1, <1>7, <3>3, <3>4
  <2>3. CASE j > m
    <3>1. k > m BY <1>2, <1>4, <1>7, <2>3
    <3> DEFINE a == j - m
               b == k - m
    <3>2. a \in 1 .. n /\ b \in 1 .. n /\ O[j] = D!Outcome(a) /\ O[k] = D!Outcome(b) BY <1>4, <2>3, <3>1
    <3>3. a < b BY <1>2, <1>4, <1>7
    <3> HIDE DEF a, b
    <3>4. /\ O[j].vehicle = w /\ O[j].to = v7[a].destination /\ v7[a] # D!None
          /\ O[k].vehicle = w /\ O[k].from = v7[b].departure /\ v7[b] # D!None
          /\ Turns(v7, Z, w, n)
      BY <1>5, <1>7, <3>2
    <3>5. v7[a].destination < v7[b].departure BY <3>2, <3>3, <3>4 DEF Turns
    <3> QED BY <3>4, <3>5
  <2> QED BY <1>2, <1>4, <2>1, <2>2, <2>3
<1>8. OutcomesOk(O, v2) BY <1>4, <1>6, <1>7 DEF OutcomesOk
<1> QED BY <1>1, <1>8 DEF O, new

\* No other vehicle's path explains as much hardly worse and runs an executed course.
UncontestedIn(O, S, d) ==
  \A k \in 1 .. Len(O) : O[k].duty = d /\ O[k].status = "executed" =>
    ~\E v \in Fleet \ {O[k].vehicle} :
       /\ BestPathOf(S, v).executed >= BestPathOf(S, O[k].vehicle).executed
       /\ BestPathOf(S, v).cost <= BestPathOf(S, O[k].vehicle).cost + TimingTie
       /\ BestPathOf(S, v).picked[O[k].course] # D!None

LEMMA SettledUncontested ==
  ASSUME DutySelects, OutcomesOk(v8, v2 - 1)
  PROVE  UncontestedIn(v8 \o [i \in DOMAIN D!Courses |-> D!Outcome(i)], v4, v2)
<1> DEFINE cs == v1.duties[v2]
           n == Len(cs)
           w == WinnerOf(v4)
           m == Len(v8)
           new == [i \in 1 .. n |-> D!Outcome(i)]
           O == v8 \o new
<1>1. n \in Nat /\ DOMAIN D!Courses = 1 .. n /\ v2 \in Nat BY CoursesAre DEF DutySelects
<1>2. v8 \in Seq(OutcomeRecords) /\ m \in Nat BY DEF OutcomesOk
<1>3. new \in Seq(OutcomeRecords) /\ Len(new) = n /\ \A i \in 1 .. n : new[i] = D!Outcome(i)
  <2>1. \A i \in 1 .. n : D!Outcome(i) \in OutcomeRecords BY OutcomeIs
  <2> HIDE DEF n
  <2> QED BY <1>1, <2>1
<1> HIDE DEF new
<1>4. Len(O) = m + n BY <1>2, <1>3
<1>5. SUFFICES ASSUME NEW k \in 1 .. Len(O), O[k].duty = v2, O[k].status = "executed",
                      NEW v \in Fleet \ {O[k].vehicle},
                      BestPathOf(v4, v).executed >= BestPathOf(v4, O[k].vehicle).executed,
                      BestPathOf(v4, v).cost <= BestPathOf(v4, O[k].vehicle).cost + TimingTie,
                      BestPathOf(v4, v).picked[O[k].course] # D!None
               PROVE  FALSE
  BY <1>1 DEF UncontestedIn, new
<1> DEFINE i == k - m
<1>6. k > m
  <2> SUFFICES ASSUME k <= m PROVE FALSE BY <1>2, <1>4, <1>1
  <2>1. k \in 1 .. m BY <1>2
  <2>2. O[k] = v8[k] BY <1>2, <1>3, <2>1
  <2>3. v8[k].duty <= v2 - 1 BY <2>1 DEF OutcomesOk
  <2> QED BY <1>1, <1>5, <2>2, <2>3
<1>7. i \in 1 .. n BY <1>1, <1>2, <1>4, <1>6
<1>8. O[k] = D!Outcome(i)
  <2>1. O[k] = new[i] BY <1>1, <1>2, <1>3, <1>4, <1>6
  <2> QED BY <1>3, <1>7, <2>1
<1> HIDE DEF O, i
<1>9. RunnersOf(v4) # {} /\ ~D!Ambiguous(i) /\ O[k].vehicle = w /\ O[k].course = i BY <1>5, <1>7, <1>8, OutcomeIs
<1>10. w \in RunnersOf(v4) /\ w \in Fleet /\ \A x \in RunnersOf(v4) \ {w} : AheadIn(v4, w, x) BY <1>9, WinnerHere
<1>11. ASSUME NEW x \in Fleet
       PROVE  /\ BestPathOf(v4, x).executed \in Nat /\ BestPathOf(v4, x).cost \in Int
              /\ \/ BestPathOf(v4, x).picked[i] = D!None
                 \/ BestPathOf(v4, x).picked[i].vehicle = x /\ BestPathOf(v4, x).picked[i] # D!None
  <2>1. BestPathOf(v4, x) \in PathRecords(x) /\ Along(BestPathOf(v4, x).picked, CandOf(cs, v3, x), n)
    BY <1>1, BestPathIs DEF DutySelects
  <2>2. Apart(CandOf(cs, v3, x), x, n) BY CandidatesApart DEF DutySelects
  <2>3. BestPathOf(v4, x).picked[i] = D!None \/ BestPathOf(v4, x).picked[i] \in CandOf(cs, v3, x)[i]
    BY <1>7, <2>1 DEF Along
  <2>4. \A t \in CandOf(cs, v3, x)[i] : t.vehicle = x /\ t # D!None BY <1>1, <1>7, <2>2, TurnIs
  <2>5. BestPathOf(v4, x).executed \in Nat /\ BestPathOf(v4, x).cost \in Int BY <2>1, PathIs
  <2> QED BY <2>3, <2>4, <2>5
<1> HIDE DEF w
<1>12. v # w /\ v \in Fleet BY <1>9
<1>13. BestPathOf(v4, w).executed > 0 BY <1>10 DEF RunnersOf
<1>14. v \in RunnersOf(v4)
  <2>1. BestPathOf(v4, v).executed > 0 BY <1>5, <1>9, <1>10, <1>11, <1>12, <1>13
  <2> QED BY <1>12, <2>1 DEF RunnersOf
<1>15. AheadIn(v4, w, v) BY <1>10, <1>12, <1>14
<1>16. BestPathOf(v4, v).executed = BestPathOf(v4, w).executed
  BY <1>5, <1>9, <1>10, <1>11, <1>12, <1>15 DEF AheadIn
<1>17. BestPathOf(v4, v).cost - BestPathOf(v4, w).cost <= TimingTie
  BY <1>5, <1>9, <1>10, <1>11, <1>12, DutyConstants
<1>18. v \in D!Rivals BY <1>12, <1>14, <1>16, <1>17, RunnersAre DEF D!Rivals, w
<1>19. BestPathOf(v4, v).picked[i] = BestPathOf(v4, w).picked[i]
  BY <1>9, <1>18, RunnersAre DEF D!Ambiguous, w
<1> QED BY <1>5, <1>9, <1>10, <1>11, <1>12, <1>19

--------------------------------------------------------------------------------
(* The sweep over the intervals of a vehicle. *)

\* The elements of a finite set from the first to the last of a strict order.
InOrder(s, R, S) ==
  /\ s \in [1 .. Cardinality(S) -> S]
  /\ \A x \in S : \E i \in 1 .. Cardinality(S) : s[i] = x
  /\ \A i, j \in 1 .. Cardinality(S) : i < j => <<s[i], s[j]>> \in R

LEMMA RankedIs ==
  ASSUME NEW S, IsFiniteSet(S), NEW R, StrictOrder(R, S)
  PROVE  InOrder([i \in 1 .. Cardinality(S) |-> CHOOSE x \in S : Cardinality(AheadOf(R, S, x)) = i - 1], R, S)
<1> DEFINE n == Cardinality(S)
           c(i) == CHOOSE x \in S : Cardinality(AheadOf(R, S, x)) = i - 1
           s == [i \in 1 .. n |-> c(i)]
<1>1. n \in Nat BY FS_CardinalityType
<1>2. ASSUME NEW i \in 1 .. n PROVE c(i) \in S /\ Cardinality(AheadOf(R, S, c(i))) = i - 1
  <2>1. i - 1 \in 0 .. n - 1 BY <1>1
  <2>2. \E x \in S : Cardinality(AheadOf(R, S, x)) = i - 1
    <3> HIDE DEF n
    <3>1. i - 1 \in 0 .. Cardinality(S) - 1 BY <2>1 DEF n
    <3> QED BY <3>1, RankTaken
  <2> QED BY <2>2
<1> HIDE DEF c, n
<1>3. s \in [1 .. n -> S] /\ \A i \in 1 .. n : s[i] = c(i) BY <1>2
<1> HIDE DEF s
<1>4. ASSUME NEW x \in S PROVE \E i \in 1 .. n : s[i] = x
  <2> DEFINE r == Cardinality(AheadOf(R, S, x))
  <2>1. r \in 0 .. n - 1 BY RankIs DEF n
  <2> HIDE DEF r
  <2>2. r + 1 \in 1 .. n /\ (r + 1) - 1 = r BY <1>1, <2>1
  <2>3. c(r + 1) \in S /\ Cardinality(AheadOf(R, S, c(r + 1))) = r BY <1>2, <2>2
  <2>4. c(r + 1) = x BY <2>3, RanksDiffer DEF r
  <2> QED BY <1>3, <2>2, <2>4
<1>5. ASSUME NEW i \in 1 .. n, NEW j \in 1 .. n, i < j PROVE <<s[i], s[j]>> \in R
  <2>1. c(i) \in S /\ c(j) \in S /\ Cardinality(AheadOf(R, S, c(i))) < Cardinality(AheadOf(R, S, c(j)))
    <3>1. i - 1 < j - 1 BY <1>1, <1>5
    <3> QED BY <1>2, <3>1
  <2>2. <<c(i), c(j)>> \in R BY <2>1, RankOrders
  <2> QED BY <1>3, <2>2
<1> QED BY <1>3, <1>4, <1>5 DEF InOrder, s, c, n

\* The executed courses of a vehicle, by their beginning.
SoonerIn(S) == {x \in S \X S : D!Sooner(x[1], x[2])}

LEMMA OwnersAre ==
  ASSUME NEW d, OutcomesOk(v8, d), NEW v
  PROVE  LET S == D!Owners(v)
         IN  /\ S \subseteq 1 .. Len(v8) /\ IsFiniteSet(S) /\ Len(v8) \in Nat
             /\ \A k \in S : v8[k].status = "executed" /\ v8[k].vehicle = v /\ v8[k].from \in Nat /\ v8[k].to \in Nat
                             /\ v8[k].from < v8[k].to
             /\ StrictOrder(SoonerIn(S), S)
<1> DEFINE S == D!Owners(v)
           R == SoonerIn(S)
<1>1. v8 \in Seq(OutcomeRecords) /\ Len(v8) \in Nat /\ DOMAIN v8 = 1 .. Len(v8) BY DEF OutcomesOk
<1>2. S \subseteq 1 .. Len(v8) /\ \A k \in S : v8[k].status = "executed" /\ v8[k].vehicle = v BY <1>1 DEF D!Owners
<1>3. IsFiniteSet(S)
  <2>1. IsFiniteSet(1 .. Len(v8))
    <3>1. 1 \in Int /\ Len(v8) \in Int BY <1>1
    <3> QED BY <3>1, FS_Interval
  <2> QED BY <1>2, <2>1, FS_Subset
<1>4. \A k \in S : v8[k].from \in Nat /\ v8[k].to \in Nat /\ v8[k].from < v8[k].to BY <1>2 DEF OutcomesOk, Owned
<1>5. \A j, k \in S : <<j, k>> \in R <=> D!Sooner(j, k) BY DEF SoonerIn
<1>6. \A k \in S : k \in Nat BY <1>1, <1>2
<1> HIDE DEF S, R
<1>7. ASSUME NEW k \in S PROVE <<k, k>> \notin R
  <2>1. k \in Nat /\ v8[k].from \in Nat /\ v8[k].to \in Nat BY <1>4, <1>6
  <2>2. ~D!Sooner(k, k) BY <2>1 DEF D!Sooner
  <2> QED BY <1>5, <2>2
<1>8. ASSUME NEW j \in S, NEW k \in S, NEW l \in S, <<j, k>> \in R, <<k, l>> \in R PROVE <<j, l>> \in R
  <2>1. /\ j \in Nat /\ v8[j].from \in Nat /\ v8[j].to \in Nat
        /\ k \in Nat /\ v8[k].from \in Nat /\ v8[k].to \in Nat
        /\ l \in Nat /\ v8[l].from \in Nat /\ v8[l].to \in Nat
    BY <1>4, <1>6
  <2>2. D!Sooner(j, k) /\ D!Sooner(k, l) BY <1>5, <1>8
  <2>3. D!Sooner(j, l) BY <2>1, <2>2 DEF D!Sooner
  <2> QED BY <1>5, <2>3
<1>9. ASSUME NEW j \in S, NEW k \in S, j # k PROVE <<j, k>> \in R \/ <<k, j>> \in R
  <2>1. /\ j \in Nat /\ v8[j].from \in Nat /\ v8[j].to \in Nat
        /\ k \in Nat /\ v8[k].from \in Nat /\ v8[k].to \in Nat
    BY <1>4, <1>6
  <2>2. D!Sooner(j, k) \/ D!Sooner(k, j) BY <1>9, <2>1 DEF D!Sooner
  <2> QED BY <1>5, <2>2
<1>10. StrictOrder(R, S) BY <1>7, <1>8, <1>9 DEF StrictOrder
<1> QED BY <1>1, <1>2, <1>3, <1>4, <1>10 DEF S, R

LEMMA SortedIs ==
  ASSUME NEW d, OutcomesOk(v8, d), NEW v
  PROVE  LET s == D!Sorted(D!Owners(v), D!Sooner)  S == D!Owners(v)
         IN  s \in Seq(S) /\ Len(s) = Cardinality(S) /\ InOrder(s, SoonerIn(S), S)
<1> DEFINE S == D!Owners(v)
           T == {x : x \in S}
           R == SoonerIn(S)
           n == Cardinality(S)
           H == 0 .. n
           c(i) == CHOOSE x \in S : Cardinality(AheadOf(R, S, x)) = i - 1
           pick(m) == CHOOSE x \in T : D!Cardinality({y \in T : D!Sooner(y, x)}) = m - 1
           e(f, m) == IF m = 0 THEN <<>> ELSE Append(f[m - 1], pick(m))
           first == CHOOSE f : f = [m \in 0 .. D!Cardinality(T) |-> e(f, m)]
           h == [m \in H |-> [i \in 1 .. m |-> c(i)]]
<1>1. IsFiniteSet(S) /\ StrictOrder(R, S) BY OwnersAre
<1>2. n \in Nat BY <1>1, FS_CardinalityType
<1>3. T = S /\ D!Cardinality(T) = n /\ 0 .. D!Cardinality(T) = H BY DutySize
<1>4. ASSUME NEW m PROVE pick(m) = c(m)
  <2>1. \A x \in S : {y \in S : D!Sooner(y, x)} = AheadOf(R, S, x) BY DEF AheadOf, SoonerIn
  <2>2. \A x \in S : D!Cardinality({y \in S : D!Sooner(y, x)}) = Cardinality(AheadOf(R, S, x)) BY <2>1, DutySize
  <2> HIDE DEF S, R
  <2>3. T = S OBVIOUS
  <2> HIDE DEF T
  <2> QED BY <2>2, <2>3
<1>5. D!Sorted(S, D!Sooner) = first[D!Cardinality(T)] BY DEF D!Sorted
<1>6. InOrder([i \in 1 .. n |-> c(i)], R, S) BY <1>1, RankedIs
<1>7. \A i \in 1 .. n : c(i) \in S
  <2> HIDE DEF c, S, R
  <2>1. [i \in 1 .. n |-> c(i)] \in [1 .. n -> S] BY <1>6 DEF InOrder, n
  <2>2. \A i \in 1 .. n : [l \in 1 .. n |-> c(l)][i] \in S BY <2>1
  <2> QED BY <2>2
<1> HIDE DEF c, pick, S, R, n
<1>8. \A m \in H : [i \in 1 .. m |-> c(i)] = e(h, m)
  <2> SUFFICES ASSUME NEW m \in H PROVE [i \in 1 .. m |-> c(i)] = e(h, m) OBVIOUS
  <2>1. CASE m = 0 BY <2>1
  <2>2. CASE m # 0
    <3>1. m - 1 \in H /\ m \in 1 .. n BY <1>2, <2>2
    <3> DEFINE p == [i \in 1 .. m - 1 |-> c(i)]
    <3>2. h[m - 1] = p BY <3>1
    <3>3. \A i \in 1 .. m - 1 : i \in 1 .. n BY <1>2, <3>1
    <3>4. p \in Seq(S) /\ Len(p) = m - 1 BY <1>7, <3>1, <3>3
    <3>5. c(m) \in S BY <1>7, <3>1
    <3>6. Append(p, c(m)) \in Seq(S) /\ Len(Append(p, c(m))) = m BY <3>4, <3>5, <3>1
    <3>7. \A i \in 1 .. m : Append(p, c(m))[i] = c(i)
      <4> SUFFICES ASSUME NEW i \in 1 .. m PROVE Append(p, c(m))[i] = c(i) OBVIOUS
      <4>1. CASE i = m
        <5> HIDE DEF p
        <5> QED BY <3>4, <3>5, <4>1
      <4>2. CASE i # m
        <5>1. i \in 1 .. m - 1 BY <3>1, <4>2
        <5>2. p[i] = c(i) BY <5>1
        <5> HIDE DEF p
        <5> QED BY <3>4, <3>5, <5>1, <5>2
      <4> QED BY <4>1, <4>2
    <3>8. Append(p, c(m)) = [i \in 1 .. m |-> c(i)]
      <4> DEFINE q == Append(p, c(m))
      <4>1. DOMAIN q = 1 .. m
        <5> HIDE DEF q
        <5>1. q \in Seq(S) /\ Len(q) = m BY <3>6 DEF q
        <5> QED BY <5>1
      <4>2. q = [i \in DOMAIN q |-> q[i]]
        <5> HIDE DEF q
        <5>1. q \in Seq(S) BY <3>6 DEF q
        <5> QED BY <5>1
      <4>3. \A i \in 1 .. m : q[i] = c(i) BY <3>7
      <4> HIDE DEF q
      <4>4. q = [i \in 1 .. m |-> c(i)] BY <4>1, <4>2, <4>3
      <4> QED BY <4>4 DEF q
    <3>9. e(h, m) = Append(h[m - 1], c(m)) BY <1>4, <2>2
    <3> QED BY <3>2, <3>8, <3>9
  <2> QED BY <2>1, <2>2
<1>9. h = [m \in H |-> e(h, m)]
  <2> DEFINE g(m) == [i \in 1 .. m |-> c(i)]
  <2>1. \A m \in H : g(m) = e(h, m) BY <1>8
  <2>2. h = [m \in H |-> g(m)] OBVIOUS
  <2> HIDE DEF e, h, g, H
  <2> QED BY <2>1, <2>2
<1>10. first = [m \in H |-> e(first, m)]
  <2>1. first = CHOOSE f : f = [m \in H |-> e(f, m)] BY <1>3
  <2> HIDE DEF e, h, H, first
  <2> QED BY <1>9, <2>1
<1>11. first[n] = h[n]
  <2>1. first[0] = h[0]
    <3>1. 0 \in H BY <1>2
    <3>2. first[0] = e(first, 0) /\ h[0] = e(h, 0)
      <4> HIDE DEF e, first, h, H
      <4> QED BY <1>9, <1>10, <3>1
    <3> HIDE DEF first, h
    <3> QED BY <3>2
  <2>2. ASSUME NEW i \in 1 .. n, first[i - 1] = h[i - 1] PROVE first[i] = h[i]
    <3>1. i \in H /\ i # 0 BY <1>2
    <3>2. first[i] = e(first, i) /\ h[i] = e(h, i)
      <4> HIDE DEF e, first, h, H
      <4> QED BY <1>9, <1>10, <3>1
    <3> HIDE DEF first, h
    <3> QED BY <2>2, <3>1, <3>2
  <2> HIDE DEF first, h
  <2> QED BY <1>2, <2>1, <2>2, Agree
<1>12. h[n] = [i \in 1 .. n |-> c(i)]
  <2>1. n \in H BY <1>2
  <2> QED BY <2>1
<1> DEFINE s == [i \in 1 .. n |-> c(i)]
<1>13. D!Sorted(S, D!Sooner) = s
  <2> HIDE DEF first, h, s, T
  <2> QED BY <1>3, <1>5, <1>11, <1>12 DEF s
<1>14. s \in Seq(S) /\ Len(s) = n BY <1>2, <1>7
<1> HIDE DEF s
<1> QED BY <1>6, <1>13, <1>14 DEF S, R, n, s

\* Those of P that overlap another one of P.
Clashing(P) == {x \in P : \E y \in P \ {x} : D!Overlap(v8[y], v8[x])}

\* A later interval clashes with those still active.
Swept(P, k, A) ==
  LET active == D!Active(A, v8[k].from)
  IN  /\ active = {j \in P : v8[j].to >= v8[k].from}
      /\ Clashing(P \union {k}) = IF active = {} THEN Clashing(P) ELSE Clashing(P) \union active \union {k}

LEMMA SweepStep ==
  ASSUME NEW S, NEW v,
         \A k \in S : v8[k].vehicle = v /\ v8[k].from \in Nat /\ v8[k].to \in Nat /\ v8[k].from < v8[k].to,
         NEW P, P \subseteq S, NEW k \in S, k \notin P, \A j \in P : v8[j].from <= v8[k].from,
         NEW A, A \subseteq P, \A j \in P : v8[j].to >= v8[k].from => j \in A
  PROVE  Swept(P, k, A)
<1> DEFINE active == D!Active(A, v8[k].from)
<1>1. active = {j \in P : v8[j].to >= v8[k].from} BY DEF D!Active
<1>2. \A j \in P : D!Overlap(v8[j], v8[k]) <=> j \in active
  <2> SUFFICES ASSUME NEW j \in P PROVE D!Overlap(v8[j], v8[k]) <=> v8[j].to >= v8[k].from BY <1>1
  <2>1. /\ v8[j].vehicle = v8[k].vehicle /\ v8[j].from \in Nat /\ v8[j].to \in Nat
        /\ v8[k].from \in Nat /\ v8[k].to \in Nat /\ v8[k].from < v8[k].to /\ v8[j].from <= v8[k].from
    OBVIOUS
  <2> QED BY <2>1 DEF D!Overlap
<1>3. \A j \in P : D!Overlap(v8[k], v8[j]) <=> D!Overlap(v8[j], v8[k])
  <2> SUFFICES ASSUME NEW j \in P PROVE D!Overlap(v8[k], v8[j]) <=> D!Overlap(v8[j], v8[k]) OBVIOUS
  <2> QED BY DEF D!Overlap
<1> HIDE DEF active
<1>4. \A j \in P : j \in Clashing(P \union {k}) <=> j \in Clashing(P) \/ j \in active
  <2> SUFFICES ASSUME NEW j \in P PROVE j \in Clashing(P \union {k}) <=> j \in Clashing(P) \/ j \in active OBVIOUS
  <2>1. j \in Clashing(P \union {k}) <=> \E y \in (P \union {k}) \ {j} : D!Overlap(v8[y], v8[j]) BY DEF Clashing
  <2>2. j \in Clashing(P) <=> \E y \in P \ {j} : D!Overlap(v8[y], v8[j]) BY DEF Clashing
  <2>3. (\E y \in (P \union {k}) \ {j} : D!Overlap(v8[y], v8[j]))
        <=> (\E y \in P \ {j} : D!Overlap(v8[y], v8[j])) \/ D!Overlap(v8[k], v8[j])
    OBVIOUS
  <2> QED BY <1>2, <1>3, <2>1, <2>2, <2>3
<1>5. k \in Clashing(P \union {k}) <=> active # {}
  <2>1. k \in Clashing(P \union {k}) <=> \E y \in (P \union {k}) \ {k} : D!Overlap(v8[y], v8[k]) BY DEF Clashing
  <2>2. (P \union {k}) \ {k} = P OBVIOUS
  <2>3. active \subseteq P BY <1>1
  <2> QED BY <1>2, <2>1, <2>2, <2>3
<1>6. \A x : x \in Clashing(P \union {k}) => x \in P \/ x = k BY DEF Clashing
<1>7. \A x : x \in Clashing(P) \/ x \in active => x \in P BY <1>1 DEF Clashing
<1> HIDE DEF Clashing
<1>8. ASSUME active = {} PROVE Clashing(P \union {k}) = Clashing(P) BY <1>4, <1>5, <1>6, <1>7, <1>8
<1>9. ASSUME active # {} PROVE Clashing(P \union {k}) = Clashing(P) \union active \union {k}
  BY <1>4, <1>5, <1>6, <1>7, <1>9
<1> QED BY <1>1, <1>8, <1>9 DEF Swept, active

LEMMA ConflictsAre ==
  ASSUME NEW d, OutcomesOk(v8, d), NEW v
  PROVE  D!Conflicts(v) = Clashing(D!Owners(v))
<1> DEFINE S == D!Owners(v)
           s == D!Sorted(S, D!Sooner)
           n == Cardinality(S)
           H == 0 .. n
           P(i) == {s[a] : a \in 1 .. i}
           A(i) == {k \in P(i) : k = s[i] \/ v8[k].to >= v8[s[i]].from}
           g(i) == [active |-> A(i), conflicts |-> Clashing(P(i))]
           Sweep(z, k) ==
             LET active == D!Active(z.active, v8[k].from)
             IN  [active |-> active \union {k},
                  conflicts |-> IF active = {} THEN z.conflicts ELSE z.conflicts \union active \union {k}]
           e(f, i) == IF i = 0 THEN [active |-> {}, conflicts |-> {}]
                      ELSE CHOOSE y \in {Sweep(x, s[i]) : x \in {f[i - 1]}} : TRUE
           after == CHOOSE f : f = [i \in 0 .. Len(s) |-> e(f, i)]
           h == [i \in H |-> g(i)]
<1>1. /\ IsFiniteSet(S)
      /\ \A k \in S : v8[k].vehicle = v /\ v8[k].from \in Nat /\ v8[k].to \in Nat /\ v8[k].from < v8[k].to
  BY OwnersAre
<1>2. s \in Seq(S) /\ Len(s) = n /\ InOrder(s, SoonerIn(S), S) BY SortedIs
<1>3. D!Conflicts(v) = after[Len(s)].conflicts BY DEF D!Conflicts, D!Fold
<1>4. n \in Nat BY <1>1, FS_CardinalityType
<1> HIDE DEF s, n
<1>5. /\ \A i \in 1 .. n : s[i] \in S
      /\ \A x \in S : \E i \in 1 .. n : s[i] = x
      /\ \A i, j \in 1 .. n : i < j => D!Sooner(s[i], s[j])
  <2>1. \A i, j \in 1 .. n : i < j => <<s[i], s[j]>> \in SoonerIn(S) BY <1>2 DEF InOrder, n
  <2> HIDE DEF S
  <2> QED BY <1>2, <2>1 DEF InOrder, SoonerIn, n
<1> HIDE DEF S
<1>6. \A i, j \in 1 .. n : i < j => s[i] # s[j] /\ v8[s[i]].from <= v8[s[j]].from
  <2> SUFFICES ASSUME NEW i \in 1 .. n, NEW j \in 1 .. n, i < j PROVE s[i] # s[j] /\ v8[s[i]].from <= v8[s[j]].from OBVIOUS
  <2>1. D!Sooner(s[i], s[j]) /\ s[i] \in S /\ s[j] \in S BY <1>5
  <2>2. v8[s[i]].from \in Nat /\ v8[s[j]].from \in Nat /\ v8[s[i]].to \in Nat BY <1>1, <2>1
  <2>3. s[i] \in Nat
    <3>1. S \subseteq 1 .. Len(v8) /\ Len(v8) \in Nat BY OwnersAre DEF S
    <3>2. s[i] \in 1 .. Len(v8) BY <2>1, <3>1
    <3> QED BY <3>1, <3>2
  <2> QED BY <2>1, <2>2, <2>3 DEF D!Sooner
<1>7. ASSUME NEW i \in 1 .. n PROVE g(i) = Sweep(g(i - 1), s[i])
  <2>1. P(i) = P(i - 1) \union {s[i]}
    <3>1. 1 .. i = (1 .. i - 1) \union {i} BY <1>4
    <3> QED BY <3>1
  <2>2. \A j \in P(i - 1) : \E a \in 1 .. n : j = s[a] /\ a < i
    <3> SUFFICES ASSUME NEW a \in 1 .. i - 1 PROVE a \in 1 .. n /\ a < i OBVIOUS
    <3> QED BY <1>4
  <2>3. P(i - 1) \subseteq S /\ s[i] \in S /\ s[i] \notin P(i - 1) /\ \A j \in P(i - 1) : v8[j].from <= v8[s[i]].from
    BY <1>5, <1>6, <2>2, SMTT(30)
  <2>4. A(i - 1) \subseteq P(i - 1) OBVIOUS
  <2>5. \A j \in P(i - 1) : v8[j].to >= v8[s[i]].from => j \in A(i - 1)
    <3> SUFFICES ASSUME NEW j \in P(i - 1), v8[j].to >= v8[s[i]].from, j # s[i - 1] PROVE v8[j].to >= v8[s[i - 1]].from
      OBVIOUS
    <3>1. PICK a \in 1 .. n : j = s[a] /\ a < i BY <2>2
    <3>2. i - 1 \in 1 .. n BY <1>4, <3>1
    <3>3. v8[s[i - 1]].from <= v8[s[i]].from BY <1>6, <3>2
    <3>4. s[i - 1] \in S /\ j \in S BY <1>5, <2>3, <3>2
    <3>5. v8[s[i - 1]].from \in Nat /\ v8[j].to \in Nat /\ v8[s[i]].from \in Nat BY <1>1, <2>3, <3>4
    <3> QED BY <3>3, <3>5
  <2> DEFINE active == D!Active(A(i - 1), v8[s[i]].from)
  <2> HIDE DEF P, A
  <2>6. /\ active = {j \in P(i - 1) : v8[j].to >= v8[s[i]].from}
        /\ Clashing(P(i - 1) \union {s[i]})
           = IF active = {} THEN Clashing(P(i - 1)) ELSE Clashing(P(i - 1)) \union active \union {s[i]}
    <3> DEFINE p == P(i - 1)
               a == A(i - 1)
               k == s[i]
    <3>1. /\ p \subseteq S /\ k \in S /\ k \notin p /\ \A j \in p : v8[j].from <= v8[k].from
          /\ a \subseteq p /\ \A j \in p : v8[j].to >= v8[k].from => j \in a
      BY <2>3, <2>4, <2>5
    <3> HIDE DEF p, a, k
    <3>2. Swept(p, k, a) BY <1>1, <3>1, SweepStep
    <3> QED BY <3>2 DEF Swept, p, a, k
  <2>7. A(i) = active \union {s[i]}
    <3>1. v8[s[i]].to >= v8[s[i]].from BY <1>1, <2>3
    <3> QED BY <2>1, <2>3, <2>6, <3>1 DEF A
  <2>8. Sweep(g(i - 1), s[i])
        = [active |-> active \union {s[i]},
           conflicts |-> IF active = {} THEN Clashing(P(i - 1)) ELSE Clashing(P(i - 1)) \union active \union {s[i]}]
    OBVIOUS
  <2> HIDE DEF active
  <2> QED BY <2>1, <2>6, <2>7, <2>8
<1>8. g(0) = [active |-> {}, conflicts |-> {}]
  <2>1. P(0) = {} OBVIOUS
  <2> HIDE DEF P
  <2>2. A(0) = {} /\ Clashing(P(0)) = {} BY <2>1 DEF Clashing
  <2> HIDE DEF A
  <2> QED BY <2>2
<1> HIDE DEF g, Sweep
<1>9. \A i \in H : g(i) = e(h, i)
  <2> SUFFICES ASSUME NEW i \in H PROVE g(i) = e(h, i) OBVIOUS
  <2>1. CASE i = 0 BY <1>8, <2>1
  <2>2. CASE i # 0
    <3>1. i \in 1 .. n /\ i - 1 \in H BY <1>4, <2>2
    <3>2. h[i - 1] = g(i - 1) BY <3>1
    <3> HIDE DEF h
    <3>3. g(i) = Sweep(h[i - 1], s[i]) BY <1>7, <3>1, <3>2
    <3>4. e(h, i) = Sweep(h[i - 1], s[i]) BY <2>2
    <3> QED BY <3>3, <3>4
  <2> QED BY <2>1, <2>2
<1>10. h = [i \in H |-> e(h, i)]
  <2> HIDE DEF e, H
  <2>1. \A i \in H : h[i] = e(h, i) BY <1>9
  <2>2. h = [i \in H |-> g(i)] OBVIOUS
  <2> QED BY <1>9, <2>2
<1>11. after = [i \in H |-> e(after, i)]
  <2>1. after = CHOOSE f : f = [i \in H |-> e(f, i)] BY <1>2
  <2> HIDE DEF e, h, H, after
  <2> QED BY <1>10, <2>1
<1>12. after[n] = h[n]
  <2>1. after[0] = h[0]
    <3>1. 0 \in H BY <1>4
    <3>2. after[0] = e(after, 0) /\ h[0] = e(h, 0)
      <4> HIDE DEF e, after, h, H
      <4> QED BY <1>10, <1>11, <3>1
    <3> HIDE DEF after, h
    <3> QED BY <3>2
  <2>2. ASSUME NEW i \in 1 .. n, after[i - 1] = h[i - 1] PROVE after[i] = h[i]
    <3>1. i \in H /\ i # 0 BY <1>4
    <3>2. after[i] = e(after, i) /\ h[i] = e(h, i)
      <4> HIDE DEF e, after, h, H
      <4> QED BY <1>10, <1>11, <3>1
    <3> HIDE DEF after, h
    <3> QED BY <2>2, <3>1, <3>2
  <2> HIDE DEF after, h
  <2> QED BY <1>4, <2>1, <2>2, Agree
<1>13. h[n] = g(n)
  <2>1. n \in H BY <1>4
  <2> QED BY <2>1
<1>14. P(n) = S BY <1>5
<1>15. D!Conflicts(v) = Clashing(P(n))
  <2> HIDE DEF after, h, P
  <2>1. D!Conflicts(v) = g(n).conflicts BY <1>2, <1>3, <1>12, <1>13
  <2> QED BY <2>1 DEF g
<1> HIDE DEF P
<1> QED BY <1>14, <1>15 DEF S

\* What the sweeps give up.
LEMMA GivenUp ==
  ASSUME NEW d, OutcomesOk(v8, d)
  PROVE  LET K == UNION {D!Conflicts(v) : v \in Fleet}
         IN  /\ K \subseteq 1 .. Len(v8)
             /\ \A k \in 1 .. Len(v8) :
                  k \in K <=> /\ v8[k].status = "executed"
                              /\ \E j \in 1 .. Len(v8) \ {k} : v8[j].status = "executed" /\ D!Overlap(v8[j], v8[k])
<1> DEFINE K == UNION {D!Conflicts(v) : v \in Fleet}
           O == 1 .. Len(v8)
<1>1. DOMAIN v8 = O /\ \A k \in O : v8[k].status = "executed" => v8[k].vehicle \in Fleet BY DEF OutcomesOk, Owned
<1>2. \A v : D!Conflicts(v) = Clashing(D!Owners(v)) BY ConflictsAre
<1>3. \A v, k : k \in D!Owners(v) <=> k \in O /\ v8[k].status = "executed" /\ v8[k].vehicle = v BY <1>1 DEF D!Owners
<1>4. \A v, k : k \in D!Conflicts(v)
                <=> k \in D!Owners(v) /\ \E j \in D!Owners(v) \ {k} : D!Overlap(v8[j], v8[k])
  BY <1>2 DEF Clashing
<1> HIDE DEF O
<1>5. K \subseteq O BY <1>3, <1>4
<1>6. ASSUME NEW k \in O, k \in K
      PROVE  v8[k].status = "executed" /\ \E j \in O \ {k} : v8[j].status = "executed" /\ D!Overlap(v8[j], v8[k])
  <2>1. PICK v \in Fleet : k \in D!Conflicts(v) BY <1>6
  <2> QED BY <1>3, <1>4, <2>1
<1>7. ASSUME NEW k \in O, v8[k].status = "executed", NEW j \in O \ {k}, v8[j].status = "executed", D!Overlap(v8[j], v8[k])
      PROVE  k \in K
  <2> DEFINE v == v8[k].vehicle
  <2>1. v \in Fleet /\ v8[j].vehicle = v BY <1>1, <1>7 DEF D!Overlap
  <2> HIDE DEF v
  <2>2. k \in D!Owners(v) /\ j \in D!Owners(v) BY <1>3, <1>7, <2>1 DEF v
  <2>3. k \in D!Conflicts(v) BY <1>4, <1>7, <2>2
  <2> QED BY <2>1, <2>3
<1> HIDE DEF K
<1>8. \A k \in O : k \in K <=> /\ v8[k].status = "executed"
                               /\ \E j \in O \ {k} : v8[j].status = "executed" /\ D!Overlap(v8[j], v8[k])
  BY <1>6, <1>7
<1> QED BY <1>5, <1>8 DEF K, O

LEMMA ResolvedAre ==
  ASSUME NEW d, OutcomesOk(v8, d)
  PROVE  /\ D!Resolved \in Seq(OutcomeRecords) /\ Len(D!Resolved) = Len(v8)
         /\ \A k \in 1 .. Len(v8) :
              \/ D!Resolved[k] = v8[k]
                 /\ ~(/\ v8[k].status = "executed"
                      /\ \E j \in 1 .. Len(v8) \ {k} : v8[j].status = "executed" /\ D!Overlap(v8[j], v8[k]))
              \/ /\ D!Resolved[k].status = "uncertain" /\ D!Resolved[k].duty = v8[k].duty
                 /\ v8[k].status = "executed"
                 /\ \E j \in 1 .. Len(v8) \ {k} : v8[j].status = "executed" /\ D!Overlap(v8[j], v8[k])
<1> DEFINE K == UNION {D!Conflicts(v) : v \in Fleet}
           n == Len(v8)
           y(k) == [v8[k] EXCEPT !.status = "uncertain", !.confidence = "low", !.vehicle = 0, !.from = D!NoTime, !.to = D!NoTime]
           r(k) == IF k \in K THEN y(k) ELSE v8[k]
           hit(k) == /\ v8[k].status = "executed"
                     /\ \E j \in 1 .. n \ {k} : v8[j].status = "executed" /\ D!Overlap(v8[j], v8[k])
<1>1. v8 \in Seq(OutcomeRecords) /\ n \in Nat /\ DOMAIN v8 = 1 .. n /\ \A k \in 1 .. n : v8[k] \in OutcomeRecords
  BY DEF OutcomesOk
<1>2. D!Resolved = [k \in 1 .. n |-> r(k)] BY <1>1 DEF D!Resolved
<1>3. \A k \in 1 .. n : k \in K <=> hit(k) BY GivenUp
<1>4. \A o \in OutcomeRecords :
        LET z == [o EXCEPT !.status = "uncertain", !.confidence = "low", !.vehicle = 0, !.from = D!NoTime, !.to = D!NoTime]
        IN  z \in OutcomeRecords /\ z.status = "uncertain" /\ z.duty = o.duty
  <2> SUFFICES ASSUME NEW o \in OutcomeRecords
               PROVE  LET z == [o EXCEPT !.status = "uncertain", !.confidence = "low", !.vehicle = 0, !.from = D!NoTime, !.to = D!NoTime]
                      IN  z \in OutcomeRecords /\ z.status = "uncertain" /\ z.duty = o.duty
    OBVIOUS
  <2>1. "uncertain" \in Statuses /\ D!NoTime = -1 BY DEF Statuses, D!NoTime
  <2> QED BY <2>1 DEF OutcomeRecords
<1>5. \A k \in 1 .. n : y(k) \in OutcomeRecords /\ y(k).status = "uncertain" /\ y(k).duty = v8[k].duty BY <1>1, <1>4
<1> HIDE DEF K, y, hit, n
<1>6. \A k \in 1 .. n : r(k) \in OutcomeRecords BY <1>1, <1>5
<1>7. \A k \in 1 .. n :
        \/ r(k) = v8[k] /\ ~hit(k)
        \/ r(k).status = "uncertain" /\ r(k).duty = v8[k].duty /\ hit(k)
  BY <1>3, <1>5
<1> HIDE DEF r
<1>8. D!Resolved \in Seq(OutcomeRecords) /\ Len(D!Resolved) = n /\ \A k \in 1 .. n : D!Resolved[k] = r(k)
  BY <1>1, <1>2, <1>6
<1> QED BY <1>7, <1>8 DEF hit, n

LEMMA ClashesAre == ASSUME NEW d, OutcomesOk(v8, d) PROVE D!ClashesYield
<1> DEFINE n == Len(v8)
<1>1. DOMAIN v8 = 1 .. n BY DEF OutcomesOk
<1>2. SUFFICES ASSUME NEW k \in 1 .. n, v8[k].status = "executed"
               PROVE  D!Resolved[k] # v8[k]
                      <=> \E j \in 1 .. n \ {k} : v8[j].status = "executed" /\ D!Overlap(v8[j], v8[k])
  BY <1>1 DEF D!ClashesYield
<1>3. \/ D!Resolved[k] = v8[k] /\ ~\E j \in 1 .. n \ {k} : v8[j].status = "executed" /\ D!Overlap(v8[j], v8[k])
      \/ D!Resolved[k].status = "uncertain" /\ \E j \in 1 .. n \ {k} : v8[j].status = "executed" /\ D!Overlap(v8[j], v8[k])
  BY <1>2, ResolvedAre
<1> HIDE DEF n
<1>4. D!Resolved[k].status = "uncertain" => D!Resolved[k] # v8[k] BY <1>2
<1> QED BY <1>3, <1>4

\* No moment of a vehicle is owned twice.
OnceIn(O) ==
  \A j, k \in 1 .. Len(O) : j # k /\ O[j].status = "executed" /\ O[k].status = "executed" => ~D!Overlap(O[j], O[k])

LEMMA ResolvedOnce == ASSUME NEW d, OutcomesOk(v8, d) PROVE OutcomesOk(D!Resolved, d) /\ OnceIn(D!Resolved)
<1> DEFINE n == Len(v8)
           r == D!Resolved
<1>1. r \in Seq(OutcomeRecords) /\ Len(r) = n BY ResolvedAre
<1>2. ASSUME NEW k \in 1 .. n
      PROVE  /\ r[k].duty = v8[k].duty
             /\ r[k].status = "executed"
                => /\ r[k] = v8[k]
                   /\ ~\E j \in 1 .. n \ {k} : v8[j].status = "executed" /\ D!Overlap(v8[j], v8[k])
  <2> HIDE DEF r
  <2> QED BY ResolvedAre DEF r
<1> HIDE DEF r
<1>3. \A k \in 1 .. n : r[k].duty <= d /\ Owned(r[k])
  <2> SUFFICES ASSUME NEW k \in 1 .. n PROVE r[k].duty <= d /\ Owned(r[k]) OBVIOUS
  <2>1. v8[k].duty <= d /\ Owned(v8[k]) BY DEF OutcomesOk
  <2>2. r[k].status # "executed" => Owned(r[k]) BY DEF Owned
  <2>3. r[k].status = "executed" => Owned(r[k]) BY <1>2, <2>1
  <2> QED BY <1>2, <2>1, <2>2, <2>3
<1>4. ASSUME NEW j \in 1 .. n, NEW k \in 1 .. n, j < k, r[j].duty = r[k].duty, r[j].status = "executed", r[k].status = "executed"
      PROVE  r[j].vehicle = r[k].vehicle /\ r[j].to < r[k].from
  <2>1. r[j] = v8[j] /\ r[k] = v8[k] BY <1>2, <1>4
  <2> QED BY <1>4, <2>1 DEF OutcomesOk
<1>5. OutcomesOk(r, d) BY <1>1, <1>3, <1>4 DEF OutcomesOk
<1>6. ASSUME NEW j \in 1 .. n, NEW k \in 1 .. n, j # k, r[j].status = "executed", r[k].status = "executed"
      PROVE  ~D!Overlap(r[j], r[k])
  <2>1. r[j] = v8[j] /\ r[k] = v8[k] /\ j \in 1 .. n \ {k} BY <1>2, <1>6
  <2>2. v8[j].status = "executed" BY <1>6, <2>1
  <2>3. ~D!Overlap(v8[j], v8[k]) BY <1>2, <1>6, <2>1, <2>2
  <2> QED BY <2>1, <2>3
<1>7. OnceIn(r) BY <1>1, <1>6 DEF OnceIn
<1> QED BY <1>5, <1>7 DEF r

--------------------------------------------------------------------------------
(* The invariant of DutyOwnership. *)

DutyInv ==
  /\ v1 \in DutyInputs /\ v2 \in 1 .. Len(v1.duties)
  /\ v9 \in {"evidence", "paths", "fill", "settled", "done"}
  /\ v9 = "evidence" => v4 = [v \in Fleet |-> {D!Start}] /\ v5 = 0
  /\ v9 \in {"paths", "fill"} =>
       /\ \A i \in 1 .. Len(v1.duties[v2]) : Found(v3[i].traversals)
       /\ v5 \in 0 .. Len(v1.duties[v2])
       /\ Searched(v4, v1.duties[v2], v3, IF v9 = "paths" THEN v5 ELSE Len(v1.duties[v2]))
  /\ v9 = "fill" => SelectedOk(v7, v1.duties[v2], v3, v4)
  /\ OutcomesOk(v8, IF v9 \in {"settled", "done"} THEN v2 ELSE v2 - 1)
  /\ v9 = "settled" => UncontestedIn(v8, v4, v2)
  /\ v9 = "done" => OnceIn(v8)

LEMMA DutyInitially == D!Init => DutyInv
<1> SUFFICES ASSUME D!Init PROVE DutyInv OBVIOUS
<1>1. /\ v1 \in DutyInputs /\ v2 = 1 /\ v4 = [v \in Fleet |-> {D!Start}] /\ v5 = 0 /\ v8 = <<>> /\ v9 = "evidence"
  BY DEF D!Init
<1>2. v1.duties \in Seq(Seq(CourseRecords)) /\ v1.duties # <<>> BY <1>1, DayIs
<1>3. v2 \in 1 .. Len(v1.duties) BY <1>1, <1>2
<1>4. OutcomesOk(v8, v2 - 1)
  <2>1. v8 \in Seq(OutcomeRecords) /\ Len(v8) = 0 BY <1>1
  <2>2. 1 .. Len(v8) = {} BY <2>1
  <2> QED BY <2>1, <2>2 DEF OutcomesOk
<1> QED BY <1>1, <1>3, <1>4 DEF DutyInv

LEMMA DutyEvidence == ASSUME DutyInv, D!ExtractEvidence PROVE DutyInv'
<1> DEFINE cs == v1.duties[v2]
           n == Len(cs)
           e == [i \in 1 .. n |-> D!Evidence(i)]
<1>1. v1 \in DutyInputs /\ v2 \in 1 .. Len(v1.duties) BY DEF DutyInv
<1>2. n \in Nat /\ DOMAIN D!Courses = 1 .. n BY <1>1, CoursesAre
<1>3. /\ v9 = "evidence" /\ v9' = "paths" /\ v3' = <<>> \o e
      /\ UNCHANGED <<v1, v2, v4, v5, v6, v7, v8>>
  BY <1>2 DEF D!ExtractEvidence
<1>4. \A i \in 1 .. n : v3'[i] = D!Evidence(i)
  <2>1. DOMAIN e = 1 .. n /\ \A i \in 1 .. n : e[i] = D!Evidence(i) OBVIOUS
  <2> HIDE DEF e
  <2>2. Len(e) = n BY <1>2, <2>1
  <2>3. \A i \in 1 .. n : (<<>> \o e)[i] = e[i] BY <1>2, <2>2
  <2> QED BY <1>3, <2>1, <2>3
<1>5. \A i \in 1 .. n : Found(v3'[i].traversals) BY <1>1, <1>4, EvidenceIs
<1>6. v4 = [v \in Fleet |-> {D!Start}] /\ v5 = 0 /\ OutcomesOk(v8, v2 - 1) BY <1>3 DEF DutyInv
<1>7. Searched(v4, cs, v3', 0)
  <2> SUFFICES ASSUME NEW v \in Fleet PROVE Paths(v4[v], CandOf(cs, v3', v), v, 0) BY DEF Searched
  <2>1. v4[v] = {D!Start} BY <1>6
  <2> QED BY <2>1, StartIs
<1>8. 0 \in 0 .. n BY <1>2
<1> QED BY <1>1, <1>3, <1>5, <1>6, <1>7, <1>8 DEF DutyInv

LEMMA DutyAligns == ASSUME DutyInv, D!AlignCourse PROVE DutyInv'
<1> DEFINE cs == v1.duties[v2]
           n == Len(cs)
           i == v5 + 1
           G(v) == D!Grown(v4[v], D!Courses[i], D!Candidates(i, v))
           grown == [v \in Fleet |-> G(v)]
<1>1. /\ v9 = "paths" /\ v9' = "paths" /\ v5 < Len(D!Courses) /\ v5' = i
      /\ v4' = [v \in Fleet |-> {p : p \in D!Kept(grown[v])}]
      /\ UNCHANGED <<v1, v2, v3, v7, v8>>
  BY DEF D!AlignCourse
<1>2. v1 \in DutyInputs /\ v2 \in 1 .. Len(v1.duties) BY DEF DutyInv
<1>3. /\ n \in Nat /\ D!Courses = cs /\ \A j \in 1 .. n : cs[j].start \in Int BY <1>2, CoursesAre
<1>4. /\ \A j \in 1 .. n : Found(v3[j].traversals)
      /\ v5 \in 0 .. n /\ Searched(v4, cs, v3, v5) /\ OutcomesOk(v8, v2 - 1)
  BY <1>1 DEF DutyInv
<1>5. i \in 1 .. n /\ i \in 0 .. n BY <1>1, <1>3, <1>4
<1> HIDE DEF grown, cs
<1>6. ASSUME NEW v \in Fleet PROVE Paths(v4'[v], CandOf(cs, v3, v), v, i)
  <2> DEFINE Z == CandOf(cs, v3, v)
  <2>1. Apart(Z, v, n) BY <1>4, CandidatesApart DEF cs
  <2>2. Apart(Z, v, v5 + 1)
    <3>1. \A j \in 1 .. v5 + 1 : j \in 1 .. n BY <1>3, <1>4, <1>5
    <3> QED BY <2>1, <3>1 DEF Apart
  <2>3. D!Candidates(i, v) = Z[i] BY <1>5, CandidatesAre DEF cs
  <2>4. Paths(v4[v], Z, v, v5) BY <1>4 DEF Searched
  <2>5. D!Courses[i].start \in Int /\ v5 \in Nat BY <1>3, <1>4, <1>5
  <2> HIDE DEF Z
  <2>6. Paths(D!Grown(v4[v], D!Courses[i], Z[v5 + 1]), Z, v, v5 + 1) BY <2>2, <2>4, <2>5, GrownIs
  <2>7. grown[v] = G(v) BY DEF grown
  <2>8. Paths(grown[v], Z, v, i) BY <2>3, <2>6, <2>7
  <2>9. Paths(D!Kept(grown[v]), Z, v, i) BY <1>5, <2>2, <2>8, KeptIs
  <2>10. v4'[v] = D!Kept(grown[v]) BY <1>1
  <2> QED BY <2>9, <2>10 DEF Z
<1>7. Searched(v4', cs, v3, i) BY <1>6 DEF Searched
<1> HIDE DEF i
<1> QED BY <1>1, <1>2, <1>4, <1>5, <1>7 DEF DutyInv, cs

LEMMA DutyChooses == ASSUME DutyInv, D!Choose PROVE DutyInv'
<1> DEFINE cs == v1.duties[v2]
           n == Len(cs)
<1>1. /\ v9 = "paths" /\ v9' = "fill" /\ v5 = Len(D!Courses) /\ v5' = 0
      /\ v7' = IF D!Runners = {} THEN [i \in DOMAIN D!Courses |-> D!None] ELSE D!PathOf(D!Winner).picked
      /\ UNCHANGED <<v1, v2, v3, v4, v8>>
  BY DEF D!Choose
<1>2. v1 \in DutyInputs /\ v2 \in 1 .. Len(v1.duties) BY DEF DutyInv
<1>3. n \in Nat /\ D!Courses = cs BY <1>2, CoursesAre
<1>4. /\ \A j \in 1 .. n : Found(v3[j].traversals)
      /\ Searched(v4, cs, v3, n) /\ OutcomesOk(v8, v2 - 1)
  BY <1>1, <1>3 DEF DutyInv
<1>5. SelectedOk(v7', cs, v3, v4) BY <1>1, <1>2, <1>4, ChosenIs
<1>6. 0 \in 0 .. n BY <1>3
<1> QED BY <1>1, <1>2, <1>4, <1>5, <1>6 DEF DutyInv

LEMMA DutyAtHand == ASSUME DutyInv, v9 = "fill" PROVE DutySelects /\ OutcomesOk(v8, v2 - 1)
BY DEF DutyInv, DutySelects

LEMMA DutyFills == ASSUME DutyInv, D!FillGap PROVE DutyInv'
<1> DEFINE cs == v1.duties[v2]
           n == Len(cs)
           i == v5 + 1
           s == IF D!Runners = {} THEN v7 ELSE [v7 EXCEPT ![i] = D!Filling(i)]
<1>1. /\ v9 = "fill" /\ v9' = "fill" /\ v5 < Len(D!Courses) /\ v5' = i /\ v7' = s
      /\ UNCHANGED <<v1, v2, v3, v4, v8>>
  BY DEF D!FillGap
<1>2. DutySelects /\ OutcomesOk(v8, v2 - 1) BY <1>1, DutyAtHand
<1>3. v1 \in DutyInputs /\ v2 \in 1 .. Len(v1.duties) BY DEF DutyInv
<1>4. n \in Nat /\ D!Courses = cs BY <1>3, CoursesAre
<1>5. v5 \in 0 .. n /\ \A j \in 1 .. n : Found(v3[j].traversals) BY <1>1 DEF DutyInv
<1>6. Searched(v4, cs, v3, n) BY <1>2 DEF DutySelects
<1>7. i \in 1 .. n /\ i \in 0 .. n BY <1>1, <1>4, <1>5
<1>8. SelectedOk(s, cs, v3, v4) BY <1>2, <1>7, FilledIs
<1> HIDE DEF s, i
<1> QED BY <1>1, <1>2, <1>3, <1>5, <1>6, <1>7, <1>8 DEF DutyInv

LEMMA DutySettles == ASSUME DutyInv, D!Settle PROVE DutyInv'
<1> DEFINE O == v8 \o [i \in DOMAIN D!Courses |-> D!Outcome(i)]
<1>1. v9 = "fill" /\ v9' = "settled" /\ v8' = O /\ UNCHANGED <<v1, v2, v4>> BY DEF D!Settle
<1>2. DutySelects /\ OutcomesOk(v8, v2 - 1) BY <1>1, DutyAtHand
<1>3. OutcomesOk(O, v2) /\ UncontestedIn(O, v4, v2) BY <1>2, SettledIs, SettledUncontested
<1>4. v1 \in DutyInputs /\ v2 \in 1 .. Len(v1.duties) BY DEF DutyInv
<1> HIDE DEF O
<1> QED BY <1>1, <1>3, <1>4 DEF DutyInv

LEMMA DutyMovesOn == ASSUME DutyInv, D!NextDuty PROVE DutyInv'
<1>1. /\ v9 = "settled" /\ v9' = "evidence" /\ v2 < Len(v1.duties) /\ v2' = v2 + 1
      /\ v4' = [v \in Fleet |-> {D!Start}] /\ v5' = 0 /\ UNCHANGED <<v1, v8>>
  BY DEF D!NextDuty, D!Fresh
<1>2. v1 \in DutyInputs /\ v2 \in 1 .. Len(v1.duties) /\ OutcomesOk(v8, v2) BY <1>1 DEF DutyInv
<1>3. Len(v1.duties) \in Nat
  <2>1. v1.duties \in Seq(Seq(CourseRecords)) BY <1>2, DayIs
  <2> QED BY <2>1
<1>4. v2' \in 1 .. Len(v1.duties) /\ v2' - 1 = v2 BY <1>1, <1>2, <1>3
<1> QED BY <1>1, <1>2, <1>4 DEF DutyInv

LEMMA DutyResolves == ASSUME DutyInv, D!Resolve PROVE DutyInv'
<1> DEFINE O == D!Resolved
<1>1. v9 = "settled" /\ v9' = "done" /\ v8' = O /\ UNCHANGED <<v1, v2>> BY DEF D!Resolve
<1>2. v1 \in DutyInputs /\ v2 \in 1 .. Len(v1.duties) /\ OutcomesOk(v8, v2) BY <1>1 DEF DutyInv
<1>3. OutcomesOk(O, v2) /\ OnceIn(O) BY <1>2, ResolvedOnce
<1> HIDE DEF O
<1> QED BY <1>1, <1>2, <1>3 DEF DutyInv

LEMMA DutyStands == DutyInv /\ UNCHANGED D!vars => DutyInv'
<1> SUFFICES ASSUME DutyInv, UNCHANGED D!vars PROVE DutyInv' OBVIOUS
<1>1. UNCHANGED <<v1, v2, v3, v4, v5, v7, v8, v9>> BY DEF D!vars
<1> QED BY <1>1 DEF DutyInv

LEMMA DutyStep == DutyInv /\ D!Next => DutyInv'
BY DutyEvidence, DutyAligns, DutyChooses, DutyFills, DutySettles, DutyMovesOn, DutyResolves, DutyStands
   DEF D!Next, D!Done

LEMMA DutySafe ==
  ASSUME DutyInv
  PROVE  D!DisjointTraversals /\ D!DutyInOrder /\ D!Uncontested /\ D!OwnedOnce /\ D!ClashesYield
<1> DEFINE n == Len(v1.duties[v2])
           d == IF v9 \in {"settled", "done"} THEN v2 ELSE v2 - 1
<1>1. v1 \in DutyInputs /\ v2 \in 1 .. Len(v1.duties) BY DEF DutyInv
<1>2. n \in Nat /\ DOMAIN D!Courses = 1 .. n BY <1>1, CoursesAre
<1>3. OutcomesOk(v8, d) BY DEF DutyInv
<1> HIDE DEF d
<1>4. DOMAIN v8 = 1 .. Len(v8) /\ Len(v8) \in Nat BY <1>3 DEF OutcomesOk
<1>5. D!DisjointTraversals
  <2> SUFFICES ASSUME v9 = "paths", NEW i \in 1 .. n, NEW t \in D!Complete(i), NEW u \in D!Complete(i),
                      t # u, t.vehicle = u.vehicle
               PROVE  t.destination < u.departure \/ u.destination < t.departure
    BY <1>2 DEF D!DisjointTraversals
  <2>1. Found(v3[i].traversals) BY DEF DutyInv
  <2>2. /\ t \in v3[i].traversals /\ Whole(t) /\ u \in v3[i].traversals /\ Whole(u) BY DEF D!Complete, D!NoTime, Whole
  <2>3. t.vehicle \in Fleet BY <2>1, <2>2 DEF Found
  <2> DEFINE v == t.vehicle
  <2>4. Drives({x \in v3[i].traversals : x.vehicle = v}, v) BY <2>1, <2>3 DEF Found
  <2> QED BY <2>2, <2>4 DEF Drives
<1>6. D!DutyInOrder BY <1>3, <1>4 DEF D!DutyInOrder, OutcomesOk
<1>7. D!Uncontested
  <2> SUFFICES ASSUME v9 = "settled", NEW k \in 1 .. Len(v8), v8[k].duty = v2, v8[k].status = "executed",
                      NEW v \in Fleet \ {v8[k].vehicle},
                      D!PathOf(v).executed >= D!PathOf(v8[k].vehicle).executed,
                      D!PathOf(v).cost <= D!PathOf(v8[k].vehicle).cost + TimingTie,
                      D!PathOf(v).picked[v8[k].course] # D!None
               PROVE  FALSE
    BY <1>4 DEF D!Uncontested
  <2>1. UncontestedIn(v8, v4, v2) BY DEF DutyInv
  <2>2. \A x : D!PathOf(x) = BestPathOf(v4, x) BY RunnersAre
  <2> QED BY <2>1, <2>2 DEF UncontestedIn
<1>8. D!OwnedOnce
  <2> SUFFICES ASSUME v9 = "done" PROVE OnceIn(v8) BY <1>4 DEF D!OwnedOnce, OnceIn
  <2> QED BY DEF DutyInv
<1>9. D!ClashesYield BY <1>3, ClashesAre
<1> QED BY <1>5, <1>6, <1>7, <1>8, <1>9

LEMMA RemovedAt ==
  ASSUME NEW S, NEW s \in Seq(S), NEW i \in DOMAIN s
  PROVE  LET r == SubSeq(s, 1, i - 1) \o SubSeq(s, i + 1, Len(s))
         IN  /\ r \in Seq(S) /\ Len(r) = Len(s) - 1 /\ DOMAIN r = 1 .. Len(s) - 1
             /\ \A j \in 1 .. Len(s) - 1 : r[j] = s[IF j < i THEN j ELSE j + 1]
<1> DEFINE a == SubSeq(s, 1, i - 1)
           b == SubSeq(s, i + 1, Len(s))
           r == a \o b
<1>1. Len(s) \in Nat /\ i \in 1 .. Len(s) OBVIOUS
<1>2. a \in Seq(S) /\ Len(a) = i - 1 /\ \A j \in 1 .. i - 1 : a[j] = s[j] BY <1>1
<1>3. b \in Seq(S) /\ Len(b) = Len(s) - i /\ \A j \in 1 .. Len(s) - i : b[j] = s[i + j] BY <1>1
<1> HIDE DEF a, b
<1>4. r \in Seq(S) /\ Len(r) = Len(s) - 1 BY <1>1, <1>2, <1>3
<1>5. \A j \in 1 .. Len(a) + Len(b) : r[j] = IF j <= Len(a) THEN a[j] ELSE b[j - Len(a)]
  <2>1. a \in Seq(S) /\ b \in Seq(S) BY <1>2, <1>3
  <2> QED BY <2>1
<1> HIDE DEF r
<1>6. ASSUME NEW j \in 1 .. Len(s) - 1 PROVE r[j] = s[IF j < i THEN j ELSE j + 1]
  <2>1. CASE j < i
    <3>1. r[j] = a[j] BY <1>1, <1>2, <1>3, <1>5, <2>1, SMTT(30)
    <3> QED BY <1>1, <1>2, <2>1, <3>1
  <2>2. CASE ~(j < i)
    <3>1. j \in 1 .. Len(a) + Len(b) /\ ~(j <= Len(a)) /\ Len(a) = i - 1 BY <1>1, <1>2, <1>3, <2>2
    <3>2. r[j] = b[j - (i - 1)] BY <1>5, <3>1
    <3>3. j - (i - 1) \in 1 .. Len(s) - i /\ i + (j - (i - 1)) = j + 1 BY <1>1, <2>2
    <3>4. b[j - (i - 1)] = s[i + (j - (i - 1))] BY <1>3, <3>3
    <3> QED BY <2>2, <3>2, <3>3, <3>4
  <2> QED BY <2>1, <2>2
<1>7. DOMAIN r = 1 .. Len(s) - 1 BY <1>4
<1> QED BY <1>4, <1>6, <1>7 DEF r, a, b

\* Elements that occur once: the others stay, each once, and the removed one is gone.
LEMMA RemovedOnce ==
  ASSUME NEW S, NEW s \in Seq(S), NEW i \in DOMAIN s
  PROVE  LET r == SubSeq(s, 1, i - 1) \o SubSeq(s, i + 1, Len(s))
         IN  /\ \A j \in DOMAIN r : \E k \in DOMAIN s : k # i /\ r[j] = s[k]
             /\ \A k \in DOMAIN s : k # i => \E j \in DOMAIN r : r[j] = s[k]
             /\ \A j, l \in DOMAIN r : j # l => \E k, m \in DOMAIN s : k # m /\ r[j] = s[k] /\ r[l] = s[m]
<1> DEFINE r == SubSeq(s, 1, i - 1) \o SubSeq(s, i + 1, Len(s))
           at(j) == IF j < i THEN j ELSE j + 1
<1>1. Len(s) \in Nat /\ DOMAIN s = 1 .. Len(s) /\ i \in 1 .. Len(s) OBVIOUS
<1>2. DOMAIN r = 1 .. Len(s) - 1 /\ \A j \in 1 .. Len(s) - 1 : r[j] = s[at(j)] BY RemovedAt
<1> HIDE DEF r
<1>3. \A j \in 1 .. Len(s) - 1 : at(j) \in 1 .. Len(s) /\ at(j) # i BY <1>1
<1>4. \A j, l \in 1 .. Len(s) - 1 : j # l => at(j) # at(l) BY <1>1
<1>5. ASSUME NEW k \in DOMAIN s, k # i PROVE \E j \in DOMAIN r : r[j] = s[k]
  <2>1. CASE k < i
    <3>1. k \in 1 .. Len(s) - 1 /\ at(k) = k BY <1>1, <2>1
    <3> QED BY <1>2, <3>1
  <2>2. CASE ~(k < i)
    <3>1. k - 1 \in 1 .. Len(s) - 1 /\ at(k - 1) = k BY <1>1, <1>5, <2>2
    <3> QED BY <1>2, <3>1
  <2> QED BY <2>1, <2>2
<1>6. ASSUME NEW j \in DOMAIN r PROVE \E k \in DOMAIN s : k # i /\ r[j] = s[k]
  <2>1. at(j) \in DOMAIN s /\ at(j) # i /\ r[j] = s[at(j)] BY <1>1, <1>2, <1>3
  <2> HIDE DEF at
  <2> QED BY <2>1
<1>7. ASSUME NEW j \in DOMAIN r, NEW l \in DOMAIN r, j # l
      PROVE  \E k, m \in DOMAIN s : k # m /\ r[j] = s[k] /\ r[l] = s[m]
  <2>1. at(j) \in DOMAIN s /\ at(l) \in DOMAIN s /\ at(j) # at(l) /\ r[j] = s[at(j)] /\ r[l] = s[at(l)]
    BY <1>1, <1>2, <1>3, <1>4, <1>7
  <2> HIDE DEF at
  <2> QED BY <2>1
<1> QED BY <1>5, <1>6, <1>7 DEF r

--------------------------------------------------------------------------------
(* Sequences joined one after the other *)

Glued(r, s) == r \o s

LEMMA Associative ==
  ASSUME NEW X, NEW r \in Seq(X), NEW s \in Seq(X), NEW t \in Seq(X)
  PROVE  Glued(Glued(r, s), t) = Glued(r, Glued(s, t))
BY SMTT(30) DEF Glued

LEMMA AppendedBoth ==
  ASSUME NEW X, NEW r \in Seq(X), NEW s \in Seq(X), NEW x \in X
  PROVE  s \o r \in Seq(X) /\ s \o Append(r, x) = Append(s \o r, x)
OBVIOUS

LEMMA JoinedIs ==
  ASSUME NEW X, NEW seqs \in Seq(Seq(X))
  PROVE  \E f \in [0 .. Len(seqs) -> Seq(X)] :
           f[0] = <<>> /\ (\A i \in 1 .. Len(seqs) : f[i] = f[i - 1] \o seqs[i]) /\ M!Joined(seqs) = f[Len(seqs)]
<1> DEFINE g == [p \in Seq(X) \X Seq(X) |-> p[1] \o p[2]]
           Z == 0 .. Len(seqs)
           e(f, i) == IF i = 0 THEN <<>> ELSE CHOOSE r \in {s \o seqs[i] : s \in {f[i - 1]}} : TRUE
           after == CHOOSE f : f = [i \in Z |-> e(f, i)]
<1>1. g \in [Seq(X) \X Seq(X) -> Seq(X)] /\ <<>> \in Seq(X)
  OBVIOUS
<1>2. PICK f \in [Z -> Seq(X)] : f[0] = <<>> /\ \A i \in 1 .. Len(seqs) : f[i] = g[<<f[i - 1], seqs[i]>>]
  <2> DEFINE St == Seq(X)
  <2>1. g \in [St \X St -> St] /\ <<>> \in St /\ seqs \in Seq(St)
    BY <1>1
  <2> HIDE DEF g, St
  <2>2. \E f : Folded(f, St, g, <<>>, seqs)
    BY <2>1, FoldExists
  <2> QED BY <2>2 DEF St, Folded
<1>3. ASSUME NEW i \in 1 .. Len(seqs) PROVE seqs[i] \in Seq(X) /\ f[i - 1] \in Seq(X)
  <2>1. i \in 1 .. Len(seqs) /\ i - 1 \in Z
    OBVIOUS
  <2>2. f[i - 1] \in Seq(X)
    BY <1>2, <2>1
  <2> QED BY <2>1, <2>2
<1>4. \A i \in 1 .. Len(seqs) : f[i] = f[i - 1] \o seqs[i]
  BY <1>2, <1>3
<1>5. \A i \in Z : f[i] = e(f, i)
  <2> SUFFICES ASSUME NEW i \in Z, i # 0 PROVE f[i] = CHOOSE r \in {s \o seqs[i] : s \in {f[i - 1]}} : TRUE
    BY <1>2
  <2>0. i \in 1 .. Len(seqs)
    OBVIOUS
  <2>1. f[i] = f[i - 1] \o seqs[i]
    BY <1>4, <2>0
  <2> QED BY <2>1
<1>6. f = [i \in Z |-> e(f, i)]
  BY <1>2, <1>5
<1>7. M!Joined(seqs) = after[Len(seqs)]
  BY DEF M!Joined, M!Fold
<1>8. after = [i \in Z |-> e(after, i)]
  BY <1>6, ZenonT(40)
<1>9. after[Len(seqs)] = f[Len(seqs)]
  <2>1. after[0] = f[0] /\ Len(seqs) \in Nat
    <3>1. Len(seqs) \in Nat /\ f[0] = <<>>
      <4>1. Len(seqs) \in Nat
        OBVIOUS
      <4> QED BY <1>2, <4>1
    <3>2. 0 \in Z
      BY <3>1
    <3>3. after[0] = e(after, 0)
      <4> HIDE DEF e, after, Z
      <4> QED BY <1>8, <3>2
    <3> QED BY <3>1, <3>3
  <2>2. ASSUME NEW i \in 1 .. Len(seqs), after[i - 1] = f[i - 1] PROVE after[i] = f[i]
    <3>1. i \in Z /\ i # 0
      OBVIOUS
    <3>2. after[i] = e(after, i) /\ f[i] = e(f, i)
      <4> HIDE DEF e, after
      <4> QED BY <1>5, <1>8, <3>1
    <3> HIDE DEF after
    <3> QED BY <2>2, <3>2
  <2> HIDE DEF after
  <2> QED BY <2>1, <2>2, Agree
<1> QED BY <1>2, <1>4, <1>7, <1>9, ZenonT(40)

LEMMA JoinedNone == M!Joined(<<>>) = <<>>
<1> DEFINE s == <<>>
<1>1. s \in Seq(Seq({})) /\ Len(s) = 0
  OBVIOUS
<1> HIDE DEF s
<1>2. M!Joined(s) = <<>>
  BY <1>1, JoinedIs, ZenonT(40)
<1> QED BY <1>2 DEF s

LEMMA JoinedMore ==
  ASSUME NEW X, NEW s \in Seq(Seq(X)), NEW x \in Seq(X)
  PROVE  M!Joined(s) \in Seq(X) /\ M!Joined(Append(s, x)) = M!Joined(s) \o x
<1> DEFINE t == Append(s, x)
<1>1. t \in Seq(Seq(X)) /\ Len(t) = Len(s) + 1 /\ t[Len(s) + 1] = x /\ \A i \in 1 .. Len(s) : t[i] = s[i]
  OBVIOUS
<1> HIDE DEF t
<1>2. PICK f \in [0 .. Len(s) -> Seq(X)] :
        f[0] = <<>> /\ (\A i \in 1 .. Len(s) : f[i] = f[i - 1] \o s[i]) /\ M!Joined(s) = f[Len(s)]
  BY JoinedIs
<1>3. PICK h \in [0 .. Len(t) -> Seq(X)] :
        h[0] = <<>> /\ (\A i \in 1 .. Len(t) : h[i] = h[i - 1] \o t[i]) /\ M!Joined(t) = h[Len(t)]
  BY <1>1, JoinedIs
<1> DEFINE T == {n \in Nat : n <= Len(s) => h[n] = f[n]}
<1>4. 0 \in T
  BY <1>2, <1>3
<1>5. ASSUME NEW n \in Nat, n \in T PROVE n + 1 \in T
  <2> SUFFICES ASSUME n + 1 <= Len(s) PROVE h[n + 1] = f[n + 1]
    OBVIOUS
  <2>1. n + 1 \in 1 .. Len(s) /\ n + 1 \in 1 .. Len(t) /\ n + 1 - 1 = n
    BY <1>1
  <2>2. h[n] = f[n]
    BY <1>5
  <2>3. h[n + 1] = h[n] \o t[n + 1] /\ f[n + 1] = f[n] \o s[n + 1]
    <3> DEFINE k == n + 1
    <3>1. k \in 1 .. Len(s) /\ k \in 1 .. Len(t) /\ k - 1 = n
      BY <2>1
    <3> HIDE DEF k
    <3>2. h[k] = h[k - 1] \o t[k] /\ f[k] = f[k - 1] \o s[k]
      BY <1>2, <1>3, <3>1
    <3> QED BY <3>1, <3>2 DEF k
  <2> QED BY <1>1, <2>1, <2>2, <2>3
<1>6. Nat \subseteq T
  <2> HIDE DEF T
  <2> QED BY <1>4, <1>5, NatInd
<1>7. Len(s) \in Nat
  OBVIOUS
<1>8. h[Len(s)] = f[Len(s)]
  <2>1. Len(s) \in T
    BY <1>6, <1>7
  <2> QED BY <1>7, <2>1
<1>9. Len(s) + 1 \in 1 .. Len(t) /\ Len(s) + 1 - 1 = Len(s)
  BY <1>1, <1>7
<1>10. h[Len(s) + 1] = h[Len(s)] \o t[Len(s) + 1]
  <2> DEFINE k == Len(s) + 1
  <2>1. k \in 1 .. Len(t) /\ k - 1 = Len(s)
    BY <1>9
  <2> HIDE DEF k
  <2>2. h[k] = h[k - 1] \o t[k]
    BY <1>3, <2>1
  <2> QED BY <2>1, <2>2 DEF k
<1>11. f[Len(s)] \in Seq(X)
  BY <1>2, <1>7, SMTT(30)
<1> QED BY <1>1, <1>2, <1>3, <1>8, <1>10, <1>11 DEF t

\* Joining is associative: what follows is joined after what comes first.
LEMMA JoinedBoth ==
  ASSUME NEW X, NEW s \in Seq(Seq(X)), NEW t \in Seq(Seq(X))
  PROVE  M!Joined(s \o t) = M!Joined(s) \o M!Joined(t)
<1> DEFINE T == {n \in Nat : \A u \in Seq(Seq(X)) : Len(u) = n => M!Joined(s \o u) = M!Joined(s) \o M!Joined(u)}
<1>1. M!Joined(s) \in Seq(X)
  <2>1. <<>> \in Seq(X)
    OBVIOUS
  <2> QED BY <2>1, JoinedMore
<1>2. 0 \in T
  <2> SUFFICES ASSUME NEW u \in Seq(Seq(X)), Len(u) = 0 PROVE M!Joined(s \o u) = M!Joined(s) \o M!Joined(u)
    OBVIOUS
  <2>1. u = <<>> /\ s \o u = s
    <3>1. u = <<>>
      OBVIOUS
    <3> QED BY <3>1
  <2>2. M!Joined(s) \o <<>> = M!Joined(s)
    BY <1>1
  <2> QED BY <2>1, <2>2, JoinedNone
<1>3. ASSUME NEW n \in Nat, n \in T PROVE n + 1 \in T
  <2> SUFFICES ASSUME NEW u \in Seq(Seq(X)), Len(u) = n + 1 PROVE M!Joined(s \o u) = M!Joined(s) \o M!Joined(u)
    OBVIOUS
  <2>1. u # <<>>
    OBVIOUS
  <2> DEFINE St == Seq(X)
  <2>2. PICK r \in Seq(St), x \in St : u = Append(r, x)
    <3> HIDE DEF St
    <3>1. u \in Seq(St)
      BY DEF St
    <3> QED BY <2>1, <3>1, SequenceEmptyOrAppend
  <2>3. Len(r) = n
    BY <2>2
  <2>4. M!Joined(s \o r) = M!Joined(s) \o M!Joined(r)
    BY <1>3, <2>2, <2>3
  <2>5. s \o u = Append(s \o r, x) /\ s \o r \in Seq(Seq(X))
    <3>1. s \in Seq(St) /\ r \in Seq(St) /\ x \in St
      BY <2>2
    <3> HIDE DEF St
    <3>2. s \o r \in Seq(St) /\ s \o u = Append(s \o r, x)
      BY <2>2, <3>1, AppendedBoth
    <3> QED BY <3>2 DEF St
  <2>6. M!Joined(s \o u) = M!Joined(s \o r) \o x /\ M!Joined(u) = M!Joined(r) \o x /\ M!Joined(r) \in Seq(X)
    BY <2>2, <2>5, JoinedMore
  <2>7. (M!Joined(s) \o M!Joined(r)) \o x = M!Joined(s) \o (M!Joined(r) \o x)
    <3>1. x \in Seq(X) /\ M!Joined(r) \in Seq(X)
      BY <2>2, <2>6
    <3>2. Glued(Glued(M!Joined(s), M!Joined(r)), x) = Glued(M!Joined(s), Glued(M!Joined(r), x))
      BY <1>1, <3>1, Associative
    <3> QED BY <3>2 DEF Glued
  <2> QED BY <2>4, <2>6, <2>7
<1>4. Nat \subseteq T
  <2> HIDE DEF T
  <2> QED BY <1>2, <1>3, NatInd
<1>5. Len(t) \in Nat
  OBVIOUS
<1> QED BY <1>4, <1>5

LEMMA JoinedIn == ASSUME NEW X, NEW s \in Seq(Seq(X)) PROVE M!Joined(s) \in Seq(X)
<1>1. <<>> \in Seq(X)
  OBVIOUS
<1> QED BY <1>1, JoinedMore

LEMMA JoinedOne == ASSUME NEW X, NEW x \in Seq(X) PROVE M!Joined(<<x>>) = x
<1>1. <<>> \in Seq(Seq(X)) /\ Append(<<>>, x) = <<x>> /\ <<>> \o x = x
  OBVIOUS
<1> QED BY <1>1, JoinedNone, JoinedMore

LEMMA JoinedFirst ==
  ASSUME NEW X, NEW s \in Seq(Seq(X)), s # <<>>
  PROVE  M!Joined(s) = Head(s) \o M!Joined(Tail(s))
<1> DEFINE St == Seq(X)
<1>1. s \in Seq(St) /\ s # <<>>
  OBVIOUS
<1>2. Head(s) \in St /\ Tail(s) \in Seq(St) /\ <<Head(s)>> \in Seq(St) /\ s = <<Head(s)>> \o Tail(s)
  <2> HIDE DEF St
  <2> QED BY <1>1
<1>3. M!Joined(s) = M!Joined(<<Head(s)>>) \o M!Joined(Tail(s))
  BY <1>2, JoinedBoth
<1> QED BY <1>2, <1>3, JoinedOne
--------------------------------------------------------------------------------
(* MatcherRun: v1 job, v2 attempt, v3 at, v4 files, v5 pings, v6 worker, v7 shards, *)
(* v8 merged, v9 published, v10 copied                                             *)

LEMMA JobIs ==
  ASSUME v1 \in Jobs
  PROVE  /\ RowGroup \in Nat \ {0} /\ v1.workers \in Int
         /\ v1.vehicles \in Seq([times : Seq(Int), courses : Seq([accepted : BOOLEAN, operational : Nat, passenger : Nat])])
BY RunHolds DEF M!RunAssumption

LEMMA VehiclesAre ==
  ASSUME v1 \in Jobs
  PROVE  /\ Len(v1.vehicles) \in Nat /\ M!Vehicles = 1 .. Len(v1.vehicles)
         /\ \A v \in M!Vehicles :
              v1.vehicles[v].courses \in Seq([accepted : BOOLEAN, operational : Nat, passenger : Nat])
<1> DEFINE V == [times : Seq(Int), courses : Seq([accepted : BOOLEAN, operational : Nat, passenger : Nat])]
<1>1. v1.vehicles \in Seq(V)
  BY JobIs
<1>2. \A x \in V : x.courses \in Seq([accepted : BOOLEAN, operational : Nat, passenger : Nat])
  OBVIOUS
<1> HIDE DEF V
<1>3. Len(v1.vehicles) \in Nat /\ \A v \in 1 .. Len(v1.vehicles) : v1.vehicles[v] \in V
  BY <1>1
<1> QED BY <1>2, <1>3 DEF M!Vehicles

LEMMA RowsIn ==
  ASSUME v1 \in Jobs, NEW c \in M!CourseKeys, NEW a \in M!Artifacts
  PROVE  M!RowsOf(c, a) \in Seq(M!Rows)
<1> DEFINE C0 == [accepted : BOOLEAN, operational : Nat, passenger : Nat]
           s == v1.vehicles[c[1]].courses
           n == s[c[2]][a]
<1>1. c[1] \in M!Vehicles /\ c[2] \in DOMAIN s /\ c \in Nat \X Nat
  BY DEF M!CourseKeys
<1>2. s \in Seq(C0)
  BY <1>1, VehiclesAre
<1>3. \A x \in C0 : x[a] \in Nat
  BY DEF M!Artifacts
<1>4. n \in Nat
  <2> HIDE DEF C0
  <2> QED BY <1>1, <1>2, <1>3
<1>5. M!RowsOf(c, a) = [k \in 1 .. n |-> <<c[1], c[2], k>>]
  BY DEF M!RowsOf
<1> HIDE DEF n
<1>6. \A k \in 1 .. n : <<c[1], c[2], k>> \in M!Rows
  BY <1>1, <1>4 DEF M!Rows
<1> QED BY <1>4, <1>5, <1>6

LEMMA AcceptedIn == ASSUME v1 \in Jobs, NEW v \in M!Vehicles PROVE M!Accepted(v) \in Seq(M!CourseKeys)
<1> DEFINE cs == v1.vehicles[v].courses
           S == Seq(M!CourseKeys)
           E == DOMAIN cs
           ids == [k \in DOMAIN cs |-> k]
           g == [p \in S \X E |-> IF cs[p[2]].accepted THEN Append(p[1], <<v, p[2]>>) ELSE p[1]]
           T(some, k) == IF cs[k].accepted THEN Append(some, <<v, k>>) ELSE some
           Z == 0 .. Len(ids)
           e(f, i) == IF i = 0 THEN <<>> ELSE CHOOSE r \in {T(s, ids[i]) : s \in {f[i - 1]}} : TRUE
           after == CHOOSE f : f = [i \in Z |-> e(f, i)]
<1>0. DOMAIN cs = 1 .. Len(cs) /\ Len(cs) \in Nat /\ v \in Nat
  BY VehiclesAre
<1>1. ids \in Seq(E) /\ Len(ids) = Len(cs) /\ \A i \in 1 .. Len(cs) : ids[i] = i
  BY <1>0
<1>2. \A k \in E : <<v, k>> \in M!CourseKeys
  BY <1>0 DEF M!CourseKeys
<1>3. g \in [S \X E -> S] /\ <<>> \in S
  <2>1. ASSUME NEW p \in S \X E PROVE (IF cs[p[2]].accepted THEN Append(p[1], <<v, p[2]>>) ELSE p[1]) \in S
    BY <1>2
  <2> QED BY <2>1
<1>4. PICK f \in [Z -> S] : f[0] = <<>> /\ \A i \in 1 .. Len(ids) : f[i] = g[<<f[i - 1], ids[i]>>]
  <2> HIDE DEF g, S, ids, E
  <2>1. \E f : Folded(f, S, g, <<>>, ids)
    BY <1>1, <1>3, FoldExists
  <2> QED BY <2>1 DEF Folded
<1>5. ASSUME NEW i \in 1 .. Len(ids) PROVE f[i] = T(f[i - 1], ids[i])
  <2>1. i - 1 \in Z /\ ids[i] \in E
    BY <1>0, <1>1
  <2>2. f[i - 1] \in S
    BY <1>4, <2>1, ZenonT(40)
  <2> HIDE DEF S, ids, E
  <2>3. f[i] = g[<<f[i - 1], ids[i]>>] /\ <<f[i - 1], ids[i]>> \in S \X E
    BY <1>4, <2>1, <2>2, ZenonT(40)
  <2> QED BY <2>3
<1>6. \A i \in Z : f[i] = e(f, i)
  <2> SUFFICES ASSUME NEW i \in Z, i # 0 PROVE f[i] = CHOOSE r \in {T(s, ids[i]) : s \in {f[i - 1]}} : TRUE
    BY <1>4, ZenonT(40)
  <2>0. i \in 1 .. Len(ids)
    OBVIOUS
  <2>1. f[i] = T(f[i - 1], ids[i])
    BY <1>5, <2>0
  <2> HIDE DEF T, ids
  <2> QED BY <2>1
<1>7. f = [i \in Z |-> e(f, i)]
  <2> HIDE DEF e, Z, S
  <2> QED BY <1>4, <1>6, SMTT(30)
<1>8. after = [i \in Z |-> e(after, i)]
  <2> HIDE DEF e, Z
  <2> QED BY <1>7
<1>9. M!Accepted(v) = IF M!Normalized(v) = 0 THEN <<>> ELSE after[Len(ids)]
  BY DEF M!Accepted, M!Fold
<1>10. after[Len(ids)] = f[Len(ids)]
  <2>1. after[0] = f[0] /\ Len(ids) \in Nat
    <3>1. Len(ids) \in Nat /\ f[0] = <<>>
      BY <1>0, <1>1, <1>4, <1>8, ZenonT(40)
    <3>2. 0 \in Z
      BY <3>1
    <3>3. after[0] = e(after, 0)
      <4> HIDE DEF e, after, Z
      <4> QED BY <1>8, <3>2
    <3> QED BY <3>1, <3>3, ZenonT(40)
  <2>2. ASSUME NEW i \in 1 .. Len(ids), after[i - 1] = f[i - 1] PROVE after[i] = f[i]
    <3>1. i \in Z /\ i # 0
      OBVIOUS
    <3>2. after[i] = e(after, i) /\ f[i] = e(f, i)
      <4> HIDE DEF e, after, Z
      <4> QED BY <1>6, <1>8, <3>1
    <3> HIDE DEF after, ids, T
    <3> QED BY <2>2, <3>2
  <2> HIDE DEF after, ids
  <2> QED BY <2>1, <2>2, Agree
<1>11. Len(ids) \in Z
  BY <1>0, <1>1
<1>12. f[Len(ids)] \in S
  BY <1>4, <1>11
<1> HIDE DEF after, ids, S
<1>13. M!Accepted(v) \in S
  BY <1>3, <1>9, <1>10, <1>12, SMTT(30)
<1> QED BY <1>13 DEF S

--------------------------------------------------------------------------------
(* the rows of courses and of vehicles *)

LEMMA OfCoursesIn ==
  ASSUME v1 \in Jobs, NEW cs \in Seq(M!CourseKeys), NEW a \in M!Artifacts
  PROVE  /\ [k \in DOMAIN cs |-> M!RowsOf(cs[k], a)] \in Seq(Seq(M!Rows))
         /\ M!OfCourses(cs, a) \in Seq(M!Rows)
<1> DEFINE s == [k \in DOMAIN cs |-> M!RowsOf(cs[k], a)]
           X == M!Rows
           St == Seq(X)
<1>1. Len(cs) \in Nat /\ DOMAIN cs = 1 .. Len(cs) /\ \A k \in 1 .. Len(cs) : cs[k] \in M!CourseKeys
  OBVIOUS
<1>2. \A k \in 1 .. Len(cs) : M!RowsOf(cs[k], a) \in St
  BY <1>1, RowsIn
<1>3. s \in Seq(St)
  <2> HIDE DEF St
  <2> QED BY <1>1, <1>2
<1>4. M!OfCourses(cs, a) = M!Joined(s)
  BY DEF M!OfCourses
<1> HIDE DEF s, X
<1>5. M!Joined(s) \in Seq(X)
  BY <1>3, JoinedIn
<1> QED BY <1>3, <1>4, <1>5 DEF s, X

LEMMA OfCoursesNone == ASSUME NEW a PROVE M!OfCourses(<<>>, a) = <<>>
<1>1. [k \in DOMAIN <<>> |-> M!RowsOf(<<>>[k], a)] = <<>>
  OBVIOUS
<1> QED BY <1>1, JoinedNone DEF M!OfCourses

LEMMA OfCoursesFirst ==
  ASSUME v1 \in Jobs, NEW cs \in Seq(M!CourseKeys), cs # <<>>, NEW a \in M!Artifacts
  PROVE  /\ Head(cs) \in M!CourseKeys /\ Tail(cs) \in Seq(M!CourseKeys)
         /\ M!OfCourses(cs, a) = M!RowsOf(Head(cs), a) \o M!OfCourses(Tail(cs), a)
<1> DEFINE R(c) == M!RowsOf(c, a)
           s == [k \in DOMAIN cs |-> R(cs[k])]
           t == [k \in DOMAIN Tail(cs) |-> R(Tail(cs)[k])]
           X == M!Rows
<1>1. Head(cs) \in M!CourseKeys /\ Tail(cs) \in Seq(M!CourseKeys)
  OBVIOUS
<1>2. s \in Seq(Seq(X))
  BY OfCoursesIn
<1>3. s # <<>> /\ Head(s) = R(Head(cs)) /\ Tail(s) = t
  <2> HIDE DEF R
  <2>1. s # <<>> /\ Head(s) = R(Head(cs))
    OBVIOUS
  <2>2. Len(cs) \in Nat /\ Len(cs) > 0 /\ DOMAIN cs = 1 .. Len(cs)
    OBVIOUS
  <2>3. Len(Tail(cs)) = Len(cs) - 1 /\ \A k \in 1 .. Len(cs) - 1 : Tail(cs)[k] = cs[k + 1]
    OBVIOUS
  <2>4. DOMAIN Tail(cs) = 1 .. Len(cs) - 1
    BY <1>1, <2>3
  <2>5. Tail(s) = [k \in 1 .. Len(cs) - 1 |-> s[k + 1]]
    <3>1. Len(s) = Len(cs)
      BY <2>2
    <3> QED BY <2>2, <3>1
  <2>6. ASSUME NEW k \in 1 .. Len(cs) - 1 PROVE s[k + 1] = R(Tail(cs)[k])
    BY <2>2, <2>3
  <2> QED BY <2>1, <2>4, <2>5, <2>6
<1>4. M!OfCourses(cs, a) = M!Joined(s) /\ M!OfCourses(Tail(cs), a) = M!Joined(t)
  BY DEF M!OfCourses
<1> HIDE DEF s, t, X
<1>5. M!Joined(s) = Head(s) \o M!Joined(Tail(s))
  BY <1>2, <1>3, JoinedFirst
<1> QED BY <1>1, <1>3, <1>4, <1>5

LEMMA OfVehiclesIn ==
  ASSUME v1 \in Jobs, NEW vs \in Seq(M!Vehicles), NEW a \in M!Artifacts
  PROVE  /\ [i \in DOMAIN vs |-> M!OfCourses(M!Accepted(vs[i]), a)] \in Seq(Seq(M!Rows))
         /\ M!OfVehicles(vs, a) \in Seq(M!Rows)
<1> DEFINE s == [i \in DOMAIN vs |-> M!OfCourses(M!Accepted(vs[i]), a)]
           X == M!Rows
           St == Seq(X)
<1>1. Len(vs) \in Nat /\ DOMAIN vs = 1 .. Len(vs) /\ \A k \in 1 .. Len(vs) : vs[k] \in M!Vehicles
  OBVIOUS
<1>2. \A k \in 1 .. Len(vs) : M!OfCourses(M!Accepted(vs[k]), a) \in St
  <2> SUFFICES ASSUME NEW k \in 1 .. Len(vs) PROVE M!OfCourses(M!Accepted(vs[k]), a) \in St
    OBVIOUS
  <2>1. M!Accepted(vs[k]) \in Seq(M!CourseKeys)
    BY <1>1, AcceptedIn
  <2> QED BY <2>1, OfCoursesIn
<1>3. s \in Seq(St)
  <2> HIDE DEF St
  <2> QED BY <1>1, <1>2
<1>4. M!OfVehicles(vs, a) = M!Joined(s)
  BY DEF M!OfVehicles
<1> HIDE DEF s, X
<1>5. M!Joined(s) \in Seq(X)
  BY <1>3, JoinedIn
<1> QED BY <1>3, <1>4, <1>5 DEF s, X

LEMMA OfVehiclesNone == ASSUME NEW a PROVE M!OfVehicles(<<>>, a) = <<>>
<1>1. [i \in DOMAIN <<>> |-> M!OfCourses(M!Accepted(<<>>[i]), a)] = <<>>
  OBVIOUS
<1> QED BY <1>1, JoinedNone DEF M!OfVehicles

LEMMA OfVehiclesBoth ==
  ASSUME v1 \in Jobs, NEW vs \in Seq(M!Vehicles), NEW ws \in Seq(M!Vehicles), NEW a \in M!Artifacts
  PROVE  M!OfVehicles(vs \o ws, a) = M!OfVehicles(vs, a) \o M!OfVehicles(ws, a)
<1> DEFINE R(v) == M!OfCourses(M!Accepted(v), a)
           s == [i \in DOMAIN vs |-> R(vs[i])]
           t == [i \in DOMAIN ws |-> R(ws[i])]
           u == [i \in DOMAIN (vs \o ws) |-> R((vs \o ws)[i])]
           X == M!Rows
<1>0. u \in Seq(Seq(X))
  <2>1. vs \o ws \in Seq(M!Vehicles)
    OBVIOUS
  <2> QED BY <2>1, OfVehiclesIn
<1>1. s \in Seq(Seq(X)) /\ t \in Seq(Seq(X))
  BY OfVehiclesIn
<1>2. u = s \o t
  <2> HIDE DEF R
  <2>1. Len(vs) \in Nat /\ Len(ws) \in Nat /\ DOMAIN vs = 1 .. Len(vs) /\ DOMAIN ws = 1 .. Len(ws)
    OBVIOUS
  <2>2. /\ vs \o ws \in Seq(M!Vehicles) /\ Len(vs \o ws) = Len(vs) + Len(ws)
        /\ \A i \in 1 .. Len(vs) + Len(ws) : (vs \o ws)[i] = IF i <= Len(vs) THEN vs[i] ELSE ws[i - Len(vs)]
    OBVIOUS
  <2>3. Len(s) = Len(vs) /\ Len(t) = Len(ws)
    BY <2>1
  <2> DEFINE St == Seq(X)
  <2>4. /\ Len(s \o t) = Len(vs) + Len(ws)
        /\ \A i \in 1 .. Len(vs) + Len(ws) : (s \o t)[i] = IF i <= Len(vs) THEN s[i] ELSE t[i - Len(vs)]
    <3>1. s \in Seq(St) /\ t \in Seq(St)
      BY <1>1
    <3> HIDE DEF St, s, t
    <3> QED BY <2>3, <3>1
  <2>5. DOMAIN (vs \o ws) = 1 .. Len(vs) + Len(ws)
    BY <2>2
  <2> HIDE DEF s, t
  <2>6. ASSUME NEW i \in 1 .. Len(vs) + Len(ws)
        PROVE  R((vs \o ws)[i]) = IF i <= Len(vs) THEN s[i] ELSE t[i - Len(vs)]
    <3>1. CASE i <= Len(vs)
      <4>1. i \in 1 .. Len(vs)
        BY <2>1, <3>1
      <4>2. (vs \o ws)[i] = vs[i]
        BY <2>2, <3>1
      <4>3. s[i] = R(vs[i])
        BY <2>1, <4>1 DEF s
      <4> QED BY <3>1, <4>2, <4>3
    <3>2. CASE ~(i <= Len(vs))
      <4>1. i - Len(vs) \in 1 .. Len(ws)
        BY <2>1, <3>2
      <4>2. (vs \o ws)[i] = ws[i - Len(vs)]
        BY <2>2, <3>2
      <4>3. t[i - Len(vs)] = R(ws[i - Len(vs)])
        BY <2>1, <4>1 DEF t
      <4> QED BY <3>2, <4>2, <4>3
    <3> QED BY <3>1, <3>2
  <2>7. u \in Seq(Seq(X)) /\ s \o t \in Seq(Seq(X))
    <3>1. u \in Seq(Seq(X))
      BY <1>0
    <3>2. s \in Seq(St) /\ t \in Seq(St)
      BY <1>1
    <3> HIDE DEF St, s, t, u
    <3>3. s \o t \in Seq(St)
      BY <3>2
    <3> QED BY <3>1, <3>3 DEF St
  <2>8. Len(u) = Len(vs) + Len(ws) /\ \A i \in 1 .. Len(vs) + Len(ws) : u[i] = (s \o t)[i]
    BY <2>1, <2>4, <2>5, <2>6
  <2> HIDE DEF u, X
  <2> QED BY <2>1, <2>4, <2>7, <2>8, SeqEqual
<1>3. /\ M!OfVehicles(vs \o ws, a) = M!Joined(u) /\ M!OfVehicles(vs, a) = M!Joined(s)
      /\ M!OfVehicles(ws, a) = M!Joined(t)
  BY DEF M!OfVehicles
<1> HIDE DEF s, t, u, X
<1>4. M!Joined(s \o t) = M!Joined(s) \o M!Joined(t)
  BY <1>1, JoinedBoth
<1> QED BY <1>2, <1>3, <1>4

LEMMA OfVehiclesOne ==
  ASSUME v1 \in Jobs, NEW v \in M!Vehicles, NEW a \in M!Artifacts
  PROVE  M!OfVehicles(<<v>>, a) = M!OfCourses(M!Accepted(v), a) /\ <<v>> \in Seq(M!Vehicles)
<1> DEFINE r == M!OfCourses(M!Accepted(v), a)
           X == M!Rows
<1>1. M!Accepted(v) \in Seq(M!CourseKeys)
  BY AcceptedIn
<1>2. r \in Seq(X)
  BY <1>1, OfCoursesIn
<1>3. [i \in DOMAIN <<v>> |-> M!OfCourses(M!Accepted(<<v>>[i]), a)] = <<r>>
  OBVIOUS
<1>4. M!OfVehicles(<<v>>, a) = M!Joined(<<r>>)
  BY <1>3 DEF M!OfVehicles
<1> HIDE DEF r, X
<1>5. M!Joined(<<r>>) = r
  BY <1>2, JoinedOne
<1> QED BY <1>4, <1>5 DEF r

LEMMA OfVehiclesFirst ==
  ASSUME v1 \in Jobs, NEW vs \in Seq(M!Vehicles), vs # <<>>, NEW a \in M!Artifacts
  PROVE  /\ Head(vs) \in M!Vehicles /\ Tail(vs) \in Seq(M!Vehicles)
         /\ M!OfVehicles(vs, a) = M!OfCourses(M!Accepted(Head(vs)), a) \o M!OfVehicles(Tail(vs), a)
<1> DEFINE V == M!Vehicles
<1>1. Head(vs) \in V /\ Tail(vs) \in Seq(V) /\ <<Head(vs)>> \in Seq(V) /\ vs = <<Head(vs)>> \o Tail(vs)
  <2>1. vs \in Seq(V)
    OBVIOUS
  <2> HIDE DEF V
  <2> QED BY <2>1
<1>2. M!OfVehicles(<<Head(vs)>> \o Tail(vs), a) = M!OfVehicles(<<Head(vs)>>, a) \o M!OfVehicles(Tail(vs), a)
  BY <1>1, OfVehiclesBoth
<1>3. M!OfVehicles(<<Head(vs)>>, a) = M!OfCourses(M!Accepted(Head(vs)), a)
  BY <1>1, OfVehiclesOne
<1> HIDE DEF V
<1>4. M!OfVehicles(vs, a) = M!OfVehicles(<<Head(vs)>> \o Tail(vs), a)
  <2> DEFINE w == <<Head(vs)>> \o Tail(vs)
  <2>1. vs = w
    BY <1>1
  <2> HIDE DEF w
  <2>2. M!OfVehicles(vs, a) = M!OfVehicles(w, a)
    BY <2>1
  <2> QED BY <2>2 DEF w
<1> QED BY <1>1, <1>2, <1>3, <1>4 DEF V

--------------------------------------------------------------------------------
(* the vehicles with courses, in chunks *)

\* A vehicle without an accepted course has no rows.
LEMMA ActiveIs ==
  ASSUME v1 \in Jobs
  PROVE  M!Active \in Seq(M!Vehicles) /\ \A a \in M!Artifacts : M!OfVehicles(M!Active, a) = M!Whole(a)
<1> DEFINE V == M!Vehicles
           n == Len(v1.vehicles)
           S == Seq(V)
           ids == [v \in V |-> v]
           T(some, v) == IF M!Accepted(v) # <<>> THEN Append(some, v) ELSE some
           g == [p \in S \X V |-> T(p[1], p[2])]
           Z == 0 .. Len(ids)
           e(f, i) == IF i = 0 THEN <<>> ELSE CHOOSE r \in {T(s, ids[i]) : s \in {f[i - 1]}} : TRUE
           after == CHOOSE f : f = [i \in Z |-> e(f, i)]
<1>0. n \in Nat /\ V = 1 .. n
  BY VehiclesAre
<1>1. ids \in Seq(V) /\ Len(ids) = n /\ \A i \in 1 .. n : ids[i] = i
  BY <1>0
<1>3. g \in [S \X V -> S] /\ <<>> \in S
  <2>1. ASSUME NEW p \in S \X V PROVE T(p[1], p[2]) \in S
    OBVIOUS
  <2> HIDE DEF T
  <2> QED BY <2>1
<1>4. PICK f \in [Z -> S] : f[0] = <<>> /\ \A i \in 1 .. Len(ids) : f[i] = g[<<f[i - 1], ids[i]>>]
  <2> HIDE DEF g, S, ids, V
  <2>1. \E f : Folded(f, S, g, <<>>, ids)
    BY <1>1, <1>3, FoldExists
  <2> QED BY <2>1 DEF Folded
<1>5. ASSUME NEW i \in 1 .. Len(ids) PROVE f[i] = T(f[i - 1], ids[i]) /\ f[i - 1] \in S /\ i \in V /\ ids[i] = i
  <2>1. i - 1 \in Z /\ i \in V /\ ids[i] = i
    BY <1>0, <1>1
  <2>2. f[i - 1] \in S
    BY <1>4, <2>1
  <2> HIDE DEF S, ids, V, T
  <2>3. f[i] = g[<<f[i - 1], ids[i]>>] /\ <<f[i - 1], ids[i]>> \in S \X V
    BY <1>4, <2>1, <2>2
  <2> QED BY <2>1, <2>2, <2>3
<1>6. \A i \in Z : f[i] = e(f, i)
  <2> SUFFICES ASSUME NEW i \in Z, i # 0 PROVE f[i] = CHOOSE r \in {T(s, ids[i]) : s \in {f[i - 1]}} : TRUE
    BY <1>4
  <2>0. i \in 1 .. Len(ids)
    BY <1>0, <1>1
  <2>1. f[i] = T(f[i - 1], ids[i])
    BY <1>5, <2>0
  <2> HIDE DEF T, ids
  <2> QED BY <2>1
<1>7. f = [i \in Z |-> e(f, i)]
  <2> HIDE DEF e, Z, S
  <2> QED BY <1>4, <1>6
<1>8. after = [i \in Z |-> e(after, i)]
  <2> HIDE DEF e, Z
  <2> QED BY <1>7
<1>9. M!Active = after[Len(ids)]
  BY DEF M!Active, M!Fold
<1>10. after[Len(ids)] = f[Len(ids)]
  <2>1. after[0] = f[0] /\ Len(ids) \in Nat
    <3>1. Len(ids) \in Nat /\ f[0] = <<>>
      BY <1>0, <1>1, <1>4
    <3>2. 0 \in Z
      BY <3>1
    <3>3. after[0] = e(after, 0)
      <4> HIDE DEF e, after, Z
      <4> QED BY <1>8, <3>2
    <3> QED BY <3>1, <3>3
  <2>2. ASSUME NEW i \in 1 .. Len(ids), after[i - 1] = f[i - 1] PROVE after[i] = f[i]
    <3>1. i \in Z /\ i # 0
      BY <1>0, <1>1
    <3>2. after[i] = e(after, i) /\ f[i] = e(f, i)
      <4> HIDE DEF e, after, Z
      <4> QED BY <1>6, <1>8, <3>1
    <3> HIDE DEF after, ids, T
    <3> QED BY <2>2, <3>2
  <2> HIDE DEF after, ids
  <2> QED BY <2>1, <2>2, Agree
<1> HIDE DEF after, e, g
<1>11. f[n] \in S
  <2>1. n \in Z
    BY <1>0, <1>1
  <2> HIDE DEF S, ids, Z
  <2> QED BY <1>4, <2>1
<1>12. ASSUME NEW a \in M!Artifacts PROVE M!OfVehicles(f[n], a) = M!Whole(a)
  <2> DEFINE First(m) == [v \in 1 .. m |-> v]
             H == {m \in Nat : m <= n => M!OfVehicles(f[m], a) = M!OfVehicles(First(m), a)}
  <2>1. 0 \in H
    <3>1. First(0) = <<>>
      OBVIOUS
    <3>2. f[0] = First(0)
      BY <1>4, <3>1
    <3> HIDE DEF First
    <3> QED BY <3>2
  <2>2. ASSUME NEW m \in Nat, m \in H PROVE m + 1 \in H
    <3> SUFFICES ASSUME m + 1 <= n PROVE M!OfVehicles(f[m + 1], a) = M!OfVehicles(First(m + 1), a)
      OBVIOUS
    <3> DEFINE k == m + 1
               R == M!OfCourses(M!Accepted(k), a)
    <3>1. k \in 1 .. Len(ids) /\ k - 1 = m /\ m <= n
      BY <1>0, <1>1
    <3>2. M!OfVehicles(f[m], a) = M!OfVehicles(First(m), a)
      BY <2>2, <3>1
    <3>3. First(k) = First(m) \o <<k>> /\ First(m) \in Seq(V)
      <4>1. First(m) \in Seq(V) /\ Len(First(m)) = m
        BY <1>0, <3>1
      <4>2. First(k) \in Seq(V) /\ Len(First(k)) = m + 1
        BY <1>0, <1>1, <3>1
      <4>3. k \in V
        BY <1>5, <3>1
      <4>4. First(m) \o <<k>> \in Seq(V) /\ Len(First(m) \o <<k>>) = m + 1
        BY <4>1, <4>3
      <4>5. \A i \in 1 .. m + 1 : First(k)[i] = (First(m) \o <<k>>)[i]
        BY <4>1
      <4> HIDE DEF First, k, V
      <4> QED BY <4>1, <4>2, <4>4, <4>5, SeqEqual
    <3> HIDE DEF k, First, ids, Z
    <3>4. f[k] = T(f[k - 1], ids[k]) /\ f[k - 1] \in S /\ k \in V /\ ids[k] = k
      BY <1>5, <3>1
    <3>5. f[k] = IF M!Accepted(k) # <<>> THEN Append(f[m], k) ELSE f[m]
      BY <3>1, <3>4
    <3>6. M!OfVehicles(<<k>>, a) = R /\ <<k>> \in Seq(V) /\ M!OfVehicles(f[m], a) \in Seq(M!Rows)
      BY <3>1, <3>4, OfVehiclesOne, OfVehiclesIn
    <3>7. M!OfVehicles(First(k), a) = M!OfVehicles(First(m), a) \o R
      <4>1. M!OfVehicles(First(m) \o <<k>>, a) = M!OfVehicles(First(m), a) \o M!OfVehicles(<<k>>, a)
        BY <3>3, <3>6, OfVehiclesBoth
      <4> QED BY <3>3, <3>6, <4>1
    <3>8. CASE M!Accepted(k) # <<>>
      <4>1. f[k] = f[m] \o <<k>>
        BY <3>1, <3>4, <3>5, <3>8
      <4>2. M!OfVehicles(f[m] \o <<k>>, a) = M!OfVehicles(f[m], a) \o M!OfVehicles(<<k>>, a)
        BY <3>1, <3>4, <3>6, OfVehiclesBoth
      <4> QED BY <3>2, <3>6, <3>7, <4>1, <4>2 DEF k
    <3>9. CASE M!Accepted(k) = <<>>
      <4>1. f[k] = f[m] /\ R = <<>>
        BY <3>5, <3>9, OfCoursesNone
      <4>2. M!OfVehicles(First(m), a) \o <<>> = M!OfVehicles(First(m), a)
        <5>1. M!OfVehicles(First(m), a) \in Seq(M!Rows)
          BY <3>2, <3>6
        <5> DEFINE q == M!OfVehicles(First(m), a)
        <5> HIDE DEF q
        <5>2. q \in Seq(M!Rows) => q \o <<>> = q
          OBVIOUS
        <5> QED BY <5>1, <5>2 DEF q
      <4> QED BY <3>2, <3>7, <4>1, <4>2 DEF k
    <3> QED BY <3>8, <3>9
  <2>3. Nat \subseteq H
    <3> HIDE DEF H
    <3> QED BY <2>1, <2>2, NatInd
  <2>4. M!Whole(a) = M!OfVehicles(First(n), a)
    BY <1>0 DEF M!Whole
  <2> HIDE DEF First
  <2> QED BY <1>0, <2>3, <2>4
<1>13. M!Active = f[n]
  BY <1>1, <1>9, <1>10
<1> HIDE DEF n, S
<1>14. M!Active \in S
  BY <1>11, <1>13
<1> QED BY <1>12, <1>13, <1>14 DEF S

LEMMA Divided ==
  ASSUME NEW a \in Nat, NEW b \in Nat \ {0}
  PROVE  /\ a \div b \in Nat /\ a % b \in 0 .. b - 1 /\ a = b * (a \div b) + (a % b)
         /\ b * (a \div b) \in Nat /\ b * (a \div b) <= a
<1> DEFINE q == a \div b
           r == a % b
<1>1. q \in Nat /\ r \in 0 .. b - 1 /\ a = b * q + r
  BY Z3
<1> HIDE DEF q, r
<1>2. b * q \in Int
  BY <1>1
<1> QED BY <1>1, <1>2 DEF q, r

\* _balanced_vehicle_chunks: the chunks begin with the first vehicle, end with the
\* last, and each begins where the one before ended.
LEMMA Starts ==
  ASSUME v1 \in Jobs, v1.workers >= 1, M!Active # <<>>
  PROVE  /\ M!Workers \in 1 .. Len(M!Active)
         /\ M!Start(1) = 0 /\ M!Start(M!Workers + 1) = Len(M!Active)
         /\ \A i \in 1 .. M!Workers + 1 : M!Start(i) \in 0 .. Len(M!Active)
         /\ \A i \in 1 .. M!Workers : M!Start(i) <= M!Start(i + 1)
<1> DEFINE n == Len(M!Active)
           w == M!Workers
           q == n \div w
           r == n % w
<1>1. n \in Nat \ {0}
  <2> DEFINE A == M!Active
             V == M!Vehicles
  <2>1. A \in Seq(V) /\ A # <<>>
    BY ActiveIs
  <2> HIDE DEF A, V
  <2>2. Len(A) \in Nat \ {0}
    BY <2>1
  <2> QED BY <2>2 DEF A
<1>2. w \in 1 .. n
  BY <1>1, JobIs DEF M!Workers, M!Least
<1>3. \A i : M!Start(i) = (i - 1) * q + M!Least(i - 1, r)
  BY DEF M!Start
<1> HIDE DEF n
<1>4. w \in Nat \ {0}
  BY <1>1, <1>2
<1> HIDE DEF w
<1>5. q \in Nat /\ r \in 0 .. w - 1 /\ n = w * q + r
  BY <1>1, <1>4, Divided
<1> HIDE DEF q, r
<1>6. M!Start(1) = 0
  BY <1>3, <1>4, <1>5 DEF M!Least
<1>7. M!Start(w + 1) = n
  BY <1>3, <1>4, <1>5, w + 1 - 1 = w DEF M!Least
<1>8. ASSUME NEW i \in 1 .. w + 1 PROVE M!Start(i) \in 0 .. n
  <2> DEFINE p == i - 1
             d == w - p
  <2>1. p \in 0 .. w /\ d \in Nat /\ w = p + d
    BY <1>4
  <2>2. M!Start(i) = p * q + M!Least(p, r)
    BY <1>3
  <2> HIDE DEF p, d
  <2>3. w * q = p * q + d * q /\ p * q \in Nat /\ d * q \in Nat
    BY <1>5, <2>1, Z3
  <2>4. M!Least(p, r) \in 0 .. r
    BY <1>4, <1>5, <2>1 DEF M!Least
  <2> QED BY <1>4, <1>5, <2>2, <2>3, <2>4
<1>9. ASSUME NEW i \in 1 .. w PROVE M!Start(i) <= M!Start(i + 1)
  <2> DEFINE p == i - 1
  <2>1. p \in Nat /\ i + 1 - 1 = p + 1
    BY <1>4
  <2>2. M!Start(i) = p * q + M!Least(p, r) /\ M!Start(i + 1) = (p + 1) * q + M!Least(p + 1, r)
    BY <1>3, <2>1
  <2> HIDE DEF p
  <2>3. (p + 1) * q = p * q + q /\ p * q \in Nat
    BY <1>5, <2>1, Z3
  <2>4. M!Least(p, r) <= M!Least(p + 1, r) /\ M!Least(p, r) \in Int /\ M!Least(p + 1, r) \in Int
    BY <1>4, <1>5, <2>1 DEF M!Least
  <2> QED BY <1>5, <2>2, <2>3, <2>4
<1> QED BY <1>2, <1>6, <1>7, <1>8, <1>9 DEF n, w

\* The rows up to a chunk's end are those up to its beginning and its own.
LEMMA UntilIs ==
  ASSUME v1 \in Jobs, v1.workers >= 1, M!Active # <<>>, NEW a \in M!Artifacts
  PROVE  /\ M!Until(1, a) = <<>> /\ M!Until(M!Workers + 1, a) = M!Whole(a)
         /\ \A i \in 1 .. M!Workers : /\ M!Chunk(i) \in Seq(M!Vehicles)
                                      /\ M!Until(i + 1, a) = M!Until(i, a) \o M!OfVehicles(M!Chunk(i), a)
<1> DEFINE A == M!Active
           V == M!Vehicles
           n == Len(A)
           Start(i) == M!Start(i)
           w == M!Workers
<1>1. A \in Seq(V) /\ M!OfVehicles(A, a) = M!Whole(a)
  BY ActiveIs
<1>2. /\ w \in 1 .. n /\ Start(1) = 0 /\ Start(w + 1) = n
      /\ \A i \in 1 .. w + 1 : Start(i) \in 0 .. n
      /\ \A i \in 1 .. w : Start(i) <= Start(i + 1)
  BY Starts
<1>3. /\ \A i : M!Until(i, a) = M!OfVehicles(SubSeq(A, 1, Start(i)), a)
      /\ \A i : M!Chunk(i) = SubSeq(A, Start(i) + 1, Start(i + 1))
  BY DEF M!Until, M!Chunk
<1>4. n \in Nat
  <2> HIDE DEF A, V
  <2> QED BY <1>1
<1> HIDE DEF A, V, Start, w
<1>5. SubSeq(A, 1, 0) = <<>> /\ SubSeq(A, 1, n) = A
  BY <1>1
<1>6. M!Until(1, a) = <<>>
  BY <1>2, <1>3, <1>5, OfVehiclesNone
<1>7. M!Until(w + 1, a) = M!Whole(a)
  BY <1>1, <1>2, <1>3, <1>5
<1>8. ASSUME NEW i \in 1 .. w
      PROVE  /\ M!Chunk(i) \in Seq(V)
             /\ M!Until(i + 1, a) = M!Until(i, a) \o M!OfVehicles(M!Chunk(i), a)
  <2> DEFINE k == Start(i)
             m == Start(i + 1)
             first == SubSeq(A, 1, k)
             chunk == SubSeq(A, k + 1, m)
  <2>1. k \in 0 .. n /\ m \in 0 .. n /\ k <= m
    <3>1. i \in 1 .. w + 1 /\ i + 1 \in 1 .. w + 1 /\ w \in Nat
      BY <1>2, <1>4
    <3> QED BY <1>2, <3>1
  <2> HIDE DEF k, m
  <2>2. 1 \in 1 .. n + 1 /\ k \in 1 - 1 .. n /\ m \in k .. n
    BY <1>4, <2>1
  <2>3. SubSeq(A, 1, k) \o SubSeq(A, k + 1, m) = SubSeq(A, 1, m)
    BY <1>1, <2>2, ConcatAdjacentSubSeq
  <2>4. first \in Seq(V) /\ chunk \in Seq(V)
    BY <1>1, <1>4, <2>1
  <2>5. M!OfVehicles(first \o chunk, a) = M!OfVehicles(first, a) \o M!OfVehicles(chunk, a)
    <3> HIDE DEF first, chunk
    <3> QED BY <2>4, OfVehiclesBoth DEF V
  <2>6. M!OfVehicles(first \o chunk, a) = M!OfVehicles(SubSeq(A, 1, m), a)
    BY <2>3
  <2>7. M!Chunk(i) = chunk /\ M!Until(i, a) = M!OfVehicles(first, a) /\ M!Until(i + 1, a) = M!OfVehicles(SubSeq(A, 1, m), a)
    BY <1>3 DEF k, m
  <2> QED BY <2>4, <2>5, <2>6, <2>7
<1> QED BY <1>6, <1>7, <1>8 DEF w, V

--------------------------------------------------------------------------------
(* row groups *)

LEMMA RowGroups == RowGroup \in Nat \ {0}
BY RunHolds DEF M!RunAssumption

\* Full groups and what is left are the rows again.
LEMMA GroupsAre ==
  ASSUME NEW X, NEW rows \in Seq(X)
  PROVE  /\ M!Groups(rows) \in Seq(Seq(X)) /\ \A g \in DOMAIN M!Groups(rows) : Len(M!Groups(rows)[g]) = RowGroup
         /\ M!Rest(rows) \in Seq(X) /\ Len(M!Rest(rows)) < RowGroup
         /\ M!Joined(M!Groups(rows)) \o M!Rest(rows) = rows
<1> DEFINE n == Len(rows)
           G == RowGroup
           q == n \div G
           W(m) == m * G
           part(g) == SubSeq(rows, (g - 1) * G + 1, g * G)
           upto(m) == [g \in 1 .. m |-> part(g)]
           St == Seq(X)
<1>1. n \in Nat /\ G \in Nat \ {0}
  BY RowGroups
<1>2. M!Groups(rows) = upto(q) /\ M!Rest(rows) = SubSeq(rows, W(q) + 1, n)
  BY DEF M!Groups, M!Rest
<1> HIDE DEF n
<1>3. q \in Nat /\ n % G \in 0 .. G - 1 /\ n = W(q) + (n % G)
  <2> DEFINE r == n % G
  <2>1. q \in Nat /\ r \in 0 .. G - 1 /\ n = G * q + r
    BY <1>1, Divided
  <2> HIDE DEF q, r
  <2>2. G * q = W(q)
    BY <1>1, <2>1
  <2> QED BY <2>1, <2>2 DEF r
<1> HIDE DEF q
<1>4. W(0) = 0 /\ \A m \in Nat : W(m) \in Nat /\ W(m + 1) = W(m) + G /\ (m <= q => W(m) <= W(q))
  <2>1. W(0) = 0
    BY <1>1
  <2>2. ASSUME NEW m \in Nat PROVE W(m) \in Nat /\ W(m + 1) = W(m) + G /\ (m <= q => W(m) <= W(q))
    <3>1. W(m) \in Nat
      BY <1>1
    <3>2. W(m + 1) = W(m) + G
      BY <1>1, Z3
    <3>3. ASSUME m <= q PROVE W(m) <= W(q)
      <4> DEFINE d == q - m
      <4>1. d \in Nat /\ q = m + d
        BY <1>3, <3>3
      <4> HIDE DEF d
      <4>2. (m + d) * G = m * G + d * G /\ d * G \in Nat
        BY <1>1, <4>1, Z3
      <4> QED BY <1>1, <4>1, <4>2
    <3> QED BY <3>1, <3>2, <3>3
  <2> QED BY <2>1, <2>2
<1>5. ASSUME NEW m \in Nat, m + 1 <= q
      PROVE  part(m + 1) = SubSeq(rows, W(m) + 1, W(m + 1)) /\ part(m + 1) \in St /\ Len(part(m + 1)) = G
  <2>1. W(m) \in Nat /\ W(m + 1) = W(m) + G /\ W(m + 1) <= n
    <3>0. m + 1 \in Nat /\ m + 1 <= q
      BY <1>5
    <3> HIDE DEF W
    <3>1. W(m + 1) <= W(q) /\ W(m) \in Nat /\ W(m + 1) = W(m) + G /\ W(q) \in Nat /\ W(m + 1) \in Nat
      BY <1>3, <1>4, <3>0
    <3> QED BY <1>1, <1>3, <3>1
  <2>2. part(m + 1) = SubSeq(rows, W(m) + 1, W(m + 1))
    <3> DEFINE k == m + 1
    <3>1. k - 1 = m
      OBVIOUS
    <3> HIDE DEF k
    <3>2. part(k) = SubSeq(rows, W(k - 1) + 1, W(k))
      OBVIOUS
    <3> HIDE DEF part, W
    <3> QED BY <3>1, <3>2 DEF k
  <2> DEFINE i == W(m)
             j == W(m + 1)
  <2> HIDE DEF i, j
  <2>3. i \in Nat /\ j = i + G /\ j <= n
    BY <2>1 DEF i, j
  <2>4. SubSeq(rows, i + 1, j) \in St /\ Len(SubSeq(rows, i + 1, j)) = G
    <3>1. \A k \in i + 1 .. j : rows[k] \in X
      BY <1>1, <2>3 DEF n
    <3>2. SubSeq(rows, i + 1, j) \in Seq(X) /\ Len(SubSeq(rows, i + 1, j)) = IF i + 1 <= j THEN j - (i + 1) + 1 ELSE 0
      BY <1>1, <2>3, <3>1, SubSeqProperties
    <3> QED BY <1>1, <2>3, <3>2
  <2> QED BY <2>2, <2>4 DEF i, j
<1>6. \A g \in 1 .. q : part(g) \in St /\ Len(part(g)) = G
  <2> SUFFICES ASSUME NEW g \in 1 .. q PROVE part(g) \in St /\ Len(part(g)) = G
    OBVIOUS
  <2> DEFINE m == g - 1
  <2>1. m \in Nat /\ m + 1 <= q /\ m + 1 = g
    BY <1>3
  <2> HIDE DEF m, part, St
  <2> QED BY <1>5, <2>1
<1> DEFINE P(m) == upto(m) \in Seq(St) /\ M!Joined(upto(m)) = SubSeq(rows, 1, W(m))
           T == {m \in Nat : m <= q => P(m)}
<1>7. 0 \in T
  <2>1. upto(0) = <<>> /\ SubSeq(rows, 1, 0) = <<>>
    OBVIOUS
  <2>2. W(0) = 0 /\ <<>> \in Seq(St)
    BY <1>4
  <2> HIDE DEF upto, W, St
  <2>3. P(0)
    BY <2>1, <2>2, JoinedNone
  <2> HIDE DEF P
  <2> QED BY <2>3
<1>8. ASSUME NEW m \in Nat, m \in T PROVE m + 1 \in T
  <2> SUFFICES ASSUME m + 1 <= q PROVE P(m + 1)
    <3> HIDE DEF P
    <3> QED OBVIOUS
  <2>1. upto(m) \in Seq(St) /\ M!Joined(upto(m)) = SubSeq(rows, 1, W(m))
    <3> HIDE DEF P
    <3>1. m <= q
      BY <1>3
    <3>2. P(m)
      BY <1>8, <3>1
    <3> QED BY <3>2 DEF P
  <2>2. part(m + 1) = SubSeq(rows, W(m) + 1, W(m + 1)) /\ part(m + 1) \in St
    BY <1>5
  <2>3. upto(m + 1) = Append(upto(m), part(m + 1)) /\ upto(m + 1) \in Seq(St)
    <3> HIDE DEF part, St
    <3>1. Len(upto(m)) = m /\ \A g \in 1 .. m : upto(m)[g] = part(g)
      OBVIOUS
    <3>2. upto(m + 1) \in Seq(St) /\ Len(upto(m + 1)) = m + 1 /\ \A g \in 1 .. m + 1 : upto(m + 1)[g] = part(g)
      BY <1>3, <1>6
    <3> HIDE DEF upto
    <3>3. Append(upto(m), part(m + 1)) \in Seq(St) /\ Len(Append(upto(m), part(m + 1))) = m + 1
      BY <2>1, <2>2, <3>1
    <3>4. \A g \in 1 .. m + 1 : upto(m + 1)[g] = Append(upto(m), part(m + 1))[g]
      BY <2>1, <2>2, <3>1, <3>2
    <3> QED BY <3>2, <3>3, <3>4, SeqEqual
  <2> HIDE DEF upto, part
  <2>4. M!Joined(upto(m + 1)) = M!Joined(upto(m)) \o part(m + 1)
    BY <2>1, <2>2, <2>3, JoinedMore
  <2>5. 1 \in 1 .. n + 1 /\ W(m) \in 1 - 1 .. n /\ W(m + 1) \in W(m) .. n
    <3>0. m + 1 \in Nat /\ m + 1 <= q
      OBVIOUS
    <3> HIDE DEF W
    <3>1. W(m + 1) <= W(q) /\ W(m) \in Nat /\ W(m + 1) = W(m) + G /\ W(q) \in Nat /\ W(m + 1) \in Nat
      BY <1>3, <1>4, <3>0
    <3> QED BY <1>1, <1>3, <3>1
  <2> HIDE DEF W
  <2>6. SubSeq(rows, 1, W(m)) \o SubSeq(rows, W(m) + 1, W(m + 1)) = SubSeq(rows, 1, W(m + 1))
    <3> DEFINE i == W(m)
               j == W(m + 1)
    <3>1. i \in 1 - 1 .. Len(rows) /\ j \in i .. Len(rows) /\ 1 \in 1 .. Len(rows) + 1
      BY <2>5 DEF n
    <3> HIDE DEF i, j
    <3>2. SubSeq(rows, 1, i) \o SubSeq(rows, i + 1, j) = SubSeq(rows, 1, j)
      BY <3>1, ConcatAdjacentSubSeq
    <3> QED BY <3>2 DEF i, j
  <2> QED BY <2>1, <2>2, <2>3, <2>4, <2>6
<1>9. Nat \subseteq T
  <2> HIDE DEF T
  <2> QED BY <1>7, <1>8, NatInd
<1>10. upto(q) \in Seq(St) /\ M!Joined(upto(q)) = SubSeq(rows, 1, W(q))
  <2> HIDE DEF P
  <2>1. q \in T /\ q <= q
    BY <1>3, <1>9
  <2>2. P(q)
    BY <2>1
  <2> QED BY <2>2 DEF P
<1>11. \A g \in DOMAIN upto(q) : Len(upto(q)[g]) = G
  BY <1>6
<1> HIDE DEF upto, part, T
<1>12. W(q) \in 0 .. n
  <2>1. W(q) \in Nat
    BY <1>3, <1>4
  <2> HIDE DEF W
  <2> QED BY <1>1, <1>3, <2>1
<1>13. /\ SubSeq(rows, W(q) + 1, n) \in Seq(X) /\ Len(SubSeq(rows, W(q) + 1, n)) < G
       /\ SubSeq(rows, 1, W(q)) \o SubSeq(rows, W(q) + 1, n) = rows
  <2> DEFINE i == W(q)
  <2>1. i \in 0 .. n /\ n - i < G /\ n \in i .. n
    <3> HIDE DEF W
    <3> QED BY <1>1, <1>3, <1>12
  <2> HIDE DEF i
  <2>2. \A k \in i + 1 .. n : rows[k] \in X
    BY <1>1, <2>1 DEF n
  <2>3. SubSeq(rows, i + 1, n) \in Seq(X) /\ Len(SubSeq(rows, i + 1, n)) = IF i + 1 <= n THEN n - (i + 1) + 1 ELSE 0
    BY <1>1, <2>1, <2>2, SubSeqProperties
  <2>4. SubSeq(rows, 1, i) \o SubSeq(rows, i + 1, Len(rows)) = SubSeq(rows, 1, Len(rows))
    <3>1. 1 \in 1 .. Len(rows) + 1 /\ i \in 1 - 1 .. Len(rows) /\ Len(rows) \in i .. Len(rows)
      BY <1>1, <2>1 DEF n
    <3> QED BY <3>1, ConcatAdjacentSubSeq
  <2>5. SubSeq(rows, 1, Len(rows)) = rows
    OBVIOUS
  <2>6. Len(SubSeq(rows, i + 1, n)) < G
    BY <1>1, <2>1, <2>3
  <2> QED BY <2>3, <2>4, <2>5, <2>6 DEF i, n
<1> HIDE DEF W
<1> QED BY <1>2, <1>10, <1>11, <1>13 DEF St

\* _merge_stop_alignment_shards: rows that are held over from batch to batch are full
\* groups, and all of the rows in their order.
LEMMA RegroupedIs ==
  ASSUME NEW a \in M!Artifacts, M!Batches(a) \in Seq(Seq(M!Rows))
  PROVE  /\ M!Regrouped(a) \in Seq(Seq(M!Rows))
         /\ M!Joined(M!Regrouped(a)) = M!Joined(M!Batches(a))
         /\ \A g \in DOMAIN M!Regrouped(a) :
              Len(M!Regrouped(a)[g]) = RowGroup \/ (g = Len(M!Regrouped(a)) /\ M!Regrouped(a)[g] # <<>>)
<1> DEFINE X == M!Rows
           St == Seq(X)
           bs == M!Batches(a)
           n == Len(bs)
           S == [groups : Seq(St), rows : St]
           base == [groups |-> <<>>, rows |-> <<>>]
           T(m, b) == LET rows == m.rows \o b
                      IN  [groups |-> m.groups \o M!Groups(rows), rows |-> M!Rest(rows)]
           g == [p \in S \X St |-> T(p[1], p[2])]
           Z == 0 .. Len(bs)
           e(f, i) == IF i = 0 THEN base ELSE CHOOSE r \in {T(s, bs[i]) : s \in {f[i - 1]}} : TRUE
           after == CHOOSE f : f = [i \in Z |-> e(f, i)]
<1>0. bs \in Seq(St)
  OBVIOUS
<1> HIDE DEF X, bs
<1>1. n \in Nat /\ Z = 0 .. n /\ \A i \in 1 .. n : bs[i] \in St
  <2> HIDE DEF St
  <2> QED BY <1>0
<1>2. ASSUME NEW m \in S, NEW b \in St
      PROVE  LET rows == m.rows \o b
             IN  /\ rows \in St /\ M!Groups(rows) \in Seq(St) /\ M!Rest(rows) \in St
                 /\ \A k \in DOMAIN M!Groups(rows) : Len(M!Groups(rows)[k]) = RowGroup
                 /\ Len(M!Rest(rows)) < RowGroup
                 /\ M!Joined(M!Groups(rows)) \o M!Rest(rows) = rows
  <2> DEFINE rows == m.rows \o b
  <2>1. rows \in Seq(X)
    OBVIOUS
  <2> HIDE DEF rows
  <2> QED BY <2>1, GroupsAre DEF rows
<1>3. g \in [S \X St -> S] /\ base \in S
  <2>1. ASSUME NEW m \in S, NEW b \in St PROVE T(m, b) \in S
    <3> DEFINE rows == m.rows \o b
    <3>1. M!Groups(rows) \in Seq(St) /\ M!Rest(rows) \in St
      BY <1>2
    <3>2. m.groups \in Seq(St)
      OBVIOUS
    <3> HIDE DEF rows, St
    <3>3. m.groups \o M!Groups(rows) \in Seq(St)
      BY <3>1, <3>2
    <3> QED BY <3>1, <3>3 DEF rows
  <2>2. base \in S
    <3>1. <<>> \in St /\ <<>> \in Seq(St)
      OBVIOUS
    <3> HIDE DEF St
    <3> QED BY <3>1
  <2> HIDE DEF T, S, St, base
  <2>3. \A p \in S \X St : T(p[1], p[2]) \in S
    BY <2>1
  <2> QED BY <2>2, <2>3
<1>4. PICK f \in [Z -> S] : f[0] = base /\ \A i \in 1 .. n : f[i] = g[<<f[i - 1], bs[i]>>]
  <2> HIDE DEF g, S, base, St
  <2>1. \E f : Folded(f, S, g, base, bs)
    BY <1>0, <1>3, FoldExists
  <2> QED BY <2>1 DEF Folded
<1>5. ASSUME NEW i \in 1 .. n PROVE f[i] = T(f[i - 1], bs[i]) /\ f[i - 1] \in S /\ bs[i] \in St
  <2>1. i - 1 \in Z /\ bs[i] \in St
    BY <1>1
  <2> HIDE DEF S, T, St, Z
  <2>2. f[i - 1] \in S
    BY <1>4, <2>1
  <2>3. f[i] = g[<<f[i - 1], bs[i]>>] /\ <<f[i - 1], bs[i]>> \in S \X St
    BY <1>4, <2>1, <2>2
  <2> QED BY <2>1, <2>2, <2>3
<1>6. \A i \in Z : f[i] = e(f, i)
  <2> SUFFICES ASSUME NEW i \in Z, i # 0 PROVE f[i] = CHOOSE r \in {T(s, bs[i]) : s \in {f[i - 1]}} : TRUE
    BY <1>4
  <2>0. i \in 1 .. n
    BY <1>1
  <2>1. f[i] = T(f[i - 1], bs[i])
    BY <1>5, <2>0
  <2> HIDE DEF T
  <2> QED BY <2>1
<1>7. f = [i \in Z |-> e(f, i)]
  <2> HIDE DEF e, Z, S
  <2> QED BY <1>4, <1>6
<1>8. after = [i \in Z |-> e(after, i)]
  <2> HIDE DEF e, Z
  <2> QED BY <1>7
<1>9. M!Regrouped(a) = IF after[n].rows = <<>> THEN after[n].groups ELSE Append(after[n].groups, after[n].rows)
  BY DEF M!Regrouped, M!Fold, bs
<1>10. after[n] = f[n]
  <2>1. after[0] = f[0]
    <3>2. 0 \in Z
      BY <1>1
    <3>3. after[0] = e(after, 0)
      <4> HIDE DEF e, after, Z
      <4> QED BY <1>8, <3>2
    <3> HIDE DEF after
    <3> QED BY <1>4, <3>3
  <2>2. ASSUME NEW i \in 1 .. n, after[i - 1] = f[i - 1] PROVE after[i] = f[i]
    <3>1. i \in Z /\ i # 0
      BY <1>1
    <3>2. after[i] = e(after, i) /\ f[i] = e(f, i)
      <4> HIDE DEF e, after, Z
      <4> QED BY <1>6, <1>8, <3>1
    <3> HIDE DEF after, T, base
    <3> QED BY <2>2, <3>2
  <2> HIDE DEF after, n
  <2> QED BY <1>1, <2>1, <2>2, Agree
<1> HIDE DEF after, e, g
<1>11. PICK h \in [Z -> St] : h[0] = <<>> /\ (\A i \in 1 .. n : h[i] = h[i - 1] \o bs[i]) /\ M!Joined(bs) = h[n]
  BY <1>0, JoinedIs
<1> DEFINE Held(i) ==
             /\ f[i] \in S /\ M!Joined(f[i].groups) \o f[i].rows = h[i]
             /\ \A k \in DOMAIN f[i].groups : Len(f[i].groups[k]) = RowGroup
           H == {i \in Nat : i <= n => Held(i)}
<1>12. 0 \in H
  <2>1. 0 \in Z
    BY <1>1
  <2>2. f[0] \in S /\ f[0].groups = <<>> /\ f[0].rows = <<>> /\ h[0] = <<>>
    BY <1>4, <1>11, <2>1
  <2>3. M!Joined(f[0].groups) = <<>>
    BY <2>2, JoinedNone
  <2> HIDE DEF S
  <2>4. Held(0)
    BY <2>2, <2>3
  <2> HIDE DEF Held
  <2> QED BY <2>4
<1>13. ASSUME NEW m \in Nat, m \in H PROVE m + 1 \in H
  <2> SUFFICES ASSUME m + 1 <= n PROVE Held(m + 1)
    <3> HIDE DEF Held
    <3> QED OBVIOUS
  <2> DEFINE i == m + 1
             u == f[m].groups
             held == f[m].rows
             b == bs[i]
             rows == held \o b
  <2>1. i \in 1 .. n /\ i - 1 = m /\ i \in Z /\ m \in Z
    BY <1>1
  <2>2. Held(m)
    <3> HIDE DEF Held
    <3>1. m <= n
      BY <1>1
    <3> QED BY <1>13, <3>1
  <2> HIDE DEF i
  <2>3. f[i] = T(f[m], b) /\ f[m] \in S /\ b \in St
    BY <1>5, <2>1
  <2>4. f[i] \in S
    <3> HIDE DEF S, T, Z
    <3> QED BY <1>4, <2>1
  <2>5. /\ u \in Seq(St) /\ held \in St /\ rows \in St /\ M!Groups(rows) \in Seq(St) /\ M!Rest(rows) \in St
        /\ \A k \in DOMAIN M!Groups(rows) : Len(M!Groups(rows)[k]) = RowGroup
        /\ M!Joined(M!Groups(rows)) \o M!Rest(rows) = rows
    <3>1. u \in Seq(St) /\ held \in St
      BY <2>3
    <3> QED BY <1>2, <2>3, <3>1
  <2>6. f[i].groups = u \o M!Groups(rows) /\ f[i].rows = M!Rest(rows)
    <3>1. f[i] = T(f[m], b)
      BY <2>3
    <3>2. f[i] = [groups |-> u \o M!Groups(rows), rows |-> M!Rest(rows)]
      BY <3>1, Zenon
    <3> HIDE DEF u, rows
    <3> QED BY <3>2
  <2>7. h[i] = h[m] \o b /\ M!Joined(u) \o held = h[m]
    BY <1>11, <2>1, <2>2
  <2> HIDE DEF rows, u, held, b
  <2>8. M!Joined(u \o M!Groups(rows)) \o M!Rest(rows) = h[i]
    <3> DEFINE ju == M!Joined(u)
               jg == M!Joined(M!Groups(rows))
               r == M!Rest(rows)
    <3>1. M!Joined(u \o M!Groups(rows)) = Glued(ju, jg)
      BY <2>5, JoinedBoth DEF Glued
    <3>2. ju \in Seq(X) /\ jg \in Seq(X) /\ r \in Seq(X)
      BY <2>5, JoinedIn
    <3> HIDE DEF ju, jg, r
    <3>3. Glued(Glued(ju, jg), r) = Glued(ju, Glued(jg, r))
      BY <3>2, Associative
    <3>4. Glued(jg, r) = Glued(held, b)
      BY <2>5 DEF Glued, jg, r, rows
    <3>5. Glued(Glued(ju, held), b) = Glued(ju, Glued(held, b))
      BY <2>3, <2>5, <3>2, Associative DEF b
    <3>6. Glued(Glued(ju, held), b) = h[i]
      BY <2>7 DEF Glued, ju
    <3>7. M!Joined(u \o M!Groups(rows)) \o M!Rest(rows) = Glued(Glued(ju, jg), r)
      BY <3>1 DEF Glued, r
    <3> QED BY <3>3, <3>4, <3>5, <3>6, <3>7
  <2>9. \A k \in DOMAIN (u \o M!Groups(rows)) : Len((u \o M!Groups(rows))[k]) = RowGroup
    <3> DEFINE v == M!Groups(rows)
    <3>1. u \in Seq(St) /\ v \in Seq(St) /\ \A k \in DOMAIN u : Len(u[k]) = RowGroup
      BY <2>2, <2>5 DEF u
    <3>2. \A k \in DOMAIN v : Len(v[k]) = RowGroup
      BY <2>5
    <3> HIDE DEF v, St
    <3>3. DOMAIN u = 1 .. Len(u) /\ DOMAIN v = 1 .. Len(v) /\ Len(u) \in Nat /\ Len(v) \in Nat
      BY <3>1
    <3>4. /\ DOMAIN (u \o v) = 1 .. Len(u) + Len(v)
          /\ \A k \in 1 .. Len(u) + Len(v) : (u \o v)[k] = IF k <= Len(u) THEN u[k] ELSE v[k - Len(u)]
      BY <3>1
    <3>5. ASSUME NEW k \in 1 .. Len(u) + Len(v) PROVE Len((u \o v)[k]) = RowGroup
      <4>1. CASE k <= Len(u)
        <5>1. k \in DOMAIN u /\ (u \o v)[k] = u[k]
          BY <3>3, <3>4, <4>1
        <5> QED BY <3>1, <5>1
      <4>2. CASE ~(k <= Len(u))
        <5>1. k - Len(u) \in DOMAIN v /\ (u \o v)[k] = v[k - Len(u)]
          BY <3>3, <3>4, <4>2
        <5> QED BY <3>2, <5>1
      <4> QED BY <4>1, <4>2
    <3> QED BY <3>4, <3>5 DEF v
  <2>10. Held(i)
    BY <2>4, <2>6, <2>8, <2>9
  <2> HIDE DEF Held
  <2> QED BY <2>10 DEF i
<1>14. Nat \subseteq H
  <2> HIDE DEF H
  <2> QED BY <1>12, <1>13, NatInd
<1>15. Held(n)
  <2> HIDE DEF Held
  <2>1. n \in H /\ n <= n
    BY <1>1, <1>14
  <2> QED BY <2>1
<1> DEFINE u == f[n].groups
           r == f[n].rows
<1>16. /\ u \in Seq(St) /\ r \in St /\ M!Joined(u) \o r = M!Joined(bs)
       /\ \A k \in DOMAIN u : Len(u[k]) = RowGroup
  BY <1>11, <1>15
<1> HIDE DEF u, r, Held, H
<1>17. M!Regrouped(a) = IF r = <<>> THEN u ELSE Append(u, r)
  BY <1>9, <1>10 DEF u, r
<1>18. M!Joined(u) \in Seq(X)
  BY <1>16, JoinedIn
<1>19. CASE r = <<>>
  <2>1. M!Regrouped(a) = u
    BY <1>17, <1>19
  <2>2. M!Joined(u) \o r = M!Joined(u)
    BY <1>18, <1>19
  <2> QED BY <1>16, <2>1, <2>2 DEF X, bs
<1>20. CASE r # <<>>
  <2> DEFINE w == Append(u, r)
  <2>1. M!Regrouped(a) = w
    BY <1>17, <1>20
  <2>2. M!Joined(w) = M!Joined(u) \o r
    BY <1>16, JoinedMore
  <2>3. w \in Seq(St) /\ \A k \in DOMAIN w : Len(w[k]) = RowGroup \/ (k = Len(w) /\ w[k] # <<>>)
    <3> HIDE DEF St
    <3>1. w \in Seq(St) /\ Len(w) = Len(u) + 1 /\ DOMAIN w = 1 .. Len(u) + 1 /\ DOMAIN u = 1 .. Len(u) /\ Len(u) \in Nat
      BY <1>16
    <3>2. w[Len(u) + 1] = r /\ \A k \in 1 .. Len(u) : w[k] = u[k]
      BY <1>16
    <3> HIDE DEF w
    <3>3. ASSUME NEW k \in DOMAIN w PROVE Len(w[k]) = RowGroup \/ (k = Len(w) /\ w[k] # <<>>)
      <4>1. CASE k = Len(u) + 1
        BY <1>20, <3>1, <3>2, <4>1
      <4>2. CASE k # Len(u) + 1
        <5>1. k \in DOMAIN u /\ w[k] = u[k]
          BY <3>1, <3>2, <4>2
        <5> QED BY <1>16, <5>1
      <4> QED BY <4>1, <4>2
    <3> QED BY <3>1, <3>3
  <2> HIDE DEF w
  <2> QED BY <1>16, <2>1, <2>2, <2>3 DEF X, bs
<1> QED BY <1>19, <1>20

--------------------------------------------------------------------------------
(* what a run's day decides *)

LEMMA JobStands ==
  ASSUME v1' = v1
  PROVE  /\ M!Vehicles' = M!Vehicles /\ M!CourseKeys' = M!CourseKeys
         /\ \A v : M!Normalized(v)' = M!Normalized(v)
         /\ \A v : M!Accepted(v)' = M!Accepted(v)
         /\ \A c, a : M!RowsOf(c, a)' = M!RowsOf(c, a)
         /\ \A cs, a : M!OfCourses(cs, a)' = M!OfCourses(cs, a)
         /\ \A vs, a : M!OfVehicles(vs, a)' = M!OfVehicles(vs, a)
         /\ M!Active' = M!Active /\ M!Workers' = M!Workers
         /\ \A a : M!Whole(a)' = M!Whole(a)
         /\ \A i, a : M!Until(i, a)' = M!Until(i, a)
<1>1. M!Vehicles' = M!Vehicles /\ M!CourseKeys' = M!CourseKeys
  BY DEF M!Vehicles, M!CourseKeys
<1>2. \A v : M!Normalized(v)' = M!Normalized(v)
  BY DEF M!Normalized
<1>3. \A v : M!Accepted(v)' = M!Accepted(v)
  BY DEF M!Accepted, M!Normalized, M!Elements, M!Fold
<1>4. \A c, a : M!RowsOf(c, a)' = M!RowsOf(c, a)
  BY DEF M!RowsOf
<1>5. ASSUME NEW cs, NEW a PROVE M!OfCourses(cs, a)' = M!OfCourses(cs, a)
  <2>1. [k \in DOMAIN cs |-> M!RowsOf(cs[k], a)'] = [k \in DOMAIN cs |-> M!RowsOf(cs[k], a)]
    BY <1>4
  <2> QED BY <2>1 DEF M!OfCourses
<1>6. ASSUME NEW vs, NEW a PROVE M!OfVehicles(vs, a)' = M!OfVehicles(vs, a)
  BY <1>3, <1>4 DEF M!OfVehicles, M!OfCourses
<1>7. M!Active' = M!Active
  BY DEF M!Active, M!Vehicles, M!Accepted, M!Normalized, M!Elements, M!Fold
<1>8. M!Workers' = M!Workers
  BY <1>7 DEF M!Workers
<1>9. ASSUME NEW a PROVE M!Whole(a)' = M!Whole(a)
  BY <1>1, <1>6 DEF M!Whole
<1>10. ASSUME NEW i, NEW a PROVE M!Until(i, a)' = M!Until(i, a)
  BY <1>6, <1>7, <1>8 DEF M!Until, M!Start
<1> QED BY <1>1, <1>2, <1>3, <1>4, <1>5, <1>6, <1>7, <1>8, <1>9, <1>10

--------------------------------------------------------------------------------
(* one action at a time *)

\* The directory's names.
LEMMA FilesStep == ASSUME M!FilesInv, M!Next PROVE M!FilesInv'
<1> USE DEF M!FilesInv
<1>1. CASE M!Enter
  BY <1>1 DEF M!Enter
<1>2. CASE M!PrepareSchedule
  BY <1>2 DEF M!PrepareSchedule, M!Prepared, M!Results, M!Outputs, M!Artifacts
<1>3. CASE M!Normalize
  BY <1>3 DEF M!Normalize, M!Prepared, M!Results, M!Outputs, M!Artifacts
<1>4. CASE M!Evidence
  BY <1>4 DEF M!Evidence, M!Private
<1>5. CASE M!SettleDuties
  BY <1>5 DEF M!SettleDuties, M!Private, M!Prepared, M!Results, M!Outputs, M!Artifacts
<1>6. CASE M!WriteInputs
  BY <1>6 DEF M!WriteInputs, M!Withdrawn, M!Prepared, M!Results, M!Outputs, M!Artifacts
<1>7. CASE M!Submit \/ M!AlignCourse \/ M!Collect
  BY <1>7 DEF M!Submit, M!AlignCourse, M!Collect, M!Withdrawn
<1>8. CASE M!NextVehicle
  BY <1>8 DEF M!NextVehicle, M!Fail, M!Withdrawn
<1>9. CASE M!Merge
  BY <1>9 DEF M!Merge
<1>10. CASE M!BuildFacts
  BY <1>10 DEF M!BuildFacts, M!Outputs
<1>11. CASE M!WriteManifest
  BY <1>11 DEF M!WriteManifest, M!Prepared, M!Results, M!Outputs, M!Artifacts
<1>12. CASE M!Publish \/ M!CopyMetrics \/ M!Raise \/ M!Die
  BY <1>12 DEF M!Publish, M!CopyMetrics, M!Raise, M!Die, M!Fail
<1>13. CASE M!Again
  BY <1>13 DEF M!Again
<1>14. CASE UNCHANGED M!vars
  BY <1>14 DEF M!vars, M!Withdrawn
<1> QED BY <1>1, <1>2, <1>3, <1>4, <1>5, <1>6, <1>7, <1>8, <1>9, <1>10, <1>11, <1>12, <1>13, <1>14 DEF M!Next

\* What the chunks collected so far and the worker hold.
LEMMA BatchesAre ==
  ASSUME v7 \in Seq([M!Artifacts -> Seq(Seq(M!Rows))]), NEW a \in M!Artifacts
  PROVE  M!Batches(a) \in Seq(Seq(M!Rows)) /\ M!Collected(a) \in Seq(M!Rows)
<1> DEFINE X == M!Rows
           St == Seq(X)
           SSt == Seq(St)
           s == [i \in DOMAIN v7 |-> v7[i][a]]
<1>0. v7 \in Seq([M!Artifacts -> SSt])
  OBVIOUS
<1>1. s \in Seq(SSt)
  <2> HIDE DEF SSt
  <2>1. Len(v7) \in Nat /\ DOMAIN v7 = 1 .. Len(v7) /\ \A i \in DOMAIN v7 : v7[i] \in [M!Artifacts -> SSt]
    BY <1>0
  <2>2. \A i \in 1 .. Len(v7) : v7[i][a] \in SSt
    BY <2>1
  <2> QED BY <2>1, <2>2
<1>2. M!Batches(a) = M!Joined(s)
  BY DEF M!Batches
<1> HIDE DEF s, X, St
<1>3. M!Joined(s) \in SSt
  BY <1>1, JoinedIn
<1>4. M!Batches(a) \in Seq(Seq(X))
  BY <1>2, <1>3 DEF St
<1>5. M!Joined(M!Batches(a)) \in Seq(X)
  BY <1>4, JoinedIn
<1> QED BY <1>4, <1>5 DEF M!Collected, X

\* A chunk that is collected is joined after those before it.
LEMMA BatchesMore ==
  ASSUME v7 \in Seq([M!Artifacts -> Seq(Seq(M!Rows))]), NEW chunk \in [M!Artifacts -> Seq(Seq(M!Rows))],
         v7' = Append(v7, chunk), NEW a \in M!Artifacts
  PROVE  M!Collected(a)' = M!Collected(a) \o M!Joined(chunk[a])
<1> DEFINE X == M!Rows
           St == Seq(X)
           SSt == Seq(St)
           s == [i \in DOMAIN v7 |-> v7[i][a]]
           t == [i \in DOMAIN Append(v7, chunk) |-> Append(v7, chunk)[i][a]]
<1>0. v7 \in Seq([M!Artifacts -> SSt]) /\ chunk \in [M!Artifacts -> SSt]
  OBVIOUS
<1>1. s \in Seq(SSt) /\ chunk[a] \in SSt /\ t = Append(s, chunk[a])
  <2> HIDE DEF SSt
  <2>1. s \in Seq(SSt) /\ chunk[a] \in SSt
    <3>1. Len(v7) \in Nat /\ DOMAIN v7 = 1 .. Len(v7) /\ \A i \in DOMAIN v7 : v7[i] \in [M!Artifacts -> SSt]
      BY <1>0
    <3>2. \A i \in 1 .. Len(v7) : v7[i][a] \in SSt
      BY <3>1
    <3> QED BY <1>0, <3>1, <3>2
  <2>2. Len(v7) \in Nat /\ DOMAIN v7 = 1 .. Len(v7) /\ DOMAIN Append(v7, chunk) = 1 .. Len(v7) + 1
    OBVIOUS
  <2>3. /\ \A i \in 1 .. Len(v7) + 1 : Append(v7, chunk)[i] = IF i <= Len(v7) THEN v7[i] ELSE chunk
        /\ Append(v7, chunk) \in Seq([M!Artifacts -> SSt])
    BY <1>0
  <2>4. t \in Seq(SSt) /\ Len(t) = Len(v7) + 1
    BY <2>2, <2>3
  <2>5. Len(s) = Len(v7) /\ Append(s, chunk[a]) \in Seq(SSt) /\ Len(Append(s, chunk[a])) = Len(v7) + 1
    BY <2>1, <2>2
  <2>6. \A i \in 1 .. Len(v7) + 1 : t[i] = Append(s, chunk[a])[i]
    BY <2>1, <2>2, <2>3, <2>5
  <2> HIDE DEF s, t
  <2> QED BY <2>1, <2>4, <2>5, <2>6, SeqEqual
<1>2. M!Batches(a) = M!Joined(s) /\ M!Batches(a)' = M!Joined(t)
  BY DEF M!Batches
<1> HIDE DEF s, t, X
<1>3. M!Joined(t) = M!Joined(s) \o chunk[a] /\ M!Joined(s) \in SSt
  <2> HIDE DEF St
  <2> QED BY <1>1, JoinedMore
<1> DEFINE u == M!Joined(s)
           w == chunk[a]
           both == u \o w
<1>4. M!Joined(both) = M!Joined(u) \o M!Joined(w)
  <2> HIDE DEF u, w
  <2>1. u \in Seq(Seq(X)) /\ w \in Seq(Seq(X))
    BY <1>1, <1>3 DEF u, w
  <2> QED BY <2>1, JoinedBoth
<1>5. M!Collected(a)' = M!Joined(both)
  <2>1. M!Batches(a)' = both
    BY <1>2, <1>3
  <2> HIDE DEF both
  <2> QED BY <2>1 DEF M!Collected
<1> QED BY <1>2, <1>4, <1>5 DEF M!Collected

Early == {"enter", "schedule", "normalize", "evidence", "settle", "align"}
Chunks == Seq([M!Artifacts -> Seq(Seq(M!Rows))])
Workings == [todo : Seq(M!Vehicles), courses : Seq(M!CourseKeys), rows : [M!Artifacts -> Seq(M!Rows)],
             written : [M!Artifacts -> Seq(Seq(M!Rows))]]

LEMMA SmallSteps ==
  ASSUME v1' = v1, v7' = v7, M!ShardsInv, v3' \notin {"submit", "run", "merge"}, v3' \in Early => v7 = <<>>
  PROVE  M!ShardsInv'
BY DEF M!ShardsInv, Early

LEMMA WriteInputsKeeps == ASSUME v1 \in Jobs, M!ShardsInv, M!OutputInv, M!WriteInputs PROVE M!ShardsInv'
<1>1. v3 = "align" /\ v7 = <<>> /\ v7' = v7 /\ v1' = v1 /\ v1.workers >= 1
  BY DEF M!WriteInputs, M!ShardsInv, M!OutputInv
<1>2. \A a \in M!Artifacts : M!Collected(a)' = <<>>
  <2> SUFFICES ASSUME NEW a \in M!Artifacts PROVE M!Collected(a)' = <<>>
    OBVIOUS
  <2>1. [i \in DOMAIN v7 |-> v7[i][a]]' = <<>>
    BY <1>1
  <2>2. M!Batches(a)' = <<>>
    BY <2>1, JoinedNone DEF M!Batches
  <2> QED BY <2>2, JoinedNone DEF M!Collected
<1>3. CASE M!Active = <<>>
  <2>1. v3' = "merge"
    BY <1>3 DEF M!WriteInputs
  <2>2. \A a \in M!Artifacts : M!Whole(a)' = <<>>
    <3> SUFFICES ASSUME NEW a \in M!Artifacts PROVE M!Whole(a) = <<>>
      BY <1>1, JobStands
    <3> QED BY <1>3, ActiveIs, OfVehiclesNone
  <2> QED BY <1>1, <1>2, <2>1, <2>2 DEF M!ShardsInv
<1>4. CASE M!Active # <<>>
  <2>1. v3' = "submit"
    BY <1>4 DEF M!WriteInputs
  <2>2. M!Active' # <<>> /\ Len(v7') = 0 /\ 0 < M!Workers' /\ 0 + 1 = 1
    <3>1. M!Workers \in 1 .. Len(M!Active)
      BY <1>1, <1>4, Starts
    <3> QED BY <1>1, <1>4, <3>1, JobStands
  <2>3. \A a \in M!Artifacts : M!Until(1, a)' = <<>>
    BY <1>1, <1>4, UntilIs, JobStands
  <2>4. \A a \in M!Artifacts : M!Collected(a)' = M!Until(Len(v7) + 1, a)'
    <3> SUFFICES ASSUME NEW a \in M!Artifacts PROVE M!Collected(a)' = M!Until(Len(v7) + 1, a)'
      OBVIOUS
    <3>1. M!Until(Len(v7) + 1, a)' = M!Until(1, a)'
      <4>1. Len(v7') + 1 = 1
        BY <2>2
      <4> QED BY <4>1 DEF M!Until
    <3> QED BY <1>2, <2>3, <3>1
  <2> QED BY <1>1, <2>1, <2>2, <2>4 DEF M!ShardsInv
<1> QED BY <1>3, <1>4

\* What is still to come, in one piece.
LEMMA ComingIn ==
  ASSUME v1 \in Jobs, v6 \in Workings, NEW a \in M!Artifacts
  PROVE  /\ v6.todo \in Seq(M!Vehicles) /\ v6.courses \in Seq(M!CourseKeys)
         /\ v6.rows[a] \in Seq(M!Rows) /\ v6.written[a] \in Seq(Seq(M!Rows)) /\ M!Joined(v6.written[a]) \in Seq(M!Rows)
         /\ M!OfCourses(v6.courses, a) \in Seq(M!Rows) /\ M!OfVehicles(v6.todo, a) \in Seq(M!Rows)
<1>1. /\ v6.todo \in Seq(M!Vehicles) /\ v6.courses \in Seq(M!CourseKeys)
      /\ v6.rows[a] \in Seq(M!Rows) /\ v6.written[a] \in Seq(Seq(M!Rows))
  BY DEF Workings
<1>2. M!Joined(v6.written[a]) \in Seq(M!Rows)
  BY <1>1, JoinedIn
<1> QED BY <1>1, <1>2, OfCoursesIn, OfVehiclesIn

LEMMA GluedIn == ASSUME NEW X, NEW r \in Seq(X), NEW s \in Seq(X) PROVE Glued(r, s) \in Seq(X)
BY DEF Glued

LEMMA SubmitKeeps == ASSUME v1 \in Jobs, M!ShardsInv, M!OutputInv, M!Submit PROVE M!ShardsInv'
<1>0. PICK n, chunk : n = Len(v7) /\ chunk = M!Chunk(n + 1)
  OBVIOUS
<1>1. /\ v3 = "submit" /\ v3' = "run" /\ v7' = v7 /\ v1' = v1 /\ v1.workers >= 1 /\ n < M!Workers /\ M!Active # <<>>
      /\ v6' = [todo |-> chunk, courses |-> <<>>, rows |-> M!NoRows, written |-> M!NoRows]
      /\ v7 \in Chunks /\ \A a \in M!Artifacts : M!Collected(a) = M!Until(n + 1, a)
  BY <1>0 DEF M!Submit, M!ShardsInv, M!OutputInv, Chunks
<1>2. n \in Nat /\ M!Workers \in Nat /\ n + 1 \in 1 .. M!Workers
  <2>1. n \in Nat
    BY <1>0, <1>1 DEF Chunks
  <2>2. M!Workers \in 1 .. Len(M!Active)
    BY <1>1, Starts
  <2> QED BY <1>1, <2>1, <2>2
<1>3. chunk \in Seq(M!Vehicles) /\ \A a \in M!Artifacts : M!Until(n + 1 + 1, a) = M!Until(n + 1, a) \o M!OfVehicles(chunk, a)
  <2> DEFINE k == n + 1
  <2>1. k \in 1 .. M!Workers /\ chunk = M!Chunk(k)
    BY <1>0, <1>2
  <2> HIDE DEF k
  <2>2. chunk \in Seq(M!Vehicles) /\ \A a \in M!Artifacts : M!Until(k + 1, a) = M!Until(k, a) \o M!OfVehicles(chunk, a)
    <3>1. v1.workers >= 1 /\ M!Active # <<>>
      BY <1>1
    <3>2. ASSUME NEW a \in M!Artifacts
          PROVE  M!Chunk(k) \in Seq(M!Vehicles) /\ M!Until(k + 1, a) = M!Until(k, a) \o M!OfVehicles(M!Chunk(k), a)
      BY <2>1, <3>1, UntilIs
    <3>3. "operational" \in M!Artifacts
      BY DEF M!Artifacts
    <3> QED BY <2>1, <3>2, <3>3
  <2> QED BY <2>2 DEF k
<1>4. v6' \in Workings
  <2>1. <<>> \in Seq(M!CourseKeys) /\ M!NoRows \in [M!Artifacts -> Seq(M!Rows)] /\ M!NoRows \in [M!Artifacts -> Seq(Seq(M!Rows))]
    BY DEF M!NoRows
  <2> QED BY <1>1, <1>3, <2>1 DEF Workings
<1>5. \A a \in M!Artifacts : (M!Collected(a) \o M!Coming(a))' = M!Until(n + 2, a)
  <2> SUFFICES ASSUME NEW a \in M!Artifacts PROVE (M!Collected(a) \o M!Coming(a))' = M!Until(n + 2, a)
    OBVIOUS
  <2>1. M!Collected(a)' = M!Collected(a)
    BY <1>1 DEF M!Collected, M!Batches
  <2>2. v6'.todo = chunk /\ v6'.courses = <<>> /\ v6'.rows[a] = <<>> /\ v6'.written[a] = <<>>
    BY <1>1 DEF M!NoRows
  <2>3. M!OfCourses(<<>>, a)' = <<>> /\ M!OfVehicles(chunk, a)' = M!OfVehicles(chunk, a)
    <3>1. M!OfCourses(<<>>, a) = <<>>
      BY OfCoursesNone
    <3> QED BY <1>1, <3>1, JobStands
  <2>4. M!Coming(a)' = ((<<>> \o <<>>) \o <<>>) \o M!OfVehicles(chunk, a)
    <3>1. M!Joined(v6'.written[a]) = <<>>
      BY <2>2, JoinedNone
    <3>2. M!OfCourses(v6.courses, a)' = <<>>
      BY <2>2, <2>3 DEF M!OfCourses, M!RowsOf
    <3>3. M!OfVehicles(v6.todo, a)' = M!OfVehicles(chunk, a)
      BY <2>2, <2>3, <1>1, JobStands DEF M!OfVehicles
    <3> QED BY <2>2, <3>1, <3>2, <3>3 DEF M!Coming
  <2>5. M!OfVehicles(chunk, a) \in Seq(M!Rows)
    BY <1>3, OfVehiclesIn
  <2>6. ((<<>> \o <<>>) \o <<>>) \o M!OfVehicles(chunk, a) = M!OfVehicles(chunk, a)
    <3> DEFINE q == M!OfVehicles(chunk, a)
               X == M!Rows
    <3>1. q \in Seq(X)
      BY <2>5
    <3> HIDE DEF q, X
    <3>2. ((<<>> \o <<>>) \o <<>>) \o q = q
      BY <3>1
    <3> QED BY <3>2 DEF q
  <2>7. n + 1 + 1 = n + 2
    BY <1>2
  <2> QED BY <1>1, <1>3, <2>1, <2>4, <2>6, <2>7
<1>6. \A a \in M!Artifacts : (M!Collected(a) \o M!Coming(a))' = M!Until(n + 2, a)'
  BY <1>1, <1>5, JobStands
<1> QED BY <1>0, <1>1, <1>4, <1>6, JobStands DEF M!ShardsInv, Chunks, Workings

LEMMA ComingNext ==
  ASSUME v1' = v1, NEW cs, NEW vs, v6'.courses = cs, v6'.todo = vs, NEW a
  PROVE  M!Coming(a)' = ((M!Joined(v6'.written[a]) \o v6'.rows[a]) \o M!OfCourses(cs, a)) \o M!OfVehicles(vs, a)
<1>1. M!OfCourses(v6.courses, a)' = M!OfCourses(cs, a)
  BY JobStands DEF M!OfCourses
<1>2. M!OfVehicles(v6.todo, a)' = M!OfVehicles(vs, a)
  BY JobStands DEF M!OfVehicles
<1> QED BY <1>1, <1>2 DEF M!Coming

LEMMA CollectedStands == ASSUME v7' = v7, NEW a PROVE M!Collected(a)' = M!Collected(a)
BY DEF M!Collected, M!Batches

\* A step of the worker that leaves all that is coming as it was.
LEMMA WorkerKeeps ==
  ASSUME v1 \in Jobs, M!ShardsInv, v3 = "run", v3' = "run", v1' = v1, v7' = v7, v6' \in Workings,
         \A a \in M!Artifacts : M!Coming(a)' = M!Coming(a)
  PROVE  M!ShardsInv'
<1>1. \A a \in M!Artifacts : (M!Collected(a) \o M!Coming(a))' = M!Until(Len(v7) + 2, a)
  BY CollectedStands DEF M!ShardsInv
<1>2. PICK k : k = Len(v7) + 2
  OBVIOUS
<1>3. \A a \in M!Artifacts : (M!Collected(a) \o M!Coming(a))' = M!Until(k, a)'
  BY <1>1, <1>2, JobStands
<1> QED BY <1>2, <1>3, JobStands DEF M!ShardsInv, Workings

LEMMA NextVehicleKeeps == ASSUME v1 \in Jobs, M!ShardsInv, M!NextVehicle PROVE M!ShardsInv'
<1>1. CASE M!TooMany(Head(v6.todo))
  <2>1. v1' = v1 /\ v7' = v7 /\ v3' = "failed"
    BY <1>1 DEF M!NextVehicle, M!Fail
  <2> QED BY <2>1, SmallSteps DEF Early
<1>2. CASE ~M!TooMany(Head(v6.todo))
  <2>1. PICK vs, cs, v : vs = Tail(v6.todo) /\ v = Head(v6.todo) /\ cs = M!Accepted(v)
    OBVIOUS
  <2>2. /\ v3 = "run" /\ v3' = "run" /\ v1' = v1 /\ v7' = v7 /\ v6.courses = <<>> /\ v6.todo # <<>>
        /\ v6' = [v6 EXCEPT !.todo = vs, !.courses = cs] /\ v6 \in Workings
    BY <1>2, <2>1 DEF M!NextVehicle, M!ShardsInv, Workings
  <2>3. /\ v \in M!Vehicles /\ vs \in Seq(M!Vehicles) /\ cs \in Seq(M!CourseKeys)
        /\ \A a \in M!Artifacts : M!OfVehicles(v6.todo, a) = M!OfCourses(cs, a) \o M!OfVehicles(vs, a)
    <3>1. v6.todo \in Seq(M!Vehicles)
      BY <2>2 DEF Workings
    <3>2. "operational" \in M!Artifacts
      BY DEF M!Artifacts
    <3>3. v \in M!Vehicles /\ vs \in Seq(M!Vehicles)
      BY <2>1, <2>2, <3>1, <3>2, OfVehiclesFirst
    <3>4. \A a \in M!Artifacts : M!OfVehicles(v6.todo, a) = M!OfCourses(cs, a) \o M!OfVehicles(vs, a)
      BY <2>1, <2>2, <3>1, OfVehiclesFirst
    <3> QED BY <2>1, <3>3, <3>4, AcceptedIn
  <2>4. v6' \in Workings /\ v6'.todo = vs /\ v6'.courses = cs /\ v6'.rows = v6.rows /\ v6'.written = v6.written
    BY <2>2, <2>3 DEF Workings
  <2>5. ASSUME NEW a \in M!Artifacts PROVE M!Coming(a)' = M!Coming(a)
    <3> DEFINE X == M!Rows
               j == M!Joined(v6.written[a])
               r == v6.rows[a]
               c == M!OfCourses(cs, a)
               t == M!OfVehicles(vs, a)
    <3>1. M!Coming(a)' = Glued(Glued(Glued(j, r), c), t)
        <4>1. v1' = v1 /\ v6'.courses = cs /\ v6'.todo = vs /\ v6'.rows = v6.rows /\ v6'.written = v6.written
        BY <2>2, <2>4
      <4>2. M!Coming(a)' = ((M!Joined(v6'.written[a]) \o v6'.rows[a]) \o M!OfCourses(cs, a)) \o M!OfVehicles(vs, a)
        BY <4>1, ComingNext
      <4>3. M!Coming(a)' = ((M!Joined(v6.written[a]) \o v6.rows[a]) \o M!OfCourses(cs, a)) \o M!OfVehicles(vs, a)
        BY <4>1, <4>2
      <4> QED BY <4>3 DEF Glued
    <3>2. j \in Seq(X) /\ r \in Seq(X) /\ c \in Seq(X) /\ t \in Seq(X)
      BY <2>2, <2>3, ComingIn, OfCoursesIn, OfVehiclesIn
    <3>3. M!Coming(a) = Glued(Glued(j, r), Glued(c, t))
      <4>1. M!OfCourses(v6.courses, a) = <<>>
        BY <2>2, OfCoursesNone
      <4>2. Glued(Glued(j, r), <<>>) = Glued(j, r)
        <5> DEFINE q == Glued(j, r)
        <5>1. q \in Seq(X)
          <6> HIDE DEF j, r, X
          <6> QED BY <3>2, GluedIn
        <5> HIDE DEF q, X
        <5>2. q \o <<>> = q
          BY <5>1
        <5> QED BY <5>2 DEF q, Glued
      <4>3. M!OfVehicles(v6.todo, a) = Glued(c, t)
        BY <2>3 DEF Glued
      <4>4. M!Coming(a) = Glued(Glued(Glued(j, r), M!OfCourses(v6.courses, a)), M!OfVehicles(v6.todo, a))
        BY DEF M!Coming, Glued
      <4> HIDE DEF j, r, c, t
      <4> QED BY <4>1, <4>2, <4>3, <4>4
    <3> HIDE DEF X, j, r, c, t
    <3>4. Glued(j, r) \in Seq(X)
      BY <3>2, GluedIn
    <3> QED BY <3>1, <3>2, <3>3, <3>4, Associative
  <2> QED BY <2>2, <2>4, <2>5, WorkerKeeps
<1> QED BY <1>1, <1>2

LEMMA AlignCourseKeeps == ASSUME v1 \in Jobs, M!ShardsInv, M!AlignCourse PROVE M!ShardsInv'
<1> DEFINE held == [a \in M!Artifacts |-> v6.rows[a] \o M!RowsOf(Head(v6.courses), a)]
<1>1. PICK vs, cs, c : vs = v6.todo /\ cs = Tail(v6.courses) /\ c = Head(v6.courses)
  OBVIOUS
<1>2. /\ v3 = "run" /\ v3' = "run" /\ v1' = v1 /\ v7' = v7 /\ v6.courses # <<>> /\ v6 \in Workings
      /\ v6' = [v6 EXCEPT !.courses = cs, !.rows = [a \in M!Artifacts |-> M!Rest(held[a])],
                          !.written = [a \in M!Artifacts |-> @[a] \o M!Groups(held[a])]]
  BY <1>1 DEF M!AlignCourse, M!ShardsInv, Workings
<1>3. /\ c \in M!CourseKeys /\ cs \in Seq(M!CourseKeys)
      /\ \A a \in M!Artifacts : M!OfCourses(v6.courses, a) = M!RowsOf(c, a) \o M!OfCourses(cs, a)
  <2>1. v6.courses \in Seq(M!CourseKeys) /\ v6.courses # <<>>
    BY <1>2 DEF Workings
  <2>2. "operational" \in M!Artifacts
    BY DEF M!Artifacts
  <2> QED BY <1>1, <2>1, <2>2, OfCoursesFirst
<1>4. ASSUME NEW a \in M!Artifacts
      PROVE  /\ held[a] = v6.rows[a] \o M!RowsOf(c, a) /\ held[a] \in Seq(M!Rows)
             /\ M!Groups(held[a]) \in Seq(Seq(M!Rows)) /\ M!Rest(held[a]) \in Seq(M!Rows)
             /\ M!Joined(M!Groups(held[a])) \o M!Rest(held[a]) = held[a]
             /\ v6.written[a] \o M!Groups(held[a]) \in Seq(Seq(M!Rows))
             /\ v6.written[a] \in Seq(Seq(M!Rows)) /\ v6.rows[a] \in Seq(M!Rows) /\ M!RowsOf(c, a) \in Seq(M!Rows)
  <2> DEFINE X == M!Rows
             St == Seq(X)
             h == held[a]
             w == v6.written[a]
  <2>1. h = v6.rows[a] \o M!RowsOf(c, a) /\ v6.rows[a] \in Seq(X) /\ M!RowsOf(c, a) \in Seq(X) /\ w \in Seq(St)
    BY <1>1, <1>2, <1>3, ComingIn, RowsIn
  <2> HIDE DEF X, h, w
  <2>2. h \in Seq(X)
    BY <2>1
  <2>3. M!Groups(h) \in Seq(St) /\ M!Rest(h) \in St /\ M!Joined(M!Groups(h)) \o M!Rest(h) = h
    BY <2>2, GroupsAre
  <2>4. w \o M!Groups(h) \in Seq(St)
    <3> HIDE DEF St
    <3> QED BY <2>1, <2>3
  <2> QED BY <2>1, <2>2, <2>3, <2>4, ZenonT(40) DEF X, h, w
<1> HIDE DEF held
<1>5. /\ v6'.todo = vs /\ v6'.courses = cs /\ v6' \in Workings
      /\ \A a \in M!Artifacts : v6'.rows[a] = M!Rest(held[a]) /\ v6'.written[a] = v6.written[a] \o M!Groups(held[a])
  <2> DEFINE p == [a \in M!Artifacts |-> M!Rest(held[a])]
             q == [a \in M!Artifacts |-> v6.written[a] \o M!Groups(held[a])]
             W == [M!Artifacts -> Seq(Seq(M!Rows))]
             R == [M!Artifacts -> Seq(M!Rows)]
  <2>1. p \in R /\ q \in W
    BY <1>4
  <2>2. v6' = [v6 EXCEPT !.courses = cs, !.rows = p, !.written = q]
    BY <1>2
  <2>3. \A a \in M!Artifacts : p[a] = M!Rest(held[a]) /\ q[a] = v6.written[a] \o M!Groups(held[a])
    OBVIOUS
  <2>4. v6 \in [todo : Seq(M!Vehicles), courses : Seq(M!CourseKeys), rows : R, written : W]
    BY <1>2 DEF Workings
  <2> HIDE DEF p, q, W, R
  <2>5. v6'.todo = vs /\ v6'.courses = cs /\ v6'.rows = p /\ v6'.written = q
        /\ v6' \in [todo : Seq(M!Vehicles), courses : Seq(M!CourseKeys), rows : R, written : W]
    BY <1>1, <1>3, <2>1, <2>2, <2>4
  <2> QED BY <2>3, <2>5 DEF Workings, R, W
<1>6. ASSUME NEW a \in M!Artifacts PROVE M!Coming(a)' = M!Coming(a)
  <2> DEFINE X == M!Rows
             w == v6.written[a]
             j == M!Joined(w)
             r == v6.rows[a]
             ro == M!RowsOf(c, a)
             g == M!Groups(held[a])
             e == M!Rest(held[a])
             oc == M!OfCourses(cs, a)
             t == M!OfVehicles(vs, a)
  <2>1. M!Coming(a)' = Glued(Glued(Glued(M!Joined(w \o g), e), oc), t)
    <3>1. M!Coming(a)' = ((M!Joined(v6'.written[a]) \o v6'.rows[a]) \o M!OfCourses(cs, a)) \o M!OfVehicles(vs, a)
      <4>1. v1' = v1 /\ v6'.courses = cs /\ v6'.todo = vs
        BY <1>2, <1>5
      <4> QED BY <4>1, ComingNext
    <3>2. v6'.written[a] = w \o g /\ v6'.rows[a] = e
      BY <1>5
    <3> HIDE DEF w, g, e, oc, t
    <3>3. M!Coming(a)' = ((M!Joined(w \o g) \o e) \o M!OfCourses(cs, a)) \o M!OfVehicles(vs, a)
      BY <3>1, <3>2
    <3> QED BY <3>3 DEF Glued, oc, t
  <2>2. /\ j \in Seq(X) /\ r \in Seq(X) /\ oc \in Seq(X) /\ t \in Seq(X) /\ ro \in Seq(X) /\ e \in Seq(X)
        /\ w \in Seq(Seq(X)) /\ g \in Seq(Seq(X))
    BY <1>1, <1>2, <1>3, <1>4, ComingIn, OfCoursesIn
  <2>3. Glued(M!Joined(g), e) = Glued(r, ro)
    BY <1>4 DEF Glued
  <2>4. M!Coming(a) = Glued(Glued(Glued(j, r), Glued(ro, oc)), t)
    BY <1>1, <1>3 DEF M!Coming, Glued
  <2> HIDE DEF X, w, j, r, ro, g, e, oc, t
  <2>5. M!Joined(w \o g) = Glued(j, M!Joined(g)) /\ M!Joined(g) \in Seq(X)
    BY <2>2, JoinedBoth, JoinedIn DEF Glued, j
  <2>6. Glued(Glued(j, M!Joined(g)), e) = Glued(j, Glued(M!Joined(g), e))
    BY <2>2, <2>5, Associative
  <2>7. Glued(j, Glued(r, ro)) = Glued(Glued(j, r), ro)
    BY <2>2, Associative
  <2>8. Glued(Glued(Glued(j, r), ro), oc) = Glued(Glued(j, r), Glued(ro, oc))
    <3>1. Glued(j, r) \in Seq(X)
      BY <2>2, GluedIn
    <3> QED BY <2>2, <3>1, Associative
  <2> QED BY <2>1, <2>3, <2>4, <2>5, <2>6, <2>7, <2>8
<1> QED BY <1>2, <1>5, <1>6, WorkerKeeps

LEMMA CollectKeeps == ASSUME v1 \in Jobs, M!ShardsInv, M!OutputInv, M!Collect PROVE M!ShardsInv'
<1>1. PICK n, chunk : n = Len(v7) /\ chunk = M!Flushed
  OBVIOUS
<1>2. /\ v3 = "run" /\ v1' = v1 /\ v6 \in Workings /\ v6.courses = <<>> /\ v6.todo = <<>> /\ v1.workers >= 1
      /\ v7' = Append(v7, chunk) /\ v3' = (IF Len(v7') = M!Workers THEN "merge" ELSE "submit")
      /\ v7 \in Chunks /\ M!Active # <<>> /\ n < M!Workers
      /\ \A a \in M!Artifacts : M!Collected(a) \o M!Coming(a) = M!Until(n + 2, a)
  BY <1>1 DEF M!Collect, M!ShardsInv, M!OutputInv, Chunks, Workings
<1>3. ASSUME NEW a \in M!Artifacts
      PROVE  /\ chunk[a] \in Seq(Seq(M!Rows))
             /\ M!Joined(chunk[a]) = M!Joined(v6.written[a]) \o v6.rows[a]
             /\ M!Coming(a) = M!Joined(v6.written[a]) \o v6.rows[a]
  <2> DEFINE X == M!Rows
             St == Seq(X)
             w == v6.written[a]
             r == v6.rows[a]
             j == M!Joined(w)
  <2>1. w \in Seq(St) /\ r \in St /\ j \in Seq(X)
    BY <1>2, ComingIn
  <2>2. chunk[a] = w \o (IF r = <<>> THEN <<>> ELSE <<r>>)
    BY <1>1 DEF M!Flushed
  <2>3. M!Coming(a) = ((j \o r) \o <<>>) \o <<>>
    BY <1>2, OfCoursesNone, OfVehiclesNone DEF M!Coming
  <2> HIDE DEF w, r, j, X
  <2>4. ((j \o r) \o <<>>) \o <<>> = j \o r
    BY <2>1
  <2>5. CASE r = <<>>
    <3>1. chunk[a] = w
      <4> HIDE DEF St
      <4> QED BY <2>1, <2>2, <2>5
    <3>2. j \o r = j
      BY <2>1, <2>5
    <3> QED BY <2>1, <2>3, <2>4, <3>1, <3>2 DEF w, r, j, X
  <2>6. CASE r # <<>>
    <3>1. chunk[a] = Append(w, r) /\ Append(w, r) \in Seq(St)
      <4> HIDE DEF St
      <4> QED BY <2>1, <2>2, <2>6
    <3>2. M!Joined(Append(w, r)) = j \o r
      BY <2>1, JoinedMore DEF j
    <3> QED BY <2>3, <2>4, <3>1, <3>2 DEF w, r, j, X
  <2> QED BY <2>5, <2>6
<1>4. chunk \in [M!Artifacts -> Seq(Seq(M!Rows))]
  <2>1. chunk = [a \in M!Artifacts |-> chunk[a]]
    BY <1>1 DEF M!Flushed
  <2> DEFINE SSt == Seq(Seq(M!Rows))
  <2>2. \A a \in M!Artifacts : chunk[a] \in SSt
    BY <1>3
  <2> HIDE DEF SSt
  <2>3. chunk \in [M!Artifacts -> SSt]
    BY <2>1, <2>2
  <2> QED BY <2>3 DEF SSt
<1>5. ASSUME NEW a \in M!Artifacts PROVE M!Collected(a)' = M!Until(n + 2, a)
  BY <1>2, <1>3, <1>4, BatchesMore DEF Chunks
<1>6. n \in Nat /\ Len(v7') = n + 1 /\ v7' \in Chunks
  <2> DEFINE C0 == [M!Artifacts -> Seq(Seq(M!Rows))]
  <2>1. v7 \in Seq(C0) /\ chunk \in C0
    BY <1>2, <1>4 DEF Chunks
  <2> HIDE DEF C0
  <2>2. n \in Nat /\ Len(v7') = n + 1 /\ v7' \in Seq(C0)
    BY <1>1, <1>2, <2>1
  <2> QED BY <2>2 DEF C0, Chunks
<1>7. M!Workers \in Nat /\ M!Workers' = M!Workers /\ M!Active' = M!Active
  <2>1. M!Workers \in 1 .. Len(M!Active)
    BY <1>2, Starts
  <2> QED BY <1>2, <2>1, JobStands
<1>8. CASE n + 1 = M!Workers
  <2>1. v3' = "merge"
    BY <1>2, <1>6, <1>8
  <2>2. ASSUME NEW a \in M!Artifacts PROVE M!Collected(a)' = M!Whole(a)'
    <3>1. M!Until(M!Workers + 1, a) = M!Whole(a) /\ M!Workers + 1 = n + 2
      BY <1>2, <1>6, <1>8, UntilIs
    <3>2. M!Whole(a)' = M!Whole(a)
      BY <1>2, JobStands
    <3> QED BY <1>5, <3>1, <3>2
  <2> QED BY <1>6, <2>1, <2>2 DEF M!ShardsInv, Chunks
<1>9. CASE n + 1 # M!Workers
  <2>1. v3' = "submit" /\ n + 1 < M!Workers
    BY <1>2, <1>6, <1>7, <1>9
  <2>2. PICK k : k = n + 2
    OBVIOUS
  <2>3. ASSUME NEW a \in M!Artifacts PROVE M!Collected(a)' = M!Until(k, a)'
    BY <1>2, <1>5, <2>2, JobStands
  <2>4. Len(v7') + 1 = k
    BY <1>6, <2>2
  <2>5. ASSUME NEW a \in M!Artifacts PROVE M!Collected(a)' = M!Until(Len(v7) + 1, a)'
    <3>1. M!Until(Len(v7) + 1, a)' = M!Until(k, a)'
      BY <2>4 DEF M!Until
    <3> QED BY <2>3, <3>1
  <2> QED BY <1>2, <1>6, <1>7, <2>1, <2>5 DEF M!ShardsInv, Chunks
<1> QED BY <1>8, <1>9

LEMMA ShardsStep == ASSUME v1 \in Jobs, M!ShardsInv, M!OutputInv, M!Next PROVE M!ShardsInv'
<1>1. CASE M!Enter \/ M!PrepareSchedule \/ M!Normalize \/ M!Evidence \/ M!SettleDuties
  <2>1. v1' = v1 /\ v7' = v7 /\ v3' \in Early \union {"failed"} /\ v3 \in Early
    BY <1>1 DEF M!Enter, M!PrepareSchedule, M!Normalize, M!Evidence, M!SettleDuties, Early
  <2>2. v7 = <<>>
    BY <2>1 DEF M!ShardsInv, Early
  <2> QED BY <2>1, <2>2, SmallSteps DEF Early
<1>2. CASE M!Merge \/ M!BuildFacts \/ M!WriteManifest \/ M!Publish \/ M!CopyMetrics \/ M!Raise \/ M!Die
  <2>1. v1' = v1 /\ v7' = v7 /\ v3' \in {"facts", "manifest", "publish", "copy", "done", "failed", "dead"}
    BY <1>2 DEF M!Merge, M!BuildFacts, M!WriteManifest, M!Publish, M!CopyMetrics, M!Raise, M!Die, M!Fail
  <2> QED BY <2>1, SmallSteps DEF Early
<1>3. CASE M!Again
  <2>1. v1' = v1 /\ v7' = <<>> /\ v3' = "enter"
    BY <1>3 DEF M!Again
  <2> QED BY <2>1 DEF M!ShardsInv
<1>4. CASE UNCHANGED M!vars
  <2>1. v1' = v1 /\ v7' = v7 /\ v3' = v3 /\ v6' = v6
    BY <1>4 DEF M!vars
  <2>2. CASE v3 = "submit"
    <3>1. PICK k : k = Len(v7) + 1
      OBVIOUS
    <3>2. \A a \in M!Artifacts : M!Collected(a)' = M!Until(k, a)'
      BY <2>1, <2>2, <3>1, CollectedStands, JobStands DEF M!ShardsInv
    <3> QED BY <2>1, <2>2, <3>1, <3>2, JobStands DEF M!ShardsInv
  <2>3. CASE v3 = "run"
    <3>1. v6 \in Workings
      BY <2>3 DEF M!ShardsInv, Workings
    <3>2. ASSUME NEW a \in M!Artifacts PROVE M!Coming(a)' = M!Coming(a)
      <4>1. PICK cs, vs : cs = v6.courses /\ vs = v6.todo
        OBVIOUS
      <4>2. M!Coming(a)' = ((M!Joined(v6'.written[a]) \o v6'.rows[a]) \o M!OfCourses(cs, a)) \o M!OfVehicles(vs, a)
        BY <2>1, <4>1, ComingNext
      <4> QED BY <2>1, <4>1, <4>2 DEF M!Coming
    <3> QED BY <2>1, <2>3, <3>1, <3>2, WorkerKeeps
  <2>4. CASE v3 = "merge"
    BY <2>1, <2>4, CollectedStands, JobStands DEF M!ShardsInv
  <2>5. CASE v3 \notin {"submit", "run", "merge"}
    BY <2>1, <2>5 DEF M!ShardsInv
  <2> QED BY <2>2, <2>3, <2>4, <2>5
<1> QED BY <1>1, <1>2, <1>3, <1>4, WriteInputsKeeps, SubmitKeeps, NextVehicleKeeps, AlignCourseKeeps, CollectKeeps
        DEF M!Next

LEMMA OutputStep ==
  ASSUME v1 \in Jobs, M!ShardsInv, M!OutputInv, M!Next
  PROVE  M!OutputInv'
<1>1. v1' = v1
  BY DEF M!Next, M!vars, M!Enter, M!PrepareSchedule, M!Normalize, M!Evidence, M!SettleDuties, M!WriteInputs, M!Submit,
         M!NextVehicle, M!AlignCourse, M!Collect, M!Merge, M!BuildFacts, M!WriteManifest, M!Publish, M!CopyMetrics,
         M!Raise, M!Die, M!Again, M!Fail
<1>2. M!Vehicles' = M!Vehicles /\ \A a : M!Whole(a)' = M!Whole(a)
  BY <1>1, JobStands
<1> USE <1>1, <1>2 DEF M!OutputInv, M!TooMany
<1>3. CASE M!Enter
  <2>1. v1.workers \in Int
    BY JobIs
  <2> QED BY <1>3, <2>1 DEF M!Enter
<1>4. CASE M!PrepareSchedule \/ M!Normalize
  BY <1>4 DEF M!PrepareSchedule, M!Normalize
<1>5. CASE M!Evidence
  BY <1>5 DEF M!Evidence
<1>6. CASE M!SettleDuties \/ M!WriteInputs \/ M!Submit
  BY <1>6 DEF M!SettleDuties, M!WriteInputs, M!Submit
<1>7. CASE M!NextVehicle
  BY <1>7 DEF M!NextVehicle, M!Fail
<1>8. CASE M!AlignCourse \/ M!Collect
  BY <1>8 DEF M!AlignCourse, M!Collect
<1>9. CASE M!Merge
  <2>1. v3 = "merge" /\ v3' = "facts" /\ v8' = [a \in M!Artifacts |-> M!Regrouped(a)]
    BY <1>9 DEF M!Merge
  <2>2. ASSUME NEW a \in M!Artifacts PROVE M!Joined(v8'[a]) = M!Whole(a)
    <3>1. M!Batches(a) \in Seq(Seq(M!Rows))
      BY BatchesAre DEF M!ShardsInv
    <3>2. M!Joined(M!Regrouped(a)) = M!Collected(a)
      BY <3>1, RegroupedIs DEF M!Collected
    <3> QED BY <2>1, <3>2 DEF M!ShardsInv
  <2> QED BY <2>1, <2>2
<1>10. CASE M!BuildFacts \/ M!WriteManifest
  BY <1>10 DEF M!BuildFacts, M!WriteManifest
<1>11. CASE M!Publish
  <2>1. CASE M!MayPublish
    <3>1. v9' = <<[attempt |-> v2, files |-> v4, rows |-> v8]>> /\ v3' = "copy" /\ v2' = v2 /\ v3 = "publish"
      BY <1>11, <2>1 DEF M!Publish
    <3>2. v9' # M!None' /\ v9'[1].attempt = v2'
      BY <3>1 DEF M!None
    <3> QED BY <3>1, <3>2
  <2>2. CASE ~M!MayPublish
    BY <1>11, <2>2 DEF M!Publish, M!Fail
  <2> QED BY <2>1, <2>2
<1>12. CASE M!CopyMetrics \/ M!Raise \/ M!Die \/ M!Again
  BY <1>12 DEF M!CopyMetrics, M!Raise, M!Die, M!Again, M!Fail
<1>13. CASE UNCHANGED M!vars
  BY <1>13 DEF M!vars
<1> QED BY <1>3, <1>4, <1>5, <1>6, <1>7, <1>8, <1>9, <1>10, <1>11, <1>12, <1>13 DEF M!Next

\* What is merged is full groups; what is published is what was merged, and all of it.
LEMMA PublishedStep ==
  ASSUME v1 \in Jobs, M!FilesInv, M!ShardsInv, M!OutputInv, M!FullGroups, M!SameForAnyWorkers, M!PublishedWhole, M!Next
  PROVE  (M!FullGroups /\ M!SameForAnyWorkers /\ M!PublishedWhole)'
<1>1. CASE M!Merge
  <2>1. v8' = [a \in M!Artifacts |-> M!Regrouped(a)] /\ v1' = v1 /\ v9' = v9
    BY <1>1 DEF M!Merge
  <2>2. ASSUME NEW a \in M!Artifacts, NEW g \in DOMAIN v8'[a]
        PROVE  Len(v8'[a][g]) = RowGroup \/ (g = Len(v8'[a]) /\ v8'[a][g] # <<>>)
    <3>1. M!Batches(a) \in Seq(Seq(M!Rows))
      BY BatchesAre DEF M!ShardsInv
    <3> QED BY <2>1, <2>2, <3>1, RegroupedIs
  <2> QED BY <2>1, <2>2, JobStands DEF M!FullGroups, M!SameForAnyWorkers, M!PublishedWhole
<1>2. CASE M!Publish
  <2>1. v1' = v1 /\ v8' = v8 /\ v3 = "publish"
    BY <1>2 DEF M!Publish, M!Fail
  <2>2. v9' = v9 \/ v9' = <<[attempt |-> v2, files |-> v4, rows |-> v8]>>
    BY <1>2 DEF M!Publish, M!Fail
  <2>3. v4 = M!Results \union {"duckdb-temp"} /\ \A a \in M!Artifacts : M!Joined(v8[a]) = M!Whole(a)
    BY <2>1 DEF M!FilesInv, M!OutputInv
  <2> QED BY <2>1, <2>2, <2>3, JobStands DEF M!FullGroups, M!SameForAnyWorkers, M!PublishedWhole
<1>3. CASE M!Again
  <2>1. v8' = M!NoRows /\ v1' = v1 /\ v9' = v9
    BY <1>3 DEF M!Again
  <2>2. \A a \in M!Artifacts : DOMAIN M!NoRows[a] = {}
    BY DEF M!NoRows
  <2> QED BY <2>1, <2>2, JobStands DEF M!FullGroups, M!SameForAnyWorkers, M!PublishedWhole
<1>4. CASE ~M!Merge /\ ~M!Publish /\ ~M!Again
  <2>1. v8' = v8 /\ v1' = v1 /\ v9' = v9
    BY <1>4 DEF M!Next, M!vars, M!Enter, M!PrepareSchedule, M!Normalize, M!Evidence, M!SettleDuties, M!WriteInputs,
                M!Submit, M!NextVehicle, M!AlignCourse, M!Collect, M!BuildFacts, M!WriteManifest, M!CopyMetrics,
                M!Raise, M!Die, M!Fail
  <2> QED BY <2>1, JobStands DEF M!FullGroups, M!SameForAnyWorkers, M!PublishedWhole
<1> QED BY <1>1, <1>2, <1>3, <1>4

LEMMA RunInitially == ASSUME M!Init PROVE M!RunInv
<1>1. v1 \in Jobs /\ v3 = "enter" /\ v4 = {} /\ v7 = <<>> /\ v8 = M!NoRows /\ v9 = <<>>
  BY DEF M!Init, M!None
<1>2. M!FilesInv /\ M!ShardsInv /\ M!OutputInv
  BY <1>1 DEF M!FilesInv, M!ShardsInv, M!OutputInv
<1>3. \A a \in M!Artifacts : DOMAIN v8[a] = {}
  BY <1>1 DEF M!NoRows
<1> QED BY <1>1, <1>2, <1>3 DEF M!RunInv, M!FullGroups, M!SameForAnyWorkers, M!PublishedWhole, M!None

LEMMA RunStep == ASSUME M!RunInv, M!Next PROVE M!RunInv'
<1>1. v1' = v1
  BY DEF M!Next, M!vars, M!Enter, M!PrepareSchedule, M!Normalize, M!Evidence, M!SettleDuties, M!WriteInputs, M!Submit,
         M!NextVehicle, M!AlignCourse, M!Collect, M!Merge, M!BuildFacts, M!WriteManifest, M!Publish, M!CopyMetrics,
         M!Raise, M!Die, M!Again, M!Fail
<1> QED BY <1>1, FilesStep, ShardsStep, OutputStep, PublishedStep DEF M!RunInv

LEMMA RunSafe == ASSUME M!RunInv PROVE M!SameForAnyWorkers /\ M!FullGroups /\ M!PublishedWhole /\ M!LimitAgrees
BY DEF M!RunInv, M!OutputInv, M!LimitAgrees

\* The first output of a day stays, and only its metrics are copied.
LEMMA OutputStays == ASSUME M!RunInv, M!Next \/ UNCHANGED M!vars PROVE M!FirstStands
<1>1. CASE M!Publish
  BY <1>1 DEF M!Publish, M!MayPublish, M!Fail, M!FirstStands, M!None
<1>2. CASE M!CopyMetrics
  BY <1>2 DEF M!CopyMetrics, M!FirstStands, M!RunInv, M!OutputInv
<1>3. CASE ~M!Publish /\ ~M!CopyMetrics
  <2>1. v9' = v9 /\ v10' = v10
    BY <1>3 DEF M!Next, M!vars, M!Enter, M!PrepareSchedule, M!Normalize, M!Evidence, M!SettleDuties, M!WriteInputs,
                M!Submit, M!NextVehicle, M!AlignCourse, M!Collect, M!Merge, M!BuildFacts, M!WriteManifest,
                M!Raise, M!Die, M!Again, M!Fail
  <2> QED BY <2>1 DEF M!FirstStands
<1> QED BY <1>1, <1>2, <1>3

LEMMA RunStands == ASSUME M!RunInv, UNCHANGED <<v1, v2, v3, v4, v5, v6, v7, v8, v9, v10>> PROVE M!RunInv'
<1>1. M!FilesInv'
  BY DEF M!RunInv, M!FilesInv, M!Withdrawn
<1>2. M!ShardsInv'
  <2>1. /\ M!CourseKeys' = M!CourseKeys /\ M!Vehicles' = M!Vehicles /\ M!Active' = M!Active /\ M!Workers' = M!Workers
        /\ \A a : M!Whole(a)' = M!Whole(a) /\ M!Collected(a)' = M!Collected(a)
    BY JobStands, CollectedStands
  <2>2. ASSUME NEW a PROVE M!Coming(a)' = M!Coming(a)
    BY JobStands DEF M!Coming
  <2>3. ASSUME NEW a PROVE M!Until(Len(v7) + 1, a)' = M!Until(Len(v7) + 1, a) /\ M!Until(Len(v7) + 2, a)' = M!Until(Len(v7) + 2, a)
    <3>1. PICK n : n = Len(v7)
      OBVIOUS
    <3> QED BY <3>1, JobStands
  <2> QED BY <2>1, <2>2, <2>3 DEF M!RunInv, M!ShardsInv, M!Rows
<1>3. M!OutputInv'
  <2>1. M!Vehicles' = M!Vehicles /\ (\A v : M!TooMany(v)' = M!TooMany(v)) /\ \A a : M!Whole(a)' = M!Whole(a)
    BY JobStands DEF M!TooMany
  <2> QED BY <2>1 DEF M!RunInv, M!OutputInv
<1>4. M!FullGroups' /\ M!SameForAnyWorkers' /\ M!PublishedWhole'
  BY JobStands DEF M!RunInv, M!FullGroups, M!SameForAnyWorkers, M!PublishedWhole
<1> QED BY <1>1, <1>2, <1>3, <1>4 DEF M!RunInv

--------------------------------------------------------------------------------
(* DutySchedule: v1 feed, v2 kept, v3 schedule, v4 duty, v5 classes, v6 courses,  *)
(* v7 universe, v8 at                                                              *)

\* A finite set has an element before which, in a strict order, there is none.
LEMMA Foremost ==
  ASSUME NEW S, IsFiniteSet(S), S # {}, NEW R, \A x \in S : <<x, x>> \notin R,
         \A x, y, z \in S : <<x, y>> \in R /\ <<y, z>> \in R => <<x, z>> \in R
  PROVE  \E x \in S : \A y \in S : <<y, x>> \notin R
<1> DEFINE B(x) == {y \in S : <<y, x>> \in R}
           Sizes == {Cardinality(B(x)) : x \in S}
<1>1. \A x \in S : IsFiniteSet(B(x)) /\ Cardinality(B(x)) \in Nat
  BY FS_Subset, FS_CardinalityType
<1>2. PICK n \in Sizes : \A m \in Sizes : n <= m
  <2>1. Sizes \subseteq Nat /\ Sizes # {}
    <3> HIDE DEF B
    <3> QED BY <1>1
  <2> HIDE DEF Sizes
  <2> QED BY <2>1, LeastOf
<1>3. PICK x \in S : n = Cardinality(B(x))
  OBVIOUS
<1>4. ASSUME NEW y \in S, <<y, x>> \in R PROVE FALSE
  <2>1. B(y) \subseteq B(x) /\ y \in B(x) /\ y \notin B(y)
    BY <1>4
  <2>2. Cardinality(B(y)) <= Cardinality(B(x)) /\ Cardinality(B(y)) # Cardinality(B(x))
    <3> DEFINE P == B(x)
               Fewer == B(y)
    <3>1. IsFiniteSet(P) /\ Fewer \in SUBSET P /\ P # Fewer
      BY <1>1, <2>1
    <3> HIDE DEF P, Fewer
    <3>2. Cardinality(Fewer) <= Cardinality(P) /\ Cardinality(P) # Cardinality(Fewer)
      BY <3>1, FS_Subset
    <3> QED BY <3>2 DEF P, Fewer
  <2>3. Cardinality(B(x)) <= Cardinality(B(y))
    <3> HIDE DEF B
    <3>1. Cardinality(B(y)) \in Sizes
      OBVIOUS
    <3> QED BY <1>2, <1>3, <3>1
  <2>4. Cardinality(B(x)) \in Nat /\ Cardinality(B(y)) \in Nat
    BY <1>1
  <2> HIDE DEF B
  <2> QED BY <2>2, <2>3, <2>4
<1> QED BY <1>4

LEMMA ImageFinite == ASSUME NEW S, IsFiniteSet(S), NEW f, DOMAIN f = S PROVE IsFiniteSet({f[x] : x \in S})
<1> DEFINE T == {f[x] : x \in S}
           g == [x \in S |-> f[x]]
<1>1. g \in Surjection(S, T)
  BY DEF Surjection
<1> HIDE DEF T, g
<1>2. IsFiniteSet(T)
  BY <1>1, FS_Surjection
<1> QED BY <1>2 DEF T

LEMMA LowestIs ==
  ASSUME NEW S, S \subseteq Int, IsFiniteSet(S), S # {}
  PROVE  /\ C!LowestOf(S) \in S /\ \A y \in S : C!LowestOf(S) <= y
         /\ C!HighestOf(S) \in S /\ \A y \in S : C!HighestOf(S) >= y
<1>1. \E x \in S : \A y \in S : x <= y
  <2> DEFINE R == {p \in S \X S : p[1] < p[2]}
  <2>1. \A x \in S : <<x, x>> \notin R
    OBVIOUS
  <2>2. \A x, y, z \in S : <<x, y>> \in R /\ <<y, z>> \in R => <<x, z>> \in R
    OBVIOUS
  <2>3. PICK x \in S : \A y \in S : <<y, x>> \notin R
    <3> HIDE DEF R
    <3> QED BY <2>1, <2>2, Foremost
  <2>4. ASSUME NEW y \in S PROVE x <= y
    <3>1. ~(y < x)
      BY <2>3
    <3>2. x \in Int /\ y \in Int
      OBVIOUS
    <3> QED BY <3>1, <3>2
  <2> QED BY <2>4
<1>2. \E x \in S : \A y \in S : x >= y
  <2> DEFINE R == {p \in S \X S : p[1] > p[2]}
  <2>1. \A x \in S : <<x, x>> \notin R
    OBVIOUS
  <2>2. \A x, y, z \in S : <<x, y>> \in R /\ <<y, z>> \in R => <<x, z>> \in R
    OBVIOUS
  <2>3. PICK x \in S : \A y \in S : <<y, x>> \notin R
    <3> HIDE DEF R
    <3> QED BY <2>1, <2>2, Foremost
  <2>4. ASSUME NEW y \in S PROVE x >= y
    <3>1. ~(y > x)
      BY <2>3
    <3>2. x \in Int /\ y \in Int
      OBVIOUS
    <3> QED BY <3>1, <3>2
  <2> QED BY <2>4
<1>3. C!LowestOf(S) \in S /\ \A y \in S : C!LowestOf(S) <= y
  BY <1>1 DEF C!LowestOf
<1>4. C!HighestOf(S) \in S /\ \A y \in S : C!HighestOf(S) >= y
  BY <1>2 DEF C!HighestOf
<1> QED BY <1>3, <1>4

TripRecords == [block : STRING, line : STRING, brigade : Int, dir : Int, mode : STRING, cemetery : BOOLEAN,
                service : STRING, stops : Seq(C!ScheduledStops)]

LEMMA TripsAre ==
  ASSUME v1 \in Feeds
  PROVE  /\ C!Trips \subseteq Nat /\ IsFiniteSet(C!Trips)
         /\ \A d \in C!Dates : v1.origin[d] \in Int
         /\ \A t \in C!Trips : C!StopsOf(t) \in Seq(C!ScheduledStops)
<1>1. v1.origin \in [C!Dates -> Int] /\ v1.trips \in Seq(TripRecords)
  BY ScheduleHolds DEF C!ScheduleAssumption, TripRecords
<1>2. \A r \in TripRecords : r.stops \in Seq(C!ScheduledStops)
  BY DEF TripRecords
<1>3. Len(v1.trips) \in Nat /\ DOMAIN v1.trips = 1 .. Len(v1.trips) /\ \A t \in DOMAIN v1.trips : v1.trips[t] \in TripRecords
  BY <1>1
<1>4. C!Trips = 1 .. Len(v1.trips)
  BY <1>3 DEF C!Trips
<1>5. ASSUME NEW n \in Nat PROVE IsFiniteSet(1 .. n)
  BY FS_Interval
<1>6. \A t \in C!Trips : C!StopsOf(t) \in Seq(C!ScheduledStops)
  BY <1>2, <1>3, <1>4 DEF C!StopsOf
<1>7. IsFiniteSet(C!Trips)
  BY <1>3, <1>4, <1>5
<1> QED BY <1>1, <1>3, <1>4, <1>6, <1>7

\* A trip's bounds are times of its stops, and none is outside.
LEMMA BoundsAre ==
  ASSUME v1 \in Feeds, NEW t \in C!Trips, C!StopsOf(t) # <<>>
  PROVE  /\ C!Bounds(t)[1] \in Int /\ C!Bounds(t)[2] \in Int
         /\ \A x \in C!Times(t) : x \in Int /\ C!Bounds(t)[1] <= x /\ x <= C!Bounds(t)[2]
<1> DEFINE s == C!StopsOf(t)
           P(i) == {s[i].arr, s[i].dep}
           T == C!Times(t)
           f == [i \in DOMAIN s |-> P(i)]
<1>1. s \in Seq(C!ScheduledStops)
  BY TripsAre
<1>2. Len(s) \in Nat /\ DOMAIN s = 1 .. Len(s) /\ 1 \in DOMAIN s /\ \A i \in DOMAIN s : s[i] \in C!ScheduledStops
  <2> HIDE DEF s
  <2>1. s # <<>>
    BY DEF s
  <2> QED BY <1>1, <2>1
<1>3. T = UNION {P(i) : i \in DOMAIN s}
  BY DEF C!Times
<1> HIDE DEF s, T
<1>4. \A i \in DOMAIN s : s[i].arr \in Int /\ s[i].dep \in Int
  BY <1>2 DEF C!ScheduledStops
<1>5. T \subseteq Int /\ T # {}
  <2>1. T \subseteq Int
    BY <1>3, <1>4
  <2>2. s[1].arr \in T
    BY <1>2, <1>3
  <2> QED BY <2>1, <2>2
<1>6. IsFiniteSet(T)
  <2>1. \A i \in DOMAIN s : IsFiniteSet(P(i))
    <3> SUFFICES ASSUME NEW i \in DOMAIN s PROVE IsFiniteSet(P(i))
      OBVIOUS
    <3>1. P(i) = {s[i].arr} \cup {s[i].dep}
      OBVIOUS
    <3>2. IsFiniteSet({s[i].arr} \cup {s[i].dep})
      BY FS_Singleton, FS_AddElement
    <3> QED BY <3>1, <3>2
  <2>2. IsFiniteSet(DOMAIN s)
    BY <1>2, FS_Interval
  <2>3. IsFiniteSet({f[i] : i \in DOMAIN s})
    <3>1. DOMAIN f = DOMAIN s
      OBVIOUS
    <3> HIDE DEF f
    <3> QED BY <2>2, <3>1, ImageFinite
  <2>4. {f[i] : i \in DOMAIN s} = {P(i) : i \in DOMAIN s}
    OBVIOUS
  <2> DEFINE F == {P(i) : i \in DOMAIN s}
  <2>5. IsFiniteSet(F) /\ \A p \in F : IsFiniteSet(p)
    <3> HIDE DEF P
    <3> QED BY <2>1, <2>3, <2>4
  <2> HIDE DEF F
  <2>6. IsFiniteSet(UNION F)
    BY <2>5, FS_UNION
  <2> QED BY <1>3, <2>6 DEF F
<1>7. /\ C!LowestOf(T) \in T /\ \A y \in T : C!LowestOf(T) <= y
      /\ C!HighestOf(T) \in T /\ \A y \in T : C!HighestOf(T) >= y
  BY <1>5, <1>6, LowestIs
<1>8. C!Bounds(t)[1] = C!LowestOf(T) /\ C!Bounds(t)[2] = C!HighestOf(T)
  BY DEF C!Bounds, T
<1> QED BY <1>5, <1>7, <1>8 DEF T

\* The schedule of a day: trips with stops, each on a date, each once on it.
LEMMA ScheduleIs ==
  ASSUME C!ScheduleInv
  PROVE  /\ IsFiniteSet(v3)
         /\ \A s \in v3 : /\ s.trip \in C!Trips /\ s.trip \in Nat /\ s.date \in C!Dates
                          /\ s.start \in Int /\ s.end \in Int /\ C!StopsOf(s.trip) # <<>>
         /\ \A s, r \in v3 : s.trip = r.trip /\ s.date = r.date => s = r
<1>1. CASE v3 = {}
  BY <1>1, FS_EmptySet
<1>2. CASE v3 # {}
  <2>1. v3 = C!Selected /\ v2 = C!Kept /\ v1 \in Feeds
    BY <1>2 DEF C!ScheduleInv
  <2> DEFINE P == {p \in v2 \X C!Dates : C!ActiveOn(p[1], p[2]) /\ C!Overlapping(p[2], C!Bounds(p[1]))}
             R(p) == [trip |-> p[1], date |-> p[2], start |-> C!Bounds(p[1])[1], end |-> C!Bounds(p[1])[2]]
             f == [p \in P |-> R(p)]
  <2>2. v3 = {R(p) : p \in P}
    BY <2>1 DEF C!Selected
  <2>3. \A t \in v2 : t \in C!Trips /\ C!StopsOf(t) # <<>>
    BY <2>1 DEF C!Kept
  <2>4. IsFiniteSet(v3)
    <3>1. IsFiniteSet(v2)
      <4>1. IsFiniteSet(C!Trips) /\ v2 \in SUBSET C!Trips
        BY <2>1, <2>3, TripsAre
      <4> QED BY <4>1, FS_Subset
    <3>2. IsFiniteSet(C!Dates)
      <4>1. C!Dates = {1} \cup {2}
        BY DEF C!Dates
      <4>2. IsFiniteSet({1} \cup {2})
        BY FS_Singleton, FS_AddElement
      <4> QED BY <4>1, <4>2
    <3>3. IsFiniteSet(v2 \X C!Dates)
      BY <3>1, <3>2, FS_Product
    <3>4. IsFiniteSet(P)
      <4>1. P \in SUBSET (v2 \X C!Dates)
        OBVIOUS
      <4> QED BY <3>3, <4>1, FS_Subset
    <3>5. IsFiniteSet({f[p] : p \in P})
      <4>1. DOMAIN f = P
        OBVIOUS
      <4> HIDE DEF f, P
      <4> QED BY <3>4, <4>1, ImageFinite
    <3>6. {f[p] : p \in P} = {R(p) : p \in P}
      <4> HIDE DEF P, R
      <4> QED OBVIOUS
    <3> QED BY <2>2, <3>5, <3>6
  <2>5. ASSUME NEW s \in v3
        PROVE  \E p \in P : /\ s = R(p) /\ s.trip = p[1] /\ s.date = p[2] /\ p[1] \in v2 /\ p[2] \in C!Dates /\ p = <<p[1], p[2]>>
                            /\ s.start = C!Bounds(p[1])[1] /\ s.end = C!Bounds(p[1])[2]
    <3>1. PICK p \in P : s = R(p)
      BY <2>2
    <3>2. s.trip = p[1] /\ s.date = p[2] /\ s.start = C!Bounds(p[1])[1] /\ s.end = C!Bounds(p[1])[2]
      BY <3>1
    <3>3. p[1] \in v2 /\ p[2] \in C!Dates /\ p = <<p[1], p[2]>>
      BY <3>1
    <3> QED BY <3>1, <3>2, <3>3
  <2>6. \A s \in v3 : /\ s.trip \in C!Trips /\ s.trip \in Nat /\ s.date \in C!Dates
                      /\ s.start \in Int /\ s.end \in Int /\ C!StopsOf(s.trip) # <<>>
    <3> SUFFICES ASSUME NEW s \in v3
                 PROVE  /\ s.trip \in C!Trips /\ s.trip \in Nat /\ s.date \in C!Dates
                        /\ s.start \in Int /\ s.end \in Int /\ C!StopsOf(s.trip) # <<>>
      OBVIOUS
    <3>1. /\ s.trip \in v2 /\ s.date \in C!Dates
          /\ s.start = C!Bounds(s.trip)[1] /\ s.end = C!Bounds(s.trip)[2]
      BY <2>5
    <3>2. s.trip \in C!Trips /\ C!StopsOf(s.trip) # <<>>
      BY <2>3, <3>1
    <3> QED BY <2>1, <3>1, <3>2, TripsAre, BoundsAre
  <2>7. \A s, r \in v3 : s.trip = r.trip /\ s.date = r.date => s = r
    <3> SUFFICES ASSUME NEW s \in v3, NEW r \in v3, s.trip = r.trip, s.date = r.date PROVE s = r
      OBVIOUS
    <3>1. PICK p \in P : s = R(p) /\ s.trip = p[1] /\ s.date = p[2] /\ p = <<p[1], p[2]>>
      BY <2>5
    <3>2. PICK q \in P : r = R(q) /\ r.trip = q[1] /\ r.date = q[2] /\ q = <<q[1], q[2]>>
      BY <2>5
    <3> HIDE DEF P, R
    <3>3. p = q
      BY <3>1, <3>2
    <3> QED BY <3>1, <3>2, <3>3
  <2> QED BY <2>4, <2>6, <2>7
<1> QED BY <1>1, <1>2

--------------------------------------------------------------------------------
(* duties *)

LEMMA ChainDate == \A s : C!Chain(s)[1] = s.date
BY DEF C!Chain

LEMMA SegmentIs ==
  \A S, s : LET r == C!Segment(S, s)
            IN  r.trip = s.trip /\ r.date = s.date /\ r.chain = C!Chain(s) /\ r.start = s.start /\ r.end = s.end
BY DEF C!Segment

\* The schedule's order is strict, and total where trips differ.
LEMMA PrecedesOrders ==
  ASSUME C!ScheduleInv
  PROVE  /\ \A a \in v3 : ~C!Precedes(a, a)
         /\ \A a, b, c \in v3 : C!Precedes(a, b) /\ C!Precedes(b, c) => C!Precedes(a, c)
         /\ \A a, b \in v3 : a.trip # b.trip => C!Precedes(a, b) \/ C!Precedes(b, a)
<1>1. \A s \in v3 : s.trip \in Int /\ s.start \in Int /\ s.end \in Int
  BY ScheduleIs
<1>2. \A a \in v3 : ~C!Precedes(a, a)
  BY <1>1 DEF C!Precedes
<1>3. ASSUME NEW a \in v3, NEW b \in v3, NEW c \in v3, C!Precedes(a, b), C!Precedes(b, c) PROVE C!Precedes(a, c)
  BY <1>1, <1>3 DEF C!Precedes
<1>4. ASSUME NEW a \in v3, NEW b \in v3, a.trip # b.trip PROVE C!Precedes(a, b) \/ C!Precedes(b, a)
  BY <1>1, <1>4 DEF C!Precedes
<1> QED BY <1>2, <1>3, <1>4

\* Whoever has someone before them in their duty has a last one before them.
LEMMA PreviousIs ==
  ASSUME C!ScheduleInv, NEW s \in v3, NEW a \in v3, C!Chain(a) = C!Chain(s), C!Precedes(a, s)
  PROVE  LET group == {x \in v3 : C!Chain(x) = C!Chain(s)}
             earlier == {x \in group : C!Precedes(x, s)}
         IN  \E p \in earlier : \A y \in earlier : ~C!Precedes(p, y)
<1> DEFINE group == {x \in v3 : C!Chain(x) = C!Chain(s)}
           earlier == {x \in group : C!Precedes(x, s)}
           R == {p \in v3 \X v3 : C!Precedes(p[2], p[1])}
<1>1. IsFiniteSet(earlier) /\ earlier # {} /\ earlier \subseteq v3
  <2>1. earlier \in SUBSET v3 /\ a \in earlier
    OBVIOUS
  <2> HIDE DEF earlier
  <2> QED BY <2>1, ScheduleIs, FS_Subset
<1> HIDE DEF earlier
<1>2. \A x, y \in v3 : <<x, y>> \in R <=> C!Precedes(y, x)
  OBVIOUS
<1> HIDE DEF R
<1>3. \A x \in earlier : <<x, x>> \notin R
  BY <1>1, <1>2, PrecedesOrders
<1>4. \A x, y, z \in earlier : <<x, y>> \in R /\ <<y, z>> \in R => <<x, z>> \in R
  <2> SUFFICES ASSUME NEW x \in earlier, NEW y \in earlier, NEW z \in earlier, <<x, y>> \in R, <<y, z>> \in R
               PROVE  <<x, z>> \in R
    OBVIOUS
  <2>1. x \in v3 /\ y \in v3 /\ z \in v3
    BY <1>1
  <2>2. C!Precedes(y, x) /\ C!Precedes(z, y)
    BY <1>2, <2>1
  <2>3. C!Precedes(z, x)
    BY <2>1, <2>2, PrecedesOrders
  <2> QED BY <1>2, <2>1, <2>3
<1>5. PICK p \in earlier : \A y \in earlier : <<y, p>> \notin R
  BY <1>1, <1>3, <1>4, Foremost
<1>6. \A y \in earlier : ~C!Precedes(p, y)
  BY <1>1, <1>2, <1>5
<1> QED BY <1>6 DEF earlier

\* _malformed: each segment is compared with the one before it only, which is enough
\* to notice that any two of a duty overlap.
LEMMA Noticed ==
  ASSUME C!ScheduleInv, NEW a \in v3, NEW b \in v3, C!Chain(a) = C!Chain(b), C!Precedes(a, b),
         a.start < b.end, b.start < a.end
  PROVE  \E x \in v3 : C!Chain(x) = C!Chain(a) /\ C!Segment(v3, x).malformed
<1> SUFFICES ASSUME \A x \in v3 : C!Chain(x) = C!Chain(a) => ~C!Segment(v3, x).malformed PROVE FALSE
  OBVIOUS
<1> DEFINE W == {x \in v3 : C!Chain(x) = C!Chain(a) /\ C!Precedes(a, x) /\ x.start < a.end}
           R == {p \in v3 \X v3 : C!Precedes(p[1], p[2])}
<1>0. \A s \in v3 : s.trip \in Int /\ s.start \in Int /\ s.end \in Int
  BY ScheduleIs
<1>1. IsFiniteSet(W) /\ W # {} /\ W \subseteq v3
  <2>1. W \in SUBSET v3 /\ b \in W
    OBVIOUS
  <2> HIDE DEF W
  <2> QED BY <2>1, ScheduleIs, FS_Subset
<1>2. \A x, y \in v3 : <<x, y>> \in R <=> C!Precedes(x, y)
  OBVIOUS
<1> HIDE DEF R
<1>3. PICK y \in W : \A x \in W : ~C!Precedes(x, y)
  <2> HIDE DEF W
  <2>1. \A x \in W : <<x, x>> \notin R
    BY <1>1, <1>2, PrecedesOrders
  <2>2. \A x, z, w \in W : <<x, z>> \in R /\ <<z, w>> \in R => <<x, w>> \in R
    <3> SUFFICES ASSUME NEW x \in W, NEW z \in W, NEW w \in W, <<x, z>> \in R, <<z, w>> \in R PROVE <<x, w>> \in R
      OBVIOUS
    <3>1. x \in v3 /\ z \in v3 /\ w \in v3
      BY <1>1
    <3>2. C!Precedes(x, z) /\ C!Precedes(z, w)
      BY <1>2, <3>1
    <3>3. C!Precedes(x, w)
      BY <3>1, <3>2, PrecedesOrders
    <3> QED BY <1>2, <3>1, <3>3
  <2>3. PICK y \in W : \A x \in W : <<x, y>> \notin R
    BY <1>1, <2>1, <2>2, Foremost
  <2>4. \A x \in W : ~C!Precedes(x, y)
    BY <1>1, <1>2, <2>3
  <2> QED BY <2>4
<1>4. y \in v3 /\ C!Chain(y) = C!Chain(a) /\ C!Precedes(a, y) /\ y.start < a.end
  OBVIOUS
<1> DEFINE group == {x \in v3 : C!Chain(x) = C!Chain(y)}
           earlier == {x \in group : C!Precedes(x, y)}
<1>5. PICK p \in earlier : \A z \in earlier : ~C!Precedes(p, z)
  BY <1>4, PreviousIs
<1>6. p \in v3 /\ C!Chain(p) = C!Chain(a) /\ C!Precedes(p, y) /\ ~C!Precedes(p, a)
  BY <1>4, <1>5
<1>7. ~C!Overlaps(y, p) /\ ~(p.end < p.start)
  <2>1. ~C!Segment(v3, y).malformed /\ ~C!Segment(v3, p).malformed
    BY <1>4, <1>6
  <2>2. p \in {x \in earlier : \A z \in earlier : ~C!Precedes(x, z)}
    BY <1>5
  <2>3. ~C!Overlaps(y, p)
    BY <2>1, <2>2 DEF C!Segment
  <2>4. ~(p.end < p.start)
    BY <2>1 DEF C!Segment
  <2> QED BY <2>3, <2>4
<1>8. p.end <= y.start
  BY <1>0, <1>4, <1>6, <1>7 DEF C!Overlaps
<1>9. CASE p = a
  BY <1>0, <1>4, <1>8, <1>9
<1>10. CASE p # a
  <2>1. p.trip # a.trip
    <3>1. p.date = a.date
      BY <1>6, ChainDate
    <3> QED BY <1>6, <1>10, <3>1, ScheduleIs
  <2>2. C!Precedes(a, p)
    BY <1>6, <2>1, PrecedesOrders
  <2>3. p \notin W
    BY <1>3, <1>6
  <2>4. ~(p.start < a.end)
    BY <1>6, <2>2, <2>3
  <2> QED BY <1>0, <1>4, <1>6, <1>7, <1>8, <2>4
<1> QED BY <1>9, <1>10

LEMMA DutiesIn ==
  ASSUME C!ScheduleInv
  PROVE  /\ v4 \subseteq C!Segments
         /\ \A r \in v4, x \in C!Segments : x.chain = r.chain => x \in v4
<1>1. CASE v4 = {}
  BY <1>1
<1>2. CASE v4 = C!Segments
  BY <1>2
<1>3. CASE v4 = C!Retained(C!Segments)
  BY <1>3 DEF C!Retained
<1> QED BY <1>1, <1>2, <1>3 DEF C!ScheduleInv

LEMMA OverlapIsNoticed == ASSUME C!ScheduleInv PROVE C!OverlapNoticed
<1> SUFFICES ASSUME NEW a \in v4, NEW b \in v4, a.chain = b.chain, a # b, a.start < b.end, b.start < a.end
             PROVE  \E x \in v4 : x.chain = a.chain /\ x.malformed
  BY DEF C!OverlapNoticed
<1>1. PICK s \in v3 : a = C!Segment(v3, s)
  BY DutiesIn DEF C!Segments
<1>2. PICK q \in v3 : b = C!Segment(v3, q)
  BY DutiesIn DEF C!Segments
<1>3. /\ s # q /\ C!Chain(s) = C!Chain(q) /\ s.start < q.end /\ q.start < s.end /\ a.chain = C!Chain(s)
  <2>1. a.chain = C!Chain(s) /\ a.start = s.start /\ a.end = s.end
    BY <1>1, SegmentIs
  <2>2. b.chain = C!Chain(q) /\ b.start = q.start /\ b.end = q.end
    BY <1>2, SegmentIs
  <2> QED BY <1>1, <1>2, <2>1, <2>2
<1>4. C!Precedes(s, q) \/ C!Precedes(q, s)
  <2>1. s.date = q.date
    BY <1>3, ChainDate
  <2>2. s.trip # q.trip
    BY <1>3, <2>1, ScheduleIs
  <2> QED BY <2>2, PrecedesOrders
<1>5. PICK x \in v3 : C!Chain(x) = C!Chain(s) /\ C!Segment(v3, x).malformed
  BY <1>3, <1>4, Noticed
<1>6. C!Segment(v3, x) \in C!Segments /\ C!Segment(v3, x).chain = a.chain
  BY <1>3, <1>5, SegmentIs DEF C!Segments
<1> QED BY <1>5, <1>6, DutiesIn

LEMMA DayCovered == ASSUME C!ScheduleInv PROVE C!DayIsCovered
<1> SUFFICES ASSUME v8 \notin {"load", "select"} \union C!Failures, NEW t \in C!Trips, NEW d \in C!Dates,
                    C!ActiveOn(t, d), NEW x \in C!Times(t), v1.day[1] <= v1.origin[d] + x, v1.origin[d] + x < v1.day[2]
             PROVE  \E s \in v3 : s.trip = t /\ s.date = d
  BY DEF C!DayIsCovered
<1>1. v3 = C!Selected /\ v2 = C!Kept /\ v1 \in Feeds
  BY DEF C!ScheduleInv
<1>2. C!StopsOf(t) # <<>>
  BY DEF C!Times
<1>3. C!Overlapping(d, C!Bounds(t))
  <2>1. v1.origin[d] \in Int /\ v1.day[1] \in Int /\ v1.day[2] \in Int
    BY <1>1, TripsAre, ScheduleHolds DEF C!ScheduleAssumption
  <2> DEFINE lo == C!Bounds(t)[1]
             hi == C!Bounds(t)[2]
  <2>2. lo \in Int /\ hi \in Int /\ x \in Int /\ lo <= x /\ x <= hi
    BY <1>1, <1>2, BoundsAre
  <2>3. v1.origin[d] + hi >= v1.day[1] /\ v1.origin[d] + lo < v1.day[2]
    <3> HIDE DEF lo, hi
    <3> QED BY <2>1, <2>2
  <2> QED BY <2>3 DEF C!Overlapping
<1>4. t \in v2
  BY <1>1, <1>2, <1>3 DEF C!Kept
<1> DEFINE p == <<t, d>>
           s == [trip |-> p[1], date |-> p[2], start |-> C!Bounds(p[1])[1], end |-> C!Bounds(p[1])[2]]
<1>5. s \in v3
  <2>1. p \in v2 \X C!Dates /\ C!ActiveOn(p[1], p[2]) /\ C!Overlapping(p[2], C!Bounds(p[1]))
    BY <1>3, <1>4
  <2> DEFINE P == {q \in v2 \X C!Dates : C!ActiveOn(q[1], q[2]) /\ C!Overlapping(q[2], C!Bounds(q[1]))}
             R(q) == [trip |-> q[1], date |-> q[2], start |-> C!Bounds(q[1])[1], end |-> C!Bounds(q[1])[2]]
  <2>2. v3 = {R(q) : q \in P}
    BY <1>1 DEF C!Selected
  <2>3. p \in P
    BY <2>1
  <2>4. s = R(p)
    OBVIOUS
  <2> HIDE DEF P, R, p, s
  <2> QED BY <2>2, <2>3, <2>4
<1>6. s.trip = t /\ s.date = d
  OBVIOUS
<1> QED BY <1>5, <1>6

--------------------------------------------------------------------------------
(* iter_stop_semantics *)

\* A segment's trip has stops, in the order of their numbers.
LEMMA StopsAre ==
  ASSUME C!ScheduleInv, NEW r \in C!Segments
  PROVE  /\ C!StopsOf(r.trip) \in Seq(C!ScheduledStops) /\ C!StopsOf(r.trip) # <<>>
         /\ Len(C!StopsOf(r.trip)) \in Nat \ {0}
         /\ DOMAIN C!StopsOf(r.trip) = 1 .. Len(C!StopsOf(r.trip))
<1>1. PICK s \in v3 : r = C!Segment(v3, s)
  BY DEF C!Segments
<1>2. s.trip \in C!Trips /\ C!StopsOf(s.trip) # <<>> /\ r.trip = s.trip
  BY <1>1, ScheduleIs, SegmentIs
<1>3. C!StopsOf(r.trip) \in Seq(C!ScheduledStops)
  BY <1>2, TripsAre DEF C!ScheduleInv
<1> DEFINE q == C!StopsOf(r.trip)
<1>4. q \in Seq(C!ScheduledStops) /\ q # <<>>
  BY <1>2, <1>3
<1> HIDE DEF q
<1>5. Len(q) \in Nat \ {0} /\ DOMAIN q = 1 .. Len(q)
  BY <1>4
<1> QED BY <1>4, <1>5 DEF q

\* What is written once the stops are classified.
LEMMA ClassesAre ==
  ASSUME C!ScheduleInv, v8 \in {"universe", "endpoints", "done"}, NEW r \in v4
  PROVE  /\ v5[r] = C!Classes(v4, r) /\ DOMAIN v5[r] = 1 .. Len(C!StopsOf(r.trip))
         /\ \A i \in DOMAIN v5[r] : v5[r][i] = C!Class(v4, r, i)
<1>1. v5[r] = C!Classes(v4, r)
  BY DEF C!ScheduleInv
<1>2. DOMAIN C!StopsOf(r.trip) = 1 .. Len(C!StopsOf(r.trip))
  BY DutiesIn, StopsAre
<1> QED BY <1>1, <1>2 DEF C!Classes

LEMMA PassengerIs ==
  ASSUME NEW Z, NEW r, NEW i \in DOMAIN C!StopsOf(r.trip), C!Class(Z, r, i) = "passenger"
  PROVE  ~r.depot /\ i \in C!Eligible(r.trip)
BY DEF C!Class, C!ExplicitClass, C!Eligible

\* Nothing technical between two passenger stops.
LEMMA CoreIs ==
  ASSUME C!ScheduleInv, v8 \in {"universe", "endpoints", "done"}, NEW r \in v4,
         NEW i \in C!PassengerStops(r), NEW j \in C!PassengerStops(r), NEW k \in i .. j
  PROVE  v5[r][k] \in {"passenger", "unknown"}
<1> DEFINE n == Len(C!StopsOf(r.trip))
<1>1. n \in Nat \ {0} /\ DOMAIN C!StopsOf(r.trip) = 1 .. n /\ DOMAIN v5[r] = 1 .. n
  BY DutiesIn, StopsAre, ClassesAre
<1>2. i \in 1 .. n /\ j \in 1 .. n /\ v5[r][i] = "passenger" /\ v5[r][j] = "passenger"
  BY <1>1 DEF C!PassengerStops
<1>3. C!Class(v4, r, i) = "passenger" /\ C!Class(v4, r, j) = "passenger"
  BY <1>1, <1>2, ClassesAre
<1>4. ~r.depot /\ i \in C!Eligible(r.trip) /\ j \in C!Eligible(r.trip)
  BY <1>1, <1>2, <1>3, PassengerIs
<1>5. CASE k = i \/ k = j
  BY <1>2, <1>5
<1>6. CASE i < k /\ k < j
  <2>1. k \in 1 .. n /\ k # 1 /\ k # n
    BY <1>1, <1>2, <1>6
  <2>2. v5[r][k] = C!Class(v4, r, k)
    BY <1>1, <2>1, ClassesAre
  <2>3. ~C!Prefix(v4, r, k) /\ ~C!Suffix(v4, r, k)
    BY <2>1 DEF C!Prefix, C!Suffix
  <2>4. C!ExplicitClass(r, k) = "unknown"
    <3>1. ~(i > k) /\ ~(j < k)
      BY <1>1, <1>2, <1>6, <2>1
    <3> QED BY <1>4, <3>1 DEF C!ExplicitClass
  <2>5. C!Class(v4, r, k) \in {"passenger", "unknown"}
    BY <1>4, <2>3, <2>4 DEF C!Class
  <2> QED BY <2>2, <2>5
<1>7. k = i \/ k = j \/ (i < k /\ k < j)
  BY <1>1, <1>2
<1> QED BY <1>5, <1>6, <1>7

LEMMA CorePassenger == ASSUME C!ScheduleInv PROVE C!PassengerCore
<1> SUFFICES ASSUME v8 \in {"universe", "endpoints", "done"}, NEW r \in v4
             PROVE  /\ \A i, j \in C!PassengerStops(r) : \A k \in i .. j : v5[r][k] \in {"passenger", "unknown"}
                    /\ v8 = "done" /\ r \in DOMAIN v6 /\ C!Settled(r) =>
                         \A i \in C!PassengerStops(r) :
                           C!StopsOf(r.trip)[i].post \in v1.located =>
                             v6[r] # <<>> /\ v6[r][1] <= i /\ i <= v6[r][2]
                    /\ v8 = "done" /\ r \in DOMAIN v6 /\ v6[r] # <<>> =>
                         \A k \in {1, 2} : C!StopsOf(r.trip)[v6[r][k]].post \in v1.located
  BY DEF C!PassengerCore
<1> DEFINE U == C!Usable(r)
<1>1. \A i, j \in C!PassengerStops(r) : \A k \in i .. j : v5[r][k] \in {"passenger", "unknown"}
  BY CoreIs
<1>2. U \subseteq Int /\ IsFiniteSet(U) /\ \A i \in U : C!StopsOf(r.trip)[i].post \in v1.located
  <2>1. DOMAIN v5[r] = 1 .. Len(C!StopsOf(r.trip)) /\ Len(C!StopsOf(r.trip)) \in Nat
    BY DutiesIn, StopsAre, ClassesAre
  <2>2. U \in SUBSET (1 .. Len(C!StopsOf(r.trip)))
    BY <2>1 DEF C!Usable, C!PassengerStops
  <2>3. IsFiniteSet(1 .. Len(C!StopsOf(r.trip)))
    BY <2>1, FS_Interval
  <2>4. IsFiniteSet(U)
    <3> HIDE DEF U
    <3> QED BY <2>2, <2>3, FS_Subset
  <2>5. \A i \in U : C!StopsOf(r.trip)[i].post \in v1.located
    BY DEF C!Usable
  <2> QED BY <2>1, <2>2, <2>4, <2>5
<1>3. v8 = "done" /\ r \in DOMAIN v6 => v6[r] = IF U = {} THEN <<>> ELSE <<C!LowestOf(U), C!HighestOf(U)>>
  BY DEF C!ScheduleInv, C!Endpoints
<1>4. C!Settled(r) => \A i \in C!PassengerStops(r) : C!StopsOf(r.trip)[i].post \in v1.located => i \in U
  BY DEF C!Usable
<1> HIDE DEF U
<1>5. U # {} => /\ C!LowestOf(U) \in U /\ \A y \in U : C!LowestOf(U) <= y
                /\ C!HighestOf(U) \in U /\ \A y \in U : C!HighestOf(U) >= y
  BY <1>2, LowestIs
<1>6. ASSUME v8 = "done", r \in DOMAIN v6, C!Settled(r), NEW i \in C!PassengerStops(r), C!StopsOf(r.trip)[i].post \in v1.located
      PROVE  v6[r] # <<>> /\ v6[r][1] <= i /\ i <= v6[r][2]
  <2>1. i \in U
    BY <1>4, <1>6
  <2> DEFINE lo == C!LowestOf(U)
             hi == C!HighestOf(U)
  <2>2. v6[r] = <<lo, hi>> /\ lo <= i /\ hi >= i /\ lo \in Int /\ hi \in Int /\ i \in Int
    BY <1>2, <1>3, <1>5, <1>6, <2>1
  <2> HIDE DEF lo, hi
  <2> QED BY <2>2
<1>7. ASSUME v8 = "done", r \in DOMAIN v6, v6[r] # <<>>, NEW k \in {1, 2}
      PROVE  C!StopsOf(r.trip)[v6[r][k]].post \in v1.located
  <2>1. U # {} /\ v6[r] = <<C!LowestOf(U), C!HighestOf(U)>>
    BY <1>3, <1>7
  <2>2. v6[r][k] \in U
    BY <1>5, <2>1
  <2> QED BY <1>2, <2>2
<1> QED BY <1>1, <1>6, <1>7

LEMMA NeighboursIn ==
  ASSUME C!ScheduleInv, NEW r \in C!Segments, NEW t \in r.previous \union r.next
  PROVE  \E y \in v3 : C!Chain(y) = r.chain /\ y.trip = t
<1>1. PICK s \in v3 : r = C!Segment(v3, s)
  BY DEF C!Segments
<1>2. r.chain = C!Chain(s)
  BY <1>1, SegmentIs
<1> DEFINE group == {x \in v3 : C!Chain(x) = C!Chain(s)}
           earlier == {x \in group : C!Precedes(x, s)}
           later == {x \in group : C!Precedes(s, x)}
           previous == {x \in earlier : \A y \in earlier : ~C!Precedes(x, y)}
           next == {x \in later : \A y \in later : ~C!Precedes(y, x)}
<1>3. r.previous = {x.trip : x \in previous} /\ r.next = {x.trip : x \in next}
  BY <1>1 DEF C!Segment
<1>4. previous \subseteq group /\ next \subseteq group
  OBVIOUS
<1> HIDE DEF previous, next
<1>5. \E y \in group : y.trip = t
  BY <1>3, <1>4
<1> QED BY <1>2, <1>5

\* The neighbours of a duty that is retained are retained.
LEMMA NeighboursKept ==
  ASSUME C!ScheduleInv, NEW r \in v4
  PROVE  /\ C!Of(v4, r, r.previous) = C!Of(C!Segments, r, r.previous)
         /\ C!Of(v4, r, r.next) = C!Of(C!Segments, r, r.next)
<1>1. r \in C!Segments /\ v4 \subseteq C!Segments
  BY DutiesIn
<1>2. ASSUME NEW x \in C!Segments, x.date = r.date, x.trip \in r.previous \union r.next PROVE x \in v4
  <2>1. PICK y \in v3 : C!Chain(y) = r.chain /\ y.trip = x.trip
    BY <1>1, <1>2, NeighboursIn
  <2>2. PICK s \in v3 : r = C!Segment(v3, s)
    BY <1>1 DEF C!Segments
  <2>3. PICK q \in v3 : x = C!Segment(v3, q)
    BY DEF C!Segments
  <2>4. r.date = s.date /\ r.chain = C!Chain(s) /\ x.date = q.date /\ x.trip = q.trip /\ x.chain = C!Chain(q)
    BY <2>2, <2>3, SegmentIs
  <2>5. y.date = q.date
    BY <1>2, <2>1, <2>4, ChainDate
  <2>6. y = q
    BY <2>1, <2>4, <2>5, ScheduleIs
  <2> QED BY <1>1, <2>1, <2>4, <2>6, DutiesIn
<1> QED BY <1>1, <1>2 DEF C!Of

LEMMA AgreesDiagnostic == ASSUME C!ScheduleInv PROVE C!DiagnosticAgrees
<1> SUFFICES ASSUME v8 = "universe", NEW r \in v4 PROVE v5[r] = C!Classes(C!Segments, r)
  BY DEF C!DiagnosticAgrees
<1>1. v5[r] = C!Classes(v4, r)
  BY ClassesAre
<1>2. ASSUME NEW i PROVE C!Class(v4, r, i) = C!Class(C!Segments, r, i)
  <2>1. (C!Prefix(v4, r, i) <=> C!Prefix(C!Segments, r, i)) /\ (C!Suffix(v4, r, i) <=> C!Suffix(C!Segments, r, i))
    BY NeighboursKept DEF C!Prefix, C!Suffix
  <2> QED BY <2>1 DEF C!Class
<1> QED BY <1>1, <1>2 DEF C!Classes

--------------------------------------------------------------------------------
(* _write_trip_universe *)

LEMMA PartOfPart ==
  ASSUME NEW S, NEW a \in Seq(S), NEW b \in Seq(S), NEW c \in Seq(S), C!Part(a, b), C!Part(b, c)
  PROVE  C!Part(a, c)
<1>1. PICK j \in 0 .. Len(b) - Len(a) : \A i \in DOMAIN a : a[i] = b[j + i]
  BY DEF C!Part
<1>2. PICK k \in 0 .. Len(c) - Len(b) : \A i \in DOMAIN b : b[i] = c[k + i]
  BY DEF C!Part
<1>3. Len(a) \in Nat /\ Len(b) \in Nat /\ Len(c) \in Nat /\ DOMAIN a = 1 .. Len(a) /\ DOMAIN b = 1 .. Len(b)
  OBVIOUS
<1> DEFINE m == k + j
<1>4. m \in 0 .. Len(c) - Len(a)
  BY <1>3
<1>5. ASSUME NEW i \in DOMAIN a PROVE a[i] = c[m + i]
  <2>1. j + i \in DOMAIN b
    BY <1>3
  <2>2. b[j + i] = c[k + (j + i)]
    BY <1>2, <2>1
  <2>3. k + (j + i) = m + i
    BY <1>3
  <2> QED BY <1>1, <2>2, <2>3
<1> HIDE DEF m
<1> QED BY <1>4, <1>5 DEF C!Part

LEMMA PostsAre == ASSUME C!ScheduleInv, NEW r \in v4 PROVE C!Posts(r) \in Seq(Int \X Int)
<1> DEFINE s == C!StopsOf(r.trip)
<1>1. s \in Seq(C!ScheduledStops)
  BY DutiesIn, StopsAre
<1> HIDE DEF s
<1>2. \A i \in DOMAIN s : s[i].post \in Int \X Int
  <2> SUFFICES ASSUME NEW i \in DOMAIN s PROVE s[i].post \in Int \X Int
    OBVIOUS
  <2>1. s[i] \in C!ScheduledStops
    BY <1>1
  <2> QED BY <2>1, Zenon DEF C!ScheduledStops
<1>3. [i \in DOMAIN s |-> s[i].post] \in Seq(Int \X Int)
  <2>1. DOMAIN s = 1 .. Len(s) /\ Len(s) \in Nat
    BY <1>1
  <2> QED BY <1>2, <2>1
<1> QED BY <1>3 DEF C!Posts, s

LEMMA DutiesFinite == ASSUME C!ScheduleInv PROVE IsFiniteSet(v4)
<1> DEFINE f == [s \in v3 |-> C!Segment(v3, s)]
<1>1. C!Segments = {f[s] : s \in v3}
  BY DEF C!Segments
<1>2. DOMAIN f = v3
  OBVIOUS
<1> HIDE DEF f
<1>3. IsFiniteSet(C!Segments)
  BY <1>1, <1>2, ScheduleIs, ImageFinite
<1>4. v4 \in SUBSET C!Segments
  BY DutiesIn
<1> QED BY <1>3, <1>4, FS_Subset

LEMMA OneGroup == \A r, x : x \in C!Group(r) => C!Group(x) = C!Group(r)
BY DEF C!Group

LEMMA ShortIsShorter == ASSUME C!ScheduleInv PROVE C!ShortOfSomething
<1> SUFFICES ASSUME NEW r \in v7.short
             PROVE  \E x \in C!Group(r) \ v7.short :
                      C!Public(x) /\ Len(C!Posts(x)) > Len(C!Posts(r)) /\ C!Part(C!Posts(r), C!Posts(x))
  BY DEF C!ShortOfSomething
<1>1. v7.short = {x \in v4 : v1.trips[x.trip].mode \in {"bus", "tram"} /\ C!ShortTurn(x)}
  <2>1. v7 = C!Universe
    BY DEF C!ScheduleInv, C!Empty
  <2> QED BY <2>1 DEF C!Universe
<1>2. r \in v4 /\ C!ShortTurn(r)
  BY <1>1
<1> DEFINE n(x) == Len(C!Posts(x))
           W == {x \in C!Group(r) : C!Public(x) /\ n(x) > n(r) /\ C!Part(C!Posts(r), C!Posts(x))}
           R == {p \in W \X W : n(p[1]) > n(p[2])}
<1>3. W \subseteq v4 /\ W # {} /\ IsFiniteSet(W)
  <2>1. W \in SUBSET v4
    BY DEF C!Group
  <2>2. W # {}
    BY <1>2 DEF C!ShortTurn
  <2> HIDE DEF W
  <2> QED BY <2>1, <2>2, DutiesFinite, FS_Subset
<1>4. \A x \in v4 : n(x) \in Nat
  BY PostsAre
<1>5. PICK x \in W : \A y \in W : <<y, x>> \notin R
  <2>1. \A x \in W : <<x, x>> \notin R
    <3> HIDE DEF W, n
    <3> QED BY <1>3, <1>4
  <2>2. \A x, y, z \in W : <<x, y>> \in R /\ <<y, z>> \in R => <<x, z>> \in R
    <3> HIDE DEF W, n
    <3> QED BY <1>3, <1>4
  <2> HIDE DEF R, W, n
  <2> QED BY <1>3, <2>1, <2>2, Foremost
<1>6. \A y \in W : ~(n(y) > n(x))
  <2> HIDE DEF W, n
  <2> QED BY <1>5
<1>7. x \in C!Group(r) /\ C!Public(x) /\ n(x) > n(r) /\ C!Part(C!Posts(r), C!Posts(x)) /\ x \in v4
  BY <1>3
<1>8. ASSUME x \in v7.short PROVE FALSE
  <2>1. PICK z \in C!Group(x) : C!Public(z) /\ n(z) > n(x) /\ C!Part(C!Posts(x), C!Posts(z))
    BY <1>1, <1>8 DEF C!ShortTurn
  <2>2. z \in C!Group(r) /\ z \in v4
    BY <1>7, <2>1, OneGroup DEF C!Group
  <2>3. n(z) > n(r)
    <3> HIDE DEF n
    <3> QED BY <1>2, <1>4, <1>7, <2>1, <2>2
  <2>4. C!Part(C!Posts(r), C!Posts(z))
    BY <1>2, <1>7, <2>1, <2>2, PostsAre, PartOfPart
  <2>5. z \in W
    BY <2>1, <2>2, <2>3, <2>4
  <2> QED BY <1>6, <2>1, <2>5
<1> QED BY <1>7, <1>8

--------------------------------------------------------------------------------
(* One step per action *)

ScheduleVars == <<v1, v2, v3, v4, v5, v6, v7, v8>>

LEMMA ScheduleInitially == C!Init => C!ScheduleInv
<1> SUFFICES ASSUME C!Init PROVE C!ScheduleInv
  OBVIOUS
<1>1. /\ v1 \in Feeds /\ v2 = {} /\ v3 = {} /\ v4 = {} /\ v7 = C!Empty /\ v8 = "load"
  BY DEF C!Init
<1> QED BY <1>1 DEF C!ScheduleInv, C!Failures

\* What a table is derived from stays, so it does.
LEMMA KeptStays == ASSUME v1' = v1 PROVE C!Kept' = C!Kept
BY DEF C!Kept, C!Trips, C!StopsOf, C!ActiveOn, C!Overlapping, C!Bounds, C!Times

LEMMA SelectedStays == ASSUME v1' = v1, v2' = v2 PROVE C!Selected' = C!Selected
BY DEF C!Selected, C!StopsOf, C!ActiveOn, C!Overlapping, C!Bounds, C!Times

LEMMA SegmentsStay ==
  ASSUME v1' = v1, v3' = v3 PROVE C!Segments' = C!Segments /\ C!Retained(C!Segments)' = C!Retained(C!Segments)
<1>1. C!Segments' = C!Segments
  BY DEF C!Segments, C!Segment, C!Chain, C!Eligible, C!Explicit, C!StopsOf, C!Overlaps, C!Precedes
<1> QED BY <1>1 DEF C!Retained

LEMMA ClassesStay ==
  ASSUME v1' = v1, v4' = v4
  PROVE  [r \in v4 |-> C!Classes(v4, r)]' = [r \in v4 |-> C!Classes(v4, r)]
BY DEF C!Classes, C!Class, C!ExplicitClass, C!Explicit, C!Eligible, C!StopsOf, C!Prefix, C!Suffix, C!Of, C!SameGroup

LEMMA UniverseStays ==
  ASSUME v1' = v1, v4' = v4, v5' = v5
  PROVE  C!Universe' = C!Universe /\ C!Endpoints' = C!Endpoints
<1>1. C!Universe' = C!Universe
  BY DEF C!Universe, C!ShortTurn, C!Ranked, C!Public, C!PassengerStops, C!Settled, C!Rank, C!Group, C!Line, C!Pair,
         C!Posts, C!StopsOf
<1>2. C!Endpoints' = C!Endpoints
  BY DEF C!Endpoints, C!Usable, C!PassengerStops, C!Settled, C!StopsOf
<1> QED BY <1>1, <1>2, SMTT(30)

LEMMA ScheduleStep == C!ScheduleInv /\ (C!Next \/ UNCHANGED ScheduleVars) => C!ScheduleInv'
<1> SUFFICES ASSUME C!ScheduleInv, C!Next \/ UNCHANGED ScheduleVars PROVE C!ScheduleInv'
  OBVIOUS
<1> USE DEF C!Failures
<1>1. CASE C!Load
  <2>1. /\ v8 = "load" /\ v2' = C!Kept /\ v1' = v1 /\ v3' = v3 /\ v4' = v4 /\ v7' = v7
        /\ v8' \in {"resource_limit", "invalid_data", "select"}
    BY <1>1 DEF C!Load
  <2>2. v1 \in Feeds /\ v3 = {} /\ v4 = {} /\ v7 = C!Empty
    BY <2>1 DEF C!ScheduleInv
  <2>3. C!Kept' = C!Kept
    BY <2>1, KeptStays
  <2>4. C!Kept' \subseteq C!Trips'
    BY DEF C!Kept
  <2>5. C!Empty' = C!Empty
    BY DEF C!Empty
  <2> QED BY <2>5, <2>4, <2>1, <2>3, <2>2 DEF C!ScheduleInv
<1>2. CASE C!Select
  <2>1. /\ v8 = "select" /\ v3' = C!Selected /\ v1' = v1 /\ v2' = v2 /\ v4' = v4 /\ v7' = v7
        /\ v8' \in {"snapshot_mismatch", "invalid_output", "duties"}
    BY <1>2 DEF C!Select
  <2>2. v1 \in Feeds /\ v4 = {} /\ v7 = C!Empty /\ v2 = C!Kept /\ v2 \subseteq C!Trips
    BY <2>1 DEF C!ScheduleInv
  <2>3. C!Kept' = C!Kept /\ C!Selected' = C!Selected /\ C!Trips' = C!Trips /\ C!Empty' = C!Empty
    BY <2>1, KeptStays, SelectedStays DEF C!Trips, C!Empty
  <2> QED BY <2>1, <2>2, <2>3 DEF C!ScheduleInv
<1>3. CASE C!Chained
  <2>1. /\ v8 = "duties" /\ v4' = C!Segments /\ v1' = v1 /\ v2' = v2 /\ v3' = v3 /\ v7' = v7 /\ v8' = "diagnose"
    BY <1>3 DEF C!Chained
  <2>2. v1 \in Feeds /\ v7 = C!Empty /\ v2 = C!Kept /\ v2 \subseteq C!Trips /\ v3 = C!Selected
    BY <2>1 DEF C!ScheduleInv
  <2>3. /\ C!Kept' = C!Kept /\ C!Selected' = C!Selected /\ C!Trips' = C!Trips /\ C!Empty' = C!Empty
        /\ C!Segments' = C!Segments
    BY <2>1, KeptStays, SelectedStays, SegmentsStay DEF C!Trips, C!Empty
  <2> QED BY <2>1, <2>2, <2>3 DEF C!ScheduleInv
<1>4. CASE C!Diagnose
  <2>1. /\ v8 = "diagnose" /\ v4' \in {v4, C!Retained(v4)} /\ v1' = v1 /\ v2' = v2 /\ v3' = v3 /\ v7' = v7
        /\ v8' \in {"missing_input", "semantics"}
    BY <1>4 DEF C!Diagnose
  <2>2. v1 \in Feeds /\ v7 = C!Empty /\ v2 = C!Kept /\ v2 \subseteq C!Trips /\ v3 = C!Selected /\ v4 = C!Segments
    BY <2>1 DEF C!ScheduleInv
  <2>3. /\ C!Kept' = C!Kept /\ C!Selected' = C!Selected /\ C!Trips' = C!Trips /\ C!Empty' = C!Empty
        /\ C!Segments' = C!Segments /\ C!Retained(C!Segments)' = C!Retained(C!Segments)
    BY <2>1, KeptStays, SelectedStays, SegmentsStay DEF C!Trips, C!Empty
  <2>4. v4' \in {C!Segments, C!Retained(C!Segments)}
    BY <2>1, <2>2
  <2> QED BY <2>1, <2>2, <2>3, <2>4 DEF C!ScheduleInv
<1> DEFINE Derived == /\ v1 \in Feeds /\ v2 = C!Kept /\ v2 \subseteq C!Trips /\ v3 = C!Selected
                      /\ v4 \in {{}, C!Segments, C!Retained(C!Segments)}
<1>d. v8 \in {"semantics", "universe", "endpoints", "done"} => Derived
  BY DEF C!ScheduleInv
<1>e. v1' = v1 /\ v2' = v2 /\ v3' = v3 /\ v4' = v4 /\ Derived => Derived' /\ C!Empty' = C!Empty
  BY KeptStays, SelectedStays, SegmentsStay DEF C!Trips, C!Empty
<1>f. v8' \in {"universe", "endpoints", "done", "invalid_output"} /\ Derived'
      /\ (v8' # "invalid_output" => v5' = [r \in v4 |-> C!Classes(v4, r)]')
      /\ (v8' \in {"universe", "invalid_output"} => v7' = C!Empty')
      /\ (v8' \in {"endpoints", "done"} => v7' = C!Universe')
      /\ (v8' = "done" => v6' = C!Endpoints')
      => C!ScheduleInv'
  BY DEF C!ScheduleInv
<1> HIDE DEF Derived
<1>5. CASE C!Classify
  <2>1. /\ v8 = "semantics" /\ v5' = [r \in v4 |-> C!Classes(v4, r)] /\ v1' = v1 /\ v2' = v2 /\ v3' = v3 /\ v4' = v4
        /\ v7' = v7 /\ v8' \in {"invalid_output", "universe"}
    BY <1>5 DEF C!Classify
  <2>2. v7 = C!Empty
    BY <2>1 DEF C!ScheduleInv
  <2> QED BY <2>1, <2>2, <1>d, <1>e, <1>f, ClassesStay
<1>6. CASE C!WriteUniverse
  <2>1. /\ v8 = "universe" /\ v7' = C!Universe /\ v1' = v1 /\ v2' = v2 /\ v3' = v3 /\ v4' = v4 /\ v5' = v5
        /\ v8' = "endpoints"
    BY <1>6 DEF C!WriteUniverse
  <2>2. v5 = [r \in v4 |-> C!Classes(v4, r)]
    BY <2>1 DEF C!ScheduleInv
  <2> QED BY <2>1, <2>2, <1>d, <1>e, <1>f, ClassesStay, UniverseStays
<1>7. CASE C!WriteCourses
  <2>1. /\ v8 = "endpoints" /\ v6' = C!Endpoints /\ v1' = v1 /\ v2' = v2 /\ v3' = v3 /\ v4' = v4 /\ v5' = v5
        /\ v7' = v7 /\ v8' = "done"
    BY <1>7 DEF C!WriteCourses
  <2>2. v5 = [r \in v4 |-> C!Classes(v4, r)] /\ v7 = C!Universe
    BY <2>1 DEF C!ScheduleInv
  <2> QED BY <2>1, <2>2, <1>d, <1>e, <1>f, ClassesStay, UniverseStays
<1>8. CASE UNCHANGED ScheduleVars
  <2>1. v1' = v1 /\ v2' = v2 /\ v3' = v3 /\ v4' = v4 /\ v5' = v5 /\ v6' = v6 /\ v7' = v7 /\ v8' = v8
    BY <1>8 DEF ScheduleVars
  <2>2. /\ C!Kept' = C!Kept /\ C!Selected' = C!Selected /\ C!Trips' = C!Trips /\ C!Empty' = C!Empty
        /\ C!Segments' = C!Segments /\ C!Retained(C!Segments)' = C!Retained(C!Segments)
        /\ C!Universe' = C!Universe /\ C!Endpoints' = C!Endpoints
        /\ [r \in v4 |-> C!Classes(v4, r)]' = [r \in v4 |-> C!Classes(v4, r)]
    BY <2>1, KeptStays, SelectedStays, SegmentsStay, ClassesStay, UniverseStays DEF C!Trips, C!Empty
  <2> QED BY <2>1, <2>2 DEF C!ScheduleInv
<1> QED BY <1>1, <1>2, <1>3, <1>4, <1>5, <1>6, <1>7, <1>8 DEF C!Next, C!vars, ScheduleVars

LEMMA ScheduleSafe ==
  C!ScheduleInv => /\ C!DayIsCovered /\ C!OverlapNoticed /\ C!PassengerCore /\ C!ShortOfSomething
                   /\ C!DiagnosticAgrees
BY DayCovered, OverlapIsNoticed, CorePassenger, ShortIsShorter, AgreesDiagnostic

--------------------------------------------------------------------------------
(* NetworkCache: v1 file, v2 today, v3 cache, v4 pinned, v5 builder, v6 job,       *)
(* v7 warm, v8 done, v9 requests                                                   *)

KeysOf(s) == {s[i].key : i \in DOMAIN s}
Keyed(s) == \A i, j \in DOMAIN s : s[i].key = s[j].key => i = j
Built(s) == \A i \in DOMAIN s : s[i].build = s[i].key[1]
JobRecords == [step : N!Steps, build : Nat, day : Nat, got : Seq(N!Entries)]
PassRecords == [identity : Nat \X Nat, days : SUBSET Nat]

LEMMA NetworkFinite == \A S : N!IsFiniteSet(S) <=> IsFiniteSet(S)
BY DEF N!IsFiniteSet, IsFiniteSet

LEMMA NetworkSize == \A S : N!Cardinality(S) = Cardinality(S)
BY DEF N!Cardinality, Cardinality, N!IsFiniteSet, IsFiniteSet

LEMMA FirstOf == ASSUME NEW S, S \subseteq Nat, S # {} PROVE N!First(S) \in S
BY LeastOf DEF N!First

LEMMA NetworkConstants ==
  /\ Covers \in Seq(SUBSET Nat) /\ Len(Covers) \in Nat \ {0}
  /\ WarmDays \in Nat /\ CachedDays \in Nat /\ WarmDays < CachedDays
  /\ MaxToday \in Nat /\ "warmer" \notin RequestThreads /\ N!Actors = RequestThreads \union {"warmer"}
  /\ N!Warmer = "warmer"
BY NetworkHolds DEF N!NetworkAssumption, N!Actors, N!Warmer

LEMMA EntryRemoved ==
  ASSUME NEW s \in Seq(N!Entries), Keyed(s), NEW i \in DOMAIN s
  PROVE  LET r == N!RemoveAt(s, i)
         IN  /\ r \in Seq(N!Entries) /\ Len(r) = Len(s) - 1 /\ Keyed(r)
             /\ KeysOf(r) = KeysOf(s) \ {s[i].key} /\ (Built(s) => Built(r))
<1> DEFINE r == SubSeq(s, 1, i - 1) \o SubSeq(s, i + 1, Len(s))
<1>1. N!RemoveAt(s, i) = r BY DEF N!RemoveAt
<1>2. r \in Seq(N!Entries) /\ Len(r) = Len(s) - 1 BY RemovedAt
<1>3. /\ \A j \in DOMAIN r : \E k \in DOMAIN s : k # i /\ r[j] = s[k]
      /\ \A k \in DOMAIN s : k # i => \E j \in DOMAIN r : r[j] = s[k]
      /\ \A j, l \in DOMAIN r : j # l => \E k, m \in DOMAIN s : k # m /\ r[j] = s[k] /\ r[l] = s[m]
  BY RemovedOnce
<1> HIDE DEF r
<1>4. Keyed(r) BY <1>3 DEF Keyed
<1>5. KeysOf(r) = KeysOf(s) \ {s[i].key} BY <1>3 DEF Keyed, KeysOf
<1>6. Built(s) => Built(r) BY <1>3 DEF Built
<1> QED BY <1>1, <1>2, <1>4, <1>5, <1>6

LEMMA EntryAppended ==
  ASSUME NEW s \in Seq(N!Entries), Keyed(s), NEW e \in N!Entries, e.key \notin KeysOf(s)
  PROVE  LET u == Append(s, e)
         IN  /\ u \in Seq(N!Entries) /\ Len(u) = Len(s) + 1 /\ Keyed(u)
             /\ KeysOf(u) = KeysOf(s) \union {e.key} /\ (Built(s) /\ e.build = e.key[1] => Built(u))
<1> DEFINE u == Append(s, e)
<1>1. /\ u \in Seq(N!Entries) /\ Len(u) = Len(s) + 1 /\ DOMAIN u = 1 .. Len(s) + 1 /\ DOMAIN s = 1 .. Len(s)
      /\ u[Len(s) + 1] = e /\ \A i \in 1 .. Len(s) : u[i] = s[i]
  OBVIOUS
<1> HIDE DEF u
<1>2. Len(s) \in Nat OBVIOUS
<1>3. \A i \in DOMAIN u : i = Len(s) + 1 \/ i \in DOMAIN s BY <1>1, <1>2
<1>4. \A i \in DOMAIN s : i \in DOMAIN u /\ u[i] = s[i] /\ u[i].key # e.key BY <1>1, <1>2 DEF KeysOf
<1>5. Len(s) + 1 \in DOMAIN u BY <1>1, <1>2
<1>6. Keyed(u) BY <1>1, <1>3, <1>4 DEF Keyed
<1>7. KeysOf(u) = KeysOf(s) \union {e.key} BY <1>1, <1>3, <1>4, <1>5 DEF KeysOf
<1>8. Built(s) /\ e.build = e.key[1] => Built(u) BY <1>1, <1>3, <1>4 DEF Built
<1> QED BY <1>1, <1>6, <1>7, <1>8 DEF u

\* A network that is used again moves to the end.
LEMMA UsedMoves ==
  ASSUME v3 \in Seq(N!Entries), Keyed(v3), Built(v3), NEW a, N!Key(a) \in N!Keys
  PROVE  /\ N!Used(a) \in Seq(N!Entries) /\ Keyed(N!Used(a)) /\ Built(N!Used(a))
         /\ KeysOf(N!Used(a)) = N!Keys /\ Len(N!Used(a)) = Len(v3)
         /\ N!Entry(a) \in N!Entries /\ N!Entry(a).build = N!Key(a)[1]
<1> DEFINE i == CHOOSE k \in DOMAIN v3 : v3[k].key = N!Key(a)
           r == N!RemoveAt(v3, i)
<1>1. \E k \in DOMAIN v3 : v3[k].key = N!Key(a) BY DEF N!Keys
<1>2. i \in DOMAIN v3 /\ v3[i].key = N!Key(a) BY <1>1
<1>3. N!Entry(a) = v3[i] /\ N!Used(a) = Append(r, v3[i]) BY DEF N!Entry, N!Used
<1> HIDE DEF i
<1>4. v3[i] \in N!Entries /\ v3[i].build = N!Key(a)[1] BY <1>2 DEF Built
<1>5. /\ r \in Seq(N!Entries) /\ Len(r) = Len(v3) - 1 /\ Keyed(r) /\ Built(r)
      /\ KeysOf(r) = KeysOf(v3) \ {v3[i].key}
  BY <1>2, EntryRemoved
<1>6. v3[i].build = v3[i].key[1] /\ v3[i].key \in KeysOf(v3) BY <1>2 DEF Built, KeysOf
<1> HIDE DEF r
<1> DEFINE u == Append(r, v3[i])
<1>7. /\ u \in Seq(N!Entries) /\ Len(u) = Len(r) + 1 /\ Keyed(u) /\ Built(u)
      /\ KeysOf(u) = KeysOf(r) \union {v3[i].key}
  BY <1>4, <1>5, <1>6, EntryAppended
<1> HIDE DEF u
<1>8. KeysOf(u) = KeysOf(v3) BY <1>5, <1>6, <1>7
<1>9. KeysOf(v3) = N!Keys BY DEF KeysOf, N!Keys
<1>10. Len(u) = Len(v3) BY <1>5, <1>7
<1>11. N!Used(a) = u BY <1>3 DEF u
<1> QED BY <1>3, <1>4, <1>7, <1>8, <1>9, <1>10, <1>11

\* Fewer are pinned than the cache may hold, so that one can always go.
LEMMA TrimmedFits ==
  ASSUME NEW s \in Seq(N!Entries), Keyed(s), Built(s), Len(s) <= CachedDays + 1,
         NEW pins, IsFiniteSet(pins), Cardinality(pins) <= WarmDays
  PROVE  LET t == N!Trimmed(s, pins)
         IN  /\ t \in Seq(N!Entries) /\ Keyed(t) /\ Built(t) /\ Len(t) <= CachedDays
             /\ KeysOf(t) \subseteq KeysOf(s) /\ KeysOf(s) \intersect pins \subseteq KeysOf(t)
<1>0. CachedDays \in Nat /\ WarmDays \in Nat /\ WarmDays < CachedDays /\ Len(s) \in Nat /\ DOMAIN s = 1 .. Len(s)
  BY NetworkConstants
<1>1. CASE Len(s) <= CachedDays
  <2>1. N!Trimmed(s, pins) = s BY <1>0, <1>1 DEF N!Trimmed
  <2> QED BY <1>1, <2>1
<1>2. CASE Len(s) > CachedDays
  <2> DEFINE E == N!Evictable(s, pins)
  <2>1. E # {}
    <3> SUFFICES ASSUME E = {} PROVE FALSE OBVIOUS
    <3> DEFINE f == [i \in 1 .. Len(s) |-> s[i].key]
    <3>1. \A i \in 1 .. Len(s) : s[i].key \in pins BY <1>0 DEF N!Evictable
    <3>2. f \in [1 .. Len(s) -> pins] /\ \A i, j \in 1 .. Len(s) : f[i] = f[j] => i = j
      <4>1. f \in [1 .. Len(s) -> pins] BY <3>1
      <4>2. \A i, j \in 1 .. Len(s) : f[i] = f[j] => i = j BY <1>0 DEF Keyed
      <4> QED BY <4>1, <4>2
    <3> HIDE DEF f
    <3>3. IsFiniteSet(1 .. Len(s)) /\ Cardinality(1 .. Len(s)) = Len(s)
      <4>1. Len(s) \in Int /\ ~(1 > Len(s)) BY <1>0, <1>2
      <4>2. Cardinality(1 .. Len(s)) = IF 1 > Len(s) THEN 0 ELSE Len(s) - 1 + 1 BY <4>1, FS_Interval
      <4>3. Cardinality(1 .. Len(s)) = Len(s) BY <4>1, <4>2
      <4> QED BY <4>1, <4>3, FS_Interval
    <3>4. Cardinality(pins) < Cardinality(1 .. Len(s)) => FALSE BY <3>2, <3>3, FS_PigeonHole
    <3>5. Cardinality(pins) \in Nat BY FS_CardinalityType
    <3> QED BY <1>0, <1>2, <3>3, <3>4, <3>5
  <2>2. E \subseteq DOMAIN s /\ (\A i \in E : s[i].key \notin pins) BY DEF N!Evictable
  <2>3. N!Trimmed(s, pins) = N!RemoveAt(s, N!First(E)) BY <1>2, <2>1 DEF N!Trimmed
  <2> HIDE DEF E
  <2>4. E \subseteq Nat BY <1>0, <2>2
  <2>5. N!First(E) \in E BY <2>1, <2>4, FirstOf
  <2> DEFINE i == N!First(E)
             t == N!RemoveAt(s, i)
  <2>6. i \in DOMAIN s /\ s[i].key \notin pins BY <2>2, <2>5
  <2> HIDE DEF i
  <2>7. /\ t \in Seq(N!Entries) /\ Len(t) = Len(s) - 1 /\ Keyed(t) /\ Built(t)
        /\ KeysOf(t) = KeysOf(s) \ {s[i].key}
    BY <2>6, EntryRemoved
  <2>8. N!Trimmed(s, pins) = t BY <2>3 DEF i
  <2> HIDE DEF t
  <2>9. Len(t) <= CachedDays BY <1>0, <2>7
  <2>10. KeysOf(t) \subseteq KeysOf(s) /\ KeysOf(s) \intersect pins \subseteq KeysOf(t) BY <2>6, <2>7
  <2> QED BY <2>7, <2>8, <2>9, <2>10
<1> QED BY <1>0, <1>1, <1>2

\* The days a pass pins.
LEMMA HorizonSmall ==
  ASSUME NEW b \in Nat, NEW t \in Nat
  PROVE  LET P == {b} \X N!Horizon(b, t)
         IN  N!Horizon(b, t) \subseteq Nat /\ P \subseteq Nat \X Nat /\ IsFiniteSet(P) /\ Cardinality(P) <= WarmDays
<1> DEFINE H == N!Horizon(b, t)
           I == t .. t + WarmDays - 1
           P == {b} \X H
<1>0. WarmDays \in Nat BY NetworkConstants
<1>1. H \subseteq I BY DEF N!Horizon
<1>2. IsFiniteSet(I) /\ Cardinality(I) = WarmDays BY <1>0, FS_Interval
<1>3. H \subseteq Nat BY <1>0, <1>1
<1> HIDE DEF H, I
<1>4. IsFiniteSet(H) /\ Cardinality(H) <= WarmDays /\ Cardinality(H) \in Nat BY <1>1, <1>2, FS_Subset, FS_CardinalityType
<1>5. IsFiniteSet({b}) /\ Cardinality({b}) = 1 BY FS_Singleton
<1>6. IsFiniteSet(P) /\ Cardinality(P) = Cardinality({b}) * Cardinality(H) BY <1>4, <1>5, FS_Product
<1>7. Cardinality(P) = Cardinality(H) BY <1>4, <1>5, <1>6
<1> QED BY <1>3, <1>4, <1>6, <1>7 DEF H

LEMMA NetworkShapes ==
  ASSUME N!Shapes
  PROVE  /\ v1 \in Nat /\ v1 \in 0 .. Len(Covers) /\ v2 \in Nat /\ v3 \in Seq(N!Entries)
         /\ v4 \in SUBSET (Nat \X Nat) /\ v5 \in Seq(N!Actors) /\ v6 \in [N!Actors -> JobRecords]
BY NetworkConstants DEF N!Shapes, JobRecords

LEMMA IdleIs == N!Idle \in JobRecords /\ N!Idle.step = "idle" /\ N!Idle.got = <<>>
BY DEF N!Idle, JobRecords, N!Steps, N!None

\* An actor looks for, waits for or builds its network; the others' jobs stand.
LEMMA Moved ==
  ASSUME N!NetworkInv, NEW a \in N!Actors, NEW e \in JobRecords, v6' = [v6 EXCEPT ![a] = e],
         UNCHANGED <<v1, v2, v4, v7, v8>>, v6[a].step \in {"lookup", "lock", "build"},
         e.step \in {"lock", "build", "got"}, e.build = v6[a].build, e.day = v6[a].day,
         e.got # <<>> => e.got[1].build = e.build,
         v3' \in Seq(N!Entries), Keyed(v3'), Built(v3'), Len(v3') <= CachedDays,
         N!Keys \intersect v4 \subseteq KeysOf(v3'), v5' \in Seq(N!Actors), N!BuilderInv',
         a = "warmer" /\ e.step = "got" => <<e.build, e.day>> \in KeysOf(v3')
  PROVE  N!NetworkInv'
<1> USE DEF N!NetworkInv, N!Warmer
<1>0. v6 \in [N!Actors -> JobRecords] /\ v4 \in SUBSET (Nat \X Nat) BY NetworkShapes
<1>1. v6'[a] = e /\ \A b \in N!Actors : b # a => v6'[b] = v6[b] BY <1>0
<1>2. v6' \in [N!Actors -> JobRecords] BY <1>0
<1>3. "warmer" \in N!Actors /\ "warmer" \notin RequestThreads /\ RequestThreads \subseteq N!Actors BY NetworkConstants
<1>4. N!Keys' = KeysOf(v3') BY DEF N!Keys, KeysOf
<1>5. N!Shapes'
  <2>1. ASSUME NEW r \in RequestThreads
        PROVE  v6'[r].step \notin {"open", "warmed"} /\ (v6'[r].step # "idle" => v6'[r].build \in 1 .. v1)
    <3>1. v6[r].step \notin {"open", "warmed"} /\ (v6[r].step # "idle" => v6[r].build \in 1 .. v1) BY DEF N!Shapes
    <3>2. CASE r = a
      <4>1. v6'[r] = e BY <1>1, <3>2
      <4> QED BY <3>1, <3>2, <4>1
    <3>3. CASE r # a
      <4>1. v6'[r] = v6[r] BY <1>1, <1>3, <3>3
      <4> QED BY <3>1, <4>1
    <3> QED BY <3>2, <3>3
  <2> QED BY <1>2, <2>1 DEF N!Shapes, JobRecords
<1>6. N!EntriesInv' BY DEF N!EntriesInv, N!CacheKept, Keyed, Built
<1>7. N!PinsInv' BY DEF N!PinsInv
<1>8. N!GotInv'
  <2>1. ASSUME NEW b \in N!Actors, v6'[b].got # <<>> PROVE v6'[b].got[1].build = v6'[b].build
    <3>1. CASE b = a
      <4>1. v6'[b] = e BY <1>1, <3>1
      <4> QED BY <2>1, <4>1
    <3>2. CASE b # a
      <4>1. v6'[b] = v6[b] BY <1>1, <3>2
      <4> QED BY <2>1, <4>1 DEF N!GotInv, N!None
    <3> QED BY <3>1, <3>2
  <2> QED BY <2>1 DEF N!GotInv, N!None
\* Of the warmer: what it builds, and whether it is at work, stay.
<1>9. /\ v6'["warmer"].build = v6["warmer"].build /\ v6'["warmer"].day = v6["warmer"].day
      /\ v6'["warmer"].step # "idle" <=> v6["warmer"].step # "idle"
      /\ v6'["warmer"].step # v6["warmer"].step =>
           /\ a = "warmer" /\ v6'["warmer"] = e /\ v6["warmer"].step \in {"lookup", "lock", "build"}
           /\ v6'["warmer"].step \in {"lock", "build", "got"}
  <2>1. CASE a = "warmer"
    <3>1. v6'["warmer"] = e BY <1>1, <2>1
    <3> QED BY <2>1, <3>1
  <2>2. CASE a # "warmer"
    <3>1. v6'["warmer"] = v6["warmer"] BY <1>1, <1>3, <2>2
    <3> QED BY <3>1
  <2> QED BY <2>1, <2>2
<1>10. N!PassInv' BY <1>9 DEF N!PassInv, N!Passing, N!Identity
<1>11. N!DaysInv'
  <2> SUFFICES ASSUME v6'["warmer"].step # "idle", v6'["warmer"].step # "open"
               PROVE  LET build == v6["warmer"].build
                          days == N!Horizon(build, v7.identity[2])
                      IN  /\ build \in 1 .. v1 /\ v7.identity[1] <= build
                          /\ v4 = {build} \X days /\ v7.days \subseteq days
                          /\ {build} \X (days \ v7.days) \subseteq KeysOf(v3')
    BY <1>4, <1>9 DEF N!DaysInv, N!Passing, N!Horizon
  <2>1. v6["warmer"].step # "idle" /\ v6["warmer"].step # "open" BY <1>9
  <2> DEFINE build == v6["warmer"].build
             days == N!Horizon(build, v7.identity[2])
  <2>2. /\ build \in 1 .. v1 /\ v7.identity[1] <= build /\ v4 = {build} \X days /\ v7.days \subseteq days
        /\ {build} \X (days \ v7.days) \subseteq N!Keys
    BY <2>1 DEF N!DaysInv, N!Passing
  <2>3. {build} \X (days \ v7.days) \subseteq v4 BY <2>2
  <2> QED BY <2>2, <2>3
<1>12. N!DayInv'
  <2>1. v6'["warmer"].step \in {"lookup", "lock", "build", "got"} => v6'["warmer"].day \in v7.days
    <3>1. v6'["warmer"].step \in {"lookup", "lock", "build", "got"}
            => v6["warmer"].step \in {"lookup", "lock", "build", "got"}
      BY <1>9
    <3> QED BY <1>9, <3>1 DEF N!DayInv
  <2>2. v6'["warmer"].step = "got" => <<v6'["warmer"].build, v6'["warmer"].day>> \in KeysOf(v3')
    <3>1. CASE v6'["warmer"].step # v6["warmer"].step BY <1>9, <3>1
    <3>2. CASE v6'["warmer"].step = v6["warmer"].step /\ v6["warmer"].step = "got"
      <4> DEFINE b == v6["warmer"].build
                 d == v6["warmer"].day
      <4>1. d \in v7.days /\ <<b, d>> \in N!Keys BY <3>2 DEF N!DayInv, N!Key
      <4>2. v4 = {b} \X N!Horizon(b, v7.identity[2]) /\ v7.days \subseteq N!Horizon(b, v7.identity[2])
        BY <3>2 DEF N!DaysInv, N!Passing
      <4>3. <<b, d>> \in v4 BY <4>1, <4>2
      <4> QED BY <1>9, <4>1, <4>3
    <3> QED BY <3>1, <3>2
  <2>3. v6'["warmer"].step = "warmed" => v7.days = {} BY <1>9 DEF N!DayInv
  <2> QED BY <1>4, <2>1, <2>2, <2>3 DEF N!DayInv, N!Key
<1>13. N!DoneInv' BY DEF N!DoneInv
<1>14. N!IdleMeansWarm'
  <2> SUFFICES ASSUME v1 # 0, v8 = N!Identity
               PROVE  {v1} \X N!Horizon(v1, v2) \subseteq KeysOf(v3') \intersect v4
    BY <1>4 DEF N!IdleMeansWarm, N!Identity, N!Horizon
  <2>1. {v1} \X N!Horizon(v1, v2) \subseteq N!Keys \intersect v4 BY DEF N!IdleMeansWarm
  <2> QED BY <2>1
<1> QED BY <1>5, <1>6, <1>7, <1>8, <1>10, <1>11, <1>12, <1>13, <1>14

LEMMA EntriesAre == ASSUME N!NetworkInv PROVE v3 \in Seq(N!Entries) /\ Keyed(v3) /\ Built(v3) /\ Len(v3) <= CachedDays
BY DEF N!NetworkInv, N!Shapes, N!EntriesInv, N!CacheKept, Keyed, Built

\* It is used from the cache.
LEMMA HitKeeps ==
  ASSUME N!NetworkInv, NEW a \in N!Actors, v6[a].step \in {"lookup", "lock"}, N!Key(a) \in N!Keys,
         N!Got(a, N!Entry(a)), v3' = N!Used(a), UNCHANGED <<v1, v2, v4, v5, v7, v8>>
  PROVE  N!NetworkInv'
<1>0. v6 \in [N!Actors -> JobRecords] /\ v5 \in Seq(N!Actors) BY NetworkShapes DEF N!NetworkInv
<1>1. /\ N!Used(a) \in Seq(N!Entries) /\ Keyed(N!Used(a)) /\ Built(N!Used(a))
      /\ KeysOf(N!Used(a)) = N!Keys /\ Len(N!Used(a)) = Len(v3)
      /\ N!Entry(a) \in N!Entries /\ N!Entry(a).build = N!Key(a)[1]
  BY EntriesAre, UsedMoves
<1> DEFINE n == N!Entry(a)
<1>2. PICK e : e = [v6[a] EXCEPT !.step = "got", !.got = <<n>>] OBVIOUS
<1>3. v6' = [v6 EXCEPT ![a] = e] BY <1>2 DEF N!Got
<1> HIDE DEF n
<1>4. v6[a] \in JobRecords BY <1>0
<1>5. e.step = "got" /\ e.build = v6[a].build /\ e.day = v6[a].day /\ e.got = <<n>> BY <1>2, <1>4 DEF JobRecords
<1>6. e \in JobRecords
  <2>1. <<n>> \in Seq(N!Entries) BY <1>1 DEF n
  <2> QED BY <1>2, <1>4, <2>1 DEF JobRecords, N!Steps
<1>7. e.got[1].build = e.build
  <2>1. N!Key(a)[1] = v6[a].build BY DEF N!Key
  <2> QED BY <1>1, <1>5, <2>1 DEF n
<1>8. N!BuilderInv'
  <2>1. N!Keys' = N!Keys BY <1>1 DEF N!Keys, KeysOf
  <2>2. ASSUME NEW b \in N!Actors, v6'[b].step = "build" PROVE v5 = <<b>> /\ <<v6'[b].build, v6'[b].day>> \notin N!Keys
    <3>1. b # a BY <1>0, <1>3, <1>5, <2>2
    <3>2. v6'[b] = v6[b] BY <1>0, <1>3, <3>1
    <3> QED BY <2>2, <3>2 DEF N!NetworkInv, N!BuilderInv, N!Key
  <2> QED BY <2>1, <2>2 DEF N!BuilderInv, N!Key
<1>9. Len(v3') <= CachedDays BY <1>1, EntriesAre
<1>10. <<e.build, e.day>> \in KeysOf(v3') BY <1>1, <1>5 DEF N!Key
<1>11. N!Keys \intersect v4 \subseteq KeysOf(v3') BY <1>1
<1> QED BY <1>0, <1>1, <1>3, <1>5, <1>6, <1>7, <1>8, <1>9, <1>10, <1>11, Moved

LEMMA LookupKeeps == ASSUME N!NetworkInv, NEW a \in N!Actors, N!Lookup(a) PROVE N!NetworkInv'
<1>0. v6 \in [N!Actors -> JobRecords] /\ v5 \in Seq(N!Actors) BY NetworkShapes DEF N!NetworkInv
<1>1. v6[a].step = "lookup" /\ UNCHANGED <<v1, v2, v4, v5, v7, v8>> BY DEF N!Lookup
<1>2. CASE N!Key(a) \in N!Keys /\ N!Got(a, N!Entry(a)) /\ v3' = N!Used(a) BY <1>1, <1>2, HitKeeps
<1>3. CASE N!Key(a) \notin N!Keys /\ N!Step(a, "lock") /\ UNCHANGED v3
  <2>1. PICK e : e = [v6[a] EXCEPT !.step = "lock"] OBVIOUS
  <2>2. v6' = [v6 EXCEPT ![a] = e] BY <1>3, <2>1 DEF N!Step
  <2>3. v6[a] \in JobRecords BY <1>0
  <2>4. e.step = "lock" /\ e.build = v6[a].build /\ e.day = v6[a].day /\ e.got = v6[a].got /\ e \in JobRecords
    BY <2>1, <2>3 DEF JobRecords, N!Steps
  <2>5. e.got # <<>> => e.got[1].build = e.build BY <2>4 DEF N!NetworkInv, N!GotInv, N!None
  <2>6. N!BuilderInv'
    <3>1. ASSUME NEW b \in N!Actors, v6'[b].step = "build" PROVE v6'[b] = v6[b]
      <4>1. b # a BY <1>0, <2>2, <2>4, <3>1
      <4> QED BY <1>0, <2>2, <4>1
    <3> QED BY <1>1, <1>3, <3>1 DEF N!NetworkInv, N!BuilderInv, N!Key, N!Keys
  <2>7. v3' \in Seq(N!Entries) /\ Keyed(v3') /\ Built(v3') /\ Len(v3') <= CachedDays BY <1>3, EntriesAre
  <2>8. N!Keys \intersect v4 \subseteq KeysOf(v3') BY <1>3 DEF N!Keys, KeysOf
  <2> QED BY <1>0, <1>1, <2>2, <2>4, <2>5, <2>6, <2>7, <2>8, Moved
<1> QED BY <1>2, <1>3 DEF N!Lookup

LEMMA BuildLockKeeps == ASSUME N!NetworkInv, NEW a \in N!Actors, N!BuildLock(a) PROVE N!NetworkInv'
<1>0. v6 \in [N!Actors -> JobRecords] BY NetworkShapes DEF N!NetworkInv
<1>1. v6[a].step = "lock" /\ v5 = <<>> /\ UNCHANGED <<v1, v2, v4, v7, v8>> BY DEF N!BuildLock, N!None
<1>2. CASE ~N!Rebuilt(a) /\ N!Got(a, N!Entry(a)) /\ v3' = N!Used(a) /\ UNCHANGED v5
  BY <1>1, <1>2, HitKeeps DEF N!Rebuilt
<1>3. CASE N!Rebuilt(a) /\ N!Step(a, "build") /\ v5' = <<a>> /\ UNCHANGED v3
  <2>1. PICK e : e = [v6[a] EXCEPT !.step = "build"] OBVIOUS
  <2>2. v6' = [v6 EXCEPT ![a] = e] BY <1>3, <2>1 DEF N!Step
  <2>3. v6[a] \in JobRecords BY <1>0
  <2>4. e.step = "build" /\ e.build = v6[a].build /\ e.day = v6[a].day /\ e.got = v6[a].got /\ e \in JobRecords
    BY <2>1, <2>3 DEF JobRecords, N!Steps
  <2>5. e.got # <<>> => e.got[1].build = e.build BY <2>4 DEF N!NetworkInv, N!GotInv, N!None
  <2>6. N!BuilderInv'
    <3>1. ASSUME NEW b \in N!Actors, v6'[b].step = "build"
          PROVE  <<a>> = <<b>> /\ <<v6'[b].build, v6'[b].day>> \notin N!Keys
      <4>1. b = a
        <5>1. v6[b].step # "build"
          <6>1. v6[b].step = "build" => <<b>> = <<>> BY <1>1 DEF N!NetworkInv, N!BuilderInv
          <6> QED BY <6>1
        <5> QED BY <1>0, <2>2, <3>1, <5>1
      <4>2. v6'[b] = e BY <1>0, <2>2, <4>1
      <4> QED BY <1>3, <2>4, <4>1, <4>2 DEF N!Rebuilt, N!Key
    <3> QED BY <1>3, <3>1 DEF N!BuilderInv, N!Key, N!Keys
  <2>7. v3' \in Seq(N!Entries) /\ Keyed(v3') /\ Built(v3') /\ Len(v3') <= CachedDays BY <1>3, EntriesAre
  <2>8. N!Keys \intersect v4 \subseteq KeysOf(v3') BY <1>3 DEF N!Keys, KeysOf
  <2>9. v5' \in Seq(N!Actors) BY <1>3
  <2> QED BY <1>0, <1>1, <2>2, <2>4, <2>5, <2>6, <2>7, <2>8, <2>9, Moved
<1> QED BY <1>1, <1>2, <1>3 DEF N!BuildLock

LEMMA BuildKeeps == ASSUME N!NetworkInv, NEW a \in N!Actors, N!Build(a) PROVE N!NetworkInv'
<1>0. v6 \in [N!Actors -> JobRecords] BY NetworkShapes DEF N!NetworkInv
<1> DEFINE n == [key |-> N!Key(a), build |-> v6[a].build]
<1>1. /\ v6[a].step = "build" /\ UNCHANGED <<v1, v2, v4, v7, v8>> /\ v5' = <<>>
      /\ N!Got(a, n) /\ v3' = N!Trimmed(Append(v3, n), v4)
  BY DEF N!Build, N!None
<1>2. v6[a] \in JobRecords /\ v6[a].build \in Nat /\ v6[a].day \in Nat BY <1>0 DEF JobRecords
<1>3. n \in N!Entries /\ n.key = N!Key(a) /\ n.build = n.key[1] /\ n.key[1] = v6[a].build BY <1>2 DEF N!Entries, N!Key
<1>4. N!Key(a) \notin KeysOf(v3) BY <1>1 DEF N!NetworkInv, N!BuilderInv, N!Keys, KeysOf
<1>5. PICK e : e = [v6[a] EXCEPT !.step = "got", !.got = <<n>>] OBVIOUS
<1>6. v6' = [v6 EXCEPT ![a] = e] BY <1>1, <1>5 DEF N!Got
<1> HIDE DEF n
<1> DEFINE s == Append(v3, n)
<1>7. s \in Seq(N!Entries) /\ Keyed(s) /\ Built(s) /\ KeysOf(s) = KeysOf(v3) \union {n.key} /\ Len(s) <= CachedDays + 1
  <2>1. v3 \in Seq(N!Entries) /\ Keyed(v3) /\ Built(v3) /\ Len(v3) <= CachedDays BY EntriesAre
  <2>2. /\ s \in Seq(N!Entries) /\ Len(s) = Len(v3) + 1 /\ Keyed(s)
        /\ KeysOf(s) = KeysOf(v3) \union {n.key} /\ Built(s)
    BY <1>3, <1>4, <2>1, EntryAppended
  <2> HIDE DEF s
  <2>3. Len(v3) \in Nat /\ CachedDays \in Nat BY <2>1, NetworkConstants
  <2> QED BY <2>1, <2>2, <2>3
<1> HIDE DEF s
<1>8. IsFiniteSet(v4) /\ Cardinality(v4) <= WarmDays
  <2>1. N!IsFiniteSet(v4) /\ N!Cardinality(v4) <= WarmDays BY DEF N!NetworkInv, N!PinsInv
  <2> QED BY <2>1, NetworkFinite, NetworkSize
<1>9. /\ v3' \in Seq(N!Entries) /\ Keyed(v3') /\ Built(v3') /\ Len(v3') <= CachedDays
      /\ KeysOf(s) \intersect v4 \subseteq KeysOf(v3')
  <2>1. v3' = N!Trimmed(s, v4) BY <1>1 DEF s
  <2> QED BY <1>7, <1>8, <2>1, TrimmedFits
<1>10. N!Keys \intersect v4 \subseteq KeysOf(v3') BY <1>7, <1>9 DEF N!Keys, KeysOf
<1>11. e.step = "got" /\ e.build = v6[a].build /\ e.day = v6[a].day /\ e.got = <<n>> BY <1>2, <1>5 DEF JobRecords
<1>12. e \in JobRecords
  <2>1. <<n>> \in Seq(N!Entries) BY <1>3
  <2> QED BY <1>2, <1>5, <2>1 DEF JobRecords, N!Steps
<1>13. e.got # <<>> => e.got[1].build = e.build BY <1>3, <1>11
<1>14. N!BuilderInv'
  <2>1. v5 = <<a>> BY <1>1 DEF N!NetworkInv, N!BuilderInv
  <2>2. ASSUME NEW b \in N!Actors, v6'[b].step = "build" PROVE FALSE
    <3>1. b # a BY <1>0, <1>6, <1>11, <2>2
    <3>2. v6'[b] = v6[b] BY <1>0, <1>6, <3>1
    <3>3. v5 = <<b>> BY <2>2, <3>2 DEF N!NetworkInv, N!BuilderInv
    <3> QED BY <2>1, <3>1, <3>3
  <2> QED BY <2>2 DEF N!BuilderInv
\* The warmer's own network is pinned.
<1>15. a = "warmer" => <<e.build, e.day>> \in KeysOf(v3')
  <2> SUFFICES ASSUME a = "warmer" PROVE <<e.build, e.day>> \in KeysOf(v3') OBVIOUS
  <2> DEFINE b == v6["warmer"].build
             d == v6["warmer"].day
  <2>1. v6["warmer"].step = "build" BY <1>1
  <2>2. d \in v7.days BY <2>1 DEF N!NetworkInv, N!DayInv, N!Warmer
  <2>3. v4 = {b} \X N!Horizon(b, v7.identity[2]) /\ v7.days \subseteq N!Horizon(b, v7.identity[2])
    BY <2>1 DEF N!NetworkInv, N!DaysInv, N!Passing, N!Warmer
  <2>4. <<b, d>> \in v4 BY <2>2, <2>3
  <2>5. <<b, d>> \in KeysOf(s) BY <1>3, <1>7 DEF N!Key
  <2> QED BY <1>9, <1>11, <2>4, <2>5
<1>16. v5' \in Seq(N!Actors) BY <1>1
<1> QED BY <1>1, <1>6, <1>9, <1>10, <1>11, <1>12, <1>13, <1>14, <1>15, <1>16, Moved

\* A request is at its beginning or its end, or what it did failed: the cache and the
\* warmer's pass stand.
LEMMA ThreadMoved ==
  ASSUME N!NetworkInv, NEW r \in RequestThreads, NEW e \in JobRecords, v6' = [v6 EXCEPT ![r] = e],
         UNCHANGED <<v1, v2, v3, v4, v7, v8>>, e.step \in {"idle", "lookup"}, e.got = <<>>,
         e.step = "idle" \/ e.build \in 1 .. v1,
         v5' = v5 \/ (v5 = <<r>> /\ v5' = <<>>)
  PROVE  N!NetworkInv'
<1> USE DEF N!NetworkInv, N!Warmer
<1>0. v6 \in [N!Actors -> JobRecords] /\ v5 \in Seq(N!Actors) BY NetworkShapes
<1>1. "warmer" \in N!Actors /\ "warmer" # r /\ r \in N!Actors /\ RequestThreads \subseteq N!Actors BY NetworkConstants
<1>2. v6'[r] = e /\ \A b \in N!Actors : b # r => v6'[b] = v6[b] BY <1>0, <1>1
<1>3. v6'["warmer"] = v6["warmer"] BY <1>1, <1>2
<1>4. N!Keys' = N!Keys BY DEF N!Keys
<1>5. N!Shapes'
  <2>1. v6' \in [N!Actors -> JobRecords] BY <1>0
  <2>2. ASSUME NEW q \in RequestThreads
        PROVE  v6'[q].step \notin {"open", "warmed"} /\ (v6'[q].step # "idle" => v6'[q].build \in 1 .. v1)
    <3>1. CASE q = r
      <4>1. v6'[q] = e BY <1>2, <3>1
      <4> QED BY <4>1
    <3>2. CASE q # r
      <4>1. v6'[q] = v6[q] BY <1>1, <1>2, <3>2
      <4> QED BY <4>1 DEF N!Shapes
    <3> QED BY <3>1, <3>2
  <2>3. v5' \in Seq(N!Actors)
    <3>1. <<>> \in Seq(N!Actors) OBVIOUS
    <3> QED BY <1>0, <3>1
  <2> QED BY <2>1, <2>2, <2>3 DEF N!Shapes, JobRecords
<1>6. N!EntriesInv' /\ N!PinsInv' BY DEF N!EntriesInv, N!CacheKept, N!PinsInv
<1>7. N!GotInv'
  <2>1. ASSUME NEW b \in N!Actors, v6'[b].got # <<>> PROVE v6'[b].got[1].build = v6'[b].build
    <3>1. b # r BY <1>2, <2>1
    <3>2. v6'[b] = v6[b] BY <1>2, <3>1
    <3> QED BY <2>1, <3>2 DEF N!GotInv, N!None
  <2> QED BY <2>1 DEF N!GotInv, N!None
<1>8. N!BuilderInv'
  <2>1. ASSUME NEW b \in N!Actors, v6'[b].step = "build"
        PROVE  v5' = <<b>> /\ <<v6'[b].build, v6'[b].day>> \notin N!Keys
    <3>1. b # r BY <1>2, <2>1
    <3>2. v6'[b] = v6[b] BY <1>2, <3>1
    <3>3. v5 = <<b>> /\ <<v6[b].build, v6[b].day>> \notin N!Keys BY <2>1, <3>2 DEF N!BuilderInv, N!Key
    <3>4. v5 # <<r>> BY <3>1, <3>3
    <3> QED BY <3>2, <3>3, <3>4
  <2> QED BY <1>4, <2>1 DEF N!BuilderInv, N!Key
<1>9. N!PassInv' BY <1>3 DEF N!PassInv, N!Passing, N!Identity
<1>10. N!DaysInv' BY <1>3, <1>4 DEF N!DaysInv, N!Passing, N!Horizon
<1>11. N!DayInv' BY <1>3, <1>4 DEF N!DayInv, N!Key
<1>12. N!DoneInv' BY DEF N!DoneInv
<1>13. N!IdleMeansWarm' BY <1>4 DEF N!IdleMeansWarm, N!Identity, N!Horizon
<1> QED BY <1>5, <1>6, <1>7, <1>8, <1>9, <1>10, <1>11, <1>12, <1>13

LEMMA RequestKeeps == ASSUME N!NetworkInv, NEW r \in RequestThreads, N!Request(r) PROVE N!NetworkInv'
<1>0. v1 \in 0 .. Len(Covers) /\ v1 \in Nat BY NetworkShapes DEF N!NetworkInv
<1>1. v1 # 0 /\ UNCHANGED <<v1, v2, v3, v4, v5, v7, v8>> BY DEF N!Request
<1>2. N!Opened \in 1 .. v1
  <2>1. CASE N!Shared = {} BY <1>0, <1>1, <2>1 DEF N!Opened
  <2>2. CASE N!Shared # {}
    <3>1. N!Shared \subseteq 1 .. v1 BY DEF N!Shared, N!NetworkInv, N!Shapes
    <3> QED BY <2>2, <3>1 DEF N!Opened
  <2> QED BY <2>1, <2>2
<1> DEFINE b == N!Opened
<1>3. PICK d \in Covers[b] : v6' = [v6 EXCEPT ![r] = [step |-> "lookup", build |-> b, day |-> d, got |-> N!None]]
  BY DEF N!Request
<1>4. b \in DOMAIN Covers /\ b \in Nat BY <1>0, <1>2, NetworkConstants
<1>5. d \in Nat BY <1>3, <1>4, NetworkConstants
<1> HIDE DEF b
<1> DEFINE e == [step |-> "lookup", build |-> b, day |-> d, got |-> N!None]
<1>6. e \in JobRecords /\ e.step = "lookup" /\ e.got = <<>> /\ e.build = b
  BY <1>4, <1>5 DEF JobRecords, N!Steps, N!None
<1>7. v6' = [v6 EXCEPT ![r] = e] BY <1>3
<1>8. e.build \in 1 .. v1 BY <1>2, <1>6 DEF b
<1> HIDE DEF e
<1> QED BY <1>1, <1>6, <1>7, <1>8, ThreadMoved

LEMMA AnswerKeeps == ASSUME N!NetworkInv, NEW r \in RequestThreads, N!Answer(r) PROVE N!NetworkInv'
BY ThreadMoved, IdleIs DEF N!Answer

\* The warmer goes from one step of a pass to the next, or gives it up.
LEMMA WarmerMoved ==
  ASSUME N!NetworkInv, NEW e \in JobRecords, v6' = [v6 EXCEPT !["warmer"] = e],
         UNCHANGED <<v1, v2>>, v3' \in Seq(N!Entries), Keyed(v3'), Built(v3'), Len(v3') <= CachedDays,
         KeysOf(v3') \subseteq N!Keys, v4' \in SUBSET (Nat \X Nat),
         IsFiniteSet(v4'), Cardinality(v4') <= WarmDays,
         e.step # "build", e.got = <<>>,
         v5' = v5 \/ (v5 = <<"warmer">> /\ v5' = <<>>),
         N!PassInv', N!DaysInv', N!DayInv', N!DoneInv', N!IdleMeansWarm'
  PROVE  N!NetworkInv'
<1> USE DEF N!NetworkInv
<1>0. v6 \in [N!Actors -> JobRecords] /\ v5 \in Seq(N!Actors) BY NetworkShapes
<1>1. "warmer" \in N!Actors /\ "warmer" \notin RequestThreads /\ RequestThreads \subseteq N!Actors BY NetworkConstants
<1>2. v6'["warmer"] = e /\ \A b \in N!Actors : b # "warmer" => v6'[b] = v6[b] BY <1>0, <1>1
<1>3. N!Keys' = KeysOf(v3') BY DEF N!Keys, KeysOf
<1>4. N!Shapes'
  <2>1. v6' \in [N!Actors -> JobRecords] BY <1>0
  <2>2. ASSUME NEW q \in RequestThreads PROVE v6'[q] = v6[q] BY <1>1, <1>2
  <2>3. v5' \in Seq(N!Actors)
    <3>1. <<>> \in Seq(N!Actors) OBVIOUS
    <3> QED BY <1>0, <3>1
  <2>4. \A q \in RequestThreads : v6'[q].step \notin {"open", "warmed"} /\ (v6'[q].step # "idle" => v6'[q].build \in 1 .. v1)
    BY <2>2 DEF N!Shapes
  <2> QED BY <2>1, <2>3, <2>4 DEF N!Shapes, JobRecords
<1>5. N!EntriesInv' BY DEF N!EntriesInv, N!CacheKept, Keyed, Built
<1>6. N!PinsInv' BY NetworkFinite, NetworkSize DEF N!PinsInv
<1>7. N!GotInv'
  <2>1. ASSUME NEW b \in N!Actors, v6'[b].got # <<>> PROVE v6'[b].got[1].build = v6'[b].build
    <3>1. b # "warmer" BY <1>2, <2>1
    <3>2. v6'[b] = v6[b] BY <1>2, <3>1
    <3> QED BY <2>1, <3>2 DEF N!GotInv, N!None
  <2> QED BY <2>1 DEF N!GotInv, N!None
<1>8. N!BuilderInv'
  <2>1. ASSUME NEW b \in N!Actors, v6'[b].step = "build"
        PROVE  v5' = <<b>> /\ <<v6'[b].build, v6'[b].day>> \notin KeysOf(v3')
    <3>1. b # "warmer" BY <1>2, <2>1
    <3>2. v6'[b] = v6[b] BY <1>2, <3>1
    <3>3. v5 = <<b>> /\ <<v6[b].build, v6[b].day>> \notin N!Keys BY <2>1, <3>2 DEF N!BuilderInv, N!Key
    <3>4. v5 # <<"warmer">> BY <3>1, <3>3
    <3> QED BY <3>2, <3>3, <3>4
  <2> QED BY <1>3, <2>1 DEF N!BuilderInv, N!Key
<1> QED BY <1>4, <1>5, <1>6, <1>7, <1>8

LEMMA PinsAre == ASSUME N!NetworkInv PROVE v4 \in SUBSET (Nat \X Nat) /\ IsFiniteSet(v4) /\ Cardinality(v4) <= WarmDays
<1>1. N!IsFiniteSet(v4) /\ N!Cardinality(v4) <= WarmDays BY DEF N!NetworkInv, N!PinsInv
<1>2. v4 \in SUBSET (Nat \X Nat) BY DEF N!NetworkInv, N!Shapes
<1> QED BY <1>1, <1>2, NetworkFinite, NetworkSize

LEMMA WarmerIs == ASSUME N!NetworkInv PROVE "warmer" \in N!Actors /\ v6["warmer"] \in JobRecords
  /\ v6 \in [N!Actors -> JobRecords]
BY NetworkConstants, NetworkShapes DEF N!NetworkInv

LEMMA FailKeeps == ASSUME N!NetworkInv, NEW a \in N!Actors, N!Fail(a) PROVE N!NetworkInv'
<1>1. /\ v6[a].step \in {"open", "lookup", "lock", "build"} /\ v6' = [v6 EXCEPT ![a] = N!Idle]
      /\ UNCHANGED <<v1, v2, v3, v4, v8>> /\ (v5' = v5 \/ (v5 = <<a>> /\ v5' = <<>>))
  BY DEF N!Fail, N!None
<1>2. CASE a \in RequestThreads
  <2>1. v7' = v7 BY <1>2, NetworkConstants DEF N!Fail
  <2> QED BY <1>1, <1>2, <2>1, IdleIs, ThreadMoved
<1>3. CASE a = "warmer"
  <2>1. v6'["warmer"] = N!Idle BY <1>1, <1>3, WarmerIs
  <2>2. N!PassInv' /\ N!DaysInv' /\ N!DayInv' BY <2>1, IdleIs DEF N!PassInv, N!DaysInv, N!DayInv, N!Passing, N!Warmer
  <2>3. N!DoneInv' BY <1>1 DEF N!NetworkInv, N!DoneInv
  <2>4. N!IdleMeansWarm' BY <1>1 DEF N!NetworkInv, N!IdleMeansWarm, N!Identity, N!Horizon, N!Keys
  <2>5. v3' \in Seq(N!Entries) /\ Keyed(v3') /\ Built(v3') /\ Len(v3') <= CachedDays BY <1>1, EntriesAre
  <2>6. v4' \in SUBSET (Nat \X Nat) /\ IsFiniteSet(v4') /\ Cardinality(v4') <= WarmDays BY <1>1, PinsAre
  <2>7. KeysOf(v3') \subseteq N!Keys BY <1>1 DEF N!Keys, KeysOf
  <2> QED BY <1>1, <1>3, <2>2, <2>3, <2>4, <2>5, <2>6, <2>7, IdleIs, WarmerMoved
<1> QED BY <1>2, <1>3, NetworkConstants

LEMMA CheckKeeps == ASSUME N!NetworkInv, N!Check PROVE N!NetworkInv'
<1>0. v1 \in Nat /\ v2 \in Nat BY NetworkShapes DEF N!NetworkInv
<1>1. v6["warmer"] = N!Idle /\ UNCHANGED <<v1, v2, v3, v4, v5>> BY DEF N!Check, N!Warmer
<1>2. v3' \in Seq(N!Entries) /\ Keyed(v3') /\ Built(v3') /\ Len(v3') <= CachedDays BY <1>1, EntriesAre
<1>3. v4' \in SUBSET (Nat \X Nat) /\ IsFiniteSet(v4') /\ Cardinality(v4') <= WarmDays BY <1>1, PinsAre
<1>4. KeysOf(v3') \subseteq N!Keys BY <1>1 DEF N!Keys, KeysOf
<1>5. CASE v1 = 0 /\ v8' = N!None /\ UNCHANGED <<v7, v6>>
  <2>1. v6' = [v6 EXCEPT !["warmer"] = N!Idle] BY <1>1, <1>5, WarmerIs
  <2>2. v6'["warmer"] = N!Idle BY <1>1, <1>5
  <2>3. N!PassInv' /\ N!DaysInv' /\ N!DayInv' BY <2>2, IdleIs DEF N!PassInv, N!DaysInv, N!DayInv, N!Passing, N!Warmer
  <2>4. N!DoneInv' /\ N!IdleMeansWarm' BY <1>1, <1>5 DEF N!DoneInv, N!IdleMeansWarm
  <2> QED BY <1>1, <1>2, <1>3, <1>4, <2>1, <2>3, <2>4, IdleIs, WarmerMoved
<1>6. CASE /\ v1 # 0 /\ N!Identity # v8 /\ v7' = [identity |-> N!Identity, days |-> {}]
           /\ N!Step("warmer", "open") /\ UNCHANGED v8
  <2>1. PICK e : e = [v6["warmer"] EXCEPT !.step = "open"] OBVIOUS
  <2>2. v6' = [v6 EXCEPT !["warmer"] = e] BY <1>6, <2>1 DEF N!Step
  <2>3. e.step = "open" /\ e.got = <<>> /\ e \in JobRecords BY <1>1, <2>1, IdleIs, WarmerIs DEF JobRecords, N!Steps
  <2>4. v6'["warmer"] = e BY <2>2, WarmerIs
  <2>5. N!PassInv'
    <3>1. v7' \in PassRecords BY <1>0, <1>6 DEF PassRecords, N!Identity
    <3>2. v7'.identity = <<v1, v2>> BY <1>6 DEF N!Identity
    <3>3. v7'.identity[1] <= v1 /\ v7'.identity[2] <= v2 BY <1>0, <3>2
    <3>4. v8' # N!Identity' BY <1>1, <1>6 DEF N!Identity
    <3> QED BY <1>1, <1>6, <3>1, <3>3, <3>4 DEF N!PassInv, PassRecords
  <2>6. N!DaysInv' /\ N!DayInv' BY <2>3, <2>4 DEF N!DaysInv, N!DayInv, N!Warmer
  <2>7. N!DoneInv' BY <1>1, <1>6 DEF N!NetworkInv, N!DoneInv
  <2>8. N!IdleMeansWarm' BY <1>1, <1>6 DEF N!IdleMeansWarm, N!Identity
  <2> QED BY <1>1, <1>2, <1>3, <1>4, <2>2, <2>3, <2>5, <2>6, <2>7, <2>8, WarmerMoved
<1> QED BY <1>5, <1>6 DEF N!Check, N!Warmer

\* The job of a pass with days to do is the first of them.
LEMMA NextDayIs ==
  ASSUME v6 \in [N!Actors -> JobRecords], NEW b \in Nat, NEW days \in SUBSET Nat, N!NextDay(b, days)
  PROVE  \E e \in JobRecords :
           /\ v6' = [v6 EXCEPT !["warmer"] = e] /\ e.build = b /\ e.got = <<>>
           /\ (e.step = "warmed" /\ days = {}) \/ (e.step = "lookup" /\ e.day \in days)
<1>1. CASE days = {}
  <2>1. PICK e : e = [N!Idle EXCEPT !.step = "warmed", !.build = b] OBVIOUS
  <2>2. v6' = [v6 EXCEPT !["warmer"] = e] BY <1>1, <2>1 DEF N!NextDay, N!Warmer
  <2>3. e = [step |-> "warmed", build |-> b, day |-> 0, got |-> <<>>] BY <2>1 DEF N!Idle, N!None
  <2>4. e \in JobRecords BY <2>3 DEF JobRecords, N!Steps
  <2>5. e.build = b /\ e.got = <<>> /\ e.step = "warmed" BY <2>3
  <2> QED BY <1>1, <2>2, <2>4, <2>5
<1>2. CASE days # {}
  <2> DEFINE d == N!First(days)
  <2>1. d \in days BY <1>2, FirstOf
  <2>2. v6' = [v6 EXCEPT !["warmer"] = [step |-> "lookup", build |-> b, day |-> d, got |-> <<>>]]
    BY <1>2 DEF N!NextDay, N!Warmer, N!None
  <2> HIDE DEF d
  <2>3. PICK e : e = [step |-> "lookup", build |-> b, day |-> d, got |-> <<>>] OBVIOUS
  <2>4. e \in JobRecords BY <2>1, <2>3 DEF JobRecords, N!Steps
  <2>5. e.build = b /\ e.got = <<>> /\ e.step = "lookup" /\ e.day \in days BY <2>1, <2>3
  <2>6. v6' = [v6 EXCEPT !["warmer"] = e] BY <2>2, <2>3
  <2> QED BY <2>4, <2>5, <2>6
<1> QED BY <1>1, <1>2

LEMMA OpenKeeps == ASSUME N!NetworkInv, N!Open PROVE N!NetworkInv'
<1> DEFINE days == N!Horizon(v1, v7.identity[2])
           P == {v1} \X days
<1>0. v1 \in 0 .. Len(Covers) /\ v1 \in Nat /\ v6 \in [N!Actors -> JobRecords] BY NetworkShapes DEF N!NetworkInv
<1>1. /\ v6["warmer"].step = "open" /\ v4' = P /\ v3' = N!Trimmed(v3, P)
      /\ v7' = [v7 EXCEPT !.days = days] /\ N!NextDay(v1, days) /\ UNCHANGED <<v1, v2, v5, v8>>
  BY DEF N!Open, N!Warmer
<1>2. /\ v7 \in PassRecords /\ v7.identity[1] <= v1 /\ v7.identity[2] <= v2 /\ v1 # 0 /\ v8 # N!Identity
  BY <1>1 DEF N!NetworkInv, N!PassInv, N!Passing, N!Warmer, PassRecords
<1>3. v7.identity \in Nat \X Nat /\ v7.identity[2] \in Nat BY <1>2 DEF PassRecords
<1>4. days \subseteq Nat /\ P \subseteq Nat \X Nat /\ IsFiniteSet(P) /\ Cardinality(P) <= WarmDays
  BY <1>0, <1>3, HorizonSmall
<1>5. v7'.identity = v7.identity /\ v7'.days = days /\ v7' \in PassRecords BY <1>1, <1>2, <1>4 DEF PassRecords
<1>6. PICK e \in JobRecords :
           /\ v6' = [v6 EXCEPT !["warmer"] = e] /\ e.build = v1 /\ e.got = <<>>
           /\ (e.step = "warmed" /\ days = {}) \/ (e.step = "lookup" /\ e.day \in days)
  BY <1>0, <1>1, <1>4, NextDayIs
<1>7. v6'["warmer"] = e BY <1>6, WarmerIs
<1>8. /\ v3' \in Seq(N!Entries) /\ Keyed(v3') /\ Built(v3') /\ Len(v3') <= CachedDays
      /\ KeysOf(v3') \subseteq N!Keys
  <2>1. v3 \in Seq(N!Entries) /\ Keyed(v3) /\ Built(v3) /\ Len(v3) <= CachedDays BY EntriesAre
  <2>2. Len(v3) <= CachedDays + 1
    <3>1. Len(v3) \in Nat /\ CachedDays \in Nat BY <2>1, NetworkConstants
    <3> QED BY <2>1, <3>1
  <2>3. KeysOf(v3) = N!Keys BY DEF KeysOf, N!Keys
  <2> HIDE DEF P
  <2> QED BY <1>1, <1>4, <2>1, <2>2, <2>3, TrimmedFits
<1>9. N!PassInv' BY <1>1, <1>2, <1>5 DEF N!PassInv, N!Identity, PassRecords
<1>10. N!DaysInv'
  <2>1. days' = days BY <1>1, <1>5 DEF N!Horizon
  <2>2. v1 \in 1 .. v1 BY <1>0, <1>2
  <2>3. N!Horizon(v6'["warmer"].build, v7'.identity[2]) = days BY <1>5, <1>6, <1>7
  <2>4. v6'["warmer"].build = v1 BY <1>6, <1>7
  <2> HIDE DEF days
  <2>5. {v1} \X (days \ v7'.days) = {} BY <1>5
  <2> QED BY <1>1, <1>2, <1>5, <2>2, <2>3, <2>4, <2>5 DEF N!DaysInv, N!Warmer
<1>11. N!DayInv' BY <1>5, <1>6, <1>7 DEF N!DayInv, N!Warmer
<1>12. N!DoneInv' BY <1>1 DEF N!NetworkInv, N!DoneInv
<1>13. N!IdleMeansWarm' BY <1>1, <1>2 DEF N!IdleMeansWarm, N!Identity
<1>14. e.step # "build" BY <1>6
<1>15. v4' \in SUBSET (Nat \X Nat) /\ IsFiniteSet(v4') /\ Cardinality(v4') <= WarmDays BY <1>1, <1>4
<1> QED BY <1>1, <1>6, <1>8, <1>9, <1>10, <1>11, <1>12, <1>13, <1>14, <1>15, WarmerMoved

LEMMA WarmDayKeeps == ASSUME N!NetworkInv, N!WarmDay PROVE N!NetworkInv'
<1> DEFINE b == v6["warmer"].build
           d == v6["warmer"].day
           days == N!Horizon(b, v7.identity[2])
           rest == v7.days \ {d}
<1>0. v6 \in [N!Actors -> JobRecords] /\ b \in Nat BY WarmerIs DEF JobRecords
<1>1. /\ v6["warmer"].step = "got" /\ v7' = [v7 EXCEPT !.days = rest] /\ N!NextDay(b, rest)
      /\ UNCHANGED <<v1, v2, v3, v4, v5, v8>>
  BY DEF N!WarmDay, N!Warmer
<1>2. v7 \in PassRecords /\ v7.identity[1] <= v1 /\ v7.identity[2] <= v2 /\ v1 # 0 /\ v8 # N!Identity
  BY <1>1 DEF N!NetworkInv, N!PassInv, N!Passing, N!Warmer, PassRecords
<1>3. /\ b \in 1 .. v1 /\ v7.identity[1] <= b /\ v4 = {b} \X days /\ v7.days \subseteq days
      /\ {b} \X (days \ v7.days) \subseteq N!Keys
  BY <1>1 DEF N!NetworkInv, N!DaysInv, N!Passing, N!Warmer
<1>4. <<b, d>> \in N!Keys BY <1>1 DEF N!NetworkInv, N!DayInv, N!Key, N!Warmer
<1>5. rest \in SUBSET Nat /\ v7'.identity = v7.identity /\ v7'.days = rest /\ v7' \in PassRecords
  BY <1>1, <1>2 DEF PassRecords
<1>6. PICK e \in JobRecords :
           /\ v6' = [v6 EXCEPT !["warmer"] = e] /\ e.build = b /\ e.got = <<>>
           /\ (e.step = "warmed" /\ rest = {}) \/ (e.step = "lookup" /\ e.day \in rest)
  BY <1>0, <1>1, <1>5, NextDayIs
<1>7. v6'["warmer"] = e BY <1>6, WarmerIs
<1>8. N!PassInv' BY <1>1, <1>2, <1>5 DEF N!PassInv, N!Identity, PassRecords
<1>9. N!Keys' = N!Keys BY <1>1 DEF N!Keys
<1>10. N!DaysInv'
  <2>1. N!Horizon(v6'["warmer"].build, v7'.identity[2]) = days BY <1>5, <1>6, <1>7
  <2>2. v6'["warmer"].build = b BY <1>6, <1>7
  <2>3. {b} \X (days \ rest) \subseteq N!Keys
    <3> SUFFICES ASSUME NEW x \in days, x \notin rest PROVE <<b, x>> \in N!Keys OBVIOUS
    <3>1. CASE x = d BY <1>4, <3>1
    <3>2. CASE x # d
      <4>1. x \in days \ v7.days BY <3>2
      <4>2. <<b, x>> \in {b} \X (days \ v7.days) BY <4>1
      <4> QED BY <1>3, <4>2
    <3> QED BY <3>1, <3>2
  <2>4. rest \subseteq days BY <1>3
  <2> HIDE DEF b, days, rest
  <2> QED BY <1>1, <1>3, <1>5, <1>9, <2>1, <2>2, <2>3, <2>4 DEF N!DaysInv, N!Warmer
<1>11. N!DayInv' BY <1>5, <1>6, <1>7 DEF N!DayInv, N!Warmer
<1>12. N!DoneInv' BY <1>1 DEF N!NetworkInv, N!DoneInv
<1>13. N!IdleMeansWarm' BY <1>1, <1>2 DEF N!IdleMeansWarm, N!Identity
<1>14. e.step # "build" BY <1>6
<1>15. v3' \in Seq(N!Entries) /\ Keyed(v3') /\ Built(v3') /\ Len(v3') <= CachedDays BY <1>1, EntriesAre
<1>16. v4' \in SUBSET (Nat \X Nat) /\ IsFiniteSet(v4') /\ Cardinality(v4') <= WarmDays BY <1>1, PinsAre
<1>17. KeysOf(v3') \subseteq N!Keys BY <1>1 DEF N!Keys, KeysOf
<1> QED BY <1>1, <1>6, <1>8, <1>10, <1>11, <1>12, <1>13, <1>14, <1>15, <1>16, <1>17, WarmerMoved

\* The pass was for the artifact it began with: if that is still at the path, and it
\* still is that day, all of today's and the next days' networks are there.
LEMMA FinishKeeps == ASSUME N!NetworkInv, N!Finish PROVE N!NetworkInv'
<1> DEFINE b == v6["warmer"].build
           days == N!Horizon(b, v7.identity[2])
<1>0. v6 \in [N!Actors -> JobRecords] /\ b \in Nat BY WarmerIs DEF JobRecords
<1>1. /\ v6["warmer"].step = "warmed" /\ v8' = v7.identity /\ v6' = [v6 EXCEPT !["warmer"] = N!Idle]
      /\ UNCHANGED <<v1, v2, v3, v4, v5>>
  BY DEF N!Finish, N!Warmer, N!Warmed
<1>2. v7 \in PassRecords /\ v7.identity[1] <= v1 /\ v7.identity[2] <= v2 /\ v1 # 0 /\ v7.identity \in Nat \X Nat
  BY <1>1 DEF N!NetworkInv, N!PassInv, N!Passing, N!Warmer, PassRecords
<1>3. /\ b \in 1 .. v1 /\ v7.identity[1] <= b /\ v4 = {b} \X days /\ v7.days \subseteq days
      /\ {b} \X (days \ v7.days) \subseteq N!Keys
  BY <1>1 DEF N!NetworkInv, N!DaysInv, N!Passing, N!Warmer
<1>4. v7.days = {} BY <1>1 DEF N!NetworkInv, N!DayInv, N!Warmer
<1>5. v6'["warmer"] = N!Idle BY <1>1, WarmerIs
<1>6. N!PassInv' /\ N!DaysInv' /\ N!DayInv' BY <1>5, IdleIs DEF N!PassInv, N!DaysInv, N!DayInv, N!Passing, N!Warmer
<1>7. N!DoneInv' BY <1>1, <1>2 DEF N!DoneInv
<1>8. N!IdleMeansWarm'
  <2> SUFFICES ASSUME v7.identity = <<v1, v2>> PROVE {v1} \X N!Horizon(v1, v2) \subseteq N!Keys \intersect v4
    BY <1>1 DEF N!IdleMeansWarm, N!Identity, N!Horizon, N!Keys
  <2>1. v7.identity[1] = v1 /\ v7.identity[2] = v2 OBVIOUS
  <2>2. b = v1
    <3>1. v1 \in Nat BY NetworkShapes DEF N!NetworkInv
    <3> HIDE DEF b
    <3> QED BY <1>0, <1>3, <2>1, <3>1
  <2>3. days = N!Horizon(v1, v2) BY <2>1, <2>2
  <2> HIDE DEF b, days
  <2> QED BY <1>3, <1>4, <2>2, <2>3
<1>9. v3' \in Seq(N!Entries) /\ Keyed(v3') /\ Built(v3') /\ Len(v3') <= CachedDays BY <1>1, EntriesAre
<1>10. v4' \in SUBSET (Nat \X Nat) /\ IsFiniteSet(v4') /\ Cardinality(v4') <= WarmDays BY <1>1, PinsAre
<1>11. KeysOf(v3') \subseteq N!Keys BY <1>1 DEF N!Keys, KeysOf
<1> QED BY <1>1, <1>6, <1>7, <1>8, <1>9, <1>10, <1>11, IdleIs, WarmerMoved

\* A new artifact, or a new day, has not been warmed; nothing else notices it.
LEMMA TimePasses ==
  ASSUME N!NetworkInv, UNCHANGED <<v3, v4, v5, v6, v7, v8>>,
         (v1 < Len(Covers) /\ v1' = v1 + 1 /\ v2' = v2) \/ (v2' = v2 + 1 /\ v1' = v1)
  PROVE  N!NetworkInv'
<1> USE DEF N!NetworkInv, N!Warmer
<1>0. v1 \in Nat /\ v1 \in 0 .. Len(Covers) /\ v2 \in Nat /\ Len(Covers) \in Nat BY NetworkShapes, NetworkConstants
<1>1. v1 <= v1' /\ v2 <= v2' /\ v1' \in 0 .. Len(Covers) /\ v2' \in Nat /\ (v1' > v1 \/ v2' > v2) BY <1>0
<1>2. N!Shapes'
  <2>1. ASSUME NEW r \in RequestThreads
        PROVE  v6[r].step \notin {"open", "warmed"} /\ (v6[r].step # "idle" => v6[r].build \in 1 .. v1')
    <3>1. v6[r].step \notin {"open", "warmed"} /\ (v6[r].step # "idle" => v6[r].build \in 1 .. v1) BY DEF N!Shapes
    <3> QED BY <1>0, <1>1, <3>1
  <2> QED BY <1>1, <2>1 DEF N!Shapes
<1>3. N!Keys' = N!Keys BY DEF N!Keys
<1>4. N!EntriesInv' /\ N!PinsInv' /\ N!GotInv' BY DEF N!EntriesInv, N!CacheKept, N!PinsInv, N!GotInv
<1>5. N!BuilderInv' BY <1>3 DEF N!BuilderInv, N!Key
<1>6. v8 # <<>> => v8 \in Nat \X Nat /\ v8[1] <= v1 /\ v8[2] <= v2 BY DEF N!DoneInv, N!None
<1>7. v8 # <<v1', v2'>>
  <2> SUFFICES ASSUME v8 = <<v1', v2'>> PROVE FALSE OBVIOUS
  <2>1. v8 # <<>> /\ v8[1] = v1' /\ v8[2] = v2' OBVIOUS
  <2> QED BY <1>0, <1>1, <1>6, <2>1
<1>8. N!PassInv'
  <2> SUFFICES ASSUME v6["warmer"].step # "idle"
               PROVE  v7 \in PassRecords /\ v7.identity[1] <= v1' /\ v7.identity[2] <= v2' /\ v1' # 0
    BY <1>7 DEF N!PassInv, N!Passing, N!Identity, PassRecords
  <2>1. v7 \in PassRecords /\ v7.identity[1] <= v1 /\ v7.identity[2] <= v2 /\ v1 # 0
    BY DEF N!PassInv, N!Passing, PassRecords
  <2>2. v7.identity[1] \in Nat /\ v7.identity[2] \in Nat BY <2>1 DEF PassRecords
  <2> QED BY <1>0, <1>1, <2>1, <2>2
<1>9. N!DaysInv'
  <2> SUFFICES ASSUME v6["warmer"].step # "idle", v6["warmer"].step # "open"
               PROVE  v6["warmer"].build \in 1 .. v1'
    BY <1>3 DEF N!DaysInv, N!Passing, N!Horizon
  <2>1. v6["warmer"].build \in 1 .. v1 BY DEF N!DaysInv, N!Passing
  <2> QED BY <1>0, <1>1, <2>1
<1>10. N!DayInv' BY <1>3 DEF N!DayInv, N!Key
<1>11. N!DoneInv'
  <2> SUFFICES ASSUME v8 # <<>> PROVE v8 \in Nat \X Nat /\ v8[1] <= v1' /\ v8[2] <= v2' BY DEF N!DoneInv, N!None
  <2>1. v8[1] \in Nat /\ v8[2] \in Nat BY <1>6
  <2> QED BY <1>0, <1>1, <1>6, <2>1
<1>12. N!IdleMeansWarm' BY <1>7 DEF N!IdleMeansWarm, N!Identity
<1> QED BY <1>2, <1>4, <1>5, <1>8, <1>9, <1>10, <1>11, <1>12

LEMMA NetworkStands == ASSUME N!NetworkInv, UNCHANGED <<v1, v2, v3, v4, v5, v6, v7, v8>> PROVE N!NetworkInv'
<1> USE DEF N!NetworkInv
<1>1. N!Shapes' BY DEF N!Shapes
<1>2. N!Keys' = N!Keys BY DEF N!Keys
<1>3. N!EntriesInv' /\ N!PinsInv' /\ N!GotInv' BY DEF N!EntriesInv, N!CacheKept, N!PinsInv, N!GotInv
<1>4. N!BuilderInv' BY <1>2 DEF N!BuilderInv, N!Key
<1>5. N!PassInv' BY DEF N!PassInv, N!Passing, N!Identity
<1>6. N!DaysInv' BY <1>2 DEF N!DaysInv, N!Passing, N!Horizon
<1>7. N!DayInv' BY <1>2 DEF N!DayInv, N!Key
<1>8. N!DoneInv' BY DEF N!DoneInv
<1>9. N!IdleMeansWarm' BY <1>2 DEF N!IdleMeansWarm, N!Identity, N!Horizon
<1> QED BY <1>1, <1>3, <1>4, <1>5, <1>6, <1>7, <1>8, <1>9

LEMMA NetworkInit == N!Init => N!NetworkInv
<1> SUFFICES ASSUME N!Init PROVE N!NetworkInv OBVIOUS
<1> USE DEF N!NetworkInv, N!Warmer
<1>0. /\ v1 \in {0, 1} /\ v2 = 1 /\ v3 = <<>> /\ v4 = {} /\ v5 = <<>>
      /\ v6 = [a \in N!Actors |-> N!Idle] /\ v8 = <<>>
  BY DEF N!Init, N!None
<1>1. v6 \in [N!Actors -> JobRecords] /\ \A a \in N!Actors : v6[a].step = "idle" /\ v6[a].got = <<>> BY <1>0, IdleIs
<1>2. "warmer" \in N!Actors /\ RequestThreads \subseteq N!Actors BY NetworkConstants
<1>3. N!Shapes
  <2>1. v1 \in 0 .. Len(Covers) BY <1>0, NetworkConstants DEF N!Init
  <2>2. v3 \in Seq(N!Entries) /\ v5 \in Seq(N!Actors) /\ v2 \in Nat /\ v4 \in SUBSET (Nat \X Nat) BY <1>0
  <2>3. \A r \in RequestThreads : v6[r].step = "idle" BY <1>1, <1>2
  <2> QED BY <1>1, <2>1, <2>2, <2>3 DEF N!Shapes, JobRecords
<1>4. N!EntriesInv
  <2>1. DOMAIN v3 = {} /\ Len(v3) = 0 BY <1>0
  <2> QED BY <2>1, NetworkConstants DEF N!EntriesInv, N!CacheKept
<1>5. N!PinsInv
  <2>1. IsFiniteSet(v4) /\ Cardinality(v4) = 0 BY <1>0, FS_EmptySet
  <2>2. N!IsFiniteSet(v4) /\ N!Cardinality(v4) = 0 BY <2>1, NetworkFinite, NetworkSize
  <2> QED BY <2>2, NetworkConstants DEF N!PinsInv
<1>6. N!GotInv /\ N!BuilderInv BY <1>1 DEF N!GotInv, N!BuilderInv, N!None
<1>7. N!PassInv /\ N!DaysInv /\ N!DayInv BY <1>1, <1>2 DEF N!PassInv, N!DaysInv, N!DayInv, N!Passing
<1>8. N!DoneInv /\ N!IdleMeansWarm
  <2>1. v8 # <<v1, v2>> BY <1>0
  <2> QED BY <1>0, <2>1 DEF N!DoneInv, N!IdleMeansWarm, N!None, N!Identity
<1> QED BY <1>3, <1>4, <1>5, <1>6, <1>7, <1>8

LEMMA NetworkStep == ASSUME N!NetworkInv, N!Next PROVE N!NetworkInv'
<1>1. CASE \E a \in N!Actors : N!Lookup(a) \/ N!BuildLock(a) \/ N!Build(a) \/ N!Fail(a)
  <2>1. PICK a \in N!Actors : N!Lookup(a) \/ N!BuildLock(a) \/ N!Build(a) \/ N!Fail(a) BY <1>1
  <2> QED BY <2>1, LookupKeeps, BuildLockKeeps, BuildKeeps, FailKeeps
<1>2. CASE \E r \in RequestThreads : N!Request(r) \/ N!Answer(r)
  <2>1. PICK r \in RequestThreads : N!Request(r) \/ N!Answer(r) BY <1>2
  <2> QED BY <2>1, RequestKeeps, AnswerKeeps
<1>3. CASE N!Check \/ N!Open \/ N!WarmDay \/ N!Finish BY <1>3, CheckKeeps, OpenKeeps, WarmDayKeeps, FinishKeeps
<1>4. CASE N!Publish BY <1>4, TimePasses DEF N!Publish
<1>5. CASE N!Midnight BY <1>5, TimePasses DEF N!Midnight
<1>6. CASE UNCHANGED N!vars
  <2>1. UNCHANGED <<v1, v2, v3, v4, v5, v6, v7, v8>> BY <1>6 DEF N!vars
  <2> QED BY <2>1, NetworkStands
<1> QED BY <1>1, <1>2, <1>3, <1>4, <1>5, <1>6 DEF N!Next

LEMMA NetworkSafe == N!NetworkInv => N!OneSnapshot /\ N!IdleMeansWarm /\ N!CacheKept
<1> SUFFICES ASSUME N!NetworkInv PROVE N!OneSnapshot /\ N!IdleMeansWarm /\ N!CacheKept OBVIOUS
<1>1. N!OneSnapshot BY NetworkConstants DEF N!NetworkInv, N!GotInv, N!OneSnapshot
<1> QED BY <1>1 DEF N!NetworkInv, N!EntriesInv

\* A network stays as long as it is pinned, in every step.
LEMMA PinnedNetworkStays == ASSUME N!NetworkInv, N!Next \/ UNCHANGED N!vars PROVE N!PinsHold
<1> SUFFICES ASSUME NEW k \in N!Keys, k \in v4, k \in v4' PROVE k \in N!Keys' BY DEF N!PinsHold
<1>1. v3 \in Seq(N!Entries) /\ Keyed(v3) /\ Built(v3) /\ Len(v3) <= CachedDays BY EntriesAre
<1>2. N!Keys = KeysOf(v3) /\ N!Keys' = KeysOf(v3') BY DEF N!Keys, KeysOf
<1>3. Len(v3) \in Nat /\ CachedDays \in Nat BY <1>1, NetworkConstants
<1>4. ASSUME NEW a \in N!Actors, N!Lookup(a) \/ N!BuildLock(a) PROVE k \in N!Keys'
  <2>1. CASE v3' = v3 BY <1>2, <2>1
  <2>2. CASE N!Key(a) \in N!Keys /\ v3' = N!Used(a) BY <1>1, <1>2, <2>2, UsedMoves
  <2> QED BY <1>4, <2>1, <2>2 DEF N!Lookup, N!BuildLock, N!Rebuilt
<1>5. ASSUME NEW a \in N!Actors, N!Build(a) PROVE k \in N!Keys'
  <2> DEFINE n == [key |-> N!Key(a), build |-> v6[a].build]
  <2>1. v6[a].step = "build" /\ v3' = N!Trimmed(Append(v3, n), v4) BY <1>5 DEF N!Build
  <2>2. v6[a] \in JobRecords BY NetworkShapes DEF N!NetworkInv
  <2>3. n \in N!Entries /\ n.key = N!Key(a) /\ n.build = n.key[1] BY <2>2 DEF JobRecords, N!Entries, N!Key
  <2>4. n.key \notin KeysOf(v3) BY <1>2, <2>1, <2>3 DEF N!NetworkInv, N!BuilderInv
  <2> HIDE DEF n
  <2> DEFINE s == Append(v3, n)
  <2>5. /\ s \in Seq(N!Entries) /\ Len(s) = Len(v3) + 1 /\ Keyed(s) /\ Built(s)
        /\ KeysOf(s) = KeysOf(v3) \union {n.key}
    BY <1>1, <2>3, <2>4, EntryAppended
  <2>6. v3' = N!Trimmed(s, v4) BY <2>1
  <2> HIDE DEF s
  <2>7. Len(s) <= CachedDays + 1 BY <1>1, <1>3, <2>5
  <2>8. KeysOf(s) \intersect v4 \subseteq KeysOf(v3') BY <2>5, <2>6, <2>7, PinsAre, TrimmedFits
  <2> QED BY <1>2, <2>5, <2>8
<1>6. ASSUME N!Open PROVE k \in N!Keys'
  <2> DEFINE P == {v1} \X N!Horizon(v1, v7.identity[2])
  <2>1. v6["warmer"].step = "open" /\ v4' = P /\ v3' = N!Trimmed(v3, P) BY <1>6 DEF N!Open, N!Warmer
  <2>2. v7 \in PassRecords BY <2>1 DEF N!NetworkInv, N!PassInv, N!Passing, N!Warmer, PassRecords
  <2>3. v1 \in Nat /\ v7.identity[2] \in Nat BY <2>2, NetworkShapes DEF N!NetworkInv, PassRecords
  <2>4. IsFiniteSet(P) /\ Cardinality(P) <= WarmDays BY <2>3, HorizonSmall
  <2> HIDE DEF P
  <2>5. Len(v3) <= CachedDays + 1 BY <1>1, <1>3
  <2>6. KeysOf(v3) \intersect P \subseteq KeysOf(v3') BY <1>1, <2>1, <2>4, <2>5, TrimmedFits
  <2> QED BY <1>2, <2>1, <2>6
<1>7. CASE v3' = v3 BY <1>2, <1>7
<1>8. v3' = v3 \/ N!Open \/ \E a \in N!Actors : N!Lookup(a) \/ N!BuildLock(a) \/ N!Build(a)
  BY DEF N!Next, N!vars, N!Fail, N!Request, N!Answer, N!Check, N!WarmDay, N!Finish, N!Publish, N!Midnight
<1> QED BY <1>4, <1>5, <1>6, <1>7, <1>8

LEMMA NetworkStill == ASSUME N!NetworkInv, UNCHANGED N!vars PROVE N!NetworkInv'
BY NetworkStands DEF N!vars

--------------------------------------------------------------------------------
(* All together *)

ArtifactsInv ==
  /\ which = "schedule" => C!ScheduleInv
  /\ which = "duty" => DutyInv
  /\ which = "run" => M!RunInv
  /\ which = "networks" => N!NetworkInv

LEMMA ArtifactsInitially == ArtifactsInit => ArtifactsInv
BY ScheduleInitially, DutyInitially, RunInitially, NetworkInit DEF ArtifactsInit, ArtifactsInv

LEMMA ArtifactsInductive == ArtifactsInv /\ [ArtifactsNext]_vars => ArtifactsInv'
<1> SUFFICES ASSUME ArtifactsInv, [ArtifactsNext]_vars PROVE ArtifactsInv'
  OBVIOUS
<1>1. CASE which = "schedule" /\ C!Next /\ UNCHANGED which
  BY <1>1, ScheduleStep DEF ArtifactsInv
<1>2. CASE which = "run" /\ M!Next /\ UNCHANGED which
  BY <1>2, RunStep DEF ArtifactsInv
<1>3. CASE which = "networks" /\ N!Next /\ UNCHANGED which
  BY <1>3, NetworkStep DEF ArtifactsInv
<1>4. CASE which = "duty" /\ D!Next /\ UNCHANGED which
  BY <1>4, DutyStep DEF ArtifactsInv
<1>5. CASE UNCHANGED vars
  <2>1. UNCHANGED <<which, v1, v2, v3, v4, v5, v6, v7, v8, v9, v10>>
    BY <1>5 DEF vars
  <2>2. UNCHANGED ScheduleVars /\ UNCHANGED D!vars
    BY <2>1 DEF ScheduleVars, D!vars
  <2> QED BY <2>1, <2>2, ScheduleStep, DutyStands, RunStands, NetworkStands DEF ArtifactsInv
<1> QED BY <1>1, <1>2, <1>3, <1>4, <1>5 DEF ArtifactsNext

\* duties, iter_stop_semantics, _write_trip_universe; align_execution; run_alignment and
\* the merge of its shards; the frontend's networks. For every day, track, job and
\* artifact, with any step failing: the schedule covers the day and no overlap goes unnoticed, passenger stops are
\* one stretch of a course, a diagnostic run agrees with the whole day's; a vehicle's
\* traversals of a course do not overlap, what a duty executed was run in order by one
\* vehicle that no other one matches, and of a vehicle's intervals, over all duties,
\* exactly those that overlap another are given up; what is merged and published is the rows
\* of every accepted course, whatever the number of workers, in full row groups; a
\* request reads networks of one artifact and an idle warm-up has warmed the one there.
THEOREM ArtifactsSafely == ArtifactsSpec => []ArtifactsSound
<1>1. ArtifactsInv => ArtifactsSound
  BY ScheduleSafe, DutySafe, RunSafe, NetworkSafe DEF ArtifactsInv, ArtifactsSound
<1> QED BY <1>1, ArtifactsInitially, ArtifactsInductive, PTL DEF ArtifactsSpec

\* run_alignment's move and journey._trim_cache: what a run published is never replaced
\* by a later attempt, and no step takes a network out of the cache that was and stays
\* pinned, whoever inserts or pins at that moment.
THEOREM PublishedStands == ArtifactsSpec => SettledStands
<1> DEFINE Stands == (which = "run" => M!FirstStands) /\ (which = "networks" => N!PinsHold)
<1>1. ArtifactsInv /\ [ArtifactsNext]_vars => Stands
  <2> SUFFICES ASSUME ArtifactsInv, [ArtifactsNext]_vars PROVE Stands
    OBVIOUS
  <2>1. ASSUME which = "run" PROVE M!FirstStands
    <3>1. M!RunInv /\ (M!Next \/ UNCHANGED M!vars)
      BY <2>1 DEF ArtifactsInv, ArtifactsNext, vars, M!vars
    <3> QED BY <3>1, OutputStays
  <2>2. ASSUME which = "networks" PROVE N!PinsHold
    <3>1. N!NetworkInv /\ (N!Next \/ UNCHANGED N!vars)
      BY <2>2 DEF ArtifactsInv, ArtifactsNext, vars, N!vars
    <3> QED BY <3>1, PinnedNetworkStays
  <2> QED BY <2>1, <2>2
<1> QED BY <1>1, ArtifactsInitially, ArtifactsInductive, PTL DEF ArtifactsSpec, SettledStands
==================================================================================
