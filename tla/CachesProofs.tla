------------------------------ MODULE CachesProofs -------------------------------
(* What Caches' components keep true, one after the other: their inductive          *)
(* invariants are RouteCache's CacheInv, LiveStatus's StatusInv, LiveTimes'         *)
(* TimesInv, RouteMap's MapInv and PlannerPipeline's PlannerInv, each preserved     *)
(* action by action. Facts about numbers, folds and sequences come first; the       *)
(* theorems are at the end.                                                         *)
EXTENDS Caches, TLAPS, FiniteSetTheorems, WellFoundedInduction

--------------------------------------------------------------------------------
(* Least and greatest numbers, induction over the naturals without an operator    *)
(* parameter, and the fold of Lists, which is the last of the values a function   *)
(* takes step by step.                                                            *)

LEMMA LessThan == OpToRel(<, Nat) = {ss \in Nat \X Nat : ss[1] < ss[2]}
BY Zenon DEF OpToRel

LEMMA LeastOf == ASSUME NEW S, S \subseteq Nat, S # {} PROVE \E x \in S : \A y \in S : x <= y
<1> DEFINE R == {ss \in Nat \X Nat : ss[1] < ss[2]}
<1>1. IsWellFoundedOn(R, Nat) BY NatLessThanWellFounded, LessThan
<1> HIDE DEF R
<1>2. PICK x \in S : \A y \in S : ~(<<y, x>> \in R) BY <1>1, WFMin
<1>3. ASSUME NEW y \in S PROVE x <= y
  <2>1. x \in Nat /\ y \in Nat OBVIOUS
  <2>2. y < x => <<y, x>> \in R BY <2>1 DEF R
  <2> QED BY <1>2, <2>1, <2>2
<1> QED BY <1>3

\* Of numbers up to a bound there is a greatest.
LEMMA GreatestOf == ASSUME NEW n \in Nat, NEW S, S \subseteq 1 .. n, S # {} PROVE \E x \in S : \A y \in S : y <= x
<1> DEFINE Gaps == {n - x : x \in S}
<1>1. Gaps \subseteq Nat /\ Gaps # {} /\ \A y \in S : n - y \in Gaps
  <2>1. \A x \in S : n - x \in Nat /\ n - x \in Gaps
    OBVIOUS
  <2>2. Gaps \subseteq Nat
    BY <2>1
  <2> QED BY <2>1, <2>2
<1> HIDE DEF Gaps
<1>2. PICK g \in Gaps : \A m \in Gaps : g <= m
  BY <1>1, LeastOf
<1>3. PICK x \in S : g = n - x
  BY <1>2 DEF Gaps
<1>4. ASSUME NEW y \in S PROVE y <= x
  <2>1. g <= n - y /\ x \in 1 .. n /\ y \in 1 .. n
    BY <1>1, <1>2
  <2> QED BY <1>3, <2>1
<1> QED BY <1>4

\* A set that contains 0 and with each number the next one contains all of them.
LEMMA NatInd ==
  ASSUME NEW S, 0 \in S, \A n \in Nat : n \in S => n + 1 \in S
  PROVE  Nat \subseteq S
<1> SUFFICES ASSUME Nat \ S # {} PROVE FALSE OBVIOUS
<1>1. PICK x \in Nat \ S : \A y \in Nat \ S : x <= y
  BY LeastOf
<1>2. x # 0 /\ x - 1 \in Nat
  BY <1>1
<1>3. x - 1 \in S
  BY <1>1, <1>2
<1> QED BY <1>1, <1>2, <1>3

\* f lists the values a fold of seq by g takes, the first of them base.
Folded(f, S, g, base, seq) ==
  f \in [0 .. Len(seq) -> S] /\ f[0] = base /\ \A i \in 1 .. Len(seq) : f[i] = g[<<f[i - 1], seq[i]>>]

\* For a function there are such values.
LEMMA FoldExists ==
  ASSUME NEW S, NEW E, NEW g \in [S \X E -> S], NEW base \in S, NEW seq \in Seq(E)
  PROVE  \E f : Folded(f, S, g, base, seq)
<1> DEFINE Up(n) == \E f \in [0 .. n -> S] : f[0] = base /\ \A i \in 1 .. n : f[i] = g[<<f[i - 1], seq[i]>>]
           T == {n \in Nat : n <= Len(seq) => Up(n)}
<1>1. 0 \in T
  <2>1. [i \in 0 .. 0 |-> base] \in [0 .. 0 -> S] OBVIOUS
  <2>2. \A i \in 1 .. 0 : FALSE
    OBVIOUS
  <2>3. Up(0)
    <3>1. WITNESS [i \in 0 .. 0 |-> base] \in [0 .. 0 -> S]
    <3> QED BY <2>2
  <2> QED BY <2>3
<1>2. ASSUME NEW n \in Nat, n \in T PROVE n + 1 \in T
  <2> SUFFICES ASSUME n + 1 <= Len(seq) PROVE Up(n + 1)
    OBVIOUS
  <2>1. PICK f \in [0 .. n -> S] : f[0] = base /\ \A i \in 1 .. n : f[i] = g[<<f[i - 1], seq[i]>>]
    BY <1>2
  <2>2. n \in 0 .. n /\ n + 1 \in 1 .. Len(seq) /\ seq[n + 1] \in E
    OBVIOUS
  <2> DEFINE h == [i \in 0 .. n + 1 |-> IF i = n + 1 THEN g[<<f[n], seq[n + 1]>>] ELSE f[i]]
  <2>3. h \in [0 .. n + 1 -> S]
    BY <2>1, <2>2
  <2>4. h[0] = base
    BY <2>1
  <2>5. ASSUME NEW i \in 1 .. n + 1 PROVE h[i] = g[<<h[i - 1], seq[i]>>]
    <3>1. i \in 0 .. n + 1 /\ i - 1 \in 0 .. n + 1 /\ i - 1 # n + 1
      OBVIOUS
    <3>2. h[i - 1] = f[i - 1]
      BY <3>1
    <3>3. CASE i = n + 1
      <4>1. h[i] = g[<<f[n], seq[n + 1]>>] /\ i - 1 = n
        BY <3>1, <3>3
      <4> QED BY <3>2, <3>3, <4>1
    <3>4. CASE i # n + 1
      <4>1. h[i] = f[i] /\ i \in 1 .. n
        BY <3>1, <3>4
      <4> QED BY <2>1, <3>2, <4>1
    <3> QED BY <3>3, <3>4
  <2> QED BY <2>3, <2>4, <2>5
<1>3. Nat \subseteq T
  <2> HIDE DEF T
  <2> QED BY <1>1, <1>2, NatInd
<1>4. Up(Len(seq))
  BY <1>3
<1> QED BY <1>4 DEF Folded

\* Two recursions that agree at each step as long as they agreed before are the same.
LEMMA Agree ==
  ASSUME NEW n \in Nat, NEW f, NEW h, h[0] = f[0], \A i \in 1 .. n : h[i - 1] = f[i - 1] => h[i] = f[i]
  PROVE  h[n] = f[n]
<1> DEFINE T == {m \in Nat : m <= n => h[m] = f[m]}
<1>1. 0 \in T
  OBVIOUS
<1>2. ASSUME NEW m \in Nat, m \in T PROVE m + 1 \in T
  <2> SUFFICES ASSUME m + 1 <= n PROVE h[m + 1] = f[m + 1]
    OBVIOUS
  <2> DEFINE k == m + 1
  <2>1. k \in 1 .. n /\ k - 1 = m /\ h[m] = f[m]
    BY <1>2
  <2> HIDE DEF k
  <2>2. h[k] = f[k]
    BY <2>1
  <2> QED BY <2>2 DEF k
<1>3. Nat \subseteq T
  <2> HIDE DEF T
  <2> QED BY <1>1, <1>2, NatInd
<1> QED BY <1>3

\* What a fold adds step by step.
Grows(n, f, D) == n \in Nat /\ f[0] = {} /\ \A i \in 1 .. n : f[i] = f[i - 1] \union D[i]
Gathered(n, f, D) == \A x : x \in f[n] <=> \E i \in 1 .. n : x \in D[i]

LEMMA Collected == ASSUME NEW n, NEW f, NEW D, Grows(n, f, D) PROVE Gathered(n, f, D)
<1> DEFINE Is(m) == \A x : x \in f[m] <=> \E i \in 1 .. m : x \in D[i]
           T == {m \in Nat : m <= n => Is(m)}
<1>0. n \in Nat /\ f[0] = {} /\ \A i \in 1 .. n : f[i] = f[i - 1] \union D[i]
  BY DEF Grows
<1>1. 0 \in T
  <2>1. 1 .. 0 = {}
    OBVIOUS
  <2> QED BY <1>0, <2>1
<1>2. ASSUME NEW m \in Nat, m \in T PROVE m + 1 \in T
  <2> SUFFICES ASSUME m + 1 <= n PROVE Is(m + 1)
    OBVIOUS
  <2> DEFINE k == m + 1
  <2>1. k \in 1 .. n /\ k - 1 = m /\ 1 .. k = (1 .. m) \union {k}
    OBVIOUS
  <2>4. Is(m)
    BY <1>0, <1>2
  <2> HIDE DEF k
  <2>2. f[k] = f[m] \union D[k]
    BY <1>0, <2>1
  <2>3. Is(k)
    BY <2>1, <2>4, <2>2
  <2> QED BY <2>3 DEF k
<1>3. Nat \subseteq T
  <2> HIDE DEF T
  <2> QED BY <1>1, <1>2, NatInd
<1>4. Is(n)
  BY <1>0, <1>3
<1> QED BY <1>4 DEF Gathered

--------------------------------------------------------------------------------
(* Sequences without an element *)

LEMMA RemovedAt ==
  ASSUME NEW S, NEW s \in Seq(S), NEW i \in DOMAIN s
  PROVE  LET r == SubSeq(s, 1, i - 1) \o SubSeq(s, i + 1, Len(s))
         IN  /\ r \in Seq(S) /\ Len(r) = Len(s) - 1 /\ DOMAIN r = 1 .. Len(s) - 1
             /\ \A j \in 1 .. Len(s) - 1 : r[j] = s[IF j < i THEN j ELSE j + 1]
<1> DEFINE a == SubSeq(s, 1, i - 1)
           b == SubSeq(s, i + 1, Len(s))
           r == a \o b
<1>1. Len(s) \in Nat /\ i \in 1 .. Len(s) OBVIOUS
<1>2. a \in Seq(S) /\ Len(a) = i - 1 /\ \A j \in 1 .. i - 1 : a[j] = s[j] BY <1>1
<1>3. b \in Seq(S) /\ Len(b) = Len(s) - i /\ \A j \in 1 .. Len(s) - i : b[j] = s[i + j] BY <1>1
<1> HIDE DEF a, b
<1>4. r \in Seq(S) /\ Len(r) = Len(s) - 1 BY <1>1, <1>2, <1>3
<1>5. \A j \in 1 .. Len(a) + Len(b) : r[j] = IF j <= Len(a) THEN a[j] ELSE b[j - Len(a)]
  <2>1. a \in Seq(S) /\ b \in Seq(S) BY <1>2, <1>3
  <2> QED BY <2>1
<1> HIDE DEF r
<1>6. ASSUME NEW j \in 1 .. Len(s) - 1 PROVE r[j] = s[IF j < i THEN j ELSE j + 1]
  <2>1. CASE j < i
    <3>1. r[j] = a[j] BY <1>1, <1>2, <1>3, <1>5, <2>1
    <3> QED BY <1>1, <1>2, <2>1, <3>1
  <2>2. CASE ~(j < i)
    <3>1. j \in 1 .. Len(a) + Len(b) /\ ~(j <= Len(a)) /\ Len(a) = i - 1 BY <1>1, <1>2, <1>3, <2>2
    <3>2. r[j] = b[j - (i - 1)] BY <1>5, <3>1
    <3>3. j - (i - 1) \in 1 .. Len(s) - i /\ i + (j - (i - 1)) = j + 1 BY <1>1, <2>2
    <3>4. b[j - (i - 1)] = s[i + (j - (i - 1))] BY <1>3, <3>3
    <3> QED BY <2>2, <3>2, <3>3, <3>4
  <2> QED BY <2>1, <2>2
<1>7. DOMAIN r = 1 .. Len(s) - 1 BY <1>4
<1> QED BY <1>4, <1>6, <1>7 DEF r, a, b

\* Elements that occur once: the others stay, each once, and the removed one is gone.
LEMMA RemovedOnce ==
  ASSUME NEW S, NEW s \in Seq(S), NEW i \in DOMAIN s
  PROVE  LET r == SubSeq(s, 1, i - 1) \o SubSeq(s, i + 1, Len(s))
         IN  /\ \A j \in DOMAIN r : \E k \in DOMAIN s : k # i /\ r[j] = s[k]
             /\ \A k \in DOMAIN s : k # i => \E j \in DOMAIN r : r[j] = s[k]
             /\ \A j, l \in DOMAIN r : j # l => \E k, m \in DOMAIN s : k # m /\ r[j] = s[k] /\ r[l] = s[m]
<1> DEFINE r == SubSeq(s, 1, i - 1) \o SubSeq(s, i + 1, Len(s))
           at(j) == IF j < i THEN j ELSE j + 1
<1>1. Len(s) \in Nat /\ DOMAIN s = 1 .. Len(s) /\ i \in 1 .. Len(s) OBVIOUS
<1>2. DOMAIN r = 1 .. Len(s) - 1 /\ \A j \in 1 .. Len(s) - 1 : r[j] = s[at(j)] BY RemovedAt
<1> HIDE DEF r
<1>3. \A j \in 1 .. Len(s) - 1 : at(j) \in 1 .. Len(s) /\ at(j) # i BY <1>1
<1>4. \A j, l \in 1 .. Len(s) - 1 : j # l => at(j) # at(l) BY <1>1
<1>5. ASSUME NEW k \in DOMAIN s, k # i PROVE \E j \in DOMAIN r : r[j] = s[k]
  <2>1. CASE k < i
    <3>1. k \in 1 .. Len(s) - 1 /\ at(k) = k BY <1>1, <2>1
    <3> QED BY <1>2, <3>1
  <2>2. CASE ~(k < i)
    <3>1. k - 1 \in 1 .. Len(s) - 1 /\ at(k - 1) = k BY <1>1, <1>5, <2>2
    <3> QED BY <1>2, <3>1
  <2> QED BY <2>1, <2>2
<1>6. ASSUME NEW j \in DOMAIN r PROVE \E k \in DOMAIN s : k # i /\ r[j] = s[k]
  <2>1. at(j) \in DOMAIN s /\ at(j) # i /\ r[j] = s[at(j)] BY <1>1, <1>2, <1>3
  <2> HIDE DEF at
  <2> QED BY <2>1
<1>7. ASSUME NEW j \in DOMAIN r, NEW l \in DOMAIN r, j # l
      PROVE  \E k, m \in DOMAIN s : k # m /\ r[j] = s[k] /\ r[l] = s[m]
  <2>1. at(j) \in DOMAIN s /\ at(l) \in DOMAIN s /\ at(j) # at(l) /\ r[j] = s[at(j)] /\ r[l] = s[at(l)]
    BY <1>1, <1>2, <1>3, <1>4, <1>7
  <2> HIDE DEF at
  <2> QED BY <2>1
<1> QED BY <1>5, <1>6, <1>7 DEF r

--------------------------------------------------------------------------------
(* RouteCache: v1 completed, v2 inflight, v3 outcome, v4 caller, v5 calls         *)

Once(s) == \A i, j \in DOMAIN s : s[i] = s[j] => i = j
Elements(s) == {s[i] : i \in DOMAIN s}

LEMMA UsedIs ==
  ASSUME v1 \in Seq(JourneyKeys), Once(v1), NEW k \in JourneyKeys
  PROVE  /\ K!Used(k) \in Seq(JourneyKeys) /\ Once(K!Used(k))
         /\ Elements(K!Used(k)) = K!Remembered \union {k}
         /\ Len(K!Used(k)) = IF K!Found(k) THEN Len(v1) ELSE Len(v1) + 1
<1>0. Elements(v1) = K!Remembered BY DEF Elements, K!Remembered
<1>1. PICK r \in Seq(JourneyKeys) :
        /\ K!Used(k) = Append(r, k) /\ Once(r)
        /\ Elements(r) = K!Remembered \ {k}
        /\ Len(r) + 1 = IF K!Found(k) THEN Len(v1) ELSE Len(v1) + 1
  <2>1. CASE ~K!Found(k)
    <3>1. K!Used(k) = Append(v1, k) BY <2>1 DEF K!Used
    <3>2. Elements(v1) = K!Remembered \ {k} BY <1>0, <2>1 DEF K!Found
    <3> QED BY <2>1, <3>1, <3>2
  <2>2. CASE K!Found(k)
    <3> DEFINE i == CHOOSE i \in DOMAIN v1 : v1[i] = k
               r == SubSeq(v1, 1, i - 1) \o SubSeq(v1, i + 1, Len(v1))
    <3>1. \E j \in DOMAIN v1 : v1[j] = k BY <2>2 DEF K!Found, K!Remembered
    <3>2. i \in DOMAIN v1 /\ v1[i] = k BY <3>1
    <3>3. K!Used(k) = Append(r, k) BY <2>2 DEF K!Used, K!RemoveAt
    <3> HIDE DEF i
    <3>4. r \in Seq(JourneyKeys) /\ Len(r) = Len(v1) - 1 BY <3>2, RemovedAt
    <3>5. /\ \A j \in DOMAIN r : \E m \in DOMAIN v1 : m # i /\ r[j] = v1[m]
          /\ \A m \in DOMAIN v1 : m # i => \E j \in DOMAIN r : r[j] = v1[m]
          /\ \A j, l \in DOMAIN r : j # l => \E m, n \in DOMAIN v1 : m # n /\ r[j] = v1[m] /\ r[l] = v1[n]
      BY <3>2, RemovedOnce
    <3> HIDE DEF r
    <3>6. Once(r) BY <3>5 DEF Once
    <3>7. Elements(r) = K!Remembered \ {k} BY <1>0, <3>2, <3>5 DEF Elements, Once
    <3>8. Len(r) + 1 = Len(v1) BY <3>4
    <3> QED BY <2>2, <3>3, <3>4, <3>6, <3>7, <3>8
  <2> QED BY <2>1, <2>2
<1> DEFINE u == Append(r, k)
<1>2. /\ u \in Seq(JourneyKeys) /\ Len(u) = Len(r) + 1 /\ DOMAIN u = 1 .. Len(r) + 1 /\ DOMAIN r = 1 .. Len(r)
      /\ u[Len(r) + 1] = k /\ \A i \in 1 .. Len(r) : u[i] = r[i]
  OBVIOUS
<1> HIDE DEF u
<1>3. \A i \in 1 .. Len(r) : r[i] # k BY <1>1, <1>2 DEF Elements
<1>4. Once(u) BY <1>1, <1>2, <1>3 DEF Once
<1>5. Elements(u) = Elements(r) \union {k} BY <1>2 DEF Elements
<1>6. K!Used(k) = u BY <1>1 DEF u
<1> QED BY <1>1, <1>2, <1>4, <1>5, <1>6

LEMMA TrimmedIs ==
  ASSUME NEW s \in Seq(JourneyKeys), Once(s)
  PROVE  /\ K!Trimmed(s) \in Seq(JourneyKeys) /\ Once(K!Trimmed(s))
         /\ Elements(K!Trimmed(s)) \subseteq Elements(s) /\ Len(K!Trimmed(s)) <= CompletedLimit
<1>1. CompletedLimit \in Nat BY CacheHolds DEF K!CacheAssumption
<1>2. CASE Len(s) <= CompletedLimit
  <2>1. K!Trimmed(s) = s BY <1>1, <1>2 DEF K!Trimmed
  <2> QED BY <1>2, <2>1
<1>3. CASE Len(s) > CompletedLimit
  <2> DEFINE m == Len(s) - CompletedLimit
             t == SubSeq(s, m + 1, Len(s))
  <2>1. K!Trimmed(s) = t BY <1>3 DEF K!Trimmed
  <2>2. Len(s) \in Nat /\ m \in Nat /\ m > 0 /\ Len(s) = m + CompletedLimit BY <1>1, <1>3
  <2> HIDE DEF m
  <2>3. t \in Seq(JourneyKeys) /\ Len(t) = CompletedLimit /\ DOMAIN t = 1 .. CompletedLimit
        /\ \A i \in 1 .. CompletedLimit : t[i] = s[m + i]
    <3>1. m + 1 \in 1 .. Len(s) + 1 BY <1>1, <2>2
    <3>2. t \in Seq(JourneyKeys) /\ Len(t) = Len(s) - m BY <2>2, <3>1
    <3>3. Len(t) = CompletedLimit BY <1>1, <2>2, <3>2
    <3>4. \A i \in 1 .. CompletedLimit : t[i] = s[m + i] BY <1>1, <2>2
    <3> QED BY <3>2, <3>3, <3>4
  <2> HIDE DEF t
  <2>4. \A i \in DOMAIN t : m + i \in DOMAIN s BY <1>1, <2>2, <2>3
  <2>5. Once(t) BY <1>1, <2>2, <2>3, <2>4 DEF Once
  <2>6. Elements(t) \subseteq Elements(s) BY <2>3, <2>4 DEF Elements
  <2> QED BY <1>1, <2>1, <2>3, <2>5, <2>6
<1> QED BY <1>1, <1>2, <1>3

CallerRecords == [step : {"idle", "wait", "compute", "publish result", "publish error"}, key : JourneyKeys,
                  flight : Nat, owner : BOOLEAN, joined : K!Outcomes]

LEMMA Finite == \A S : K!IsFiniteSet(S) <=> IsFiniteSet(S)
BY Zenon DEF K!IsFiniteSet, IsFiniteSet

LEMMA Size == \A S : K!Cardinality(S) = Cardinality(S)
BY Zenon DEF K!Cardinality, Cardinality

LEMMA KeysAre == IsFiniteSet(JourneyKeys) /\ K!Idle \in CallerRecords /\ ~K!Idle.owner /\ K!Idle.step = "idle"
                 /\ CompletedLimit \in Nat /\ InflightLimit \in Nat
<1>1. JourneyKeys # {} /\ IsFiniteSet(JourneyKeys) /\ CompletedLimit \in Nat /\ InflightLimit \in Nat
  BY CacheHolds, Finite DEF K!CacheAssumption
<1>2. (CHOOSE k \in JourneyKeys : TRUE) \in JourneyKeys BY <1>1
<1> QED BY <1>1, <1>2 DEF K!Idle, CallerRecords, K!Outcomes

LEMMA CacheInit == K!Init => K!CacheInv
<1> SUFFICES ASSUME K!Init PROVE K!CacheInv OBVIOUS
<1>0. v1 = <<>> /\ v2 = [k \in JourneyKeys |-> 0] /\ v3 = <<>> /\ v4 = [c \in Callers |-> K!Idle] BY DEF K!Init
<1>1. K!Shapes
  <2>1. v1 \in Seq(JourneyKeys) /\ v3 \in Seq(K!Outcomes) BY <1>0
  <2>2. v2 \in [JourneyKeys -> Nat] BY <1>0
  <2>3. v4 \in [Callers -> CallerRecords] BY <1>0, KeysAre
  <2> QED BY <2>1, <2>2, <2>3 DEF K!Shapes, CallerRecords
<1>2. \A c \in Callers : ~v4[c].owner /\ v4[c].step = "idle" BY <1>0, KeysAre
<1>3. K!OwnersInv /\ K!OneOwner BY <1>2 DEF K!OwnersInv, K!OneOwner
<1>4. K!PublishersInv /\ K!WaitersInv BY <1>2 DEF K!PublishersInv, K!WaitersInv
<1>5. K!FuturesInv BY <1>0 DEF K!FuturesInv
<1>6. K!FlightsInv BY <1>0 DEF K!FlightsInv
<1>7. {k \in JourneyKeys : v2[k] # 0} = {} BY <1>0
<1>8. K!TablesInv
  <2>1. K!Cardinality({k \in JourneyKeys : v2[k] # 0}) = 0 BY <1>7, FS_EmptySet, Size
  <2>2. Len(v1) = 0 /\ DOMAIN v1 = {} BY <1>0
  <2> QED BY <2>1, <2>2, KeysAre DEF K!TablesInv
<1> QED BY <1>1, <1>3, <1>4, <1>5, <1>6, <1>8 DEF K!CacheInv, K!WorkInv

\* A step that leaves the futures and the flights alone, and no owner with another role.
LEMMA WorkStands ==
  ASSUME K!WorkInv, UNCHANGED <<v2, v3>>, v4 \in [Callers -> CallerRecords], v4' \in [Callers -> CallerRecords],
         K!Remembered' = K!Remembered,
         \A d \in Callers : v4'[d] = v4[d] \/ (~v4[d].owner /\ ~v4'[d].owner
           /\ v4'[d].step \notin {"publish result", "publish error"}
           /\ (v4'[d].step = "wait" => v4'[d].flight \in DOMAIN v3 /\ v4'[d].joined = "none"))
  PROVE  K!WorkInv'
<1> USE DEF K!WorkInv
<1>1. K!OwnersInv' BY DEF K!OwnersInv
<1>2. K!OneOwner' BY DEF K!OneOwner
<1>3. K!PublishersInv' BY DEF K!PublishersInv
<1>4. K!FuturesInv'
  <2>1. ASSUME NEW f \in DOMAIN v3, v3[f] = "none" PROVE \E d \in Callers : v4'[d].owner /\ v4'[d].flight = f
    <3>1. PICK d \in Callers : v4[d].owner /\ v4[d].flight = f BY <2>1 DEF K!FuturesInv
    <3>2. v4'[d] = v4[d] BY <3>1
    <3> QED BY <3>1, <3>2
  <2> QED BY <2>1 DEF K!FuturesInv
<1>5. K!FlightsInv'
  <2>1. ASSUME NEW k \in JourneyKeys, v2[k] # 0
        PROVE  k \notin K!Remembered /\ \E d \in Callers : v4'[d].owner /\ v4'[d].step = "compute" /\ v4'[d].key = k
    <3>1. PICK d \in Callers : v4[d].owner /\ v4[d].step = "compute" /\ v4[d].key = k BY <2>1 DEF K!FlightsInv
    <3>2. v4'[d] = v4[d] BY <3>1
    <3>3. k \notin K!Remembered BY <2>1 DEF K!FlightsInv
    <3> QED BY <3>1, <3>2, <3>3
  <2> QED BY <2>1 DEF K!FlightsInv
<1>6. K!WaitersInv' BY DEF K!WaitersInv
<1> QED BY <1>1, <1>2, <1>3, <1>4, <1>5, <1>6

\* The lookup: what is remembered is used again, what is in flight is joined, anything
\* else is computed, as a flight if there is room.
LEMMA GetKeeps == ASSUME K!CacheInv, NEW c \in Callers, K!Get(c) PROVE K!CacheInv'
<1> USE DEF K!CacheInv, K!WorkInv
<1>0. /\ v1 \in Seq(JourneyKeys) /\ v2 \in [JourneyKeys -> Nat] /\ v3 \in Seq(K!Outcomes)
      /\ v4 \in [Callers -> CallerRecords]
  BY DEF K!Shapes, CallerRecords
<1>1. v4[c].step = "idle" /\ ~v4[c].owner
  <2>1. v4[c].step = "idle" BY DEF K!Get
  <2> QED BY <2>1 DEF K!OwnersInv
<1>2. PICK k \in JourneyKeys :
        \/ K!Found(k) /\ v1' = K!Used(k) /\ UNCHANGED <<v2, v3, v4>>
        \/ /\ ~K!Found(k) /\ v2[k] # 0
           /\ v4' = [v4 EXCEPT ![c] = [step |-> "wait", key |-> k, flight |-> v2[k], owner |-> FALSE,
                                       joined |-> IF v2[k] \in DOMAIN v3 THEN v3[v2[k]] ELSE "none"]]
           /\ UNCHANGED <<v1, v2, v3>>
        \/ /\ ~K!Found(k) /\ v2[k] = 0 /\ K!Room
           /\ v3' = Append(v3, "none") /\ v2' = [v2 EXCEPT ![k] = Len(v3')]
           /\ v4' = [v4 EXCEPT ![c] = [step |-> "compute", key |-> k, flight |-> Len(v3'), owner |-> TRUE,
                                       joined |-> IF Len(v3') \in DOMAIN v3 THEN v3[Len(v3')] ELSE "none"]]
           /\ UNCHANGED v1
        \/ /\ v4' = [v4 EXCEPT ![c] = [step |-> "compute", key |-> k, flight |-> 0, owner |-> FALSE,
                                       joined |-> IF 0 \in DOMAIN v3 THEN v3[0] ELSE "none"]]
           /\ UNCHANGED <<v1, v2, v3>>
  BY DEF K!Get
<1>3. CASE K!Found(k) /\ v1' = K!Used(k) /\ UNCHANGED <<v2, v3, v4>>
  <2>1. Once(v1) BY DEF K!TablesInv, Once
  <2>2. v1' \in Seq(JourneyKeys) /\ Once(v1') /\ Elements(v1') = K!Remembered /\ Len(v1') = Len(v1)
    BY <1>0, <1>3, <2>1, UsedIs, ZenonT(40) DEF K!Found
  <2>3. K!Remembered' = K!Remembered BY <2>2 DEF K!Remembered, Elements
  <2>4. K!Shapes' BY <1>3, <2>2 DEF K!Shapes
  <2>5. K!WorkInv' BY <1>0, <1>3, <2>3, WorkStands
  <2>6. K!TablesInv' BY <1>3, <2>2 DEF K!TablesInv, Once
  <2> QED BY <2>4, <2>5, <2>6
<1>4. CASE /\ ~K!Found(k) /\ v2[k] # 0
           /\ v4' = [v4 EXCEPT ![c] = [step |-> "wait", key |-> k, flight |-> v2[k], owner |-> FALSE,
                                       joined |-> IF v2[k] \in DOMAIN v3 THEN v3[v2[k]] ELSE "none"]]
           /\ UNCHANGED <<v1, v2, v3>>
  <2>1. v2[k] \in DOMAIN v3 /\ v3[v2[k]] = "none"
    <3>1. PICK d \in Callers : v4[d].owner /\ v4[d].step = "compute" /\ v4[d].key = k BY <1>4 DEF K!FlightsInv
    <3> QED BY <3>1 DEF K!OwnersInv
  <2>2. v4'[c] = [step |-> "wait", key |-> k, flight |-> v2[k], owner |-> FALSE, joined |-> "none"]
        /\ \A d \in Callers : d # c => v4'[d] = v4[d]
    BY <1>0, <1>4, <2>1
  <2>3. v4'[c] \in CallerRecords
    <3>1. v2[k] \in Nat BY <1>0
    <3> QED BY <2>2, <3>1 DEF CallerRecords, K!Outcomes
  <2>4. v4' \in [Callers -> CallerRecords] BY <1>0, <1>4, <2>2, <2>3
  <2>5. K!Shapes' BY <1>0, <1>4, <2>4 DEF K!Shapes, CallerRecords
  <2>6. K!Remembered' = K!Remembered BY <1>4 DEF K!Remembered
  <2>7. K!WorkInv' BY <1>0, <1>1, <1>4, <2>1, <2>2, <2>4, <2>6, WorkStands
  <2>8. K!TablesInv' BY <1>4 DEF K!TablesInv
  <2> QED BY <2>5, <2>7, <2>8
<1>5. CASE /\ ~K!Found(k) /\ v2[k] = 0 /\ K!Room
           /\ v3' = Append(v3, "none") /\ v2' = [v2 EXCEPT ![k] = Len(v3')]
           /\ v4' = [v4 EXCEPT ![c] = [step |-> "compute", key |-> k, flight |-> Len(v3'), owner |-> TRUE,
                                       joined |-> IF Len(v3') \in DOMAIN v3 THEN v3[Len(v3')] ELSE "none"]]
           /\ UNCHANGED v1
  <2> DEFINE f == Len(v3) + 1
  <2>0. Len(v3) \in Nat /\ DOMAIN v3 = 1 .. Len(v3) BY <1>0
  <2>1. /\ v3' \in Seq(K!Outcomes) /\ Len(v3') = f /\ DOMAIN v3' = 1 .. f /\ v3'[f] = "none"
        /\ \A i \in DOMAIN v3 : i \in DOMAIN v3' /\ v3'[i] = v3[i]
    BY <1>0, <1>5, <2>0 DEF K!Outcomes
  <2>2. v2' \in [JourneyKeys -> Nat] /\ v2'[k] = f /\ \A j \in JourneyKeys : j # k => v2'[j] = v2[j]
    BY <1>0, <1>5, <2>0, <2>1
  <2>3. v4'[c] = [step |-> "compute", key |-> k, flight |-> f, owner |-> TRUE, joined |-> "none"]
        /\ \A d \in Callers : d # c => v4'[d] = v4[d]
    BY <1>0, <1>5, <2>0, <2>1
  <2>4. f \in Nat /\ f # 0 /\ f \notin DOMAIN v3 BY <2>0
  <2>5. \A i \in DOMAIN v3' : i = f \/ i \in DOMAIN v3 BY <2>0, <2>1
  <2> HIDE DEF f
  <2>6. v4'[c] \in CallerRecords BY <2>3, <2>4 DEF CallerRecords, K!Outcomes
  <2>7. v4' \in [Callers -> CallerRecords] BY <1>0, <1>5, <2>3, <2>6
  <2>8. K!Shapes' BY <1>0, <1>5, <2>1, <2>2, <2>7 DEF K!Shapes, CallerRecords
  <2>9. K!Remembered' = K!Remembered /\ k \notin K!Remembered BY <1>5 DEF K!Remembered, K!Found
  <2>10. ASSUME NEW d \in Callers, v4[d].owner
         PROVE  /\ d # c /\ v4[d].flight # f /\ v4[d].flight \in DOMAIN v3 /\ v3'[v4[d].flight] = "none"
                /\ v4[d].step = "compute" => v4[d].key # k
    <3>1. d # c /\ v4[d].flight \in DOMAIN v3 /\ v3[v4[d].flight] = "none" BY <1>1, <2>10 DEF K!OwnersInv
    <3>2. v4[d].step = "compute" => v2[v4[d].key] = v4[d].flight BY <2>10 DEF K!OwnersInv
    <3> QED BY <1>5, <2>0, <2>1, <2>4, <3>1, <3>2
  <2>11. K!OwnersInv'
    <3>1. ASSUME NEW d \in Callers, v4'[d].owner
          PROVE  /\ v4'[d].step \in {"compute", "publish result", "publish error"}
                 /\ v4'[d].flight \in DOMAIN v3' /\ v3'[v4'[d].flight] = "none"
                 /\ v4'[d].step = "compute" => v2'[v4'[d].key] = v4'[d].flight
      <4>1. CASE d = c
        <5>1. f \in DOMAIN v3' BY <2>1, <2>4
        <5>2. v4'[d] = [step |-> "compute", key |-> k, flight |-> f, owner |-> TRUE, joined |-> "none"] BY <2>3, <4>1
        <5>3. v4'[d].step = "compute" /\ v4'[d].flight = f /\ v4'[d].key = k BY <5>2
        <5> QED BY <2>1, <2>2, <5>1, <5>3
      <4>2. CASE d # c
        <5>1. v4'[d] = v4[d] /\ v4[d].owner /\ v4[d].key \in JourneyKeys BY <1>0, <2>3, <3>1, <4>2 DEF CallerRecords
        <5>2. v4[d].step \in {"compute", "publish result", "publish error"}
              /\ (v4[d].step = "compute" => v2[v4[d].key] = v4[d].flight)
          BY <5>1 DEF K!OwnersInv
        <5> QED BY <2>1, <2>2, <2>10, <5>1, <5>2
      <4> QED BY <4>1, <4>2
    <3> QED BY <3>1 DEF K!OwnersInv
  <2>12. K!OneOwner'
    <3>1. ASSUME NEW d \in Callers, NEW e \in Callers, v4'[d].owner, v4'[e].owner, v4'[d].flight = v4'[e].flight
          PROVE  d = e
      <4>1. CASE d # c /\ e # c
        <5>1. v4'[d] = v4[d] /\ v4'[e] = v4[e] BY <2>3, <4>1
        <5> QED BY <3>1, <5>1 DEF K!OneOwner
      <4>2. CASE d = c /\ e # c
        <5>1. v4'[e] = v4[e] BY <2>3, <4>2
        <5> QED BY <2>3, <2>10, <3>1, <4>2, <5>1
      <4>3. CASE d # c /\ e = c
        <5>1. v4'[d] = v4[d] BY <2>3, <4>3
        <5> QED BY <2>3, <2>10, <3>1, <4>3, <5>1
      <4> QED BY <4>1, <4>2, <4>3
    <3> QED BY <3>1 DEF K!OneOwner
  <2>13. K!PublishersInv'
    <3>1. ASSUME NEW d \in Callers, v4'[d].step \in {"publish result", "publish error"} PROVE v4'[d].owner
      <4>1. v4'[c].step = "compute" BY <2>3
      <4>2. d # c BY <3>1, <4>1
      <4>3. v4'[d] = v4[d] BY <2>3, <4>2
      <4> QED BY <3>1, <4>3 DEF K!PublishersInv
    <3> QED BY <3>1 DEF K!PublishersInv
  <2>14. K!FuturesInv'
    <3>1. ASSUME NEW g \in DOMAIN v3', v3'[g] = "none" PROVE \E d \in Callers : v4'[d].owner /\ v4'[d].flight = g
      <4>1. CASE g = f BY <2>3, <4>1
      <4>2. CASE g # f
        <5>1. g \in DOMAIN v3 /\ v3[g] = "none" BY <2>1, <2>5, <3>1, <4>2
        <5>2. PICK d \in Callers : v4[d].owner /\ v4[d].flight = g BY <5>1 DEF K!FuturesInv
        <5>3. v4'[d] = v4[d] BY <2>3, <2>10, <5>2
        <5> QED BY <5>2, <5>3
      <4> QED BY <4>1, <4>2
    <3> QED BY <3>1 DEF K!FuturesInv
  <2>15. K!FlightsInv'
    <3>1. ASSUME NEW j \in JourneyKeys, v2'[j] # 0
          PROVE  j \notin K!Remembered' /\
                 \E d \in Callers : v4'[d].owner /\ v4'[d].step = "compute" /\ v4'[d].key = j
      <4>1. CASE j = k BY <2>3, <2>9, <4>1
      <4>2. CASE j # k
        <5>1. v2[j] # 0 BY <2>2, <3>1, <4>2
        <5>2. PICK d \in Callers : v4[d].owner /\ v4[d].step = "compute" /\ v4[d].key = j BY <5>1 DEF K!FlightsInv
        <5>3. j \notin K!Remembered BY <5>1 DEF K!FlightsInv
        <5>4. v4'[d] = v4[d] BY <2>3, <2>10, <5>2
        <5> QED BY <2>9, <5>2, <5>3, <5>4
      <4> QED BY <4>1, <4>2
    <3> QED BY <3>1 DEF K!FlightsInv
  <2>16. K!WaitersInv'
    <3>1. ASSUME NEW d \in Callers, v4'[d].step = "wait" PROVE v4'[d].flight \in DOMAIN v3' /\ v4'[d].joined = "none"
      <4>1. v4'[c].step = "compute" BY <2>3
      <4>2. d # c BY <3>1, <4>1
      <4>3. v4'[d] = v4[d] BY <2>3, <4>2
      <4> QED BY <2>1, <3>1, <4>3 DEF K!WaitersInv
    <3> QED BY <3>1 DEF K!WaitersInv
  <2>17. K!TablesInv'
    <3> DEFINE I == {j \in JourneyKeys : v2[j] # 0}
               B == {j \in JourneyKeys : v2'[j] # 0}
    <3>1. B = I \union {k} /\ k \notin I BY <1>5, <2>2, <2>4
    <3>2. K!Cardinality(I) < InflightLimit BY <1>5 DEF K!Room
    <3>3. K!TablesInv' <=> K!Cardinality(B) <= InflightLimit BY <1>5 DEF K!TablesInv
    <3> HIDE DEF I, B
    <3>4. IsFiniteSet(I)
      <4>1. I \subseteq JourneyKeys BY DEF I
      <4> QED BY <4>1, KeysAre, FS_Subset
    <3>5. Cardinality(B) = Cardinality(I) + 1 /\ Cardinality(I) \in Nat
      BY <3>1, <3>4, FS_AddElement, FS_CardinalityType
    <3>6. Cardinality(B) <= InflightLimit BY <3>2, <3>5, KeysAre, Size
    <3> QED BY <3>3, <3>6, Size
  <2> QED BY <2>8, <2>11, <2>12, <2>13, <2>14, <2>15, <2>16, <2>17
<1>6. CASE /\ v4' = [v4 EXCEPT ![c] = [step |-> "compute", key |-> k, flight |-> 0, owner |-> FALSE,
                                       joined |-> IF 0 \in DOMAIN v3 THEN v3[0] ELSE "none"]]
           /\ UNCHANGED <<v1, v2, v3>>
  <2>1. 0 \notin DOMAIN v3 BY <1>0
  <2>2. v4'[c] = [step |-> "compute", key |-> k, flight |-> 0, owner |-> FALSE, joined |-> "none"]
        /\ \A d \in Callers : d # c => v4'[d] = v4[d]
    BY <1>0, <1>6, <2>1
  <2>3. v4'[c] \in CallerRecords BY <2>2 DEF CallerRecords, K!Outcomes
  <2>4. v4' \in [Callers -> CallerRecords] BY <1>0, <1>6, <2>2, <2>3
  <2>5. K!Shapes' BY <1>0, <1>6, <2>4 DEF K!Shapes, CallerRecords
  <2>6. K!Remembered' = K!Remembered BY <1>6 DEF K!Remembered
  <2>7. K!WorkInv' BY <1>0, <1>1, <1>6, <2>2, <2>4, <2>6, WorkStands
  <2>8. K!TablesInv' BY <1>6 DEF K!TablesInv
  <2> QED BY <2>5, <2>7, <2>8
<1> QED BY <1>2, <1>3, <1>4, <1>5, <1>6

LEMMA AtMost == ASSUME NEW a \in Nat, NEW b \in Nat, NEW m \in Nat, a <= b, b <= m PROVE a <= m
OBVIOUS

\* A computation leaves the table of those in flight, before its future is set.
LEMMA FlightLeaves ==
  ASSUME K!CacheInv, NEW c \in Callers, v4[c].step = "compute", v4[c].owner,
         v2' = [v2 EXCEPT ![v4[c].key] = 0], v3' = v3,
         NEW s \in {"publish result", "publish error"}, v4' = [v4 EXCEPT ![c].step = s],
         v1' \in Seq(JourneyKeys), Once(v1'), Len(v1') <= CompletedLimit,
         Elements(v1') \subseteq K!Remembered \union {v4[c].key}
  PROVE  K!CacheInv'
<1> USE DEF K!CacheInv, K!WorkInv
<1> DEFINE k == v4[c].key
<1>0. /\ v2 \in [JourneyKeys -> Nat] /\ v3 \in Seq(K!Outcomes) /\ v4 \in [Callers -> CallerRecords]
      /\ k \in JourneyKeys
  BY DEF K!Shapes, CallerRecords
<1>1. v2' \in [JourneyKeys -> Nat] /\ v2'[k] = 0 /\ \A j \in JourneyKeys : j # k => v2'[j] = v2[j] BY <1>0
<1>2. /\ v4'[c].step = s /\ v4'[c].owner /\ v4'[c].flight = v4[c].flight /\ v4'[c].key = k
      /\ v4'[c].joined = v4[c].joined /\ v4'[c] \in CallerRecords
      /\ \A d \in Callers : d # c => v4'[d] = v4[d]
  BY <1>0 DEF CallerRecords
<1>3. v4' \in [Callers -> CallerRecords] BY <1>0, <1>2
<1>4. K!Shapes' BY <1>0, <1>1, <1>3 DEF K!Shapes, CallerRecords
<1> HIDE DEF k
<1>5. \A d \in Callers : (v4'[d].owner <=> v4[d].owner) /\ v4'[d].flight = v4[d].flight
  <2>1. ASSUME NEW d \in Callers PROVE (v4'[d].owner <=> v4[d].owner) /\ v4'[d].flight = v4[d].flight
    <3>1. CASE d = c BY <1>2, <3>1
    <3>2. CASE d # c
      <4>1. v4'[d] = v4[d] BY <1>2, <3>2
      <4> QED BY <4>1
    <3> QED BY <3>1, <3>2
  <2> QED BY <2>1
<1>6. ASSUME NEW d \in Callers, d # c, v4[d].owner, v4[d].step = "compute" PROVE v4[d].key # k
  <2>1. v4[d].key = k => v4[d].flight = v4[c].flight BY <1>6 DEF K!OwnersInv, k
  <2> QED BY <1>6, <2>1 DEF K!OneOwner
<1>7. K!OwnersInv'
  <2>1. ASSUME NEW d \in Callers, v4'[d].owner
        PROVE  /\ v4'[d].step \in {"compute", "publish result", "publish error"}
               /\ v4'[d].flight \in DOMAIN v3 /\ v3[v4'[d].flight] = "none"
               /\ v4'[d].step = "compute" => v2'[v4'[d].key] = v4'[d].flight
    <3>1. CASE d = c
      <4>1. v4'[d].step = s /\ v4'[d].flight = v4[c].flight BY <1>2, <3>1
      <4>2. v4[c].flight \in DOMAIN v3 /\ v3[v4[c].flight] = "none" BY DEF K!OwnersInv
      <4> QED BY <4>1, <4>2
    <3>2. CASE d # c
      <4>1. v4'[d] = v4[d] /\ v4[d].owner /\ v4[d].key \in JourneyKeys BY <1>0, <1>2, <2>1, <3>2 DEF CallerRecords
      <4>2. v4[d].step \in {"compute", "publish result", "publish error"}
            /\ v4[d].flight \in DOMAIN v3 /\ v3[v4[d].flight] = "none"
            /\ (v4[d].step = "compute" => v2[v4[d].key] = v4[d].flight)
        BY <4>1 DEF K!OwnersInv
      <4> QED BY <1>1, <1>6, <3>2, <4>1, <4>2, ZenonT(40)
    <3> QED BY <3>1, <3>2
  <2> QED BY <2>1 DEF K!OwnersInv
<1>8. K!OneOwner' BY <1>5, ZenonT(40) DEF K!OneOwner
<1>9. K!PublishersInv'
  <2>1. ASSUME NEW d \in Callers, v4'[d].step \in {"publish result", "publish error"} PROVE v4'[d].owner
    <3>1. CASE d = c BY <1>2, <3>1
    <3>2. CASE d # c
      <4>1. v4'[d] = v4[d] BY <1>2, <3>2
      <4> QED BY <2>1, <4>1 DEF K!PublishersInv
    <3> QED BY <3>1, <3>2
  <2> QED BY <2>1 DEF K!PublishersInv
<1>10. K!FuturesInv'
  <2>1. ASSUME NEW f \in DOMAIN v3, v3[f] = "none" PROVE \E d \in Callers : v4'[d].owner /\ v4'[d].flight = f
    <3>1. PICK d \in Callers : v4[d].owner /\ v4[d].flight = f BY <2>1 DEF K!FuturesInv
    <3> QED BY <1>5, <3>1
  <2> QED BY <2>1 DEF K!FuturesInv
<1>11. K!FlightsInv'
  <2>1. ASSUME NEW j \in JourneyKeys, v2'[j] # 0
        PROVE  j \notin K!Remembered' /\
               \E d \in Callers : v4'[d].owner /\ v4'[d].step = "compute" /\ v4'[d].key = j
    <3>1. j # k /\ v2[j] # 0 BY <1>1, <2>1
    <3>2. PICK d \in Callers : v4[d].owner /\ v4[d].step = "compute" /\ v4[d].key = j BY <3>1 DEF K!FlightsInv
    <3>3. j \notin K!Remembered BY <3>1 DEF K!FlightsInv
    <3>4. j \notin K!Remembered' BY <3>1, <3>3 DEF Elements, K!Remembered, k
    <3>5. d # c BY <3>1, <3>2 DEF k
    <3>6. v4'[d] = v4[d] BY <1>2, <3>5
    <3> QED BY <3>2, <3>4, <3>6
  <2> QED BY <2>1 DEF K!FlightsInv
<1>12. K!WaitersInv'
  <2>1. ASSUME NEW d \in Callers, v4'[d].step = "wait" PROVE v4'[d].flight \in DOMAIN v3 /\ v4'[d].joined = "none"
    <3>1. d # c BY <1>2, <2>1
    <3>2. v4'[d] = v4[d] BY <1>2, <3>1
    <3> QED BY <2>1, <3>2 DEF K!WaitersInv
  <2> QED BY <2>1 DEF K!WaitersInv
<1>13. K!TablesInv'
  <2> DEFINE I == {j \in JourneyKeys : v2[j] # 0}
             B == {j \in JourneyKeys : v2'[j] # 0}
  <2>1. B \subseteq I BY <1>1
  <2>2. K!Cardinality(I) <= InflightLimit BY DEF K!TablesInv
  <2>3. K!TablesInv' <=> K!Cardinality(B) <= InflightLimit BY DEF K!TablesInv, Once
  <2>4. I \subseteq JourneyKeys OBVIOUS
  <2> HIDE DEF I, B
  <2>5. IsFiniteSet(I) /\ IsFiniteSet(B) BY <2>1, <2>4, KeysAre, FS_Subset
  <2>6. Cardinality(B) <= Cardinality(I) /\ Cardinality(I) \in Nat /\ Cardinality(B) \in Nat
    BY <2>1, <2>5, FS_Subset, FS_CardinalityType
  <2>7. K!Cardinality(I) = Cardinality(I) BY Size
  <2>8. Cardinality(I) <= InflightLimit BY <2>2, <2>7
  <2>9. InflightLimit \in Nat BY KeysAre
  <2>10. Cardinality(B) <= InflightLimit BY <2>6, <2>8, <2>9, AtMost, Zenon
  <2> QED BY <2>3, <2>10, Size
<1> QED BY <1>4, <1>7, <1>8, <1>9, <1>10, <1>11, <1>12, <1>13

LEMMA RememberKeeps == ASSUME K!CacheInv, NEW c \in Callers, K!Remember(c) PROVE K!CacheInv'
<1> DEFINE k == v4[c].key
<1>0. v1 \in Seq(JourneyKeys) /\ k \in JourneyKeys BY DEF K!CacheInv, K!Shapes
<1>1. Once(v1) BY DEF K!CacheInv, K!TablesInv, Once
<1>2. v1' = K!Trimmed(K!Used(k)) BY DEF K!Remember
<1> HIDE DEF k
<1>3. K!Used(k) \in Seq(JourneyKeys) /\ Once(K!Used(k)) /\ Elements(K!Used(k)) = K!Remembered \union {k}
  BY <1>0, <1>1, UsedIs
<1>4. v1' \in Seq(JourneyKeys) /\ Once(v1') /\ Elements(v1') \subseteq K!Remembered \union {k}
      /\ Len(v1') <= CompletedLimit
  BY <1>2, <1>3, TrimmedIs
<1>5. /\ v4[c].step = "compute" /\ v4[c].owner /\ v2' = [v2 EXCEPT ![v4[c].key] = 0] /\ v3' = v3
      /\ v4' = [v4 EXCEPT ![c].step = "publish result"]
  BY DEF K!Remember, K!Leaves, K!Step
<1> QED BY <1>4, <1>5, FlightLeaves DEF k

LEMMA ComputeFailsKeeps == ASSUME K!CacheInv, NEW c \in Callers, K!ComputeFails(c) PROVE K!CacheInv'
<1>1. /\ v4[c].step = "compute" /\ v4[c].owner /\ v2' = [v2 EXCEPT ![v4[c].key] = 0] /\ v3' = v3
      /\ v4' = [v4 EXCEPT ![c].step = "publish error"] /\ v1' = v1
  BY DEF K!ComputeFails, K!Leaves, K!Step
<1>2. v1' \in Seq(JourneyKeys) BY <1>1 DEF K!CacheInv, K!Shapes
<1>3. Once(v1') /\ Len(v1') <= CompletedLimit BY <1>1 DEF K!CacheInv, K!TablesInv, Once
<1>4. Elements(v1') \subseteq K!Remembered \union {v4[c].key} BY <1>1 DEF Elements, K!Remembered
<1> QED BY <1>1, <1>2, <1>3, <1>4, FlightLeaves

\* A caller that owns nothing goes back to idle.
LEMMA GuestLeaves ==
  ASSUME K!CacheInv, NEW c \in Callers, ~v4[c].owner, v4' = [v4 EXCEPT ![c] = K!Idle], UNCHANGED <<v1, v2, v3>>
  PROVE  K!CacheInv'
<1>0. v4 \in [Callers -> CallerRecords] BY DEF K!CacheInv, K!Shapes, CallerRecords
<1>1. v4'[c] = K!Idle /\ (\A d \in Callers : d # c => v4'[d] = v4[d]) BY <1>0
<1>2. v4' \in [Callers -> CallerRecords] BY <1>0, KeysAre
<1>3. K!Shapes' BY <1>2 DEF K!CacheInv, K!Shapes, CallerRecords
<1>4. K!Remembered' = K!Remembered BY DEF K!Remembered
<1>5. K!WorkInv' BY <1>0, <1>1, <1>2, <1>4, KeysAre, WorkStands DEF K!CacheInv
<1>6. K!TablesInv' BY DEF K!CacheInv, K!TablesInv
<1> QED BY <1>3, <1>5, <1>6 DEF K!CacheInv

LEMMA BypassKeeps == ASSUME K!CacheInv, NEW c \in Callers, K!Bypass(c) PROVE K!CacheInv'
BY GuestLeaves DEF K!Bypass

LEMMA WakeKeeps == ASSUME K!CacheInv, NEW c \in Callers, K!Wake(c) PROVE K!CacheInv'
<1>1. v4[c].step = "wait" BY DEF K!Wake
<1>2. ~v4[c].owner BY <1>1 DEF K!CacheInv, K!WorkInv, K!OwnersInv
<1> QED BY <1>2, GuestLeaves DEF K!Wake

LEMMA PublishKeeps == ASSUME K!CacheInv, NEW c \in Callers, K!Publish(c) PROVE K!CacheInv'
<1> USE DEF K!CacheInv, K!WorkInv
<1> DEFINE f == v4[c].flight
<1>0. v3 \in Seq(K!Outcomes) /\ v4 \in [Callers -> CallerRecords] BY DEF K!Shapes, CallerRecords
<1>1. v4[c].step \in {"publish result", "publish error"} BY DEF K!Publish
<1>2. v4[c].owner /\ f \in DOMAIN v3 BY <1>1 DEF K!PublishersInv, K!OwnersInv
<1>3. PICK what \in {"result", "error"} : v3' = [v3 EXCEPT ![f] = what] BY DEF K!Publish, K!Settle, K!Tells
<1>4. v4' = [v4 EXCEPT ![c] = K!Idle] /\ UNCHANGED <<v1, v2>> BY DEF K!Publish
<1>5. v3' \in Seq(K!Outcomes) /\ DOMAIN v3' = DOMAIN v3 /\ v3'[f] # "none" /\ \A g \in DOMAIN v3 : g # f => v3'[g] = v3[g]
  BY <1>0, <1>2, <1>3 DEF K!Outcomes
<1>6. v4'[c] = K!Idle /\ (\A d \in Callers : d # c => v4'[d] = v4[d]) BY <1>0, <1>4
<1>7. v4' \in [Callers -> CallerRecords] BY <1>0, <1>4, KeysAre
<1>8. K!Shapes' BY <1>4, <1>5, <1>7 DEF K!Shapes, CallerRecords
<1>9. ASSUME NEW d \in Callers, v4'[d].owner PROVE d # c /\ v4'[d] = v4[d] /\ v4[d].flight # f
  <2>1. d # c BY <1>6, <1>9, KeysAre
  <2>2. v4'[d] = v4[d] BY <1>6, <2>1
  <2> QED BY <1>2, <1>9, <2>1, <2>2 DEF K!OneOwner
<1>10. K!OwnersInv'
  <2>1. ASSUME NEW d \in Callers, v4'[d].owner
        PROVE  /\ v4'[d].step \in {"compute", "publish result", "publish error"}
               /\ v4'[d].flight \in DOMAIN v3' /\ v3'[v4'[d].flight] = "none"
               /\ v4'[d].step = "compute" => v2'[v4'[d].key] = v4'[d].flight
    <3>1. v4'[d] = v4[d] /\ v4[d].flight # f BY <1>9, <2>1
    <3>2. /\ v4[d].step \in {"compute", "publish result", "publish error"}
          /\ v4[d].flight \in DOMAIN v3 /\ v3[v4[d].flight] = "none"
          /\ v4[d].step = "compute" => v2[v4[d].key] = v4[d].flight
      BY <2>1, <3>1 DEF K!OwnersInv
    <3> HIDE DEF f
    <3> QED BY <1>4, <1>5, <3>1, <3>2
  <2> QED BY <2>1 DEF K!OwnersInv
<1>11. K!OneOwner'
  <2>1. ASSUME NEW d \in Callers, NEW e \in Callers, v4'[d].owner, v4'[e].owner, v4'[d].flight = v4'[e].flight
        PROVE  d = e
    <3>1. v4'[d] = v4[d] /\ v4'[e] = v4[e] BY <1>9, <2>1
    <3> QED BY <2>1, <3>1 DEF K!OneOwner
  <2> QED BY <2>1 DEF K!OneOwner
<1>12. K!PublishersInv'
  <2>1. ASSUME NEW d \in Callers, v4'[d].step \in {"publish result", "publish error"} PROVE v4'[d].owner
    <3>1. d # c BY <1>6, <2>1, KeysAre
    <3>2. v4'[d] = v4[d] BY <1>6, <3>1
    <3> QED BY <2>1, <3>2 DEF K!PublishersInv
  <2> QED BY <2>1 DEF K!PublishersInv
<1>13. K!FuturesInv'
  <2>1. ASSUME NEW g \in DOMAIN v3', v3'[g] = "none" PROVE \E d \in Callers : v4'[d].owner /\ v4'[d].flight = g
    <3>1. g # f /\ g \in DOMAIN v3 /\ v3[g] = "none" BY <1>5, <2>1
    <3>2. PICK d \in Callers : v4[d].owner /\ v4[d].flight = g BY <3>1 DEF K!FuturesInv
    <3>3. d # c BY <3>1, <3>2
    <3>4. v4'[d] = v4[d] BY <1>6, <3>3
    <3> QED BY <3>2, <3>4
  <2> QED BY <2>1 DEF K!FuturesInv
<1>14. K!FlightsInv'
  <2>1. ASSUME NEW j \in JourneyKeys, v2'[j] # 0
        PROVE  j \notin K!Remembered' /\
               \E d \in Callers : v4'[d].owner /\ v4'[d].step = "compute" /\ v4'[d].key = j
    <3>1. v2[j] # 0 /\ K!Remembered' = K!Remembered BY <1>4, <2>1 DEF K!Remembered
    <3>2. PICK d \in Callers : v4[d].owner /\ v4[d].step = "compute" /\ v4[d].key = j BY <3>1 DEF K!FlightsInv
    <3>3. j \notin K!Remembered BY <3>1 DEF K!FlightsInv
    <3>4. d # c BY <1>1, <3>2
    <3>5. v4'[d] = v4[d] BY <1>6, <3>4
    <3> QED BY <3>1, <3>2, <3>3, <3>5
  <2> QED BY <2>1 DEF K!FlightsInv
<1>15. K!WaitersInv'
  <2>1. ASSUME NEW d \in Callers, v4'[d].step = "wait" PROVE v4'[d].flight \in DOMAIN v3' /\ v4'[d].joined = "none"
    <3>1. d # c BY <1>6, <2>1, KeysAre
    <3>2. v4'[d] = v4[d] BY <1>6, <3>1
    <3> QED BY <1>5, <2>1, <3>2 DEF K!WaitersInv
  <2> QED BY <2>1 DEF K!WaitersInv
<1>16. K!TablesInv' BY <1>4 DEF K!TablesInv
<1> QED BY <1>8, <1>10, <1>11, <1>12, <1>13, <1>14, <1>15, <1>16

LEMMA CacheStands == ASSUME K!CacheInv, UNCHANGED <<v1, v2, v3, v4>> PROVE K!CacheInv'
<1> USE DEF K!CacheInv, K!WorkInv
<1>1. K!Shapes' BY DEF K!Shapes
<1>2. K!OwnersInv' /\ K!OneOwner' /\ K!PublishersInv' BY DEF K!OwnersInv, K!OneOwner, K!PublishersInv
<1>3. K!FuturesInv' BY DEF K!FuturesInv
<1>4. K!FlightsInv' BY DEF K!FlightsInv, K!Remembered
<1>5. K!WaitersInv' BY DEF K!WaitersInv
<1>6. K!TablesInv' BY DEF K!TablesInv
<1> QED BY <1>1, <1>2, <1>3, <1>4, <1>5, <1>6

LEMMA CacheStep == ASSUME K!CacheInv, K!Next PROVE K!CacheInv'
<1>1. CASE \E c \in Callers : K!Get(c) \/ K!Bypass(c) \/ K!Remember(c) \/ K!ComputeFails(c) \/ K!Publish(c) \/ K!Wake(c)
  <2>1. PICK c \in Callers : K!Get(c) \/ K!Bypass(c) \/ K!Remember(c) \/ K!ComputeFails(c) \/ K!Publish(c) \/ K!Wake(c)
    BY <1>1
  <2> QED BY <2>1, GetKeeps, BypassKeeps, RememberKeeps, ComputeFailsKeeps, PublishKeeps, WakeKeeps
<1>2. CASE UNCHANGED K!vars
  <2>1. UNCHANGED <<v1, v2, v3, v4>> BY <1>2 DEF K!vars
  <2> QED BY <2>1, CacheStands
<1> QED BY <1>1, <1>2 DEF K!Next

\* What the run's properties say follows.
LEMMA CacheSafe == K!CacheInv => K!NoOldFailure /\ K!WaitersServed /\ K!ComputedOnce
<1> SUFFICES ASSUME K!CacheInv PROVE K!NoOldFailure /\ K!WaitersServed /\ K!ComputedOnce OBVIOUS
<1> USE DEF K!CacheInv, K!WorkInv
<1>1. K!NoOldFailure BY DEF K!NoOldFailure, K!WaitersInv
<1>2. K!WaitersServed BY DEF K!WaitersServed, K!WaitersInv, K!FuturesInv
<1>3. ASSUME NEW k \in JourneyKeys, v2[k] # 0
      PROVE  k \notin K!Remembered /\
             \E c \in Callers : {d \in Callers : v4[d].owner /\ v4[d].step = "compute" /\ v4[d].key = k} = {c}
  <2>1. PICK c \in Callers : v4[c].owner /\ v4[c].step = "compute" /\ v4[c].key = k BY <1>3 DEF K!FlightsInv
  <2>2. ASSUME NEW d \in Callers, v4[d].owner, v4[d].step = "compute", v4[d].key = k PROVE d = c
    <3>0. v2[v4[c].key] = v4[c].flight /\ v2[v4[d].key] = v4[d].flight BY <2>1, <2>2 DEF K!OwnersInv
    <3>1. v4[d].flight = v4[c].flight BY <2>1, <2>2, <3>0
    <3> QED BY <2>1, <2>2, <3>1 DEF K!OneOwner
  <2>3. {d \in Callers : v4[d].owner /\ v4[d].step = "compute" /\ v4[d].key = k} = {c} BY <2>1, <2>2
  <2>4. k \notin K!Remembered BY <1>3 DEF K!FlightsInv
  <2> QED BY <2>3, <2>4
<1>4. K!ComputedOnce BY <1>3 DEF K!ComputedOnce, K!TablesInv
<1> QED BY <1>1, <1>2, <1>4

--------------------------------------------------------------------------------
(* LiveStatus: v1 now, v2 live, v3 history, v4 up, v5 beating, v6 readable,        *)
(* v7 since, v8 cached, v9 panel, v10 troubles                                     *)

\* Among b numbers in a row is a multiple of b.
LEMMA MultipleOf == ASSUME NEW b \in Nat \ {0}, NEW q \in Nat PROVE (b * q) % b = 0
<1>1. b * q \in Nat OBVIOUS
<1> DEFINE p == (b * q) \div b
           r == (b * q) % b
<1>2. p \in Int /\ r \in 0 .. b - 1 /\ b * q = b * p + r BY <1>1, Z3
<1> HIDE DEF p, r
<1>3. b * (q - p) = r BY <1>2, Z3
<1>4. q - p >= 1 => b * (q - p) >= b BY <1>2, Z3
<1>5. q - p <= -1 => b * (q - p) <= -b BY <1>2, Z3
<1>6. q - p = 0 => r = 0
  <2>1. q - p = 0 => b * (q - p) = 0 OBVIOUS
  <2> QED BY <1>3, <2>1
<1>7. q - p >= 1 \/ q - p <= -1 \/ q - p = 0 BY <1>2
<1> QED BY <1>2, <1>3, <1>4, <1>5, <1>6, <1>7 DEF r

LEMMA Multiple ==
  ASSUME NEW t \in Nat, NEW b \in Nat \ {0}
  PROVE  \E m \in Nat : m % b = 0 /\ m <= t /\ t - m < b
<1> DEFINE q == t \div b
<1>1. q \in Nat /\ b * q <= t /\ t - b * q < b BY Z3
<1> HIDE DEF q
<1>2. b * q \in Nat BY <1>1
<1>3. (b * q) % b = 0 BY <1>1, MultipleOf
<1> QED BY <1>1, <1>2, <1>3

LEMMA StatusConstants ==
  /\ LiveTtl \in Nat \ {0} /\ HistoryTtl \in Nat \ {0} /\ Beat \in Nat \ {0} /\ HistoryHour \in Nat \ {0}
  /\ SilentAfter \in Nat /\ SilentAfter >= LiveTtl + Beat /\ StaleAfter \in Nat
BY StatusHolds DEF Z!StatusAssumption

LEMMA StatusShapes ==
  ASSUME Z!Shapes
  PROVE  /\ v1 \in Nat /\ v5 \in Nat /\ v5 <= v1 /\ v7 \in Nat /\ v7 <= v1
         /\ v4 \in BOOLEAN /\ v6 \in BOOLEAN
         /\ v2 \in {Z!Missing, Z!Malformed} \union Z!Heartbeats
         /\ v3 \in {Z!Missing} \union Z!Histories
         /\ v8 \in [live : Z!Copies(Z!Heartbeats), history : Z!Copies(Z!Histories)]
         /\ v8.live \in Z!Copies(Z!Heartbeats) /\ v8.history \in Z!Copies(Z!Histories)
<1>1. v1 \in Nat /\ v5 \in 0 .. v1 /\ v7 \in 0 .. v1 BY DEF Z!Shapes
<1>2. v5 \in Nat /\ v5 <= v1 /\ v7 \in Nat /\ v7 <= v1 BY <1>1
<1>3. v8 \in [live : Z!Copies(Z!Heartbeats), history : Z!Copies(Z!Histories)] BY DEF Z!Shapes
<1>4. v8.live \in Z!Copies(Z!Heartbeats) /\ v8.history \in Z!Copies(Z!Histories) BY <1>3
<1> QED BY <1>1, <1>2, <1>3, <1>4 DEF Z!Shapes

\* What an object, and a copy, can be.
LEMMA Kinds ==
  /\ Z!Missing.kind = "missing" /\ Z!Malformed.kind = "malformed" /\ Z!None.kind = "none" /\ Z!Never = -1
  /\ \A h \in Z!Heartbeats : h.kind = "heartbeat" /\ h.at \in Nat /\ h # Z!None /\ h # Z!Missing /\ h # Z!Malformed
  /\ \A h \in Z!Histories : h.kind = "history" /\ h.end \in Nat /\ h # Z!None /\ h # Z!Missing /\ h # Z!Malformed
BY DEF Z!Missing, Z!Malformed, Z!None, Z!Never, Z!Heartbeats, Z!Histories

LEMMA CopyIs ==
  ASSUME NEW objects, NEW c \in Z!Copies(objects)
  PROVE  /\ c.fetched \in {-1} \union Nat /\ c.read \in {-1} \union Nat /\ c.value \in {Z!None} \union objects
         /\ c.fetched \in Int /\ c.read \in Int /\ c.fetched >= -1 /\ c.read >= -1
BY DEF Z!Copies, Z!Never

\* One read of an object: the copy is as it was, or of the object now, or a failure.
ReadAs(objects, c, ttl, object, d) ==
  /\ d \in Z!Copies(objects)
  /\ \/ d = c /\ ~Z!Due(c, ttl)
     \/ /\ Z!Due(c, ttl) /\ v6 /\ d.fetched = v1 /\ d.read = v1
        /\ d.value = IF object \in {Z!Missing, Z!Malformed} THEN Z!None ELSE object
     \/ /\ Z!Due(c, ttl) /\ ~v6 /\ d.fetched = v1 /\ d.read = c.read
        /\ Z!TooOld(c, ttl) => d.value = Z!None /\ d.state = "unavailable"
        /\ ~Z!TooOld(c, ttl) => d.value = c.value /\ d.state = c.state

LEMMA Read ==
  ASSUME NEW objects, NEW c \in Z!Copies(objects), NEW object \in {Z!Missing, Z!Malformed} \union objects,
         NEW ttl \in Nat, NEW d, d = Z!Refreshed(c, ttl, object), v1 \in Nat,
         \A o \in objects : o # Z!Missing /\ o # Z!Malformed
  PROVE  ReadAs(objects, c, ttl, object, d)
<1> USE DEF ReadAs
<1>1. CASE ~Z!Due(c, ttl) BY <1>1 DEF Z!Refreshed
<1>2. CASE Z!Due(c, ttl) /\ v6
  <2> DEFINE value == IF object \in {Z!Missing, Z!Malformed} THEN Z!None ELSE object
             state == CASE object = Z!Missing -> "missing" [] object = Z!Malformed -> "unavailable" [] OTHER -> "ok"
  <2>1. d = [fetched |-> v1, read |-> v1, value |-> value, state |-> state] BY <1>2 DEF Z!Refreshed, Z!Answer
  <2>2. state \in {"ok", "missing", "unavailable"}
    <3>1. CASE object = Z!Missing
      <4>1. object # Z!Malformed BY <3>1, Kinds
      <4> QED BY <3>1, <4>1
    <3>2. CASE object = Z!Malformed
      <4>1. object # Z!Missing BY <3>2, Kinds
      <4> QED BY <3>2, <4>1
    <3>3. CASE object # Z!Missing /\ object # Z!Malformed BY <3>3
    <3> QED BY <3>1, <3>2, <3>3
  <2>3. value \in {Z!None} \union objects OBVIOUS
  <2> HIDE DEF value, state
  <2>4. d \in Z!Copies(objects) BY <2>1, <2>2, <2>3 DEF Z!Copies
  <2>5. d.fetched = v1 /\ d.read = v1 /\ d.value = value BY <2>1
  <2> QED BY <1>2, <2>4, <2>5 DEF value
<1>3. CASE Z!Due(c, ttl) /\ ~v6
  <2>1. d = Z!Failed(c, ttl) BY <1>3 DEF Z!Refreshed
  <2>2. CASE Z!TooOld(c, ttl)
    <3>1. d = [c EXCEPT !.fetched = v1, !.value = Z!None, !.state = "unavailable"] BY <2>1, <2>2 DEF Z!Failed
    <3> QED BY <1>3, <2>2, <3>1 DEF Z!Copies
  <2>3. CASE ~Z!TooOld(c, ttl)
    <3>1. d = [c EXCEPT !.fetched = v1] BY <2>1, <2>3 DEF Z!Failed
    <3> QED BY <1>3, <2>3, <3>1 DEF Z!Copies
  <2> QED BY <2>2, <2>3
<1> QED BY <1>1, <1>2, <1>3

\* The heartbeat in the bucket is no older than a beat, of a poller that has beaten so long.
LEMMA BeatSeen ==
  ASSUME Z!StatusInv, v4, NEW t \in Nat, t <= v1, t - v5 >= Beat
  PROVE  \E m \in Nat : m % Beat = 0 /\ m \in v5 + 1 .. t /\ t - m < Beat
<1>1. PICK m \in Nat : m % Beat = 0 /\ m <= t /\ t - m < Beat BY Multiple, StatusConstants
<1>2. v5 \in Nat BY StatusShapes DEF Z!StatusInv
<1>3. m \in v5 + 1 .. t BY <1>1, <1>2, StatusConstants
<1> QED BY <1>1, <1>3

LEMMA LiveViewKeeps == ASSUME Z!StatusInv, Z!LiveView PROVE Z!StatusInv'
<1> USE DEF Z!StatusInv
<1>0. /\ v1 \in Nat /\ v5 \in Nat /\ v5 <= v1 /\ v7 \in Nat /\ v7 <= v1 /\ v4 \in BOOLEAN /\ v6 \in BOOLEAN
      /\ v2 \in {Z!Missing, Z!Malformed} \union Z!Heartbeats /\ v3 \in {Z!Missing} \union Z!Histories
      /\ v8.live \in Z!Copies(Z!Heartbeats) /\ v8.history \in Z!Copies(Z!Histories)
  BY StatusShapes
<1>1. PICK l, h :
        /\ l = Z!Refreshed(v8.live, LiveTtl, v2)
        /\ h = (IF l.state = "unavailable" THEN v8.history ELSE Z!Refreshed(v8.history, HistoryTtl, v3))
        /\ v8' = [live |-> l, history |-> h]
        /\ v9' = (IF l.state = "unavailable" THEN "unavailable" ELSE Z!Overall(l.value, h.value))
        /\ UNCHANGED <<v1, v2, v3, v4, v5, v6, v7, v10>>
  BY DEF Z!LiveView
<1> DEFINE c == v8.live
<1>2. /\ l \in Z!Copies(Z!Heartbeats)
      /\ \/ l = c /\ ~Z!Due(c, LiveTtl)
         \/ /\ Z!Due(c, LiveTtl) /\ v6 /\ l.fetched = v1 /\ l.read = v1
            /\ l.value = IF v2 \in {Z!Missing, Z!Malformed} THEN Z!None ELSE v2
         \/ /\ Z!Due(c, LiveTtl) /\ ~v6 /\ l.fetched = v1 /\ l.read = c.read
            /\ Z!TooOld(c, LiveTtl) => l.value = Z!None /\ l.state = "unavailable"
            /\ ~Z!TooOld(c, LiveTtl) => l.value = c.value /\ l.state = c.state
  <2> DEFINE objects == Z!Heartbeats
  <2>1. \A o \in objects : o # Z!Missing /\ o # Z!Malformed BY Kinds
  <2>2. LiveTtl \in Nat /\ l = Z!Refreshed(c, LiveTtl, v2) /\ c \in Z!Copies(objects)
    BY <1>0, <1>1, StatusConstants
  <2>3. v2 \in {Z!Missing, Z!Malformed} \union objects /\ v1 \in Nat BY <1>0
  <2> HIDE DEF objects, c
  <2>4. ReadAs(objects, c, LiveTtl, v2, l)
    BY <2>1, <2>2, <2>3, Read
  <2> QED BY <2>4 DEF objects, ReadAs
<1>3. /\ h \in Z!Copies(Z!Histories)
      /\ h.value # Z!None => h.value = v8.history.value \/ h.value = v3
  <2>1. CASE l.state = "unavailable" BY <1>0, <1>1, <2>1
  <2>2. CASE l.state # "unavailable"
    <3>1. h = Z!Refreshed(v8.history, HistoryTtl, v3) BY <1>1, <2>2
    <3>2. /\ h \in Z!Copies(Z!Histories)
          /\ \/ h = v8.history
             \/ h.value = IF v3 \in {Z!Missing, Z!Malformed} THEN Z!None ELSE v3
             \/ h.value = Z!None \/ h.value = v8.history.value
      <4> DEFINE objects == Z!Histories
                 g == v8.history
      <4>1. \A o \in objects : o # Z!Missing /\ o # Z!Malformed BY Kinds
      <4>2. HistoryTtl \in Nat /\ h = Z!Refreshed(g, HistoryTtl, v3) /\ g \in Z!Copies(objects)
        BY <1>0, <3>1, StatusConstants
      <4>3. v3 \in {Z!Missing, Z!Malformed} \union objects /\ v1 \in Nat BY <1>0
      <4> HIDE DEF objects, g
      <4>4. ReadAs(objects, g, HistoryTtl, v3, h) BY <4>1, <4>2, <4>3, Read
      <4> QED BY <4>4 DEF objects, g, ReadAs
    <3> QED BY <3>2
  <2> QED BY <2>1, <2>2
<1>4. v8'.live = l /\ v8'.history = h BY <1>1
<1>5. /\ c.fetched \in Int /\ c.read \in Int /\ c.fetched >= -1 /\ c.read >= -1
      /\ l.fetched \in Int /\ l.read \in Int /\ l.fetched >= -1 /\ l.read >= -1
      /\ l.value \in {Z!None} \union Z!Heartbeats /\ h.value \in {Z!None} \union Z!Histories
      /\ c.value \in {Z!None} \union Z!Heartbeats /\ v8.history.value \in {Z!None} \union Z!Histories
  BY <1>0, <1>2, <1>3, CopyIs
<1>6. c.read <= c.fetched /\ c.fetched <= v1 /\ (c.value # Z!None => c.value.at <= v1 /\ (v4 \/ c.value.at <= v5))
  BY DEF Z!ReadInv
<1>7. v2 \in Z!Heartbeats => v2.at <= v1 /\ (v4 \/ v2.at <= v5) BY Kinds DEF Z!BeatInv
<1>8. Z!Shapes' BY <1>1, <1>2, <1>3 DEF Z!Shapes
<1>9. Z!BeatInv' BY <1>1 DEF Z!BeatInv
<1>10. /\ l.read <= l.fetched /\ l.fetched <= v1
       /\ l.value # Z!None => l.value.at <= v1 /\ (v4 \/ l.value.at <= v5)
  <2>1. l.read <= l.fetched /\ l.fetched <= v1 BY <1>0, <1>2, <1>5, <1>6
  <2>2. l.value # Z!None => l.value = c.value \/ (v2 \in Z!Heartbeats /\ l.value = v2) BY <1>0, <1>2
  <2> QED BY <1>6, <1>7, <2>1, <2>2
<1>11. Z!ReadInv' BY <1>1, <1>4, <1>10 DEF Z!ReadInv
<1>12. ASSUME v6, v4, l.fetched > v7, NEW t \in v5 + 1 .. l.fetched, t % Beat = 0
       PROVE  l.value # Z!None /\ l.value.at >= t
  <2>1. CASE l = c BY <1>12, <2>1 DEF Z!FreshInv
  <2>2. CASE l.fetched = v1 /\ l.value = IF v2 \in {Z!Missing, Z!Malformed} THEN Z!None ELSE v2
    <3>1. v2.kind = "heartbeat" /\ v2.at >= t BY <1>12, <2>2 DEF Z!BeatInv
    <3>2. v2 \notin {Z!Missing, Z!Malformed} BY <3>1, Kinds
    <3> QED BY <1>0, <2>2, <3>1, <3>2, Kinds
  <2> QED BY <1>2, <1>12, <2>1, <2>2
<1>13. Z!FreshInv' BY <1>1, <1>4, <1>12 DEF Z!FreshInv
<1>14. ASSUME ~v6
       PROVE  /\ l.read <= v7 /\ (l.fetched - v7 > 2 * LiveTtl + SilentAfter => l.state = "unavailable")
              /\ l.state # "unavailable" => v1 - v7 <= 3 * LiveTtl + SilentAfter
  <2>1. c.read <= v7 /\ (c.fetched - v7 > 2 * LiveTtl + SilentAfter => c.state = "unavailable")
    BY <1>14 DEF Z!FailingInv
  <2>2. CASE l = c /\ ~Z!Due(c, LiveTtl)
    <3>1. v1 - c.fetched < LiveTtl BY <1>0, <1>5, <2>2, StatusConstants DEF Z!Due
    <3> QED BY <1>0, <1>5, <2>1, <2>2, <3>1, StatusConstants
  <2>3. CASE /\ l.fetched = v1 /\ l.read = c.read
             /\ Z!TooOld(c, LiveTtl) => l.value = Z!None /\ l.state = "unavailable"
    <3>1. v1 - v7 > 2 * LiveTtl + SilentAfter => l.state = "unavailable"
      <4> SUFFICES ASSUME v1 - v7 > 2 * LiveTtl + SilentAfter PROVE Z!TooOld(c, LiveTtl) BY <2>3
      <4>1. v1 - c.read > 2 * LiveTtl + SilentAfter BY <1>0, <1>5, <2>1, StatusConstants
      <4> QED BY <4>1 DEF Z!TooOld
    <3> QED BY <1>0, <2>1, <2>3, <3>1, StatusConstants
  <2> QED BY <1>2, <1>14, <2>2, <2>3
<1>15. Z!FailingInv' BY <1>1, <1>4, <1>14 DEF Z!FailingInv
<1>16. h.value # Z!None => v3.kind = "history" /\ h.value.end <= v3.end
  <2>1. CASE h.value = v8.history.value BY <2>1 DEF Z!HistoryInv
  <2>2. CASE h.value = v3 /\ h.value # Z!None
    <3>1. v3 \in Z!Histories BY <1>5, <2>2
    <3> QED BY <2>2, <3>1, Kinds
  <2> QED BY <1>3, <2>1, <2>2
<1>17. Z!HistoryInv' BY <1>1, <1>4, <1>16 DEF Z!HistoryInv
\* The panel.
<1>18. v9' \in {"offline", "problems", "online"} => l.state # "unavailable" /\ v9' = Z!Overall(l.value, h.value)
  BY <1>1
<1>19. Z!OfflineEarned'
  <2> SUFFICES ASSUME v9' = "offline", v4, v6, v1 - v5 >= LiveTtl + Beat, v1 - v7 >= LiveTtl PROVE FALSE
    BY <1>0, <1>1, StatusConstants DEF Z!OfflineEarned
  <2>1. Z!Silent(l.value) BY <1>18 DEF Z!Overall
  <2>2. CASE l.fetched = v1
    <3>1. v1 - v5 >= Beat BY <1>0, StatusConstants
    <3>2. PICK m \in Nat : m % Beat = 0 /\ m \in v5 + 1 .. v1 /\ v1 - m < Beat BY <1>0, <3>1, BeatSeen
    <3>3. l.fetched > v7 BY <1>0, <2>2, StatusConstants
    <3>4. l.value # Z!None /\ l.value.at >= m BY <1>12, <2>2, <3>2, <3>3
    <3>5. l.value.at \in Nat BY <1>5, <3>4, Kinds
    <3>6. v1 - l.value.at <= SilentAfter BY <1>0, <3>2, <3>4, <3>5, StatusConstants
    <3> QED BY <1>0, <2>1, <3>4, <3>5, <3>6, StatusConstants DEF Z!Silent
  <2>3. CASE l = c /\ ~Z!Due(c, LiveTtl)
    <3> DEFINE f == l.fetched
    <3>1. f # -1 /\ v1 - f < LiveTtl BY <1>0, <1>5, <2>3, StatusConstants DEF Z!Due, Z!Never
    <3>2. f \in Nat /\ f <= v1 /\ f > v7 /\ f - v5 >= Beat BY <1>0, <1>5, <1>10, <3>1, StatusConstants
    <3> HIDE DEF f
    <3>3. PICK m \in Nat : m % Beat = 0 /\ m \in v5 + 1 .. f /\ f - m < Beat BY <3>2, BeatSeen
    <3>4. l.value # Z!None /\ l.value.at >= m BY <1>12, <3>2, <3>3 DEF f
    <3>5. l.value.at \in Nat BY <1>5, <3>4, Kinds
    <3>6. v1 - l.value.at <= SilentAfter BY <1>0, <3>1, <3>2, <3>3, <3>4, <3>5, StatusConstants
    <3> QED BY <1>0, <2>1, <3>4, <3>5, <3>6, StatusConstants DEF Z!Silent
  <2> QED BY <1>2, <2>2, <2>3
<1>20. Z!FailureEnds'
  <2>1. l.state = "unavailable" => v9' = "unavailable" BY <1>1
  <2> QED BY <1>1, <1>14, <2>1 DEF Z!FailureEnds
<1>21. Z!OutageSeen'
  <2> SUFFICES ASSUME v9' \in {"online", "problems"}, ~v4 PROVE v1 - v5 <= SilentAfter BY <1>1 DEF Z!OutageSeen
  <2>1. ~Z!Silent(l.value) BY <1>18 DEF Z!Overall
  <2>2. l.value # Z!None /\ ~(v1 - l.value.at > SilentAfter) BY <2>1 DEF Z!Silent
  <2>3. l.value.at \in Nat /\ l.value.at <= v5 BY <1>5, <1>10, <2>2, Kinds
  <2> QED BY <1>0, <2>2, <2>3, StatusConstants
<1>22. Z!IncidentFades'
  <2> SUFFICES ASSUME v9' = "problems", l.value.report = "full" PROVE v3.kind = "history" /\ v1 - v3.end <= StaleAfter
    BY <1>1, <1>4 DEF Z!IncidentFades
  <2>1. Z!Problem(l.value, h.value) \/ Z!Ongoing(h.value) BY <1>18 DEF Z!Overall
  <2>2. Z!Ongoing(h.value) BY <2>1 DEF Z!Problem
  <2>3. h.value # Z!None /\ ~(v1 - h.value.end > StaleAfter) BY <2>2 DEF Z!Ongoing, Z!Stale
  <2>4. v3.kind = "history" /\ h.value.end <= v3.end BY <1>16, <2>3
  <2>5. h.value.end \in Nat /\ v3.end \in Nat BY <1>0, <1>5, <2>3, <2>4, Kinds
  <2> QED BY <1>0, <2>3, <2>4, <2>5, StatusConstants
<1> QED BY <1>8, <1>9, <1>11, <1>13, <1>15, <1>17, <1>19, <1>20, <1>21, <1>22 DEF Z!PanelInv

LEMMA NothingBetween == ASSUME NEW b \in Nat, NEW f \in Int, f <= b, NEW t \in b + 1 .. f PROVE FALSE
OBVIOUS

\* Steps other than a look at the page: the copies stand.
LEMMA StatusMoved ==
  ASSUME Z!StatusInv, UNCHANGED v8, v1' \in Nat, v1' >= v1, v5' \in Nat, v5' <= v1', v7' \in Nat, v7' <= v1',
         v4' \in BOOLEAN, v6' \in BOOLEAN,
         v2' \in {Z!Missing, Z!Malformed} \union Z!Heartbeats, v3' \in {Z!Missing} \union Z!Histories,
         Z!BeatInv', v5 <= v5', v4' /\ ~v4 => v5' = v1', ~v4' => v5' = v1' \/ (~v4 /\ v5' = v5),
         v6' /\ ~v6 => v7' = v1', v6' = v6 => v7' = v7, ~v6' /\ v6 => v7' = v1',
         v3' = v3 \/ (v3'.kind = "history" /\ (v3.kind = "history" => v3.end <= v3'.end)),
         Z!PanelInv'
  PROVE  Z!StatusInv'
<1> USE DEF Z!StatusInv
<1>0. /\ v1 \in Nat /\ v5 \in Nat /\ v5 <= v1 /\ v7 \in Nat /\ v7 <= v1 /\ v4 \in BOOLEAN /\ v6 \in BOOLEAN
      /\ v3 \in {Z!Missing} \union Z!Histories
      /\ v8.live \in Z!Copies(Z!Heartbeats) /\ v8.history \in Z!Copies(Z!Histories)
  BY StatusShapes
<1> DEFINE c == v8.live
<1>1. /\ c.fetched \in Int /\ c.read \in Int /\ c.value \in {Z!None} \union Z!Heartbeats
      /\ v8.history.value \in {Z!None} \union Z!Histories
  BY <1>0, CopyIs
<1>2. c.read <= c.fetched /\ c.fetched <= v1 /\ (c.value # Z!None => c.value.at <= v1 /\ (v4 \/ c.value.at <= v5))
  BY DEF Z!ReadInv
<1>3. Z!Shapes' BY DEF Z!Shapes
<1>4. Z!ReadInv'
  <2>1. c.fetched <= v1' BY <1>0, <1>1, <1>2
  <2>2. ASSUME c.value # Z!None PROVE c.value.at <= v1' /\ (v4' \/ c.value.at <= v5')
    <3>1. c.value.at \in Nat BY <1>1, <2>2, Kinds
    <3>2. c.value.at <= v1 /\ (v4 \/ c.value.at <= v5) BY <1>2, <2>2
    <3> QED BY <1>0, <3>1, <3>2
  <2> QED BY <1>2, <2>1, <2>2 DEF Z!ReadInv
<1>5. Z!FreshInv'
  <2> SUFFICES ASSUME v6', v4', c.fetched > v7', NEW t \in v5' + 1 .. c.fetched, t % Beat = 0
               PROVE  c.value # Z!None /\ c.value.at >= t
    BY DEF Z!FreshInv
  <2>0. c.fetched <= v1' /\ c.fetched > v7' BY <1>0, <1>1, <1>2
  <2>1. v6 /\ v7' = v7
    <3>1. v6
      <4> SUFFICES ASSUME ~v6 PROVE FALSE OBVIOUS
      <4>1. v7' = v1' OBVIOUS
      <4> HIDE DEF c
      <4> QED BY <1>1, <2>0, <4>1
    <3>2. v6' = v6 BY <1>0, <3>1
    <3> QED BY <3>1, <3>2
  <2>2. v4
    <3> SUFFICES ASSUME ~v4 PROVE FALSE OBVIOUS
    <3>1. t \in v1' + 1 .. c.fetched OBVIOUS
    <3> HIDE DEF c
    <3> QED BY <1>1, <2>0, <3>1, NothingBetween, Zenon
  <2>3. t \in v5 + 1 .. c.fetched
    <3> HIDE DEF c
    <3> QED BY <1>0, <1>1
  <2> QED BY <2>1, <2>2, <2>3 DEF Z!FreshInv
<1>6. Z!FailingInv'
  <2> SUFFICES ASSUME ~v6'
               PROVE  /\ c.read <= v7'
                      /\ c.fetched - v7' > 2 * LiveTtl + SilentAfter => c.state = "unavailable"
    BY DEF Z!FailingInv
  <2>1. CASE ~v6 BY <1>0, <2>1 DEF Z!FailingInv
  <2>2. CASE v6
    <3>1. v7' = v1' BY <2>2
    <3> QED BY <1>0, <1>1, <1>2, <3>1, StatusConstants
  <2> QED BY <2>1, <2>2
<1>7. Z!HistoryInv'
  <2> SUFFICES ASSUME v8.history.value # Z!None PROVE v3'.kind = "history" /\ v8.history.value.end <= v3'.end
    BY DEF Z!HistoryInv
  <2>1. v3.kind = "history" /\ v8.history.value.end <= v3.end BY DEF Z!HistoryInv
  <2>2. CASE v3' = v3 BY <2>1, <2>2
  <2>3. CASE v3'.kind = "history" /\ v3.end <= v3'.end
    <3>1. v8.history.value.end \in Nat /\ v3.end \in Nat /\ v3'.end \in Nat BY <1>0, <1>1, <2>1, <2>3, Kinds
    <3> QED BY <2>1, <2>3, <3>1
  <2> QED BY <2>1, <2>2, <2>3
<1> QED BY <1>3, <1>4, <1>5, <1>6, <1>7

\* Within a tick the answer that was given stays right.
LEMMA AnswerStands ==
  ASSUME Z!StatusInv, UNCHANGED <<v1, v8, v9>>, v1 \in Nat, v5' = v5 \/ v5' = v1, v4' = v4 \/ v5' = v1,
         v7' = v7 \/ v7' = v1, v6' = v6 \/ v7' = v1
  PROVE  Z!OfflineEarned' /\ Z!FailureEnds' /\ Z!OutageSeen'
<1>1. Z!PanelInv BY DEF Z!StatusInv
<1>2. Z!OfflineEarned'
  <2> SUFFICES ASSUME v9 = "offline", v4', v6', ~(v1 - v5' < LiveTtl + Beat), ~(v1 - v7' < LiveTtl) PROVE FALSE
    BY DEF Z!OfflineEarned
  <2>1. v5' # v1 /\ v7' # v1 BY StatusConstants
  <2> QED BY <1>1, <2>1 DEF Z!PanelInv, Z!OfflineEarned
<1>3. Z!FailureEnds'
  <2> SUFFICES ASSUME v9 \notin {"none", "unavailable"}, ~v6', ~(v1 - v7' <= 3 * LiveTtl + SilentAfter) PROVE FALSE
    BY DEF Z!FailureEnds
  <2>1. v7' # v1 BY StatusConstants
  <2> QED BY <1>1, <2>1 DEF Z!PanelInv, Z!FailureEnds
<1>4. Z!OutageSeen'
  <2> SUFFICES ASSUME v9 \in {"online", "problems"}, ~v4', ~(v1 - v5' <= SilentAfter) PROVE FALSE
    BY DEF Z!OutageSeen
  <2>1. v5' # v1 BY StatusConstants
  <2> QED BY <1>1, <2>1 DEF Z!PanelInv, Z!OutageSeen
<1> QED BY <1>2, <1>3, <1>4

LEMMA NoAnswer == ASSUME v9' = "none" PROVE Z!PanelInv'
BY DEF Z!PanelInv, Z!OfflineEarned, Z!FailureEnds, Z!OutageSeen, Z!IncidentFades

LEMMA StatusNumbers ==
  ASSUME Z!StatusInv
  PROVE  /\ v1 \in Nat /\ v5 \in Nat /\ v5 <= v1 /\ v7 \in Nat /\ v7 <= v1 /\ v4 \in BOOLEAN /\ v6 \in BOOLEAN
         /\ v2 \in {Z!Missing, Z!Malformed} \union Z!Heartbeats /\ v3 \in {Z!Missing} \union Z!Histories
BY StatusShapes DEF Z!StatusInv

LEMMA TickKeeps == ASSUME Z!StatusInv, Z!Tick PROVE Z!StatusInv'
<1>0. /\ v1 \in Nat /\ v5 \in Nat /\ v5 <= v1 /\ v7 \in Nat /\ v7 <= v1 /\ v4 \in BOOLEAN /\ v6 \in BOOLEAN
      /\ v2 \in {Z!Missing, Z!Malformed} \union Z!Heartbeats /\ v3 \in {Z!Missing} \union Z!Histories
  BY StatusNumbers
<1>1. v1' = v1 + 1 /\ v9' = "none" /\ UNCHANGED <<v3, v4, v5, v6, v7, v8>> BY DEF Z!Tick
<1>2. CASE v4 /\ v1' % Beat = 0
  <2>1. PICK report \in FleetReports : v2' = Z!Heartbeat(v1', report) BY <1>2 DEF Z!Tick
  <2>2. v2' = [kind |-> "heartbeat", at |-> v1', report |-> report] BY <2>1 DEF Z!Heartbeat
  <2>3. v2' \in Z!Heartbeats /\ v2'.kind = "heartbeat" /\ v2'.at = v1' BY <1>0, <1>1, <2>2 DEF Z!Heartbeats
  <2>4. \A t \in v5 + 1 .. v1' : v2'.at >= t BY <1>0, <1>1, <2>3
  <2>5. Z!BeatInv' BY <1>0, <1>1, <1>2, <2>3, <2>4 DEF Z!BeatInv
  <2> QED BY <1>0, <1>1, <2>3, <2>5, NoAnswer, StatusMoved
<1>3. CASE ~(v4 /\ v1' % Beat = 0)
  <2>1. v2' = v2 BY <1>3 DEF Z!Tick
  <2>2. ASSUME v4, NEW t \in v5 + 1 .. v1', t % Beat = 0 PROVE v2.kind = "heartbeat" /\ v2.at >= t
    <3>1. t # v1' BY <1>3, <2>2
    <3>2. t \in v5 + 1 .. v1 BY <1>0, <1>1, <3>1
    <3> QED BY <2>2, <3>2 DEF Z!StatusInv, Z!BeatInv
  <2>3. v2.kind = "heartbeat" => v2.at <= v1' /\ (v4 \/ v2.at <= v5)
    <3> SUFFICES ASSUME v2.kind = "heartbeat" PROVE v2.at <= v1' /\ (v4 \/ v2.at <= v5) OBVIOUS
    <3>1. v2.at <= v1 /\ (v4 \/ v2.at <= v5) BY DEF Z!StatusInv, Z!BeatInv
    <3>2. v2.at \in Nat BY <1>0, Kinds
    <3> QED BY <1>0, <1>1, <3>1, <3>2
  <2>4. Z!BeatInv' BY <1>1, <2>1, <2>2, <2>3 DEF Z!BeatInv
  <2> QED BY <1>0, <1>1, <2>1, <2>4, NoAnswer, StatusMoved
<1> QED BY <1>2, <1>3

LEMMA BeatFailsKeeps == ASSUME Z!StatusInv, Z!BeatFails PROVE Z!StatusInv'
<1>0. /\ v1 \in Nat /\ v5 \in Nat /\ v5 <= v1 /\ v7 \in Nat /\ v7 <= v1 /\ v4 \in BOOLEAN /\ v6 \in BOOLEAN
      /\ v2 \in {Z!Missing, Z!Malformed} \union Z!Heartbeats /\ v3 \in {Z!Missing} \union Z!Histories
  BY StatusNumbers
<1>1. /\ v4 /\ v1' = v1 + 1 /\ v9' = "none" /\ v5' = v1' /\ v2' \in {v2, Z!Malformed}
      /\ UNCHANGED <<v3, v4, v6, v7, v8>>
  BY DEF Z!BeatFails
<1>2. v5' + 1 .. v1' = {} BY <1>0, <1>1
<1>3. v2'.kind = "heartbeat" => v2'.at <= v1'
  <2> SUFFICES ASSUME v2'.kind = "heartbeat" PROVE v2'.at <= v1' OBVIOUS
  <2>1. v2' = v2 BY <1>1, Kinds
  <2>2. v2.at <= v1 BY <2>1 DEF Z!StatusInv, Z!BeatInv
  <2>3. v2.at \in Nat BY <1>0, <2>1, Kinds
  <2> QED BY <1>0, <1>1, <2>1, <2>2, <2>3
<1>4. Z!BeatInv' BY <1>1, <1>2, <1>3 DEF Z!BeatInv
<1> QED BY <1>0, <1>1, <1>4, NoAnswer, StatusMoved

\* The poller stops or starts, the frontend loses or gets its access.
LEMMA TroubleKeeps == ASSUME Z!StatusInv, Z!Stops \/ Z!Starts \/ Z!Breaks \/ Z!Heals PROVE Z!StatusInv'
<1>0. /\ v1 \in Nat /\ v5 \in Nat /\ v5 <= v1 /\ v7 \in Nat /\ v7 <= v1 /\ v4 \in BOOLEAN /\ v6 \in BOOLEAN
      /\ v2 \in {Z!Missing, Z!Malformed} \union Z!Heartbeats /\ v3 \in {Z!Missing} \union Z!Histories
  BY StatusNumbers
<1>1. /\ UNCHANGED <<v1, v2, v3, v8, v9>>
      /\ \/ (v4' # v4 /\ v5' = v1 /\ v6' = v6 /\ v7' = v7)
         \/ (v4' = v4 /\ v5' = v5 /\ v6' # v6 /\ v7' = v1)
      /\ v4' \in BOOLEAN /\ v6' \in BOOLEAN
  <2>1. CASE Z!Stops BY <1>0, <2>1 DEF Z!Stops
  <2>2. CASE Z!Starts BY <1>0, <2>2 DEF Z!Starts
  <2>3. CASE Z!Breaks BY <1>0, <2>3 DEF Z!Breaks
  <2>4. CASE Z!Heals BY <1>0, <2>4 DEF Z!Heals
  <2> QED BY <2>1, <2>2, <2>3, <2>4
<1>2. v2.kind = "heartbeat" => v2.at <= v1 /\ (v4 \/ v2.at <= v5) /\ v2.at \in Nat
  BY <1>0, Kinds DEF Z!StatusInv, Z!BeatInv
<1>3. Z!BeatInv'
  <2>1. CASE v4' = v4 /\ v5' = v5 BY <1>1, <2>1 DEF Z!StatusInv, Z!BeatInv
  <2>2. CASE v5' = v1
    <3>1. v5' + 1 .. v1' = {} BY <1>0, <1>1, <2>2
    <3> QED BY <1>1, <1>2, <2>2, <3>1 DEF Z!BeatInv
  <2> QED BY <1>1, <2>1, <2>2
<1>4. Z!OfflineEarned' /\ Z!FailureEnds' /\ Z!OutageSeen' BY <1>0, <1>1, AnswerStands
<1>5. Z!IncidentFades' BY <1>1 DEF Z!StatusInv, Z!PanelInv, Z!IncidentFades
<1>6. Z!PanelInv' BY <1>4, <1>5 DEF Z!PanelInv
<1>7. /\ v1' \in Nat /\ v1' >= v1 /\ v5' \in Nat /\ v5' <= v1' /\ v7' \in Nat /\ v7' <= v1' /\ v5 <= v5'
      /\ v2' \in {Z!Missing, Z!Malformed} \union Z!Heartbeats /\ v3' \in {Z!Missing} \union Z!Histories
  BY <1>0, <1>1
<1>8. /\ (v4' /\ ~v4 => v5' = v1') /\ (~v4' => v5' = v1' \/ (~v4 /\ v5' = v5))
      /\ (v6' /\ ~v6 => v7' = v1') /\ (v6' = v6 => v7' = v7) /\ (~v6' /\ v6 => v7' = v1')
  BY <1>0, <1>1
<1> QED BY <1>1, <1>3, <1>6, <1>7, <1>8, StatusMoved

LEMMA HourBegun == ASSUME NEW t \in Nat, NEW h \in Nat \ {0} PROVE h * (t \div h) \in Nat
<1>1. t \div h \in Nat BY Z3
<1> QED BY <1>1

LEMMA PublishHistoryKeeps == ASSUME Z!StatusInv, Z!Publish PROVE Z!StatusInv'
<1>0. /\ v1 \in Nat /\ v5 \in Nat /\ v5 <= v1 /\ v7 \in Nat /\ v7 <= v1 /\ v4 \in BOOLEAN /\ v6 \in BOOLEAN
      /\ v2 \in {Z!Missing, Z!Malformed} \union Z!Heartbeats /\ v3 \in {Z!Missing} \union Z!Histories
      /\ v8.history \in Z!Copies(Z!Histories)
  BY StatusShapes DEF Z!StatusInv
<1> DEFINE end == HistoryHour * (v1 \div HistoryHour)
<1>1. end \in Nat BY <1>0, HourBegun, StatusConstants
<1>2. PICK e \in Evaluations : v3' = Z!History(end, e) BY DEF Z!Publish
<1>3. (v3.kind = "history" => v3.end < end) /\ UNCHANGED <<v1, v2, v4, v5, v6, v7, v8, v9>> BY DEF Z!Publish
<1> HIDE DEF end
<1>4. v3' = [kind |-> "history", end |-> end, usual |-> e.usual, ongoing |-> e.ongoing] BY <1>2 DEF Z!History
<1>5. v3' \in Z!Histories /\ v3'.kind = "history" /\ v3'.end = end BY <1>1, <1>4 DEF Z!Histories
<1>6. v3.kind = "history" => v3.end <= v3'.end /\ v3.end \in Nat BY <1>0, <1>1, <1>3, <1>5, Kinds
<1>7. Z!BeatInv' BY <1>3 DEF Z!StatusInv, Z!BeatInv
<1>8. Z!OfflineEarned' /\ Z!FailureEnds' /\ Z!OutageSeen'
  BY <1>3 DEF Z!StatusInv, Z!PanelInv, Z!OfflineEarned, Z!FailureEnds, Z!OutageSeen
<1>9. Z!IncidentFades'
  <2> SUFFICES ASSUME v9 = "problems", v8.live.value.report = "full" PROVE v3'.kind = "history" /\ v1 - v3'.end <= StaleAfter
    BY <1>3 DEF Z!IncidentFades
  <2>1. v1 - v3.end <= StaleAfter /\ v3.kind = "history" BY DEF Z!StatusInv, Z!PanelInv, Z!IncidentFades
  <2> QED BY <1>0, <1>1, <1>5, <1>6, <2>1, StatusConstants
<1>10. Z!PanelInv' BY <1>8, <1>9 DEF Z!PanelInv
<1> QED BY <1>0, <1>3, <1>5, <1>6, <1>7, <1>10, StatusMoved

LEMMA StatusStands == ASSUME Z!StatusInv, UNCHANGED <<v1, v2, v3, v4, v5, v6, v7, v8, v9>> PROVE Z!StatusInv'
<1> USE DEF Z!StatusInv
<1>1. Z!Shapes' BY DEF Z!Shapes
<1>2. Z!BeatInv' /\ Z!ReadInv' BY DEF Z!BeatInv, Z!ReadInv
<1>3. Z!FreshInv' /\ Z!FailingInv' /\ Z!HistoryInv' BY DEF Z!FreshInv, Z!FailingInv, Z!HistoryInv
<1>4. Z!PanelInv' BY DEF Z!PanelInv, Z!OfflineEarned, Z!FailureEnds, Z!OutageSeen, Z!IncidentFades
<1> QED BY <1>1, <1>2, <1>3, <1>4

LEMMA StatusInit == Z!Init => Z!StatusInv
<1> SUFFICES ASSUME Z!Init PROVE Z!StatusInv OBVIOUS
<1>0. /\ v1 = 0 /\ v2 = Z!Missing /\ v3 = Z!Missing /\ v4 = TRUE /\ v5 = 0 /\ v6 = TRUE /\ v7 = 0
      /\ v8 = [live |-> Z!Unread, history |-> Z!Unread] /\ v9 = "none"
  BY DEF Z!Init
<1>1. Z!Unread = [fetched |-> -1, read |-> -1, value |-> Z!None, state |-> "unavailable"] BY DEF Z!Unread, Z!Never
<1>2. v8.live = Z!Unread /\ v8.history = Z!Unread BY <1>0
<1>3. Z!Shapes
  <2>1. Z!Unread \in Z!Copies(Z!Heartbeats) /\ Z!Unread \in Z!Copies(Z!Histories) BY <1>1 DEF Z!Copies, Z!Never
  <2> QED BY <1>0, <2>1 DEF Z!Shapes
<1>4. Z!BeatInv
  <2>1. 0 + 1 .. 0 = {} OBVIOUS
  <2>2. v2.kind # "heartbeat" BY <1>0, Kinds
  <2> QED BY <1>0, <2>1, <2>2 DEF Z!BeatInv
<1>5. Z!ReadInv /\ Z!HistoryInv BY <1>0, <1>1, <1>2 DEF Z!ReadInv, Z!HistoryInv
<1>6. Z!FreshInv BY <1>0, <1>1, <1>2 DEF Z!FreshInv
<1>7. Z!FailingInv BY <1>0 DEF Z!FailingInv
<1>8. Z!PanelInv BY <1>0 DEF Z!PanelInv, Z!OfflineEarned, Z!FailureEnds, Z!OutageSeen, Z!IncidentFades
<1> QED BY <1>3, <1>4, <1>5, <1>6, <1>7, <1>8 DEF Z!StatusInv

LEMMA StatusStep == ASSUME Z!StatusInv, Z!Next PROVE Z!StatusInv'
<1>1. CASE Z!Over
  <2>1. UNCHANGED <<v1, v2, v3, v4, v5, v6, v7, v8, v9>> BY <1>1 DEF Z!Over, Z!vars
  <2> QED BY <2>1, StatusStands
<1> QED BY <1>1, LiveViewKeeps, TickKeeps, BeatFailsKeeps, TroubleKeeps, PublishHistoryKeeps DEF Z!Next

--------------------------------------------------------------------------------
(* LiveTimes: v1 duty, v2 calibration, v3 fix, v4 now, v5 starts, v6 out, v7 at *)

LEMMA CeilIs == ASSUME NEW u \in Int PROVE Q!Ceil(u) \in Int /\ 8 * Q!Ceil(u) >= u /\ 8 * Q!Ceil(u) < u + 8
BY DEF Q!Ceil

LEMMA FloorIs == ASSUME NEW u \in Int PROVE Q!Floor(u) \in Int /\ 8 * Q!Floor(u) <= u /\ u < 8 * Q!Floor(u) + 8
BY DEF Q!Floor

LEMMA RoundIs == ASSUME NEW u \in Int PROVE Q!Round(u) \in Int /\ 8 * Q!Round(u) <= u + 4 /\ u - 4 <= 8 * Q!Round(u)
BY DEF Q!Round

LEMMA RoundRises == ASSUME NEW u \in Int, NEW v \in Int, u <= v PROVE Q!Round(u) <= Q!Round(v)
BY DEF Q!Round

\* Both trips are trips, and the fix is a place on the first.
LEMMA TripsAreTrips ==
  ASSUME v1 \in Duties
  PROVE  \A t \in 1 .. 2 :
           /\ Len(v1[t].sched) \in Nat /\ Len(v1[t].sched) > 1 /\ Q!Rows(t) = 1 .. Len(v1[t].sched)
           /\ v1[t].sched \in [Q!Rows(t) -> Int] /\ v1[t].expected \in [Q!Rows(t) -> Nat]
           /\ v1[t].board \in [Q!Rows(t) -> Int] /\ v1[t].late \in [Q!Rows(t) -> Int] /\ v1[t].dist \in [Q!Rows(t) -> Int]
           /\ \A i \in Q!Rows(t) : v1[t].late[i] >= v1[t].expected[i]
           /\ \A i, j \in Q!Rows(t) : i <= j => /\ v1[t].sched[i] <= v1[t].sched[j]
                                               /\ v1[t].expected[i] <= v1[t].expected[j]
                                               /\ v1[t].dist[i] <= v1[t].dist[j]
<1> SUFFICES ASSUME NEW t \in 1 .. 2
             PROVE  /\ Len(v1[t].sched) \in Nat /\ Len(v1[t].sched) > 1 /\ Q!Rows(t) = 1 .. Len(v1[t].sched)
                    /\ v1[t].sched \in [Q!Rows(t) -> Int] /\ v1[t].expected \in [Q!Rows(t) -> Nat]
                    /\ v1[t].board \in [Q!Rows(t) -> Int] /\ v1[t].late \in [Q!Rows(t) -> Int] /\ v1[t].dist \in [Q!Rows(t) -> Int]
                    /\ \A i \in Q!Rows(t) : v1[t].late[i] >= v1[t].expected[i]
                    /\ \A i, j \in Q!Rows(t) : i <= j => /\ v1[t].sched[i] <= v1[t].sched[j]
                                                        /\ v1[t].expected[i] <= v1[t].expected[j]
                                                        /\ v1[t].dist[i] <= v1[t].dist[j]
  OBVIOUS
<1>1. Q!TripOK(v1[t])
  BY TimesHold DEF Q!TimesAssumption
<1> DEFINE trip == v1[t]
           n == Len(trip.sched)
<1>2. /\ n \in Nat /\ n > 1 /\ trip.sched \in [1 .. n -> Int] /\ trip.expected \in [1 .. n -> Nat]
      /\ trip.board \in [1 .. n -> Int] /\ trip.late \in [1 .. n -> Int] /\ trip.dist \in [1 .. n -> Int]
      /\ Q!Rising(trip.sched) /\ Q!Rising(trip.expected) /\ Q!Rising(trip.dist)
      /\ \A i \in 1 .. n : trip.late[i] >= trip.expected[i]
  BY <1>1 DEF Q!TripOK
<1>3. Q!Rows(t) = 1 .. n
  BY <1>2 DEF Q!Rows
<1> QED BY <1>2, <1>3 DEF Q!Rising

\* The usual delay where the vehicle is is that of a stop or lies between two.
LEMMA UsualIs ==
  ASSUME v1 \in Duties, Q!FixOK
  PROVE  Q!Usual(v1[1], v3.dist) \in Int
<1> DEFINE trip == v1[1]
           n == Len(trip.sched)
           S == {i \in 1 .. n : trip.dist[i] <= v3.dist}
<1>1. /\ n \in Nat /\ n > 1 /\ Q!Rows(1) = 1 .. n /\ DOMAIN trip.dist = 1 .. n /\ Len(trip.dist) = n
      /\ trip.sched \in [1 .. n -> Int] /\ trip.expected \in [1 .. n -> Nat] /\ trip.dist \in [1 .. n -> Int]
      /\ \A i, j \in 1 .. n : i <= j => trip.dist[i] <= trip.dist[j]
  <2>1. 1 \in 1 .. 2
    OBVIOUS
  <2>2. /\ n \in Nat /\ n > 1 /\ Q!Rows(1) = 1 .. n
        /\ trip.sched \in [Q!Rows(1) -> Int] /\ trip.expected \in [Q!Rows(1) -> Nat] /\ trip.dist \in [Q!Rows(1) -> Int]
        /\ \A i, j \in Q!Rows(1) : i <= j => trip.dist[i] <= trip.dist[j]
    BY <2>1, TripsAreTrips
  <2> HIDE DEF trip, n
  <2>3. trip.dist \in [1 .. n -> Int] /\ DOMAIN trip.dist = 1 .. n
    BY <2>2
  <2>4. Len(trip.dist) = n
    BY <2>2, <2>3
  <2> QED BY <2>2, <2>3, <2>4
<1>2. v3.dist \in Int /\ trip.dist[1] <= v3.dist /\ v3.dist <= trip.dist[n]
  BY <1>1 DEF Q!FixOK
<1> DEFINE Ok(i) == i \in DOMAIN trip.dist /\ trip.dist[i] <= v3.dist /\ \A j \in DOMAIN trip.dist : j > i => trip.dist[j] > v3.dist
           here == CHOOSE i \in DOMAIN trip.dist : trip.dist[i] <= v3.dist /\ \A j \in DOMAIN trip.dist : j > i => trip.dist[j] > v3.dist
           delay(i) == trip.expected[i] - trip.sched[i]
<1>3. Q!Usual(trip, v3.dist) = IF trip.dist[here] = v3.dist THEN 8 * delay(here) ELSE 4 * (delay(here) + delay(here + 1))
  BY DEF Q!Usual
<1> HIDE DEF trip, n
<1>s. S \subseteq 1 .. n /\ 1 \in S
  BY <1>1, <1>2
<1>4. PICK i \in S : \A j \in S : j <= i
  <2> HIDE DEF S
  <2> QED BY <1>1, <1>s, GreatestOf
<1>5. Ok(i)
  <2>1. ASSUME NEW j \in 1 .. n, j > i PROVE trip.dist[j] > v3.dist
    <3>1. j \notin S
      <4> HIDE DEF S
      <4>1. i \in Nat /\ j \in Nat
        BY <1>1, <1>4, <1>s, <2>1
      <4> QED BY <1>4, <2>1, <4>1
    <3>2. ~(trip.dist[j] <= v3.dist)
      BY <2>1, <3>1, ZenonT(40)
    <3>3. trip.dist[j] \in Int
      BY <1>1, <2>1
    <3> HIDE DEF S
    <3> QED BY <1>2, <3>2, <3>3
  <2> QED BY <1>1, <1>4, <2>1
<1>6. Ok(here)
  BY <1>5
<1> HIDE DEF here
<1>7. here \in 1 .. n /\ trip.dist[here] <= v3.dist
  BY <1>1, <1>6
<1>8. trip.dist[here] # v3.dist => here + 1 \in 1 .. n
  BY <1>1, <1>2, <1>7
<1>9. \A k \in 1 .. n : delay(k) \in Int
  BY <1>1
<1> HIDE DEF delay
<1>10. Q!Usual(trip, v3.dist) \in Int
  BY <1>3, <1>7, <1>8, <1>9
<1> QED BY <1>10 DEF trip

Quantiles == [carried : Int, low : Int, mid : Int, high : Int]

\* The calibration says one thing or, beyond its horizons, nothing.
LEMMA AheadIs ==
  ASSUME v2 \in Calibrations, NEW s \in Int, NEW x \in Int
  PROVE  Q!Ahead(s, x) = {} \/ \E q \in Quantiles : Q!Ahead(s, x) = {q}
<1> DEFINE n == Len(v2.horizons)
           reach == {i \in DOMAIN v2.horizons : s <= v2.horizons[i]}
           h == CHOOSE i \in reach : \A j \in reach : i <= j
           in == {b \in DOMAIN v2.bands[h] : b = 1 \/ 8 * v2.bands[h][b] <= x}
           band == CHOOSE b \in in : \A c \in in : c <= b
           e == v2.errors[h][band]
           q == [carried |-> (v2.alphas[h] * x) \div 2, low |-> 8 * e[1], mid |-> 8 * e[2], high |-> 8 * e[3]]
<1>1. Q!Ahead(s, x) = IF reach = {} THEN {} ELSE {q}
  BY DEF Q!Ahead
<1>2. Q!CalibrationOK(v2)
  BY TimesHold DEF Q!TimesAssumption
<1>3. /\ n \in Nat /\ DOMAIN v2.horizons = 1 .. n /\ v2.alphas \in [1 .. n -> Nat]
      /\ \A i \in 1 .. n : LET m == Len(v2.bands[i])
                           IN  m \in Nat \ {0} /\ v2.bands[i] \in [1 .. m -> Int] /\ v2.errors[i] \in [1 .. m -> Int \X Int \X Int]
  BY <1>2 DEF Q!CalibrationOK
<1> SUFFICES ASSUME reach # {} PROVE q \in Quantiles
  BY <1>1, ZenonT(40)
<1>4. h \in 1 .. n
  <2>1. reach \subseteq Nat /\ reach \subseteq 1 .. n
    BY <1>3
  <2> HIDE DEF reach
  <2>2. \E i \in reach : \A j \in reach : i <= j
    BY <2>1, LeastOf
  <2>3. h \in reach
    BY <2>2
  <2> QED BY <2>1, <2>3
<1> HIDE DEF h, reach, n
<1> DEFINE m == Len(v2.bands[h])
<1>5. m \in Nat \ {0} /\ v2.bands[h] \in [1 .. m -> Int] /\ v2.errors[h] \in [1 .. m -> Int \X Int \X Int] /\ v2.alphas[h] \in Nat
  BY <1>3, <1>4
<1> HIDE DEF m
<1>6. band \in 1 .. m
  <2>0. DOMAIN v2.bands[h] = 1 .. m /\ 1 \in 1 .. m
    BY <1>5, SMTT(30)
  <2>1. in \subseteq 1 .. m /\ 1 \in in
    BY <2>0
  <2> HIDE DEF in
  <2>2. \E b \in in : \A c \in in : c <= b
    BY <1>5, <2>1, GreatestOf
  <2>3. band \in in
    BY <2>2
  <2> QED BY <2>1, <2>3
<1> HIDE DEF band, in
<1>7. e \in Int \X Int \X Int
  BY <1>5, <1>6
<1> HIDE DEF e
<1>8. 8 * e[1] \in Int /\ 8 * e[2] \in Int /\ 8 * e[3] \in Int
  BY <1>7
<1>9. (v2.alphas[h] * x) \div 2 \in Int
  <2>0. \A a, b \in Int : a * b \in Int
    OBVIOUS
  <2> DEFINE a == v2.alphas[h]
  <2>1. a \in Int
    BY <1>5, SMTT(30)
  <2> HIDE DEF a
  <2>2. a * x \in Int
    BY <2>0, <2>1
  <2>3. (a * x) \div 2 \in Int
    BY <2>2
  <2> QED BY <2>3 DEF a
<1> QED BY <1>8, <1>9 DEF Quantiles

\* Who is beyond the horizons stays there further along.
LEMMA AheadGone ==
  ASSUME v2 \in Calibrations, NEW s \in Int, NEW s2 \in Int, s <= s2, NEW x, Q!Ahead(s, x) = {}
  PROVE  Q!Ahead(s2, x) = {}
<1> DEFINE n == Len(v2.horizons)
           reach(t) == {i \in DOMAIN v2.horizons : t <= v2.horizons[i]}
<1>1. \A t : Q!Ahead(t, x) = {} <=> reach(t) = {}
  BY ZenonT(40) DEF Q!Ahead
<1>2. Q!CalibrationOK(v2)
  BY TimesHold DEF Q!TimesAssumption
<1>3. n \in Nat /\ v2.horizons \in [1 .. n -> Int] /\ DOMAIN v2.horizons = 1 .. n
  BY <1>2 DEF Q!CalibrationOK
<1> HIDE DEF n
<1>4. reach(s2) \subseteq reach(s)
  BY <1>3
<1> QED BY <1>1, <1>4

MovedRows == [trip : 1 .. 2, row : Nat, board : Int, expected : Int, late : Int]

\* What TimesAgree and PlanHolds say of one row.
GoodRow(r) ==
  /\ r \in MovedRows /\ r.row \in Q!Rows(r.trip)
  /\ r.late >= r.expected
  /\ r.board < Unboardable /\ r.trip = 1 /\ ~v3.waiting /\ v1[1].board[r.row] <= v1[1].expected[r.row] =>
       r.board <= r.expected
  /\ r.trip = 2 \/ v3.waiting => r.late >= v1[r.trip].late[r.row]
  /\ r.board < Unboardable /\ r.board > v1[r.trip].board[r.row] =>
       /\ r.trip = 1 /\ ~v3.waiting /\ v1[1].dist[r.row] > v3.dist
       /\ r.expected - v4 <= LeaveLaterWithin + 1

\* One row of a fold: p and q are the expected times before and after it in eighths, D
\* what it moves; B are the rows beyond the horizons.
TimeStep(t, B, i, p, q, D) ==
  \/ /\ Q!Passed(t, i) /\ q = p
     /\ \E r \in MovedRows : D = {r} /\ r.trip = t /\ r.row = i /\ GoodRow(r)
  \/ /\ i \in B /\ q = p /\ D = {} /\ 8 * v1[t].expected[i] >= p
  \/ /\ i \in B /\ q = p /\ 8 * v1[t].expected[i] < p
     /\ \E r \in MovedRows : D = {r} /\ r.trip = t /\ r.row = i /\ r.expected = Q!Ceil(p) /\ GoodRow(r)
  \/ /\ i \notin B /\ (i > 1 => q >= p)
     /\ \E r \in MovedRows : D = {r} /\ r.trip = t /\ r.row = i /\ r.expected = Q!Round(q) /\ GoodRow(r)

TimeSteps(t, B, p, D) ==
  /\ B \subseteq Q!Rows(t) /\ (\A i, j \in Q!Rows(t) : i \in B /\ i <= j => j \in B)
  /\ p \in [0 .. Len(v1[t].sched) -> Int]
  /\ \A i \in Q!Rows(t) : TimeStep(t, B, i, p[i - 1], p[i], D[i])

\* What all rows add.
AllOf(t, D) == UNION {D[j] : j \in Q!Rows(t)}

ExpectedIn(R, t, i) ==
  IF \E r \in R : r.trip = t /\ r.row = i THEN (CHOOSE r \in R : r.trip = t /\ r.row = i).expected ELSE v1[t].expected[i]

\* The rows a fold adds, each once.
LEMMA StepsMoved ==
  ASSUME v1 \in Duties, NEW t \in 1 .. 2, NEW B, NEW p, NEW D, TimeSteps(t, B, p, D),
         NEW i \in Q!Rows(t), NEW r \in D[i]
  PROVE  r \in MovedRows /\ r.trip = t /\ r.row = i /\ GoodRow(r) /\ D[i] = {r}
<1>1. TimeStep(t, B, i, p[i - 1], p[i], D[i])
  BY DEF TimeSteps
<1>2. \E s \in MovedRows : D[i] = {s} /\ s.trip = t /\ s.row = i /\ GoodRow(s)
  BY <1>1 DEF TimeStep
<1> QED BY <1>2

\* Where a stop is expected after the fold, by its step.
ExpectedBy(t, B, p, i, e) ==
  \/ Q!Passed(t, i)
  \/ i \in B /\ p[i] = p[i - 1] /\ e = v1[t].expected[i] /\ 8 * e >= p[i]
  \/ i \in B /\ p[i] = p[i - 1] /\ e = Q!Ceil(p[i]) /\ 8 * v1[t].expected[i] < p[i]
  \/ i \notin B /\ (i > 1 => p[i] >= p[i - 1]) /\ e = Q!Round(p[i])

LEMMA StepExpected ==
  ASSUME v1 \in Duties, NEW t \in 1 .. 2, NEW B, NEW p, NEW D, TimeSteps(t, B, p, D), NEW old,
         \A r \in old : r.trip # t, NEW R, R = old \union AllOf(t, D),
         NEW i \in Q!Rows(t)
  PROVE  ExpectedBy(t, B, p, i, ExpectedIn(R, t, i))
<1> DEFINE Here(r) == r.trip = t /\ r.row = i
           e == ExpectedIn(R, t, i)
<1>1. TimeStep(t, B, i, p[i - 1], p[i], D[i])
  BY DEF TimeSteps
<1>2. \A r \in R : Here(r) <=> r \in D[i]
  <2> SUFFICES ASSUME NEW r \in R PROVE Here(r) <=> r \in D[i]
    OBVIOUS
  <2>1. r \in D[i] => Here(r)
    BY StepsMoved
  <2>2. ASSUME Here(r) PROVE r \in D[i]
    <3>1. r \notin old
      BY <2>2
    <3>2. PICK j \in Q!Rows(t) : r \in D[j]
      BY <3>1 DEF AllOf
    <3>3. r.row = j
      BY <3>2, StepsMoved
    <3> QED BY <2>2, <3>2, <3>3
  <2> QED BY <2>1, <2>2
<1>3. D[i] \subseteq R
  BY DEF AllOf
<1>4. D[i] = {} => e = v1[t].expected[i]
  BY <1>2 DEF ExpectedIn
<1>5. ASSUME NEW s, D[i] = {s} PROVE e = s.expected
  <2>1. \A r \in R : Here(r) <=> r = s
    BY <1>2, <1>5
  <2>2. s \in R
    BY <1>3, <1>5
  <2>3. (CHOOSE r \in R : Here(r)) = s
    BY <2>1, <2>2
  <2>4. \E r \in R : Here(r)
    BY <2>1, <2>2
  <2> QED BY <2>3, <2>4 DEF ExpectedIn
<1> HIDE DEF e
<1> SUFFICES \/ Q!Passed(t, i)
             \/ i \in B /\ p[i] = p[i - 1] /\ e = v1[t].expected[i] /\ 8 * e >= p[i]
             \/ i \in B /\ p[i] = p[i - 1] /\ e = Q!Ceil(p[i]) /\ 8 * v1[t].expected[i] < p[i]
             \/ i \notin B /\ (i > 1 => p[i] >= p[i - 1]) /\ e = Q!Round(p[i])
  BY DEF e, ExpectedBy
<1>6. CASE i \in B /\ p[i] = p[i - 1] /\ D[i] = {} /\ 8 * v1[t].expected[i] >= p[i - 1]
  BY <1>4, <1>6
<1>7. CASE /\ i \in B /\ p[i] = p[i - 1] /\ 8 * v1[t].expected[i] < p[i - 1]
           /\ \E r \in MovedRows : D[i] = {r} /\ r.trip = t /\ r.row = i /\ r.expected = Q!Ceil(p[i - 1]) /\ GoodRow(r)
  BY <1>5, <1>7
<1>8. CASE /\ i \notin B /\ (i > 1 => p[i] >= p[i - 1])
           /\ \E r \in MovedRows : D[i] = {r} /\ r.trip = t /\ r.row = i /\ r.expected = Q!Round(p[i]) /\ GoodRow(r)
  BY <1>5, <1>8
<1> QED BY <1>1, <1>6, <1>7, <1>8 DEF TimeStep

\* The rows of both trips after a fold over one of them: each once and good, in order.
LEMMA StepsInOrder ==
  ASSUME v1 \in Duties, Q!FixOK, NEW t \in 1 .. 2, NEW B, NEW p, NEW D, TimeSteps(t, B, p, D), NEW old,
         \A r \in old : r.trip # t, NEW R, R = old \union AllOf(t, D),
         NEW i \in Q!Rows(t), i + 1 \in Q!Rows(t), ~Q!Passed(t, i)
  PROVE  ExpectedIn(R, t, i) <= ExpectedIn(R, t, i + 1)
<1> DEFINE k == i + 1
           e1 == ExpectedIn(R, t, i)
           e2 == ExpectedIn(R, t, k)
<1>1. ExpectedBy(t, B, p, i, e1) /\ ExpectedBy(t, B, p, k, e2)
  BY StepExpected
<1> DEFINE n == Len(v1[t].sched)
           u1 == v1[t].expected[i]
           u2 == v1[t].expected[k]
<1>2. /\ i \in Nat /\ k \in Nat /\ k = i + 1 /\ i <= k /\ k > 1 /\ i \in 0 .. n /\ k \in 0 .. n /\ k - 1 = i
      /\ k \in Q!Rows(t) /\ u1 \in Nat /\ u2 \in Nat /\ u1 <= u2
      /\ v1[t].dist[i] \in Int /\ v1[t].dist[k] \in Int /\ v1[t].dist[i] <= v1[t].dist[k]
  <2>1. n \in Nat /\ Q!Rows(t) = 1 .. n
    BY TripsAreTrips
  <2> HIDE DEF n
  <2>2. i \in Nat /\ k \in Nat /\ k = i + 1 /\ i <= k /\ k > 1 /\ i \in 0 .. n /\ k \in 0 .. n /\ k - 1 = i /\ k \in Q!Rows(t)
    BY <2>1
  <2> HIDE DEF k
  <2>3. v1[t].expected \in [Q!Rows(t) -> Nat] /\ v1[t].dist \in [Q!Rows(t) -> Int] /\ u1 <= u2 /\ v1[t].dist[i] <= v1[t].dist[k]
    BY <2>2, TripsAreTrips
  <2> QED BY <2>2, <2>3
<1>3. p[i] \in Int /\ p[k] \in Int /\ p[k - 1] = p[i] /\ (i \in B => k \in B)
  <2> HIDE DEF k, n
  <2>1. p \in [0 .. n -> Int]
    BY DEF TimeSteps, n
  <2>2. i \in B => k \in B
    BY <1>2 DEF TimeSteps
  <2> QED BY <1>2, <2>1, <2>2
<1>4. ~Q!Passed(t, k)
  BY <1>2, TimesHold DEF Q!Passed, Q!FixOK, Q!TimesAssumption
<1> HIDE DEF e1, e2, k, u1, u2
<1>5. e1 <= e2
  <2>1. CASE i \in B
    <3>1. k \in B /\ p[k] = p[i]
      BY <1>1, <1>3, <1>4, <2>1 DEF ExpectedBy
    <3>2. p[i] \in Int /\ Q!Ceil(p[i]) \in Int /\ 8 * Q!Ceil(p[i]) >= p[i] /\ 8 * Q!Ceil(p[i]) < p[i] + 8
      BY <1>3, CeilIs
    <3>3. \/ e1 = u1 /\ 8 * e1 >= p[i]
          \/ e1 = Q!Ceil(p[i]) /\ 8 * u1 < p[i]
      BY <1>1, <2>1 DEF ExpectedBy, u1
    <3>4. \/ e2 = u2 /\ 8 * e2 >= p[i]
          \/ e2 = Q!Ceil(p[i]) /\ 8 * u2 < p[i]
      BY <1>1, <1>4, <3>1 DEF ExpectedBy, u2
    <3> QED BY <1>2, <1>3, <3>2, <3>3, <3>4, SMTT(30)
  <2>2. CASE i \notin B
    <3>1. e1 = Q!Round(p[i])
      BY <1>1, <2>2 DEF ExpectedBy
    <3>2. Q!Round(p[i]) \in Int /\ 8 * Q!Round(p[i]) <= p[i] + 4
      BY <1>3, RoundIs
    <3>3. CASE k \in B
      <4>1. p[k] = p[i]
        BY <1>1, <1>3, <1>4, <3>3 DEF ExpectedBy
      <4>2. Q!Ceil(p[i]) \in Int /\ 8 * Q!Ceil(p[i]) >= p[i]
        BY <1>3, CeilIs
      <4>3. \/ e2 = u2 /\ 8 * e2 >= p[i]
            \/ e2 = Q!Ceil(p[i]) /\ 8 * u2 < p[i]
        BY <1>1, <1>4, <3>3, <4>1 DEF ExpectedBy, u2
      <4> QED BY <1>2, <1>3, <3>1, <3>2, <4>2, <4>3
    <3>4. CASE k \notin B
      <4>1. p[k] >= p[i] /\ e2 = Q!Round(p[k])
        BY <1>1, <1>2, <1>3, <1>4, <3>4 DEF ExpectedBy
      <4> QED BY <1>3, <3>1, <4>1, RoundRises
    <3> QED BY <3>3, <3>4
  <2> QED BY <2>1, <2>2
<1> QED BY <1>5 DEF e1, e2, k

\* A row kept in order is not moved or moved to a good row.
LEMMA InOrderIs ==
  ASSUME v1 \in Duties, v4 \in Int, NEW t \in 1 .. 2, NEW i \in Q!Rows(t), NEW p \in Int
  PROVE  LET D == Q!InOrderRow(t, i, p)
         IN  \/ D = {} /\ 8 * v1[t].expected[i] >= p
             \/ /\ 8 * v1[t].expected[i] < p
                /\ \E r \in MovedRows : D = {r} /\ r.trip = t /\ r.row = i /\ r.expected = Q!Ceil(p) /\ GoodRow(r)
<1> DEFINE b == v1[t].board[i]
           u == v1[t].expected[i]
           l == v1[t].late[i]
           e == Q!Ceil(p)
           m == Q!Greatest(l, e)
           r == [trip |-> t, row |-> i, board |-> b, expected |-> e, late |-> m]
<1>1. Q!InOrderRow(t, i, p) = IF 8 * u < p THEN {r} ELSE {}
  BY DEF Q!InOrderRow, Q!Row
<1>2. b \in Int /\ u \in Nat /\ l \in Int /\ l >= u /\ i \in Nat
  <2>1. /\ v1[t].board \in [Q!Rows(t) -> Int] /\ v1[t].late \in [Q!Rows(t) -> Int] /\ v1[t].expected \in [Q!Rows(t) -> Nat]
        /\ Q!Rows(t) = 1 .. Len(v1[t].sched) /\ \A j \in Q!Rows(t) : v1[t].late[j] >= v1[t].expected[j]
    BY TripsAreTrips
  <2> QED BY <2>1
<1>3. e \in Int /\ 8 * e >= p
  BY CeilIs
<1> HIDE DEF e
<1>4. m \in Int /\ m >= l /\ m >= e
  BY <1>2, <1>3 DEF Q!Greatest
<1> HIDE DEF m
<1> SUFFICES ASSUME 8 * u < p PROVE r \in MovedRows /\ GoodRow(r)
  BY <1>1, <1>2 DEF e
<1>5. r \in MovedRows /\ r.row \in Q!Rows(r.trip) /\ r.trip = t /\ r.row = i /\ r.board = b /\ r.expected = e /\ r.late = m
  BY <1>2, <1>3, <1>4 DEF MovedRows
<1> HIDE DEF r
<1>6. r.board < Unboardable /\ r.trip = 1 /\ ~v3.waiting /\ v1[1].board[r.row] <= v1[1].expected[r.row] => r.board <= r.expected
  <2> SUFFICES ASSUME t = 1, b <= u PROVE b <= e
    BY <1>5
  <2> HIDE DEF b, u
  <2> QED BY <1>2, <1>3
<1>7. ~(r.board > v1[r.trip].board[r.row])
  BY <1>2, <1>5
<1> QED BY <1>4, <1>5, <1>6, <1>7 DEF GoodRow

RunBeyond ==
  {i \in Q!Rows(1) : Q!Ahead(v1[1].sched[i] - (v3.seen - v3.delay), 8 * v3.delay - Q!Usual(v1[1], v3.dist)) = {}}
RunAcc == [out : SUBSET MovedRows, previous : Int, arrival : Int]

LEMMA RunRowIs ==
  ASSUME v1 \in Duties, v2 \in Calibrations, Q!FixOK, ~v3.waiting, v4 \in Int, NEW i \in Q!Rows(1), NEW acc \in RunAcc
  PROVE  /\ Q!RunRow(acc, i) \in RunAcc
         /\ \E D \in SUBSET MovedRows : /\ Q!RunRow(acc, i).out = acc.out \union D
                                        /\ TimeStep(1, RunBeyond, i, acc.previous, Q!RunRow(acc, i).previous, D)
<1> DEFINE trip == v1[1]
           x == 8 * v3.delay - Q!Usual(trip, v3.dist)
           s == trip.sched[i] - (v3.seen - v3.delay)
           p == acc.previous
           a == Q!RunRow(acc, i)
           u == trip.expected[i]
           b == trip.board[i]
           d == trip.dist[i]
           Done(D) == a \in RunAcc /\ a.out = acc.out \union D /\ TimeStep(1, RunBeyond, i, p, a.previous, D)
<1>0. Unboardable \in Int /\ PassedM \in Nat /\ Tolerance \in Int /\ LeaveLaterWithin \in Int
  BY TimesHold DEF Q!TimesAssumption
<1>1. p \in Int /\ acc.out \in SUBSET MovedRows /\ acc.arrival \in Int
  BY DEF RunAcc
<1>2. /\ trip.sched[i] \in Int /\ u \in Nat /\ b \in Int /\ d \in Int /\ trip.late[i] \in Int /\ trip.late[i] >= u
      /\ i \in Nat /\ 1 \in 1 .. 2
  <2>1. 1 \in 1 .. 2
    OBVIOUS
  <2>2. /\ v1[1].board \in [Q!Rows(1) -> Int] /\ v1[1].late \in [Q!Rows(1) -> Int] /\ v1[1].expected \in [Q!Rows(1) -> Nat]
        /\ v1[1].sched \in [Q!Rows(1) -> Int] /\ v1[1].dist \in [Q!Rows(1) -> Int]
        /\ Q!Rows(1) = 1 .. Len(v1[1].sched) /\ \A j \in Q!Rows(1) : v1[1].late[j] >= v1[1].expected[j]
    BY <2>1, TripsAreTrips
  <2> QED BY <2>2
<1>3. v3.dist \in Int /\ v3.delay \in Int /\ v3.seen \in Int /\ s \in Int /\ x \in Int
  <2>1. v3.dist \in Int /\ v3.delay \in Int /\ v3.seen \in Int
    BY DEF Q!FixOK
  <2>2. Q!Usual(trip, v3.dist) \in Int
    BY UsualIs, ZenonT(40)
  <2>3. trip.sched[i] \in Int
    BY <1>2
  <2> HIDE DEF trip
  <2> QED BY <2>1, <2>2, <2>3
<1>4. CASE d < v3.dist - PassedM
  <2> DEFINE r == [trip |-> 1, row |-> i, board |-> Unboardable, expected |-> u, late |-> trip.late[i]]
  <2>1. a = [acc EXCEPT !.out = acc.out \union {r}]
    BY <1>4 DEF Q!RunRow, Q!Row
  <2>2. r \in MovedRows /\ r.row \in Q!Rows(r.trip) /\ r.trip = 1 /\ r.row = i /\ r.board = Unboardable /\ r.expected = u /\ r.late = trip.late[i]
    BY <1>0, <1>2 DEF MovedRows
  <2> HIDE DEF r
  <2>3. GoodRow(r)
    BY <1>0, <1>2, <2>2 DEF GoodRow
  <2>4. a \in RunAcc /\ a.out = acc.out \union {r} /\ a.previous = p
    BY <1>1, <2>1, <2>2 DEF RunAcc
  <2>5. Q!Passed(1, i)
    BY <1>4 DEF Q!Passed
  <2>6. Done({r})
    BY <2>2, <2>3, <2>4, <2>5 DEF TimeStep
  <2> QED BY <2>2, <2>6
<1>5. CASE ~(d < v3.dist - PassedM) /\ Q!Ahead(s, x) = {}
  <2> DEFINE D == Q!InOrderRow(1, i, p)
  <2>1. a = [acc EXCEPT !.out = acc.out \union D]
    BY <1>5 DEF Q!RunRow
  <2>2. \/ D = {} /\ 8 * u >= p
        \/ /\ 8 * u < p
           /\ \E r \in MovedRows : D = {r} /\ r.trip = 1 /\ r.row = i /\ r.expected = Q!Ceil(p) /\ GoodRow(r)
    BY <1>1, <1>2, InOrderIs
  <2> HIDE DEF D
  <2>3. D \in SUBSET MovedRows
    BY <2>2
  <2>4. a \in RunAcc /\ a.out = acc.out \union D /\ a.previous = p
    BY <1>1, <2>1, <2>3 DEF RunAcc
  <2>5. i \in RunBeyond
    BY <1>5 DEF RunBeyond
  <2>6. Done(D)
    BY <2>2, <2>4, <2>5 DEF TimeStep
  <2> QED BY <2>3, <2>6
<1>6. CASE ~(d < v3.dist - PassedM) /\ Q!Ahead(s, x) # {}
  <2>1. PICK q \in Quantiles : Q!Ahead(s, x) = {q}
    BY <1>3, <1>6, AheadIs
  <2> DEFINE base == 8 * u + q.carried
             e == Q!Greatest(base + q.mid, p)
             live == Q!LiveBoard(base, q, e)
             bb == Q!Board(b, live, d, e)
             m == Q!Greatest(base + q.high, e)
             r == [trip |-> 1, row |-> i, board |-> bb, expected |-> Q!Round(e), late |-> Q!Ceil(m)]
             arrival == IF i = Len(trip.sched) THEN e ELSE Q!Never
  <2>2. a = [out |-> acc.out \union {r}, previous |-> e, arrival |-> arrival]
    <3>1. (CHOOSE z \in {q} : TRUE) = q
      OBVIOUS
    <3> QED BY <1>6, <2>1, <3>1, ZenonT(40) DEF Q!RunRow, Q!Row
  <2>3. q.carried \in Int /\ q.low \in Int /\ q.mid \in Int /\ q.high \in Int
    BY DEF Quantiles
  <2>4. base \in Int
    BY <1>2, <2>3
  <2> HIDE DEF base
  <2>5. e \in Int /\ e >= p
    BY <1>1, <2>3, <2>4 DEF Q!Greatest
  <2>6. arrival \in Int
    BY <2>5 DEF Q!Never
  <2> HIDE DEF e, arrival
  <2>7. m \in Int /\ m >= e
    BY <2>3, <2>4, <2>5 DEF Q!Greatest
  <2> HIDE DEF m
  <2>8. live \in Int /\ live <= Q!Floor(e)
    <3>1. Q!Floor(base + q.low + 8 * Tolerance) \in Int /\ Q!Floor(e) \in Int
      <4>1. base + q.low + 8 * Tolerance \in Int
        BY <1>0, <2>3, <2>4
      <4> QED BY <2>5, <4>1, FloorIs
    <3> QED BY <3>1 DEF Q!LiveBoard, Q!Least
  <2> HIDE DEF live
  <2>9. bb \in Int /\ (bb < Unboardable => bb <= Q!Floor(e))
        /\ (bb < Unboardable /\ bb > b => d > v3.dist /\ e - 8 * v4 <= 8 * LeaveLaterWithin)
    <3>1. Q!Floor(e) \in Int
      BY <2>5, FloorIs
    <3> QED BY <1>0, <1>2, <1>3, <2>5, <2>8, <3>1 DEF Q!Board, Q!MayLeaveLater
  <2> HIDE DEF bb
  <2>10. /\ Q!Round(e) \in Int /\ Q!Ceil(m) \in Int /\ Q!Ceil(m) >= Q!Round(e) /\ Q!Floor(e) \in Int /\ Q!Floor(e) <= Q!Round(e)
         /\ 8 * Q!Round(e) <= e + 4
    <3>1. Q!Round(e) \in Int /\ 8 * Q!Round(e) <= e + 4 /\ e - 4 <= 8 * Q!Round(e)
      BY <2>5, RoundIs
    <3>2. Q!Ceil(m) \in Int /\ 8 * Q!Ceil(m) >= m
      BY <2>7, CeilIs
    <3>3. Q!Floor(e) \in Int /\ 8 * Q!Floor(e) <= e
      BY <2>5, FloorIs
    <3> DEFINE rr == Q!Round(e)
               cc == Q!Ceil(m)
               ff == Q!Floor(e)
    <3> HIDE DEF rr, cc, ff
    <3>4. rr \in Int /\ 8 * rr <= e + 4 /\ e - 4 <= 8 * rr /\ cc \in Int /\ 8 * cc >= m /\ ff \in Int /\ 8 * ff <= e
      BY <3>1, <3>2, <3>3 DEF rr, cc, ff
    <3>5. cc >= rr /\ ff <= rr
      BY <2>5, <2>7, <3>4
    <3> QED BY <3>4, <3>5 DEF rr, cc, ff
  <2>11. r \in MovedRows /\ r.row \in Q!Rows(r.trip) /\ r.trip = 1 /\ r.row = i /\ r.board = bb /\ r.expected = Q!Round(e) /\ r.late = Q!Ceil(m)
    BY <1>2, <2>9, <2>10 DEF MovedRows
  <2> HIDE DEF r
  <2>12. GoodRow(r)
    <3>1. r.late >= r.expected /\ r.row \in Q!Rows(r.trip)
      BY <2>10, <2>11
    <3>2. r.board < Unboardable => r.board <= r.expected
      BY <2>9, <2>10, <2>11, <1>0
    <3>3. ~(r.trip = 2 \/ v3.waiting)
      BY <2>11
    <3>4. r.board < Unboardable /\ r.board > v1[r.trip].board[r.row] =>
            /\ r.trip = 1 /\ ~v3.waiting /\ v1[1].dist[r.row] > v3.dist
            /\ r.expected - v4 <= LeaveLaterWithin + 1
      <4> SUFFICES ASSUME bb < Unboardable, bb > b PROVE d > v3.dist /\ Q!Round(e) - v4 <= LeaveLaterWithin + 1
        BY <2>11
      <4>1. d > v3.dist /\ e - 8 * v4 <= 8 * LeaveLaterWithin
        BY <2>9
      <4> DEFINE rr == Q!Round(e)
      <4>2. rr \in Int /\ 8 * rr <= e + 4
        BY <2>10
      <4> HIDE DEF rr
      <4>3. rr - v4 <= LeaveLaterWithin + 1
        BY <1>0, <2>5, <4>1, <4>2
      <4> QED BY <4>1, <4>3 DEF rr
    <3> QED BY <2>11, <3>1, <3>2, <3>3, <3>4 DEF GoodRow
  <2>13. a \in RunAcc /\ a.out = acc.out \union {r} /\ a.previous = e
    BY <1>1, <2>2, <2>5, <2>6, <2>11 DEF RunAcc
  <2>14. i \notin RunBeyond
    BY <1>6 DEF RunBeyond
  <2>15. Done({r})
    BY <2>5, <2>11, <2>12, <2>13, <2>14 DEF TimeStep
  <2> QED BY <2>11, <2>15
<1> QED BY <1>4, <1>5, <1>6

StartBeyond(t) == {i \in Q!Rows(t) : Q!Ahead(v1[t].sched[i] - v1[t].sched[1], v5 - 8 * v1[t].expected[1]) = {}}
StartAcc == [out : SUBSET MovedRows, previous : Int]

LEMMA StartRowIs ==
  ASSUME v1 \in Duties, v2 \in Calibrations, Q!FixOK, v4 \in Int, v5 \in Int,
         NEW t \in 1 .. 2, t = 2 \/ v3.waiting, NEW i \in Q!Rows(t), NEW acc \in StartAcc
  PROVE  /\ Q!StartRow(t, acc, i) \in StartAcc
         /\ \E D \in SUBSET MovedRows : /\ Q!StartRow(t, acc, i).out = acc.out \union D
                                        /\ TimeStep(t, StartBeyond(t), i, acc.previous, Q!StartRow(t, acc, i).previous, D)
<1> DEFINE trip == v1[t]
           x == v5 - 8 * trip.expected[1]
           s == trip.sched[i] - trip.sched[1]
           p == acc.previous
           a == Q!StartRow(t, acc, i)
           u == trip.expected[i]
           l == trip.late[i]
           Done(D) == a \in StartAcc /\ a.out = acc.out \union D /\ TimeStep(t, StartBeyond(t), i, p, a.previous, D)
<1>1. p \in Int /\ acc.out \in SUBSET MovedRows
  BY DEF StartAcc
<1>2. u \in Nat /\ trip.board[i] \in Int /\ l \in Int /\ l >= u /\ i \in Nat /\ s \in Int /\ x \in Int
  <2>1. /\ v1[t].board \in [Q!Rows(t) -> Int] /\ v1[t].late \in [Q!Rows(t) -> Int] /\ v1[t].expected \in [Q!Rows(t) -> Nat]
        /\ v1[t].sched \in [Q!Rows(t) -> Int] /\ Q!Rows(t) = 1 .. Len(v1[t].sched)
        /\ Len(v1[t].sched) \in Nat /\ Len(v1[t].sched) > 1
        /\ \A j \in Q!Rows(t) : v1[t].late[j] >= v1[t].expected[j]
    BY TripsAreTrips
  <2>2. 1 \in Q!Rows(t) /\ i \in Nat
    BY <2>1
  <2> DEFINE V == Q!Rows(t)
  <2> HIDE DEF V
  <2>3. trip.sched[i] \in Int /\ trip.sched[1] \in Int /\ trip.expected[1] \in Nat /\ u \in Nat
    <3>1. trip.sched \in [V -> Int] /\ trip.expected \in [V -> Nat] /\ i \in V /\ 1 \in V
      BY <2>1, <2>2 DEF V
    <3> HIDE DEF trip
    <3> QED BY <3>1
  <2>4. trip.board[i] \in Int /\ l \in Int /\ l >= u
    BY <2>1, <2>2
  <2> HIDE DEF trip
  <2> QED BY <2>2, <2>3, <2>4
<1>3. CASE Q!Ahead(s, x) = {}
  <2> DEFINE D == Q!InOrderRow(t, i, p)
  <2>1. a = [acc EXCEPT !.out = acc.out \union D]
    BY <1>3 DEF Q!StartRow
  <2>2. \/ D = {} /\ 8 * u >= p
        \/ /\ 8 * u < p
           /\ \E r \in MovedRows : D = {r} /\ r.trip = t /\ r.row = i /\ r.expected = Q!Ceil(p) /\ GoodRow(r)
    BY <1>1, InOrderIs
  <2> HIDE DEF D
  <2>3. D \in SUBSET MovedRows
    BY <2>2
  <2>4. a \in StartAcc /\ a.out = acc.out \union D /\ a.previous = p
    BY <1>1, <2>1, <2>3 DEF StartAcc
  <2>5. i \in StartBeyond(t)
    BY <1>3 DEF StartBeyond
  <2>6. Done(D)
    BY <2>2, <2>4, <2>5 DEF TimeStep
  <2> QED BY <2>3, <2>6
<1>4. CASE Q!Ahead(s, x) # {}
  <2>1. PICK q \in Quantiles : Q!Ahead(s, x) = {q}
    BY <1>2, <1>4, AheadIs
  <2> DEFINE usual == 8 * u + q.carried
             e == IF i = 1 THEN v5 ELSE Q!Greatest(usual + q.mid, p)
             late == IF i = 1 THEN v5 + q.high - q.mid ELSE usual + q.high
             m == Q!StartLate(late, e, l)
             r == [trip |-> t, row |-> i, board |-> trip.board[i], expected |-> Q!Round(e), late |-> m]
  <2>2. a = [out |-> acc.out \union {r}, previous |-> e]
    <3>1. (CHOOSE z \in {q} : TRUE) = q
      OBVIOUS
    <3> QED BY <1>4, <2>1, <3>1, ZenonT(40) DEF Q!StartRow, Q!Row
  <2>3. q.carried \in Int /\ q.low \in Int /\ q.mid \in Int /\ q.high \in Int
    BY DEF Quantiles
  <2>4. usual \in Int
    BY <1>2, <2>3
  <2> HIDE DEF usual
  <2>5. e \in Int /\ (i > 1 => e >= p) /\ late \in Int
    BY <1>1, <1>2, <2>3, <2>4 DEF Q!Greatest
  <2> HIDE DEF e, late
  <2>6. m \in Int /\ m >= Q!Round(e) /\ m >= l /\ Q!Round(e) \in Int
    <3> DEFINE g == Q!Greatest(Q!Greatest(late, e), 8 * l)
               rr == Q!Round(e)
               cc == Q!Ceil(g)
    <3>1. g \in Int /\ g >= e /\ g >= 8 * l
      BY <1>2, <2>5 DEF Q!Greatest
    <3> HIDE DEF g
    <3>2. cc \in Int /\ 8 * cc >= g
      BY <3>1, CeilIs
    <3>3. rr \in Int /\ 8 * rr <= e + 4
      BY <2>5, RoundIs
    <3>4. m = cc
      BY DEF Q!StartLate, g
    <3> HIDE DEF rr, cc, m, l
    <3>5. cc >= rr /\ cc >= l
      BY <1>2, <2>5, <3>1, <3>2, <3>3 DEF l
    <3> QED BY <3>2, <3>3, <3>4, <3>5 DEF rr
  <2> HIDE DEF m
  <2>7. r \in MovedRows /\ r.row \in Q!Rows(r.trip) /\ r.trip = t /\ r.row = i /\ r.board = trip.board[i] /\ r.expected = Q!Round(e) /\ r.late = m
    BY <1>2, <2>6 DEF MovedRows
  <2> HIDE DEF r
  <2>8. GoodRow(r)
    <3>1. ~(r.board > v1[r.trip].board[r.row])
      BY <1>2, <2>7
    <3>2. ~(r.trip = 1 /\ ~v3.waiting)
      BY <2>7
    <3> QED BY <2>6, <2>7, <3>1, <3>2 DEF GoodRow
  <2>9. a \in StartAcc /\ a.out = acc.out \union {r} /\ a.previous = e
    BY <1>1, <2>2, <2>5, <2>7 DEF StartAcc
  <2>10. i \notin StartBeyond(t)
    BY <1>4 DEF StartBeyond
  <2>11. Done({r})
    BY <2>5, <2>7, <2>8, <2>9, <2>10 DEF TimeStep
  <2> QED BY <2>7, <2>11
<1> QED BY <1>3, <1>4

RunBase == [out |-> {}, previous |-> Q!Never, arrival |-> Q!Never]

\* The running trip's rows are moved by such steps.
LEMMA RunSteps ==
  ASSUME v1 \in Duties, v2 \in Calibrations, Q!FixOK, ~v3.waiting, v4 \in Int
  PROVE  LET run == Q!Fold(Q!RunRow, RunBase, Q!Indices(v1[1].sched))
         IN  run.arrival \in Int /\ \E p, D : TimeSteps(1, RunBeyond, p, D) /\ run.out = AllOf(1, D)
<1> DEFINE V == Q!Rows(1)
           n == Len(v1[1].sched)
           ids == Q!Indices(v1[1].sched)
           g == [z \in RunAcc \X V |-> Q!RunRow(z[1], z[2])]
           E == 0 .. Len(ids)
           e(f, i) == IF i = 0 THEN RunBase ELSE CHOOSE r \in {Q!RunRow(s, ids[i]) : s \in {f[i - 1]}} : TRUE
           after == CHOOSE f : f = [i \in E |-> e(f, i)]
<1>0. n \in Nat /\ n > 1 /\ V = 1 .. n
  <2>1. 1 \in 1 .. 2
    OBVIOUS
  <2> QED BY <2>1, TripsAreTrips
<1>1. ids \in Seq(V) /\ Len(ids) = n /\ \A i \in 1 .. n : ids[i] = i
  <2>1. ids = [i \in 1 .. n |-> i]
    BY DEF Q!Indices
  <2> HIDE DEF ids, n
  <2> QED BY <1>0, <2>1
<1>2. RunBase \in RunAcc /\ RunBase.out = {}
  BY DEF RunBase, RunAcc, Q!Never
<1>3. \A z \in RunAcc, i \in V : Q!RunRow(z, i) \in RunAcc
  BY RunRowIs
<1>4. g \in [RunAcc \X V -> RunAcc]
  <2> HIDE DEF V
  <2> QED BY <1>3
<1>5. PICK f \in [E -> RunAcc] : f[0] = RunBase /\ \A i \in 1 .. Len(ids) : f[i] = g[<<f[i - 1], ids[i]>>]
  <2> HIDE DEF g, ids, V
  <2>1. \E f : Folded(f, RunAcc, g, RunBase, ids)
    BY <1>1, <1>2, <1>4, FoldExists
  <2> QED BY <2>1 DEF Folded
<1>6. ASSUME NEW i \in 1 .. n PROVE f[i] = Q!RunRow(f[i - 1], i) /\ f[i - 1] \in RunAcc /\ i \in V /\ ids[i] = i
  <2>1. i - 1 \in E /\ i \in V /\ ids[i] = i /\ i \in 1 .. Len(ids)
    BY <1>0, <1>1
  <2>2. f[i - 1] \in RunAcc
    BY <1>5, <2>1
  <2> HIDE DEF ids, V
  <2>3. f[i] = g[<<f[i - 1], ids[i]>>] /\ <<f[i - 1], ids[i]>> \in RunAcc \X V
    BY <1>5, <2>1, <2>2
  <2> QED BY <2>1, <2>2, <2>3
<1> HIDE DEF g
<1>7. \A i \in E : f[i] = e(f, i)
  <2> SUFFICES ASSUME NEW i \in E, i # 0 PROVE f[i] = CHOOSE r \in {Q!RunRow(s, ids[i]) : s \in {f[i - 1]}} : TRUE
    BY <1>5
  <2>0. i \in 1 .. n
    BY <1>0, <1>1
  <2>1. f[i] = Q!RunRow(f[i - 1], ids[i])
    BY <1>6, <2>0
  <2> HIDE DEF ids
  <2> QED BY <2>1
<1>8. f = [i \in E |-> e(f, i)]
  <2> HIDE DEF e, E
  <2> QED BY <1>5, <1>7
<1>9. after = [i \in E |-> e(after, i)]
  <2> HIDE DEF e, E
  <2> QED BY <1>8
<1>10. Q!Fold(Q!RunRow, RunBase, ids) = after[Len(ids)]
  BY DEF Q!Fold
<1>11. after[Len(ids)] = f[Len(ids)]
  <2>1. after[0] = f[0] /\ Len(ids) \in Nat
    <3>1. Len(ids) \in Nat /\ f[0] = RunBase
      BY <1>0, <1>1, <1>5
    <3>2. 0 \in E
      BY <3>1
    <3>3. after[0] = e(after, 0)
      <4> HIDE DEF e, after, E
      <4> QED BY <1>9, <3>2
    <3> QED BY <3>1, <3>3
  <2>2. ASSUME NEW i \in 1 .. Len(ids), after[i - 1] = f[i - 1] PROVE after[i] = f[i]
    <3>1. i \in E /\ i # 0
      BY <1>0, <1>1
    <3>2. after[i] = e(after, i) /\ f[i] = e(f, i)
      <4> HIDE DEF e, after, E
      <4> QED BY <1>7, <1>9, <3>1
    <3> HIDE DEF after, ids
    <3> QED BY <2>2, <3>2
  <2> HIDE DEF after, ids
  <2> QED BY <2>1, <2>2, Agree
<1> HIDE DEF after, e
<1> DEFINE run == Q!Fold(Q!RunRow, RunBase, ids)
<1>12. run = f[n]
  BY <1>1, <1>10, <1>11
<1>13. run \in RunAcc
  <2>1. n \in E
    BY <1>0, <1>1
  <2> HIDE DEF run, E
  <2> QED BY <1>5, <1>12, <2>1
<1> DEFINE Adds(i, D) == f[i].out = f[i - 1].out \union D /\ TimeStep(1, RunBeyond, i, f[i - 1].previous, f[i].previous, D)
           added == [i \in V |-> CHOOSE D : Adds(i, D)]
           p == [i \in 0 .. n |-> f[i].previous]
           outs == [i \in 0 .. n |-> f[i].out]
<1>14. \A i \in V : Adds(i, added[i])
  <2> SUFFICES ASSUME NEW i \in V PROVE \E D : Adds(i, D)
    OBVIOUS
  <2>1. f[i] = Q!RunRow(f[i - 1], i) /\ f[i - 1] \in RunAcc
    BY <1>0, <1>6
  <2> HIDE DEF V
  <2>2. \E D \in SUBSET MovedRows : /\ Q!RunRow(f[i - 1], i).out = f[i - 1].out \union D
                                    /\ TimeStep(1, RunBeyond, i, f[i - 1].previous, Q!RunRow(f[i - 1], i).previous, D)
    BY <2>1, RunRowIs DEF V
  <2> QED BY <2>1, <2>2
<1>15. TimeSteps(1, RunBeyond, p, added)
  <2>1. \A i \in 0 .. n : f[i] \in RunAcc
    BY <1>1, <1>5
  <2>2. p \in [0 .. n -> Int]
    BY <2>1 DEF RunAcc
  <2>3. \A i \in V : TimeStep(1, RunBeyond, i, p[i - 1], p[i], added[i])
    <3> SUFFICES ASSUME NEW i \in V PROVE TimeStep(1, RunBeyond, i, p[i - 1], p[i], added[i])
      OBVIOUS
    <3>1. i \in 0 .. n /\ i - 1 \in 0 .. n
      BY <1>0
    <3>2. p[i - 1] = f[i - 1].previous /\ p[i] = f[i].previous
      BY <3>1
    <3> HIDE DEF p, added, V
    <3> QED BY <1>14, <3>2
  <2>4. \A i, j \in V : i \in RunBeyond /\ i <= j => j \in RunBeyond
    <3> SUFFICES ASSUME NEW i \in V, NEW j \in V, i \in RunBeyond, i <= j PROVE j \in RunBeyond
      OBVIOUS
    <3> DEFINE c == v3.seen - v3.delay
               x == 8 * v3.delay - Q!Usual(v1[1], v3.dist)
    <3>1. v1[1].sched[i] \in Int /\ v1[1].sched[j] \in Int /\ v1[1].sched[i] <= v1[1].sched[j] /\ c \in Int
      <4>1. 1 \in 1 .. 2
        OBVIOUS
      <4>2. v1[1].sched \in [V -> Int] /\ v1[1].sched[i] <= v1[1].sched[j]
        BY <4>1, TripsAreTrips
      <4>3. v3.seen \in Int /\ v3.delay \in Int
        BY DEF Q!FixOK
      <4> HIDE DEF V
      <4>4. v1[1].sched[i] \in Int /\ v1[1].sched[j] \in Int
        BY <4>2
      <4> QED BY <4>2, <4>3, <4>4
    <3> HIDE DEF c, V
    <3>2. Q!Ahead(v1[1].sched[i] - c, x) = {}
      BY DEF RunBeyond, c
    <3>3. v1[1].sched[i] - c \in Int /\ v1[1].sched[j] - c \in Int /\ v1[1].sched[i] - c <= v1[1].sched[j] - c
      BY <3>1
    <3> HIDE DEF x
    <3>4. Q!Ahead(v1[1].sched[j] - c, x) = {}
      BY <3>2, <3>3, AheadGone
    <3> QED BY <3>4 DEF RunBeyond, c, x, V
  <2>5. RunBeyond \subseteq V
    BY DEF RunBeyond
  <2> HIDE DEF p, added
  <2> QED BY <2>2, <2>3, <2>4, <2>5 DEF TimeSteps
<1>16. run.out = AllOf(1, added)
  <2>1. outs[0] = {} /\ outs[n] = run.out
    <3>1. n \in Nat /\ f[0].out = {} /\ run = f[n]
      BY <1>0, <1>2, <1>5, <1>12
    <3> HIDE DEF n, run
    <3> QED BY <3>1
  <2>2. \A i \in 1 .. n : outs[i] = outs[i - 1] \union added[i]
    <3> SUFFICES ASSUME NEW i \in 1 .. n PROVE outs[i] = outs[i - 1] \union added[i]
      OBVIOUS
    <3>1. i \in 0 .. n /\ i - 1 \in 0 .. n /\ i \in V
      BY <1>0
    <3>2. outs[i - 1] = f[i - 1].out /\ outs[i] = f[i].out
      BY <3>1
    <3> HIDE DEF outs, added, V
    <3> QED BY <1>14, <3>1, <3>2
  <2> HIDE DEF outs, added, run, V
  <2>3. \A x : x \in outs[n] <=> \E i \in 1 .. n : x \in added[i]
    <3>1. n \in Nat /\ outs[0] = {}
      BY <1>0, <2>1
    <3> HIDE DEF n
    <3>2. Grows(n, outs, added)
      BY <2>2, <3>1 DEF Grows
    <3> QED BY <3>2, Collected DEF Gathered
  <2>4. V = 1 .. n
    BY <1>0
  <2> QED BY <2>1, <2>3, <2>4 DEF AllOf, V
<1>17. run.arrival \in Int
  BY <1>13 DEF RunAcc
<1> HIDE DEF run, added, p
<1>18. \E q, D : TimeSteps(1, RunBeyond, q, D) /\ run.out = AllOf(1, D)
  BY <1>15, <1>16
<1> QED BY <1>17, <1>18 DEF run

StartBase == [out |-> {}, previous |-> Q!Never]

\* And so are those of a trip that will leave late.
LEMMA StartSteps ==
  ASSUME v1 \in Duties, v2 \in Calibrations, Q!FixOK, v4 \in Int, v5 \in Int, NEW t \in 1 .. 2, t = 2 \/ v3.waiting
  PROVE  LET Step(acc, row) == Q!StartRow(t, acc, row)
             moved == Q!Fold(Step, StartBase, Q!Indices(v1[t].sched))
         IN  \E p, D : TimeSteps(t, StartBeyond(t), p, D) /\ moved.out = AllOf(t, D)
<1> DEFINE Step(acc, row) == Q!StartRow(t, acc, row)
           V == Q!Rows(t)
           n == Len(v1[t].sched)
           ids == Q!Indices(v1[t].sched)
           g == [z \in StartAcc \X V |-> Q!StartRow(t, z[1], z[2])]
           E == 0 .. Len(ids)
           e(f, i) == IF i = 0 THEN StartBase ELSE CHOOSE r \in {Q!StartRow(t, s, ids[i]) : s \in {f[i - 1]}} : TRUE
           after == CHOOSE f : f = [i \in E |-> e(f, i)]
<1>0. n \in Nat /\ n > 1 /\ V = 1 .. n
  BY TripsAreTrips
<1>1. ids \in Seq(V) /\ Len(ids) = n /\ \A i \in 1 .. n : ids[i] = i
  <2>1. ids = [i \in 1 .. n |-> i]
    BY DEF Q!Indices
  <2> HIDE DEF ids, n
  <2> QED BY <1>0, <2>1
<1>2. StartBase \in StartAcc /\ StartBase.out = {}
  BY DEF StartBase, StartAcc, Q!Never
<1>3. \A z \in StartAcc, i \in V : Q!StartRow(t, z, i) \in StartAcc
  BY StartRowIs
<1>4. g \in [StartAcc \X V -> StartAcc]
  <2> HIDE DEF V
  <2> QED BY <1>3
<1>5. PICK f \in [E -> StartAcc] : f[0] = StartBase /\ \A i \in 1 .. Len(ids) : f[i] = g[<<f[i - 1], ids[i]>>]
  <2> HIDE DEF g, ids, V
  <2>1. \E f : Folded(f, StartAcc, g, StartBase, ids)
    BY <1>1, <1>2, <1>4, FoldExists
  <2> QED BY <2>1 DEF Folded
<1>6. ASSUME NEW i \in 1 .. n PROVE f[i] = Q!StartRow(t, f[i - 1], i) /\ f[i - 1] \in StartAcc /\ i \in V /\ ids[i] = i
  <2>1. i - 1 \in E /\ i \in V /\ ids[i] = i /\ i \in 1 .. Len(ids)
    BY <1>0, <1>1
  <2>2. f[i - 1] \in StartAcc
    BY <1>5, <2>1
  <2> HIDE DEF ids, V
  <2>3. f[i] = g[<<f[i - 1], ids[i]>>] /\ <<f[i - 1], ids[i]>> \in StartAcc \X V
    BY <1>5, <2>1, <2>2
  <2> QED BY <2>1, <2>2, <2>3
<1> HIDE DEF g
<1>7. \A i \in E : f[i] = e(f, i)
  <2> SUFFICES ASSUME NEW i \in E, i # 0 PROVE f[i] = CHOOSE r \in {Q!StartRow(t, s, ids[i]) : s \in {f[i - 1]}} : TRUE
    BY <1>5
  <2>0. i \in 1 .. n
    BY <1>0, <1>1
  <2>1. f[i] = Q!StartRow(t, f[i - 1], ids[i])
    BY <1>6, <2>0
  <2> HIDE DEF ids
  <2> QED BY <2>1
<1>8. f = [i \in E |-> e(f, i)]
  <2> HIDE DEF e, E
  <2> QED BY <1>5, <1>7
<1>9. after = [i \in E |-> e(after, i)]
  <2> HIDE DEF e, E
  <2> QED BY <1>8
<1>10. Q!Fold(Step, StartBase, ids) = after[Len(ids)]
  BY DEF Q!Fold
<1>11. after[Len(ids)] = f[Len(ids)]
  <2>1. after[0] = f[0] /\ Len(ids) \in Nat
    <3>1. Len(ids) \in Nat /\ f[0] = StartBase
      BY <1>0, <1>1, <1>5
    <3>2. 0 \in E
      BY <3>1
    <3>3. after[0] = e(after, 0)
      <4> HIDE DEF e, after, E
      <4> QED BY <1>9, <3>2
    <3> QED BY <3>1, <3>3
  <2>2. ASSUME NEW i \in 1 .. Len(ids), after[i - 1] = f[i - 1] PROVE after[i] = f[i]
    <3>1. i \in E /\ i # 0
      BY <1>0, <1>1
    <3>2. after[i] = e(after, i) /\ f[i] = e(f, i)
      <4> HIDE DEF e, after, E
      <4> QED BY <1>7, <1>9, <3>1
    <3> HIDE DEF after, ids
    <3> QED BY <2>2, <3>2
  <2> HIDE DEF after, ids
  <2> QED BY <2>1, <2>2, Agree
<1> HIDE DEF after, e
<1> DEFINE moved == Q!Fold(Step, StartBase, ids)
<1>12. moved = f[n]
  BY <1>1, <1>10, <1>11
<1>13. moved \in StartAcc
  <2>1. n \in E
    BY <1>0, <1>1
  <2> HIDE DEF moved, E
  <2> QED BY <1>5, <1>12, <2>1
<1> DEFINE Adds(i, D) == f[i].out = f[i - 1].out \union D /\ TimeStep(t, StartBeyond(t), i, f[i - 1].previous, f[i].previous, D)
           added == [i \in V |-> CHOOSE D : Adds(i, D)]
           p == [i \in 0 .. n |-> f[i].previous]
           outs == [i \in 0 .. n |-> f[i].out]
<1>14. \A i \in V : Adds(i, added[i])
  <2> SUFFICES ASSUME NEW i \in V PROVE \E D : Adds(i, D)
    OBVIOUS
  <2>1. f[i] = Q!StartRow(t, f[i - 1], i) /\ f[i - 1] \in StartAcc
    BY <1>0, <1>6
  <2> HIDE DEF V
  <2>2. \E D \in SUBSET MovedRows : /\ Q!StartRow(t, f[i - 1], i).out = f[i - 1].out \union D
                                    /\ TimeStep(t, StartBeyond(t), i, f[i - 1].previous, Q!StartRow(t, f[i - 1], i).previous, D)
    BY <2>1, StartRowIs DEF V
  <2> QED BY <2>1, <2>2
<1>15. TimeSteps(t, StartBeyond(t), p, added)
  <2>1. \A i \in 0 .. n : f[i] \in StartAcc
    BY <1>1, <1>5
  <2>2. p \in [0 .. n -> Int]
    BY <2>1 DEF StartAcc
  <2>3. \A i \in V : TimeStep(t, StartBeyond(t), i, p[i - 1], p[i], added[i])
    <3> SUFFICES ASSUME NEW i \in V PROVE TimeStep(t, StartBeyond(t), i, p[i - 1], p[i], added[i])
      OBVIOUS
    <3>1. i \in 0 .. n /\ i - 1 \in 0 .. n
      BY <1>0
    <3>2. p[i - 1] = f[i - 1].previous /\ p[i] = f[i].previous
      BY <3>1
    <3> HIDE DEF p, added, V
    <3> QED BY <1>14, <3>2
  <2>4. \A i, j \in V : i \in StartBeyond(t) /\ i <= j => j \in StartBeyond(t)
    <3> SUFFICES ASSUME NEW i \in V, NEW j \in V, i \in StartBeyond(t), i <= j PROVE j \in StartBeyond(t)
      OBVIOUS
    <3> DEFINE c == v1[t].sched[1]
               x == v5 - 8 * v1[t].expected[1]
    <3>1. v1[t].sched[i] \in Int /\ v1[t].sched[j] \in Int /\ v1[t].sched[i] <= v1[t].sched[j] /\ c \in Int
      <4>1. v1[t].sched \in [V -> Int] /\ v1[t].sched[i] <= v1[t].sched[j]
        BY TripsAreTrips
      <4>2. 1 \in V
        BY <1>0
      <4> QED BY <4>1, <4>2
    <3> HIDE DEF c, V
    <3>2. Q!Ahead(v1[t].sched[i] - c, x) = {}
      BY DEF StartBeyond, c
    <3>3. v1[t].sched[i] - c \in Int /\ v1[t].sched[j] - c \in Int /\ v1[t].sched[i] - c <= v1[t].sched[j] - c
      BY <3>1
    <3> HIDE DEF x
    <3>4. Q!Ahead(v1[t].sched[j] - c, x) = {}
      BY <3>2, <3>3, AheadGone
    <3> QED BY <3>4 DEF StartBeyond, c, x, V
  <2>5. StartBeyond(t) \subseteq V
    BY DEF StartBeyond
  <2> HIDE DEF p, added
  <2> QED BY <2>2, <2>3, <2>4, <2>5 DEF TimeSteps
<1>16. moved.out = AllOf(t, added)
  <2>1. outs[0] = {} /\ outs[n] = moved.out
    <3>1. n \in Nat /\ f[0].out = {} /\ moved = f[n]
      BY <1>0, <1>2, <1>5, <1>12
    <3> HIDE DEF n, moved
    <3> QED BY <3>1
  <2>2. \A i \in 1 .. n : outs[i] = outs[i - 1] \union added[i]
    <3> SUFFICES ASSUME NEW i \in 1 .. n PROVE outs[i] = outs[i - 1] \union added[i]
      OBVIOUS
    <3>1. i \in 0 .. n /\ i - 1 \in 0 .. n /\ i \in V
      BY <1>0
    <3>2. outs[i - 1] = f[i - 1].out /\ outs[i] = f[i].out
      BY <3>1
    <3> HIDE DEF outs, added, V
    <3> QED BY <1>14, <3>1, <3>2
  <2> HIDE DEF outs, added, moved, V
  <2>3. \A x : x \in outs[n] <=> \E i \in 1 .. n : x \in added[i]
    <3>1. n \in Nat /\ outs[0] = {}
      BY <1>0, <2>1
    <3> HIDE DEF n
    <3>2. Grows(n, outs, added)
      BY <2>2, <3>1 DEF Grows
    <3> QED BY <3>2, Collected DEF Gathered
  <2>4. V = 1 .. n
    BY <1>0
  <2> QED BY <2>1, <2>3, <2>4 DEF AllOf, V
<1> HIDE DEF moved, added, p
<1>17. \E q, D : TimeSteps(t, StartBeyond(t), q, D) /\ moved.out = AllOf(t, D)
  BY <1>15, <1>16
<1> QED BY <1>17 DEF moved

\* What of the state a step of neither handler touches.
LEMMA ExpectedIs ==
  /\ \A t, i : Q!Expected(t, i) = ExpectedIn(v6, t, i)
  /\ v1' = v1 => \A t, i : Q!Expected(t, i)' = ExpectedIn(v6', t, i)
BY DEF Q!Expected, Q!IsMoved, Q!MovedRow, ExpectedIn

\* Rows of a trip none of whose rows was moved yet, moved by steps, keep the invariant.
LEMMA TimesMoved ==
  ASSUME Q!TimesInv, UNCHANGED <<v1, v2, v3, v4>>, NEW t \in 1 .. 2, NEW B, NEW p, NEW D, TimeSteps(t, B, p, D),
         \A r \in v6 : r.trip # t, v6' = v6 \union AllOf(t, D), v5' \in Int, v7' \in {"starting", "done"},
         v7' = "starting" => \A r \in v6' : r.trip = 1 /\ ~v3.waiting
  PROVE  Q!TimesInv'
<1>0. /\ v1 \in Duties /\ v2 \in Calibrations /\ Q!FixOK /\ v4 \in Int /\ v6 \subseteq MovedRows
      /\ \A r \in v6 : r.row \in Q!Rows(r.trip)
      /\ \A r, s \in v6 : r.trip = s.trip /\ r.row = s.row => r = s
  BY DEF Q!TimesInv, MovedRows
<1>1. \A r \in AllOf(t, D) : \E i \in Q!Rows(t) : r \in D[i] /\ D[i] = {r} /\ r \in MovedRows /\ r.trip = t /\ r.row = i /\ GoodRow(r)
  BY <1>0, StepsMoved DEF AllOf
<1>2. \A u : Q!Rows(u)' = Q!Rows(u)
  BY DEF Q!Rows
<1>3. Q!FixOK'
  BY <1>0 DEF Q!FixOK
<1>4. v6' \subseteq MovedRows /\ \A r \in v6' : r.row \in Q!Rows(r.trip)'
  <2> SUFFICES ASSUME NEW r \in v6' PROVE r \in MovedRows /\ r.row \in Q!Rows(r.trip)
    BY <1>2
  <2>1. CASE r \in v6
    BY <1>0, <2>1
  <2>2. CASE r \in AllOf(t, D)
    BY <1>1, <2>2
  <2> QED BY <2>1, <2>2
<1>5. ASSUME NEW r \in v6', NEW s \in v6', r.trip = s.trip, r.row = s.row PROVE r = s
  <2>1. CASE r \in v6 /\ s \in v6
    BY <1>0, <1>5, <2>1
  <2>2. CASE r \in AllOf(t, D) /\ s \in AllOf(t, D)
    <3>1. PICK i \in Q!Rows(t) : D[i] = {r} /\ r.row = i
      BY <1>1, <2>2
    <3>2. PICK j \in Q!Rows(t) : D[j] = {s} /\ s.row = j
      BY <1>1, <2>2
    <3> QED BY <1>5, <3>1, <3>2
  <2>3. CASE r \in v6 /\ s \in AllOf(t, D)
    BY <1>1, <1>5, <2>3
  <2>4. CASE r \in AllOf(t, D) /\ s \in v6
    BY <1>1, <1>5, <2>4
  <2> QED BY <2>1, <2>2, <2>3, <2>4
<1>6. ASSUME NEW u \in 1 .. 2, NEW i \in Q!Rows(u), i + 1 \in Q!Rows(u), ~Q!Passed(u, i)
      PROVE  ExpectedIn(v6', u, i) <= ExpectedIn(v6', u, i + 1)
  <2>1. CASE u = t
    BY <1>0, <1>6, <2>1, StepsInOrder
  <2>2. CASE u # t
    <3>1. \A j : ExpectedIn(v6', u, j) = ExpectedIn(v6, u, j)
      <4> SUFFICES ASSUME NEW j PROVE ExpectedIn(v6', u, j) = ExpectedIn(v6, u, j)
        OBVIOUS
      <4>1. \A r : r \in v6' /\ r.trip = u /\ r.row = j <=> r \in v6 /\ r.trip = u /\ r.row = j
        BY <1>1, <2>2
      <4>2. (\E r \in v6' : r.trip = u /\ r.row = j) <=> \E r \in v6 : r.trip = u /\ r.row = j
        BY <4>1
      <4>3. (CHOOSE r \in v6' : r.trip = u /\ r.row = j) = CHOOSE r \in v6 : r.trip = u /\ r.row = j
        BY <4>1
      <4> QED BY <4>2, <4>3 DEF ExpectedIn
    <3>2. Q!Expected(u, i) <= Q!Expected(u, i + 1)
      BY <1>6 DEF Q!TimesInv
    <3> QED BY <3>1, <3>2, ExpectedIs
  <2> QED BY <2>1, <2>2
<1>7. \A u, i : Q!Passed(u, i)' = Q!Passed(u, i)
  BY DEF Q!Passed
<1>8. \A u \in 1 .. 2 : \A i \in Q!Rows(u)' :
        i + 1 \in Q!Rows(u)' /\ ~Q!Passed(u, i)' => Q!Expected(u, i)' <= Q!Expected(u, i + 1)'
  BY <1>2, <1>6, <1>7, ExpectedIs
<1>9. \A r \in v6' : GoodRow(r)
  <2> SUFFICES ASSUME NEW r \in v6' PROVE GoodRow(r)
    OBVIOUS
  <2>1. CASE r \in v6
    BY <1>0, <2>1 DEF Q!TimesInv, Q!TimesAgree, Q!PlanHolds, GoodRow
  <2>2. CASE r \in AllOf(t, D)
    BY <1>1, <2>2
  <2> QED BY <2>1, <2>2
<1>10. Q!TimesAgree'
  BY <1>9 DEF Q!TimesAgree, GoodRow
<1>11. Q!PlanHolds'
  BY <1>9 DEF Q!PlanHolds, GoodRow
<1> QED BY <1>0, <1>3, <1>4, <1>5, <1>8, <1>10, <1>11 DEF Q!TimesInv, MovedRows

LEMMA GivenKeeps == ASSUME Q!TimesInv, Q!Given PROVE Q!TimesInv'
<1>0. v1 \in Duties /\ v2 \in Calibrations /\ Q!FixOK /\ v4 \in Int /\ v6 = {} /\ v7 = "given"
  BY DEF Q!TimesInv, Q!Given
<1>1. v7' = "starting" /\ UNCHANGED <<v1, v2, v3, v4>>
  BY DEF Q!Given
<1>2. v2.turnaround \in Int
  <2>1. Q!CalibrationOK(v2)
    BY <1>0, TimesHold DEF Q!TimesAssumption
  <2> QED BY <2>1 DEF Q!CalibrationOK
<1>3. CASE v3.waiting
  <2>1. v6' = {} /\ v5' = IF v3.arrived = Q!Never THEN Q!Never ELSE 8 * (v3.arrived + v2.turnaround)
    BY <1>3 DEF Q!Given
  <2>2. v5' \in Int
    BY <1>0, <1>2, <2>1 DEF Q!FixOK, Q!Never
  <2>3. v6' = v6
    BY <1>0, <2>1
  <2>4. Q!FixOK' /\ Q!TimesAgree' /\ Q!PlanHolds'
    BY <1>0, <1>1, <2>1 DEF Q!FixOK, Q!TimesAgree, Q!PlanHolds
  <2>5. \A t \in 1 .. 2 : \A i \in Q!Rows(t)' :
          i + 1 \in Q!Rows(t)' /\ ~Q!Passed(t, i)' => Q!Expected(t, i)' <= Q!Expected(t, i + 1)'
    BY <1>1, <2>3 DEF Q!TimesInv, Q!Rows, Q!Passed, Q!Expected, Q!IsMoved, Q!MovedRow
  <2> QED BY <1>0, <1>1, <2>1, <2>2, <2>4, <2>5 DEF Q!TimesInv
<1>4. CASE ~v3.waiting
  <2> DEFINE run == Q!Fold(Q!RunRow, RunBase, Q!Indices(v1[1].sched))
  <2>1. v6' = run.out /\ v5' = IF run.arrival = Q!Never THEN Q!Never ELSE run.arrival + 8 * v2.turnaround
    BY <1>4 DEF Q!Given, RunBase
  <2>2. run.arrival \in Int /\ \E p, D : TimeSteps(1, RunBeyond, p, D) /\ run.out = AllOf(1, D)
    BY <1>0, <1>4, RunSteps
  <2> HIDE DEF run
  <2>3. v5' \in Int
    BY <1>2, <2>1, <2>2 DEF Q!Never
  <2>4. PICK p, D : TimeSteps(1, RunBeyond, p, D) /\ v6' = AllOf(1, D)
    BY <2>1, <2>2
  <2>5. \A r \in v6' : r.trip = 1
    BY <1>0, <2>4, StepsMoved DEF AllOf
  <2>6. v6' = v6 \union AllOf(1, D) /\ \A r \in v6 : r.trip # 1
    BY <1>0, <2>4
  <2>7. 1 \in 1 .. 2 /\ v7' \in {"starting", "done"}
    BY <1>1
  <2> QED BY <1>1, <1>4, <2>3, <2>4, <2>5, <2>6, <2>7, TimesMoved
<1> QED BY <1>3, <1>4

LEMMA StartingKeeps == ASSUME Q!TimesInv, Q!Starting PROVE Q!TimesInv'
<1>0. /\ v1 \in Duties /\ v2 \in Calibrations /\ Q!FixOK /\ v4 \in Int /\ v5 \in Int /\ v7 = "starting"
      /\ \A r \in v6 : r.trip = 1 /\ ~v3.waiting
  BY DEF Q!TimesInv, Q!Starting
<1>1. v7' = "done" /\ UNCHANGED <<v1, v2, v3, v4, v5>>
  BY DEF Q!Starting
<1> DEFINE t == IF v3.waiting THEN 1 ELSE 2
           Step(acc, row) == Q!StartRow(t, acc, row)
           moved == Q!Fold(Step, StartBase, Q!Indices(v1[t].sched))
<1>2. v6' = v6 \/ v6' = v6 \union moved.out
  BY DEF Q!Starting, StartBase
<1>3. t \in 1 .. 2 /\ (t = 2 \/ v3.waiting) /\ \A r \in v6 : r.trip # t
  BY <1>0
<1> HIDE DEF t
<1>4. \E p, D : TimeSteps(t, StartBeyond(t), p, D) /\ moved.out = AllOf(t, D)
  BY <1>0, <1>3, StartSteps
<1> HIDE DEF moved
<1>5. CASE v6' = v6
  <2>1. Q!FixOK' /\ Q!TimesAgree' /\ Q!PlanHolds'
    BY <1>1, <1>5 DEF Q!TimesInv, Q!FixOK, Q!TimesAgree, Q!PlanHolds
  <2>2. \A u \in 1 .. 2 : \A i \in Q!Rows(u)' :
          i + 1 \in Q!Rows(u)' /\ ~Q!Passed(u, i)' => Q!Expected(u, i)' <= Q!Expected(u, i + 1)'
    BY <1>1, <1>5 DEF Q!TimesInv, Q!Rows, Q!Passed, Q!Expected, Q!IsMoved, Q!MovedRow
  <2>3. \A r \in v6' : r.row \in Q!Rows(r.trip)'
    BY <1>1, <1>5 DEF Q!TimesInv, Q!Rows
  <2> QED BY <1>0, <1>1, <1>5, <2>1, <2>2, <2>3 DEF Q!TimesInv
<1>6. CASE v6' = v6 \union moved.out
  <2>1. PICK p, D : TimeSteps(t, StartBeyond(t), p, D) /\ v6' = v6 \union AllOf(t, D)
    BY <1>4, <1>6
  <2>2. v5' \in Int /\ v7' \in {"starting", "done"} /\ v7' # "starting"
    BY <1>0, <1>1
  <2> QED BY <1>1, <1>3, <2>1, <2>2, TimesMoved
<1> QED BY <1>2, <1>5, <1>6

LEMMA TimesStand == ASSUME Q!TimesInv, UNCHANGED <<v1, v2, v3, v4, v5, v6, v7>> PROVE Q!TimesInv'
<1>1. Q!FixOK' /\ Q!TimesAgree' /\ Q!PlanHolds'
  BY DEF Q!TimesInv, Q!FixOK, Q!TimesAgree, Q!PlanHolds
<1>2. \A u \in 1 .. 2 : \A i \in Q!Rows(u)' :
        i + 1 \in Q!Rows(u)' /\ ~Q!Passed(u, i)' => Q!Expected(u, i)' <= Q!Expected(u, i + 1)'
  BY DEF Q!TimesInv, Q!Rows, Q!Passed, Q!Expected, Q!IsMoved, Q!MovedRow
<1>3. \A r \in v6' : r.row \in Q!Rows(r.trip)'
  BY DEF Q!TimesInv, Q!Rows
<1> QED BY <1>1, <1>2, <1>3 DEF Q!TimesInv

LEMMA TimesStep == ASSUME Q!TimesInv, Q!Next PROVE Q!TimesInv'
<1>1. CASE v7 = "done" /\ UNCHANGED Q!vars
  <2>1. UNCHANGED <<v1, v2, v3, v4, v5, v6, v7>>
    BY <1>1 DEF Q!vars
  <2> QED BY <2>1, TimesStand
<1> QED BY <1>1, GivenKeeps, StartingKeeps DEF Q!Next

LEMMA TimesInitially == Q!Init => Q!TimesInv
<1> SUFFICES ASSUME Q!Init PROVE Q!TimesInv
  OBVIOUS
<1>0. v1 \in Duties /\ v2 \in Calibrations /\ v5 = Q!Never /\ v6 = {} /\ v7 = "given"
  BY SMTT(30) DEF Q!Init
<1> DEFINE trip == v1[1]
           n == Len(trip.sched)
<1>1. PICK delay \in Delays, i \in 1 .. n - 1, half \in BOOLEAN, waiting \in BOOLEAN, lag \in Lags :
        LET sched == trip.sched[i] + (IF half THEN (trip.sched[i + 1] - trip.sched[i]) \div 2 ELSE 0)
            seen == IF waiting THEN trip.sched[1] + delay ELSE sched + delay
        IN  /\ v3 = [dist |-> trip.dist[i] + (IF half THEN (trip.dist[i + 1] - trip.dist[i]) \div 2 ELSE 0),
                     delay |-> delay, seen |-> seen, waiting |-> waiting, arrived |-> IF waiting /\ ~half THEN seen - lag ELSE Q!Never]
            /\ v4 = seen + lag
  BY DEF Q!Init
<1> DEFINE gap == IF half THEN (trip.dist[i + 1] - trip.dist[i]) \div 2 ELSE 0
           sched == trip.sched[i] + (IF half THEN (trip.sched[i + 1] - trip.sched[i]) \div 2 ELSE 0)
           seen == IF waiting THEN trip.sched[1] + delay ELSE sched + delay
           V == Q!Rows(1)
<1>2. delay \in Int /\ lag \in Nat
  BY TimesHold DEF Q!TimesAssumption
<1>3. /\ n \in Nat /\ n > 1 /\ V = 1 .. n /\ trip.sched \in [V -> Int] /\ trip.expected \in [V -> Nat] /\ trip.dist \in [V -> Int]
      /\ \A j, k \in V : j <= k => trip.dist[j] <= trip.dist[k]
  <2>1. 1 \in 1 .. 2
    OBVIOUS
  <2> QED BY <1>0, <2>1, TripsAreTrips
<1>4. i \in V /\ i + 1 \in V /\ 1 \in V /\ n \in V /\ i <= i + 1 /\ 1 <= i /\ i + 1 <= n
  BY <1>3
<1>5. Len(trip.dist) = n
  BY <1>3
<1> HIDE DEF V, n, trip
<1>6. /\ trip.dist[i] \in Int /\ trip.dist[i + 1] \in Int /\ trip.dist[1] \in Int /\ trip.dist[n] \in Int
      /\ trip.dist[1] <= trip.dist[i] /\ trip.dist[i] <= trip.dist[i + 1] /\ trip.dist[i + 1] <= trip.dist[n]
  BY <1>3, <1>4
<1>7. trip.sched[i] \in Int /\ trip.sched[i + 1] \in Int /\ trip.sched[1] \in Int
  BY <1>3, <1>4
<1>8. gap \in Nat /\ gap <= trip.dist[i + 1] - trip.dist[i]
  <2>1. (trip.dist[i + 1] - trip.dist[i]) \in Nat
    BY <1>6
  <2> DEFINE z == trip.dist[i + 1] - trip.dist[i]
  <2> HIDE DEF z
  <2>2. z \in Nat => z \div 2 \in Nat /\ z \div 2 <= z
    OBVIOUS
  <2> QED BY <2>1, <2>2 DEF z
<1>9. seen \in Int
  <2>1. sched \in Int
    BY <1>7
  <2> HIDE DEF sched
  <2> QED BY <1>2, <1>7, <2>1
<1>10. v3 = [dist |-> trip.dist[i] + gap, delay |-> delay, seen |-> seen, waiting |-> waiting,
             arrived |-> IF waiting /\ ~half THEN seen - lag ELSE Q!Never] /\ v4 = seen + lag
  BY <1>1 DEF trip
<1> HIDE DEF gap, seen
<1>11. /\ v3.dist = trip.dist[i] + gap /\ v3.delay \in Int /\ v3.seen \in Int /\ v3.arrived \in Int /\ v3.waiting \in BOOLEAN
       /\ v4 \in Int
  BY <1>2, <1>9, <1>10 DEF Q!Never
<1>12. Q!FixOK
  <2>1. v3.dist \in Int /\ trip.dist[1] <= v3.dist /\ v3.dist <= trip.dist[n]
    BY <1>6, <1>8, <1>11
  <2> QED BY <1>5, <1>11, <2>1 DEF Q!FixOK, trip
<1>13. \A t, j : Q!Expected(t, j) = v1[t].expected[j]
  BY <1>0 DEF Q!Expected, Q!IsMoved
<1>14. \A t \in 1 .. 2 : \A j \in Q!Rows(t) : j + 1 \in Q!Rows(t) => v1[t].expected[j] <= v1[t].expected[j + 1]
  <2> SUFFICES ASSUME NEW t \in 1 .. 2, NEW j \in Q!Rows(t), j + 1 \in Q!Rows(t)
               PROVE  v1[t].expected[j] <= v1[t].expected[j + 1]
    OBVIOUS
  <2>1. j <= j + 1
    BY <1>0, TripsAreTrips
  <2> QED BY <1>0, <2>1, TripsAreTrips
<1> QED BY <1>0, <1>11, <1>12, <1>13, <1>14 DEF Q!TimesInv, Q!TimesAgree, Q!PlanHolds, Q!Never

LEMMA TimesSafe == Q!TimesInv => Q!StopsInOrder /\ Q!TimesAgree /\ Q!PlanHolds
BY DEF Q!TimesInv, Q!StopsInOrder

--------------------------------------------------------------------------------
(* RouteMap: v1 night, v2 lost, v3 facts, v4 build, v5 month, v6 retired, v7 clock, *)
(* v8 cache, v9 page, v10 builds, v11 troubles                                      *)

BuildInv == J!ExtractInv /\ J!SwapInv /\ J!MonthWhole /\ J!MonthFinal /\ J!MonthKept
PagesInv == J!ReadersInv /\ J!FreshPage
PageRecords == [step : {"start", "missing", "read", "error", "done"}, mtime : Nat, data : Nat]
BuildSteps == {"idle", "validate", "clear", "write", "retire", "promote", "drop"}
BuildFields == {"step", "data", "staging"}

LEMMA MapShapes ==
  ASSUME J!Shapes
  PROVE  /\ v1 \in Nat /\ v3 \in [J!Days -> 0 .. 2] /\ v7 \in Nat /\ v11 \in Nat
         /\ DOMAIN v4 = BuildFields /\ v4.step \in BuildSteps /\ v9 \in [Pages -> PageRecords]
BY DEF J!Shapes, J!Swapping, BuildFields, BuildSteps, PageRecords

LEMMA MapParts == J!MapInv <=> J!Shapes /\ J!FactsInv /\ BuildInv /\ PagesInv
BY DEF J!MapInv, BuildInv, PagesInv

LEMMA MapInit == J!Init => J!MapInv
<1> SUFFICES ASSUME J!Init PROVE J!MapInv OBVIOUS
<1>0. /\ v1 = 1 /\ v2 = {} /\ v3 = [d \in J!Days |-> 0] /\ v4 = J!NoBuild /\ v5 = J!Gone /\ v6 = J!Gone /\ v7 = 0
      /\ v8 = {} /\ v9 = [p \in Pages |-> [step |-> "start", mtime |-> 0, data |-> 0]] /\ v11 = 0
  BY DEF J!Init
<1>1. v4.step = "idle" /\ DOMAIN v4 = BuildFields BY <1>0 DEF J!NoBuild, BuildFields
<1>2. J!Shapes
  <2>1. v9 \in [Pages -> PageRecords] BY <1>0 DEF PageRecords
  <2> QED BY <1>0, <1>1, <2>1 DEF J!Shapes, BuildFields, PageRecords
<1>3. J!FactsInv BY <1>0 DEF J!FactsInv, J!Days
<1>4. BuildInv
  <2>1. J!ExtractInv BY <1>1 DEF J!ExtractInv, J!Swapping
  <2> QED BY <1>0, <1>1, <2>1 DEF BuildInv, J!SwapInv, J!MonthWhole, J!MonthFinal, J!MonthKept
<1>5. PagesInv BY <1>0 DEF PagesInv, J!ReadersInv, J!FreshPage
<1> QED BY <1>2, <1>3, <1>4, <1>5, MapParts

LEMMA MapStands ==
  ASSUME J!MapInv, UNCHANGED <<v1, v2, v3, v4, v5, v6, v7, v8, v9, v10, v11>> PROVE J!MapInv'
<1> USE DEF J!MapInv
<1>1. J!Shapes' /\ J!FactsInv' BY DEF J!Shapes, J!FactsInv
<1>2. J!ExtractInv' /\ J!SwapInv' BY DEF J!ExtractInv, J!Final, J!SwapInv
<1>3. J!MonthWhole' /\ J!MonthFinal' /\ J!MonthKept' BY DEF J!MonthWhole, J!MonthFinal, J!MonthKept
<1>4. J!ReadersInv' /\ J!FreshPage' BY DEF J!ReadersInv, J!FreshPage
<1> QED BY <1>1, <1>2, <1>3, <1>4

\* A night: what it loses stays lost, and what it completes is complete.
LEMMA NightKeeps == ASSUME J!MapInv, J!Night PROVE J!MapInv'
<1> USE MapParts
<1>0. /\ v1 \in Nat /\ v3 \in [J!Days -> 0 .. 2] /\ v1' = v1 + 1 /\ UNCHANGED <<v4, v5, v6, v7, v8, v9, v10, v11>>
  BY MapShapes DEF J!Night
<1>1. \/ v3' = [d \in J!Days |-> IF d = v1 THEN 1 ELSE IF d = v1 - 1 THEN 2 ELSE v3[d]] /\ v2' = v2
      \/ v3' = v3 /\ v2 = {} /\ v2' = {v1}
  BY DEF J!Night
<1>2. v2 \subseteq v2' BY <1>1
<1>3. J!Shapes' BY <1>0, <1>1 DEF J!Shapes
<1>4. J!FactsInv'
  <2>1. ASSUME NEW d \in J!Days, d + 1 < v1' PROVE v3'[d] = 2 \/ d + 1 \in v2'
    <3>1. d \in Int BY DEF J!Days
    <3>2. d + 1 < v1 \/ d + 1 = v1 BY <1>0, <2>1, <3>1
    <3>3. CASE d + 1 < v1
      <4>1. v3[d] = 2 \/ d + 1 \in v2 BY <3>3 DEF J!FactsInv
      <4>2. d # v1 BY <1>0, <3>1, <3>3
      <4> QED BY <1>1, <1>2, <4>1, <4>2
    <3>4. CASE d + 1 = v1
      <4>1. d # v1 /\ d = v1 - 1 BY <1>0, <3>1, <3>4
      <4> QED BY <1>1, <3>4, <4>1
    <3> QED BY <3>2, <3>3, <3>4
  <2> QED BY <2>1 DEF J!FactsInv
<1>5. BuildInv'
  <2> USE DEF BuildInv
  <2>1. J!ExtractInv' BY <1>0, <1>2 DEF J!ExtractInv, J!Final
  <2>2. J!SwapInv' BY <1>0 DEF J!SwapInv
  <2>3. J!MonthWhole' /\ J!MonthKept' BY <1>0 DEF J!MonthWhole, J!MonthKept
  <2>4. J!MonthFinal' BY <1>0, <1>2 DEF J!MonthFinal
  <2> QED BY <2>1, <2>2, <2>3, <2>4
<1>6. PagesInv' BY <1>0 DEF PagesInv, J!ReadersInv, J!FreshPage
<1> QED BY <1>3, <1>4, <1>5, <1>6 DEF J!MapInv, BuildInv, PagesInv

\* A step of the build that leaves the nights, the clock and the readers alone.
LEMMA BuildMoved ==
  ASSUME J!MapInv, UNCHANGED <<v1, v2, v3, v7, v8, v9>>, v11' \in Nat, DOMAIN v4' = BuildFields, v4'.step \in BuildSteps,
         BuildInv'
  PROVE  J!MapInv'
<1> USE MapParts
<1>1. J!Shapes' BY DEF J!Shapes, BuildFields, BuildSteps, J!Swapping
<1>2. J!FactsInv' BY DEF J!FactsInv
<1>3. PagesInv' BY DEF PagesInv, J!ReadersInv, J!FreshPage
<1> QED BY <1>1, <1>2, <1>3 DEF J!MapInv, BuildInv, PagesInv

\* The status of the next month's first is there only when the nights of the month and
\* the one after it have been.
LEMMA PublishedMonth == ASSUME J!Shapes, J!FactsInv, J!MonthPublished PROVE \A d \in J!Days : v3[d] = 2 \/ d + 1 \in v2
<1>1. PICK n \in {MonthLength + 1, MonthLength + 2} : n < v1 BY DEF J!MonthPublished, J!Status
<1>2. MonthLength \in Nat /\ v1 \in Nat BY MapHolds, MapShapes DEF J!MapAssumption
<1>3. \A d \in J!Days : d + 1 < v1 BY <1>1, <1>2 DEF J!Days
<1> QED BY <1>3 DEF J!FactsInv

LEMMA MapExtractKeeps == ASSUME J!MapInv, J!Extract PROVE J!MapInv'
<1> USE MapParts
<1>0. /\ DOMAIN v4 = BuildFields /\ v4.step = "idle" /\ v11 \in Nat /\ UNCHANGED <<v1, v2, v3, v5, v6, v7, v8, v9, v11>>
  BY MapShapes DEF J!Extract
<1>1. PICK covered \in {J!Days, J!Days \ {1}} :
        v4' = [v4 EXCEPT !.step = "validate", !.data = [d \in covered |-> v3[d]]]
  BY DEF J!Extract
<1>2. DOMAIN v4' = BuildFields /\ v4'.step = "validate" /\ v4'.data = [d \in covered |-> v3[d]]
  BY <1>0, <1>1 DEF BuildFields
<1>3. \A d \in J!Days : v3[d] = 2 \/ d + 1 \in v2 BY PublishedMonth DEF J!Extract
<1>4. J!ExtractInv' BY <1>0, <1>2, <1>3 DEF J!ExtractInv, J!Final, J!Swapping
<1>5. J!SwapInv' BY <1>0, <1>2 DEF BuildInv, J!SwapInv
<1>6. J!MonthWhole' /\ J!MonthFinal' BY <1>0 DEF BuildInv, J!MonthWhole, J!MonthFinal
<1>7. J!MonthKept' BY <1>0, <1>2 DEF BuildInv, J!MonthKept
<1> QED BY <1>0, <1>2, <1>4, <1>5, <1>6, <1>7, BuildMoved DEF BuildInv, BuildSteps

LEMMA ValidateKeeps == ASSUME J!MapInv, J!Validate PROVE J!MapInv'
<1> USE MapParts
<1>0. /\ DOMAIN v4 = BuildFields /\ v4.step = "validate" /\ v11 \in Nat /\ UNCHANGED <<v1, v2, v3, v5, v6, v7, v8, v9, v11>>
  BY MapShapes DEF J!Validate
<1>1. \/ DOMAIN v4' = BuildFields /\ v4'.step = "clear" /\ v4'.data = v4.data /\ DOMAIN v4.data = J!Days
      \/ DOMAIN v4' = BuildFields /\ v4'.step = "idle"
  BY <1>0 DEF J!Validate, J!Reconciled, J!NoBuild, BuildFields
<1>2. J!ExtractInv' BY <1>0, <1>1 DEF BuildInv, J!ExtractInv, J!Final, J!Swapping
<1>3. J!SwapInv' BY <1>0, <1>1 DEF BuildInv, J!SwapInv
<1>4. J!MonthWhole' /\ J!MonthFinal' BY <1>0 DEF BuildInv, J!MonthWhole, J!MonthFinal
<1>5. J!MonthKept' BY <1>0, <1>1 DEF BuildInv, J!MonthKept
<1> QED BY <1>0, <1>1, <1>2, <1>3, <1>4, <1>5, BuildMoved DEF BuildInv, BuildSteps

LEMMA ClearKeeps == ASSUME J!MapInv, J!Clear PROVE J!MapInv'
<1> USE MapParts
<1>0. /\ DOMAIN v4 = BuildFields /\ v4.step = "clear" /\ v11 \in Nat /\ UNCHANGED <<v1, v2, v3, v5, v7, v8, v9, v11>>
      /\ v6' = J!Gone
  BY MapShapes DEF J!Clear
<1>1. DOMAIN v4' = BuildFields /\ v4'.step = "write" /\ v4'.data = v4.data BY <1>0 DEF J!Clear, BuildFields
<1>2. J!ExtractInv' BY <1>0, <1>1 DEF BuildInv, J!ExtractInv, J!Final, J!Swapping
<1>3. J!SwapInv' BY <1>0, <1>1 DEF BuildInv, J!SwapInv
<1>4. J!MonthWhole' /\ J!MonthFinal' BY <1>0 DEF BuildInv, J!MonthWhole, J!MonthFinal
<1>5. J!MonthKept' BY <1>0, <1>1 DEF BuildInv, J!MonthKept
<1> QED BY <1>0, <1>1, <1>2, <1>3, <1>4, <1>5, BuildMoved DEF BuildInv, BuildSteps

LEMMA MapWriteKeeps == ASSUME J!MapInv, J!Write PROVE J!MapInv'
<1> USE MapParts
<1>0. /\ DOMAIN v4 = BuildFields /\ v4.step = "write" /\ v11 \in Nat /\ UNCHANGED <<v1, v2, v3, v5, v6, v7, v8, v9, v11>>
  BY MapShapes DEF J!Write
<1>1. \/ /\ v4' = [v4 EXCEPT !.step = IF v5 = J!Gone THEN "promote" ELSE "retire"]
         /\ J!Cardinality(v4.staging) = J!Len(J!PublishedFiles)
      \/ \E s : v4' = [v4 EXCEPT !.staging = s]
  BY DEF J!Write, J!Staged
<1>2. /\ DOMAIN v4' = BuildFields /\ v4'.data = v4.data
      /\ \/ v4'.step = "write"
         \/ /\ v4'.step = (IF v5 = J!Gone THEN "promote" ELSE "retire") /\ v4'.staging = v4.staging
            /\ J!Cardinality(v4.staging) = J!Len(J!PublishedFiles)
  BY <1>0, <1>1 DEF BuildFields
<1>3. J!ExtractInv' BY <1>0, <1>2 DEF BuildInv, J!ExtractInv, J!Final, J!Swapping
<1>4. J!SwapInv' BY <1>0, <1>2 DEF BuildInv, J!SwapInv
<1>5. J!MonthWhole' /\ J!MonthFinal' BY <1>0 DEF BuildInv, J!MonthWhole, J!MonthFinal
<1>6. J!MonthKept' BY <1>0, <1>2 DEF BuildInv, J!MonthKept
<1> QED BY <1>0, <1>2, <1>3, <1>4, <1>5, <1>6, BuildMoved DEF BuildInv, BuildSteps

LEMMA RetireKeeps == ASSUME J!MapInv, J!Retire PROVE J!MapInv'
<1> USE MapParts
<1>0. /\ DOMAIN v4 = BuildFields /\ v4.step = "retire" /\ v11 \in Nat /\ UNCHANGED <<v1, v2, v3, v7, v8, v9, v11>>
      /\ v6' = v5 /\ v5' = J!Gone
  BY MapShapes DEF J!Retire, J!Moved
<1>1. DOMAIN v4' = BuildFields /\ v4'.step = "promote" /\ v4'.data = v4.data /\ v4'.staging = v4.staging
  BY <1>0 DEF J!Retire, BuildFields
<1>2. v5 # J!Gone BY <1>0 DEF BuildInv, J!SwapInv
<1>3. J!ExtractInv' BY <1>0, <1>1 DEF BuildInv, J!ExtractInv, J!Final, J!Swapping
<1>4. J!SwapInv' BY <1>0, <1>1, <1>2 DEF BuildInv, J!SwapInv
<1>5. J!MonthWhole' /\ J!MonthFinal' BY <1>0 DEF J!MonthWhole, J!MonthFinal
<1>6. J!MonthKept' BY <1>1 DEF J!MonthKept
<1> QED BY <1>0, <1>1, <1>3, <1>4, <1>5, <1>6, BuildMoved DEF BuildInv, BuildSteps

\* The month is there again, whole, final, and newer than any before it.
LEMMA PromoteKeeps == ASSUME J!MapInv, J!Promote PROVE J!MapInv'
<1> USE MapParts
<1>0. /\ DOMAIN v4 = BuildFields /\ v4.step = "promote" /\ v11 \in Nat /\ v7 \in Nat /\ v9 \in [Pages -> PageRecords]
      /\ UNCHANGED <<v1, v2, v3, v6, v8, v9, v11>>
      /\ v7' = v7 + 1 /\ v5' = [files |-> v4.staging, data |-> v4.data, mtime |-> v7']
  BY MapShapes DEF J!Promote
<1>1. DOMAIN v4' = BuildFields /\ v4'.step = "drop" /\ v4'.data = v4.data BY <1>0 DEF J!Promote, BuildFields
<1>2. v5'.files = v4.staging /\ v5'.data = v4.data /\ v5'.mtime = v7' /\ v7' > 0 /\ v7' \in Nat BY <1>0
<1>3. v5' # J!Gone BY <1>2 DEF J!Gone
<1>4. J!Final(v4.data) /\ DOMAIN v4.data = J!Days /\ J!Cardinality(v4.staging) = J!Len(J!PublishedFiles)
  BY <1>0 DEF BuildInv, J!ExtractInv, J!Swapping
<1>5. J!Shapes' BY <1>0, <1>1, <1>2 DEF J!Shapes, J!Swapping, BuildFields
<1>6. J!FactsInv' BY <1>0 DEF J!FactsInv
<1>7. J!ExtractInv' BY <1>0, <1>1, <1>4 DEF J!ExtractInv, J!Final, J!Swapping
<1>8. J!SwapInv' BY <1>1, <1>2, <1>3 DEF J!SwapInv
<1>9. J!MonthWhole' BY <1>2, <1>4 DEF J!MonthWhole
<1>10. J!MonthFinal' BY <1>0, <1>2, <1>4 DEF J!MonthFinal, J!Final
<1>11. J!MonthKept' BY <1>3 DEF J!MonthKept
<1>12. PagesInv'
  <2>1. \A p \in Pages : v9[p].mtime \in Nat BY <1>0 DEF PageRecords
  <2> QED BY <1>0, <2>1 DEF PagesInv, J!ReadersInv, J!FreshPage
<1> QED BY <1>5, <1>6, <1>7, <1>8, <1>9, <1>10, <1>11, <1>12 DEF J!MapInv, PagesInv

LEMMA DropKeeps == ASSUME J!MapInv, J!Drop PROVE J!MapInv'
<1> USE MapParts
<1>0. v4.step = "drop" /\ v11 \in Nat /\ UNCHANGED <<v1, v2, v3, v5, v7, v8, v9, v11>> /\ v4' = J!NoBuild
  BY MapShapes DEF J!Drop
<1>1. DOMAIN v4' = BuildFields /\ v4'.step = "idle" BY <1>0 DEF J!NoBuild, BuildFields
<1>2. v5 # J!Gone BY <1>0 DEF BuildInv, J!SwapInv
<1>3. J!ExtractInv' BY <1>1 DEF J!ExtractInv, J!Swapping
<1>4. J!SwapInv' BY <1>0, <1>1, <1>2 DEF BuildInv, J!SwapInv
<1>5. J!MonthWhole' /\ J!MonthFinal' BY <1>0 DEF BuildInv, J!MonthWhole, J!MonthFinal
<1>6. J!MonthKept' BY <1>0, <1>2 DEF J!MonthKept
<1> QED BY <1>0, <1>1, <1>3, <1>4, <1>5, <1>6, BuildMoved DEF BuildInv, BuildSteps

\* A build dies: if the month was away without a copy, another had died before.
LEMMA MapTroubleKeeps == ASSUME J!MapInv, J!Trouble PROVE J!MapInv'
<1> USE MapParts
<1>0. v4.step \in {"write", "retire", "promote", "drop"} /\ v11 \in Nat /\ UNCHANGED <<v1, v2, v3, v5, v6, v7, v8, v9>>
      /\ v11' = v11 + 1
  BY MapShapes DEF J!Trouble
<1>1. DOMAIN v4' = BuildFields /\ v4'.step = "idle" BY DEF J!Trouble, J!NoBuild, BuildFields
<1>2. v11' \in Nat /\ v11' > 0 /\ (v11 > 0 => v11' > 1) /\ (v11 > 1 => v11' > 1) BY <1>0
<1>3. J!ExtractInv' BY <1>1 DEF J!ExtractInv, J!Swapping
<1>4. J!SwapInv' BY <1>0, <1>1, <1>2 DEF BuildInv, J!SwapInv
<1>5. J!MonthWhole' /\ J!MonthFinal' BY <1>0 DEF BuildInv, J!MonthWhole, J!MonthFinal
<1>6. J!MonthKept' BY <1>0, <1>2 DEF BuildInv, J!MonthKept, J!SwapInv
<1> QED BY <1>0, <1>1, <1>2, <1>3, <1>4, <1>5, <1>6, BuildMoved DEF BuildInv, BuildSteps

\* A step of one page, and what it adds to the cache.
LEMMA PageMoved ==
  ASSUME J!MapInv, NEW p \in Pages, UNCHANGED <<v1, v2, v3, v4, v5, v6, v7, v11>>,
         NEW r \in PageRecords, v9' = [v9 EXCEPT ![p] = r], r.mtime <= v7, r.step = "done" => r.data >= r.mtime,
         \A e \in v8' : e \in v8 \/ (e \in Nat \X Nat /\ e[1] <= e[2])
  PROVE  J!MapInv'
<1> USE MapParts
<1>0. v9 \in [Pages -> PageRecords] BY MapShapes
<1>1. v9'[p] = r /\ \A q \in Pages : q # p => v9'[q] = v9[q] BY <1>0
<1>2. J!Shapes' BY <1>0 DEF J!Shapes, PageRecords
<1>3. J!FactsInv' BY DEF J!FactsInv
<1>4. BuildInv'
  <2> USE DEF BuildInv
  <2>1. J!ExtractInv' /\ J!SwapInv' BY DEF J!ExtractInv, J!Final, J!SwapInv
  <2>2. J!MonthWhole' /\ J!MonthFinal' /\ J!MonthKept' BY DEF J!MonthWhole, J!MonthFinal, J!MonthKept
  <2> QED BY <2>1, <2>2
<1>5. J!ReadersInv' BY <1>1 DEF PagesInv, J!ReadersInv
<1>6. J!FreshPage' BY <1>1 DEF PagesInv, J!FreshPage
<1> QED BY <1>2, <1>3, <1>4, <1>5, <1>6 DEF J!MapInv, BuildInv, PagesInv

LEMMA MonthTime == ASSUME J!MapInv PROVE v5.mtime \in Nat /\ v5.mtime <= v7 /\ (v5 # J!Gone => v5.mtime = v7)
<1>1. v7 \in Nat /\ (v5 # J!Gone => v5.mtime = v7) BY MapShapes DEF J!MapInv, J!SwapInv
<1> QED BY <1>1 DEF J!Gone

LEMMA StatKeeps == ASSUME J!MapInv, NEW p \in Pages, J!Stat(p) PROVE J!MapInv'
<1>0. v9 \in [Pages -> PageRecords] /\ UNCHANGED <<v1, v2, v3, v4, v5, v6, v7, v8, v11>> /\ v9[p].step = "start"
  BY MapShapes DEF J!MapInv, J!Stat
<1>1. v9[p].mtime <= v7 /\ v9[p] \in PageRecords BY <1>0 DEF J!MapInv, J!ReadersInv
<1>2. CASE v9' = [v9 EXCEPT ![p] = [@ EXCEPT !.step = "missing"]]
  <2>1. PICK r : r = [v9[p] EXCEPT !.step = "missing"] OBVIOUS
  <2>2. r \in PageRecords /\ r.step = "missing" /\ r.mtime = v9[p].mtime BY <1>1, <2>1 DEF PageRecords
  <2>3. v9' = [v9 EXCEPT ![p] = r] BY <1>0, <1>2, <2>1
  <2> QED BY <1>0, <1>1, <2>2, <2>3, PageMoved
<1>3. CASE v9' = [v9 EXCEPT ![p] = [@ EXCEPT !.step = "read", !.mtime = v5.mtime]]
  <2>1. PICK r : r = [v9[p] EXCEPT !.step = "read", !.mtime = v5.mtime] OBVIOUS
  <2>2. r \in PageRecords /\ r.step = "read" /\ r.mtime = v5.mtime BY <1>1, <2>1, MonthTime DEF PageRecords
  <2>3. v9' = [v9 EXCEPT ![p] = r] BY <1>0, <1>3, <2>1
  <2> QED BY <1>0, <2>2, <2>3, MonthTime, PageMoved
<1> QED BY <1>0, <1>2, <1>3 DEF J!Stat

LEMMA ReadKeeps == ASSUME J!MapInv, NEW p \in Pages, J!Read(p) PROVE J!MapInv'
<1>0. v9 \in [Pages -> PageRecords] /\ UNCHANGED <<v1, v2, v3, v4, v5, v6, v7, v11>> /\ v7 \in Nat
  BY MapShapes DEF J!MapInv, J!Read
<1>1. v9[p].mtime <= v7 /\ v9[p] \in PageRecords BY <1>0 DEF J!MapInv, J!ReadersInv
<1> DEFINE hit == {e \in v8 : e[1] = v9[p].mtime}
           entry == IF hit = {} THEN <<v9[p].mtime, v5.mtime>> ELSE CHOOSE e \in hit : TRUE
<1>2. CASE hit = {} /\ v5 = J!Gone
  <2>1. v9' = [v9 EXCEPT ![p].step = "error"] /\ v8' = v8 BY <1>2 DEF J!Read, J!Key
  <2>2. PICK r : r = [v9[p] EXCEPT !.step = "error"] OBVIOUS
  <2>3. r \in PageRecords /\ r.step = "error" /\ r.mtime = v9[p].mtime BY <1>1, <2>2 DEF PageRecords
  <2>4. v9' = [v9 EXCEPT ![p] = r] BY <1>0, <2>1, <2>2
  <2> QED BY <1>0, <1>1, <2>1, <2>3, <2>4, PageMoved
<1>3. CASE ~(hit = {} /\ v5 = J!Gone)
  <2>1. v8' = v8 \union {entry} /\ v9' = [v9 EXCEPT ![p].step = "done", ![p].data = entry[2]]
    BY <1>3 DEF J!Read, J!Key
  <2>2. entry \in Nat \X Nat /\ entry[1] <= entry[2] /\ entry[1] = v9[p].mtime
    <3>1. CASE hit = {}
      <4>1. entry = <<v9[p].mtime, v5.mtime>> /\ v5.mtime = v7 BY <1>3, <3>1, MonthTime
      <4>2. v9[p].mtime \in Nat BY <1>1 DEF PageRecords
      <4> QED BY <1>0, <1>1, <4>1, <4>2
    <3>2. CASE hit # {}
      <4>1. entry \in hit BY <3>2
      <4> HIDE DEF entry
      <4> QED BY <4>1 DEF J!MapInv, J!ReadersInv
    <3> QED BY <3>1, <3>2
  <2> HIDE DEF entry
  <2>3. PICK r : r = [v9[p] EXCEPT !.step = "done", !.data = entry[2]] OBVIOUS
  <2>4. r \in PageRecords /\ r.step = "done" /\ r.mtime = v9[p].mtime /\ r.data = entry[2] BY <1>1, <2>2, <2>3 DEF PageRecords
  <2>5. v9' = [v9 EXCEPT ![p] = r] BY <1>0, <2>1, <2>3
  <2>6. r.data >= r.mtime BY <2>2, <2>4
  <2>7. \A e \in v8' : e \in v8 \/ (e \in Nat \X Nat /\ e[1] <= e[2]) BY <2>1, <2>2
  <2> QED BY <1>0, <1>1, <2>4, <2>5, <2>6, <2>7, PageMoved
<1> QED BY <1>2, <1>3

LEMMA MapStep == ASSUME J!MapInv, J!Next PROVE J!MapInv'
<1>1. CASE UNCHANGED J!vars
  <2>1. UNCHANGED <<v1, v2, v3, v4, v5, v6, v7, v8, v9, v10, v11>> BY <1>1 DEF J!vars
  <2> QED BY <2>1, MapStands
<1> QED BY <1>1, NightKeeps, MapExtractKeeps, ValidateKeeps, ClearKeeps, MapWriteKeeps, RetireKeeps, PromoteKeeps,
           DropKeeps, MapTroubleKeeps, StatKeeps, ReadKeeps DEF J!Next

--------------------------------------------------------------------------------
(* PlannerPipeline: v1 week, v2 training, v3 tasks, v4 better, v5 models,           *)
(* v6 current, v7 score, v8 bundles, v9 partial, v10 staged, v11 artifact, v12 tries *)

ScoreSteps == {"idle", "fetch", "sweep", "clear", "extract", "download", "unstage", "write"}
ScoreRecords == [step : ScoreSteps, asked : {0} \union O!Versions, dir : {0} \union O!Versions,
                 recent : Seq(Nat), tables : Seq(STRING)]
TrainingRecords == [step : {"idle", "fit", "upload"}, files : O!Uploads]
WeekShapes ==
  /\ v1 \in 0 .. MaxTrains /\ v6 \in 0 .. v1 /\ v2 \in TrainingRecords
  /\ v3 \in [O!TrainTasks -> {"none", "success", "failed"}] /\ v5 \in [O!Versions -> O!Uploads]
NightShapes ==
  /\ v12 \in Nat /\ v7 \in ScoreRecords /\ v8 \in [O!Versions -> SUBSET O!Bundle]
  /\ v9 \in [O!Versions -> SUBSET O!Bundle] /\ v10 \in Seq(Nat)
WeekInv == WeekShapes /\ O!TrainInv /\ O!CurrentUsable /\ O!FailureVisible
ArtifactInv == O!ArtifactWhole /\ O!NewestModel /\ O!OwnExtract
NightInv == NightShapes /\ O!CacheInv /\ O!ScoreInv /\ ArtifactInv

LEMMA PlannerParts == O!PlannerInv <=> WeekInv /\ NightInv
BY DEF O!PlannerInv, WeekInv, NightInv, ArtifactInv, O!Shapes, WeekShapes, NightShapes, ScoreSteps, ScoreRecords,
       TrainingRecords

LEMMA PlannerConstants == MaxTrains \in Nat /\ Tables \in Seq(STRING) /\ Len(Tables) \in Nat
BY PlannerHolds DEF O!PlannerAssumption

LEMMA FilesAre ==
  /\ Len(O!Files) = 3 /\ O!Files[1] = "gbm.txt" /\ O!Files[2] = "meta.json" /\ O!Files[3] = "stop_slots.parquet"
  /\ O!Bundle = {"gbm.txt", "meta.json", "stop_slots.parquet"}
<1>1. Len(O!Files) = 3 /\ O!Files[1] = "gbm.txt" /\ O!Files[2] = "meta.json" /\ O!Files[3] = "stop_slots.parquet"
  BY DEF O!Files
<1>2. 1 .. 3 = {1, 2, 3} OBVIOUS
<1>3. O!Bundle = {O!Files[i] : i \in {1, 2, 3}} BY <1>1, <1>2 DEF O!Bundle
<1> QED BY <1>1, <1>3

LEMMA PlannerSize == \A S : O!Cardinality(S) = Cardinality(S)
BY Zenon DEF O!Cardinality, Cardinality

LEMMA UploadsAre ==
  /\ \A f \in O!Uploads : f \subseteq O!Bundle /\ O!Cardinality(f) \in 0 .. 3 /\ (O!Cardinality(f) = 3 <=> f = O!Bundle)
  /\ \A f \in O!Uploads : f # O!Bundle => f \union {O!Files[O!Cardinality(f) + 1]} \in O!Uploads
<1> DEFINE a == "gbm.txt"
           b == "meta.json"
           c == "stop_slots.parquet"
<1>1. O!Uploads = {{}, {a}, {a, b}, {a, b, c}} BY FilesAre DEF O!Uploads
<1>2. Cardinality({}) = 0 /\ IsFiniteSet({}) BY FS_EmptySet
<1>3. Cardinality({a}) = 1 /\ IsFiniteSet({a}) BY FS_Singleton
<1>a. a # b /\ a # c /\ b # c OBVIOUS
<1> HIDE DEF a, b, c
<1>4. Cardinality({a, b}) = 2 /\ IsFiniteSet({a, b})
  <2>1. {a} \union {b} = {a, b} /\ b \notin {a} BY <1>a
  <2>2. Cardinality({a} \union {b}) = 1 + 1 /\ IsFiniteSet({a} \union {b}) BY <1>3, <2>1, FS_AddElement
  <2> QED BY <2>1, <2>2
<1>5. Cardinality({a, b, c}) = 3
  <2>1. {a, b} \union {c} = {a, b, c} /\ c \notin {a, b} BY <1>a
  <2>2. Cardinality({a, b} \union {c}) = 2 + 1 BY <1>4, <2>1, FS_AddElement
  <2> QED BY <2>1, <2>2
<1> USE DEF a, b, c
<1>6. O!Cardinality({}) = 0 /\ O!Cardinality({a}) = 1 /\ O!Cardinality({a, b}) = 2 /\ O!Cardinality({a, b, c}) = 3
  BY <1>2, <1>3, <1>4, <1>5, PlannerSize
<1>7. ASSUME NEW f \in O!Uploads
      PROVE  /\ f \subseteq O!Bundle /\ O!Cardinality(f) \in 0 .. 3 /\ (O!Cardinality(f) = 3 <=> f = O!Bundle)
             /\ f # O!Bundle => f \union {O!Files[O!Cardinality(f) + 1]} \in O!Uploads
  <2>1. CASE f = {} BY <1>1, <1>6, <2>1, FilesAre
  <2>2. CASE f = {a} BY <1>1, <1>6, <2>2, FilesAre
  <2>3. CASE f = {a, b} BY <1>1, <1>6, <2>3, FilesAre
  <2>4. CASE f = {a, b, c} BY <1>1, <1>6, <2>4, FilesAre
  <2> QED BY <1>1, <2>1, <2>2, <2>3, <2>4
<1> QED BY <1>7

LEMMA NoScoreIs == O!NoScore \in ScoreRecords /\ O!NoScore.step = "idle" /\ O!NoScore.tables = <<>> /\ O!NoScore.recent = <<>>
BY DEF O!NoScore, ScoreRecords, ScoreSteps

LEMMA PlannerInit == O!Init => O!PlannerInv
<1> SUFFICES ASSUME O!Init PROVE O!PlannerInv OBVIOUS
<1>0. /\ v1 = 0 /\ v2 = [step |-> "idle", files |-> {}] /\ v3 = [t \in O!TrainTasks |-> "success"] /\ v4 = {}
      /\ v5 = [v \in O!Versions |-> {}] /\ v6 = 0 /\ v7 = O!NoScore /\ v8 = [v \in O!Versions |-> {}]
      /\ v9 = [v \in O!Versions |-> {}] /\ v10 = <<>> /\ v11 = O!NoArtifact /\ v12 = 0
  BY DEF O!Init
<1>1. v2.step = "idle" /\ v2.files = {} /\ {} \in O!Uploads BY <1>0 DEF O!Uploads
<1>2. WeekShapes BY <1>0, <1>1, PlannerConstants DEF WeekShapes, TrainingRecords
<1>3. O!TrainInv BY <1>0, <1>1 DEF O!TrainInv, O!TrainTasks
<1>4. O!CurrentUsable /\ O!FailureVisible BY <1>0 DEF O!CurrentUsable, O!FailureVisible, O!TrainTasks
<1>5. NightShapes BY <1>0, NoScoreIs DEF NightShapes
<1>6. O!CacheInv BY <1>0, NoScoreIs DEF O!CacheInv, O!Asked
<1>7. O!ScoreInv BY <1>0, NoScoreIs DEF O!ScoreInv
<1>8. v11.bundle = 0 /\ v11.asked = 0 /\ v11.recent = <<>> BY <1>0 DEF O!NoArtifact
<1>9. ArtifactInv BY <1>8 DEF ArtifactInv, O!ArtifactWhole, O!NewestModel, O!OwnExtract
<1> QED BY <1>2, <1>3, <1>4, <1>5, <1>6, <1>7, <1>9, PlannerParts DEF WeekInv, NightInv

LEMMA WeekStands == ASSUME WeekInv, UNCHANGED <<v1, v2, v3, v4, v5, v6>> PROVE WeekInv'
BY DEF WeekInv, WeekShapes, O!TrainInv, O!CurrentUsable, O!FailureVisible

LEMMA ArtifactStands == ASSUME ArtifactInv, UNCHANGED v11 PROVE ArtifactInv'
BY DEF ArtifactInv, O!ArtifactWhole, O!NewestModel, O!OwnExtract

\* What the weekly run does to the bundles of versions after the current one is not
\* seen by scoring.
LEMMA NightStands ==
  ASSUME NightInv, WeekInv, UNCHANGED <<v6, v7, v8, v9, v10, v11, v12>>,
         \A v \in O!Versions : v <= v6 => v5'[v] = v5[v]
  PROVE  NightInv'
<1> USE DEF NightInv
<1>1. NightShapes' BY DEF NightShapes
<1>2. O!CacheInv' BY DEF O!CacheInv, O!Asked
<1>3. ArtifactInv' BY ArtifactStands
<1>4. O!ScoreInv'
  <2> SUFFICES ASSUME v7.step # "idle" PROVE O!ScoreInv' BY DEF O!ScoreInv
  <2>1. v7.asked \in 1 .. v6 /\ v5[v7.asked] = O!Bundle BY DEF O!ScoreInv
  <2>2. v6 \in 0 .. v1 /\ v1 \in 0 .. MaxTrains BY DEF WeekInv, WeekShapes
  <2>3. v7.asked \in O!Versions /\ v7.asked <= v6 BY <2>1, <2>2, PlannerConstants DEF O!Versions
  <2>4. v5'[v7.asked] = O!Bundle BY <2>1, <2>3
  <2> QED BY <2>1, <2>4 DEF O!ScoreInv, O!AllOf
<1> QED BY <1>1, <1>2, <1>3, <1>4

LEMMA TrainTaskNames ==
  /\ "train_model" \in O!TrainTasks /\ "training_complete" \in O!TrainTasks
  /\ "build_footpaths" \in O!TrainTasks /\ "calibrate_live" \in O!TrainTasks
BY DEF O!TrainTasks

\* A step of the weekly run but the last.
LEMMA WeekMoved ==
  ASSUME WeekInv, NightInv, UNCHANGED <<v6, v7, v8, v9, v10, v11, v12>>, WeekShapes', O!TrainInv', v4 \subseteq v4',
         \A v \in O!Versions : v <= v6 => v5'[v] = v5[v], O!FailureVisible'
  PROVE  O!PlannerInv'
<1>1. v6 \in 0 .. v1 /\ v1 \in 0 .. MaxTrains BY DEF WeekInv, WeekShapes
<1>2. v6 # 0 => v6 \in O!Versions /\ v6 <= v6 BY <1>1, PlannerConstants DEF O!Versions
<1>3. O!CurrentUsable' BY <1>2 DEF WeekInv, O!CurrentUsable
<1>4. NightInv' BY NightStands
<1>5. WeekInv' BY <1>3 DEF WeekInv
<1> QED BY <1>4, <1>5 DEF O!PlannerInv, WeekInv, NightInv, ArtifactInv, O!Shapes, WeekShapes, NightShapes, ScoreSteps,
       ScoreRecords, TrainingRecords

LEMMA NightlyIs == (UNCHANGED O!nightly <=> UNCHANGED <<v7, v8, v9, v10, v11, v12>>)
                   /\ (UNCHANGED O!weekly <=> UNCHANGED <<v1, v2, v3, v4, v5, v6>>)
BY DEF O!nightly, O!weekly

LEMMA TrainStartKeeps == ASSUME O!PlannerInv, O!TrainStart PROVE O!PlannerInv'
<1>0. WeekInv /\ NightInv BY PlannerParts
<1>1. /\ v1 < MaxTrains /\ v1' = v1 + 1 /\ v2' = [step |-> "fit", files |-> {}] /\ v3' = [t \in O!TrainTasks |-> "none"]
      /\ UNCHANGED <<v4, v5, v6, v7, v8, v9, v10, v11, v12>>
  BY NightlyIs DEF O!TrainStart
<1>2. WeekShapes BY <1>0 DEF WeekInv
<1>3. v1 \in Nat /\ v6 \in 0 .. v1 /\ v1' \in O!Versions /\ v1' > v1 BY <1>1, <1>2, PlannerConstants DEF WeekShapes, O!Versions
<1>4. v2'.step = "fit" /\ v2'.files = {} /\ v2' \in TrainingRecords BY <1>1 DEF TrainingRecords, O!Uploads
<1>5. WeekShapes' BY <1>1, <1>2, <1>3, <1>4, PlannerConstants DEF WeekShapes
<1>6. \A v \in O!Versions : v > v1 => v5[v] = {} BY <1>0 DEF WeekInv, O!TrainInv
<1>7. v3'["train_model"] = "none" /\ v3'["training_complete"] = "none" BY <1>1, TrainTaskNames
<1>8. O!TrainInv'
  <2>1. \A v \in O!Versions : v > v1' => v > v1 BY <1>1, <1>3 DEF O!Versions
  <2>2. v6 < v1' BY <1>1, <1>3
  <2> QED BY <1>1, <1>3, <1>4, <1>6, <1>7, <2>1, <2>2 DEF O!TrainInv
<1>9. O!FailureVisible' BY <1>7 DEF O!FailureVisible
<1> QED BY <1>0, <1>1, <1>5, <1>8, <1>9, WeekMoved

LEMMA FitKeeps == ASSUME O!PlannerInv, O!Fit PROVE O!PlannerInv'
<1>0. WeekInv /\ NightInv BY PlannerParts
<1>1. v2.step = "fit" /\ UNCHANGED <<v1, v5, v6, v7, v8, v9, v10, v11, v12>> BY NightlyIs DEF O!Fit
<1>2. PICK model \in 1 .. 3, lookup \in 1 .. 2 :
        /\ v4' = IF model < lookup /\ lookup < 3 THEN v4 \union {v1} ELSE v4
        /\ IF O!Promotable(model, lookup, 3) THEN v2' = [v2 EXCEPT !.step = "upload"] /\ UNCHANGED v3
           ELSE v2' = [v2 EXCEPT !.step = "idle"] /\ v3' = [v3 EXCEPT !["train_model"] = "failed"]
  BY DEF O!Fit
<1>3. WeekShapes /\ v2 \in TrainingRecords /\ v3 \in [O!TrainTasks -> {"none", "success", "failed"}]
  BY <1>0 DEF WeekInv, WeekShapes
<1>4. /\ v3["train_model"] = "none" /\ v6 < v1 /\ v5[v1] = v2.files
      /\ (v3["training_complete"] = "success" => v3["train_model"] = "success")
  BY <1>0, <1>1 DEF WeekInv, O!TrainInv, O!FailureVisible
<1>5. CASE O!Promotable(model, lookup, 3)
  <2>1. v2' = [v2 EXCEPT !.step = "upload"] /\ v3' = v3 /\ v1 \in v4' BY <1>2, <1>5 DEF O!Promotable
  <2>2. v2' \in TrainingRecords /\ v2'.step = "upload" /\ v2'.files = v2.files BY <1>3, <2>1 DEF TrainingRecords
  <2>3. WeekShapes' BY <1>1, <1>3, <2>1, <2>2 DEF WeekShapes
  <2>4. O!TrainInv' BY <1>0, <1>1, <1>4, <2>1, <2>2 DEF WeekInv, O!TrainInv
  <2>5. O!FailureVisible' BY <1>4, <2>1 DEF O!FailureVisible
  <2> QED BY <1>0, <1>1, <1>2, <2>3, <2>4, <2>5, WeekMoved
<1>6. CASE ~O!Promotable(model, lookup, 3)
  <2>1. v2' = [v2 EXCEPT !.step = "idle"] /\ v3' = [v3 EXCEPT !["train_model"] = "failed"] BY <1>2, <1>6
  <2>2. v2' \in TrainingRecords /\ v2'.step = "idle" BY <1>3, <2>1 DEF TrainingRecords
  <2>3. v3' \in [O!TrainTasks -> {"none", "success", "failed"}] /\ v3'["train_model"] = "failed"
        /\ v3'["training_complete"] = v3["training_complete"]
    BY <1>3, <2>1, TrainTaskNames
  <2>4. WeekShapes' BY <1>1, <1>3, <2>2, <2>3 DEF WeekShapes
  <2>5. O!TrainInv' BY <1>0, <1>1, <2>2, <2>3 DEF WeekInv, O!TrainInv
  <2>6. O!FailureVisible' BY <1>4, <2>3 DEF O!FailureVisible
  <2>7. v4 \subseteq v4' BY <1>2
  <2> QED BY <1>0, <1>1, <2>4, <2>5, <2>6, <2>7, WeekMoved
<1> QED BY <1>5, <1>6

\* The pointer moves to a version whose files are all there, and which scoring has not
\* seen yet.
LEMMA PlannerUploadKeeps == ASSUME O!PlannerInv, O!Upload PROVE O!PlannerInv'
<1>0. WeekInv /\ NightInv BY PlannerParts
<1>1. v2.step = "upload" /\ UNCHANGED <<v1, v4, v7, v8, v9, v10, v11, v12>> BY NightlyIs DEF O!Upload
<1>2. WeekShapes /\ v2 \in TrainingRecords /\ v3 \in [O!TrainTasks -> {"none", "success", "failed"}]
      /\ v5 \in [O!Versions -> O!Uploads] /\ v1 \in 0 .. MaxTrains /\ v6 \in 0 .. v1
  BY <1>0 DEF WeekInv, WeekShapes
<1>3. /\ v3["train_model"] = "none" /\ v6 < v1 /\ v5[v1] = v2.files /\ v1 \in v4
      /\ \A v \in O!Versions : v > v1 => v5[v] = {}
      /\ (v3["training_complete"] = "success" => v3["train_model"] = "success")
  BY <1>0, <1>1 DEF WeekInv, O!TrainInv, O!FailureVisible
<1>4. v1 \in O!Versions /\ v1 \in Nat /\ v6 \in Nat BY <1>2, <1>3, PlannerConstants DEF O!Versions
<1>5. CASE v2.files # O!Bundle
  <2> DEFINE files == v2.files \union {O!Files[O!Cardinality(v2.files) + 1]}
  <2>1. v5' = [v5 EXCEPT ![v1] = files] /\ v2' = [v2 EXCEPT !.files = files] /\ UNCHANGED <<v6, v3>>
    BY <1>5 DEF O!Upload, O!Complete
  <2>2. files \in O!Uploads BY <1>2, <1>5, UploadsAre DEF TrainingRecords
  <2> HIDE DEF files
  <2>3. v2' \in TrainingRecords /\ v2'.step = "upload" /\ v2'.files = files BY <1>1, <1>2, <2>1, <2>2 DEF TrainingRecords
  <2>4. v5' \in [O!Versions -> O!Uploads] /\ v5'[v1] = files /\ \A v \in O!Versions : v # v1 => v5'[v] = v5[v]
    BY <1>2, <1>4, <2>1, <2>2
  <2>5. WeekShapes' BY <1>1, <1>2, <2>1, <2>3, <2>4 DEF WeekShapes
  <2>6. O!TrainInv' BY <1>1, <1>3, <1>4, <2>1, <2>3, <2>4 DEF O!TrainInv
  <2>7. O!FailureVisible' BY <1>3, <2>1 DEF O!FailureVisible
  <2>8. \A v \in O!Versions : v <= v6 => v5'[v] = v5[v] BY <1>3, <1>4, <2>4 DEF O!Versions
  <2> QED BY <1>0, <1>1, <2>1, <2>5, <2>6, <2>7, <2>8, WeekMoved
<1>6. CASE v2.files = O!Bundle
  <2>1. v6' = v1 /\ v2' = [v2 EXCEPT !.step = "idle"] /\ v3' = [v3 EXCEPT !["train_model"] = "success"] /\ v5' = v5
    BY <1>6 DEF O!Upload, O!Complete
  <2>2. v2' \in TrainingRecords /\ v2'.step = "idle" BY <1>2, <2>1 DEF TrainingRecords
  <2>3. v3' \in [O!TrainTasks -> {"none", "success", "failed"}] /\ v3'["train_model"] = "success"
        /\ v3'["training_complete"] = v3["training_complete"]
    BY <1>2, <2>1, TrainTaskNames
  <2>4. WeekShapes' BY <1>1, <1>2, <1>4, <2>1, <2>2, <2>3 DEF WeekShapes
  <2>5. O!TrainInv' BY <1>1, <1>3, <2>1, <2>2, <2>3 DEF O!TrainInv
  <2>6. O!FailureVisible' BY <2>3 DEF O!FailureVisible
  <2>7. O!CurrentUsable' BY <1>1, <1>3, <1>6, <2>1 DEF O!CurrentUsable
  <2>8. NightShapes' BY <1>0, <1>1 DEF NightInv, NightShapes
  <2>9. ArtifactInv' BY <1>0, <1>1, ArtifactStands DEF NightInv
  <2>10. O!ScoreInv'
    <3> SUFFICES ASSUME v7.step # "idle" PROVE O!ScoreInv' BY <1>1 DEF O!ScoreInv
    <3>1. v7.asked \in 1 .. v6' /\ v5'[v7.asked] = O!Bundle BY <1>0, <1>3, <1>4, <2>1 DEF NightInv, O!ScoreInv
    <3> QED BY <1>0, <1>1, <3>1 DEF NightInv, O!ScoreInv, O!AllOf
  <2>11. O!CacheInv'
    <3>1. CASE v7.step = "idle"
      <4>1. v8[v1] = {} /\ \A v \in O!Versions : v > v1 => v8[v] = {}
        <5>1. \A v \in O!Versions : v > v6 => v8[v] = {} BY <1>0, <3>1 DEF NightInv, O!CacheInv, O!Asked
        <5>2. \A v \in O!Versions : v > v1 => v > v6 BY <1>3, <1>4 DEF O!Versions
        <5>3. v1 \in O!Versions /\ v1 > v6 BY <1>3, <1>4
        <5>4. v8[v1] = {} BY <5>1, <5>3
        <5> QED BY <5>1, <5>2, <5>4
      <4> QED BY <1>1, <2>1, <3>1, <4>1 DEF O!CacheInv, O!Asked
    <3>2. CASE v7.step # "idle" BY <1>0, <1>1, <3>2 DEF NightInv, O!CacheInv, O!Asked
    <3> QED BY <3>1, <3>2
  <2> QED BY <2>4, <2>5, <2>6, <2>7, <2>8, <2>9, <2>10, <2>11 DEF O!PlannerInv, ArtifactInv, O!Shapes, WeekShapes,
       NightShapes, ScoreSteps, ScoreRecords, TrainingRecords
<1> QED BY <1>5, <1>6

LEMMA TrainDiesKeeps == ASSUME O!PlannerInv, O!TrainDies PROVE O!PlannerInv'
<1>0. WeekInv /\ NightInv BY PlannerParts
<1>1. /\ v2.step # "idle" /\ UNCHANGED <<v1, v4, v5, v6, v7, v8, v9, v10, v11, v12>>
      /\ v2' = [v2 EXCEPT !.step = "idle"] /\ v3' = [v3 EXCEPT !["train_model"] = "failed"]
  BY NightlyIs DEF O!TrainDies
<1>2. WeekShapes /\ v2 \in TrainingRecords /\ v3 \in [O!TrainTasks -> {"none", "success", "failed"}]
  BY <1>0 DEF WeekInv, WeekShapes
<1>3. v3["train_model"] = "none" /\ (v3["training_complete"] = "success" => v3["train_model"] = "success")
  BY <1>0, <1>1 DEF WeekInv, O!TrainInv, O!FailureVisible
<1>4. v2' \in TrainingRecords /\ v2'.step = "idle" BY <1>1, <1>2 DEF TrainingRecords
<1>5. v3' \in [O!TrainTasks -> {"none", "success", "failed"}] /\ v3'["train_model"] = "failed"
      /\ v3'["training_complete"] = v3["training_complete"]
  BY <1>1, <1>2, TrainTaskNames
<1>6. WeekShapes' BY <1>1, <1>2, <1>4, <1>5 DEF WeekShapes
<1>7. O!TrainInv' BY <1>0, <1>1, <1>4, <1>5 DEF WeekInv, O!TrainInv
<1>8. O!FailureVisible' BY <1>3, <1>5 DEF O!FailureVisible
<1> QED BY <1>0, <1>1, <1>6, <1>7, <1>8, WeekMoved

\* The last task succeeds only after the training has, which is over by then.
LEMMA BesideKeeps == ASSUME O!PlannerInv, NEW t \in O!TrainTasks \ {"train_model"}, O!Beside(t) PROVE O!PlannerInv'
<1>0. WeekInv /\ NightInv BY PlannerParts
<1>1. v3[t] = "none" /\ UNCHANGED <<v1, v2, v4, v5, v6, v7, v8, v9, v10, v11, v12>> BY NightlyIs DEF O!Beside
<1>2. WeekShapes /\ v3 \in [O!TrainTasks -> {"none", "success", "failed"}] BY <1>0 DEF WeekInv, WeekShapes
<1>3. PICK s \in {"success", "failed"} :
        v3' = [v3 EXCEPT ![t] = s]
        /\ (t = "training_complete" /\ s = "success" => \A u \in O!Awaited : v3[u] = "success")
  BY DEF O!Beside
<1>4. v3' \in [O!TrainTasks -> {"none", "success", "failed"}] /\ v3'["train_model"] = v3["train_model"]
      /\ v3'[t] = s /\ (t # "training_complete" => v3'["training_complete"] = v3["training_complete"])
  BY <1>2, <1>3, TrainTaskNames
<1>5. WeekShapes' BY <1>1, <1>2, <1>4 DEF WeekShapes
<1>6. O!TrainInv' BY <1>0, <1>1, <1>4 DEF WeekInv, O!TrainInv
<1>7. O!FailureVisible'
  <2>1. CASE t = "training_complete" BY <1>3, <1>4, <2>1 DEF O!FailureVisible, O!Awaited
  <2>2. CASE t # "training_complete" BY <1>0, <1>4, <2>2 DEF WeekInv, O!FailureVisible
  <2> QED BY <2>1, <2>2
<1> QED BY <1>0, <1>1, <1>5, <1>6, <1>7, WeekMoved

\* A step of scoring.
LEMMA ScoreMoved ==
  ASSUME WeekInv, UNCHANGED <<v1, v2, v3, v4, v5, v6>>, NightShapes', O!CacheInv', O!ScoreInv', ArtifactInv'
  PROVE  O!PlannerInv'
<1>1. WeekInv' BY WeekStands
<1> QED BY <1>1 DEF O!PlannerInv, WeekInv, ArtifactInv, O!Shapes, WeekShapes, NightShapes, ScoreSteps,
       ScoreRecords, TrainingRecords

\* Scoring ends: the version it asked for is the current one, or the current one is newer.
LEMMA ScoreEnds ==
  ASSUME WeekInv, NightInv, UNCHANGED <<v1, v2, v3, v4, v5, v6>>, v7.step # "idle", v7' = O!NoScore,
         v8' \in [O!Versions -> SUBSET O!Bundle], v9' \in [O!Versions -> SUBSET O!Bundle], v10' \in Seq(Nat),
         \A v \in O!Versions : v >= v7.asked => v8'[v] = v8[v], v12' \in Nat, ArtifactInv'
  PROVE  O!PlannerInv'
<1>1. v7'.step = "idle" /\ v7' \in ScoreRecords BY NoScoreIs
<1>2. NightShapes' BY <1>1 DEF NightShapes
<1>3. O!ScoreInv' BY <1>1 DEF O!ScoreInv
<1>4. v6 \in Nat /\ v6 \in 0 .. MaxTrains /\ v7.asked \in 1 .. v6 BY PlannerConstants DEF WeekInv, WeekShapes, NightInv, O!ScoreInv
<1>5. v8[v7.asked] \in {{}, O!Bundle} /\ \A v \in O!Versions : v > v7.asked => v8[v] = {}
  BY <1>4 DEF NightInv, O!CacheInv, O!Asked
<1>6. O!CacheInv'
  <2>1. v6 \in O!Versions BY <1>4, PlannerConstants DEF O!Versions
  <2>2. v8'[v6] \in {{}, O!Bundle} BY <1>4, <1>5, <2>1
  <2>3. \A v \in O!Versions : v > v6 => v8'[v] = {} BY <1>4, <1>5 DEF O!Versions
  <2> QED BY <1>1, <2>2, <2>3 DEF O!CacheInv, O!Asked
<1> QED BY <1>2, <1>3, <1>6, ScoreMoved

LEMMA ScoreDiesKeeps == ASSUME O!PlannerInv, O!ScoreDies PROVE O!PlannerInv'
<1>0. WeekInv /\ NightInv BY PlannerParts
<1>1. /\ v7.step # "idle" /\ v7' = O!NoScore /\ UNCHANGED <<v1, v2, v3, v4, v5, v6, v8, v9, v10, v11, v12>>
  BY NightlyIs DEF O!ScoreDies
<1>2. ArtifactInv' BY <1>0, <1>1, ArtifactStands DEF NightInv
<1> QED BY <1>0, <1>1, <1>2, ScoreEnds DEF NightInv, NightShapes

LEMMA ScoreStartKeeps == ASSUME O!PlannerInv, O!ScoreStart PROVE O!PlannerInv'
<1>0. WeekInv /\ NightInv BY PlannerParts
<1>1. /\ v7.step = "idle" /\ v6 # 0 /\ v12' = v12 + 1 /\ UNCHANGED <<v1, v2, v3, v4, v5, v6, v8, v9, v11>>
      /\ v10' \in {v10, <<>>}
  BY NightlyIs DEF O!ScoreStart
<1>2. NightShapes /\ v6 \in Nat /\ v6 \in 0 .. MaxTrains BY <1>0, PlannerConstants DEF WeekInv, WeekShapes, NightInv
<1>3. v6 \in O!Versions /\ v5[v6] = O!Bundle BY <1>0, <1>1, <1>2, PlannerConstants DEF WeekInv, O!CurrentUsable, O!Versions
<1>4. v8[v6] \in {{}, O!Bundle} /\ \A v \in O!Versions : v > v6 => v8[v] = {}
  BY <1>0, <1>1 DEF NightInv, O!CacheInv, O!Asked
<1>5. /\ v7' \in ScoreRecords /\ v7'.asked = v6 /\ v7'.recent = <<>> /\ v7'.tables = <<>>
      /\ \/ v7'.step = "fetch"
         \/ v7'.step = "clear" /\ v7'.dir = v6 /\ v8[v6] = O!Bundle
  <2>1. CASE O!Hits(v6) = {}
    <3>1. v7' = [O!NoScore EXCEPT !.step = "fetch", !.asked = v6] BY <2>1 DEF O!ScoreStart
    <3>2. v7' = [step |-> "fetch", asked |-> v6, dir |-> 0, recent |-> <<>>, tables |-> <<>>] BY <3>1 DEF O!NoScore
    <3> QED BY <1>3, <3>2 DEF ScoreRecords, ScoreSteps
  <2>2. CASE O!Hits(v6) # {}
    <3> DEFINE n == CHOOSE v \in O!Hits(v6) : TRUE
    <3>1. n \in O!Hits(v6) BY <2>2
    <3>2. v7' = [O!NoScore EXCEPT !.step = "clear", !.asked = v6, !.dir = n] BY <2>2 DEF O!ScoreStart
    <3> HIDE DEF n
    <3>3. n = v6 /\ "meta.json" \in v8[v6] BY <3>1 DEF O!Hits
    <3>4. v7' = [step |-> "clear", asked |-> v6, dir |-> v6, recent |-> <<>>, tables |-> <<>>] BY <3>2, <3>3 DEF O!NoScore
    <3> QED BY <1>3, <1>4, <3>3, <3>4 DEF ScoreRecords, ScoreSteps
  <2> QED BY <2>1, <2>2
<1>6. NightShapes'
  <2>1. v12 \in Nat /\ v10 \in Seq(Nat) /\ v8 \in [O!Versions -> SUBSET O!Bundle] /\ v9 \in [O!Versions -> SUBSET O!Bundle]
    BY <1>2 DEF NightShapes
  <2>2. v12' \in Nat BY <1>1, <2>1
  <2>3. v10' \in Seq(Nat)
    <3>1. CASE v10' = v10 BY <2>1, <3>1
    <3>2. CASE v10' = <<>> BY <3>2
    <3> QED BY <1>1, <3>1, <3>2
  <2> QED BY <1>1, <1>5, <2>1, <2>2, <2>3 DEF NightShapes
<1>7. O!CacheInv' BY <1>1, <1>4, <1>5 DEF O!CacheInv, O!Asked
<1>8. O!ScoreInv'
  <2>1. v6 \in 1 .. v6 BY <1>1, <1>2
  <2>2. Len(v7'.recent) = 0 /\ Len(v7'.tables) = 0 BY <1>5
  <2> QED BY <1>1, <1>3, <1>5, <2>1, <2>2, PlannerConstants, FilesAre DEF O!ScoreInv
<1>9. ArtifactInv' BY <1>0, <1>1, ArtifactStands DEF NightInv
<1> QED BY <1>0, <1>1, <1>6, <1>7, <1>8, <1>9, ScoreMoved

\* What scoring's invariant says of its variables while it is under way.
LEMMA Underway ==
  ASSUME WeekInv, NightInv, v7.step # "idle"
  PROVE  /\ v12 \in Nat /\ v7 \in ScoreRecords /\ v8 \in [O!Versions -> SUBSET O!Bundle]
         /\ v9 \in [O!Versions -> SUBSET O!Bundle] /\ v10 \in Seq(Nat)
         /\ v6 \in Nat /\ v7.asked \in 1 .. v6 /\ v7.asked \in O!Versions /\ v7.asked # 0 /\ v5[v7.asked] = O!Bundle
         /\ v8[v7.asked] \in {{}, O!Bundle} /\ \A v \in O!Versions : v > v7.asked => v8[v] = {}
         /\ Len(v7.tables) <= Len(Tables) /\ \A i \in 1 .. Len(v7.tables) : v7.tables[i] = Tables[i]
<1>1. v6 \in 0 .. v1 /\ v1 \in 0 .. MaxTrains BY DEF WeekInv, WeekShapes
<1>2. v7.asked \in 1 .. v6 /\ v5[v7.asked] = O!Bundle BY DEF NightInv, O!ScoreInv
<1>3. v6 \in Nat /\ v7.asked # 0 /\ v7.asked \in O!Versions BY <1>1, <1>2, PlannerConstants DEF O!Versions
<1> QED BY <1>2, <1>3 DEF NightInv, NightShapes, O!ScoreInv, O!CacheInv, O!Asked

\* A step that leaves the bundles, the version asked for and the artifact alone.
LEMMA ScoreGoesOn ==
  ASSUME WeekInv, NightInv, UNCHANGED <<v1, v2, v3, v4, v5, v6, v8, v11, v12>>, v7.step # "idle", v7'.step # "idle",
         v7' \in ScoreRecords, v9' \in [O!Versions -> SUBSET O!Bundle], v10' \in Seq(Nat),
         v7'.asked = v7.asked, O!ScoreInv'
  PROVE  O!PlannerInv'
<1>1. NightShapes' BY DEF NightInv, NightShapes
<1>2. O!CacheInv' BY DEF NightInv, O!CacheInv, O!Asked
<1>3. ArtifactInv' BY ArtifactStands DEF NightInv
<1> QED BY <1>1, <1>2, <1>3, ScoreMoved

LEMMA FetchKeeps == ASSUME O!PlannerInv, O!Fetch PROVE O!PlannerInv'
<1>0. WeekInv /\ NightInv BY PlannerParts
<1>1. /\ v7.step = "fetch" /\ Len(v7.recent) < O!Cardinality(v5[v7.asked])
      /\ v9' = [v9 EXCEPT ![v7.asked] = @ \union {O!Files[Len(v7.recent) + 1]}]
      /\ v7' = [v7 EXCEPT !.recent = Append(@, Len(@) + 1)]
      /\ UNCHANGED <<v1, v2, v3, v4, v5, v6, v8, v10, v11, v12>>
  BY NightlyIs DEF O!Fetch, O!Fetched
<1>2. /\ v7 \in ScoreRecords /\ v9 \in [O!Versions -> SUBSET O!Bundle] /\ v10 \in Seq(Nat)
      /\ v7.asked \in 1 .. v6 /\ v7.asked \in O!Versions /\ v5[v7.asked] = O!Bundle
      /\ Len(v7.tables) <= Len(Tables) /\ \A i \in 1 .. Len(v7.tables) : v7.tables[i] = Tables[i]
  BY <1>0, <1>1, Underway
<1>3. O!Cardinality(O!Bundle) = 3 /\ Len(O!Files) = 3
  <2>1. O!Bundle \in O!Uploads BY DEF O!Uploads
  <2> QED BY <2>1, UploadsAre, FilesAre
<1>4. v7.recent \in Seq(Nat) /\ v7.step \in ScoreSteps /\ v7.dir \in {0} \union O!Versions /\ v7.tables \in Seq(STRING)
  BY <1>2 DEF ScoreRecords
<1>5. Len(v7.recent) \in Nat /\ Len(v7.recent) < 3 BY <1>1, <1>2, <1>3, <1>4
<1>6. O!Files[Len(v7.recent) + 1] \in O!Bundle
  <2>1. Len(v7.recent) + 1 \in 1 .. Len(O!Files) BY <1>3, <1>5
  <2> QED BY <2>1 DEF O!Bundle
<1>7. v9' \in [O!Versions -> SUBSET O!Bundle] /\ v9'[v7.asked] = v9[v7.asked] \union {O!Files[Len(v7.recent) + 1]}
  BY <1>1, <1>2, <1>6
<1> DEFINE s == Append(v7.recent, Len(v7.recent) + 1)
<1>8. s \in Seq(Nat) /\ Len(s) = Len(v7.recent) + 1 BY <1>4, <1>5
<1>9. v7' = [v7 EXCEPT !.recent = s] BY <1>1
<1> HIDE DEF s
<1>10. v7' \in ScoreRecords /\ v7'.step = "fetch" /\ v7'.asked = v7.asked /\ v7'.recent = s /\ v7'.tables = v7.tables
  BY <1>1, <1>2, <1>8, <1>9 DEF ScoreRecords
<1>11. \A i \in 1 .. Len(v7.recent) : O!Files[i] \in v9[v7.asked] BY <1>0, <1>1 DEF NightInv, O!ScoreInv
<1>12. \A i \in 1 .. Len(s) : O!Files[i] \in v9'[v7.asked]
  <2> SUFFICES ASSUME NEW i \in 1 .. Len(s) PROVE O!Files[i] \in v9'[v7.asked] OBVIOUS
  <2>1. i \in 1 .. Len(v7.recent) \/ i = Len(v7.recent) + 1 BY <1>5, <1>8
  <2> QED BY <1>7, <1>11, <2>1
<1>13. O!ScoreInv' BY <1>1, <1>2, <1>3, <1>5, <1>8, <1>10, <1>12, SMTT(30) DEF O!ScoreInv
<1> QED BY <1>0, <1>1, <1>2, <1>7, <1>10, <1>13, ScoreGoesOn

\* Every file of the bundle has been fetched, so the directory that is renamed is the
\* bundle.
LEMMA RenameKeeps == ASSUME O!PlannerInv, O!Rename PROVE O!PlannerInv'
<1>0. WeekInv /\ NightInv BY PlannerParts
<1>1. v7.step = "fetch" /\ Len(v7.recent) = O!Cardinality(v5[v7.asked]) /\ UNCHANGED <<v1, v2, v3, v4, v5, v6, v10, v11, v12>>
  BY NightlyIs DEF O!Rename
<1>2. /\ v7 \in ScoreRecords /\ v9 \in [O!Versions -> SUBSET O!Bundle] /\ v10 \in Seq(Nat) /\ v6 \in Nat /\ v12 \in Nat
      /\ v8 \in [O!Versions -> SUBSET O!Bundle] /\ \A v \in O!Versions : v > v7.asked => v8[v] = {}
      /\ v7.asked \in 1 .. v6 /\ v7.asked \in O!Versions /\ v7.asked # 0 /\ v5[v7.asked] = O!Bundle
      /\ Len(v7.tables) <= Len(Tables) /\ \A i \in 1 .. Len(v7.tables) : v7.tables[i] = Tables[i]
  BY <1>0, <1>1, Underway
<1>3. O!Cardinality(O!Bundle) = 3
  <2>1. O!Bundle \in O!Uploads BY DEF O!Uploads
  <2> QED BY <2>1, UploadsAre
<1>4. v9[v7.asked] = O!Bundle
  <2>1. \A i \in 1 .. 3 : O!Files[i] \in v9[v7.asked] BY <1>0, <1>1, <1>2, <1>3 DEF NightInv, O!ScoreInv
  <2>2. O!Files[1] \in v9[v7.asked] /\ O!Files[2] \in v9[v7.asked] /\ O!Files[3] \in v9[v7.asked] BY <2>1
  <2>3. v9[v7.asked] \subseteq O!Bundle BY <1>2
  <2> QED BY <2>2, <2>3, FilesAre
<1>5. /\ v8' = [v8 EXCEPT ![v7.asked] = v9[v7.asked]] /\ v9' = [v9 EXCEPT ![v7.asked] = {}]
      /\ v7' = [v7 EXCEPT !.step = "sweep", !.dir = v7.asked, !.recent = <<>>]
  BY <1>4, FilesAre DEF O!Rename
<1>6. /\ v8' \in [O!Versions -> SUBSET O!Bundle] /\ v9' \in [O!Versions -> SUBSET O!Bundle] /\ v8'[v7.asked] = O!Bundle
      /\ \A v \in O!Versions : v # v7.asked => v8'[v] = v8[v]
  BY <1>2, <1>4, <1>5
<1>7. v7' \in ScoreRecords /\ v7'.step = "sweep" /\ v7'.dir = v7.asked /\ v7'.asked = v7.asked /\ v7'.tables = v7.tables
  <2>1. PICK e : e = [v7 EXCEPT !.step = "sweep", !.dir = v7.asked, !.recent = <<>>] OBVIOUS
  <2>2. <<>> \in Seq(Nat) OBVIOUS
  <2>3. e \in ScoreRecords /\ e.step = "sweep" /\ e.dir = v7.asked /\ e.asked = v7.asked /\ e.tables = v7.tables
    BY <1>2, <2>1, <2>2 DEF ScoreRecords, ScoreSteps
  <2> QED BY <1>5, <2>1, <2>3
<1>8. NightShapes' BY <1>1, <1>2, <1>6, <1>7 DEF NightShapes
<1>9. O!CacheInv'
  <2>1. \A v \in O!Versions : v > v7.asked => v # v7.asked BY <1>2 DEF O!Versions
  <2> QED BY <1>2, <1>6, <1>7, <2>1 DEF O!CacheInv, O!Asked
<1>10. O!ScoreInv' BY <1>1, <1>2, <1>6, <1>7 DEF O!ScoreInv
<1>11. ArtifactInv' BY <1>0, <1>1, ArtifactStands DEF NightInv
<1> QED BY <1>0, <1>1, <1>8, <1>9, <1>10, <1>11, ScoreMoved

\* Removing the other directories, or dying on the way, leaves this one alone.
LEMMA SweepKeeps == ASSUME O!PlannerInv, O!Sweep PROVE O!PlannerInv'
<1>0. WeekInv /\ NightInv BY PlannerParts
<1>1. v7.step = "sweep" /\ UNCHANGED <<v1, v2, v3, v4, v5, v6, v10, v11, v12>> BY NightlyIs DEF O!Sweep
<1>2. /\ v7 \in ScoreRecords /\ v9 \in [O!Versions -> SUBSET O!Bundle] /\ v10 \in Seq(Nat) /\ v6 \in Nat /\ v12 \in Nat
      /\ v8 \in [O!Versions -> SUBSET O!Bundle] /\ \A v \in O!Versions : v > v7.asked => v8[v] = {}
      /\ v7.asked \in 1 .. v6 /\ v7.asked \in O!Versions /\ v7.asked # 0 /\ v5[v7.asked] = O!Bundle
      /\ Len(v7.tables) <= Len(Tables) /\ \A i \in 1 .. Len(v7.tables) : v7.tables[i] = Tables[i]
  BY <1>0, <1>1, Underway
<1>3. v7.dir = v7.asked /\ v8[v7.asked] = O!Bundle BY <1>0, <1>1 DEF NightInv, O!ScoreInv
<1>4. ArtifactInv' BY <1>0, <1>1, ArtifactStands DEF NightInv
<1>5. ASSUME /\ v8' = [v \in O!Versions |-> IF v = v7.dir THEN v8[v] ELSE {}]
             /\ v9' = [v \in O!Versions |-> {}] /\ v7' = [v7 EXCEPT !.step = "clear"]
      PROVE  O!PlannerInv'
  <2>1. v8' \in [O!Versions -> SUBSET O!Bundle] /\ v9' \in [O!Versions -> SUBSET O!Bundle]
    BY <1>2, <1>5
  <2>2. v8'[v7.asked] = O!Bundle /\ \A v \in O!Versions : v > v7.asked => v8'[v] = {} BY <1>2, <1>3, <1>5
  <2>3. v7' \in ScoreRecords /\ v7'.step = "clear" /\ v7'.dir = v7.asked /\ v7'.asked = v7.asked /\ v7'.tables = v7.tables
    BY <1>2, <1>3, <1>5 DEF ScoreRecords, ScoreSteps
  <2>4. NightShapes' BY <1>1, <1>2, <2>1, <2>3 DEF NightShapes
  <2>5. O!CacheInv' BY <2>2, <2>3 DEF O!CacheInv, O!Asked
  <2>6. O!ScoreInv' BY <1>1, <1>2, <2>2, <2>3 DEF O!ScoreInv
  <2> QED BY <1>0, <1>1, <1>4, <2>4, <2>5, <2>6, ScoreMoved
<1>6. ASSUME NEW v \in O!Versions \ {v7.dir}, NEW f \in O!Bundle,
             v8' = [v8 EXCEPT ![v] = @ \ {f}], v7' = O!NoScore, UNCHANGED v9
      PROVE  O!PlannerInv'
  <2>1. v8' \in [O!Versions -> SUBSET O!Bundle]
    <3>1. v8[v] \ {f} \in SUBSET O!Bundle BY <1>2
    <3> QED BY <1>2, <1>6, <3>1
  <2>2. \A u \in O!Versions : u >= v7.asked => v8'[u] = v8[u]
    <3> SUFFICES ASSUME NEW u \in O!Versions, u >= v7.asked PROVE v8'[u] = v8[u] OBVIOUS
    <3>1. CASE u # v BY <1>2, <1>6, <3>1
    <3>2. CASE u = v
      <4>1. u > v7.asked BY <1>2, <1>3, <1>6, <3>2 DEF O!Versions
      <4>2. v8[u] = {} BY <1>2, <4>1
      <4>3. v8'[u] = v8[u] \ {f} BY <1>2, <1>6, <3>2
      <4> QED BY <4>2, <4>3
    <3> QED BY <3>1, <3>2
  <2> QED BY <1>0, <1>1, <1>2, <1>4, <1>6, <2>1, <2>2, ScoreEnds
<1> QED BY <1>5, <1>6 DEF O!Sweep

LEMMA BundlesClearKeeps == ASSUME O!PlannerInv, O!Clear PROVE O!PlannerInv'
<1>0. WeekInv /\ NightInv BY PlannerParts
<1>1. /\ v7.step = "clear" /\ v10' = <<>> /\ v7' = [v7 EXCEPT !.step = "extract"]
      /\ UNCHANGED <<v1, v2, v3, v4, v5, v6, v8, v9, v11, v12>>
  BY NightlyIs DEF O!Clear, O!Cleared
<1>2. v7 \in ScoreRecords /\ v9 \in [O!Versions -> SUBSET O!Bundle] BY <1>0, <1>1, Underway
<1>3. /\ v7' \in ScoreRecords /\ v7'.step = "extract" /\ v7'.asked = v7.asked /\ v7'.dir = v7.dir
      /\ v7'.tables = v7.tables
  BY <1>1, <1>2 DEF ScoreRecords, ScoreSteps
<1>4. O!ScoreInv' BY <1>0, <1>1, <1>3 DEF NightInv, O!ScoreInv
<1>5. v10' \in Seq(Nat) BY <1>1
<1> QED BY <1>0, <1>1, <1>2, <1>3, <1>4, <1>5, ScoreGoesOn

\* The prefix was empty, so the shards that are there are all this attempt's.
LEMMA ExtractKeeps == ASSUME O!PlannerInv, O!Extract PROVE O!PlannerInv'
<1>0. WeekInv /\ NightInv BY PlannerParts
<1>1. v7.step = "extract" /\ v7' = [v7 EXCEPT !.step = "download"] /\ UNCHANGED <<v1, v2, v3, v4, v5, v6, v8, v9, v11, v12>>
  BY NightlyIs DEF O!Extract
<1>2. v7 \in ScoreRecords /\ v9 \in [O!Versions -> SUBSET O!Bundle] /\ v12 \in Nat BY <1>0, <1>1, Underway
<1>3. v10 = <<>> /\ Len(v10) = 0 BY <1>0, <1>1 DEF NightInv, O!ScoreInv
<1>4. PICK n \in 1 .. 2 : v10' = [i \in 1 .. (IF Len(v10) > n THEN Len(v10) ELSE n) |-> IF i <= n THEN v12 ELSE v10[i]]
  BY DEF O!Extract
<1>5. v10' = [i \in 1 .. n |-> v12]
  <2>1. ~(Len(v10) > n) /\ n \in Nat BY <1>3
  <2>2. v10' = [i \in 1 .. n |-> IF i <= n THEN v12 ELSE v10[i]] BY <1>4, <2>1
  <2>3. \A i \in 1 .. n : i <= n BY <2>1
  <2> QED BY <2>2, <2>3
<1>6. v10' \in Seq(Nat) /\ O!AllOf(v10', v12) /\ Len(v10') = n BY <1>2, <1>5 DEF O!AllOf
<1>7. /\ v7' \in ScoreRecords /\ v7'.step = "download" /\ v7'.asked = v7.asked /\ v7'.dir = v7.dir
      /\ v7'.tables = v7.tables
  BY <1>1, <1>2 DEF ScoreRecords, ScoreSteps
<1>8. O!ScoreInv' BY <1>0, <1>1, <1>6, <1>7 DEF NightInv, O!ScoreInv, O!AllOf
<1> QED BY <1>0, <1>1, <1>2, <1>6, <1>7, <1>8, ScoreGoesOn

LEMMA DownloadKeeps == ASSUME O!PlannerInv, O!Download PROVE O!PlannerInv'
<1>0. WeekInv /\ NightInv BY PlannerParts
<1>1. /\ v7.step = "download" /\ v7' = [v7 EXCEPT !.step = "unstage", !.recent = v10]
      /\ UNCHANGED <<v1, v2, v3, v4, v5, v6, v8, v9, v10, v11, v12>>
  BY NightlyIs DEF O!Download
<1>2. v7 \in ScoreRecords /\ v9 \in [O!Versions -> SUBSET O!Bundle] /\ v10 \in Seq(Nat) BY <1>0, <1>1, Underway
<1>3. PICK e : e = [v7 EXCEPT !.step = "unstage", !.recent = v10] OBVIOUS
<1>4. /\ e \in ScoreRecords /\ e.step = "unstage" /\ e.asked = v7.asked /\ e.dir = v7.dir
      /\ e.tables = v7.tables /\ e.recent = v10
  BY <1>2, <1>3 DEF ScoreRecords, ScoreSteps
<1>5. v7' = e BY <1>1, <1>3
<1>6. O!AllOf(v10, v12) BY <1>0, <1>1 DEF NightInv, O!ScoreInv
<1>7. O!ScoreInv' BY <1>0, <1>1, <1>4, <1>5, <1>6 DEF NightInv, O!ScoreInv, O!AllOf
<1> QED BY <1>0, <1>1, <1>2, <1>4, <1>5, <1>7, ScoreGoesOn

LEMMA UnstageKeeps == ASSUME O!PlannerInv, O!Unstage PROVE O!PlannerInv'
<1>0. WeekInv /\ NightInv BY PlannerParts
<1>1. /\ v7.step = "unstage" /\ v10' = <<>> /\ v7' = [v7 EXCEPT !.step = "write"]
      /\ UNCHANGED <<v1, v2, v3, v4, v5, v6, v8, v9, v11, v12>>
  BY NightlyIs DEF O!Unstage
<1>2. v7 \in ScoreRecords /\ v9 \in [O!Versions -> SUBSET O!Bundle] BY <1>0, <1>1, Underway
<1>3. /\ v7' \in ScoreRecords /\ v7'.step = "write" /\ v7'.asked = v7.asked /\ v7'.dir = v7.dir
      /\ v7'.tables = v7.tables /\ v7'.recent = v7.recent
  BY <1>1, <1>2 DEF ScoreRecords, ScoreSteps
<1>4. O!AllOf(v7.recent, v12) BY <1>0, <1>1 DEF NightInv, O!ScoreInv
<1>5. O!ScoreInv' BY <1>0, <1>1, <1>3, <1>4 DEF NightInv, O!ScoreInv, O!AllOf
<1>6. v10' \in Seq(Nat) BY <1>1
<1> QED BY <1>0, <1>1, <1>2, <1>3, <1>5, <1>6, ScoreGoesOn

LEMMA WriteKeeps == ASSUME O!PlannerInv, O!Write PROVE O!PlannerInv'
<1>0. WeekInv /\ NightInv BY PlannerParts
<1>1. /\ v7.step = "write" /\ Len(v7.tables) < Len(Tables) /\ UNCHANGED <<v1, v2, v3, v4, v5, v6, v8, v9, v10, v11, v12>>
      /\ v7' = [v7 EXCEPT !.tables = Append(@, Tables[Len(@) + 1])] \/ v7' = O!NoScore
  BY NightlyIs DEF O!Write
<1>2. /\ v7 \in ScoreRecords /\ v9 \in [O!Versions -> SUBSET O!Bundle] /\ v8 \in [O!Versions -> SUBSET O!Bundle]
      /\ v10 \in Seq(Nat) /\ v12 \in Nat /\ \A i \in 1 .. Len(v7.tables) : v7.tables[i] = Tables[i]
  BY <1>0, <1>1, Underway
<1>3. CASE v7' = O!NoScore
  <2>1. ArtifactInv' BY <1>0, <1>1, ArtifactStands DEF NightInv
  <2> QED BY <1>0, <1>1, <1>2, <1>3, <2>1, ScoreEnds
<1>4. CASE v7' = [v7 EXCEPT !.tables = Append(@, Tables[Len(@) + 1])]
  <2> DEFINE s == Append(v7.tables, Tables[Len(v7.tables) + 1])
  <2>1. v7.tables \in Seq(STRING) /\ Len(v7.tables) \in Nat BY <1>2 DEF ScoreRecords
  <2>2. Tables[Len(v7.tables) + 1] \in STRING
    <3>1. Len(v7.tables) + 1 \in 1 .. Len(Tables) BY <1>1, <2>1, PlannerConstants
    <3> QED BY <3>1, PlannerConstants
  <2>3. s \in Seq(STRING) /\ Len(s) = Len(v7.tables) + 1 /\ Len(s) <= Len(Tables) BY <1>1, <2>1, <2>2, PlannerConstants
  <2>4. \A i \in 1 .. Len(s) : s[i] = Tables[i]
    <3> SUFFICES ASSUME NEW i \in 1 .. Len(s) PROVE s[i] = Tables[i] OBVIOUS
    <3>1. CASE i = Len(v7.tables) + 1 BY <2>1, <2>2, <3>1
    <3>2. CASE i # Len(v7.tables) + 1
      <4>1. i \in 1 .. Len(v7.tables) BY <2>1, <2>3, <3>2
      <4>2. s[i] = v7.tables[i] BY <2>1, <2>2, <4>1
      <4> QED BY <1>2, <4>1, <4>2
    <3> QED BY <3>1, <3>2
  <2>5. v7' = [v7 EXCEPT !.tables = s] BY <1>4
  <2> HIDE DEF s
  <2>6. /\ v7' \in ScoreRecords /\ v7'.step = "write" /\ v7'.asked = v7.asked /\ v7'.dir = v7.dir
        /\ v7'.tables = s /\ v7'.recent = v7.recent
    BY <1>1, <1>2, <2>3, <2>5 DEF ScoreRecords, ScoreSteps
  <2>7. O!ScoreInv' BY <1>0, <1>1, <2>3, <2>4, <2>6 DEF NightInv, O!ScoreInv, O!AllOf
  <2> QED BY <1>0, <1>1, <1>2, <2>6, <2>7, ScoreGoesOn
<1> QED BY <1>1, <1>3, <1>4

LEMMA ReplaceKeeps == ASSUME O!PlannerInv, O!Replace PROVE O!PlannerInv'
<1>0. WeekInv /\ NightInv BY PlannerParts
<1>1. /\ v7.step = "write" /\ Len(v7.tables) = Len(Tables) /\ v7' = O!NoScore
      /\ v11' = [asked |-> v7.asked, bundle |-> v7.dir, files |-> v8[v7.dir],
                 recent |-> v7.recent, tables |-> v7.tables, try |-> v12]
      /\ UNCHANGED <<v1, v2, v3, v4, v5, v6, v8, v9, v10, v12>>
  BY NightlyIs DEF O!Replace, O!Ready
<1>2. /\ v7 \in ScoreRecords /\ v9 \in [O!Versions -> SUBSET O!Bundle] /\ v8 \in [O!Versions -> SUBSET O!Bundle]
      /\ v10 \in Seq(Nat) /\ v12 \in Nat /\ \A i \in 1 .. Len(v7.tables) : v7.tables[i] = Tables[i]
  BY <1>0, <1>1, Underway
<1>3. v7.dir = v7.asked /\ v8[v7.dir] = O!Bundle /\ O!AllOf(v7.recent, v12) BY <1>0, <1>1 DEF NightInv, O!ScoreInv
<1>4. v7.tables = Tables
  <2>1. v7.tables \in Seq(STRING) BY <1>2 DEF ScoreRecords
  <2> QED BY <1>1, <1>2, <2>1, PlannerConstants
<1>5. /\ v11'.asked = v7.asked /\ v11'.bundle = v7.dir /\ v11'.files = v8[v7.dir] /\ v11'.recent = v7.recent
      /\ v11'.tables = v7.tables /\ v11'.try = v12
  BY <1>1
<1>6. ArtifactInv' BY <1>3, <1>4, <1>5 DEF ArtifactInv, O!ArtifactWhole, O!NewestModel, O!OwnExtract, O!AllOf
<1> QED BY <1>0, <1>1, <1>2, <1>6, ScoreEnds

LEMMA PlannerStands == ASSUME O!PlannerInv, UNCHANGED O!vars PROVE O!PlannerInv'
<1>0. WeekInv /\ NightInv BY PlannerParts
<1>1. UNCHANGED <<v1, v2, v3, v4, v5, v6, v7, v8, v9, v10, v11, v12>> BY DEF O!vars
<1>2. NightInv' BY <1>0, <1>1, NightStands
<1>3. WeekInv' BY <1>0, <1>1, WeekStands
<1> QED BY <1>2, <1>3 DEF O!PlannerInv, WeekInv, NightInv, ArtifactInv, O!Shapes, WeekShapes, NightShapes, ScoreSteps,
       ScoreRecords, TrainingRecords

LEMMA PlannerStep == ASSUME O!PlannerInv, O!Next PROVE O!PlannerInv'
BY TrainStartKeeps, FitKeeps, PlannerUploadKeeps, TrainDiesKeeps, BesideKeeps, ScoreStartKeeps, FetchKeeps, RenameKeeps,
   SweepKeeps, BundlesClearKeeps, ExtractKeeps, DownloadKeeps, UnstageKeeps, WriteKeeps, ReplaceKeeps, ScoreDiesKeeps,
   PlannerStands DEF O!Next

LEMMA PlannerSafe ==
  O!PlannerInv => O!CurrentUsable /\ O!ArtifactWhole /\ O!NewestModel /\ O!OwnExtract /\ O!FailureVisible
BY DEF O!PlannerInv

--------------------------------------------------------------------------------
(* All together *)

CachesInv ==
  /\ which = "cache" => K!CacheInv
  /\ which = "status" => Z!StatusInv
  /\ which = "times" => Q!TimesInv
  /\ which = "map" => J!MapInv
  /\ which = "planner" => O!PlannerInv

LEMMA CachesInitially == CachesInit => CachesInv
BY CacheInit, StatusInit, TimesInitially, MapInit, PlannerInit DEF CachesInit, CachesInv

LEMMA CachesInductive == CachesInv /\ [CachesNext]_vars => CachesInv'
<1> SUFFICES ASSUME CachesInv, [CachesNext]_vars PROVE CachesInv' OBVIOUS
<1>1. CASE which = "cache" /\ K!Next /\ UNCHANGED which BY <1>1, CacheStep DEF CachesInv
<1>2. CASE which = "status" /\ Z!Next /\ UNCHANGED which BY <1>2, StatusStep DEF CachesInv
<1>3. CASE which = "times" /\ Q!Next /\ UNCHANGED which BY <1>3, TimesStep DEF CachesInv
<1>4. CASE which = "map" /\ J!Next /\ UNCHANGED which BY <1>4, MapStep DEF CachesInv
<1>5. CASE which = "planner" /\ O!Next /\ UNCHANGED which BY <1>5, PlannerStep DEF CachesInv
<1>6. CASE UNCHANGED vars
  <2>1. UNCHANGED <<which, v1, v2, v3, v4, v5, v6, v7, v8, v9, v10, v11, v12>> BY <1>6 DEF vars
  <2>2. UNCHANGED O!vars BY <2>1 DEF O!vars
  <2> QED BY <2>1, <2>2, CacheStands, StatusStands, TimesStand, MapStands, PlannerStands DEF CachesInv
<1> QED BY <1>1, <1>2, <1>3, <1>4, <1>5, <1>6 DEF CachesNext

\* route_cache.py, live_status.py, live_times.row_times, the route map's and the planner's
\* publication. For any number of threads, limits, times, months and bundles, with any
\* step failing: a caller only joins a computation whose outcome is to come and is not
\* left waiting, no journey is computed twice at a time and the tables keep to their
\* limits; a status is offline, online or at an incident only as long as what was read
\* supports it; whatever the calibration and the delay, a vehicle's moved stops stay in
\* order and agree with each other and with the plan; a month and a model bundle are
\* whole, final and the newest, and a page shows the month that is there.
THEOREM CachesSafely == CachesSpec => []CachesSound
<1>1. CachesInv => CachesSound
  BY CacheSafe, TimesSafe, PlannerSafe DEF CachesInv, CachesSound, Z!StatusInv, Z!PanelInv, J!MapInv
<1> QED BY <1>1, CachesInitially, CachesInductive, PTL DEF CachesSpec

====================================================================================
