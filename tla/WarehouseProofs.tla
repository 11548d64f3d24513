------------------------------ MODULE WarehouseProofs ------------------------------
(* What Warehouse's components keep true, one after the other: each component's     *)
(* inductive invariant is preserved action by action, and implies what a run of the *)
(* components checks. The theorems are at the end.                                  *)
EXTENDS Warehouse, TLAPS, FiniteSetTheorems, WellFoundedInduction

--------------------------------------------------------------------------------
(* Least and greatest numbers, induction over the naturals without an operator    *)
(* parameter, and the fold of Lists.                                              *)

LEMMA LessThan == OpToRel(<, Nat) = {ss \in Nat \X Nat : ss[1] < ss[2]}
BY Zenon DEF OpToRel

LEMMA LeastOf == ASSUME NEW S, S \subseteq Nat, S # {} PROVE \E x \in S : \A y \in S : x <= y
<1> DEFINE R == {ss \in Nat \X Nat : ss[1] < ss[2]}
<1>1. IsWellFoundedOn(R, Nat) BY NatLessThanWellFounded, LessThan
<1> HIDE DEF R
<1>2. PICK x \in S : \A y \in S : ~(<<y, x>> \in R) BY <1>1, WFMin
<1>3. ASSUME NEW y \in S PROVE x <= y
  <2>1. x \in Nat /\ y \in Nat OBVIOUS
  <2>2. y < x => <<y, x>> \in R BY <2>1 DEF R
  <2> QED BY <1>2, <2>1, <2>2
<1> QED BY <1>3

\* Of numbers up to a bound there is a greatest.
LEMMA GreatestOf == ASSUME NEW n \in Nat, NEW S, S \subseteq 1 .. n, S # {} PROVE \E x \in S : \A y \in S : y <= x
<1> DEFINE Gaps == {n - x : x \in S}
<1>1. Gaps \subseteq Nat /\ Gaps # {} /\ \A y \in S : n - y \in Gaps
  <2>1. \A x \in S : n - x \in Nat /\ n - x \in Gaps
    OBVIOUS
  <2>2. Gaps \subseteq Nat
    BY <2>1
  <2> QED BY <2>1, <2>2
<1> HIDE DEF Gaps
<1>2. PICK g \in Gaps : \A m \in Gaps : g <= m
  BY <1>1, LeastOf
<1>3. PICK x \in S : g = n - x
  BY <1>2 DEF Gaps
<1>4. ASSUME NEW y \in S PROVE y <= x
  <2>1. g <= n - y /\ x \in 1 .. n /\ y \in 1 .. n
    BY <1>1, <1>2
  <2> QED BY <1>3, <2>1
<1> QED BY <1>4

\* A set that contains 0 and with each number the next one contains all of them.
LEMMA NatInd ==
  ASSUME NEW S, 0 \in S, \A n \in Nat : n \in S => n + 1 \in S
  PROVE  Nat \subseteq S
<1> SUFFICES ASSUME Nat \ S # {} PROVE FALSE OBVIOUS
<1>1. PICK x \in Nat \ S : \A y \in Nat \ S : x <= y
  BY LeastOf
<1>2. x # 0 /\ x - 1 \in Nat
  BY <1>1
<1>3. x - 1 \in S
  BY <1>1, <1>2
<1> QED BY <1>1, <1>2, <1>3

\* f lists the values a fold of seq by g takes, the first of them base.
Folded(f, S, g, base, seq) ==
  f \in [0 .. Len(seq) -> S] /\ f[0] = base /\ \A i \in 1 .. Len(seq) : f[i] = g[<<f[i - 1], seq[i]>>]

\* For a function there are such values.
LEMMA FoldExists ==
  ASSUME NEW S, NEW E, NEW g \in [S \X E -> S], NEW base \in S, NEW seq \in Seq(E)
  PROVE  \E f : Folded(f, S, g, base, seq)
<1> DEFINE Up(n) == \E f \in [0 .. n -> S] : f[0] = base /\ \A i \in 1 .. n : f[i] = g[<<f[i - 1], seq[i]>>]
           T == {n \in Nat : n <= Len(seq) => Up(n)}
<1>1. 0 \in T
  <2>1. [i \in 0 .. 0 |-> base] \in [0 .. 0 -> S] OBVIOUS
  <2>2. \A i \in 1 .. 0 : FALSE
    OBVIOUS
  <2>3. Up(0)
    <3>1. WITNESS [i \in 0 .. 0 |-> base] \in [0 .. 0 -> S]
    <3> QED BY <2>2
  <2> QED BY <2>3
<1>2. ASSUME NEW n \in Nat, n \in T PROVE n + 1 \in T
  <2> SUFFICES ASSUME n + 1 <= Len(seq) PROVE Up(n + 1)
    OBVIOUS
  <2>1. PICK f \in [0 .. n -> S] : f[0] = base /\ \A i \in 1 .. n : f[i] = g[<<f[i - 1], seq[i]>>]
    BY <1>2
  <2>2. n \in 0 .. n /\ n + 1 \in 1 .. Len(seq) /\ seq[n + 1] \in E
    OBVIOUS
  <2> DEFINE h == [i \in 0 .. n + 1 |-> IF i = n + 1 THEN g[<<f[n], seq[n + 1]>>] ELSE f[i]]
  <2>3. h \in [0 .. n + 1 -> S]
    BY <2>1, <2>2
  <2>4. h[0] = base
    BY <2>1
  <2>5. ASSUME NEW i \in 1 .. n + 1 PROVE h[i] = g[<<h[i - 1], seq[i]>>]
    <3>1. i \in 0 .. n + 1 /\ i - 1 \in 0 .. n + 1 /\ i - 1 # n + 1
      OBVIOUS
    <3>2. h[i - 1] = f[i - 1]
      BY <3>1
    <3>3. CASE i = n + 1
      <4>1. h[i] = g[<<f[n], seq[n + 1]>>] /\ i - 1 = n
        BY <3>1, <3>3
      <4> QED BY <3>2, <3>3, <4>1
    <3>4. CASE i # n + 1
      <4>1. h[i] = f[i] /\ i \in 1 .. n
        BY <3>1, <3>4
      <4> QED BY <2>1, <3>2, <4>1
    <3> QED BY <3>3, <3>4
  <2> QED BY <2>3, <2>4, <2>5
<1>3. Nat \subseteq T
  <2> HIDE DEF T
  <2> QED BY <1>1, <1>2, NatInd
<1>4. Up(Len(seq))
  BY <1>3
<1> QED BY <1>4 DEF Folded

\* Two recursions that agree at each step as long as they agreed before are the same.
LEMMA Agree ==
  ASSUME NEW n \in Nat, NEW f, NEW h, h[0] = f[0], \A i \in 1 .. n : h[i - 1] = f[i - 1] => h[i] = f[i]
  PROVE  h[n] = f[n]
<1> DEFINE T == {m \in Nat : m <= n => h[m] = f[m]}
<1>1. 0 \in T
  OBVIOUS
<1>2. ASSUME NEW m \in Nat, m \in T PROVE m + 1 \in T
  <2> SUFFICES ASSUME m + 1 <= n PROVE h[m + 1] = f[m + 1]
    OBVIOUS
  <2> DEFINE k == m + 1
  <2>1. k \in 1 .. n /\ k - 1 = m /\ h[m] = f[m]
    BY <1>2
  <2> HIDE DEF k
  <2>2. h[k] = f[k]
    BY <2>1
  <2> QED BY <2>2 DEF k
<1>3. Nat \subseteq T
  <2> HIDE DEF T
  <2> QED BY <1>1, <1>2, NatInd
<1> QED BY <1>3

--------------------------------------------------------------------------------
(* FeedIncidents: v1 hour, v2 started, v3 summary, v4 before, v5 prior, v6 report   *)

Happenings == [transition : I!Transitions, start : Int, at : Int, reason : I!Reasons \union {"monitoring_gap"}]

\* What is open before an event does not depend on the events from there on.
LEMMA OpenBefore ==
  ASSUME NEW ev \in Seq(Happenings), NEW e \in Happenings, NEW opening, NEW closing, NEW first, NEW k \in 1 .. Len(ev) + 1
  PROVE  I!OpenBy(Append(ev, e), opening, closing, first, k) = I!OpenBy(ev, opening, closing, first, k)
<1> DEFINE kinds == opening \union closing
           new == Append(ev, e)
           told == {j \in 1 .. k - 1 : ev[j].transition \in kinds}
           told2 == {j \in 1 .. k - 1 : new[j].transition \in kinds}
           last == CHOOSE j \in told : \A l \in told : l <= j
           last2 == CHOOSE j \in told2 : \A l \in told2 : l <= j
<1>1. I!OpenBy(ev, opening, closing, first, k) = IF told = {} THEN first ELSE IF ev[last].transition \in opening THEN {ev[last].start} ELSE {}
  BY Zenon DEF I!OpenBy
<1>2. I!OpenBy(new, opening, closing, first, k) = IF told2 = {} THEN first ELSE IF new[last2].transition \in opening THEN {new[last2].start} ELSE {}
  BY Zenon DEF I!OpenBy
<1>3. \A j \in 1 .. k - 1 : new[j] = ev[j]
  OBVIOUS
<1>4. told2 = told
  <2> HIDE DEF new
  <2> QED BY <1>3
<1>5. told # {} => last \in told
  <2>1. k - 1 \in Nat /\ told \subseteq 1 .. k - 1
    OBVIOUS
  <2> HIDE DEF told
  <2>2. told # {} => \E j \in told : \A l \in told : l <= j
    BY <2>1, GreatestOf
  <2> QED BY <2>2
<1> HIDE DEF new, last, last2
<1>6. last2 = last
  BY Zenon, <1>4 DEF last, last2
<1>7. told # {} => new[last] = ev[last]
  BY <1>3, <1>5
<1> HIDE DEF told, told2
<1>8. I!OpenBy(new, opening, closing, first, k) = I!OpenBy(ev, opening, closing, first, k)
  <2>1. CASE told = {}
    BY Zenon, <1>1, <1>2, <1>4, <2>1
  <2>2. CASE told # {}
    <3>1. new[last2] = ev[last] /\ told2 # {}
      BY Zenon, <1>4, <1>6, <1>7, <2>2
    <3> QED BY <1>1, <1>2, <2>2, <3>1
  <2> QED BY Zenon, <2>1, <2>2
<1> QED BY <1>8 DEF new

\* An event decides what is open after it, or is about something else.
LEMMA OpenAfter ==
  ASSUME NEW ev \in Seq(Happenings), NEW e \in Happenings, NEW opening, NEW closing, NEW first
  PROVE  /\ e.transition \in opening => I!OpenBy(Append(ev, e), opening, closing, first, Len(ev) + 2) = {e.start}
         /\ e.transition \in closing \ opening => I!OpenBy(Append(ev, e), opening, closing, first, Len(ev) + 2) = {}
         /\ e.transition \notin opening \union closing =>
              I!OpenBy(Append(ev, e), opening, closing, first, Len(ev) + 2) = I!OpenBy(ev, opening, closing, first, Len(ev) + 1)
<1> DEFINE kinds == opening \union closing
           new == Append(ev, e)
           n == Len(ev) + 1
           told == {j \in 1 .. n - 1 : ev[j].transition \in kinds}
           z == n + 1
           told2 == {j \in 1 .. z - 1 : new[j].transition \in kinds}
           last == CHOOSE j \in told : \A l \in told : l <= j
           last2 == CHOOSE j \in told2 : \A l \in told2 : l <= j
<1>1. I!OpenBy(ev, opening, closing, first, n) = IF told = {} THEN first ELSE IF ev[last].transition \in opening THEN {ev[last].start} ELSE {}
  BY Zenon DEF I!OpenBy
<1>2. I!OpenBy(new, opening, closing, first, z) = IF told2 = {} THEN first ELSE IF new[last2].transition \in opening THEN {new[last2].start} ELSE {}
  BY Zenon DEF I!OpenBy
<1>3. n \in Nat /\ new[n] = e /\ (\A j \in 1 .. n - 1 : new[j] = ev[j]) /\ Len(ev) + 2 = z /\ z - 1 = n
  OBVIOUS
<1> HIDE DEF n, new, z
<1>4. CASE e.transition \in kinds
  <2>1. n \in told2 /\ \A l \in told2 : l <= n
    BY <1>3, <1>4
  <2>2. last2 = n
    <3>1. told2 \subseteq Int
      BY <1>3
    <3>2. \E j \in told2 : \A l \in told2 : l <= j
      BY Zenon, <2>1
    <3>3. last2 \in told2 /\ \A l \in told2 : l <= last2
      BY Zenon, <3>2
    <3> HIDE DEF told2, last2
    <3>4. n <= last2 /\ last2 <= n /\ last2 \in Int
      BY <2>1, <3>1, <3>3
    <3> QED BY <1>3, <3>4
  <2> HIDE DEF last2, told2
  <2>3. I!OpenBy(new, opening, closing, first, z) = IF e.transition \in opening THEN {e.start} ELSE {}
    <3>1. told2 # {}
      BY <2>1
    <3> QED BY Zenon, <1>2, <1>3, <2>2, <3>1
  <2>4. I!OpenBy(Append(ev, e), opening, closing, first, Len(ev) + 2) = IF e.transition \in opening THEN {e.start} ELSE {}
    BY <1>3, <2>3 DEF new
  <2> QED BY <1>4, <2>4
<1>5. CASE e.transition \notin kinds
  <2>1. told2 = told
    <3>1. \A j \in 1 .. n : j \in 1 .. n - 1 \/ j = n
      BY <1>3
    <3> QED BY <1>3, <1>5, <3>1
  <2>2. last2 = last
    BY Zenon, <2>1
  <2>3. told # {} => last \in 1 .. n - 1
    <3>1. n - 1 \in Nat /\ told \subseteq 1 .. n - 1
      BY <1>3 DEF n
    <3> HIDE DEF told
    <3>2. told # {} => \E j \in told : \A l \in told : l <= j
      BY <3>1, GreatestOf
    <3>3. told # {} => last \in told
      BY Zenon, <3>2
    <3> QED BY Zenon, <3>1, <3>3
  <2> HIDE DEF last, last2
  <2>4. told # {} => new[last2] = ev[last]
    BY Zenon, <1>3, <2>2, <2>3
  <2> HIDE DEF told, told2
  <2>5. I!OpenBy(new, opening, closing, first, z) = I!OpenBy(ev, opening, closing, first, n)
    <3>1. CASE told = {}
      BY Zenon, <1>1, <1>2, <2>1, <3>1
    <3>2. CASE told # {}
      <4>1. new[last2] = ev[last] /\ told2 # {}
        BY Zenon, <2>1, <2>4, <3>2
      <4> QED BY <1>1, <1>2, <3>2, <4>1
    <3> QED BY Zenon, <3>1, <3>2
  <2>6. I!OpenBy(Append(ev, e), opening, closing, first, Len(ev) + 2) = I!OpenBy(ev, opening, closing, first, Len(ev) + 1)
    <3>1. z = Len(ev) + 2 /\ n = Len(ev) + 1 /\ new = Append(ev, e)
      BY <1>3 DEF n, new
    <3> QED BY <2>5, <3>1
  <2> QED BY <1>5, <2>6
<1> QED BY <1>4, <1>5

LEMMA ElementsAppend ==
  ASSUME NEW S, NEW s \in Seq(S), NEW x \in S
  PROVE  /\ I!Elements(Append(s, x)) = I!Elements(s) \union {x} /\ I!Elements(s) \subseteq S
         /\ Append(s, x) \in Seq(S) /\ Len(Append(s, x)) = Len(s) + 1
<1> DEFINE new == Append(s, x)
           n == Len(s)
<1>1. n \in Nat /\ DOMAIN s = 1 .. n /\ DOMAIN new = 1 .. n + 1 /\ new[n + 1] = x /\ (\A k \in 1 .. n : new[k] = s[k])
      /\ new \in Seq(S) /\ Len(new) = n + 1 /\ \A k \in 1 .. n : s[k] \in S
  OBVIOUS
<1> HIDE DEF new, n
<1>2. 1 .. n + 1 = (1 .. n) \union {n + 1}
  BY <1>1
<1>3. I!Elements(new) = I!Elements(s) \union {x}
  BY <1>1, <1>2 DEF I!Elements
<1>4. I!Elements(s) \subseteq S
  BY <1>1 DEF I!Elements
<1> QED BY <1>1, <1>3, <1>4 DEF new, n

LEMMA HappeningsAre ==
  ASSUME NEW ev \in Seq(Happenings), NEW e \in Happenings
  PROVE  e.start \in Int /\ \A x \in I!Elements(ev) : x \in Happenings /\ x.start \in Int
<1>1. \A x \in Happenings : x.start \in Int
  BY DEF Happenings
<1>2. I!Elements(ev) \subseteq Happenings
  BY DEF I!Elements
<1> QED BY <1>1, <1>2

\* The story that events tell of what may be open: they alternate, and the starts of what
\* they opened and closed precede "next", where something else may open, or, when
\* something is open, where it did.
Told(ev, opening, closing, first, open, next) ==
  /\ I!Alternate(ev, opening, closing, first, open)
  /\ \A e \in I!Elements(ev) :
       /\ e.transition \in closing => e.start < next
       /\ e.transition \in opening => e.start < next \/ open = {e.start}
Distinct(ev) ==
  \A k, l \in DOMAIN ev : k # l => <<ev[k].transition, ev[k].start>> # <<ev[l].transition, ev[l].start>>

LEMMA DistinctAppend ==
  ASSUME NEW ev \in Seq(Happenings), NEW e \in Happenings, Distinct(ev),
         \A x \in I!Elements(ev) : x.transition = e.transition => x.start # e.start
  PROVE  Distinct(Append(ev, e))
<1> DEFINE new == Append(ev, e)
           n == Len(ev)
<1>1. n \in Nat /\ DOMAIN ev = 1 .. n /\ DOMAIN new = 1 .. n + 1 /\ new[n + 1] = e /\ (\A k \in 1 .. n : new[k] = ev[k])
  OBVIOUS
<1>2. \A k \in 1 .. n : ev[k].transition = e.transition => ev[k].start # e.start
  BY <1>1 DEF I!Elements
<1>3. \A k, l \in 1 .. n : k # l => ev[k].transition # ev[l].transition \/ ev[k].start # ev[l].start
  BY <1>1 DEF Distinct
<1> HIDE DEF new, n
<1>4. SUFFICES ASSUME NEW k \in 1 .. n + 1, NEW l \in 1 .. n + 1, k # l
               PROVE  new[k].transition # new[l].transition \/ new[k].start # new[l].start
  <2>1. \A k, l \in DOMAIN new : k # l => <<new[k].transition, new[k].start>> # <<new[l].transition, new[l].start>>
    BY <1>1, <1>4
  <2> QED BY <2>1 DEF Distinct, new
<1>5. (k \in 1 .. n \/ k = n + 1) /\ (l \in 1 .. n \/ l = n + 1)
  BY <1>1
<1> QED BY <1>1, <1>2, <1>3, <1>4, <1>5

\* How an event goes on with a story.
LEMMA AlternateAppend ==
  ASSUME NEW ev \in Seq(Happenings), NEW e \in Happenings, NEW opening, NEW closing, opening \intersect closing = {},
         NEW first, NEW open, NEW now, I!Alternate(ev, opening, closing, first, open),
         \/ e.transition \in opening /\ open = {} /\ now = {e.start}
         \/ e.transition \in closing /\ open = {e.start} /\ now = {}
         \/ e.transition \notin opening \union closing /\ now = open
  PROVE  I!Alternate(Append(ev, e), opening, closing, first, now)
<1> DEFINE new == Append(ev, e)
           n == Len(ev)
           By(s, k) == I!OpenBy(s, opening, closing, first, k)
<1>1. n \in Nat /\ DOMAIN ev = 1 .. n /\ DOMAIN new = 1 .. n + 1 /\ Len(new) = n + 1 /\ new[n + 1] = e
      /\ (\A k \in 1 .. n : new[k] = ev[k]) /\ n + 1 + 1 = n + 2 /\ n + 1 \in 1 .. n + 1
  OBVIOUS
<1>2. \A k \in 1 .. n + 1 : By(new, k) = By(ev, k)
  BY OpenBefore
<1>3. /\ e.transition \in opening => By(new, n + 2) = {e.start}
      /\ e.transition \in closing \ opening => By(new, n + 2) = {}
      /\ e.transition \notin opening \union closing => By(new, n + 2) = By(ev, n + 1)
  BY OpenAfter
<1>4. /\ \A k \in 1 .. n : /\ ev[k].transition \in opening => By(ev, k) = {}
                           /\ ev[k].transition \in closing => By(ev, k) = {ev[k].start}
      /\ By(ev, n + 1) = open
  BY <1>1 DEF I!Alternate
<1> HIDE DEF By, new, n
<1>5. ASSUME NEW k \in 1 .. n + 1
      PROVE  /\ new[k].transition \in opening => By(new, k) = {}
             /\ new[k].transition \in closing => By(new, k) = {new[k].start}
  <2>1. CASE k \in 1 .. n
    BY <1>1, <1>2, <1>4, <2>1
  <2>2. CASE k = n + 1
    <3>1. By(new, k) = open /\ new[k] = e
      BY <1>1, <1>2, <1>4, <2>2
    <3> QED BY <3>1
  <2> QED BY <1>1, <2>1, <2>2
<1>6. By(new, n + 2) = now
  BY <1>3, <1>4
<1>7. I!Alternate(new, opening, closing, first, now)
  <2>1. By(new, Len(new) + 1) = now
    BY <1>1, <1>6
  <2> QED BY <1>1, <1>5, <2>1 DEF I!Alternate, By
<1> QED BY <1>7 DEF new

\* Time passes, or what happens is of another kind.
LEMMA ToldLater ==
  ASSUME NEW ev \in Seq(Happenings), NEW opening, NEW closing, NEW first, NEW open, NEW next \in Int, NEW later \in Int,
         next <= later, Told(ev, opening, closing, first, open, next)
  PROVE  Told(ev, opening, closing, first, open, later)
<1>1. \A x \in I!Elements(ev) : x.start \in Int
  <2>1. \A x \in Happenings : x.start \in Int
    BY DEF Happenings
  <2> QED BY <2>1 DEF I!Elements
<1>2. \A x \in I!Elements(ev) : /\ x.transition \in closing => x.start < later
                                /\ x.transition \in opening => x.start < later \/ open = {x.start}
  BY <1>1 DEF Told
<1> QED BY <1>2 DEF Told

LEMMA ToldOther ==
  ASSUME NEW ev \in Seq(Happenings), NEW e \in Happenings, NEW opening, NEW closing, opening \intersect closing = {},
         NEW first, NEW open, NEW next \in Int, Told(ev, opening, closing, first, open, next),
         e.transition \notin opening \union closing
  PROVE  Told(Append(ev, e), opening, closing, first, open, next)
<1>1. I!Alternate(Append(ev, e), opening, closing, first, open)
  BY AlternateAppend DEF Told
<1>2. I!Elements(Append(ev, e)) = I!Elements(ev) \union {e}
  BY ElementsAppend
<1> QED BY <1>1, <1>2 DEF Told

\* Something opens that starts no earlier than it may.
LEMMA ToldOpens ==
  ASSUME NEW ev \in Seq(Happenings), NEW e \in Happenings, NEW opening, NEW closing, opening \intersect closing = {},
         NEW first, NEW next \in Int, Told(ev, opening, closing, first, {}, next), e.transition \in opening, next <= e.start
  PROVE  /\ Told(Append(ev, e), opening, closing, first, {e.start}, e.start)
         /\ \A x \in I!Elements(ev) : x.transition = e.transition => x.start # e.start
<1>1. e.start \in Int /\ \A x \in I!Elements(ev) : x.start \in Int
  BY HappeningsAre
<1>2. \A x \in I!Elements(ev) : x.transition \in opening \union closing => x.start < e.start
  BY <1>1 DEF Told
<1>3. I!Alternate(Append(ev, e), opening, closing, first, {e.start})
  BY AlternateAppend DEF Told
<1>4. I!Elements(Append(ev, e)) = I!Elements(ev) \union {e}
  BY ElementsAppend
<1>5. Told(Append(ev, e), opening, closing, first, {e.start}, e.start)
  BY <1>2, <1>3, <1>4 DEF Told
<1> QED BY <1>1, <1>2, <1>5

\* What is open is closed.
LEMMA ToldCloses ==
  ASSUME NEW ev \in Seq(Happenings), NEW e \in Happenings, NEW opening, NEW closing, opening \intersect closing = {},
         NEW first, Told(ev, opening, closing, first, {e.start}, e.start), e.transition \in closing,
         NEW later \in Int, e.start < later
  PROVE  /\ Told(Append(ev, e), opening, closing, first, {}, later)
         /\ \A x \in I!Elements(ev) : x.transition = e.transition => x.start # e.start
<1>1. e.start \in Int /\ \A x \in I!Elements(ev) : x.start \in Int
  BY HappeningsAre
<1>2. \A x \in I!Elements(ev) : /\ x.transition \in closing => x.start < e.start
                                /\ x.transition \in opening => x.start < later
  <2> SUFFICES ASSUME NEW x \in I!Elements(ev)
               PROVE  /\ x.transition \in closing => x.start < e.start
                      /\ x.transition \in opening => x.start < later
    OBVIOUS
  <2>1. /\ x.transition \in closing => x.start < e.start
        /\ x.transition \in opening => x.start < e.start \/ {e.start} = {x.start}
    BY DEF Told
  <2>2. {e.start} = {x.start} => x.start = e.start
    OBVIOUS
  <2> QED BY <1>1, <2>1, <2>2
<1>3. I!Alternate(Append(ev, e), opening, closing, first, {})
  BY AlternateAppend DEF Told
<1>4. I!Elements(Append(ev, e)) = I!Elements(ev) \union {e}
  BY ElementsAppend
<1>5. \A x \in I!Elements(Append(ev, e)) : /\ x.transition \in closing => x.start < later
                                           /\ x.transition \in opening => x.start < later
  BY <1>1, <1>2, <1>4
<1>6. Told(Append(ev, e), opening, closing, first, {}, later)
  BY <1>3, <1>5 DEF Told
<1> QED BY <1>1, <1>2, <1>6

--------------------------------------------------------------------------------
(* The walk of an hour's minutes. A context says what the minutes are: those that   *)
(* are bad, fine, judged by a usual fleet, before the collection, or handed on.      *)

LEMMA Sizes ==
  /\ MinutesPerHour \in Nat /\ MinutesPerHour > 2 /\ Duration \in Nat /\ Duration >= 1 /\ Duration <= MinutesPerHour
  /\ MaxRecent \in Nat /\ MaxRecent >= 1 /\ I!Minutes = 1 .. MinutesPerHour
BY IncidentsHold DEF I!IncidentsAssumption, I!Minutes

BadMinutes == [at : Int, reason : I!BadReasons]

\* z is the last n of the elements of s and x.
Kept(z, s, x, n) ==
  LET k == Len(s) + 1 - Len(z)
  IN  /\ Len(z) = (IF Len(s) < n THEN Len(s) + 1 ELSE n) /\ z[Len(z)] = x
      /\ k \in Nat /\ \A i \in 1 .. Len(z) - 1 : i + k \in 1 .. Len(s) /\ z[i] = s[i + k]

LEMMA LastOfAppend ==
  ASSUME NEW S, NEW s \in Seq(S), NEW x \in S, NEW n \in Nat, n >= 1, Len(s) <= n
  PROVE  I!LastOf(n, Append(s, x)) \in Seq(S) /\ Kept(I!LastOf(n, Append(s, x)), s, x, n)
<1> DEFINE new == Append(s, x)
           l == Len(s)
           a == I!Greatest(1, Len(new) - n + 1)
           z == SubSeq(new, a, Len(new))
<1>1. l \in Nat /\ new \in Seq(S) /\ Len(new) = l + 1 /\ new[l + 1] = x /\ \A i \in 1 .. l : new[i] = s[i]
  OBVIOUS
<1> HIDE DEF l, new
<1>2. a = IF l < n THEN 1 ELSE l + 1 - n + 1
  BY <1>1 DEF I!Greatest, l
<1>3. a \in 1 .. l + 1 /\ a \in Int
  BY <1>1, <1>2 DEF l
<1> HIDE DEF a
<1>4. z \in Seq(S) /\ Len(z) = l + 1 - a + 1 /\ \A i \in 1 .. l + 1 - a + 1 : z[i] = new[a + i - 1]
  BY <1>1, <1>3
<1>5. z = I!LastOf(n, Append(s, x))
  BY DEF I!LastOf, a, new
<1> HIDE DEF z
<1>6. Len(z) = IF l < n THEN l + 1 ELSE n
  BY <1>1, <1>2, <1>4 DEF l
<1>7. z[Len(z)] = x
  <2>1. Len(z) \in 1 .. l + 1 - a + 1 /\ a + Len(z) - 1 = l + 1
    BY <1>1, <1>3, <1>4
  <2> QED BY <1>1, <1>4, <2>1
<1> DEFINE d == l + 1 - Len(z)
<1>8. d = a - 1 /\ d \in Nat
  BY <1>1, <1>3, <1>4
<1>9. ASSUME NEW i \in 1 .. Len(z) - 1 PROVE i + d \in 1 .. l /\ z[i] = s[i + d]
  <2>1. i \in 1 .. l + 1 - a + 1 /\ a + i - 1 = i + d /\ i + d \in 1 .. l
    BY <1>1, <1>3, <1>4
  <2> HIDE DEF d
  <2> QED BY <1>1, <1>4, <2>1
<1>10. Kept(z, s, x, n)
  BY <1>6, <1>7, <1>8, <1>9 DEF Kept, l
<1> QED BY <1>4, <1>5, <1>10

\* The minutes of a tail, and how it goes on.
UpTo(times, t) == Len(times) <= Duration /\ \A k \in 1 .. Len(times) : times[k] = t - 1 - Len(times) + k

LEMMA TailIs ==
  ASSUME NEW s \in Seq(Int), NEW t \in Int
  PROVE  I!IsTail(s, t - 1) <=> UpTo(s, t)
<1>1. DOMAIN s = 1 .. Len(s)
  OBVIOUS
<1> QED BY <1>1 DEF I!IsTail, UpTo

LEMMA TailAppend ==
  ASSUME NEW s \in Seq(Int), NEW t \in Int, UpTo(s, t)
  PROVE  LET z == I!LastOf(Duration, Append(s, t))
         IN  /\ z \in Seq(Int) /\ Len(z) >= 1 /\ UpTo(z, t + 1) /\ z[1] = t + 1 - Len(z)
             /\ Len(z) = (IF Len(s) < Duration THEN Len(s) + 1 ELSE Duration)
             /\ \A u \in I!Elements(z) : u = t \/ u \in I!Elements(s)
             /\ (s = <<>> \/ s[1] <= z[1])
             /\ \A u \in t + 1 - Len(z) .. t : u \in I!Elements(z)
<1> DEFINE z == I!LastOf(Duration, Append(s, t))
           d == Len(s) + 1 - Len(z)
           l == Len(s)
           n == Len(z)
<1>1. Duration \in Nat /\ Duration >= 1 /\ l <= Duration /\ l \in Nat
  BY Sizes DEF UpTo
<1>2. /\ z \in Seq(Int) /\ n = (IF l < Duration THEN l + 1 ELSE Duration) /\ z[n] = t
      /\ d \in Nat /\ \A i \in 1 .. n - 1 : i + d \in 1 .. l /\ z[i] = s[i + d]
  <2>1. z \in Seq(Int) /\ Kept(z, s, t, Duration)
    BY <1>1, LastOfAppend
  <2> QED BY <2>1 DEF Kept
<1>3. n \in Nat /\ n >= 1 /\ n <= Duration /\ DOMAIN z = 1 .. n /\ DOMAIN s = 1 .. l
  BY <1>1, <1>2
<1>4. \A i \in 1 .. l : s[i] = t - 1 - l + i
  BY DEF UpTo
<1>5. d = l + 1 - n
  OBVIOUS
<1> HIDE DEF z, d, l, n
<1>6. \A i \in 1 .. n : z[i] = t - n + i
  <2> SUFFICES ASSUME NEW i \in 1 .. n PROVE z[i] = t - n + i
    OBVIOUS
  <2>1. CASE i = n
    BY <1>2, <1>3, <2>1
  <2>2. CASE i # n
    <3>1. i \in 1 .. n - 1
      BY <1>3, <2>2
    <3>2. z[i] = s[i + d] /\ i + d \in 1 .. l
      BY <1>2, <3>1
    <3>3. s[i + d] = t - 1 - l + (i + d)
      BY <1>4, <3>2
    <3> QED BY <1>1, <1>3, <1>5, <3>2, <3>3
  <2> QED BY <2>1, <2>2
<1>7. UpTo(z, t + 1)
  <2>1. \A i \in 1 .. n : z[i] = t + 1 - 1 - n + i
    BY <1>3, <1>6
  <2> QED BY <1>3, <2>1 DEF UpTo, n
<1>8. z[1] = t + 1 - n
  BY <1>3, <1>6
<1>9. \A u \in I!Elements(z) : u = t \/ u \in I!Elements(s)
  <2> SUFFICES ASSUME NEW i \in 1 .. n PROVE z[i] = t \/ z[i] \in I!Elements(s)
    BY <1>3 DEF I!Elements
  <2>1. i = n \/ i \in 1 .. n - 1
    BY <1>3
  <2>2. i \in 1 .. n - 1 => z[i] \in I!Elements(s)
    BY <1>2, <1>3 DEF I!Elements
  <2> QED BY <1>2, <2>1, <2>2
<1>10. s = <<>> \/ s[1] <= z[1]
  <2> SUFFICES ASSUME s # <<>> PROVE s[1] <= z[1]
    OBVIOUS
  <2>1. l >= 1
    BY <1>1 DEF l
  <2>2. s[1] = t - 1 - l + 1
    BY <1>1, <1>4, <2>1
  <2> QED BY <1>1, <1>2, <1>3, <1>8, <2>2
<1>11. \A u \in t + 1 - n .. t : u \in I!Elements(z)
  <2> SUFFICES ASSUME NEW u \in t + 1 - n .. t PROVE u \in I!Elements(z)
    OBVIOUS
  <2>1. u - (t - n) \in 1 .. n /\ u = t - n + (u - (t - n))
    BY <1>3
  <2>2. z[u - (t - n)] = u
    BY <1>6, <2>1
  <2> QED BY <1>3, <2>1, <2>2 DEF I!Elements
<1> QED BY <1>2, <1>3, <1>7, <1>8, <1>9, <1>10, <1>11 DEF z, n, l

BadTail(bad, t) == Len(bad) <= Duration /\ \A k \in 1 .. Len(bad) : bad[k].at = t - 1 - Len(bad) + k

LEMMA BadAppend ==
  ASSUME NEW s \in Seq(BadMinutes), NEW x \in BadMinutes, NEW t \in Int, x.at = t, BadTail(s, t)
  PROVE  LET z == I!LastOf(Duration, Append(s, x))
         IN  /\ z \in Seq(BadMinutes) /\ Len(z) >= 1 /\ BadTail(z, t + 1) /\ z[1].at = t + 1 - Len(z)
             /\ Len(z) = (IF Len(s) < Duration THEN Len(s) + 1 ELSE Duration)
             /\ (s = <<>> \/ s[1].at <= z[1].at)
<1> DEFINE z == I!LastOf(Duration, Append(s, x))
           d == Len(s) + 1 - Len(z)
           l == Len(s)
           n == Len(z)
<1>1. Duration \in Nat /\ Duration >= 1 /\ l <= Duration /\ l \in Nat /\ t \in Int
  BY Sizes DEF BadTail
<1>2. /\ z \in Seq(BadMinutes) /\ n = (IF l < Duration THEN l + 1 ELSE Duration) /\ z[n] = x
      /\ d \in Nat /\ \A i \in 1 .. n - 1 : i + d \in 1 .. l /\ z[i] = s[i + d]
  <2>1. z \in Seq(BadMinutes) /\ Kept(z, s, x, Duration)
    BY <1>1, LastOfAppend
  <2> QED BY <2>1 DEF Kept
<1>3. n \in Nat /\ n >= 1 /\ n <= Duration /\ DOMAIN z = 1 .. n /\ DOMAIN s = 1 .. l
  BY <1>1, <1>2
<1>4. \A i \in 1 .. l : s[i].at = t - 1 - l + i
  BY DEF BadTail
<1>5. d = l + 1 - n
  OBVIOUS
<1> HIDE DEF z, d, l, n
<1>6. \A i \in 1 .. n : z[i].at = t - n + i
  <2> SUFFICES ASSUME NEW i \in 1 .. n PROVE z[i].at = t - n + i
    OBVIOUS
  <2>1. CASE i = n
    BY <1>1, <1>2, <1>3, <2>1
  <2>2. CASE i # n
    <3>1. i \in 1 .. n - 1
      BY <1>3, <2>2
    <3>2. z[i] = s[i + d] /\ i + d \in 1 .. l
      BY <1>2, <3>1
    <3>3. s[i + d].at = t - 1 - l + (i + d)
      BY <1>4, <3>2
    <3> QED BY SMTT(30), <1>1, <1>3, <1>5, <3>2, <3>3
  <2> QED BY <2>1, <2>2
<1>7. BadTail(z, t + 1)
  <2>1. \A i \in 1 .. n : z[i].at = t + 1 - 1 - n + i
    BY <1>1, <1>3, <1>6
  <2>2. n <= Duration /\ n = Len(z)
    BY <1>3 DEF n
  <2>3. Len(z) <= Duration /\ \A i \in 1 .. Len(z) : z[i].at = t + 1 - 1 - Len(z) + i
    BY <2>1, <2>2
  <2> QED BY <2>3 DEF BadTail
<1>8. z[1].at = t + 1 - n
  BY <1>1, <1>3, <1>6
<1>10. s = <<>> \/ s[1].at <= z[1].at
  <2> SUFFICES ASSUME s # <<>> PROVE s[1].at <= z[1].at
    OBVIOUS
  <2>1. l >= 1
    BY <1>1 DEF l
  <2>2. s[1].at = t - 1 - l + 1
    BY <1>1, <1>4, <2>1
  <2> QED BY <1>1, <1>2, <1>3, <1>8, <2>2
<1> QED BY <1>2, <1>3, <1>7, <1>8, <1>10 DEF z, n, l

Contexts ==
  [from : Int, start : Int, end : Int, bad : SUBSET Int, fine : SUBSET Int, judged : SUBSET Int, handed : SUBSET Int,
   blind : SUBSET Int, opened : SUBSET Int, lost : SUBSET Int, after : SUBSET Int]
ContextOK(c) ==
  /\ c \in Contexts /\ c.start = c.from + MinutesPerHour /\ c.end = c.start + MinutesPerHour
  /\ \A u \in c.bad : c.from <= u /\ u < c.end
  /\ \A u \in c.fine : c.start <= u /\ u < c.end /\ u \notin c.bad
  /\ \A u \in c.handed : c.from <= u /\ u < c.start

\* An event is valid and earned.
HappeningOK(c, e) ==
  /\ e.start <= e.at /\ e.at <= c.end
  /\ e.transition = "rebaseline" => e.at = c.start /\ e.reason \in I!FleetReasons
  /\ e.transition = "degraded" => c.start <= e.start + Duration - 1 /\ \A u \in e.start .. e.start + Duration - 1 : u \in c.bad /\ u < e.at
  /\ e.transition = "recovered" /\ e.reason # "stale_heavy" =>
       \A u \in e.at .. e.at + Duration - 1 :
         /\ u >= c.start => u \in c.fine
         /\ u < c.start => u \in c.handed
         /\ e.reason \in I!FleetReasons /\ u >= c.start => u \in c.judged

\* The events so far: incidents tell one story, losses of telemetry another.
Incident == {"degraded"}
Recovery == {"recovered", "rebaseline"}
Loss == {"monitoring_gap"}
Return == {"monitoring_restored"}
EventsOK(c, ev, open, next, lost, nextLoss) ==
  /\ ev \in Seq(Happenings) /\ (\A e \in I!Elements(ev) : HappeningOK(c, e)) /\ Distinct(ev)
  /\ Told(ev, Incident, Recovery, c.opened, open, next)
  /\ Told(ev, Loss, Return, c.lost, lost, nextLoss)

LEMMA EventsLater ==
  ASSUME NEW c, NEW ev, NEW open, NEW next \in Int, NEW later \in Int, NEW lost, NEW nextLoss \in Int, NEW laterLoss \in Int,
         next <= later, nextLoss <= laterLoss, EventsOK(c, ev, open, next, lost, nextLoss)
  PROVE  EventsOK(c, ev, open, later, lost, laterLoss)
<1>1. ev \in Seq(Happenings) /\ Incident \intersect Recovery = {} /\ Loss \intersect Return = {}
  BY DEF EventsOK, Incident, Recovery, Loss, Return
<1>3. Told(ev, Incident, Recovery, c.opened, open, later)
  BY <1>1, ToldLater DEF EventsOK
<1>4. Told(ev, Loss, Return, c.lost, lost, laterLoss)
  BY <1>1, ToldLater DEF EventsOK
<1> QED BY <1>3, <1>4 DEF EventsOK

LEMMA EventsElements ==
  ASSUME NEW c, NEW ev \in Seq(Happenings), NEW e \in Happenings, HappeningOK(c, e), \A x \in I!Elements(ev) : HappeningOK(c, x)
  PROVE  Append(ev, e) \in Seq(Happenings) /\ \A x \in I!Elements(Append(ev, e)) : HappeningOK(c, x)
<1>1. I!Elements(Append(ev, e)) = I!Elements(ev) \union {e} /\ Append(ev, e) \in Seq(Happenings)
  BY ElementsAppend
<1> QED BY <1>1

\* An incident opens.
LEMMA EventsDegraded ==
  ASSUME NEW c, NEW ev, NEW e \in Happenings, NEW open, NEW next \in Int, NEW lost, NEW nextLoss \in Int, HappeningOK(c, e),
         EventsOK(c, ev, open, next, lost, nextLoss), open = {}, e.transition = "degraded", next <= e.start
  PROVE  EventsOK(c, Append(ev, e), {e.start}, e.start, lost, nextLoss)
<1>1. ev \in Seq(Happenings) /\ Incident \intersect Recovery = {} /\ Loss \intersect Return = {}
      /\ e.transition \in Incident /\ e.transition \notin Loss \union Return
  BY DEF EventsOK, Incident, Recovery, Loss, Return
<1>2. Append(ev, e) \in Seq(Happenings) /\ \A x \in I!Elements(Append(ev, e)) : HappeningOK(c, x)
  BY <1>1, EventsElements DEF EventsOK
<1>3. e.start \in Int /\ Told(ev, Incident, Recovery, c.opened, {}, next) /\ Told(ev, Loss, Return, c.lost, lost, nextLoss)
  BY HappeningsAre, <1>1 DEF EventsOK
<1>4. /\ Told(Append(ev, e), Incident, Recovery, c.opened, {e.start}, e.start)
      /\ \A x \in I!Elements(ev) : x.transition = e.transition => x.start # e.start
  BY <1>1, <1>3, ToldOpens
<1>5. Told(Append(ev, e), Loss, Return, c.lost, lost, nextLoss)
  BY <1>1, <1>3, ToldOther
<1>6. Distinct(Append(ev, e))
  BY <1>1, <1>4, DistinctAppend DEF EventsOK
<1> QED BY <1>2, <1>4, <1>5, <1>6 DEF EventsOK

\* An incident ends.
LEMMA EventsRecovered ==
  ASSUME NEW c, NEW ev, NEW e \in Happenings, NEW open, NEW next \in Int, NEW lost, NEW nextLoss \in Int, HappeningOK(c, e),
         EventsOK(c, ev, open, next, lost, nextLoss), open = {e.start}, next = e.start, e.transition \in Recovery,
         NEW later \in Int, e.start < later
  PROVE  EventsOK(c, Append(ev, e), {}, later, lost, nextLoss)
<1>1. ev \in Seq(Happenings) /\ Incident \intersect Recovery = {} /\ Loss \intersect Return = {}
      /\ e.transition \in Recovery /\ e.transition \notin Loss \union Return
  BY DEF EventsOK, Incident, Recovery, Loss, Return
<1>2. Append(ev, e) \in Seq(Happenings) /\ \A x \in I!Elements(Append(ev, e)) : HappeningOK(c, x)
  BY <1>1, EventsElements DEF EventsOK
<1>3. e.start \in Int /\ Told(ev, Incident, Recovery, c.opened, {e.start}, e.start) /\ Told(ev, Loss, Return, c.lost, lost, nextLoss)
  BY HappeningsAre, <1>1 DEF EventsOK
<1>4. /\ Told(Append(ev, e), Incident, Recovery, c.opened, {}, later)
      /\ \A x \in I!Elements(ev) : x.transition = e.transition => x.start # e.start
  BY <1>1, <1>3, ToldCloses
<1>5. Told(Append(ev, e), Loss, Return, c.lost, lost, nextLoss)
  BY <1>1, <1>3, ToldOther
<1>6. Distinct(Append(ev, e))
  BY <1>1, <1>4, DistinctAppend DEF EventsOK
<1> QED BY <1>2, <1>4, <1>5, <1>6 DEF EventsOK

\* Telemetry is lost.
LEMMA EventsLost ==
  ASSUME NEW c, NEW ev, NEW e \in Happenings, NEW open, NEW next \in Int, NEW lost, NEW nextLoss \in Int, HappeningOK(c, e),
         EventsOK(c, ev, open, next, lost, nextLoss), lost = {}, e.transition = "monitoring_gap", nextLoss <= e.start
  PROVE  EventsOK(c, Append(ev, e), open, next, {e.start}, e.start)
<1>1. ev \in Seq(Happenings) /\ Incident \intersect Recovery = {} /\ Loss \intersect Return = {}
      /\ e.transition \in Loss /\ e.transition \notin Incident \union Recovery
  BY DEF EventsOK, Incident, Recovery, Loss, Return
<1>2. Append(ev, e) \in Seq(Happenings) /\ \A x \in I!Elements(Append(ev, e)) : HappeningOK(c, x)
  BY <1>1, EventsElements DEF EventsOK
<1>3. e.start \in Int /\ Told(ev, Loss, Return, c.lost, {}, nextLoss) /\ Told(ev, Incident, Recovery, c.opened, open, next)
  BY HappeningsAre, <1>1 DEF EventsOK
<1>4. /\ Told(Append(ev, e), Loss, Return, c.lost, {e.start}, e.start)
      /\ \A x \in I!Elements(ev) : x.transition = e.transition => x.start # e.start
  BY <1>1, <1>3, ToldOpens
<1>5. Told(Append(ev, e), Incident, Recovery, c.opened, open, next)
  BY <1>1, <1>3, ToldOther
<1>6. Distinct(Append(ev, e))
  BY <1>1, <1>4, DistinctAppend DEF EventsOK
<1> QED BY <1>2, <1>4, <1>5, <1>6 DEF EventsOK

\* Telemetry is back.
LEMMA EventsReturned ==
  ASSUME NEW c, NEW ev, NEW e \in Happenings, NEW open, NEW next \in Int, NEW lost, NEW nextLoss \in Int, HappeningOK(c, e),
         EventsOK(c, ev, open, next, lost, nextLoss), lost = {e.start}, nextLoss = e.start, e.transition = "monitoring_restored",
         NEW later \in Int, e.start < later
  PROVE  EventsOK(c, Append(ev, e), open, next, {}, later)
<1>1. ev \in Seq(Happenings) /\ Incident \intersect Recovery = {} /\ Loss \intersect Return = {}
      /\ e.transition \in Return /\ e.transition \notin Incident \union Recovery
  BY DEF EventsOK, Incident, Recovery, Loss, Return
<1>2. Append(ev, e) \in Seq(Happenings) /\ \A x \in I!Elements(Append(ev, e)) : HappeningOK(c, x)
  BY <1>1, EventsElements DEF EventsOK
<1>3. e.start \in Int /\ Told(ev, Loss, Return, c.lost, {e.start}, e.start) /\ Told(ev, Incident, Recovery, c.opened, open, next)
  BY HappeningsAre, <1>1 DEF EventsOK
<1>4. /\ Told(Append(ev, e), Loss, Return, c.lost, {}, later)
      /\ \A x \in I!Elements(ev) : x.transition = e.transition => x.start # e.start
  BY <1>1, <1>3, ToldCloses
<1>5. Told(Append(ev, e), Incident, Recovery, c.opened, open, next)
  BY <1>1, <1>3, ToldOther
<1>6. Distinct(Append(ev, e))
  BY <1>1, <1>4, DistinctAppend DEF EventsOK
<1> QED BY <1>2, <1>4, <1>5, <1>6 DEF EventsOK

Walks ==
  [active : Seq(I!Starting), bad : Seq(BadMinutes), good : Seq(Int), intervals : Seq(I!Interval), events : Seq(Happenings),
   monitored : Nat, gaps : BOOLEAN, anyBad : BOOLEAN]

\* Where the next incident cannot start before, or the open one started.
Since(active, bad, t) ==
  IF active # <<>> THEN active[1].start ELSE IF Len(bad) < Duration THEN t - Len(bad) ELSE t + 1 - Duration
OpenOf(active) == {a.start : a \in I!Elements(active)}
Fleet(active) == active # <<>> /\ active[1].reason \in I!FleetReasons

\* The tails are the minutes up to t, and no bad minute is left out of a short one. The hour
\* may start with both: the bad minutes are read anew, the good ones were handed on.
TailsOK(c, active, bad, good, t) ==
  /\ BadTail(bad, t) /\ \A u \in t - Len(bad) .. t - 1 : u \in c.bad
  /\ Len(bad) < Duration => t - 1 - Len(bad) \notin c.bad
  /\ UpTo(good, t)
  /\ \A u \in t - Len(good) .. t - 1 :
       /\ u >= c.start => u \in c.fine
       /\ u < c.start => u \in c.handed
       /\ u >= c.start /\ Fleet(active) => u \in c.judged
  /\ t > c.start => bad = <<>> \/ good = <<>>
ActiveOK(active, good, t) ==
  /\ Len(active) <= 1
  /\ active # <<>> => /\ active[1].reason \in I!BadReasons /\ active[1].start + Duration <= t
                      /\ \A u \in t - Len(good) .. t - 1 : active[1].start <= u
IntervalsOK(c, active, intervals, t) ==
  /\ 2 * Len(intervals) + Len(active) <= t - c.start + 2
  /\ \A i \in I!Elements(intervals) : i.start <= i.end /\ i.end < c.end
\* Bad minutes for the whole duration are in an incident.
BadRun(c, u) == u - Duration + 1 >= c.from /\ \A m \in u - Duration + 1 .. u : m \in c.bad
Inside(intervals, u) ==
  \E i \in I!Elements(intervals) : i.reason # "stale_heavy" /\ I!Within(u, i) /\ I!Within(u - Duration + 1, i)
NoneMissed(c, active, intervals, t) ==
  \A u \in c.start .. t - 1 : BadRun(c, u) =>
    Inside(intervals, u) \/ (active # <<>> /\ active[1].start <= u - Duration + 1)
NoGaps(c, gaps, t) == ~gaps => \A u \in c.start .. t - 1 : u \in c.blind \union c.bad \union c.fine

WalkOK(c, w, t) ==
  /\ w \in Walks
  /\ TailsOK(c, w.active, w.bad, w.good, t) /\ ActiveOK(w.active, w.good, t) /\ IntervalsOK(c, w.active, w.intervals, t)
  /\ NoneMissed(c, w.active, w.intervals, t) /\ NoGaps(c, w.gaps, t)
  /\ EventsOK(c, w.events, OpenOf(w.active), Since(w.active, w.bad, t), c.after, c.end)

LEMMA WalkFields ==
  ASSUME NEW w \in Walks
  PROVE  /\ w.active \in Seq(I!Starting) /\ w.bad \in Seq(BadMinutes) /\ w.good \in Seq(Int)
         /\ w.intervals \in Seq(I!Interval) /\ w.events \in Seq(Happenings)
         /\ w.monitored \in Nat /\ w.gaps \in BOOLEAN /\ w.anyBad \in BOOLEAN
BY DEF Walks

LEMMA ContextFields ==
  ASSUME NEW c, ContextOK(c)
  PROVE  /\ c.from \in Int /\ c.start \in Int /\ c.end \in Int /\ c.start = c.from + MinutesPerHour /\ c.end = c.start + MinutesPerHour
         /\ c.bad \subseteq Int /\ c.fine \subseteq Int /\ c.handed \subseteq Int
         /\ \A u \in c.bad : c.from <= u /\ u < c.end
         /\ \A u \in c.fine : c.start <= u /\ u < c.end /\ u \notin c.bad
         /\ \A u \in c.handed : c.from <= u /\ u < c.start
BY DEF ContextOK, Contexts

\* Something is open or nothing is.
LEMMA ActiveIs ==
  ASSUME NEW active \in Seq(I!Starting), Len(active) <= 1
  PROVE  \/ active = <<>> /\ OpenOf(active) = {} /\ Len(active) = 0
         \/ active # <<>> /\ active = <<active[1]>> /\ Len(active) = 1 /\ active[1] \in I!Starting /\ active[1].start \in Int
            /\ OpenOf(active) = {active[1].start} /\ I!Elements(active) = {active[1]}
<1>1. CASE Len(active) = 0
  <2>1. active = <<>> /\ I!Elements(active) = {}
    BY <1>1 DEF I!Elements
  <2> QED BY <1>1, <2>1 DEF OpenOf
<1>2. CASE Len(active) = 1
  <2>1. active # <<>> /\ active = <<active[1]>> /\ active[1] \in I!Starting
    BY <1>2
  <2>2. I!Elements(active) = {active[1]}
    <3>1. DOMAIN active = {1}
      BY <1>2
    <3> QED BY <3>1 DEF I!Elements
  <2>3. active[1].start \in Int
    BY <2>1 DEF I!Starting
  <2>4. OpenOf(active) = {active[1].start}
    BY <2>2 DEF OpenOf
  <2> QED BY <1>2, <2>1, <2>2, <2>3, <2>4
<1>3. Len(active) = 0 \/ Len(active) = 1
  <2> DEFINE n == Len(active)
  <2>1. n \in Nat /\ n <= 1
    OBVIOUS
  <2> HIDE DEF n
  <2>2. n = 0 \/ n = 1
    BY <2>1
  <2> QED BY <2>2 DEF n
<1> QED BY Zenon, <1>1, <1>2, <1>3

\* Events of the walk are about the incident that is open.
LEMMA AboutIncident ==
  ASSUME NEW transition \in I!Transitions, NEW starting \in I!Starting, NEW at \in Int
  PROVE  /\ I!Event(transition, starting, at) \in Happenings
         /\ I!Event(transition, starting, at) =
              [transition |-> transition, start |-> starting.start, at |-> at, reason |-> starting.reason]
<1>1. starting.start \in Int /\ starting.reason \in I!Reasons
  BY DEF I!Starting
<1> QED BY <1>1 DEF I!Event, Happenings

LEMMA SinceIs ==
  ASSUME NEW active \in Seq(I!Starting), Len(active) <= 1, NEW bad \in Seq(BadMinutes), NEW t \in Int
  PROVE  /\ Since(active, bad, t) \in Int
         /\ active # <<>> => Since(active, bad, t) = active[1].start
         /\ active = <<>> => Since(active, bad, t) = IF Len(bad) < Duration THEN t - Len(bad) ELSE t + 1 - Duration
         /\ active = <<>> /\ bad = <<>> => Since(active, bad, t) = t
<1>1. active # <<>> => active[1].start \in Int
  BY ActiveIs
<1>2. Len(bad) \in Nat /\ Duration \in Nat /\ Duration >= 1 /\ (bad = <<>> => Len(bad) = 0)
  BY Sizes
<1> DEFINE n == Len(bad)
<1> HIDE DEF n
<1>3. Since(active, bad, t) = IF active # <<>> THEN active[1].start ELSE IF n < Duration THEN t - n ELSE t + 1 - Duration
  BY DEF Since, n
<1>4. n \in Nat /\ (bad = <<>> => n = 0)
  BY <1>2 DEF n
<1>5. Since(active, bad, t) \in Int /\ (active = <<>> /\ bad = <<>> => Since(active, bad, t) = t)
  BY <1>1, <1>2, <1>3, <1>4
<1> QED BY <1>3, <1>5 DEF n

\* When the tail of bad minutes ends.
LEMMA SinceRises ==
  ASSUME NEW c, NEW t \in Int, NEW w \in Walks, TailsOK(c, w.active, w.bad, w.good, t), ActiveOK(w.active, w.good, t)
  PROVE  /\ Since(w.active, w.bad, t) \in Int /\ Since(w.active, <<>>, t + 1) \in Int
         /\ Since(w.active, w.bad, t) <= Since(w.active, <<>>, t + 1)
<1>1. w.active \in Seq(I!Starting) /\ Len(w.active) <= 1 /\ w.bad \in Seq(BadMinutes)
  BY WalkFields DEF ActiveOK
<1>2. <<>> \in Seq(BadMinutes) /\ t + 1 \in Int
  OBVIOUS
<1>3. Len(w.bad) \in Nat /\ Duration \in Nat /\ Duration >= 1
  BY <1>1, Sizes
<1>4. /\ Since(w.active, w.bad, t) \in Int /\ Since(w.active, <<>>, t + 1) \in Int
      /\ w.active # <<>> => Since(w.active, w.bad, t) = w.active[1].start /\ Since(w.active, <<>>, t + 1) = w.active[1].start
      /\ w.active = <<>> => Since(w.active, <<>>, t + 1) = t + 1
      /\ w.active = <<>> => Since(w.active, w.bad, t) = IF Len(w.bad) < Duration THEN t - Len(w.bad) ELSE t + 1 - Duration
  BY <1>1, <1>2, SinceIs
<1>5. w.active = <<>> => Since(w.active, w.bad, t) <= t
  <2> DEFINE n == Len(w.bad)
             since == Since(w.active, w.bad, t)
  <2>1. n \in Nat /\ (w.active = <<>> => since = IF n < Duration THEN t - n ELSE t + 1 - Duration)
    BY <1>3, <1>4
  <2> HIDE DEF n, since
  <2>2. w.active = <<>> => since <= t
    BY <1>3, <2>1
  <2> QED BY <2>2 DEF since
<1> QED BY <1>4, <1>5

\* What an interval and a start know stays known as minutes are added.
LEMMA ActiveLasts ==
  ASSUME NEW active, NEW good, NEW t \in Int, ActiveOK(active, good, t), active \in Seq(I!Starting)
  PROVE  ActiveOK(active, <<>>, t + 1)
<1>1. Len(<<>>) = 0 /\ Duration \in Nat
  BY Sizes
<1>2. active # <<>> => active[1].start \in Int
  BY ActiveIs DEF ActiveOK
<1>3. \A u \in t + 1 - Len(<<>>) .. t + 1 - 1 : FALSE
  BY <1>1
<1> QED BY <1>1, <1>2, <1>3 DEF ActiveOK

\* A minute that is not bad and ends the tails.
LEMMA ForgetKeeps ==
  ASSUME NEW c, ContextOK(c), NEW t \in Int, c.start <= t, t < c.end, NEW w, WalkOK(c, w, t), t \notin c.bad
  PROVE  /\ TailsOK(c, w.active, <<>>, <<>>, t + 1) /\ ActiveOK(w.active, <<>>, t + 1)
         /\ IntervalsOK(c, w.active, w.intervals, t + 1) /\ NoneMissed(c, w.active, w.intervals, t + 1)
         /\ EventsOK(c, w.events, OpenOf(w.active), Since(w.active, <<>>, t + 1), c.after, c.end)
<1>0. /\ w \in Walks /\ TailsOK(c, w.active, w.bad, w.good, t) /\ ActiveOK(w.active, w.good, t)
      /\ IntervalsOK(c, w.active, w.intervals, t) /\ NoneMissed(c, w.active, w.intervals, t)
      /\ EventsOK(c, w.events, OpenOf(w.active), Since(w.active, w.bad, t), c.after, c.end)
  BY DEF WalkOK
<1>1. /\ w.active \in Seq(I!Starting) /\ Len(w.active) <= 1 /\ w.bad \in Seq(BadMinutes) /\ w.intervals \in Seq(I!Interval)
      /\ c.start \in Int /\ c.end \in Int /\ Duration \in Nat /\ Duration >= 1
  BY <1>0, WalkFields, ContextFields, Sizes DEF ActiveOK
<1>2. TailsOK(c, w.active, <<>>, <<>>, t + 1)
  <2>1. Len(<<>>) = 0 /\ t + 1 - 1 - 0 = t /\ \A u \in t + 1 - 0 .. t + 1 - 1 : FALSE
    OBVIOUS
  <2>2. BadTail(<<>>, t + 1) /\ UpTo(<<>>, t + 1)
    BY <1>1 DEF BadTail, UpTo
  <2> QED BY <2>1, <2>2 DEF TailsOK
<1>3. ActiveOK(w.active, <<>>, t + 1)
  BY <1>0, <1>1, ActiveLasts
<1>4. IntervalsOK(c, w.active, w.intervals, t + 1)
  <2>1. Len(w.intervals) \in Nat /\ Len(w.active) \in Nat
    BY <1>1
  <2>2. /\ 2 * Len(w.intervals) + Len(w.active) <= t - c.start + 2
        /\ \A i \in I!Elements(w.intervals) : i.start <= i.end /\ i.end < c.end
    BY <1>0 DEF IntervalsOK
  <2> DEFINE n == Len(w.intervals)
             k == Len(w.active)
             s == c.start
  <2>3. n \in Nat /\ k \in Nat /\ s \in Int /\ 2 * n + k <= t - s + 2
    BY <1>1, <2>1, <2>2
  <2> HIDE DEF n, k, s
  <2>4. 2 * n + k <= (t + 1) - s + 2
    BY <2>3
  <2>5. 2 * Len(w.intervals) + Len(w.active) <= (t + 1) - c.start + 2
    BY <2>4 DEF n, k, s
  <2>6. \A i \in I!Elements(w.intervals) : i.start <= i.end /\ i.end < c.end
    BY <2>2
  <2> QED BY <2>5, <2>6 DEF IntervalsOK
<1>5. NoneMissed(c, w.active, w.intervals, t + 1)
  <2>1. ~BadRun(c, t)
    <3>1. t \in t - Duration + 1 .. t
      BY <1>1
    <3> QED BY <3>1 DEF BadRun
  <2>2. \A u \in c.start .. t + 1 - 1 : u \in c.start .. t - 1 \/ u = t
    BY <1>1
  <2> QED BY <1>0, <2>1, <2>2 DEF NoneMissed
<1>6. Since(w.active, w.bad, t) \in Int /\ Since(w.active, <<>>, t + 1) \in Int /\ Since(w.active, w.bad, t) <= Since(w.active, <<>>, t + 1)
  BY <1>0, <1>1, SinceRises
<1>7. EventsOK(c, w.events, OpenOf(w.active), Since(w.active, <<>>, t + 1), c.after, c.end)
  BY <1>0, <1>1, <1>6, EventsLater
<1> QED BY <1>2, <1>3, <1>4, <1>5, <1>7

\* A bad minute: the tail of bad minutes goes on, and may open an incident.
LEMMA WorseKeeps ==
  ASSUME NEW c, ContextOK(c), NEW t \in Int, c.start <= t, t < c.end, NEW w, WalkOK(c, w, t), t \in c.bad, NEW reason \in I!BadReasons
  PROVE  WalkOK(c, I!Worse(w, t, reason), t + 1)
<1> DEFINE x == [at |-> t, reason |-> reason]
           bad == I!LastOf(Duration, Append(w.bad, x))
           opens == w.active = <<>> /\ Len(bad) >= Duration
           starting == [start |-> bad[1].at, reason |-> bad[1].reason]
           active == IF opens THEN <<starting>> ELSE w.active
           event == I!Event("degraded", active[1], t + 1)
           events == I!MayAppend(w.events, opens, event)
           z == I!Worse(w, t, reason)
<1>0. /\ w \in Walks /\ TailsOK(c, w.active, w.bad, w.good, t) /\ ActiveOK(w.active, w.good, t)
      /\ IntervalsOK(c, w.active, w.intervals, t) /\ NoneMissed(c, w.active, w.intervals, t) /\ NoGaps(c, w.gaps, t)
      /\ EventsOK(c, w.events, OpenOf(w.active), Since(w.active, w.bad, t), c.after, c.end)
  BY DEF WalkOK
<1>1. /\ w.active \in Seq(I!Starting) /\ Len(w.active) <= 1 /\ w.bad \in Seq(BadMinutes) /\ w.intervals \in Seq(I!Interval)
      /\ w.events \in Seq(Happenings) /\ w.monitored \in Nat /\ w.gaps \in BOOLEAN
      /\ c.start \in Int /\ c.end \in Int /\ c.from \in Int /\ Duration \in Nat /\ Duration >= 1
  BY <1>0, WalkFields, ContextFields, Sizes DEF ActiveOK
<1>2. /\ z.active = active /\ z.bad = bad /\ z.good = <<>> /\ z.intervals = w.intervals /\ z.events = events
      /\ z.monitored = w.monitored + 1 /\ z.gaps = w.gaps /\ z.anyBad = TRUE /\ I!None = <<>>
      /\ z = [active |-> active, bad |-> bad, good |-> <<>>, intervals |-> w.intervals, events |-> events,
              monitored |-> w.monitored + 1, gaps |-> w.gaps, anyBad |-> TRUE]
  <2>1. z = [w EXCEPT !.monitored = w.monitored + 1, !.anyBad = TRUE, !.bad = bad, !.good = <<>>, !.active = active, !.events = events]
    BY DEF I!Worse, I!None
  <2> HIDE DEF z, bad, active, events
  <2> QED BY <1>0, <2>1 DEF Walks, I!None
<1>3. x \in BadMinutes /\ x.at = t
  BY DEF BadMinutes
<1>4. BadTail(w.bad, t) /\ (\A u \in t - Len(w.bad) .. t - 1 : u \in c.bad) /\ (Len(w.bad) < Duration => t - 1 - Len(w.bad) \notin c.bad)
  BY <1>0 DEF TailsOK
<1>5. /\ bad \in Seq(BadMinutes) /\ Len(bad) >= 1 /\ BadTail(bad, t + 1) /\ bad[1].at = (t + 1) - Len(bad)
      /\ Len(bad) = (IF Len(w.bad) < Duration THEN Len(w.bad) + 1 ELSE Duration)
      /\ (w.bad = <<>> \/ w.bad[1].at <= bad[1].at)
  <2> HIDE DEF x
  <2>1. bad[1].at = t + 1 - Len(bad) /\ Len(bad) \in Nat
    BY <1>1, <1>3, <1>4, BadAppend
  <2>2. bad[1].at = (t + 1) - Len(bad)
    BY <2>1
  <2> QED BY <1>1, <1>3, <1>4, <2>2, BadAppend
<1> DEFINE n == Len(bad)
           l == Len(w.bad)
<1>6. /\ n \in Nat /\ n >= 1 /\ n <= Duration /\ l \in Nat /\ l <= Duration /\ n = (IF l < Duration THEN l + 1 ELSE Duration)
      /\ bad[1] \in BadMinutes /\ bad[1].at \in Int /\ bad[1].reason \in I!BadReasons /\ bad # <<>>
  <2>1. n \in Nat /\ l \in Nat
    BY <1>1, <1>5
  <2>2. n >= 1 /\ l <= Duration /\ n = (IF l < Duration THEN l + 1 ELSE Duration)
    BY <1>4, <1>5 DEF BadTail
  <2>3. bad[1] \in BadMinutes /\ bad # <<>>
    <3>1. 1 \in 1 .. Len(bad)
      BY <2>1, <2>2
    <3> HIDE DEF bad
    <3> QED BY <1>5, <3>1
  <2>4. bad[1].at \in Int /\ bad[1].reason \in I!BadReasons
    BY <2>3 DEF BadMinutes
  <2> HIDE DEF n, l, bad
  <2> QED BY <1>1, <2>1, <2>2, <2>3, <2>4
<1> HIDE DEF bad, x, z
<1>7. \A u \in (t + 1) - n .. t : u \in c.bad
  <2> SUFFICES ASSUME NEW u \in (t + 1) - n .. t PROVE u \in c.bad
    OBVIOUS
  <2>1. u = t \/ u \in t - l .. t - 1
    <3> HIDE DEF n, l
    <3>1. n \in Nat /\ l \in Nat /\ n <= l + 1 /\ t \in Int
      BY <1>1, <1>6
    <3>2. u \in Int /\ u >= (t + 1) - n /\ u <= t
      BY <3>1
    <3> QED BY <3>1, <3>2
  <2> QED BY <1>4, <2>1
<1>8. n < Duration => ((t + 1) - 1) - n \notin c.bad
  <2> SUFFICES ASSUME n < Duration PROVE ((t + 1) - 1) - n \notin c.bad
    OBVIOUS
  <2>1. l < Duration /\ ((t + 1) - 1) - n = t - 1 - l
    <3> HIDE DEF n, l
    <3> QED BY <1>1, <1>6
  <2> QED BY <1>4, <2>1
<1>9. n = Duration \/ ~BadRun(c, t)
  <2> SUFFICES ASSUME n # Duration, BadRun(c, t) PROVE FALSE
    OBVIOUS
  <2>1. n < Duration /\ ((t + 1) - 1) - n \in t - Duration + 1 .. t
    <3> HIDE DEF n, l
    <3> QED BY SMTT(30), <1>1, <1>6
  <2> QED BY <1>8, <2>1 DEF BadRun
<1> HIDE DEF n, l
<1>10. starting \in I!Starting /\ starting.start = (t + 1) - n /\ starting.reason \in I!BadReasons
  <2>1. I!BadReasons \subseteq I!Reasons
    BY DEF I!Reasons
  <2> QED BY <1>5, <1>6, <2>1 DEF I!Starting, n
<1> HIDE DEF starting
<1>11. TailsOK(c, active, bad, <<>>, t + 1)
  <2>1. Len(<<>>) = 0 /\ \A u \in (t + 1) - 0 .. (t + 1) - 1 : FALSE
    OBVIOUS
  <2>2. UpTo(<<>>, t + 1)
    BY <1>1 DEF UpTo
  <2>3. (\A u \in (t + 1) - Len(bad) .. (t + 1) - 1 : u \in c.bad) /\ (Len(bad) < Duration => ((t + 1) - 1) - Len(bad) \notin c.bad)
    <3>1. (t + 1) - 1 = t
      OBVIOUS
    <3> QED BY <1>7, <1>8, <3>1 DEF n
  <2> QED BY <1>5, <2>1, <2>2, <2>3 DEF TailsOK
<1>12. NoGaps(c, w.gaps, t + 1)
  <2>1. \A u \in c.start .. (t + 1) - 1 : u \in c.start .. t - 1 \/ u = t
    BY <1>1
  <2> QED BY <1>0, <2>1 DEF NoGaps
<1>13. Since(w.active, w.bad, t) \in Int /\ (w.active # <<>> => Since(w.active, w.bad, t) = w.active[1].start)
       /\ (w.active = <<>> => Since(w.active, w.bad, t) = (t + 1) - n)
  <2> DEFINE since == Since(w.active, w.bad, t)
  <2>1. since \in Int /\ (w.active # <<>> => since = w.active[1].start)
        /\ (w.active = <<>> => since = IF l < Duration THEN t - l ELSE t + 1 - Duration)
    BY <1>1, SinceIs DEF l
  <2> HIDE DEF since, n, l
  <2>2. w.active = <<>> => since = (t + 1) - n
    <3> SUFFICES ASSUME w.active = <<>> PROVE since = (t + 1) - n
      OBVIOUS
    <3>1. n \in Int /\ l \in Int /\ t \in Int /\ Duration \in Int
      BY <1>1, <1>6
    <3>2. CASE l < Duration
      <4>1. since = t - l /\ n = l + 1
        BY <1>6, <2>1, <3>2
      <4> QED BY <3>1, <4>1
    <3>3. CASE ~(l < Duration)
      <4>1. since = t + 1 - Duration /\ n = Duration
        BY <1>6, <2>1, <3>3
      <4> QED BY <3>1, <4>1
    <3> QED BY <3>2, <3>3
  <2> QED BY <2>1, <2>2 DEF since
<1>14. CASE opens
  <2>1. w.active = <<>> /\ n = Duration /\ active = <<starting>> /\ Len(active) = 1 /\ active # <<>> /\ active[1] = starting
        /\ Len(w.active) = 0 /\ OpenOf(w.active) = {} /\ OpenOf(active) = {starting.start}
    <3>1. w.active = <<>> /\ active = <<starting>> /\ n >= Duration
      BY <1>14 DEF n
    <3>2. n = Duration
      BY <1>1, <1>6, <3>1
    <3>3. Len(active) = 1 /\ active # <<>> /\ active[1] = starting
      BY <3>1
    <3>4. DOMAIN <<starting>> = {1} /\ <<starting>>[1] = starting /\ DOMAIN w.active = {}
      BY <3>1
    <3>5. I!Elements(<<starting>>) = {starting} /\ I!Elements(w.active) = {}
      BY <3>4 DEF I!Elements
    <3>6. OpenOf(w.active) = {} /\ OpenOf(active) = {starting.start}
      BY <3>1, <3>5 DEF OpenOf
    <3> QED BY <3>1, <3>2, <3>3, <3>6
  <2>2. /\ event = [transition |-> "degraded", start |-> starting.start, at |-> t + 1, reason |-> starting.reason]
        /\ event \in Happenings /\ events = Append(w.events, event)
    <3>1. event = I!Event("degraded", starting, t + 1) /\ events = Append(w.events, event)
      BY <1>14, <2>1 DEF I!MayAppend
    <3>2. "degraded" \in I!Transitions
      BY DEF I!Transitions
    <3>3. t + 1 \in Int
      OBVIOUS
    <3> HIDE DEF event, events
    <3> QED BY <1>10, <3>1, <3>2, <3>3, AboutIncident
  <2> HIDE DEF active, event, events, opens
  <2>3. ActiveOK(active, <<>>, t + 1)
    <3>1. Len(<<>>) = 0 /\ \A u \in (t + 1) - 0 .. (t + 1) - 1 : FALSE
      OBVIOUS
    <3>2. starting.start + Duration <= t + 1
      BY <1>1, <1>6, <1>10, <2>1
    <3>3. Len(active) <= 1
      BY <2>1
    <3> QED BY <1>10, <2>1, <3>1, <3>2, <3>3 DEF ActiveOK
  <2>4. IntervalsOK(c, active, w.intervals, t + 1)
    <3> DEFINE k == Len(w.intervals)
               s == c.start
    <3>1. k \in Nat /\ s \in Int /\ 2 * k + 0 <= t - s + 2 /\ \A i \in I!Elements(w.intervals) : i.start <= i.end /\ i.end < c.end
      BY <1>0, <1>1, <2>1 DEF IntervalsOK
    <3> HIDE DEF k, s
    <3>2. 2 * k + 1 <= (t + 1) - s + 2
      BY <3>1
    <3>3. 2 * Len(w.intervals) + Len(active) <= (t + 1) - c.start + 2
      BY <2>1, <3>2 DEF k, s
    <3> QED BY <3>1, <3>3 DEF IntervalsOK
  <2>5. NoneMissed(c, active, w.intervals, t + 1)
    <3> SUFFICES ASSUME NEW u \in c.start .. (t + 1) - 1, BadRun(c, u)
                 PROVE  Inside(w.intervals, u) \/ (active # <<>> /\ active[1].start <= u - Duration + 1)
      BY DEF NoneMissed
    <3>1. CASE u \in c.start .. t - 1
      BY <1>0, <2>1, <3>1 DEF NoneMissed
    <3>2. CASE u = t
      <4>1. starting.start <= t - Duration + 1
        BY <1>1, <1>10, <2>1
      <4> QED BY <2>1, <3>2, <4>1
    <3>3. u \in c.start .. t - 1 \/ u = t
      BY <1>1
    <3> QED BY <3>1, <3>2, <3>3
  <2>6. event \in Happenings /\ event.start = starting.start /\ event.transition = "degraded" /\ HappeningOK(c, event)
    <3>1. starting.start \in Int /\ starting.reason \in I!Reasons
      BY <1>10 DEF I!Starting
    <3>2. event \in Happenings /\ event.start = starting.start /\ event.transition = "degraded" /\ event.at = t + 1
      BY <2>2
    <3>3. starting.start + Duration - 1 = t /\ starting.start <= t + 1 /\ t + 1 <= c.end
      BY <1>1, <1>10, <2>1
    <3>4. \A u \in starting.start .. starting.start + Duration - 1 : u \in c.bad /\ u < t + 1
      <4>1. \A u \in (t + 1) - n .. t : u < t + 1
        BY <1>6
      <4> QED BY <1>7, <1>10, <3>3, <4>1
    <3>5. c.start <= starting.start + Duration - 1
      BY <3>3
    <3> QED BY <3>2, <3>3, <3>4, <3>5 DEF HappeningOK
  <2>7. EventsOK(c, events, {event.start}, event.start, c.after, c.end)
    <3>1. OpenOf(w.active) = {} /\ Since(w.active, w.bad, t) <= event.start
      BY <1>10, <1>13, <2>1, <2>6
    <3> QED BY <1>0, <1>1, <1>13, <2>2, <2>6, <3>1, EventsDegraded
  <2>8. Since(active, bad, t + 1) = event.start
    BY <2>1, <2>6 DEF Since
  <2>9. active \in Seq(I!Starting) /\ events \in Seq(Happenings)
    <3>1. active \in Seq(I!Starting)
      BY <1>10, <2>1
    <3> QED BY <2>7, <3>1 DEF EventsOK
  <2>10. z \in Walks
    <3>1. w.monitored + 1 \in Nat /\ TRUE \in BOOLEAN /\ <<>> \in Seq(Int)
      BY <1>1
    <3> DEFINE k == w.monitored + 1
    <3>2. z = [active |-> active, bad |-> bad, good |-> <<>>, intervals |-> w.intervals, events |-> events,
               monitored |-> k, gaps |-> w.gaps, anyBad |-> TRUE]
      BY <1>2
    <3>3. k \in Nat
      BY <3>1
    <3> HIDE DEF k
    <3> QED BY <1>1, <1>5, <2>9, <3>1, <3>2, <3>3 DEF Walks
  <2>11. WalkOK(c, z, t + 1)
    BY <1>2, <1>11, <1>12, <2>1, <2>3, <2>4, <2>5, <2>6, <2>7, <2>8, <2>10, ZenonT(40) DEF WalkOK
  <2> QED BY <2>11 DEF z
<1>15. CASE ~opens
  <2>1. active = w.active /\ events = w.events /\ (w.active = <<>> => n < Duration)
    <3>1. active = w.active /\ events = w.events /\ (w.active = <<>> => ~(n >= Duration))
      BY <1>15 DEF I!MayAppend, n
    <3> QED BY <1>1, <1>6, <3>1
  <2> HIDE DEF active, events, opens
  <2>2. ActiveOK(active, <<>>, t + 1)
    BY <1>0, <1>1, <2>1, ActiveLasts
  <2>3. IntervalsOK(c, active, w.intervals, t + 1)
    <3> DEFINE k == Len(w.intervals)
               a == Len(w.active)
               s == c.start
    <3>1. /\ k \in Nat /\ a \in Nat /\ s \in Int /\ 2 * k + a <= t - s + 2
          /\ \A i \in I!Elements(w.intervals) : i.start <= i.end /\ i.end < c.end
      <4>1. k \in Nat /\ a \in Nat /\ s \in Int
        BY <1>1
      <4> QED BY <1>0, <4>1 DEF IntervalsOK
    <3> HIDE DEF k, s, a
    <3>2. 2 * k + a <= (t + 1) - s + 2
      BY <3>1
    <3>3. 2 * Len(w.intervals) + Len(active) <= (t + 1) - c.start + 2
      BY <2>1, <3>2 DEF k, s, a
    <3> QED BY <3>1, <3>3 DEF IntervalsOK
  <2>4. NoneMissed(c, active, w.intervals, t + 1)
    <3> SUFFICES ASSUME NEW u \in c.start .. (t + 1) - 1, BadRun(c, u)
                 PROVE  Inside(w.intervals, u) \/ (active # <<>> /\ active[1].start <= u - Duration + 1)
      BY DEF NoneMissed
    <3>1. CASE u \in c.start .. t - 1
      BY <1>0, <2>1, <3>1 DEF NoneMissed
    <3>2. CASE u = t
      <4>1. n = Duration
        BY <1>9, <3>2
      <4>2. w.active # <<>>
        BY <1>1, <2>1, <4>1
      <4>3. w.active[1].start + Duration <= t /\ w.active[1].start \in Int
        BY <1>0, <1>1, <4>2, ActiveIs DEF ActiveOK
      <4>4. w.active[1].start <= t - Duration + 1
        BY <1>1, <4>3
      <4> QED BY <2>1, <3>2, <4>2, <4>4
    <3>3. u \in c.start .. t - 1 \/ u = t
      BY <1>1
    <3> QED BY <3>1, <3>2, <3>3
  <2>5. EventsOK(c, events, OpenOf(active), Since(active, bad, t + 1), c.after, c.end)
    <3>1. /\ Since(active, bad, t + 1) \in Int /\ (active # <<>> => Since(active, bad, t + 1) = active[1].start)
          /\ (active = <<>> => Since(active, bad, t + 1) = (t + 1) - n)
      <4>1. t + 1 \in Int
        OBVIOUS
      <4>2. active = <<>> => Len(bad) < Duration
        BY <2>1 DEF n
      <4>3. Since(active, bad, t + 1) \in Int /\ (active # <<>> => Since(active, bad, t + 1) = active[1].start)
            /\ (active = <<>> => Since(active, bad, t + 1) = IF Len(bad) < Duration THEN (t + 1) - Len(bad) ELSE (t + 1) + 1 - Duration)
        BY <1>1, <1>5, <2>1, <4>1, SinceIs
      <4> QED BY <4>2, <4>3 DEF n
    <3>2. Since(w.active, w.bad, t) <= Since(active, bad, t + 1)
      BY <1>13, <2>1, <3>1
    <3> QED BY <1>0, <1>1, <1>13, <2>1, <3>1, <3>2, EventsLater
  <2>6. z \in Walks
    <3>1. w.monitored + 1 \in Nat /\ TRUE \in BOOLEAN /\ <<>> \in Seq(Int)
      BY <1>1
    <3> DEFINE k == w.monitored + 1
    <3>2. z = [active |-> active, bad |-> bad, good |-> <<>>, intervals |-> w.intervals, events |-> events,
               monitored |-> k, gaps |-> w.gaps, anyBad |-> TRUE]
      BY <1>2
    <3>3. k \in Nat
      BY <3>1
    <3> HIDE DEF k
    <3> QED BY <1>1, <1>5, <2>1, <3>1, <3>2, <3>3 DEF Walks
  <2>7. WalkOK(c, z, t + 1)
    BY <1>2, <1>11, <1>12, <2>1, <2>2, <2>3, <2>4, <2>5, <2>6 DEF WalkOK
  <2> QED BY <2>7 DEF z
<1> QED BY <1>14, <1>15

\* A minute that is not bad: the tail of good minutes goes on, unless the minute does not
\* tell whether what is open is over, and may close it.
LEMMA BetterKeeps ==
  ASSUME NEW c, ContextOK(c), NEW t \in Int, c.start <= t, t < c.end, NEW w, WalkOK(c, w, t), t \in c.fine, NEW proves \in BOOLEAN,
         proves /\ Fleet(w.active) => t \in c.judged
  PROVE  WalkOK(c, I!Better(w, t, proves), t + 1)
<1> DEFINE good == IF proves THEN I!LastOf(Duration, Append(w.good, t)) ELSE <<>>
           closes == w.active # <<>> /\ Len(good) >= Duration
           active == IF closes THEN <<>> ELSE w.active
           was == w.active[1]
           over == [start |-> was.start, end |-> good[1], reason |-> was.reason]
           intervals == I!MayAppend(w.intervals, closes, over)
           event == I!Event("recovered", was, good[1])
           events == I!MayAppend(w.events, closes, event)
           z == I!Better(w, t, proves)
<1>0. /\ w \in Walks /\ TailsOK(c, w.active, w.bad, w.good, t) /\ ActiveOK(w.active, w.good, t)
      /\ IntervalsOK(c, w.active, w.intervals, t) /\ NoneMissed(c, w.active, w.intervals, t) /\ NoGaps(c, w.gaps, t)
      /\ EventsOK(c, w.events, OpenOf(w.active), Since(w.active, w.bad, t), c.after, c.end)
  BY DEF WalkOK
<1>1. /\ w.active \in Seq(I!Starting) /\ Len(w.active) <= 1 /\ w.bad \in Seq(BadMinutes) /\ w.good \in Seq(Int)
      /\ w.intervals \in Seq(I!Interval) /\ w.events \in Seq(Happenings) /\ w.monitored \in Nat /\ w.gaps \in BOOLEAN /\ w.anyBad \in BOOLEAN
      /\ c.start \in Int /\ c.end \in Int /\ c.from \in Int /\ Duration \in Nat /\ Duration >= 1 /\ t \notin c.bad /\ t + 1 \in Int
  BY <1>0, WalkFields, ContextFields, Sizes DEF ActiveOK
<1>2. /\ z.active = active /\ z.bad = <<>> /\ z.good = good /\ z.intervals = intervals /\ z.events = events
      /\ z.monitored = w.monitored + 1 /\ z.gaps = w.gaps /\ z.anyBad = w.anyBad
      /\ z = [active |-> active, bad |-> <<>>, good |-> good, intervals |-> intervals, events |-> events,
              monitored |-> w.monitored + 1, gaps |-> w.gaps, anyBad |-> w.anyBad]
  <2>1. z = [w EXCEPT !.monitored = w.monitored + 1, !.bad = <<>>, !.good = good, !.active = active,
                      !.intervals = intervals, !.events = events]
    BY DEF I!Better, I!None
  <2> HIDE DEF z, good, active, intervals, events
  <2> QED BY <1>0, <2>1 DEF Walks
<1>3. UpTo(w.good, t) /\ \A u \in t - Len(w.good) .. t - 1 :
        /\ u >= c.start => u \in c.fine
        /\ u < c.start => u \in c.handed
        /\ u >= c.start /\ Fleet(w.active) => u \in c.judged
  BY <1>0 DEF TailsOK
<1> DEFINE n == Len(good)
           l == Len(w.good)
<1>4. /\ good \in Seq(Int) /\ n \in Nat /\ n <= Duration /\ UpTo(good, t + 1) /\ (n > 0 => good[1] = (t + 1) - n)
      /\ (n > 0 => proves) /\ l \in Nat /\ n <= l + 1
  <2>1. CASE proves
    <3> DEFINE g == I!LastOf(Duration, Append(w.good, t))
    <3>1. /\ g \in Seq(Int) /\ Len(g) >= 1 /\ UpTo(g, t + 1) /\ g[1] = t + 1 - Len(g)
          /\ Len(g) = (IF Len(w.good) < Duration THEN Len(w.good) + 1 ELSE Duration)
      BY <1>1, <1>3, TailAppend
    <3>2. l \in Nat /\ l <= Duration /\ good = g
      BY <1>1, <1>3, <2>1 DEF UpTo
    <3>3. n = Len(g) /\ n >= 1 /\ n = (IF l < Duration THEN l + 1 ELSE Duration) /\ good[1] = t + 1 - n
      BY <3>1, <3>2
    <3>4. good \in Seq(Int) /\ UpTo(good, t + 1)
      BY <3>1, <3>2
    <3> HIDE DEF g, good, l, n
    <3>5. n \in Nat /\ n <= Duration /\ n <= l + 1 /\ good[1] = (t + 1) - n
      BY <1>1, <3>2, <3>3
    <3> QED BY <2>1, <3>2, <3>4, <3>5
  <2>2. CASE ~proves
    <3>1. good = <<>> /\ n = 0
      BY <2>2
    <3>2. UpTo(<<>>, t + 1)
      BY <1>1 DEF UpTo
    <3> HIDE DEF good
    <3> QED BY <1>1, <3>1, <3>2
  <2> QED BY <2>1, <2>2
<1> HIDE DEF good, z
<1>5. \A u \in (t + 1) - n .. t : u = t \/ u \in t - l .. t - 1
  <2> HIDE DEF n, l
  <2> QED BY <1>4
<1>6. \A u \in (t + 1) - n .. t :
        /\ u >= c.start => u \in c.fine
        /\ u < c.start => u \in c.handed
        /\ u >= c.start /\ Fleet(w.active) => u \in c.judged
  <2>1. n > 0 => proves
    BY <1>4
  <2>2. \A u \in (t + 1) - n .. t : n > 0
    <3> HIDE DEF n
    <3> QED BY <1>4
  <2>3. \A u \in t - l .. t - 1 :
          /\ u >= c.start => u \in c.fine
          /\ u < c.start => u \in c.handed
          /\ u >= c.start /\ Fleet(w.active) => u \in c.judged
    BY <1>3
  <2> HIDE DEF n, l
  <2> SUFFICES ASSUME NEW u \in (t + 1) - n .. t
               PROVE  /\ u >= c.start => u \in c.fine
                      /\ u < c.start => u \in c.handed
                      /\ u >= c.start /\ Fleet(w.active) => u \in c.judged
    OBVIOUS
  <2>4. CASE u = t
    BY <1>1, <2>1, <2>2, <2>4
  <2>5. CASE u \in t - l .. t - 1
    BY <2>3, <2>5
  <2> QED BY <1>5, <2>4, <2>5
<1>7. w.active # <<>> => /\ was \in I!Starting /\ was.start \in Int /\ was.reason \in I!BadReasons /\ was.start + Duration <= t
                         /\ Len(w.active) = 1 /\ OpenOf(w.active) = {was.start}
                         /\ \A u \in (t + 1) - n .. t : was.start <= u
  <2> SUFFICES ASSUME w.active # <<>>
               PROVE  /\ was \in I!Starting /\ was.start \in Int /\ was.reason \in I!BadReasons /\ was.start + Duration <= t
                      /\ Len(w.active) = 1 /\ OpenOf(w.active) = {was.start}
                      /\ \A u \in (t + 1) - n .. t : was.start <= u
    OBVIOUS
  <2>1. was \in I!Starting /\ was.start \in Int /\ Len(w.active) = 1 /\ OpenOf(w.active) = {was.start}
    BY <1>1, ActiveIs
  <2>2. was.reason \in I!BadReasons /\ was.start + Duration <= t /\ \A u \in t - l .. t - 1 : was.start <= u
    BY <1>0 DEF ActiveOK
  <2>3. was.start <= t
    BY <1>1, <2>1, <2>2
  <2> HIDE DEF was, n, l
  <2> QED BY <1>5, <2>1, <2>2, <2>3
<1>8. TailsOK(c, active, <<>>, good, t + 1)
  <2>1. Len(<<>>) = 0 /\ ((t + 1) - 1) - 0 = t /\ (\A u \in (t + 1) - 0 .. (t + 1) - 1 : FALSE) /\ (t + 1) - 1 = t
    OBVIOUS
  <2>2. BadTail(<<>>, t + 1)
    BY <1>1 DEF BadTail
  <2>3. Fleet(active) => Fleet(w.active)
    BY DEF Fleet
  <2>4. \A u \in (t + 1) - Len(good) .. (t + 1) - 1 :
          /\ u >= c.start => u \in c.fine
          /\ u < c.start => u \in c.handed
          /\ u >= c.start /\ Fleet(active) => u \in c.judged
    BY <1>6, <2>1, <2>3
  <2> HIDE DEF active
  <2> QED BY <1>1, <1>4, <2>1, <2>2, <2>4 DEF TailsOK
<1>9. NoGaps(c, w.gaps, t + 1)
  <2>1. \A u \in c.start .. (t + 1) - 1 : u \in c.start .. t - 1 \/ u = t
    BY <1>1
  <2> QED BY <1>0, <2>1 DEF NoGaps
<1>10. ~BadRun(c, t)
  <2>1. t \in t - Duration + 1 .. t
    BY <1>1
  <2> QED BY <1>1, <2>1 DEF BadRun
<1>11. CASE closes
  <2>1. w.active # <<>> /\ active = <<>> /\ n = Duration /\ good[1] = (t + 1) - Duration /\ Len(active) = 0 /\ OpenOf(active) = {}
        /\ was.start <= good[1] /\ good[1] \in Int /\ good[1] <= t
    <3>1. w.active # <<>> /\ active = <<>> /\ n >= Duration
      BY <1>11
    <3>2. n = Duration /\ n > 0
      BY <1>1, <1>4, <3>1
    <3>3. good[1] = (t + 1) - Duration
      BY <1>4, <3>2
    <3>4. good[1] \in (t + 1) - n .. t
      BY <1>1, <3>2, <3>3
    <3>5. was.start <= good[1] /\ good[1] \in Int /\ good[1] <= t
      BY <1>7, <3>1, <3>4
    <3>6. I!Elements(<<>>) = {}
      BY DEF I!Elements
    <3> QED BY <3>1, <3>2, <3>3, <3>5, <3>6 DEF OpenOf
  <2>2. /\ event = [transition |-> "recovered", start |-> was.start, at |-> good[1], reason |-> was.reason]
        /\ event \in Happenings /\ events = Append(w.events, event) /\ intervals = Append(w.intervals, over)
    <3>1. events = Append(w.events, event) /\ intervals = Append(w.intervals, over)
      BY <1>11 DEF I!MayAppend
    <3>2. "recovered" \in I!Transitions
      BY DEF I!Transitions
    <3> HIDE DEF events, intervals, was
    <3> QED BY <1>7, <2>1, <3>1, <3>2, AboutIncident
  <2>3. over \in I!Interval /\ over.start = was.start /\ over.end = good[1] /\ over.reason = was.reason
    <3>1. was.reason \in I!Reasons
      BY <1>7, <2>1 DEF I!Reasons
    <3> HIDE DEF was
    <3> QED BY <1>7, <2>1, <3>1 DEF I!Interval
  <2> HIDE DEF active, event, events, closes, intervals, over, was
  <2>4. ActiveOK(active, good, t + 1)
    BY <2>1 DEF ActiveOK
  <2>5. I!Elements(intervals) = I!Elements(w.intervals) \union {over} /\ intervals \in Seq(I!Interval) /\ Len(intervals) = Len(w.intervals) + 1
    BY <1>1, <2>2, <2>3, ElementsAppend
  <2>6. IntervalsOK(c, active, intervals, t + 1)
    <3> DEFINE k == Len(w.intervals)
               s == c.start
    <3>1. k \in Nat /\ s \in Int /\ 2 * k + 1 <= t - s + 2
      <4>1. k \in Nat /\ s \in Int
        BY <1>1
      <4> QED BY <1>0, <1>7, <2>1, <4>1 DEF IntervalsOK
    <3> HIDE DEF k, s
    <3>2. 2 * (k + 1) + 0 <= (t + 1) - s + 2
      BY <3>1
    <3>3. 2 * Len(intervals) + Len(active) <= (t + 1) - c.start + 2
      BY <2>1, <2>5, <3>2 DEF k, s
    <3>4. \A i \in I!Elements(w.intervals) : i.start <= i.end /\ i.end < c.end
      BY <1>0 DEF IntervalsOK
    <3>5. over.start <= over.end /\ over.end < c.end
      BY <1>1, <2>1, <2>3
    <3> QED BY <2>5, <3>3, <3>4, <3>5 DEF IntervalsOK
  <2>7. NoneMissed(c, active, intervals, t + 1)
    <3> SUFFICES ASSUME NEW u \in c.start .. (t + 1) - 1, BadRun(c, u)
                 PROVE  Inside(intervals, u)
      BY DEF NoneMissed
    <3>1. u \in c.start .. t - 1 /\ u \in Int /\ u - Duration + 1 \in Int /\ u - Duration + 1 <= u
      <4>1. u = t \/ u \in c.start .. t - 1
        BY <1>1
      <4> QED BY <1>1, <1>10, <4>1
    <3>2. Inside(w.intervals, u) \/ was.start <= u - Duration + 1
      BY <1>0, <3>1 DEF NoneMissed, was
    <3>3. CASE Inside(w.intervals, u)
      BY <2>5, <3>3 DEF Inside
    <3>4. CASE was.start <= u - Duration + 1
      <4>1. u < good[1]
        <5> SUFFICES ASSUME u >= good[1] PROVE FALSE
          BY <2>1, <3>1
        <5>1. u \in (t + 1) - n .. t /\ u >= c.start
          BY <1>1, <2>1, <3>1
        <5>2. u \in c.fine /\ u \in c.bad
          <6>1. u \in u - Duration + 1 .. u
            BY <1>1, <3>1
          <6> QED BY <1>6, <5>1, <6>1 DEF BadRun
        <5> QED BY <5>2, ContextFields
      <4>2. over.reason # "stale_heavy"
        BY <1>7, <2>1, <2>3 DEF I!BadReasons, I!FleetReasons
      <4>3. was.start \in Int
        BY <1>7, <2>1
      <4>4. I!Within(u, over) /\ I!Within(u - Duration + 1, over)
        BY <2>1, <2>3, <3>1, <3>4, <4>1, <4>3 DEF I!Within
      <4> QED BY <2>5, <4>2, <4>4 DEF Inside
    <3> QED BY <3>2, <3>3, <3>4
  <2>8. event.start = was.start /\ event.transition = "recovered" /\ HappeningOK(c, event)
    <3>1. event.start = was.start /\ event.transition = "recovered" /\ event.at = good[1] /\ event.reason = was.reason
      BY <2>2
    <3>2. good[1] + Duration - 1 = t /\ good[1] <= c.end
      BY SMTT(30), <1>1, <2>1
    <3>3. was.reason \in I!FleetReasons => Fleet(w.active)
      BY <2>1 DEF Fleet, was
    <3>4. \A u \in good[1] .. good[1] + Duration - 1 :
            /\ u >= c.start => u \in c.fine
            /\ u < c.start => u \in c.handed
            /\ was.reason \in I!FleetReasons /\ u >= c.start => u \in c.judged
      BY <1>6, <2>1, <3>2, <3>3
    <3> QED BY <2>1, <3>1, <3>2, <3>4 DEF HappeningOK
  <2>9. EventsOK(c, events, {}, t + 1, c.after, c.end)
    <3>1. OpenOf(w.active) = {event.start} /\ Since(w.active, w.bad, t) = event.start /\ event.start < t + 1 /\ event.start \in Int
      <4>1. Since(w.active, w.bad, t) = was.start
        BY <2>1 DEF Since, was
      <4> QED BY SMTT(30), <1>1, <1>7, <2>1, <2>8, <4>1
    <3>2. event.transition \in Recovery
      BY <2>8 DEF Recovery
    <3> QED BY <1>0, <1>1, <2>2, <2>8, <3>1, <3>2, EventsRecovered, ZenonT(40)
  <2>10. Since(active, <<>>, t + 1) = t + 1
    <3>1. active \in Seq(I!Starting) /\ Len(active) <= 1 /\ <<>> \in Seq(BadMinutes) /\ active = <<>>
      BY <2>1
    <3> HIDE DEF active
    <3> QED BY <1>1, <3>1, SinceIs
  <2>11. z \in Walks
    <3>1. w.monitored + 1 \in Nat /\ <<>> \in Seq(BadMinutes) /\ active \in Seq(I!Starting) /\ events \in Seq(Happenings)
      BY SMTT(30), <1>1, <2>1, <2>9 DEF EventsOK
    <3> DEFINE k == w.monitored + 1
    <3>2. z = [active |-> active, bad |-> <<>>, good |-> good, intervals |-> intervals, events |-> events,
               monitored |-> k, gaps |-> w.gaps, anyBad |-> w.anyBad]
      BY <1>2
    <3>3. k \in Nat
      BY <3>1
    <3> HIDE DEF k
    <3> QED BY <1>1, <1>4, <2>5, <3>1, <3>2, <3>3 DEF Walks
  <2>12. WalkOK(c, z, t + 1)
    BY <1>2, <1>8, <1>9, <2>1, <2>4, <2>6, <2>7, <2>9, <2>10, <2>11 DEF WalkOK
  <2> QED BY <2>12 DEF z
<1>12. CASE ~closes
  <2>1. active = w.active /\ events = w.events /\ intervals = w.intervals
    BY <1>12 DEF I!MayAppend
  <2> HIDE DEF active, events, closes, intervals, was
  <2>2. ActiveOK(active, good, t + 1)
    <3>1. (t + 1) - 1 = t
      OBVIOUS
    <3>2. active # <<>> => /\ active[1].reason \in I!BadReasons /\ active[1].start + Duration <= t + 1
                           /\ \A u \in (t + 1) - n .. t : active[1].start <= u
      <4> SUFFICES ASSUME active # <<>>
                   PROVE  /\ active[1].reason \in I!BadReasons /\ active[1].start + Duration <= t + 1
                          /\ \A u \in (t + 1) - n .. t : active[1].start <= u
        OBVIOUS
      <4>1. /\ was.reason \in I!BadReasons /\ was.start + Duration <= t /\ was.start \in Int
            /\ \A u \in (t + 1) - n .. t : was.start <= u
        BY <1>7, <2>1
      <4>2. was.start + Duration <= t + 1
        BY <1>1, <4>1
      <4> QED BY <2>1, <4>1, <4>2 DEF was
    <3> QED BY <1>1, <2>1, <3>1, <3>2 DEF ActiveOK
  <2>3. IntervalsOK(c, active, intervals, t + 1)
    <3> DEFINE k == Len(w.intervals)
               a == Len(w.active)
               s == c.start
    <3>1. /\ k \in Nat /\ a \in Nat /\ s \in Int /\ 2 * k + a <= t - s + 2
          /\ \A i \in I!Elements(w.intervals) : i.start <= i.end /\ i.end < c.end
      <4>1. k \in Nat /\ a \in Nat /\ s \in Int
        BY <1>1
      <4> QED BY <1>0, <4>1 DEF IntervalsOK
    <3> HIDE DEF k, s, a
    <3>2. 2 * k + a <= (t + 1) - s + 2
      BY <3>1
    <3>3. 2 * Len(intervals) + Len(active) <= (t + 1) - c.start + 2
      BY <2>1, <3>2 DEF k, s, a
    <3> QED BY <2>1, <3>1, <3>3 DEF IntervalsOK
  <2>4. NoneMissed(c, active, intervals, t + 1)
    <3>1. \A u \in c.start .. (t + 1) - 1 : u \in c.start .. t - 1 \/ u = t
      BY <1>1
    <3> QED BY <1>0, <1>10, <2>1, <3>1 DEF NoneMissed
  <2>5. EventsOK(c, events, OpenOf(active), Since(active, <<>>, t + 1), c.after, c.end)
    <3>1. /\ Since(w.active, w.bad, t) \in Int /\ Since(w.active, <<>>, t + 1) \in Int
          /\ Since(w.active, w.bad, t) <= Since(w.active, <<>>, t + 1)
      BY <1>0, <1>1, SinceRises
    <3> QED BY <1>0, <1>1, <2>1, <3>1, EventsLater
  <2>6. z \in Walks
    <3>1. w.monitored + 1 \in Nat /\ <<>> \in Seq(BadMinutes)
      BY <1>1
    <3> DEFINE k == w.monitored + 1
    <3>2. z = [active |-> active, bad |-> <<>>, good |-> good, intervals |-> intervals, events |-> events,
               monitored |-> k, gaps |-> w.gaps, anyBad |-> w.anyBad]
      BY <1>2
    <3>3. k \in Nat
      BY <3>1
    <3> HIDE DEF k
    <3> QED BY <1>1, <1>4, <2>1, <3>1, <3>2, <3>3 DEF Walks
  <2>7. WalkOK(c, z, t + 1)
    BY <1>2, <1>8, <1>9, <2>1, <2>2, <2>3, <2>4, <2>5, <2>6 DEF WalkOK
  <2> QED BY <2>7 DEF z
<1> QED BY <1>11, <1>12

\* One minute of the walk.
WalkMinute(h, s, baseline, w, m) ==
  IF v2 = I!NotConfirmed \/ 2 * (I!At(h, m) + 1) <= v2 THEN I!Forgotten(w)
  ELSE IF ~I!Monitored(s, m) THEN [I!Forgotten(w) EXCEPT !.gaps = TRUE]
  ELSE LET reason == I!BadReason(s[m], baseline[m])
       IN  IF reason # "" THEN I!Worse(w, I!At(h, m), reason)
           ELSE I!Better(w, I!At(h, m), I!RecoveryEvidence(w.active, baseline[m]))

\* What each minute of the walk keeps, the walk keeps.
LEMMA WalkedKeeps ==
  ASSUME NEW c, NEW h, NEW s, NEW baseline, NEW base,
         base \in Walks, WalkOK(c, base, c.start + 0),
         \A i \in 1 .. MinutesPerHour, w \in Walks : WalkOK(c, w, c.start + (i - 1)) => WalkMinute(h, s, baseline, w, [m \in I!Minutes |-> m][i]) \in Walks /\ WalkOK(c, WalkMinute(h, s, baseline, w, [m \in I!Minutes |-> m][i]), c.start + i)
  PROVE  I!Walked(h, s, baseline, base) \in Walks /\ WalkOK(c, I!Walked(h, s, baseline, base), c.start + MinutesPerHour)
<1> DEFINE ids == [m \in I!Minutes |-> m]
           g == [z \in Walks \X I!Minutes |-> IF WalkMinute(h, s, baseline, z[1], z[2]) \in Walks THEN WalkMinute(h, s, baseline, z[1], z[2]) ELSE z[1]]
           Upto == 0 .. Len(ids)
           e(f, i) == IF i = 0 THEN base ELSE CHOOSE r \in {WalkMinute(h, s, baseline, x, ids[i]) : x \in {f[i - 1]}} : TRUE
           after == CHOOSE f : f = [i \in Upto |-> e(f, i)]
           size == MinutesPerHour
<1>1. /\ size \in Nat /\ ids \in Seq(I!Minutes) /\ Len(ids) = size /\ (\A i \in 1 .. size : ids[i] = i /\ i \in I!Minutes)
      /\ I!Minutes = 1 .. size
  <2>1. size \in Nat /\ I!Minutes = 1 .. size
    BY Sizes
  <2>2. ids = [i \in 1 .. size |-> i]
    BY <2>1
  <2> HIDE DEF ids, size
  <2> QED BY <2>1, <2>2
<1>4. g \in [Walks \X I!Minutes -> Walks]
  OBVIOUS
<1>5. PICK f \in [Upto -> Walks] : f[0] = base /\ \A i \in 1 .. Len(ids) : f[i] = g[<<f[i - 1], ids[i]>>]
  <2> HIDE DEF g, ids
  <2>1. \E f : Folded(f, Walks, g, base, ids)
    BY <1>1, <1>4, FoldExists
  <2> QED BY <2>1 DEF Folded
<1>6. ASSUME NEW i \in 1 .. size, WalkOK(c, f[i - 1], c.start + (i - 1))
      PROVE  f[i] = WalkMinute(h, s, baseline, f[i - 1], ids[i]) /\ WalkOK(c, f[i], c.start + i)
  <2>1. i - 1 \in Upto /\ i \in 1 .. Len(ids) /\ ids[i] \in I!Minutes
    BY <1>1
  <2>2. f[i - 1] \in Walks
    BY <1>5, <2>1
  <2>3. WalkMinute(h, s, baseline, f[i - 1], ids[i]) \in Walks /\ WalkOK(c, WalkMinute(h, s, baseline, f[i - 1], ids[i]), c.start + i)
    BY <1>6, <2>2
  <2>4. f[i] = g[<<f[i - 1], ids[i]>>] /\ <<f[i - 1], ids[i]>> \in Walks \X I!Minutes
    <3> HIDE DEF g, ids, Upto
    <3> QED BY <1>5, <2>1, <2>2
  <2> HIDE DEF ids
  <2>5. f[i] = WalkMinute(h, s, baseline, f[i - 1], ids[i])
    BY <2>3, <2>4
  <2> QED BY <2>3, <2>5
<1> HIDE DEF g
<1> DEFINE Good == {i \in Nat : i <= size => WalkOK(c, f[i], c.start + i)}
<1>7. 0 \in Good
  BY <1>5
<1>8. ASSUME NEW k \in Nat, k \in Good PROVE k + 1 \in Good
  <2> SUFFICES ASSUME k + 1 <= size PROVE WalkOK(c, f[k + 1], c.start + (k + 1))
    OBVIOUS
  <2> DEFINE i == k + 1
  <2>1. i \in 1 .. size /\ i - 1 = k /\ WalkOK(c, f[k], c.start + k)
    BY <1>1, <1>8
  <2> HIDE DEF i
  <2>2. WalkOK(c, f[i - 1], c.start + (i - 1))
    BY <2>1
  <2>3. WalkOK(c, f[i], c.start + i)
    BY <1>6, <2>1, <2>2
  <2> QED BY <2>3 DEF i
<1>9. Nat \subseteq Good
  <2> HIDE DEF Good
  <2> QED BY <1>7, <1>8, NatInd
<1>10. \A i \in 0 .. size : WalkOK(c, f[i], c.start + i)
  BY <1>1, <1>9
<1>11. ASSUME NEW i \in 1 .. size PROVE f[i] = WalkMinute(h, s, baseline, f[i - 1], ids[i])
  <2>1. i - 1 \in 0 .. size
    BY <1>1
  <2>2. WalkOK(c, f[i - 1], c.start + (i - 1))
    BY <1>10, <2>1
  <2> QED BY <1>6, <2>2
<1> HIDE DEF Good
<1>12. \A i \in Upto : f[i] = e(f, i)
  <2> SUFFICES ASSUME NEW i \in Upto, i # 0 PROVE f[i] = CHOOSE r \in {WalkMinute(h, s, baseline, x, ids[i]) : x \in {f[i - 1]}} : TRUE
    BY <1>5
  <2>0. i \in 1 .. size
    BY <1>1
  <2>1. f[i] = WalkMinute(h, s, baseline, f[i - 1], ids[i])
    BY <1>11, <2>0
  <2> HIDE DEF ids
  <2> QED BY <2>1
<1>13. f = [i \in Upto |-> e(f, i)]
  <2> HIDE DEF e, Upto
  <2> QED BY <1>5, <1>12
<1>14. after = [i \in Upto |-> e(after, i)]
  <2> HIDE DEF e, Upto
  <2> QED BY <1>13
<1>15. I!Walked(h, s, baseline, base) = after[Len(ids)]
  BY DEF I!Walked, I!Fold, WalkMinute
<1>16. after[Len(ids)] = f[Len(ids)]
  <2>1. after[0] = f[0] /\ Len(ids) \in Nat
    <3>1. Len(ids) \in Nat /\ f[0] = base /\ 0 \in Upto
      BY <1>1, <1>5
    <3>2. after[0] = e(after, 0)
      <4> HIDE DEF e, after, Upto
      <4> QED BY <1>14, <3>1
    <3> QED BY <3>1, <3>2
  <2>2. ASSUME NEW i \in 1 .. Len(ids), after[i - 1] = f[i - 1] PROVE after[i] = f[i]
    <3>1. i \in Upto /\ i # 0
      BY <1>1
    <3>2. after[i] = e(after, i) /\ f[i] = e(f, i)
      <4> HIDE DEF e, after, Upto
      <4> QED BY <1>12, <1>14, <3>1
    <3> HIDE DEF after, ids
    <3> QED BY <2>2, <3>2
  <2> HIDE DEF after, ids
  <2> QED BY <2>1, <2>2, Agree
<1> HIDE DEF after, e
<1>17. I!Walked(h, s, baseline, base) = f[size]
  BY <1>1, <1>15, <1>16
<1>18. f[size] \in Walks /\ WalkOK(c, f[size], c.start + size)
  <2>1. size \in Upto /\ size \in 0 .. size
    BY <1>1
  <2> HIDE DEF Upto
  <2> QED BY <1>5, <1>10, <2>1
<1> QED BY <1>17, <1>18


Blind(t) == v2 = I!NotConfirmed \/ 2 * (t + 1) <= v2
\* The context says what the minutes of the hour show.
Shown(c, h, s, baseline) ==
  \A m \in I!Minutes : \A t \in Int : t = c.start + (m - 1) =>
    /\ I!At(h, m) = t
    /\ Blind(t) => t \in c.blind /\ t \notin c.bad
    /\ ~Blind(t) /\ ~I!Monitored(s, m) => t \notin c.bad
    /\ ~Blind(t) /\ I!Monitored(s, m) /\ I!BadReason(s[m], baseline[m]) # "" =>
         t \in c.bad /\ I!BadReason(s[m], baseline[m]) \in I!BadReasons
    /\ ~Blind(t) /\ I!Monitored(s, m) /\ I!BadReason(s[m], baseline[m]) = "" =>
         t \in c.fine /\ (baseline[m] = "judged" => t \in c.judged)

LEMMA ForgottenIs ==
  ASSUME NEW w \in Walks
  PROVE  LET z == I!Forgotten(w)
         IN  /\ z \in Walks /\ [z EXCEPT !.gaps = TRUE] \in Walks
             /\ z.active = w.active /\ z.bad = <<>> /\ z.good = <<>> /\ z.intervals = w.intervals /\ z.events = w.events /\ z.gaps = w.gaps
             /\ LET y == [z EXCEPT !.gaps = TRUE]
                IN  y.active = w.active /\ y.bad = <<>> /\ y.good = <<>> /\ y.intervals = w.intervals /\ y.events = w.events /\ y.gaps = TRUE
<1> DEFINE z == I!Forgotten(w)
           y == [z EXCEPT !.gaps = TRUE]
<1>1. z = [w EXCEPT !.bad = <<>>, !.good = <<>>]
  BY DEF I!Forgotten
<1>2. <<>> \in Seq(BadMinutes) /\ <<>> \in Seq(Int)
  OBVIOUS
<1> HIDE DEF z
<1>3. z \in Walks /\ z.active = w.active /\ z.bad = <<>> /\ z.good = <<>> /\ z.intervals = w.intervals /\ z.events = w.events /\ z.gaps = w.gaps
  BY <1>1, <1>2 DEF Walks
<1>4. y \in Walks /\ y.active = w.active /\ y.bad = <<>> /\ y.good = <<>> /\ y.intervals = w.intervals /\ y.events = w.events /\ y.gaps = TRUE
  BY <1>3 DEF Walks
<1> QED BY <1>3, <1>4 DEF z

LEMMA MinuteKeeps ==
  ASSUME NEW c, ContextOK(c), NEW h, NEW s, NEW baseline, Shown(c, h, s, baseline), NEW m \in I!Minutes,
         NEW w, WalkOK(c, w, c.start + (m - 1))
  PROVE  WalkOK(c, WalkMinute(h, s, baseline, w, m), c.start + m)
<1> DEFINE t == c.start + (m - 1)
           z == WalkMinute(h, s, baseline, w, m)
<1>1. t \in Int /\ c.start <= t /\ t < c.end /\ t + 1 = c.start + m /\ m \in 1 .. MinutesPerHour /\ m \in Int
  BY ContextFields, Sizes
<1>2. /\ I!At(h, m) = t
      /\ Blind(t) => t \in c.blind /\ t \notin c.bad
      /\ ~Blind(t) /\ ~I!Monitored(s, m) => t \notin c.bad
      /\ ~Blind(t) /\ I!Monitored(s, m) /\ I!BadReason(s[m], baseline[m]) # "" =>
           t \in c.bad /\ I!BadReason(s[m], baseline[m]) \in I!BadReasons
      /\ ~Blind(t) /\ I!Monitored(s, m) /\ I!BadReason(s[m], baseline[m]) = "" =>
           t \in c.fine /\ (baseline[m] = "judged" => t \in c.judged)
  BY <1>1 DEF Shown
<1>3. WalkOK(c, w, t) /\ w \in Walks
  BY DEF WalkOK
<1>4. Blind(t) = (v2 = I!NotConfirmed \/ 2 * (I!At(h, m) + 1) <= v2)
  BY <1>2 DEF Blind
<1> HIDE DEF t
<1>5. CASE Blind(t)
  <2>1. z = I!Forgotten(w)
    BY <1>4, <1>5 DEF WalkMinute
  <2>2. /\ TailsOK(c, w.active, <<>>, <<>>, t + 1) /\ ActiveOK(w.active, <<>>, t + 1)
        /\ IntervalsOK(c, w.active, w.intervals, t + 1) /\ NoneMissed(c, w.active, w.intervals, t + 1)
        /\ EventsOK(c, w.events, OpenOf(w.active), Since(w.active, <<>>, t + 1), c.after, c.end)
    BY <1>1, <1>2, <1>3, <1>5, ForgetKeeps
  <2>3. NoGaps(c, w.gaps, t + 1)
    <3>1. \A u \in c.start .. (t + 1) - 1 : u \in c.start .. t - 1 \/ u = t
      BY <1>1, ContextFields
    <3>2. t \in c.blind
      BY <1>2, <1>5
    <3> QED BY <1>3, <3>1, <3>2 DEF NoGaps, WalkOK
  <2> HIDE DEF z
  <2>4. WalkOK(c, z, t + 1)
    BY <1>3, <2>1, <2>2, <2>3, ForgottenIs DEF WalkOK
  <2> QED BY <1>1, <2>4 DEF z
<1>6. CASE ~Blind(t) /\ ~I!Monitored(s, m)
  <2>1. z = [I!Forgotten(w) EXCEPT !.gaps = TRUE]
    BY <1>4, <1>6 DEF WalkMinute
  <2>2. /\ TailsOK(c, w.active, <<>>, <<>>, t + 1) /\ ActiveOK(w.active, <<>>, t + 1)
        /\ IntervalsOK(c, w.active, w.intervals, t + 1) /\ NoneMissed(c, w.active, w.intervals, t + 1)
        /\ EventsOK(c, w.events, OpenOf(w.active), Since(w.active, <<>>, t + 1), c.after, c.end)
    BY <1>1, <1>2, <1>3, <1>6, ForgetKeeps
  <2>3. NoGaps(c, TRUE, t + 1)
    BY DEF NoGaps
  <2> HIDE DEF z
  <2>4. WalkOK(c, z, t + 1)
    BY <1>3, <2>1, <2>2, <2>3, ForgottenIs DEF WalkOK
  <2> QED BY <1>1, <2>4 DEF z
<1>7. CASE ~Blind(t) /\ I!Monitored(s, m) /\ I!BadReason(s[m], baseline[m]) # ""
  <2>1. z = I!Worse(w, t, I!BadReason(s[m], baseline[m]))
    BY <1>2, <1>4, <1>7 DEF WalkMinute
  <2>2. WalkOK(c, I!Worse(w, t, I!BadReason(s[m], baseline[m])), t + 1)
    BY <1>1, <1>2, <1>3, <1>7, WorseKeeps
  <2> QED BY <1>1, <2>1, <2>2
<1>8. CASE ~Blind(t) /\ I!Monitored(s, m) /\ I!BadReason(s[m], baseline[m]) = ""
  <2> DEFINE proves == I!RecoveryEvidence(w.active, baseline[m])
  <2>1. z = I!Better(w, t, proves)
    BY <1>2, <1>4, <1>8 DEF WalkMinute
  <2>2. proves \in BOOLEAN /\ (proves /\ Fleet(w.active) => baseline[m] = "judged")
    BY DEF I!RecoveryEvidence, Fleet, I!None
  <2>3. t \in c.fine /\ (proves /\ Fleet(w.active) => t \in c.judged)
    BY <1>2, <1>8, <2>2
  <2> HIDE DEF proves, z
  <2>4. WalkOK(c, I!Better(w, t, proves), t + 1)
    BY <1>1, <1>3, <2>2, <2>3, BetterKeeps
  <2> QED BY <1>1, <2>1, <2>4 DEF z
<1> QED BY <1>5, <1>6, <1>7, <1>8

LEMMA WalkedOK ==
  ASSUME NEW c, ContextOK(c), NEW h, NEW s, NEW baseline, Shown(c, h, s, baseline), NEW base, WalkOK(c, base, c.start)
  PROVE  WalkOK(c, I!Walked(h, s, baseline, base), c.end)
<1> DEFINE ids == [m \in I!Minutes |-> m]
<1>1. c.start \in Int /\ c.end = c.start + MinutesPerHour /\ I!Minutes = 1 .. MinutesPerHour /\ MinutesPerHour \in Nat
  BY ContextFields, Sizes
<1>2. WalkOK(c, base, c.start + 0) /\ base \in Walks
  <2>1. c.start + 0 = c.start
    BY <1>1
  <2> QED BY <2>1 DEF WalkOK
<1>3. ASSUME NEW i \in 1 .. MinutesPerHour, NEW w \in Walks, WalkOK(c, w, c.start + (i - 1))
      PROVE  WalkMinute(h, s, baseline, w, ids[i]) \in Walks /\ WalkOK(c, WalkMinute(h, s, baseline, w, ids[i]), c.start + i)
  <2>1. ids[i] = i /\ i \in I!Minutes
    BY <1>1
  <2> HIDE DEF ids
  <2>2. WalkOK(c, WalkMinute(h, s, baseline, w, i), c.start + i)
    BY <1>3, <2>1, MinuteKeeps
  <2>3. WalkMinute(h, s, baseline, w, i) \in Walks
    BY <2>2 DEF WalkOK
  <2> QED BY <2>1, <2>2, <2>3
<1>4. WalkOK(c, I!Walked(h, s, baseline, base), c.start + MinutesPerHour)
  BY <1>2, <1>3, WalkedKeeps
<1> QED BY <1>1, <1>4

--------------------------------------------------------------------------------
(* Loss and return of telemetry, walked on its own.                                 *)

WatchGap(w, at) ==
  LET gap == I!LastOf(Duration, Append(w.gap, at))
      opens == w.active = I!None /\ Len(gap) >= Duration
  IN  [active |-> IF opens THEN <<gap[1]>> ELSE w.active, gap |-> gap, good |-> <<>>,
       events |-> I!MayAppend(w.events, opens, I!Event("monitoring_gap", [start |-> gap[1], reason |-> "monitoring_gap"], at + 1))]
WatchSeen(w, at) ==
  LET good == I!LastOf(Duration, Append(w.good, at))
      closes == w.active # I!None /\ Len(good) >= Duration
  IN  [active |-> IF closes THEN I!None ELSE w.active, gap |-> <<>>, good |-> good,
       events |-> I!MayAppend(w.events, closes, I!Event("monitoring_restored", [start |-> w.active[1], reason |-> "monitoring_gap"], good[1]))]
WatchMinute(h, s, w, m) ==
  IF v2 = I!NotConfirmed \/ 2 * I!At(h, m) < v2 THEN [w EXCEPT !.gap = <<>>, !.good = <<>>]
  ELSE IF I!Monitored(s, m) THEN WatchSeen(w, I!At(h, m)) ELSE WatchGap(w, I!At(h, m))

Watches == [active : Seq(Int), gap : Seq(Int), good : Seq(Int), events : Seq(Happenings)]
LostSince(active, gap, t) == IF active # <<>> THEN active[1] ELSE IF gap # <<>> THEN gap[1] ELSE t
WatchOK(c, w, t, open, next) ==
  /\ w \in Watches /\ UpTo(w.gap, t) /\ UpTo(w.good, t) /\ (w.gap = <<>> \/ w.good = <<>>)
  /\ Len(w.active) <= 1
  /\ w.active # <<>> => w.active[1] < t /\ \A u \in t - Len(w.good) .. t - 1 : w.active[1] <= u
  /\ EventsOK(c, w.events, open, next, I!Elements(w.active), LostSince(w.active, w.gap, t))

LEMMA LostIs ==
  ASSUME NEW active \in Seq(Int), Len(active) <= 1
  PROVE  \/ active = <<>> /\ I!Elements(active) = {}
         \/ active # <<>> /\ active[1] \in Int /\ I!Elements(active) = {active[1]}
<1> DEFINE n == Len(active)
<1>1. n \in Nat /\ n <= 1 /\ DOMAIN active = 1 .. n /\ (n = 0 => active = <<>>) /\ \A i \in 1 .. n : active[i] \in Int
  OBVIOUS
<1>2. n = 0 \/ n = 1
  <2> HIDE DEF n
  <2> QED BY <1>1
<1>3. CASE n = 0
  <2>1. active = <<>> /\ DOMAIN active = {}
    BY <1>1, <1>3
  <2> QED BY <2>1 DEF I!Elements
<1>4. CASE n = 1
  <2>1. DOMAIN active = {1} /\ active # <<>> /\ active[1] \in Int
    <3>1. active # <<>>
      <4>1. active = <<>> => n = 0
        OBVIOUS
      <4> HIDE DEF n
      <4> QED BY <1>4, <4>1
    <3>2. n = 1
      BY <1>4
    <3> HIDE DEF n
    <3>3. DOMAIN active = 1 .. 1 /\ 1 .. 1 = {1}
      BY <1>1, <3>2
    <3> QED BY <1>1, <3>1, <3>2, <3>3
  <2> QED BY <2>1 DEF I!Elements
<1> QED BY <1>2, <1>3, <1>4

LEMMA FirstOfTail ==
  ASSUME NEW gap \in Seq(Int), NEW t \in Int, UpTo(gap, t), gap # <<>>
  PROVE  gap[1] \in Int /\ gap[1] = t - Len(gap) /\ gap[1] < t
<1>1. Len(gap) \in Nat /\ Len(gap) >= 1
  OBVIOUS
<1>2. gap[1] = t - 1 - Len(gap) + 1
  <2>1. 1 \in 1 .. Len(gap)
    BY <1>1
  <2> QED BY <2>1 DEF UpTo
<1> QED BY <1>1, <1>2

LEMMA LostSinceIs ==
  ASSUME NEW active \in Seq(Int), Len(active) <= 1, NEW gap \in Seq(Int), NEW t \in Int, UpTo(gap, t)
  PROVE  /\ LostSince(active, gap, t) \in Int
         /\ active # <<>> => LostSince(active, gap, t) = active[1]
         /\ active = <<>> /\ gap # <<>> => LostSince(active, gap, t) = gap[1]
         /\ active = <<>> /\ gap = <<>> => LostSince(active, gap, t) = t
         /\ active = <<>> => LostSince(active, gap, t) <= t
<1>1. active # <<>> => active[1] \in Int
  BY LostIs
<1>2. gap # <<>> => gap[1] \in Int /\ gap[1] < t
  BY FirstOfTail
<1> QED BY <1>1, <1>2 DEF LostSince

LEMMA AboutTelemetry ==
  ASSUME NEW transition \in {"monitoring_gap", "monitoring_restored"}, NEW start \in Int, NEW at \in Int, NEW c, start <= at, at <= c.end
  PROVE  LET e == I!Event(transition, [start |-> start, reason |-> "monitoring_gap"], at)
         IN  e \in Happenings /\ e.start = start /\ e.transition = transition /\ HappeningOK(c, e)
<1> DEFINE e == I!Event(transition, [start |-> start, reason |-> "monitoring_gap"], at)
<1>1. e = [transition |-> transition, start |-> start, at |-> at, reason |-> "monitoring_gap"]
  BY DEF I!Event
<1> HIDE DEF e
<1>2. transition \in I!Transitions
  BY DEF I!Transitions
<1>3. e \in Happenings /\ e.start = start /\ e.transition = transition /\ e.at = at
  BY <1>1, <1>2 DEF Happenings
<1>4. HappeningOK(c, e)
  BY <1>3 DEF HappeningOK
<1> QED BY <1>3, <1>4 DEF e

LEMMA GapKeeps ==
  ASSUME NEW c, ContextOK(c), NEW t \in Int, t < c.end, NEW open, NEW next \in Int, NEW w, WatchOK(c, w, t, open, next)
  PROVE  WatchOK(c, WatchGap(w, t), t + 1, open, next)
<1> DEFINE gap == I!LastOf(Duration, Append(w.gap, t))
           opens == w.active = <<>> /\ Len(gap) >= Duration
           active == IF opens THEN <<gap[1]>> ELSE w.active
           event == I!Event("monitoring_gap", [start |-> gap[1], reason |-> "monitoring_gap"], t + 1)
           events == I!MayAppend(w.events, opens, event)
           z == WatchGap(w, t)
<1>1. /\ w.active \in Seq(Int) /\ w.gap \in Seq(Int) /\ w.events \in Seq(Happenings) /\ UpTo(w.gap, t) /\ Len(w.active) <= 1
      /\ w.active # <<>> => w.active[1] < t
      /\ EventsOK(c, w.events, open, next, I!Elements(w.active), LostSince(w.active, w.gap, t))
      /\ c.end \in Int /\ Duration \in Nat /\ Duration >= 1 /\ t + 1 \in Int
  BY Sizes, ContextFields DEF WatchOK, Watches
<1>2. /\ z = [active |-> active, gap |-> gap, good |-> <<>>, events |-> events]
      /\ z.active = active /\ z.gap = gap /\ z.good = <<>> /\ z.events = events
  <2>1. z = [active |-> active, gap |-> gap, good |-> <<>>, events |-> events]
    BY DEF WatchGap, I!None
  <2> HIDE DEF z, active, gap, events
  <2> QED BY <2>1
<1>3. /\ gap \in Seq(Int) /\ Len(gap) >= 1 /\ UpTo(gap, t + 1) /\ (w.gap = <<>> \/ w.gap[1] <= gap[1])
      /\ Len(gap) = (IF Len(w.gap) < Duration THEN Len(w.gap) + 1 ELSE Duration)
  BY <1>1, TailAppend
<1> HIDE DEF gap, z
<1>4. gap # <<>> /\ Len(gap) \in Nat
  BY <1>3
<1>5. gap[1] \in Int /\ gap[1] = (t + 1) - Len(gap) /\ gap[1] < t + 1
  BY <1>1, <1>3, <1>4, FirstOfTail
<1>6. w.gap = <<>> => gap[1] = t
  <2> SUFFICES ASSUME w.gap = <<>> PROVE gap[1] = t
    OBVIOUS
  <2>1. Len(gap) = 1
    BY <1>1, <1>3
  <2> QED BY <1>5, <2>1
<1>7. w.active = <<>> => LostSince(w.active, w.gap, t) <= gap[1]
  <2>1. /\ w.active = <<>> /\ w.gap # <<>> => LostSince(w.active, w.gap, t) = w.gap[1]
        /\ w.active = <<>> /\ w.gap = <<>> => LostSince(w.active, w.gap, t) = t
    BY SMTT(30), <1>1, LostSinceIs
  <2> QED BY <1>3, <1>5, <1>6, <2>1
<1>8. LostSince(w.active, w.gap, t) \in Int /\ (w.active # <<>> => LostSince(w.active, w.gap, t) = w.active[1] /\ w.active[1] \in Int)
  BY <1>1, LostSinceIs
<1>9. /\ LostSince(active, gap, t + 1) = (IF active # <<>> THEN active[1] ELSE gap[1])
      /\ Len(<<>>) = 0 /\ (\A u \in (t + 1) - 0 .. (t + 1) - 1 : FALSE) /\ UpTo(<<>>, t + 1)
  BY <1>1, <1>4 DEF LostSince, UpTo
<1>10. CASE opens
  <2>1. w.active = <<>> /\ active = <<gap[1]>> /\ active \in Seq(Int) /\ active # <<>> /\ active[1] = gap[1] /\ Len(active) = 1
        /\ I!Elements(w.active) = {} /\ I!Elements(active) = {gap[1]} /\ events = Append(w.events, event)
    <3>1. active = <<gap[1]>> /\ w.active = <<>> /\ events = Append(w.events, event)
      BY <1>10 DEF I!MayAppend
    <3>2. active \in Seq(Int) /\ active # <<>> /\ active[1] = gap[1] /\ Len(active) = 1
      BY <1>5, <3>1
    <3> HIDE DEF active, events, event
    <3>3. I!Elements(w.active) = {} /\ I!Elements(active) = {gap[1]}
      <4>1. Len(active) <= 1
        BY <3>2
      <4> QED BY <1>1, <3>1, <3>2, <4>1, LostIs
    <3> QED BY <3>1, <3>2, <3>3
  <2>2. event \in Happenings /\ event.start = gap[1] /\ event.transition = "monitoring_gap" /\ HappeningOK(c, event)
    <3>1. gap[1] <= t + 1 /\ t + 1 <= c.end
      BY <1>1, <1>5
    <3> QED BY <1>1, <1>5, <3>1, AboutTelemetry
  <2> HIDE DEF active, event, events, opens
  <2>3. EventsOK(c, events, open, next, {gap[1]}, gap[1])
    BY <1>1, <1>7, <1>8, <2>1, <2>2, EventsLost
  <2>4. events \in Seq(Happenings)
    BY <2>3 DEF EventsOK
  <2>5. z \in Watches
    BY <1>2, <1>3, <2>1, <2>4 DEF Watches
  <2>6. WatchOK(c, z, t + 1, open, next)
    <3>1. EventsOK(c, events, open, next, I!Elements(active), LostSince(active, gap, t + 1))
      BY <1>9, <2>1, <2>3
    <3>2. Len(active) <= 1 /\ active[1] < t + 1
      BY <1>5, <2>1
    <3> QED BY <1>2, <1>3, <1>9, <2>5, <3>1, <3>2 DEF WatchOK
  <2> QED BY <2>6 DEF z
<1>11. CASE ~opens
  <2>1. active = w.active /\ events = w.events
    BY <1>11 DEF I!MayAppend
  <2> HIDE DEF active, event, events, opens
  <2>2. EventsOK(c, events, open, next, I!Elements(active), LostSince(active, gap, t + 1))
    <3>1. LostSince(active, gap, t + 1) \in Int /\ LostSince(w.active, w.gap, t) <= LostSince(active, gap, t + 1)
      BY <1>5, <1>7, <1>8, <1>9, <2>1
    <3> QED BY <1>1, <1>8, <2>1, <3>1, EventsLater
  <2>3. active # <<>> => active[1] < t + 1
    BY <1>1, <1>8, <2>1
  <2>4. z \in Watches
    BY <1>1, <1>2, <1>3, <2>1 DEF Watches
  <2>5. WatchOK(c, z, t + 1, open, next)
    BY <1>1, <1>2, <1>3, <1>9, <2>1, <2>2, <2>3, <2>4 DEF WatchOK
  <2> QED BY <2>5 DEF z
<1> QED BY <1>10, <1>11

LEMMA SeenKeeps ==
  ASSUME NEW c, ContextOK(c), NEW t \in Int, t < c.end, NEW open, NEW next \in Int, NEW w, WatchOK(c, w, t, open, next)
  PROVE  WatchOK(c, WatchSeen(w, t), t + 1, open, next)
<1> DEFINE good == I!LastOf(Duration, Append(w.good, t))
           closes == w.active # <<>> /\ Len(good) >= Duration
           active == IF closes THEN <<>> ELSE w.active
           was == w.active[1]
           event == I!Event("monitoring_restored", [start |-> was, reason |-> "monitoring_gap"], good[1])
           events == I!MayAppend(w.events, closes, event)
           z == WatchSeen(w, t)
           n == Len(good)
           l == Len(w.good)
<1>1. /\ w.active \in Seq(Int) /\ w.gap \in Seq(Int) /\ w.good \in Seq(Int) /\ w.events \in Seq(Happenings)
      /\ UpTo(w.gap, t) /\ UpTo(w.good, t) /\ Len(w.active) <= 1
      /\ w.active # <<>> => was < t /\ \A u \in t - l .. t - 1 : was <= u
      /\ EventsOK(c, w.events, open, next, I!Elements(w.active), LostSince(w.active, w.gap, t))
      /\ c.end \in Int /\ Duration \in Nat /\ Duration >= 1 /\ t + 1 \in Int /\ l \in Nat
  BY Sizes, ContextFields DEF WatchOK, Watches
<1>2. /\ z = [active |-> active, gap |-> <<>>, good |-> good, events |-> events]
      /\ z.active = active /\ z.gap = <<>> /\ z.good = good /\ z.events = events
  <2>1. z = [active |-> active, gap |-> <<>>, good |-> good, events |-> events]
    BY DEF WatchSeen, I!None
  <2> HIDE DEF z, active, good, events
  <2> QED BY <2>1
<1>3. /\ good \in Seq(Int) /\ n >= 1 /\ UpTo(good, t + 1)
      /\ n = (IF l < Duration THEN l + 1 ELSE Duration)
  BY <1>1, TailAppend
<1> HIDE DEF good, z
<1>4. good # <<>> /\ n \in Nat /\ n <= l + 1
  <2>1. good # <<>> /\ n \in Nat /\ l <= Duration
    BY <1>1, <1>3 DEF UpTo
  <2> HIDE DEF n, l
  <2> QED BY <1>1, <1>3, <2>1
<1>5. good[1] \in Int /\ good[1] = (t + 1) - n /\ good[1] < t + 1
  BY <1>1, <1>3, <1>4, FirstOfTail
<1>6. w.active # <<>> => was \in Int /\ I!Elements(w.active) = {was} /\ \A u \in (t + 1) - n .. t : was <= u
  <2> SUFFICES ASSUME w.active # <<>>
               PROVE  was \in Int /\ I!Elements(w.active) = {was} /\ \A u \in (t + 1) - n .. t : was <= u
    OBVIOUS
  <2>1. was \in Int /\ I!Elements(w.active) = {was}
    BY <1>1, LostIs
  <2>2. was < t /\ \A u \in t - l .. t - 1 : was <= u
    BY <1>1
  <2>3. \A u \in (t + 1) - n .. t : u = t \/ u \in t - l .. t - 1
    <3> HIDE DEF n, l
    <3> QED BY <1>1, <1>4
  <2> HIDE DEF was, n, l
  <2> QED BY <2>1, <2>2, <2>3
<1>7. LostSince(w.active, w.gap, t) \in Int /\ (w.active # <<>> => LostSince(w.active, w.gap, t) = was)
      /\ (w.active = <<>> => LostSince(w.active, w.gap, t) <= t)
  BY <1>1, LostSinceIs
<1>8. UpTo(<<>>, t + 1) /\ LostSince(active, <<>>, t + 1) = (IF active # <<>> THEN active[1] ELSE t + 1) /\ (t + 1) - 1 = t
  BY <1>1 DEF LostSince, UpTo
<1>9. CASE closes
  <2>1. w.active # <<>> /\ active = <<>> /\ active \in Seq(Int) /\ Len(active) = 0 /\ events = Append(w.events, event)
        /\ I!Elements(active) = {}
    BY <1>9 DEF I!MayAppend, I!Elements
  <2>2. was <= good[1]
    <3>1. good[1] \in (t + 1) - n .. t
      <4> HIDE DEF n
      <4> QED BY <1>3, <1>4, <1>5
    <3> QED BY <1>6, <2>1, <3>1
  <2>3. event \in Happenings /\ event.start = was /\ event.transition = "monitoring_restored" /\ HappeningOK(c, event)
    <3>1. good[1] <= c.end /\ was \in Int
      BY <1>1, <1>5, <1>6, <2>1, SMTT(30)
    <3> HIDE DEF was
    <3> QED BY <1>5, <2>2, <3>1, AboutTelemetry
  <2> HIDE DEF active, event, events, closes, was
  <2>4. EventsOK(c, events, open, next, {}, t + 1)
    <3>1. was < t + 1 /\ was \in Int
      BY <1>1, <1>6, <2>1
    <3> QED BY <1>1, <1>6, <1>7, <2>1, <2>3, <3>1, EventsReturned
  <2>5. events \in Seq(Happenings)
    BY <2>4 DEF EventsOK
  <2>6. z \in Watches
    BY <1>2, <1>3, <2>1, <2>5 DEF Watches
  <2>7. WatchOK(c, z, t + 1, open, next)
    <3>1. EventsOK(c, events, open, next, I!Elements(active), LostSince(active, <<>>, t + 1))
      BY <1>8, <2>1, <2>4
    <3>2. Len(active) <= 1
      BY <2>1
    <3> QED BY <1>2, <1>3, <1>8, <2>1, <2>6, <3>1, <3>2 DEF WatchOK
  <2> QED BY <2>7 DEF z
<1>10. CASE ~closes
  <2>1. active = w.active /\ events = w.events
    BY <1>10 DEF I!MayAppend
  <2> HIDE DEF active, event, events, closes
  <2>2. EventsOK(c, events, open, next, I!Elements(active), LostSince(active, <<>>, t + 1))
    <3>1. LostSince(active, <<>>, t + 1) \in Int /\ LostSince(w.active, w.gap, t) <= LostSince(active, <<>>, t + 1)
      BY <1>1, <1>6, <1>7, <1>8, <2>1
    <3> QED BY SMTT(30), <1>1, <1>7, <2>1, <3>1, EventsLater
  <2>3. active # <<>> => active[1] < t + 1 /\ \A u \in (t + 1) - n .. t : active[1] <= u
    BY <1>1, <1>6, <2>1
  <2>4. z \in Watches
    BY <1>1, <1>2, <1>3, <2>1 DEF Watches
  <2>5. WatchOK(c, z, t + 1, open, next)
    BY <1>1, <1>2, <1>3, <1>8, <2>1, <2>2, <2>3, <2>4 DEF WatchOK
  <2> QED BY <2>5 DEF z
<1> QED BY <1>9, <1>10

\* What each minute of the watch keeps, the watch keeps.
LEMMA WatchedKeeps ==
  ASSUME NEW c, NEW h, NEW s, NEW open, NEW next, NEW base,
         base \in Watches, WatchOK(c, base, c.start + 0, open, next),
         \A i \in 1 .. MinutesPerHour, w \in Watches : WatchOK(c, w, c.start + (i - 1), open, next) => WatchMinute(h, s, w, [m \in I!Minutes |-> m][i]) \in Watches /\ WatchOK(c, WatchMinute(h, s, w, [m \in I!Minutes |-> m][i]), c.start + i, open, next)
  PROVE  I!Watched(h, s, base) \in Watches /\ WatchOK(c, I!Watched(h, s, base), c.start + MinutesPerHour, open, next)
<1> DEFINE ids == [m \in I!Minutes |-> m]
           g == [z \in Watches \X I!Minutes |-> IF WatchMinute(h, s, z[1], z[2]) \in Watches THEN WatchMinute(h, s, z[1], z[2]) ELSE z[1]]
           Upto == 0 .. Len(ids)
           e(f, i) == IF i = 0 THEN base ELSE CHOOSE r \in {WatchMinute(h, s, x, ids[i]) : x \in {f[i - 1]}} : TRUE
           after == CHOOSE f : f = [i \in Upto |-> e(f, i)]
           size == MinutesPerHour
<1>1. /\ size \in Nat /\ ids \in Seq(I!Minutes) /\ Len(ids) = size /\ (\A i \in 1 .. size : ids[i] = i /\ i \in I!Minutes)
      /\ I!Minutes = 1 .. size
  <2>1. size \in Nat /\ I!Minutes = 1 .. size
    BY Sizes
  <2>2. ids = [i \in 1 .. size |-> i]
    BY <2>1
  <2> HIDE DEF ids, size
  <2> QED BY <2>1, <2>2
<1>4. g \in [Watches \X I!Minutes -> Watches]
  OBVIOUS
<1>5. PICK f \in [Upto -> Watches] : f[0] = base /\ \A i \in 1 .. Len(ids) : f[i] = g[<<f[i - 1], ids[i]>>]
  <2> HIDE DEF g, ids
  <2>1. \E f : Folded(f, Watches, g, base, ids)
    BY <1>1, <1>4, FoldExists
  <2> QED BY <2>1 DEF Folded
<1>6. ASSUME NEW i \in 1 .. size, WatchOK(c, f[i - 1], c.start + (i - 1), open, next)
      PROVE  f[i] = WatchMinute(h, s, f[i - 1], ids[i]) /\ WatchOK(c, f[i], c.start + i, open, next)
  <2>1. i - 1 \in Upto /\ i \in 1 .. Len(ids) /\ ids[i] \in I!Minutes
    BY <1>1
  <2>2. f[i - 1] \in Watches
    BY <1>5, <2>1
  <2>3. WatchMinute(h, s, f[i - 1], ids[i]) \in Watches /\ WatchOK(c, WatchMinute(h, s, f[i - 1], ids[i]), c.start + i, open, next)
    BY <1>6, <2>2
  <2>4. f[i] = g[<<f[i - 1], ids[i]>>] /\ <<f[i - 1], ids[i]>> \in Watches \X I!Minutes
    <3> HIDE DEF g, ids, Upto
    <3> QED BY <1>5, <2>1, <2>2
  <2> HIDE DEF ids
  <2>5. f[i] = WatchMinute(h, s, f[i - 1], ids[i])
    BY <2>3, <2>4
  <2> QED BY <2>3, <2>5
<1> HIDE DEF g
<1> DEFINE Good == {i \in Nat : i <= size => WatchOK(c, f[i], c.start + i, open, next)}
<1>7. 0 \in Good
  BY <1>5
<1>8. ASSUME NEW k \in Nat, k \in Good PROVE k + 1 \in Good
  <2> SUFFICES ASSUME k + 1 <= size PROVE WatchOK(c, f[k + 1], c.start + (k + 1), open, next)
    OBVIOUS
  <2> DEFINE i == k + 1
  <2>1. i \in 1 .. size /\ i - 1 = k /\ WatchOK(c, f[k], c.start + k, open, next)
    BY <1>1, <1>8
  <2> HIDE DEF i
  <2>2. WatchOK(c, f[i - 1], c.start + (i - 1), open, next)
    BY <2>1
  <2>3. WatchOK(c, f[i], c.start + i, open, next)
    BY <1>6, <2>1, <2>2
  <2> QED BY <2>3 DEF i
<1>9. Nat \subseteq Good
  <2> HIDE DEF Good
  <2> QED BY <1>7, <1>8, NatInd
<1>10. \A i \in 0 .. size : WatchOK(c, f[i], c.start + i, open, next)
  BY <1>1, <1>9
<1>11. ASSUME NEW i \in 1 .. size PROVE f[i] = WatchMinute(h, s, f[i - 1], ids[i])
  <2>1. i - 1 \in 0 .. size
    BY <1>1
  <2>2. WatchOK(c, f[i - 1], c.start + (i - 1), open, next)
    BY <1>10, <2>1
  <2> QED BY <1>6, <2>2
<1> HIDE DEF Good
<1>12. \A i \in Upto : f[i] = e(f, i)
  <2> SUFFICES ASSUME NEW i \in Upto, i # 0 PROVE f[i] = CHOOSE r \in {WatchMinute(h, s, x, ids[i]) : x \in {f[i - 1]}} : TRUE
    BY <1>5
  <2>0. i \in 1 .. size
    BY <1>1
  <2>1. f[i] = WatchMinute(h, s, f[i - 1], ids[i])
    BY <1>11, <2>0
  <2> HIDE DEF ids
  <2> QED BY <2>1
<1>13. f = [i \in Upto |-> e(f, i)]
  <2> HIDE DEF e, Upto
  <2> QED BY <1>5, <1>12
<1>14. after = [i \in Upto |-> e(after, i)]
  <2> HIDE DEF e, Upto
  <2> QED BY <1>13
<1>15. I!Watched(h, s, base) = after[Len(ids)]
  BY DEF I!Watched, I!Fold, WatchMinute, WatchGap, WatchSeen
<1>16. after[Len(ids)] = f[Len(ids)]
  <2>1. after[0] = f[0] /\ Len(ids) \in Nat
    <3>1. Len(ids) \in Nat /\ f[0] = base /\ 0 \in Upto
      BY <1>1, <1>5
    <3>2. after[0] = e(after, 0)
      <4> HIDE DEF e, after, Upto
      <4> QED BY <1>14, <3>1
    <3> QED BY <3>1, <3>2
  <2>2. ASSUME NEW i \in 1 .. Len(ids), after[i - 1] = f[i - 1] PROVE after[i] = f[i]
    <3>1. i \in Upto /\ i # 0
      BY <1>1
    <3>2. after[i] = e(after, i) /\ f[i] = e(f, i)
      <4> HIDE DEF e, after, Upto
      <4> QED BY <1>12, <1>14, <3>1
    <3> HIDE DEF after, ids
    <3> QED BY <2>2, <3>2
  <2> HIDE DEF after, ids
  <2> QED BY <2>1, <2>2, Agree
<1> HIDE DEF after, e
<1>17. I!Watched(h, s, base) = f[size]
  BY <1>1, <1>15, <1>16
<1>18. f[size] \in Watches /\ WatchOK(c, f[size], c.start + size, open, next)
  <2>1. size \in Upto /\ size \in 0 .. size
    BY <1>1
  <2> HIDE DEF Upto
  <2> QED BY <1>5, <1>10, <2>1
<1> QED BY <1>17, <1>18


LEMMA WatchMinuteKeeps ==
  ASSUME NEW c, ContextOK(c), NEW h, NEW s, NEW open, NEW next \in Int, NEW m \in I!Minutes, I!At(h, m) = c.start + (m - 1),
         NEW w, WatchOK(c, w, c.start + (m - 1), open, next)
  PROVE  WatchOK(c, WatchMinute(h, s, w, m), c.start + m, open, next)
<1> DEFINE t == c.start + (m - 1)
           z == WatchMinute(h, s, w, m)
<1>1. t \in Int /\ c.start <= t /\ t < c.end /\ t + 1 = c.start + m /\ m \in 1 .. MinutesPerHour /\ m \in Int /\ I!At(h, m) = t
  BY ContextFields, Sizes
<1>2. WatchOK(c, w, t, open, next)
  OBVIOUS
<1> HIDE DEF t
<1>3. CASE v2 = I!NotConfirmed \/ 2 * I!At(h, m) < v2
  <2>1. z = [w EXCEPT !.gap = <<>>, !.good = <<>>]
    BY <1>3 DEF WatchMinute
  <2>2. /\ w \in Watches /\ w.active \in Seq(Int) /\ Len(w.active) <= 1 /\ w.gap \in Seq(Int) /\ UpTo(w.gap, t)
        /\ w.active # <<>> => w.active[1] < t
        /\ EventsOK(c, w.events, open, next, I!Elements(w.active), LostSince(w.active, w.gap, t))
        /\ t + 1 \in Int /\ Duration \in Nat
    BY <1>1, <1>2, Sizes DEF WatchOK, Watches
  <2> HIDE DEF z
  <2>3. z \in Watches /\ z.active = w.active /\ z.gap = <<>> /\ z.good = <<>> /\ z.events = w.events
    <3>1. <<>> \in Seq(Int) /\ w \in Watches
      BY <2>2
    <3> QED BY <2>1, <3>1 DEF Watches
  <2>4. UpTo(<<>>, t + 1) /\ Len(<<>>) = 0 /\ \A u \in (t + 1) - 0 .. (t + 1) - 1 : FALSE
    BY <1>1, <2>2 DEF UpTo
  <2>5. /\ LostSince(w.active, w.gap, t) \in Int /\ LostSince(w.active, <<>>, t + 1) \in Int
        /\ LostSince(w.active, w.gap, t) <= LostSince(w.active, <<>>, t + 1)
    <3>1. /\ LostSince(w.active, w.gap, t) \in Int
          /\ w.active # <<>> => LostSince(w.active, w.gap, t) = w.active[1]
          /\ w.active = <<>> => LostSince(w.active, w.gap, t) <= t
      BY <1>1, <2>2, LostSinceIs
    <3>2. /\ LostSince(w.active, <<>>, t + 1) = IF w.active # <<>> THEN w.active[1] ELSE t + 1
      BY DEF LostSince
    <3> QED BY <1>1, <3>1, <3>2
  <2>6. EventsOK(c, w.events, open, next, I!Elements(w.active), LostSince(w.active, <<>>, t + 1))
    <3>1. c.end \in Int /\ next <= next
      BY ContextFields
    <3> QED BY <2>2, <2>5, <3>1, EventsLater
  <2>7. w.active # <<>> => w.active[1] < t + 1
    <3>1. w.active # <<>> => w.active[1] \in Int
      BY <2>2, LostIs
    <3> QED BY <1>1, <2>2, <3>1
  <2>8. WatchOK(c, z, t + 1, open, next)
    BY <2>2, <2>3, <2>4, <2>6, <2>7 DEF WatchOK
  <2> QED BY <1>1, <2>8 DEF z
<1>4. CASE ~(v2 = I!NotConfirmed \/ 2 * I!At(h, m) < v2)
  <2>1. z = WatchSeen(w, t) \/ z = WatchGap(w, t)
    BY <1>1, <1>4 DEF WatchMinute
  <2>2. WatchOK(c, WatchSeen(w, t), t + 1, open, next)
    BY <1>1, <1>2, SeenKeeps
  <2>3. WatchOK(c, WatchGap(w, t), t + 1, open, next)
    BY <1>1, <1>2, GapKeeps
  <2> HIDE DEF z
  <2>4. WatchOK(c, z, t + 1, open, next)
    BY <2>1, <2>2, <2>3
  <2> QED BY <1>1, <2>4 DEF z
<1> QED BY <1>3, <1>4

LEMMA WatchedOK ==
  ASSUME NEW c, ContextOK(c), NEW h, NEW s, NEW open, NEW next \in Int, \A m \in I!Minutes : I!At(h, m) = c.start + (m - 1),
         NEW base, WatchOK(c, base, c.start, open, next)
  PROVE  WatchOK(c, I!Watched(h, s, base), c.end, open, next)
<1> DEFINE ids == [m \in I!Minutes |-> m]
<1>1. c.start \in Int /\ c.end = c.start + MinutesPerHour /\ I!Minutes = 1 .. MinutesPerHour /\ MinutesPerHour \in Nat
  BY ContextFields, Sizes
<1>2. WatchOK(c, base, c.start + 0, open, next) /\ base \in Watches
  <2>1. c.start + 0 = c.start
    BY <1>1
  <2> QED BY <2>1 DEF WatchOK
<1>3. ASSUME NEW i \in 1 .. MinutesPerHour, NEW w \in Watches, WatchOK(c, w, c.start + (i - 1), open, next)
      PROVE  WatchMinute(h, s, w, ids[i]) \in Watches /\ WatchOK(c, WatchMinute(h, s, w, ids[i]), c.start + i, open, next)
  <2>1. ids[i] = i /\ i \in I!Minutes
    BY <1>1
  <2> HIDE DEF ids
  <2>2. WatchOK(c, WatchMinute(h, s, w, i), c.start + i, open, next)
    BY <1>3, <2>1, WatchMinuteKeeps
  <2>3. WatchMinute(h, s, w, i) \in Watches
    BY <2>2 DEF WatchOK
  <2> QED BY <2>1, <2>2, <2>3
<1>4. WatchOK(c, I!Watched(h, s, base), c.start + MinutesPerHour, open, next)
  BY <1>2, <1>3, WatchedKeeps
<1> QED BY <1>1, <1>4

--------------------------------------------------------------------------------
(* The recent intervals.                                                            *)

LEMMA LastOfIs ==
  ASSUME NEW S, NEW s \in Seq(S), NEW n \in Nat, n >= 1
  PROVE  I!LastOf(n, s) \in Seq(S) /\ Len(I!LastOf(n, s)) <= n
<1> DEFINE l == Len(s)
           a == I!Greatest(1, l - n + 1)
<1>1. l \in Nat /\ a = IF l <= n THEN 1 ELSE l - n + 1
  BY DEF I!Greatest
<1>2. I!LastOf(n, s) = SubSeq(s, a, l)
  BY DEF I!LastOf
<1>3. a \in Int /\ a >= 1 /\ (l - a + 1 <= n)
  <2> HIDE DEF a, l
  <2> QED BY <1>1
<1> HIDE DEF a
<1>4. ASSUME NEW b \in Int, b >= 1
      PROVE  SubSeq(s, b, Len(s)) \in Seq(S) /\ (b <= Len(s) => Len(SubSeq(s, b, Len(s))) = Len(s) - b + 1)
             /\ (b > Len(s) => Len(SubSeq(s, b, Len(s))) = 0)
  <2>1. \A i \in b .. Len(s) : s[i] \in S
    BY <1>4
  <2>2. SubSeq(s, b, Len(s)) \in Seq(S)
    BY <1>4, <2>1
  <2>3. b <= Len(s) => Len(SubSeq(s, b, Len(s))) = Len(s) - b + 1
    BY <1>4
  <2>4. b > Len(s) => Len(SubSeq(s, b, Len(s))) = 0
    BY <1>4
  <2> QED BY <2>2, <2>3, <2>4
<1>5. /\ SubSeq(s, a, l) \in Seq(S) /\ (a <= l => Len(SubSeq(s, a, l)) = l - a + 1) /\ (a > l => Len(SubSeq(s, a, l)) = 0)
  BY <1>3, <1>4
<1> HIDE DEF l
<1>6. Len(SubSeq(s, a, l)) <= n
  BY <1>1, <1>3, <1>5
<1> QED BY <1>2, <1>5, <1>6

LEMMA AppendIn ==
  ASSUME NEW S, NEW s \in Seq(S), NEW x \in S, NEW ok \in BOOLEAN
  PROVE  I!MayAppend(s, ok, x) \in Seq(S)
BY DEF I!MayAppend

\* What is kept beside an interval, and the interval added.
Dropping(r, i) == I!Fold(LAMBDA kept, x : I!MayAppend(kept, x.start # i.start, x), <<>>, r)
Putting(r, i) == Append(Dropping(r, i), i)

\* Dropping keeps what all its steps keep.
LEMMA DroppingKeeps ==
  ASSUME NEW U, NEW r \in Seq(U), NEW j,
         \A i \in 1 .. Len(r), w \in Seq(U) : I!MayAppend(w, r[i].start # j.start, r[i]) \in Seq(U)
  PROVE  Dropping(r, j) \in Seq(U)
<1> DEFINE ids == r
           g == [z \in Seq(U) \X U |-> IF I!MayAppend(z[1], z[2].start # j.start, z[2]) \in Seq(U) THEN I!MayAppend(z[1], z[2].start # j.start, z[2]) ELSE z[1]]
           Upto == 0 .. Len(ids)
           e(f, i) == IF i = 0 THEN <<>> ELSE CHOOSE y \in {I!MayAppend(x, ids[i].start # j.start, ids[i]) : x \in {f[i - 1]}} : TRUE
           after == CHOOSE f : f = [i \in Upto |-> e(f, i)]
           size == Len(r)
<1>1. size \in Nat /\ ids \in Seq(U) /\ Len(ids) = size /\ \A i \in 1 .. size : ids[i] \in U
  OBVIOUS
<1>2. g \in [Seq(U) \X U -> Seq(U)]
  OBVIOUS
<1>3. PICK f \in [Upto -> Seq(U)] : f[0] = <<>> /\ \A i \in 1 .. Len(ids) : f[i] = g[<<f[i - 1], ids[i]>>]
  <2>2. <<>> \in Seq(U)
    OBVIOUS
  <2> HIDE DEF g, ids
  <2>1. \E f : Folded(f, Seq(U), g, <<>>, ids)
    BY <1>1, <1>2, <2>2, FoldExists
  <2> QED BY <2>1 DEF Folded
<1>4. ASSUME NEW i \in 1 .. size
      PROVE  f[i] = I!MayAppend(f[i - 1], ids[i].start # j.start, ids[i])
  <2>1. i - 1 \in Upto /\ i \in 1 .. Len(ids) /\ ids[i] \in U
    <3> HIDE DEF ids, size
    <3> QED BY <1>1
  <2>2. f[i - 1] \in Seq(U)
    BY <1>3, <2>1
  <2>3. I!MayAppend(f[i - 1], ids[i].start # j.start, ids[i]) \in Seq(U)
    BY <2>2
  <2>4. f[i] = g[<<f[i - 1], ids[i]>>] /\ <<f[i - 1], ids[i]>> \in Seq(U) \X U
    <3> HIDE DEF g, ids, Upto
    <3> QED BY <1>3, <2>1, <2>2
  <2> HIDE DEF ids
  <2>5. f[i] = I!MayAppend(f[i - 1], ids[i].start # j.start, ids[i])
    BY <2>3, <2>4
  <2> QED BY <2>3, <2>5
<1> HIDE DEF g
<1>5. \A i \in Upto : f[i] = e(f, i)
  <2> SUFFICES ASSUME NEW i \in Upto, i # 0 PROVE f[i] = CHOOSE y \in {I!MayAppend(x, ids[i].start # j.start, ids[i]) : x \in {f[i - 1]}} : TRUE
    BY <1>3
  <2>0. i \in 1 .. size
    BY <1>1
  <2>1. f[i] = I!MayAppend(f[i - 1], ids[i].start # j.start, ids[i])
    BY <1>4, <2>0
  <2> HIDE DEF ids
  <2> QED BY <2>1
<1>6. f = [i \in Upto |-> e(f, i)]
  <2> HIDE DEF e, Upto
  <2> QED BY <1>3, <1>5
<1>7. after = [i \in Upto |-> e(after, i)]
  <2> HIDE DEF e, Upto
  <2> QED BY <1>6
<1>8. Dropping(r, j) = after[Len(ids)]
  BY DEF Dropping, I!Fold
<1>9. after[Len(ids)] = f[Len(ids)]
  <2>1. after[0] = f[0] /\ Len(ids) \in Nat
    <3>1. Len(ids) \in Nat /\ f[0] = <<>> /\ 0 \in Upto
      BY <1>1, <1>3
    <3>2. after[0] = e(after, 0)
      <4> HIDE DEF e, after, Upto
      <4> QED BY <1>7, <3>1
    <3> QED BY <3>1, <3>2
  <2>2. ASSUME NEW i \in 1 .. Len(ids), after[i - 1] = f[i - 1] PROVE after[i] = f[i]
    <3>1. i \in Upto /\ i # 0
      BY <1>1
    <3>2. after[i] = e(after, i) /\ f[i] = e(f, i)
      <4> HIDE DEF e, after, Upto
      <4> QED BY <1>5, <1>7, <3>1
    <3> HIDE DEF after, ids
    <3> QED BY <2>2, <3>2
  <2> HIDE DEF after, ids
  <2> QED BY <2>1, <2>2, Agree
<1> HIDE DEF after, e
<1>10. Dropping(r, j) = f[size]
  BY <1>1, <1>8, <1>9
<1>11. f[size] \in Seq(U)
  <2>1. size \in Upto
    BY <1>1
  <2> HIDE DEF Upto
  <2> QED BY <1>3, <2>1
<1> QED BY <1>10, <1>11

\* So does putting intervals one after the other.
LEMMA FilingKeeps ==
  ASSUME NEW U, NEW old, NEW intervals \in Seq(U),
         old \in Seq(U),
         \A i \in 1 .. Len(intervals), w \in Seq(U) : Putting(w, intervals[i]) \in Seq(U)
  PROVE  I!Fold(Putting, old, intervals) \in Seq(U)
<1> DEFINE ids == intervals
           g == [z \in Seq(U) \X U |-> IF Putting(z[1], z[2]) \in Seq(U) THEN Putting(z[1], z[2]) ELSE z[1]]
           Upto == 0 .. Len(ids)
           e(f, i) == IF i = 0 THEN old ELSE CHOOSE y \in {Putting(x, ids[i]) : x \in {f[i - 1]}} : TRUE
           after == CHOOSE f : f = [i \in Upto |-> e(f, i)]
           size == Len(intervals)
<1>1. size \in Nat /\ ids \in Seq(U) /\ Len(ids) = size /\ \A i \in 1 .. size : ids[i] \in U
  OBVIOUS
<1>2. g \in [Seq(U) \X U -> Seq(U)]
  OBVIOUS
<1>3. PICK f \in [Upto -> Seq(U)] : f[0] = old /\ \A i \in 1 .. Len(ids) : f[i] = g[<<f[i - 1], ids[i]>>]
  <2> HIDE DEF g, ids
  <2>1. \E f : Folded(f, Seq(U), g, old, ids)
    BY <1>1, <1>2, FoldExists
  <2> QED BY <2>1 DEF Folded
<1>4. ASSUME NEW i \in 1 .. size
      PROVE  f[i] = Putting(f[i - 1], ids[i])
  <2>1. i - 1 \in Upto /\ i \in 1 .. Len(ids) /\ ids[i] \in U
    <3> HIDE DEF ids, size
    <3> QED BY <1>1
  <2>2. f[i - 1] \in Seq(U)
    BY <1>3, <2>1
  <2>3. Putting(f[i - 1], ids[i]) \in Seq(U)
    BY <2>2
  <2>4. f[i] = g[<<f[i - 1], ids[i]>>] /\ <<f[i - 1], ids[i]>> \in Seq(U) \X U
    <3> HIDE DEF g, ids, Upto
    <3> QED BY <1>3, <2>1, <2>2
  <2> HIDE DEF ids
  <2>5. f[i] = Putting(f[i - 1], ids[i])
    BY <2>3, <2>4
  <2> QED BY <2>3, <2>5
<1> HIDE DEF g
<1>5. \A i \in Upto : f[i] = e(f, i)
  <2> SUFFICES ASSUME NEW i \in Upto, i # 0 PROVE f[i] = CHOOSE y \in {Putting(x, ids[i]) : x \in {f[i - 1]}} : TRUE
    BY <1>3
  <2>0. i \in 1 .. size
    BY <1>1
  <2>1. f[i] = Putting(f[i - 1], ids[i])
    BY <1>4, <2>0
  <2> HIDE DEF ids
  <2> QED BY <2>1
<1>6. f = [i \in Upto |-> e(f, i)]
  <2> HIDE DEF e, Upto
  <2> QED BY <1>3, <1>5
<1>7. after = [i \in Upto |-> e(after, i)]
  <2> HIDE DEF e, Upto
  <2> QED BY <1>6
<1>8. I!Fold(Putting, old, intervals) = after[Len(ids)]
  BY DEF I!Fold
<1>9. after[Len(ids)] = f[Len(ids)]
  <2>1. after[0] = f[0] /\ Len(ids) \in Nat
    <3>1. Len(ids) \in Nat /\ f[0] = old /\ 0 \in Upto
      BY <1>1, <1>3
    <3>2. after[0] = e(after, 0)
      <4> HIDE DEF e, after, Upto
      <4> QED BY <1>7, <3>1
    <3> QED BY <3>1, <3>2
  <2>2. ASSUME NEW i \in 1 .. Len(ids), after[i - 1] = f[i - 1] PROVE after[i] = f[i]
    <3>1. i \in Upto /\ i # 0
      BY <1>1
    <3>2. after[i] = e(after, i) /\ f[i] = e(f, i)
      <4> HIDE DEF e, after, Upto
      <4> QED BY <1>5, <1>7, <3>1
    <3> HIDE DEF after, ids
    <3> QED BY <2>2, <3>2
  <2> HIDE DEF after, ids
  <2> QED BY <2>1, <2>2, Agree
<1> HIDE DEF after, e
<1>10. I!Fold(Putting, old, intervals) = f[size]
  BY <1>1, <1>8, <1>9
<1>11. f[size] \in Seq(U)
  <2>1. size \in Upto
    BY <1>1
  <2> HIDE DEF Upto
  <2> QED BY <1>3, <2>1
<1> QED BY <1>10, <1>11

LEMMA RecentIs ==
  ASSUME NEW U, NEW old \in Seq(U), NEW intervals \in Seq(U)
  PROVE  I!Recent(old, intervals) \in Seq(U) /\ Len(I!Recent(old, intervals)) <= MaxRecent
<1>1. ASSUME NEW r \in Seq(U), NEW j \in U PROVE Putting(r, j) \in Seq(U)
  <2>1. \A i \in 1 .. Len(r), w \in Seq(U) : I!MayAppend(w, r[i].start # j.start, r[i]) \in Seq(U)
    <3> SUFFICES ASSUME NEW i \in 1 .. Len(r), NEW w \in Seq(U) PROVE I!MayAppend(w, r[i].start # j.start, r[i]) \in Seq(U)
      OBVIOUS
    <3>1. r[i] \in U /\ (r[i].start # j.start) \in BOOLEAN
      OBVIOUS
    <3> QED BY <3>1, AppendIn
  <2>2. <<>> \in Seq(U)
    OBVIOUS
  <2>3. Dropping(r, j) \in Seq(U)
    BY <2>1, <2>2, DroppingKeeps
  <2> QED BY <2>3 DEF Putting
<1>2. \A i \in 1 .. Len(intervals), w \in Seq(U) : Putting(w, intervals[i]) \in Seq(U)
  BY <1>1
<1>3. I!Fold(Putting, old, intervals) \in Seq(U)
  BY <1>2, FilingKeeps
<1>4. I!Recent(old, intervals) = I!LastOf(MaxRecent, I!Fold(Putting, old, intervals))
  BY DEF I!Recent, Putting, Dropping
<1> QED BY <1>3, <1>4, Sizes, LastOfIs

--------------------------------------------------------------------------------
(* The hours, and the bad minutes the preceding one ended with.                     *)

LEMMA Ends ==
  ASSUME NEW h \in Int
  PROVE  /\ I!End(h) \in Int /\ I!End(h - 1) \in Int /\ I!End(h - 2) \in Int
         /\ I!End(h) = I!End(h - 1) + MinutesPerHour /\ I!End(h - 1) = I!End(h - 2) + MinutesPerHour
         /\ \A m \in I!Minutes : I!At(h, m) = I!End(h - 1) + (m - 1) /\ I!At(h - 1, m) = I!End(h - 2) + (m - 1)
<1>1. MinutesPerHour \in Nat /\ I!Minutes \subseteq Int
  BY Sizes
<1>2. /\ I!End(h) = MinutesPerHour * (h + 1) /\ I!End(h - 1) = MinutesPerHour * (h - 1 + 1) /\ I!End(h - 2) = MinutesPerHour * (h - 2 + 1)
      /\ \A m \in I!Minutes : I!At(h, m) = MinutesPerHour * h + m - 1 /\ I!At(h - 1, m) = MinutesPerHour * (h - 1) + m - 1
  BY DEF I!End, I!At
<1>3. h - 1 + 1 = h /\ h - 2 + 1 = h - 1
  OBVIOUS
<1>4. MinutesPerHour * (h + 1) = MinutesPerHour * h + MinutesPerHour /\ MinutesPerHour * h = MinutesPerHour * (h - 1) + MinutesPerHour
  BY <1>1
<1> DEFINE x == MinutesPerHour * h
           y == MinutesPerHour * (h - 1)
           z == MinutesPerHour * (h + 1)
<1>5. x \in Int /\ y \in Int /\ z \in Int
  BY <1>1
<1>6. /\ I!End(h) = z /\ I!End(h - 1) = x /\ I!End(h - 2) = y /\ z = x + MinutesPerHour /\ x = y + MinutesPerHour
      /\ \A m \in I!Minutes : I!At(h, m) = x + m - 1 /\ I!At(h - 1, m) = y + m - 1
  BY <1>2, <1>3, <1>4
<1> HIDE DEF x, y, z
<1>7. \A m \in I!Minutes : I!At(h, m) = x + (m - 1) /\ I!At(h - 1, m) = y + (m - 1)
  BY <1>1, <1>5, <1>6
<1> QED BY <1>5, <1>6, <1>7

\* A tail is the minutes it is of.
LEMMA TailElements ==
  ASSUME NEW s \in Seq(Int), NEW t \in Int, UpTo(s, t)
  PROVE  \A u \in Int : u \in I!Elements(s) <=> t - Len(s) <= u /\ u < t
<1>1. Len(s) \in Nat /\ DOMAIN s = 1 .. Len(s) /\ \A k \in 1 .. Len(s) : s[k] = t - 1 - Len(s) + k
  BY DEF UpTo
<1>2. I!Elements(s) = {s[k] : k \in 1 .. Len(s)}
  BY <1>1 DEF I!Elements
<1> DEFINE n == Len(s)
<1> SUFFICES ASSUME NEW u \in Int PROVE u \in I!Elements(s) <=> t - n <= u /\ u < t
  OBVIOUS
<1>3. n \in Nat /\ I!Elements(s) = {s[k] : k \in 1 .. n} /\ \A k \in 1 .. n : s[k] = t - 1 - n + k
  BY <1>1, <1>2
<1> HIDE DEF n
<1>4. ASSUME u \in I!Elements(s) PROVE t - n <= u /\ u < t
  <2>1. PICK k \in 1 .. n : u = s[k]
    BY <1>3, <1>4
  <2> QED BY <1>3, <2>1
<1>5. ASSUME t - n <= u, u < t PROVE u \in I!Elements(s)
  <2>1. (u - t) + n + 1 \in 1 .. n
    BY <1>3, <1>5
  <2>2. s[(u - t) + n + 1] = u
    BY <1>3, <2>1
  <2> QED BY <1>3, <2>1, <2>2
<1> QED BY <1>4, <1>5

LEMMA SequenceIn ==
  ASSUME NEW S, NEW s \in Seq(S), NEW U, \A x \in I!Elements(s) : x \in U
  PROVE  s \in Seq(U)
<1>1. Len(s) \in Nat /\ DOMAIN s = 1 .. Len(s) /\ \A k \in 1 .. Len(s) : s[k] \in U
  BY DEF I!Elements
<1> QED BY <1>1

\* Something is wrong with a minute.
Wrong(s, baseline, m) == I!Monitored(s, m) /\ I!BadReason(s[m], baseline[m]) # ""

LEMMA PrecedingIs ==
  ASSUME NEW h \in Int, NEW s \in [I!Minutes -> I!Kinds], s # I!Absent, NEW baseline
  PROVE  LET z == I!PrecedingBadTail(h, s, baseline)
             e0 == I!End(h - 2)
             e1 == I!End(h - 1)
         IN  /\ z \in Seq(BadMinutes) /\ BadTail(z, e1)
             /\ \A u \in e1 - Len(z) .. e1 - 1 : u - e0 + 1 \in I!Minutes /\ Wrong(s, baseline, u - e0 + 1)
             /\ Len(z) < Duration => e1 - 1 - Len(z) < e0 \/ ~Wrong(s, baseline, e1 - 1 - Len(z) - e0 + 1)
<1> DEFINE M == MinutesPerHour
           Reason(m) == IF I!Monitored(s, m) THEN I!BadReason(s[m], baseline[m]) ELSE ""
           tail == {m \in I!Minutes : \A k \in m .. MinutesPerHour : Reason(k) # ""}
           n == Cardinality(tail)
           f == [k \in 1 .. Cardinality(tail) |->
             LET m == MinutesPerHour - Cardinality(tail) + k IN [at |-> I!At(h - 1, m), reason |-> Reason(m)]]
           z == I!PrecedingBadTail(h, s, baseline)
           e0 == I!End(h - 2)
           e1 == I!End(h - 1)
<1> DEFINE Wrongs == {k \in 1 .. M : Reason(k) # ""}
<1>0. \A S : I!Cardinality(S) = Cardinality(S)
  BY DEF I!Cardinality, Cardinality, I!IsFiniteSet, IsFiniteSet
<1>1. z = I!LastOf(Duration, f)
  <2>1. z = I!LastOf(Duration, [k \in 1 .. I!Cardinality(tail) |->
             LET m == MinutesPerHour - I!Cardinality(tail) + k IN [at |-> I!At(h - 1, m), reason |-> Reason(m)]])
    BY DEF I!PrecedingBadTail
  <2> HIDE DEF tail, Reason
  <2>2. I!Cardinality(tail) = Cardinality(tail)
    BY <1>0
  <2> QED BY <2>1, <2>2
<1>2. M \in Nat /\ M >= 1 /\ Duration \in Nat /\ Duration >= 1 /\ Duration <= M /\ I!Minutes = 1 .. M
  BY Sizes
<1>22. e0 \in Int /\ e1 \in Int /\ e1 = e0 + M /\ \A m \in 1 .. M : I!At(h - 1, m) = e0 + (m - 1)
  <2>1. I!Minutes = 1 .. M
    BY <1>2
  <2> QED BY <2>1, Ends
<1>3. \A m : (Reason(m) # "" <=> Wrong(s, baseline, m)) /\ (Reason(m) # "" => Reason(m) \in I!BadReasons)
  BY DEF Wrong, I!BadReason, I!BadReasons, I!FleetReasons
<1> HIDE DEF M, e0, e1, z
<1>31. tail = {m \in 1 .. M : \A k \in m .. M : Reason(k) # ""}
  BY <1>2 DEF M
<1> HIDE DEF Reason
<1>32. Wrongs \subseteq 1 .. M /\ \A m \in 1 .. M : m \in Wrongs <=> Reason(m) # ""
  OBVIOUS
<1> HIDE DEF tail
<1>33. tail = {m \in 1 .. M : \A k \in m .. M : k \in Wrongs}
  <2>1. \A m \in 1 .. M : \A k \in m .. M : k \in 1 .. M
    BY <1>2
  <2> HIDE DEF Wrongs
  <2> QED BY <1>31, <1>32, <2>1
<1> HIDE DEF Wrongs
<1>4. PICK g \in 0 .. M : (\A k \in g + 1 .. M : k \in Wrongs) /\ (g > 0 => g \notin Wrongs)
  <2>1. CASE 1 .. M \subseteq Wrongs
    <3>1. \A k \in 0 + 1 .. M : k \in Wrongs
      BY <1>2, <2>1
    <3>2. 0 \in 0 .. M
      BY <1>2
    <3> QED BY <3>1, <3>2
  <2>2. CASE ~(1 .. M \subseteq Wrongs)
    <3> DEFINE none == (1 .. M) \ Wrongs
    <3>0. none \subseteq 1 .. M /\ none # {}
      BY <2>2
    <3> HIDE DEF none
    <3>1. PICK g \in none : \A k \in none : k <= g
      BY <1>2, <3>0, GreatestOf
    <3>2. g \in 1 .. M /\ g \notin Wrongs /\ \A k \in 1 .. M : k > g => k \in Wrongs
      <4>1. \A k \in 1 .. M : k \in none <=> k \notin Wrongs
        BY DEF none
      <4>2. g \in 1 .. M /\ g \notin Wrongs
        BY <3>0, <4>1
      <4> QED BY <1>2, <3>1, <4>1, <4>2
    <3>3. \A k \in g + 1 .. M : k \in 1 .. M /\ k > g
      BY <1>2, <3>2
    <3>4. g \in 0 .. M /\ \A k \in g + 1 .. M : k \in Wrongs
      BY <1>2, <3>2, <3>3
    <3> QED BY <3>2, <3>4
  <2> QED BY <2>1, <2>2
<1>41. g \in Nat /\ g <= M
  BY <1>2, <1>4
<1>42. (\A k \in g + 1 .. M : Reason(k) # "") /\ (g > 0 => Reason(g) = "")
  <2>1. \A k \in g + 1 .. M : k \in 1 .. M
    BY <1>2, <1>41
  <2>2. g > 0 => g \in 1 .. M
    BY <1>2, <1>41
  <2> QED BY <1>32, <1>4, <2>1, <2>2
<1>5. tail = g + 1 .. M
  <2>1. ASSUME NEW m \in 1 .. M, m > g PROVE \A k \in m .. M : k \in Wrongs
    <3>1. \A k \in m .. M : k \in g + 1 .. M
      BY <1>2, <1>41, <2>1
    <3> QED BY <1>4, <3>1
  <2>2. ASSUME NEW m \in 1 .. M, m <= g PROVE ~\A k \in m .. M : k \in Wrongs
    <3>1. g \in m .. M /\ g > 0
      BY <1>2, <1>41, <2>2
    <3> QED BY <1>4, <3>1
  <2>3. \A m : m \in g + 1 .. M <=> m \in 1 .. M /\ m > g
    BY <1>2, <1>41
  <2>4. \A m \in 1 .. M : m > g \/ m <= g
    BY <1>2, <1>41
  <2>5. \A m : m \in tail <=> m \in g + 1 .. M
    BY <1>33, <2>1, <2>2, <2>3, <2>4
  <2> QED BY <2>5
<1>6. n = M - g /\ n \in Nat /\ n <= M
  <2>1. Cardinality(g + 1 .. M) = (IF g + 1 > M THEN 0 ELSE M - (g + 1) + 1)
    <3>1. g + 1 \in Int /\ M \in Int
      BY <1>2, <1>41
    <3> QED BY <3>1, FS_Interval
  <2>2. n = Cardinality(g + 1 .. M)
    BY <1>5
  <2> HIDE DEF n
  <2> QED BY <1>2, <1>41, <2>1, <2>2
<1>7. f = [k \in 1 .. n |-> [at |-> I!At(h - 1, M - n + k), reason |-> Reason(M - n + k)]]
  BY DEF M
<1> HIDE DEF f, n
<1>8. \A k \in 1 .. n : M - n + k \in 1 .. M /\ M - n + k \in g + 1 .. M /\ f[k].at = e0 + ((M - n + k) - 1) /\ f[k] \in BadMinutes
  <2> SUFFICES ASSUME NEW k \in 1 .. n
               PROVE  M - n + k \in 1 .. M /\ M - n + k \in g + 1 .. M /\ f[k].at = e0 + ((M - n + k) - 1) /\ f[k] \in BadMinutes
    OBVIOUS
  <2>1. M - n + k \in 1 .. M /\ M - n + k \in g + 1 .. M
    BY <1>2, <1>41, <1>6
  <2>2. f[k] = [at |-> I!At(h - 1, M - n + k), reason |-> Reason(M - n + k)]
    BY <1>7
  <2>3. I!At(h - 1, M - n + k) = e0 + ((M - n + k) - 1) /\ e0 + ((M - n + k) - 1) \in Int
    BY <1>2, <1>22, <1>6, <2>1
  <2>4. Reason(M - n + k) \in I!BadReasons
    BY <1>3, <1>42, <2>1
  <2> QED BY <2>1, <2>2, <2>3, <2>4 DEF BadMinutes
<1>9. f \in Seq(BadMinutes) /\ Len(f) = n
  BY <1>6, <1>7, <1>8
<1> DEFINE a == IF n - Duration + 1 > 1 THEN n - Duration + 1 ELSE 1
<1>10. z = SubSeq(f, a, n) /\ a \in Nat /\ a >= 1
  <2>1. I!Greatest(1, n - Duration + 1) = a
    BY <1>2, <1>6 DEF I!Greatest
  <2> HIDE DEF a, z
  <2>2. z = SubSeq(f, a, n)
    BY <1>1, <1>9, <2>1 DEF I!LastOf
  <2> QED BY <1>2, <1>6, <2>2 DEF a
<1> DEFINE l == n - a + 1
<1>11. /\ l \in Nat /\ a <= n + 1 /\ l <= Duration /\ (l < Duration => l = n /\ a = 1) /\ l <= n
  BY <1>2, <1>6, <1>10
<1> HIDE DEF a, z
<1>12. z \in Seq(BadMinutes) /\ Len(z) = l /\ \A i \in 1 .. l : a - 1 + i \in 1 .. n /\ z[i] = f[a - 1 + i]
  <2>1. \A i \in a .. n : f[i] \in BadMinutes
    BY <1>6, <1>8, <1>10
  <2>2. SubSeq(f, a, n) \in Seq(BadMinutes)
    BY <1>6, <1>9, <1>10, <2>1
  <2>3. Len(SubSeq(f, a, n)) = l
    BY <1>6, <1>9, <1>10, <1>11
  <2>4. \A i \in 1 .. l : a - 1 + i \in 1 .. n
    BY <1>6, <1>10, <1>11
  <2>5. \A i \in 1 .. l : SubSeq(f, a, n)[i] = f[a - 1 + i]
    <3> SUFFICES ASSUME NEW i \in 1 .. l PROVE SubSeq(f, a, n)[i] = f[a - 1 + i]
      OBVIOUS
    <3>1. i \in 1 .. (n - a + 1) /\ a + i - 1 = a - 1 + i
      BY <1>6, <1>10
    <3> QED BY <1>6, <1>9, <1>10, <3>1
  <2> QED BY <1>10, <2>2, <2>3, <2>4, <2>5
<1> HIDE DEF l
<1>13. BadTail(z, e1)
  <2>1. \A i \in 1 .. l : z[i].at = e1 - 1 - l + i
    <3> SUFFICES ASSUME NEW i \in 1 .. l PROVE z[i].at = e1 - 1 - l + i
      OBVIOUS
    <3>1. a - 1 + i \in 1 .. n /\ z[i] = f[a - 1 + i]
      BY <1>12
    <3>2. z[i].at = e0 + ((M - n + (a - 1 + i)) - 1)
      BY <1>8, <3>1
    <3> QED BY <1>2, <1>22, <1>6, <1>10, <3>2 DEF l
  <2> QED BY <1>11, <1>12, <2>1 DEF BadTail
<1>14. \A u \in e1 - l .. e1 - 1 : u - e0 + 1 \in I!Minutes /\ Wrong(s, baseline, u - e0 + 1)
  <2> SUFFICES ASSUME NEW u \in e1 - l .. e1 - 1 PROVE u - e0 + 1 \in I!Minutes /\ Wrong(s, baseline, u - e0 + 1)
    OBVIOUS
  <2>1. u - e0 + 1 \in g + 1 .. M /\ u - e0 + 1 \in 1 .. M
    BY <1>2, <1>22, <1>41, <1>6, <1>11
  <2> QED BY <1>2, <1>3, <1>42, <2>1
<1>15. l < Duration => e1 - 1 - l < e0 \/ ~Wrong(s, baseline, e1 - 1 - l - e0 + 1)
  <2> SUFFICES ASSUME l < Duration, ~(e1 - 1 - l < e0) PROVE ~Wrong(s, baseline, e1 - 1 - l - e0 + 1)
    OBVIOUS
  <2>1. e1 - 1 - l - e0 + 1 = g /\ g > 0
    BY <1>2, <1>22, <1>41, <1>6, <1>11
  <2> QED BY <1>3, <1>42, <2>1
<1> QED BY <1>12, <1>13, <1>14, <1>15 DEF z, e0, e1

--------------------------------------------------------------------------------
(* An evaluation, step by step.                                                     *)

LEMMA ReportFields ==
  ASSUME NEW r \in I!Reports
  PROVE  /\ r.status \in I!Statuses /\ r.baseline \in [I!Minutes -> I!Usual] /\ r.intervals \in Seq(I!Interval)
         /\ r.recent \in Seq(I!Interval) /\ r.events \in Seq(Happenings) /\ r.active \in Seq(I!Starting)
         /\ r.bad \in Seq(BadMinutes) /\ r.good \in Seq(Int) /\ r.resetAt \in Int
         /\ r.monitoring.active \in Seq(Int) /\ r.monitoring.gap \in Seq(Int) /\ r.monitoring.good \in Seq(Int)
BY DEF I!Reports, Happenings, BadMinutes

\* What an evaluation of hour h may continue.
Continued(r, h) ==
  /\ r \in I!Reports /\ Len(r.active) <= 1 /\ Len(r.monitoring.active) <= 1
  /\ UpTo(r.good, I!End(h - 1)) /\ UpTo(r.monitoring.gap, I!End(h - 1)) /\ UpTo(r.monitoring.good, I!End(h - 1))
  /\ r.monitoring.gap = <<>> \/ r.monitoring.good = <<>>
  /\ \A a \in I!Elements(r.active) : a.start + Duration <= I!End(h - 1) /\ \A u \in I!Elements(r.good) : a.start <= u
  /\ \A t \in I!Elements(r.monitoring.active) : t < I!End(h - 1) /\ \A u \in I!Elements(r.monitoring.good) : t <= u
  /\ r.resetAt <= I!End(h - 2) /\ Len(r.recent) <= MaxRecent
  /\ \A i \in I!Elements(r.recent) : i.start <= i.end /\ i.end <= I!End(h - 1)

\* The report with its tails discarded, and reset.
LEMMA RestoredIs ==
  ASSUME NEW r \in I!Reports
  PROVE  LET z == I!Restored(r)
         IN  /\ z \in I!Reports /\ z.good = <<>> /\ z.monitoring.gap = <<>> /\ z.monitoring.good = <<>>
             /\ z.baseline = r.baseline /\ z.active = r.active /\ z.monitoring.active = r.monitoring.active
             /\ z.resetAt = r.resetAt /\ z.recent = r.recent
<1> DEFINE z == I!Restored(r)
           m == [r.monitoring EXCEPT !.gap = <<>>, !.good = <<>>]
<1>1. z = [r EXCEPT !.bad = <<>>, !.good = <<>>, !.monitoring = m]
  BY DEF I!Restored, I!Reports
<1>0. <<>> \in Seq(Int) /\ <<>> \in Seq([at : Int, reason : I!BadReasons])
  OBVIOUS
<1>2. m \in [active : Seq(Int), gap : Seq(Int), good : Seq(Int)] /\ m.active = r.monitoring.active /\ m.gap = <<>> /\ m.good = <<>>
  <2> DEFINE q == r.monitoring
  <2>1. q \in [active : Seq(Int), gap : Seq(Int), good : Seq(Int)]
    BY DEF I!Reports
  <2> DEFINE e == <<>>
  <2>3. e \in Seq(Int)
    OBVIOUS
  <2> HIDE DEF q, e
  <2>2. [q EXCEPT !.gap = e, !.good = e] \in [active : Seq(Int), gap : Seq(Int), good : Seq(Int)]
        /\ [q EXCEPT !.gap = e, !.good = e].active = q.active
        /\ [q EXCEPT !.gap = e, !.good = e].gap = e /\ [q EXCEPT !.gap = e, !.good = e].good = e
    BY <2>1, <2>3
  <2> QED BY <2>2 DEF q, e
<1> HIDE DEF z, m
<1>3. z \in I!Reports
  BY <1>0, <1>1, <1>2 DEF I!Reports
<1>4. z.good = <<>> /\ z.monitoring = m /\ z.baseline = r.baseline /\ z.active = r.active /\ z.resetAt = r.resetAt /\ z.recent = r.recent
  BY <1>1 DEF I!Reports
<1> QED BY <1>2, <1>3, <1>4 DEF z

Based(r, h, reset) == IF reset THEN I!Rebaselined(r, h) ELSE r

LEMMA BasedIs ==
  ASSUME NEW r \in I!Reports, NEW h \in Int, NEW reset \in BOOLEAN
  PROVE  LET p == Based(r, h, reset)
         IN  /\ p \in I!Reports /\ p.monitoring = r.monitoring /\ p.recent = r.recent /\ p.baseline = r.baseline
             /\ p.active = (IF reset THEN <<>> ELSE r.active) /\ p.good = (IF reset THEN <<>> ELSE r.good)
             /\ p.resetAt = (IF reset THEN I!End(h - 1) ELSE r.resetAt)
<1> DEFINE p == Based(r, h, reset)
<1>1. I!End(h - 1) \in Int
  BY Ends
<1>2. CASE ~reset
  <2>1. p = r
    BY <1>2 DEF Based
  <2> HIDE DEF p
  <2>2. p \in I!Reports /\ p.monitoring = r.monitoring /\ p.recent = r.recent /\ p.baseline = r.baseline
        /\ p.active = (IF reset THEN <<>> ELSE r.active) /\ p.good = (IF reset THEN <<>> ELSE r.good)
        /\ p.resetAt = (IF reset THEN I!End(h - 1) ELSE r.resetAt)
    BY <1>2, <2>1
  <2> QED BY <2>2 DEF p
<1>3. CASE reset
  <2>1. p = [r EXCEPT !.active = <<>>, !.bad = <<>>, !.good = <<>>, !.resetAt = I!End(h - 1)]
    BY <1>3 DEF Based, I!Rebaselined, I!None
  <2> HIDE DEF p
  <2>0. <<>> \in Seq(Int) /\ <<>> \in Seq([at : Int, reason : I!BadReasons]) /\ <<>> \in Seq(I!Starting)
    OBVIOUS
  <2>2. p \in I!Reports
    BY <1>1, <2>0, <2>1 DEF I!Reports
  <2>3. p.monitoring = r.monitoring /\ p.recent = r.recent /\ p.baseline = r.baseline
        /\ p.active = <<>> /\ p.good = <<>> /\ p.resetAt = I!End(h - 1)
    BY <2>1 DEF I!Reports
  <2>4. p \in I!Reports /\ p.monitoring = r.monitoring /\ p.recent = r.recent /\ p.baseline = r.baseline
        /\ p.active = (IF reset THEN <<>> ELSE r.active) /\ p.good = (IF reset THEN <<>> ELSE r.good)
        /\ p.resetAt = (IF reset THEN I!End(h - 1) ELSE r.resetAt)
    BY <1>3, <2>2, <2>3
  <2> QED BY <2>4 DEF p
<1> QED BY <1>2, <1>3

WatchBase(r, h, p, reset) ==
  [active |-> p.monitoring.active, gap |-> p.monitoring.gap, good |-> p.monitoring.good,
   events |-> IF reset THEN <<I!Event("rebaseline", r.active[1], I!End(h - 1))>> ELSE <<>>]
WalkBase(h, p, known, events) ==
  [active |-> IF I!Retired(p.active) THEN I!None ELSE p.active, bad |-> I!PrecedingBadTail(h, known, p.baseline),
   good |-> IF I!Retired(p.active) \/ known = I!Absent THEN <<>> ELSE p.good,
   intervals |-> IF I!Retired(p.active)
                 THEN <<[start |-> p.active[1].start, end |-> I!End(h - 1), reason |-> p.active[1].reason]>> ELSE <<>>,
   events |-> I!MayAppend(events, I!Retired(p.active), I!Event("recovered", p.active[1], I!End(h - 1))),
   monitored |-> 0, gaps |-> FALSE, anyBad |-> FALSE]
Closed(h, w) ==
  IF w.active = I!None THEN w.intervals
  ELSE Append(w.intervals, [start |-> w.active[1].start, end |-> I!End(h), reason |-> w.active[1].reason])
Filed(h, baseline, r, p, watched, w) ==
  [status |-> I!Status(h, w, baseline), baseline |-> baseline, intervals |-> Closed(h, w),
   events |-> w.events,
   active |-> w.active, bad |-> w.bad, good |-> w.good, resetAt |-> p.resetAt,
   monitoring |-> [active |-> watched.active, gap |-> watched.gap, good |-> watched.good],
   recent |-> I!Recent(r.recent, Closed(h, w))]

LEMMA EvaluatedIs ==
  ASSUME NEW h, NEW s, NEW baseline, NEW r, NEW last, NEW reset
  PROVE  LET p == Based(r, h, reset)
             watched == I!Watched(h, s, WatchBase(r, h, p, reset))
             w == I!Walked(h, s, baseline, WalkBase(h, p, I!AfterReset(last, h, p), watched.events))
         IN  I!Evaluated(h, s, baseline, r, last, reset) = Filed(h, baseline, r, p, watched, w)
BY Zenon DEF I!Evaluated, Filed, Closed, WalkBase, WatchBase, Based

\* What the two hours of an evaluation show.
HourOf(h, s, baseline, known, p, opened, after) ==
  [from |-> I!End(h - 2), start |-> I!End(h - 1), end |-> I!End(h),
   bad |-> {t \in I!End(h - 2) .. I!End(h) - 1 :
              IF t < I!End(h - 1) THEN Wrong(known, p.baseline, t - I!End(h - 2) + 1)
              ELSE ~Blind(t) /\ Wrong(s, baseline, t - I!End(h - 1) + 1)},
   fine |-> {t \in I!End(h - 1) .. I!End(h) - 1 :
               ~Blind(t) /\ I!Monitored(s, t - I!End(h - 1) + 1) /\ ~Wrong(s, baseline, t - I!End(h - 1) + 1)},
   judged |-> {t \in I!End(h - 1) .. I!End(h) - 1 : baseline[t - I!End(h - 1) + 1] = "judged"},
   handed |-> I!Elements(p.good), blind |-> {t \in Int : Blind(t)},
   opened |-> opened, lost |-> I!Elements(p.monitoring.active), after |-> after]

Before(c, known, baseline) ==
  \A t \in Int : t < c.start => (t \in c.bad <=> c.from <= t /\ Wrong(known, baseline, t - c.from + 1))
Now(c, s, baseline) ==
  \A t \in Int : c.start <= t /\ t < c.end =>
    /\ t \in c.bad <=> ~Blind(t) /\ Wrong(s, baseline, t - c.start + 1)
    /\ t \in c.fine <=> ~Blind(t) /\ I!Monitored(s, t - c.start + 1) /\ ~Wrong(s, baseline, t - c.start + 1)
    /\ t \in c.judged <=> baseline[t - c.start + 1] = "judged"
    /\ t \in c.blind <=> Blind(t)

LEMMA HourFields ==
  ASSUME NEW h \in Int, NEW s, NEW baseline, NEW known, NEW p \in I!Reports, UpTo(p.good, I!End(h - 1)),
         NEW opened \in SUBSET Int, NEW after \in SUBSET Int
  PROVE  LET c == HourOf(h, s, baseline, known, p, opened, after)
             e0 == I!End(h - 2)
             e1 == I!End(h - 1)
             e2 == I!End(h)
         IN  /\ ContextOK(c) /\ c.from = e0 /\ c.start = e1 /\ c.end = e2
             /\ c.handed = I!Elements(p.good) /\ c.opened = opened /\ c.lost = I!Elements(p.monitoring.active) /\ c.after = after
             /\ Before(c, known, p.baseline) /\ Now(c, s, baseline)
<1> DEFINE c == HourOf(h, s, baseline, known, p, opened, after)
           e0 == I!End(h - 2)
           e1 == I!End(h - 1)
           e2 == I!End(h)
           g == I!Elements(p.good)
           z == I!Elements(p.monitoring.active)
           b == {t \in e0 .. e2 - 1 : IF t < e1 THEN Wrong(known, p.baseline, t - e0 + 1) ELSE ~Blind(t) /\ Wrong(s, baseline, t - e1 + 1)}
           f == {t \in e1 .. e2 - 1 : ~Blind(t) /\ I!Monitored(s, t - e1 + 1) /\ ~Wrong(s, baseline, t - e1 + 1)}
           j == {t \in e1 .. e2 - 1 : baseline[t - e1 + 1] = "judged"}
           d == {t \in Int : Blind(t)}
<1>1. c = [from |-> e0, start |-> e1, end |-> e2, bad |-> b, fine |-> f, judged |-> j, handed |-> g, blind |-> d,
           opened |-> opened, lost |-> z, after |-> after]
  BY DEF HourOf
<1>2. e0 \in Int /\ e1 \in Int /\ e2 \in Int /\ e1 = e0 + MinutesPerHour /\ e2 = e1 + MinutesPerHour
      /\ MinutesPerHour \in Nat /\ MinutesPerHour > 2 /\ Duration \in Nat /\ Duration <= MinutesPerHour
  BY Ends, Sizes
<1>3. p.good \in Seq(Int) /\ p.monitoring.active \in Seq(Int)
  BY ReportFields
<1>4. g \subseteq Int /\ z \subseteq Int
  BY <1>3 DEF I!Elements
<1>5. \A u \in g : e0 <= u /\ u < e1
  <2>1. \A u \in Int : u \in g <=> e1 - Len(p.good) <= u /\ u < e1
    BY <1>2, <1>3, TailElements
  <2>2. Len(p.good) \in Nat /\ Len(p.good) <= Duration
    BY <1>3 DEF UpTo
  <2> HIDE DEF g, e0, e1, e2
  <2> QED BY <1>2, <1>4, <2>1, <2>2
<1> HIDE DEF c, e0, e1, e2, g, z
<1>6. b \subseteq Int /\ f \subseteq Int /\ j \subseteq Int /\ d \subseteq Int
  BY <1>2
<1>7. (\A u \in b : e0 <= u /\ u < e2) /\ \A u \in f : e1 <= u /\ u < e2 /\ u \notin b
  BY <1>2
<1>8. \A t \in Int : t < e1 => (t \in b <=> e0 <= t /\ Wrong(known, p.baseline, t - e0 + 1))
  BY <1>2
<1>9. \A t \in Int : e1 <= t /\ t < e2 =>
        /\ t \in b <=> ~Blind(t) /\ Wrong(s, baseline, t - e1 + 1)
        /\ t \in f <=> ~Blind(t) /\ I!Monitored(s, t - e1 + 1) /\ ~Wrong(s, baseline, t - e1 + 1)
        /\ t \in j <=> baseline[t - e1 + 1] = "judged"
        /\ t \in d <=> Blind(t)
  BY <1>2
<1> HIDE DEF b, f, j, d
<1>10. c \in Contexts /\ c.from = e0 /\ c.start = e1 /\ c.end = e2 /\ c.bad = b /\ c.fine = f /\ c.judged = j /\ c.handed = g /\ c.blind = d
       /\ c.opened = opened /\ c.lost = z /\ c.after = after
  BY <1>1, <1>2, <1>4, <1>6 DEF Contexts
<1>11. ContextOK(c)
  BY <1>2, <1>5, <1>7, <1>10 DEF ContextOK
<1>12. Before(c, known, p.baseline)
  BY <1>8, <1>10 DEF Before
<1>13. Now(c, s, baseline)
  BY <1>9, <1>10 DEF Now
<1> QED BY <1>10, <1>11, <1>12, <1>13 DEF c, e0, e1, e2, g, z

LEMMA HourShown ==
  ASSUME NEW h \in Int, NEW s, NEW baseline, NEW known, NEW p \in I!Reports, UpTo(p.good, I!End(h - 1)),
         NEW opened \in SUBSET Int, NEW after \in SUBSET Int
  PROVE  LET c == HourOf(h, s, baseline, known, p, opened, after)
         IN  Shown(c, h, s, baseline) /\ \A m \in I!Minutes : I!At(h, m) = c.start + (m - 1)
<1> DEFINE c == HourOf(h, s, baseline, known, p, opened, after)
           e1 == I!End(h - 1)
           e2 == I!End(h)
<1>a. c.start = e1
  BY HourFields
<1>b. c.end = e2
  BY HourFields
<1>c. Now(c, s, baseline)
  BY HourFields
<1> HIDE DEF c
<1>0. c.start = e1 /\ c.end = e2 /\ Now(c, s, baseline)
  BY <1>a, <1>b, <1>c
<1>1. c.start = e1 /\ \A t \in Int : e1 <= t /\ t < e2 =>
                  /\ t \in c.bad <=> ~Blind(t) /\ Wrong(s, baseline, t - e1 + 1)
                  /\ t \in c.fine <=> ~Blind(t) /\ I!Monitored(s, t - e1 + 1) /\ ~Wrong(s, baseline, t - e1 + 1)
                  /\ t \in c.judged <=> baseline[t - e1 + 1] = "judged"
                  /\ t \in c.blind <=> Blind(t)
  BY <1>0 DEF Now
<1>2. /\ e1 \in Int /\ e2 \in Int /\ e2 = e1 + MinutesPerHour /\ MinutesPerHour \in Nat /\ I!Minutes = 1 .. MinutesPerHour
      /\ \A m \in I!Minutes : I!At(h, m) = e1 + (m - 1)
  BY Ends, Sizes
<1> HIDE DEF c, e1, e2
<1>3. ASSUME NEW m \in I!Minutes, NEW t \in Int, t = c.start + (m - 1)
      PROVE  /\ I!At(h, m) = t
             /\ Blind(t) => t \in c.blind /\ t \notin c.bad
             /\ ~Blind(t) /\ ~I!Monitored(s, m) => t \notin c.bad
             /\ ~Blind(t) /\ I!Monitored(s, m) /\ I!BadReason(s[m], baseline[m]) # "" =>
                  t \in c.bad /\ I!BadReason(s[m], baseline[m]) \in I!BadReasons
             /\ ~Blind(t) /\ I!Monitored(s, m) /\ I!BadReason(s[m], baseline[m]) = "" =>
                  t \in c.fine /\ (baseline[m] = "judged" => t \in c.judged)
  <2>1. m \in Int /\ m >= 1 /\ m <= MinutesPerHour
    BY <1>2
  <2>2. e1 <= t /\ t < e2 /\ t - e1 + 1 = m /\ t = e1 + (m - 1)
    BY <1>1, <1>2, <1>3, <2>1
  <2>3. /\ t \in c.bad <=> ~Blind(t) /\ Wrong(s, baseline, m)
        /\ t \in c.fine <=> ~Blind(t) /\ I!Monitored(s, m) /\ ~Wrong(s, baseline, m)
        /\ t \in c.judged <=> baseline[m] = "judged"
        /\ t \in c.blind <=> Blind(t)
    BY <1>1, <2>2
  <2>4. I!BadReason(s[m], baseline[m]) # "" => I!BadReason(s[m], baseline[m]) \in I!BadReasons
    BY DEF I!BadReason, I!BadReasons, I!FleetReasons
  <2>5. Wrong(s, baseline, m) <=> I!Monitored(s, m) /\ I!BadReason(s[m], baseline[m]) # ""
    BY DEF Wrong
  <2>6. I!At(h, m) = t
    BY <1>2, <2>2
  <2> QED BY <2>3, <2>4, <2>5, <2>6
<1>4. Shown(c, h, s, baseline)
  BY <1>3 DEF Shown
<1> QED BY <1>1, <1>2, <1>4 DEF c

LEMMA NoEvents ==
  ASSUME NEW c, NEW next \in Int, NEW nextLoss \in Int
  PROVE  EventsOK(c, <<>>, c.opened, next, c.lost, nextLoss)
<1>1. <<>> \in Seq(Happenings) /\ I!Elements(<<>>) = {} /\ DOMAIN <<>> = {} /\ Len(<<>>) = 0
  BY DEF I!Elements
<1>2. ASSUME NEW opening, NEW closing, NEW first PROVE I!Alternate(<<>>, opening, closing, first, first)
  <2> DEFINE e == <<>>
             told == {j \in 1 .. Len(e) + 1 - 1 : e[j].transition \in opening \union closing}
             last == CHOOSE j \in told : \A l \in told : l <= j
  <2>1. told = {}
    <3>1. Len(e) + 1 - 1 = 0 /\ 1 .. 0 = {}
      BY <1>1
    <3> HIDE DEF e
    <3> QED BY <3>1
  <2>2. I!OpenBy(e, opening, closing, first, Len(e) + 1) =
          IF told = {} THEN first ELSE IF e[last].transition \in opening THEN {e[last].start} ELSE {}
    BY DEF I!OpenBy
  <2>3. I!OpenBy(e, opening, closing, first, Len(e) + 1) = first
    <3> HIDE DEF told, last
    <3> QED BY <2>1, <2>2
  <2>4. DOMAIN e = {}
    BY <1>1
  <2> HIDE DEF e, told, last
  <2>5. I!Alternate(e, opening, closing, first, first)
    BY <2>3, <2>4 DEF I!Alternate
  <2> QED BY <2>5 DEF e
<1>3. Told(<<>>, Incident, Recovery, c.opened, c.opened, next) /\ Told(<<>>, Loss, Return, c.lost, c.lost, nextLoss)
  BY <1>1, <1>2 DEF Told
<1>4. Distinct(<<>>)
  BY <1>1 DEF Distinct
<1> QED BY <1>1, <1>3, <1>4 DEF EventsOK

LEMMA WatchBaseOK ==
  ASSUME NEW h \in Int, NEW r, Continued(r, h), NEW reset \in BOOLEAN,
         reset => r.active # <<>> /\ r.active[1].reason \in I!FleetReasons,
         NEW c, ContextOK(c), c.start = I!End(h - 1), c.opened = OpenOf(r.active), c.lost = I!Elements(r.monitoring.active),
         NEW p, p.monitoring = r.monitoring, p.active = (IF reset THEN <<>> ELSE r.active),
         NEW next \in Int, ~reset /\ r.active # <<>> => next = r.active[1].start, reset => r.active[1].start < next
  PROVE  WatchOK(c, WatchBase(r, h, p, reset), I!End(h - 1), OpenOf(p.active), next)
<1> DEFINE w == WatchBase(r, h, p, reset)
           e1 == I!End(h - 1)
           m == r.monitoring
           event == I!Event("rebaseline", r.active[1], I!End(h - 1))
           events == IF reset THEN <<event>> ELSE <<>>
<1>1. /\ r \in I!Reports /\ Len(r.active) <= 1 /\ Len(m.active) <= 1 /\ UpTo(m.gap, e1) /\ UpTo(m.good, e1)
      /\ (m.gap = <<>> \/ m.good = <<>>)
      /\ \A a \in I!Elements(r.active) : a.start + Duration <= e1
      /\ \A t \in I!Elements(m.active) : t < e1 /\ \A u \in I!Elements(m.good) : t <= u
  BY DEF Continued
<1>2. r.active \in Seq(I!Starting) /\ m.active \in Seq(Int) /\ m.gap \in Seq(Int) /\ m.good \in Seq(Int)
  BY <1>1, ReportFields
<1>3. e1 \in Int /\ c.end \in Int /\ e1 <= c.end /\ Duration \in Nat /\ Duration >= 1 /\ e1 = c.start
  <2>1. e1 \in Int /\ Duration \in Nat /\ Duration >= 1 /\ MinutesPerHour \in Nat
    BY Ends, Sizes
  <2>2. c.end \in Int /\ c.end = c.start + MinutesPerHour
    BY ContextFields
  <2> HIDE DEF e1
  <2>3. e1 = c.start
    BY DEF e1
  <2> QED BY <2>1, <2>2, <2>3
<1>4. w = [active |-> m.active, gap |-> m.gap, good |-> m.good, events |-> events]
  BY DEF WatchBase
<1> DEFINE lost == LostSince(m.active, m.gap, e1)
<1>5. lost \in Int
  BY <1>1, <1>2, <1>3, LostSinceIs
<1>6. EventsOK(c, events, OpenOf(p.active), next, I!Elements(m.active), lost)
  <2> HIDE DEF lost, m, e1
  <2>1. CASE ~reset
    <3>1. EventsOK(c, <<>>, c.opened, next, c.lost, lost)
      BY <1>5, NoEvents
    <3>2. events = <<>> /\ p.active = r.active
      BY <2>1
    <3> HIDE DEF events
    <3> QED BY <3>1, <3>2 DEF m
  <2>2. CASE reset
    <3>1. /\ r.active[1] \in I!Starting /\ r.active[1].start \in Int /\ OpenOf(r.active) = {r.active[1].start}
          /\ I!Elements(r.active) = {r.active[1]}
      BY <1>1, <1>2, <2>2, ActiveIs
    <3>2. r.active[1].start + Duration <= e1 /\ r.active[1].reason \in I!Reasons
      BY <1>1, <3>1 DEF I!Starting
    <3> DEFINE a == r.active[1]
    <3>3. event = [transition |-> "rebaseline", start |-> a.start, at |-> e1, reason |-> a.reason]
      BY DEF I!Event, e1
    <3>4. a.start \in Int /\ a.start + Duration <= e1 /\ a.reason \in I!Reasons /\ a.reason \in I!FleetReasons /\ a.start < next
      BY <2>2, <3>1, <3>2
    <3> HIDE DEF a, event
    <3>5. "rebaseline" \in I!Transitions
      BY DEF I!Transitions
    <3>6. event \in Happenings /\ event.start = a.start /\ event.transition = "rebaseline" /\ event.at = e1 /\ event.reason = a.reason
      BY <1>3, <3>3, <3>4, <3>5 DEF Happenings
    <3>7. a.start <= e1
      BY <1>3, <3>4
    <3>8. HappeningOK(c, event)
      BY <1>3, <3>4, <3>6, <3>7 DEF HappeningOK
    <3>9. EventsOK(c, <<>>, c.opened, a.start, c.lost, lost)
      BY <1>5, <3>4, NoEvents
    <3>10. c.opened = {event.start} /\ event.transition \in Recovery /\ event.start < next
      BY <3>1, <3>4, <3>6 DEF a, Recovery
    <3>11. EventsOK(c, Append(<<>>, event), {}, next, c.lost, lost)
      BY <1>5, <3>4, <3>6, <3>8, <3>9, <3>10, EventsRecovered
    <3>12. Append(<<>>, event) = <<event>>
      OBVIOUS
    <3>13. events = <<event>> /\ OpenOf(p.active) = {}
      <4>1. p.active = <<>> /\ I!Elements(<<>>) = {}
        BY <2>2 DEF I!Elements
      <4> QED BY <2>2, <4>1 DEF OpenOf
    <3> HIDE DEF events
    <3> QED BY <3>11, <3>12, <3>13 DEF m
  <2> QED BY <2>1, <2>2
<1> HIDE DEF events, w, lost
<1>7. events \in Seq(Happenings)
  BY <1>6 DEF EventsOK
<1>8. w \in Watches /\ w.active = m.active /\ w.gap = m.gap /\ w.good = m.good /\ w.events = events
  <2> HIDE DEF m
  <2> QED BY <1>2, <1>4, <1>7 DEF Watches
<1>9. m.active # <<>> => m.active[1] < e1 /\ \A u \in e1 - Len(m.good) .. e1 - 1 : m.active[1] <= u
  <2> SUFFICES ASSUME m.active # <<>> PROVE m.active[1] < e1 /\ \A u \in e1 - Len(m.good) .. e1 - 1 : m.active[1] <= u
    OBVIOUS
  <2> HIDE DEF m, e1
  <2>1. I!Elements(m.active) = {m.active[1]}
    BY <1>1, <1>2, LostIs
  <2>2. \A u \in Int : u \in I!Elements(m.good) <=> e1 - Len(m.good) <= u /\ u < e1
    BY <1>1, <1>2, <1>3, TailElements
  <2>3. \A u \in e1 - Len(m.good) .. e1 - 1 : u \in I!Elements(m.good)
    <3>1. Len(m.good) \in Nat
      BY <1>2
    <3> QED BY <1>3, <2>2, <3>1
  <2> QED BY <1>1, <2>1, <2>3
<1> HIDE DEF m, e1
<1>10. WatchOK(c, w, e1, OpenOf(p.active), next)
  BY <1>1, <1>6, <1>8, <1>9 DEF WatchOK, lost
<1> QED BY <1>10 DEF w, e1

\* What the walk of an hour starts from.
LEMMA WalkBaseOK ==
  ASSUME NEW h \in Int, NEW p \in I!Reports, Len(p.active) <= 1, UpTo(p.good, I!End(h - 1)),
         \A a \in I!Elements(p.active) : a.start + Duration <= I!End(h - 1) /\ \A u \in I!Elements(p.good) : a.start <= u,
         NEW known \in [I!Minutes -> I!Kinds] \union {I!Absent},
         NEW c, ContextOK(c), c.start = I!End(h - 1), c.from = I!End(h - 2), c.handed = I!Elements(p.good), Before(c, known, p.baseline),
         NEW events, EventsOK(c, events, OpenOf(p.active), Since(p.active, I!PrecedingBadTail(h, known, p.baseline), I!End(h - 1)), c.after, c.end)
  PROVE  WalkOK(c, WalkBase(h, p, known, events), I!End(h - 1))
<1> DEFINE w == WalkBase(h, p, known, events)
           e1 == I!End(h - 1)
           e0 == I!End(h - 2)
           bad == I!PrecedingBadTail(h, known, p.baseline)
           retired == I!Retired(p.active)
           active == IF retired THEN <<>> ELSE p.active
           good == IF retired \/ known = I!Absent THEN <<>> ELSE p.good
           interval == [start |-> p.active[1].start, end |-> I!End(h - 1), reason |-> p.active[1].reason]
           intervals == IF retired THEN <<interval>> ELSE <<>>
           event == I!Event("recovered", p.active[1], I!End(h - 1))
           told == I!MayAppend(events, retired, event)
<1>1. w = [active |-> active, bad |-> bad, good |-> good, intervals |-> intervals, events |-> told,
           monitored |-> 0, gaps |-> FALSE, anyBad |-> FALSE]
  BY DEF WalkBase, I!None
<1>2. e0 \in Int /\ e1 \in Int /\ e1 = e0 + MinutesPerHour /\ c.end = e1 + MinutesPerHour /\ c.end \in Int
      /\ MinutesPerHour \in Nat /\ MinutesPerHour > 2 /\ Duration \in Nat /\ Duration >= 1 /\ Duration <= MinutesPerHour
  BY Ends, Sizes, ContextFields
<1>3. p.active \in Seq(I!Starting) /\ p.good \in Seq(Int)
  BY ReportFields
<1>4. \/ p.active = <<>> /\ OpenOf(p.active) = {} /\ Len(p.active) = 0
      \/ p.active # <<>> /\ p.active = <<p.active[1]>> /\ Len(p.active) = 1 /\ p.active[1] \in I!Starting /\ p.active[1].start \in Int
         /\ OpenOf(p.active) = {p.active[1].start} /\ I!Elements(p.active) = {p.active[1]}
  BY <1>3, ActiveIs
<1>5. retired <=> p.active # <<>> /\ p.active[1].reason = "stale_heavy"
  BY DEF I!Retired, I!None
<1>6. /\ bad \in Seq(BadMinutes) /\ BadTail(bad, e1)
      /\ \A u \in e1 - Len(bad) .. e1 - 1 : u \in c.bad
      /\ Len(bad) < Duration => e1 - 1 - Len(bad) \notin c.bad
  <2> HIDE DEF e1, e0, retired
  <2>0. \A u \in Int : u < e1 => (u \in c.bad <=> e0 <= u /\ Wrong(known, p.baseline, u - e0 + 1))
    BY DEF Before, e1, e0
  <2>1. CASE known = I!Absent
    <3>1. bad = <<>>
      BY <2>1 DEF I!PrecedingBadTail
    <3> HIDE DEF bad
    <3>2. bad \in Seq(BadMinutes) /\ Len(bad) = 0 /\ BadTail(bad, e1)
      BY <1>2, <3>1 DEF BadTail
    <3>3. e1 - 1 \notin c.bad
      <4>1. e1 - 1 \in Int /\ e1 - 1 < e1
        BY <1>2
      <4>2. \A m : ~Wrong(known, p.baseline, m)
        BY <2>1 DEF Wrong, I!Monitored
      <4> QED BY <2>0, <4>1, <4>2
    <3>4. \A u \in e1 - Len(bad) .. e1 - 1 : u \in c.bad
      BY <1>2, <3>2
    <3>5. e1 - 1 - Len(bad) = e1 - 1
      BY <1>2, <3>2
    <3> QED BY <3>1, <3>2, <3>3, <3>4, <3>5
  <2>2. CASE known # I!Absent
    <3>1. /\ bad \in Seq(BadMinutes) /\ BadTail(bad, e1)
          /\ \A u \in e1 - Len(bad) .. e1 - 1 : u - e0 + 1 \in I!Minutes /\ Wrong(known, p.baseline, u - e0 + 1)
          /\ Len(bad) < Duration => e1 - 1 - Len(bad) < e0 \/ ~Wrong(known, p.baseline, e1 - 1 - Len(bad) - e0 + 1)
      BY <2>2, PrecedingIs DEF e1, e0
    <3> HIDE DEF bad
    <3>5. Len(bad) \in Nat /\ Len(bad) <= Duration
      BY <3>1 DEF BadTail
    <3> DEFINE n == Len(bad)
    <3> HIDE DEF n
    <3>6. n \in Nat /\ n <= Duration
      BY <3>5 DEF n
    <3>7. \A u \in e1 - n .. e1 - 1 : u \in c.bad
      <4> SUFFICES ASSUME NEW u \in e1 - n .. e1 - 1 PROVE u \in c.bad
        OBVIOUS
      <4>1. u \in Int /\ u < e1 /\ e0 <= u
        BY <1>2, <3>6
      <4>2. Wrong(known, p.baseline, u - e0 + 1)
        BY <3>1 DEF n
      <4> QED BY <2>0, <4>1, <4>2
    <3>8. n < Duration => e1 - 1 - n \notin c.bad
      <4> SUFFICES ASSUME n < Duration PROVE e1 - 1 - n \notin c.bad
        OBVIOUS
      <4>1. e1 - 1 - n < e0 \/ ~Wrong(known, p.baseline, e1 - 1 - n - e0 + 1)
        BY <3>1 DEF n
      <4>2. e1 - 1 - n \in Int /\ e1 - 1 - n < e1
        BY SMTT(30), <1>2, <3>6
      <4> DEFINE u == e1 - 1 - n
      <4>3. u < e0 \/ ~Wrong(known, p.baseline, u - e0 + 1)
        BY <4>1
      <4>4. u \in Int /\ u < e1
        BY <4>2
      <4> HIDE DEF u
      <4>5. u \notin c.bad
        BY <1>2, <2>0, <4>3, <4>4
      <4> QED BY <4>5 DEF u
    <3> QED BY <3>1, <3>7, <3>8 DEF n
  <2> QED BY <2>1, <2>2
<1> HIDE DEF bad
<1>7. /\ good \in Seq(Int) /\ UpTo(good, e1) /\ \A u \in e1 - Len(good) .. e1 - 1 : u \in c.handed /\ u < c.start
      /\ active # <<>> => \A u \in e1 - Len(good) .. e1 - 1 : active[1].start <= u
  <2> HIDE DEF retired, e1
  <2>0. c.start = e1
    BY DEF e1
  <2>1. CASE good = <<>>
    <3> HIDE DEF good
    <3>1. good \in Seq(Int) /\ Len(good) = 0
      BY <2>1
    <3>2. UpTo(good, e1) /\ \A u \in e1 - Len(good) .. e1 - 1 : FALSE
      BY <1>2, <3>1 DEF UpTo
    <3> QED BY <3>1, <3>2
  <2>2. CASE good # <<>>
    <3>1. good = p.good /\ (active # <<>> => active = p.active)
      BY <2>2
    <3> HIDE DEF good, active
    <3>2. \A u \in Int : u \in I!Elements(good) <=> e1 - Len(good) <= u /\ u < e1
      BY <1>2, <1>3, <3>1, TailElements DEF e1
    <3>3. Len(good) \in Nat
      BY <1>3, <3>1
    <3>4. \A u \in e1 - Len(good) .. e1 - 1 : u \in I!Elements(good) /\ u < e1
      <4> SUFFICES ASSUME NEW u \in e1 - Len(good) .. e1 - 1 PROVE u \in I!Elements(good) /\ u < e1
        OBVIOUS
      <4>1. u \in Int /\ e1 - Len(good) <= u /\ u < e1
        BY <1>2, <3>3
      <4> QED BY <3>2, <4>1
    <3>5. c.handed = I!Elements(good) /\ UpTo(good, e1) /\ good \in Seq(Int)
      BY <1>3, <3>1 DEF e1
    <3>6. active # <<>> => \A u \in I!Elements(good) : active[1].start <= u
      BY <1>4, <3>1
    <3> QED BY <2>0, <3>4, <3>5, <3>6
  <2> QED BY <2>1, <2>2
<1> HIDE DEF good
<1>8. active \in Seq(I!Starting) /\ ActiveOK(active, good, e1)
  <2> HIDE DEF e1
  <2>1. CASE retired
    <3>1. active = <<>>
      BY <2>1
    <3> HIDE DEF active
    <3> QED BY <3>1 DEF ActiveOK
  <2>2. CASE ~retired
    <3>1. active = p.active
      BY <2>2
    <3> HIDE DEF active
    <3>2. active # <<>> => active[1].reason \in I!BadReasons /\ active[1].start + Duration <= e1
      <4>1. active # <<>> => active[1] \in I!Starting /\ active[1].reason # "stale_heavy" /\ I!Elements(active) = {active[1]}
        BY <1>4, <1>5, <2>2, <3>1
      <4>2. active # <<>> => active[1].reason \in I!BadReasons
        BY <4>1 DEF I!Starting, I!Reasons
      <4> QED BY <3>1, <4>1, <4>2 DEF e1
    <3> QED BY <1>3, <1>7, <3>1, <3>2 DEF ActiveOK
  <2> QED BY <2>1, <2>2
<1>9. intervals \in Seq(I!Interval) /\ IntervalsOK(c, active, intervals, e1)
  <2>1. CASE ~retired
    <3>1. intervals = <<>> /\ active = p.active /\ I!Elements(<<>>) = {} /\ Len(<<>>) = 0
      BY <2>1 DEF I!Elements
    <3>2. intervals \in Seq(I!Interval)
      BY <3>1
    <3>3. Len(active) = 0 \/ Len(active) = 1
      BY <1>4, <3>1
    <3> HIDE DEF intervals, active, e1
    <3>4. 2 * Len(intervals) + Len(active) <= e1 - c.start + 2
      BY <1>2, <3>1, <3>3 DEF e1
    <3> QED BY <3>1, <3>2, <3>4 DEF IntervalsOK
  <2>2. CASE retired
    <3>1. intervals = <<interval>> /\ active = <<>>
      BY <2>2
    <3>2. p.active[1] \in I!Starting /\ p.active[1].start \in Int /\ p.active[1].start + Duration <= e1
      BY <1>4, <1>5, <2>2
    <3>3. p.active[1].reason \in I!Reasons
      BY <3>2 DEF I!Starting
    <3> DEFINE a == p.active[1]
    <3>4. interval = [start |-> a.start, end |-> e1, reason |-> a.reason] /\ a.start \in Int /\ a.start + Duration <= e1 /\ a.reason \in I!Reasons
      BY <3>2, <3>3
    <3>0. c.start = e1
      OBVIOUS
    <3> HIDE DEF a, interval, intervals, e1, active
    <3>5. interval \in I!Interval /\ interval.start <= interval.end /\ interval.end < c.end
      BY <1>2, <3>4 DEF I!Interval
    <3>6. intervals \in Seq(I!Interval) /\ Len(intervals) = 1 /\ I!Elements(intervals) = {interval}
      <4>1. <<interval>> \in Seq(I!Interval) /\ Len(<<interval>>) = 1 /\ DOMAIN <<interval>> = {1} /\ <<interval>>[1] = interval
        BY <3>5
      <4>2. I!Elements(<<interval>>) = {interval}
        BY <4>1 DEF I!Elements
      <4> QED BY <3>1, <4>1, <4>2
    <3>7. 2 * Len(intervals) + Len(active) <= e1 - c.start + 2
      BY <1>2, <3>0, <3>1, <3>6
    <3> QED BY <3>5, <3>6, <3>7 DEF IntervalsOK
  <2> QED BY <2>1, <2>2
<1>10. told \in Seq(Happenings) /\ EventsOK(c, told, OpenOf(active), Since(active, bad, e1), c.after, c.end)
  <2>0. EventsOK(c, events, OpenOf(p.active), Since(p.active, bad, e1), c.after, c.end)
    BY DEF bad
  <2>1. CASE ~retired
    <3>1. told = events /\ active = p.active
      BY <2>1 DEF I!MayAppend
    <3> HIDE DEF told, active, e1
    <3>2. EventsOK(c, told, OpenOf(active), Since(active, bad, e1), c.after, c.end)
      BY <2>0, <3>1
    <3> QED BY <3>2 DEF EventsOK
  <2>2. CASE retired
    <3>1. told = Append(events, event) /\ active = <<>>
      BY <2>2 DEF I!MayAppend
    <3>2. p.active[1] \in I!Starting /\ p.active[1].start \in Int /\ p.active[1].start + Duration <= e1 /\ p.active # <<>>
          /\ OpenOf(p.active) = {p.active[1].start}
      BY <1>4, <1>5, <2>2
    <3>3. p.active[1].reason \in I!Reasons /\ p.active[1].reason = "stale_heavy"
      BY <1>5, <2>2, <3>2 DEF I!Starting
    <3> DEFINE a == p.active[1]
    <3>4. event = [transition |-> "recovered", start |-> a.start, at |-> e1, reason |-> a.reason]
          /\ a.start \in Int /\ a.start + Duration <= e1 /\ a.reason \in I!Reasons /\ a.reason = "stale_heavy"
      BY <3>2, <3>3 DEF I!Event
    <3>5. Since(p.active, bad, e1) = a.start /\ OpenOf(p.active) = {a.start}
      BY <3>2 DEF Since
    <3> HIDE DEF a, event, told, active, e1, retired
    <3>6. Since(<<>>, bad, e1) \in Int /\ a.start < Since(<<>>, bad, e1)
      <4> DEFINE n == Len(bad)
                 since == Since(<<>>, bad, e1)
      <4>1. <<>> \in Seq(I!Starting) /\ Len(<<>>) <= 1 /\ n \in Nat
        BY <1>6
      <4>2. since \in Int /\ since = IF n < Duration THEN e1 - n ELSE e1 + 1 - Duration
        BY <1>2, <1>6, <4>1, SinceIs
      <4> HIDE DEF n, since
      <4>3. a.start < since
        <5> DEFINE b == a.start
        <5>1. b \in Int /\ b + Duration <= e1 /\ e1 \in Int /\ Duration \in Nat /\ n \in Nat
              /\ since = IF n < Duration THEN e1 - n ELSE e1 + 1 - Duration
          BY <1>2, <3>4, <4>1, <4>2
        <5> HIDE DEF b
        <5>2. b < since
          BY <5>1
        <5> QED BY <5>2 DEF b
      <4> QED BY <4>2, <4>3 DEF since
    <3>7. "recovered" \in I!Transitions
      BY DEF I!Transitions
    <3>8. event \in Happenings /\ event.start = a.start /\ event.transition = "recovered" /\ event.at = e1 /\ event.reason = "stale_heavy"
      BY <1>2, <3>4, <3>7 DEF Happenings
    <3>9. a.start <= e1 /\ e1 <= c.end
      BY SMTT(30), <1>2, <3>4
    <3>10. HappeningOK(c, event)
      BY <3>8, <3>9 DEF HappeningOK
    <3>11. EventsOK(c, events, {event.start}, event.start, c.after, c.end)
      BY <2>0, <3>5, <3>8
    <3>12. event.start \in Int /\ event.transition \in Recovery
      BY <3>4, <3>8 DEF Recovery
    <3>13. EventsOK(c, Append(events, event), {}, Since(<<>>, bad, e1), c.after, c.end)
      BY <1>2, <3>6, <3>8, <3>9, <3>10, <3>11, <3>12, EventsRecovered
    <3>14. OpenOf(<<>>) = {}
      BY DEF OpenOf, I!Elements
    <3>15. EventsOK(c, told, OpenOf(active), Since(active, bad, e1), c.after, c.end)
      BY <3>1, <3>13, <3>14
    <3> QED BY <3>15 DEF EventsOK
  <2> QED BY <2>1, <2>2
<1>11. TailsOK(c, active, bad, good, e1)
  <2>1. \A u \in e1 - Len(good) .. e1 - 1 : (u >= c.start => u \in c.fine) /\ (u < c.start => u \in c.handed)
                                             /\ (u >= c.start /\ Fleet(active) => u \in c.judged)
    <3> SUFFICES ASSUME NEW u \in e1 - Len(good) .. e1 - 1 PROVE u \in c.handed /\ ~(u >= c.start)
      OBVIOUS
    <3>1. Len(good) \in Nat /\ u \in c.handed /\ u < c.start
      BY <1>7
    <3>2. u \in Int
      BY <1>2, <3>1
    <3> QED BY <1>2, <3>1, <3>2
  <2>2. ~(e1 > c.start)
    BY <1>2
  <2> HIDE DEF active, e1
  <2> QED BY <1>6, <1>7, <2>1, <2>2 DEF TailsOK
<1>12. NoneMissed(c, active, intervals, e1) /\ NoGaps(c, FALSE, e1)
  <2>1. \A u \in c.start .. e1 - 1 : FALSE
    BY <1>2
  <2> QED BY <2>1 DEF NoneMissed, NoGaps
<1> HIDE DEF w, active, intervals, told, e1
<1>13. w \in Walks /\ w.active = active /\ w.bad = bad /\ w.good = good /\ w.intervals = intervals /\ w.events = told /\ w.gaps = FALSE
  BY <1>1, <1>6, <1>7, <1>8, <1>9, <1>10 DEF Walks
<1>14. WalkOK(c, w, e1)
  BY <1>8, <1>9, <1>10, <1>11, <1>12, <1>13 DEF WalkOK
<1> QED BY <1>14 DEF w, e1

--------------------------------------------------------------------------------
(* What an evaluation reports.                                                      *)

LEMMA ValidTailIs ==
  ASSUME NEW h \in Int, NEW s \in Seq(Int), UpTo(s, I!End(h))
  PROVE  I!ValidTail(s, h) /\ I!IsTail(s, I!End(h) - 1)
<1> DEFINE e == I!End(h)
           n == Len(s)
<1>1. e \in Int /\ I!End(h - 1) = e - MinutesPerHour /\ MinutesPerHour \in Nat /\ Duration <= MinutesPerHour /\ Duration \in Nat
  <2>1. e \in Int /\ I!End(h - 1) \in Int /\ e = I!End(h - 1) + MinutesPerHour
    BY Ends
  <2> HIDE DEF e
  <2> QED BY <2>1, Sizes
<1>2. n \in Nat /\ DOMAIN s = 1 .. n /\ n <= Duration /\ \A k \in 1 .. n : s[k] = e - 1 - n + k
  BY DEF UpTo
<1>3. I!IsTail(s, e - 1)
  BY <1>1, TailIs
<1> HIDE DEF e, n
<1>4. \A k \in DOMAIN s : s[k] \in I!End(h - 1) .. e - 1
  BY <1>1, <1>2
<1>5. \A k \in 1 .. n - 1 : s[k + 1] = s[k] + 1
  <2> SUFFICES ASSUME NEW k \in 1 .. n - 1 PROVE s[k + 1] = s[k] + 1
    OBVIOUS
  <2>1. k \in 1 .. n /\ k + 1 \in 1 .. n
    BY <1>2
  <2> QED BY <1>1, <1>2, <2>1
<1>6. I!ValidTail(s, h)
  BY <1>4, <1>5 DEF I!ValidTail, e, n
<1> QED BY <1>3, <1>6 DEF e

LEMMA ClosedOK ==
  ASSUME NEW h \in Int, NEW c, ContextOK(c), c.end = I!End(h), NEW w, WalkOK(c, w, I!End(h))
  PROVE  LET z == Closed(h, w)
         IN  /\ z \in Seq(I!Interval) /\ Len(z) <= MinutesPerHour
             /\ \A i \in I!Elements(z) : i.start <= i.end /\ i.end <= I!End(h)
             /\ w.active = <<>> => \A i \in I!Elements(z) : i.end < I!End(h)
             /\ \A u \in c.start .. I!End(h) - 1 : BadRun(c, u) => Inside(z, u)
<1> DEFINE e == I!End(h)
           z == Closed(h, w)
           n == Len(w.intervals)
           last == [start |-> w.active[1].start, end |-> e, reason |-> w.active[1].reason]
<1>1. /\ w \in Walks /\ ActiveOK(w.active, w.good, e) /\ IntervalsOK(c, w.active, w.intervals, e) /\ NoneMissed(c, w.active, w.intervals, e)
  BY DEF WalkOK
<1>2. w.active \in Seq(I!Starting) /\ w.intervals \in Seq(I!Interval) /\ Len(w.active) <= 1
  BY <1>1, WalkFields DEF ActiveOK
<1>3. e \in Int /\ e = c.end /\ c.end = c.start + MinutesPerHour /\ c.start \in Int /\ MinutesPerHour \in Nat /\ MinutesPerHour > 2
      /\ Duration \in Nat /\ Duration >= 1
  BY Sizes, ContextFields, Ends
<1> HIDE DEF e
<1>4. /\ 2 * n + Len(w.active) <= e - c.start + 2 /\ n \in Nat
      /\ \A i \in I!Elements(w.intervals) : i.start <= i.end /\ i.end < e
  <2>1. /\ 2 * n + Len(w.active) <= e - c.start + 2
        /\ \A i \in I!Elements(w.intervals) : i.start <= i.end /\ i.end < c.end
    BY <1>1 DEF IntervalsOK
  <2>2. n \in Nat
    BY <1>2
  <2> HIDE DEF n
  <2> QED BY <1>3, <2>1, <2>2
<1>5. \A i \in I!Elements(w.intervals) : i \in I!Interval /\ i.end \in Int
  <2>1. I!Elements(w.intervals) \subseteq I!Interval
    BY <1>2 DEF I!Elements
  <2>2. \A i \in I!Interval : i.end \in Int
    BY DEF I!Interval
  <2> QED BY <2>1, <2>2
<1>6. CASE w.active = <<>>
  <2>1. z = w.intervals
    BY <1>6 DEF Closed, I!None
  <2>2. Len(w.active) = 0
    BY <1>6
  <2> HIDE DEF z, n
  <2>3. n <= MinutesPerHour
    BY <1>3, <1>4, <2>2
  <2>4. \A i \in I!Elements(z) : i.start <= i.end /\ i.end <= e /\ i.end < e
    BY <1>3, <1>4, <1>5, <2>1
  <2>5. \A u \in c.start .. e - 1 : BadRun(c, u) => Inside(z, u)
    BY <1>1, <1>6, <2>1 DEF NoneMissed
  <2> QED BY <1>2, <2>1, <2>3, <2>4, <2>5 DEF z, n, e
<1>7. CASE w.active # <<>>
  <2>1. z = Append(w.intervals, last)
    BY <1>7 DEF Closed, I!None, e
  <2>2. /\ w.active[1] \in I!Starting /\ w.active[1].start \in Int /\ Len(w.active) = 1
    BY <1>2, <1>7, ActiveIs
  <2>3. w.active[1].reason \in I!BadReasons /\ w.active[1].start + Duration <= e
    BY <1>1, <1>7 DEF ActiveOK
  <2> DEFINE a == w.active[1]
  <2>4. last = [start |-> a.start, end |-> e, reason |-> a.reason] /\ a.start \in Int /\ a.start + Duration <= e
        /\ a.reason \in I!Reasons /\ a.reason # "stale_heavy"
    BY <2>2, <2>3 DEF I!Reasons, I!BadReasons, I!FleetReasons
  <2>5. \A u \in c.start .. e - 1 : BadRun(c, u) => Inside(w.intervals, u) \/ a.start <= u - Duration + 1
    BY <1>1 DEF NoneMissed
  <2> HIDE DEF a, last
  <2>6. last \in I!Interval /\ last.start = a.start /\ last.end = e /\ last.reason = a.reason
    BY <1>3, <2>4 DEF I!Interval
  <2>7. z \in Seq(I!Interval) /\ I!Elements(z) = I!Elements(w.intervals) \union {last} /\ Len(z) = n + 1
    BY <1>2, <2>1, <2>6, ElementsAppend
  <2> HIDE DEF z, n
  <2>8. Len(z) <= MinutesPerHour
    BY SMTT(30), <1>3, <1>4, <2>2, <2>7
  <2>9. \A i \in I!Elements(z) : i.start <= i.end /\ i.end <= e
    <3>1. last.start <= last.end /\ last.end <= e
      BY <1>3, <2>4, <2>6
    <3> QED BY <1>3, <1>4, <1>5, <2>7, <3>1
  <2>10. \A u \in c.start .. e - 1 : BadRun(c, u) => Inside(z, u)
    <3> SUFFICES ASSUME NEW u \in c.start .. e - 1, BadRun(c, u) PROVE Inside(z, u)
      OBVIOUS
    <3>1. CASE Inside(w.intervals, u)
      BY <2>7, <3>1 DEF Inside
    <3>2. CASE a.start <= u - Duration + 1
      <4>1. u \in Int /\ u < e /\ a.start <= u /\ u - Duration + 1 <= u
        BY <1>3, <2>4, <3>2
      <4>2. I!Within(u, last) /\ I!Within(u - Duration + 1, last)
        BY <1>3, <2>4, <2>6, <3>2, <4>1 DEF I!Within
      <4>3. last \in I!Elements(z) /\ last.reason # "stale_heavy"
        BY <2>4, <2>6, <2>7
      <4> QED BY <4>2, <4>3 DEF Inside
    <3> QED BY <2>5, <3>1, <3>2
  <2> QED BY <1>7, <2>7, <2>8, <2>9, <2>10 DEF z, e
<1> QED BY <1>6, <1>7

LEMMA FiledWritten ==
  ASSUME NEW h \in Int, NEW c, ContextOK(c), c.end = I!End(h), c.start = I!End(h - 1), NEW w, WalkOK(c, w, I!End(h)),
         NEW watched, NEW open, NEW next, WatchOK(c, watched, I!End(h), open, next),
         NEW baseline \in [I!Minutes -> I!Usual], NEW r, Continued(r, h), NEW p, p.resetAt \in Int, p.resetAt <= I!End(h - 1)
  PROVE  LET z == Filed(h, baseline, r, p, watched, w)
         IN  I!Written(z, h)
<1> DEFINE z == Filed(h, baseline, r, p, watched, w)
           e == I!End(h)
           e1 == I!End(h - 1)
           intervals == Closed(h, w)
           recent == I!Recent(r.recent, Closed(h, w))
           status == I!Status(h, w, baseline)
           m == [active |-> watched.active, gap |-> watched.gap, good |-> watched.good]
           times == [k \in DOMAIN w.bad |-> w.bad[k].at]
<1>1. z = [status |-> status, baseline |-> baseline, intervals |-> intervals, events |-> w.events,
           active |-> w.active, bad |-> w.bad, good |-> w.good, resetAt |-> p.resetAt, monitoring |-> m, recent |-> recent]
  BY DEF Filed
<1>2. e \in Int /\ e1 \in Int /\ e = e1 + MinutesPerHour /\ Duration \in Nat /\ Duration >= 1 /\ MinutesPerHour \in Nat
  BY Ends, Sizes
<1>3. w \in Walks /\ ActiveOK(w.active, w.good, e) /\ TailsOK(c, w.active, w.bad, w.good, e)
      /\ EventsOK(c, w.events, OpenOf(w.active), Since(w.active, w.bad, e), c.after, c.end)
  BY DEF WalkOK
<1>4. /\ w.active \in Seq(I!Starting) /\ w.bad \in Seq(BadMinutes) /\ w.good \in Seq(Int) /\ w.events \in Seq(Happenings)
      /\ Len(w.active) <= 1 /\ UpTo(w.good, e) /\ BadTail(w.bad, e) /\ (w.bad = <<>> \/ w.good = <<>>)
  <2>1. e > c.start
    BY <1>2, ContextFields, Sizes
  <2> HIDE DEF e
  <2> QED BY <1>3, <2>1, WalkFields DEF ActiveOK, TailsOK
<1>5. /\ watched.active \in Seq(Int) /\ watched.gap \in Seq(Int) /\ watched.good \in Seq(Int)
      /\ UpTo(watched.gap, e) /\ UpTo(watched.good, e) /\ (watched.gap = <<>> \/ watched.good = <<>>) /\ Len(watched.active) <= 1
      /\ watched.active # <<>> => watched.active[1] < e /\ \A u \in e - Len(watched.good) .. e - 1 : watched.active[1] <= u
  BY DEF WatchOK, Watches
<1>6. /\ intervals \in Seq(I!Interval) /\ Len(intervals) <= MinutesPerHour
      /\ \A i \in I!Elements(intervals) : i.start <= i.end /\ i.end <= e
  BY ClosedOK
<1>7. recent \in Seq(I!Interval) /\ Len(recent) <= MaxRecent /\ \A i \in I!Elements(recent) : i.start <= i.end /\ i.end <= e
  <2> DEFINE U == {i \in I!Interval : i.start <= i.end /\ i.end <= e}
  <2>1. \A i \in I!Elements(intervals) : i \in U
    <3>1. I!Elements(intervals) \subseteq I!Interval
      BY <1>6 DEF I!Elements
    <3> HIDE DEF intervals, e
    <3> QED BY <1>6, <3>1
  <2>2. r.recent \in Seq(I!Interval) /\ \A i \in I!Elements(r.recent) : i.start <= i.end /\ i.end <= e1
    BY ReportFields DEF Continued
  <2>3. \A i \in I!Elements(r.recent) : i \in U
    <3>1. I!Elements(r.recent) \subseteq I!Interval
      BY <2>2 DEF I!Elements
    <3>2. \A i \in I!Interval : i.end \in Int
      BY DEF I!Interval
    <3> HIDE DEF e, e1
    <3> QED BY <1>2, <2>2, <3>1, <3>2
  <2> HIDE DEF U, intervals
  <2>4. intervals \in Seq(U) /\ r.recent \in Seq(U)
    BY <1>6, <2>1, <2>2, <2>3, SequenceIn
  <2>5. I!Recent(r.recent, intervals) \in Seq(U) /\ Len(I!Recent(r.recent, intervals)) <= MaxRecent
    BY <2>4, RecentIs
  <2>6. recent = I!Recent(r.recent, intervals)
    BY DEF intervals
  <2> HIDE DEF recent
  <2>7. recent \in Seq(U) /\ Len(recent) <= MaxRecent
    BY <2>5, <2>6
  <2>8. I!Elements(recent) \subseteq U
    BY <2>7 DEF I!Elements
  <2>9. \A i \in U : i \in I!Interval /\ i.start <= i.end /\ i.end <= e
    BY DEF U
  <2>10. recent \in Seq(I!Interval)
    BY <2>7, <2>8, <2>9, SequenceIn
  <2> QED BY <2>7, <2>8, <2>9, <2>10
<1>8. status \in I!Statuses
  BY DEF I!Status, I!Statuses
<1>9. times \in Seq(Int) /\ UpTo(times, e)
  <2> DEFINE n == Len(w.bad)
  <2>1. n \in Nat /\ DOMAIN w.bad = 1 .. n /\ n <= Duration /\ \A k \in 1 .. n : w.bad[k].at = e - 1 - n + k
    BY <1>4 DEF BadTail
  <2>2. times = [k \in 1 .. n |-> w.bad[k].at]
    BY <2>1
  <2> HIDE DEF n, times, e
  <2>3. \A k \in 1 .. n : times[k] = e - 1 - n + k /\ times[k] \in Int
    <3> SUFFICES ASSUME NEW k \in 1 .. n PROVE times[k] = e - 1 - n + k /\ times[k] \in Int
      OBVIOUS
    <3>1. times[k] = w.bad[k].at
      BY <2>2
    <3>2. w.bad[k].at = e - 1 - n + k
      BY <2>1
    <3>3. e - 1 - n + k \in Int
      BY <1>2, <2>1
    <3> QED BY <3>1, <3>2, <3>3
  <2>4. times \in Seq(Int) /\ Len(times) = n
    BY <2>1, <2>2, <2>3
  <2> QED BY <2>1, <2>3, <2>4 DEF UpTo
<1>10. /\ I!ValidTail(times, h) /\ I!ValidTail(w.good, h) /\ I!ValidTail(watched.gap, h) /\ I!ValidTail(watched.good, h)
       /\ I!IsTail(w.good, e - 1) /\ I!IsTail(watched.gap, e - 1) /\ I!IsTail(watched.good, e - 1)
  BY <1>4, <1>5, <1>9, ValidTailIs
<1>11. \A a \in I!Elements(w.active) : a.start \in Int /\ a.start + Duration <= e /\ a.start <= e /\ \A u \in I!Elements(w.good) : a.start <= u
  <2> SUFFICES ASSUME NEW a \in I!Elements(w.active)
               PROVE  a.start \in Int /\ a.start + Duration <= e /\ a.start <= e /\ \A u \in I!Elements(w.good) : a.start <= u
    OBVIOUS
  <2>1. w.active # <<>> /\ a = w.active[1] /\ a.start \in Int
    <3>1. w.active # <<>>
      BY DEF I!Elements
    <3> QED BY <1>4, <3>1, ActiveIs
  <2>2. a.start + Duration <= e /\ \A u \in e - Len(w.good) .. e - 1 : a.start <= u
    BY <1>3, <2>1 DEF ActiveOK
  <2> HIDE DEF e
  <2>3. \A u \in Int : u \in I!Elements(w.good) <=> e - Len(w.good) <= u /\ u < e
    BY <1>2, <1>4, TailElements
  <2>4. I!Elements(w.good) \subseteq Int /\ Len(w.good) \in Nat
    BY <1>4 DEF I!Elements
  <2>5. \A u \in I!Elements(w.good) : u \in e - Len(w.good) .. e - 1
    BY <1>2, <2>3, <2>4
  <2> QED BY SMTT(30), <1>2, <2>1, <2>2, <2>5
<1>12. \A t \in I!Elements(watched.active) : t < e /\ \A u \in I!Elements(watched.good) : t <= u
  <2> SUFFICES ASSUME NEW t \in I!Elements(watched.active) PROVE t < e /\ \A u \in I!Elements(watched.good) : t <= u
    OBVIOUS
  <2>1. watched.active # <<>> /\ t = watched.active[1]
    <3>1. watched.active # <<>>
      BY DEF I!Elements
    <3> QED BY <1>5, <3>1, LostIs
  <2> HIDE DEF e
  <2>3. \A u \in Int : u \in I!Elements(watched.good) <=> e - Len(watched.good) <= u /\ u < e
    BY <1>2, <1>5, TailElements
  <2>4. I!Elements(watched.good) \subseteq Int /\ Len(watched.good) \in Nat
    BY <1>5 DEF I!Elements
  <2>5. \A u \in I!Elements(watched.good) : u \in e - Len(watched.good) .. e - 1
    BY <1>2, <2>3, <2>4
  <2> QED BY <1>5, <2>1, <2>5
<1>13. (\A x \in I!Elements(w.events) : HappeningOK(c, x)) /\ Distinct(w.events) /\ c.end = e /\ c.start = e1
  BY <1>3 DEF EventsOK
<1> HIDE DEF z, e, e1, intervals, recent, status, m
<1>14. m \in [active : Seq(Int), gap : Seq(Int), good : Seq(Int)] /\ m.active = watched.active /\ m.gap = watched.gap /\ m.good = watched.good
  <2> DEFINE x1 == watched.active
             x2 == watched.gap
             x3 == watched.good
  <2>1. m = [active |-> x1, gap |-> x2, good |-> x3] /\ x1 \in Seq(Int) /\ x2 \in Seq(Int) /\ x3 \in Seq(Int)
    BY <1>5 DEF m
  <2> HIDE DEF x1, x2, x3
  <2>2. m \in [active : Seq(Int), gap : Seq(Int), good : Seq(Int)] /\ m.active = x1 /\ m.gap = x2 /\ m.good = x3
    BY <2>1
  <2> QED BY <2>2 DEF x1, x2, x3
<1>15. z \in I!Reports
  <2> DEFINE x1 == w.events
             x2 == w.active
             x3 == w.bad
             x4 == w.good
             x5 == p.resetAt
  <2>1. /\ x1 \in Seq([transition : I!Transitions, start : Int, at : Int, reason : I!Reasons \union {"monitoring_gap"}])
        /\ x2 \in Seq(I!Starting) /\ x3 \in Seq([at : Int, reason : I!BadReasons]) /\ x4 \in Seq(Int) /\ x5 \in Int
    BY <1>4 DEF Happenings, BadMinutes
  <2>2. z = [status |-> status, baseline |-> baseline, intervals |-> intervals, events |-> x1,
             active |-> x2, bad |-> x3, good |-> x4, resetAt |-> x5, monitoring |-> m, recent |-> recent]
    BY <1>1
  <2> HIDE DEF x1, x2, x3, x4, x5
  <2> QED BY <1>6, <1>7, <1>8, <1>14, <2>1, <2>2 DEF I!Reports
<1>16. /\ z.intervals = intervals /\ z.recent = recent /\ z.events = w.events /\ z.active = w.active /\ z.bad = w.bad /\ z.good = w.good
       /\ z.resetAt = p.resetAt /\ z.monitoring = m
  BY <1>1
<1>17. I!ValidMonitoring(z.monitoring, h)
  BY <1>5, <1>10, <1>12, <1>14, <1>16 DEF I!ValidMonitoring, e
<1>18. I!ValidState(z, h)
  <2>1. [k \in DOMAIN z.bad |-> z.bad[k].at] = times
    BY <1>16
  <2> HIDE DEF times
  <2> QED BY <1>4, <1>10, <1>11, <1>16, <1>17, <2>1 DEF I!ValidState, e, e1
<1>19. I!ValidEvents(z.events, h)
  <2>1. \A x \in I!Elements(w.events) : I!ValidEvent(x, h)
    BY <1>13 DEF HappeningOK, I!ValidEvent, e, e1
  <2> QED BY <1>13, <1>16, <2>1 DEF I!ValidEvents, Distinct
<1>20. I!ValidReport(z, h)
  BY <1>6, <1>7, <1>16, <1>18, <1>19 DEF I!ValidReport, I!ValidInterval, e
<1>21. I!Written(z, h)
  BY <1>4, <1>5, <1>10, <1>11, <1>12, <1>14, <1>15, <1>16, <1>20 DEF I!Written, e
<1> QED BY <1>21 DEF z

--------------------------------------------------------------------------------
(* What a report says when an evaluation wrote it.                                  *)

IsReported(c, w, watched) ==
  /\ v1 \in Nat /\ v1 > 1 /\ v2 \in Nat \union {I!NotConfirmed}
  /\ v3 \in [I!Minutes -> I!Kinds] \union {I!Absent} /\ v4 \in [I!Minutes -> I!Kinds] \union {I!Absent}
  /\ v5 \in I!Reports /\ I!Written(v6, I!this)
  /\ v3 # I!Absent /\ v2 # I!NotConfirmed => \A m \in I!Minutes : v3[m] # "absent" => 2 * (I!At(I!this, m) + 1) > v2
  /\ v4 # I!Absent /\ v2 # I!NotConfirmed => \A m \in I!Minutes : v4[m] # "absent" => 2 * (I!At(I!this - 1, m) + 1) > v2
  /\ v6.resetAt \in Int /\ v6.resetAt <= I!End(I!this - 1)
  /\ ContextOK(c) /\ c.from = I!End(I!this - 2) /\ c.start = I!End(I!this - 1) /\ c.end = I!End(I!this)
  /\ c.opened = I!IncidentOpen(v5) /\ c.lost = I!Elements(v5.monitoring.active) /\ c.after = I!Elements(watched.active)
  /\ \A u \in c.handed : u \in I!Elements(v5.good) /\ u >= v6.resetAt
  /\ Now(c, v3, v6.baseline)
  /\ Before(c, IF v6.resetAt > c.from THEN I!Absent ELSE v4, v5.baseline)
  /\ v6.resetAt > c.from => v6.resetAt = c.start
  /\ WalkOK(c, w, c.end)
  /\ v6.intervals = Closed(I!this, w) /\ v6.events = w.events /\ v6.active = w.active /\ v6.good = w.good
  /\ v6.monitoring.active = watched.active
  /\ v6.status = "healthy" => w.active = <<>> /\ ~w.gaps /\ v2 # I!NotConfirmed /\ v2 <= 2 * c.start

LEMMA Meanings ==
  ASSUME NEW c, NEW w, NEW watched, IsReported(c, w, watched), NEW t \in Int
  PROVE  /\ c.start <= t /\ t < c.end =>
              (I!Bad(t) <=> t \in c.bad) /\ (I!Fine(t) <=> t \in c.fine) /\ (I!Seen(t) <=> t \in c.bad \union c.fine)
              /\ (t \in c.judged <=> v6.baseline[I!MinuteOf(t)] = "judged") /\ (t \in c.blind => v2 = I!NotConfirmed \/ 2 * (t + 1) <= v2)
         /\ c.from <= t /\ t < c.start => (I!Bad(t) => t \in c.bad) /\ (v2 # I!NotConfirmed /\ t \in c.bad => I!Bad(t))
<1> DEFINE h == I!this
           e0 == c.from
           e1 == c.start
           e2 == c.end
           a == v6.resetAt
<1>1. /\ e0 \in Int /\ e1 \in Int /\ e2 \in Int /\ e1 = e0 + MinutesPerHour /\ e2 = e1 + MinutesPerHour /\ MinutesPerHour \in Nat
      /\ I!Minutes = 1 .. MinutesPerHour /\ h \in Int
      /\ e0 = I!End(h - 2) /\ e1 = I!End(h - 1) /\ e2 = I!End(h) /\ a \in Int /\ a <= e1 /\ (a > e0 => a = e1)
      /\ v2 \in Int
  <2>1. ContextOK(c) /\ v1 \in Nat /\ v2 \in Nat \union {I!NotConfirmed}
    BY DEF IsReported
  <2>2. v2 \in Int /\ h \in Int
    BY <2>1 DEF I!NotConfirmed, I!this
  <2> QED BY <2>1, <2>2, ContextFields, Sizes DEF IsReported
<1>2. /\ Now(c, v3, v6.baseline) /\ Before(c, IF a > e0 THEN I!Absent ELSE v4, v5.baseline)
      /\ v4 # I!Absent /\ v2 # I!NotConfirmed => \A m \in I!Minutes : v4[m] # "absent" => 2 * (I!At(h - 1, m) + 1) > v2
  BY DEF IsReported
<1>3. /\ I!SummaryAt(t) = (IF t < e1 THEN v4 ELSE v3) /\ I!MinuteOf(t) = t - (IF t < e1 THEN e0 ELSE e1) + 1
      /\ I!BaselineAt(t) = (IF t < e1 THEN v5.baseline[I!MinuteOf(t)] ELSE v6.baseline[I!MinuteOf(t)])
  BY <1>1 DEF I!SummaryAt, I!MinuteOf, I!BaselineAt
<1>4. I!Seen(t) <=> v2 # I!NotConfirmed /\ 2 * (t + 1) > v2 /\ t >= a /\ I!Monitored(I!SummaryAt(t), I!MinuteOf(t))
  BY DEF I!Seen, I!Collected
<1>5. I!Bad(t) <=> I!Seen(t) /\ I!BadReason(I!SummaryAt(t)[I!MinuteOf(t)], I!BaselineAt(t)) # ""
  BY DEF I!Bad
<1>6. I!Fine(t) <=> I!Seen(t) /\ ~I!Bad(t)
  BY DEF I!Fine
<1>7. Blind(t) <=> ~(v2 # I!NotConfirmed /\ 2 * (t + 1) > v2)
  BY <1>1 DEF Blind
<1> HIDE DEF h, e0, e1, e2, a
<1>8. ASSUME e1 <= t, t < e2
      PROVE  (I!Bad(t) <=> t \in c.bad) /\ (I!Fine(t) <=> t \in c.fine) /\ (I!Seen(t) <=> t \in c.bad \union c.fine)
             /\ (t \in c.judged <=> v6.baseline[I!MinuteOf(t)] = "judged") /\ (t \in c.blind => Blind(t))
  <2> DEFINE m == t - e1 + 1
  <2>1. /\ t \in c.bad <=> ~Blind(t) /\ Wrong(v3, v6.baseline, m)
        /\ t \in c.fine <=> ~Blind(t) /\ I!Monitored(v3, m) /\ ~Wrong(v3, v6.baseline, m)
        /\ t \in c.judged <=> v6.baseline[m] = "judged"
        /\ t \in c.blind <=> Blind(t)
    BY <1>2, <1>8 DEF Now, e1, e2
  <2>2. ~(t < e1) /\ t >= a
    BY SMTT(30), <1>1, <1>8
  <2>3. I!SummaryAt(t) = v3 /\ I!MinuteOf(t) = m /\ I!BaselineAt(t) = v6.baseline[m]
    BY <1>3, <2>2
  <2> HIDE DEF m
  <2>4. Wrong(v3, v6.baseline, m) <=> I!Monitored(v3, m) /\ I!BadReason(v3[m], v6.baseline[m]) # ""
    BY DEF Wrong
  <2>5. I!Seen(t) <=> ~Blind(t) /\ I!Monitored(v3, m)
    BY <1>4, <1>7, <2>2, <2>3
  <2>6. I!Bad(t) <=> I!Seen(t) /\ I!BadReason(v3[m], v6.baseline[m]) # ""
    BY <1>5, <2>3
  <2> QED BY <1>6, <2>1, <2>3, <2>4, <2>5, <2>6
<1>9. ASSUME e0 <= t, t < e1
      PROVE  (I!Bad(t) => t \in c.bad) /\ (v2 # I!NotConfirmed /\ t \in c.bad => I!Bad(t))
  <2> DEFINE m == t - e0 + 1
             k == IF a > e0 THEN I!Absent ELSE v4
  <2>1. t \in c.bad <=> Wrong(k, v5.baseline, m)
    BY <1>2, <1>9 DEF Before, e1, e0
  <2>2. I!SummaryAt(t) = v4 /\ I!MinuteOf(t) = m /\ I!BaselineAt(t) = v5.baseline[m]
    BY <1>3, <1>9
  <2>3. m \in I!Minutes /\ t = e0 + (m - 1)
    BY SMTT(30), <1>1, <1>9
  <2>4. I!At(h - 1, m) = t
    <3>1. \A x \in I!Minutes : I!At(h - 1, x) = I!End(h - 2) + (x - 1)
      BY <1>1, Ends
    <3> QED BY <1>1, <2>3, <3>1
  <2> HIDE DEF m
  <2>5. t >= a <=> ~(a > e0)
    BY SMTT(30), <1>1, <1>9
  <2>6. Wrong(k, v5.baseline, m) <=> I!Monitored(k, m) /\ I!BadReason(k[m], v5.baseline[m]) # ""
    BY DEF Wrong
  <2>7. I!Monitored(k, m) => ~(a > e0) /\ k = v4 /\ v4 # I!Absent /\ v4[m] # "absent"
    BY DEF I!Monitored
  <2>8. ~(a > e0) => k = v4
    OBVIOUS
  <2>9. I!Bad(t) <=> /\ v2 # I!NotConfirmed /\ 2 * (t + 1) > v2 /\ t >= a /\ I!Monitored(v4, m)
                     /\ I!BadReason(v4[m], v5.baseline[m]) # ""
    BY <1>4, <1>5, <2>2
  <2> HIDE DEF k
  <2>10. I!Bad(t) => t \in c.bad
    BY <2>1, <2>5, <2>6, <2>8, <2>9
  <2>11. v2 # I!NotConfirmed /\ t \in c.bad => I!Bad(t)
    <3> SUFFICES ASSUME v2 # I!NotConfirmed, t \in c.bad PROVE I!Bad(t)
      OBVIOUS
    <3>1. I!Monitored(k, m) /\ I!BadReason(k[m], v5.baseline[m]) # "" /\ ~(a > e0) /\ k = v4 /\ v4 # I!Absent /\ v4[m] # "absent"
      BY <2>1, <2>6, <2>7
    <3>2. 2 * (t + 1) > v2
      BY <1>2, <2>3, <2>4, <3>1
    <3> QED BY <2>5, <2>9, <3>1, <3>2
  <2> QED BY <2>10, <2>11
<1>10. Blind(t) <=> v2 = I!NotConfirmed \/ 2 * (t + 1) <= v2
  BY DEF Blind
<1> QED BY <1>8, <1>9, <1>10 DEF e0, e1, e2

LEMMA ReportedSays ==
  ASSUME NEW c, NEW w, NEW watched, IsReported(c, w, watched)
  PROVE  I!IncidentsInv
<1> DEFINE h == I!this
           e0 == c.from
           e1 == c.start
           e2 == c.end
<1>1. /\ e0 \in Int /\ e1 \in Int /\ e2 \in Int /\ e1 = e0 + MinutesPerHour /\ e2 = e1 + MinutesPerHour /\ MinutesPerHour \in Nat
      /\ MinutesPerHour > 2 /\ h \in Int /\ Duration \in Nat /\ Duration >= 1 /\ Duration <= MinutesPerHour
      /\ e0 = I!End(h - 2) /\ e1 = I!End(h - 1) /\ e2 = I!End(h) /\ ContextOK(c) /\ v2 \in Int
  <2>1. ContextOK(c) /\ v1 \in Nat /\ v2 \in Nat \union {I!NotConfirmed}
    BY DEF IsReported
  <2>2. h \in Int /\ v2 \in Int
    BY <2>1 DEF I!this, I!NotConfirmed
  <2> QED BY <2>1, <2>2, ContextFields, Sizes DEF IsReported
<1>2. I!Window = e0 .. e2 - 1
  BY <1>1 DEF I!Window
<1>3. \A t \in Int : e1 <= t /\ t < e2 =>
        /\ (I!Bad(t) <=> t \in c.bad) /\ (I!Fine(t) <=> t \in c.fine) /\ (I!Seen(t) <=> t \in c.bad \union c.fine)
        /\ (t \in c.judged <=> v6.baseline[I!MinuteOf(t)] = "judged") /\ (t \in c.blind => v2 = I!NotConfirmed \/ 2 * (t + 1) <= v2)
  BY Meanings
<1>4. \A t \in Int : e0 <= t /\ t < e1 => (I!Bad(t) => t \in c.bad) /\ (v2 # I!NotConfirmed /\ t \in c.bad => I!Bad(t))
  BY Meanings
<1>5. \A t \in I!Window : I!Bad(t) => t \in c.bad
  <2> SUFFICES ASSUME NEW t \in I!Window, I!Bad(t) PROVE t \in c.bad
    OBVIOUS
  <2> HIDE DEF e0, e1, e2
  <2>1. t \in Int /\ e0 <= t /\ t < e2 /\ (t < e1 \/ e1 <= t)
    BY SMTT(30), <1>1, <1>2
  <2> QED BY <1>3, <1>4, <2>1
<1>6. /\ WalkOK(c, w, e2) /\ v6.intervals = Closed(h, w) /\ v6.events = w.events /\ v6.active = w.active /\ v6.good = w.good
      /\ v6.monitoring.active = watched.active
      /\ v6.status = "healthy" => w.active = <<>> /\ ~w.gaps /\ v2 # I!NotConfirmed /\ v2 <= 2 * c.start
      /\ c.opened = I!IncidentOpen(v5) /\ c.lost = I!Elements(v5.monitoring.active) /\ c.after = I!Elements(watched.active)
      /\ \A u \in c.handed : u \in I!Elements(v5.good) /\ u >= v6.resetAt
  BY DEF IsReported
<1>7. /\ w \in Walks /\ ActiveOK(w.active, w.good, e2) /\ TailsOK(c, w.active, w.bad, w.good, e2)
      /\ NoneMissed(c, w.active, w.intervals, e2) /\ NoGaps(c, w.gaps, e2)
      /\ EventsOK(c, w.events, OpenOf(w.active), Since(w.active, w.bad, e2), c.after, c.end)
  BY <1>6 DEF WalkOK
<1>8. /\ v6.intervals \in Seq(I!Interval)
      /\ w.active = <<>> => \A i \in I!Elements(v6.intervals) : i.end < e2
      /\ \A u \in e1 .. e2 - 1 : BadRun(c, u) => Inside(v6.intervals, u)
  BY <1>1, <1>6, ClosedOK
<1>9. /\ v6.events \in Seq(Happenings) /\ (\A e \in I!Elements(v6.events) : e \in Happenings /\ e.start \in Int /\ e.at \in Int /\ HappeningOK(c, e))
      /\ I!Alternate(v6.events, Incident, Recovery, c.opened, OpenOf(v6.active))
      /\ I!Alternate(v6.events, Loss, Return, c.lost, I!Elements(v6.monitoring.active))
  <2>1. w.events \in Seq(Happenings) /\ I!Elements(w.events) \subseteq Happenings
    BY <1>7 DEF EventsOK, I!Elements
  <2>2. \A e \in Happenings : e.start \in Int /\ e.at \in Int
    BY DEF Happenings
  <2>3. \A e \in I!Elements(w.events) : e \in Happenings /\ e.start \in Int /\ e.at \in Int
    BY <2>1, <2>2
  <2> QED BY <1>6, <1>7, <2>1, <2>3 DEF EventsOK, Told
<1>0. /\ e0 \in Int /\ e1 \in Int /\ e2 \in Int /\ e1 = e0 + MinutesPerHour /\ e2 = e1 + MinutesPerHour /\ MinutesPerHour \in Nat
      /\ MinutesPerHour > 2 /\ Duration \in Nat /\ Duration >= 1 /\ v2 \in Int
  BY <1>1
<1> HIDE DEF e0, e1, e2, h
<1>10. ASSUME NEW t \in I!Window, t >= e1, t - Duration + 1 >= e0, \A u \in t - Duration + 1 .. t : I!Bad(u)
       PROVE  \E i \in I!Elements(v6.intervals) :
                i.reason # "stale_heavy" /\ I!Within(t, i) /\ I!Within(t - Duration + 1, i)
  <2>1. t \in Int /\ t \in e1 .. e2 - 1 /\ t < e2
    BY SMTT(30), <1>1, <1>2, <1>10
  <2>2. \A u \in t - Duration + 1 .. t : u \in I!Window
    <3> SUFFICES ASSUME NEW u \in t - Duration + 1 .. t PROVE u \in e0 .. e2 - 1
      BY <1>2
    <3>1. u \in Int /\ u >= t - Duration + 1 /\ u <= t
      BY <1>0, <2>1
    <3> QED BY <1>0, <1>10, <2>1, <3>1
  <2>3. BadRun(c, t)
    <3>1. \A u \in t - Duration + 1 .. t : u \in c.bad
      BY <1>5, <1>10, <2>2
    <3> QED BY <1>10, <3>1 DEF BadRun, e0
  <2> QED BY <1>8, <2>1, <2>3 DEF Inside
<1>11. I!NothingMissed
  BY <1>10 DEF I!NothingMissed, e0, e1, h, IsReported
<1>12. ASSUME NEW e \in I!Elements(v6.events), e.transition = "degraded", NEW u \in e.start .. e.start + Duration - 1
       PROVE  u \in I!Window /\ I!Bad(u) /\ u < e.at
  <2>1. /\ e1 <= e.start + Duration - 1 /\ e.start \in Int /\ HappeningOK(c, e)
        /\ \A x \in e.start .. e.start + Duration - 1 : x \in c.bad /\ x < e.at
    BY <1>9, <1>12 DEF HappeningOK, e1
  <2>2. \A x \in c.bad : x \in Int /\ e0 <= x /\ x < e2
    BY <1>1, ContextFields DEF e0, e2
  <2> DEFINE l == e.start + Duration - 1
  <2>3. l \in Int /\ l \in c.bad /\ e1 <= l /\ l < e2
    <3>1. l \in e.start .. e.start + Duration - 1
      BY <1>1, <2>1
    <3> QED BY <1>1, <2>1, <2>2, <3>1
  <2> HIDE DEF l
  <2>4. v2 # I!NotConfirmed
    <3>1. I!Bad(l)
      BY <1>3, <2>3
    <3> QED BY <3>1 DEF I!Bad, I!Seen, I!Collected
  <2>5. u \in Int /\ u \in c.bad /\ u < e.at /\ e0 <= u /\ u < e2
    BY <1>12, <2>1, <2>2
  <2>6. u < e1 \/ e1 <= u
    BY <1>1, <2>5
  <2>7. I!Bad(u)
    BY <1>3, <1>4, <2>4, <2>5, <2>6
  <2>8. u \in I!Window
    BY <1>1, <1>2, <2>5
  <2> QED BY <2>5, <2>7, <2>8
<1>13. I!IncidentEarned
  BY <1>12 DEF I!IncidentEarned
<1>14. ASSUME NEW e \in I!Elements(v6.events), e.transition = "recovered", e.reason # "stale_heavy", NEW u \in e.at .. e.at + Duration - 1
       PROVE  /\ u \in I!Window /\ (u >= e1 => I!Fine(u)) /\ (u < e1 => u \in I!Elements(v5.good) /\ u >= v6.resetAt)
              /\ e.reason \in I!FleetReasons /\ u >= e1 => v6.baseline[I!MinuteOf(u)] = "judged"
  <2>1. /\ u >= e1 => u \in c.fine
        /\ u < e1 => u \in c.handed
        /\ e.reason \in I!FleetReasons /\ u >= e1 => u \in c.judged
    BY <1>9, <1>14 DEF HappeningOK, e1
  <2>2. (\A x \in c.fine : x \in Int /\ e1 <= x /\ x < e2) /\ \A x \in c.handed : x \in Int /\ e0 <= x /\ x < e1
    BY <1>1, ContextFields DEF e0, e1, e2
  <2>3. u \in Int /\ (u < e1 \/ u >= e1)
    BY <1>1, <1>9
  <2>4. u \in I!Window
    <3>1. e0 <= u /\ u < e2
      BY <1>0, <2>1, <2>2, <2>3
    <3> QED BY <1>0, <1>2, <2>3, <3>1
  <2>5. u >= e1 => u < e2 /\ e1 <= u
    BY <2>1, <2>2
  <2> QED BY <1>3, <1>6, <2>1, <2>3, <2>4, <2>5
<1>15. I!RecoveryEarned
  BY <1>1, <1>14 DEF I!RecoveryEarned, e1, h
<1>16. I!EventsAlternate
  <2>1. OpenOf(v6.active) = I!IncidentOpen(v6)
    BY DEF OpenOf, I!IncidentOpen
  <2> QED BY <1>6, <1>9, <2>1 DEF I!EventsAlternate, Incident, Recovery, Loss, Return
<1>17. ASSUME v6.status = "healthy"
       PROVE  /\ \A t \in e1 .. e2 - 1 : I!Seen(t)
              /\ v6.active = <<>> /\ \A i \in I!Elements(v6.intervals) : i.end < e2
  <2>1. w.active = <<>> /\ ~w.gaps /\ v2 # I!NotConfirmed /\ v2 <= 2 * e1
    BY <1>6, <1>17 DEF e1
  <2>2. \A u \in e1 .. e2 - 1 : u \in c.blind \union c.bad \union c.fine
    BY <1>7, <2>1 DEF NoGaps, e1
  <2>3. ASSUME NEW t \in e1 .. e2 - 1 PROVE I!Seen(t)
    <3>1. t \in Int /\ e1 <= t /\ t < e2
      BY <1>1
    <3>2. t \notin c.blind
      <4>1. ~(2 * (t + 1) <= v2)
        BY <1>0, <2>1, <3>1
      <4> QED BY <1>3, <2>1, <3>1, <4>1
    <3> QED BY <1>3, <2>2, <3>1, <3>2
  <2> QED BY <1>6, <1>8, <2>1, <2>3
<1>18. I!HealthyMeansWatched
  BY <1>1, <1>17 DEF I!HealthyMeansWatched, I!None, e1, e2, h
<1>21. /\ v1 \in Nat \ {0} /\ v2 \in Nat \union {I!NotConfirmed}
       /\ v3 \in [I!Minutes -> I!Kinds] \union {I!Absent} /\ v4 \in [I!Minutes -> I!Kinds] \union {I!Absent}
       /\ v3 # I!Absent /\ v2 # I!NotConfirmed => \A m \in I!Minutes : v3[m] # "absent" => 2 * (I!At(I!this, m) + 1) > v2
       /\ I!Written(v6, I!this) /\ v5 \in I!Reports
  BY DEF IsReported
<1> QED BY <1>11, <1>13, <1>15, <1>16, <1>18, <1>21 DEF I!IncidentsInv

\* What is known of the events does not depend on what is open after the hour.
LEMMA SameHour ==
  ASSUME NEW h, NEW s, NEW baseline, NEW known, NEW p, NEW opened, NEW one, NEW other,
         NEW ev, NEW open, NEW next, NEW lost, NEW nextLoss,
         EventsOK(HourOf(h, s, baseline, known, p, opened, one), ev, open, next, lost, nextLoss)
  PROVE  EventsOK(HourOf(h, s, baseline, known, p, opened, other), ev, open, next, lost, nextLoss)
<1> DEFINE b == HourOf(h, s, baseline, known, p, opened, one)
           c == HourOf(h, s, baseline, known, p, opened, other)
<1>1. /\ b.start = c.start /\ b.end = c.end /\ b.bad = c.bad /\ b.fine = c.fine /\ b.judged = c.judged /\ b.handed = c.handed
      /\ b.opened = c.opened /\ b.lost = c.lost
  BY DEF HourOf
<1>2. EventsOK(b, ev, open, next, lost, nextLoss)
  OBVIOUS
<1> HIDE DEF b, c
<1>3. \A e : HappeningOK(b, e) => HappeningOK(c, e)
  BY <1>1 DEF HappeningOK
<1>4. EventsOK(c, ev, open, next, lost, nextLoss)
  BY <1>1, <1>2, <1>3 DEF EventsOK
<1> QED BY <1>4 DEF c

EvaluatedBy(h, s, baseline, r, last, reset, c, w, watched) ==
  /\ I!Evaluated(h, s, baseline, r, last, reset) = Filed(h, baseline, r, Based(r, h, reset), watched, w)
  /\ I!Written(I!Evaluated(h, s, baseline, r, last, reset), h)
  /\ ContextOK(c) /\ c.from = I!End(h - 2) /\ c.start = I!End(h - 1) /\ c.end = I!End(h)
  /\ c.opened = OpenOf(r.active) /\ c.lost = I!Elements(r.monitoring.active) /\ c.after = I!Elements(watched.active)
  /\ c.handed = (IF reset THEN {} ELSE I!Elements(r.good))
  /\ Now(c, s, baseline) /\ Before(c, IF reset THEN I!Absent ELSE last, r.baseline)
  /\ WalkOK(c, w, I!End(h))

LEMMA EvaluationOK ==
  ASSUME NEW h \in Int, NEW s, NEW baseline \in [I!Minutes -> I!Usual], NEW r, Continued(r, h),
         NEW reset \in BOOLEAN, reset => r.active # <<>> /\ r.active[1].reason \in I!FleetReasons,
         NEW last \in [I!Minutes -> I!Kinds] \union {I!Absent}
  PROVE  \E c, w, watched : EvaluatedBy(h, s, baseline, r, last, reset, c, w, watched)
<1> DEFINE p == Based(r, h, reset)
           known == I!AfterReset(last, h, p)
           watched == I!Watched(h, s, WatchBase(r, h, p, reset))
           w == I!Walked(h, s, baseline, WalkBase(h, p, known, watched.events))
           bad == I!PrecedingBadTail(h, known, p.baseline)
           next == Since(p.active, bad, I!End(h - 1))
           c0 == HourOf(h, s, baseline, known, p, OpenOf(r.active), {})
           c == HourOf(h, s, baseline, known, p, OpenOf(r.active), I!Elements(watched.active))
           e1 == I!End(h - 1)
           e0 == I!End(h - 2)
           e2 == I!End(h)
<1>1. I!Evaluated(h, s, baseline, r, last, reset) = Filed(h, baseline, r, p, watched, w)
  BY EvaluatedIs
<1>2. e0 \in Int /\ e1 \in Int /\ e2 \in Int /\ e1 = e0 + MinutesPerHour /\ e2 = e1 + MinutesPerHour
      /\ MinutesPerHour \in Nat /\ MinutesPerHour > 2 /\ Duration \in Nat /\ Duration >= 1
  BY Ends, Sizes
<1>3. /\ r \in I!Reports /\ Len(r.active) <= 1 /\ UpTo(r.good, e1) /\ r.resetAt <= e0
      /\ \A a \in I!Elements(r.active) : a.start + Duration <= e1 /\ \A u \in I!Elements(r.good) : a.start <= u
  BY DEF Continued
<1>4. r.active \in Seq(I!Starting) /\ r.good \in Seq(Int) /\ r.monitoring.active \in Seq(Int) /\ r.resetAt \in Int
  BY <1>3, ReportFields
<1>5. /\ p \in I!Reports /\ p.monitoring = r.monitoring /\ p.baseline = r.baseline
      /\ p.active = (IF reset THEN <<>> ELSE r.active) /\ p.good = (IF reset THEN <<>> ELSE r.good)
      /\ p.resetAt = (IF reset THEN e1 ELSE r.resetAt)
  BY <1>3, BasedIs
<1>6. known = IF p.resetAt > e0 THEN I!Absent ELSE last
  BY DEF I!AfterReset
<1> HIDE DEF p, known, watched, w, e0, e1, e2
<1>7. known = (IF reset THEN I!Absent ELSE last) /\ known \in [I!Minutes -> I!Kinds] \union {I!Absent} /\ p.resetAt \in Int /\ p.resetAt <= e1
  BY <1>2, <1>3, <1>4, <1>5, <1>6
<1>8. \/ r.active = <<>> /\ OpenOf(r.active) = {}
      \/ r.active # <<>> /\ r.active[1].start \in Int /\ OpenOf(r.active) = {r.active[1].start} /\ I!Elements(r.active) = {r.active[1]}
  BY <1>3, <1>4, ActiveIs
<1>9. OpenOf(r.active) \in SUBSET Int /\ I!Elements(r.monitoring.active) \in SUBSET Int
  BY <1>4, <1>8 DEF I!Elements
<1>10. UpTo(p.good, e1) /\ Len(p.active) <= 1
       /\ (\A a \in I!Elements(p.active) : a.start + Duration <= e1 /\ \A u \in I!Elements(p.good) : a.start <= u)
       /\ I!Elements(p.good) = (IF reset THEN {} ELSE I!Elements(r.good))
  <2>1. CASE reset
    <3>1. p.active = <<>> /\ p.good = <<>> /\ I!Elements(<<>>) = {} /\ Len(<<>>) = 0
      BY <1>5, <2>1 DEF I!Elements
    <3>2. UpTo(<<>>, e1)
      BY <1>2, <3>1, Sizes DEF UpTo
    <3> QED BY <2>1, <3>1, <3>2
  <2>2. CASE ~reset
    BY <1>3, <1>5, <2>2
  <2> QED BY <2>1, <2>2
<1>11. bad \in Seq(BadMinutes) /\ (reset => bad = <<>>)
  <2>1. known = I!Absent => bad = <<>>
    BY DEF I!PrecedingBadTail
  <2>2. known # I!Absent => bad \in Seq(BadMinutes)
    BY <1>7, PrecedingIs
  <2>3. <<>> \in Seq(BadMinutes)
    OBVIOUS
  <2> HIDE DEF bad
  <2> QED BY <1>7, <2>1, <2>2, <2>3
<1> HIDE DEF bad
<1>12. /\ next \in Int /\ (~reset /\ r.active # <<>> => next = r.active[1].start)
       /\ (reset => r.active[1].start < next)
  <2>1. p.active \in Seq(I!Starting) /\ Len(p.active) <= 1
    BY <1>5, <1>10, ReportFields
  <2>2. /\ next \in Int
        /\ p.active # <<>> => next = p.active[1].start
        /\ p.active = <<>> /\ bad = <<>> => next = e1
    <3>1. I!End(h - 1) \in Int
      BY <1>2 DEF e1
    <3> QED BY <1>11, <2>1, <3>1, SinceIs DEF e1
  <2> HIDE DEF next
  <2>3. CASE reset
    <3>1. next = e1
      BY <1>5, <1>11, <2>2, <2>3
    <3>2. r.active[1].start + Duration <= e1 /\ r.active[1].start \in Int
      BY <1>3, <1>8, <2>3
    <3> QED BY <1>2, <2>2, <2>3, <3>1, <3>2
  <2>4. CASE ~reset
    BY <1>5, <2>2, <2>4
  <2> QED BY <2>3, <2>4
<1>13. /\ ContextOK(c0) /\ c0.start = e1 /\ c0.end = e2 /\ c0.opened = OpenOf(r.active) /\ c0.lost = I!Elements(r.monitoring.active)
       /\ \A m \in I!Minutes : I!At(h, m) = c0.start + (m - 1)
  <2>1. {} \in SUBSET Int
    OBVIOUS
  <2>2. UpTo(p.good, I!End(h - 1))
    BY <1>10 DEF e1
  <2>3. p \in I!Reports /\ OpenOf(r.active) \in SUBSET Int
    BY <1>5, <1>9
  <2>4. /\ ContextOK(c0) /\ c0.start = I!End(h - 1) /\ c0.end = I!End(h) /\ c0.opened = OpenOf(r.active)
        /\ c0.lost = I!Elements(p.monitoring.active)
    BY <2>1, <2>2, <2>3, HourFields
  <2>5. \A m \in I!Minutes : I!At(h, m) = c0.start + (m - 1)
    BY <2>1, <2>2, <2>3, HourShown
  <2> HIDE DEF c0
  <2> QED BY <1>5, <2>4, <2>5 DEF e1, e2
<1> HIDE DEF c0
<1>14. WatchOK(c0, watched, e2, OpenOf(p.active), next)
  <2>1. WatchOK(c0, WatchBase(r, h, p, reset), I!End(h - 1), OpenOf(p.active), next)
    <3>1. c0.start = I!End(h - 1)
      BY <1>13 DEF e1
    <3> HIDE DEF next
    <3> QED BY <1>5, <1>12, <1>13, <3>1, WatchBaseOK
  <2>2. c0.start = I!End(h - 1) /\ c0.end = e2
    BY <1>13 DEF e1
  <2> HIDE DEF next
  <2>3. WatchOK(c0, WatchBase(r, h, p, reset), c0.start, OpenOf(p.active), next)
    BY <2>1, <2>2
  <2>4. WatchOK(c0, I!Watched(h, s, WatchBase(r, h, p, reset)), c0.end, OpenOf(p.active), next)
    BY <1>12, <1>13, <2>3, WatchedOK
  <2> QED BY <2>2, <2>4 DEF watched
<1>15. watched.active \in Seq(Int) /\ I!Elements(watched.active) \in SUBSET Int /\ watched.gap \in Seq(Int) /\ Len(watched.active) <= 1 /\ UpTo(watched.gap, e2)
       /\ EventsOK(c0, watched.events, OpenOf(p.active), next, I!Elements(watched.active), LostSince(watched.active, watched.gap, e2))
  <2>1. watched.active \in Seq(Int) /\ watched.gap \in Seq(Int)
    BY <1>14 DEF WatchOK, Watches
  <2>2. I!Elements(watched.active) \in SUBSET Int
    BY <2>1 DEF I!Elements
  <2> QED BY <1>14, <2>1, <2>2 DEF WatchOK
<1>16. /\ ContextOK(c) /\ c.from = e0 /\ c.start = e1 /\ c.end = e2 /\ c.opened = OpenOf(r.active) /\ c.lost = I!Elements(r.monitoring.active)
       /\ c.after = I!Elements(watched.active) /\ c.handed = I!Elements(p.good)
       /\ Before(c, known, p.baseline) /\ Now(c, s, baseline) /\ Shown(c, h, s, baseline)
  <2>1. UpTo(p.good, I!End(h - 1))
    BY <1>10 DEF e1
  <2>2. p \in I!Reports /\ OpenOf(r.active) \in SUBSET Int /\ I!Elements(watched.active) \in SUBSET Int
    BY <1>5, <1>9, <1>15
  <2>3. /\ ContextOK(c) /\ c.from = I!End(h - 2) /\ c.start = I!End(h - 1) /\ c.end = I!End(h) /\ c.opened = OpenOf(r.active)
        /\ c.lost = I!Elements(p.monitoring.active) /\ c.after = I!Elements(watched.active) /\ c.handed = I!Elements(p.good)
    BY <2>1, <2>2, HourFields
  <2>4. Before(c, known, p.baseline) /\ Now(c, s, baseline)
    BY <2>1, <2>2, HourFields
  <2>5. Shown(c, h, s, baseline)
    BY <2>1, <2>2, HourShown
  <2> HIDE DEF c
  <2> QED BY <1>5, <2>3, <2>4, <2>5 DEF e0, e1, e2
<1>17. EventsOK(c, watched.events, OpenOf(p.active), next, I!Elements(watched.active), LostSince(watched.active, watched.gap, e2))
  <2> HIDE DEF next
  <2> QED BY <1>15, SameHour DEF c0
<1>18. EventsOK(c, watched.events, OpenOf(p.active), next, c.after, c.end)
  <2> HIDE DEF next, c
  <2>1. LostSince(watched.active, watched.gap, e2) \in Int /\ LostSince(watched.active, watched.gap, e2) <= e2
    <3>1. /\ LostSince(watched.active, watched.gap, e2) \in Int
          /\ watched.active # <<>> => LostSince(watched.active, watched.gap, e2) = watched.active[1]
          /\ watched.active = <<>> => LostSince(watched.active, watched.gap, e2) <= e2
      BY <1>2, <1>15, LostSinceIs
    <3>2. watched.active # <<>> => watched.active[1] < e2
      BY <1>14 DEF WatchOK
    <3> QED BY <1>2, <3>1, <3>2
  <2>2. next <= next
    BY <1>12
  <2>3. EventsOK(c, watched.events, OpenOf(p.active), next, I!Elements(watched.active), e2)
    BY <1>2, <1>12, <1>17, <2>1, <2>2, EventsLater
  <2> QED BY <1>16, <2>3
<1>19. WatchOK(c, watched, e2, OpenOf(p.active), next)
  <2> HIDE DEF next, c
  <2> QED BY <1>14, <1>17 DEF WatchOK
<1>20. WalkOK(c, w, e2)
  <2>3. EventsOK(c, watched.events, OpenOf(p.active), Since(p.active, I!PrecedingBadTail(h, known, p.baseline), I!End(h - 1)), c.after, c.end)
    BY <1>18 DEF bad
  <2> HIDE DEF c
  <2>4. WalkOK(c, WalkBase(h, p, known, watched.events), I!End(h - 1))
    BY <1>5, <1>7, <1>10, <1>16, <2>3, WalkBaseOK DEF e0, e1
  <2>5. WalkOK(c, WalkBase(h, p, known, watched.events), c.start)
    BY <1>16, <2>4 DEF e1
  <2>6. WalkOK(c, I!Walked(h, s, baseline, WalkBase(h, p, known, watched.events)), c.end)
    BY <1>16, <2>5, WalkedOK
  <2> QED BY <1>16, <2>6 DEF w
<1>21. I!Written(Filed(h, baseline, r, p, watched, w), h)
  <2> HIDE DEF c, next
  <2> QED BY <1>7, <1>16, <1>19, <1>20, FiledWritten DEF e1, e2
<1>22. EvaluatedBy(h, s, baseline, r, last, reset, c, w, watched)
  <2> HIDE DEF c
  <2>1. Before(c, IF reset THEN I!Absent ELSE last, r.baseline)
    BY <1>5, <1>7, <1>16
  <2> QED BY <1>1, <1>10, <1>16, <1>20, <1>21, <2>1 DEF EvaluatedBy, e0, e1, e2, p
<1> HIDE DEF c
<1> QED BY <1>22

--------------------------------------------------------------------------------
(* The steps of FeedIncidents.                                                      *)

LEMMA ContinuedIs ==
  ASSUME NEW h \in Int, NEW r, NEW skipped \in 0 .. 1, I!Written(r, h - 1 - skipped)
  PROVE  Continued(IF skipped = 1 THEN I!Restored(r) ELSE r, h)
<1> DEFINE g == h - 1 - skipped
           e == I!End(g)
           e1 == I!End(h - 1)
           e0 == I!End(h - 2)
<1>0. g \in Int /\ (skipped = 0 => g = h - 1 /\ g - 1 = h - 2) /\ (skipped = 1 => g = h - 2 /\ g - 1 = h - 3)
  OBVIOUS
<1>1. e \in Int /\ I!End(g - 1) \in Int /\ e1 \in Int /\ e0 \in Int /\ e <= e1 /\ I!End(g - 1) <= e0 /\ Duration \in Nat
  <2> HIDE DEF g
  <2>1. e1 = e0 + MinutesPerHour /\ e1 \in Int /\ e0 \in Int /\ e = I!End(g - 1) + MinutesPerHour /\ e \in Int /\ I!End(g - 1) \in Int
    BY <1>0, Ends
  <2>2. MinutesPerHour \in Nat /\ Duration \in Nat
    BY Sizes
  <2>3. skipped = 0 => e = e1 /\ I!End(g - 1) = e0
    BY <1>0
  <2>4. skipped = 1 => e = e0
    BY <1>0
  <2> HIDE DEF e, e1, e0
  <2>5. skipped = 0 \/ skipped = 1
    OBVIOUS
  <2> QED BY <2>1, <2>2, <2>3, <2>4, <2>5
<1>2. /\ r \in I!Reports /\ Len(r.active) <= 1 /\ Len(r.monitoring.active) <= 1
      /\ I!IsTail(r.good, e - 1) /\ I!IsTail(r.monitoring.gap, e - 1) /\ I!IsTail(r.monitoring.good, e - 1)
      /\ \A a \in I!Elements(r.active) : a.start + Duration <= e /\ \A u \in I!Elements(r.good) : a.start <= u
      /\ \A t \in I!Elements(r.monitoring.active) : t < e /\ \A u \in I!Elements(r.monitoring.good) : t <= u
      /\ I!ValidReport(r, g)
  BY DEF I!Written
<1>3. /\ r.good \in Seq(Int) /\ r.monitoring.gap \in Seq(Int) /\ r.monitoring.good \in Seq(Int) /\ r.active \in Seq(I!Starting)
      /\ r.monitoring.active \in Seq(Int) /\ r.recent \in Seq(I!Interval) /\ r.resetAt \in Int
  BY <1>2, ReportFields
<1>4. /\ r.resetAt <= I!End(g - 1) /\ (r.monitoring.gap = <<>> \/ r.monitoring.good = <<>>) /\ Len(r.recent) <= MaxRecent
      /\ \A i \in I!Elements(r.recent) : i.start <= i.end /\ i.end <= e
  BY <1>2 DEF I!ValidReport, I!ValidState, I!ValidMonitoring, I!ValidInterval
<1>5. UpTo(r.good, e) /\ UpTo(r.monitoring.gap, e) /\ UpTo(r.monitoring.good, e)
  BY <1>1, <1>2, <1>3, TailIs
<1>6. \A a \in I!Elements(r.active) : a.start \in Int
  <2>1. I!Elements(r.active) \subseteq I!Starting
    BY <1>3 DEF I!Elements
  <2> QED BY <2>1 DEF I!Starting
<1>7. I!Elements(r.monitoring.active) \subseteq Int
  BY <1>3 DEF I!Elements
<1>8. \A i \in I!Elements(r.recent) : i.end \in Int
  <2>1. I!Elements(r.recent) \subseteq I!Interval
    BY <1>3 DEF I!Elements
  <2> QED BY <2>1 DEF I!Interval
<1> HIDE DEF g, e, e1, e0
<1>9. /\ \A a \in I!Elements(r.active) : a.start + Duration <= e1
      /\ \A t \in I!Elements(r.monitoring.active) : t < e1
      /\ \A i \in I!Elements(r.recent) : i.end <= e1
      /\ r.resetAt <= e0
  <2>1. \A a \in I!Elements(r.active) : a.start + Duration <= e1
    BY <1>1, <1>2, <1>6
  <2>2. \A t \in I!Elements(r.monitoring.active) : t < e1
    BY <1>1, <1>2, <1>7
  <2>3. \A i \in I!Elements(r.recent) : i.end <= e1
    BY <1>1, <1>4, <1>8
  <2>4. r.resetAt <= e0
    BY <1>1, <1>3, <1>4
  <2> QED BY <2>1, <2>2, <2>3, <2>4
<1>10. CASE skipped = 0
  <2>1. e = e1
    BY <1>0, <1>10 DEF e, e1
  <2>2. Continued(r, h)
    BY <1>2, <1>4, <1>5, <1>9, <2>1 DEF Continued, e1, e0
  <2> QED BY <1>10, <2>2
<1>11. CASE skipped = 1
  <2> DEFINE z == I!Restored(r)
  <2>1. /\ z \in I!Reports /\ z.good = <<>> /\ z.monitoring.gap = <<>> /\ z.monitoring.good = <<>>
        /\ z.active = r.active /\ z.monitoring.active = r.monitoring.active /\ z.resetAt = r.resetAt /\ z.recent = r.recent
    BY <1>2, RestoredIs
  <2>2. UpTo(<<>>, e1) /\ I!Elements(<<>>) = {}
    BY Sizes DEF UpTo, I!Elements
  <2> HIDE DEF z
  <2>3. Continued(z, h)
    BY <1>2, <1>4, <1>9, <2>1, <2>2 DEF Continued, e1, e0
  <2> QED BY <1>11, <2>3 DEF z
<1> QED BY <1>10, <1>11

LEMMA ReadableIs ==
  ASSUME NEW s \in [I!Minutes -> I!Kinds] \union {I!Absent}, NEW h
  PROVE  /\ I!Readable(s, h) \in [I!Minutes -> I!Kinds] \union {I!Absent}
         /\ I!Readable(s, h) # I!Absent /\ v2 # I!NotConfirmed =>
              \A m \in I!Minutes : I!Readable(s, h)[m] # "absent" => ~(2 * (I!At(h, m) + 1) <= v2)
BY DEF I!Readable

LEMMA Evaluates ==
  ASSUME I!IncidentsInv, I!Evaluate
  PROVE  \E c, w, watched : IsReported(c, w, watched)'
<1>1. PICK skipped \in 0 .. 1, read \in Summaries \union {I!Absent}, again \in Amended \union {v3, I!Absent}, baseline \in Baselines,
           reset \in BOOLEAN :
        LET h == v1 + skipped
            s == I!Readable(read, h)
            r == IF skipped = 1 THEN I!Restored(v6) ELSE v6
            last == IF skipped = 1 THEN I!Absent ELSE I!Readable(again, h - 1)
        IN  /\ reset => v6.active # I!None /\ v6.active[1].reason \in I!FleetReasons
            /\ v3' = s /\ v4' = last /\ v5' = r
            /\ v6' = I!Evaluated(h, s, baseline, r, last, reset)
            /\ v1' = h + 1
  BY DEF I!Evaluate
<1> DEFINE h == v1 + skipped
           s == I!Readable(read, h)
           r == IF skipped = 1 THEN I!Restored(v6) ELSE v6
           last == IF skipped = 1 THEN I!Absent ELSE I!Readable(again, h - 1)
           z == I!Evaluated(h, s, baseline, r, last, reset)
<1>2. v3' = s /\ v4' = last /\ v5' = r /\ v6' = z /\ v1' = h + 1 /\ v2' = v2
  BY <1>1 DEF I!Evaluate
<1>3. /\ v1 \in Nat /\ v1 > 0 /\ v2 \in Nat \union {I!NotConfirmed} /\ v3 \in [I!Minutes -> I!Kinds] \union {I!Absent}
      /\ I!Written(v6, I!this)
  BY DEF I!IncidentsInv
<1>4. /\ read \in [I!Minutes -> I!Kinds] \union {I!Absent} /\ again \in [I!Minutes -> I!Kinds] \union {I!Absent}
      /\ baseline \in [I!Minutes -> I!Usual]
  BY <1>3, IncidentsHold DEF I!IncidentsAssumption
<1>5. h \in Int /\ h > 0 /\ I!this = h - 1 - skipped /\ I!this' = h /\ v6 \in I!Reports
  <2>1. I!this = v1 - 1 /\ I!this' = v1' - 1
    BY DEF I!this
  <2>2. v6 \in I!Reports
    BY <1>3 DEF I!Written
  <2> QED BY <1>2, <1>3, <2>1, <2>2
<1>6. Continued(r, h)
  <2> HIDE DEF h
  <2>1. I!Written(v6, h - 1 - skipped)
    BY <1>3, <1>5
  <2> QED BY <1>5, <2>1, ContinuedIs
<1>7. r.active = v6.active /\ (skipped # 1 => r = v6) /\ r \in I!Reports
  BY <1>5, RestoredIs
<1>8. reset => r.active # <<>> /\ r.active[1].reason \in I!FleetReasons
  BY <1>1, <1>7 DEF I!None
<1>9. /\ last \in [I!Minutes -> I!Kinds] \union {I!Absent}
      /\ last # I!Absent /\ v2 # I!NotConfirmed => \A m \in I!Minutes : last[m] # "absent" => ~(2 * (I!At(h - 1, m) + 1) <= v2)
  <2> DEFINE g == h - 1
             z0 == I!Readable(again, g)
  <2>1. /\ z0 \in [I!Minutes -> I!Kinds] \union {I!Absent}
        /\ z0 # I!Absent /\ v2 # I!NotConfirmed => \A m \in I!Minutes : z0[m] # "absent" => ~(2 * (I!At(g, m) + 1) <= v2)
    <3> HIDE DEF g
    <3> QED BY <1>4, ReadableIs
  <2>2. last = IF skipped = 1 THEN I!Absent ELSE z0
    OBVIOUS
  <2> HIDE DEF z0, last, h
  <2> QED BY <2>1, <2>2
<1>12. PICK c, w, watched : EvaluatedBy(h, s, baseline, r, last, reset, c, w, watched)
  <2> HIDE DEF h, s, r, last
  <2> QED BY <1>4, <1>5, <1>6, <1>8, <1>9, EvaluationOK
<1>13. /\ s \in [I!Minutes -> I!Kinds] \union {I!Absent}
       /\ s # I!Absent /\ v2 # I!NotConfirmed => \A m \in I!Minutes : s[m] # "absent" => ~(2 * (I!At(h, m) + 1) <= v2)
  <2> HIDE DEF h
  <2> QED BY <1>4, ReadableIs
<1>14. v2 \in Int /\ \A m \in I!Minutes : I!At(h, m) \in Int
  <2>1. I!Minutes = 1 .. MinutesPerHour /\ MinutesPerHour \in Nat
    BY Sizes
  <2> HIDE DEF h
  <2>2. \A m \in I!Minutes : I!At(h, m) = I!End(h - 1) + (m - 1) /\ I!End(h - 1) \in Int
    BY <1>5, Ends
  <2>3. \A m \in I!Minutes : m \in Int
    BY <2>1
  <2> QED BY <1>3, <2>2, <2>3 DEF I!NotConfirmed
<1>15. last # I!Absent /\ v2 # I!NotConfirmed => \A m \in I!Minutes : last[m] # "absent" => 2 * (I!At(h - 1, m) + 1) > v2
  <2>1. \A m \in I!Minutes : I!At(h - 1, m) \in Int
    <3>1. I!Minutes = 1 .. MinutesPerHour /\ MinutesPerHour \in Nat
      BY Sizes
    <3> DEFINE g == h - 1
    <3> HIDE DEF h
    <3>2. g \in Int
      BY <1>5
    <3> HIDE DEF g
    <3>3. \A m \in I!Minutes : I!At(g, m) = I!End(g - 1) + (m - 1) /\ I!End(g - 1) \in Int
      BY <3>2, Ends
    <3>4. \A m \in I!Minutes : m \in Int
      BY <3>1
    <3>5. \A m \in I!Minutes : I!At(g, m) \in Int
      BY <3>3, <3>4
    <3> QED BY <3>5 DEF g
  <2> HIDE DEF h, last
  <2> SUFFICES ASSUME last # I!Absent, v2 # I!NotConfirmed, NEW m \in I!Minutes, last[m] # "absent" PROVE 2 * (I!At(h - 1, m) + 1) > v2
    OBVIOUS
  <2>2. ~(2 * (I!At(h - 1, m) + 1) <= v2)
    BY <1>9
  <2> QED BY <1>14, <2>1, <2>2
<1> DEFINE p == Based(r, h, reset)
<1>16. /\ z = Filed(h, baseline, r, p, watched, w) /\ I!Written(z, h)
       /\ ContextOK(c) /\ c.from = I!End(h - 2) /\ c.start = I!End(h - 1) /\ c.end = I!End(h)
       /\ c.opened = OpenOf(r.active) /\ c.lost = I!Elements(r.monitoring.active) /\ c.after = I!Elements(watched.active)
       /\ c.handed = (IF reset THEN {} ELSE I!Elements(r.good))
       /\ Now(c, s, baseline) /\ Before(c, IF reset THEN I!Absent ELSE last, r.baseline)
       /\ WalkOK(c, w, I!End(h))
  <2> HIDE DEF h, s, r, last
  <2> QED BY <1>12 DEF EvaluatedBy, z, p
<1> HIDE DEF h, s, r, last, z
<1>17. p.resetAt = (IF reset THEN I!End(h - 1) ELSE r.resetAt) /\ r.resetAt \in Int /\ r.resetAt <= I!End(h - 2)
  BY <1>5, <1>6, <1>7, BasedIs, ReportFields DEF Continued
<1> HIDE DEF p
<1>18. /\ z.intervals = Closed(h, w) /\ z.events = w.events /\ z.active = w.active /\ z.good = w.good /\ z.resetAt = p.resetAt
       /\ z.monitoring.active = watched.active /\ z.baseline = baseline /\ z.status = I!Status(h, w, baseline)
  BY <1>16 DEF Filed
<1>19. c.from \in Int /\ c.start \in Int /\ c.start = c.from + MinutesPerHour /\ c.end = c.start + MinutesPerHour /\ MinutesPerHour \in Nat
       /\ MinutesPerHour > 2 /\ c.handed \subseteq Int /\ \A u \in c.handed : c.from <= u /\ u < c.start
  BY <1>16, ContextFields, Sizes
<1>20. /\ z.resetAt \in Int /\ z.resetAt <= c.start /\ (z.resetAt > c.from => z.resetAt = c.start)
       /\ (z.resetAt > c.from <=> reset)
  BY <1>16, <1>17, <1>18, <1>19
<1>21. \A u \in c.handed : u \in I!Elements(r.good) /\ u >= z.resetAt
  BY <1>16, <1>17, <1>18, <1>19
<1>22. z.status = "healthy" => w.active = <<>> /\ ~w.gaps /\ v2 # I!NotConfirmed /\ v2 <= 2 * c.start
  <2> DEFINE partial == I!End(h - 1) * 2 < v2 /\ v2 < I!End(h) * 2
             judged == \E m \in I!Minutes : baseline[m] = "judged"
             none == \A m \in I!Minutes : baseline[m] = "none"
             late == v2 >= I!End(h) * 2
  <2>1. z.status = IF v2 = I!NotConfirmed \/ late THEN "not_monitored"
                   ELSE IF w.active # <<>> /\ w.monitored > 0 /\ (judged \/ w.anyBad) THEN "degraded"
                   ELSE IF w.gaps THEN IF partial THEN "partial" ELSE "monitoring_gap"
                   ELSE IF partial THEN "partial"
                   ELSE IF none THEN "warming_up"
                   ELSE IF w.active # <<>> THEN "degraded"
                   ELSE "healthy"
    BY <1>18 DEF I!Status, I!None
  <2>2. ~late /\ ~partial => v2 <= 2 * c.start
    BY <1>14, <1>16, <1>19
  <2> HIDE DEF partial, judged, none, late
  <2> QED BY <2>1, <2>2
<1>23. Now(c, v3, v6.baseline)'
  <2>1. v6'.baseline = baseline
    BY <1>2, <1>18
  <2> QED BY <1>2, <1>16, <2>1 DEF Now, Blind
<1>24. (IF z.resetAt > c.from THEN I!Absent ELSE last) = (IF reset THEN I!Absent ELSE last)
  BY <1>20
<1>25. OpenOf(r.active) = I!IncidentOpen(r)
  BY DEF OpenOf, I!IncidentOpen
<1>26. s # I!Absent /\ v2 # I!NotConfirmed => \A m \in I!Minutes : s[m] # "absent" => 2 * (I!At(h, m) + 1) > v2
  <2> SUFFICES ASSUME s # I!Absent, v2 # I!NotConfirmed, NEW m \in I!Minutes, s[m] # "absent" PROVE 2 * (I!At(h, m) + 1) > v2
    OBVIOUS
  <2>1. ~(2 * (I!At(h, m) + 1) <= v2)
    BY <1>13
  <2> QED BY <1>14, <2>1
<1>27. h + 1 \in Nat /\ h + 1 > 1
  BY <1>5
<1>28. IsReported(c, w, watched)'
  BY <1>2, <1>3, <1>5, <1>7, <1>9, <1>13, <1>15, <1>16, <1>18, <1>20, <1>21, <1>22, <1>23, <1>24, <1>25, <1>26, <1>27 DEF IsReported
<1> QED BY <1>28

LEMMA IncidentsInit == I!Init => I!IncidentsInv
<1> SUFFICES ASSUME I!Init PROVE I!IncidentsInv OBVIOUS
<1>1. v1 = 1 /\ v2 \in CollectionStarts /\ v3 = I!Absent /\ v4 = I!Absent /\ v6 \in Seeds /\ v5 = v6 /\ I!this = 0
  BY DEF I!Init, I!this
<1>2. I!Written(v6, 0) /\ v2 \in Nat \union {I!NotConfirmed}
  BY <1>1, IncidentsHold DEF I!IncidentsAssumption
<1>3. v6 \in I!Reports /\ ~I!Ever
  BY <1>1, <1>2 DEF I!Written, I!Ever
<1>4. I!NothingMissed /\ I!IncidentEarned /\ I!RecoveryEarned /\ I!EventsAlternate /\ I!HealthyMeansWatched
  BY <1>3 DEF I!NothingMissed, I!IncidentEarned, I!RecoveryEarned, I!EventsAlternate, I!HealthyMeansWatched
<1> QED BY <1>1, <1>2, <1>3, <1>4 DEF I!IncidentsInv

LEMMA IncidentsStand == ASSUME I!IncidentsInv, UNCHANGED I!vars PROVE I!IncidentsInv'
<1>1. v1' = v1 /\ v2' = v2 /\ v3' = v3 /\ v4' = v4 /\ v5' = v5 /\ v6' = v6
  BY DEF I!vars
<1>2. I!this' = I!this /\ (I!Ever' <=> I!Ever)
  BY <1>1 DEF I!this, I!Ever
<1>3. \A t : (I!Seen(t)' <=> I!Seen(t)) /\ (I!Bad(t)' <=> I!Bad(t)) /\ (I!Fine(t)' <=> I!Fine(t)) /\ I!MinuteOf(t)' = I!MinuteOf(t)
  BY <1>1 DEF I!Seen, I!Bad, I!Fine, I!MinuteOf, I!Collected, I!SummaryAt, I!BaselineAt, I!this
<1>4. I!Window' = I!Window
  BY <1>2 DEF I!Window
<1>5. I!NothingMissed'
  BY <1>1, <1>2, <1>3, <1>4 DEF I!IncidentsInv, I!NothingMissed
<1>6. I!IncidentEarned'
  BY <1>1, <1>2, <1>3, <1>4 DEF I!IncidentsInv, I!IncidentEarned
<1>7. I!RecoveryEarned'
  BY <1>1, <1>2, <1>3, <1>4 DEF I!IncidentsInv, I!RecoveryEarned
<1>8. I!EventsAlternate'
  BY <1>1, <1>2 DEF I!IncidentsInv, I!EventsAlternate
<1>9. I!HealthyMeansWatched'
  BY <1>1, <1>2, <1>3 DEF I!IncidentsInv, I!HealthyMeansWatched
<1> QED BY <1>1, <1>2, <1>3, <1>5, <1>6, <1>7, <1>8, <1>9 DEF I!IncidentsInv

\* An evaluation leaves what it reported, and with it the invariant.
Reported == \E c, w, watched : IsReported(c, w, watched)
LEMMA ReportedHolds == Reported => I!IncidentsInv
BY ReportedSays DEF Reported

LEMMA ReportedNext == Reported' => I!IncidentsInv'
BY ReportedHolds, PTL

LEMMA IncidentsStep == ASSUME I!IncidentsInv, I!Next PROVE I!IncidentsInv'
<1>1. CASE I!Evaluate
  <2>1. Reported'
    BY <1>1, Evaluates DEF Reported
  <2> QED BY <2>1, ReportedNext
<1>2. CASE UNCHANGED I!vars
  BY <1>2, IncidentsStand
<1> QED BY <1>1, <1>2 DEF I!Next

LEMMA IncidentsSafe ==
  I!IncidentsInv => /\ I!ReportReadable /\ I!NothingMissed /\ I!IncidentEarned /\ I!RecoveryEarned /\ I!EventsAlternate
                    /\ I!HealthyMeansWatched
BY DEF I!IncidentsInv, I!Written, I!ReportReadable

--------------------------------------------------------------------------------
(* RawGpsLoad: v1 uploaded, v2 jobs, v3 rows, v4 task, v5 tries, v6 errors          *)

LoaderRecords == [state : {"idle", "submit", "wait", "done", "failed"}, todo : SUBSET GpsParts, listed : SUBSET GpsParts]

LEMMA FirstPart == ASSUME NEW S \in SUBSET GpsParts, S # {} PROVE B!First(S) \in S
<1>1. \E p \in S : \A q \in S : p <= q BY LeastOf, RawHolds DEF B!RawAssumption
<1> QED BY <1>1 DEF B!First

LEMMA RawInit == B!Init => B!RawInv
<1> SUFFICES ASSUME B!Init PROVE B!RawInv OBVIOUS
<1> USE DEF B!Init, B!Idle
<1>1. B!Shapes BY DEF B!Shapes, B!JobStates
<1>2. B!RowsInv BY DEF B!RowsInv
<1>3. B!SeenInv BY DEF B!SeenInv
<1> QED BY <1>1, <1>2, <1>3 DEF B!RawInv

LEMMA RawStands == ASSUME B!RawInv, UNCHANGED <<v1, v2, v3, v4, v5, v6>> PROVE B!RawInv'
BY DEF B!RawInv, B!Shapes, B!RowsInv, B!SeenInv

\* A job that exists goes on existing, and one that is done stays done.
LEMMA SeenStands ==
  ASSUME B!SeenInv, B!Shapes, UNCHANGED v4,
         \A p \in GpsParts : v2[p] # "none" => v2'[p] # "none",
         \A p \in GpsParts : v2[p] = "done" => v2'[p] = "done"
  PROVE  B!SeenInv'
<1> SUFFICES ASSUME NEW l \in Loaders, v4[l].state # "failed"
             PROVE  /\ \A p \in v4[l].listed \ v4[l].todo : v2'[p] = "done"
                    /\ v4[l].state \in {"idle", "done"} <=> v4[l].todo = {}
                    /\ v4[l].state = "wait" => v2'[B!First(v4[l].todo)] # "none"
  BY DEF B!SeenInv
<1>1. v4[l] \in LoaderRecords BY DEF B!Shapes, LoaderRecords
<1>2. /\ \A p \in v4[l].listed \ v4[l].todo : v2[p] = "done"
      /\ v4[l].state \in {"idle", "done"} <=> v4[l].todo = {}
      /\ v4[l].state = "wait" => v2[B!First(v4[l].todo)] # "none"
  BY DEF B!SeenInv
<1>3. v4[l].state = "wait" => B!First(v4[l].todo) \in GpsParts BY <1>1, <1>2, FirstPart DEF LoaderRecords
<1> QED BY <1>1, <1>2, <1>3 DEF LoaderRecords

LEMMA UploadKeeps == ASSUME B!RawInv, NEW p \in GpsParts, B!Upload(p) PROVE B!RawInv'
BY DEF B!Upload, B!RawInv, B!Shapes, B!RowsInv, B!SeenInv

LEMMA JobRunsKeeps == ASSUME B!RawInv, NEW p \in GpsParts, B!JobRuns(p) PROVE B!RawInv'
<1> USE DEF B!RawInv
<1>0. v2 \in [GpsParts -> B!JobStates] /\ v2[p] = "running" /\ UNCHANGED <<v1, v4>> BY DEF B!JobRuns, B!Shapes
<1>1. PICK s \in {"done", "error"} : v2' = [v2 EXCEPT ![p] = s] /\ (s = "done" => v3' = [v3 EXCEPT ![p] = @ + 1])
                                     /\ (s = "error" => v3' = v3)
  BY DEF B!JobRuns
<1>2. v2'[p] = s /\ \A q \in GpsParts : q # p => v2'[q] = v2[q] BY <1>0, <1>1
<1>3. B!Shapes' BY <1>0, <1>1 DEF B!Shapes, B!JobStates
<1>4. B!RowsInv'
  <2>1. v3 = [q \in GpsParts |-> IF v2[q] = "done" THEN 1 ELSE 0] BY DEF B!RowsInv
  <2>2. CASE s = "done"
    <3>1. v3' = [q \in GpsParts |-> IF q = p THEN 0 + 1 ELSE v3[q]] BY <1>0, <1>1, <2>1, <2>2
    <3> QED BY <1>2, <2>1, <2>2, <3>1 DEF B!RowsInv
  <2>3. CASE s = "error" BY <1>0, <1>1, <1>2, <2>1, <2>3 DEF B!RowsInv
  <2> QED BY <2>2, <2>3
<1>5. B!SeenInv' BY <1>0, <1>2, SeenStands
<1> QED BY <1>3, <1>4, <1>5

LEMMA ListKeeps == ASSUME B!RawInv, NEW l \in Loaders, B!List(l) PROVE B!RawInv'
<1> USE DEF B!RawInv
<1>0. v4 \in [Loaders -> LoaderRecords] /\ v1 \subseteq GpsParts BY DEF B!Shapes, LoaderRecords
<1>1. /\ v4' = [v4 EXCEPT ![l] = [state |-> IF v1 = {} THEN "done" ELSE "submit", todo |-> v1, listed |-> v1]]
      /\ UNCHANGED <<v1, v2, v3>>
  BY DEF B!List
<1>2. v4'[l] = [state |-> IF v1 = {} THEN "done" ELSE "submit", todo |-> v1, listed |-> v1]
      /\ \A k \in Loaders : k # l => v4'[k] = v4[k]
  BY <1>0, <1>1
<1>3. v4'[l].state = (IF v1 = {} THEN "done" ELSE "submit") /\ v4'[l].todo = v1 /\ v4'[l].listed = v1 BY <1>2
<1>4. v4' \in [Loaders -> LoaderRecords] BY <1>0, <1>1, <1>2 DEF LoaderRecords
<1>5. B!Shapes' BY <1>1, <1>4 DEF B!Shapes, LoaderRecords
<1>6. B!RowsInv' BY <1>1 DEF B!RowsInv
<1>7. B!SeenInv' BY <1>1, <1>2, <1>3 DEF B!SeenInv
<1> QED BY <1>5, <1>6, <1>7

LEMMA SubmitKeeps == ASSUME B!RawInv, NEW l \in Loaders, B!Submit(l) PROVE B!RawInv'
<1> USE DEF B!RawInv
<1> DEFINE p == B!First(v4[l].todo)
<1>0. v4 \in [Loaders -> LoaderRecords] /\ v2 \in [GpsParts -> B!JobStates] BY DEF B!Shapes, LoaderRecords
<1>1. /\ v4[l].state = "submit" /\ v4' = [v4 EXCEPT ![l].state = "wait"] /\ UNCHANGED <<v1, v3>>
      /\ v2' = IF v2[p] = "none" THEN [v2 EXCEPT ![p] = "running"] ELSE v2
  BY DEF B!Submit, B!Submitted
<1>2. v4[l] \in LoaderRecords /\ v4[l].todo # {} BY <1>0, <1>1 DEF B!SeenInv
<1>3. p \in GpsParts BY <1>2, FirstPart DEF LoaderRecords
<1>4. v4'[l] = [v4[l] EXCEPT !.state = "wait"] /\ \A k \in Loaders : k # l => v4'[k] = v4[k] BY <1>0, <1>1
<1>5. v4'[l] \in LoaderRecords /\ v4'[l].state = "wait" /\ v4'[l].todo = v4[l].todo /\ v4'[l].listed = v4[l].listed
  BY <1>2, <1>4 DEF LoaderRecords
<1>6. B!First(v4'[l].todo) = p BY <1>5
<1> HIDE DEF p
<1>7. /\ v2' \in [GpsParts -> B!JobStates] /\ v2'[p] # "none"
      /\ \A q \in GpsParts : v2[q] # "none" => v2'[q] = v2[q]
      /\ \A q \in GpsParts : v2'[q] = "done" <=> v2[q] = "done"
  BY <1>0, <1>1, <1>3 DEF B!JobStates
<1>8. v4' \in [Loaders -> LoaderRecords] BY <1>0, <1>1, <1>5
<1>9. B!Shapes' BY <1>1, <1>7, <1>8 DEF B!Shapes, LoaderRecords
<1>10. B!RowsInv' BY <1>1, <1>7 DEF B!RowsInv
<1>11. B!SeenInv'
  <2>1. ASSUME NEW k \in Loaders, v4'[k].state # "failed"
        PROVE  /\ \A q \in v4'[k].listed \ v4'[k].todo : v2'[q] = "done"
               /\ v4'[k].state \in {"idle", "done"} <=> v4'[k].todo = {}
               /\ v4'[k].state = "wait" => v2'[B!First(v4'[k].todo)] # "none"
    <3>0. v4[k] \in LoaderRecords BY <1>0
    <3>1. v4[k].state # "failed" /\ v4'[k].todo = v4[k].todo /\ v4'[k].listed = v4[k].listed
      BY <1>1, <1>4, <1>5, <2>1
    <3>2. \A q \in v4[k].listed \ v4[k].todo : v2[q] = "done" BY <3>1 DEF B!SeenInv
    <3>3. \A q \in v4'[k].listed \ v4'[k].todo : v2'[q] = "done" BY <1>7, <3>0, <3>1, <3>2 DEF LoaderRecords
    <3>4. CASE k = l BY <1>2, <1>5, <1>6, <1>7, <3>3, <3>4
    <3>5. CASE k # l
      <4>1. v4'[k] = v4[k] BY <1>4, <3>5
      <4>2. /\ v4[k].state \in {"idle", "done"} <=> v4[k].todo = {}
            /\ v4[k].state = "wait" => v2[B!First(v4[k].todo)] # "none"
        BY <3>1 DEF B!SeenInv
      <4>3. v4[k].state = "wait" => B!First(v4[k].todo) \in GpsParts BY <3>0, <4>2, FirstPart DEF LoaderRecords
      <4> QED BY <1>7, <3>3, <4>1, <4>2, <4>3
    <3> QED BY <3>4, <3>5
  <2> QED BY <2>1 DEF B!SeenInv
<1> QED BY <1>9, <1>10, <1>11

\* A step of one task that leaves the jobs alone.
LEMMA TaskMoved ==
  ASSUME B!RawInv, NEW l \in Loaders, UNCHANGED <<v1, v2, v3>>, NEW t \in LoaderRecords, v4' = [v4 EXCEPT ![l] = t],
         t.state # "failed" =>
           /\ \A p \in t.listed \ t.todo : v2[p] = "done"
           /\ t.state \in {"submit", "done"} /\ (t.state = "done" <=> t.todo = {})
  PROVE  B!RawInv'
<1> USE DEF B!RawInv
<1>0. v4 \in [Loaders -> LoaderRecords] BY DEF B!Shapes, LoaderRecords
<1>1. v4'[l] = t /\ \A k \in Loaders : k # l => v4'[k] = v4[k] BY <1>0
<1>2. B!Shapes' BY <1>0 DEF B!Shapes, LoaderRecords
<1>3. B!RowsInv' BY DEF B!RowsInv
<1>4. B!SeenInv' BY <1>1 DEF B!SeenInv
<1> QED BY <1>2, <1>3, <1>4

LEMMA ResultKeeps == ASSUME B!RawInv, NEW l \in Loaders, B!Result(l) PROVE B!RawInv'
<1> DEFINE p == B!First(v4[l].todo)
           left == v4[l].todo \ {p}
<1>0. v4 \in [Loaders -> LoaderRecords] /\ v2 \in [GpsParts -> B!JobStates] BY DEF B!RawInv, B!Shapes, LoaderRecords
<1>1. /\ v4[l].state = "wait" /\ v2[p] # "running" /\ UNCHANGED <<v1, v2, v3>>
      /\ v4' = [v4 EXCEPT ![l].state = IF v2[p] = "error" THEN "failed" ELSE IF left = {} THEN "done" ELSE "submit",
                          ![l].todo = left]
  BY DEF B!Result, B!Raised
<1>2. v4[l] \in LoaderRecords BY <1>0
<1>3. /\ v4[l].todo # {} /\ v2[p] # "none" /\ \A q \in v4[l].listed \ v4[l].todo : v2[q] = "done"
  BY <1>1 DEF B!RawInv, B!SeenInv
<1>4. p \in GpsParts BY <1>2, <1>3, FirstPart DEF LoaderRecords
<1> HIDE DEF p
<1> DEFINE t == [state |-> IF v2[p] = "error" THEN "failed" ELSE IF left = {} THEN "done" ELSE "submit",
                 todo |-> left, listed |-> v4[l].listed]
<1>5. v4' = [v4 EXCEPT ![l] = t]
  <2>1. PICK e : e = [v4[l] EXCEPT !.state = t.state, !.todo = left] OBVIOUS
  <2>2. v4' = [v4 EXCEPT ![l] = e] BY <1>0, <1>1, <2>1
  <2>3. e \in LoaderRecords /\ e.state = t.state /\ e.todo = left /\ e.listed = v4[l].listed
    BY <1>2, <2>1 DEF LoaderRecords
  <2>4. e = t BY <2>3 DEF LoaderRecords
  <2> QED BY <2>2, <2>4
<1>6. t \in LoaderRecords BY <1>2 DEF LoaderRecords
<1>7. t.state # "failed" =>
        /\ \A q \in t.listed \ t.todo : v2[q] = "done"
        /\ t.state \in {"submit", "done"} /\ (t.state = "done" <=> t.todo = {})
  BY <1>0, <1>1, <1>3, <1>4 DEF B!JobStates
<1> HIDE DEF t
<1> QED BY <1>1, <1>5, <1>6, <1>7, TaskMoved

LEMMA KillKeeps == ASSUME B!RawInv, NEW l \in Loaders, B!Kill(l) PROVE B!RawInv'
<1>0. v4 \in [Loaders -> LoaderRecords] BY DEF B!RawInv, B!Shapes, LoaderRecords
<1>1. v4' = [v4 EXCEPT ![l].state = "failed"] /\ UNCHANGED <<v1, v2, v3>> BY DEF B!Kill
<1> DEFINE t == [v4[l] EXCEPT !.state = "failed"]
<1>2. v4' = [v4 EXCEPT ![l] = t] BY <1>0, <1>1
<1>3. t \in LoaderRecords /\ t.state = "failed" BY <1>0 DEF LoaderRecords
<1> HIDE DEF t
<1> QED BY <1>1, <1>2, <1>3, TaskMoved

LEMMA RawStep == ASSUME B!RawInv, B!Next PROVE B!RawInv'
<1>1. CASE UNCHANGED B!vars
  <2>1. UNCHANGED <<v1, v2, v3, v4, v5, v6>> BY <1>1 DEF B!vars
  <2> QED BY <2>1, RawStands
<1> QED BY <1>1, UploadKeeps, JobRunsKeeps, ListKeeps, SubmitKeeps, ResultKeeps, KillKeeps DEF B!Next

LEMMA RawSafe == B!RawInv => B!AppendedOnce /\ B!EmittedLoaded
<1> SUFFICES ASSUME B!RawInv PROVE B!AppendedOnce /\ B!EmittedLoaded OBVIOUS
<1> USE DEF B!RawInv
<1>1. v3 = [p \in GpsParts |-> IF v2[p] = "done" THEN 1 ELSE 0] BY DEF B!RowsInv
<1>2. B!AppendedOnce BY <1>1 DEF B!AppendedOnce
<1>3. B!EmittedLoaded
  <2>1. ASSUME NEW l \in Loaders, v4[l].state = "done", NEW p \in v4[l].listed PROVE v3[p] = 1
    <3>1. v2[p] = "done" BY <2>1 DEF B!SeenInv
    <3>2. p \in GpsParts BY DEF B!Shapes
    <3> QED BY <1>1, <3>1, <3>2
  <2> QED BY <2>1 DEF B!EmittedLoaded
<1> QED BY <1>2, <1>3

--------------------------------------------------------------------------------
(* HistoricalCorrection: v1 request, v2 plan, v3 daily, v4 refresh, v5 exports,     *)
(* v6 unserved, v7 ctl, v8 starts, v9 failures, v10 retries                         *)

DayStates == {"none", "queued", "running", "success", "failed"}
RefreshRecords == [state : {"none", "queued", "running", "exporting", "success", "failed"}, export : Nat]
ControllerRecords == [step : {"idle"} \union Y!Correcting \union Y!Refreshing, at : Nat, retry : BOOLEAN, export : Nat]

LEMMA RequestIs ==
  ASSUME v1 \in Requests
  PROVE  v1.start \in Int /\ v1.end \in Int /\ v1.through \in Int /\ EarliestDate \in Nat \ {0}
BY CorrectionHolds DEF Y!CorrectionAssumption

\* The plan: its days are natural numbers without the excluded ones, and what is
\* refreshed is closed upwards and holds every date a correction rewrites.
LEMMA PlanIs ==
  ASSUME v1 \in Requests, v2 = Y!Plan
  PROVE  /\ v2.days \subseteq Nat \ v1.excluded
         /\ v2 # Y!None => v2.days # {}
         /\ \A d \in v2.days : {d, d - 1} \ v1.excluded \subseteq v2.refreshDays
         /\ Y!PlanCovers
<1>1. CASE v2 = Y!None
  <2>1. v2.days = {} /\ v2.refreshDays = {} BY <1>1 DEF Y!None
  <2> QED BY <1>1, <2>1 DEF Y!PlanCovers
<1>2. CASE v2 # Y!None
  <2>1. /\ v2 = [days |-> Y!EligibleDates, refreshDays |-> Y!RefreshDays(Y!EligibleDates)]
        /\ v1.end <= v1.through /\ v1.start >= EarliestDate
        /\ Y!EligibleDates # {} /\ Y!RefreshDays(Y!EligibleDates) \subseteq v1.mapped
    BY <1>2 DEF Y!Plan
  <2>2. v2.days = Y!EligibleDates /\ v2.refreshDays = Y!RefreshDays(v2.days) BY <2>1
  <2>3. \A d \in v2.days : d \in v1.start .. v1.end /\ d \notin v1.excluded
    BY <2>2 DEF Y!EligibleDates, Y!Excluded
  <2>4. \A d \in v2.days : d \in Nat /\ d - 1 \in Nat /\ d \in 0 .. v1.through /\ d - 1 \in 0 .. v1.through
    BY <2>1, <2>3, RequestIs
  <2>5. \A d : d \in v2.refreshDays <=>
           d \in 0 .. v1.through /\ d \notin v1.excluded /\ \E e \in v2.days : \E a \in Y!Affected(e) : a <= d
    BY <2>2 DEF Y!RefreshDays, Y!Excluded
  <2>6. \A e \in v2.days : e \in Y!Affected(e) /\ (e - 1 \notin v1.excluded => e - 1 \in Y!Affected(e))
                           /\ \A a \in Y!Affected(e) : a \in Int
    BY <2>4 DEF Y!Affected, Y!Excluded
  <2>7. \A d \in v2.days : {d, d - 1} \ v1.excluded \subseteq v2.refreshDays
    <3>1. ASSUME NEW d \in v2.days, NEW e \in {d, d - 1} \ v1.excluded PROVE e \in v2.refreshDays
      <4>1. e \in 0 .. v1.through /\ e <= e BY <2>4
      <4>2. e \in Y!Affected(d) BY <2>6
      <4> QED BY <2>5, <4>1, <4>2
    <3> QED BY <3>1
  <2>8. ASSUME NEW d \in v2.refreshDays, NEW e \in 0 .. v1.through, e >= d, e \notin v1.excluded
        PROVE  e \in v2.refreshDays
    <3>1. PICK f \in v2.days : \E a \in Y!Affected(f) : a <= d BY <2>5
    <3>2. PICK a \in Y!Affected(f) : a <= d BY <3>1
    <3>3. a \in Int /\ d \in Int /\ e \in Int BY <2>5, <2>6
    <3>4. a <= e BY <2>8, <3>2, <3>3
    <3> QED BY <2>5, <2>8, <3>4
  <2>9. v2.refreshDays \intersect v1.excluded = {} BY <2>5
  <2>10. v2.refreshDays \subseteq v1.mapped BY <2>1, <2>2
  <2>11. Y!PlanCovers BY <2>7, <2>8, <2>9, <2>10 DEF Y!PlanCovers
  <2> QED BY <2>1, <2>2, <2>3, <2>4, <2>7, <2>11
<1> QED BY <1>1, <1>2

LEMMA FirstDay == ASSUME NEW S, S \subseteq Nat, S # {} PROVE Y!First(S) \in S /\ \A d \in S : Y!First(S) <= d
BY LeastOf DEF Y!First

LEMMA CorrectionShapes ==
  ASSUME Y!Shapes
  PROVE  /\ v2.days \subseteq Nat \ v1.excluded /\ v3 \in [v2.days -> DayStates] /\ v4 \in RefreshRecords
         /\ v7 \in [Controllers -> ControllerRecords] /\ v10 \in Nat /\ (v2 # Y!None => v2.days # {})
         /\ \A d \in v2.days : {d, d - 1} \ v1.excluded \subseteq v2.refreshDays
BY PlanIs DEF Y!Shapes, DayStates, RefreshRecords, ControllerRecords

LEMMA CorrectionInit == Y!Init => Y!CorrectionInv
<1> SUFFICES ASSUME Y!Init PROVE Y!CorrectionInv OBVIOUS
<1> USE DEF Y!Init
<1>1. Y!Shapes
  <2>1. v7 \in [Controllers -> ControllerRecords] BY DEF Y!Idle, ControllerRecords
  <2>2. v4 \in RefreshRecords BY DEF Y!Absent, RefreshRecords
  <2> QED BY <2>1, <2>2 DEF Y!Shapes, ControllerRecords, RefreshRecords
<1>2. \A c \in Controllers : v7[c].step = "idle" BY DEF Y!Idle
<1>3. Y!OrderInv BY <1>2 DEF Y!OrderInv, Y!Correcting, Y!Refreshing
<1>4. Y!RefreshLast BY DEF Y!RefreshLast
<1>5. Y!ServedInv BY DEF Y!ServedInv
<1> QED BY <1>1, <1>3, <1>4, <1>5 DEF Y!CorrectionInv

LEMMA CorrectionStands ==
  ASSUME Y!CorrectionInv, UNCHANGED <<v1, v2, v3, v4, v5, v6, v7, v8, v9, v10>> PROVE Y!CorrectionInv'
<1> USE DEF Y!CorrectionInv
<1>1. Y!Shapes'
  <2>1. Y!Plan' = Y!Plan BY DEF Y!Plan, Y!EligibleDates, Y!RefreshDays, Y!Affected, Y!Excluded
  <2> QED BY <2>1 DEF Y!Shapes
<1>2. Y!OrderInv' BY DEF Y!OrderInv, Y!Corrected
<1>3. Y!RefreshLast' /\ Y!ServedInv' BY DEF Y!RefreshLast, Y!ServedInv
<1> QED BY <1>1, <1>2, <1>3

LEMMA PlanStands == ASSUME Y!Shapes, UNCHANGED <<v1, v2>> PROVE v1' \in Requests /\ v2' = Y!Plan'
<1>1. Y!Plan' = Y!Plan BY DEF Y!Plan, Y!EligibleDates, Y!RefreshDays, Y!Affected, Y!Excluded
<1> QED BY <1>1 DEF Y!Shapes

\* A step of one controller that leaves the runs alone.
LEMMA ControllerMoved ==
  ASSUME Y!CorrectionInv, NEW c \in Controllers, UNCHANGED <<v1, v2, v3, v4, v6, v10>>,
         NEW r \in ControllerRecords, v7' = [v7 EXCEPT ![c] = r],
         r.step \in Y!Correcting => r.at \in v2.days /\ \A d \in v2.days : d < r.at => v3[d] = "success",
         r.step \in Y!Refreshing => Y!Corrected,
         r.step = "done" => v4.state = "success"
  PROVE  Y!CorrectionInv'
<1> USE DEF Y!CorrectionInv
<1>0. v7 \in [Controllers -> ControllerRecords] BY CorrectionShapes
<1>1. v7'[c] = r /\ \A d \in Controllers : d # c => v7'[d] = v7[d] BY <1>0
<1>2. Y!Shapes' BY <1>0, PlanStands DEF Y!Shapes, ControllerRecords
<1>3. Y!Corrected' <=> Y!Corrected BY DEF Y!Corrected
<1>4. Y!OrderInv'
  <2>1. ASSUME NEW k \in Controllers
        PROVE  /\ v7'[k].step \in Y!Correcting => v7'[k].at \in v2.days /\ \A d \in v2.days : d < v7'[k].at => v3[d] = "success"
               /\ v7'[k].step \in Y!Refreshing => Y!Corrected
               /\ v7'[k].step = "done" => v4.state = "success"
    <3>1. CASE k = c BY <1>1, <3>1
    <3>2. CASE k # c BY <1>1, <3>2 DEF Y!OrderInv
    <3> QED BY <3>1, <3>2
  <2> QED BY <1>3, <2>1 DEF Y!OrderInv
<1>5. Y!RefreshLast' /\ Y!ServedInv' BY DEF Y!RefreshLast, Y!ServedInv
<1> QED BY <1>2, <1>4, <1>5

\* A step of one controller that only says where it is.
LEMMA ControllerAt ==
  ASSUME Y!CorrectionInv, NEW c \in Controllers, NEW s \in {"idle"} \union Y!Correcting \union Y!Refreshing,
         v7' = [v7 EXCEPT ![c].step = s]
  PROVE  \E r \in ControllerRecords : r.step = s /\ r.at = v7[c].at /\ v7' = [v7 EXCEPT ![c] = r]
<1>0. v7 \in [Controllers -> ControllerRecords] BY CorrectionShapes DEF Y!CorrectionInv
<1> DEFINE r == [v7[c] EXCEPT !.step = s]
<1>1. r \in ControllerRecords /\ r.step = s /\ r.at = v7[c].at BY <1>0 DEF ControllerRecords
<1>2. v7' = [v7 EXCEPT ![c] = r] BY <1>0
<1> QED BY <1>1, <1>2

LEMMA IdleController == Y!Idle \in ControllerRecords /\ Y!Idle.step = "idle"
BY DEF Y!Idle, ControllerRecords

LEMMA EndsKeeps ==
  ASSUME Y!CorrectionInv, NEW c \in Controllers, UNCHANGED <<v1, v2, v3, v4, v6, v10>>, Y!Ends(c) PROVE Y!CorrectionInv'
BY IdleController, ControllerMoved DEF Y!Ends, Y!Correcting, Y!Refreshing

\* A date that succeeded leads to the next one, or to the refresh.
LEMMA AfterDayKeeps ==
  ASSUME Y!CorrectionInv, NEW c \in Controllers, UNCHANGED <<v1, v2, v3, v4, v6, v10>>,
         v7[c].step \in Y!Correcting, v3[v7[c].at] = "success", v7' = [v7 EXCEPT ![c] = Y!AfterDay(c)]
  PROVE  Y!CorrectionInv'
<1> USE DEF Y!CorrectionInv
<1>0. v7[c] \in ControllerRecords /\ v2.days \subseteq Nat BY CorrectionShapes
<1>1. v7[c].at \in v2.days /\ \A d \in v2.days : d < v7[c].at => v3[d] = "success" BY DEF Y!OrderInv
<1>2. Y!Later(c) \subseteq Nat /\ \A d \in v2.days : d \notin Y!Later(c) => v3[d] = "success"
  <2>1. \A d \in v2.days : d \notin Y!Later(c) => d < v7[c].at \/ d = v7[c].at BY <1>0, <1>1 DEF Y!Later
  <2> QED BY <1>0, <1>1, <2>1 DEF Y!Later
<1>3. CASE Y!Later(c) # {}
  <2> DEFINE n == Y!First(Y!Later(c))
             r == [v7[c] EXCEPT !.at = n, !.step = "day"]
  <2>1. Y!AfterDay(c) = r BY <1>3 DEF Y!AfterDay
  <2>2. n \in v2.days /\ n \in Nat /\ \A d \in Y!Later(c) : n <= d BY <1>2, <1>3, FirstDay DEF Y!Later
  <2> HIDE DEF n
  <2>3. r \in ControllerRecords /\ r.step = "day" /\ r.at = n BY <1>0, <2>2 DEF ControllerRecords, Y!Correcting
  <2>4. \A d \in v2.days : d < n => v3[d] = "success" BY <1>0, <1>2, <2>2
  <2> HIDE DEF r
  <2> QED BY <2>1, <2>2, <2>3, <2>4, ControllerMoved DEF Y!Refreshing
<1>4. CASE Y!Later(c) = {}
  <2> DEFINE r == [v7[c] EXCEPT !.step = "refresh"]
  <2>1. Y!AfterDay(c) = r BY <1>4 DEF Y!AfterDay
  <2>2. r \in ControllerRecords /\ r.step = "refresh" BY <1>0 DEF ControllerRecords, Y!Refreshing
  <2>3. Y!Corrected BY <1>2, <1>4 DEF Y!Corrected
  <2> HIDE DEF r
  <2> QED BY <2>1, <2>2, <2>3, ControllerMoved DEF Y!Correcting
<1> QED BY <1>3, <1>4

LEMMA StartKeeps == ASSUME Y!CorrectionInv, NEW c \in Controllers, Y!Start(c) PROVE Y!CorrectionInv'
<1> USE DEF Y!CorrectionInv
<1>1. v2 # Y!None /\ UNCHANGED <<v1, v2, v3, v4, v6, v10>> BY DEF Y!Start
<1> DEFINE n == Y!First(v2.days)
<1>2. n \in v2.days /\ n \in Nat /\ \A d \in v2.days : n <= d BY <1>1, CorrectionShapes, FirstDay
<1>3. v2.days \subseteq Nat BY CorrectionShapes
<1>4. PICK retry \in BOOLEAN : v7' = [v7 EXCEPT ![c] = [step |-> "day", at |-> n, retry |-> retry, export |-> 0]]
  BY DEF Y!Start, Y!PlanId
<1> HIDE DEF n
<1> DEFINE r == [step |-> "day", at |-> n, retry |-> retry, export |-> 0]
<1>5. r \in ControllerRecords /\ r.step = "day" /\ r.at = n BY <1>2 DEF ControllerRecords, Y!Correcting
<1>6. v7' = [v7 EXCEPT ![c] = r] BY <1>4
<1>7. \A d \in v2.days : ~(d < n) BY <1>2, <1>3
<1> HIDE DEF r
<1> QED BY <1>1, <1>2, <1>5, <1>6, <1>7, ControllerMoved DEF Y!Refreshing

LEMMA FailKeeps == ASSUME Y!CorrectionInv, NEW c \in Controllers, Y!Fail(c) PROVE Y!CorrectionInv'
BY EndsKeeps DEF Y!Fail

\* A date's correction is read, waited for, or to be triggered.
LEMMA DayStepKeeps ==
  ASSUME Y!CorrectionInv, NEW c \in Controllers, UNCHANGED <<v1, v2, v3, v4, v6, v10>>,
         v7[c].step \in Y!Correcting, NEW s \in Y!Correcting, Y!Set(c, s)
  PROVE  Y!CorrectionInv'
<1>1. PICK r \in ControllerRecords : r.step = s /\ r.at = v7[c].at /\ v7' = [v7 EXCEPT ![c] = r]
  BY ControllerAt DEF Y!Set
<1>2. v7[c].at \in v2.days /\ \A d \in v2.days : d < v7[c].at => v3[d] = "success" BY DEF Y!CorrectionInv, Y!OrderInv
<1> QED BY <1>1, <1>2, ControllerMoved DEF Y!Refreshing, Y!Correcting

LEMMA ReadDayKeeps == ASSUME Y!CorrectionInv, NEW c \in Controllers, Y!ReadDay(c) PROVE Y!CorrectionInv'
<1>1. v7[c].step \in Y!Correcting /\ UNCHANGED <<v1, v2, v3, v4, v6, v10>> BY DEF Y!ReadDay, Y!Correcting
<1>2. CASE v3[v7[c].at] = "success" /\ v7' = [v7 EXCEPT ![c] = Y!AfterDay(c)] BY <1>1, <1>2, AfterDayKeeps
<1>3. CASE Y!Set(c, "await") BY <1>1, <1>3, DayStepKeeps DEF Y!Correcting
<1>4. CASE Y!Ends(c) BY <1>1, <1>4, EndsKeeps
<1>5. CASE Y!Set(c, "trigger") BY <1>1, <1>5, DayStepKeeps DEF Y!Correcting
<1> QED BY <1>2, <1>3, <1>4, <1>5 DEF Y!ReadDay

LEMMA AwaitDayKeeps == ASSUME Y!CorrectionInv, NEW c \in Controllers, Y!AwaitDay(c) PROVE Y!CorrectionInv'
<1>1. v7[c].step \in Y!Correcting /\ UNCHANGED <<v1, v2, v3, v4, v6, v10>> BY DEF Y!AwaitDay, Y!Correcting
<1>2. CASE v3[v7[c].at] = "success" /\ v7' = [v7 EXCEPT ![c] = Y!AfterDay(c)] BY <1>1, <1>2, AfterDayKeeps
<1>3. CASE Y!Ends(c) BY <1>1, <1>3, EndsKeeps
<1> QED BY <1>2, <1>3 DEF Y!AwaitDay

\* A date's run changes, and none that has succeeded.
LEMMA DailyMoved ==
  ASSUME Y!CorrectionInv, UNCHANGED <<v1, v2, v4, v7, v10>>, NEW d \in v2.days, v3[d] # "success",
         NEW s \in DayStates, v3' = [v3 EXCEPT ![d] = s],
         v6' = v6 \/ v6' \subseteq v6 \union ({d, d - 1} \ v1.excluded)
  PROVE  Y!CorrectionInv'
<1> USE DEF Y!CorrectionInv
<1>0. v3 \in [v2.days -> DayStates] /\ {d, d - 1} \ v1.excluded \subseteq v2.refreshDays BY CorrectionShapes
<1>1. Y!Shapes' BY <1>0, PlanStands DEF Y!Shapes, DayStates
<1>2. \A e \in v2.days : v3[e] = "success" => v3'[e] = "success" BY <1>0
<1>3. Y!Corrected => Y!Corrected' BY <1>2 DEF Y!Corrected
<1>4. Y!OrderInv' BY <1>2, <1>3 DEF Y!OrderInv
<1>5. ~Y!Corrected BY DEF Y!Corrected
<1>6. v4 = Y!Absent BY <1>5 DEF Y!RefreshLast, Y!Corrected
<1>7. v4.state = "none" BY <1>6 DEF Y!Absent
<1>8. Y!RefreshLast' BY <1>6 DEF Y!RefreshLast
<1>9. v6 \subseteq v2.refreshDays BY DEF Y!ServedInv
<1>10. Y!ServedInv' BY <1>0, <1>7, <1>9 DEF Y!ServedInv
<1> QED BY <1>1, <1>4, <1>8, <1>10

LEMMA RunDayKeeps == ASSUME Y!CorrectionInv, NEW d \in v2.days, Y!RunDay(d) PROVE Y!CorrectionInv'
<1>0. d \notin v1.excluded BY CorrectionShapes DEF Y!CorrectionInv
<1>1. UNCHANGED <<v1, v2, v4, v7, v10>> /\ v3[d] # "success" BY DEF Y!RunDay
<1>2. \E s \in DayStates : v3' = [v3 EXCEPT ![d] = s] BY DEF Y!RunDay, DayStates
<1>3. v6' = v6 \/ v6' \subseteq v6 \union ({d, d - 1} \ v1.excluded) BY <1>0 DEF Y!RunDay
<1> QED BY <1>1, <1>2, <1>3, DailyMoved

LEMMA ClearDayKeeps == ASSUME Y!CorrectionInv, NEW d \in v2.days, Y!ClearDay(d) PROVE Y!CorrectionInv'
<1>1. UNCHANGED <<v1, v2, v4, v7, v10>> /\ v3[d] # "success" BY DEF Y!ClearDay
<1>2. v3' = [v3 EXCEPT ![d] = "queued"] /\ v6' = v6 /\ "queued" \in DayStates BY DEF Y!ClearDay, DayStates
<1> QED BY <1>1, <1>2, DailyMoved

\* Triggering a date: the run is there before the controller waits for it.
LEMMA TriggerDayKeeps == ASSUME Y!CorrectionInv, NEW c \in Controllers, Y!TriggerDay(c) PROVE Y!CorrectionInv'
<1>1. CASE v3[v7[c].at] # "none" /\ Y!Ends(c) /\ UNCHANGED v3
  <2>1. UNCHANGED <<v1, v2, v3, v4, v6, v10>> BY <1>1 DEF Y!TriggerDay
  <2> QED BY <1>1, <2>1, EndsKeeps
<1>2. CASE v3[v7[c].at] = "none" /\ v3' = [v3 EXCEPT ![v7[c].at] = "queued"] /\ Y!Set(c, "await")
  <2> USE DEF Y!CorrectionInv
  <2>1. UNCHANGED <<v1, v2, v4, v6, v10>> /\ v7[c].step \in Y!Correcting BY DEF Y!TriggerDay, Y!Correcting
  <2>2. v7[c].at \in v2.days /\ \A d \in v2.days : d < v7[c].at => v3[d] = "success" BY <2>1 DEF Y!OrderInv
  <2>3. PICK r \in ControllerRecords : r.step = "await" /\ r.at = v7[c].at /\ v7' = [v7 EXCEPT ![c] = r]
    BY <1>2, ControllerAt DEF Y!Set, Y!Correcting
  <2>4. v7 \in [Controllers -> ControllerRecords] /\ v3 \in [v2.days -> DayStates] BY CorrectionShapes
  <2>5. v7'[c] = r /\ \A d \in Controllers : d # c => v7'[d] = v7[d] BY <2>3, <2>4
  <2>6. \A d \in v2.days : v3[d] = "success" => v3'[d] = "success" BY <1>2, <2>4
  <2>7. Y!Shapes' BY <1>2, <2>1, <2>3, <2>4, PlanStands DEF Y!Shapes, DayStates, ControllerRecords
  <2>8. ~Y!Corrected BY <1>2, <2>2 DEF Y!Corrected
  <2>9. v4 = Y!Absent /\ v4.state = "none" BY <2>8 DEF Y!RefreshLast, Y!Corrected, Y!Absent
  <2>10. \A k \in Controllers : v7[k].step \notin Y!Refreshing BY <2>8 DEF Y!OrderInv
  <2>11. Y!OrderInv'
    <3>1. ASSUME NEW k \in Controllers
          PROVE  /\ v7'[k].step \in Y!Correcting =>
                      v7'[k].at \in v2.days /\ \A d \in v2.days : d < v7'[k].at => v3'[d] = "success"
                 /\ v7'[k].step \notin Y!Refreshing
      <4>1. CASE k = c BY <2>2, <2>3, <2>5, <2>6, <4>1 DEF Y!Refreshing
      <4>2. CASE k # c BY <2>5, <2>6, <2>10, <4>2 DEF Y!OrderInv
      <4> QED BY <4>1, <4>2
    <3>2. "done" \in Y!Refreshing BY DEF Y!Refreshing
    <3> QED BY <2>1, <3>1, <3>2 DEF Y!OrderInv
  <2>12. Y!RefreshLast' /\ Y!ServedInv' BY <2>1, <2>9 DEF Y!RefreshLast, Y!ServedInv
  <2> QED BY <2>7, <2>11, <2>12
<1> QED BY <1>1, <1>2 DEF Y!TriggerDay

\* A controller at the refresh goes on to another step of it.
LEMMA RefreshStepKeeps ==
  ASSUME Y!CorrectionInv, NEW c \in Controllers, UNCHANGED <<v1, v2, v3, v4, v6, v10>>,
         v7[c].step \in Y!Refreshing, NEW s \in Y!Refreshing, Y!Set(c, s), s = "done" => v4.state = "success"
  PROVE  Y!CorrectionInv'
<1>1. PICK r \in ControllerRecords : r.step = s /\ r.at = v7[c].at /\ v7' = [v7 EXCEPT ![c] = r]
  BY ControllerAt DEF Y!Set
<1>2. Y!Corrected BY DEF Y!CorrectionInv, Y!OrderInv
<1> QED BY <1>1, <1>2, ControllerMoved DEF Y!Refreshing, Y!Correcting

LEMMA ReadRefreshKeeps == ASSUME Y!CorrectionInv, NEW c \in Controllers, Y!ReadRefresh(c) PROVE Y!CorrectionInv'
<1>1. v7[c].step \in Y!Refreshing /\ UNCHANGED <<v1, v2, v3, v4, v6, v10>> BY DEF Y!ReadRefresh, Y!Refreshing
<1>2. CASE v4.state = "success" /\ Y!Set(c, "done") BY <1>1, <1>2, RefreshStepKeeps DEF Y!Refreshing
<1>3. CASE Y!Set(c, "await refresh") BY <1>1, <1>3, RefreshStepKeeps DEF Y!Refreshing
<1>4. CASE Y!Set(c, "delete") BY <1>1, <1>4, RefreshStepKeeps DEF Y!Refreshing
<1>5. CASE Y!Ends(c) BY <1>1, <1>5, EndsKeeps
<1>6. CASE Y!Set(c, "launch") BY <1>1, <1>6, RefreshStepKeeps DEF Y!Refreshing
<1> QED BY <1>2, <1>3, <1>4, <1>5, <1>6 DEF Y!ReadRefresh

LEMMA AwaitRefreshKeeps == ASSUME Y!CorrectionInv, NEW c \in Controllers, Y!AwaitRefresh(c) PROVE Y!CorrectionInv'
<1>1. v7[c].step \in Y!Refreshing /\ UNCHANGED <<v1, v2, v3, v4, v6, v10>> BY DEF Y!AwaitRefresh, Y!Refreshing
<1>2. CASE v4.state = "success" /\ Y!Set(c, "done") BY <1>1, <1>2, RefreshStepKeeps DEF Y!Refreshing
<1>3. CASE Y!Ends(c) BY <1>1, <1>3, EndsKeeps
<1> QED BY <1>2, <1>3 DEF Y!AwaitRefresh

\* The refresh and the controller that acts on it change together, never after a success.
LEMMA RefreshMoved ==
  ASSUME Y!CorrectionInv, NEW c \in Controllers, UNCHANGED <<v1, v2, v3, v6>>, v10' \in Nat, Y!Corrected,
         v4.state # "success", v4' \in RefreshRecords, v4'.state # "success", v4'.state = "none" => v4' = Y!Absent,
         NEW r \in ControllerRecords, v7' = [v7 EXCEPT ![c] = r], r.step \in Y!Refreshing \ {"done"}
  PROVE  Y!CorrectionInv'
<1> USE DEF Y!CorrectionInv
<1>0. v7 \in [Controllers -> ControllerRecords] BY CorrectionShapes
<1>1. v7'[c] = r /\ \A d \in Controllers : d # c => v7'[d] = v7[d] BY <1>0
<1>2. Y!Shapes' BY <1>0, PlanStands DEF Y!Shapes, ControllerRecords, RefreshRecords
<1>3. Y!Corrected' BY DEF Y!Corrected
<1>4. Y!OrderInv'
  <2>1. ASSUME NEW k \in Controllers
        PROVE  /\ v7'[k].step \in Y!Correcting => v7'[k].at \in v2.days /\ \A d \in v2.days : d < v7'[k].at => v3[d] = "success"
               /\ v7'[k].step # "done"
    <3>1. CASE k = c BY <1>1, <3>1 DEF Y!Correcting, Y!Refreshing
    <3>2. CASE k # c BY <1>1, <3>2 DEF Y!OrderInv
    <3> QED BY <3>1, <3>2
  <2> QED BY <1>3, <2>1 DEF Y!OrderInv
<1>5. Y!RefreshLast' BY <1>3 DEF Y!RefreshLast, Y!Corrected
<1>6. Y!ServedInv' BY DEF Y!ServedInv
<1> QED BY <1>2, <1>4, <1>5, <1>6

LEMMA DeleteRefreshKeeps == ASSUME Y!CorrectionInv, NEW c \in Controllers, Y!DeleteRefresh(c) PROVE Y!CorrectionInv'
<1>1. v7[c].step = "delete" /\ UNCHANGED <<v1, v2, v3, v6>> BY DEF Y!DeleteRefresh
<1>2. CASE ~Y!Deletable /\ Y!Ends(c) /\ UNCHANGED <<v4, v10>> BY <1>1, <1>2, EndsKeeps
<1>3. CASE /\ Y!Deletable /\ v4' = Y!Absent /\ v10' = v10 + 1
           /\ v7' = [v7 EXCEPT ![c].step = "launch", ![c].export = v10 + 1]
  <2>0. v7 \in [Controllers -> ControllerRecords] /\ v10 \in Nat BY CorrectionShapes DEF Y!CorrectionInv
  <2>1. Y!Corrected BY <1>1 DEF Y!CorrectionInv, Y!OrderInv, Y!Refreshing
  <2>2. v4' \in RefreshRecords /\ v4'.state = "none" BY <1>3 DEF Y!Absent, RefreshRecords
  <2>3. v4.state # "success" BY <1>3 DEF Y!Deletable
  <2>4. v7[c] \in ControllerRecords /\ v10 + 1 \in Nat BY <2>0
  <2>5. PICK r : r = [v7[c] EXCEPT !.step = "launch", !.export = v10 + 1] OBVIOUS
  <2>6. r \in ControllerRecords /\ r.step = "launch" BY <2>4, <2>5 DEF ControllerRecords, Y!Refreshing
  <2>7. v7' = [v7 EXCEPT ![c] = r] BY <1>3, <2>0, <2>5
  <2>8. v10' \in Nat /\ r.step \in Y!Refreshing \ {"done"} BY <1>3, <2>4, <2>6 DEF Y!Refreshing
  <2>9. v4'.state # "success" /\ (v4'.state = "none" => v4' = Y!Absent) BY <1>3, <2>2
  <2> QED BY <1>1, <2>1, <2>2, <2>3, <2>6, <2>7, <2>8, <2>9, RefreshMoved
<1> QED BY <1>2, <1>3 DEF Y!DeleteRefresh

LEMMA LaunchRefreshKeeps == ASSUME Y!CorrectionInv, NEW c \in Controllers, Y!LaunchRefresh(c) PROVE Y!CorrectionInv'
<1>1. v7[c].step = "launch" /\ UNCHANGED <<v1, v2, v3, v6, v10>> BY DEF Y!LaunchRefresh
<1>2. CASE v4 # Y!Absent /\ Y!Ends(c) /\ UNCHANGED v4 BY <1>1, <1>2, EndsKeeps
<1>3. CASE v4 = Y!Absent /\ v4' = [state |-> "queued", export |-> v7[c].export] /\ Y!Set(c, "await refresh")
  <2>0. v7 \in [Controllers -> ControllerRecords] /\ v10 \in Nat BY CorrectionShapes DEF Y!CorrectionInv
  <2>1. Y!Corrected BY <1>1 DEF Y!CorrectionInv, Y!OrderInv, Y!Refreshing
  <2>2. v4' \in RefreshRecords /\ v4'.state = "queued" BY <1>3, <2>0 DEF ControllerRecords, RefreshRecords
  <2>3. v4.state # "success" BY <1>3 DEF Y!Absent
  <2>4. PICK r \in ControllerRecords : r.step = "await refresh" /\ v7' = [v7 EXCEPT ![c] = r]
    BY <1>3, ControllerAt DEF Y!Set, Y!Refreshing
  <2> QED BY <1>1, <2>0, <2>1, <2>2, <2>3, <2>4, RefreshMoved DEF Y!Refreshing
<1> QED BY <1>2, <1>3 DEF Y!LaunchRefresh

\* The refresh runs on: it was launched, so every correction is over.
LEMMA RunRefreshKeeps == ASSUME Y!CorrectionInv, Y!RunRefresh PROVE Y!CorrectionInv'
<1> USE DEF Y!CorrectionInv
<1>0. v4 \in RefreshRecords BY CorrectionShapes
<1>1. /\ UNCHANGED <<v1, v2, v3, v7, v10>> /\ v4.state \in {"queued", "running", "exporting"}
      /\ \E s \in {"running", "exporting", "success", "failed"} :
           v4' = [v4 EXCEPT !.state = s] /\ (IF s = "success" THEN v6' = v6 \ v2.refreshDays ELSE v6' = v6)
  BY DEF Y!RunRefresh
<1>2. PICK s \in {"running", "exporting", "success", "failed"} :
        v4' = [v4 EXCEPT !.state = s] /\ (IF s = "success" THEN v6' = v6 \ v2.refreshDays ELSE v6' = v6)
  BY <1>1
<1>3. v4' \in RefreshRecords /\ v4'.state = s BY <1>0, <1>2 DEF RefreshRecords
<1>4. Y!Shapes' BY <1>1, <1>3, PlanStands DEF Y!Shapes, RefreshRecords
<1>5. v4 # Y!Absent BY <1>1 DEF Y!Absent
<1>6. Y!Corrected' BY <1>1, <1>5 DEF Y!RefreshLast, Y!Corrected
<1>7. Y!OrderInv' BY <1>1, <1>6 DEF Y!OrderInv
<1>8. Y!RefreshLast' BY <1>6 DEF Y!RefreshLast, Y!Corrected
<1>9. Y!ServedInv' BY <1>1, <1>2, <1>3 DEF Y!ServedInv
<1> QED BY <1>4, <1>7, <1>8, <1>9

LEMMA CorrectionStep == ASSUME Y!CorrectionInv, Y!Next PROVE Y!CorrectionInv'
<1>1. CASE UNCHANGED Y!vars
  <2>1. UNCHANGED <<v1, v2, v3, v4, v5, v6, v7, v8, v9, v10>> BY <1>1 DEF Y!vars
  <2> QED BY <2>1, CorrectionStands
<1>2. CASE \E c \in Controllers :
             \/ Y!Start(c) \/ Y!Fail(c) \/ Y!ReadDay(c) \/ Y!TriggerDay(c) \/ Y!AwaitDay(c)
             \/ Y!ReadRefresh(c) \/ Y!DeleteRefresh(c) \/ Y!LaunchRefresh(c) \/ Y!AwaitRefresh(c)
  BY <1>2, StartKeeps, FailKeeps, ReadDayKeeps, TriggerDayKeeps, AwaitDayKeeps, ReadRefreshKeeps, DeleteRefreshKeeps,
     LaunchRefreshKeeps, AwaitRefreshKeeps
<1> QED BY <1>1, <1>2, RunDayKeeps, ClearDayKeeps, RunRefreshKeeps DEF Y!Next

LEMMA CorrectionSafe == Y!CorrectionInv => Y!PlanCovers /\ Y!RefreshLast /\ Y!SuccessMeansServed
<1> SUFFICES ASSUME Y!CorrectionInv PROVE Y!PlanCovers /\ Y!SuccessMeansServed BY DEF Y!CorrectionInv
<1>1. Y!PlanCovers BY PlanIs DEF Y!CorrectionInv, Y!Shapes
<1>2. Y!SuccessMeansServed BY DEF Y!CorrectionInv, Y!OrderInv, Y!ServedInv, Y!SuccessMeansServed
<1> QED BY <1>1, <1>2

LEMMA RefreshKept == ASSUME Y!CorrectionInv, Y!Next \/ UNCHANGED Y!vars PROVE Y!RefreshStands
<1> SUFFICES ASSUME v4.state \in {"queued", "running", "exporting", "success"} PROVE v4'.state # "none"
  BY DEF Y!RefreshStands
<1>0. v4 \in RefreshRecords /\ v4 # Y!Absent BY CorrectionShapes DEF Y!CorrectionInv, Y!Absent
<1>1. CASE v4' = v4 BY <1>1
<1>2. CASE Y!RunRefresh
  <2>1. PICK s \in {"running", "exporting", "success", "failed"} : v4' = [v4 EXCEPT !.state = s]
    BY <1>2 DEF Y!RunRefresh
  <2> QED BY <1>0, <2>1 DEF RefreshRecords
<1>3. \A c \in Controllers : Y!DeleteRefresh(c) => v4' = v4 BY DEF Y!DeleteRefresh, Y!Deletable
<1>4. \A c \in Controllers : Y!LaunchRefresh(c) => v4' = v4 BY <1>0 DEF Y!LaunchRefresh
<1>5. \A c \in Controllers : Y!Start(c) \/ Y!Fail(c) \/ Y!ReadDay(c) \/ Y!TriggerDay(c) \/ Y!AwaitDay(c)
                             \/ Y!ReadRefresh(c) \/ Y!AwaitRefresh(c) => v4' = v4
  BY DEF Y!Start, Y!Fail, Y!ReadDay, Y!TriggerDay, Y!AwaitDay, Y!ReadRefresh, Y!AwaitRefresh
<1>6. \A d \in v2.days : Y!RunDay(d) \/ Y!ClearDay(d) => v4' = v4 BY DEF Y!RunDay, Y!ClearDay
<1>7. CASE UNCHANGED Y!vars BY <1>1, <1>7 DEF Y!vars
<1> QED BY <1>1, <1>2, <1>3, <1>4, <1>5, <1>6, <1>7 DEF Y!Next

--------------------------------------------------------------------------------
(* HealthReports: v1 report, v2 rows, v3 history, v4 received, v5 logged, v6 job,   *)
(* v7 started, v8 drained, v9 resets                                                *)

\* What the invariant says of one task.
CopiesOk(w) ==
  \A h \in ReportHours :
    \/ v6[w].copy[h] = H!NoReport \/ H!Reflects(v1[h], v6[w].copy[h])
    \/ v6[w].kind = "evaluate" /\ v6[w].step \in {"create", "reread"}
JudgedOk(w) ==
  v6[w].kind = "evaluate" /\ v6[w].step = "create" =>
    /\ v6[w].copy[v6[w].hour].gen = 0 /\ v6[w].copy[v6[w].hour].reset = v6[w].reset
    /\ \A i \in EventIds : v6[w].copy[v6[w].hour].acks[i] \in {"absent", "pending"}
PublishOk(w) ==
  v6[w].kind = "publish" /\ v6[w].step \in {"collect", "write"} =>
    v6[w].at <= v3.gen /\ (v6[w].at = v3.gen => v3.hour <= v6[w].hour)
HoursOk(w) ==
  /\ v6[w].kind # "idle" => v6[w].hour \in ReportHours
  /\ v6[w].kind = "alert" => v6[w].step \in {"read", "settle", "deliver", "record"} /\ v6[w].at \in H!First(v6[w].hour) .. v6[w].hour
  /\ v6[w].step = "record" => v6[w].kind = "alert"
HeardOk(w) ==
  v6[w].kind = "alert" => \A i \in EventIds :
    (v6[w].known[i] = "delivered" => i \in v4) /\ (v6[w].known[i] = "logged" => i \in v5)
AckedOk(w) ==
  v6[w].kind = "alert" => \A i \in v6[w].acked :
    \/ v6[w].known[i] # ""
    \/ v6[w].step = "read" /\ \E k \in v6[w].at .. v6[w].hour : v1[k].acks[i] \in H!Acks
PendingOk(w) ==
  v6[w].kind = "alert" /\ v6[w].step \in {"deliver", "record"} =>
    \A i \in EventIds : v6[w].copy[v6[w].at].acks[i] = "pending" => v6[w].known[i] = ""
SentOk(w) ==
  v6[w].kind = "alert" /\ v6[w].step = "record" =>
    /\ v6[w].event \in EventIds /\ v6[w].copy[v6[w].at].acks[v6[w].event] = "pending"
    /\ IF v6[w].webhook THEN v6[w].event \in v4 ELSE v6[w].event \in v5
DoneOk(w) ==
  v6[w].kind = "alert" /\ v6[w].step # "read" =>
    \A k \in H!First(v6[w].hour) .. v6[w].at - 1, i \in EventIds : v6[w].copy[k].acks[i] # "pending"
WorkerOk(w) ==
  /\ CopiesOk(w) /\ JudgedOk(w) /\ PublishOk(w) /\ HoursOk(w) /\ HeardOk(w) /\ AckedOk(w) /\ PendingOk(w) /\ SentOk(w)
  /\ DoneOk(w)

\* What it says of what the tasks share.
StoreShapes ==
  /\ v1 \in [ReportHours -> H!Reports] /\ v2 \in [ReportHours -> H!Contents]
  /\ v3 \in [gen : Nat, hour : Nat, shows : [ReportHours -> H!Contents]]
  /\ v8 \subseteq ReportHours /\ v9 \subseteq ReportHours
StoreInv ==
  /\ StoreShapes /\ H!CreatedInv /\ H!DrainedInv /\ H!PublishedAgrees /\ H!AckHonest /\ H!ResetHonoured

LEMMA WorkersCopies == H!CopiesInv <=> \A w \in Reporters : CopiesOk(w)
BY DEF H!CopiesInv, CopiesOk, H!Copied, H!Doing
LEMMA WorkersJudged == H!JudgedInv <=> \A w \in Reporters : JudgedOk(w)
BY DEF H!JudgedInv, JudgedOk, H!Copied, H!Doing
LEMMA WorkersPublish == H!PublishInv <=> \A w \in Reporters : PublishOk(w)
BY DEF H!PublishInv, PublishOk
LEMMA WorkersHours == H!HoursInv <=> \A w \in Reporters : HoursOk(w)
BY DEF H!HoursInv, HoursOk
LEMMA WorkersKnown ==
  ASSUME v6 \in [Reporters -> H!JobShapes]
  PROVE  H!KnownInv <=> \A w \in Reporters : HeardOk(w) /\ AckedOk(w)
BY DEF H!KnownInv, HeardOk, AckedOk, H!Outboxes, H!Reading, H!JobShapes
LEMMA WorkersSettled == H!SettledInv <=> \A w \in Reporters : PendingOk(w) /\ SentOk(w)
BY DEF H!SettledInv, PendingOk, SentOk, H!Outboxes, H!Copied
LEMMA WorkersDone == H!DoneInv <=> \A w \in Reporters : DoneOk(w)
BY DEF H!DoneInv, DoneOk, H!Outboxes, H!Reading, H!Copied

JobsTyped == v6 \in [Reporters -> H!JobShapes]
WorkersOk == \A w \in Reporters : WorkerOk(w)

LEMMA ReportsParts == H!ReportsInv <=> StoreInv /\ JobsTyped /\ WorkersOk
BY WorkersCopies, WorkersJudged, WorkersPublish, WorkersHours, WorkersKnown, WorkersSettled, WorkersDone
   DEF H!ReportsInv, H!Shapes, StoreInv, StoreShapes, WorkerOk, JobsTyped, WorkersOk

LEMMA ReportsPartsNext == StoreInv' /\ JobsTyped' /\ WorkersOk' => H!ReportsInv'
<1>1. StoreInv /\ JobsTyped /\ WorkersOk => H!ReportsInv BY ReportsParts
<1> QED BY <1>1, PTL

\* What a step does to the reports: one that exists only gains acknowledgements.
Grows(h) ==
  \/ v1'[h] = v1[h]
  \/ /\ v1'[h].gen = v1[h].gen + 1
     /\ v1[h].gen > 0 =>
          /\ H!Content(v1'[h]) = H!Content(v1[h])
          /\ \A i \in EventIds : v1[h].acks[i] \in H!Acks => v1'[h].acks[i] = v1[h].acks[i]
Stepped(w) ==
  /\ v1' \in [ReportHours -> H!Reports] /\ \A h \in ReportHours : Grows(h)
  /\ v3' = v3 \/ v3'.gen = v3.gen + 1
  /\ v4 \subseteq v4' /\ v5 \subseteq v5'
  /\ JobsTyped' /\ \A u \in Reporters \ {w} : v6'[u] = v6[u]

LEMMA EventsAre == \A r, s : H!Content(r) = H!Content(s) <=> r.reset = s.reset /\ \A i \in EventIds : r.acks[i] = "absent" <=> s.acks[i] = "absent"
<1> SUFFICES ASSUME NEW r, NEW s PROVE H!Content(r) = H!Content(s) <=> r.reset = s.reset /\ \A i \in EventIds : r.acks[i] = "absent" <=> s.acks[i] = "absent"
  OBVIOUS
<1>1. H!Events(r) = H!Events(s) <=> \A i \in EventIds : r.acks[i] = "absent" <=> s.acks[i] = "absent" BY DEF H!Events
<1>2. H!Content(r) = H!Content(s) <=> H!Events(r) = H!Events(s) /\ r.reset = s.reset
  <2> DEFINE a == H!Content(r)
             b == H!Content(s)
  <2>1. a.events = H!Events(r) /\ a.reset = r.reset /\ b.events = H!Events(s) /\ b.reset = s.reset BY DEF H!Content
  <2>2. a = b => a.events = b.events /\ a.reset = b.reset OBVIOUS
  <2>3. H!Events(r) = H!Events(s) /\ r.reset = s.reset => a = b BY DEF H!Content
  <2> QED BY <2>1, <2>2, <2>3
<1> QED BY <1>1, <1>2

LEMMA HoursAre == /\ OutboxHours \in Nat /\ OutboxHours # 0 /\ "" \notin EventIds
                  /\ ReportHours \subseteq Nat /\ \A h \in ReportHours : h > 0
                  /\ \A h \in ReportHours : H!First(h) \in 1 .. h /\ \A k \in H!First(h) .. h : k \in ReportHours
<1>1. OutboxHours \in Nat \ {0} /\ "" \notin EventIds /\ \E n \in ReportHours : ReportHours = 1 .. n
  BY ReportsHold DEF H!ReportsAssumption
<1>2. PICK n \in ReportHours : ReportHours = 1 .. n BY <1>1
<1>3. ReportHours \subseteq Nat /\ \A h \in ReportHours : h > 0 BY <1>2
<1>4. n \in Nat BY <1>3
<1>5. ASSUME NEW h \in ReportHours PROVE H!First(h) \in 1 .. h /\ \A k \in H!First(h) .. h : k \in ReportHours
  <2>1. h \in 1 .. n BY <1>2
  <2>2. H!First(h) \in 1 .. h
    <3>a. OutboxHours \in Nat /\ OutboxHours # 0 BY <1>1
    <3>b. h \in Nat /\ h >= 1 BY <1>4, <2>1
    <3>1. h \in Nat /\ h >= 1 /\ OutboxHours \in Nat /\ OutboxHours >= 1 BY <3>a, <3>b
    <3>2. H!First(h) = IF h < OutboxHours THEN 1 ELSE h - OutboxHours + 1 BY DEF H!First
    <3> HIDE DEF H!First
    <3> QED BY <3>1, <3>2
  <2>3. \A k \in H!First(h) .. h : k \in 1 .. n BY <1>4, <2>1, <2>2
  <2> QED BY <1>2, <2>2, <2>3
<1> QED BY <1>1, <1>3, <1>5

LEMMA GrowsGen == ASSUME v1 \in [ReportHours -> H!Reports], NEW h \in ReportHours, Grows(h)
                  PROVE v1[h].gen \in Nat /\ v1'[h].gen \in Nat /\ v1'[h].gen >= v1[h].gen
<1>1. v1[h].gen \in Nat BY DEF H!Reports
<1> QED BY <1>1 DEF Grows

\* A copy that a stored report reflects is reflected by what the report becomes.
LEMMA ReflectsOn ==
  ASSUME v1 \in [ReportHours -> H!Reports], NEW h \in ReportHours, Grows(h), NEW s \in H!Reports, H!Reflects(v1[h], s)
  PROVE  H!Reflects(v1'[h], s)
<1>1. CASE v1'[h] = v1[h] BY <1>1
<1>2. CASE v1'[h] # v1[h]
  <2>1. s.gen \in Nat /\ v1[h].gen \in Nat /\ s.gen > 0 /\ s.gen <= v1[h].gen BY DEF H!Reflects, H!Reports
  <2>2. v1'[h].gen = v1[h].gen + 1 /\ v1[h].gen > 0 BY <1>2, <2>1 DEF Grows
  <2>3. H!Content(v1'[h]) = H!Content(v1[h]) /\ \A i \in EventIds : v1[h].acks[i] \in H!Acks => v1'[h].acks[i] = v1[h].acks[i]
    BY <1>2, <2>2 DEF Grows
  <2>4. H!Content(s) = H!Content(v1[h]) /\ \A i \in EventIds : s.acks[i] \in H!Acks => v1[h].acks[i] = s.acks[i]
    BY DEF H!Reflects
  <2>5. s.gen <= v1'[h].gen /\ s.gen # v1'[h].gen BY <2>1, <2>2
  <2>6. \A i \in EventIds : s.acks[i] \in H!Acks => v1'[h].acks[i] = s.acks[i] BY <2>3, <2>4
  <2> QED BY <2>1, <2>3, <2>4, <2>5, <2>6 DEF H!Reflects
<1> QED BY <1>1, <1>2

LEMMA AcksStay ==
  ASSUME StoreInv, NEW h \in ReportHours, Grows(h), NEW i \in EventIds, v1[h].acks[i] \in H!Acks
  PROVE  v1'[h].acks[i] \in H!Acks
<1>1. v1[h].gen > 0
  <2>1. v1[h].gen \in Nat BY DEF StoreInv, StoreShapes, H!Reports
  <2>2. v1[h].gen # 0
    <3> SUFFICES ASSUME v1[h].gen = 0 PROVE FALSE OBVIOUS
    <3>1. v1[h] = H!NoReport BY DEF StoreInv, H!CreatedInv
    <3>2. v1[h].acks[i] = "absent" BY <3>1 DEF H!NoReport
    <3> QED BY <3>2 DEF H!Acks
  <2> QED BY <2>1, <2>2
<1> QED BY <1>1 DEF Grows

\* What another task does leaves a task's own part of the invariant standing.
LEMMA OthersStand ==
  ASSUME H!ReportsInv, NEW w \in Reporters, Stepped(w), NEW u \in Reporters \ {w}
  PROVE  WorkerOk(u)'
<1>0. StoreInv /\ JobsTyped /\ WorkerOk(u) BY ReportsParts DEF WorkersOk
<1>1. v6'[u] = v6[u] /\ v6[u] \in H!JobShapes BY <1>0 DEF Stepped, JobsTyped
<1>2. CopiesOk(u)'
  <2> SUFFICES ASSUME NEW h \in ReportHours
               PROVE  \/ v6[u].copy[h] = H!NoReport \/ H!Reflects(v1'[h], v6[u].copy[h])
                      \/ v6[u].kind = "evaluate" /\ v6[u].step \in {"create", "reread"}
    BY <1>1 DEF CopiesOk, H!Reflects, H!Content, H!Events, H!Acks, H!NoReport
  <2>1. v6[u].copy[h] \in H!Reports BY <1>1 DEF H!JobShapes
  <2>2. H!Reflects(v1[h], v6[u].copy[h]) => H!Reflects(v1'[h], v6[u].copy[h])
    BY <1>0, <2>1, ReflectsOn DEF Stepped, StoreInv, StoreShapes
  <2> QED BY <1>0, <2>2 DEF WorkerOk, CopiesOk
<1>3. JudgedOk(u)' BY <1>0, <1>1 DEF WorkerOk, JudgedOk
<1>4. PublishOk(u)'
  <2>1. v6[u].at \in Nat /\ v3.gen \in Nat BY <1>0, <1>1 DEF H!JobShapes, StoreInv, StoreShapes
  <2>2. CASE v3' = v3 BY <1>0, <1>1, <2>2 DEF WorkerOk, PublishOk
  <2>3. CASE v3'.gen = v3.gen + 1 BY <1>0, <1>1, <2>1, <2>3 DEF WorkerOk, PublishOk
  <2> QED BY <2>2, <2>3 DEF Stepped
<1>5. HoursOk(u)' BY <1>0, <1>1 DEF WorkerOk, HoursOk, H!First
<1>6. HeardOk(u)' BY <1>0, <1>1 DEF WorkerOk, HeardOk, Stepped
<1>7. AckedOk(u)'
  <2> SUFFICES ASSUME v6[u].kind = "alert", NEW i \in v6[u].acked
               PROVE  \/ v6[u].known[i] # ""
                      \/ v6[u].step = "read" /\ \E k \in v6[u].at .. v6[u].hour : v1'[k].acks[i] \in H!Acks
    BY <1>1 DEF AckedOk, H!Acks
  <2>1. i \in EventIds BY <1>1 DEF H!JobShapes
  <2>2. ASSUME v6[u].known[i] = "" PROVE v6[u].step = "read" /\ \E k \in v6[u].at .. v6[u].hour : v1'[k].acks[i] \in H!Acks
    <3>1. v6[u].step = "read" BY <1>0, <2>2 DEF WorkerOk, AckedOk
    <3>2. PICK k \in v6[u].at .. v6[u].hour : v1[k].acks[i] \in H!Acks BY <1>0, <2>2 DEF WorkerOk, AckedOk
    <3>3. v6[u].hour \in ReportHours /\ v6[u].at \in H!First(v6[u].hour) .. v6[u].hour BY <1>0 DEF WorkerOk, HoursOk
    <3>4. k \in H!First(v6[u].hour) .. v6[u].hour
      <4>1. v6[u].hour \in Nat BY <3>3, HoursAre
      <4>2. H!First(v6[u].hour) \in 1 .. v6[u].hour BY <3>3, HoursAre
      <4>3. H!First(v6[u].hour) \in Nat BY <4>1, <4>2
      <4> QED BY <3>3, <4>1, <4>3
    <3>5. k \in ReportHours BY <3>3, <3>4, HoursAre
    <3>6. v1'[k].acks[i] \in H!Acks BY <1>0, <2>1, <3>2, <3>5, AcksStay DEF Stepped
    <3> QED BY <3>1, <3>6
  <2> QED BY <2>2
<1>8. PendingOk(u)' BY <1>0, <1>1 DEF WorkerOk, PendingOk
<1>9. SentOk(u)' BY <1>0, <1>1 DEF WorkerOk, SentOk, Stepped
<1>10. DoneOk(u)' BY <1>0, <1>1 DEF WorkerOk, DoneOk, H!First
<1> QED BY <1>2, <1>3, <1>4, <1>5, <1>6, <1>7, <1>8, <1>9, <1>10 DEF WorkerOk

\* The parts of what the tasks share that a step which only lets reports grow keeps.
LEMMA StoreStands ==
  ASSUME StoreInv, v1' \in [ReportHours -> H!Reports], \A h \in ReportHours : Grows(h), UNCHANGED <<v2, v3, v8, v9>>
  PROVE  StoreShapes' /\ H!CreatedInv' /\ H!DrainedInv' /\ H!PublishedAgrees' /\ H!ResetHonoured'
<1>1. StoreShapes' BY DEF StoreInv, StoreShapes
<1>2. ASSUME NEW h \in ReportHours
      PROVE  /\ v1'[h].gen = 0 => v1'[h] = H!NoReport
             /\ v1[h].gen > 0 => v1'[h].gen > 0 /\ H!Content(v1'[h]) = H!Content(v1[h])
             /\ v1[h].gen = 0 => H!Content(v1[h]) = H!Unknown
  <2>1. v1[h].gen \in Nat /\ v1'[h].gen \in Nat /\ v1'[h].gen >= v1[h].gen BY GrowsGen DEF StoreInv, StoreShapes
  <2>2. v1[h].gen = 0 => v1[h] = H!NoReport BY DEF StoreInv, H!CreatedInv
  <2>3. H!Content(H!NoReport) = H!Unknown BY DEF H!Content, H!Unknown, H!Events, H!NoReport
  <2> QED BY <2>1, <2>2, <2>3 DEF Grows
<1>3. H!CreatedInv' BY <1>2 DEF H!CreatedInv, H!NoReport
<1>4. H!DrainedInv'
  <2> SUFFICES ASSUME NEW h \in v8 PROVE v1'[h].gen > 0 /\ \A i \in EventIds : v1'[h].acks[i] # "pending" BY DEF H!DrainedInv
  <2>1. h \in ReportHours /\ v1[h].gen > 0 /\ \A i \in EventIds : v1[h].acks[i] # "pending"
    BY DEF StoreInv, StoreShapes, H!DrainedInv
  <2>2. ASSUME NEW i \in EventIds PROVE v1'[h].acks[i] # "pending"
    <3>1. v1[h].acks[i] \in {"absent", "pending"} \union H!Acks BY <2>1 DEF StoreInv, StoreShapes, H!Reports
    <3>2. CASE v1[h].acks[i] = "absent" BY <1>2, <2>1, <3>2, EventsAre
    <3>3. CASE v1[h].acks[i] \in H!Acks BY <2>1, <3>3, AcksStay DEF H!Acks
    <3> QED BY <2>1, <3>1, <3>2, <3>3
  <2> QED BY <1>2, <2>1, <2>2
<1>5. H!PublishedAgrees'
  <2> SUFFICES ASSUME NEW h \in ReportHours
               PROVE  v2[h] \in {H!Unknown, H!Content(v1'[h])} /\ v3.shows[h] \in {H!Unknown, H!Content(v1'[h])}
    BY DEF H!PublishedAgrees, H!Content, H!Events, H!Unknown
  <2>1. v2[h] \in {H!Unknown, H!Content(v1[h])} /\ v3.shows[h] \in {H!Unknown, H!Content(v1[h])}
    BY DEF StoreInv, H!PublishedAgrees
  <2>2. v1[h].gen \in Nat BY DEF StoreInv, StoreShapes, H!Reports
  <2> QED BY <1>2, <2>1, <2>2
<1>6. H!ResetHonoured'
  <2> SUFFICES ASSUME NEW h \in v9 PROVE v1'[h].reset BY DEF H!ResetHonoured
  <2>1. h \in ReportHours /\ v1[h].reset BY DEF StoreInv, StoreShapes, H!ResetHonoured
  <2>2. v1[h].gen \in Nat BY <2>1 DEF StoreInv, StoreShapes, H!Reports
  <2>3. v1[h].gen # 0
    <3>1. v1[h].gen = 0 => v1[h] = H!NoReport BY <2>1 DEF StoreInv, H!CreatedInv
    <3> QED BY <2>1, <3>1 DEF H!NoReport
  <2>4. H!Content(v1'[h]) = H!Content(v1[h]) BY <1>2, <2>1, <2>2, <2>3
  <2>5. v1'[h].reset = v1[h].reset BY <2>4, EventsAre
  <2> QED BY <2>1, <2>5
<1> QED BY <1>1, <1>3, <1>4, <1>5, <1>6

LEMMA StepKeeps ==
  ASSUME H!ReportsInv, NEW w \in Reporters, Stepped(w), WorkerOk(w)', StoreInv'
  PROVE  H!ReportsInv'
<1>1. ASSUME NEW u \in Reporters PROVE WorkerOk(u)'
  <2>1. CASE u = w BY <2>1
  <2>2. CASE u # w BY <2>2, OthersStand
  <2> QED BY <2>1, <2>2
<1>2. WorkersOk' BY <1>1 DEF WorkersOk
<1> QED BY <1>2, ReportsPartsNext DEF Stepped

\* A step that leaves the reports alone.
LEMMA QuietStep ==
  ASSUME H!ReportsInv, NEW w \in Reporters, NEW e \in H!JobShapes, v6' = [v6 EXCEPT ![w] = e], UNCHANGED v1,
         v3' = v3 \/ v3'.gen = v3.gen + 1, v4 \subseteq v4', v5 \subseteq v5'
  PROVE  Stepped(w) /\ v6'[w] = e
<1>1. v1 \in [ReportHours -> H!Reports] /\ v6 \in [Reporters -> H!JobShapes] BY ReportsParts DEF StoreInv, StoreShapes, JobsTyped
<1>2. v6' \in [Reporters -> H!JobShapes] /\ v6'[w] = e /\ \A u \in Reporters \ {w} : v6'[u] = v6[u] BY <1>1
<1> QED BY <1>1, <1>2 DEF Stepped, Grows, JobsTyped

LEMMA StoreSame ==
  ASSUME StoreInv, UNCHANGED <<v1, v2, v3, v8, v9>>, v4 \subseteq v4', v5 \subseteq v5' PROVE StoreInv'
<1>1. H!AckHonest' BY DEF StoreInv, H!AckHonest
<1> QED BY <1>1 DEF StoreInv, StoreShapes, H!CreatedInv, H!DrainedInv, H!PublishedAgrees, H!ResetHonoured, H!NoReport,
       H!Content, H!Events, H!Unknown

LEMMA NoReportIs == /\ H!NoReport \in H!Reports /\ H!NoReport.gen = 0 /\ H!NoReport.reset = FALSE
                    /\ \A i \in EventIds : H!NoReport.acks[i] = "absent"
BY DEF H!NoReport, H!Reports

LEMMA IdleIs == /\ H!Idle \in H!JobShapes /\ H!Idle.kind = "idle" /\ H!Idle.step = "" /\ H!Idle.hour = 0
                /\ H!Idle.reset = FALSE /\ H!Idle.webhook = FALSE
                /\ H!Idle.at = 0 /\ H!Idle.event = "" /\ H!Idle.acked = {}
                /\ \A h \in ReportHours : H!Idle.copy[h] = H!NoReport
                /\ \A i \in EventIds : H!Idle.known[i] = ""
<1>1. [h \in ReportHours |-> H!NoReport] \in [ReportHours -> H!Reports] BY NoReportIs
<1> QED BY <1>1 DEF H!Idle, H!JobShapes

\* A task that is not an alert task.
LEMMA NotAlerting ==
  ASSUME NEW w \in Reporters, v6'[w].kind # "alert", v6'[w].step # "record", v6'[w].kind # "idle" => v6'[w].hour \in ReportHours,
         CopiesOk(w)', JudgedOk(w)', PublishOk(w)'
  PROVE  WorkerOk(w)'
BY DEF WorkerOk, HoursOk, HeardOk, AckedOk, PendingOk, SentOk, DoneOk

LEMMA IdleFine == ASSUME NEW w \in Reporters, v6'[w] = H!Idle PROVE WorkerOk(w)'
<1>1. CopiesOk(w)' BY IdleIs DEF CopiesOk, H!NoReport
<1>2. JudgedOk(w)' /\ PublishOk(w)' BY IdleIs DEF JudgedOk, PublishOk
<1> QED BY <1>1, <1>2, NotAlerting, IdleIs

\* A task ends and leaves the reports alone.
LEMMA EndsQuietly ==
  ASSUME H!ReportsInv, NEW w \in Reporters, H!Ends(w), UNCHANGED v1, v3' = v3 \/ v3'.gen = v3.gen + 1,
         v4 \subseteq v4', v5 \subseteq v5', StoreInv'
  PROVE  H!ReportsInv'
<1>1. v6' = [v6 EXCEPT ![w] = H!Idle] BY DEF H!Ends
<1>2. Stepped(w) /\ v6'[w] = H!Idle BY <1>1, IdleIs, QuietStep
<1> QED BY <1>2, IdleFine, StepKeeps

\* A task goes on and leaves what the tasks share alone.
LEMMA GoesOnQuietly ==
  ASSUME H!ReportsInv, NEW w \in Reporters, NEW e \in H!JobShapes, v6' = [v6 EXCEPT ![w] = e], UNCHANGED <<v1, v2, v3, v8, v9>>,
         v4 \subseteq v4', v5 \subseteq v5', v6'[w] = e => WorkerOk(w)'
  PROVE  H!ReportsInv'
<1>1. Stepped(w) /\ v6'[w] = e BY QuietStep
<1>2. StoreInv' BY ReportsParts, StoreSame
<1> QED BY <1>1, <1>2, StepKeeps

\* What the invariant says of a task's own record.
LEMMA JobIs ==
  ASSUME H!ReportsInv, NEW w \in Reporters
  PROVE  v6[w] \in H!JobShapes /\ StoreInv /\ WorkerOk(w)
BY ReportsParts DEF JobsTyped, WorkersOk

LEMMA ReporterStartKeeps == ASSUME H!ReportsInv, NEW w \in Reporters, H!Start(w) PROVE H!ReportsInv'
<1>1. UNCHANGED <<v1, v2, v3, v4, v5, v8, v9>> BY DEF H!Start
<1>2. PICK kind \in {"evaluate", "persist", "publish", "alert"}, h \in ReportHours, reset, webhook \in BOOLEAN :
        (reset => kind = "evaluate") /\ (webhook => kind = "alert") /\
        v6' = [v6 EXCEPT ![w] = [H!Idle EXCEPT
            !.kind = kind, !.hour = h, !.reset = reset, !.webhook = webhook, !.step = "read",
            !.at = IF kind = "alert" THEN H!First(h) ELSE 0,
            !.acked = IF kind = "alert" THEN {i \in EventIds : \E k \in H!First(h) .. h : v1[k].acks[i] \in H!Acks} ELSE {}]]
  BY ZenonT(40) DEF H!Start
<1> DEFINE at == IF kind = "alert" THEN H!First(h) ELSE 0
           acked == IF kind = "alert" THEN {i \in EventIds : \E k \in H!First(h) .. h : v1[k].acks[i] \in H!Acks} ELSE {}
<1>3. at \in Nat /\ acked \in SUBSET EventIds /\ h \in Nat /\ H!First(h) \in 1 .. h
  <2>1. h \in Nat /\ H!First(h) \in 1 .. h BY HoursAre
  <2> QED BY <2>1
<1>4. kind = "alert" => at = H!First(h) /\ \A i \in acked : \E k \in at .. h : v1[k].acks[i] \in H!Acks OBVIOUS
<1>5. v6' = [v6 EXCEPT ![w] = [H!Idle EXCEPT !.kind = kind, !.hour = h, !.reset = reset, !.webhook = webhook, !.step = "read",
                                             !.at = at, !.acked = acked]]
  BY <1>2
<1> HIDE DEF at, acked
<1>6. PICK e : e = [H!Idle EXCEPT !.kind = kind, !.hour = h, !.reset = reset, !.webhook = webhook, !.step = "read",
                                  !.at = at, !.acked = acked] OBVIOUS
<1>7. e \in H!JobShapes
  <2>1. h \in ReportHours \union {0} OBVIOUS
  <2> QED BY ZenonT(40), <1>3, <1>6, <2>1, IdleIs DEF H!JobShapes
<1>8. /\ e.kind = kind /\ e.hour = h /\ e.step = "read" /\ e.at = at /\ e.acked = acked /\ e.copy = H!Idle.copy
      /\ e.known = H!Idle.known
  BY <1>6, IdleIs DEF H!JobShapes
<1>9. ASSUME v6'[w] = e PROVE WorkerOk(w)'
  <2>1. CopiesOk(w)' BY <1>8, <1>9, IdleIs DEF CopiesOk, H!NoReport
  <2>2. JudgedOk(w)' /\ PublishOk(w)' BY <1>8, <1>9 DEF JudgedOk, PublishOk
  <2>3. HoursOk(w)'
    <3>1. kind = "alert" => at \in H!First(h) .. h
      <4> SUFFICES ASSUME kind = "alert" PROVE H!First(h) \in H!First(h) .. h BY <1>4
      <4> QED BY <1>3
    <3> QED BY <1>8, <1>9, <3>1 DEF HoursOk, H!First
  <2>4. HeardOk(w)' BY <1>8, <1>9, IdleIs DEF HeardOk
  <2>5. AckedOk(w)' BY <1>1, <1>4, <1>8, <1>9 DEF AckedOk, H!Acks
  <2>6. PendingOk(w)' /\ SentOk(w)' /\ DoneOk(w)' BY <1>8, <1>9 DEF PendingOk, SentOk, DoneOk
  <2> QED BY <2>1, <2>2, <2>3, <2>4, <2>5, <2>6 DEF WorkerOk
<1> QED BY <1>1, <1>5, <1>6, <1>7, <1>9, GoesOnQuietly

LEMMA TaskFailKeeps == ASSUME H!ReportsInv, NEW w \in Reporters, H!Fail(w) PROVE H!ReportsInv'
<1>1. UNCHANGED <<v1, v2, v3, v4, v5, v8, v9>> /\ H!Ends(w) BY DEF H!Fail
<1>2. StoreInv' BY <1>1, JobIs, StoreSame
<1> QED BY <1>1, <1>2, EndsQuietly

\* A task that changes its step alone.
LEMMA ChangesStep ==
  ASSUME NEW w, NEW j \in H!JobShapes, NEW s \in {"read", "order", "judge", "create", "reread", "settle", "deliver", "record"},
         NEW e, e = [j EXCEPT !.step = s]
  PROVE  /\ e \in H!JobShapes /\ e.step = s /\ e.kind = j.kind /\ e.hour = j.hour /\ e.reset = j.reset /\ e.webhook = j.webhook
         /\ e.copy = j.copy /\ e.known = j.known /\ e.at = j.at /\ e.event = j.event /\ e.acked = j.acked
BY DEF H!JobShapes

\* The copies of a task are as good as they were.
LEMMA CopiesStay ==
  ASSUME NEW w \in Reporters, UNCHANGED v1,
         \A h \in ReportHours : v6'[w].copy[h] = H!NoReport \/ H!Reflects(v1[h], v6'[w].copy[h])
  PROVE  CopiesOk(w)'
<1> SUFFICES ASSUME NEW h \in ReportHours
             PROVE  v6'[w].copy[h] = H!NoReport \/ H!Reflects(v1[h], v6[w].copy[h])'
  BY DEF CopiesOk, H!NoReport
<1>2. CASE v6'[w].copy[h] = H!NoReport BY <1>2
<1>3. CASE H!Reflects(v1[h], v6'[w].copy[h])
  BY <1>3 DEF H!Reflects, H!Content, H!Events, H!Acks
<1> QED BY <1>2, <1>3

\* An evaluation goes on to a step other than the creation.
LEMMA EvaluationGoesOn ==
  ASSUME H!ReportsInv, NEW w \in Reporters, v6[w].kind = "evaluate",
         NEW s \in {"order", "judge", "reread"}, v6' = [v6 EXCEPT ![w].step = s],
         s # "reread" => v6[w].step \notin {"create", "reread"}, UNCHANGED <<v1, v2, v3, v4, v5, v8, v9>>
  PROVE  H!ReportsInv'
<1>1. PICK e : e = [v6[w] EXCEPT !.step = s] OBVIOUS
<1>2. v6' = [v6 EXCEPT ![w] = e] BY <1>1
<1>3. /\ e \in H!JobShapes /\ e.step = s /\ e.kind = "evaluate" /\ e.hour = v6[w].hour /\ e.copy = v6[w].copy
  BY <1>1, JobIs, ChangesStep
<1>4. ASSUME v6'[w] = e PROVE WorkerOk(w)'
  <2>1. CopiesOk(w) /\ HoursOk(w) BY JobIs DEF WorkerOk
  <2>2. CopiesOk(w)'
    <3>1. CASE s = "reread" BY <1>3, <1>4, <3>1 DEF CopiesOk
    <3>2. CASE s # "reread"
      <4>1. \A h \in ReportHours : v6[w].copy[h] = H!NoReport \/ H!Reflects(v1[h], v6[w].copy[h]) BY <2>1, <3>2 DEF CopiesOk
      <4> QED BY <1>3, <1>4, <4>1, CopiesStay
    <3> QED BY <3>1, <3>2
  <2>3. JudgedOk(w)' /\ PublishOk(w)' BY <1>3, <1>4 DEF JudgedOk, PublishOk
  <2>4. v6'[w].hour \in ReportHours BY <1>3, <1>4, <2>1 DEF HoursOk
  <2> QED BY <1>3, <1>4, <2>2, <2>3, <2>4, NotAlerting
<1> QED BY <1>2, <1>3, <1>4, GoesOnQuietly

LEMMA FindReportKeeps == ASSUME H!ReportsInv, NEW w \in Reporters, H!FindReport(w) PROVE H!ReportsInv'
<1> DEFINE h == v6[w].hour
<1>1. v6[w].kind = "evaluate" /\ v6[w].step = "read" /\ UNCHANGED <<v1, v2, v3, v4, v5, v8>> BY DEF H!FindReport, H!Doing
<1>2. v6[w] \in H!JobShapes /\ StoreInv /\ h \in ReportHours BY <1>1, JobIs DEF WorkerOk, HoursOk
<1>3. CASE H!Frozen(w, v1[h])
  <2>1. H!Resumes(v1[h], v6[w].reset) /\ H!Ends(w) /\ v9' = v9 \union (IF v6[w].reset THEN {h} ELSE {}) BY <1>3 DEF H!Frozen
  <2>2. v9' \subseteq ReportHours /\ \A k \in v9' : v1[k].reset
    BY <1>2, <2>1 DEF H!Resumes, StoreInv, StoreShapes, H!ResetHonoured
  <2>3. StoreInv'
    BY <1>1, <1>2, <2>2 DEF StoreInv, StoreShapes, H!CreatedInv, H!DrainedInv, H!PublishedAgrees, H!ResetHonoured, H!NoReport,
       H!Content, H!Events, H!Unknown, H!AckHonest
  <2> QED BY <1>1, <2>1, <2>3, EndsQuietly
<1>4. CASE ~H!Frozen(w, v1[h])
  <2>1. v6' = [v6 EXCEPT ![w].step = IF v6[w].reset THEN "order" ELSE "judge"] /\ v9' = v9 BY <1>4 DEF H!FindReport
  <2>2. PICK s \in {"order", "judge"} : s = IF v6[w].reset THEN "order" ELSE "judge" OBVIOUS
  <2>3. v6' = [v6 EXCEPT ![w].step = s] BY <2>1, <2>2
  <2> QED BY <1>1, <2>1, <2>3, EvaluationGoesOn
<1> QED BY <1>3, <1>4

LEMMA CheckOrderKeeps == ASSUME H!ReportsInv, NEW w \in Reporters, H!CheckOrder(w) PROVE H!ReportsInv'
<1>1. v6[w].kind = "evaluate" /\ v6[w].step = "order" /\ UNCHANGED <<v1, v2, v3, v4, v5, v8, v9>>
      /\ v6' = [v6 EXCEPT ![w].step = "judge"]
  BY DEF H!CheckOrder, H!Doing
<1> QED BY <1>1, EvaluationGoesOn

LEMMA JudgeKeeps == ASSUME H!ReportsInv, NEW w \in Reporters, H!Judge(w) PROVE H!ReportsInv'
<1> DEFINE h == v6[w].hour
<1>1. v6[w].kind = "evaluate" /\ v6[w].step = "judge" /\ UNCHANGED <<v1, v2, v3, v4, v5, v8, v9>> BY DEF H!Judge, H!Doing
<1>2. v6[w] \in H!JobShapes /\ h \in ReportHours BY <1>1, JobIs DEF WorkerOk, HoursOk
<1>3. PICK new \in SUBSET EventIds :
        v6' = [v6 EXCEPT ![w].step = "create", ![w].copy[h] =
                 [gen |-> 0, reset |-> v6[w].reset, acks |-> [i \in EventIds |-> IF i \in new THEN "pending" ELSE "absent"]]]
  BY DEF H!Judge
<1> DEFINE r == [gen |-> 0, reset |-> v6[w].reset, acks |-> [i \in EventIds |-> IF i \in new THEN "pending" ELSE "absent"]]
<1>4. r \in H!Reports /\ r.gen = 0 /\ r.reset = v6[w].reset /\ \A i \in EventIds : r.acks[i] \in {"absent", "pending"}
  BY <1>2 DEF H!Reports, H!JobShapes
<1>5. v6' = [v6 EXCEPT ![w].step = "create", ![w].copy[h] = r] BY <1>3
<1> HIDE DEF r, h
<1>6. PICK c : c = [v6[w].copy EXCEPT ![h] = r] OBVIOUS
<1>7. c \in [ReportHours -> H!Reports] /\ c[h] = r BY <1>2, <1>4, <1>6 DEF H!JobShapes
<1>8. PICK e : e = [v6[w] EXCEPT !.step = "create", !.copy = c] OBVIOUS
<1>9. /\ e \in H!JobShapes /\ e.kind = "evaluate" /\ e.step = "create" /\ e.hour = v6[w].hour /\ e.copy = c
      /\ e.reset = v6[w].reset
  BY <1>1, <1>2, <1>7, <1>8 DEF H!JobShapes
<1>10. v6' = [v6 EXCEPT ![w] = e] BY <1>5, <1>6, <1>8
<1>11. ASSUME v6'[w] = e PROVE WorkerOk(w)'
  <2>1. CopiesOk(w)' BY <1>9, <1>11 DEF CopiesOk
  <2>2. JudgedOk(w)' /\ PublishOk(w)' BY <1>4, <1>7, <1>9, <1>11 DEF JudgedOk, PublishOk, h
  <2> QED BY <1>2, <1>9, <1>11, <2>1, <2>2, NotAlerting DEF h
<1> QED BY <1>1, <1>9, <1>10, <1>11, GoesOnQuietly

\* A report that is stored anew: the copy that was written, with the next generation.
StoredAs(h, s, r) ==
  /\ r = [s EXCEPT !.gen = v1[h].gen + 1] /\ v1' = [v1 EXCEPT ![h] = r]
  /\ v1[h].gen > 0 => H!Content(s) = H!Content(v1[h])
                      /\ \A i \in EventIds : v1[h].acks[i] \in H!Acks => s.acks[i] = v1[h].acks[i]
LEMMA StoredGrows ==
  ASSUME H!ReportsInv, NEW h \in ReportHours, NEW s \in H!Reports, NEW r \in H!Reports, StoredAs(h, s, r)
  PROVE  /\ v1' \in [ReportHours -> H!Reports] /\ v1'[h] = r /\ r.gen = v1[h].gen + 1 /\ r.acks = s.acks /\ r.reset = s.reset
         /\ H!Content(r) = H!Content(s) /\ \A k \in ReportHours : Grows(k) /\ (k # h => v1'[k] = v1[k])
<1>1. v1 \in [ReportHours -> H!Reports] BY ReportsParts DEF StoreInv, StoreShapes
<1>2. v1' \in [ReportHours -> H!Reports] /\ v1'[h] = r /\ \A k \in ReportHours : k # h => v1'[k] = v1[k] BY <1>1 DEF StoredAs
<1>3. v1[h].gen \in Nat BY <1>1 DEF H!Reports
<1>4. r.gen = v1[h].gen + 1 /\ r.acks = s.acks /\ r.reset = s.reset BY <1>3 DEF H!Reports, StoredAs
<1>5. H!Content(r) = H!Content(s) BY <1>4 DEF H!Content, H!Events
<1>6. Grows(h) BY <1>2, <1>4, <1>5 DEF Grows, StoredAs
<1>7. ASSUME NEW k \in ReportHours PROVE Grows(k) BY <1>2, <1>6 DEF Grows
<1> QED BY <1>2, <1>4, <1>5, <1>7

LEMMA CreateReportKeeps ==
  ASSUME H!ReportsInv, NEW w \in Reporters, H!CreateReport(w)
  PROVE  H!ReportsInv' /\ \A h \in ReportHours : Grows(h)
<1> DEFINE h == v6[w].hour
<1>1. v6[w].kind = "evaluate" /\ v6[w].step = "create" /\ UNCHANGED <<v2, v3, v4, v5, v8>> BY DEF H!CreateReport, H!Doing
<1>2. v6[w] \in H!JobShapes /\ StoreInv /\ WorkerOk(w) /\ h \in ReportHours BY <1>1, JobIs DEF WorkerOk, HoursOk
<1>3. CASE v1[h].gen = 0
  <2>s. PICK s : s = v6[w].copy[h] OBVIOUS
  <2>h. PICK g : g = h OBVIOUS
  <2>1. /\ v1' = [v1 EXCEPT ![h] = [s EXCEPT !.gen = v1[h].gen + 1]]
        /\ v6' = [v6 EXCEPT ![w] = H!Idle] /\ v9' = v9 \union (IF v6[w].reset THEN {h} ELSE {})
    BY <1>3, <2>s DEF H!CreateReport, H!Matches, H!Stored, H!Frozen, H!Copied, H!Ends
  <2>2. s \in H!Reports /\ s.reset = v6[w].reset /\ \A i \in EventIds : s.acks[i] \in {"absent", "pending"}
    BY <1>1, <1>2, <2>s DEF H!JobShapes, WorkerOk, JudgedOk
  <2>3. v1[h] \in H!Reports BY <1>2 DEF StoreInv, StoreShapes
  <2>4. PICK r : r = [s EXCEPT !.gen = v1[h].gen + 1] OBVIOUS
  <2>5. r \in H!Reports BY <2>2, <2>3, <2>4 DEF H!Reports
  <2>6. /\ v1' \in [ReportHours -> H!Reports] /\ v1'[h] = r /\ r.gen = v1[h].gen + 1 /\ r.acks = s.acks /\ r.reset = s.reset
        /\ \A k \in ReportHours : Grows(k) /\ (k # h => v1'[k] = v1[k])
    <3>1. v1' = [v1 EXCEPT ![h] = r] BY <2>1, <2>4
    <3>4. s \in H!Reports /\ g \in ReportHours BY <1>2, <2>2, <2>h
    <3>5. v1' = [v1 EXCEPT ![g] = r] /\ r = [s EXCEPT !.gen = v1[g].gen + 1] BY <2>4, <2>h, <3>1
    <3>6. v1[g].gen > 0 => H!Content(s) = H!Content(v1[g])
                           /\ \A i \in EventIds : v1[g].acks[i] \in H!Acks => s.acks[i] = v1[g].acks[i]
      BY <1>3, <2>h
    <3>7. StoredAs(g, s, r) BY <3>5, <3>6 DEF StoredAs
    <3>3. /\ v1' \in [ReportHours -> H!Reports] /\ v1'[g] = r /\ r.gen = v1[g].gen + 1 /\ r.acks = s.acks /\ r.reset = s.reset
          /\ H!Content(r) = H!Content(s) /\ \A k \in ReportHours : Grows(k) /\ (k # g => v1'[k] = v1[k])
      BY <2>5, <3>4, <3>7, StoredGrows
    <3> QED BY <2>h, <3>3
  <2>7. v6' \in [Reporters -> H!JobShapes] /\ v6'[w] = H!Idle /\ \A u \in Reporters \ {w} : v6'[u] = v6[u]
    BY <2>1, IdleIs, ReportsParts DEF JobsTyped
  <2>8. Stepped(w) BY <1>1, <2>6, <2>7 DEF Stepped, JobsTyped
  <2>9. StoreInv'
    <3>1. h \notin v8 BY <1>2, <1>3 DEF StoreInv, H!DrainedInv
    <3>2. h \notin v9
      <4>1. v1[h] = H!NoReport BY <1>2, <1>3 DEF StoreInv, H!CreatedInv
      <4> QED BY <1>2, <4>1, NoReportIs DEF StoreInv, H!ResetHonoured
    <3>3. H!AckHonest'
      <4> SUFFICES ASSUME NEW k \in ReportHours, NEW i \in EventIds
                   PROVE  (v1'[k].acks[i] = "delivered" => i \in v4) /\ (v1'[k].acks[i] = "logged" => i \in v5)
        BY <1>1 DEF H!AckHonest
      <4>1. CASE k = h BY <2>2, <2>6, <4>1
      <4>2. CASE k # h BY <1>2, <2>6, <4>2 DEF StoreInv, H!AckHonest
      <4> QED BY <4>1, <4>2
    <3>4. StoreShapes' BY <1>1, <1>2, <2>1, <2>6 DEF StoreInv, StoreShapes
    <3>5. H!ResetHonoured'
      <4> SUFFICES ASSUME NEW k \in v9' PROVE v1'[k].reset BY DEF H!ResetHonoured
      <4>1. CASE k = h
        <5>1. v6[w].reset \in BOOLEAN BY <1>2 DEF H!JobShapes
        <5>2. v6[w].reset BY <2>1, <3>2, <4>1
        <5> QED BY <2>2, <2>6, <4>1, <5>2
      <4>2. CASE k # h
        <5>1. k \in v9 BY <2>1, <4>2
        <5> QED BY <1>2, <2>6, <4>2, <5>1 DEF StoreInv, StoreShapes, H!ResetHonoured
      <4> QED BY <4>1, <4>2
    <3>6. H!CreatedInv'
      <4> SUFFICES ASSUME NEW k \in ReportHours, v1'[k].gen = 0 PROVE v1'[k] = H!NoReport BY DEF H!CreatedInv, H!NoReport
      <4>1. k # h BY <1>3, <2>6
      <4> QED BY <1>2, <2>6, <4>1 DEF StoreInv, H!CreatedInv
    <3>7. H!DrainedInv' BY <1>1, <1>2, <2>6, <3>1 DEF StoreInv, StoreShapes, H!DrainedInv
    <3>8. H!PublishedAgrees'
      <4> SUFFICES ASSUME NEW k \in ReportHours
                   PROVE  v2[k] \in {H!Unknown, H!Content(v1'[k])} /\ v3.shows[k] \in {H!Unknown, H!Content(v1'[k])}
        BY <1>1 DEF H!PublishedAgrees, H!Content, H!Events, H!Unknown
      <4>1. v2[k] \in {H!Unknown, H!Content(v1[k])} /\ v3.shows[k] \in {H!Unknown, H!Content(v1[k])}
        BY <1>2 DEF StoreInv, H!PublishedAgrees
      <4>2. CASE k = h
        <5>1. v1[h] = H!NoReport BY <1>2, <1>3 DEF StoreInv, H!CreatedInv
        <5>2. H!Content(H!NoReport) = H!Unknown BY DEF H!Content, H!Unknown, H!Events, H!NoReport
        <5>3. H!Content(v1[h]) = H!Unknown BY Zenon, <5>1, <5>2
        <5> QED BY <4>1, <4>2, <5>3
      <4>3. CASE k # h BY <2>6, <4>1, <4>3
      <4> QED BY <4>2, <4>3
    <3> QED BY <3>3, <3>4, <3>5, <3>6, <3>7, <3>8 DEF StoreInv
  <2>10. WorkerOk(w)' BY <2>7, IdleFine
  <2> QED BY <2>6, <2>8, <2>9, <2>10, StepKeeps
<1>4. CASE v1[h].gen # 0
  <2>1. UNCHANGED <<v1, v9>> /\ v6' = [v6 EXCEPT ![w].step = "reread"] BY <1>4 DEF H!CreateReport, H!Matches
  <2>2. H!ReportsInv' BY <1>1, <2>1, EvaluationGoesOn
  <2> QED BY <2>1, <2>2 DEF Grows
<1> QED BY <1>3, <1>4

LEMMA RereadKeeps == ASSUME H!ReportsInv, NEW w \in Reporters, H!Reread(w) PROVE H!ReportsInv'
<1> DEFINE h == v6[w].hour
<1>1. v6[w].kind = "evaluate" /\ v6[w].step = "reread" /\ UNCHANGED <<v1, v2, v3, v4, v5, v8>> BY DEF H!Reread, H!Doing
<1>2. v6[w] \in H!JobShapes /\ StoreInv /\ h \in ReportHours BY <1>1, JobIs DEF WorkerOk, HoursOk
<1>3. H!Resumes(v1[h], v6[w].reset) /\ H!Ends(w) /\ v9' = v9 \union (IF v6[w].reset THEN {h} ELSE {})
  BY DEF H!Reread, H!Frozen
<1>4. v9' \subseteq ReportHours /\ \A k \in v9' : v1[k].reset
  BY <1>2, <1>3 DEF H!Resumes, StoreInv, StoreShapes, H!ResetHonoured
<1>5. StoreInv'
  BY <1>1, <1>2, <1>4 DEF StoreInv, StoreShapes, H!CreatedInv, H!DrainedInv, H!PublishedAgrees, H!ResetHonoured, H!NoReport,
     H!Content, H!Events, H!Unknown, H!AckHonest
<1> QED BY <1>1, <1>3, <1>5, EndsQuietly

LEMMA ReflectsItself ==
  ASSUME H!ReportsInv, NEW h \in ReportHours PROVE v1[h] = H!NoReport \/ H!Reflects(v1[h], v1[h])
<1>1. v1[h].gen \in Nat /\ (v1[h].gen = 0 => v1[h] = H!NoReport) BY ReportsParts DEF StoreInv, StoreShapes, H!Reports, H!CreatedInv
<1> QED BY <1>1 DEF H!Reflects

LEMMA ReadFrozenKeeps == ASSUME H!ReportsInv, NEW w \in Reporters, H!ReadFrozen(w) PROVE H!ReportsInv'
<1> DEFINE h == v6[w].hour
<1>1. v6[w].kind \in {"persist", "publish"} /\ v6[w].step = "read" /\ UNCHANGED <<v1, v2, v3, v4, v5, v8, v9>>
  BY DEF H!ReadFrozen, H!Doing
<1>2. v6[w] \in H!JobShapes /\ StoreInv /\ WorkerOk(w) /\ h \in ReportHours BY <1>1, JobIs DEF WorkerOk, HoursOk
<1>3. PICK s \in {"rows", "history"} : s = IF v6[w].kind = "persist" THEN "rows" ELSE "history" OBVIOUS
<1>4. v6' = [v6 EXCEPT ![w].copy[h] = v1[h], ![w].step = s] BY <1>3 DEF H!ReadFrozen
<1> HIDE DEF h
<1>5. PICK c : c = [v6[w].copy EXCEPT ![h] = v1[h]] OBVIOUS
<1>6. c \in [ReportHours -> H!Reports] /\ c[h] = v1[h] /\ \A k \in ReportHours : k # h => c[k] = v6[w].copy[k]
  BY <1>2, <1>5 DEF H!JobShapes, StoreInv, StoreShapes
<1>7. PICK e : e = [v6[w] EXCEPT !.copy = c, !.step = s] OBVIOUS
<1>8. e \in H!JobShapes /\ e.kind = v6[w].kind /\ e.step = s /\ e.hour = v6[w].hour /\ e.copy = c
  BY <1>2, <1>6, <1>7 DEF H!JobShapes
<1>9. v6' = [v6 EXCEPT ![w] = e] BY <1>4, <1>5, <1>7
<1>10. ASSUME v6'[w] = e PROVE WorkerOk(w)'
  <2>1. CopiesOk(w)'
    <3>1. \A k \in ReportHours : v6[w].copy[k] = H!NoReport \/ H!Reflects(v1[k], v6[w].copy[k])
      BY <1>1, <1>2 DEF WorkerOk, CopiesOk
    <3>2. \A k \in ReportHours : c[k] = H!NoReport \/ H!Reflects(v1[k], c[k])
      <4> SUFFICES ASSUME NEW k \in ReportHours PROVE c[k] = H!NoReport \/ H!Reflects(v1[k], c[k]) OBVIOUS
      <4>1. CASE k = h BY <1>6, <4>1, ReflectsItself
      <4>2. CASE k # h BY <1>6, <3>1, <4>2
      <4> QED BY <4>1, <4>2
    <3> QED BY <1>1, <1>8, <1>10, <3>2, CopiesStay
  <2>2. JudgedOk(w)' /\ PublishOk(w)' BY <1>1, <1>3, <1>8, <1>10 DEF JudgedOk, PublishOk
  <2> QED BY <1>1, <1>2, <1>3, <1>8, <1>10, <2>1, <2>2, NotAlerting DEF h
<1> QED BY <1>1, <1>8, <1>9, <1>10, GoesOnQuietly

\* What a copy says of an hour is what the stored report says of it, or nothing.
LEMMA CopySays ==
  ASSUME H!ReportsInv, NEW w \in Reporters, v6[w].kind # "evaluate", NEW h \in ReportHours
  PROVE  H!Content(v6[w].copy[h]) \in {H!Unknown, H!Content(v1[h])}
<1>1. v6[w].copy[h] = H!NoReport \/ H!Reflects(v1[h], v6[w].copy[h]) BY JobIs DEF WorkerOk, CopiesOk
<1>2. H!Content(H!NoReport) = H!Unknown BY DEF H!Content, H!Unknown, H!Events, H!NoReport
<1> QED BY <1>1, <1>2 DEF H!Reflects

LEMMA ContentIs == ASSUME NEW r \in H!Reports PROVE H!Content(r) \in H!Contents
BY DEF H!Content, H!Contents, H!Events, H!Reports

LEMMA PersistRowsKeeps == ASSUME H!ReportsInv, NEW w \in Reporters, H!PersistRows(w) PROVE H!ReportsInv'
<1> DEFINE h == v6[w].hour
<1>1. /\ v6[w].kind = "persist" /\ UNCHANGED <<v1, v3, v4, v5, v8, v9>> /\ H!Ends(w)
      /\ v2' = [v2 EXCEPT ![h] = H!Content(v6[w].copy[h])]
  BY DEF H!PersistRows, H!Doing, H!Copied
<1>2. v6[w] \in H!JobShapes /\ StoreInv /\ h \in ReportHours BY <1>1, JobIs DEF WorkerOk, HoursOk
<1>3. v6[w].copy[h] \in H!Reports BY <1>2 DEF H!JobShapes
<1>4. H!Content(v6[w].copy[h]) \in H!Contents BY <1>3, ContentIs
<1>5. H!Content(v6[w].copy[h]) \in {H!Unknown, H!Content(v1[h])} BY <1>1, <1>2, CopySays
<1>6. PICK c : c = H!Content(v6[w].copy[h]) OBVIOUS
<1> HIDE DEF h
<1>7. v2 \in [ReportHours -> H!Contents] BY <1>2 DEF StoreInv, StoreShapes
<1>8. v2' = [v2 EXCEPT ![h] = c] /\ c \in H!Contents BY <1>1, <1>4, <1>6
<1>9. v2' \in [ReportHours -> H!Contents] /\ v2'[h] = c /\ \A k \in ReportHours : k # h => v2'[k] = v2[k]
  BY <1>2, <1>7, <1>8
<1>10. H!PublishedAgrees'
  <2> SUFFICES ASSUME NEW k \in ReportHours
               PROVE  v2'[k] \in {H!Unknown, H!Content(v1[k])} /\ v3.shows[k] \in {H!Unknown, H!Content(v1[k])}
    BY <1>1 DEF H!PublishedAgrees, H!Content, H!Events, H!Unknown
  <2>1. v2[k] \in {H!Unknown, H!Content(v1[k])} /\ v3.shows[k] \in {H!Unknown, H!Content(v1[k])}
    BY <1>2 DEF StoreInv, H!PublishedAgrees
  <2>2. CASE k = h BY <1>5, <1>6, <1>9, <2>1, <2>2
  <2>3. CASE k # h BY <1>9, <2>1, <2>3
  <2> QED BY <2>2, <2>3
<1>11. StoreInv'
  BY <1>1, <1>2, <1>9, <1>10 DEF StoreInv, StoreShapes, H!CreatedInv, H!DrainedInv, H!ResetHonoured, H!NoReport, H!AckHonest
<1> QED BY <1>1, <1>11, EndsQuietly

LEMMA ReadHistoryKeeps == ASSUME H!ReportsInv, NEW w \in Reporters, H!ReadHistory(w) PROVE H!ReportsInv'
<1>1. /\ v6[w].kind = "publish" /\ v6[w].step = "history" /\ UNCHANGED <<v1, v2, v3, v4, v5, v8, v9>>
      /\ v6' = [v6 EXCEPT ![w] = IF v3.hour > v6[w].hour THEN H!Idle ELSE [v6[w] EXCEPT !.step = "collect", !.at = v3.gen]]
  BY DEF H!ReadHistory, H!Doing, H!Newer
<1>2. v6[w] \in H!JobShapes /\ StoreInv /\ WorkerOk(w) /\ v6[w].hour \in ReportHours BY <1>1, JobIs DEF WorkerOk, HoursOk
<1>3. v3.gen \in Nat /\ v3.hour \in Nat /\ v6[w].hour \in Nat BY <1>2, HoursAre DEF StoreInv, StoreShapes
<1>4. CASE v3.hour > v6[w].hour
  <2>1. H!Ends(w) BY <1>1, <1>4 DEF H!Ends
  <2>2. StoreInv' BY <1>1, <1>2, StoreSame
  <2> QED BY <1>1, <2>1, <2>2, EndsQuietly
<1>5. CASE ~(v3.hour > v6[w].hour)
  <2>1. PICK e : e = [v6[w] EXCEPT !.step = "collect", !.at = v3.gen] OBVIOUS
  <2>2. /\ e \in H!JobShapes /\ e.kind = "publish" /\ e.step = "collect" /\ e.hour = v6[w].hour /\ e.copy = v6[w].copy
        /\ e.at = v3.gen
    BY <1>1, <1>2, <1>3, <2>1 DEF H!JobShapes
  <2>3. v6' = [v6 EXCEPT ![w] = e] BY <1>1, <1>5, <2>1
  <2>4. ASSUME v6'[w] = e PROVE WorkerOk(w)'
    <3>1. \A k \in ReportHours : v6[w].copy[k] = H!NoReport \/ H!Reflects(v1[k], v6[w].copy[k])
      BY <1>1, <1>2 DEF WorkerOk, CopiesOk
    <3>2. CopiesOk(w)' BY <1>1, <2>2, <2>4, <3>1, CopiesStay
    <3>3. JudgedOk(w)' BY <2>2, <2>4 DEF JudgedOk
    <3>4. PublishOk(w)' BY <1>1, <1>3, <1>5, <2>2, <2>4 DEF PublishOk
    <3> QED BY <1>2, <2>2, <2>4, <3>2, <3>3, <3>4, NotAlerting
  <2> QED BY <1>1, <2>2, <2>3, <2>4, GoesOnQuietly
<1> QED BY <1>4, <1>5

LEMMA CollectReportsKeeps == ASSUME H!ReportsInv, NEW w \in Reporters, H!CollectReports(w) PROVE H!ReportsInv'
<1>1. /\ v6[w].kind = "publish" /\ v6[w].step = "collect" /\ UNCHANGED <<v1, v2, v3, v4, v5, v8, v9>>
      /\ v6' = [v6 EXCEPT ![w].step = "write", ![w].copy = [h \in ReportHours |-> IF h < v6[w].hour THEN v1[h] ELSE @[h]]]
  BY DEF H!CollectReports, H!Doing
<1>2. v6[w] \in H!JobShapes /\ StoreInv /\ WorkerOk(w) /\ v6[w].hour \in ReportHours BY <1>1, JobIs DEF WorkerOk, HoursOk
<1>3. PICK c : c = [h \in ReportHours |-> IF h < v6[w].hour THEN v1[h] ELSE v6[w].copy[h]] OBVIOUS
<1>4. c \in [ReportHours -> H!Reports] /\ \A h \in ReportHours : c[h] \in {v1[h], v6[w].copy[h]}
  BY <1>2, <1>3 DEF H!JobShapes, StoreInv, StoreShapes
<1>5. PICK e : e = [v6[w] EXCEPT !.step = "write", !.copy = c] OBVIOUS
<1>6. /\ e \in H!JobShapes /\ e.kind = "publish" /\ e.step = "write" /\ e.hour = v6[w].hour /\ e.copy = c /\ e.at = v6[w].at
  BY <1>1, <1>2, <1>4, <1>5 DEF H!JobShapes
<1>7. v6' = [v6 EXCEPT ![w] = e] BY <1>1, <1>3, <1>5
<1>8. ASSUME v6'[w] = e PROVE WorkerOk(w)'
  <2>1. \A k \in ReportHours : c[k] = H!NoReport \/ H!Reflects(v1[k], c[k])
    BY <1>1, <1>2, <1>4, ReflectsItself DEF WorkerOk, CopiesOk
  <2>2. CopiesOk(w)' BY <1>1, <1>6, <1>8, <2>1, CopiesStay
  <2>3. JudgedOk(w)' BY <1>6, <1>8 DEF JudgedOk
  <2>4. PublishOk(w)' BY <1>1, <1>2, <1>6, <1>8 DEF WorkerOk, PublishOk
  <2> QED BY <1>2, <1>6, <1>8, <2>2, <2>3, <2>4, NotAlerting
<1> QED BY <1>1, <1>6, <1>7, <1>8, GoesOnQuietly

LEMMA WriteHistoryKeeps ==
  ASSUME H!ReportsInv, NEW w \in Reporters, H!WriteHistory(w) PROVE H!ReportsInv' /\ v3'.hour >= v3.hour
<1> DEFINE h == v6[w].hour
<1>1. /\ v6[w].kind = "publish" /\ v6[w].step = "write" /\ UNCHANGED <<v1, v2, v4, v5, v8, v9>> /\ H!Ends(w)
      /\ v3.gen = v6[w].at
      /\ v3' = [gen |-> v3.gen + 1, hour |-> h,
                shows |-> [k \in ReportHours |-> IF k <= h THEN H!Content(v6[w].copy[k]) ELSE H!Unknown]]
  BY DEF H!WriteHistory, H!Doing, H!Copied
<1>2. v6[w] \in H!JobShapes /\ StoreInv /\ WorkerOk(w) /\ h \in ReportHours BY <1>1, JobIs DEF WorkerOk, HoursOk
<1>3. v3.gen \in Nat /\ v3.hour \in Nat /\ h \in Nat BY <1>2, HoursAre DEF StoreInv, StoreShapes
<1>4. v3'.gen = v3.gen + 1 /\ v3'.hour = h
      /\ v3'.shows = [k \in ReportHours |-> IF k <= h THEN H!Content(v6[w].copy[k]) ELSE H!Unknown]
  BY <1>1
<1>5. h >= v3.hour BY <1>1, <1>2, <1>3 DEF WorkerOk, PublishOk
<1>6. H!Unknown \in H!Contents BY DEF H!Unknown, H!Contents
<1>7. \A k \in ReportHours : H!Content(v6[w].copy[k]) \in H!Contents
  <2>1. \A k \in ReportHours : v6[w].copy[k] \in H!Reports BY <1>2 DEF H!JobShapes
  <2> QED BY <2>1, ContentIs
<1>8. v3'.shows \in [ReportHours -> H!Contents] BY <1>4, <1>6, <1>7
<1>9. v3' \in [gen : Nat, hour : Nat, shows : [ReportHours -> H!Contents]] BY <1>1, <1>3, <1>4, <1>8
<1>10. H!PublishedAgrees'
  <2> SUFFICES ASSUME NEW k \in ReportHours
               PROVE  v2[k] \in {H!Unknown, H!Content(v1[k])} /\ v3'.shows[k] \in {H!Unknown, H!Content(v1[k])}
    BY <1>1 DEF H!PublishedAgrees, H!Content, H!Events, H!Unknown
  <2>1. v2[k] \in {H!Unknown, H!Content(v1[k])} BY <1>2 DEF StoreInv, H!PublishedAgrees
  <2>2. H!Content(v6[w].copy[k]) \in {H!Unknown, H!Content(v1[k])} BY <1>1, CopySays
  <2> QED BY <1>4, <2>1, <2>2
<1>11. StoreInv'
  BY <1>1, <1>2, <1>9, <1>10 DEF StoreInv, StoreShapes, H!CreatedInv, H!DrainedInv, H!ResetHonoured, H!NoReport, H!AckHonest
<1>12. H!ReportsInv' BY <1>1, <1>4, <1>11, EndsQuietly
<1> QED BY <1>4, <1>5, <1>12

LEMMA FirstIs == ASSUME NEW h \in ReportHours PROVE H!First(h) \in Nat
<1>1. h \in Nat /\ H!First(h) \in 1 .. h BY HoursAre
<1>2. \A x : x \in 1 .. h => x \in Nat BY <1>1
<1> QED BY <1>1, <1>2

\* An acknowledgement is as honest as it was, or its event has gone out.
Improves(w, s) ==
  LET r == v6[w].copy[v6[w].at]
  IN  /\ s \in H!Reports /\ s.gen = r.gen /\ s.reset = r.reset
      /\ \E i \in EventIds : r.acks[i] = "pending"
      /\ \A i \in EventIds :
           /\ s.acks[i] = "absent" <=> r.acks[i] = "absent"
           /\ r.acks[i] \in H!Acks => s.acks[i] = r.acks[i]
           /\ s.acks[i] = "delivered" => r.acks[i] = "delivered" \/ i \in v4
           /\ s.acks[i] = "logged" => r.acks[i] = "logged" \/ i \in v5
           /\ s.acks[i] = "pending" => v6[w].known[i] = ""

\* The copies of a task are as good as the reports that are stored.
LEMMA CopiesNow ==
  ASSUME NEW w \in Reporters, \A h \in ReportHours : v6'[w].copy[h] = H!NoReport \/ H!Reflects(v1'[h], v6'[w].copy[h])
  PROVE  CopiesOk(w)'
BY DEF CopiesOk, H!NoReport, H!Reflects, H!Content, H!Events, H!Acks

\* What an alert task's record says.
LEMMA AlertIs ==
  ASSUME H!ReportsInv, NEW w \in Reporters, v6[w].kind = "alert"
  PROVE  /\ v6[w] \in H!JobShapes /\ StoreInv /\ WorkerOk(w) /\ v6[w].hour \in ReportHours /\ v6[w].hour \in Nat
         /\ H!First(v6[w].hour) \in 1 .. v6[w].hour /\ v6[w].at \in H!First(v6[w].hour) .. v6[w].hour
         /\ v6[w].at \in ReportHours /\ v6[w].at \in Nat
         /\ v6[w].copy \in [ReportHours -> H!Reports] /\ v6[w].known \in [EventIds -> {""} \union H!Acks]
         /\ \A h \in ReportHours : v6[w].copy[h] = H!NoReport \/ H!Reflects(v1[h], v6[w].copy[h])
<1>1. v6[w] \in H!JobShapes /\ StoreInv /\ WorkerOk(w) BY JobIs
<1>2. v6[w].hour \in ReportHours /\ v6[w].at \in H!First(v6[w].hour) .. v6[w].hour BY <1>1 DEF WorkerOk, HoursOk
<1>3. v6[w].hour \in Nat /\ H!First(v6[w].hour) \in 1 .. v6[w].hour /\ v6[w].at \in ReportHours BY <1>2, HoursAre
<1>4. v6[w].at \in Nat BY <1>3, HoursAre
<1>5. v6[w].copy \in [ReportHours -> H!Reports] /\ v6[w].known \in [EventIds -> {""} \union H!Acks] BY <1>1 DEF H!JobShapes
<1> QED BY <1>1, <1>2, <1>3, <1>4, <1>5 DEF WorkerOk, CopiesOk

LEMMA PendingMeansStored ==
  ASSUME H!ReportsInv, NEW w \in Reporters, v6[w].kind = "alert", NEW h \in ReportHours, NEW i \in EventIds,
         v6[w].copy[h].acks[i] = "pending"
  PROVE  H!Reflects(v1[h], v6[w].copy[h])
<1>1. v6[w].copy[h] # H!NoReport BY NoReportIs
<1> QED BY <1>1, AlertIs

LEMMA AckIsHonest ==
  ASSUME StoreInv, NEW s \in H!Reports, NEW h \in ReportHours, s = H!NoReport \/ H!Reflects(v1[h], s), NEW i \in EventIds
  PROVE  (s.acks[i] = "delivered" => i \in v4) /\ (s.acks[i] = "logged" => i \in v5)
<1>1. CASE s = H!NoReport BY <1>1, NoReportIs
<1>2. CASE H!Reflects(v1[h], s) BY <1>2 DEF H!Reflects, H!Acks, StoreInv, H!AckHonest
<1> QED BY <1>1, <1>2

\* The stored report is what the copy says, for the write asks for the copy's generation.
LEMMA WritesCopyKeeps ==
  ASSUME H!ReportsInv, NEW w \in Reporters, v6[w].kind = "alert", v6[w].step \in {"settle", "record"},
         NEW s, H!WritesCopy(w, s, "deliver"), Improves(w, s), UNCHANGED <<v2, v3, v4, v5, v8, v9>>
  PROVE  H!ReportsInv' /\ \A h \in ReportHours : Grows(h)
<1>g. PICK g : g = v6[w].at OBVIOUS
<1>r. PICK r : r = v6[w].copy[g] OBVIOUS
<1>0. /\ v6[w] \in H!JobShapes /\ StoreInv /\ WorkerOk(w) /\ v6[w].hour \in ReportHours /\ g \in ReportHours
      /\ v6[w].copy \in [ReportHours -> H!Reports] /\ r \in H!Reports
      /\ \A h \in ReportHours : v6[w].copy[h] = H!NoReport \/ H!Reflects(v1[h], v6[w].copy[h])
  BY <1>g, <1>r, AlertIs
<1>1. /\ v1[g].gen = r.gen /\ v1' = [v1 EXCEPT ![g] = [s EXCEPT !.gen = v1[g].gen + 1]]
      /\ v6' = [v6 EXCEPT ![w].copy[g] = [s EXCEPT !.gen = v1[g].gen + 1], ![w].step = "deliver", ![w].event = ""]
  BY <1>g, <1>r, ZenonT(40) DEF H!WritesCopy, H!Matches, H!Stored, H!Copied
<1>2. /\ s \in H!Reports /\ s.gen = r.gen /\ s.reset = r.reset
      /\ \E i \in EventIds : r.acks[i] = "pending"
      /\ \A i \in EventIds :
           /\ s.acks[i] = "absent" <=> r.acks[i] = "absent"
           /\ r.acks[i] \in H!Acks => s.acks[i] = r.acks[i]
           /\ s.acks[i] = "delivered" => r.acks[i] = "delivered" \/ i \in v4
           /\ s.acks[i] = "logged" => r.acks[i] = "logged" \/ i \in v5
           /\ s.acks[i] = "pending" => v6[w].known[i] = ""
  BY <1>g, <1>r, ZenonT(40) DEF Improves
<1>3. H!Reflects(v1[g], r) BY <1>0, <1>2, <1>r, PendingMeansStored
<1>4. v1[g] = r BY <1>1, <1>3 DEF H!Reflects
<1>5. PICK n : n = [s EXCEPT !.gen = v1[g].gen + 1] OBVIOUS
<1>6. n \in H!Reports
  <2>1. v1[g].gen \in Nat /\ s \in H!Reports BY <1>0, <1>2, <1>4 DEF H!Reports
  <2> QED BY <1>5, <2>1 DEF H!Reports
<1>7. H!Content(s) = H!Content(v1[g]) BY <1>2, <1>4 DEF H!Content, H!Events
<1>8. StoredAs(g, s, n)
  <2>1. v1' = [v1 EXCEPT ![g] = n] BY <1>1, <1>5
  <2>2. \A i \in EventIds : v1[g].acks[i] \in H!Acks => s.acks[i] = v1[g].acks[i] BY <1>2, <1>4
  <2> QED BY <1>5, <1>7, <2>1, <2>2 DEF StoredAs
<1>9. /\ v1' \in [ReportHours -> H!Reports] /\ v1'[g] = n /\ n.gen = v1[g].gen + 1 /\ n.acks = s.acks /\ n.reset = s.reset
      /\ H!Content(n) = H!Content(s) /\ \A k \in ReportHours : Grows(k) /\ (k # g => v1'[k] = v1[k])
  BY <1>0, <1>2, <1>6, <1>8, StoredGrows
<1>10. PICK c : c = [v6[w].copy EXCEPT ![g] = n] OBVIOUS
<1>11. c \in [ReportHours -> H!Reports] /\ c[g] = n /\ \A k \in ReportHours : k # g => c[k] = v6[w].copy[k] BY <1>0, <1>6, <1>10
<1>12. PICK e : e = [v6[w] EXCEPT !.copy = c, !.step = "deliver", !.event = ""] OBVIOUS
<1>13. /\ e \in H!JobShapes /\ e.kind = "alert" /\ e.step = "deliver" /\ e.copy = c /\ e.hour = v6[w].hour /\ e.at = g
       /\ e.known = v6[w].known /\ e.acked = v6[w].acked
  BY <1>0, <1>11, <1>12, <1>g DEF H!JobShapes
<1>14. v6' = [v6 EXCEPT ![w] = e] BY <1>1, <1>5, <1>10, <1>12
<1>15. v6' \in [Reporters -> H!JobShapes] /\ v6'[w] = e /\ \A u \in Reporters \ {w} : v6'[u] = v6[u]
  BY <1>13, <1>14, ReportsParts DEF JobsTyped
<1>16. Stepped(w) BY <1>9, <1>15 DEF Stepped, JobsTyped
<1>17. StoreInv'
  <2>1. StoreShapes' /\ H!CreatedInv' /\ H!DrainedInv' /\ H!PublishedAgrees' /\ H!ResetHonoured' BY <1>0, <1>9, StoreStands
  <2>2. H!AckHonest'
    <3> SUFFICES ASSUME NEW k \in ReportHours, NEW i \in EventIds
                 PROVE  (v1'[k].acks[i] = "delivered" => i \in v4) /\ (v1'[k].acks[i] = "logged" => i \in v5)
      BY DEF H!AckHonest
    <3>1. (v1[k].acks[i] = "delivered" => i \in v4) /\ (v1[k].acks[i] = "logged" => i \in v5) BY <1>0 DEF StoreInv, H!AckHonest
    <3>2. CASE k = g
      <4>1. (s.acks[i] = "delivered" => r.acks[i] = "delivered" \/ i \in v4) /\ (s.acks[i] = "logged" => r.acks[i] = "logged" \/ i \in v5)
        BY <1>2
      <4>2. v1'[k].acks[i] = s.acks[i] /\ v1[k].acks[i] = r.acks[i] BY <1>4, <1>9, <3>2
      <4> QED BY <3>1, <4>1, <4>2
    <3>3. CASE k # g BY <1>9, <3>1, <3>3
    <3> QED BY <3>2, <3>3
  <2> QED BY <2>1, <2>2 DEF StoreInv
<1>18. WorkerOk(w)'
  <2>1. CopiesOk(w)'
    <3>1. \A h \in ReportHours : c[h] = H!NoReport \/ H!Reflects(v1'[h], c[h])
      <4> SUFFICES ASSUME NEW h \in ReportHours PROVE c[h] = H!NoReport \/ H!Reflects(v1'[h], c[h]) OBVIOUS
      <4>1. CASE h = g
        <5>1. n.gen \in Nat /\ n.gen > 0
          <6>1. v1[g].gen \in Nat BY <1>0 DEF StoreInv, StoreShapes, H!Reports
          <6> QED BY <1>9, <6>1
        <5>2. H!Reflects(n, n) BY <5>1 DEF H!Reflects
        <5> QED BY <1>9, <1>11, <4>1, <5>2
      <4>2. CASE h # g BY <1>0, <1>9, <1>11, <4>2
      <4> QED BY <4>1, <4>2
    <3> QED BY <1>13, <1>15, <3>1, CopiesNow
  <2>2. JudgedOk(w)' /\ PublishOk(w)' /\ SentOk(w)' BY <1>13, <1>15 DEF JudgedOk, PublishOk, SentOk
  <2>3. HoursOk(w)' BY <1>0, <1>13, <1>15, <1>g DEF WorkerOk, HoursOk, H!First
  <2>4. HeardOk(w)' BY <1>0, <1>13, <1>15 DEF WorkerOk, HeardOk
  <2>5. AckedOk(w)' BY <1>0, <1>13, <1>15 DEF WorkerOk, AckedOk
  <2>6. PendingOk(w)'
    <3>1. \A i \in EventIds : c[g].acks[i] = "pending" => v6[w].known[i] = ""
      <4>1. \A i \in EventIds : s.acks[i] = "pending" => v6[w].known[i] = "" BY <1>2
      <4>2. c[g].acks = s.acks BY <1>9, <1>11
      <4> QED BY <4>1, <4>2
    <3> QED BY <1>13, <1>15, <3>1 DEF PendingOk
  <2>7. DoneOk(w)'
    <3> SUFFICES ASSUME NEW k \in H!First(v6[w].hour) .. g - 1, NEW i \in EventIds PROVE c[k].acks[i] # "pending"
      BY <1>13, <1>15 DEF DoneOk, H!First
    <3>1. v6[w].copy[k].acks[i] # "pending" BY <1>0, <1>g DEF WorkerOk, DoneOk
    <3>2. k \in ReportHours /\ k # g
      <4>1. v6[w].hour \in Nat /\ H!First(v6[w].hour) \in 1 .. v6[w].hour /\ g \in H!First(v6[w].hour) .. v6[w].hour
        BY <1>g, AlertIs
      <4>2. H!First(v6[w].hour) \in Nat BY <4>1
      <4>3. k \in H!First(v6[w].hour) .. v6[w].hour /\ k # g BY <4>1, <4>2
      <4> QED BY <1>0, <4>3, HoursAre
    <3> QED BY <1>11, <3>1, <3>2
  <2> QED BY <2>1, <2>2, <2>3, <2>4, <2>5, <2>6, <2>7 DEF WorkerOk
<1> QED BY <1>9, <1>16, <1>17, <1>18, StepKeeps

LEMMA LoadReportKeeps == ASSUME H!ReportsInv, NEW w \in Reporters, H!LoadReport(w) PROVE H!ReportsInv'
<1>g. PICK g : g = v6[w].at OBVIOUS
<1>h. PICK h : h = v6[w].hour OBVIOUS
<1>1. /\ v6[w].kind = "alert" /\ v6[w].step = "read" /\ UNCHANGED <<v1, v2, v3, v4, v5, v8, v9>>
      /\ v6' = [v6 EXCEPT ![w].copy[g] = v1[g], ![w].known = H!Remembered(v6[w].known, v1[g]),
                          ![w].step = IF g = h THEN "settle" ELSE "read",
                          ![w].at = IF g = h THEN H!First(h) ELSE g + 1]
  BY <1>g, <1>h DEF H!LoadReport, H!Doing
<1>0. /\ v6[w] \in H!JobShapes /\ StoreInv /\ WorkerOk(w) /\ h \in ReportHours /\ g \in ReportHours /\ g \in Nat /\ h \in Nat
      /\ g \in H!First(h) .. h /\ H!First(h) \in 1 .. h
      /\ v6[w].copy \in [ReportHours -> H!Reports] /\ v6[w].known \in [EventIds -> {""} \union H!Acks]
      /\ \A k \in ReportHours : v6[w].copy[k] = H!NoReport \/ H!Reflects(v1[k], v6[w].copy[k])
  BY <1>1, <1>g, <1>h, AlertIs
<1>2. v1[g] \in H!Reports BY <1>0 DEF StoreInv, StoreShapes
<1>3. PICK s \in {"settle", "read"} : s = IF g = h THEN "settle" ELSE "read" OBVIOUS
<1>4. PICK a : a = IF g = h THEN H!First(h) ELSE g + 1 OBVIOUS
<1>5. a \in Nat /\ a \in H!First(h) .. h /\ (g # h => a = g + 1) /\ (g = h => a = H!First(h))
  <2>1. H!First(h) \in Nat BY <1>0, FirstIs
  <2>2. PICK f : f = H!First(h) OBVIOUS
  <2>3. f \in Nat /\ f <= h /\ g \in Nat /\ h \in Nat /\ g >= f /\ g <= h
    <3>1. g \in H!First(h) .. h /\ H!First(h) \in 1 .. h BY <1>0
    <3>2. g \in f .. h /\ f \in 1 .. h /\ f \in Nat BY <2>1, <2>2, <3>1
    <3>3. g \in Nat /\ h \in Nat BY <1>0
    <3> QED BY <3>2, <3>3
  <2>4. a = IF g = h THEN f ELSE g + 1 BY <1>4, <2>2
  <2>5. a \in Nat /\ a \in f .. h /\ (g # h => a = g + 1) /\ (g = h => a = f) BY <2>3, <2>4
  <2> QED BY <2>2, <2>5
<1>6. PICK known : known = H!Remembered(v6[w].known, v1[g]) OBVIOUS
<1>7. /\ known \in [EventIds -> {""} \union H!Acks]
      /\ \A i \in EventIds :
           /\ known[i] = "delivered" => v1[g].acks[i] = "delivered" \/ v6[w].known[i] = "delivered"
           /\ known[i] = "logged" => v1[g].acks[i] = "logged" \/ v6[w].known[i] = "logged"
           /\ v6[w].known[i] # "" \/ v1[g].acks[i] \in H!Acks => known[i] # ""
  <2>1. known = [i \in EventIds |-> IF v1[g].acks[i] = "delivered" THEN "delivered"
                                    ELSE IF v1[g].acks[i] = "logged" /\ v6[w].known[i] = "" THEN "logged" ELSE v6[w].known[i]]
    BY <1>6 DEF H!Remembered
  <2> QED BY <1>0, <2>1 DEF H!Acks
<1>8. PICK c : c = [v6[w].copy EXCEPT ![g] = v1[g]] OBVIOUS
<1>9. c \in [ReportHours -> H!Reports] /\ c[g] = v1[g] /\ \A k \in ReportHours : k # g => c[k] = v6[w].copy[k] BY <1>0, <1>2, <1>8
<1>10. PICK e : e = [v6[w] EXCEPT !.copy = c, !.known = known, !.step = s, !.at = a] OBVIOUS
<1>11. /\ e \in H!JobShapes /\ e.kind = "alert" /\ e.step = s /\ e.copy = c /\ e.hour = h /\ e.at = a /\ e.known = known
       /\ e.acked = v6[w].acked
  BY <1>0, <1>1, <1>3, <1>5, <1>7, <1>9, <1>10, <1>h DEF H!JobShapes
<1>12. v6' = [v6 EXCEPT ![w] = e] BY <1>1, <1>3, <1>4, <1>6, <1>8, <1>10
<1>13. ASSUME v6'[w] = e PROVE WorkerOk(w)'
  <2>1. CopiesOk(w)'
    <3>1. \A k \in ReportHours : c[k] = H!NoReport \/ H!Reflects(v1[k], c[k])
      <4> SUFFICES ASSUME NEW k \in ReportHours PROVE c[k] = H!NoReport \/ H!Reflects(v1[k], c[k]) OBVIOUS
      <4>1. CASE k = g BY <1>9, <4>1, ReflectsItself
      <4>2. CASE k # g BY <1>0, <1>9, <4>2
      <4> QED BY <4>1, <4>2
    <3> QED BY <1>1, <1>11, <1>13, <3>1, CopiesStay
  <2>2. JudgedOk(w)' /\ PublishOk(w)' /\ SentOk(w)' /\ PendingOk(w)'
    BY <1>3, <1>11, <1>13 DEF JudgedOk, PublishOk, SentOk, PendingOk
  <2>3. HoursOk(w)' BY <1>0, <1>3, <1>5, <1>11, <1>13 DEF HoursOk, H!First
  <2>4. HeardOk(w)' BY <1>0, <1>1, <1>7, <1>11, <1>13 DEF WorkerOk, HeardOk, StoreInv, H!AckHonest
  <2>5. AckedOk(w)'
    <3> SUFFICES ASSUME NEW i \in v6[w].acked
                 PROVE  known[i] # "" \/ (s = "read" /\ \E k \in a .. h : v1[k].acks[i] \in H!Acks)
      BY <1>1, <1>11, <1>13 DEF AckedOk, H!Acks
    <3>1. i \in EventIds BY <1>0 DEF H!JobShapes
    <3>2. v6[w].known[i] # "" \/ \E k \in g .. h : v1[k].acks[i] \in H!Acks BY <1>0, <1>1, <1>g, <1>h DEF WorkerOk, AckedOk
    <3>3. CASE v6[w].known[i] # "" BY <1>7, <3>1, <3>3
    <3>4. CASE \E k \in g .. h : v1[k].acks[i] \in H!Acks
      <4>1. PICK k \in g .. h : v1[k].acks[i] \in H!Acks BY <3>4
      <4>2. CASE k = g BY <1>7, <3>1, <4>1, <4>2
      <4>3. CASE k # g
        <5>1. g # h /\ k \in g + 1 .. h
          <6>1. g \in Nat /\ h \in Nat /\ k \in g .. h BY <1>0
          <6> QED BY <4>3, <6>1
        <5> QED BY <1>3, <1>5, <4>1, <5>1
      <4> QED BY <4>2, <4>3
    <3> QED BY <3>2, <3>3, <3>4
  <2>6. DoneOk(w)'
    <3> SUFFICES ASSUME s # "read", NEW k \in H!First(h) .. a - 1 PROVE FALSE BY <1>11, <1>13 DEF DoneOk, H!First
    <3>1. a = H!First(h) /\ H!First(h) \in Nat BY <1>0, <1>3, <1>5, FirstIs
    <3> QED BY <3>1
  <2> QED BY <2>1, <2>2, <2>3, <2>4, <2>5, <2>6 DEF WorkerOk
<1> QED BY <1>1, <1>11, <1>12, <1>13, GoesOnQuietly

\* The event goes out, or the task ends.
LEMMA SendKeeps == ASSUME H!ReportsInv, NEW w \in Reporters, H!Send(w) PROVE H!ReportsInv'
<1>1. v6[w].kind = "alert" /\ v6[w].step = "deliver" /\ UNCHANGED <<v1, v2, v3, v8, v9>> BY DEF H!Send, H!Doing
<1>2. PICK i \in EventIds :
        /\ v6[w].copy[v6[w].at].acks[i] = "pending"
        /\ IF ~v6[w].webhook THEN v5' = v5 \union {i} /\ v4' = v4
           ELSE v4' \in {v4, v4 \union {i}} /\ v5' = v5
        /\ \/ (i \in v4' \/ ~v6[w].webhook) /\ v6' = [v6 EXCEPT ![w].step = "record", ![w].event = i]
           \/ v6[w].webhook /\ v6' = [v6 EXCEPT ![w] = H!Idle]
  BY <1>1 DEF H!Send, H!Copied, H!AfterFailure
<1>3. v4 \subseteq v4' /\ v5 \subseteq v5' BY <1>2
<1>0. v6[w] \in H!JobShapes /\ StoreInv /\ WorkerOk(w)
      /\ \A k \in ReportHours : v6[w].copy[k] = H!NoReport \/ H!Reflects(v1[k], v6[w].copy[k])
  BY <1>1, AlertIs
<1>4. CASE v6' = [v6 EXCEPT ![w] = H!Idle]
  <2>1. StoreInv' BY <1>0, <1>1, <1>3, StoreSame
  <2> QED BY <1>1, <1>3, <1>4, <2>1, EndsQuietly DEF H!Ends
<1>5. CASE v6' # [v6 EXCEPT ![w] = H!Idle]
  <2>1. v6' = [v6 EXCEPT ![w].step = "record", ![w].event = i] /\ IF v6[w].webhook THEN i \in v4' ELSE i \in v5'
    BY <1>2, <1>5
  <2>2. PICK e : e = [v6[w] EXCEPT !.step = "record", !.event = i] OBVIOUS
  <2>3. /\ e \in H!JobShapes /\ e.kind = "alert" /\ e.step = "record" /\ e.event = i /\ e.copy = v6[w].copy /\ e.hour = v6[w].hour
        /\ e.at = v6[w].at /\ e.known = v6[w].known /\ e.acked = v6[w].acked /\ e.webhook = v6[w].webhook
    BY <1>0, <1>1, <2>2 DEF H!JobShapes
  <2>4. v6' = [v6 EXCEPT ![w] = e] BY <2>1, <2>2
  <2>5. ASSUME v6'[w] = e PROVE WorkerOk(w)'
    <3>1. CopiesOk(w)' BY <1>0, <1>1, <2>3, <2>5, CopiesStay
    <3>2. JudgedOk(w)' /\ PublishOk(w)' BY <2>3, <2>5 DEF JudgedOk, PublishOk
    <3>3. SentOk(w)' BY <1>2, <2>1, <2>3, <2>5 DEF SentOk
    <3>4. HoursOk(w)' BY <1>0, <1>1, <2>3, <2>5 DEF WorkerOk, HoursOk, H!First
    <3>5. HeardOk(w)' BY <1>0, <1>1, <1>3, <2>3, <2>5 DEF WorkerOk, HeardOk
    <3>6. AckedOk(w)' BY <1>0, <1>1, <2>3, <2>5 DEF WorkerOk, AckedOk
    <3>7. PendingOk(w)' BY <1>0, <1>1, <2>3, <2>5 DEF WorkerOk, PendingOk
    <3>8. DoneOk(w)' BY <1>0, <1>1, <2>3, <2>5 DEF WorkerOk, DoneOk, H!First
    <3> QED BY <3>1, <3>2, <3>3, <3>4, <3>5, <3>6, <3>7, <3>8 DEF WorkerOk
  <2> QED BY <1>1, <1>3, <2>3, <2>4, <2>5, GoesOnQuietly
<1> QED BY <1>4, <1>5

LEMMA SettleKeeps ==
  ASSUME H!ReportsInv, NEW w \in Reporters, H!Settle(w)
  PROVE  H!ReportsInv' /\ \A h \in ReportHours : Grows(h)
<1>g. PICK g : g = v6[w].at OBVIOUS
<1>r. PICK r : r = v6[w].copy[g] OBVIOUS
<1>1. v6[w].kind = "alert" /\ v6[w].step = "settle" /\ UNCHANGED <<v2, v3, v4, v5, v8, v9>> BY DEF H!Settle, H!Doing
<1>0. /\ v6[w] \in H!JobShapes /\ StoreInv /\ WorkerOk(w) /\ g \in ReportHours /\ r \in H!Reports
      /\ v6[w].known \in [EventIds -> {""} \union H!Acks]
      /\ \A k \in ReportHours : v6[w].copy[k] = H!NoReport \/ H!Reflects(v1[k], v6[w].copy[k])
  BY <1>1, <1>g, <1>r, AlertIs
<1>2. PICK s : s = H!Acknowledged(r, v6[w].known) OBVIOUS
<1>3. s = [r EXCEPT !.acks = [i \in EventIds |-> IF r.acks[i] = "pending" /\ v6[w].known[i] # "" THEN v6[w].known[i] ELSE r.acks[i]]]
  BY <1>2 DEF H!Acknowledged
<1>4. r.gen \in Nat /\ r.reset \in BOOLEAN /\ r.acks \in [EventIds -> {"absent", "pending"} \union H!Acks] BY <1>0 DEF H!Reports
<1>5. PICK a : a = [i \in EventIds |-> IF r.acks[i] = "pending" /\ v6[w].known[i] # "" THEN v6[w].known[i] ELSE r.acks[i]] OBVIOUS
<1>6. a \in [EventIds -> {"absent", "pending"} \union H!Acks] BY <1>0, <1>4, <1>5
<1>7. s = [r EXCEPT !.acks = a] BY <1>3, <1>5
<1>8. s \in H!Reports /\ s.gen = r.gen /\ s.reset = r.reset /\ s.acks = a BY <1>0, <1>6, <1>7 DEF H!Reports
<1>9. ASSUME NEW i \in EventIds
      PROVE  /\ s.acks[i] = "absent" <=> r.acks[i] = "absent"
             /\ r.acks[i] \in H!Acks => s.acks[i] = r.acks[i]
             /\ s.acks[i] = "delivered" => r.acks[i] = "delivered" \/ i \in v4
             /\ s.acks[i] = "logged" => r.acks[i] = "logged" \/ i \in v5
             /\ s.acks[i] = "pending" => v6[w].known[i] = ""
  <2>1. s.acks[i] = IF r.acks[i] = "pending" /\ v6[w].known[i] # "" THEN v6[w].known[i] ELSE r.acks[i] BY <1>5, <1>8
  <2>2. (v6[w].known[i] = "delivered" => i \in v4) /\ (v6[w].known[i] = "logged" => i \in v5) BY <1>0, <1>1 DEF WorkerOk, HeardOk
  <2>3. v6[w].known[i] \in {"", "delivered", "logged"} BY <1>0 DEF H!Acks
  <2> QED BY <2>1, <2>2, <2>3 DEF H!Acks
<1>10. CASE s # r
  <2>1. H!WritesCopy(w, s, "deliver") BY <1>2, <1>10, <1>g, <1>r DEF H!Settle, H!Copied
  <2>2. \E i \in EventIds : r.acks[i] = "pending"
    <3> SUFFICES ASSUME \A i \in EventIds : r.acks[i] # "pending" PROVE FALSE OBVIOUS
    <3>1. a = r.acks BY <1>4, <1>5
    <3>2. s = r
      <4>1. r = [gen |-> r.gen, acks |-> r.acks, reset |-> r.reset] BY <1>0 DEF H!Reports
      <4>2. s = [gen |-> s.gen, acks |-> s.acks, reset |-> s.reset] BY <1>8 DEF H!Reports
      <4> QED BY <1>8, <3>1, <4>1, <4>2
    <3> QED BY <1>10, <3>2
  <2>3. Improves(w, s) BY <1>8, <1>9, <2>2, <1>g, <1>r, ZenonT(40) DEF Improves
  <2> QED BY <1>1, <2>1, <2>3, WritesCopyKeeps
<1>11. CASE s = r
  <2>1. v6' = [v6 EXCEPT ![w].step = "deliver"] /\ v1' = v1 BY <1>2, <1>11, <1>g, <1>r DEF H!Settle, H!Copied
  <2>2. PICK e : e = [v6[w] EXCEPT !.step = "deliver"] OBVIOUS
  <2>3. /\ e \in H!JobShapes /\ e.kind = "alert" /\ e.step = "deliver" /\ e.copy = v6[w].copy /\ e.hour = v6[w].hour
        /\ e.at = g /\ e.known = v6[w].known /\ e.acked = v6[w].acked
    BY <1>0, <1>1, <2>2, <1>g DEF H!JobShapes
  <2>4. v6' = [v6 EXCEPT ![w] = e] BY <2>1, <2>2
  <2>5. ASSUME v6'[w] = e PROVE WorkerOk(w)'
    <3>1. CopiesOk(w)' BY <1>0, <1>1, <2>1, <2>3, <2>5, CopiesStay
    <3>2. JudgedOk(w)' /\ PublishOk(w)' /\ SentOk(w)' BY <2>3, <2>5 DEF JudgedOk, PublishOk, SentOk
    <3>4. HoursOk(w)' BY <1>0, <1>1, <2>3, <2>5, <1>g DEF WorkerOk, HoursOk, H!First
    <3>5. HeardOk(w)' BY <1>0, <1>1, <2>3, <2>5 DEF WorkerOk, HeardOk
    <3>6. AckedOk(w)' BY <1>0, <1>1, <2>3, <2>5 DEF WorkerOk, AckedOk
    <3>7. PendingOk(w)' BY <1>9, <1>11, <2>3, <2>5, <1>r DEF PendingOk
    <3>8. DoneOk(w)' BY <1>0, <1>1, <2>3, <2>5, <1>g DEF WorkerOk, DoneOk, H!First
    <3> QED BY <3>1, <3>2, <3>4, <3>5, <3>6, <3>7, <3>8 DEF WorkerOk
  <2>6. H!ReportsInv' BY <1>1, <2>1, <2>3, <2>4, <2>5, GoesOnQuietly
  <2> QED BY <2>1, <2>6 DEF Grows
<1> QED BY <1>10, <1>11

LEMMA RecordKeeps ==
  ASSUME H!ReportsInv, NEW w \in Reporters, H!Record(w)
  PROVE  H!ReportsInv' /\ \A h \in ReportHours : Grows(h)
<1>g. PICK g : g = v6[w].at OBVIOUS
<1>r. PICK r : r = v6[w].copy[g] OBVIOUS
<1>i. PICK n : n = v6[w].event OBVIOUS
<1>a. PICK a \in H!Acks : a = IF v6[w].webhook THEN "delivered" ELSE "logged" BY DEF H!Acks
<1>1. v6[w].kind = "alert" /\ v6[w].step = "record" /\ UNCHANGED <<v2, v3, v4, v5, v8, v9>> BY DEF H!Record, H!Doing
<1>0. /\ v6[w] \in H!JobShapes /\ StoreInv /\ WorkerOk(w) /\ g \in ReportHours /\ r \in H!Reports BY <1>1, <1>g, <1>r, AlertIs
<1>2. n \in EventIds /\ r.acks[n] = "pending" /\ IF v6[w].webhook THEN n \in v4 ELSE n \in v5
  BY <1>0, <1>1, <1>g, <1>r, <1>i DEF WorkerOk, SentOk
<1>3. r.gen \in Nat /\ r.reset \in BOOLEAN /\ r.acks \in [EventIds -> {"absent", "pending"} \union H!Acks] BY <1>0 DEF H!Reports
<1>4. PICK s : s = [r EXCEPT !.acks[n] = a] OBVIOUS
<1>5. PICK b : b = [r.acks EXCEPT ![n] = a] OBVIOUS
<1>6. b \in [EventIds -> {"absent", "pending"} \union H!Acks] /\ b[n] = a /\ \A i \in EventIds : i # n => b[i] = r.acks[i]
  BY <1>2, <1>3, <1>5
<1>7. s = [r EXCEPT !.acks = b] BY <1>4, <1>5
<1>8. s \in H!Reports /\ s.gen = r.gen /\ s.reset = r.reset /\ s.acks = b BY <1>0, <1>6, <1>7 DEF H!Reports
<1>9. H!WritesCopy(w, s, "deliver")
  <2>1. s = [r EXCEPT !.acks[n] = IF v6[w].webhook THEN "delivered" ELSE "logged"] BY <1>4, <1>a
  <2> QED BY <2>1, <1>g, <1>r, <1>i DEF H!Record, H!Copied
<1>10. ASSUME NEW i \in EventIds
       PROVE  /\ s.acks[i] = "absent" <=> r.acks[i] = "absent"
              /\ r.acks[i] \in H!Acks => s.acks[i] = r.acks[i]
              /\ s.acks[i] = "delivered" => r.acks[i] = "delivered" \/ i \in v4
              /\ s.acks[i] = "logged" => r.acks[i] = "logged" \/ i \in v5
              /\ s.acks[i] = "pending" => v6[w].known[i] = ""
  <2>1. CASE i = n
    <3>1. s.acks[i] = a /\ r.acks[i] = "pending" BY <1>2, <1>6, <1>8, <2>1
    <3> QED BY <1>2, <1>a, <2>1, <3>1 DEF H!Acks
  <2>2. CASE i # n
    <3>1. s.acks[i] = r.acks[i] BY <1>6, <1>8, <2>2
    <3>2. r.acks[i] = "pending" => v6[w].known[i] = "" BY <1>0, <1>1, <1>g, <1>r DEF WorkerOk, PendingOk
    <3> QED BY <3>1, <3>2
  <2> QED BY <2>1, <2>2
<1>11. Improves(w, s) BY <1>2, <1>8, <1>10, <1>g, <1>r, ZenonT(40) DEF Improves
<1> QED BY <1>1, <1>9, <1>11, WritesCopyKeeps

\* Nothing is pending in this report: the next one, with what this one acknowledged, or
\* the end.
LEMMA NextReportKeeps == ASSUME H!ReportsInv, NEW w \in Reporters, H!NextReport(w) PROVE H!ReportsInv'
<1>g. PICK g : g = v6[w].at OBVIOUS
<1>h. PICK h : h = v6[w].hour OBVIOUS
<1>r. PICK r : r = v6[w].copy[g] OBVIOUS
<1>f. PICK f : f = H!First(h) OBVIOUS
<1>1. /\ v6[w].kind = "alert" /\ v6[w].step = "deliver" /\ UNCHANGED <<v1, v2, v3, v4, v5, v9>>
      /\ \A i \in EventIds : r.acks[i] # "pending"
  BY <1>g, <1>r DEF H!NextReport, H!Doing, H!Copied
<1>0. /\ v6[w] \in H!JobShapes /\ StoreInv /\ WorkerOk(w) /\ g \in ReportHours /\ r \in H!Reports /\ h \in ReportHours
      /\ v6[w].known \in [EventIds -> {""} \union H!Acks]
      /\ \A k \in ReportHours : v6[w].copy[k] = H!NoReport \/ H!Reflects(v1[k], v6[w].copy[k])
      /\ v6[w].copy \in [ReportHours -> H!Reports]
  BY <1>1, <1>g, <1>h, <1>r, AlertIs
<1>2. g \in f .. h /\ f \in 1 .. h /\ f \in Nat /\ g \in Nat /\ h \in Nat
  BY <1>0, <1>1, <1>g, <1>h, <1>f, AlertIs, FirstIs
<1>3. \A k \in f .. g, i \in EventIds : v6[w].copy[k].acks[i] # "pending"
  <2> SUFFICES ASSUME NEW k \in f .. g, NEW i \in EventIds PROVE v6[w].copy[k].acks[i] # "pending" OBVIOUS
  <2>1. k = g \/ k \in f .. g - 1 BY <1>2
  <2>2. CASE k = g BY <1>1, <1>r, <2>2
  <2>3. CASE k \in f .. g - 1 BY <1>0, <1>1, <1>g, <1>h, <1>f, <2>3 DEF WorkerOk, DoneOk
  <2> QED BY <2>1, <2>2, <2>3
<1>4. CASE g + 1 <= h
  <2>1. PICK known : known = H!Remembered(v6[w].known, r) OBVIOUS
  <2>2. v6' = [v6 EXCEPT ![w].step = "settle", ![w].at = g + 1, ![w].known = known] /\ v8' = v8
    BY <1>4, <1>g, <1>h, <1>r, <2>1 DEF H!NextReport, H!NextAt, H!Copied
  <2>3. /\ known \in [EventIds -> {""} \union H!Acks]
        /\ \A i \in EventIds :
             /\ known[i] = "delivered" => r.acks[i] = "delivered" \/ v6[w].known[i] = "delivered"
             /\ known[i] = "logged" => r.acks[i] = "logged" \/ v6[w].known[i] = "logged"
             /\ v6[w].known[i] # "" => known[i] # ""
    <3>1. known = [i \in EventIds |-> IF r.acks[i] = "delivered" THEN "delivered"
                                      ELSE IF r.acks[i] = "logged" /\ v6[w].known[i] = "" THEN "logged" ELSE v6[w].known[i]]
      BY <2>1 DEF H!Remembered
    <3> QED BY <1>0, <3>1 DEF H!Acks
  <2>4. PICK e : e = [v6[w] EXCEPT !.step = "settle", !.at = g + 1, !.known = known] OBVIOUS
  <2>5. /\ e \in H!JobShapes /\ e.kind = "alert" /\ e.step = "settle" /\ e.copy = v6[w].copy /\ e.hour = h
        /\ e.at = g + 1 /\ e.known = known /\ e.acked = v6[w].acked
    <3>1. g + 1 \in Nat BY <1>2
    <3> QED BY <1>0, <1>1, <1>h, <2>3, <2>4, <3>1 DEF H!JobShapes
  <2>6. v6' = [v6 EXCEPT ![w] = e] BY <2>2, <2>4
  <2>7. ASSUME v6'[w] = e PROVE WorkerOk(w)'
    <3>1. CopiesOk(w)' BY <1>0, <1>1, <2>5, <2>7, CopiesStay
    <3>2. JudgedOk(w)' /\ PublishOk(w)' /\ SentOk(w)' /\ PendingOk(w)' BY <2>5, <2>7 DEF JudgedOk, PublishOk, SentOk, PendingOk
    <3>3. HoursOk(w)'
      <4>1. g + 1 \in f .. h BY <1>2, <1>4
      <4>2. g + 1 \in H!First(h) .. h BY <4>1, <1>f
      <4> QED BY <1>0, <2>5, <2>7, <4>2 DEF HoursOk, H!First
    <3>4. HeardOk(w)'
      <4> SUFFICES ASSUME NEW i \in EventIds PROVE (known[i] = "delivered" => i \in v4) /\ (known[i] = "logged" => i \in v5)
        BY <1>1, <2>5, <2>7 DEF HeardOk
      <4>1. (r.acks[i] = "delivered" => i \in v4) /\ (r.acks[i] = "logged" => i \in v5)
        BY <1>0, <1>r, AckIsHonest
      <4>2. (v6[w].known[i] = "delivered" => i \in v4) /\ (v6[w].known[i] = "logged" => i \in v5)
        BY <1>0, <1>1 DEF WorkerOk, HeardOk
      <4> QED BY <2>3, <4>1, <4>2
    <3>5. AckedOk(w)'
      <4> SUFFICES ASSUME NEW i \in v6[w].acked PROVE known[i] # "" BY <2>5, <2>7 DEF AckedOk
      <4>1. i \in EventIds BY <1>0 DEF H!JobShapes
      <4>2. v6[w].known[i] # "" BY <1>0, <1>1 DEF WorkerOk, AckedOk
      <4> QED BY <2>3, <4>1, <4>2
    <3>6. DoneOk(w)'
      <4>1. v6'[w].hour = h /\ v6'[w].at - 1 = g /\ v6'[w].copy = v6[w].copy BY <1>2, <2>5, <2>7
      <4>2. (H!First(v6[w].hour) .. v6[w].at - 1)' = f .. g BY <4>1, <1>f DEF H!First
      <4> QED BY <1>3, <4>1, <4>2 DEF DoneOk
    <3> QED BY <3>1, <3>2, <3>3, <3>4, <3>5, <3>6 DEF WorkerOk
  <2> QED BY <1>1, <2>2, <2>5, <2>6, <2>7, GoesOnQuietly
<1>5. CASE ~(g + 1 <= h)
  <2>1. H!Ends(w) /\ v8' = v8 \union {k \in f .. h : v6[w].copy[k].gen > 0}
    BY <1>5, <1>g, <1>h, <1>f DEF H!NextReport, H!NextAt, H!Copied
  <2>2. g = h BY <1>2, <1>5
  <2>3. ASSUME NEW k \in f .. h, v6[w].copy[k].gen > 0
        PROVE  k \in ReportHours /\ v1[k].gen > 0 /\ \A i \in EventIds : v1[k].acks[i] # "pending"
    <3>1. k \in ReportHours BY <1>0, <1>f, HoursAre
    <3>2. H!Reflects(v1[k], v6[w].copy[k])
      <4>1. v6[w].copy[k] # H!NoReport
        <5>1. ~(0 > 0) OBVIOUS
        <5> QED BY <2>3, <5>1, NoReportIs
      <4> QED BY <1>0, <3>1, <4>1
    <3>3. v1[k] \in H!Reports /\ v6[w].copy[k] \in H!Reports BY <1>0, <3>1 DEF StoreInv, StoreShapes
    <3>4. v1[k].gen > 0 BY <2>3, <3>2, <3>3 DEF H!Reflects, H!Reports
    <3>5. ASSUME NEW i \in EventIds PROVE v1[k].acks[i] # "pending"
      <4>1. v6[w].copy[k].acks[i] # "pending" BY <1>3, <2>2
      <4>2. v6[w].copy[k].acks[i] \in {"absent", "pending"} \union H!Acks BY <3>3 DEF H!Reports
      <4>3. CASE v6[w].copy[k].acks[i] = "absent"
        <5>1. H!Content(v6[w].copy[k]) = H!Content(v1[k]) BY <3>2 DEF H!Reflects
        <5>2. v1[k].acks[i] = "absent" BY <4>3, <5>1, EventsAre
        <5> QED BY <5>2
      <4>4. CASE v6[w].copy[k].acks[i] \in H!Acks
        <5>1. v1[k].acks[i] = v6[w].copy[k].acks[i] BY <3>2, <4>4 DEF H!Reflects
        <5> QED BY <4>1, <5>1
      <4> QED BY <4>1, <4>2, <4>3, <4>4
    <3> QED BY <3>1, <3>4, <3>5
  <2>4. v8' \subseteq ReportHours BY <1>0, <2>1, <2>3 DEF StoreInv, StoreShapes
  <2>5. H!DrainedInv'
    <3> SUFFICES ASSUME NEW k \in v8' PROVE v1[k].gen > 0 /\ \A i \in EventIds : v1[k].acks[i] # "pending"
      BY <1>1 DEF H!DrainedInv
    <3>1. CASE k \in v8 BY <1>0, <3>1 DEF StoreInv, H!DrainedInv
    <3>2. CASE k \notin v8 BY <2>1, <2>3, <3>2
    <3> QED BY <3>1, <3>2
  <2>6. StoreInv'
    BY <1>0, <1>1, <2>4, <2>5 DEF StoreInv, StoreShapes, H!CreatedInv, H!PublishedAgrees, H!ResetHonoured, H!NoReport,
       H!Content, H!Events, H!Unknown, H!AckHonest
  <2> QED BY <1>1, <2>1, <2>6, EndsQuietly
<1> QED BY <1>4, <1>5

LEMMA ReportsInit == H!Init => H!ReportsInv
<1> SUFFICES ASSUME H!Init PROVE H!ReportsInv OBVIOUS
<1>1. PICK r \in {H!NoReport, [gen |-> 1, acks |-> [i \in EventIds |-> "pending"], reset |-> FALSE]} : v1 = [h \in ReportHours |-> r]
  BY DEF H!Init
<1>2. r \in H!Reports /\ (r.gen = 0 => r = H!NoReport) /\ \A i \in EventIds : r.acks[i] \in {"absent", "pending"}
  <2>1. CASE r = H!NoReport BY <2>1, NoReportIs
  <2>2. CASE r = [gen |-> 1, acks |-> [i \in EventIds |-> "pending"], reset |-> FALSE] BY <2>2 DEF H!Reports
  <2> QED BY <2>1, <2>2
<1>3. /\ v2 = [h \in ReportHours |-> H!Unknown] /\ v3 = [gen |-> 0, hour |-> 0, shows |-> [h \in ReportHours |-> H!Unknown]]
      /\ v4 = {} /\ v5 = {} /\ v6 = [w \in Reporters |-> H!Idle] /\ v8 = {} /\ v9 = {}
  BY DEF H!Init
<1>4. H!Unknown \in H!Contents BY DEF H!Unknown, H!Contents
<1>5. v3.gen = 0 /\ v3.hour = 0 /\ v3.shows = [h \in ReportHours |-> H!Unknown] BY <1>3
<1>6. [h \in ReportHours |-> H!Unknown] \in [ReportHours -> H!Contents] BY <1>4
<1>7. StoreShapes BY <1>1, <1>2, <1>3, <1>6 DEF StoreShapes
<1>8. H!CreatedInv BY <1>1, <1>2 DEF H!CreatedInv
<1>9. H!DrainedInv /\ H!ResetHonoured BY <1>3 DEF H!DrainedInv, H!ResetHonoured
<1>10. H!PublishedAgrees BY <1>3, <1>5 DEF H!PublishedAgrees
<1>11. H!AckHonest BY <1>1, <1>2 DEF H!AckHonest
<1>12. JobsTyped BY <1>3, IdleIs DEF JobsTyped
<1>13. ASSUME NEW w \in Reporters PROVE WorkerOk(w)
  <2>1. v6[w] = H!Idle BY <1>3
  <2> QED BY <2>1, IdleIs DEF WorkerOk, CopiesOk, JudgedOk, PublishOk, HoursOk, HeardOk, AckedOk, PendingOk, SentOk, DoneOk
<1> QED BY <1>7, <1>8, <1>9, <1>10, <1>11, <1>12, <1>13, ReportsParts DEF StoreInv, WorkersOk

LEMMA ReportsStand == ASSUME H!ReportsInv, UNCHANGED H!vars PROVE H!ReportsInv'
<1>1. UNCHANGED <<v1, v2, v3, v4, v5, v6, v7, v8, v9>> BY DEF H!vars
<1>2. StoreInv' BY <1>1, ReportsParts, StoreSame
<1>3. JobsTyped' BY <1>1, ReportsParts DEF JobsTyped
<1>4. ASSUME NEW w \in Reporters PROVE WorkerOk(w)'
  <2>1. WorkerOk(w) /\ v6[w] \in H!JobShapes BY JobIs
  <2>2. \A h \in ReportHours : H!Reflects(v1[h], v6[w].copy[h]) => H!Reflects(v1[h], v6[w].copy[h])'
    BY <1>1 DEF H!Reflects, H!Content, H!Events, H!Acks
  <2>3. CopiesOk(w)' BY <1>1, <2>1, <2>2 DEF WorkerOk, CopiesOk, H!NoReport
  <2>4. JudgedOk(w)' /\ PublishOk(w)' /\ HoursOk(w)' /\ HeardOk(w)' BY <1>1, <2>1 DEF WorkerOk, JudgedOk, PublishOk, HoursOk, HeardOk, H!First
  <2>5. AckedOk(w)' /\ PendingOk(w)' /\ SentOk(w)' BY <1>1, <2>1 DEF WorkerOk, AckedOk, PendingOk, SentOk, H!Acks
  <2>6. DoneOk(w)' BY <1>1, <2>1 DEF WorkerOk, DoneOk, H!First
  <2> QED BY <2>3, <2>4, <2>5, <2>6 DEF WorkerOk
<1> QED BY <1>2, <1>3, <1>4, ReportsPartsNext DEF WorkersOk

LEMMA ReportsStep == ASSUME H!ReportsInv, H!Next PROVE H!ReportsInv'
BY ReporterStartKeeps, TaskFailKeeps, FindReportKeeps, CheckOrderKeeps, JudgeKeeps, CreateReportKeeps, RereadKeeps, ReadFrozenKeeps,
   PersistRowsKeeps, ReadHistoryKeeps, CollectReportsKeeps, WriteHistoryKeeps, LoadReportKeeps, SettleKeeps, SendKeeps,
   RecordKeeps, NextReportKeeps, ReportsStand DEF H!Next

LEMMA ReportsFrozen == ASSUME H!ReportsInv, H!Next \/ UNCHANGED H!vars PROVE H!FrozenStands /\ H!HistoryForward
<1>1. ASSUME v1' = v1 PROVE \A h \in ReportHours : Grows(h) BY <1>1 DEF Grows
<1>2. \A h \in ReportHours : Grows(h)
  <2>1. ASSUME NEW w \in Reporters,
               \/ H!Start(w) \/ H!Fail(w) \/ H!FindReport(w) \/ H!CheckOrder(w) \/ H!Judge(w) \/ H!Reread(w)
               \/ H!ReadFrozen(w) \/ H!PersistRows(w) \/ H!ReadHistory(w) \/ H!CollectReports(w) \/ H!WriteHistory(w)
               \/ H!LoadReport(w) \/ H!Send(w) \/ H!NextReport(w)
        PROVE  v1' = v1
    BY <2>1, ZenonT(40) DEF H!Start, H!Fail, H!FindReport, H!CheckOrder, H!Judge, H!Reread, H!ReadFrozen, H!PersistRows, H!ReadHistory,
       H!CollectReports, H!WriteHistory, H!LoadReport, H!Send, H!NextReport
  <2>2. UNCHANGED H!vars => v1' = v1 BY DEF H!vars
  <2> QED BY <1>1, <2>1, <2>2, CreateReportKeeps, SettleKeeps, RecordKeeps DEF H!Next
<1>3. H!FrozenStands
  <2> SUFFICES ASSUME NEW h \in ReportHours, v1[h].gen > 0
               PROVE  /\ H!Content(v1'[h]) = H!Content(v1[h])
                      /\ \A i \in EventIds : v1[h].acks[i] \in H!Acks => v1'[h].acks[i] = v1[h].acks[i]
    BY DEF H!FrozenStands
  <2>1. Grows(h) BY <1>2
  <2>2. CASE v1'[h] = v1[h] BY <2>2
  <2>3. CASE v1'[h] # v1[h] BY <2>1, <2>3 DEF Grows
  <2> QED BY <2>2, <2>3
<1>4. H!HistoryForward
  <2>0. v3.hour \in Nat BY ReportsParts DEF StoreInv, StoreShapes
  <2>1. ASSUME NEW w \in Reporters,
               \/ H!Start(w) \/ H!Fail(w) \/ H!FindReport(w) \/ H!CheckOrder(w) \/ H!Judge(w) \/ H!CreateReport(w) \/ H!Reread(w)
               \/ H!ReadFrozen(w) \/ H!PersistRows(w) \/ H!ReadHistory(w) \/ H!CollectReports(w)
               \/ H!LoadReport(w) \/ H!Settle(w) \/ H!Send(w) \/ H!Record(w) \/ H!NextReport(w)
        PROVE  v3' = v3
    BY <2>1, ZenonT(40) DEF H!Start, H!Fail, H!FindReport, H!CheckOrder, H!Judge, H!CreateReport, H!Reread, H!ReadFrozen, H!PersistRows,
       H!ReadHistory, H!CollectReports, H!LoadReport, H!Settle, H!Send, H!Record, H!NextReport
  <2>2. UNCHANGED H!vars => v3' = v3 BY DEF H!vars
  <2>3. v3' = v3 => v3'.hour >= v3.hour BY <2>0
  <2> QED BY <2>1, <2>2, <2>3, WriteHistoryKeeps DEF H!Next, H!HistoryForward
<1> QED BY <1>3, <1>4

LEMMA ReportsSafe ==
  H!ReportsInv => H!PublishedAgrees /\ H!AckHonest /\ H!NotRepeated /\ H!SuccessMeansDrained /\ H!ResetHonoured
<1> SUFFICES ASSUME H!ReportsInv PROVE H!NotRepeated /\ H!SuccessMeansDrained BY DEF H!ReportsInv
<1>1. H!SuccessMeansDrained BY DEF H!ReportsInv, H!DrainedInv, H!SuccessMeansDrained
<1>2. H!NotRepeated
  <2> SUFFICES ASSUME NEW w \in Reporters, v6[w].step = "record" PROVE v6[w].event \notin v6[w].acked BY DEF H!NotRepeated
  <2>1. WorkerOk(w) /\ v6[w].kind = "alert" BY JobIs DEF WorkerOk, HoursOk
  <2>2. v6[w].event \in EventIds /\ v6[w].known[v6[w].event] = "" BY <2>1 DEF WorkerOk, SentOk, PendingOk
  <2> QED BY <2>1, <2>2 DEF WorkerOk, AckedOk
<1> QED BY <1>1, <1>2

--------------------------------------------------------------------------------
(* DailyWarehouse: v1 run, v2 done, v3 failed, v4 dead, v5 ended, v6 tables,        *)
(* v7 unsent, v8 closed                                                             *)

LEMMA TasksAre ==
  W!Tasks = {"guard", "wait", "snapshot", "priorSnapshot", "staging", "hourly", "load", "publish", "dependencies",
             "schedule", "facts", "priorFacts", "coverage", "status", "priorSchedule", "priorCoverage",
             "priorStatus", "priorUniverse", "restore", "universe", "priorMarts", "marts", "emit"}
<1>1. DOMAIN W!Order = 1 .. 23 BY DEF W!Order
<1>2. 1 .. 23 = {1, 2, 3, 4, 5, 6, 7, 8, 9, 10, 11, 12, 13, 14, 15, 16, 17, 18, 19, 20, 21, 22, 23} OBVIOUS
<1>3. W!Tasks = {W!Order[k] : k \in {1, 2, 3, 4, 5, 6, 7, 8, 9, 10, 11, 12, 13, 14, 15, 16, 17, 18, 19, 20, 21, 22, 23}}
  BY <1>1, <1>2 DEF W!Tasks
<1> QED BY <1>3 DEF W!Order

LEMMA BeforeIs ==
  /\ W!Before("guard") = {} /\ W!Before("wait") = {} /\ W!Before("snapshot") = {"guard"} /\ W!Before("priorSnapshot") = {"guard"}
  /\ W!Before("staging") = {"snapshot"} /\ W!Before("hourly") = {"staging"} /\ W!Before("load") = {"snapshot", "staging"}
  /\ W!Before("publish") = {"load", "wait"} /\ W!Before("dependencies") = {"snapshot", "wait"}
  /\ W!Before("schedule") = {"snapshot", "wait"} /\ W!Before("facts") = {"publish", "dependencies", "schedule"}
  /\ W!Before("priorFacts") = {"publish", "dependencies", "schedule"} /\ W!Before("coverage") = {"facts", "priorFacts", "hourly"}
  /\ W!Before("status") = {"coverage"} /\ W!Before("priorSchedule") = {"status", "priorSnapshot"}
  /\ W!Before("priorCoverage") = {"priorSchedule"} /\ W!Before("priorStatus") = {"priorCoverage"}
  /\ W!Before("priorUniverse") = {"priorStatus"} /\ W!Before("restore") = {"priorUniverse"}
  /\ W!Before("universe") = {"restore"} /\ W!Before("priorMarts") = {"priorUniverse", "universe"}
  /\ W!Before("marts") = {"priorMarts"} /\ W!Before("emit") = {"marts"}
BY DEF W!Before, W!CoverageInputs, W!PriorMartInputs

\* A task that ran or runs has what it waits for.
LEMMA NeedsDone ==
  ASSUME W!GraphInv
  PROVE  /\ "emit" \in v2 => "marts" \in v2
         /\ "marts" \in v2 => "priorMarts" \in v2
         /\ "priorMarts" \in v2 => "priorUniverse" \in v2 /\ "universe" \in v2
         /\ "universe" \in v2 => "restore" \in v2
         /\ "priorUniverse" \in v2 => "priorStatus" \in v2
         /\ "priorStatus" \in v2 => "priorCoverage" \in v2
         /\ "priorCoverage" \in v2 => "priorSchedule" \in v2
         /\ "priorSchedule" \in v2 \union v3 => "status" \in v2 /\ "priorSnapshot" \in v2
         /\ "status" \in v2 => "coverage" \in v2
         /\ "coverage" \in v2 => "facts" \in v2 /\ "priorFacts" \in v2 /\ "hourly" \in v2
         /\ "facts" \in v2 => "publish" \in v2 /\ "dependencies" \in v2 /\ "schedule" \in v2
         /\ "schedule" \in v2 => "snapshot" \in v2 /\ "wait" \in v2
         /\ "publish" \in v2 => "load" \in v2 /\ "wait" \in v2
         /\ "load" \in v2 => "snapshot" \in v2 /\ "staging" \in v2
         /\ "snapshot" \in v2 => "guard" \in v2
         /\ "restore" \in v2 \union v3 => "priorUniverse" \in v2 \union v3 \union v4
<1>1. \A t \in v2 \union v3 : t # "restore" => W!Before(t) \subseteq v2 BY DEF W!GraphInv, W!Ran, W!AllDone
<1>2. "restore" \in v2 \union v3 => "priorUniverse" \in v2 \union v3 \union v4
  <2> SUFFICES ASSUME "restore" \in v2 \union v3 PROVE "priorUniverse" \in v2 \union v3 \union v4 OBVIOUS
  <2>1. \A u \in W!Before("restore") : W!Settled(u) BY DEF W!GraphInv, W!Ran, W!AllDone
  <2> QED BY <2>1, BeforeIs DEF W!Settled
<1> QED BY <1>1, <1>2, BeforeIs

\* The date before is settled for good only once its serving universe is.
LEMMA RestoreIsLate ==
  ASSUME W!GraphInv, "restore" \in v2 \union v3, "priorCoverage" \notin v2 \union v3 \union v4 PROVE FALSE
<1>1. \A t \in v2 \union v3 : t # "restore" => W!Before(t) \subseteq v2 BY DEF W!GraphInv, W!Ran, W!AllDone
<1>2. \A t \in v4 : W!Before(t) \intersect (v3 \union v4) # {} BY DEF W!GraphInv
<1>3. "priorUniverse" \in v2 \union v3 \union v4 BY NeedsDone
<1>4. "priorStatus" \in v2 \union v3 \union v4 BY <1>1, <1>2, <1>3, BeforeIs
<1>5. "priorCoverage" \in v2 \union v3 \union v4 BY <1>1, <1>2, <1>4, BeforeIs
<1> QED BY <1>5

\* A set of tasks that one task, which has not run, drags along.
Dragged(t, S) ==
  /\ t \in S /\ S \subseteq W!Tasks /\ S \intersect (v2 \union v3) = {}
  /\ \A u \in S \ {t} : ~W!AllDone(u) /\ W!Before(u) \intersect S # {}

LEMMA SpreadDrags == ASSUME W!GraphInv, NEW t, NEW S, Dragged(t, S) PROVE Dragged(t, W!Spread(S))
<1> DEFINE R == W!Spread(S)
<1>1. R = S \union {u \in W!Tasks : ~W!AllDone(u) /\ W!Before(u) \intersect S # {}} BY DEF W!Spread
<1>2. \A u \in v2 \union v3 : ~W!AllDone(u) => W!Before(u) \subseteq v2 BY DEF W!GraphInv, W!Ran
<1>3. S \subseteq R /\ R \subseteq W!Tasks BY <1>1 DEF Dragged
<1>4. ASSUME NEW u \in R PROVE u \notin v2 \union v3
  <2>1. CASE u \in S BY <2>1 DEF Dragged
  <2>2. CASE u \notin S BY <1>1, <1>2, <2>2 DEF Dragged
  <2> QED BY <2>1, <2>2
<1>5. ASSUME NEW u \in R \ {t} PROVE ~W!AllDone(u) /\ W!Before(u) \intersect R # {}
  <2>1. ~W!AllDone(u) /\ W!Before(u) \intersect S # {} BY <1>1 DEF Dragged
  <2> QED BY <1>3, <2>1
<1>6. t \in R BY <1>3 DEF Dragged
<1> HIDE DEF R
<1>7. Dragged(t, R) BY <1>3, <1>4, <1>5, <1>6 DEF Dragged
<1> QED BY <1>7 DEF R

LEMMA Spread4Drags == ASSUME W!GraphInv, NEW t, NEW S, Dragged(t, S) PROVE Dragged(t, W!Spread4(S))
<1>1. Dragged(t, W!Spread(S)) BY SpreadDrags
<1>2. Dragged(t, W!Spread(W!Spread(S))) BY <1>1, SpreadDrags
<1>3. Dragged(t, W!Spread(W!Spread(W!Spread(S)))) BY <1>2, SpreadDrags
<1>4. Dragged(t, W!Spread(W!Spread(W!Spread(W!Spread(S))))) BY <1>3, SpreadDrags
<1> QED BY <1>4 DEF W!Spread4

LEMMA DeadIs ==
  ASSUME W!GraphInv, NEW t \in W!Tasks, t \notin v2 \union v3
  PROVE  /\ W!Dead(t) \subseteq W!Tasks /\ t \notin W!Dead(t) /\ W!Dead(t) \intersect (v2 \union v3) = {}
         /\ \A u \in W!Dead(t) : ~W!AllDone(u) /\ W!Before(u) \intersect ({t} \union W!Dead(t)) # {}
<1>1. Dragged(t, {t}) BY DEF Dragged
<1>2. Dragged(t, W!Spread4({t})) BY <1>1, Spread4Drags
<1>3. Dragged(t, W!Spread4(W!Spread4({t}))) BY <1>2, Spread4Drags
<1>4. Dragged(t, W!Spread4(W!Spread4(W!Spread4({t})))) BY <1>3, Spread4Drags
<1>5. Dragged(t, W!Spread4(W!Spread4(W!Spread4(W!Spread4({t}))))) BY <1>4, Spread4Drags
<1>6. W!Downstream[t] = W!Spread4(W!Spread4(W!Spread4(W!Spread4({t})))) BY Zenon DEF W!Downstream
<1>7. PICK S : S = W!Downstream[t] OBVIOUS
<1>8. Dragged(t, S) BY <1>5, <1>6, <1>7
<1>9. W!Dead(t) = S \ {t} BY <1>7 DEF W!Dead
<1> QED BY <1>8, <1>9 DEF Dragged

--------------------------------------------------------------------------------
TableRecords ==
  [matched : [ProcessingDates -> SUBSET (Int \X ScheduledTrips)], schedule : W!Snapshots,
   facts : [W!Dates -> SUBSET (ScheduledTrips \X Int)], coverage : [W!Dates -> W!Snapshots],
   status : [W!Dates -> SUBSET ProcessingDates], universe : [W!Dates -> W!Snapshots],
   marts : [W!Dates -> SUBSET (ScheduledTrips \X Int)]]
RunRecords == [date : Int, skip : BOOLEAN, historical : BOOLEAN]
CoverageFound == \A d \in W!Dates : v6.coverage[d] # W!Empty

LEMMA DailyParts ==
  W!DailyInv <=> /\ v1 \in RunRecords /\ v2 \union v3 \union v4 \subseteq W!Tasks /\ v6 \in TableRecords
                 /\ W!GraphInv /\ W!RunInv /\ W!ScheduleInv /\ W!FinishedInv
                 /\ W!OncePerTrip /\ W!StatusMeansFinal /\ CoverageFound
BY DEF W!DailyInv, W!Shapes, TableRecords, RunRecords, CoverageFound

LEMMA DatesAre == ProcessingDates \subseteq Int /\ W!Dates \subseteq Int /\ \A d \in ProcessingDates : d \in W!Dates /\ d - 1 \in W!Dates
<1>1. ProcessingDates \subseteq Int BY DailyHolds DEF W!DailyAssumption
<1>2. W!Dates = ProcessingDates \union {d - 1 : d \in ProcessingDates} BY DEF W!Dates
<1>3. \A d \in ProcessingDates : d \in Int /\ d - 1 \in Int BY <1>1
<1> HIDE DEF W!Dates
<1> QED BY <1>2, <1>3

LEMMA GoverningIs ==
  /\ \A d \in DOMAIN Governing : Governing[d] \notin {"None", W!Nothing, W!Empty} /\ Governing[d] \in W!Snapshots
  /\ "None" \in W!Snapshots /\ W!Nothing \in W!Snapshots /\ W!Empty \in W!Snapshots /\ W!Empty # "None" /\ W!Nothing # W!Empty
BY DailyHolds DEF W!DailyAssumption, W!Snapshots, W!Empty, W!Nothing

\* A task that is ready, in a run whose date is one of the days.
LEMMA ReadyIs ==
  ASSUME W!DailyInv, NEW t \in W!Tasks, W!Ready(t)
  PROVE  /\ v1.date \in ProcessingDates /\ v1.date \in Int /\ v1.date - 1 \in Int /\ v1.date \in W!Dates /\ v1.date - 1 \in W!Dates
         /\ v1.date - 1 # v1.date /\ v1.skip \in BOOLEAN /\ v1.historical \in BOOLEAN
         /\ t \notin v2 \union v3 \union v4 /\ v5 = FALSE
         /\ t # "restore" => W!Before(t) \subseteq v2
         /\ t = "restore" => "priorUniverse" \in v2 \union v3 \union v4
<1>1. ~v5 /\ t \notin v2 \union v3 \union v4 BY DEF W!Ready, W!Settled
<1>2. v1.date \in ProcessingDates BY <1>1 DEF W!DailyInv, W!RunInv, W!D
<1>3. v1.date \in Int /\ v1.date \in W!Dates /\ v1.date - 1 \in W!Dates BY <1>2, DatesAre
<1>4. v1.date - 1 \in Int /\ v1.date - 1 # v1.date BY <1>3
<1>5. t # "restore" => W!Before(t) \subseteq v2 BY DEF W!Ready, W!AllDone
<1>6. t = "restore" => "priorUniverse" \in v2 \union v3 \union v4
  <2> SUFFICES ASSUME t = "restore" PROVE "priorUniverse" \in v2 \union v3 \union v4 OBVIOUS
  <2>1. \A u \in W!Before("restore") : W!Settled(u) BY DEF W!Ready, W!AllDone
  <2> QED BY <2>1, BeforeIs DEF W!Settled
<1>7. v1 \in RunRecords BY DailyParts
<1>8. v1.skip \in BOOLEAN /\ v1.historical \in BOOLEAN BY <1>7 DEF RunRecords
<1> QED BY <1>1, <1>2, <1>3, <1>4, <1>5, <1>6, <1>8

\* What a task that is ready may rely on.
LEMMA SelectedIs ==
  ASSUME W!DailyInv
  PROVE  /\ W!Selected \in W!Snapshots
         /\ "snapshot" \in v2 => W!Selected = Governing[v1.date] /\ v1.date \in DOMAIN Governing
         /\ "priorSnapshot" \in v2 => v1.skip \/ v1.date - 1 \in DOMAIN Governing
         /\ "guard" \in v2 => v1.date \notin ExcludedDates /\ (v1.skip <=> v1.date - 1 \in ExcludedDates)
<1>1. "snapshot" \in v2 => v1.date \in DOMAIN Governing BY DEF W!DailyInv, W!RunInv, W!D
<1>2. W!Selected = IF "snapshot" \in v2 THEN Governing[v1.date] ELSE "None" BY DEF W!Selected, W!D
<1>3. W!Selected \in W!Snapshots BY <1>1, <1>2, GoverningIs
<1>4. "priorSnapshot" \in v2 => v1.skip \/ v1.date - 1 \in DOMAIN Governing BY DEF W!DailyInv, W!RunInv, W!Prior
<1>5. v1 \in RunRecords BY DailyParts
<1>6. v1.skip \in BOOLEAN BY <1>5 DEF RunRecords
<1>7. "guard" \in v2 => v1.date \notin ExcludedDates /\ (v1.skip <=> v1.date - 1 \in ExcludedDates)
  BY <1>6 DEF W!DailyInv, W!RunInv, W!D, W!Prior, W!GuardPasses
<1> QED BY <1>1, <1>2, <1>3, <1>4, <1>7

\* The task that writes, and what it writes; nothing when its command is skipped.
WritesOne(t) ==
  \/ t = "publish" /\ \E m \in SUBSET (W!InputDates \X ScheduledTrips) : v6' = [v6 EXCEPT !.matched[v1.date] = m]
  \/ t \in {"schedule", "restore"} /\ v6' = [v6 EXCEPT !.schedule = W!Selected]
  \/ t = "priorSchedule" /\ ~v1.skip /\ v6' = [v6 EXCEPT !.schedule = Governing[v1.date - 1]]
  \/ t = "facts" /\ v6' = [v6 EXCEPT !.facts[v1.date] = W!CurrentRows]
  \/ t = "priorFacts" /\ ~v1.skip /\ v6' = [v6 EXCEPT !.facts[v1.date - 1] = W!PriorRows]
  \/ t = "coverage" /\ v6' = [v6 EXCEPT !.coverage[v1.date] = W!Found(W!Selected)]
  \/ t = "priorCoverage" /\ ~v1.skip /\ v6' = [v6 EXCEPT !.coverage[v1.date - 1] = W!Found(Governing[v1.date - 1])]
  \/ t = "status" /\ v6' = [v6 EXCEPT !.status[v1.date] = @ \union {v1.date}]
  \/ t = "priorStatus" /\ ~v1.skip /\ v6' = [v6 EXCEPT !.status[v1.date - 1] = @ \union {v1.date}]
  \/ t = "universe" /\ ~v1.historical /\ v6' = [v6 EXCEPT !.universe[v1.date] = W!Found(W!Selected)]
  \/ t = "priorUniverse" /\ ~v1.skip /\ ~v1.historical
       /\ v6' = [v6 EXCEPT !.universe[v1.date - 1] = W!Found(Governing[v1.date - 1])]
  \/ t = "marts" /\ ~v1.historical /\ v6' = [v6 EXCEPT !.marts[v1.date] = v6.facts[v1.date]]
  \/ t = "priorMarts" /\ ~v1.skip /\ ~v1.historical /\ v6' = [v6 EXCEPT !.marts[v1.date - 1] = v6.facts[v1.date - 1]]

Idles == {"guard", "wait", "snapshot", "priorSnapshot", "staging", "hourly", "load", "dependencies", "emit"}

LEMMA WrittenIs ==
  ASSUME NEW t \in W!Tasks, v6' \in W!Written(t), ~W!Skipped(t)
  PROVE  (t \in Idles /\ v6' = v6) \/ WritesOne(t)
<1> USE DEF W!D, W!Prior, W!Skipped
<1>1. CASE t = "publish"
  <2>1. PICK found \in [W!InputDates -> MatchedTrips] :
          v6' = [v6 EXCEPT !.matched[v1.date] = UNION {{d} \X found[d] : d \in W!InputDates}]
    BY <1>1 DEF W!Written
  <2> DEFINE m == UNION {{d} \X found[d] : d \in W!InputDates}
  <2>2. \A d \in W!InputDates : found[d] \subseteq ScheduledTrips BY DailyHolds DEF W!DailyAssumption
  <2>3. ASSUME NEW p \in m PROVE p \in W!InputDates \X ScheduledTrips
    <3>1. PICK d \in W!InputDates : p \in {d} \X found[d] BY <2>3
    <3> QED BY <2>2, <3>1
  <2>4. m \in SUBSET (W!InputDates \X ScheduledTrips) BY <2>3
  <2> HIDE DEF m
  <2> QED BY <1>1, <2>1, <2>4 DEF WritesOne, m
<1>2. CASE t = "schedule" BY <1>2 DEF W!Written, WritesOne
<1>3. CASE t = "facts" BY <1>3 DEF W!Written, WritesOne
<1>4. CASE t = "priorFacts" BY <1>4 DEF W!Written, WritesOne
<1>5. CASE t = "coverage" BY <1>5 DEF W!Written, WritesOne
<1>6. CASE t = "status" BY <1>6 DEF W!Written, WritesOne
<1>7. CASE t = "priorSchedule" BY <1>7 DEF W!Written, WritesOne
<1>8. CASE t = "priorCoverage" BY <1>8 DEF W!Written, WritesOne
<1>9. CASE t = "priorStatus" BY <1>9 DEF W!Written, WritesOne
<1>10. CASE t = "priorUniverse" BY <1>10 DEF W!Written, WritesOne
<1>11. CASE t = "restore" BY <1>11 DEF W!Written, WritesOne
<1>12. CASE t = "universe" BY <1>12 DEF W!Written, WritesOne
<1>13. CASE t = "priorMarts" BY <1>13 DEF W!Written, WritesOne
<1>14. CASE t = "marts" BY <1>14 DEF W!Written, WritesOne
<1>15. CASE t \in Idles BY <1>15 DEF W!Written, Idles
<1>16. t \in Idles \/ t \in {"publish", "schedule", "facts", "priorFacts", "coverage", "status", "priorSchedule", "priorCoverage",
                            "priorStatus", "priorUniverse", "restore", "universe", "priorMarts", "marts"}
  BY TasksAre, SMTT(30) DEF Idles
<1> QED BY <1>1, <1>2, <1>3, <1>4, <1>5, <1>6, <1>7, <1>8, <1>9, <1>10, <1>11, <1>12, <1>13, <1>14, <1>15, <1>16

\* What that does to each table.
ScheduleBy(t) ==
  \/ v6'.schedule = v6.schedule
  \/ t \in {"schedule", "restore"} /\ v6'.schedule = W!Selected
  \/ t = "priorSchedule" /\ ~v1.skip /\ v6'.schedule = Governing[v1.date - 1]
FactsBy(t) ==
  \/ v6'.facts = v6.facts
  \/ t = "facts" /\ v6'.facts = [v6.facts EXCEPT ![v1.date] = W!CurrentRows]
  \/ t = "priorFacts" /\ ~v1.skip /\ v6'.facts = [v6.facts EXCEPT ![v1.date - 1] = W!PriorRows]
CoverageBy(t) ==
  \/ v6'.coverage = v6.coverage
  \/ t = "coverage" /\ v6'.coverage = [v6.coverage EXCEPT ![v1.date] = W!Found(W!Selected)]
  \/ t = "priorCoverage" /\ ~v1.skip /\ v6'.coverage = [v6.coverage EXCEPT ![v1.date - 1] = W!Found(Governing[v1.date - 1])]
StatusBy(t) ==
  \/ v6'.status = v6.status
  \/ t = "status" /\ v6'.status = [v6.status EXCEPT ![v1.date] = @ \union {v1.date}]
  \/ t = "priorStatus" /\ ~v1.skip /\ v6'.status = [v6.status EXCEPT ![v1.date - 1] = @ \union {v1.date}]
UniverseBy(t) ==
  \/ v6'.universe = v6.universe
  \/ t = "universe" /\ v6'.universe = [v6.universe EXCEPT ![v1.date] = W!Found(W!Selected)]
  \/ t = "priorUniverse" /\ ~v1.skip /\ v6'.universe = [v6.universe EXCEPT ![v1.date - 1] = W!Found(Governing[v1.date - 1])]
MartsBy(t) ==
  \/ v6'.marts = v6.marts
  \/ t = "marts" /\ v6'.marts = [v6.marts EXCEPT ![v1.date] = v6.facts[v1.date]]
  \/ t = "priorMarts" /\ v6'.marts = [v6.marts EXCEPT ![v1.date - 1] = v6.facts[v1.date - 1]]
MatchedBy ==
  \/ v6'.matched = v6.matched
  \/ \E m \in SUBSET (W!InputDates \X ScheduledTrips) : v6'.matched = [v6.matched EXCEPT ![v1.date] = m]
Record7 ==
  v6' = [matched |-> v6'.matched, schedule |-> v6'.schedule, facts |-> v6'.facts, coverage |-> v6'.coverage,
         status |-> v6'.status, universe |-> v6'.universe, marts |-> v6'.marts]
TablesBy(t) ==
  /\ ScheduleBy(t) /\ FactsBy(t) /\ CoverageBy(t) /\ StatusBy(t) /\ UniverseBy(t) /\ MartsBy(t) /\ MatchedBy /\ Record7

LEMMA OneTable == ASSUME v6 \in TableRecords, NEW t, v6' = v6 \/ WritesOne(t) PROVE TablesBy(t)
<1>0. PICK ma, sc, fa, co, st, un, mr : v6 = [matched |-> ma, schedule |-> sc, facts |-> fa, coverage |-> co, status |-> st,
                                              universe |-> un, marts |-> mr]
  BY DEF TableRecords
<1> USE DEF TablesBy, ScheduleBy, FactsBy, CoverageBy, StatusBy, UniverseBy, MartsBy, MatchedBy, Record7
<1>1. CASE v6' = v6 BY <1>0, <1>1
<1>2. ASSUME t = "publish", NEW m \in SUBSET (W!InputDates \X ScheduledTrips), v6' = [v6 EXCEPT !.matched[v1.date] = m]
      PROVE TablesBy(t)
  BY <1>0, <1>2
<1>3. CASE t \in {"schedule", "restore"} /\ v6' = [v6 EXCEPT !.schedule = W!Selected] BY <1>0, <1>3
<1>4. CASE t = "priorSchedule" /\ ~v1.skip /\ v6' = [v6 EXCEPT !.schedule = Governing[v1.date - 1]] BY <1>0, <1>4
<1>5. CASE t = "facts" /\ v6' = [v6 EXCEPT !.facts[v1.date] = W!CurrentRows] BY <1>0, <1>5
<1>6. CASE t = "priorFacts" /\ ~v1.skip /\ v6' = [v6 EXCEPT !.facts[v1.date - 1] = W!PriorRows] BY <1>0, <1>6
<1>7. CASE t = "coverage" /\ v6' = [v6 EXCEPT !.coverage[v1.date] = W!Found(W!Selected)] BY <1>0, <1>7
<1>8. CASE t = "priorCoverage" /\ ~v1.skip /\ v6' = [v6 EXCEPT !.coverage[v1.date - 1] = W!Found(Governing[v1.date - 1])]
  BY <1>0, <1>8
<1>9. CASE t = "status" /\ v6' = [v6 EXCEPT !.status[v1.date] = @ \union {v1.date}] BY <1>0, <1>9
<1>10. CASE t = "priorStatus" /\ ~v1.skip /\ v6' = [v6 EXCEPT !.status[v1.date - 1] = @ \union {v1.date}] BY <1>0, <1>10
<1>11. CASE t = "universe" /\ ~v1.historical /\ v6' = [v6 EXCEPT !.universe[v1.date] = W!Found(W!Selected)] BY <1>0, <1>11
<1>12. CASE t = "priorUniverse" /\ ~v1.skip /\ ~v1.historical
            /\ v6' = [v6 EXCEPT !.universe[v1.date - 1] = W!Found(Governing[v1.date - 1])]
  BY <1>0, <1>12
<1>13. CASE t = "marts" /\ ~v1.historical /\ v6' = [v6 EXCEPT !.marts[v1.date] = v6.facts[v1.date]] BY <1>0, <1>13
<1>14. CASE t = "priorMarts" /\ ~v1.skip /\ ~v1.historical /\ v6' = [v6 EXCEPT !.marts[v1.date - 1] = v6.facts[v1.date - 1]]
  BY <1>0, <1>14
<1> QED BY <1>1, <1>2, <1>3, <1>4, <1>5, <1>6, <1>7, <1>8, <1>9, <1>10, <1>11, <1>12, <1>13, <1>14 DEF WritesOne

LEMMA Exactly ==
  ASSUME v6 \in TableRecords, NEW t, WritesOne(t)
  PROVE  /\ t \in {"schedule", "restore"} => v6'.schedule = W!Selected
         /\ t = "priorSchedule" => v6'.schedule = Governing[v1.date - 1]
         /\ t = "universe" => v6'.universe = [v6.universe EXCEPT ![v1.date] = W!Found(W!Selected)] /\ v6'.schedule = v6.schedule
         /\ t = "marts" => v6'.marts = [v6.marts EXCEPT ![v1.date] = v6.facts[v1.date]]
         /\ t = "priorMarts" => v6'.marts = [v6.marts EXCEPT ![v1.date - 1] = v6.facts[v1.date - 1]]
<1>0. PICK ma, sc, fa, co, st, un, mr : v6 = [matched |-> ma, schedule |-> sc, facts |-> fa, coverage |-> co, status |-> st,
                                              universe |-> un, marts |-> mr]
  BY DEF TableRecords
<1>1. t \in {"schedule", "restore"} => v6'.schedule = W!Selected BY <1>0 DEF WritesOne
<1>2. t = "priorSchedule" => v6'.schedule = Governing[v1.date - 1] BY <1>0 DEF WritesOne
<1>3. t = "universe" => v6'.universe = [v6.universe EXCEPT ![v1.date] = W!Found(W!Selected)] /\ v6'.schedule = v6.schedule
  BY <1>0 DEF WritesOne
<1>4. t = "marts" => v6'.marts = [v6.marts EXCEPT ![v1.date] = v6.facts[v1.date]] BY <1>0 DEF WritesOne
<1>5. t = "priorMarts" => v6'.marts = [v6.marts EXCEPT ![v1.date - 1] = v6.facts[v1.date - 1]] BY <1>0 DEF WritesOne
<1> QED BY <1>1, <1>2, <1>3, <1>4, <1>5

--------------------------------------------------------------------------------
\* What an attempt at a task does, whether it goes well or not.
Announces(t) ==
  /\ v7' \subseteq v7 \union {v1.date, v1.date - 1} /\ (t \notin {"marts", "priorMarts"} => v7' \subseteq v7)
  /\ v8' = v8 \/ v8' = v8 \union {v1.date - 1}
Wrote(t) == (W!Skipped(t) /\ v6' = v6) \/ (~W!Skipped(t) /\ t \in Idles /\ v6' = v6) \/ (~W!Skipped(t) /\ WritesOne(t))
GoesWell(t) ==
  /\ v2' = v2 \union {t} /\ UNCHANGED <<v3, v4>> /\ W!Passes(t) /\ Wrote(t)
  /\ t = "emit" => v7' \intersect W!Changed = {}
  /\ t = "priorFacts" => v1.skip \/ v1.date - 1 \in v8'
GoesWrong(t) == v2' = v2 /\ v3' = v3 \union {t} /\ v4' = v4 \union W!Dead(t)
Attempt(t) == W!Ready(t) /\ UNCHANGED <<v1, v5>> /\ TablesBy(t) /\ Announces(t) /\ (GoesWell(t) \/ GoesWrong(t))

LEMMA WritesAnnounce ==
  ASSUME W!DailyInv, NEW t \in W!Tasks, W!Writes(t)
  PROVE  /\ Announces(t) /\ Wrote(t) /\ TablesBy(t) /\ (t = "emit" => v7' \intersect W!Changed = {})
         /\ t = "priorFacts" => v1.skip \/ v1.date - 1 \in v8'
<1>1. Wrote(t)
  <2>1. CASE W!Skipped(t) BY <2>1 DEF W!Writes, Wrote
  <2>2. CASE ~W!Skipped(t)
    <3>1. v6' \in W!Written(t) BY <2>2 DEF W!Writes
    <3> QED BY <2>2, <3>1, WrittenIs DEF Wrote
  <2> QED BY <2>1, <2>2
<1>2. TablesBy(t)
  <2>1. v6 \in TableRecords BY DailyParts
  <2>2. v6' = v6 \/ WritesOne(t) BY <1>1 DEF Wrote
  <2> QED BY <2>1, <2>2, OneTable
<1>3. Announces(t) /\ (t = "emit" => v7' \intersect W!Changed = {}) BY DEF W!Writes, Announces, W!D, W!Prior
<1>4. t = "priorFacts" => v1.skip \/ v1.date - 1 \in v8' BY DEF W!Writes, W!Skipped, W!Prior
<1> QED BY <1>1, <1>2, <1>3, <1>4

LEMMA SucceedIs == ASSUME W!DailyInv, NEW t \in W!Tasks, W!Succeed(t) PROVE Attempt(t)
BY WritesAnnounce DEF W!Succeed, Attempt, GoesWell

LEMMA FailIs == ASSUME W!DailyInv, NEW t \in W!Tasks, W!Fail(t) PROVE Attempt(t)
<1>1. W!Ready(t) /\ UNCHANGED <<v1, v5>> /\ GoesWrong(t) BY DEF W!Fail, GoesWrong
<1>2. UNCHANGED <<v6, v7, v8>> \/ W!Writes(t) BY DEF W!Fail
<1>3. CASE UNCHANGED <<v6, v7, v8>>
  <2>1. v6 \in TableRecords BY DailyParts
  <2>2. TablesBy(t) BY <1>3, <2>1, OneTable
  <2>3. Announces(t) BY <1>3 DEF Announces
  <2> QED BY <1>1, <2>2, <2>3 DEF Attempt
<1>4. CASE W!Writes(t) BY <1>1, <1>4, WritesAnnounce DEF Attempt
<1> QED BY <1>2, <1>3, <1>4

LEMMA AttemptGraph ==
  ASSUME W!DailyInv, NEW t \in W!Tasks, Attempt(t)
  PROVE  /\ W!GraphInv' /\ v2' \union v3' \union v4' \subseteq W!Tasks
         /\ v2 \subseteq v2' /\ v2' \subseteq v2 \union {t} /\ v2' \union v3' = v2 \union v3 \union {t} /\ v4 \subseteq v4'
         /\ t \in v2' => GoesWell(t)
<1>1. /\ v2 \union v3 \union v4 \subseteq W!Tasks /\ W!GraphInv BY DailyParts
<1>2. /\ t \notin v2 \union v3 \union v4 /\ (t # "restore" => W!Before(t) \subseteq v2)
      /\ t = "restore" => "priorUniverse" \in v2 \union v3 \union v4
  BY ReadyIs DEF Attempt
<1>3. /\ W!Dead(t) \subseteq W!Tasks /\ t \notin W!Dead(t) /\ W!Dead(t) \intersect (v2 \union v3) = {}
      /\ \A u \in W!Dead(t) : ~W!AllDone(u) /\ W!Before(u) \intersect ({t} \union W!Dead(t)) # {}
  BY <1>1, <1>2, DeadIs
<1>4. /\ v2 \subseteq v2' /\ v2' \subseteq v2 \union {t} /\ v2' \union v3' = v2 \union v3 \union {t} /\ v4 \subseteq v4'
      /\ v3 \subseteq v3' /\ (t \in v2' => GoesWell(t)) /\ v4' \subseteq v4 \union W!Dead(t)
  BY <1>2 DEF Attempt, GoesWell, GoesWrong
<1>5. v2' \intersect v3' = {} BY <1>1, <1>2 DEF Attempt, GoesWell, GoesWrong, W!GraphInv
<1>6. v4' \intersect (v2' \union v3') = {}
  <2>1. v4 \intersect (v2 \union v3) = {} BY <1>1 DEF W!GraphInv, W!Ran
  <2> QED BY <1>2, <1>3, <1>4, <2>1
<1>7. ASSUME NEW u \in v2' \union v3'
      PROVE  IF W!AllDone(u) THEN \A x \in W!Before(u) : x \in v2' \union v3' \union v4' ELSE W!Before(u) \subseteq v2'
  <2>1. CASE u = t
    <3>1. CASE t = "restore"
      <4>1. W!Before(u) = {"priorUniverse"} /\ W!AllDone(u) BY <2>1, <3>1, BeforeIs DEF W!AllDone
      <4> QED BY <1>2, <1>4, <3>1, <4>1
    <3>2. CASE t # "restore" BY <1>2, <1>4, <2>1, <3>2 DEF W!AllDone
    <3> QED BY <3>1, <3>2
  <2>2. CASE u # t
    <3>1. u \in v2 \union v3 BY <1>4, <2>2
    <3>2. IF W!AllDone(u) THEN \A x \in W!Before(u) : x \in v2 \union v3 \union v4 ELSE W!Before(u) \subseteq v2
      BY <1>1, <3>1 DEF W!GraphInv, W!Ran, W!Settled
    <3> QED BY <1>4, <3>2
  <2> QED BY <2>1, <2>2
<1>8. ASSUME NEW u \in v4' PROVE ~W!AllDone(u) /\ W!Before(u) \intersect (v3' \union v4') # {}
  <2>1. CASE u \in v4 BY <1>1, <1>4, <2>1 DEF W!GraphInv
  <2>2. CASE u \notin v4
    <3>1. u \in W!Dead(t) /\ GoesWrong(t) BY <1>4, <2>2 DEF Attempt, GoesWell
    <3> QED BY <1>3, <3>1 DEF GoesWrong
  <2> QED BY <2>1, <2>2
<1>9. \A u : (W!AllDone(u))' <=> W!AllDone(u) BY DEF W!AllDone
<1>10. \A u : (W!Before(u))' = W!Before(u) BY DEF W!Before, W!CoverageInputs, W!PriorMartInputs
<1>11. W!GraphInv'
  <2>1. (\A u \in W!Ran : IF W!AllDone(u) THEN \A x \in W!Before(u) : W!Settled(x) ELSE W!Before(u) \subseteq v2)'
    BY <1>7 DEF W!Ran, W!Settled, W!AllDone, W!Before, W!CoverageInputs, W!PriorMartInputs
  <2>2. (\A u \in v4 : ~W!AllDone(u) /\ W!Before(u) \intersect (v3 \union v4) # {})'
    BY <1>8 DEF W!AllDone, W!Before, W!CoverageInputs, W!PriorMartInputs
  <2> QED BY <1>5, <1>6, <2>1, <2>2 DEF W!GraphInv, W!Ran
<1>12. v2' \union v3' \union v4' \subseteq W!Tasks BY <1>1, <1>3, <1>4
<1> QED BY <1>4, <1>11, <1>12

--------------------------------------------------------------------------------
LEMMA ScheduleKept ==
  ASSUME W!DailyInv, NEW t \in W!Tasks, Attempt(t)
  PROVE  W!ScheduleInv'
<1>1. W!GraphInv /\ W!ScheduleInv /\ v6 \in TableRecords BY DailyParts
<1>2. /\ t \notin v2 \union v3 \union v4 /\ (t # "restore" => W!Before(t) \subseteq v2)
  BY ReadyIs DEF Attempt
<1>3. /\ v2 \subseteq v2' /\ v2' \subseteq v2 \union {t} /\ v2' \union v3' = v2 \union v3 \union {t} /\ (t \in v2' => GoesWell(t))
  BY AttemptGraph
<1>4. v1' = v1 /\ ScheduleBy(t) /\ UniverseBy(t) BY DEF Attempt, TablesBy
<1>5. "snapshot" \in v2 => W!Selected = Governing[v1.date] /\ Governing[v1.date] # "None"
  BY SelectedIs, GoverningIs
<1>6. ASSUME "schedule" \in v2', "priorSchedule" \notin v2' \union v3' PROVE v6'.schedule = Governing[v1.date]
  <2>1. CASE t = "schedule"
    <3>1. ~W!Skipped(t) /\ t \notin Idles BY <2>1 DEF W!Skipped, Idles
    <3>2. WritesOne(t) BY <1>3, <1>6, <2>1, <3>1 DEF GoesWell, Wrote
    <3>3. v6'.schedule = W!Selected BY <1>1, <2>1, <3>2, Exactly
    <3> QED BY <1>2, <1>5, <2>1, <3>3, BeforeIs
  <2>2. CASE t # "schedule"
    <3>1. "schedule" \in v2 /\ "priorSchedule" \notin v2 \union v3 /\ t # "priorSchedule" BY <1>3, <1>6, <2>2
    <3>2. v6.schedule = Governing[v1.date] BY <1>1, <3>1 DEF W!ScheduleInv, W!Ran, W!D
    <3>3. "snapshot" \in v2 BY <1>1, <3>1, NeedsDone
    <3> QED BY <1>4, <1>5, <3>1, <3>2, <3>3 DEF ScheduleBy
  <2> QED BY <2>1, <2>2
<1>7. ASSUME "priorSchedule" \in v2', "restore" \notin v2' \union v3' PROVE v1.skip \/ v6'.schedule = Governing[v1.date - 1]
  <2>1. CASE t = "priorSchedule"
    <3> SUFFICES ASSUME ~v1.skip PROVE v6'.schedule = Governing[v1.date - 1] OBVIOUS
    <3>1. ~W!Skipped(t) /\ t \notin Idles BY <2>1 DEF W!Skipped, Idles
    <3>2. WritesOne(t) BY <1>3, <1>7, <2>1, <3>1 DEF GoesWell, Wrote
    <3> QED BY <1>1, <2>1, <3>2, Exactly
  <2>2. CASE t # "priorSchedule"
    <3>1. "priorSchedule" \in v2 /\ "restore" \notin v2 \union v3 /\ t # "restore" BY <1>3, <1>7, <2>2
    <3>2. v1.skip \/ v6.schedule = Governing[v1.date - 1] BY <1>1, <3>1 DEF W!ScheduleInv, W!Ran, W!Prior
    <3>3. "schedule" \in v2 BY <1>1, <3>1, NeedsDone
    <3>4. t # "schedule" BY <1>2, <3>3
    <3> QED BY <1>4, <2>2, <3>1, <3>2, <3>4 DEF ScheduleBy
  <2> QED BY <2>1, <2>2
<1>8. ASSUME "restore" \in v2', "priorUniverse" \in v2' PROVE v6'.schedule = Governing[v1.date]
  <2>1. t # "priorUniverse"
    <3> SUFFICES ASSUME t = "priorUniverse" PROVE FALSE OBVIOUS
    <3>1. "restore" \in v2 BY <1>3, <1>8
    <3> QED BY <1>1, <1>2, <3>1, NeedsDone
  <2>2. "priorUniverse" \in v2 BY <1>3, <1>8, <2>1
  <2>3. "priorSchedule" \in v2 /\ "schedule" \in v2 /\ "snapshot" \in v2 BY <1>1, <2>2, NeedsDone
  <2>4. CASE t = "restore"
    <3>1. ~W!Skipped(t) /\ t \notin Idles BY <2>4 DEF W!Skipped, Idles
    <3>2. WritesOne(t) BY <1>3, <1>8, <2>4, <3>1 DEF GoesWell, Wrote
    <3>3. v6'.schedule = W!Selected BY <1>1, <2>4, <3>2, Exactly
    <3> QED BY <1>5, <2>3, <3>3
  <2>5. CASE t # "restore"
    <3>1. "restore" \in v2 BY <1>3, <1>8, <2>5
    <3>2. v6.schedule = Governing[v1.date] BY <1>1, <2>2, <3>1 DEF W!ScheduleInv, W!D
    <3>3. t # "schedule" /\ t # "priorSchedule" BY <1>2, <2>3
    <3> QED BY <1>4, <2>5, <3>2, <3>3 DEF ScheduleBy
  <2> QED BY <2>4, <2>5
<1>9. ASSUME "universe" \in v2', "priorUniverse" \in v2' PROVE v1.historical \/ v6'.universe[v1.date] = Governing[v1.date]
  <2>1. t # "priorUniverse"
    <3> SUFFICES ASSUME t = "priorUniverse" PROVE FALSE OBVIOUS
    <3>1. "universe" \in v2 BY <1>3, <1>9
    <3>2. "restore" \in v2 BY <1>1, <3>1, NeedsDone
    <3> QED BY <1>1, <1>2, <3>2, NeedsDone
  <2>2. "priorUniverse" \in v2 BY <1>3, <1>9, <2>1
  <2>3. "snapshot" \in v2 BY <1>1, <2>2, NeedsDone
  <2>4. CASE t = "universe"
    <3> SUFFICES ASSUME ~v1.historical PROVE v6'.universe[v1.date] = Governing[v1.date] OBVIOUS
    <3>1. ~W!Skipped(t) /\ t \notin Idles BY <2>4 DEF W!Skipped, Idles
    <3>2. WritesOne(t) BY <1>3, <1>9, <2>4, <3>1 DEF GoesWell, Wrote
    <3>3. v6'.universe = [v6.universe EXCEPT ![v1.date] = W!Found(W!Selected)] BY <1>1, <2>4, <3>2, Exactly
    <3>4. "restore" \in v2 BY <1>2, <2>4, BeforeIs
    <3>5. v6.schedule = Governing[v1.date] BY <1>1, <2>2, <3>4 DEF W!ScheduleInv, W!D
    <3>6. W!Found(W!Selected) = Governing[v1.date] BY <1>5, <2>3, <3>5 DEF W!Found
    <3>7. v1.date \in W!Dates BY ReadyIs DEF Attempt
    <3>8. v6.universe \in [W!Dates -> W!Snapshots] BY <1>1 DEF TableRecords
    <3> QED BY <3>3, <3>6, <3>7, <3>8
  <2>5. CASE t # "universe"
    <3>1. "universe" \in v2 BY <1>3, <1>9, <2>5
    <3>2. v1.historical \/ v6.universe[v1.date] = Governing[v1.date] BY <1>1, <2>2, <3>1 DEF W!ScheduleInv, W!D
    <3> QED BY <1>4, <2>1, <2>5, <3>2 DEF UniverseBy
  <2> QED BY <2>4, <2>5
<1> QED BY <1>4, <1>6, <1>7, <1>8, <1>9 DEF W!ScheduleInv, W!Ran, W!D, W!Prior

LEMMA CoverageKept == ASSUME W!DailyInv, NEW t \in W!Tasks, Attempt(t) PROVE CoverageFound'
<1>1. W!GraphInv /\ W!ScheduleInv /\ v6 \in TableRecords /\ CoverageFound BY DailyParts
<1>2. t \notin v2 \union v3 \union v4 /\ (t # "restore" => W!Before(t) \subseteq v2) BY ReadyIs DEF Attempt
<1>3. CoverageBy(t) BY DEF Attempt, TablesBy
<1>4. v6.coverage \in [W!Dates -> W!Snapshots] BY <1>1 DEF TableRecords
<1>5. t = "coverage" => W!Found(W!Selected) # W!Empty
  <2> SUFFICES ASSUME t = "coverage" PROVE W!Found(W!Selected) # W!Empty OBVIOUS
  <2>1. "facts" \in v2 BY <1>2, BeforeIs
  <2>2. "schedule" \in v2 /\ "snapshot" \in v2 BY <1>1, <2>1, NeedsDone
  <2>3. "priorSchedule" \notin v2 \union v3 BY <1>1, <1>2, NeedsDone
  <2>4. v6.schedule = Governing[v1.date] BY <1>1, <2>2, <2>3 DEF W!ScheduleInv, W!Ran, W!D
  <2>5. W!Selected = Governing[v1.date] /\ v1.date \in DOMAIN Governing BY <2>2, SelectedIs
  <2> QED BY <2>4, <2>5, GoverningIs DEF W!Found
<1>6. t = "priorCoverage" /\ ~v1.skip => W!Found(Governing[v1.date - 1]) # W!Empty
  <2> SUFFICES ASSUME t = "priorCoverage", ~v1.skip PROVE W!Found(Governing[v1.date - 1]) # W!Empty OBVIOUS
  <2>1. "priorSchedule" \in v2 BY <1>2, BeforeIs
  <2>2. "restore" \notin v2 \union v3 BY <1>1, <1>2, RestoreIsLate
  <2>3. v6.schedule = Governing[v1.date - 1] BY <1>1, <2>1, <2>2 DEF W!ScheduleInv, W!Ran, W!Prior
  <2>4. "priorSnapshot" \in v2 BY <1>1, <2>1, NeedsDone
  <2>5. v1.date - 1 \in DOMAIN Governing BY <2>4, SelectedIs
  <2> QED BY <2>3, <2>5, GoverningIs DEF W!Found
<1>7. \A d \in W!Dates : v6.coverage[d] # W!Empty BY <1>1 DEF CoverageFound
<1>8. \A d \in W!Dates : v6'.coverage[d] # W!Empty BY <1>3, <1>4, <1>5, <1>6, <1>7 DEF CoverageBy
<1> QED BY <1>8 DEF CoverageFound, W!Dates, W!Empty

LEMMA FinishedKept == ASSUME W!DailyInv, NEW t \in W!Tasks, Attempt(t) PROVE W!FinishedInv'
<1>1. W!GraphInv /\ W!FinishedInv /\ v6 \in TableRecords BY DailyParts
<1>2. /\ v1.date \in W!Dates /\ v1.date - 1 \in W!Dates /\ v1.date - 1 # v1.date
      /\ t \notin v2 \union v3 \union v4 /\ (t # "restore" => W!Before(t) \subseteq v2)
  BY ReadyIs DEF Attempt
<1>3. v2 \subseteq v2' /\ v2' \subseteq v2 \union {t} /\ (t \in v2' => GoesWell(t)) BY AttemptGraph
<1>4. v1' = v1 /\ FactsBy(t) /\ MartsBy(t) /\ Announces(t) BY DEF Attempt, TablesBy
<1>5. v6.marts \in [W!Dates -> SUBSET (ScheduledTrips \X Int)] BY <1>1 DEF TableRecords
<1>6. "priorMarts" \in v2 => "facts" \in v2 /\ "priorFacts" \in v2 BY <1>1, NeedsDone
<1>7. ASSUME "priorFacts" \in v2' PROVE v1.skip \/ v1.date - 1 \in v8'
  <2>1. CASE t = "priorFacts" BY <1>3, <1>7, <2>1 DEF GoesWell
  <2>2. CASE t # "priorFacts"
    <3>1. v1.skip \/ v1.date - 1 \in v8 BY <1>1, <1>3, <1>7, <2>2 DEF W!FinishedInv, W!Prior
    <3> QED BY <1>4, <3>1 DEF Announces
  <2> QED BY <2>1, <2>2
<1>8. ASSUME "marts" \in v2' PROVE v1.historical \/ v6'.marts[v1.date] = v6'.facts[v1.date]
  <2>1. CASE t = "marts"
    <3> SUFFICES ASSUME ~v1.historical PROVE v6'.marts[v1.date] = v6'.facts[v1.date] OBVIOUS
    <3>1. ~W!Skipped(t) /\ t \notin Idles BY <2>1 DEF W!Skipped, Idles
    <3>2. WritesOne(t) BY <1>3, <1>8, <2>1, <3>1 DEF GoesWell, Wrote
    <3>3. v6'.marts = [v6.marts EXCEPT ![v1.date] = v6.facts[v1.date]] BY <1>1, <2>1, <3>2, Exactly
    <3>4. v6'.facts = v6.facts BY <1>4, <2>1 DEF FactsBy
    <3> QED BY <1>2, <1>5, <3>3, <3>4
  <2>2. CASE t # "marts"
    <3>1. "marts" \in v2 BY <1>3, <1>8, <2>2
    <3>2. "priorMarts" \in v2 BY <1>1, <3>1, NeedsDone
    <3>3. t # "priorMarts" /\ t # "facts" /\ t # "priorFacts" BY <1>2, <1>6, <3>2
    <3>4. v6'.facts = v6.facts /\ v6'.marts = v6.marts BY <1>4, <2>2, <3>3 DEF FactsBy, MartsBy
    <3>5. v1.historical \/ v6.marts[v1.date] = v6.facts[v1.date] BY <1>1, <3>1 DEF W!FinishedInv, W!D
    <3> QED BY <3>4, <3>5
  <2> QED BY <2>1, <2>2
<1>9. ASSUME "priorMarts" \in v2' PROVE v1.historical \/ v1.skip \/ v6'.marts[v1.date - 1] = v6'.facts[v1.date - 1]
  <2>1. CASE t = "priorMarts"
    <3> SUFFICES ASSUME ~v1.historical, ~v1.skip PROVE v6'.marts[v1.date - 1] = v6'.facts[v1.date - 1] OBVIOUS
    <3>1. ~W!Skipped(t) /\ t \notin Idles BY <2>1 DEF W!Skipped, Idles
    <3>2. WritesOne(t) BY <1>3, <1>9, <2>1, <3>1 DEF GoesWell, Wrote
    <3>3. v6'.marts = [v6.marts EXCEPT ![v1.date - 1] = v6.facts[v1.date - 1]] BY <1>1, <2>1, <3>2, Exactly
    <3>4. v6'.facts = v6.facts BY <1>4, <2>1 DEF FactsBy
    <3> QED BY <1>2, <1>5, <3>3, <3>4
  <2>2. CASE t # "priorMarts"
    <3>1. "priorMarts" \in v2 BY <1>3, <1>9, <2>2
    <3>2. t # "facts" /\ t # "priorFacts" BY <1>2, <1>6, <3>1
    <3>3. v6'.facts = v6.facts BY <1>4, <3>2 DEF FactsBy
    <3>4. v6'.marts[v1.date - 1] = v6.marts[v1.date - 1] BY <1>2, <1>4, <1>5, <2>2 DEF MartsBy
    <3>5. v1.historical \/ v1.skip \/ v6.marts[v1.date - 1] = v6.facts[v1.date - 1] BY <1>1, <3>1 DEF W!FinishedInv, W!Prior
    <3> QED BY <3>3, <3>4, <3>5
  <2> QED BY <2>1, <2>2
<1>10. ASSUME "emit" \in v2' PROVE v7' \intersect W!Changed = {}
  <2>1. CASE t = "emit" BY <1>3, <1>10, <2>1 DEF GoesWell
  <2>2. CASE t # "emit"
    <3>1. "emit" \in v2 BY <1>3, <1>10, <2>2
    <3>2. t \notin {"marts", "priorMarts"} BY <1>1, <1>2, <3>1, NeedsDone
    <3>3. v7' \subseteq v7 BY <1>4, <3>2 DEF Announces
    <3>4. W!Changed \intersect v7 = {} BY <1>1, <3>1 DEF W!FinishedInv
    <3> QED BY <3>3, <3>4
  <2> QED BY <2>1, <2>2
<1>11. (W!Changed)' = W!Changed BY <1>4 DEF W!Changed, W!D, W!Prior
<1> QED BY <1>4, <1>7, <1>8, <1>9, <1>10, <1>11 DEF W!FinishedInv, W!D, W!Prior

LEMMA StatusKept == ASSUME W!DailyInv, NEW t \in W!Tasks, Attempt(t) PROVE W!StatusMeansFinal'
<1>1. W!GraphInv /\ W!FinishedInv /\ W!StatusMeansFinal /\ v6 \in TableRecords BY DailyParts
<1>2. /\ v1.date \in W!Dates /\ v1.date - 1 \in W!Dates /\ v1.date - 1 # v1.date
      /\ t \notin v2 \union v3 \union v4 /\ (t # "restore" => W!Before(t) \subseteq v2)
  BY ReadyIs DEF Attempt
<1>3. StatusBy(t) /\ v8 \subseteq v8' BY DEF Attempt, TablesBy, Announces
<1>4. v6.status \in [W!Dates -> SUBSET ProcessingDates] BY <1>1 DEF TableRecords
<1>5. t = "status" => v1.date - 1 \in v8 \union ExcludedDates
  <2> SUFFICES ASSUME t = "status" PROVE v1.date - 1 \in v8 \union ExcludedDates OBVIOUS
  <2>1. "coverage" \in v2 BY <1>2, BeforeIs
  <2>2. "priorFacts" \in v2 /\ "guard" \in v2 BY <1>1, <2>1, NeedsDone
  <2>3. v1.skip \/ v1.date - 1 \in v8 BY <1>1, <2>2 DEF W!FinishedInv, W!Prior
  <2> QED BY <2>2, <2>3, SelectedIs
<1>6. ASSUME NEW d \in ProcessingDates, d \in v6'.status[d] PROVE d - 1 \in v8' \union ExcludedDates
  <2>1. d \in W!Dates BY DatesAre
  <2>2. CASE d \in v6.status[d] BY <1>1, <1>3, <2>2 DEF W!StatusMeansFinal
  <2>3. CASE d \notin v6.status[d]
    <3>1. t = "status" /\ d = v1.date BY <1>2, <1>3, <1>4, <1>6, <2>1, <2>3 DEF StatusBy
    <3> QED BY <1>3, <1>5, <3>1
  <2> QED BY <2>2, <2>3
<1> QED BY <1>6 DEF W!StatusMeansFinal

--------------------------------------------------------------------------------
\* What a run of the date, and one of the date after, leave in the facts.
LEMMA RowsAre ==
  ASSUME v6 \in TableRecords, v1.date \in ProcessingDates
  PROVE  /\ W!CurrentRows \subseteq ScheduledTrips \X Int /\ W!PriorRows \subseteq ScheduledTrips \X Int
         /\ W!Later(v1.date) \subseteq W!CurrentRows
<1>1. v1.date \in Int /\ v1.date \in W!Dates /\ v1.date - 1 \in W!Dates BY DatesAre
<1>2. /\ v6.matched \in [ProcessingDates -> SUBSET (Int \X ScheduledTrips)]
      /\ v6.facts \in [W!Dates -> SUBSET (ScheduledTrips \X Int)]
  BY DEF TableRecords
<1>3. v6.matched[v1.date] \subseteq Int \X ScheduledTrips BY <1>2
<1>4. v6.facts[v1.date] \subseteq ScheduledTrips \X Int /\ v6.facts[v1.date - 1] \subseteq ScheduledTrips \X Int BY <1>1, <1>2
<1>5. W!Later(v1.date) \subseteq v6.facts[v1.date] BY DEF W!Later
<1>6. ASSUME NEW r \in W!CurrentRows PROVE r \in ScheduledTrips \X Int
  <2>1. r \in W!Later(v1.date) \/ \E p \in v6.matched[v1.date] : r = <<p[2], v1.date>> BY DEF W!CurrentRows, W!D
  <2>2. CASE r \in W!Later(v1.date) BY <1>4, <1>5, <2>2
  <2>3. ASSUME NEW p \in v6.matched[v1.date], r = <<p[2], v1.date>> PROVE r \in ScheduledTrips \X Int
    <3>1. p[2] \in ScheduledTrips BY <1>3
    <3> QED BY <1>1, <2>3, <3>1
  <2> QED BY <2>1, <2>2, <2>3
<1>7. ASSUME NEW r \in W!PriorRows PROVE r \in ScheduledTrips \X Int
  <2>1. r \in v6.facts[v1.date - 1] \/ \E p \in v6.matched[v1.date] : r = <<p[2], v1.date>> BY DEF W!PriorRows, W!D, W!Prior
  <2>2. CASE r \in v6.facts[v1.date - 1] BY <1>4, <2>2
  <2>3. ASSUME NEW p \in v6.matched[v1.date], r = <<p[2], v1.date>> PROVE r \in ScheduledTrips \X Int
    <3>1. p[2] \in ScheduledTrips BY <1>3
    <3> QED BY <1>1, <2>3, <3>1
  <2> QED BY <2>1, <2>2, <2>3
<1>8. W!Later(v1.date) \subseteq W!CurrentRows BY DEF W!CurrentRows, W!D
<1> QED BY <1>6, <1>7, <1>8

\* One run has matched what they hold of a trip.
OnePer(rows) == \A r, q \in rows : r[1][1] = q[1][1] => r[2] = q[2]

LEMMA OneRowEach ==
  ASSUME OnePer(v6.facts[v1.date]), OnePer(v6.facts[v1.date - 1]) PROVE OnePer(W!CurrentRows) /\ OnePer(W!PriorRows)
<1>1. ASSUME NEW r \in W!CurrentRows, NEW q \in W!CurrentRows, r[1][1] = q[1][1] PROVE r[2] = q[2]
  <2> DEFINE new(x) == \E p \in v6.matched[v1.date] : x = <<p[2], v1.date>> /\ \A l \in W!Later(v1.date) : l[1][1] # p[2][1]
  <2>1. \A x \in W!CurrentRows : x \in W!Later(v1.date) \/ new(x) BY DEF W!CurrentRows, W!D
  <2>2. W!Later(v1.date) \subseteq v6.facts[v1.date] BY DEF W!Later
  <2>3. \A x : new(x) => x[2] = v1.date /\ \A l \in W!Later(v1.date) : l[1][1] # x[1][1] OBVIOUS
  <2> HIDE DEF new
  <2>4. CASE new(r) /\ new(q) BY <1>1, <2>3, <2>4
  <2>5. CASE r \in W!Later(v1.date) /\ q \in W!Later(v1.date) BY <1>1, <2>2, <2>5 DEF OnePer
  <2>6. CASE new(r) /\ q \in W!Later(v1.date) BY <1>1, <2>3, <2>6
  <2>7. CASE r \in W!Later(v1.date) /\ new(q) BY <1>1, <2>3, <2>7
  <2> QED BY <2>1, <2>4, <2>5, <2>6, <2>7
<1>2. ASSUME NEW r \in W!PriorRows, NEW q \in W!PriorRows, r[1][1] = q[1][1] PROVE r[2] = q[2]
  <2> DEFINE new == {p[2] : p \in {m \in v6.matched[v1.date] : m[1] = v1.date - 1}}
             kept == {x \in v6.facts[v1.date - 1] : x[2] < v1.date /\ \A n \in new : n[1] # x[1][1]}
  <2>1. W!PriorRows = {<<x, v1.date>> : x \in new} \union kept BY DEF W!PriorRows, W!D, W!Prior
  <2>2. \A x \in kept : x \in v6.facts[v1.date - 1] /\ \A n \in new : n[1] # x[1][1] OBVIOUS
  <2> HIDE DEF new, kept
  <2>3. \A x \in W!PriorRows : x \in kept \/ (x[1] \in new /\ x[2] = v1.date) BY <2>1
  <2>4. CASE r \in kept /\ q \in kept BY <1>2, <2>2, <2>4 DEF OnePer
  <2>5. CASE r \notin kept /\ q \notin kept BY <1>2, <2>3, <2>5
  <2>6. CASE (r \in kept /\ q \notin kept) \/ (r \notin kept /\ q \in kept) BY <1>2, <2>2, <2>3, <2>6
  <2> QED BY <2>4, <2>5, <2>6
<1> QED BY <1>1, <1>2 DEF OnePer

LEMMA OnceKept == ASSUME W!DailyInv, NEW t \in W!Tasks, Attempt(t) PROVE W!OncePerTrip'
<1>1. W!OncePerTrip /\ v6 \in TableRecords BY DailyParts
<1>2. v1.date \in ProcessingDates /\ v1.date \in W!Dates /\ v1.date - 1 \in W!Dates BY ReadyIs DEF Attempt
<1>3. FactsBy(t) BY DEF Attempt, TablesBy
<1>4. v6.facts \in [W!Dates -> SUBSET (ScheduledTrips \X Int)] BY <1>1 DEF TableRecords
<1>5. \A d \in W!Dates : OnePer(v6.facts[d]) BY <1>1 DEF W!OncePerTrip, OnePer
<1>6. OnePer(W!CurrentRows) /\ OnePer(W!PriorRows) BY <1>2, <1>5, OneRowEach
<1>7. \A d \in W!Dates : v6'.facts[d] \in {v6.facts[d], W!CurrentRows, W!PriorRows} BY <1>3, <1>4 DEF FactsBy
<1>8. \A d \in W!Dates : OnePer(v6'.facts[d]) BY <1>5, <1>6, <1>7
<1>9. (W!Dates)' = W!Dates BY DEF W!Dates
<1> QED BY <1>8, <1>9 DEF W!OncePerTrip, OnePer

LEMMA TablesKept == ASSUME W!DailyInv, NEW t \in W!Tasks, Attempt(t) PROVE v6' \in TableRecords
<1>1. v6 \in TableRecords BY DailyParts
<1>2. /\ v1.date \in ProcessingDates /\ v1.date \in Int /\ v1.date - 1 \in Int
      /\ v1.date \in W!Dates /\ v1.date - 1 \in W!Dates
      /\ t \notin v2 \union v3 \union v4 /\ (t # "restore" => W!Before(t) \subseteq v2)
  BY ReadyIs DEF Attempt
<1>3. TablesBy(t) BY DEF Attempt
<1>4. /\ v6.matched \in [ProcessingDates -> SUBSET (Int \X ScheduledTrips)] /\ v6.schedule \in W!Snapshots
      /\ v6.facts \in [W!Dates -> SUBSET (ScheduledTrips \X Int)] /\ v6.coverage \in [W!Dates -> W!Snapshots]
      /\ v6.status \in [W!Dates -> SUBSET ProcessingDates] /\ v6.universe \in [W!Dates -> W!Snapshots]
      /\ v6.marts \in [W!Dates -> SUBSET (ScheduledTrips \X Int)]
  BY <1>1 DEF TableRecords
<1>5. W!Selected \in W!Snapshots BY SelectedIs
<1>6. \A s \in W!Snapshots : W!Found(s) \in W!Snapshots BY GoverningIs DEF W!Found
<1>7. t \in {"priorSchedule", "priorCoverage", "priorUniverse"} /\ ~v1.skip => Governing[v1.date - 1] \in W!Snapshots
  <2> SUFFICES ASSUME t \in {"priorSchedule", "priorCoverage", "priorUniverse"}, ~v1.skip
               PROVE Governing[v1.date - 1] \in W!Snapshots
    OBVIOUS
  <2>1. W!GraphInv BY DailyParts
  <2>2. CASE t = "priorSchedule" BY <1>2, <2>2, BeforeIs, SelectedIs, GoverningIs
  <2>3. CASE t = "priorCoverage"
    <3>1. "priorSchedule" \in v2 BY <1>2, <2>3, BeforeIs
    <3>2. "priorSnapshot" \in v2 BY <2>1, <3>1, NeedsDone
    <3> QED BY <3>2, SelectedIs, GoverningIs
  <2>4. CASE t = "priorUniverse"
    <3>1. "priorStatus" \in v2 BY <1>2, <2>4, BeforeIs
    <3>2. "priorSnapshot" \in v2 BY <2>1, <3>1, NeedsDone
    <3> QED BY <3>2, SelectedIs, GoverningIs
  <2> QED BY <2>2, <2>3, <2>4
<1>8. W!InputDates \subseteq Int BY <1>2 DEF W!InputDates, W!D, W!Prior
<1>9. v6'.matched \in [ProcessingDates -> SUBSET (Int \X ScheduledTrips)]
  <2>1. \A m \in SUBSET (W!InputDates \X ScheduledTrips) : m \in SUBSET (Int \X ScheduledTrips) BY <1>8
  <2>2. CASE v6'.matched = v6.matched BY <1>4, <2>2
  <2>3. ASSUME NEW m \in SUBSET (W!InputDates \X ScheduledTrips), v6'.matched = [v6.matched EXCEPT ![v1.date] = m]
        PROVE v6'.matched \in [ProcessingDates -> SUBSET (Int \X ScheduledTrips)]
    <3>1. m \in SUBSET (Int \X ScheduledTrips) BY <2>1
    <3> QED BY <1>2, <1>4, <2>3, <3>1
  <2> QED BY <1>3, <2>2, <2>3 DEF TablesBy, MatchedBy
<1>10. v6'.schedule \in W!Snapshots BY <1>3, <1>4, <1>5, <1>7 DEF TablesBy, ScheduleBy
<1>11. v6'.facts \in [W!Dates -> SUBSET (ScheduledTrips \X Int)]
  <2>1. W!CurrentRows \in SUBSET (ScheduledTrips \X Int) /\ W!PriorRows \in SUBSET (ScheduledTrips \X Int)
    BY <1>1, <1>2, RowsAre
  <2> QED BY <1>2, <1>3, <1>4, <2>1 DEF TablesBy, FactsBy
<1>12. v6'.coverage \in [W!Dates -> W!Snapshots]
  <2>1. W!Found(W!Selected) \in W!Snapshots BY <1>5, <1>6
  <2>2. t = "priorCoverage" /\ ~v1.skip => W!Found(Governing[v1.date - 1]) \in W!Snapshots BY <1>6, <1>7
  <2> QED BY <1>2, <1>3, <1>4, <2>1, <2>2 DEF TablesBy, CoverageBy
<1>13. v6'.status \in [W!Dates -> SUBSET ProcessingDates] BY <1>2, <1>3, <1>4 DEF TablesBy, StatusBy
<1>14. v6'.universe \in [W!Dates -> W!Snapshots]
  <2>1. W!Found(W!Selected) \in W!Snapshots BY <1>5, <1>6
  <2>2. t = "priorUniverse" /\ ~v1.skip => W!Found(Governing[v1.date - 1]) \in W!Snapshots BY <1>6, <1>7
  <2> QED BY <1>2, <1>3, <1>4, <2>1, <2>2 DEF TablesBy, UniverseBy
<1>15. v6'.marts \in [W!Dates -> SUBSET (ScheduledTrips \X Int)]
  <2>1. v6.facts[v1.date] \in SUBSET (ScheduledTrips \X Int) /\ v6.facts[v1.date - 1] \in SUBSET (ScheduledTrips \X Int)
    BY <1>2, <1>4
  <2> QED BY <1>2, <1>3, <1>4, <2>1 DEF TablesBy, MartsBy
<1>16. Record7 BY <1>3 DEF TablesBy
<1> QED BY <1>9, <1>10, <1>11, <1>12, <1>13, <1>14, <1>15, <1>16 DEF TableRecords, Record7

LEMMA RunKept == ASSUME W!DailyInv, NEW t \in W!Tasks, Attempt(t) PROVE W!RunInv'
<1>1. W!RunInv BY DailyParts
<1>2. v1.date \in ProcessingDates BY ReadyIs DEF Attempt
<1>3. v2' \subseteq v2 \union {t} /\ (t \in v2' => GoesWell(t)) BY AttemptGraph
<1>4. v1' = v1 BY DEF Attempt
<1>5. t \in v2' => W!Passes(t) BY <1>3 DEF GoesWell
<1>6. "guard" \in v2' => W!GuardPasses BY <1>1, <1>3, <1>5 DEF W!RunInv, W!Passes
<1>7. "snapshot" \in v2' => v1.date \in DOMAIN Governing BY <1>1, <1>3, <1>5 DEF W!RunInv, W!Passes, W!D
<1>8. "priorSnapshot" \in v2' => v1.skip \/ v1.date - 1 \in DOMAIN Governing BY <1>1, <1>3, <1>5 DEF W!RunInv, W!Passes, W!Prior
<1> QED BY <1>2, <1>4, <1>6, <1>7, <1>8 DEF W!RunInv, W!D, W!Prior, W!GuardPasses

\* An attempt at a task preserves the invariant; it takes back no completed fact.
LEMMA AttemptKeeps == ASSUME W!DailyInv, NEW t \in W!Tasks, Attempt(t) PROVE W!DailyInv'
<1>1. v1' \in RunRecords
  <2>1. v1 \in RunRecords BY DailyParts
  <2> QED BY <2>1 DEF Attempt
<1>2. (v2 \union v3 \union v4)' \subseteq W!Tasks /\ W!GraphInv' BY AttemptGraph
<1>3. v6' \in TableRecords BY TablesKept
<1>4. W!RunInv' BY RunKept
<1>5. W!ScheduleInv' BY ScheduleKept
<1>6. W!FinishedInv' BY FinishedKept
<1>7. W!OncePerTrip' BY OnceKept
<1>8. W!StatusMeansFinal' BY StatusKept
<1>9. CoverageFound' BY CoverageKept
<1>10. (v1 \in RunRecords)' /\ (v6 \in TableRecords)' /\ (v2 \union v3 \union v4 \subseteq W!Tasks)'
  <2>1. (v1 \in RunRecords)' BY <1>1 DEF RunRecords
  <2>2. (v6 \in TableRecords)' BY <1>3 DEF TableRecords, W!Snapshots, W!Dates, W!Nothing, W!Empty
  <2>3. (v2 \union v3 \union v4 \subseteq W!Tasks)' BY <1>2 DEF W!Tasks, W!Order
  <2> QED BY <2>1, <2>2, <2>3
<1> QED BY <1>2, <1>4, <1>5, <1>6, <1>7, <1>8, <1>9, <1>10, DailyParts, PTL

LEMMA AttemptKeepsFacts == ASSUME W!DailyInv, NEW t \in W!Tasks, Attempt(t) PROVE W!Kept
<1>1. v6 \in TableRecords BY DailyParts
<1>2. v1.date \in ProcessingDates /\ v1.date \in Int /\ v1.date \in W!Dates /\ v1.date - 1 \in W!Dates BY ReadyIs DEF Attempt
<1>3. FactsBy(t) BY DEF Attempt, TablesBy
<1>4. v6.facts \in [W!Dates -> SUBSET (ScheduledTrips \X Int)] BY <1>1 DEF TableRecords
<1>5. ASSUME NEW d \in W!Dates, v1.date # d + 1 PROVE W!Later(d) \subseteq v6'.facts[d]
  <2>1. W!Later(d) \subseteq v6.facts[d] BY DEF W!Later
  <2>2. W!Later(v1.date) \subseteq W!CurrentRows BY <1>1, <1>2, RowsAre
  <2>3. d \in Int BY DatesAre
  <2>4. d # v1.date - 1 BY <1>2, <1>5, <2>3
  <2>5. v6'.facts[d] = v6.facts[d] \/ (d = v1.date /\ v6'.facts[d] = W!CurrentRows) BY <1>2, <1>3, <1>4, <2>4 DEF FactsBy
  <2> QED BY <2>1, <2>2, <2>5
<1> QED BY <1>5 DEF W!Kept, W!D

--------------------------------------------------------------------------------
LEMMA DailyInit == W!Init => W!DailyInv
<1> SUFFICES ASSUME W!Init PROVE W!DailyInv OBVIOUS
<1>1. /\ v1 = [date |-> 0, skip |-> FALSE, historical |-> FALSE] /\ v2 = {} /\ v3 = {} /\ v4 = {} /\ v5 = TRUE
      /\ v6 = [matched |-> [d \in ProcessingDates |-> {}], schedule |-> W!Nothing, facts |-> [d \in W!Dates |-> {}],
               coverage |-> [d \in W!Dates |-> W!Nothing], status |-> [d \in W!Dates |-> {}],
               universe |-> [d \in W!Dates |-> W!Nothing], marts |-> [d \in W!Dates |-> {}]]
  BY DEF W!Init
<1>2. v1 \in RunRecords BY <1>1 DEF RunRecords
<1>3. v6 \in TableRecords
  <2>1. W!Nothing \in W!Snapshots BY GoverningIs
  <2> QED BY <1>1, <2>1 DEF TableRecords
<1>4. W!GraphInv BY <1>1 DEF W!GraphInv, W!Ran
<1>5. W!RunInv BY <1>1 DEF W!RunInv
<1>6. W!ScheduleInv /\ W!FinishedInv BY <1>1 DEF W!ScheduleInv, W!FinishedInv
<1>7. W!OncePerTrip
  <2>1. \A d \in W!Dates : v6.facts[d] = {} BY <1>1
  <2> QED BY <2>1 DEF W!OncePerTrip
<1>8. W!StatusMeansFinal
  <2>1. \A d \in ProcessingDates : v6.status[d] = {} BY <1>1, DatesAre
  <2> QED BY <2>1 DEF W!StatusMeansFinal
<1>9. CoverageFound BY <1>1, GoverningIs DEF CoverageFound
<1> QED BY <1>1, <1>2, <1>3, <1>4, <1>5, <1>6, <1>7, <1>8, <1>9, DailyParts

\* What the tables alone say, when they stay.
TablesSound == W!OncePerTrip /\ W!StatusMeansFinal /\ CoverageFound
LEMMA TablesStay == ASSUME W!DailyInv, UNCHANGED <<v6, v8>> PROVE (v6 \in TableRecords)' /\ TablesSound'
<1>1. W!OncePerTrip /\ W!StatusMeansFinal /\ CoverageFound /\ v6 \in TableRecords BY DailyParts
<1>2. (v6 \in TableRecords)' BY <1>1 DEF TableRecords, W!Snapshots, W!Dates, W!Nothing, W!Empty
<1>3. W!OncePerTrip' BY <1>1 DEF W!OncePerTrip, W!Dates
<1>4. W!StatusMeansFinal' BY <1>1 DEF W!StatusMeansFinal
<1>5. CoverageFound' BY <1>1 DEF CoverageFound, W!Dates, W!Empty
<1> QED BY <1>2, <1>3, <1>4, <1>5 DEF TablesSound

LEMMA DailyBuild ==
  ASSUME (v1 \in RunRecords)', (v2 \union v3 \union v4 \subseteq W!Tasks)', (v6 \in TableRecords)', W!GraphInv', W!RunInv',
         W!ScheduleInv', W!FinishedInv', TablesSound'
  PROVE  W!DailyInv'
<1>1. (TablesSound => W!OncePerTrip /\ W!StatusMeansFinal /\ CoverageFound)' BY DEF TablesSound
<1> QED BY <1>1, DailyParts, PTL

LEMMA StartKeepsDaily ==
  ASSUME W!DailyInv, NEW d \in ProcessingDates, NEW skip \in BOOLEAN, NEW historical \in BOOLEAN, W!Start(d, skip, historical)
  PROVE  W!DailyInv'
<1>1. /\ v1' = [date |-> d, skip |-> skip, historical |-> historical] /\ v2' = {} /\ v3' = {} /\ v4' = {}
      /\ UNCHANGED <<v6, v7, v8>>
  BY DEF W!Start
<1>2. (v1 \in RunRecords)'
  <2>1. d \in Int BY DatesAre
  <2> QED BY <1>1, <2>1 DEF RunRecords
<1>3. (v2 \union v3 \union v4 \subseteq W!Tasks)' BY <1>1
<1>4. (v6 \in TableRecords)' /\ TablesSound' BY <1>1, TablesStay
<1>5. W!GraphInv' BY <1>1 DEF W!GraphInv, W!Ran
<1>6. W!RunInv' BY <1>1 DEF W!RunInv, W!D
<1>7. W!ScheduleInv' /\ W!FinishedInv' BY <1>1 DEF W!ScheduleInv, W!FinishedInv
<1> QED BY <1>2, <1>3, <1>4, <1>5, <1>6, <1>7, DailyBuild

LEMMA DailyStaysWhen ==
  ASSUME W!DailyInv, UNCHANGED <<v1, v2, v3, v4, v6, v7, v8>>, ~v5' => ~v5
  PROVE  W!DailyInv'
<1>1. /\ v1 \in RunRecords /\ v2 \union v3 \union v4 \subseteq W!Tasks /\ W!GraphInv /\ W!RunInv /\ W!ScheduleInv /\ W!FinishedInv
  BY DailyParts
<1>2. (v1 \in RunRecords)' BY <1>1 DEF RunRecords
<1>3. (v2 \union v3 \union v4 \subseteq W!Tasks)' BY <1>1 DEF W!Tasks, W!Order
<1>4. (v6 \in TableRecords)' /\ TablesSound' BY TablesStay
<1>5. W!GraphInv' BY ZenonT(40), <1>1 DEF W!GraphInv, W!Ran, W!Settled, W!AllDone, W!Before, W!CoverageInputs, W!PriorMartInputs
<1>6. W!RunInv' BY <1>1 DEF W!RunInv, W!D, W!Prior, W!GuardPasses
<1>7. W!ScheduleInv' BY <1>1 DEF W!ScheduleInv, W!D, W!Prior, W!Ran
<1>8. W!FinishedInv' BY <1>1 DEF W!FinishedInv, W!D, W!Prior, W!Changed
<1> QED BY <1>2, <1>3, <1>4, <1>5, <1>6, <1>7, <1>8, DailyBuild

\* A step of none of its variables.
LEMMA DailyStands == ASSUME W!DailyInv, UNCHANGED <<v1, v2, v3, v4, v5, v6, v7, v8>> PROVE W!DailyInv'
<1> QED BY DailyStaysWhen

LEMMA DailyStep == ASSUME W!DailyInv, W!Next PROVE W!DailyInv'
<1>1. ASSUME NEW d \in ProcessingDates, NEW skip \in BOOLEAN, NEW historical \in BOOLEAN, W!Start(d, skip, historical)
      PROVE  W!DailyInv'
  BY <1>1, StartKeepsDaily
<1>2. ASSUME NEW t \in W!Tasks, W!Succeed(t) \/ W!Fail(t) PROVE W!DailyInv'
  <2>1. Attempt(t) BY <1>2, SucceedIs, FailIs
  <2> QED BY <2>1, AttemptKeeps
<1>3. CASE W!End
  <2>1. UNCHANGED <<v1, v2, v3, v4, v6, v7, v8>> /\ v5' = TRUE BY <1>3 DEF W!End
  <2> QED BY <2>1, DailyStaysWhen
<1>4. CASE UNCHANGED W!vars
  <2>1. UNCHANGED <<v1, v2, v3, v4, v5, v6, v7, v8>> BY <1>4 DEF W!vars
  <2> QED BY <2>1, DailyStands
<1> QED BY <1>1, <1>2, <1>3, <1>4 DEF W!Next

LEMMA DailySafe ==
  W!DailyInv => W!NoSilentFailure /\ W!OncePerTrip /\ W!OwnSchedule /\ W!StatusMeansFinal /\ W!MartsFollow
<1> SUFFICES ASSUME W!DailyInv PROVE W!NoSilentFailure /\ W!OwnSchedule /\ W!MartsFollow BY DailyParts
<1>1. /\ v1 \in RunRecords /\ v2 \union v3 \union v4 \subseteq W!Tasks /\ W!GraphInv /\ W!ScheduleInv /\ W!FinishedInv
      /\ CoverageFound
  BY DailyParts
<1>2. "emit" \in v2 => "marts" \in v2 /\ "priorMarts" \in v2 /\ "universe" \in v2 /\ "priorUniverse" \in v2 /\ "restore" \in v2
                       /\ "guard" \in v2
  BY <1>1, NeedsDone
<1>3. W!NoSilentFailure
  <2> SUFFICES ASSUME "emit" \in v2 PROVE v3 = {} BY DEF W!NoSilentFailure, W!Succeeded
  <2>1. W!Tasks \subseteq v2 BY <1>1, NeedsDone, TasksAre
  <2> QED BY <1>1, <2>1 DEF W!GraphInv
<1>4. W!OwnSchedule
  <2>1. \A d \in W!Dates : v6.coverage[d] # W!Empty BY <1>1 DEF CoverageFound
  <2>2. W!Succeeded => v6.schedule = Governing[v1.date] /\ (~v1.historical => v6.universe[v1.date] = Governing[v1.date])
    BY <1>1, <1>2 DEF W!Succeeded, W!ScheduleInv, W!D
  <2> QED BY <2>1, <2>2 DEF W!OwnSchedule, W!D
<1>5. W!MartsFollow
  <2> SUFFICES ASSUME "emit" \in v2, ~v1.historical, NEW d \in {v1.date - 1, v1.date} \ ExcludedDates
               PROVE  d \notin v7 /\ v6.marts[d] = v6.facts[d]
    BY DEF W!MartsFollow, W!Succeeded, W!D, W!Prior
  <2>1. v1.skip \in BOOLEAN BY <1>1 DEF RunRecords
  <2>2. v1.skip <=> v1.date - 1 \in ExcludedDates BY <1>2, SelectedIs
  <2>3. W!Changed \intersect v7 = {} BY <1>1 DEF W!FinishedInv
  <2>4. W!Changed = IF v1.skip THEN {v1.date} ELSE {v1.date - 1, v1.date} BY DEF W!Changed, W!D, W!Prior
  <2>5. v6.marts[v1.date] = v6.facts[v1.date] BY <1>1, <1>2 DEF W!FinishedInv, W!D
  <2>6. v1.skip \/ v6.marts[v1.date - 1] = v6.facts[v1.date - 1] BY <1>1, <1>2 DEF W!FinishedInv, W!Prior
  <2>7. d \in W!Changed BY <2>2, <2>4
  <2>8. d \notin v7 BY <2>3, <2>7
  <2> QED BY <2>1, <2>2, <2>5, <2>6, <2>8
<1> QED BY <1>3, <1>4, <1>5

\* No step of a run takes back a completed fact.
LEMMA KeptStands == ASSUME W!DailyInv, W!Next \/ UNCHANGED v6 PROVE W!Kept
<1>1. CASE UNCHANGED v6 BY <1>1 DEF W!Kept, W!Later
<1>2. ASSUME NEW t \in W!Tasks, W!Succeed(t) \/ W!Fail(t) PROVE W!Kept
  <2>1. Attempt(t) BY <1>2, SucceedIs, FailIs
  <2> QED BY <2>1, AttemptKeepsFacts
<1>3. (\E d \in ProcessingDates, skip, historical \in BOOLEAN : W!Start(d, skip, historical)) \/ W!End \/ UNCHANGED W!vars
      => UNCHANGED v6
  BY DEF W!Start, W!End, W!vars
<1> QED BY <1>1, <1>2, <1>3 DEF W!Next

--------------------------------------------------------------------------------
(* The five together *)

WarehouseInv ==
  /\ which = "daily" => W!DailyInv
  /\ which = "raw" => B!RawInv
  /\ which = "correction" => Y!CorrectionInv
  /\ which = "reports" => H!ReportsInv
  /\ which = "incidents" => I!IncidentsInv

LEMMA WarehouseInitially == WarehouseInit => WarehouseInv
BY DailyInit, RawInit, CorrectionInit, ReportsInit, IncidentsInit DEF WarehouseInit, WarehouseInv

LEMMA WarehouseInductive == WarehouseInv /\ [WarehouseNext]_vars => WarehouseInv'
<1> SUFFICES ASSUME WarehouseInv, [WarehouseNext]_vars PROVE WarehouseInv' OBVIOUS
<1>1. CASE which = "daily" /\ W!Next /\ UNCHANGED which BY <1>1, DailyStep DEF WarehouseInv
<1>2. CASE which = "raw" /\ B!Next /\ UNCHANGED which BY <1>2, RawStep DEF WarehouseInv
<1>3. CASE which = "correction" /\ Y!Next /\ UNCHANGED which BY <1>3, CorrectionStep DEF WarehouseInv
<1>4. CASE which = "reports" /\ H!Next /\ UNCHANGED which BY <1>4, ReportsStep DEF WarehouseInv
<1>5. CASE which = "incidents" /\ I!Next /\ UNCHANGED which BY <1>5, IncidentsStep DEF WarehouseInv
<1>6. CASE UNCHANGED vars
  <2>1. UNCHANGED <<which, v1, v2, v3, v4, v5, v6, v7, v8, v9, v10, v11, v12>> BY <1>6 DEF vars
  <2>2. UNCHANGED H!vars /\ UNCHANGED I!vars BY <2>1 DEF H!vars, I!vars
  <2> QED BY <2>1, <2>2, DailyStands, RawStands, CorrectionStands, ReportsStand, IncidentsStand DEF WarehouseInv
<1> QED BY <1>1, <1>2, <1>3, <1>4, <1>5, <1>6 DEF WarehouseNext

\* dag_daily_gps, dag_load_raw_gps, matcher_historical_correction.py and the health
\* monitor's tasks, for any dates, parts, controllers, event ids, minutes and limits, with
\* any of their steps failing or killed: a nightly run that ends well has had no failed
\* task, left a trip one row in a date's facts, derived its tables from its own date's
\* schedule, and only calls a date final when its facts are; a part is appended once and
\* announced when it is in; a correction's refresh covers what it rewrote and is served
\* when it succeeds; an alert is only acknowledged when received, is not sent again after
\* that, and a drained outbox holds none; and hour after hour the monitor's reports miss
\* no run of bad minutes long enough, tell of an outage only after one and of a recovery
\* only after as many good ones, open and close in turn, and say healthy only of an hour
\* seen whole with nothing open at its end.
THEOREM WarehouseSafely == WarehouseSpec => []WarehouseSound
<1>1. WarehouseInv => WarehouseSound
  BY DailySafe, RawSafe, CorrectionSafe, ReportsSafe, IncidentsSafe DEF WarehouseInv, WarehouseSound
<1> QED BY <1>1, WarehouseInitially, WarehouseInductive, PTL DEF WarehouseSpec

\* fct_trip.sql, matcher_historical_correction.py and the health report store: no step
\* takes back a completed trip but a run of the following date, deletes a refresh that is
\* on its way to success, changes a report once it exists, or puts an older history in
\* the place of a newer one.
THEOREM NothingTakenBack == WarehouseSpec => NothingUndone
<1>1. WarehouseInv /\ [WarehouseNext]_vars => (which = "daily" => W!Kept)
  <2> SUFFICES ASSUME WarehouseInv, [WarehouseNext]_vars, which = "daily" PROVE W!Kept OBVIOUS
  <2>1. W!DailyInv BY DEF WarehouseInv
  <2>2. W!Next \/ UNCHANGED v6 BY DEF WarehouseNext, vars
  <2> QED BY <2>1, <2>2, KeptStands
<1>2. WarehouseInv /\ [WarehouseNext]_vars => (which = "correction" => Y!RefreshStands)
  <2> SUFFICES ASSUME WarehouseInv, [WarehouseNext]_vars, which = "correction" PROVE Y!RefreshStands OBVIOUS
  <2>1. Y!CorrectionInv BY DEF WarehouseInv
  <2>2. Y!Next \/ UNCHANGED Y!vars BY DEF WarehouseNext, vars, Y!vars
  <2> QED BY <2>1, <2>2, RefreshKept
<1>3. WarehouseInv /\ [WarehouseNext]_vars => (which = "reports" => H!FrozenStands /\ H!HistoryForward)
  <2> SUFFICES ASSUME WarehouseInv, [WarehouseNext]_vars, which = "reports" PROVE H!FrozenStands /\ H!HistoryForward OBVIOUS
  <2>1. H!ReportsInv BY DEF WarehouseInv
  <2>2. H!Next \/ UNCHANGED H!vars BY DEF WarehouseNext, vars, H!vars
  <2> QED BY <2>1, <2>2, ReportsFrozen
<1> QED BY <1>1, <1>2, <1>3, WarehouseInitially, WarehouseInductive, PTL DEF WarehouseSpec, NothingUndone
====================================================================================
