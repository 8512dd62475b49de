---------------------------- MODULE SearchProofs ----------------------------
(***************************************************************************)
(* Whatever is searched and however it is paged, the pages are cut from    *)
(* one ranking; and however an index is cut into segments, it answers as   *)
(* one segment would.                                                      *)
(***************************************************************************)
EXTENDS TopHits, SegmentedIndex, OrderedLists

-----------------------------------------------------------------------------
(* Lists in order and cuts of sequences.                                   *)

(* InOrder lists a finite set in any strict order.                         *)
LEMMA InOrderLists ==
  ASSUME NEW S, IsFiniteSet(S), NEW R, StrictOrder(R, S)
  PROVE  Lists(InOrder(S, R), Cardinality(S), S, R)
<1> DEFINE n == Cardinality(S)
           Below(x) == Cardinality({y \in S : <<y, x>> \in R})
           q == InOrder(S, R)
<1>1. PICK r : Lists(r, n, S, R)
  BY ListExists
<1>2. n \in Nat /\ r \in [1 .. n -> S]
  BY <1>1 DEF Lists, Rises
<1>3. ASSUME NEW i \in 1 .. n
      PROVE  Below(r[i]) = i - 1
  BY <1>1, MembersBefore
<1>4. ASSUME NEW i \in 1 .. n, NEW x \in S, Below(x) = i - 1
      PROVE  x = r[i]
  <2>1. PICK j \in 1 .. n : r[j] = x
    BY <1>1 DEF Lists
  <2>2. Below(r[j]) = j - 1
    BY <1>3
  <2>3. j - 1 = i - 1
    BY <1>4, <2>1, <2>2
  <2>4. j = i
    BY <1>2, <2>3
  <2> QED
    BY <2>1, <2>4
<1>5. q = [i \in 1 .. n |-> CHOOSE x \in S : Below(x) = i - 1]
  BY DEF InOrder
<1> HIDE DEF Below, q
<1>6. ASSUME NEW i \in 1 .. n
      PROVE  q[i] = r[i]
  <2>1. r[i] \in S /\ Below(r[i]) = i - 1
    BY <1>2, <1>3
  <2>2. (CHOOSE x \in S : Below(x) = i - 1) \in S /\ Below(CHOOSE x \in S : Below(x) = i - 1) = i - 1
    BY <2>1
  <2>3. (CHOOSE x \in S : Below(x) = i - 1) = r[i]
    BY <1>4, <2>2
  <2> QED
    BY <1>5, <2>3
<1>7. q = r
  BY <1>2, <1>5, <1>6
<1> QED
  BY <1>1, <1>7 DEF q

AtMost(c, n) == IF c > n THEN n ELSE c

(* f from its a-th on, up to the b-th; and how much more there is up to c. *)
CutOf(f, a, b) == SubSeq(f, a + 1, AtMost(b, Len(f)))
MoreOf(f, b, c) == IF b < AtMost(c, Len(f)) THEN AtMost(c, Len(f)) - b ELSE 0

(* What comes next in f, put after a cut of f, makes the cut longer.       *)
LEMMA CutMore ==
  ASSUME NEW S, NEW f \in Seq(S), NEW a \in Nat, NEW b \in Nat, NEW c \in Nat,
         a <= b, b <= c, NEW q \in Seq(S),
         Len(q) = MoreOf(f, b, c), \A i \in 1 .. Len(q) : q[i] = f[b + i]
  PROVE  CutOf(f, a, b) \o q = CutOf(f, a, c)
<1> DEFINE n == Len(f)
           m == AtMost(b, n)
           l == AtMost(c, n)
           s == SubSeq(f, a + 1, m)
           t == SubSeq(f, a + 1, l)
<1>1. n \in Nat /\ m \in Nat /\ l \in Nat /\ m <= l /\ l <= n /\ m <= b /\ Len(q) \in Nat
  BY DEF AtMost
<1>2. \A i \in 1 .. n : f[i] \in S
  OBVIOUS
<1>2a. b < l => m = b
  BY <1>1 DEF AtMost
<1>2b. ~(b < l) => m = l
  BY <1>1 DEF AtMost
<1> HIDE DEF m, l, n
<1>3. /\ s \in Seq(S) /\ Len(s) = IF a + 1 <= m THEN m - (a + 1) + 1 ELSE 0
      /\ \A i \in 1 .. (m - (a + 1) + 1) : s[i] = f[(a + 1) + i - 1]
  <2>1. \A i \in (a + 1) .. m : f[i] \in S
    BY <1>1, <1>2
  <2> QED
    BY <1>1, <2>1, SubSeqProperties
<1>4. /\ t \in Seq(S) /\ Len(t) = IF a + 1 <= l THEN l - (a + 1) + 1 ELSE 0
      /\ \A i \in 1 .. (l - (a + 1) + 1) : t[i] = f[(a + 1) + i - 1]
  <2>1. \A i \in (a + 1) .. l : f[i] \in S
    BY <1>1, <1>2
  <2> QED
    BY <1>1, <2>1, SubSeqProperties
<1> HIDE DEF s, t
<1>5. /\ s \o q \in Seq(S) /\ Len(s \o q) = Len(s) + Len(q)
      /\ \A i \in 1 .. (Len(s) + Len(q)) : (s \o q)[i] = IF i <= Len(s) THEN s[i] ELSE q[i - Len(s)]
  BY <1>3, ConcatProperties
<1>6. Len(q) = IF b < l THEN l - b ELSE 0
  BY DEF l, n, MoreOf
<1>7. Len(s \o q) = Len(t)
  <2>1. Len(s \o q) = Len(s) + Len(q)
    BY <1>5
  <2>2. Len(s) = IF a < m THEN m - a ELSE 0
    BY <1>1, <1>3
  <2>3. Len(t) = IF a < l THEN l - a ELSE 0
    BY <1>1, <1>4
  <2> DEFINE ls == Len(s)
             lt == Len(t)
             lq == Len(q)
             both == Len(s \o q)
  <2> HIDE DEF ls, lt, lq, both
  <2>3a. both = ls + lq /\ ls = (IF a < m THEN m - a ELSE 0) /\ lt = (IF a < l THEN l - a ELSE 0)
         /\ lq = (IF b < l THEN l - b ELSE 0)
    BY <1>6, <2>1, <2>2, <2>3 DEF ls, lt, lq, both
  <2>4. CASE b < l
    <3>1. both = lt
      BY <1>1, <1>2a, <2>3a, <2>4
    <3> QED
      BY <3>1 DEF lt, both
  <2>5. CASE ~(b < l)
    <3>1. both = lt
      BY <1>1, <1>2b, <2>3a, <2>5
    <3> QED
      BY <3>1 DEF lt, both
  <2> QED
    BY <2>4, <2>5
<1>8. ASSUME NEW i \in 1 .. Len(t)
      PROVE  (s \o q)[i] = t[i]
  <2>1. t[i] = f[a + i] /\ i \in Nat /\ i <= l - a
    <3>1. i \in 1 .. (l - (a + 1) + 1) /\ (a + 1) + i - 1 = a + i
      BY <1>1, <1>4
    <3> QED
      BY <1>1, <1>4, <3>1
  <2>2. CASE i <= Len(s)
    <3>1. i \in 1 .. (m - (a + 1) + 1) /\ (a + 1) + i - 1 = a + i
      BY <1>1, <1>3, <2>1, <2>2
    <3>2. s[i] = f[a + i]
      BY <1>3, <3>1
    <3> QED
      BY <1>5, <1>7, <2>1, <2>2, <3>2
  <2>3. CASE ~(i <= Len(s))
    <3>1. b < l /\ m = b /\ Len(s) = b - a
      BY <1>1, <1>2a, <1>2b, <1>3, <1>4, <2>1, <2>3
    <3>2. Len(q) = l - b
      BY <1>6, <3>1
    <3>3. i - Len(s) \in 1 .. Len(q) /\ b + (i - Len(s)) = a + i
      BY <1>1, <2>1, <2>3, <3>1, <3>2
    <3>4. q[i - Len(s)] = f[a + i]
      BY <3>3
    <3> QED
      BY <1>5, <1>7, <2>1, <2>3, <3>4
  <2> QED
    BY <2>2, <2>3
<1>9. s \o q = t
  BY <1>4, <1>5, <1>7, <1>8, SeqEqual
<1> QED
  BY <1>9 DEF s, t, m, l, n, CutOf

-----------------------------------------------------------------------------
(* Sums, and where the segments begin.                                     *)

(* u has the sums of the first numbers of f, up to n.                      *)
IsSum(u, f, n) ==
  /\ u \in [0 .. n -> Nat]
  /\ u[0] = 0
  /\ \A k \in 1 .. n : u[k] = u[k - 1] + f[k]

LEMMA SumExists ==
  ASSUME NEW n \in Nat, NEW f, \A k \in 1 .. n : f[k] \in Nat
  PROVE  \E u : IsSum(u, f, n)
<1> DEFINE T == {m \in 0 .. n : \E u : IsSum(u, f, m)}
<1>1. 0 \in T
  <2>1. IsSum([k \in 0 .. 0 |-> 0], f, 0)
    BY DEF IsSum
  <2>2. 0 \in 0 .. n
    OBVIOUS
  <2> QED
    BY <2>1, <2>2
<1>2. ASSUME NEW m \in 0 .. (n - 1), m \in T
      PROVE  m + 1 \in T
  <2>1. PICK u : IsSum(u, f, m)
    BY <1>2
  <2> DEFINE v == [k \in 0 .. (m + 1) |-> IF k = m + 1 THEN u[m] + f[m + 1] ELSE u[k]]
  <2>2. u \in [0 .. m -> Nat] /\ f[m + 1] \in Nat /\ m \in Nat
    BY <2>1 DEF IsSum
  <2>3. v \in [0 .. (m + 1) -> Nat]
    BY <2>2
  <2>4. v[0] = 0
    BY <2>1, <2>2 DEF IsSum
  <2>5. ASSUME NEW k \in 1 .. (m + 1)
        PROVE  v[k] = v[k - 1] + f[k]
    <3>1. CASE k = m + 1
      <4>1. k - 1 = m /\ v[k] = u[m] + f[m + 1] /\ v[m] = u[m]
        BY <2>2, <3>1
      <4> QED
        BY <3>1, <4>1
    <3>2. CASE k # m + 1
      <4>1. k \in 1 .. m /\ v[k] = u[k] /\ v[k - 1] = u[k - 1]
        BY <2>2, <3>2
      <4> QED
        BY <2>1, <4>1 DEF IsSum
    <3> QED
      BY <3>1, <3>2
  <2> HIDE DEF v
  <2>6. IsSum(v, f, m + 1) /\ m + 1 \in 0 .. n
    BY <2>3, <2>4, <2>5 DEF IsSum
  <2> QED
    BY <2>6
<1>3. 0 .. n \subseteq T
  <2> HIDE DEF T
  <2> QED
    BY <1>1, <1>2, InductionUpTo
<1> QED
  BY <1>3

LEMMA SumUnique ==
  ASSUME NEW n \in Nat, NEW f, NEW u, IsSum(u, f, n), NEW m \in 0 .. n, NEW v, IsSum(v, f, m)
  PROVE  v[m] = u[m]
<1> DEFINE T == {k \in 0 .. m : v[k] = u[k]}
<1>1. 0 \in T
  BY DEF IsSum
<1>2. ASSUME NEW k \in 0 .. (m - 1), k \in T
      PROVE  k + 1 \in T
  <2>1. k + 1 \in 1 .. m /\ k + 1 \in 1 .. n /\ (k + 1) - 1 = k
    OBVIOUS
  <2>2. v[k + 1] = v[k] + f[k + 1] /\ u[k + 1] = u[k] + f[k + 1]
    BY <2>1 DEF IsSum
  <2> QED
    BY <1>2, <2>1, <2>2
<1>3. 0 .. m \subseteq T
  <2> HIDE DEF T
  <2> QED
    BY <1>1, <1>2, InductionUpTo
<1> QED
  BY <1>3

(* SumOf is such a sum.                                                    *)
LEMMA SumOfIs ==
  ASSUME NEW n \in Nat, NEW f, \A k \in 1 .. n : f[k] \in Nat
  PROVE  \E u : IsSum(u, f, n) /\ SumOf(f, n) = u[n]
<1> DEFINE Is(g) == g = [k \in 0 .. n |-> IF k = 0 THEN 0 ELSE g[k - 1] + f[k]]
           c == CHOOSE g : Is(g)
<1>1. PICK u : IsSum(u, f, n)
  BY SumExists
<1>2. Is(u)
  <2>1. u \in [0 .. n -> Nat] /\ u[0] = 0
    BY <1>1 DEF IsSum
  <2>2. ASSUME NEW k \in 0 .. n
        PROVE  u[k] = IF k = 0 THEN 0 ELSE u[k - 1] + f[k]
    <3>1. CASE k = 0
      BY <2>1, <3>1
    <3>2. CASE k # 0
      <4>1. k \in 1 .. n
        BY <3>2
      <4> QED
        BY <1>1, <3>2, <4>1 DEF IsSum
    <3> QED
      BY <3>1, <3>2
  <2> QED
    BY <2>1, <2>2
<1>3. Is(c)
  <2> HIDE DEF Is
  <2> QED
    BY <1>2
<1>4. SumOf(f, n) = c[n]
  BY DEF SumOf
<1> HIDE DEF c
<1> DEFINE T == {k \in 0 .. n : c[k] = u[k]}
<1>5. c[0] = 0 /\ \A k \in 1 .. n : c[k] = c[k - 1] + f[k]
  BY <1>3
<1>6. 0 \in T
  BY <1>1, <1>5 DEF IsSum
<1>7. ASSUME NEW k \in 0 .. (n - 1), k \in T
      PROVE  k + 1 \in T
  <2>1. k + 1 \in 1 .. n /\ (k + 1) - 1 = k
    OBVIOUS
  <2>2. c[k + 1] = c[k] + f[k + 1] /\ u[k + 1] = u[k] + f[k + 1]
    BY <1>1, <1>5, <2>1 DEF IsSum
  <2> QED
    BY <1>7, <2>1, <2>2
<1>8. 0 .. n \subseteq T
  <2> HIDE DEF T
  <2> QED
    BY <1>6, <1>7, InductionUpTo
<1>9. c[n] = u[n]
  BY <1>8
<1> QED
  BY <1>1, <1>4, <1>9

(* One number more.                                                        *)
LEMMA SumMore ==
  ASSUME NEW n \in Nat, NEW f, \A k \in 1 .. n : f[k] \in Nat
  PROVE  /\ SumOf(f, 0) = 0
         /\ \A k \in 0 .. n : SumOf(f, k) \in Nat
         /\ \A k \in 1 .. n : SumOf(f, k) = SumOf(f, k - 1) + f[k]
<1>1. PICK u : IsSum(u, f, n)
  BY SumExists
<1>2. ASSUME NEW m \in 0 .. n
      PROVE  SumOf(f, m) = u[m]
  <2>1. m \in Nat /\ \A k \in 1 .. m : f[k] \in Nat
    OBVIOUS
  <2>2. PICK v : IsSum(v, f, m) /\ SumOf(f, m) = v[m]
    BY <2>1, SumOfIs
  <2>3. v[m] = u[m]
    BY <1>1, <2>2, SumUnique
  <2> QED
    BY <2>2, <2>3
<1>3. SumOf(f, 0) = 0
  <2>1. 0 \in 0 .. n
    OBVIOUS
  <2> QED
    BY <1>1, <1>2, <2>1 DEF IsSum
<1>4. ASSUME NEW k \in 1 .. n
      PROVE  SumOf(f, k) = SumOf(f, k - 1) + f[k]
  <2>1. k \in 0 .. n /\ k - 1 \in 0 .. n
    OBVIOUS
  <2> QED
    BY <1>1, <1>2, <2>1 DEF IsSum
<1>5. \A k \in 0 .. n : SumOf(f, k) \in Nat
  BY <1>1, <1>2 DEF IsSum
<1> QED
  BY <1>3, <1>4, <1>5

LEMMA Segments ==
  ASSUME NEW ss, IsIndex(ss)
  PROVE  /\ Len(ss) \in Nat /\ DOMAIN ss = 1 .. Len(ss)
         /\ \A i \in 1 .. Len(ss) :
              IsSegment(ss[i]) /\ MaxDoc(ss[i]) \in Nat /\ LocalIds(ss[i]) = 0 .. (MaxDoc(ss[i]) - 1)
<1>1. Len(ss) \in Nat /\ DOMAIN ss = 1 .. Len(ss)
  BY DEF IsIndex
<1>2. ASSUME NEW i \in 1 .. Len(ss)
      PROVE  IsSegment(ss[i]) /\ MaxDoc(ss[i]) \in Nat /\ LocalIds(ss[i]) = 0 .. (MaxDoc(ss[i]) - 1)
  <2>1. IsSegment(ss[i])
    BY <1>1 DEF IsIndex
  <2>2. MaxDoc(ss[i]) \in Nat
    BY <2>1 DEF IsSegment, MaxDoc
  <2> QED
    BY <2>1, <2>2 DEF LocalIds
<1> QED
  BY <1>1, <1>2

(* Each segment begins where the one before it ends.                       *)
LEMMA Bases ==
  ASSUME NEW ss, IsIndex(ss)
  PROVE  /\ Base(ss, 1) = 0
         /\ \A i \in 1 .. (Len(ss) + 1) : Base(ss, i) \in Nat
         /\ \A i \in 1 .. Len(ss) : Base(ss, i + 1) = Base(ss, i) + MaxDoc(ss[i])
<1> DEFINE n == Len(ss)
           f == [j \in DOMAIN ss |-> MaxDoc(ss[j])]
<1>1. n \in Nat /\ \A k \in 1 .. n : f[k] = MaxDoc(ss[k]) /\ f[k] \in Nat
  BY Segments
<1>2. \A i : Base(ss, i) = SumOf(f, i - 1)
  BY DEF Base
<1> HIDE DEF f, n
<1>3. /\ SumOf(f, 0) = 0
      /\ \A k \in 0 .. n : SumOf(f, k) \in Nat
      /\ \A k \in 1 .. n : SumOf(f, k) = SumOf(f, k - 1) + f[k]
  BY <1>1, SumMore
<1>4. Base(ss, 1) = 0
  BY <1>2, <1>3
<1>5. ASSUME NEW i \in 1 .. (n + 1)
      PROVE  Base(ss, i) \in Nat
  <2>1. i - 1 \in 0 .. n
    BY <1>1
  <2> QED
    BY <1>2, <1>3, <2>1
<1>6. ASSUME NEW i \in 1 .. n
      PROVE  Base(ss, i + 1) = Base(ss, i) + MaxDoc(ss[i])
  <2>1. (i + 1) - 1 = i
    BY <1>1
  <2>2. Base(ss, i + 1) = SumOf(f, i)
    BY <1>2, <2>1
  <2> QED
    BY <1>1, <1>2, <1>3, <2>2
<1> QED
  BY <1>4, <1>5, <1>6 DEF n

LEMMA BasesRise ==
  ASSUME NEW ss, IsIndex(ss), NEW i \in 1 .. Len(ss), NEW j \in 1 .. (Len(ss) + 1), i < j
  PROVE  Base(ss, i) + MaxDoc(ss[i]) <= Base(ss, j)
<1> DEFINE n == Len(ss)
           b == Base(ss, i) + MaxDoc(ss[i])
           T == {k \in 0 .. (n - i) : b <= Base(ss, i + 1 + k)}
<1>1. n \in Nat /\ i \in 1 .. n /\ \A k \in 1 .. n : MaxDoc(ss[k]) \in Nat
  BY Segments
<1>2. /\ \A k \in 1 .. (n + 1) : Base(ss, k) \in Nat
      /\ \A k \in 1 .. n : Base(ss, k + 1) = Base(ss, k) + MaxDoc(ss[k])
  BY Bases
<1>3. b \in Nat /\ Base(ss, i + 1) = b
  BY <1>1, <1>2
<1> HIDE DEF n, b
<1>4. 0 \in T
  BY <1>1, <1>3
<1>5. ASSUME NEW k \in 0 .. ((n - i) - 1), k \in T
      PROVE  k + 1 \in T
  <2> DEFINE m == i + 1 + k
  <2>1. m \in 1 .. n /\ m \in 1 .. (n + 1) /\ m + 1 \in 1 .. (n + 1)
    BY <1>1
  <2>2. b <= Base(ss, m)
    BY <1>5
  <2>3. i + 1 + (k + 1) = m + 1
    BY <1>1
  <2> HIDE DEF m
  <2>4. Base(ss, m + 1) = Base(ss, m) + MaxDoc(ss[m])
    BY <1>2, <2>1
  <2>5. Base(ss, m) \in Nat /\ MaxDoc(ss[m]) \in Nat
    BY <1>1, <1>2, <2>1
  <2>6. b <= Base(ss, m + 1)
    BY <1>3, <2>2, <2>4, <2>5
  <2>7. k + 1 \in 0 .. (n - i)
    BY <1>1
  <2> QED
    BY <2>3, <2>6, <2>7
<1>6. n - i \in Nat
  BY <1>1
<1>7. 0 .. (n - i) \subseteq T
  <2> HIDE DEF T
  <2> QED
    BY <1>4, <1>5, <1>6, InductionUpTo
<1>8. j - i - 1 \in 0 .. (n - i) /\ i + 1 + (j - i - 1) = j
  BY <1>1 DEF n
<1>9. j - i - 1 \in T
  BY <1>7, <1>8
<1> QED
  BY <1>8, <1>9 DEF b

(* A document is located in its own segment only.                          *)
LEMMA Located ==
  ASSUME NEW ss, IsIndex(ss), NEW i \in 1 .. Len(ss), NEW d \in LocalIds(ss[i])
  PROVE  Locate(ss, Base(ss, i) + d) = {<<i, d>>}
<1> DEFINE n == Len(ss)
           id == Base(ss, i) + d
           Has(j) == id >= Base(ss, j) /\ id < Base(ss, j) + MaxDoc(ss[j])
<1>1. n \in Nat /\ DOMAIN ss = 1 .. n /\ \A k \in 1 .. n : MaxDoc(ss[k]) \in Nat
  BY Segments
<1>2. \A k \in 1 .. (n + 1) : Base(ss, k) \in Nat
  BY Bases
<1>3. d \in 0 .. (MaxDoc(ss[i]) - 1) /\ MaxDoc(ss[i]) \in Nat
  BY Segments
<1>4. \A k, l \in 1 .. n : k < l => Base(ss, k) + MaxDoc(ss[k]) <= Base(ss, l)
  <2> SUFFICES ASSUME NEW k \in 1 .. n, NEW l \in 1 .. n, k < l
               PROVE  Base(ss, k) + MaxDoc(ss[k]) <= Base(ss, l)
    OBVIOUS
  <2>1. l \in 1 .. (n + 1)
    BY <1>1
  <2> QED
    BY <2>1, BasesRise
<1>5. i \in 1 .. n /\ Base(ss, i) \in Nat
  BY <1>1, <1>2
<1> HIDE DEF n
<1>6. Has(i) /\ id - Base(ss, i) = d
  BY <1>3, <1>5
<1>7. ASSUME NEW j \in 1 .. n, Has(j)
      PROVE  j = i
  <2>1. Base(ss, j) \in Nat /\ MaxDoc(ss[j]) \in Nat
    BY <1>1, <1>2
  <2>2. ~(i < j)
    <3>1. i < j => Base(ss, i) + MaxDoc(ss[i]) <= Base(ss, j)
      BY <1>4, <1>5
    <3> QED
      BY <1>3, <1>5, <1>7, <2>1, <3>1
  <2>3. ~(j < i)
    <3>1. j < i => Base(ss, j) + MaxDoc(ss[j]) <= Base(ss, i)
      BY <1>4, <1>5
    <3> QED
      BY <1>3, <1>5, <1>7, <2>1, <3>1
  <2> QED
    BY <1>1, <1>5, <2>2, <2>3
<1>8. Locate(ss, id) = {<<j, id - Base(ss, j)>> : j \in {k \in 1 .. n : Has(k)}}
  BY <1>1 DEF Locate
<1> HIDE DEF Has
<1>9. {k \in 1 .. n : Has(k)} = {i}
  BY <1>5, <1>6, <1>7
<1>10. Locate(ss, id) = {<<i, id - Base(ss, i)>>}
  BY <1>8, <1>9
<1> QED
  BY <1>6, <1>10

(* Every id below the total is one of a segment, and none above it.        *)
LEMMA LocateFinds ==
  ASSUME NEW ss, IsIndex(ss), NEW id \in Nat
  PROVE  /\ TotalDocs(ss) \in Nat
         /\ id < TotalDocs(ss) => \E i \in 1 .. Len(ss) : \E d \in LocalIds(ss[i]) : id = Base(ss, i) + d
         /\ ~(id < TotalDocs(ss)) => Locate(ss, id) = {}
<1> DEFINE n == Len(ss)
           Found == \E i \in 1 .. n : \E d \in LocalIds(ss[i]) : id = Base(ss, i) + d
           T == {k \in 0 .. n : id < Base(ss, k + 1) => Found}
<1>1. /\ n \in Nat /\ DOMAIN ss = 1 .. n
      /\ \A k \in 1 .. n : MaxDoc(ss[k]) \in Nat /\ LocalIds(ss[k]) = 0 .. (MaxDoc(ss[k]) - 1)
  BY Segments
<1>2. /\ Base(ss, 1) = 0
      /\ \A k \in 1 .. (n + 1) : Base(ss, k) \in Nat
      /\ \A k \in 1 .. n : Base(ss, k + 1) = Base(ss, k) + MaxDoc(ss[k])
  BY Bases
<1>3. TotalDocs(ss) = Base(ss, n + 1) /\ n + 1 \in 1 .. (n + 1)
  BY <1>1 DEF TotalDocs
<1> HIDE DEF n
<1>4. 0 \in T
  BY <1>1, <1>2
<1>5. ASSUME NEW k \in 0 .. (n - 1), k \in T
      PROVE  k + 1 \in T
  <2> DEFINE m == k + 1
  <2>1. m \in 1 .. n /\ m \in 1 .. (n + 1) /\ m \in 0 .. n
    BY <1>1
  <2>2. id < Base(ss, m) => Found
    BY <1>5
  <2> HIDE DEF m, Found
  <2>3. Base(ss, m + 1) = Base(ss, m) + MaxDoc(ss[m]) /\ Base(ss, m) \in Nat /\ MaxDoc(ss[m]) \in Nat
    BY <1>1, <1>2, <2>1
  <2>4. ASSUME id < Base(ss, m + 1), ~(id < Base(ss, m))
        PROVE  Found
    <3>1. id - Base(ss, m) \in 0 .. (MaxDoc(ss[m]) - 1) /\ id = Base(ss, m) + (id - Base(ss, m))
      BY <2>3, <2>4
    <3>2. id - Base(ss, m) \in LocalIds(ss[m])
      BY <1>1, <2>1, <3>1
    <3> QED
      BY <2>1, <3>1, <3>2 DEF Found
  <2>5. m \in T
    BY <2>1, <2>2, <2>4
  <2> QED
    BY <2>5 DEF m
<1>6. 0 .. n \subseteq T
  <2> HIDE DEF T
  <2> QED
    BY <1>1, <1>4, <1>5, InductionUpTo
<1>7. n \in T
  BY <1>1, <1>6
<1>8. id < TotalDocs(ss) => Found
  BY <1>3, <1>7
<1>9. ASSUME ~(id < TotalDocs(ss))
      PROVE  Locate(ss, id) = {}
  <2>1. ASSUME NEW j \in 1 .. n
        PROVE  ~(id < Base(ss, j) + MaxDoc(ss[j]))
    <3>1. Base(ss, j) + MaxDoc(ss[j]) <= Base(ss, n + 1)
      <4>1. j < n + 1
        BY <1>1
      <4>2. n = Len(ss)
        BY DEF n
      <4> QED
        BY <1>3, <4>1, <4>2, BasesRise
    <3>2. Base(ss, j) \in Nat /\ MaxDoc(ss[j]) \in Nat /\ Base(ss, n + 1) \in Nat
      BY <1>1, <1>2, <1>3
    <3> QED
      BY <1>3, <1>9, <3>1, <3>2
  <2> QED
    BY <1>1, <2>1 DEF Locate
<1>10. TotalDocs(ss) \in Nat
  BY <1>2, <1>3
<1> QED
  BY <1>8, <1>9, <1>10 DEF n

(* In J every document of ss has its entry of L at its global id.          *)
AtGlobalIds(J, L, ss) ==
  \A i \in 1 .. Len(ss) : \A d \in LocalIds(ss[i]) : J[Base(ss, i) + d + 1] = L[i][d + 1]

(* Rows of the segments' lengths, joined one after another.                *)
LEMMA JoinedRows ==
  ASSUME NEW ss, IsIndex(ss), NEW E, NEW L \in Seq(Seq(E)), Len(L) = Len(ss),
         \A i \in 1 .. Len(ss) : Len(L[i]) = MaxDoc(ss[i])
  PROVE  /\ FlattenSeq(L) \in Seq(E)
         /\ Len(FlattenSeq(L)) = TotalDocs(ss)
         /\ AtGlobalIds(FlattenSeq(L), L, ss)
<1> DEFINE n == Len(ss)
           J == FlattenSeq(L)
           off == [k \in 1 .. n |-> Base(ss, k)]
           len == [k \in 1 .. n |-> MaxDoc(ss[k])]
<1>1. /\ n \in Nat
      /\ \A k \in 1 .. n : MaxDoc(ss[k]) \in Nat /\ LocalIds(ss[k]) = 0 .. (MaxDoc(ss[k]) - 1)
  BY Segments
<1>2. /\ Base(ss, 1) = 0
      /\ \A k \in 1 .. (n + 1) : Base(ss, k) \in Nat
      /\ \A k \in 1 .. n : Base(ss, k + 1) = Base(ss, k) + MaxDoc(ss[k])
  BY Bases
<1>3. TotalDocs(ss) = Base(ss, n + 1)
  BY DEF TotalDocs
<1>4. Len(L) = n /\ \A k \in 1 .. n : L[k] \in Seq(E) /\ Len(L[k]) = MaxDoc(ss[k])
  OBVIOUS
<1> HIDE DEF n
<1>5. CASE n = 0
  <2>1. L = <<>>
    BY <1>4, <1>5, EmptySeq
  <2>2. J = <<>>
    BY <2>1 DEF FlattenSeq
  <2>3. TotalDocs(ss) = 0
    BY <1>2, <1>3, <1>5
  <2>4. <<>> \in Seq(E) /\ Len(<<>>) = 0
    OBVIOUS
  <2> QED
    BY <1>5, <2>2, <2>3, <2>4 DEF n, AtGlobalIds
<1>6. CASE n # 0
  <2>1. PICK f : JoinOf(f, L, n, E) /\ J = f[n]
    BY <1>4, <1>6, FlattenJoins
  <2>2. StartsOf(off, len, n, 0)
    <3>1. off \in [1 .. n -> Nat]
      BY <1>1, <1>2
    <3>2. ASSUME NEW k \in 1 .. n
          PROVE  off[k] = IF k = 1 THEN 0 ELSE off[k - 1] + len[k - 1]
      <4>1. CASE k = 1
        BY <1>2, <4>1
      <4>2. CASE k # 1
        <5>1. k - 1 \in 1 .. n /\ (k - 1) + 1 = k
          BY <1>1, <4>2
        <5> QED
          BY <1>2, <4>2, <5>1
      <4> QED
        BY <4>1, <4>2
    <3> HIDE DEF off
    <3> QED
      BY <3>1, <3>2 DEF StartsOf
  <2>3. \A k \in 1 .. n : off[k] = Base(ss, k) /\ len[k] = MaxDoc(ss[k])
    OBVIOUS
  <2> HIDE DEF off, len
  <2>4. L \in [1 .. n -> Seq(E)]
    BY <1>4
  <2>5. \A k \in 1 .. n : Len(L[k]) = len[k]
    BY <1>4, <2>3
  <2>6. \A k \in 1 .. n :
          /\ 0 + Len(f[k]) = off[k] + len[k]
          /\ \A i \in 1 .. k : Within(L[i], f[k], off[i] - 0)
    BY <1>1, <2>1, <2>2, <2>4, <2>5, Layout
  <2>7. n \in 1 .. n /\ n \in 1 .. (n + 1)
    BY <1>1, <1>6
  <2>8. J \in Seq(E) /\ Len(J) \in Nat
    BY <2>1, <2>7 DEF JoinOf
  <2>9. Len(J) = TotalDocs(ss)
    <3>1. 0 + Len(J) = Base(ss, n) + MaxDoc(ss[n])
      BY <2>1, <2>3, <2>6, <2>7
    <3> QED
      BY <1>2, <1>3, <2>7, <2>8, <3>1
  <2>10. ASSUME NEW i \in 1 .. n, NEW d \in LocalIds(ss[i])
         PROVE  J[Base(ss, i) + d + 1] = L[i][d + 1]
    <3>1. Within(L[i], J, Base(ss, i) - 0)
      BY <2>1, <2>3, <2>6, <2>7
    <3>2. d + 1 \in 1 .. Len(L[i])
      BY <1>1, <1>4
    <3>3. Base(ss, i) \in Nat /\ Base(ss, i) - 0 + (d + 1) = Base(ss, i) + d + 1
      BY <1>1, <1>2
    <3> QED
      BY <3>1, <3>2, <3>3 DEF Within
  <2> QED
    BY <2>8, <2>9, <2>10 DEF n, AtGlobalIds
<1> QED
  BY <1>5, <1>6

-----------------------------------------------------------------------------
(* The value a document is sorted by, from its stored fields or its terms. *)

Value == Nat \cup {None}

LEMMA FieldTyped ==
  ASSUME NEW seg, IsSegment(seg), NEW f, NEW d \in LocalIds(seg)
  PROVE  Field(seg, f, d).terms \in Seq(Nat) /\ Field(seg, f, d).values \in Seq(Nat)
<1>1. Len(seg.docs) \in Nat /\ DOMAIN seg.docs = 1 .. Len(seg.docs)
  BY DEF IsSegment
<1>2. d + 1 \in DOMAIN seg.docs
  BY <1>1 DEF LocalIds, MaxDoc
<1>3. CASE f \in DOMAIN seg.docs[d + 1]
  BY <1>2, <1>3 DEF Field, IsSegment
<1>4. CASE f \notin DOMAIN seg.docs[d + 1]
  BY <1>4 DEF Field
<1> QED
  BY <1>3, <1>4

LEMMA SegStoredTyped ==
  ASSUME NEW seg, IsSegment(seg), NEW f, NEW d \in LocalIds(seg)
  PROVE  SegStoredValue(seg, d, f) \in Value
<1>1. Field(seg, f, d).values \in Seq(Nat)
  BY FieldTyped
<1>2. Field(seg, f, d).values # <<>> => Field(seg, f, d).values[1] \in Nat
  BY <1>1
<1> QED
  BY <1>2 DEF SegStoredValue, Value

LEMMA StoredValueAt ==
  ASSUME NEW ss, IsIndex(ss), NEW f
  PROVE  /\ \A i \in 1 .. Len(ss) : \A d \in LocalIds(ss[i]) :
              StoredValue(ss, Base(ss, i) + d, f) = SegStoredValue(ss[i], d, f)
         /\ \A id \in Nat : ~(id < TotalDocs(ss)) => StoredValue(ss, id, f) = None
<1>1. ASSUME NEW i \in 1 .. Len(ss), NEW d \in LocalIds(ss[i])
      PROVE  StoredValue(ss, Base(ss, i) + d, f) = SegStoredValue(ss[i], d, f)
  <2> DEFINE at == CHOOSE a \in Locate(ss, Base(ss, i) + d) : TRUE
  <2>1. Locate(ss, Base(ss, i) + d) = {<<i, d>>}
    BY Located
  <2>2. at = <<i, d>>
    BY <2>1
  <2>3. StoredValue(ss, Base(ss, i) + d, f) = SegStoredValue(ss[at[1]], at[2], f)
    BY <2>1 DEF StoredValue
  <2> HIDE DEF at
  <2>4. at[1] = i /\ at[2] = d
    BY <2>2
  <2> QED
    BY <2>3, <2>4
<1>2. ASSUME NEW id \in Nat, ~(id < TotalDocs(ss))
      PROVE  StoredValue(ss, id, f) = None
  BY <1>2, LocateFinds DEF StoredValue
<1> QED
  BY <1>1, <1>2

LEMMA StoredTyped ==
  ASSUME NEW ss, IsIndex(ss), NEW f, NEW id \in Nat
  PROVE  StoredValue(ss, id, f) \in Value
<1>1. CASE id < TotalDocs(ss)
  <2>1. PICK i \in 1 .. Len(ss) : \E d \in LocalIds(ss[i]) : id = Base(ss, i) + d
    BY <1>1, LocateFinds
  <2>2. PICK d \in LocalIds(ss[i]) : id = Base(ss, i) + d
    BY <2>1
  <2>3. IsSegment(ss[i])
    BY Segments
  <2> QED
    BY <2>2, <2>3, StoredValueAt, SegStoredTyped
<1>2. CASE ~(id < TotalDocs(ss))
  BY <1>2, StoredValueAt DEF Value
<1> QED
  BY <1>1, <1>2

LEMMA ToSetFinite ==
  ASSUME NEW E, NEW q \in Seq(E)
  PROVE  IsFiniteSet(ToSet(q)) /\ (ToSet(q) = {} <=> q = <<>>)
<1>1. Len(q) \in Nat /\ q \in [1 .. Len(q) -> E] /\ DOMAIN q = 1 .. Len(q)
  OBVIOUS
<1>2. q \in Surjection(1 .. Len(q), ToSet(q))
  <2>1. ToSet(q) = {q[k] : k \in 1 .. Len(q)}
    BY <1>1 DEF ToSet
  <2>2. q \in [1 .. Len(q) -> ToSet(q)] /\ \A t \in ToSet(q) : \E k \in 1 .. Len(q) : q[k] = t
    BY <1>1, <2>1
  <2> QED
    BY <2>2 DEF Surjection
<1>3. IsFiniteSet(1 .. Len(q))
  BY <1>1, FS_Interval
<1>4. ToSet(q) = {} <=> q = <<>>
  <2>1. ASSUME q # <<>>
        PROVE  ToSet(q) # {}
    <3>1. 1 \in DOMAIN q
      BY <1>1, <2>1, EmptySeq
    <3> QED
      BY <3>1 DEF ToSet
  <2>2. ASSUME q = <<>>
        PROVE  ToSet(q) = {}
    BY <2>2 DEF ToSet
  <2> QED
    BY <2>1, <2>2
<1> QED
  BY <1>2, <1>3, <1>4, FS_Surjection

(* The table of a segment has the values that are stored.                  *)
LEMMA SegTableIsStored ==
  ASSUME NEW seg, IsSegment(seg), NEW f, IsKeyword(seg, f), SegNumericSortValues(seg, f) # <<>>
  PROVE  LET t == SegNumericSortValues(seg, f)[1]
         IN  t \in [1 .. MaxDoc(seg) -> Value] /\ \A d \in LocalIds(seg) : t[d + 1] = SegStoredValue(seg, d, f)
<1> DEFINE Ts(d) == ToSet(TermsAt(seg, f, d))
           V(d) == IF Ts(d) = {} THEN None ELSE CHOOSE t \in Ts(d) : TRUE
           known == f \in DOMAIN seg.infos
           q == SegNumericSortValues(seg, f)
<1>1. /\ ~(known /\ ~seg.infos[f])
      /\ \A d \in LocalIds(seg) : ~(Cardinality(Ts(d)) > 1)
      /\ q = <<[i \in 1 .. MaxDoc(seg) |-> V(i - 1)]>>
  BY DEF SegNumericSortValues
<1>2. q[1] = [i \in 1 .. MaxDoc(seg) |-> V(i - 1)]
  BY <1>1
<1>3. MaxDoc(seg) \in Nat /\ LocalIds(seg) = 0 .. (MaxDoc(seg) - 1)
  BY DEF IsSegment, MaxDoc, LocalIds
<1> HIDE DEF q, V
<1>4. ASSUME NEW d \in LocalIds(seg)
      PROVE  V(d) = SegStoredValue(seg, d, f)
  <2> DEFINE ts == Field(seg, f, d).terms
             vs == Field(seg, f, d).values
  <2>1. ts \in Seq(Nat) /\ vs \in Seq(Nat)
    BY FieldTyped
  <2> HIDE DEF ts, vs
  <2>2. CASE ~known
    <3>1. Ts(d) = {}
      BY <2>2 DEF TermsAt, ToSet
    <3> QED
      BY <2>2, <3>1 DEF SegStoredValue, V
  <2>3. CASE known
    <3>1. Ts(d) = ToSet(ts) /\ ToSet(ts) = ToSet(vs)
      BY <1>1, <2>3 DEF TermsAt, IsKeyword, ts, vs
    <3> HIDE DEF Ts
    <3>2. IsFiniteSet(Ts(d)) /\ ~(Cardinality(Ts(d)) > 1)
      BY <1>1, <2>1, <3>1, ToSetFinite DEF Ts
    <3>3. CASE Ts(d) = {}
      <4>1. vs = <<>>
        BY <2>1, <3>1, <3>3, ToSetFinite
      <4> QED
        BY <3>3, <4>1 DEF SegStoredValue, V, vs
    <3>4. CASE Ts(d) # {}
      <4>1. Cardinality(Ts(d)) = 1
        BY <3>2, <3>4, FS_EmptySet, FS_CardinalityType
      <4>2. PICK x : Ts(d) = {x}
        BY <3>2, <4>1, FS_Singleton
      <4>3. vs # <<>>
        BY <2>1, <3>1, <3>4, ToSetFinite
      <4>4. vs[1] = x
        <5>1. 1 \in DOMAIN vs
          BY <2>1, <4>3, EmptySeq
        <5>2. vs[1] \in ToSet(vs)
          BY <5>1 DEF ToSet
        <5> QED
          BY <3>1, <4>2, <5>2
      <4>5. V(d) = x
        BY <4>2 DEF V
      <4> QED
        BY <2>3, <4>3, <4>4, <4>5 DEF SegStoredValue, vs
    <3> QED
      BY <3>3, <3>4
  <2> QED
    BY <2>2, <2>3
<1>5. ASSUME NEW d \in LocalIds(seg)
      PROVE  q[1][d + 1] = SegStoredValue(seg, d, f)
  <2>1. d + 1 \in 1 .. MaxDoc(seg) /\ (d + 1) - 1 = d
    BY <1>3
  <2> QED
    BY <1>2, <1>4, <2>1
<1>6. q[1] \in [1 .. MaxDoc(seg) -> Value]
  <2>1. ASSUME NEW i \in 1 .. MaxDoc(seg)
        PROVE  V(i - 1) \in Value
    <3>1. i - 1 \in LocalIds(seg)
      BY <1>3
    <3> QED
      BY <1>4, <3>1, SegStoredTyped
  <2> QED
    BY <1>2, <2>1
<1> QED
  BY <1>5, <1>6 DEF q

(* So has the table of the whole index, for every id.                      *)
LEMMA TableIsStored ==
  ASSUME NEW ss, IsIndex(ss), NEW f, \A i \in 1 .. Len(ss) : IsKeyword(ss[i], f),
         NumericSortValues(ss, f) # <<>>, NEW id \in Nat
  PROVE  LET t == NumericSortValues(ss, f)[1]
         IN  (IF id < Len(t) THEN t[id + 1] ELSE None) = StoredValue(ss, id, f)
<1> DEFINE tables == [i \in DOMAIN ss |-> SegNumericSortValues(ss[i], f)]
           L == [i \in DOMAIN ss |-> tables[i][1]]
           t == NumericSortValues(ss, f)[1]
<1>1. Len(ss) \in Nat /\ DOMAIN ss = 1 .. Len(ss) /\ \A i \in 1 .. Len(ss) : IsSegment(ss[i]) /\ MaxDoc(ss[i]) \in Nat
  BY Segments
<1>2. ~(\E i \in DOMAIN ss : tables[i] = <<>>) /\ NumericSortValues(ss, f) = <<FlattenSeq(L)>>
  BY DEF NumericSortValues
<1>3. t = FlattenSeq(L)
  BY <1>2
<1>4. ASSUME NEW i \in 1 .. Len(ss)
      PROVE  /\ L[i] \in [1 .. MaxDoc(ss[i]) -> Value]
             /\ \A d \in LocalIds(ss[i]) : L[i][d + 1] = SegStoredValue(ss[i], d, f)
  <2>1. SegNumericSortValues(ss[i], f) # <<>> /\ L[i] = SegNumericSortValues(ss[i], f)[1]
    BY <1>1, <1>2
  <2>2. IsSegment(ss[i]) /\ IsKeyword(ss[i], f)
    BY <1>1
  <2> QED
    BY <2>1, <2>2, SegTableIsStored
<1>5. ASSUME NEW i \in 1 .. Len(ss)
      PROVE  L[i] \in Seq(Value) /\ Len(L[i]) = MaxDoc(ss[i])
  <2>1. L[i] \in [1 .. MaxDoc(ss[i]) -> Value] /\ MaxDoc(ss[i]) \in Nat
    BY <1>1, <1>4
  <2> HIDE DEF L
  <2>2. L[i] \in Seq(Value)
    BY <2>1
  <2>3. DOMAIN L[i] = 1 .. MaxDoc(ss[i])
    BY <2>1
  <2> QED
    BY <2>1, <2>2, <2>3
<1>6. L \in Seq(Seq(Value)) /\ Len(L) = Len(ss)
  <2>1. L \in [1 .. Len(ss) -> Seq(Value)]
    BY <1>1, <1>5
  <2> HIDE DEF L
  <2> QED
    BY <1>1, <2>1
<1> HIDE DEF L, t
<1>7. /\ Len(t) = TotalDocs(ss)
      /\ \A i \in 1 .. Len(ss) : \A d \in LocalIds(ss[i]) : t[Base(ss, i) + d + 1] = L[i][d + 1]
  <2>1. \A i \in 1 .. Len(ss) : Len(L[i]) = MaxDoc(ss[i])
    BY <1>5
  <2>2. /\ Len(FlattenSeq(L)) = TotalDocs(ss)
        /\ AtGlobalIds(FlattenSeq(L), L, ss)
    BY <1>6, <2>1, JoinedRows
  <2> QED
    BY <1>3, <2>2 DEF AtGlobalIds
<1>8. CASE id < TotalDocs(ss)
  <2>1. PICK i \in 1 .. Len(ss) : \E d \in LocalIds(ss[i]) : id = Base(ss, i) + d
    BY <1>8, LocateFinds
  <2>2. PICK d \in LocalIds(ss[i]) : id = Base(ss, i) + d
    BY <2>1
  <2>3. t[id + 1] = SegStoredValue(ss[i], d, f)
    BY <1>4, <1>7, <2>2
  <2>4. StoredValue(ss, id, f) = SegStoredValue(ss[i], d, f)
    BY <2>2, StoredValueAt
  <2> QED
    BY <1>7, <1>8, <2>3, <2>4 DEF t
<1>9. CASE ~(id < TotalDocs(ss))
  <2>1. StoredValue(ss, id, f) = None
    BY <1>9, StoredValueAt
  <2> QED
    BY <1>7, <1>9, <2>1 DEF t
<1> QED
  BY <1>8, <1>9

-----------------------------------------------------------------------------
(* The order of the ranking.                                               *)

(* What every request has.                                                 *)
Served ==
  /\ IsIndex(segs) /\ IsScores(scored) /\ IsPaging(how)
  /\ how.sort # Relevance => \A i \in 1 .. Len(segs) : IsKeyword(segs[i], how.sort)

Lexicographic(a, b) ==
  \/ a[1] < b[1]
  \/ a[1] = b[1] /\ a[2] < b[2]
  \/ a[1] = b[1] /\ a[2] = b[2] /\ a[3] < b[3]
  \/ a[1] = b[1] /\ a[2] = b[2] /\ a[3] = b[3] /\ a[4] < b[4]

LEMMA LessIsLexicographic ==
  ASSUME NEW a, NEW b
  PROVE  Less(a, b) <=> Lexicographic(a, b)
<1>1. /\ \A j : j \notin 1 .. (1 - 1)
      /\ \A j : j \in 1 .. (2 - 1) <=> j = 1
      /\ \A j : j \in 1 .. (3 - 1) <=> j = 1 \/ j = 2
      /\ \A j : j \in 1 .. (4 - 1) <=> j = 1 \/ j = 2 \/ j = 3
      /\ \A k : k \in 1 .. 4 <=> k = 1 \/ k = 2 \/ k = 3 \/ k = 4
  OBVIOUS
<1>2. ASSUME NEW k \in 1 .. 4, a[k] < b[k], \A j \in 1 .. (k - 1) : a[j] = b[j]
      PROVE  Lexicographic(a, b)
  <2>1. CASE k = 1
    BY <1>2, <2>1 DEF Lexicographic
  <2>2. CASE k = 2
    BY <1>1, <1>2, <2>2 DEF Lexicographic
  <2>3. CASE k = 3
    BY <1>1, <1>2, <2>3 DEF Lexicographic
  <2>4. CASE k = 4
    BY <1>1, <1>2, <2>4 DEF Lexicographic
  <2> QED
    BY <1>1, <2>1, <2>2, <2>3, <2>4
<1>3. ASSUME Lexicographic(a, b)
      PROVE  Less(a, b)
  <2>1. CASE a[1] < b[1]
    BY <1>1, <2>1 DEF Less
  <2>2. CASE a[1] = b[1] /\ a[2] < b[2]
    BY <1>1, <2>2 DEF Less
  <2>3. CASE a[1] = b[1] /\ a[2] = b[2] /\ a[3] < b[3]
    BY <1>1, <2>3 DEF Less
  <2>4. CASE a[1] = b[1] /\ a[2] = b[2] /\ a[3] = b[3] /\ a[4] < b[4]
    BY <1>1, <2>4 DEF Less
  <2> QED
    BY <1>3, <2>1, <2>2, <2>3, <2>4 DEF Lexicographic
<1> QED
  BY <1>2, <1>3 DEF Less

(* The rank of a scored document.                                          *)
LEMMA RankTyped ==
  ASSUME Served, NEW id \in DOMAIN scored
  PROVE  /\ Rank(id)[1] \in Int /\ Rank(id)[2] \in Int
         /\ Rank(id)[3] = 0 - scored[id] /\ Rank(id)[4] = id
         /\ scored[id] \in Int /\ id \in Nat
         /\ StoredValue(segs, id, how.sort) \in Value
<1>1. scored[id] \in Int /\ id \in Nat /\ IsIndex(segs)
  BY DEF Served, IsScores
<1>2. StoredValue(segs, id, how.sort) \in Value
  BY <1>1, StoredTyped
<1>3. CASE how.sort = Relevance
  BY <1>1, <1>2, <1>3 DEF Rank
<1>4. CASE how.sort # Relevance
  <2>1. CASE StoredValue(segs, id, how.sort) = None
    BY <1>1, <1>2, <1>4, <2>1 DEF Rank
  <2>2. CASE StoredValue(segs, id, how.sort) # None
    <3>1. StoredValue(segs, id, how.sort) \in Nat
      BY <1>2, <2>2 DEF Value
    <3> QED
      BY <1>1, <1>2, <1>4, <2>2, <3>1 DEF Rank
  <2> QED
    BY <2>1, <2>2
<1> QED
  BY <1>3, <1>4

RankOrder == {p \in Matches \X Matches : Less(Rank(p[1]), Rank(p[2]))}

LEMMA InRankOrder ==
  ASSUME NEW a \in Matches, NEW b \in Matches
  PROVE  <<a, b>> \in RankOrder <=> Lexicographic(Rank(a), Rank(b))
BY LessIsLexicographic DEF RankOrder

LEMMA MatchesFinite ==
  ASSUME Served
  PROVE  /\ Matches \subseteq DOMAIN scored
         /\ IsFiniteSet(Matches) /\ Cardinality(Matches) \in Nat
         /\ MaxUsize \in Nat /\ Cardinality(Matches) <= MaxUsize
<1>1. Matches \subseteq DOMAIN scored /\ IsFiniteSet(DOMAIN scored) /\ Cardinality(DOMAIN scored) <= MaxUsize
  BY DEF Matches, Served, IsScores
<1>2. MaxUsize \in Nat
  BY RequestsAssumption
<1>3. IsFiniteSet(Matches) /\ Cardinality(Matches) <= Cardinality(DOMAIN scored)
  BY <1>1, FS_Subset
<1>4. Cardinality(Matches) \in Nat /\ Cardinality(DOMAIN scored) \in Nat
  BY <1>1, <1>3, FS_CardinalityType
<1> QED
  BY <1>1, <1>2, <1>3, <1>4

LEMMA RankOrders ==
  ASSUME Served
  PROVE  StrictOrder(RankOrder, Matches)
<1>1. Matches \subseteq DOMAIN scored
  BY MatchesFinite
<1>2. ASSUME NEW a \in Matches
      PROVE  /\ Rank(a)[1] \in Int /\ Rank(a)[2] \in Int /\ Rank(a)[3] \in Int
             /\ Rank(a)[4] = a /\ a \in Int
  BY <1>1, RankTyped
<1>3. ASSUME NEW a \in Matches
      PROVE  <<a, a>> \notin RankOrder
  <2>1. ~Lexicographic(Rank(a), Rank(a))
    BY <1>2 DEF Lexicographic
  <2> QED
    BY <2>1, InRankOrder
<1>4. ASSUME NEW a \in Matches, NEW b \in Matches, a # b
      PROVE  <<a, b>> \in RankOrder \/ <<b, a>> \in RankOrder
  <2>1. Lexicographic(Rank(a), Rank(b)) \/ Lexicographic(Rank(b), Rank(a))
    BY <1>2, <1>4 DEF Lexicographic
  <2> QED
    BY <2>1, InRankOrder
<1>5. ASSUME NEW a \in Matches, NEW b \in Matches, NEW c \in Matches,
             <<a, b>> \in RankOrder, <<b, c>> \in RankOrder
      PROVE  <<a, c>> \in RankOrder
  <2>1. Lexicographic(Rank(a), Rank(b)) /\ Lexicographic(Rank(b), Rank(c))
    BY <1>5, InRankOrder
  <2>2. Lexicographic(Rank(a), Rank(c))
    BY <1>2, <2>1 DEF Lexicographic
  <2> QED
    BY <2>2, InRankOrder
<1> QED
  BY <1>3, <1>4, <1>5 DEF StrictOrder

(* The full order lists the matches.                                       *)
LEMMA FullOrderLists ==
  ASSUME Served
  PROVE  /\ Lists(FullOrder, Cardinality(Matches), Matches, RankOrder)
         /\ FullOrder \in Seq(Matches) /\ Len(FullOrder) = Cardinality(Matches)
<1>1. Lists(FullOrder, Cardinality(Matches), Matches, RankOrder)
  <2>1. FullOrder = InOrder(Matches, RankOrder)
    BY DEF FullOrder, RankOrder
  <2> QED
    BY <2>1, MatchesFinite, RankOrders, InOrderLists
<1>2. FullOrder \in [1 .. Cardinality(Matches) -> Matches] /\ Cardinality(Matches) \in Nat
  BY <1>1 DEF Lists, Rises
<1>3. FullOrder \in Seq(Matches)
  BY <1>2
<1>4. DOMAIN FullOrder = 1 .. Cardinality(Matches)
  BY <1>2
<1> QED
  BY <1>1, <1>2, <1>3, <1>4

(* By relevance, and by a field with the stored values as keys, hits are   *)
(* compared as their ranks are.                                            *)
LEMMA ScoreIsRank ==
  ASSUME Served, how.sort = Relevance, NEW a \in Matches, NEW b \in Matches
  PROVE  ByScore([id |-> a, score |-> scored[a]], [id |-> b, score |-> scored[b]])
           <=> <<a, b>> \in RankOrder
<1>1. a \in DOMAIN scored /\ b \in DOMAIN scored
  BY MatchesFinite
<1>2. /\ scored[a] \in Int /\ scored[b] \in Int /\ a \in Nat /\ b \in Nat
      /\ Rank(a)[3] = 0 - scored[a] /\ Rank(b)[3] = 0 - scored[b] /\ Rank(a)[4] = a /\ Rank(b)[4] = b
  BY <1>1, RankTyped
<1>3. Rank(a)[1] = 0 /\ Rank(b)[1] = 0 /\ Rank(a)[2] = 0 /\ Rank(b)[2] = 0
  BY DEF Rank
<1>4. Lexicographic(Rank(a), Rank(b)) <=> scored[a] > scored[b] \/ (scored[a] = scored[b] /\ a < b)
  BY <1>2, <1>3 DEF Lexicographic
<1> QED
  BY <1>4, InRankOrder DEF ByScore

LEMMA EntryIsRank ==
  ASSUME Served, how.sort # Relevance, \A d \in DOMAIN scored : Key(d) = StoredValue(segs, d, how.sort),
         NEW a \in Matches, NEW b \in Matches
  PROVE  EntryBefore(Entry(a), Entry(b)) <=> <<a, b>> \in RankOrder
<1> DEFINE u == StoredValue(segs, a, how.sort)
           v == StoredValue(segs, b, how.sort)
           S == scored[a] > scored[b] \/ (scored[a] = scored[b] /\ a < b)
<1>1. a \in DOMAIN scored /\ b \in DOMAIN scored
  BY MatchesFinite
<1>2. /\ scored[a] \in Int /\ scored[b] \in Int /\ a \in Nat /\ b \in Nat
      /\ Rank(a)[3] = 0 - scored[a] /\ Rank(b)[3] = 0 - scored[b] /\ Rank(a)[4] = a /\ Rank(b)[4] = b
      /\ u \in Value /\ v \in Value
  BY <1>1, RankTyped
<1>3. /\ Rank(a)[1] = IF u = None THEN 1 ELSE 0
      /\ Rank(b)[1] = IF v = None THEN 1 ELSE 0
      /\ Rank(a)[2] = IF u = None THEN 0 ELSE IF how.ascending THEN u ELSE 0 - u
      /\ Rank(b)[2] = IF v = None THEN 0 ELSE IF how.ascending THEN v ELSE 0 - v
  BY DEF Rank
<1>4. EntryBefore(Entry(a), Entry(b)) <=>
        \/ u # None /\ v = None
        \/ u # None /\ v # None /\ IF how.ascending THEN u < v ELSE u > v
        \/ u = v /\ S
  <2>1. Entry(a).key = u /\ Entry(a).id = a /\ Entry(a).score = scored[a]
    BY <1>1 DEF Entry
  <2>2. Entry(b).key = v /\ Entry(b).id = b /\ Entry(b).score = scored[b]
    BY <1>1 DEF Entry
  <2> HIDE DEF u, v
  <2> QED
    BY <2>1, <2>2 DEF EntryBefore, Missing, KeyBefore, ByScore
<1> HIDE DEF u, v
<1>5. EntryBefore(Entry(a), Entry(b)) <=> Lexicographic(Rank(a), Rank(b))
  <2>1. CASE u = None
    BY <1>2, <1>3, <1>4, <2>1 DEF Lexicographic
  <2>2. CASE u # None
    <3>1. CASE v = None
      BY <1>2, <1>3, <1>4, <2>2, <3>1 DEF Lexicographic
    <3>2. CASE v # None
      <4>1. u \in Nat /\ v \in Nat
        BY <1>2, <2>2, <3>2 DEF Value
      <4>2. CASE how.ascending
        BY <1>2, <1>3, <1>4, <2>2, <3>2, <4>1, <4>2 DEF Lexicographic
      <4>3. CASE ~how.ascending
        BY <1>2, <1>3, <1>4, <2>2, <3>2, <4>1, <4>3 DEF Lexicographic
      <4> QED
        BY <4>2, <4>3
    <3> QED
      BY <3>1, <3>2
  <2> QED
    BY <2>1, <2>2
<1> QED
  BY <1>5, InRankOrder

(* The table, where there is one, has the stored values.                   *)
LEMMA KeysAreStored ==
  ASSUME Served, how.sort # Relevance,
         table = <<>> \/ table = NumericSortValues(segs, how.sort)
  PROVE  \A d \in DOMAIN scored : Key(d) = StoredValue(segs, d, how.sort)
<1> SUFFICES ASSUME NEW d \in DOMAIN scored
             PROVE  Key(d) = StoredValue(segs, d, how.sort)
  OBVIOUS
<1>1. CASE table = <<>>
  BY <1>1 DEF Key
<1>2. CASE table # <<>>
  <2>1. NumericSortValues(segs, how.sort) # <<>> /\ table = NumericSortValues(segs, how.sort)
    BY <1>2
  <2>2. d \in Nat /\ IsIndex(segs) /\ \A i \in 1 .. Len(segs) : IsKeyword(segs[i], how.sort)
    BY DEF Served, IsScores
  <2>3. (IF d < Len(table[1]) THEN table[1][d + 1] ELSE None) = StoredValue(segs, d, how.sort)
    BY <2>1, <2>2, TableIsStored
  <2> QED
    BY <1>2, <2>3 DEF Key
<1> QED
  BY <1>1, <1>2

-----------------------------------------------------------------------------
(* Hits in order, and the page that is cut from them.                      *)

(* The ids of hits.                                                        *)
Ids(page) == [i \in DOMAIN page |-> page[i].id]

(* Records of distinct ids are ordered as their ids are.                   *)
LEMMA IdsInOrder ==
  ASSUME NEW M, NEW R, StrictOrder(R, M), NEW H, H \subseteq M, IsFiniteSet(H),
         NEW e, NEW E, \A a \in H : e[a] \in E /\ e[a].id = a, \A x \in E : \E a \in H : x = e[a],
         NEW Q, \A a, b \in H : <<e[a], e[b]>> \in Q <=> <<a, b>> \in R
  PROVE  /\ Cardinality(E) = Cardinality(H)
         /\ InOrder(E, Q) \in Seq(E) /\ Len(InOrder(E, Q)) = Cardinality(H)
         /\ Lists(Ids(InOrder(E, Q)), Cardinality(H), H, R)
<1> DEFINE q == InOrder(E, Q)
           n == Cardinality(H)
           g == [i \in 1 .. n |-> q[i].id]
<1>1. IsFiniteSet(E) /\ Cardinality(E) = n
  <2> DEFINE h == [a \in H |-> e[a]]
  <2>1. h \in Bijection(H, E)
    <3>1. h \in [H -> E] /\ \A x \in E : \E a \in H : h[a] = x
      OBVIOUS
    <3>2. \A a, b \in H : h[a] = h[b] => a = b
      OBVIOUS
    <3> QED
      BY <3>1, <3>2 DEF Bijection, Injection, Surjection, IsInjective
  <2> HIDE DEF h
  <2> QED
    BY <2>1, FS_Bijection DEF ExistsBijection
<1>2. StrictOrder(Q, E)
  <2>1. ASSUME NEW x \in E
        PROVE  <<x, x>> \notin Q
    <3>1. PICK a \in H : x = e[a]
      OBVIOUS
    <3> QED
      BY <3>1 DEF StrictOrder
  <2>2. ASSUME NEW x \in E, NEW y \in E, x # y
        PROVE  <<x, y>> \in Q \/ <<y, x>> \in Q
    <3>1. PICK a \in H : x = e[a]
      OBVIOUS
    <3>2. PICK b \in H : y = e[b]
      OBVIOUS
    <3>3. <<a, b>> \in R \/ <<b, a>> \in R
      BY <2>2, <3>1, <3>2 DEF StrictOrder
    <3> QED
      BY <3>1, <3>2, <3>3
  <2>3. ASSUME NEW x \in E, NEW y \in E, NEW z \in E, <<x, y>> \in Q, <<y, z>> \in Q
        PROVE  <<x, z>> \in Q
    <3>1. PICK a \in H : x = e[a]
      OBVIOUS
    <3>2. PICK b \in H : y = e[b]
      OBVIOUS
    <3>3. PICK c \in H : z = e[c]
      OBVIOUS
    <3>4. <<a, c>> \in R
      BY <2>3, <3>1, <3>2, <3>3 DEF StrictOrder
    <3> QED
      BY <3>1, <3>3, <3>4
  <2> QED
    BY <2>1, <2>2, <2>3 DEF StrictOrder
<1>3. Lists(q, n, E, Q)
  <2> HIDE DEF n
  <2> QED
    BY <1>1, <1>2, InOrderLists
<1> HIDE DEF q
<1>4. n \in Nat /\ q \in [1 .. n -> E] /\ \A i, j \in 1 .. n : i < j => <<q[i], q[j]>> \in Q
  BY <1>3 DEF Lists, Rises
<1>5. ASSUME NEW i \in 1 .. n
      PROVE  g[i] \in H /\ q[i] = e[g[i]]
  <2>1. PICK a \in H : q[i] = e[a]
    BY <1>4
  <2> QED
    BY <2>1
<1>6. ASSUME NEW a \in H
      PROVE  \E i \in 1 .. n : g[i] = a
  <2>1. e[a] \in E
    OBVIOUS
  <2>2. PICK i \in 1 .. n : q[i] = e[a]
    BY <1>3, <2>1 DEF Lists
  <2> QED
    BY <2>2
<1>7. g \in [1 .. n -> H]
  BY <1>5
<1>7a. Ids(q) = g
  BY <1>4 DEF Ids
<1> HIDE DEF g, n
<1>8. ASSUME NEW i \in 1 .. n, NEW j \in 1 .. n, i < j
      PROVE  <<g[i], g[j]>> \in R
  <2>1. <<q[i], q[j]>> \in Q
    BY <1>4, <1>8
  <2>2. q[i] = e[g[i]] /\ q[j] = e[g[j]] /\ g[i] \in H /\ g[j] \in H
    BY <1>5
  <2> QED
    BY <2>1, <2>2
<1>9. Lists(g, n, H, R)
  BY <1>4, <1>6, <1>7, <1>8 DEF Lists, Rises
<1>10. q \in Seq(E)
  BY <1>4
<1>11. DOMAIN q = 1 .. n
  BY <1>4
<1>12. Len(q) = n
  BY <1>4, <1>10, <1>11
<1> QED
  BY <1>1, <1>7a, <1>9, <1>10, <1>12 DEF q, n

LEMMA NeedIs ==
  ASSUME NEW off \in Nat, NEW limit \in Nat
  PROVE  Need(off, limit) \in Nat /\ Need(off, limit) = AtMost(off + limit, MaxUsize)
BY RequestsAssumption DEF Need, AtMost

(* A page is cut from the first of the ranking, when enough are kept.      *)
LEMMA PageOf ==
  ASSUME NEW A, NEW q \in Seq(A), NEW M, NEW f \in Seq(M), Len(q) <= Len(f), Len(f) <= MaxUsize,
         NEW off \in Nat, NEW limit \in Nat,
         Len(q) = Len(f) \/ Len(q) = Need(off, limit),
         \A i \in 1 .. Len(q) : q[i].id = f[i]
  PROVE  /\ Ids(Slice(q, off, limit)) \in Seq(M)
         /\ Len(Ids(Slice(q, off, limit))) = MoreOf(f, off, off + limit)
         /\ \A i \in 1 .. Len(Ids(Slice(q, off, limit))) : Ids(Slice(q, off, limit))[i] = f[off + i]
<1> DEFINE n == Len(f)
           k == Len(q)
           need == Need(off, limit)
           last == IF need > k THEN k ELSE need
           l == AtMost(off + limit, n)
           page == Slice(q, off, limit)
           m == IF off < l THEN l - off ELSE 0
           ids == Ids(page)
<1>1. n \in Nat /\ k \in Nat /\ k <= n /\ n <= MaxUsize /\ MaxUsize \in Nat /\ (k = n \/ k = need)
  BY RequestsAssumption
<1>2. need \in Nat /\ need = IF off + limit > MaxUsize THEN MaxUsize ELSE off + limit
  BY NeedIs DEF Need
<1>3. page = SubSeq(q, off + 1, last)
  BY DEF Slice
<1>4. \A i \in 1 .. n : f[i] \in M
  OBVIOUS
<1>5. \A i \in 1 .. k : q[i] \in A
  OBVIOUS
<1> HIDE DEF n, k, need
<1>6. last = l /\ l \in Nat /\ l <= k
  BY <1>1, <1>2 DEF AtMost
<1> HIDE DEF last, l
<1>7. /\ page \in Seq(A) /\ Len(page) = IF off + 1 <= l THEN l - (off + 1) + 1 ELSE 0
      /\ \A i \in 1 .. (l - (off + 1) + 1) : page[i] = q[(off + 1) + i - 1]
  <2>1. \A i \in (off + 1) .. l : q[i] \in A
    BY <1>1, <1>5, <1>6
  <2> QED
    BY <1>3, <1>6, <2>1, SubSeqProperties
<1> HIDE DEF page
<1>8. Len(page) = m /\ m \in Nat /\ DOMAIN page = 1 .. m
  BY <1>6, <1>7
<1>9. ASSUME NEW i \in 1 .. m
      PROVE  ids[i] = f[off + i] /\ ids[i] \in M
  <2>1. i \in 1 .. (l - (off + 1) + 1) /\ (off + 1) + i - 1 = off + i /\ off + i \in 1 .. k /\ off + i \in 1 .. n
    BY <1>1, <1>6
  <2>2. page[i] = q[off + i]
    BY <1>7, <2>1
  <2>3. q[off + i].id = f[off + i]
    BY <2>1 DEF k
  <2>4. f[off + i] \in M
    BY <1>4, <2>1
  <2> QED
    BY <1>8, <2>2, <2>3, <2>4 DEF Ids
<1>10. ids \in [1 .. m -> M]
  BY <1>8, <1>9 DEF Ids
<1> HIDE DEF ids, m
<1>11. ids \in Seq(M)
  BY <1>8, <1>10
<1>12. DOMAIN ids = 1 .. m
  BY <1>10
<1>13. Len(ids) = m
  BY <1>8, <1>11, <1>12
<1> QED
  BY <1>9, <1>11, <1>13 DEF ids, m, l, n, page, MoreOf

-----------------------------------------------------------------------------
(* The bounded heap.                                                       *)

(* kept are the best of seen, as many as are needed.                       *)
TheBest(kept, seen, need, Q) ==
  /\ kept \subseteq seen
  /\ \A a \in kept, b \in seen \ kept : <<a, b>> \in Q
  /\ seen # kept => Cardinality(kept) = need
  /\ Cardinality(kept) <= need

(* They stay the best when one more is offered.                            *)
LEMMA KeepsTheBest ==
  ASSUME NEW A, IsFiniteSet(A), NEW Q, StrictOrder(Q, A),
         NEW seen, seen \subseteq A, NEW kept, NEW need \in Nat, TheBest(kept, seen, need, Q),
         NEW e \in A, e \notin seen
  PROVE  /\ need = 0 => TheBest(kept, seen \cup {e}, need, Q)
         /\ Cardinality(kept) < need => TheBest(kept \cup {e}, seen \cup {e}, need, Q)
         /\ need # 0 /\ ~(Cardinality(kept) < need) =>
              \E w \in kept :
                /\ \A x \in kept \ {w} : <<x, w>> \in Q
                /\ \A v \in kept : (\A x \in kept \ {v} : <<x, v>> \in Q) => v = w
                /\ <<e, w>> \in Q => TheBest((kept \ {w}) \cup {e}, seen \cup {e}, need, Q)
                /\ <<e, w>> \notin Q => TheBest(kept, seen \cup {e}, need, Q)
<1>1. /\ kept \subseteq A /\ IsFiniteSet(kept) /\ e \notin kept
      /\ Cardinality(kept) \in Nat /\ Cardinality(kept) <= need
  BY FS_Subset, FS_CardinalityType DEF TheBest
<1>2. ASSUME need = 0
      PROVE  TheBest(kept, seen \cup {e}, need, Q)
  <2>1. kept = {}
    BY <1>1, <1>2, FS_EmptySet
  <2>2. Cardinality(kept) = need
    BY <1>1, <1>2
  <2> QED
    BY <1>1, <2>1, <2>2 DEF TheBest
<1>3. ASSUME Cardinality(kept) < need
      PROVE  TheBest(kept \cup {e}, seen \cup {e}, need, Q)
  <2>1. seen = kept
    BY <1>1, <1>3 DEF TheBest
  <2>2. Cardinality(kept \cup {e}) = Cardinality(kept) + 1
    BY <1>1, FS_AddElement
  <2> QED
    BY <1>1, <1>3, <2>1, <2>2 DEF TheBest
<1>4. ASSUME need # 0, ~(Cardinality(kept) < need)
      PROVE  \E w \in kept :
                /\ \A x \in kept \ {w} : <<x, w>> \in Q
                /\ \A v \in kept : (\A x \in kept \ {v} : <<x, v>> \in Q) => v = w
                /\ <<e, w>> \in Q => TheBest((kept \ {w}) \cup {e}, seen \cup {e}, need, Q)
                /\ <<e, w>> \notin Q => TheBest(kept, seen \cup {e}, need, Q)
  <2>1. Cardinality(kept) = need /\ kept # {}
    BY <1>1, <1>4, FS_EmptySet
  <2>2. StrictOrder(Q, kept)
    BY <1>1 DEF StrictOrder
  <2>3. PICK w \in kept : \A x \in kept \ {w} : <<x, w>> \in Q
    BY <1>1, <2>1, <2>2, GreatestMember
  <2>4. ASSUME NEW v \in kept, \A x \in kept \ {v} : <<x, v>> \in Q
        PROVE  v = w
    <3>1. v # w => <<v, w>> \in Q /\ <<w, v>> \in Q
      BY <2>3, <2>4
    <3> QED
      BY <2>2, <3>1 DEF StrictOrder
  <2>5. ASSUME <<e, w>> \in Q
        PROVE  TheBest((kept \ {w}) \cup {e}, seen \cup {e}, need, Q)
    <3> DEFINE new == (kept \ {w}) \cup {e}
    <3>1. Cardinality(new) = need
      <4>1. IsFiniteSet(kept \ {w}) /\ Cardinality(kept \ {w}) = Cardinality(kept) - 1
        BY <1>1, FS_RemoveElement
      <4>2. e \notin kept \ {w}
        BY <1>1
      <4>3. Cardinality(new) = Cardinality(kept \ {w}) + 1
        BY <4>1, <4>2, FS_AddElement
      <4> QED
        BY <1>1, <2>1, <4>1, <4>3
    <3>2. new \subseteq seen \cup {e}
      BY DEF TheBest
    <3>3. ASSUME NEW a \in new, NEW b \in (seen \cup {e}) \ new
          PROVE  <<a, b>> \in Q
      <4>1. b = w \/ (b \in seen \ kept /\ <<w, b>> \in Q)
        BY <3>3 DEF TheBest
      <4>2. a = e \/ (a \in kept /\ <<a, w>> \in Q)
        BY <2>3
      <4>3. <<a, w>> \in Q
        BY <2>5, <4>2
      <4>4. a \in A /\ w \in A /\ b \in A
        BY <1>1, <4>1, <4>2
      <4> QED
        BY <4>1, <4>3, <4>4 DEF StrictOrder
    <3> HIDE DEF new
    <3>4. TheBest(new, seen \cup {e}, need, Q)
      BY <3>1, <3>2, <3>3 DEF TheBest
    <3> QED
      BY <3>4 DEF new
  <2>6. ASSUME <<e, w>> \notin Q
        PROVE  TheBest(kept, seen \cup {e}, need, Q)
    <3>1. w # e /\ w \in A
      BY <1>1
    <3>2. <<w, e>> \in Q
      BY <2>6, <3>1 DEF StrictOrder
    <3>3. ASSUME NEW a \in kept
          PROVE  <<a, e>> \in Q
      <4>1. a \in A /\ (a = w \/ <<a, w>> \in Q)
        BY <1>1, <2>3
      <4> QED
        BY <3>1, <3>2, <4>1 DEF StrictOrder
    <3> QED
      BY <1>1, <2>1, <3>3 DEF TheBest
  <2> QED
    BY <2>3, <2>4, <2>5, <2>6
<1> QED
  BY <1>2, <1>3, <1>4

-----------------------------------------------------------------------------
(* The inductive invariant.                                                *)

(* The ranking from the client's first offset up to b.                     *)
Cut(b) == CutOf(FullOrder, how.offset, b)

Entries == {Entry(d) : d \in Matches}
EntryOrder == {p \in Entries \X Entries : EntryBefore(p[1], p[2])}
Walked == {Entry(d) : d \in Matches \ todo}

(* While the matches are walked, the heap has the best of those that were, *)
(* in the order of stored values, wherever the keys come from.             *)
Walking ==
  /\ how.sort # Relevance
  /\ todo \subseteq DOMAIN scored
  /\ table = <<>> \/ table = NumericSortValues(segs, how.sort)
  /\ count = Cardinality(Matches \ todo)
  /\ TheBest(heap, Walked, Need(offset, how.limit), EntryOrder)

HitsInvariant ==
  /\ Served
  /\ pc \in {"page", "walk", "shown"}
  /\ offset \in Nat /\ how.offset <= offset
  /\ pc # "shown" => shown = Cut(offset)
  /\ pc = "walk" => Walking
  /\ pc = "shown" => shown = Cut(offset + how.limit) /\ total = Capped(Len(FullOrder), how.cap)

LEMMA RequestServed ==
  ASSUME Init
  PROVE  Served
<1>1. PICK r \in Requests : segs \in r.indexes /\ scored \in r.scores /\ how \in r.how
  BY DEF Init
<1>2. IsScores(scored) /\ IsPaging(how)
  BY <1>1, RequestsAssumption
<1>3. IsIndex(segs) /\ \A i \in DOMAIN segs : how.sort # "relevance" => IsKeyword(segs[i], how.sort)
  BY <1>1, RequestsAssumption
<1>4. DOMAIN segs = 1 .. Len(segs)
  BY <1>3, Segments
<1> QED
  BY <1>2, <1>3, <1>4 DEF Served, Relevance

(* The requests stay as they are, so the ranking does.                     *)
LEMMA InputsStay ==
  ASSUME UNCHANGED <<segs, scored, how>>
  PROVE  /\ Served' <=> Served
         /\ Matches' = Matches /\ RankOrder' = RankOrder /\ FullOrder' = FullOrder
<1>1. segs' = segs /\ scored' = scored /\ how' = how
  OBVIOUS
<1>2. Served' <=> Served
  BY <1>1 DEF Served
<1>3. Matches' = Matches
  BY <1>1 DEF Matches, Reaches
<1>4. \A d : Rank(d)' = Rank(d)
  BY <1>1 DEF Rank
<1>5. RankOrder' = RankOrder
  BY <1>3, <1>4 DEF RankOrder
<1>6. FullOrder' = FullOrder
  BY <1>3, <1>4 DEF FullOrder
<1> QED
  BY <1>2, <1>3, <1>5, <1>6

LEMMA EntriesStay ==
  ASSUME UNCHANGED <<segs, scored, how, table>>
  PROVE  /\ Entries' = Entries /\ EntryOrder' = EntryOrder
         /\ \A d : Entry(d)' = Entry(d)
<1>1. segs' = segs /\ scored' = scored /\ how' = how /\ table' = table
  OBVIOUS
<1>2. \A d : Entry(d)' = Entry(d)
  BY <1>1 DEF Entry, Key
<1>3. Entries' = Entries
  <2>1. Matches' = Matches
    BY InputsStay
  <2> QED
    BY <1>2, <2>1 DEF Entries
<1>4. \A a, b : EntryBefore(a, b)' <=> EntryBefore(a, b)
  BY <1>1 DEF EntryBefore, Missing, KeyBefore, ByScore
<1>5. EntryOrder' = EntryOrder
  BY <1>3, <1>4 DEF EntryOrder
<1> QED
  BY <1>2, <1>3, <1>5

LEMMA EntriesOrdered ==
  ASSUME Served, Walking
  PROVE  /\ IsFiniteSet(Entries) /\ StrictOrder(EntryOrder, Entries)
         /\ \A a, b \in Matches : <<Entry(a), Entry(b)>> \in EntryOrder <=> <<a, b>> \in RankOrder
         /\ \A d : Entry(d).id = d
<1>1. \A d : Entry(d).id = d
  BY DEF Entry
<1>2. ASSUME NEW a \in Matches, NEW b \in Matches
      PROVE  <<Entry(a), Entry(b)>> \in EntryOrder <=> <<a, b>> \in RankOrder
  <2>1. EntryBefore(Entry(a), Entry(b)) <=> <<a, b>> \in RankOrder
    BY KeysAreStored, EntryIsRank DEF Walking
  <2>2. Entry(a) \in Entries /\ Entry(b) \in Entries
    BY DEF Entries
  <2> QED
    BY <2>1, <2>2 DEF EntryOrder
<1>3. IsFiniteSet(Entries)
  <2> DEFINE e == [d \in Matches |-> Entry(d)]
  <2>1. e \in Surjection(Matches, Entries)
    BY DEF Entries, Surjection
  <2> HIDE DEF e
  <2> QED
    BY <2>1, MatchesFinite, FS_Surjection
<1>4. StrictOrder(RankOrder, Matches)
  BY RankOrders
<1>5. ASSUME NEW x \in Entries
      PROVE  <<x, x>> \notin EntryOrder
  <2>1. PICK a \in Matches : x = Entry(a)
    BY DEF Entries
  <2> QED
    BY <1>2, <1>4, <2>1 DEF StrictOrder
<1>6. ASSUME NEW x \in Entries, NEW y \in Entries, x # y
      PROVE  <<x, y>> \in EntryOrder \/ <<y, x>> \in EntryOrder
  <2>1. PICK a \in Matches : x = Entry(a)
    BY DEF Entries
  <2>2. PICK b \in Matches : y = Entry(b)
    BY DEF Entries
  <2>3. <<a, b>> \in RankOrder \/ <<b, a>> \in RankOrder
    BY <1>4, <1>6, <2>1, <2>2 DEF StrictOrder
  <2> QED
    BY <1>2, <2>1, <2>2, <2>3
<1>7. ASSUME NEW x \in Entries, NEW y \in Entries, NEW z \in Entries,
             <<x, y>> \in EntryOrder, <<y, z>> \in EntryOrder
      PROVE  <<x, z>> \in EntryOrder
  <2>1. PICK a \in Matches : x = Entry(a)
    BY DEF Entries
  <2>2. PICK b \in Matches : y = Entry(b)
    BY DEF Entries
  <2>3. PICK c \in Matches : z = Entry(c)
    BY DEF Entries
  <2>4. <<a, b>> \in RankOrder /\ <<b, c>> \in RankOrder
    BY <1>2, <1>7, <2>1, <2>2, <2>3
  <2>5. <<a, c>> \in RankOrder
    BY <1>4, <2>4 DEF StrictOrder
  <2> QED
    BY <1>2, <2>1, <2>3, <2>5
<1> QED
  BY <1>1, <1>2, <1>3, <1>5, <1>6, <1>7 DEF StrictOrder

(* The next page goes on where the one before it ended.                    *)
LEMMA PageGoesOn ==
  ASSUME NEW A, NEW q \in Seq(A), NEW M, NEW f \in Seq(M), Len(q) <= Len(f), Len(f) <= MaxUsize,
         NEW off \in Nat, NEW limit \in Nat, NEW a \in Nat, a <= off,
         Len(q) = Len(f) \/ Len(q) = Need(off, limit),
         \A i \in 1 .. Len(q) : q[i].id = f[i]
  PROVE  CutOf(f, a, off) \o Ids(Slice(q, off, limit)) = CutOf(f, a, off + limit)
<1> DEFINE ids == Ids(Slice(q, off, limit))
           c == off + limit
<1>1. /\ ids \in Seq(M)
      /\ Len(ids) = MoreOf(f, off, c)
      /\ \A i \in 1 .. Len(ids) : ids[i] = f[off + i]
  BY PageOf
<1>2. c \in Nat /\ off <= c
  OBVIOUS
<1> HIDE DEF ids, c
<1>3. CutOf(f, a, off) \o ids = CutOf(f, a, c)
  BY SMTT(30), <1>1, <1>2, CutMore
<1> QED
  BY <1>3 DEF ids, c

LEMMA PageMore ==
  ASSUME Served, offset \in Nat, how.offset <= offset, shown = Cut(offset),
         NEW A, NEW q \in Seq(A), Len(q) <= Len(FullOrder),
         Len(q) = Len(FullOrder) \/ Len(q) = Need(offset, how.limit),
         \A i \in 1 .. Len(q) : q[i].id = FullOrder[i]
  PROVE  shown \o Ids(Slice(q, offset, how.limit)) = Cut(offset + how.limit)
<1>1. how.offset \in Nat /\ how.limit \in Nat
  BY RequestsAssumption DEF Served, IsPaging
<1>2. FullOrder \in Seq(Matches) /\ Len(FullOrder) <= MaxUsize
  BY FullOrderLists, MatchesFinite
<1> QED
  <2> DEFINE f == FullOrder
             a == how.offset
             limit == how.limit
             M == Matches
  <2>1. /\ q \in Seq(A) /\ f \in Seq(M) /\ Len(q) <= Len(f) /\ Len(f) <= MaxUsize
        /\ offset \in Nat /\ limit \in Nat /\ a \in Nat /\ a <= offset
        /\ Len(q) = Len(f) \/ Len(q) = Need(offset, limit)
        /\ \A i \in 1 .. Len(q) : q[i].id = f[i]
    BY <1>1, <1>2
  <2> HIDE DEF f, a, limit, M
  <2>2. CutOf(f, a, offset) \o Ids(Slice(q, offset, limit)) = CutOf(f, a, offset + limit)
    BY ONLY <2>1, PageGoesOn
  <2> QED
    BY <2>2 DEF Cut, f, a, limit

-----------------------------------------------------------------------------
(* One action after another.                                               *)

LEMMA InitHits ==
  ASSUME Init
  PROVE  HitsInvariant
<1>1. Served
  BY RequestServed
<1>2. pc = "page" /\ offset = how.offset /\ shown = <<>>
  BY DEF Init
<1>3. offset \in Nat /\ how.offset <= offset
  BY <1>1, <1>2, RequestsAssumption DEF Served, IsPaging
<1>4. shown = Cut(offset)
  <2> DEFINE f == FullOrder
             m == AtMost(offset, Len(f))
  <2>1. f \in Seq(Matches) /\ Len(f) \in Nat
    BY <1>1, FullOrderLists, MatchesFinite
  <2> HIDE DEF f
  <2>2. m \in Nat /\ ~(offset + 1 <= m)
    BY <1>3, <2>1 DEF AtMost
  <2> HIDE DEF m
  <2>3. \A i \in (offset + 1) .. m : f[i] \in Matches
    BY <1>3, <2>2
  <2>4. SubSeq(f, offset + 1, m) \in Seq(Matches) /\ Len(SubSeq(f, offset + 1, m)) = 0
    BY <1>3, <2>2, <2>3, SubSeqProperties
  <2>5. SubSeq(f, offset + 1, m) = <<>>
    BY <2>4, EmptySeq
  <2> QED
    BY <1>2, <2>5 DEF Cut, CutOf, f, m
<1> QED
  BY <1>1, <1>2, <1>3, <1>4 DEF HitsInvariant

(* A page that was cut right leaves the invariant as it is.                *)
LEMMA PageShown ==
  ASSUME HitsInvariant, UNCHANGED <<segs, scored, how, offset>>, pc' = "shown",
         shown' = Cut(offset + how.limit), total' = Capped(Len(FullOrder), how.cap)
  PROVE  HitsInvariant'
<1>1. segs' = segs /\ scored' = scored /\ how' = how /\ offset' = offset
  OBVIOUS
<1>2. Served' /\ FullOrder' = FullOrder
  BY InputsStay DEF HitsInvariant
<1>3. (Cut(offset + how.limit))' = Cut(offset + how.limit)
  BY <1>1, <1>2 DEF Cut
<1>4. offset' \in Nat /\ how'.offset <= offset'
  BY <1>1 DEF HitsInvariant
<1>5. Capped(Len(FullOrder), how.cap)' = Capped(Len(FullOrder), how.cap)
  BY <1>1, <1>2 DEF Capped
<1> QED
  BY <1>2, <1>3, <1>4, <1>5 DEF HitsInvariant

LEMMA PageByRelevanceKeeps ==
  ASSUME HitsInvariant, PageByRelevance
  PROVE  HitsInvariant'
<1> DEFINE e == [a \in Matches |-> [id |-> a, score |-> scored[a]]]
           ranked == {[id |-> id, score |-> scored[id]] : id \in Matches}
           Q == {p \in ranked \X ranked : ByScore(p[1], p[2])}
           sorted == InOrder(ranked, Q)
           need == Need(offset, how.limit)
           kept == Slice(sorted, 0, need)
           n == Len(FullOrder)
<1>1. /\ pc = "page" /\ how.sort = Relevance /\ pc' = "shown"
      /\ shown' = shown \o Ids(Slice(kept, offset, how.limit))
      /\ total' = Capped(Cardinality(ranked), how.cap)
      /\ UNCHANGED <<segs, scored, how, offset>>
  BY DEF PageByRelevance, Ids
<1>2. /\ Served /\ offset \in Nat /\ how.offset <= offset /\ shown = Cut(offset)
      /\ how.limit \in Nat
  BY <1>1, RequestsAssumption DEF HitsInvariant, Served, IsPaging
<1>3. /\ IsFiniteSet(Matches) /\ n = Cardinality(Matches) /\ n \in Nat /\ n <= MaxUsize /\ MaxUsize \in Nat
      /\ StrictOrder(RankOrder, Matches) /\ Lists(FullOrder, n, Matches, RankOrder)
  BY <1>2, MatchesFinite, FullOrderLists, RankOrders
<1>4. ranked = {e[a] : a \in Matches} /\ \A a \in Matches : e[a].id = a /\ e[a] \in ranked
  OBVIOUS
<1>5. ASSUME NEW a \in Matches, NEW b \in Matches
      PROVE  <<e[a], e[b]>> \in Q <=> <<a, b>> \in RankOrder
  <2>1. e[a] \in ranked /\ e[b] \in ranked
    BY <1>4
  <2>2. ByScore(e[a], e[b]) <=> <<a, b>> \in RankOrder
    BY <1>1, <1>2, ScoreIsRank
  <2> HIDE DEF e, ranked
  <2> QED
    BY <2>1, <2>2
<1> HIDE DEF e, Q, need, n, ranked
<1>6. /\ Cardinality(ranked) = n /\ sorted \in Seq(ranked) /\ Len(sorted) = n
      /\ Lists(Ids(sorted), n, Matches, RankOrder)
  <2>1. \A a \in Matches : e[a] \in ranked /\ e[a].id = a
    BY <1>4
  <2>2. \A a, b \in Matches : <<e[a], e[b]>> \in Q <=> <<a, b>> \in RankOrder
    BY <1>5
  <2>3. (\A x \in ranked : \E a \in Matches : x = e[a]) /\ n = Cardinality(Matches)
    BY <1>3, <1>4
  <2>4. sorted = InOrder(ranked, Q)
    OBVIOUS
  <2> HIDE DEF sorted
  <2>5. /\ StrictOrder(RankOrder, Matches) /\ Matches \subseteq Matches /\ IsFiniteSet(Matches)
    BY <1>3
  <2>5a. \A x \in ranked : \E a \in Matches : x = e[a]
    BY <2>3
  <2>6. /\ Cardinality(ranked) = Cardinality(Matches)
        /\ InOrder(ranked, Q) \in Seq(ranked) /\ Len(InOrder(ranked, Q)) = Cardinality(Matches)
        /\ Lists(Ids(InOrder(ranked, Q)), Cardinality(Matches), Matches, RankOrder)
    BY ONLY <2>1, <2>2, <2>5, <2>5a, IdsInOrder
  <2> QED
    BY <2>3, <2>4, <2>6
<1> HIDE DEF sorted
<1>7. ASSUME NEW i \in 1 .. n
      PROVE  sorted[i].id = FullOrder[i]
  <2>1. Ids(sorted) = FullOrder
    BY <1>3, <1>6, OneList
  <2>2. Ids(sorted)[i] = sorted[i].id
    BY <1>6 DEF Ids
  <2> QED
    BY <2>1, <2>2
<1>8. need \in Nat /\ need <= MaxUsize
  <2>1. need \in Nat /\ need = AtMost(offset + how.limit, MaxUsize)
    BY <1>2, NeedIs DEF need
  <2> QED
    BY <1>2, <1>3, <2>1 DEF AtMost
<1>9. kept = SubSeq(sorted, 1, AtMost(need, n))
  <2>1. Need(0, need) = need
    BY <1>3, <1>8 DEF Need
  <2>2. kept = SubSeq(sorted, 0 + 1, IF need > Len(sorted) THEN Len(sorted) ELSE need)
    BY <2>1 DEF Slice
  <2>3. (IF need > Len(sorted) THEN Len(sorted) ELSE need) = AtMost(need, n)
    BY <1>6 DEF AtMost
  <2>4. 0 + 1 = 1
    OBVIOUS
  <2> HIDE DEF kept
  <2> QED
    BY <2>2, <2>3, <2>4
<1>10. /\ kept \in Seq(ranked) /\ Len(kept) = AtMost(need, n)
       /\ \A i \in 1 .. Len(kept) : kept[i] = sorted[i]
  <2> DEFINE m == AtMost(need, n)
  <2>1. m \in Nat /\ m <= n
    BY <1>3, <1>8 DEF AtMost
  <2>2. \A i \in 1 .. m : sorted[i] \in ranked
    BY <1>3, <1>6, <2>1
  <2> HIDE DEF m, kept
  <2>3. /\ kept \in Seq(ranked) /\ Len(kept) = IF 1 <= m THEN m - 1 + 1 ELSE 0
        /\ \A i \in 1 .. (m - 1 + 1) : kept[i] = sorted[1 + i - 1]
    BY <1>9, <2>1, <2>2, SubSeqProperties DEF m
  <2>4. Len(kept) = m
    BY <2>1, <2>3
  <2>5. \A i \in 1 .. m : i \in 1 .. (m - 1 + 1) /\ 1 + i - 1 = i
    BY <2>1
  <2> QED
    BY <2>3, <2>4, <2>5 DEF m
<1> HIDE DEF kept
<1>11. /\ Len(kept) <= n /\ (Len(kept) = n \/ Len(kept) = need)
       /\ \A i \in 1 .. Len(kept) : kept[i].id = FullOrder[i]
  <2>1. Len(kept) \in Nat /\ Len(kept) <= n /\ (Len(kept) = n \/ Len(kept) = need)
    BY <1>3, <1>8, <1>10 DEF AtMost
  <2> QED
    BY <1>3, <1>7, <1>10, <2>1
<1>12. shown' = Cut(offset + how.limit)
  <2>1. shown \o Ids(Slice(kept, offset, how.limit)) = Cut(offset + how.limit)
    BY ONLY <1>2, <1>10, <1>11, PageMore DEF n, need
  <2> QED
    BY <1>1, <2>1
<1>13. total' = Capped(Len(FullOrder), how.cap)
  BY <1>1, <1>6 DEF n
<1> QED
  BY <1>1, <1>12, <1>13, PageShown

LEMMA StartSortedKeeps ==
  ASSUME HitsInvariant, StartSorted
  PROVE  HitsInvariant'
<1>1. /\ pc = "page" /\ how.sort # Relevance /\ pc' = "walk"
      /\ todo' = DOMAIN scored /\ heap' = {} /\ count' = 0
      /\ table' = <<>> \/ table' = NumericSortValues(segs, how.sort)
      /\ segs' = segs /\ scored' = scored /\ how' = how /\ offset' = offset /\ shown' = shown
  BY DEF StartSorted
<1>2. /\ Served /\ offset \in Nat /\ how.offset <= offset /\ shown = Cut(offset)
      /\ how.limit \in Nat
  BY <1>1, RequestsAssumption DEF HitsInvariant, Served, IsPaging
<1>3. Served' /\ Matches' = Matches /\ FullOrder' = FullOrder
  BY <1>1, <1>2, InputsStay
<1>4. (Cut(offset))' = Cut(offset)
  BY <1>1, <1>3 DEF Cut
<1>5. Matches' \ todo' = {}
  BY <1>1, <1>2, <1>3, MatchesFinite
<1>6. count' = Cardinality(Matches' \ todo')
  BY <1>1, <1>5, FS_EmptySet
<1>7. Walked' = {}
  BY <1>5 DEF Walked
<1>8. (TheBest(heap, Walked, Need(offset, how.limit), EntryOrder))'
  <2>1. Need(offset', how'.limit) \in Nat
    BY <1>1, <1>2, NeedIs
  <2>2. heap' = {} /\ Cardinality({}) = 0
    BY <1>1, FS_EmptySet
  <2> QED
    BY <1>7, <2>1, <2>2 DEF TheBest
<1>9. Walking'
  BY <1>1, <1>6, <1>8 DEF Walking
<1> QED
  BY <1>1, <1>2, <1>3, <1>4, <1>9 DEF HitsInvariant

LEMMA NextPageKeeps ==
  ASSUME HitsInvariant, NextPage
  PROVE  HitsInvariant'
<1>1. /\ pc = "shown" /\ pc' = "page" /\ offset' = offset + how.limit
      /\ segs' = segs /\ scored' = scored /\ how' = how /\ shown' = shown
  BY DEF NextPage
<1>2. /\ Served /\ offset \in Nat /\ how.offset <= offset /\ shown = Cut(offset + how.limit)
      /\ how.limit \in Nat /\ how.offset \in Nat
  BY <1>1, RequestsAssumption DEF HitsInvariant, Served, IsPaging
<1>3. Served' /\ FullOrder' = FullOrder
  BY <1>1, <1>2, InputsStay
<1>4. (Cut(offset))' = Cut(offset + how.limit)
  BY <1>1, <1>3 DEF Cut
<1>5. offset' \in Nat /\ how'.offset <= offset'
  BY <1>1, <1>2
<1> QED
  BY <1>1, <1>2, <1>3, <1>4, <1>5 DEF HitsInvariant

LEMMA WalkKeeps ==
  ASSUME HitsInvariant, Walk
  PROVE  HitsInvariant'
<1> DEFINE need == Need(offset, how.limit)
<1>1. PICK id \in todo :
        /\ todo' = todo \ {id}
        /\ count' = IF Reaches(id) THEN count + 1 ELSE count
        /\ heap' = IF Reaches(id) /\ need > 0 THEN Keep(Entry(id)) ELSE heap
  BY DEF Walk
<1>2. /\ pc = "walk" /\ pc' = "walk" /\ segs' = segs /\ scored' = scored /\ how' = how
      /\ offset' = offset /\ table' = table /\ shown' = shown
  BY DEF Walk
<1>3. /\ Served /\ Walking /\ offset \in Nat /\ how.offset <= offset /\ shown = Cut(offset)
      /\ how.limit \in Nat
  BY <1>2, RequestsAssumption DEF HitsInvariant, Served, IsPaging
<1>4. need \in Nat /\ need' = need
  BY <1>2, <1>3, NeedIs DEF Need
<1>5. /\ TheBest(heap, Walked, need, EntryOrder) /\ todo \subseteq DOMAIN scored
      /\ count = Cardinality(Matches \ todo)
  BY <1>3 DEF Walking
<1>6. /\ IsFiniteSet(Entries) /\ StrictOrder(EntryOrder, Entries)
      /\ \A d : Entry(d).id = d
  BY <1>3, EntriesOrdered
<1>7. IsFiniteSet(Matches \ todo) /\ Cardinality(Matches \ todo) \in Nat
  BY <1>3, MatchesFinite, FS_Subset, FS_CardinalityType
<1> DEFINE e == Entry(id)
           new == {Entry(d) : d \in Matches \ todo'}
<1> HIDE DEF need
<1>8. ASSUME Reaches(id)
      PROVE  count' = Cardinality(Matches \ todo') /\ TheBest(heap', new, need, EntryOrder)
  <2>1. id \in Matches /\ id \notin Matches \ todo /\ Matches \ todo' = (Matches \ todo) \cup {id}
    BY <1>1, <1>5, <1>8 DEF Matches
  <2>2. count' = Cardinality(Matches \ todo')
    BY <1>1, <1>5, <1>7, <1>8, <2>1, FS_AddElement
  <2>3. new = Walked \cup {e}
    BY <2>1 DEF Walked
  <2>4. e \in Entries /\ Walked \subseteq Entries
    BY <2>1 DEF Entries, Walked
  <2>5. e \notin Walked
    <3>1. ASSUME NEW d \in Matches \ todo
          PROVE  Entry(d) # e
      BY <1>6, <2>1, <3>1
    <3> QED
      BY <3>1 DEF Walked
  <2> HIDE DEF e, new
  <2>6. /\ need = 0 => TheBest(heap, Walked \cup {e}, need, EntryOrder)
        /\ Cardinality(heap) < need => TheBest(heap \cup {e}, Walked \cup {e}, need, EntryOrder)
        /\ need # 0 /\ ~(Cardinality(heap) < need) =>
             \E w \in heap :
               /\ \A x \in heap \ {w} : <<x, w>> \in EntryOrder
               /\ \A v \in heap : (\A x \in heap \ {v} : <<x, v>> \in EntryOrder) => v = w
               /\ <<e, w>> \in EntryOrder =>
                    TheBest((heap \ {w}) \cup {e}, Walked \cup {e}, need, EntryOrder)
               /\ <<e, w>> \notin EntryOrder => TheBest(heap, Walked \cup {e}, need, EntryOrder)
    BY ONLY <1>4, <1>5, <1>6, <2>4, <2>5, KeepsTheBest
  <2>7. heap \subseteq Entries
    BY <1>5, <2>4 DEF TheBest
  <2>8. TheBest(heap', Walked \cup {e}, need, EntryOrder)
    <3>1. CASE need = 0
      <4>1. heap' = heap
        BY <1>1, <3>1
      <4> QED
        BY <2>6, <3>1, <4>1
    <3>2. CASE need # 0 /\ Cardinality(heap) < need
      <4>1. heap' = Keep(e)
        BY <1>1, <1>4, <1>8, <3>2 DEF e
      <4>2. heap' = heap \cup {e}
        BY <3>2, <4>1 DEF Keep, need
      <4> QED
        BY <2>6, <3>2, <4>2
    <3>3. CASE need # 0 /\ ~(Cardinality(heap) < need)
      <4>1. heap' = Keep(e)
        BY <1>1, <1>4, <1>8, <3>3 DEF e
      <4>2. PICK w \in heap :
               /\ \A x \in heap \ {w} : <<x, w>> \in EntryOrder
               /\ \A v \in heap : (\A x \in heap \ {v} : <<x, v>> \in EntryOrder) => v = w
               /\ <<e, w>> \in EntryOrder =>
                    TheBest((heap \ {w}) \cup {e}, Walked \cup {e}, need, EntryOrder)
               /\ <<e, w>> \notin EntryOrder => TheBest(heap, Walked \cup {e}, need, EntryOrder)
        BY <2>6, <3>3
      <4>3. \A x, v \in Entries : <<x, v>> \in EntryOrder <=> EntryBefore(x, v)
        BY DEF EntryOrder
      <4> DEFINE worst == Worst(heap)
      <4>4. worst \in heap /\ \A x \in heap \ {worst} : EntryBefore(x, worst)
        <5>1. \E v \in heap : \A x \in heap \ {v} : EntryBefore(x, v)
          BY <2>7, <4>2, <4>3
        <5> QED
          BY <5>1 DEF Worst
      <4> HIDE DEF worst
      <4>5. worst = w
        <5>1. \A x \in heap \ {worst} : <<x, worst>> \in EntryOrder
          BY <2>7, <4>3, <4>4
        <5> QED
          BY <4>2, <4>4, <5>1
      <4>6. heap' = IF EntryBefore(e, w) THEN (heap \ {w}) \cup {e} ELSE heap
        BY <3>3, <4>1, <4>5 DEF Keep, need, worst
      <4>7. <<e, w>> \in EntryOrder <=> EntryBefore(e, w)
        BY <2>4, <2>7, <4>3
      <4> QED
        BY <4>2, <4>6, <4>7
    <3> QED
      BY <3>1, <3>2, <3>3
  <2> QED
    BY <2>2, <2>3, <2>8
<1>9. ASSUME ~Reaches(id)
      PROVE  count' = Cardinality(Matches \ todo') /\ TheBest(heap', new, need, EntryOrder)
  <2>1. Matches \ todo' = Matches \ todo
    BY <1>1, <1>9 DEF Matches
  <2>2. new = Walked
    BY <2>1 DEF Walked
  <2> QED
    BY <1>1, <1>5, <1>9, <2>1, <2>2
<1>10. count' = Cardinality(Matches \ todo') /\ TheBest(heap', new, need, EntryOrder)
  BY <1>8, <1>9
<1>11. /\ Served' /\ Matches' = Matches /\ FullOrder' = FullOrder
       /\ EntryOrder' = EntryOrder /\ \A d : Entry(d)' = Entry(d)
  BY <1>2, <1>3, InputsStay, EntriesStay
<1>12. Walked' = new
  BY <1>11 DEF Walked
<1>13. (TheBest(heap, Walked, Need(offset, how.limit), EntryOrder))'
  <2> HIDE DEF new
  <2>1. Need(offset', how'.limit) = need
    BY <1>2 DEF need
  <2>2. TheBest(heap', Walked', Need(offset', how'.limit), EntryOrder')
    BY <1>10, <1>11, <1>12, <2>1
  <2> QED
    BY <2>2 DEF TheBest
<1>14. Walking'
  <2>1. todo' \subseteq DOMAIN scored'
    BY <1>1, <1>2, <1>5
  <2>2. how'.sort # Relevance /\ (table' = <<>> \/ table' = NumericSortValues(segs', how'.sort))
    BY <1>2, <1>3 DEF Walking
  <2>3. count' = Cardinality(Matches' \ todo')
    BY <1>10, <1>11
  <2> QED
    BY <1>13, <2>1, <2>2, <2>3 DEF Walking
<1>15. (Cut(offset))' = Cut(offset)
  BY <1>2, <1>11 DEF Cut
<1> QED
  BY <1>2, <1>3, <1>11, <1>14, <1>15 DEF HitsInvariant

LEMMA PageSortedKeeps ==
  ASSUME HitsInvariant, PageSorted
  PROVE  HitsInvariant'
<1> DEFINE H == {a \in Matches : Entry(a) \in heap}
           e == [a \in Matches |-> Entry(a)]
           Q == {p \in heap \X heap : EntryBefore(p[1], p[2])}
           sorted == InOrder(heap, Q)
           need == Need(offset, how.limit)
           n == Len(FullOrder)
           k == Cardinality(heap)
<1>1. /\ pc = "walk" /\ todo = {} /\ pc' = "shown"
      /\ shown' = shown \o Ids(Slice(sorted, offset, how.limit))
      /\ total' = Capped(count, how.cap)
      /\ UNCHANGED <<segs, scored, how, offset>>
  BY DEF PageSorted, Ids
<1>2. /\ Served /\ Walking /\ offset \in Nat /\ how.offset <= offset /\ shown = Cut(offset)
  BY <1>1 DEF HitsInvariant
<1>3. /\ IsFiniteSet(Matches) /\ n = Cardinality(Matches) /\ n \in Nat
      /\ StrictOrder(RankOrder, Matches) /\ Lists(FullOrder, n, Matches, RankOrder)
  BY <1>2, MatchesFinite, FullOrderLists, RankOrders
<1>4. /\ TheBest(heap, Walked, need, EntryOrder) /\ count = Cardinality(Matches \ todo)
  BY <1>2 DEF Walking
<1>5. /\ \A a, b \in Matches : <<Entry(a), Entry(b)>> \in EntryOrder <=> <<a, b>> \in RankOrder
      /\ \A d : Entry(d).id = d
  BY <1>2, EntriesOrdered
<1>6. Walked = Entries /\ Matches \ todo = Matches
  BY <1>1 DEF Walked, Entries
<1>7. heap \subseteq Entries
  BY <1>4, <1>6 DEF TheBest
<1>8. /\ \A a \in Matches : e[a] = Entry(a) /\ Entry(a) \in Entries
      /\ \A x \in Entries : \E a \in Matches : x = Entry(a)
  BY DEF Entries
<1>9. H \subseteq Matches /\ IsFiniteSet(H)
  BY <1>3, FS_Subset
<1>10. /\ \A a \in H : e[a] \in heap /\ e[a].id = a
       /\ \A x \in heap : \E a \in H : x = e[a]
  <2>1. ASSUME NEW x \in heap
        PROVE  \E a \in H : x = e[a]
    <3>1. PICK a \in Matches : x = Entry(a)
      BY <1>7, <1>8
    <3> QED
      BY <3>1
  <2> QED
    BY <1>5, <2>1
<1>11. ASSUME NEW a \in H, NEW b \in H
       PROVE  <<e[a], e[b]>> \in Q <=> <<a, b>> \in RankOrder
  <2>1. <<Entry(a), Entry(b)>> \in EntryOrder <=> EntryBefore(Entry(a), Entry(b))
    BY <1>8 DEF EntryOrder
  <2>2. <<e[a], e[b]>> \in Q <=> EntryBefore(Entry(a), Entry(b))
    BY <1>8
  <2> QED
    BY <1>5, <1>9, <2>1, <2>2
<1>12. ASSUME NEW a \in H, NEW x \in Matches \ H
       PROVE  <<a, x>> \in RankOrder
  <2>1. Entry(a) \in heap /\ Entry(x) \in Walked \ heap
    BY <1>6, <1>8
  <2>2. <<Entry(a), Entry(x)>> \in EntryOrder
    BY <1>4, <2>1 DEF TheBest
  <2> QED
    BY <1>5, <2>2
<1>13. H # Matches => Walked # heap
  <2>1. ASSUME H # Matches
        PROVE  Walked # heap
    <3>1. PICK a \in Matches : Entry(a) \notin heap
      BY <2>1
    <3> QED
      BY <1>6, <1>8, <3>1
  <2> QED
    BY <2>1
<1> HIDE DEF H, e, Q, need, n, k
<1>14. /\ k = Cardinality(H) /\ sorted \in Seq(heap) /\ Len(sorted) = k
       /\ Lists(Ids(sorted), k, H, RankOrder)
  <2>1. \A a, b \in H : <<e[a], e[b]>> \in Q <=> <<a, b>> \in RankOrder
    BY <1>11
  <2>2. /\ Cardinality(heap) = Cardinality(H)
        /\ InOrder(heap, Q) \in Seq(heap) /\ Len(InOrder(heap, Q)) = Cardinality(H)
        /\ Lists(Ids(InOrder(heap, Q)), Cardinality(H), H, RankOrder)
    BY ONLY <1>3, <1>9, <1>10, <2>1, IdsInOrder
  <2>3. sorted = InOrder(heap, Q)
    OBVIOUS
  <2> HIDE DEF sorted
  <2> QED
    BY <2>2, <2>3 DEF k
<1> HIDE DEF sorted
<1>15. k <= n /\ \A i \in 1 .. k : FullOrder[i] = Ids(sorted)[i]
  <2>1. \A a \in H : \A x \in Matches \ H : <<a, x>> \in RankOrder
    BY <1>12
  <2> QED
    <3>1. /\ StrictOrder(RankOrder, Matches) /\ Lists(FullOrder, n, Matches, RankOrder)
          /\ H \subseteq Matches /\ Lists(Ids(sorted), k, H, RankOrder)
      BY <1>3, <1>9, <1>14
    <3> QED
      BY ONLY <2>1, <3>1, FirstOfList
<1>16. \A i \in 1 .. Len(sorted) : sorted[i].id = FullOrder[i]
  BY <1>14, <1>15 DEF Ids
<1>17. Len(sorted) <= n /\ (Len(sorted) = n \/ Len(sorted) = need)
  <2>1. CASE H = Matches
    BY <1>3, <1>14, <1>15, <2>1
  <2>2. CASE H # Matches
    BY <1>4, <1>13, <1>14, <1>15, <2>2 DEF TheBest, k
  <2> QED
    BY <2>1, <2>2
<1>18. shown' = Cut(offset + how.limit)
  <2>1. shown \o Ids(Slice(sorted, offset, how.limit)) = Cut(offset + how.limit)
    BY ONLY <1>2, <1>14, <1>16, <1>17, PageMore DEF n, need
  <2> QED
    BY <1>1, <2>1
<1>19. total' = Capped(Len(FullOrder), how.cap)
  BY <1>1, <1>3, <1>4, <1>6 DEF n
<1> QED
  BY <1>1, <1>18, <1>19, PageShown

-----------------------------------------------------------------------------
(* The invariant says what the property says.                              *)
LEMMA HitsInvariantSays ==
  ASSUME HitsInvariant
  PROVE  PagesAreTheRanking
<1>1. Served
  BY DEF HitsInvariant
<1>2. PagesTile
  <2>1. pc = "shown" => shown = Cut(offset + how.limit)
    BY DEF HitsInvariant
  <2> QED
    BY <2>1 DEF PagesTile, Cut, CutOf, AtMost
<1>3. HeapHasTheBest
  <2>1. ASSUME pc = "walk"
        PROVE  /\ heap \subseteq Walked
               /\ \A e \in heap, x \in Walked \ heap : EntryBefore(e, x)
               /\ Walked # heap => Cardinality(heap) = Need(offset, how.limit)
    <3>1. TheBest(heap, Walked, Need(offset, how.limit), EntryOrder)
      BY <2>1 DEF HitsInvariant, Walking
    <3>2. \A e, x : <<e, x>> \in EntryOrder => EntryBefore(e, x)
      BY DEF EntryOrder
    <3> QED
      BY <3>1, <3>2 DEF TheBest
  <2> QED
    BY <2>1 DEF HeapHasTheBest, Walked
<1>4. TotalIsExact
  <2>1. ASSUME pc = "shown"
        PROVE  LET m == Len(FullOrder)
               IN  total = IF how.cap = None \/ m <= how.cap THEN <<m, FALSE>> ELSE <<how.cap, TRUE>>
    <3> DEFINE m == Len(FullOrder)
    <3>1. total = Capped(m, how.cap)
      BY <2>1 DEF HitsInvariant
    <3>2. m \in Nat /\ how.cap \in Nat \cup {None}
      BY <1>1, FullOrderLists, MatchesFinite DEF Served, IsPaging
    <3> HIDE DEF m
    <3>3. total = IF how.cap = None \/ m <= how.cap THEN <<m, FALSE>> ELSE <<how.cap, TRUE>>
      BY <3>1, <3>2 DEF Capped
    <3> QED
      BY <3>3 DEF m
  <2> QED
    BY <2>1 DEF TotalIsExact
<1>5. SourceIsNoMatter
  <2>1. ASSUME pc = "walk"
        PROVE  \A d \in DOMAIN scored : Key(d) = StoredValue(segs, d, how.sort)
    <3>1. Walking
      BY <2>1 DEF HitsInvariant
    <3> QED
      BY <1>1, <3>1, KeysAreStored DEF Walking
  <2> QED
    BY <2>1 DEF SourceIsNoMatter
<1> QED
  BY <1>2, <1>3, <1>4, <1>5 DEF PagesAreTheRanking

LEMMA HitsStep ==
  ASSUME HitsInvariant, [Next]_vars
  PROVE  HitsInvariant'
<1>1. CASE PageByRelevance
  BY <1>1, PageByRelevanceKeeps
<1>2. CASE StartSorted
  BY <1>2, StartSortedKeeps
<1>3. CASE Walk
  BY <1>3, WalkKeeps
<1>4. CASE PageSorted
  BY <1>4, PageSortedKeeps
<1>5. CASE NextPage
  BY <1>5, NextPageKeeps
<1>6. CASE UNCHANGED vars
  <2>1. /\ segs' = segs /\ scored' = scored /\ how' = how /\ pc' = pc /\ offset' = offset
        /\ todo' = todo /\ table' = table /\ heap' = heap /\ count' = count
        /\ shown' = shown /\ total' = total
    BY <1>6 DEF vars
  <2>2. /\ Served' /\ Matches' = Matches /\ FullOrder' = FullOrder
        /\ EntryOrder' = EntryOrder /\ \A d : Entry(d)' = Entry(d)
    BY <2>1, InputsStay, EntriesStay DEF HitsInvariant
  <2>3. \A b : Cut(b)' = Cut(b)
    BY <2>1, <2>2 DEF Cut
  <2>4. Walked' = Walked
    BY <2>1, <2>2 DEF Walked
  <2>5. Walking => Walking'
    <3>1. ASSUME Walking
          PROVE  Walking'
      <4>1. TheBest(heap, Walked, Need(offset, how.limit), EntryOrder)
        BY <3>1 DEF Walking
      <4>2. (TheBest(heap, Walked, Need(offset, how.limit), EntryOrder))'
        BY <2>1, <2>2, <2>4, <4>1 DEF TheBest
      <4> QED
        BY <2>1, <2>2, <3>1, <4>2 DEF Walking
    <3> QED
      BY <3>1
  <2>6. Capped(Len(FullOrder), how.cap)' = Capped(Len(FullOrder), how.cap)
    BY <2>1, <2>2 DEF Capped
  <2>7. (Cut(offset))' = Cut(offset) /\ (Cut(offset + how.limit))' = Cut(offset + how.limit)
    BY <2>1, <2>2 DEF Cut
  <2> QED
    BY <2>1, <2>2, <2>5, <2>6, <2>7 DEF HitsInvariant
<1> QED
  BY <1>1, <1>2, <1>3, <1>4, <1>5, <1>6 DEF Next

(* Whatever the segments, the scores and the request are: page after page  *)
(* a client gets the ranking that the documentation promises, in whatever  *)
(* order the matches are walked, with whatever the bounded heap lets go    *)
(* and wherever the sort values come from; and the total is exact.         *)
THEOREM PagesAreTheRankingHolds == Spec => []PagesAreTheRanking
<1>1. Init => HitsInvariant
  BY InitHits
<1>2. HitsInvariant /\ [Next]_vars => HitsInvariant'
  BY HitsStep
<1>3. HitsInvariant => PagesAreTheRanking
  BY HitsInvariantSays
<1> QED
  BY <1>1, <1>2, <1>3, PTL DEF Spec


-----------------------------------------------------------------------------
(* Sets of numbers in ascending order, and the first of them.              *)

Smaller == {p \in Nat \X Nat : p[1] < p[2]}

LEMMA SmallerOrders ==
  ASSUME NEW A, A \subseteq Nat
  PROVE  StrictOrder(Smaller, A) /\ \A a, b \in A : <<a, b>> \in Smaller <=> a < b
<1>1. \A a, b \in A : <<a, b>> \in Smaller <=> a < b
  BY DEF Smaller
<1>2. \A a \in A : a \in Nat
  OBVIOUS
<1> QED
  BY <1>1, <1>2 DEF StrictOrder

(* There is one list of a set of numbers in ascending order.               *)
LEMMA AscendingLists ==
  ASSUME NEW A, A \subseteq Nat, IsFiniteSet(A)
  PROVE  /\ Lists(Ascending(A), Cardinality(A), A, Smaller)
         /\ \A q, n : Lists(q, n, A, Smaller) => q = Ascending(A)
<1> DEFINE R == {p \in A \X A : p[1] < p[2]}
           q == Ascending(A)
           n == Cardinality(A)
<1>1. \A a, b \in A : <<a, b>> \in R <=> <<a, b>> \in Smaller
  BY SmallerOrders
<1>2. q = InOrder(A, R)
  BY DEF Ascending
<1> HIDE DEF R, q
<1>3. StrictOrder(R, A)
  BY <1>1, SmallerOrders DEF StrictOrder
<1>4. Lists(q, n, A, R)
  BY <1>2, <1>3, InOrderLists
<1>5. Lists(q, n, A, Smaller)
  <2>1. n \in Nat /\ q \in [1 .. n -> A] /\ \A i, j \in 1 .. n : i < j => <<q[i], q[j]>> \in R
    BY <1>4 DEF Lists, Rises
  <2>2. \A i, j \in 1 .. n : i < j => <<q[i], q[j]>> \in Smaller
    BY <1>1, <2>1
  <2> QED
    BY <1>4, <2>1, <2>2 DEF Lists, Rises
<1>6. ASSUME NEW r, NEW m, Lists(r, m, A, Smaller)
      PROVE  r = q
  <2>1. StrictOrder(Smaller, A)
    BY SmallerOrders
  <2> QED
    BY <1>5, <1>6, <2>1, OneList
<1> QED
  BY <1>5, <1>6 DEF q

(* The members of A below x, and those with less than n below them.        *)
Under(A, x) == {y \in A : y < x}
LowOf(A, n) == {x \in A : Cardinality(Under(A, x)) < n}

(* The first n list those with less than n below them.                     *)
LEMMA FirstLists ==
  ASSUME NEW A, A \subseteq Nat, IsFiniteSet(A), NEW n \in Nat
  PROVE  /\ FirstOf(A, n) = Ascending(LowOf(A, n))
         /\ ToSet(FirstOf(A, n)) = LowOf(A, n)
         /\ Cardinality(LowOf(A, n)) = AtMost(Cardinality(A), n)
<1> DEFINE s == Ascending(A)
           m == Cardinality(A)
           k == AtMost(m, n)
           W == LowOf(A, n)
           r == FirstOf(A, n)
<1>1. Lists(s, m, A, Smaller)
  BY AscendingLists
<1>2. /\ m \in Nat /\ s \in [1 .. m -> A] /\ s \in Seq(A) /\ Len(s) = m
      /\ \A i, j \in 1 .. m : i < j => <<s[i], s[j]>> \in Smaller
  <2>1. m \in Nat /\ s \in [1 .. m -> A] /\ \A i, j \in 1 .. m : i < j => <<s[i], s[j]>> \in Smaller
    BY <1>1 DEF Lists, Rises
  <2> QED
    BY <2>1
<1>3. ASSUME NEW i \in 1 .. m
      PROVE  Cardinality(Under(A, s[i])) = i - 1
  <2>1. StrictOrder(Smaller, A)
    BY SmallerOrders
  <2>2. Cardinality({a \in A : <<a, s[i]>> \in Smaller}) = i - 1
    BY <1>1, <2>1, MembersBefore
  <2>3. {a \in A : <<a, s[i]>> \in Smaller} = Under(A, s[i])
    BY <1>2, SmallerOrders DEF Under
  <2> QED
    BY <2>2, <2>3
<1>4. k \in Nat /\ k <= m /\ \A i \in 1 .. m : i <= k <=> i - 1 < n
  BY <1>2 DEF AtMost
<1>5. r = IF m <= n THEN s ELSE SubSeq(s, 1, n)
  BY <1>2 DEF FirstOf
<1> HIDE DEF s, m
<1>6. r \in Seq(A) /\ Len(r) = k /\ \A i \in 1 .. k : r[i] = s[i]
  <2>1. CASE m <= n
    BY <1>2, <1>5, <2>1 DEF AtMost
  <2>2. CASE ~(m <= n)
    <3>1. \A i \in 1 .. n : s[i] \in A
      BY <1>2, <2>2
    <3>2. /\ SubSeq(s, 1, n) \in Seq(A) /\ Len(SubSeq(s, 1, n)) = IF 1 <= n THEN n - 1 + 1 ELSE 0
          /\ \A i \in 1 .. (n - 1 + 1) : SubSeq(s, 1, n)[i] = s[1 + i - 1]
      BY <3>1, SubSeqProperties
    <3>3. k = n /\ r = SubSeq(s, 1, n)
      BY <1>2, <1>5, <2>2 DEF AtMost
    <3>4. n - 1 + 1 = n /\ \A i \in 1 .. n : 1 + i - 1 = i
      OBVIOUS
    <3>5. Len(SubSeq(s, 1, n)) = n
      BY <3>2
    <3> HIDE DEF r, k
    <3> QED
      BY <3>2, <3>3, <3>4, <3>5
  <2> QED
    BY <2>1, <2>2
<1>7. \A i \in 1 .. m : s[i] \in W <=> i <= k
  BY <1>2, <1>3, <1>4 DEF LowOf
<1>8. W \subseteq A /\ \A a \in W : \E i \in 1 .. k : s[i] = a
  <2>1. W \subseteq A
    BY DEF LowOf
  <2>2. ASSUME NEW a \in W
        PROVE  \E i \in 1 .. k : s[i] = a
    <3>1. PICK i \in 1 .. m : s[i] = a
      BY <1>1, <2>1 DEF Lists
    <3>2. i \in 1 .. k
      BY <1>2, <1>4, <1>7, <3>1
    <3> QED
      BY <3>1, <3>2
  <2> QED
    BY <2>1, <2>2
<1> HIDE DEF r, k, W
<1>9. \A i \in 1 .. k : i \in 1 .. m /\ r[i] = s[i] /\ r[i] \in W
  BY <1>2, <1>4, <1>6, <1>7
<1>10. r \in [1 .. k -> W] /\ DOMAIN r = 1 .. k
  BY <1>4, <1>6, <1>9
<1>11. Lists(r, k, W, Smaller)
  <2>1. \A i, j \in 1 .. k : i < j => <<r[i], r[j]>> \in Smaller
    BY <1>2, <1>9
  <2>2. \A a \in W : \E i \in 1 .. k : r[i] = a
    BY <1>8, <1>9
  <2> QED
    BY <1>4, <1>10, <2>1, <2>2 DEF Lists, Rises
<1>12. ToSet(r) = W
  BY <1>8, <1>9, <1>10 DEF ToSet
<1>13. W \subseteq Nat /\ IsFiniteSet(W)
  BY <1>8, FS_Subset
<1>14. r = Ascending(W)
  BY <1>11, <1>13, AscendingLists
<1>15. Cardinality(W) = k
  <2>1. StrictOrder(Smaller, W)
    BY <1>13, SmallerOrders
  <2> QED
    BY <1>11, <2>1, ListLength
<1> QED
  BY <1>12, <1>14, <1>15 DEF r, W, k, m

(* Some members that include the first n have the same first n.            *)
LEMMA LowOfPart ==
  ASSUME NEW A, A \subseteq Nat, IsFiniteSet(A), NEW n \in Nat,
         NEW U, U \subseteq A, LowOf(A, n) \subseteq U
  PROVE  LowOf(U, n) = LowOf(A, n)
<1> DEFINE W == LowOf(A, n)
<1>1. \A x : /\ Under(U, x) \subseteq Under(A, x) /\ Under(A, x) \subseteq A
             /\ IsFiniteSet(Under(A, x)) /\ IsFiniteSet(Under(U, x))
             /\ Cardinality(Under(U, x)) <= Cardinality(Under(A, x))
             /\ Cardinality(Under(U, x)) \in Nat /\ Cardinality(Under(A, x)) \in Nat
  <2> SUFFICES ASSUME NEW x
               PROVE  /\ Under(U, x) \subseteq Under(A, x) /\ Under(A, x) \subseteq A
                      /\ IsFiniteSet(Under(A, x)) /\ IsFiniteSet(Under(U, x))
                      /\ Cardinality(Under(U, x)) <= Cardinality(Under(A, x))
                      /\ Cardinality(Under(U, x)) \in Nat /\ Cardinality(Under(A, x)) \in Nat
    OBVIOUS
  <2>1. Under(U, x) \subseteq Under(A, x) /\ Under(A, x) \subseteq A
    BY DEF Under
  <2>2. IsFiniteSet(Under(A, x)) /\ IsFiniteSet(Under(U, x))
    BY <2>1, FS_Subset
  <2> QED
    BY <2>1, <2>2, FS_Subset, FS_CardinalityType
<1>2. ASSUME NEW x \in W
      PROVE  x \in LowOf(U, n)
  <2>1. Cardinality(Under(A, x)) < n /\ x \in U
    BY DEF LowOf
  <2>2. Cardinality(Under(U, x)) < n
    BY <1>1, <2>1
  <2> QED
    BY <2>1, <2>2 DEF LowOf
<1>3. ASSUME NEW x \in LowOf(U, n), x \notin W
      PROVE  FALSE
  <2>1. x \in U /\ x \in A /\ Cardinality(Under(U, x)) < n /\ ~(Cardinality(Under(A, x)) < n)
    BY <1>3 DEF LowOf
  <2>2. ASSUME NEW y \in W
        PROVE  y \in Under(U, x)
    <3>1. y \in U /\ y \in Nat /\ x \in Nat /\ Cardinality(Under(A, y)) < n
      BY <2>1 DEF LowOf
    <3>2. y < x
      <4> SUFFICES ASSUME ~(y < x)
                   PROVE  FALSE
        OBVIOUS
      <4>1. \A z \in A : z < x => z < y
        <5>1. \A z \in A : z \in Nat
          OBVIOUS
        <5> QED
          BY <3>1, <5>1
      <4>2. Under(A, x) \subseteq Under(A, y)
        BY <4>1 DEF Under
      <4>3. Cardinality(Under(A, x)) <= Cardinality(Under(A, y))
        BY <1>1, <4>2, FS_Subset
      <4> QED
        BY <1>1, <2>1, <3>1, <4>3
    <3> QED
      BY <3>1, <3>2 DEF Under
  <2>3. Cardinality(W) <= Cardinality(Under(U, x))
    BY <1>1, <2>2, FS_Subset
  <2>4. Cardinality(W) = AtMost(Cardinality(A), n)
    BY FirstLists
  <2>5. Cardinality(Under(A, x)) <= Cardinality(A) /\ Cardinality(A) \in Nat
    BY <1>1, FS_Subset, FS_CardinalityType
  <2>6. Cardinality(W) = n
    BY <1>1, <2>1, <2>4, <2>5 DEF AtMost
  <2> QED
    BY <1>1, <2>1, <2>3, <2>6
<1> QED
  BY <1>2, <1>3

(* All members of the parts, and the first n of each.                      *)
Together(P, I) == UNION {P[i] : i \in I}
FirstOfEach(P, I, n) == UNION {ToSet(FirstOf(P[i], n)) : i \in I}

(* The first n of each part have the first n of all.                       *)
LEMMA FirstOfParts ==
  ASSUME NEW I, NEW P, Together(P, I) \subseteq Nat, IsFiniteSet(Together(P, I)), NEW n \in Nat
  PROVE  FirstOf(FirstOfEach(P, I, n), n) = FirstOf(Together(P, I), n)
<1> DEFINE A == Together(P, I)
           U == FirstOfEach(P, I, n)
<1>1. ASSUME NEW i \in I
      PROVE  P[i] \subseteq A /\ P[i] \subseteq Nat /\ IsFiniteSet(P[i]) /\ ToSet(FirstOf(P[i], n)) = LowOf(P[i], n)
  <2>1. P[i] \subseteq A
    BY DEF Together
  <2>2. P[i] \subseteq Nat /\ IsFiniteSet(P[i])
    BY <2>1, FS_Subset
  <2> QED
    BY <2>1, <2>2, FirstLists
<1>2. \A x : x \in U <=> \E i \in I : x \in LowOf(P[i], n)
  BY <1>1 DEF FirstOfEach
<1>3. \A x : x \in A <=> \E i \in I : x \in P[i]
  BY DEF Together
<1>4. A \subseteq Nat /\ IsFiniteSet(A)
  OBVIOUS
<1> HIDE DEF A, U
<1>5. U \subseteq A
  BY <1>2, <1>3 DEF LowOf
<1>6. ASSUME NEW x \in LowOf(A, n)
      PROVE  x \in U
  <2>1. x \in A /\ Cardinality(Under(A, x)) < n
    BY DEF LowOf
  <2>2. PICK i \in I : x \in P[i]
    BY <1>3, <2>1
  <2>3. Under(P[i], x) \subseteq Under(A, x) /\ Under(A, x) \subseteq A
    BY <1>1 DEF Under
  <2>4. IsFiniteSet(Under(A, x)) /\ IsFiniteSet(Under(P[i], x))
    BY <1>4, <2>3, FS_Subset
  <2>5. Cardinality(Under(P[i], x)) < n
    BY <2>1, <2>3, <2>4, FS_Subset, FS_CardinalityType
  <2> QED
    BY <1>2, <2>2, <2>5 DEF LowOf
<1>7. LowOf(U, n) = LowOf(A, n)
  BY <1>4, <1>5, <1>6, LowOfPart
<1>8. IsFiniteSet(U) /\ U \subseteq Nat
  BY <1>4, <1>5, FS_Subset
<1>9. FirstOf(U, n) = Ascending(LowOf(U, n)) /\ FirstOf(A, n) = Ascending(LowOf(A, n))
  BY <1>4, <1>8, FirstLists
<1>10. FirstOf(U, n) = FirstOf(A, n)
  BY <1>7, <1>9
<1> QED
  BY <1>10 DEF U, A

-----------------------------------------------------------------------------
(* An index as one row of documents.                                       *)

(* A segment and a local id.                                               *)
Spots == Nat \X Nat

LEMMA RowAt ==
  ASSUME NEW ss, IsIndex(ss)
  PROVE  /\ Len(RowOf(ss)) = TotalDocs(ss) /\ TotalDocs(ss) \in Nat
         /\ IdsIn(ss) = 0 .. (TotalDocs(ss) - 1) /\ IdsIn(ss) \subseteq Nat
         /\ \A i \in 1 .. Len(ss) : \A d \in LocalIds(ss[i]) :
              /\ Base(ss, i) + d \in IdsIn(ss)
              /\ RowOf(ss)[Base(ss, i) + d + 1] = <<i, d>>
         /\ \A id \in IdsIn(ss) : \E i \in 1 .. Len(ss) : \E d \in LocalIds(ss[i]) : id = Base(ss, i) + d
<1> DEFINE n == Len(ss)
           L == [i \in DOMAIN ss |-> [d \in 1..MaxDoc(ss[i]) |-> <<i, d - 1>>]]
<1>1. /\ n \in Nat /\ DOMAIN ss = 1 .. n
      /\ \A k \in 1 .. n : MaxDoc(ss[k]) \in Nat /\ LocalIds(ss[k]) = 0 .. (MaxDoc(ss[k]) - 1)
  BY Segments
<1>2. RowOf(ss) = FlattenSeq(L)
  BY DEF RowOf
<1>3. ASSUME NEW i \in 1 .. n
      PROVE  L[i] \in Seq(Spots) /\ Len(L[i]) = MaxDoc(ss[i]) /\ \A d \in LocalIds(ss[i]) : L[i][d + 1] = <<i, d>>
  <2>1. L[i] = [d \in 1..MaxDoc(ss[i]) |-> <<i, d - 1>>]
    BY <1>1
  <2>2. \A d \in 1..MaxDoc(ss[i]) : <<i, d - 1>> \in Spots
    BY <1>1 DEF Spots
  <2>3. L[i] \in [1 .. MaxDoc(ss[i]) -> Spots] /\ MaxDoc(ss[i]) \in Nat
    BY <1>1, <2>1, <2>2
  <2>4. ASSUME NEW d \in LocalIds(ss[i])
        PROVE  L[i][d + 1] = <<i, d>>
    <3>1. d + 1 \in 1 .. MaxDoc(ss[i]) /\ (d + 1) - 1 = d
      BY <1>1
    <3> QED
      BY <2>1, <3>1
  <2> HIDE DEF L
  <2> QED
    BY <2>3, <2>4
<1>4. L \in Seq(Seq(Spots)) /\ Len(L) = n
  <2>1. DOMAIN L = 1 .. n
    BY <1>1
  <2>2. L = [i \in 1 .. n |-> L[i]]
    BY <1>1
  <2> HIDE DEF L
  <2> QED
    BY <1>1, <1>3, <2>1, <2>2
<1> HIDE DEF L
<1>4b. Len(L) = Len(ss) /\ \A i \in 1 .. Len(ss) : Len(L[i]) = MaxDoc(ss[i])
  BY <1>3, <1>4
<1>5. Len(FlattenSeq(L)) = TotalDocs(ss) /\ AtGlobalIds(FlattenSeq(L), L, ss)
  BY <1>4, <1>4b, JoinedRows
<1>6. TotalDocs(ss) \in Nat /\ IdsIn(ss) = 0 .. (TotalDocs(ss) - 1) /\ IdsIn(ss) \subseteq Nat
  <2>1. TotalDocs(ss) \in Nat
    BY LocateFinds
  <2> QED
    BY <1>2, <1>5, <2>1 DEF IdsIn
<1>7. ASSUME NEW i \in 1 .. n, NEW d \in LocalIds(ss[i])
      PROVE  Base(ss, i) + d \in IdsIn(ss) /\ RowOf(ss)[Base(ss, i) + d + 1] = <<i, d>>
  <2>1. Base(ss, i) \in Nat /\ Base(ss, i) + d \in Nat
    BY <1>1, Bases
  <2>2. Base(ss, i) + d < TotalDocs(ss)
    <3>1. Locate(ss, Base(ss, i) + d) = {<<i, d>>}
      BY Located
    <3> QED
      BY <2>1, <3>1, LocateFinds
  <2>3. Base(ss, i) + d \in IdsIn(ss)
    BY <1>6, <2>1, <2>2
  <2> QED
    BY <1>2, <1>3, <1>5, <2>3 DEF AtGlobalIds
<1>8. ASSUME NEW id \in IdsIn(ss)
      PROVE  \E i \in 1 .. n : \E d \in LocalIds(ss[i]) : id = Base(ss, i) + d
  <2>1. id \in Nat /\ id < TotalDocs(ss)
    BY <1>6
  <2> QED
    BY <2>1, LocateFinds
<1> QED
  BY <1>2, <1>5, <1>6, <1>7, <1>8 DEF n

(* What is at a global id is what its segment has there.                   *)
LEMMA AtId ==
  ASSUME NEW ss, IsIndex(ss), NEW i \in 1 .. Len(ss), NEW d \in LocalIds(ss[i])
  PROVE  /\ \A f : HereIn(ss, f, Base(ss, i) + d) = TermsAt(ss[i], f, d)
         /\ GoneIn(ss, Base(ss, i) + d) <=> d \in ss[i].dead
<1>1. RowOf(ss)[Base(ss, i) + d + 1] = <<i, d>>
  BY RowAt
<1> QED
  BY <1>1 DEF HereIn, GoneIn

LEMMA TermsTyped ==
  ASSUME NEW seg, IsSegment(seg), NEW f, NEW d \in LocalIds(seg)
  PROVE  TermsAt(seg, f, d) \in Seq(Nat)
BY FieldTyped DEF TermsAt

LEMMA AllTermsAre ==
  ASSUME NEW ss, IsIndex(ss), NEW f
  PROVE  /\ AllTermsIn(ss, f) = UNION {SegTerms(ss[i], f) : i \in DOMAIN ss}
         /\ AllTermsIn(ss, f) \subseteq Nat /\ IsFiniteSet(AllTermsIn(ss, f))
<1>1. /\ Len(ss) \in Nat /\ DOMAIN ss = 1 .. Len(ss)
      /\ \A i \in 1 .. Len(ss) : IsSegment(ss[i])
  BY Segments
<1>2. ASSUME NEW id \in IdsIn(ss)
      PROVE  HereIn(ss, f, id) \in Seq(Nat)
  <2>1. PICK i \in 1 .. Len(ss) : \E d \in LocalIds(ss[i]) : id = Base(ss, i) + d
    BY RowAt
  <2>2. PICK d \in LocalIds(ss[i]) : id = Base(ss, i) + d
    BY <2>1
  <2> QED
    BY <1>1, <2>2, AtId, TermsTyped
<1>3. ASSUME NEW t \in AllTermsIn(ss, f)
      PROVE  t \in Nat /\ \E i \in DOMAIN ss : t \in SegTerms(ss[i], f)
  <2>1. PICK id \in IdsIn(ss) : t \in ToSet(HereIn(ss, f, id))
    BY DEF AllTermsIn
  <2>2. PICK i \in 1 .. Len(ss) : \E d \in LocalIds(ss[i]) : id = Base(ss, i) + d
    BY RowAt
  <2>3. PICK d \in LocalIds(ss[i]) : id = Base(ss, i) + d
    BY <2>2
  <2>4. HereIn(ss, f, id) = TermsAt(ss[i], f, d)
    BY <2>3, AtId
  <2>5. t \in Nat
    BY <1>2, <2>1 DEF ToSet
  <2> QED
    BY <1>1, <2>1, <2>4, <2>5 DEF SegTerms
<1>4. ASSUME NEW i \in DOMAIN ss, NEW t \in SegTerms(ss[i], f)
      PROVE  t \in AllTermsIn(ss, f)
  <2>1. PICK d \in LocalIds(ss[i]) : t \in ToSet(TermsAt(ss[i], f, d))
    BY DEF SegTerms
  <2>2. HereIn(ss, f, Base(ss, i) + d) = TermsAt(ss[i], f, d) /\ Base(ss, i) + d \in IdsIn(ss)
    BY <1>1, AtId, RowAt
  <2> QED
    BY <2>1, <2>2 DEF AllTermsIn
<1>5. IsFiniteSet(AllTermsIn(ss, f))
  <2> DEFINE K == {ToSet(HereIn(ss, f, id)) : id \in IdsIn(ss)}
             h == [id \in IdsIn(ss) |-> ToSet(HereIn(ss, f, id))]
  <2>1. \A T \in K : IsFiniteSet(T)
    BY <1>2, ToSetFinite
  <2>2. IsFiniteSet(IdsIn(ss))
    BY RowAt, FS_Interval
  <2>3. h \in Surjection(IdsIn(ss), K)
    BY DEF Surjection
  <2>4. IsFiniteSet(K)
    BY <2>2, <2>3, FS_Surjection
  <2> QED
    BY <2>1, <2>4, FS_UNION DEF AllTermsIn
<1> QED
  BY <1>3, <1>4, <1>5

-----------------------------------------------------------------------------
(* What several segments answer.                                           *)

LEMMA PrefixOfAll ==
  ASSUME NEW ss, IsIndex(ss), NEW f, NEW p, NEW n \in Nat
  PROVE  TermsWithPrefixLimited(ss, f, p, n) = FirstOf(AllTermsIn(ss, f) \cap p, n)
<1> DEFINE P == [i \in DOMAIN ss |-> SegTerms(ss[i], f) \cap p]
           A == Together(P, DOMAIN ss)
<1>1. A = AllTermsIn(ss, f) \cap p
  BY AllTermsAre DEF Together
<1>2. A \subseteq Nat /\ IsFiniteSet(A)
  BY <1>1, AllTermsAre, FS_Subset
<1>3. FirstOf(FirstOfEach(P, DOMAIN ss, n), n) = FirstOf(A, n)
  <2> HIDE DEF P
  <2> QED
    BY <1>2, FirstOfParts
<1>4. \A i \in DOMAIN ss : SegWithPrefix(ss[i], f, p, n) = FirstOf(P[i], n)
  BY DEF SegWithPrefix
<1>5. UNION {ToSet(SegWithPrefix(ss[i], f, p, n)) : i \in DOMAIN ss} = FirstOfEach(P, DOMAIN ss, n)
  <2> HIDE DEF P
  <2> QED
    BY <1>4 DEF FirstOfEach
<1> QED
  BY <1>1, <1>3, <1>5 DEF TermsWithPrefixLimited

LEMMA RangeOfAll ==
  ASSUME NEW ss, IsIndex(ss), NEW f, NEW lo \in Int, NEW hi \in Int
  PROVE  TermsInRange(ss, f, lo, hi) = Ascending({t \in AllTermsIn(ss, f) : lo <= t /\ t <= hi})
<1>1. (UNION {SegTerms(ss[i], f) : i \in DOMAIN ss}) \cap lo..hi = {t \in AllTermsIn(ss, f) : lo <= t /\ t <= hi}
  <2>1. UNION {SegTerms(ss[i], f) : i \in DOMAIN ss} = AllTermsIn(ss, f) /\ AllTermsIn(ss, f) \subseteq Nat
    BY AllTermsAre
  <2>2. AllTermsIn(ss, f) \cap lo..hi = {t \in AllTermsIn(ss, f) : lo <= t /\ t <= hi}
    BY <2>1
  <2> QED
    BY <2>1, <2>2
<1> QED
  BY <1>1 DEF TermsInRange

LEMMA DocumentOfAll ==
  ASSUME NEW ss, IsIndex(ss), NEW f, NEW id \in 0 .. TotalDocs(ss)
  PROVE  <<IsDeleted(ss, id), StoredValue(ss, id, f)>> =
           IF id \in IdsIn(ss)
           THEN <<GoneIn(ss, id), SegStoredValue(ss[RowOf(ss)[id + 1][1]], RowOf(ss)[id + 1][2], f)>>
           ELSE <<FALSE, None>>
<1>0. id \in Nat
  BY LocateFinds
<1>1. CASE id \in IdsIn(ss)
  <2>1. PICK i \in 1 .. Len(ss) : \E d \in LocalIds(ss[i]) : id = Base(ss, i) + d
    BY <1>1, RowAt
  <2>2. PICK d \in LocalIds(ss[i]) : id = Base(ss, i) + d
    BY <2>1
  <2>3. RowOf(ss)[id + 1] = <<i, d>> /\ (GoneIn(ss, id) <=> d \in ss[i].dead)
    BY <2>2, RowAt, AtId
  <2>4. Locate(ss, id) = {<<i, d>>}
    BY <2>2, Located
  <2>5. IsDeleted(ss, id) <=> d \in ss[i].dead
    BY <2>4 DEF IsDeleted
  <2>6. StoredValue(ss, id, f) = SegStoredValue(ss[i], d, f)
    BY <2>2, StoredValueAt
  <2>7. IsDeleted(ss, id) \in BOOLEAN /\ GoneIn(ss, id) \in BOOLEAN
    BY DEF IsDeleted, GoneIn
  <2>8. IsDeleted(ss, id) = GoneIn(ss, id)
    BY <2>3, <2>5, <2>7
  <2> QED
    BY <1>1, <2>3, <2>6, <2>8
<1>2. CASE id \notin IdsIn(ss)
  <2>1. ~(id < TotalDocs(ss))
    BY <1>0, <1>2, RowAt
  <2>2. Locate(ss, id) = {} /\ StoredValue(ss, id, f) = None
    BY <1>0, <2>1, LocateFinds, StoredValueAt
  <2>3. IsDeleted(ss, id) = FALSE
    BY <2>2 DEF IsDeleted
  <2> QED
    BY <1>2, <2>2, <2>3
<1> QED
  BY <1>1, <1>2

(* The first parts of the members of a sequence.                           *)
KeysOf(q) == [k \in DOMAIN q |-> q[k][1]]

(* A list after a list of what comes before.                               *)
LEMMA ListsAppend ==
  ASSUME NEW E, NEW p \in Seq(E), NEW q \in Seq(E), NEW S, NEW T, NEW R,
         Lists(KeysOf(p), Len(p), S, R), Lists(KeysOf(q), Len(q), T, R),
         \A a \in S, b \in T : <<a, b>> \in R
  PROVE  Lists(KeysOf(p \o q), Len(p \o q), S \cup T, R)
<1> DEFINE m == Len(p)
           n == Len(q)
           r == p \o q
           l == Len(r)
<1>1. m \in Nat /\ n \in Nat /\ DOMAIN p = 1 .. m /\ DOMAIN q = 1 .. n
  OBVIOUS
<1>2. /\ r \in Seq(E) /\ l = m + n
      /\ \A i \in 1 .. (m + n) : r[i] = IF i <= m THEN p[i] ELSE q[i - m]
  BY ConcatProperties
<1>3. /\ \A i \in 1 .. m : p[i][1] \in S
      /\ \A i, j \in 1 .. m : i < j => <<p[i][1], p[j][1]>> \in R
      /\ \A a \in S : \E i \in 1 .. m : p[i][1] = a
  BY <1>1 DEF Lists, Rises, KeysOf
<1>4. /\ \A i \in 1 .. n : q[i][1] \in T
      /\ \A i, j \in 1 .. n : i < j => <<q[i][1], q[j][1]>> \in R
      /\ \A a \in T : \E i \in 1 .. n : q[i][1] = a
  BY <1>1 DEF Lists, Rises, KeysOf
<1>5. DOMAIN r = 1 .. l /\ l \in Nat
  BY <1>1, <1>2
<1> HIDE DEF m, n, r, l
<1>6. ASSUME NEW i \in 1 .. l
      PROVE  /\ i <= m => i \in 1 .. m /\ r[i] = p[i]
             /\ ~(i <= m) => i - m \in 1 .. n /\ r[i] = q[i - m]
  BY <1>1, <1>2
<1>7. \A i \in 1 .. l : r[i][1] \in S \cup T
  BY <1>3, <1>4, <1>6
<1>8. ASSUME NEW i \in 1 .. l, NEW j \in 1 .. l, i < j
      PROVE  <<r[i][1], r[j][1]>> \in R
  <2>1. CASE j <= m
    BY <1>1, <1>3, <1>6, <1>8, <2>1
  <2>2. CASE i <= m /\ ~(j <= m)
    BY <1>3, <1>4, <1>6, <2>2
  <2>3. CASE ~(i <= m)
    <3>1. ~(j <= m) /\ i - m < j - m
      BY <1>1, <1>5, <1>8, <2>3
    <3> QED
      BY <1>4, <1>6, <2>3, <3>1
  <2> QED
    BY <2>1, <2>2, <2>3
<1>9. ASSUME NEW a \in S \cup T
      PROVE  \E i \in 1 .. l : r[i][1] = a
  <2>1. CASE a \in S
    <3>1. PICK i \in 1 .. m : p[i][1] = a
      BY <1>3, <2>1
    <3>2. i \in 1 .. l /\ i <= m
      BY <1>1, <1>2
    <3> QED
      BY <1>6, <3>1, <3>2
  <2>2. CASE a \in T
    <3>1. PICK i \in 1 .. n : q[i][1] = a
      BY <1>4, <2>2
    <3>2. m + i \in 1 .. l /\ ~(m + i <= m) /\ (m + i) - m = i
      BY <1>1, <1>2
    <3> QED
      BY <1>6, <3>1, <3>2
  <2> QED
    BY <2>1, <2>2
<1> DEFINE g == KeysOf(r)
<1>10. g = [i \in 1 .. l |-> r[i][1]]
  BY <1>5 DEF KeysOf
<1>11. g \in [1 .. l -> S \cup T] /\ \A i \in 1 .. l : g[i] = r[i][1]
  BY <1>7, <1>10
<1> HIDE DEF g
<1>12. Rises(g, l, S \cup T, R)
  <2>1. \A i, j \in 1 .. l : i < j => <<g[i], g[j]>> \in R
    BY <1>8, <1>11
  <2> QED
    BY <1>5, <1>11, <2>1 DEF Rises
<1>13. \A a \in S \cup T : \E i \in 1 .. l : g[i] = a
  BY <1>9, <1>11
<1>14. Lists(g, l, S \cup T, R)
  BY <1>12, <1>13 DEF Lists
<1> QED
  BY <1>14 DEF g, r, l

(* The members of the first k parts.                                       *)
UpTo(A, k) == UNION {A[i] : i \in 1 .. k}

(* Lists of parts that follow each other list all when they are joined.    *)
LEMMA ListsJoined ==
  ASSUME NEW E, NEW L \in Seq(Seq(E)), NEW A, NEW R,
         \A i \in 1 .. Len(L) : Lists(KeysOf(L[i]), Len(L[i]), A[i], R),
         \A i, j \in 1 .. Len(L) : i < j => \A a \in A[i], b \in A[j] : <<a, b>> \in R
  PROVE  /\ FlattenSeq(L) \in Seq(E)
         /\ Lists(KeysOf(FlattenSeq(L)), Len(FlattenSeq(L)), UpTo(A, Len(L)), R)
<1> DEFINE n == Len(L)
<1>1. n \in Nat /\ \A i \in 1 .. n : L[i] \in Seq(E)
  OBVIOUS
<1>2. CASE n = 0
  <2>1. L = <<>>
    BY <1>2, EmptySeq
  <2>2. FlattenSeq(L) = <<>>
    BY <2>1 DEF FlattenSeq
  <2>3. UpTo(A, n) = {}
    BY <1>2 DEF UpTo
  <2>4. <<>> \in Seq(E) /\ Len(<<>>) = 0 /\ DOMAIN <<>> = 1 .. 0
    OBVIOUS
  <2> DEFINE g == KeysOf(<<>>)
  <2>5. g = [k \in 1 .. 0 |-> <<>>[k][1]]
    BY <2>4 DEF KeysOf
  <2> HIDE DEF g
  <2>6. g \in [1 .. 0 -> {}]
    <3>1. \A k \in 1 .. 0 : FALSE
      OBVIOUS
    <3>2. DOMAIN g = 1 .. 0 /\ g = [k \in 1 .. 0 |-> g[k]]
      BY <2>5
    <3> QED
      BY <3>1, <3>2
  <2>7. Lists(g, 0, {}, R)
    BY <2>6 DEF Lists, Rises
  <2> QED
    BY <2>2, <2>3, <2>4, <2>7 DEF g
<1>3. CASE n # 0
  <2>1. PICK f : JoinOf(f, L, n, E) /\ FlattenSeq(L) = f[n]
    BY <1>3, FlattenJoins
  <2>2. /\ \A k \in 1 .. n : f[k] \in Seq(E)
        /\ \A k \in 1 .. n : f[k] = IF k = 1 THEN L[1] ELSE f[k - 1] \o L[k]
    BY <2>1 DEF JoinOf
  <2> DEFINE Good(k) == Lists(KeysOf(f[k]), Len(f[k]), UpTo(A, k), R)
             T == {k \in 0 .. n : k # 0 => Good(k)}
  <2>3. \A i \in 1 .. n : Lists(KeysOf(L[i]), Len(L[i]), A[i], R)
    OBVIOUS
  <2>4. \A i, j \in 1 .. n : i < j => \A a \in A[i], b \in A[j] : <<a, b>> \in R
    OBVIOUS
  <2> HIDE DEF n
  <2>5. 0 \in T
    BY <1>1
  <2>6. ASSUME NEW k \in 0 .. (n - 1), k \in T
        PROVE  k + 1 \in T
    <3> DEFINE m == k + 1
    <3>1. m \in 1 .. n /\ m \in 0 .. n /\ m - 1 = k
      BY <1>1
    <3>2. CASE k = 0
      <4>1. m = 1 /\ f[m] = L[1]
        BY <2>2, <3>1, <3>2
      <4>2. UpTo(A, 1) = A[1]
        BY DEF UpTo
      <4>3. Good(m)
        BY <2>3, <3>1, <4>1, <4>2
      <4> QED
        BY <3>1, <4>3
    <3>3. CASE k # 0
      <4>1. k \in 1 .. n /\ f[m] = f[k] \o L[m] /\ Good(k)
        <5>1. k \in 1 .. n /\ m # 1
          BY <1>1, <3>1, <3>3
        <5>2. Good(k)
          BY <2>6, <3>3
        <5> HIDE DEF m, Good
        <5> QED
          BY <2>2, <3>1, <5>1, <5>2
      <4>2. f[k] \in Seq(E) /\ L[m] \in Seq(E) /\ Lists(KeysOf(L[m]), Len(L[m]), A[m], R)
        BY <1>1, <2>2, <2>3, <3>1, <4>1
      <4>3. ASSUME NEW a \in UpTo(A, k), NEW b \in A[m]
            PROVE  <<a, b>> \in R
        <5>1. PICK i \in 1 .. k : a \in A[i]
          BY DEF UpTo
        <5>2. i \in 1 .. n /\ i < m
          BY <1>1, <3>1
        <5> QED
          BY <2>4, <3>1, <5>1, <5>2
      <4>4. Lists(KeysOf(f[k] \o L[m]), Len(f[k] \o L[m]), UpTo(A, k) \cup A[m], R)
        <5> HIDE DEF m
        <5> QED
          BY <4>1, <4>2, <4>3, ListsAppend
      <4>5. UpTo(A, m) = UpTo(A, k) \cup A[m]
        <5>1. 1 .. m = (1 .. k) \cup {m}
          BY <1>1, <3>3
        <5> QED
          BY <5>1 DEF UpTo
      <4>6. Good(m)
        BY <4>1, <4>4, <4>5
      <4> QED
        BY <3>1, <4>6
    <3> QED
      BY <3>2, <3>3
  <2>7. 0 .. n \subseteq T
    <3> HIDE DEF T
    <3> QED
      BY <1>1, <2>5, <2>6, InductionUpTo
  <2>8. Good(n) /\ f[n] \in Seq(E)
    BY <1>1, <1>3, <2>2, <2>7
  <2> QED
    BY <2>1, <2>8 DEF n
<1> QED
  BY <1>2, <1>3

-----------------------------------------------------------------------------
(* The postings of all segments are those of the row.                      *)

LocalWith(seg, f, t) == {d \in LiveIds(seg) : HasTerm(seg, f, t, d)}

(* How often the term is in each of n documents.                           *)
FreqsOf(seg, f, t, ids, n) == [k \in 1 .. n |-> <<ids[k], Cardinality(Positions(seg, f, t, ids[k]))>>]

LEMMA LocalPostings ==
  ASSUME NEW seg, NEW m \in Nat, LocalIds(seg) = 0 .. (m - 1), NEW f, NEW t
  PROVE  /\ LocalWith(seg, f, t) \subseteq LocalIds(seg) /\ LocalIds(seg) \subseteq Nat
         /\ \E ids, n : Lists(ids, n, LocalWith(seg, f, t), Smaller) /\ SegPostings(seg, f, t) = FreqsOf(seg, f, t, ids, n)
<1> DEFINE D == LocalWith(seg, f, t)
           ids == Ascending(D)
           n == Cardinality(D)
<1>1. D \subseteq LocalIds(seg) /\ LocalIds(seg) \subseteq Nat
  BY DEF LocalWith, LiveIds
<1>2. IsFiniteSet(D)
  <2>1. IsFiniteSet(LocalIds(seg))
    BY FS_Interval
  <2> QED
    BY <1>1, <2>1, FS_Subset
<1>3. Lists(ids, n, D, Smaller)
  BY <1>1, <1>2, AscendingLists
<1>4. DOMAIN ids = 1 .. n
  BY <1>3 DEF Lists, Rises
<1>5. SegPostings(seg, f, t) = [k \in DOMAIN ids |-> <<ids[k], Cardinality(Positions(seg, f, t, ids[k]))>>]
  BY DEF SegPostings, LocalWith
<1> HIDE DEF D, ids, n
<1>6. SegPostings(seg, f, t) = FreqsOf(seg, f, t, ids, n)
  BY <1>4, <1>5 DEF FreqsOf
<1> QED
  BY <1>1, <1>3, <1>6 DEF D

(* The ids of segment i with the term, as global ids.                      *)
GlobalWith(ss, f, t, i) == {Base(ss, i) + d : d \in LocalWith(ss[i], f, t)}
Posting(ss, f, t, id) == <<id, Cardinality(PlacesIn(ss, f, t, id))>>
PostingSet(ss, f, t) == {Posting(ss, f, t, id) : id \in LiveWith(ss, f, t)}

(* The postings of one segment, with global ids.                           *)
SegmentGlobally(ss, f, t, i) ==
  [k \in DOMAIN SegPostings(ss[i], f, t) |->
     <<Base(ss, i) + SegPostings(ss[i], f, t)[k][1], SegPostings(ss[i], f, t)[k][2]>>]

LEMMA GlobalPostings ==
  ASSUME NEW ss, IsIndex(ss), NEW f, NEW t, NEW i \in 1 .. Len(ss)
  PROVE  LET q == SegmentGlobally(ss, f, t, i)
         IN  /\ q \in Seq(PostingSet(ss, f, t))
             /\ Lists(KeysOf(q), Len(q), GlobalWith(ss, f, t, i), Smaller)
<1> DEFINE b == Base(ss, i)
           D == LocalWith(ss[i], f, t)
           G == GlobalWith(ss, f, t, i)
           q == SegmentGlobally(ss, f, t, i)
           ps == SegPostings(ss[i], f, t)
           freq(d) == Cardinality(Positions(ss[i], f, t, d))
<1>1. /\ MaxDoc(ss[i]) \in Nat /\ LocalIds(ss[i]) = 0 .. (MaxDoc(ss[i]) - 1)
      /\ Len(ss) \in Nat /\ b \in Nat
  BY Segments, Bases
<1>2. D \subseteq LocalIds(ss[i]) /\ LocalIds(ss[i]) \subseteq Nat
  BY <1>1, LocalPostings
<1>3. PICK ids, n : Lists(ids, n, D, Smaller) /\ ps = FreqsOf(ss[i], f, t, ids, n)
  BY <1>1, LocalPostings
<1>4. Lists(ids, n, D, Smaller) /\ ps = [k \in 1 .. n |-> <<ids[k], freq(ids[k])>>]
  BY <1>3 DEF FreqsOf
<1>5. ASSUME NEW d \in D
      PROVE  /\ b + d \in LiveWith(ss, f, t) /\ b + d \in Nat
             /\ Posting(ss, f, t, b + d) = <<b + d, freq(d)>>
  <2>1. d \in LocalIds(ss[i]) /\ d \in Nat
    BY <1>2
  <2>2. /\ HereIn(ss, f, b + d) = TermsAt(ss[i], f, d) /\ (GoneIn(ss, b + d) <=> d \in ss[i].dead)
        /\ b + d \in IdsIn(ss)
    BY <2>1, AtId, RowAt
  <2>3. d \notin ss[i].dead /\ t \in ToSet(TermsAt(ss[i], f, d))
    BY DEF LocalWith, LiveIds, HasTerm
  <2>4. PlacesIn(ss, f, t, b + d) = Positions(ss[i], f, t, d)
    BY <2>2 DEF PlacesIn, Positions
  <2> QED
    BY <1>1, <2>1, <2>2, <2>3, <2>4 DEF LiveWith, Posting
<1>6. n \in Nat /\ ids \in [1 .. n -> D] /\ \A k, l \in 1 .. n : k < l => <<ids[k], ids[l]>> \in Smaller
  BY <1>4 DEF Lists, Rises
<1>7. q = [k \in DOMAIN ps |-> <<b + ps[k][1], ps[k][2]>>]
  BY DEF SegmentGlobally
<1> HIDE DEF q, ps, b
<1>8. DOMAIN q = 1 .. n /\ \A k \in 1 .. n : q[k] = <<b + ids[k], freq(ids[k])>>
  <2>1. DOMAIN ps = 1 .. n /\ \A k \in 1 .. n : ps[k] = <<ids[k], freq(ids[k])>>
    BY <1>4
  <2> HIDE DEF freq
  <2> QED
    BY <1>7, <2>1
<1> HIDE DEF freq
<1>9. \A k \in 1 .. n : ids[k] \in D /\ q[k] = Posting(ss, f, t, b + ids[k]) /\ q[k] \in PostingSet(ss, f, t)
  BY <1>5, <1>6, <1>8 DEF PostingSet
<1>10. q = [k \in 1 .. n |-> q[k]]
  BY <1>7, <1>8
<1>11. q \in Seq(PostingSet(ss, f, t)) /\ Len(q) = n
  <2>1. q \in [1 .. n -> PostingSet(ss, f, t)]
    BY <1>9, <1>10
  <2> QED
    BY <1>6, <2>1
<1> DEFINE g == KeysOf(q)
<1>12. g = [k \in 1 .. n |-> b + ids[k]]
  <2>1. \A k \in 1 .. n : q[k][1] = b + ids[k]
    BY <1>8
  <2> QED
    BY <1>8, <2>1 DEF KeysOf
<1>13. \A x : x \in G <=> \E d \in D : x = b + d
  BY DEF GlobalWith, b
<1> HIDE DEF g, G, D
<1>14. g \in [1 .. n -> G]
  BY <1>9, <1>12, <1>13
<1>15. ASSUME NEW k \in 1 .. n, NEW l \in 1 .. n, k < l
       PROVE  <<g[k], g[l]>> \in Smaller
  <2>1. ids[k] \in Nat /\ ids[l] \in Nat /\ <<ids[k], ids[l]>> \in Smaller
    BY <1>2, <1>6, <1>9, <1>15
  <2>2. ids[k] < ids[l]
    BY <2>1 DEF Smaller
  <2>3. g[k] = b + ids[k] /\ g[l] = b + ids[l] /\ b \in Nat
    BY <1>1, <1>12
  <2>4. g[k] \in Nat /\ g[l] \in Nat /\ g[k] < g[l]
    BY <2>1, <2>2, <2>3
  <2> QED
    BY <2>4 DEF Smaller
<1>16. ASSUME NEW x \in G
       PROVE  \E k \in 1 .. n : g[k] = x
  <2>1. PICK d \in D : x = b + d
    BY <1>13
  <2>2. PICK k \in 1 .. n : ids[k] = d
    BY <1>4 DEF Lists
  <2> QED
    BY <1>12, <2>1, <2>2
<1>17. Lists(g, n, G, Smaller)
  BY <1>6, <1>14, <1>15, <1>16 DEF Lists, Rises
<1> QED
  BY <1>11, <1>17 DEF g, G, q

(* The live documents with the term, in the order of their ids.            *)
WithTerm(ss, f, t) == Ascending(LiveWith(ss, f, t))

LEMMA PostingsOfAll ==
  ASSUME NEW ss, IsIndex(ss), NEW f, NEW t
  PROVE  /\ PostingsFor(ss, f, t) =
              [k \in DOMAIN WithTerm(ss, f, t) |-> Posting(ss, f, t, WithTerm(ss, f, t)[k])]
         /\ ToSet(WithTerm(ss, f, t)) = LiveWith(ss, f, t)
         /\ {p[1] : p \in ToSet(PostingsFor(ss, f, t))} = LiveWith(ss, f, t)
<1> DEFINE E == PostingSet(ss, f, t)
           L == [i \in DOMAIN ss |-> SegmentGlobally(ss, f, t, i)]
           A == [i \in DOMAIN ss |-> GlobalWith(ss, f, t, i)]
           F == FlattenSeq(L)
           W == LiveWith(ss, f, t)
           ids == WithTerm(ss, f, t)
<1>1. /\ Len(ss) \in Nat /\ DOMAIN ss = 1 .. Len(ss)
      /\ \A i \in 1 .. Len(ss) : MaxDoc(ss[i]) \in Nat /\ LocalIds(ss[i]) = 0 .. (MaxDoc(ss[i]) - 1)
  BY Segments
<1>2. \A i \in 1 .. Len(ss) : L[i] = SegmentGlobally(ss, f, t, i) /\ A[i] = GlobalWith(ss, f, t, i)
  BY <1>1
<1>3. PostingsFor(ss, f, t) = F
  BY DEF PostingsFor, SegmentGlobally
<1>4. DOMAIN L = 1 .. Len(ss) /\ L = [i \in 1 .. Len(ss) |-> L[i]]
  BY <1>1
<1> HIDE DEF L, A, E
<1>5. \A i \in 1 .. Len(ss) : L[i] \in Seq(E) /\ Lists(KeysOf(L[i]), Len(L[i]), A[i], Smaller)
  BY <1>2, GlobalPostings DEF E
<1>6. L \in Seq(Seq(E)) /\ Len(L) = Len(ss)
  BY <1>1, <1>4, <1>5
<1>7. ASSUME NEW i \in 1 .. Len(ss), NEW a \in A[i]
      PROVE  \E d \in LocalIds(ss[i]) : /\ a = Base(ss, i) + d /\ a \in W /\ a \in Nat
                                        /\ Base(ss, i) <= a /\ a < Base(ss, i) + MaxDoc(ss[i])
  <2>1. PICK d \in LocalWith(ss[i], f, t) : a = Base(ss, i) + d
    BY <1>2 DEF GlobalWith
  <2>2. d \in LocalIds(ss[i]) /\ d \notin ss[i].dead /\ t \in ToSet(TermsAt(ss[i], f, d))
    BY DEF LocalWith, LiveIds, HasTerm
  <2>3. a \in W
    BY <2>1, <2>2, AtId, RowAt DEF LiveWith
  <2>4. Base(ss, i) \in Nat /\ d \in 0 .. (MaxDoc(ss[i]) - 1) /\ MaxDoc(ss[i]) \in Nat
    BY <1>1, <2>2, Bases
  <2> QED
    BY <2>1, <2>2, <2>3, <2>4
<1>8. ASSUME NEW i \in 1 .. Len(ss), NEW j \in 1 .. Len(ss), i < j, NEW a \in A[i], NEW b \in A[j]
      PROVE  <<a, b>> \in Smaller
  <2>1. Base(ss, i) + MaxDoc(ss[i]) <= Base(ss, j)
    <3>1. j \in 1 .. (Len(ss) + 1)
      BY <1>1
    <3> QED
      BY <1>8, <3>1, BasesRise
  <2>2. a \in Nat /\ b \in Nat /\ a < Base(ss, i) + MaxDoc(ss[i]) /\ Base(ss, j) <= b
    BY <1>7
  <2>3. Base(ss, i) + MaxDoc(ss[i]) \in Nat /\ Base(ss, j) \in Nat
    <3>1. i \in 1 .. (Len(ss) + 1) /\ j \in 1 .. (Len(ss) + 1) /\ MaxDoc(ss[i]) \in Nat
      BY <1>1
    <3>2. \A k \in 1 .. (Len(ss) + 1) : Base(ss, k) \in Nat
      BY Bases
    <3> QED
      BY <3>1, <3>2
  <2>4. a < b
    BY <2>1, <2>2, <2>3
  <2> QED
    BY <2>2, <2>4 DEF Smaller
<1>9. F \in Seq(E) /\ Lists(KeysOf(F), Len(F), UpTo(A, Len(L)), Smaller)
  BY <1>5, <1>6, <1>8, ListsJoined
<1>10. UpTo(A, Len(L)) = W
  <2>1. ASSUME NEW id \in W
        PROVE  id \in UpTo(A, Len(L))
    <3>1. id \in IdsIn(ss) /\ ~GoneIn(ss, id) /\ t \in ToSet(HereIn(ss, f, id))
      BY DEF LiveWith
    <3>2. PICK i \in 1 .. Len(ss) : \E d \in LocalIds(ss[i]) : id = Base(ss, i) + d
      BY <3>1, RowAt
    <3>3. PICK d \in LocalIds(ss[i]) : id = Base(ss, i) + d
      BY <3>2
    <3>4. d \in LocalWith(ss[i], f, t)
      BY <3>1, <3>3, AtId DEF LocalWith, LiveIds, HasTerm
    <3>5. id \in A[i]
      BY <1>2, <3>3, <3>4 DEF GlobalWith
    <3> QED
      BY <1>6, <3>5 DEF UpTo
  <2>2. ASSUME NEW id \in UpTo(A, Len(L))
        PROVE  id \in W
    BY <1>6, <1>7 DEF UpTo
  <2> QED
    BY <2>1, <2>2
<1>11. W \subseteq Nat
  BY RowAt DEF LiveWith
<1> HIDE DEF F, W, ids
<1>12. Lists(KeysOf(F), Len(F), W, Smaller)
  BY <1>9, <1>10
<1>13. IsFiniteSet(W)
  <2>1. StrictOrder(Smaller, W)
    BY <1>11, SmallerOrders
  <2> QED
    BY <1>12, <2>1, ListLength
<1>14. KeysOf(F) = ids
  BY <1>11, <1>12, <1>13, AscendingLists DEF ids, W, WithTerm
<1>15. DOMAIN F = 1 .. Len(F) /\ Len(F) \in Nat /\ \A k \in 1 .. Len(F) : F[k] \in E
  BY <1>9
<1>16. DOMAIN ids = DOMAIN F /\ \A k \in DOMAIN F : ids[k] = F[k][1]
  BY <1>14 DEF KeysOf
<1>17. \A k \in DOMAIN F : F[k] = Posting(ss, f, t, ids[k])
  <2> SUFFICES ASSUME NEW k \in DOMAIN F
               PROVE  F[k] = Posting(ss, f, t, ids[k])
    OBVIOUS
  <2>1. PICK id : F[k] = Posting(ss, f, t, id)
    BY <1>15 DEF E, PostingSet
  <2>2. F[k][1] = id
    BY <2>1 DEF Posting
  <2> QED
    BY <1>16, <2>1, <2>2
<1>18. F = [k \in DOMAIN ids |-> Posting(ss, f, t, ids[k])]
  <2>1. F = [k \in DOMAIN F |-> F[k]]
    BY <1>9
  <2> QED
    BY <1>16, <1>17, <2>1
<1>19. ToSet(ids) = W
  <2>1. ids \in [1 .. Len(F) -> W] /\ \A a \in W : \E k \in 1 .. Len(F) : ids[k] = a
    BY <1>12, <1>14 DEF Lists, Rises
  <2> QED
    BY <2>1 DEF ToSet
<1>20. {p[1] : p \in ToSet(F)} = W
  <2>1. ToSet(F) = {F[k] : k \in DOMAIN F} /\ ToSet(ids) = {ids[k] : k \in DOMAIN F}
    BY <1>16 DEF ToSet
  <2> QED
    BY <1>16, <1>19, <2>1
<1> QED
  BY <1>3, <1>18, <1>19, <1>20 DEF ids, W

LEMMA PositionsOfAll ==
  ASSUME NEW ss, IsIndex(ss), NEW f, NEW t
  PROVE  PositionsAll(ss, f, t) = [id \in ToSet(WithTerm(ss, f, t)) |-> PlacesIn(ss, f, t, id)]
<1> DEFINE W == LiveWith(ss, f, t)
           At(id) == CHOOSE at \in Locate(ss, id) : TRUE
<1>1. {p[1] : p \in ToSet(PostingsFor(ss, f, t))} = W /\ ToSet(WithTerm(ss, f, t)) = W
  BY PostingsOfAll
<1>2. PositionsAll(ss, f, t) = [id \in W |-> Positions(ss[At(id)[1]], f, t, At(id)[2])]
  BY <1>1 DEF PositionsAll
<1>3. ASSUME NEW id \in W
      PROVE  Positions(ss[At(id)[1]], f, t, At(id)[2]) = PlacesIn(ss, f, t, id)
  <2>1. PICK i \in 1 .. Len(ss) : \E d \in LocalIds(ss[i]) : id = Base(ss, i) + d
    BY RowAt DEF LiveWith
  <2>2. PICK d \in LocalIds(ss[i]) : id = Base(ss, i) + d
    BY <2>1
  <2>3. Locate(ss, id) = {<<i, d>>}
    BY <2>2, Located
  <2>4. At(id) = <<i, d>>
    BY <2>3
  <2> HIDE DEF At
  <2>5. At(id)[1] = i /\ At(id)[2] = d
    BY <2>4
  <2>6. HereIn(ss, f, id) = TermsAt(ss[i], f, d)
    BY <2>2, AtId
  <2> QED
    BY <2>5, <2>6 DEF PlacesIn, Positions
<1> HIDE DEF At, W
<1> QED
  BY <1>1, <1>2, <1>3

-----------------------------------------------------------------------------
(* docFreq adds up.                                                        *)

CountedIn(ss, f, t, n) == {id \in IdsIn(ss) : id < n /\ t \in ToSet(HereIn(ss, f, id))}
LocalCounted(seg, f, t) == {d \in LocalIds(seg) : HasTerm(seg, f, t, d)}

LEMMA DocFreqOfAll ==
  ASSUME NEW ss, IsIndex(ss), NEW f, NEW t
  PROVE  DocFreq(ss, f, t) = Cardinality({id \in IdsIn(ss) : t \in ToSet(HereIn(ss, f, id))})
<1> DEFINE n == Len(ss)
           df == [j \in DOMAIN ss |-> SegDocFreq(ss[j], f, t)]
           Upto(k) == CountedIn(ss, f, t, Base(ss, k + 1))
           T == {k \in 0 .. n : SumOf(df, k) = Cardinality(Upto(k))}
<1>1. /\ n \in Nat /\ DOMAIN ss = 1 .. n
      /\ \A i \in 1 .. n : MaxDoc(ss[i]) \in Nat /\ LocalIds(ss[i]) = 0 .. (MaxDoc(ss[i]) - 1)
  BY Segments
<1>2. /\ Base(ss, 1) = 0
      /\ \A k \in 1 .. (n + 1) : Base(ss, k) \in Nat
      /\ \A k \in 1 .. n : Base(ss, k + 1) = Base(ss, k) + MaxDoc(ss[k])
  BY Bases
<1>3. ASSUME NEW i \in 1 .. n
      PROVE  /\ df[i] = Cardinality(LocalCounted(ss[i], f, t)) /\ df[i] \in Nat
             /\ IsFiniteSet(LocalCounted(ss[i], f, t))
             /\ LocalCounted(ss[i], f, t) \subseteq LocalIds(ss[i])
  <2>1. df[i] = Cardinality(LocalCounted(ss[i], f, t))
    BY <1>1 DEF SegDocFreq, LocalCounted
  <2>2. IsFiniteSet(LocalIds(ss[i]))
    BY <1>1, FS_Interval
  <2>3. LocalCounted(ss[i], f, t) \subseteq LocalIds(ss[i])
    BY DEF LocalCounted
  <2> HIDE DEF df
  <2> QED
    BY <2>1, <2>2, <2>3, FS_Subset, FS_CardinalityType
<1>4. DocFreq(ss, f, t) = SumOf(df, n)
  BY DEF DocFreq
<1> HIDE DEF df, n
<1>5. SumOf(df, 0) = 0 /\ \A k \in 1 .. n : SumOf(df, k) = SumOf(df, k - 1) + df[k]
  BY <1>1, <1>3, SumMore
<1>6. IsFiniteSet(IdsIn(ss)) /\ IdsIn(ss) \subseteq Nat /\ IdsIn(ss) = 0 .. (TotalDocs(ss) - 1) /\ TotalDocs(ss) \in Nat
  BY RowAt, FS_Interval
<1>7. 0 \in T
  <2>1. Upto(0) = {}
    BY <1>2, <1>6 DEF CountedIn
  <2> HIDE DEF Upto
  <2> QED
    BY <1>1, <1>5, <2>1, FS_EmptySet
<1>8. ASSUME NEW k \in 0 .. (n - 1), k \in T
      PROVE  k + 1 \in T
  <2> DEFINE m == k + 1
             b == Base(ss, m)
             D == LocalCounted(ss[m], f, t)
             G == {b + d : d \in D}
             h == [d \in D |-> b + d]
  <2>1. m \in 1 .. n /\ m \in 1 .. (n + 1) /\ m - 1 = k /\ m \in 0 .. n /\ k \in 0 .. n
    BY <1>1
  <2>2. b \in Nat /\ MaxDoc(ss[m]) \in Nat /\ LocalIds(ss[m]) = 0 .. (MaxDoc(ss[m]) - 1)
    BY <1>1, <1>2, <2>1
  <2>3. D \subseteq LocalIds(ss[m]) /\ IsFiniteSet(D) /\ df[m] = Cardinality(D) /\ df[m] \in Nat
    BY <1>3, <2>1
  <2>4. IsFiniteSet(G) /\ Cardinality(G) = Cardinality(D)
    <3>1. \A c, d \in D : b + c = b + d => c = d
      BY <2>2, <2>3
    <3>2. h \in Bijection(D, G)
      BY <3>1 DEF Bijection, Injection, Surjection, IsInjective
    <3> HIDE DEF h, G
    <3> QED
      BY <2>3, <3>2, FS_Bijection DEF ExistsBijection
  <2>5. Base(ss, m + 1) = b + MaxDoc(ss[m])
    BY <1>2, <2>1
  <2>6. ASSUME NEW d \in LocalIds(ss[m])
        PROVE  b + d \in IdsIn(ss) /\ HereIn(ss, f, b + d) = TermsAt(ss[m], f, d)
    <3>1. m \in 1 .. Len(ss)
      BY <2>1 DEF n
    <3> QED
      BY <3>1, AtId, RowAt
  <2> HIDE DEF b
  <2>7. Upto(m) = Upto(k) \cup G
    <3>1. ASSUME NEW id \in Upto(m), id \notin Upto(k)
          PROVE  id \in G
      <4>1. id \in IdsIn(ss) /\ id < Base(ss, m + 1) /\ t \in ToSet(HereIn(ss, f, id)) /\ id \in Nat
        BY <1>6 DEF CountedIn
      <4>2. ~(id < b)
        BY <3>1, <4>1 DEF CountedIn, b
      <4>3. id - b \in LocalIds(ss[m]) /\ b + (id - b) = id
        BY <2>2, <2>5, <4>1, <4>2
      <4>4. id - b \in D
        BY <2>6, <4>1, <4>3 DEF LocalCounted, HasTerm
      <4> QED
        BY <4>3, <4>4
    <3>2. ASSUME NEW id \in Upto(k)
          PROVE  id \in Upto(m)
      <4>1. id \in IdsIn(ss) /\ id < b /\ t \in ToSet(HereIn(ss, f, id)) /\ id \in Nat
        BY <1>6 DEF CountedIn, b
      <4>2. id < Base(ss, m + 1)
        BY <2>2, <2>5, <4>1
      <4> QED
        BY <4>1, <4>2 DEF CountedIn
    <3>3. ASSUME NEW id \in G
          PROVE  id \in Upto(m)
      <4>1. PICK d \in D : id = b + d
        OBVIOUS
      <4>2. d \in LocalIds(ss[m]) /\ t \in ToSet(TermsAt(ss[m], f, d))
        BY DEF LocalCounted, HasTerm
      <4>3. id \in IdsIn(ss) /\ t \in ToSet(HereIn(ss, f, id))
        BY <2>6, <4>1, <4>2
      <4>4. id < Base(ss, m + 1)
        BY <2>2, <2>5, <4>1, <4>2
      <4> QED
        BY <4>3, <4>4 DEF CountedIn
    <3> QED
      BY <3>1, <3>2, <3>3
  <2>8. Upto(k) \cap G = {}
    <3>1. \A id \in Upto(k) : id < b /\ id \in Nat
      BY <1>6 DEF CountedIn, b
    <3>2. \A d \in D : d \in Nat /\ ~(b + d < b)
      BY <2>2, <2>3
    <3> QED
      BY <3>1, <3>2
  <2>9. IsFiniteSet(Upto(k))
    <3>1. Upto(k) \subseteq IdsIn(ss)
      BY DEF CountedIn
    <3> QED
      BY <1>6, <3>1, FS_Subset
  <2>10. SumOf(df, k) = Cardinality(Upto(k))
    BY <1>8
  <2> HIDE DEF Upto, G, m, D
  <2>11. Cardinality(Upto(m)) = Cardinality(Upto(k)) + Cardinality(G)
    <3>1. Cardinality(Upto(k) \cup G) = Cardinality(Upto(k)) + Cardinality(G) - Cardinality(Upto(k) \cap G)
      BY <2>4, <2>9, FS_Union
    <3>2. Cardinality(Upto(k) \cap G) = 0
      BY <2>8, FS_EmptySet
    <3>3. Cardinality(Upto(k)) \in Nat /\ Cardinality(G) \in Nat
      BY <2>4, <2>9, FS_CardinalityType
    <3> QED
      BY <2>7, <3>1, <3>2, <3>3
  <2>12. SumOf(df, m) = Cardinality(Upto(m))
    BY <1>5, <2>1, <2>3, <2>4, <2>10, <2>11
  <2> QED
    BY <2>1, <2>12 DEF m
<1>9. 0 .. n \subseteq T
  <2> HIDE DEF T
  <2> QED
    BY <1>1, <1>7, <1>8, InductionUpTo
<1>10. SumOf(df, n) = Cardinality(Upto(n))
  BY <1>1, <1>9
<1>11. Upto(n) = {id \in IdsIn(ss) : t \in ToSet(HereIn(ss, f, id))}
  <2>1. Base(ss, n + 1) = TotalDocs(ss)
    BY DEF n, TotalDocs
  <2>2. \A id \in IdsIn(ss) : id < TotalDocs(ss)
    BY <1>6
  <2> QED
    BY <2>1, <2>2 DEF CountedIn
<1> QED
  BY <1>4, <1>10, <1>11

-----------------------------------------------------------------------------
(* Several segments answer as one index: SegmentedIndex.                   *)

(* The answer to each question of the row.                                 *)
OneIndex(ss, q, a) ==
  /\ q[1] = "postings" =>
       a = <<[k \in DOMAIN WithTerm(ss, q[2], q[3]) |-> Posting(ss, q[2], q[3], WithTerm(ss, q[2], q[3])[k])],
             Cardinality({id \in IdsIn(ss) : q[3] \in ToSet(HereIn(ss, q[2], id))}),
             [id \in ToSet(WithTerm(ss, q[2], q[3])) |-> PlacesIn(ss, q[2], q[3], id)]>>
  /\ q[1] = "document" =>
       IF q[3] \in IdsIn(ss)
       THEN a = <<GoneIn(ss, q[3]), SegStoredValue(ss[RowOf(ss)[q[3] + 1][1]], RowOf(ss)[q[3] + 1][2], q[2])>>
       ELSE a = <<FALSE, None>>
  /\ q[1] = "prefix" => a = FirstOf(AllTermsIn(ss, q[2]) \cap q[3], q[4])
  /\ q[1] = "range" => a = Ascending({t \in AllTermsIn(ss, q[2]) : q[3] <= t /\ t <= q[4]})

LEMMA AnswersAreOneIndex == AnswersAsOneIndex <=> OneIndex(index, asked, reply)
BY DEF AnswersAsOneIndex, AnswersByGlobalId, FirstTermsOfAll, OneIndex, WithTerm, Posting

LEMMA AnswersAreOneIndexNext == AnswersAsOneIndex' <=> (OneIndex(index, asked, reply))'
BY AnswersAreOneIndex, PTL

(* Every question is answered so.                                          *)
LEMMA QuestionAnswered ==
  ASSUME NEW ss, IsIndex(ss), NEW f
  PROVE  /\ \A t : OneIndex(ss, <<"postings", f, t>>,
                            <<PostingsFor(ss, f, t), DocFreq(ss, f, t), PositionsAll(ss, f, t)>>)
         /\ \A p : \A n \in Nat : OneIndex(ss, <<"prefix", f, p, n>>, TermsWithPrefixLimited(ss, f, p, n))
         /\ \A lo, hi \in Nat : OneIndex(ss, <<"range", f, lo, hi>>, TermsInRange(ss, f, lo, hi))
         /\ \A id \in 0 .. TotalDocs(ss) :
              OneIndex(ss, <<"document", f, id>>, <<IsDeleted(ss, id), StoredValue(ss, id, f)>>)
         /\ \A a : OneIndex(ss, <<"fields", f>>, a)
<1>1. ASSUME NEW t
      PROVE  OneIndex(ss, <<"postings", f, t>>,
                      <<PostingsFor(ss, f, t), DocFreq(ss, f, t), PositionsAll(ss, f, t)>>)
  <2> DEFINE q == <<"postings", f, t>>
  <2>1. q[1] = "postings" /\ q[2] = f /\ q[3] = t
    OBVIOUS
  <2> HIDE DEF q
  <2>2. <<PostingsFor(ss, f, t), DocFreq(ss, f, t), PositionsAll(ss, f, t)>> =
          <<[k \in DOMAIN WithTerm(ss, f, t) |-> Posting(ss, f, t, WithTerm(ss, f, t)[k])],
            Cardinality({id \in IdsIn(ss) : t \in ToSet(HereIn(ss, f, id))}),
            [id \in ToSet(WithTerm(ss, f, t)) |-> PlacesIn(ss, f, t, id)]>>
    BY PostingsOfAll, DocFreqOfAll, PositionsOfAll
  <2>3. OneIndex(ss, q, <<PostingsFor(ss, f, t), DocFreq(ss, f, t), PositionsAll(ss, f, t)>>)
    BY <2>1, <2>2 DEF OneIndex
  <2> QED
    BY <2>3 DEF q
<1>2. ASSUME NEW p, NEW n \in Nat
      PROVE  OneIndex(ss, <<"prefix", f, p, n>>, TermsWithPrefixLimited(ss, f, p, n))
  <2> DEFINE q == <<"prefix", f, p, n>>
  <2>1. q[1] = "prefix" /\ q[2] = f /\ q[3] = p /\ q[4] = n
    OBVIOUS
  <2> HIDE DEF q
  <2>2. OneIndex(ss, q, TermsWithPrefixLimited(ss, f, p, n))
    BY <2>1, PrefixOfAll DEF OneIndex
  <2> QED
    BY <2>2 DEF q
<1>3. ASSUME NEW lo \in Nat, NEW hi \in Nat
      PROVE  OneIndex(ss, <<"range", f, lo, hi>>, TermsInRange(ss, f, lo, hi))
  <2> DEFINE q == <<"range", f, lo, hi>>
  <2>1. q[1] = "range" /\ q[2] = f /\ q[3] = lo /\ q[4] = hi
    OBVIOUS
  <2> HIDE DEF q
  <2>2. lo \in Int /\ hi \in Int
    OBVIOUS
  <2>3. TermsInRange(ss, f, lo, hi) = Ascending({t \in AllTermsIn(ss, f) : lo <= t /\ t <= hi})
    BY <2>2, RangeOfAll
  <2>4. OneIndex(ss, q, TermsInRange(ss, f, lo, hi))
    BY <2>1, <2>3 DEF OneIndex
  <2> QED
    BY <2>4 DEF q
<1>4. ASSUME NEW id \in 0 .. TotalDocs(ss)
      PROVE  OneIndex(ss, <<"document", f, id>>, <<IsDeleted(ss, id), StoredValue(ss, id, f)>>)
  <2> DEFINE q == <<"document", f, id>>
  <2>1. q[1] = "document" /\ q[2] = f /\ q[3] = id
    OBVIOUS
  <2> HIDE DEF q
  <2>2. OneIndex(ss, q, <<IsDeleted(ss, id), StoredValue(ss, id, f)>>)
    BY <2>1, DocumentOfAll DEF OneIndex
  <2> QED
    BY <2>2 DEF q
<1>5. ASSUME NEW a
      PROVE  OneIndex(ss, <<"fields", f>>, a)
  BY DEF OneIndex
<1> QED
  BY <1>1, <1>2, <1>3, <1>4, <1>5

(* However the documents are split into segments and whichever of them are *)
(* deleted: the postings, document counts, positions, first terms of a     *)
(* prefix, terms of a range and stored values are those of one segment     *)
(* with all the documents (zsl/index.rs).                                  *)
THEOREM AnswersAsOneIndexHolds == AskSpec => []AnswersAsOneIndex
<1> DEFINE Inv == index \in Indexes /\ AnswersAsOneIndex
<1>1. AskInit => Inv
  <2> SUFFICES ASSUME AskInit
               PROVE  Inv
    OBVIOUS
  <2>1. index \in Indexes /\ asked[1] = "nothing"
    BY DEF AskInit
  <2>2. OneIndex(index, asked, reply)
    BY <2>1 DEF OneIndex
  <2> QED
    BY <2>1, <2>2, AnswersAreOneIndex
<1>2. Inv /\ [AskNext]_askVars => Inv'
  <2> SUFFICES ASSUME Inv, [AskNext]_askVars
               PROVE  Inv'
    OBVIOUS
  <2>1. index \in Indexes /\ IsIndex(index) /\ OneIndex(index, asked, reply)
    BY AnswersAreOneIndex, IndexesAssumption
  <2>2. index' = index
    BY DEF AskNext, AskPostings, AskPrefix, AskRange, AskDocument, AskFields, Ask, askVars
  <2>3. ASSUME NEW q, NEW a, Ask(q, a), OneIndex(index, q, a)
        PROVE  OneIndex(index, asked', reply')
    BY <2>3 DEF Ask
  <2>4. ASSUME AskPostings
        PROVE  OneIndex(index, asked', reply')
    <3>1. PICK f \in Names, t \in Terms :
            Ask(<<"postings", f, t>>, <<PostingsFor(index, f, t), DocFreq(index, f, t), PositionsAll(index, f, t)>>)
      BY <2>4 DEF AskPostings
    <3> QED
      BY <2>1, <2>3, <3>1, QuestionAnswered
  <2>5. ASSUME AskPrefix
        PROVE  OneIndex(index, asked', reply')
    <3>1. PICK f \in Names, p \in PrefixSets, n \in 0 .. MaxLimit :
            Ask(<<"prefix", f, p, n>>, TermsWithPrefixLimited(index, f, p, n))
      BY <2>5 DEF AskPrefix
    <3>2. n \in Nat
      BY IndexesAssumption
    <3> QED
      BY <2>1, <2>3, <3>1, <3>2, QuestionAnswered
  <2>6. ASSUME AskRange
        PROVE  OneIndex(index, asked', reply')
    <3>1. PICK f \in Names, lo \in Terms, hi \in Terms :
            Ask(<<"range", f, lo, hi>>, TermsInRange(index, f, lo, hi))
      BY <2>6 DEF AskRange
    <3>2. lo \in Nat /\ hi \in Nat
      BY IndexesAssumption
    <3> QED
      BY <2>1, <2>3, <3>1, <3>2, QuestionAnswered
  <2>7. ASSUME AskDocument
        PROVE  OneIndex(index, asked', reply')
    <3>1. PICK f \in Names, id \in 0 .. TotalDocs(index) :
            Ask(<<"document", f, id>>, <<IsDeleted(index, id), StoredValue(index, id, f)>>)
      BY <2>7 DEF AskDocument
    <3> QED
      BY <2>1, <2>3, <3>1, QuestionAnswered
  <2>8. ASSUME AskFields
        PROVE  OneIndex(index, asked', reply')
    <3>1. PICK f \in Names : \E a : Ask(<<"fields", f>>, a)
      BY <2>8 DEF AskFields
    <3> QED
      BY <2>1, <2>3, <3>1, QuestionAnswered
  <2>9. ASSUME UNCHANGED askVars
        PROVE  OneIndex(index, asked', reply')
    BY <2>1, <2>9 DEF askVars
  <2>10. OneIndex(index, asked', reply')
    BY <2>4, <2>5, <2>6, <2>7, <2>8, <2>9 DEF AskNext
  <2> QED
    BY <2>1, <2>2, <2>10, AnswersAreOneIndexNext
<1>3. Inv => AnswersAsOneIndex
  OBVIOUS
<1> QED
  BY <1>1, <1>2, <1>3, PTL DEF AskSpec
=============================================================================
