------------------------- MODULE SegmentMergeProofs -------------------------
(***************************************************************************)
(* For any list of segments whose dictionaries are in order, the streaming *)
(* merge computes what the batch merge defines.                            *)
(*                                                                         *)
(* MergeInv follows the merge through its phases: the fields united are    *)
(* FirstSeen (FieldsSame); what phase 2 wrote is what the live documents   *)
(* before `at` leave (DocsCopied); the cursors and the heap are in step    *)
(* (Cursors) and the TermInfos gathered are all of the term (Gathered), so *)
(* that concatenating their postings gives the term's entry (GatheredIs)   *)
(* and the dictionary is that of the terms every cursor is past (Written). *)
(***************************************************************************)
EXTENDS SegmentMerge, OrderedLists

-----------------------------------------------------------------------------
(* Lists in order, and their concatenation                                 *)

(* The orders of the lists below: of numbers,                              *)
Lower == {p \in Nat \X Nat : p[1] < p[2]}
(* of documents,                                                           *)
Earlier == {p \in (Nat \X Nat) \X (Nat \X Nat) : Before(p[1], p[2])}
(* and of what each segment contributes.                                   *)
SegmentFirst == {p \in (Nat \X Nat) \X (Nat \X Nat) : p[1][1] < p[2][1]}

(* Sorted lists any finite set of numbers.                                 *)
LEMMA SortedNumbers ==
  ASSUME NEW S, IsFiniteSet(S), S \subseteq Nat
  PROVE  /\ StrictOrder(Lower, S)
         /\ Lists(Sorted(S, <), Cardinality(S), S, Lower)
<1> DEFINE n == Cardinality(S)
<1>1. StrictOrder(Lower, S)
  BY SMT DEF StrictOrder, Lower
<1>2. PICK r : Lists(r, n, S, Lower)
  BY <1>1, ListExists
<1>3. r \in [1 .. n -> S] /\ \A i, j \in 1 .. n : i < j => r[i] < r[j]
  BY <1>2 DEF Lists, Rises, Lower
<1> DEFINE q == Sorted(S, <)
<1>4. q \in [1 .. n -> S] /\ \A i, j \in 1 .. n : i < j => q[i] < q[j]
  BY <1>3 DEF Sorted
<1> HIDE DEF q
<1>5. \A i, j \in 1 .. n : i < j => <<q[i], q[j]>> \in Lower
  BY <1>4 DEF Lower
<1>6. Rises(q, n, S, Lower)
  BY <1>4, <1>5, FS_CardinalityType DEF Rises
<1>7. Lists(q, n, S, Lower)
  BY <1>1, <1>6, RisesToLists
<1> QED
  BY <1>1, <1>7 DEF q

(* Two documents are never in the same place, and Before orders them.      *)
LEMMA EarlierOrders ==
  ASSUME NEW S, S \subseteq Nat \X Nat
  PROVE  StrictOrder(Earlier, S)
<1>1. \A a \in Nat \X Nat : a[1] \in Nat /\ a[2] \in Nat /\ a = <<a[1], a[2]>>
  OBVIOUS
<1>2. \A a, b \in Nat \X Nat : <<a, b>> \in Earlier <=> Before(a, b)
  BY DEF Earlier
<1>3. \A a \in Nat \X Nat : ~Before(a, a)
  BY <1>1 DEF Before
<1>4. ASSUME NEW a \in Nat \X Nat, NEW b \in Nat \X Nat, a # b
      PROVE  Before(a, b) \/ Before(b, a)
  <2>1. a[1] # b[1] \/ a[2] # b[2]
    BY <1>1, <1>4
  <2> QED
    BY <1>1, <2>1 DEF Before
<1>5. ASSUME NEW a \in Nat \X Nat, NEW b \in Nat \X Nat, NEW c \in Nat \X Nat,
             Before(a, b), Before(b, c)
      PROVE  Before(a, c)
  BY <1>1, <1>5 DEF Before
<1> QED
  BY <1>2, <1>3, <1>4, <1>5 DEF StrictOrder

(* Sorted lists any finite set of documents.                               *)
LEMMA SortedDocs ==
  ASSUME NEW S, IsFiniteSet(S), S \subseteq Nat \X Nat
  PROVE  Lists(Sorted(S, Before), Cardinality(S), S, Earlier)
<1> DEFINE n == Cardinality(S)
<1>1. StrictOrder(Earlier, S)
  BY EarlierOrders
<1>2. PICK r : Lists(r, n, S, Earlier)
  BY <1>1, ListExists
<1>3. r \in [1 .. n -> S] /\ \A i, j \in 1 .. n : i < j => Before(r[i], r[j])
  BY <1>2 DEF Lists, Rises, Earlier
<1> DEFINE q == Sorted(S, Before)
<1>4. q \in [1 .. n -> S] /\ \A i, j \in 1 .. n : i < j => Before(q[i], q[j])
  BY <1>3 DEF Sorted
<1> HIDE DEF q
<1>5. \A i, j \in 1 .. n : i < j => <<q[i], q[j]>> \in Earlier
  BY <1>4 DEF Earlier
<1>6. Rises(q, n, S, Earlier)
  BY <1>4, <1>5, FS_CardinalityType DEF Rises
<1>7. Lists(q, n, S, Earlier)
  BY <1>1, <1>6, RisesToLists
<1> QED
  BY <1>7 DEF q

(* A sort by segment lists what the segments contribute, one of each.      *)
LEMMA SortedSegments ==
  ASSUME NEW S, IsFiniteSet(S), S \subseteq Nat \X Nat,
         \A c, d \in S : c[1] = d[1] => c = d
  PROVE  Lists(InSegmentOrder(S), Cardinality(S), S, SegmentFirst)
<1> DEFINE n == Cardinality(S)
<1>1. StrictOrder(SegmentFirst, S)
  <2>1. \A c, d \in S : <<c, d>> \in SegmentFirst <=> c[1] < d[1]
    BY DEF SegmentFirst
  <2>2. \A c \in S : c[1] \in Nat
    OBVIOUS
  <2> QED
    BY <2>1, <2>2 DEF StrictOrder
<1>2. PICK r : Lists(r, n, S, SegmentFirst)
  BY <1>1, ListExists
<1>3. r \in [1 .. n -> S] /\ \A i, j \in 1 .. n : i < j => r[i][1] < r[j][1]
  BY <1>2 DEF Lists, Rises, SegmentFirst
<1> DEFINE q == InSegmentOrder(S)
<1>4. q \in [1 .. n -> S] /\ \A i, j \in 1 .. n : i < j => q[i][1] < q[j][1]
  BY <1>3 DEF InSegmentOrder, Sorted
<1> HIDE DEF q
<1>5. \A i, j \in 1 .. n : i < j => <<q[i], q[j]>> \in SegmentFirst
  BY <1>4 DEF SegmentFirst
<1>6. Rises(q, n, S, SegmentFirst)
  BY <1>4, <1>5, FS_CardinalityType DEF Rises
<1>7. Lists(q, n, S, SegmentFirst)
  BY <1>1, <1>6, RisesToLists
<1> QED
  BY <1>7 DEF q

(* Concatenation *)
FlatStep(f, L, n) == IF n = 1 THEN L[n] ELSE f[n - 1] \o L[n]

(* Concatenating list after list: the recursion in FlattenSeq is a function.*)
LEMMA FlatStepsExist ==
  ASSUME NEW L, NEW len \in Nat
  PROVE  \E f : f = [n \in 1 .. len |-> FlatStep(f, L, n)]
<1> DEFINE Upto(m) == \E f : f = [n \in 1 .. m |-> FlatStep(f, L, n)]
           T == {m \in Nat : Upto(m)}
<1>1. Upto(0)
  <2> DEFINE e == [i \in 1 .. 0 |-> i]
  <2>1. e = [n \in 1 .. 0 |-> FlatStep(e, L, n)]
    OBVIOUS
  <2> QED
    BY <2>1
<1>2. ASSUME NEW m \in Nat, Upto(m)
      PROVE  Upto(m + 1)
  <2>1. PICK f : f = [n \in 1 .. m |-> FlatStep(f, L, n)]
    BY <1>2
  <2> DEFINE g == [n \in 1 .. (m + 1) |-> IF n = m + 1 THEN FlatStep(f, L, n) ELSE f[n]]
  <2>2. ASSUME NEW n \in 1 .. (m + 1)
        PROVE  g[n] = FlatStep(g, L, n)
    <3>1. CASE n = m + 1
      BY <3>1 DEF FlatStep
    <3>2. CASE n # m + 1
      <4>1. n \in 1 .. m
        BY <3>2
      <4>2. g[n] = FlatStep(f, L, n)
        BY <2>1, <4>1, <3>2
      <4> QED
        BY <4>1, <4>2 DEF FlatStep
    <3> QED
      BY <3>1, <3>2
  <2>3. g = [n \in 1 .. (m + 1) |-> FlatStep(g, L, n)]
    BY <2>2
  <2> HIDE DEF g
  <2> QED
    BY <2>3
<1> HIDE DEF Upto
<1>3. Nat \subseteq T
  <2> HIDE DEF T
  <2>1. 0 \in T /\ \A m \in Nat : m \in T => m + 1 \in T
    BY <1>1, <1>2 DEF T
  <2> QED
    BY <2>1, NaturalInduction
<1> QED
  BY <1>3 DEF Upto

(* FlattenSeq takes one list after the other.                              *)
LEMMA FlattenInSteps ==
  ASSUME NEW L, Len(L) \in Nat \ {0}
  PROVE  \E f : /\ f = [n \in 1 .. Len(L) |-> FlatStep(f, L, n)]
                /\ FlattenSeq(L) = f[Len(L)]
<1> DEFINE flat[n \in 1 .. Len(L)] == IF n = 1 THEN L[n] ELSE flat[n - 1] \o L[n]
<1>1. FlattenSeq(L) = flat[Len(L)]
  BY DEF FlattenSeq
<1>2. flat = [n \in 1 .. Len(L) |-> FlatStep(flat, L, n)]
  BY FlatStepsExist DEF FlatStep
<1> HIDE DEF flat
<1> QED
  BY <1>1, <1>2

(* The places of the first n of the lists L.                               *)
Places(L, n) == {p \in (1 .. n) \X Nat : p[2] \in 1 .. Len(L[p[1]])}

(* F has what the first n of the lists L have, in order; w is where from.  *)
Flat(F, w, L, n, E) ==
  /\ F \in Seq(E)
  /\ Lists(w, Len(F), Places(L, n), Earlier)
  /\ \A m \in 1 .. Len(F) : F[m] = L[w[m][1]][w[m][2]]

(* One more list is concatenated after all places of those before.         *)
LEMMA FlatMore ==
  ASSUME NEW E, NEW L \in Seq(Seq(E)), NEW n \in Nat, n + 1 <= Len(L),
         NEW F, NEW w, Flat(F, w, L, n, E)
  PROVE  \E v : Flat(F \o L[n + 1], v, L, n + 1, E)
<1> DEFINE D == L[n + 1]
           G == F \o D
           v == [m \in 1 .. Len(G) |-> IF m <= Len(F) THEN w[m]
                                       ELSE <<n + 1, m - Len(F)>>]
<1>1. D \in Seq(E) /\ F \in Seq(E) /\ Len(D) \in Nat /\ Len(F) \in Nat
  BY DEF Flat
<1>2. /\ G \in Seq(E)
      /\ Len(G) = Len(F) + Len(D)
      /\ \A m \in 1 .. Len(G) : G[m] = IF m <= Len(F) THEN F[m] ELSE D[m - Len(F)]
  BY <1>1, ConcatProperties
<1>3. /\ w \in [1 .. Len(F) -> Places(L, n)]
      /\ \A i, j \in 1 .. Len(F) : i < j => <<w[i], w[j]>> \in Earlier
      /\ \A p \in Places(L, n) : \E i \in 1 .. Len(F) : w[i] = p
      /\ \A m \in 1 .. Len(F) : F[m] = L[w[m][1]][w[m][2]]
  BY DEF Flat, Lists, Rises
<1>4. \A p : p \in Places(L, n + 1) <=>
                \/ p \in Places(L, n)
                \/ \E k \in 1 .. Len(D) : p = <<n + 1, k>>
  <2>1. \A p \in Places(L, n) : p \in Places(L, n + 1)
    BY DEF Places
  <2>2. \A k \in 1 .. Len(D) : <<n + 1, k>> \in Places(L, n + 1)
    BY DEF Places
  <2>3. ASSUME NEW p \in Places(L, n + 1), p \notin Places(L, n)
        PROVE  \E k \in 1 .. Len(D) : p = <<n + 1, k>>
    <3>1. p \in (1 .. (n + 1)) \X Nat /\ p[2] \in 1 .. Len(L[p[1]])
      BY DEF Places
    <3>2. p[1] = n + 1
      BY <2>3, <3>1 DEF Places
    <3> QED
      BY <3>1, <3>2
  <2> QED
    BY <2>1, <2>2, <2>3
<1> HIDE DEF G, D
<1>5. ASSUME NEW m \in 1 .. Len(G)
      PROVE  /\ m <= Len(F) => m \in 1 .. Len(F) /\ v[m] = w[m] /\ v[m] \in Places(L, n)
             /\ ~(m <= Len(F)) => m - Len(F) \in 1 .. Len(D) /\ v[m] = <<n + 1, m - Len(F)>>
  <2>1. m <= Len(F) => m \in 1 .. Len(F)
    BY <1>1, <1>2
  <2>2. ~(m <= Len(F)) => m - Len(F) \in 1 .. Len(D)
    BY <1>1, <1>2
  <2>3. v[m] = IF m <= Len(F) THEN w[m] ELSE <<n + 1, m - Len(F)>>
    OBVIOUS
  <2> HIDE DEF v
  <2>4. m <= Len(F) => w[m] \in Places(L, n)
    BY <1>3, <2>1
  <2> QED
    BY <2>1, <2>2, <2>3, <2>4
<1>6. v \in [1 .. Len(G) -> Places(L, n + 1)]
  <2>1. \A m \in 1 .. Len(G) : v[m] \in Places(L, n + 1)
    BY <1>4, <1>5
  <2> QED
    BY <2>1
<1>7. \A m \in 1 .. Len(G) : G[m] = L[v[m][1]][v[m][2]]
  <2> SUFFICES ASSUME NEW m \in 1 .. Len(G)
               PROVE  G[m] = L[v[m][1]][v[m][2]]
    OBVIOUS
  <2>1. CASE m <= Len(F)
    BY <1>2, <1>3, <1>5, <2>1
  <2>2. CASE ~(m <= Len(F))
    BY <1>2, <1>5, <2>2 DEF D
  <2> QED
    BY <2>1, <2>2
<1>8. ASSUME NEW p \in Places(L, n + 1)
      PROVE  \E m \in 1 .. Len(G) : v[m] = p
  <2>1. CASE p \in Places(L, n)
    <3>1. PICK m \in 1 .. Len(F) : w[m] = p
      BY <1>3, <2>1
    <3>2. m \in 1 .. Len(G) /\ m <= Len(F)
      BY <1>1, <1>2
    <3> QED
      BY <1>5, <3>1, <3>2
  <2>2. CASE \E k \in 1 .. Len(D) : p = <<n + 1, k>>
    <3>1. PICK k \in 1 .. Len(D) : p = <<n + 1, k>>
      BY <2>2
    <3>2. k + Len(F) \in 1 .. Len(G) /\ ~(k + Len(F) <= Len(F)) /\ (k + Len(F)) - Len(F) = k
      BY <1>1, <1>2
    <3> QED
      BY <3>1, <3>2
  <2> QED
    BY <1>4, <2>1, <2>2
<1>9. ASSUME NEW i \in 1 .. Len(G), NEW j \in 1 .. Len(G), i < j
      PROVE  <<v[i], v[j]>> \in Earlier
  <2>1. CASE j <= Len(F)
    <3>1. i <= Len(F)
      BY <1>1, <1>2, <1>9, <2>1
    <3> QED
      BY <1>3, <1>5, <1>9, <2>1, <3>1
  <2>2. CASE i <= Len(F) /\ ~(j <= Len(F))
    <3>1. v[i] \in Places(L, n) /\ v[j] = <<n + 1, j - Len(F)>> /\ j - Len(F) \in 1 .. Len(D)
      BY <1>5, <2>2
    <3> HIDE DEF v
    <3>2. v[i] \in (1 .. n) \X Nat
      BY <3>1 DEF Places
    <3>3. v[i] \in Nat \X Nat /\ v[i][1] \in 1 .. n
      BY SMTT(30), <3>2
    <3>4. j - Len(F) \in Nat
      BY <3>1, <1>1
    <3>5. v[j] \in Nat \X Nat /\ v[j][1] = n + 1
      BY SMTT(30), <3>1, <3>4
    <3>6. v[i][1] < v[j][1]
      BY SMTT(30), <3>3, <3>5
    <3> QED
      BY <3>3, <3>5, <3>6 DEF Earlier, Before
  <2>3. CASE ~(i <= Len(F)) /\ ~(j <= Len(F))
    <3>1. /\ v[i] = <<n + 1, i - Len(F)>> /\ i - Len(F) \in 1 .. Len(D)
          /\ v[j] = <<n + 1, j - Len(F)>> /\ j - Len(F) \in 1 .. Len(D)
      BY <1>5, <2>3
    <3>2. i - Len(F) < j - Len(F)
      BY <1>1, <1>9
    <3> HIDE DEF v
    <3>3. v[i] \in Nat \X Nat /\ v[j] \in Nat \X Nat /\ Before(v[i], v[j])
      BY SMTT(30), <1>1, <3>1, <3>2 DEF Before
    <3> QED
      BY <3>3 DEF Earlier
  <2> QED
    BY <1>1, <1>2, <1>9, <2>1, <2>2, <2>3
<1>10. Len(G) \in Nat
  BY <1>1, <1>2
<1> HIDE DEF v
<1>11. Flat(G, v, L, n + 1, E)
  BY <1>2, <1>6, <1>7, <1>8, <1>9, <1>10 DEF Flat, Lists, Rises
<1> QED
  BY <1>11 DEF G, D

(* FlattenSeq has what the lists have, list by list.                       *)
LEMMA Flattened ==
  ASSUME NEW E, NEW L \in Seq(Seq(E))
  PROVE  \E w : Flat(FlattenSeq(L), w, L, Len(L), E)
<1>1. Len(L) \in Nat
  OBVIOUS
<1>2. \E w : Flat(<<>>, w, L, 0, E)
  <2> DEFINE w == [i \in 1 .. 0 |-> i]
  <2>1. Places(L, 0) = {}
    BY DEF Places
  <2>2. <<>> \in Seq(E) /\ Len(<<>>) = 0
    OBVIOUS
  <2>3. Lists(w, 0, Places(L, 0), Earlier)
    BY <2>1 DEF Lists, Rises
  <2>4. Flat(<<>>, w, L, 0, E)
    BY <2>2, <2>3 DEF Flat
  <2> QED
    BY <2>4
<1>3. CASE Len(L) = 0
  <2>1. L = <<>>
    BY <1>3, EmptySeq
  <2>2. FlattenSeq(L) = <<>>
    BY <1>3, <2>1 DEF FlattenSeq
  <2> QED
    BY <1>2, <1>3, <2>2
<1>4. CASE Len(L) # 0
  <2>1. PICK f : /\ f = [n \in 1 .. Len(L) |-> FlatStep(f, L, n)]
                 /\ FlattenSeq(L) = f[Len(L)]
    BY <1>1, <1>4, FlattenInSteps
  <2> DEFINE g == [n \in 0 .. Len(L) |-> IF n = 0 THEN <<>> ELSE f[n]]
             T == {n \in 0 .. Len(L) : \E w : Flat(g[n], w, L, n, E)}
  <2>2. 0 \in T
    <3>1. g[0] = <<>> /\ 0 \in 0 .. Len(L)
      BY <1>1
    <3> HIDE DEF g
    <3> QED
      BY <1>2, <3>1
  <2>3. ASSUME NEW n \in 0 .. (Len(L) - 1), n \in T
        PROVE  n + 1 \in T
    <3>1. PICK w : Flat(g[n], w, L, n, E)
      BY <2>3
    <3>2. n \in Nat /\ n + 1 <= Len(L) /\ n + 1 \in 1 .. Len(L)
      BY <1>1
    <3>3. g[n + 1] = g[n] \o L[n + 1]
      <4>1. g[n + 1] = FlatStep(f, L, n + 1)
        <5>1. g[n + 1] = f[n + 1]
          BY <3>2
        <5> HIDE DEF g
        <5> QED
          BY <2>1, <3>2, <5>1
      <4>2. CASE n = 0
        <5>1. g[n + 1] = L[n + 1] /\ g[n] = <<>> /\ L[n + 1] \in Seq(E)
          BY <3>2, <4>1, <4>2 DEF FlatStep
        <5> HIDE DEF g
        <5>2. <<>> \o L[n + 1] = L[n + 1]
          BY <5>1
        <5> QED
          BY <5>1, <5>2
      <4>3. CASE n # 0
        <5>1. g[n] = f[n] /\ n + 1 # 1 /\ (n + 1) - 1 = n
          BY <3>2, <4>3
        <5> HIDE DEF g
        <5> QED
          BY <4>1, <5>1 DEF FlatStep
      <4> QED
        BY <4>2, <4>3
    <3> HIDE DEF g
    <3>4. \E v : Flat(g[n + 1], v, L, n + 1, E)
      BY <3>1, <3>2, <3>3, FlatMore
    <3> QED
      BY <3>2, <3>4
  <2>4. 0 .. Len(L) \subseteq T
    <3> HIDE DEF T
    <3> QED
      BY <1>1, <2>2, <2>3, InductionUpTo
  <2>5. Len(L) \in T /\ g[Len(L)] = f[Len(L)]
    BY <1>1, <1>4, <2>4
  <2> QED
    BY <2>1, <2>5
<1> QED
  BY <1>3, <1>4

-----------------------------------------------------------------------------
(* The fields                                                              *)

(* What Append does to a sequence whose elements have no type of their own.*)
LEMMA AppendOne ==
  ASSUME NEW s, s \in Seq(Range(s)), NEW e
  PROVE  LET t == Append(s, e)
         IN /\ t \in Seq(Range(t))
            /\ Len(s) \in Nat
            /\ DOMAIN s = 1 .. Len(s)
            /\ DOMAIN t = 1 .. (Len(s) + 1)
            /\ \A i \in 1 .. Len(s) : t[i] = s[i]
            /\ t[Len(s) + 1] = e
<1> DEFINE t == Append(s, e)
<1>1. Len(s) \in Nat /\ DOMAIN s = 1 .. Len(s) /\ s \in [1 .. Len(s) -> Range(s)]
  OBVIOUS
<1>2. s \in Seq(Range(s) \cup {e})
  BY <1>1
<1>3. /\ t \in Seq(Range(s) \cup {e})
      /\ Len(t) = Len(s) + 1
      /\ \A i \in 1 .. Len(s) : t[i] = s[i]
      /\ t[Len(s) + 1] = e
  BY <1>2, AppendProperties
<1>4. DOMAIN t = 1 .. Len(t) /\ Len(t) \in Nat
  BY <1>3
<1>5. t \in Seq(Range(t))
  <2> HIDE DEF t
  <2>1. t \in [1 .. Len(t) -> Range(s) \cup {e}]
    BY <1>3
  <2>2. \A i \in 1 .. Len(t) : t[i] \in Range(t)
    BY <1>4 DEF Range
  <2>3. t \in [1 .. Len(t) -> Range(t)]
    BY <2>1, <2>2
  <2> QED
    BY <1>4, <2>3
<1> QED
  BY <1>1, <1>3, <1>4, <1>5

(* What a segment says of a field.                                         *)
Infos == [name : STRING, indexed : BOOLEAN]

(* The positions, up to n, where a name is first seen.                     *)
Firsts(all, n) == {i \in 1 .. n : \A j \in 1 .. (i - 1) : all[j].name # all[i].name}

(* The name at i is indexed by one of the first n.                         *)
IndexedBy(all, n, i) == \E j \in 1 .. n : all[j].name = all[i].name /\ all[j].indexed

(* The united field of the name at i.                                      *)
FieldAt(all, n, i) == [name |-> all[i].name, indexed |-> IndexedBy(all, n, i)]

(* u unites the first n of all.                                            *)
Unites(u, all, n) ==
  \E q : /\ Lists(q, Cardinality(Firsts(all, n)), Firsts(all, n), Lower)
         /\ u = [k \in 1 .. Cardinality(Firsts(all, n)) |-> FieldAt(all, n, q[k])]

(* One turn of the loop over the fields of all segments.                   *)
UnitedStep(f, all, n) == IF n = 0 THEN <<>> ELSE Seen(f[n - 1], all[n])

(* The recursion in United is a function.                                  *)
LEMMA UnitedStepsExist ==
  ASSUME NEW all, NEW len \in Nat
  PROVE  \E f : f = [n \in 0 .. len |-> UnitedStep(f, all, n)]
<1> DEFINE Upto(m) == \E f : f = [n \in 0 .. m |-> UnitedStep(f, all, n)]
           T == {m \in Nat : Upto(m)}
<1>1. Upto(0)
  <2>1. [n \in 0 .. 0 |-> <<>>]
          = [n \in 0 .. 0 |-> UnitedStep([i \in 0 .. 0 |-> <<>>], all, n)]
    BY DEF UnitedStep
  <2> QED
    BY <2>1
<1>2. ASSUME NEW m \in Nat, Upto(m)
      PROVE  Upto(m + 1)
  <2>1. PICK f : f = [n \in 0 .. m |-> UnitedStep(f, all, n)]
    BY <1>2
  <2> DEFINE g == [n \in 0 .. (m + 1) |-> IF n = m + 1 THEN UnitedStep(f, all, n) ELSE f[n]]
  <2>2. ASSUME NEW n \in 0 .. (m + 1)
        PROVE  g[n] = UnitedStep(g, all, n)
    <3>1. CASE n = m + 1
      BY <3>1 DEF UnitedStep
    <3>2. CASE n # m + 1
      <4>1. n \in 0 .. m
        BY <3>2
      <4>2. g[n] = UnitedStep(f, all, n)
        BY <2>1, <4>1, <3>2
      <4> QED
        BY <4>1, <4>2 DEF UnitedStep
    <3> QED
      BY <3>1, <3>2
  <2>3. g = [n \in 0 .. (m + 1) |-> UnitedStep(g, all, n)]
    BY <2>2
  <2> HIDE DEF g
  <2> QED
    BY <2>3
<1> HIDE DEF Upto
<1>3. Nat \subseteq T
  <2> HIDE DEF T
  <2>1. 0 \in T /\ \A m \in Nat : m \in T => m + 1 \in T
    BY <1>1, <1>2 DEF T
  <2> QED
    BY <2>1, NaturalInduction
<1> QED
  BY <1>3 DEF Upto

(* United takes one field after the other.                                 *)
LEMMA UnitedInSteps ==
  ASSUME NEW all, Len(all) \in Nat
  PROVE  \E f : /\ f = [n \in 0 .. Len(all) |-> UnitedStep(f, all, n)]
                /\ United(all) = f[Len(all)]
<1> DEFINE upTo[n \in 0 .. Len(all)] ==
              IF n = 0 THEN <<>> ELSE Seen(upTo[n - 1], all[n])
<1>1. United(all) = upTo[Len(all)]
  BY DEF United
<1>2. upTo = [n \in 0 .. Len(all) |-> UnitedStep(upTo, all, n)]
  BY UnitedStepsExist DEF UnitedStep
<1> HIDE DEF upTo
<1> QED
  BY <1>1, <1>2

(* The first places of names are finitely many numbers.                    *)
LEMMA FirstsFinite ==
  ASSUME NEW all, NEW n \in Nat
  PROVE  /\ IsFiniteSet(Firsts(all, n)) /\ Firsts(all, n) \subseteq 1 .. n
         /\ Cardinality(Firsts(all, n)) \in Nat
         /\ StrictOrder(Lower, Firsts(all, n))
<1>1. Firsts(all, n) \in SUBSET (1 .. n) /\ IsFiniteSet(1 .. n)
  BY FS_Interval DEF Firsts
<1>2. IsFiniteSet(Firsts(all, n))
  BY <1>1, FS_Subset
<1>3. Firsts(all, n) \subseteq Nat
  BY <1>1
<1> QED
  BY <1>1, <1>2, <1>3, FS_CardinalityType, SortedNumbers

(* Each of the first n has the name of a first one.                        *)
LEMMA FirstOfName ==
  ASSUME NEW all, NEW n \in Nat, NEW i \in 1 .. n
  PROVE  \E j \in Firsts(all, n) : all[j].name = all[i].name
<1> DEFINE T == {j \in 1 .. n : all[j].name = all[i].name}
<1>1. T \subseteq Nat /\ T # {}
  OBVIOUS
<1>2. PICK j \in T : \A k \in T : j <= k
  BY <1>1, LeastNatural
<1>3. \A k \in 1 .. (j - 1) : all[k].name # all[j].name
  <2> SUFFICES ASSUME NEW k \in 1 .. (j - 1), all[k].name = all[j].name
               PROVE  FALSE
    OBVIOUS
  <2>1. k \in T /\ k < j
    OBVIOUS
  <2> QED
    BY <1>2, <2>1
<1>4. j \in Firsts(all, n)
  BY <1>3 DEF Firsts
<1> QED
  BY <1>4

(* One more field: its name is new and comes last, or it is known and may  *)
(* become indexed.                                                         *)
LEMMA UnitesMore ==
  ASSUME NEW all \in Seq(Infos), NEW n \in Nat, n + 1 <= Len(all),
         NEW u, Unites(u, all, n)
  PROVE  Unites(Seen(u, all[n + 1]), all, n + 1)
<1> DEFINE S == Firsts(all, n)
           c == Cardinality(S)
           fi == all[n + 1]
<1>1. PICK q : /\ Lists(q, c, S, Lower)
               /\ u = [k \in 1 .. c |-> FieldAt(all, n, q[k])]
  BY DEF Unites
<1>2. S \subseteq 1 .. n /\ c \in Nat /\ n + 1 \in 1 .. (n + 1)
  BY FirstsFinite
<1>3. \A i \in 1 .. (n + 1) : all[i] \in Infos
  <2>1. \A i \in 1 .. Len(all) : all[i] \in Infos
    OBVIOUS
  <2>2. \A i \in 1 .. (n + 1) : i \in 1 .. Len(all)
    OBVIOUS
  <2> QED
    BY <2>1, <2>2
<1> HIDE DEF c
<1>4. /\ q \in [1 .. c -> S]
      /\ \A a \in S : \E k \in 1 .. c : q[k] = a
  BY <1>1 DEF Lists, Rises
<1>5. \A k \in 1 .. c : q[k] \in S /\ q[k] \in 1 .. n
  BY <1>2, <1>4
<1>6. DOMAIN u = 1 .. c /\ \A k \in 1 .. c : u[k] = FieldAt(all, n, q[k])
  BY <1>1
<1>7. ASSUME NEW i \in 1 .. n
      PROVE  IndexedBy(all, n + 1, i) <=>
               IndexedBy(all, n, i) \/ (fi.name = all[i].name /\ fi.indexed)
  <2>1. \A j : j \in 1 .. (n + 1) <=> j \in 1 .. n \/ j = n + 1
    OBVIOUS
  <2> QED
    BY <2>1 DEF IndexedBy
<1>8. \A i : i \in Firsts(all, n + 1) <=>
               i \in S \/ (i = n + 1 /\ \A j \in 1 .. n : all[j].name # fi.name)
  <2>1. \A i : i \in 1 .. (n + 1) <=> i \in 1 .. n \/ i = n + 1
    OBVIOUS
  <2>2. (n + 1) - 1 = n /\ n + 1 \notin 1 .. n
    OBVIOUS
  <2> QED
    BY <2>1, <2>2 DEF Firsts
<1>9. CASE \E i \in DOMAIN u : u[i].name = fi.name
  <2>1. PICK k \in 1 .. c : all[q[k]].name = fi.name
    BY <1>6, <1>9 DEF FieldAt
  <2>2. Firsts(all, n + 1) = S
    BY <1>5, <1>8, <2>1
  <2> DEFINE v == [i \in DOMAIN u |-> IF u[i].name = fi.name
                      THEN [u[i] EXCEPT !.indexed = @ \/ fi.indexed] ELSE u[i]]
  <2>3. Seen(u, fi) = v
    BY <1>9 DEF Seen
  <2>4. ASSUME NEW i \in 1 .. c
        PROVE  v[i] = FieldAt(all, n + 1, q[i])
    <3>1. u[i] = [name |-> all[q[i]].name, indexed |-> IndexedBy(all, n, q[i])]
      BY <1>6 DEF FieldAt
    <3>2. v[i] = IF all[q[i]].name = fi.name
                 THEN [u[i] EXCEPT !.indexed = @ \/ fi.indexed] ELSE u[i]
      BY <1>6, <3>1
    <3>3. q[i] \in 1 .. n
      BY <1>5
    <3>4. CASE all[q[i]].name = fi.name
      <4>1. v[i] = [name |-> all[q[i]].name, indexed |-> IndexedBy(all, n, q[i]) \/ fi.indexed]
        BY <3>1, <3>2, <3>4
      <4>2. IndexedBy(all, n + 1, q[i]) <=> IndexedBy(all, n, q[i]) \/ fi.indexed
        BY <1>7, <3>3, <3>4
      <4>3. (IndexedBy(all, n, q[i]) \/ fi.indexed) = IndexedBy(all, n + 1, q[i])
        BY <4>2 DEF IndexedBy
      <4> QED
        BY <4>1, <4>3 DEF FieldAt
    <3>5. CASE all[q[i]].name # fi.name
      <4>1. IndexedBy(all, n + 1, q[i]) = IndexedBy(all, n, q[i])
        <5>1. IndexedBy(all, n + 1, q[i]) <=> IndexedBy(all, n, q[i])
          BY <1>7, <3>3, <3>5
        <5> QED
          BY <5>1 DEF IndexedBy
      <4> QED
        BY <3>1, <3>2, <3>5, <4>1 DEF FieldAt
    <3> QED
      BY <3>4, <3>5
  <2>5. DOMAIN v = 1 .. c
    BY <1>6
  <2> HIDE DEF v
  <2>6. v = [i \in 1 .. c |-> FieldAt(all, n + 1, q[i])]
    <3>1. v = [i \in DOMAIN v |-> v[i]]
      BY <2>3 DEF v
    <3> QED
      BY <2>4, <2>5, <3>1
  <2> QED
    BY <1>1, <2>2, <2>3, <2>6 DEF Unites, c
<1>10. CASE ~ \E i \in DOMAIN u : u[i].name = fi.name
  <2>1. \A k \in 1 .. c : all[q[k]].name # fi.name
    BY <1>6, <1>10 DEF FieldAt
  <2>2. \A j \in 1 .. n : all[j].name # fi.name
    <3> SUFFICES ASSUME NEW j \in 1 .. n, all[j].name = fi.name
                 PROVE  FALSE
      OBVIOUS
    <3>1. PICK i \in S : all[i].name = all[j].name
      BY FirstOfName
    <3>2. PICK k \in 1 .. c : q[k] = i
      BY <1>4
    <3> QED
      BY <2>1, <3>1, <3>2
  <2>3. Firsts(all, n + 1) = S \cup {n + 1}
    BY <1>8, <2>2
  <2> DEFINE r == [i \in 1 .. (c + 1) |-> IF i = c + 1 THEN n + 1 ELSE q[i]]
  <2>4. Lists(r, c + 1, S \cup {n + 1}, Lower)
    <3>1. \A a \in S : <<a, n + 1>> \in Lower
      BY <1>2 DEF Lower
    <3> HIDE DEF S
    <3> QED
      BY <1>1, <3>1, ListMore
  <2>5. Cardinality(Firsts(all, n + 1)) = c + 1
    <3>1. IsFiniteSet(S) /\ n + 1 \notin S
      BY <1>2, FirstsFinite
    <3> HIDE DEF S
    <3> QED
      BY <2>3, <3>1, FS_AddElement DEF c
  <2>6. Seen(u, fi) = Append(u, fi)
    BY <1>10 DEF Seen
  <2>7. Len(u) = c /\ u \in Seq(Range(u))
    <3>1. DOMAIN u = 1 .. c /\ c \in Nat /\ u = [i \in 1 .. c |-> u[i]]
      BY <1>1, <1>2
    <3>2. \A i \in 1 .. c : u[i] \in Range(u)
      BY <3>1 DEF Range
    <3>3. u \in [1 .. c -> Range(u)]
      BY <3>1, <3>2
    <3> QED
      BY <3>1, <3>3
  <2> DEFINE v == Append(u, fi)
  <2>8. /\ v \in Seq(Range(v)) /\ DOMAIN v = 1 .. (c + 1)
        /\ \A i \in 1 .. c : v[i] = u[i]
        /\ v[c + 1] = fi
    BY <2>7, AppendOne
  <2> HIDE DEF v
  <2>9. ASSUME NEW i \in 1 .. (c + 1)
        PROVE  v[i] = FieldAt(all, n + 1, r[i])
    <3>1. CASE i = c + 1
      <4>1. r[i] = n + 1 /\ v[i] = fi
        BY <2>8, <3>1
      <4>2. fi \in Infos
        BY <1>2, <1>3
      <4>3. IndexedBy(all, n + 1, n + 1) <=> fi.indexed
        <5>1. \A j : j \in 1 .. (n + 1) <=> j \in 1 .. n \/ j = n + 1
          OBVIOUS
        <5> QED
          BY <2>2, <5>1 DEF IndexedBy
      <4>4. IndexedBy(all, n + 1, n + 1) = fi.indexed
        BY <4>2, <4>3 DEF IndexedBy, Infos
      <4>5. fi = [name |-> fi.name, indexed |-> fi.indexed]
        BY <4>2 DEF Infos
      <4> QED
        BY <4>1, <4>4, <4>5 DEF FieldAt
    <3>2. CASE i # c + 1
      <4>1. i \in 1 .. c
        BY <1>2, <3>2
      <4>2. r[i] = q[i] /\ q[i] \in 1 .. n /\ v[i] = FieldAt(all, n, q[i])
        BY <1>5, <1>6, <2>8, <3>2, <4>1
      <4>3. IndexedBy(all, n + 1, q[i]) = IndexedBy(all, n, q[i])
        <5>1. fi.name # all[q[i]].name
          BY <2>2, <4>2
        <5>2. IndexedBy(all, n + 1, q[i]) <=> IndexedBy(all, n, q[i])
          BY <1>7, <4>2, <5>1
        <5> QED
          BY <5>2 DEF IndexedBy
      <4> QED
        BY <4>2, <4>3 DEF FieldAt
    <3> QED
      BY <3>1, <3>2
  <2> HIDE DEF r
  <2>10. v = [i \in 1 .. (c + 1) |-> FieldAt(all, n + 1, r[i])]
    <3>1. v = [i \in DOMAIN v |-> v[i]]
      BY <2>8
    <3> QED
      BY <2>8, <2>9, <3>1
  <2> QED
    BY <2>3, <2>4, <2>5, <2>6, <2>10 DEF Unites, v
<1> QED
  BY <1>9, <1>10

(* After all fields: each name once, where it is first seen, indexed if any*)
(* segment says so.                                                        *)
LEMMA UnitedUnites ==
  ASSUME NEW all \in Seq(Infos)
  PROVE  Unites(United(all), all, Len(all))
<1>1. Len(all) \in Nat
  OBVIOUS
<1>2. PICK f : /\ f = [n \in 0 .. Len(all) |-> UnitedStep(f, all, n)]
               /\ United(all) = f[Len(all)]
  BY <1>1, UnitedInSteps
<1> DEFINE T == {n \in 0 .. Len(all) : Unites(f[n], all, n)}
<1>3. 0 \in T
  <2>1. f[0] = <<>>
    BY <1>1, <1>2 DEF UnitedStep
  <2>2. Firsts(all, 0) = {} /\ Cardinality(Firsts(all, 0)) = 0
    BY FS_EmptySet DEF Firsts
  <2>3. Lists([i \in 1 .. 0 |-> i], 0, {}, Lower)
    BY DEF Lists, Rises
  <2>4. <<>> = [k \in 1 .. 0 |-> FieldAt(all, 0, [i \in 1 .. 0 |-> i][k])]
    OBVIOUS
  <2>5. Unites(<<>>, all, 0)
    BY <2>2, <2>3, <2>4 DEF Unites
  <2> QED
    BY <1>1, <2>1, <2>5
<1>4. ASSUME NEW n \in 0 .. (Len(all) - 1), n \in T
      PROVE  n + 1 \in T
  <2>1. /\ n \in Nat /\ n + 1 <= Len(all) /\ n + 1 \in 0 .. Len(all)
        /\ n + 1 # 0 /\ (n + 1) - 1 = n
    BY <1>1
  <2>2. f[n + 1] = Seen(f[n], all[n + 1])
    BY <1>2, <2>1 DEF UnitedStep
  <2>3. Unites(f[n], all, n)
    BY <1>4
  <2> QED
    BY <2>1, <2>2, <2>3, UnitesMore
<1>5. 0 .. Len(all) \subseteq T
  <2> HIDE DEF T
  <2> QED
    BY <1>1, <1>3, <1>4, InductionUpTo
<1> QED
  BY <1>1, <1>2, <1>5

(* The streaming merge has the fields of the batch merge.                  *)
LEMMA FieldsSame ==
  ASSUME NEW ss \in Inputs
  PROVE  United(FieldInfos(ss)) = FirstSeen(ss)
<1> DEFINE L == [s \in DOMAIN ss |-> ss[s].fields]
           all == FieldInfos(ss)
<1>1. L \in Seq(Seq(Infos))
  <2>1. \A s \in DOMAIN ss : ss[s].fields \in Seq(Infos)
    BY SegmentsAssumption DEF Infos
  <2>2. DOMAIN ss = 1 .. Len(ss) /\ Len(ss) \in Nat
    BY SegmentsAssumption
  <2>3. L \in [1 .. Len(ss) -> Seq(Infos)]
    BY <2>1, <2>2
  <2> QED
    BY <2>2, <2>3
<1> HIDE DEF L
<1>2. all \in Seq(Infos)
  BY <1>1, Flattened DEF FieldInfos, L, Flat
<1> HIDE DEF all
<1>3. Len(all) \in Nat /\ DOMAIN all = 1 .. Len(all)
  BY <1>2
<1> DEFINE S == Firsts(all, Len(all))
           c == Cardinality(S)
<1>4. PICK q : /\ Lists(q, c, S, Lower)
               /\ United(all) = [k \in 1 .. c |-> FieldAt(all, Len(all), q[k])]
  BY <1>2, UnitedUnites DEF Unites
<1>5. /\ StrictOrder(Lower, S)
      /\ Lists(Sorted(S, <), c, S, Lower)
  <2>1. IsFiniteSet(S) /\ S \subseteq Nat
    BY <1>3, FirstsFinite
  <2> HIDE DEF S
  <2> QED
    BY <2>1, SortedNumbers
<1>6. q = Sorted(S, <) /\ DOMAIN q = 1 .. c
  <2>1. DOMAIN q = 1 .. c
    BY <1>4 DEF Lists, Rises
  <2> HIDE DEF S, c
  <2> QED
    BY <1>4, <1>5, <2>1, OneList
<1>7. FirstSeen(ss) = [k \in 1 .. c |-> FieldAt(all, Len(all), q[k])]
  <2>1. S = {i \in DOMAIN all : \A j \in 1 .. (i - 1) : all[j].name # all[i].name}
    BY <1>3 DEF Firsts
  <2>2. FirstSeen(ss) = [i \in DOMAIN q |->
           [name |-> all[q[i]].name,
            indexed |-> \E j \in DOMAIN all : all[j].name = all[q[i]].name
                                              /\ all[j].indexed]]
    BY <1>6, <2>1 DEF FirstSeen, all
  <2> QED
    BY <1>3, <1>6, <2>2 DEF FieldAt, IndexedBy
<1> QED
  BY <1>4, <1>7 DEF all

-----------------------------------------------------------------------------
(* The documents                                                           *)

(* The live documents.                                                     *)
AllLive(ss) == {o \in DocsOf(ss) : Live(ss, o)}

(* The live documents before the place a.                                  *)
SoFar(ss, a) == {o \in DocsOf(ss) : Live(ss, o) /\ Before(o, a)}

(* The stored values of the documents S, in order.                         *)
StoredOf(ss, fs, S) ==
  LET docs == Sorted(S, Before) IN [i \in DOMAIN docs |-> Remapped(ss, fs, docs[i])]

(* Their norms of one field.                                               *)
ColumnOf(ss, name, S) ==
  LET docs == Sorted(S, Before) IN [i \in DOMAIN docs |-> NormByte(ss, name, docs[i])]

(* Their norms of every indexed field.                                     *)
NormsOf(ss, fs, S) ==
  [f \in DOMAIN fs |-> IF fs[f].indexed THEN ColumnOf(ss, fs[f].name, S) ELSE <<>>]

(* The doc maps when the documents S have their new ids.                   *)
MapsOf(ss, S) ==
  [s \in DOMAIN ss |-> [d \in LocalsOf(ss[s]) |->
                         IF <<s, d>> \in S THEN NewId(ss, <<s, d>>) ELSE Dead]]

(* What phase 2 has written is what the live documents before `at` leave, in*)
(* order; none of them, and after phase 2 no segment, had to be refused.   *)
DocsCopied ==
  /\ segs \in Inputs
  /\ at \in Nat \X Nat
  /\ at[1] \in 1 .. (Len(segs) + 1)
  /\ at[1] \in DOMAIN segs => at[2] \in 0 .. segs[at[1]].maxDoc
  /\ stored = StoredOf(segs, fields, SoFar(segs, at))
  /\ norms = NormsOf(segs, fields, SoFar(segs, at))
  /\ docMaps = MapsOf(segs, SoFar(segs, at))
  /\ \A o \in SoFar(segs, at) : ~BadStored(segs, o)
  /\ pc = "fields" => fields = <<>> /\ at = <<1, 0>>
  /\ pc \notin {"fields", "failed"} => fields = FirstSeen(segs)
  /\ pc \in {"pop", "gather", "done"} =>
       /\ at[1] \notin DOMAIN segs
       /\ \A s \in DOMAIN segs : HasPositions(segs[s])

(* The shape of an input.                                                  *)
LEMMA Segments ==
  ASSUME NEW ss \in Inputs
  PROVE  /\ Len(ss) \in Nat /\ DOMAIN ss = 1 .. Len(ss)
         /\ \A s \in DOMAIN ss : ss[s].maxDoc \in Nat /\ ss[s].dict \in Seq(Nat)
<1>1. /\ ss \in Seq(Range(ss))
      /\ \A s \in DOMAIN ss : ss[s].maxDoc \in Nat /\ ss[s].dict \in Seq(Nat)
  BY SegmentsAssumption
<1> QED
  BY <1>1

(* A document is a segment and a local id in it.                           *)
LEMMA DocsAre ==
  ASSUME NEW ss \in Inputs
  PROVE  \A o : o \in DocsOf(ss) <=> /\ o \in Nat \X Nat
                                     /\ o[1] \in DOMAIN ss
                                     /\ o[2] \in LocalsOf(ss[o[1]])
<1>1. \A s \in DOMAIN ss : s \in Nat /\ LocalsOf(ss[s]) \subseteq Nat
  BY Segments DEF LocalsOf
<1> SUFFICES ASSUME NEW o
             PROVE  o \in DocsOf(ss) <=> /\ o \in Nat \X Nat
                                         /\ o[1] \in DOMAIN ss
                                         /\ o[2] \in LocalsOf(ss[o[1]])
  OBVIOUS
<1>2. o \in DocsOf(ss) <=> \E s \in DOMAIN ss : o \in {s} \X LocalsOf(ss[s])
  BY DEF DocsOf
<1>3. ASSUME NEW s \in DOMAIN ss, o \in {s} \X LocalsOf(ss[s])
      PROVE  o \in Nat \X Nat /\ o[1] = s /\ o[2] \in LocalsOf(ss[s])
  BY <1>1, <1>3
<1>4. ASSUME o \in Nat \X Nat, o[1] \in DOMAIN ss, o[2] \in LocalsOf(ss[o[1]])
      PROVE  o \in {o[1]} \X LocalsOf(ss[o[1]])
  BY <1>4
<1> QED
  BY <1>2, <1>3, <1>4

(* A segment has finitely many documents,                                  *)
LEMMA LocalsFinite ==
  ASSUME NEW ss \in Inputs, NEW s \in DOMAIN ss
  PROVE  IsFiniteSet(LocalsOf(ss[s])) /\ LocalsOf(ss[s]) \subseteq Nat
<1>1. ss[s].maxDoc - 1 \in Int
  BY Segments
<1>2. IsFiniteSet(0 .. (ss[s].maxDoc - 1))
  BY <1>1, FS_Interval
<1> QED
  BY <1>1, <1>2 DEF LocalsOf

(* and so has an input,                                                    *)
LEMMA DocsFinite ==
  ASSUME NEW ss \in Inputs
  PROVE  IsFiniteSet(DocsOf(ss))
<1> DEFINE f == [s \in DOMAIN ss |-> {s} \X LocalsOf(ss[s])]
           T == {{s} \X LocalsOf(ss[s]) : s \in DOMAIN ss}
<1>1. f \in Surjection(DOMAIN ss, T)
  BY DEF Surjection
<1>2. IsFiniteSet(DOMAIN ss)
  BY Segments, FS_Interval
<1>3. IsFiniteSet(T)
  <2> HIDE DEF f, T
  <2> QED
    BY <1>1, <1>2, FS_Surjection
<1>4. ASSUME NEW U \in T
      PROVE  IsFiniteSet(U)
  <2>1. PICK s \in DOMAIN ss : U = {s} \X LocalsOf(ss[s])
    OBVIOUS
  <2>2. IsFiniteSet({s}) /\ IsFiniteSet(LocalsOf(ss[s]))
    <3>1. IsFiniteSet({s})
      BY FS_Singleton
    <3> QED
      BY <3>1, LocalsFinite
  <2> QED
    BY <2>1, <2>2, FS_Product
<1>5. DocsOf(ss) = UNION T
  BY DEF DocsOf
<1> HIDE DEF T
<1> QED
  BY <1>3, <1>4, <1>5, FS_UNION

(* which has finitely many terms, all of them numbers.                     *)
LEMMA TermsFinite ==
  ASSUME NEW ss \in Inputs
  PROVE  IsFiniteSet(TermsOf(ss)) /\ TermsOf(ss) \subseteq Nat
<1> DEFINE f == [s \in DOMAIN ss |-> Range(ss[s].dict)]
           T == {Range(ss[s].dict) : s \in DOMAIN ss}
<1>1. f \in Surjection(DOMAIN ss, T)
  BY DEF Surjection
<1>2. IsFiniteSet(DOMAIN ss)
  BY Segments, FS_Interval
<1>3. IsFiniteSet(T)
  <2> HIDE DEF f, T
  <2> QED
    BY <1>1, <1>2, FS_Surjection
<1>4. ASSUME NEW s \in DOMAIN ss
      PROVE  IsFiniteSet(Range(ss[s].dict)) /\ Range(ss[s].dict) \subseteq Nat
  <2> DEFINE d == ss[s].dict
  <2>1. d \in Seq(Nat)
    BY Segments
  <2> HIDE DEF d
  <2>2. DOMAIN d = 1 .. Len(d) /\ Len(d) \in Nat /\ d \in [1 .. Len(d) -> Nat]
    BY <2>1
  <2>3. d \in Surjection(1 .. Len(d), Range(d))
    BY <2>2 DEF Surjection, Range
  <2>4. IsFiniteSet(1 .. Len(d))
    BY <2>2, FS_Interval
  <2>5. IsFiniteSet(Range(d))
    BY <2>3, <2>4, FS_Surjection
  <2>6. Range(d) \subseteq Nat
    BY <2>2 DEF Range
  <2> QED
    BY <2>5, <2>6 DEF d
<1>5. TermsOf(ss) = UNION T /\ \A U \in T : IsFiniteSet(U) /\ U \subseteq Nat
  BY <1>4 DEF TermsOf
<1> HIDE DEF T
<1> QED
  BY <1>3, <1>5, FS_UNION

(* The documents before any place are a finite set.                        *)
LEMMA SoFarFinite ==
  ASSUME NEW ss \in Inputs, NEW a
  PROVE  /\ IsFiniteSet(SoFar(ss, a)) /\ SoFar(ss, a) \subseteq Nat \X Nat
         /\ SoFar(ss, a) \subseteq DocsOf(ss)
<1>1. SoFar(ss, a) \in SUBSET DocsOf(ss)
  BY DEF SoFar
<1>2. IsFiniteSet(SoFar(ss, a))
  BY <1>1, DocsFinite, FS_Subset
<1> QED
  BY <1>1, <1>2, DocsAre

(* One more document, after all others.                                    *)
LEMMA SortedMore ==
  ASSUME NEW S, IsFiniteSet(S), S \subseteq Nat \X Nat,
         NEW x \in Nat \X Nat, \A a \in S : Before(a, x)
  PROVE  LET q == Sorted(S, Before)
             n == Cardinality(S)
         IN /\ n \in Nat /\ q \in [1 .. n -> S]
            /\ Sorted(S \cup {x}, Before) =
                 [i \in 1 .. (n + 1) |-> IF i = n + 1 THEN x ELSE q[i]]
<1> DEFINE q == Sorted(S, Before)
           n == Cardinality(S)
           U == S \cup {x}
           r == [i \in 1 .. (n + 1) |-> IF i = n + 1 THEN x ELSE q[i]]
<1>1. Lists(q, n, S, Earlier)
  BY SortedDocs
<1>2. \A a \in S : <<a, x>> \in Earlier
  BY DEF Earlier
<1>3. n \in Nat /\ q \in [1 .. n -> S]
  BY <1>1 DEF Lists, Rises
<1> HIDE DEF q, n
<1>4. Lists(r, n + 1, U, Earlier)
  BY <1>1, <1>2, ListMore
<1>5. IsFiniteSet(U) /\ U \subseteq Nat \X Nat
  BY FS_AddElement
<1> HIDE DEF U, r
<1>6. Lists(Sorted(U, Before), Cardinality(U), U, Earlier) /\ StrictOrder(Earlier, U)
  BY <1>5, SortedDocs, EarlierOrders
<1>7. Sorted(U, Before) = r
  BY <1>4, <1>6, OneList
<1> QED
  BY <1>3, <1>7 DEF q, n, r, U

(* Mapping a list one longer is appending to the mapped list.              *)
ListOf(s, n) == DOMAIN s = 1 .. n /\ s = [i \in 1 .. n |-> s[i]]

(* A list that agrees with another up to its last is that other with one more.*)
LEMMA AppendMapped ==
  ASSUME NEW n \in Nat, NEW s, ListOf(s, n), NEW t, ListOf(t, n + 1),
         \A i \in 1 .. n : t[i] = s[i]
  PROVE  t = Append(s, t[n + 1]) /\ Len(s) = n
<1>8. DOMAIN s = 1 .. n /\ s = [i \in 1 .. n |-> s[i]] /\ t = [i \in 1 .. (n + 1) |-> t[i]]
  BY DEF ListOf
<1> DEFINE E == Range(s) \cup {t[n + 1]}
<1>1. \A i \in 1 .. n : s[i] \in E
  BY <1>8 DEF Range
<1>2. s \in [1 .. n -> E] /\ t[n + 1] \in E
  BY <1>8, <1>1
<1> HIDE DEF E
<1>3. s \in Seq(E) /\ Len(s) = n
  BY <1>2
<1>4. /\ Append(s, t[n + 1]) \in Seq(E)
      /\ Len(Append(s, t[n + 1])) = n + 1
      /\ \A i \in 1 .. n : Append(s, t[n + 1])[i] = s[i]
      /\ Append(s, t[n + 1])[n + 1] = t[n + 1]
  BY <1>2, <1>3, AppendProperties
<1> DEFINE A == Append(s, t[n + 1])
<1> HIDE DEF A
<1>5. A = [i \in 1 .. (n + 1) |-> A[i]]
  BY <1>4 DEF A
<1>6. \A i \in 1 .. (n + 1) : A[i] = t[i]
  <2>1. \A i \in 1 .. (n + 1) : i \in 1 .. n \/ i = n + 1
    OBVIOUS
  <2> QED
    BY <1>4, <2>1 DEF A
<1>7. A = t
  BY <1>8, <1>5, <1>6
<1> QED
  BY <1>3, <1>7 DEF A

(* Copying a document appends its stored values to those of the ones before,*)
LEMMA StoredMore ==
  ASSUME NEW ss, NEW fs, NEW S, IsFiniteSet(S), S \subseteq Nat \X Nat,
         NEW x \in Nat \X Nat, \A a \in S : Before(a, x)
  PROVE  /\ StoredOf(ss, fs, S \cup {x}) = Append(StoredOf(ss, fs, S), Remapped(ss, fs, x))
         /\ Len(StoredOf(ss, fs, S)) = Cardinality(S)
<1> DEFINE q == Sorted(S, Before)
           n == Cardinality(S)
           r == Sorted(S \cup {x}, Before)
           s == StoredOf(ss, fs, S)
           t == StoredOf(ss, fs, S \cup {x})
<1>1. /\ n \in Nat /\ q \in [1 .. n -> S]
      /\ r = [i \in 1 .. (n + 1) |-> IF i = n + 1 THEN x ELSE q[i]]
  BY SortedMore
<1>2. s = [i \in DOMAIN q |-> Remapped(ss, fs, q[i])]
  BY DEF StoredOf
<1>3. t = [i \in DOMAIN r |-> Remapped(ss, fs, r[i])]
  BY DEF StoredOf
<1> HIDE DEF q, n, r, s, t
<1>4. ListOf(s, n)
  BY <1>1, <1>2 DEF ListOf
<1>5. ListOf(t, n + 1) /\ t[n + 1] = Remapped(ss, fs, x)
  BY <1>1, <1>3 DEF ListOf
<1>6. \A i \in 1 .. n : t[i] = s[i]
  BY <1>1, <1>2, <1>3
<1>7. t = Append(s, t[n + 1]) /\ Len(s) = n
  BY <1>1, <1>4, <1>5, <1>6, AppendMapped
<1> QED
  BY <1>5, <1>7 DEF s, t, n

(* and its norm byte to theirs.                                            *)
LEMMA ColumnMore ==
  ASSUME NEW ss, NEW name, NEW S, IsFiniteSet(S), S \subseteq Nat \X Nat,
         NEW x \in Nat \X Nat, \A a \in S : Before(a, x)
  PROVE  ColumnOf(ss, name, S \cup {x}) = Append(ColumnOf(ss, name, S), NormByte(ss, name, x))
<1> DEFINE q == Sorted(S, Before)
           n == Cardinality(S)
           r == Sorted(S \cup {x}, Before)
           s == ColumnOf(ss, name, S)
           t == ColumnOf(ss, name, S \cup {x})
<1>1. /\ n \in Nat /\ q \in [1 .. n -> S]
      /\ r = [i \in 1 .. (n + 1) |-> IF i = n + 1 THEN x ELSE q[i]]
  BY SortedMore
<1>2. s = [i \in DOMAIN q |-> NormByte(ss, name, q[i])]
  BY DEF ColumnOf
<1>3. t = [i \in DOMAIN r |-> NormByte(ss, name, r[i])]
  BY DEF ColumnOf
<1> HIDE DEF q, n, r, s, t
<1>4. ListOf(s, n)
  BY <1>1, <1>2 DEF ListOf
<1>5. ListOf(t, n + 1) /\ t[n + 1] = NormByte(ss, name, x)
  BY <1>1, <1>3 DEF ListOf
<1>6. \A i \in 1 .. n : t[i] = s[i]
  BY <1>1, <1>2, <1>3
<1>7. t = Append(s, t[n + 1])
  BY <1>1, <1>4, <1>5, <1>6, AppendMapped
<1> QED
  BY <1>5, <1>7 DEF s, t

(* Nothing comes before no document.                                       *)
LEMMA NothingYet ==
  ASSUME NEW ss, NEW fs
  PROVE  /\ StoredOf(ss, fs, {}) = <<>>
         /\ NormsOf(ss, fs, {}) = [f \in DOMAIN fs |-> <<>>]
         /\ MapsOf(ss, {}) = [s \in DOMAIN ss |-> [d \in LocalsOf(ss[s]) |-> Dead]]
<1>1. DOMAIN Sorted({}, Before) = {}
  <2>1. IsFiniteSet({}) /\ Cardinality({}) = 0
    BY FS_EmptySet
  <2>2. Lists(Sorted({}, Before), 0, {}, Earlier)
    BY <2>1, SortedDocs
  <2> QED
    BY <2>2 DEF Lists, Rises
<1>2. StoredOf(ss, fs, {}) = <<>>
  BY <1>1 DEF StoredOf
<1>3. \A name : ColumnOf(ss, name, {}) = <<>>
  BY <1>1 DEF ColumnOf
<1> QED
  BY <1>2, <1>3 DEF NormsOf, MapsOf

(* Where the next document goes on. *)
LEMMA SoFarNext ==
  ASSUME NEW ss \in Inputs, NEW a \in Nat \X Nat,
         a[1] \in DOMAIN ss, a[2] \in LocalsOf(ss[a[1]])
  PROVE  SoFar(ss, <<a[1], a[2] + 1>>) =
           IF Live(ss, a) THEN SoFar(ss, a) \cup {a} ELSE SoFar(ss, a)
<1>1. a \in DocsOf(ss)
  BY DocsAre
<1>2. ASSUME NEW o \in Nat \X Nat
      PROVE  Before(o, <<a[1], a[2] + 1>>) <=> Before(o, a) \/ o = a
  BY DEF Before
<1>3. \A o \in DocsOf(ss) : o \in Nat \X Nat
  BY DocsAre
<1> QED
  BY <1>1, <1>2, <1>3 DEF SoFar

(* At the end of a segment nothing is left before the next one,            *)
LEMMA SoFarSegment ==
  ASSUME NEW ss \in Inputs, NEW a \in Nat \X Nat,
         a[1] \in DOMAIN ss, a[2] = ss[a[1]].maxDoc
  PROVE  SoFar(ss, <<a[1] + 1, 0>>) = SoFar(ss, a)
<1>1. \A o \in DocsOf(ss) : /\ o \in Nat \X Nat /\ o[1] \in DOMAIN ss
                            /\ o[2] \in LocalsOf(ss[o[1]])
  BY DocsAre
<1>2. ASSUME NEW o \in DocsOf(ss)
      PROVE  Before(o, <<a[1] + 1, 0>>) <=> Before(o, a)
  <2>1. o[1] \in Nat /\ o[2] \in Nat /\ a[1] \in Nat /\ a[2] \in Nat
    BY <1>1
  <2>2. o[1] = a[1] => o[2] < a[2]
    BY <1>1, Segments DEF LocalsOf
  <2> QED
    BY <2>1, <2>2 DEF Before
<1> QED
  BY <1>2 DEF SoFar

(* after the last segment all live documents are copied,                   *)
LEMMA SoFarAll ==
  ASSUME NEW ss \in Inputs, NEW a \in Nat \X Nat,
         a[1] \in 1 .. (Len(ss) + 1), a[1] \notin DOMAIN ss
  PROVE  SoFar(ss, a) = AllLive(ss)
<1>1. \A o \in DocsOf(ss) : o \in Nat \X Nat /\ o[1] \in DOMAIN ss
  BY DocsAre
<1>2. \A o \in DocsOf(ss) : Before(o, a)
  BY <1>1, Segments DEF Before
<1> QED
  BY <1>2 DEF SoFar, AllLive

(* and none is before the first.                                           *)
LEMMA NoneFirst ==
  ASSUME NEW ss \in Inputs
  PROVE  SoFar(ss, <<1, 0>>) = {}
<1>1. \A o \in DocsOf(ss) : o \in Nat \X Nat /\ o[1] \in 1 .. Len(ss)
  BY DocsAre, Segments
<1> QED
  BY <1>1, Segments DEF SoFar, Before

(* Phase 2 starts with nothing copied.                                     *)
LEMMA DocsInit == Init => DocsCopied
<1> SUFFICES ASSUME Init
             PROVE  DocsCopied
  OBVIOUS
<1>1. /\ segs \in Inputs /\ pc = "fields" /\ fields = <<>> /\ at = <<1, 0>>
      /\ docMaps = [s \in DOMAIN segs |-> [d \in LocalsOf(segs[s]) |-> Dead]]
      /\ stored = <<>> /\ norms = <<>>
  BY DEF Init
<1>2. SoFar(segs, at) = {}
  BY <1>1, NoneFirst
<1>3. NormsOf(segs, fields, {}) = <<>>
  BY <1>1, NothingYet
<1>4. /\ at \in Nat \X Nat
      /\ at[1] \in 1 .. (Len(segs) + 1)
      /\ at[1] \in DOMAIN segs => at[2] \in 0 .. segs[at[1]].maxDoc
  BY <1>1, Segments
<1> QED
  BY <1>1, <1>2, <1>3, <1>4, NothingYet DEF DocsCopied

(* Nothing else touches what phase 2 wrote.                                *)
LEMMA DocsStay ==
  ASSUME DocsCopied, UNCHANGED <<segs, copied>>,
         \/ pc' = pc \/ pc' = "failed"
         \/ pc \in {"pop", "gather"} /\ pc' \in {"pop", "gather", "done"}
  PROVE  DocsCopied'
<1>1. UNCHANGED <<segs, fields, at, docMaps, stored, norms>>
  BY DEF copied
<1> QED
  BY <1>1 DEF DocsCopied

(* Phase 3 starts when every document is copied and every segment has its  *)
(* positions.                                                              *)
LEMMA DocsStart ==
  ASSUME DocsCopied, StartTerms
  PROVE  DocsCopied'
<1>1. UNCHANGED <<segs, fields, at, docMaps, stored, norms>>
  BY DEF StartTerms, copied
<1>2. pc = "docs" /\ pc' = "pop" /\ at[1] \notin DOMAIN segs
      /\ \A s \in DOMAIN segs : HasPositions(segs[s])
  BY DEF StartTerms
<1> QED
  BY <1>1, <1>2 DEF DocsCopied

(* Uniting the fields makes an empty column for each.                      *)
LEMMA DocsUnite ==
  ASSUME DocsCopied, UniteFields
  PROVE  DocsCopied'
<1>1. /\ UNCHANGED <<segs, at, docMaps, stored>>
      /\ pc = "fields" /\ pc' = "docs"
      /\ fields' = United(FieldInfos(segs))
      /\ norms' = [f \in DOMAIN fields' |-> <<>>]
  BY DEF UniteFields
<1>2. segs \in Inputs /\ at = <<1, 0>>
  BY <1>1 DEF DocsCopied
<1>3. SoFar(segs, at) = {}
  BY <1>2, NoneFirst
<1>4. fields' = FirstSeen(segs)
  BY <1>1, <1>2, FieldsSame
<1>5. stored = StoredOf(segs, fields', {}) /\ norms' = NormsOf(segs, fields', {})
  BY <1>1, <1>3, NothingYet DEF DocsCopied
<1> QED
  BY <1>1, <1>3, <1>4, <1>5 DEF DocsCopied

(* A deleted document leaves nothing.                                      *)
LEMMA DocsSkip ==
  ASSUME DocsCopied, SkipDeleted
  PROVE  DocsCopied'
<1>1. /\ UNCHANGED <<segs, pc, fields, docMaps, stored, norms>>
      /\ pc = "docs" /\ at[1] \in DOMAIN segs /\ at[2] \in LocalsOf(segs[at[1]])
      /\ ~Live(segs, at) /\ at' = <<at[1], at[2] + 1>>
  BY DEF SkipDeleted, HasDoc, NextLocal
<1>2. segs \in Inputs /\ at \in Nat \X Nat
  BY DEF DocsCopied
<1>3. SoFar(segs, at') = SoFar(segs, at)
  BY <1>1, <1>2, SoFarNext
<1>4. /\ at' \in Nat \X Nat
      /\ at'[1] \in 1 .. (Len(segs) + 1)
      /\ at'[1] \in DOMAIN segs => at'[2] \in 0 .. segs[at'[1]].maxDoc
  BY <1>1, <1>2, Segments DEF LocalsOf
<1> QED
  BY <1>1, <1>3, <1>4 DEF DocsCopied

(* Nothing is left between a segment and the next.                         *)
LEMMA DocsNextSegment ==
  ASSUME DocsCopied, NextSegment
  PROVE  DocsCopied'
<1>1. /\ UNCHANGED <<segs, pc, fields, docMaps, stored, norms>>
      /\ pc = "docs" /\ at[1] \in DOMAIN segs /\ at[2] \notin LocalsOf(segs[at[1]])
      /\ at' = <<at[1] + 1, 0>>
  BY DEF NextSegment, HasDoc
<1>2. segs \in Inputs /\ at \in Nat \X Nat /\ at[2] \in 0 .. segs[at[1]].maxDoc
  BY <1>1 DEF DocsCopied
<1>3. at[2] = segs[at[1]].maxDoc
  BY <1>1, <1>2, Segments DEF LocalsOf
<1>4. SoFar(segs, at') = SoFar(segs, at)
  BY <1>1, <1>2, <1>3, SoFarSegment
<1>5. /\ at' \in Nat \X Nat
      /\ at'[1] \in 1 .. (Len(segs) + 1)
      /\ at'[1] \in DOMAIN segs => at'[2] \in 0 .. segs[at'[1]].maxDoc
  BY <1>1, <1>2, Segments
<1> QED
  BY <1>1, <1>4, <1>5 DEF DocsCopied

(* CopyDoc gives a live document the number of live documents before it, and*)
(* writes its values and norms at that place.                              *)
LEMMA DocsCopy ==
  ASSUME DocsCopied, CopyDoc
  PROVE  DocsCopied'
<1> DEFINE S == SoFar(segs, at)
<1>1. /\ UNCHANGED <<segs, pc, fields>>
      /\ pc = "docs" /\ at[1] \in DOMAIN segs /\ at[2] \in LocalsOf(segs[at[1]])
      /\ Live(segs, at) /\ ~BadStored(segs, at)
      /\ at' = <<at[1], at[2] + 1>>
      /\ docMaps' = [docMaps EXCEPT ![at[1]][at[2]] = Len(stored)]
      /\ stored' = Append(stored, Remapped(segs, fields, at))
      /\ norms' = [f \in DOMAIN fields |->
                    IF fields[f].indexed
                    THEN Append(norms[f], NormByte(segs, fields[f].name, at))
                    ELSE norms[f]]
  BY DEF CopyDoc, CopyTo, HasDoc, NextLocal
<1>2. /\ segs \in Inputs /\ at \in Nat \X Nat
      /\ stored = StoredOf(segs, fields, S)
      /\ norms = NormsOf(segs, fields, S)
      /\ docMaps = MapsOf(segs, S)
      /\ \A o \in S : ~BadStored(segs, o)
  BY DEF DocsCopied
<1>3. SoFar(segs, at') = S \cup {at}
  BY <1>1, <1>2, SoFarNext
<1>4. IsFiniteSet(S) /\ S \subseteq Nat \X Nat /\ \A a \in S : Before(a, at)
  BY <1>2, SoFarFinite DEF SoFar
<1>5. Cardinality(S) = NewId(segs, at)
  BY DEF SoFar, NewId
<1> HIDE DEF S
<1>6. stored' = StoredOf(segs, fields, S \cup {at}) /\ Len(stored) = NewId(segs, at)
  <2>1. StoredOf(segs, fields, S \cup {at})
          = Append(StoredOf(segs, fields, S), Remapped(segs, fields, at))
    BY <1>2, <1>4, StoredMore
  <2>2. Len(StoredOf(segs, fields, S)) = Cardinality(S)
    BY <1>2, <1>4, StoredMore
  <2> QED
    BY <1>1, <1>2, <1>5, <2>1, <2>2
<1>7. norms' = NormsOf(segs, fields, S \cup {at})
  <2>1. \A f \in DOMAIN fields : fields[f].indexed =>
          Append(norms[f], NormByte(segs, fields[f].name, at))
            = ColumnOf(segs, fields[f].name, S \cup {at})
    BY <1>2, <1>4, ColumnMore DEF NormsOf
  <2>2. \A f \in DOMAIN fields : ~fields[f].indexed => norms[f] = <<>>
    BY <1>2 DEF NormsOf
  <2> QED
    BY <1>1, <2>1, <2>2 DEF NormsOf
<1>8. docMaps' = MapsOf(segs, S \cup {at})
  <2>1. at = <<at[1], at[2]>>
    BY <1>2
  <2> DEFINE M == MapsOf(segs, S \cup {at})
  <2>2. /\ docMaps = [s \in DOMAIN segs |-> docMaps[s]]
        /\ \A s \in DOMAIN segs : docMaps[s] = [d \in LocalsOf(segs[s]) |-> docMaps[s][d]]
        /\ \A s \in DOMAIN segs : \A d \in LocalsOf(segs[s]) :
             docMaps[s][d] = IF <<s, d>> \in S THEN NewId(segs, <<s, d>>) ELSE Dead
    BY <1>2 DEF MapsOf
  <2>3. \A s \in DOMAIN segs : \A d \in LocalsOf(segs[s]) :
          [docMaps EXCEPT ![at[1]][at[2]] = Len(stored)][s][d] =
             IF <<s, d>> \in S \cup {at} THEN NewId(segs, <<s, d>>) ELSE Dead
    <3> SUFFICES ASSUME NEW s \in DOMAIN segs, NEW d \in LocalsOf(segs[s])
                 PROVE  [docMaps EXCEPT ![at[1]][at[2]] = Len(stored)][s][d] =
                          IF <<s, d>> \in S \cup {at} THEN NewId(segs, <<s, d>>) ELSE Dead
      OBVIOUS
    <3>1. CASE <<s, d>> = at
      BY <1>1, <1>6, <2>1, <2>2, <3>1
    <3>2. CASE <<s, d>> # at
      <4>1. [docMaps EXCEPT ![at[1]][at[2]] = Len(stored)][s][d] = docMaps[s][d]
        BY <1>1, <2>1, <2>2, <3>2
      <4> QED
        BY <2>2, <3>2, <4>1
    <3> QED
      BY <3>1, <3>2
  <2> DEFINE N == [docMaps EXCEPT ![at[1]][at[2]] = Len(stored)]
  <2>4. /\ N = [s \in DOMAIN segs |-> N[s]]
        /\ \A s \in DOMAIN segs : N[s] = [d \in LocalsOf(segs[s]) |-> N[s][d]]
    BY <2>2
  <2> HIDE DEF N
  <2>6. \A s \in DOMAIN segs : N[s] = [d \in LocalsOf(segs[s]) |->
               IF <<s, d>> \in S \cup {at} THEN NewId(segs, <<s, d>>) ELSE Dead]
    <3> SUFFICES ASSUME NEW s \in DOMAIN segs
                 PROVE  N[s] = [d \in LocalsOf(segs[s]) |->
                          IF <<s, d>> \in S \cup {at} THEN NewId(segs, <<s, d>>) ELSE Dead]
      OBVIOUS
    <3>1. N[s] = [d \in LocalsOf(segs[s]) |-> N[s][d]]
      BY <2>4
    <3>2. \A d \in LocalsOf(segs[s]) : N[s][d] =
               IF <<s, d>> \in S \cup {at} THEN NewId(segs, <<s, d>>) ELSE Dead
      BY <2>3 DEF N
    <3> QED
      BY <3>1, <3>2
  <2>5. N = [s \in DOMAIN segs |-> [d \in LocalsOf(segs[s]) |->
               IF <<s, d>> \in S \cup {at} THEN NewId(segs, <<s, d>>) ELSE Dead]]
    BY <2>4, <2>6
  <2> QED
    BY <1>1, <2>5 DEF N, MapsOf
<1>9. /\ at' \in Nat \X Nat
      /\ at'[1] \in 1 .. (Len(segs) + 1)
      /\ at'[1] \in DOMAIN segs => at'[2] \in 0 .. segs[at'[1]].maxDoc
  BY <1>1, <1>2, Segments DEF LocalsOf
<1>10. \A o \in SoFar(segs, at') : ~BadStored(segs, o)
  BY <1>1, <1>2, <1>3
<1> QED
  BY <1>1, <1>2, <1>3, <1>6, <1>7, <1>8, <1>9, <1>10 DEF DocsCopied

(* The heap when the cursors are at q.                                    *)
HeapAt(ss, q) ==
  {<<ss[s].dict[q[s]], s>> : s \in {r \in DOMAIN ss : q[r] <= Len(ss[r].dict)}}

-----------------------------------------------------------------------------
(* The postings of one term.                                               *)

(* The posting of a document in the merged index.                          *)
Posting(ss, t, o) == [id |-> NewId(ss, o), positions |-> <<o, t>>]

(* The documents of segment s among S.                                     *)
LocalsIn(S, s) == {d \in Nat : <<s, d>> \in S}

(* cs are the TermInfos of t, one for each segment that has it.            *)
AllOf(cs, ss, t) ==
  /\ IsFiniteSet(cs)
  /\ \A c \in cs : /\ c \in Nat \X Nat /\ c[1] \in DOMAIN ss
                   /\ c[2] \in 1 .. Len(ss[c[1]].dict)
                   /\ ss[c[1]].dict[c[2]] = t
  /\ \A s \in DOMAIN ss : \A p \in 1 .. Len(ss[s].dict) :
       ss[s].dict[p] = t => <<s, p>> \in cs

(* A dictionary has each term once.                                        *)
LEMMA DictOnce ==
  ASSUME NEW ss \in Inputs, NEW s \in DOMAIN ss
  PROVE  \A i, j \in 1 .. Len(ss[s].dict) : ss[s].dict[i] = ss[s].dict[j] => i = j
<1>1. /\ ss[s].dict \in Seq(Nat)
      /\ \A i, j \in 1 .. Len(ss[s].dict) : i < j => ss[s].dict[i] < ss[s].dict[j]
  BY SegmentsAssumption
<1> DEFINE d == ss[s].dict
<1> HIDE DEF d
<1>2. /\ d \in Seq(Nat)
      /\ \A i, j \in 1 .. Len(d) : i < j => d[i] < d[j]
  BY <1>1 DEF d
<1>3. \A i \in 1 .. Len(d) : d[i] \in Nat
  BY <1>2
<1>4. \A i, j \in 1 .. Len(d) : d[i] = d[j] => i = j
  <2> SUFFICES ASSUME NEW i \in 1 .. Len(d), NEW j \in 1 .. Len(d), d[i] = d[j]
               PROVE  i = j
    OBVIOUS
  <2>1. i < j => d[i] < d[j]
    BY <1>2
  <2>2. j < i => d[j] < d[i]
    BY <1>2
  <2> QED
    BY <1>3, <2>1, <2>2
<1> QED
  BY <1>4 DEF d

(* The live postings of a term are finitely many documents.                *)
LEMMA LivePostingsAre ==
  ASSUME NEW ss \in Inputs, NEW t
  PROVE  /\ IsFiniteSet(LivePostings(ss, t))
         /\ LivePostings(ss, t) \subseteq Nat \X Nat
<1>1. LivePostings(ss, t) \in SUBSET DocsOf(ss)
  BY DEF LivePostings
<1> QED
  BY <1>1, DocsFinite, FS_Subset, DocsAre

(* ps are the postings of segment s among the documents S, in order.       *)
PostingsIn(ps, ss, t, S, s) ==
  \E l : /\ Lists(l, Cardinality(LocalsIn(S, s)), LocalsIn(S, s), Lower)
         /\ ps = [i \in 1 .. Cardinality(LocalsIn(S, s)) |-> Posting(ss, t, <<s, l[i]>>)]

(* for_each_live_posting_ti. *)
LEMMA PostingsOfIs ==
  ASSUME segs \in Inputs, NEW t, NEW c,
         c[1] \in DOMAIN segs, c[2] \in 1 .. Len(segs[c[1]].dict),
         segs[c[1]].dict[c[2]] = t,
         docMaps = MapsOf(segs, AllLive(segs))
  PROVE  PostingsIn(PostingsOf(c), segs, t, LivePostings(segs, t), c[1])
<1> DEFINE s == c[1]
           D == LocalsIn(LivePostings(segs, t), s)
           l == Sorted(D, <)
<1>1. t \in Range(segs[s].dict) /\ segs[s].post[t] \subseteq LocalsOf(segs[s])
  <2>1. /\ segs[s].dict \in Seq(Nat)
        /\ \A u \in Range(segs[s].dict) : segs[s].post[u] \subseteq LocalsOf(segs[s])
    BY SegmentsAssumption
  <2>2. c[2] \in DOMAIN segs[s].dict
    BY <2>1
  <2>3. t \in Range(segs[s].dict)
    BY <2>2 DEF Range
  <2> QED
    BY <2>1, <2>3
<1>2. s \in Nat /\ LocalsOf(segs[s]) \subseteq Nat /\ IsFiniteSet(LocalsOf(segs[s]))
  <2>1. s \in DOMAIN segs /\ s \in Nat
    BY Segments
  <2> QED
    BY <2>1, LocalsFinite
<1> HIDE DEF s
<1>3. \A d \in Nat : <<s, d>> \in DocsOf(segs) <=> s \in DOMAIN segs /\ d \in LocalsOf(segs[s])
  BY <1>2, DocsAre
<1>4. s \in DOMAIN segs
  BY DEF s
<1>5. D = {d \in segs[s].post[t] : Live(segs, <<s, d>>)}
  BY <1>1, <1>2, <1>3, <1>4 DEF LocalsIn, LivePostings
<1>6. D \in SUBSET LocalsOf(segs[s]) /\ IsFiniteSet(D) /\ D \subseteq Nat
  <2>1. D \in SUBSET LocalsOf(segs[s])
    BY <1>1, <1>5
  <2> HIDE DEF D
  <2> QED
    BY <1>2, <2>1, FS_Subset
<1>7. Lists(l, Cardinality(D), D, Lower)
  <2> HIDE DEF D
  <2> QED
    BY <1>6, SortedNumbers
<1>8. PostingsOf(c) = [i \in DOMAIN l |-> [id |-> docMaps[s][l[i]],
                                           positions |-> <<<<s, l[i]>>, t>>]]
  BY <1>5 DEF PostingsOf, s
<1>9. l \in [1 .. Cardinality(D) -> D] /\ DOMAIN l = 1 .. Cardinality(D)
  BY <1>7 DEF Lists, Rises
<1>10. \A d \in D : docMaps[s][d] = NewId(segs, <<s, d>>)
  <2> SUFFICES ASSUME NEW d \in D
               PROVE  docMaps[s][d] = NewId(segs, <<s, d>>)
    OBVIOUS
  <2>1. <<s, d>> \in LivePostings(segs, t) /\ d \in LocalsOf(segs[s])
    BY <1>6 DEF LocalsIn
  <2>2. <<s, d>> \in AllLive(segs)
    BY <2>1 DEF LivePostings, AllLive
  <2> QED
    BY <1>4, <2>1, <2>2 DEF MapsOf
<1> HIDE DEF D, l
<1>11. PostingsOf(c) = [i \in 1 .. Cardinality(D) |-> Posting(segs, t, <<s, l[i]>>)]
  <2>1. \A i \in 1 .. Cardinality(D) : docMaps[s][l[i]] = NewId(segs, <<s, l[i]>>)
    BY <1>9, <1>10
  <2> QED
    BY <1>8, <1>9, <2>1 DEF Posting
<1> QED
  BY <1>7, <1>11 DEF D, s, PostingsIn

(* The documents of a term, gathered from its segments.                    *)
LEMMA GatheredIs ==
  ASSUME segs \in Inputs, NEW t, NEW cs, AllOf(cs, segs, t),
         docMaps = MapsOf(segs, AllLive(segs))
  PROVE  LET order == InSegmentOrder(cs)
         IN FlattenSeq([i \in DOMAIN order |-> PostingsOf(order[i])])
              = Entry(segs, fields, t).docs
<1> DEFINE LP == LivePostings(segs, t)
           n == Cardinality(cs)
           order == InSegmentOrder(cs)
           E == {Posting(segs, t, o) : o \in LP}
           L == [i \in DOMAIN order |-> PostingsOf(order[i])]
           D(i) == LocalsIn(LP, order[i][1])
<1>1. \A c, d \in cs : c[1] = d[1] => c = d
  <2> SUFFICES ASSUME NEW c \in cs, NEW d \in cs, c[1] = d[1]
               PROVE  c = d
    OBVIOUS
  <2>1. c \in Nat \X Nat /\ d \in Nat \X Nat
    BY DEF AllOf
  <2>2. c[2] = d[2]
    <3>1. /\ c[1] \in DOMAIN segs
          /\ c[2] \in 1 .. Len(segs[c[1]].dict) /\ segs[c[1]].dict[c[2]] = t
          /\ d[2] \in 1 .. Len(segs[c[1]].dict) /\ segs[c[1]].dict[d[2]] = t
      BY DEF AllOf
    <3> QED
      BY <3>1, DictOnce
  <2> QED
    BY <2>1, <2>2
<1>2. Lists(order, n, cs, SegmentFirst)
  <2>1. IsFiniteSet(cs) /\ cs \subseteq Nat \X Nat
    BY DEF AllOf
  <2> QED
    BY <1>1, <2>1, SortedSegments
<1> HIDE DEF order, n
<1>3. /\ n \in Nat /\ DOMAIN order = 1 .. n
      /\ \A i \in 1 .. n : order[i] \in cs
      /\ \A i, j \in 1 .. n : i < j => order[i][1] < order[j][1]
      /\ \A c \in cs : \E i \in 1 .. n : order[i] = c
  BY <1>2 DEF Lists, Rises, SegmentFirst
<1>4. \A i \in 1 .. n : /\ order[i][1] \in DOMAIN segs
                        /\ order[i][2] \in 1 .. Len(segs[order[i][1]].dict)
                        /\ segs[order[i][1]].dict[order[i][2]] = t
  BY <1>3 DEF AllOf
<1>5. ASSUME NEW i \in 1 .. n
      PROVE  \E l : /\ Lists(l, Cardinality(D(i)), D(i), Lower)
                    /\ L[i] = [a \in 1 .. Cardinality(D(i)) |->
                                 Posting(segs, t, <<order[i][1], l[a]>>)]
  <2>1. PostingsIn(PostingsOf(order[i]), segs, t, LP, order[i][1])
    BY <1>4, PostingsOfIs
  <2>2. L[i] = PostingsOf(order[i])
    BY <1>3
  <2> QED
    BY <2>1, <2>2 DEF PostingsIn
<1>6. LP \subseteq Nat \X Nat /\ IsFiniteSet(LP)
  BY LivePostingsAre
<1>7. Len(L) = n /\ DOMAIN L = 1 .. n
  BY <1>3
<1> HIDE DEF LP, L, E, D
<1>8. ASSUME NEW i \in 1 .. n
      PROVE  L[i] \in Seq(E)
  <2>1. PICK l : /\ Lists(l, Cardinality(D(i)), D(i), Lower)
                 /\ L[i] = [a \in 1 .. Cardinality(D(i)) |->
                              Posting(segs, t, <<order[i][1], l[a]>>)]
    BY <1>5
  <2>2. Cardinality(D(i)) \in Nat /\ l \in [1 .. Cardinality(D(i)) -> D(i)]
    BY <2>1 DEF Lists, Rises
  <2>3. \A d \in D(i) : Posting(segs, t, <<order[i][1], d>>) \in E
    BY DEF D, LocalsIn, E
  <2>4. L[i] \in [1 .. Cardinality(D(i)) -> E]
    BY <2>1, <2>2, <2>3
  <2> QED
    BY <2>2, <2>4
<1>9. L \in Seq(Seq(E))
  <2>1. L = [i \in 1 .. n |-> L[i]]
    BY <1>3 DEF L
  <2>2. L \in [1 .. n -> Seq(E)]
    BY <1>8, <2>1
  <2> QED
    BY <1>3, <2>2
<1> DEFINE F == FlattenSeq(L)
<1>10. PICK w : Flat(F, w, L, n, E)
  BY <1>7, <1>9, Flattened
<1> HIDE DEF F
<1>11. /\ F \in Seq(E) /\ Len(F) \in Nat
       /\ w \in [1 .. Len(F) -> Places(L, n)]
       /\ \A p \in Places(L, n) : \E m \in 1 .. Len(F) : w[m] = p
       /\ \A m \in 1 .. Len(F) : F[m] = L[w[m][1]][w[m][2]]
  BY <1>10 DEF Flat, Lists, Rises
<1>12. \A i, j \in 1 .. Len(F) : i < j => Before(w[i], w[j])
  BY <1>10 DEF Flat, Lists, Rises, Earlier
<1> DEFINE Q == [m \in 1 .. Len(F) |-> F[m].positions[1]]
<1>13. ASSUME NEW m \in 1 .. Len(F)
       PROVE  /\ w[m][1] \in 1 .. n /\ w[m][2] \in 1 .. Len(L[w[m][1]])
              /\ Q[m] \in LP
              /\ F[m] = Posting(segs, t, Q[m])
  <2>1. w[m][1] \in 1 .. n /\ w[m][2] \in 1 .. Len(L[w[m][1]])
    BY <1>11 DEF Places
  <2>2. F[m] \in E
    BY <1>11
  <2>3. PICK o \in LP : F[m] = Posting(segs, t, o)
    BY <2>2 DEF E
  <2>4. F[m].positions[1] = o
    BY <2>3 DEF Posting
  <2> QED
    BY <2>1, <2>3, <2>4
<1>14. ASSUME NEW m \in 1 .. Len(F), NEW l,
              Lists(l, Cardinality(D(w[m][1])), D(w[m][1]), Lower),
              L[w[m][1]] = [a \in 1 .. Cardinality(D(w[m][1])) |->
                             Posting(segs, t, <<order[w[m][1]][1], l[a]>>)]
       PROVE  /\ w[m][2] \in 1 .. Cardinality(D(w[m][1]))
              /\ Q[m] = <<order[w[m][1]][1], l[w[m][2]]>>
  <2> DEFINE i == w[m][1]
             k == Cardinality(D(i))
  <2>1. k \in Nat
    BY <1>14 DEF Lists, Rises
  <2>2. Len(L[i]) = k
    BY <1>14, <2>1
  <2>3. w[m][2] \in 1 .. k
    BY <1>13, <2>2
  <2>4. F[m] = Posting(segs, t, <<order[i][1], l[w[m][2]]>>)
    BY <1>11, <1>14, <2>3
  <2>5. F[m].positions[1] = <<order[i][1], l[w[m][2]]>>
    BY <2>4 DEF Posting
  <2> QED
    BY <2>3, <2>5
<1>15. ASSUME NEW x \in 1 .. Len(F), NEW y \in 1 .. Len(F), x < y
       PROVE  <<Q[x], Q[y]>> \in Earlier
  <2> DEFINE i == w[x][1]
             j == w[y][1]
  <2>1. i \in 1 .. n /\ j \in 1 .. n
    BY <1>13
  <2>2. Before(w[x], w[y])
    BY <1>12, <1>15
  <2>3. PICK l : /\ Lists(l, Cardinality(D(i)), D(i), Lower)
                 /\ L[i] = [a \in 1 .. Cardinality(D(i)) |->
                              Posting(segs, t, <<order[i][1], l[a]>>)]
    BY <1>5, <2>1
  <2>4. PICK k : /\ Lists(k, Cardinality(D(j)), D(j), Lower)
                 /\ L[j] = [a \in 1 .. Cardinality(D(j)) |->
                              Posting(segs, t, <<order[j][1], k[a]>>)]
    BY <1>5, <2>1
  <2>5. w[x][2] \in 1 .. Cardinality(D(i)) /\ Q[x] = <<order[i][1], l[w[x][2]]>>
    BY <1>14, <2>3
  <2>6. Q[y] = <<order[j][1], k[w[y][2]]>>
    BY <1>14, <2>4
  <2>7. Q[x] \in Nat \X Nat /\ Q[y] \in Nat \X Nat
    BY <1>6, <1>13
  <2>8. CASE i < j
    <3>1. order[i][1] < order[j][1]
      BY <1>3, <2>1, <2>8
    <3> HIDE DEF Q, i, j
    <3>2. Q[x][1] < Q[y][1]
      BY <2>5, <2>6, <3>1
    <3> QED
      BY <2>7, <3>2 DEF Earlier, Before
  <2>9. CASE i = j /\ w[x][2] < w[y][2]
    <3>1. w[y][2] \in 1 .. Cardinality(D(i)) /\ Q[y] = <<order[i][1], l[w[y][2]]>>
      BY <1>14, <2>3, <2>9
    <3>2. l[w[x][2]] < l[w[y][2]]
      BY <2>3, <2>5, <2>9, <3>1 DEF Lists, Rises, Lower
    <3> HIDE DEF Q, i, j
    <3>3. Q[x][1] = Q[y][1] /\ Q[x][2] < Q[y][2]
      BY <2>5, <3>1, <3>2
    <3> QED
      BY <2>7, <3>3 DEF Earlier, Before
  <2> QED
    BY <2>2, <2>8, <2>9 DEF Before
<1>16. ASSUME NEW o \in LP
       PROVE  \E m \in 1 .. Len(F) : Q[m] = o
  <2>1. /\ o \in Nat \X Nat /\ o = <<o[1], o[2]>> /\ o[2] \in Nat
        /\ o[1] \in DOMAIN segs /\ t \in Range(segs[o[1]].dict)
    <3>1. o \in DocsOf(segs) /\ t \in Range(segs[o[1]].dict)
      BY DEF LP, LivePostings
    <3> QED
      BY <3>1, DocsAre
  <2>2. PICK p \in 1 .. Len(segs[o[1]].dict) : segs[o[1]].dict[p] = t
    <3>1. segs[o[1]].dict \in Seq(Nat)
      BY <2>1, Segments
    <3> QED
      BY <2>1, <3>1 DEF Range
  <2>3. <<o[1], p>> \in cs
    BY <2>1, <2>2 DEF AllOf
  <2>4. PICK i \in 1 .. n : order[i] = <<o[1], p>>
    BY <1>3, <2>3
  <2>5. PICK l : /\ Lists(l, Cardinality(D(i)), D(i), Lower)
                 /\ L[i] = [a \in 1 .. Cardinality(D(i)) |->
                              Posting(segs, t, <<order[i][1], l[a]>>)]
    BY <1>5
  <2>6. o[2] \in D(i)
    BY <2>1, <2>4 DEF D, LocalsIn
  <2>7. PICK a \in 1 .. Cardinality(D(i)) : l[a] = o[2]
    BY <2>5, <2>6 DEF Lists
  <2>8. Cardinality(D(i)) \in Nat
    BY <2>5 DEF Lists, Rises
  <2>9. Len(L[i]) = Cardinality(D(i))
    BY <2>5, <2>8
  <2>10. <<i, a>> \in Places(L, n)
    BY <2>8, <2>9 DEF Places
  <2>11. PICK m \in 1 .. Len(F) : w[m] = <<i, a>>
    BY <1>11, <2>10
  <2>12. w[m][1] = i /\ w[m][2] = a
    BY <2>11
  <2>13. Q[m] = <<order[i][1], l[a]>>
    BY <1>14, <2>5, <2>12
  <2> QED
    BY SMTT(30), <2>1, <2>4, <2>7, <2>13
<1>17. Lists(Q, Len(F), LP, Earlier)
  <2>1. Q \in [1 .. Len(F) -> LP]
    BY <1>13
  <2> HIDE DEF Q
  <2> QED
    BY <1>11, <1>15, <1>16, <2>1 DEF Lists, Rises
<1> DEFINE from == Sorted(LP, Before)
<1>18. Q = from /\ Len(F) = Cardinality(LP)
  <2>1. Lists(from, Cardinality(LP), LP, Earlier) /\ StrictOrder(Earlier, LP)
    BY <1>6, SortedDocs, EarlierOrders
  <2> HIDE DEF Q, from
  <2> QED
    BY <1>17, <2>1, OneList
<1>19. Entry(segs, fields, t).docs = [i \in DOMAIN from |-> Posting(segs, t, from[i])]
  BY DEF Entry, LP, Posting
<1>20. DOMAIN Q = 1 .. Len(F)
  OBVIOUS
<1> HIDE DEF Q, from
<1>21. F = [m \in 1 .. Len(F) |-> Posting(segs, t, Q[m])]
  <2>1. F = [m \in 1 .. Len(F) |-> F[m]]
    BY <1>11
  <2> QED
    BY <1>13, <2>1
<1>22. F = Entry(segs, fields, t).docs
  BY <1>18, <1>19, <1>20, <1>21
<1> QED
  BY <1>22 DEF F, L, order

-----------------------------------------------------------------------------
(* The invariant                                                           *)

(* The terms every cursor at q is past.                                    *)
Passed(ss, q) ==
  {t \in TermsOf(ss) : \A s \in DOMAIN ss : \A p \in 1 .. Len(ss[s].dict) :
                         ss[s].dict[p] = t => p < q[s]}

(* Those of the terms T that some live document has.                       *)
Kept(ss, T) == {t \in T : LivePostings(ss, t) # {}}

(* The merged dictionary of the terms T.                                   *)
DictOf(ss, fs, T) ==
  LET order == Sorted(T, <) IN [i \in DOMAIN order |-> Entry(ss, fs, order[i])]

(* The cursors and the heap are in step, between what is done and what is  *)
(* to come.                                                                *)
Cursors ==
  /\ segs \in Inputs
  /\ pos \in [DOMAIN segs -> Nat \ {0}]
  /\ pc \in {"fields", "docs"} => \A s \in DOMAIN segs : pos[s] = 1
  /\ pc \in {"pop", "gather"} => heap = HeapAt(segs, pos)
  /\ pc = "pop" =>
       \A s \in DOMAIN segs : \A p \in 1 .. Len(segs[s].dict) :
         p < pos[s] => \A e \in heap : segs[s].dict[p] < e[1]
  /\ pc = "gather" =>
       /\ term \in TermsOf(segs)
       /\ \A e \in heap : term <= e[1]
       /\ \A s \in DOMAIN segs : \A p \in 1 .. Len(segs[s].dict) :
            p < pos[s] => segs[s].dict[p] <= term

(* The TermInfos gathered are those of the term, of every cursor past it.  *)
Gathered ==
  pc = "gather" =>
    /\ IsFiniteSet(contributing)
    /\ \A c \in contributing : /\ c \in Nat \X Nat /\ c[1] \in DOMAIN segs
                               /\ c[2] \in 1 .. Len(segs[c[1]].dict)
                               /\ segs[c[1]].dict[c[2]] = term
    /\ \A s \in DOMAIN segs : \A p \in 1 .. Len(segs[s].dict) :
         segs[s].dict[p] = term /\ p < pos[s] => <<s, p>> \in contributing

(* The dictionary is that of some terms: those passed and not being        *)
(* gathered, while the merge is on.                                        *)
Written ==
  /\ \E T \in SUBSET TermsOf(segs) : dict = DictOf(segs, fields, T)
  /\ dict # <<>> => at[1] \notin DOMAIN segs
  /\ pc \in {"fields", "docs"} => dict = <<>>
  /\ pc = "pop" => dict = DictOf(segs, fields, Kept(segs, Passed(segs, pos)))
  /\ pc = "gather" => dict = DictOf(segs, fields, Kept(segs, Passed(segs, pos) \ {term}))

(* The merged .cfs is there only at the end, and is the batch merge's.     *)
Complete == cfs # NoFile => pc = "done" /\ ~Refused(segs) /\ cfs = Batch(segs)

(* The inductive invariant.                                                *)
MergeInv == Cursors /\ Gathered /\ DocsCopied /\ Written /\ Complete

-----------------------------------------------------------------------------
(* The least key of a heap is one of its keys, and below all of them.      *)
LEMMA LeastKey ==
  ASSUME NEW h, h # {}, h \subseteq Nat \X Nat
  PROVE  /\ Least(h) \in h
         /\ \A f \in h : Least(h)[1] <= f[1]
<1> DEFINE Keys == {e[1] : e \in h}
<1>1. PICK t \in Keys : \A u \in Keys : t <= u
  <2>1. Keys \subseteq Nat /\ Keys # {}
    OBVIOUS
  <2> HIDE DEF Keys
  <2> QED
    BY <2>1, LeastNatural
<1> DEFINE Ties == {e[2] : e \in {f \in h : f[1] = t}}
<1>2. PICK s \in Ties : \A r \in Ties : s <= r
  <2>1. Ties \subseteq Nat /\ Ties # {}
    OBVIOUS
  <2> HIDE DEF Ties
  <2> QED
    BY <2>1, LeastNatural
<1>3. PICK e \in h : e[1] = t /\ e[2] = s
  BY <1>2
<1>4. \A f \in h : e[1] < f[1] \/ (e[1] = f[1] /\ e[2] <= f[2])
  <2> SUFFICES ASSUME NEW f \in h
               PROVE  e[1] < f[1] \/ (e[1] = f[1] /\ e[2] <= f[2])
    OBVIOUS
  <2>1. t <= f[1] /\ t \in Nat /\ f[1] \in Nat
    BY <1>1
  <2>2. CASE f[1] = t
    BY <1>2, <1>3, <2>2
  <2> QED
    BY <1>3, <2>1, <2>2
<1>5. /\ Least(h) \in h
      /\ \A f \in h : Least(h)[1] < f[1] \/ (Least(h)[1] = f[1] /\ Least(h)[2] <= f[2])
  BY <1>4 DEF Least
<1>6. \A f \in h : Least(h)[1] \in Nat /\ f[1] \in Nat
  BY <1>5
<1> QED
  BY <1>5, <1>6

(* A dictionary has numbers, which are terms of the input,                 *)
LEMMA DictTyped ==
  ASSUME NEW ss \in Inputs, NEW s \in DOMAIN ss
  PROVE  /\ \A p \in 1 .. Len(ss[s].dict) : ss[s].dict[p] \in Nat
         /\ \A p \in 1 .. Len(ss[s].dict) : ss[s].dict[p] \in TermsOf(ss)
<1> DEFINE d == ss[s].dict
<1>1. d \in Seq(Nat)
  BY Segments
<1> HIDE DEF d
<1>2. DOMAIN d = 1 .. Len(d) /\ \A p \in 1 .. Len(d) : d[p] \in Nat
  BY <1>1
<1>3. \A p \in 1 .. Len(d) : d[p] \in Range(d)
  BY <1>2 DEF Range
<1>4. Range(d) \subseteq TermsOf(ss)
  BY DEF TermsOf, d
<1> QED
  BY <1>2, <1>3, <1>4 DEF d

(* in order,                                                               *)
LEMMA DictRises ==
  ASSUME NEW ss \in Inputs, NEW s \in DOMAIN ss
  PROVE  \A i, j \in 1 .. Len(ss[s].dict) : i < j => ss[s].dict[i] < ss[s].dict[j]
BY SegmentsAssumption

(* and every term is in one.                                               *)
LEMMA TermsAre ==
  ASSUME NEW ss \in Inputs, NEW t \in TermsOf(ss)
  PROVE  \E s \in DOMAIN ss : \E p \in 1 .. Len(ss[s].dict) : ss[s].dict[p] = t
<1>1. PICK s \in DOMAIN ss : t \in Range(ss[s].dict)
  BY DEF TermsOf
<1> DEFINE d == ss[s].dict
<1>2. d \in Seq(Nat) /\ t \in Range(d)
  BY <1>1, Segments
<1> HIDE DEF d
<1>3. DOMAIN d = 1 .. Len(d)
  BY <1>2
<1>4. \E p \in 1 .. Len(d) : d[p] = t
  BY <1>2, <1>3 DEF Range
<1> QED
  BY <1>4 DEF d

(* A key on the heap is a term and a segment.                              *)
LEMMA HeapTyped ==
  ASSUME NEW ss \in Inputs, NEW q \in [DOMAIN ss -> Nat \ {0}]
  PROVE  HeapAt(ss, q) \subseteq Nat \X Nat
<1> SUFFICES ASSUME NEW s \in DOMAIN ss, q[s] <= Len(ss[s].dict)
             PROVE  <<ss[s].dict[q[s]], s>> \in Nat \X Nat
  BY DEF HeapAt
<1>1. ss[s].dict \in Seq(Nat) /\ s \in Nat /\ q[s] \in 1 .. Len(ss[s].dict)
  BY Segments
<1> QED
  BY <1>1

(* The least key of a heap in step is the term one cursor is at.           *)
LEMMA LeastIs ==
  ASSUME Cursors, heap = HeapAt(segs, pos), heap # {}
  PROVE  LET k == Least(heap)
         IN /\ k \in heap
            /\ k[2] \in DOMAIN segs /\ k[2] \in Nat
            /\ pos[k[2]] \in 1 .. Len(segs[k[2]].dict)
            /\ k = <<segs[k[2]].dict[pos[k[2]]], k[2]>>
            /\ k[1] \in Nat /\ k[1] \in TermsOf(segs)
            /\ \A e \in heap : k[1] <= e[1]
<1> DEFINE k == Least(heap)
<1>0. segs \in Inputs /\ pos \in [DOMAIN segs -> Nat \ {0}]
  BY DEF Cursors
<1>1. heap \subseteq Nat \X Nat
  BY <1>0, HeapTyped
<1>2. k \in heap /\ \A e \in heap : k[1] <= e[1]
  BY <1>1, LeastKey
<1> HIDE DEF k
<1>3. PICK s \in DOMAIN segs : pos[s] <= Len(segs[s].dict) /\ k = <<segs[s].dict[pos[s]], s>>
  BY <1>2 DEF HeapAt
<1>4. k[2] = s /\ k[1] = segs[s].dict[pos[s]] /\ s \in Nat
  BY <1>0, <1>3, Segments
<1>5. pos[s] \in 1 .. Len(segs[s].dict)
  BY <1>0, <1>3, Segments
<1>6. k[1] \in Nat /\ k[1] \in TermsOf(segs)
  BY <1>0, <1>4, <1>5, DictTyped
<1> QED
  BY <1>2, <1>3, <1>4, <1>5, <1>6 DEF k

(* Taking the least key leaves the heap in step: the cursor of its segment *)
(* goes on, and no key is smaller than the one taken.                      *)
LEMMA TakeStep ==
  ASSUME Cursors, heap = HeapAt(segs, pos), heap # {},
         NEW others, Take(Least(heap), others)
  PROVE  /\ pos' = [pos EXCEPT ![Least(heap)[2]] = pos[Least(heap)[2]] + 1]
         /\ pos' \in [DOMAIN segs -> Nat \ {0}]
         /\ heap' = HeapAt(segs, pos')
         /\ \A e \in heap' : Least(heap)[1] <= e[1]
         /\ contributing' = others \cup {<<Least(heap)[2], pos[Least(heap)[2]]>>}
<1> DEFINE k == Least(heap)
           s == k[2]
           next == pos[s] + 1
<1>0. segs \in Inputs /\ pos \in [DOMAIN segs -> Nat \ {0}]
  BY DEF Cursors
<1>1. /\ k \in heap /\ s \in DOMAIN segs
      /\ pos[s] \in 1 .. Len(segs[s].dict)
      /\ k = <<segs[s].dict[pos[s]], s>> /\ k[1] \in Nat
      /\ \A e \in heap : k[1] <= e[1]
  BY LeastIs
<1>2. /\ pos' = [pos EXCEPT ![s] = next]
      /\ heap' = (heap \ {k}) \cup
           IF next <= Len(segs[s].dict) THEN {<<segs[s].dict[next], s>>} ELSE {}
      /\ contributing' = others \cup {<<s, pos[s]>>}
  BY DEF Take
<1> HIDE DEF k
<1>3. pos' \in [DOMAIN segs -> Nat \ {0}] /\ pos'[s] = next
  BY <1>0, <1>1, <1>2
<1>4. \A r \in DOMAIN segs : r # s => pos'[r] = pos[r]
  BY <1>0, <1>2
<1>5. heap' = HeapAt(segs, pos')
  <2>1. heap \ {k} = {<<segs[r].dict[pos[r]], r>> :
                        r \in {q \in DOMAIN segs : q # s /\ pos[q] <= Len(segs[q].dict)}}
    BY <1>1 DEF HeapAt
  <2>2. HeapAt(segs, pos') =
          {<<segs[r].dict[pos[r]], r>> :
             r \in {q \in DOMAIN segs : q # s /\ pos[q] <= Len(segs[q].dict)}}
          \cup IF next <= Len(segs[s].dict) THEN {<<segs[s].dict[next], s>>} ELSE {}
    BY <1>1, <1>3, <1>4 DEF HeapAt
  <2> QED
    BY <1>2, <2>1, <2>2
<1>6. \A e \in heap' : k[1] <= e[1]
  <2> SUFFICES ASSUME NEW e \in heap'
               PROVE  k[1] <= e[1]
    OBVIOUS
  <2>1. CASE e \in heap
    BY <1>1, <2>1
  <2>2. CASE next <= Len(segs[s].dict) /\ e = <<segs[s].dict[next], s>>
    <3>1. pos[s] < next /\ next \in 1 .. Len(segs[s].dict)
      BY <1>0, <1>1, <2>2, Segments
    <3>2. segs[s].dict[pos[s]] < segs[s].dict[next]
      BY <1>0, <1>1, <3>1, DictRises
    <3>3. segs[s].dict[pos[s]] \in Nat /\ segs[s].dict[next] \in Nat
      BY <1>0, <1>1, <3>1, DictTyped
    <3>4. k[1] = segs[s].dict[pos[s]] /\ e[1] = segs[s].dict[next]
      BY <1>1, <2>2
    <3> QED
      BY <3>2, <3>3, <3>4
  <2> QED
    BY <1>2, <2>1, <2>2
<1> QED
  BY <1>2, <1>3, <1>5, <1>6 DEF k

(* Only the term a cursor was at can become passed when it goes on.        *)
LEMMA PassedSame ==
  ASSUME NEW ss \in Inputs, NEW q \in [DOMAIN ss -> Nat \ {0}], NEW s \in DOMAIN ss,
         q[s] \in 1 .. Len(ss[s].dict)
  PROVE  Passed(ss, [q EXCEPT ![s] = q[s] + 1]) \ {ss[s].dict[q[s]]}
           = Passed(ss, q) \ {ss[s].dict[q[s]]}
<1> DEFINE r == [q EXCEPT ![s] = q[s] + 1]
           t0 == ss[s].dict[q[s]]
<1>1. r[s] = q[s] + 1 /\ \A x \in DOMAIN ss : x # s => r[x] = q[x]
  OBVIOUS
<1>2. q[s] \in Nat
  OBVIOUS
<1> HIDE DEF r
<1>3. ASSUME NEW t \in TermsOf(ss), t # t0, NEW x \in DOMAIN ss,
             NEW p \in 1 .. Len(ss[x].dict), ss[x].dict[p] = t
      PROVE  p < r[x] <=> p < q[x]
  <2>1. CASE x # s
    BY <1>1, <2>1
  <2>2. CASE x = s
    <3>1. p # q[s]
      BY <1>3, <2>2
    <3>2. p \in Nat
      BY Segments
    <3>3. p < q[s] + 1 <=> p < q[s]
      BY <1>2, <3>1, <3>2
    <3> QED
      BY <1>1, <2>2, <3>3
  <2> QED
    BY <2>1, <2>2
<1> HIDE DEF t0
<1>4. ASSUME NEW t, t # t0
      PROVE  t \in Passed(ss, r) <=> t \in Passed(ss, q)
  BY <1>3, <1>4 DEF Passed
<1> QED
  BY <1>4 DEF r, t0

(* The term a cursor is at is not passed.                                  *)
LEMMA NotPassed ==
  ASSUME NEW ss \in Inputs, NEW q \in [DOMAIN ss -> Nat \ {0}], NEW s \in DOMAIN ss,
         q[s] \in 1 .. Len(ss[s].dict)
  PROVE  ss[s].dict[q[s]] \notin Passed(ss, q)
<1>1. q[s] \in Nat /\ ~(q[s] < q[s])
  OBVIOUS
<1> QED
  BY <1>1 DEF Passed

-----------------------------------------------------------------------------
(* The dictionary of no term is empty.                                     *)
LEMMA DictNone ==
  ASSUME NEW ss, NEW fs
  PROVE  DictOf(ss, fs, {}) = <<>>
<1> DEFINE S == {}
<1>1. IsFiniteSet(S) /\ Cardinality(S) = 0 /\ S \subseteq Nat
  BY FS_EmptySet
<1> HIDE DEF S
<1>2. Lists(Sorted(S, <), Cardinality(S), S, Lower)
  BY <1>1, SortedNumbers
<1> DEFINE q == Sorted(S, <)
<1>3. Lists(q, 0, S, Lower)
  BY <1>1, <1>2
<1>4. DictOf(ss, fs, S) = [i \in DOMAIN q |-> Entry(ss, fs, q[i])]
  BY DEF DictOf
<1> HIDE DEF q
<1>5. DOMAIN q = {}
  BY <1>3 DEF Lists, Rises
<1>6. [i \in DOMAIN q |-> Entry(ss, fs, q[i])] = <<>>
  BY <1>5
<1> QED
  BY <1>4, <1>6 DEF S

(* The dictionary of one more term, above all others, has its entry last.  *)
LEMMA DictMore ==
  ASSUME NEW ss, NEW fs, NEW T, IsFiniteSet(T), T \subseteq Nat,
         NEW t \in Nat, \A a \in T : a < t
  PROVE  DictOf(ss, fs, T \cup {t}) = Append(DictOf(ss, fs, T), Entry(ss, fs, t))
<1> DEFINE q == Sorted(T, <)
           n == Cardinality(T)
           U == T \cup {t}
           r == Sorted(U, <)
           v == [i \in 1 .. (n + 1) |-> IF i = n + 1 THEN t ELSE q[i]]
           s == DictOf(ss, fs, T)
           d == DictOf(ss, fs, U)
<1>1. Lists(q, n, T, Lower)
  BY SortedNumbers
<1>2. \A a \in T : <<a, t>> \in Lower
  BY DEF Lower
<1>3. n \in Nat /\ q \in [1 .. n -> T]
  BY <1>1 DEF Lists, Rises
<1>4. s = [i \in DOMAIN q |-> Entry(ss, fs, q[i])]
  BY DEF DictOf
<1>5. d = [i \in DOMAIN r |-> Entry(ss, fs, r[i])]
  BY DEF DictOf
<1> HIDE DEF q, n, s, d
<1>6. Lists(v, n + 1, U, Lower)
  BY <1>1, <1>2, ListMore
<1>7. IsFiniteSet(U) /\ U \subseteq Nat
  BY FS_AddElement
<1> HIDE DEF U
<1>8. Lists(r, Cardinality(U), U, Lower) /\ StrictOrder(Lower, U)
  BY <1>7, SortedNumbers
<1>9. r = v
  <2> HIDE DEF r, v
  <2> QED
    BY <1>6, <1>8, OneList
<1> HIDE DEF r
<1>10. ListOf(s, n)
  BY <1>3, <1>4 DEF ListOf
<1>11. ListOf(d, n + 1) /\ d[n + 1] = Entry(ss, fs, t)
  BY <1>3, <1>5, <1>9 DEF ListOf
<1>12. \A i \in 1 .. n : d[i] = s[i]
  BY <1>3, <1>4, <1>5, <1>9
<1>13. d = Append(s, d[n + 1])
  BY <1>3, <1>10, <1>11, <1>12, AppendMapped
<1> QED
  BY <1>11, <1>13 DEF s, d, U

-----------------------------------------------------------------------------
(* Steps that leave the cursors alone leave them in step.                  *)
LEMMA CursorsStay ==
  ASSUME Cursors, Gathered, UNCHANGED <<segs, terms>>,
         \/ pc' = pc
         \/ pc \in {"fields", "docs"} /\ pc' = "docs"
         \/ pc' \in {"done", "failed"}
  PROVE  Cursors' /\ Gathered'
<1>1. UNCHANGED <<segs, pos, heap, term, contributing>>
  BY DEF terms
<1>2. Cursors'
  BY <1>1 DEF Cursors
<1>3. Gathered'
  BY <1>1 DEF Gathered
<1> QED
  BY <1>2, <1>3

(* At the start of phase 3 every cursor is at its first term.              *)
LEMMA CursorsStart ==
  ASSUME Cursors, StartTerms
  PROVE  Cursors' /\ Gathered'
<1>1. /\ UNCHANGED <<segs, pos, term, contributing>>
      /\ pc = "docs" /\ pc' = "pop"
      /\ heap' = {<<segs[s].dict[1], s>> :
                    s \in {r \in DOMAIN segs : segs[r].dict # <<>>}}
  BY DEF StartTerms
<1>2. segs \in Inputs /\ pos \in [DOMAIN segs -> Nat \ {0}]
      /\ \A s \in DOMAIN segs : pos[s] = 1
  BY <1>1 DEF Cursors
<1>3. heap' = HeapAt(segs, pos)
  <2>1. \A s \in DOMAIN segs : segs[s].dict # <<>> <=> pos[s] <= Len(segs[s].dict)
    <3>1. \A d \in Seq(Nat) : d # <<>> <=> 1 <= Len(d)
      OBVIOUS
    <3> QED
      BY <1>2, <3>1, Segments
  <2> QED
    BY <1>1, <1>2, <2>1 DEF HeapAt
<1>4. \A s \in DOMAIN segs : \A p \in 1 .. Len(segs[s].dict) : ~(p < pos[s])
  BY <1>2, Segments
<1>5. Cursors'
  BY <1>1, <1>2, <1>3, <1>4 DEF Cursors
<1> QED
  BY <1>1, <1>5 DEF Gathered

(* The first key of a term: the term becomes passed when it is gathered.   *)
LEMMA CursorsPop ==
  ASSUME Cursors, PopTerm
  PROVE  Cursors' /\ Gathered' /\ Passed(segs, pos') \ {term'} = Passed(segs, pos)
<1> DEFINE k == Least(heap)
           s == k[2]
<1>1. /\ pc = "pop" /\ heap # {} /\ pc' = "gather"
      /\ term' = k[1] /\ segs' = segs
      /\ Take(Least(heap), {})
  BY DEF PopTerm
<1>2. /\ segs \in Inputs /\ pos \in [DOMAIN segs -> Nat \ {0}]
      /\ heap = HeapAt(segs, pos)
      /\ \A x \in DOMAIN segs : \A p \in 1 .. Len(segs[x].dict) :
           p < pos[x] => \A e \in heap : segs[x].dict[p] < e[1]
  BY <1>1 DEF Cursors
<1>3. /\ k \in heap /\ s \in DOMAIN segs /\ s \in Nat
      /\ pos[s] \in 1 .. Len(segs[s].dict)
      /\ k = <<segs[s].dict[pos[s]], s>>
      /\ k[1] \in Nat /\ k[1] \in TermsOf(segs)
  BY <1>1, <1>2, LeastIs
<1>4. /\ pos' = [pos EXCEPT ![s] = pos[s] + 1]
      /\ pos' \in [DOMAIN segs -> Nat \ {0}]
      /\ heap' = HeapAt(segs, pos')
      /\ \A e \in heap' : k[1] <= e[1]
      /\ contributing' = {<<s, pos[s]>>}
  BY <1>1, <1>2, TakeStep
<1> HIDE DEF k
<1>5. k[1] = segs[s].dict[pos[s]]
  BY <1>3
<1>6. ASSUME NEW x \in DOMAIN segs, NEW p \in 1 .. Len(segs[x].dict), p < pos'[x]
      PROVE  p < pos[x] \/ (x = s /\ p = pos[s])
  BY <1>2, <1>3, <1>4, <1>6, Segments
<1>7. ASSUME NEW x \in DOMAIN segs, NEW p \in 1 .. Len(segs[x].dict), p < pos'[x]
      PROVE  segs[x].dict[p] <= k[1] /\ (segs[x].dict[p] = k[1] => x = s /\ p = pos[s])
  <2>1. segs[x].dict[p] \in Nat
    BY <1>2, DictTyped
  <2>2. CASE p < pos[x]
    <3>1. segs[x].dict[p] < k[1]
      BY <1>2, <1>3, <2>2
    <3> QED
      BY <1>3, <2>1, <3>1
  <2>3. CASE x = s /\ p = pos[s]
    BY <1>5, <2>1, <2>3
  <2> QED
    BY <1>6, <1>7, <2>2, <2>3
<1>8. Cursors'
  BY <1>1, <1>2, <1>3, <1>4, <1>7 DEF Cursors
<1>9. Gathered'
  <2>1. IsFiniteSet(contributing')
    BY <1>4, FS_Singleton
  <2>2. \A c \in contributing' : /\ c \in Nat \X Nat /\ c[1] \in DOMAIN segs
                                 /\ c[2] \in 1 .. Len(segs[c[1]].dict)
                                 /\ segs[c[1]].dict[c[2]] = k[1]
    BY <1>2, <1>3, <1>4, <1>5
  <2>3. \A x \in DOMAIN segs : \A p \in 1 .. Len(segs[x].dict) :
          segs[x].dict[p] = k[1] /\ p < pos'[x] => <<x, p>> \in contributing'
    BY <1>4, <1>7
  <2> QED
    BY <1>1, <2>1, <2>2, <2>3 DEF Gathered
<1>10. Passed(segs, pos') \ {k[1]} = Passed(segs, pos)
  <2>1. Passed(segs, [pos EXCEPT ![s] = pos[s] + 1]) \ {segs[s].dict[pos[s]]}
          = Passed(segs, pos) \ {segs[s].dict[pos[s]]}
    BY <1>2, <1>3, PassedSame
  <2>2. segs[s].dict[pos[s]] \notin Passed(segs, pos)
    BY <1>2, <1>3, NotPassed
  <2> QED
    BY <1>4, <1>5, <2>1, <2>2
<1> QED
  BY <1>1, <1>8, <1>9, <1>10

(* A further key of the same term adds its TermInfo, and passes no other   *)
(* term.                                                                   *)
LEMMA CursorsGather ==
  ASSUME Cursors, Gathered, GatherSame
  PROVE  Cursors' /\ Gathered' /\ Passed(segs, pos') \ {term} = Passed(segs, pos) \ {term}
<1> DEFINE k == Least(heap)
           s == k[2]
<1>1. /\ pc = "gather" /\ heap # {} /\ pc' = "gather"
      /\ term' = term /\ segs' = segs /\ k[1] = term
      /\ Take(Least(heap), contributing)
  BY DEF GatherSame, SameOnTop
<1>2. /\ segs \in Inputs /\ pos \in [DOMAIN segs -> Nat \ {0}]
      /\ heap = HeapAt(segs, pos) /\ term \in TermsOf(segs)
      /\ \A x \in DOMAIN segs : \A p \in 1 .. Len(segs[x].dict) :
           p < pos[x] => segs[x].dict[p] <= term
  BY <1>1 DEF Cursors
<1>3. /\ k \in heap /\ s \in DOMAIN segs /\ s \in Nat
      /\ pos[s] \in 1 .. Len(segs[s].dict)
      /\ k = <<segs[s].dict[pos[s]], s>> /\ k[1] \in Nat
  BY <1>1, <1>2, LeastIs
<1>4. /\ pos' = [pos EXCEPT ![s] = pos[s] + 1]
      /\ pos' \in [DOMAIN segs -> Nat \ {0}]
      /\ heap' = HeapAt(segs, pos')
      /\ \A e \in heap' : k[1] <= e[1]
      /\ contributing' = contributing \cup {<<s, pos[s]>>}
  BY <1>1, <1>2, TakeStep
<1> HIDE DEF k
<1>5. term = segs[s].dict[pos[s]] /\ term \in Nat
  BY <1>1, <1>3
<1>6. ASSUME NEW x \in DOMAIN segs, NEW p \in 1 .. Len(segs[x].dict), p < pos'[x]
      PROVE  p < pos[x] \/ (x = s /\ p = pos[s])
  BY <1>2, <1>3, <1>4, <1>6, Segments
<1>7. \A x \in DOMAIN segs : \A p \in 1 .. Len(segs[x].dict) :
        p < pos'[x] => segs[x].dict[p] <= term
  BY <1>2, <1>5, <1>6
<1>8. Cursors'
  BY <1>1, <1>2, <1>3, <1>4, <1>7 DEF Cursors
<1>9. Gathered'
  <2>0. /\ IsFiniteSet(contributing)
        /\ \A c \in contributing : /\ c \in Nat \X Nat /\ c[1] \in DOMAIN segs
                                   /\ c[2] \in 1 .. Len(segs[c[1]].dict)
                                   /\ segs[c[1]].dict[c[2]] = term
        /\ \A x \in DOMAIN segs : \A p \in 1 .. Len(segs[x].dict) :
             segs[x].dict[p] = term /\ p < pos[x] => <<x, p>> \in contributing
    BY <1>1 DEF Gathered
  <2>1. IsFiniteSet(contributing')
    BY <1>4, <2>0, FS_AddElement
  <2>2. \A c \in contributing' : /\ c \in Nat \X Nat /\ c[1] \in DOMAIN segs
                                 /\ c[2] \in 1 .. Len(segs[c[1]].dict)
                                 /\ segs[c[1]].dict[c[2]] = term
    BY <1>2, <1>3, <1>4, <1>5, <2>0
  <2>3. \A x \in DOMAIN segs : \A p \in 1 .. Len(segs[x].dict) :
          segs[x].dict[p] = term /\ p < pos'[x] => <<x, p>> \in contributing'
    BY <1>4, <1>6, <2>0
  <2> QED
    BY <1>1, <2>1, <2>2, <2>3 DEF Gathered
<1>10. Passed(segs, pos') \ {term} = Passed(segs, pos) \ {term}
  <2>1. Passed(segs, [pos EXCEPT ![s] = pos[s] + 1]) \ {segs[s].dict[pos[s]]}
          = Passed(segs, pos) \ {segs[s].dict[pos[s]]}
    BY <1>2, <1>3, PassedSame
  <2> QED
    BY <1>4, <1>5, <2>1
<1> QED
  BY <1>8, <1>9, <1>10

(* When no key on the heap is the term, every cursor is past it and what   *)
(* is left is above it.                                                    *)
LEMMA CursorsEmit ==
  ASSUME Cursors, Gathered, pc = "gather", ~SameOnTop
  PROVE  /\ \A e \in heap : term < e[1]
         /\ term \in Passed(segs, pos)
         /\ AllOf(contributing, segs, term)
<1>1. /\ segs \in Inputs /\ pos \in [DOMAIN segs -> Nat \ {0}]
      /\ heap = HeapAt(segs, pos) /\ term \in TermsOf(segs)
      /\ \A e \in heap : term <= e[1]
  BY DEF Cursors
<1>2. term \in Nat
  BY <1>1, TermsFinite
<1>3. \A e \in heap : term < e[1]
  <2> SUFFICES ASSUME NEW e \in heap
               PROVE  term < e[1]
    OBVIOUS
  <2>1. /\ Least(heap) \in heap /\ Least(heap)[1] \in Nat
        /\ Least(heap)[1] <= e[1]
    BY <1>1, LeastIs
  <2>2. Least(heap)[1] # term
    BY DEF SameOnTop
  <2>3. e[1] \in Nat
    BY <1>1, HeapTyped
  <2>4. term <= Least(heap)[1]
    BY <1>1, <2>1
  <2> QED
    BY <1>2, <2>1, <2>2, <2>3, <2>4
<1>4. ASSUME NEW s \in DOMAIN segs, NEW p \in 1 .. Len(segs[s].dict), segs[s].dict[p] = term
      PROVE  p < pos[s]
  <2> SUFFICES ASSUME ~(p < pos[s])
               PROVE  FALSE
    OBVIOUS
  <2>1. pos[s] \in 1 .. Len(segs[s].dict) /\ (pos[s] = p \/ pos[s] < p)
    BY <1>1, Segments
  <2>2. <<segs[s].dict[pos[s]], s>> \in heap
    BY <1>1, <2>1 DEF HeapAt
  <2>3. term < segs[s].dict[pos[s]]
    BY <1>3, <2>2
  <2>4. segs[s].dict[pos[s]] \in Nat
    BY <1>1, <2>1, DictTyped
  <2>5. pos[s] < p => segs[s].dict[pos[s]] < segs[s].dict[p]
    BY <1>1, <2>1, DictRises
  <2> QED
    BY <1>2, <1>4, <2>1, <2>3, <2>4, <2>5
<1>5. term \in Passed(segs, pos)
  BY <1>1, <1>4 DEF Passed
<1>6. AllOf(contributing, segs, term)
  BY <1>4 DEF Gathered, AllOf
<1> QED
  BY <1>3, <1>5, <1>6

-----------------------------------------------------------------------------
(* The dictionary                                                          *)

(* Some terms of an input with a live posting are finitely many numbers.   *)
LEMMA KeptFinite ==
  ASSUME NEW ss \in Inputs, NEW T \in SUBSET TermsOf(ss)
  PROVE  IsFiniteSet(Kept(ss, T)) /\ Kept(ss, T) \subseteq Nat
         /\ Kept(ss, T) \in SUBSET TermsOf(ss)
<1>1. IsFiniteSet(TermsOf(ss)) /\ TermsOf(ss) \subseteq Nat
  BY TermsFinite
<1>2. Kept(ss, T) \in SUBSET TermsOf(ss)
  BY DEF Kept
<1> QED
  BY <1>1, <1>2, FS_Subset

(* A term has documents in the merged index if it has a live posting.      *)
LEMMA EntryDocs ==
  ASSUME NEW ss \in Inputs, NEW fs, NEW t
  PROVE  Entry(ss, fs, t).docs = <<>> <=> LivePostings(ss, t) = {}
<1> DEFINE S == LivePostings(ss, t)
           from == Sorted(S, Before)
           docs == [i \in DOMAIN from |-> [id |-> NewId(ss, from[i]),
                                           positions |-> <<from[i], t>>]]
<1>1. Entry(ss, fs, t).docs = docs
  BY DEF Entry
<1>2. IsFiniteSet(S) /\ S \subseteq Nat \X Nat
  BY LivePostingsAre
<1>3. Lists(from, Cardinality(S), S, Earlier)
  <2> HIDE DEF S
  <2> QED
    BY <1>2, SortedDocs
<1> HIDE DEF from, S
<1>4. DOMAIN from = 1 .. Cardinality(S) /\ Cardinality(S) \in Nat
  BY <1>3 DEF Lists, Rises
<1>5. Cardinality(S) = 0 <=> S = {}
  BY <1>2, FS_EmptySet
<1>6. CASE S = {}
  <2>1. DOMAIN from = {}
    BY <1>4, <1>5, <1>6
  <2>2. docs = <<>>
    BY <2>1
  <2> QED
    BY <1>1, <1>6, <2>2 DEF S
<1>7. CASE S # {}
  <2>1. 1 \in DOMAIN docs
    BY <1>4, <1>5, <1>7
  <2>2. docs # <<>>
    <3> HIDE DEF docs
    <3> QED
      BY <2>1
  <2> QED
    BY <1>1, <1>7, <2>2 DEF S
<1> QED
  BY <1>6, <1>7

(* end_term adds the last of some terms to the dictionary of the others.   *)
LEMMA EmitDict ==
  ASSUME NEW ss \in Inputs, NEW fs, NEW T \in SUBSET TermsOf(ss),
         NEW t \in T, \A a \in T \ {t} : a < t
  PROVE  EndTerm(DictOf(ss, fs, Kept(ss, T \ {t})), Entry(ss, fs, t))
           = DictOf(ss, fs, Kept(ss, T))
<1> DEFINE K == Kept(ss, T \ {t})
<1>1. IsFiniteSet(K) /\ K \subseteq Nat
  <2>1. T \ {t} \in SUBSET TermsOf(ss)
    OBVIOUS
  <2> QED
    BY <2>1, KeptFinite
<1>2. t \in Nat
  BY TermsFinite
<1>3. \A a \in K : a < t
  BY DEF Kept
<1>4. CASE LivePostings(ss, t) = {}
  <2>1. Kept(ss, T) = K
    BY <1>4 DEF Kept
  <2>2. Entry(ss, fs, t).docs = <<>>
    BY <1>4, EntryDocs
  <2> QED
    BY <2>1, <2>2 DEF EndTerm
<1>5. CASE LivePostings(ss, t) # {}
  <2>1. Kept(ss, T) = K \cup {t}
    BY <1>5 DEF Kept
  <2>2. Entry(ss, fs, t).docs # <<>>
    BY <1>5, EntryDocs
  <2> HIDE DEF K
  <2>3. DictOf(ss, fs, K \cup {t}) = Append(DictOf(ss, fs, K), Entry(ss, fs, t))
    BY <1>1, <1>2, <1>3, DictMore
  <2> QED
    BY <2>1, <2>2, <2>3 DEF EndTerm, K
<1> QED
  BY <1>4, <1>5

(* No term is passed while every cursor is at its first.                   *)
LEMMA PassedNone ==
  ASSUME NEW ss \in Inputs, NEW q, \A s \in DOMAIN ss : q[s] = 1
  PROVE  Kept(ss, Passed(ss, q)) = {}
<1> SUFFICES ASSUME NEW t \in Passed(ss, q)
             PROVE  FALSE
  BY DEF Kept
<1>1. t \in TermsOf(ss)
  BY DEF Passed
<1>2. PICK s \in DOMAIN ss : \E p \in 1 .. Len(ss[s].dict) : ss[s].dict[p] = t
  BY <1>1, TermsAre
<1>3. PICK p \in 1 .. Len(ss[s].dict) : ss[s].dict[p] = t
  BY <1>2
<1>4. p < q[s] /\ q[s] = 1
  BY <1>3 DEF Passed
<1>5. p \in Nat /\ 1 <= p
  BY Segments
<1> QED
  BY <1>4, <1>5

(* Every term is, when every cursor is at its end.                         *)
LEMMA PassedAll ==
  ASSUME NEW ss \in Inputs, NEW q \in [DOMAIN ss -> Nat \ {0}], HeapAt(ss, q) = {}
  PROVE  Passed(ss, q) = TermsOf(ss)
<1>1. ASSUME NEW s \in DOMAIN ss, NEW p \in 1 .. Len(ss[s].dict)
      PROVE  p < q[s]
  <2>1. ~(q[s] <= Len(ss[s].dict))
    BY DEF HeapAt
  <2>2. q[s] \in Nat /\ Len(ss[s].dict) \in Nat
    BY Segments
  <2> QED
    BY <2>1, <2>2
<1> QED
  BY <1>1 DEF Passed

(* While a term is gathered, the others the cursors passed are below it.   *)
LEMMA PassedBelow ==
  ASSUME Cursors, pc = "gather"
  PROVE  \A a \in Passed(segs, pos) \ {term} : a < term
<1>1. /\ segs \in Inputs /\ term \in TermsOf(segs)
      /\ \A s \in DOMAIN segs : \A p \in 1 .. Len(segs[s].dict) :
           p < pos[s] => segs[s].dict[p] <= term
  BY DEF Cursors
<1> SUFFICES ASSUME NEW a \in Passed(segs, pos), a # term
             PROVE  a < term
  OBVIOUS
<1>2. a \in TermsOf(segs)
  BY DEF Passed
<1>3. PICK s \in DOMAIN segs : \E p \in 1 .. Len(segs[s].dict) : segs[s].dict[p] = a
  BY <1>1, <1>2, TermsAre
<1>4. PICK p \in 1 .. Len(segs[s].dict) : segs[s].dict[p] = a
  BY <1>3
<1>5. p < pos[s]
  BY <1>4 DEF Passed
<1>6. a <= term
  BY <1>1, <1>4, <1>5
<1>7. a \in Nat /\ term \in Nat
  BY <1>1, <1>2, TermsFinite
<1> QED
  BY <1>6, <1>7

-----------------------------------------------------------------------------
(* Nothing is written before the terms are merged.                         *)
LEMMA NothingWritten ==
  ASSUME NEW ss, NEW fs
  PROVE  \E T \in SUBSET TermsOf(ss) : <<>> = DictOf(ss, fs, T)
<1>1. {} \in SUBSET TermsOf(ss)
  OBVIOUS
<1> QED
  BY <1>1, DictNone

(* Steps that write no term leave the dictionary that of the same terms.   *)
LEMMA WrittenStay ==
  ASSUME Written, UNCHANGED <<segs, terms>>,
         UNCHANGED <<fields, at>> \/ pc \in {"fields", "docs"},
         \/ pc' = pc
         \/ pc \in {"fields", "docs"} /\ pc' = "docs"
         \/ pc' \in {"done", "failed"}
  PROVE  Written'
<1>1. UNCHANGED <<segs, pos, term, dict>>
  BY DEF terms
<1>2. CASE UNCHANGED <<fields, at>>
  BY <1>1, <1>2 DEF Written
<1>3. CASE pc \in {"fields", "docs"}
  <2>1. dict' = <<>>
    BY <1>1, <1>3 DEF Written
  <2>2. \E T \in SUBSET TermsOf(segs') : dict' = DictOf(segs', fields', T)
    BY <2>1, NothingWritten
  <2>3. pc' \notin {"pop", "gather"}
    BY <1>3
  <2> QED
    BY <2>1, <2>2, <2>3 DEF Written
<1> QED
  BY <1>2, <1>3

(* When the merge of the terms starts none is passed and none is written.  *)
LEMMA WrittenStart ==
  ASSUME Cursors, Written, StartTerms
  PROVE  Written'
<1>1. UNCHANGED <<segs, fields, at, pos, term, dict>> /\ pc = "docs" /\ pc' = "pop"
  BY DEF StartTerms, copied
<1>2. segs \in Inputs /\ \A s \in DOMAIN segs : pos[s] = 1
  BY <1>1 DEF Cursors
<1>3. dict = DictOf(segs, fields, Kept(segs, Passed(segs, pos)))
  <2>1. Kept(segs, Passed(segs, pos)) = {}
    BY <1>2, PassedNone
  <2>2. dict = <<>>
    BY <1>1 DEF Written
  <2> QED
    BY <2>1, <2>2, DictNone
<1> QED
  BY <1>1, <1>3 DEF Written

(* Taking a key passes only the term that is then gathered.                *)
LEMMA WrittenTake ==
  ASSUME Cursors, Gathered, Written, PopTerm \/ GatherSame
  PROVE  Written'
<1>1. UNCHANGED <<segs, fields, at, dict>> /\ pc' = "gather"
  BY DEF PopTerm, GatherSame, copied
<1>2. dict = DictOf(segs, fields, Kept(segs, Passed(segs, pos') \ {term'}))
  <2>1. CASE PopTerm
    <3>1. pc = "pop"
      BY <2>1 DEF PopTerm
    <3>2. dict = DictOf(segs, fields, Kept(segs, Passed(segs, pos)))
      BY <3>1 DEF Written
    <3> QED
      BY <2>1, <3>2, CursorsPop
  <2>2. CASE GatherSame
    <3>1. pc = "gather" /\ term' = term
      BY <2>2 DEF GatherSame
    <3>2. dict = DictOf(segs, fields, Kept(segs, Passed(segs, pos) \ {term}))
      BY <3>1 DEF Written
    <3> QED
      BY <2>2, <3>1, <3>2, CursorsGather
  <2> QED
    BY <2>1, <2>2
<1> QED
  BY <1>1, <1>2 DEF Written

(* What EmitTerm writes is the term's entry in the batch merge.            *)
LEMMA WrittenEmit ==
  ASSUME DocsCopied, Cursors, Gathered, Written, EmitTerm
  PROVE  Written'
<1> DEFINE P == Passed(segs, pos)
           order == InSegmentOrder(contributing)
           docs == FlattenSeq([i \in DOMAIN order |-> PostingsOf(order[i])])
<1>1. /\ pc = "gather" /\ ~SameOnTop /\ pc' = "pop"
      /\ dict' = EndTerm(dict, [term |-> term, field |-> Number(fields, FieldOf[term]),
                                docs |-> docs])
      /\ UNCHANGED <<segs, fields, at, pos>>
  BY DEF EmitTerm, copied
<1>2. /\ segs \in Inputs /\ at[1] \notin DOMAIN segs
      /\ docMaps = MapsOf(segs, AllLive(segs))
  <2>1. /\ segs \in Inputs /\ at \in Nat \X Nat /\ at[1] \in 1 .. (Len(segs) + 1)
        /\ at[1] \notin DOMAIN segs /\ docMaps = MapsOf(segs, SoFar(segs, at))
    BY <1>1 DEF DocsCopied
  <2>2. SoFar(segs, at) = AllLive(segs)
    BY <2>1, SoFarAll
  <2> QED
    BY <2>1, <2>2
<1>3. docs = Entry(segs, fields, term).docs
  <2>1. AllOf(contributing, segs, term)
    BY <1>1, CursorsEmit
  <2> QED
    BY <1>2, <2>1, GatheredIs
<1>4. [term |-> term, field |-> Number(fields, FieldOf[term]), docs |-> docs]
        = Entry(segs, fields, term)
  <2> HIDE DEF docs
  <2> QED
    BY <1>3 DEF Entry
<1>5. dict' = EndTerm(DictOf(segs, fields, Kept(segs, P \ {term})),
                      Entry(segs, fields, term))
  BY <1>1, <1>4 DEF Written
<1>6. P \in SUBSET TermsOf(segs)
  BY DEF Passed
<1>7. term \in P
  BY <1>1, CursorsEmit
<1>8. \A a \in P \ {term} : a < term
  BY <1>1, PassedBelow
<1> HIDE DEF P
<1>9. dict' = DictOf(segs, fields, Kept(segs, P))
  BY <1>2, <1>5, <1>6, <1>7, <1>8, EmitDict
<1>10. Kept(segs, P) \in SUBSET TermsOf(segs)
  BY <1>6 DEF Kept
<1> QED
  BY <1>1, <1>2, <1>9, <1>10 DEF Written, P

(* Once a term is written, what is left on the heap is above every term the*)
(* cursors passed.                                                         *)
LEMMA CursorsAfterEmit ==
  ASSUME Cursors, Gathered, EmitTerm
  PROVE  Cursors' /\ Gathered'
<1>1. pc = "gather" /\ ~SameOnTop /\ pc' = "pop" /\ UNCHANGED <<segs, pos, heap>>
  BY DEF EmitTerm
<1>2. /\ segs \in Inputs /\ pos \in [DOMAIN segs -> Nat \ {0}]
      /\ heap = HeapAt(segs, pos) /\ term \in TermsOf(segs)
      /\ \A s \in DOMAIN segs : \A p \in 1 .. Len(segs[s].dict) :
           p < pos[s] => segs[s].dict[p] <= term
  BY <1>1 DEF Cursors
<1>3. \A e \in heap : term < e[1] /\ e[1] \in Nat
  BY <1>1, <1>2, CursorsEmit, HeapTyped
<1>4. term \in Nat
  BY <1>2, TermsFinite
<1>5. ASSUME NEW s \in DOMAIN segs, NEW p \in 1 .. Len(segs[s].dict), p < pos[s],
             NEW e \in heap
      PROVE  segs[s].dict[p] < e[1]
  <2>1. segs[s].dict[p] <= term /\ segs[s].dict[p] \in Nat
    BY <1>2, <1>5, DictTyped
  <2> QED
    BY <1>3, <1>4, <2>1
<1> QED
  BY <1>1, <1>2, <1>5 DEF Cursors, Gathered

-----------------------------------------------------------------------------
(* The steps                                                               *)

(* The batch merge, in the terms of the invariant.                         *)
LEMMA BatchIs ==
  ASSUME NEW ss \in Inputs
  PROVE  Batch(ss) = [fields |-> FirstSeen(ss),
                      stored |-> StoredOf(ss, FirstSeen(ss), AllLive(ss)),
                      norms  |-> NormsOf(ss, FirstSeen(ss), AllLive(ss)),
                      dict   |-> DictOf(ss, FirstSeen(ss), Kept(ss, TermsOf(ss)))]
<1> DEFINE fs == FirstSeen(ss)
           docs == LiveDocs(ss)
           order == Sorted({t \in TermsOf(ss) : LivePostings(ss, t) # {}}, <)
<1>1. StoredOf(ss, fs, AllLive(ss)) = [i \in DOMAIN docs |-> Remapped(ss, fs, docs[i])]
  BY DEF StoredOf, LiveDocs, AllLive
<1>2. NormsOf(ss, fs, AllLive(ss)) =
        [f \in DOMAIN fs |->
           IF fs[f].indexed
           THEN [i \in DOMAIN docs |-> NormByte(ss, fs[f].name, docs[i])]
           ELSE <<>>]
  BY DEF NormsOf, ColumnOf, LiveDocs, AllLive
<1>3. DictOf(ss, fs, Kept(ss, TermsOf(ss))) =
        [i \in DOMAIN order |-> Entry(ss, fs, order[i])]
  BY DEF DictOf, Kept
<1>4. Batch(ss) = [fields |-> fs,
      stored |-> [i \in DOMAIN docs |-> Remapped(ss, fs, docs[i])],
      norms  |-> [f \in DOMAIN fs |->
                   IF fs[f].indexed
                   THEN [i \in DOMAIN docs |-> NormByte(ss, fs[f].name, docs[i])]
                   ELSE <<>>],
      dict   |-> [i \in DOMAIN order |-> Entry(ss, fs, order[i])]]
  BY DEF Batch
<1> HIDE DEF fs, docs, order
<1> QED
  BY <1>1, <1>2, <1>3, <1>4 DEF fs

(* Once every document is copied, what is in the temporary files is the    *)
(* batch merge's, and no segment is refused.                               *)
LEMMA DocsComplete ==
  ASSUME DocsCopied, at[1] \notin DOMAIN segs
  PROVE  /\ stored = StoredOf(segs, fields, AllLive(segs))
         /\ norms = NormsOf(segs, fields, AllLive(segs))
         /\ \A o \in AllLive(segs) : ~BadStored(segs, o)
<1>1. segs \in Inputs /\ at \in Nat \X Nat /\ at[1] \in 1 .. (Len(segs) + 1)
  BY DEF DocsCopied
<1>2. SoFar(segs, at) = AllLive(segs)
  BY <1>1, SoFarAll
<1> QED
  BY <1>2 DEF DocsCopied

(* With an empty heap every term is written: what is assembled is what the *)
(* batch merge computes.                                                   *)
LEMMA CompleteAssemble ==
  ASSUME DocsCopied, Cursors, Written, Assemble
  PROVE  Complete'
<1>1. /\ pc = "pop" /\ heap = {} /\ pc' = "done" /\ segs' = segs
      /\ cfs' = [fields |-> fields, stored |-> stored, norms |-> norms, dict |-> dict]
  BY DEF Assemble
<1>2. /\ segs \in Inputs /\ fields = FirstSeen(segs) /\ at[1] \notin DOMAIN segs
      /\ \A s \in DOMAIN segs : HasPositions(segs[s])
  BY <1>1 DEF DocsCopied
<1>3. /\ stored = StoredOf(segs, fields, AllLive(segs))
      /\ norms = NormsOf(segs, fields, AllLive(segs))
      /\ \A o \in AllLive(segs) : ~BadStored(segs, o)
  BY <1>2, DocsComplete
<1>4. dict = DictOf(segs, fields, Kept(segs, TermsOf(segs)))
  <2>1. pos \in [DOMAIN segs -> Nat \ {0}] /\ HeapAt(segs, pos) = {}
    BY <1>1 DEF Cursors
  <2>2. Passed(segs, pos) = TermsOf(segs)
    BY <1>2, <2>1, PassedAll
  <2> QED
    BY <1>1, <2>2 DEF Written
<1>5. cfs' = Batch(segs)
  BY <1>1, <1>2, <1>3, <1>4, BatchIs
<1>6. ~Refused(segs)
  BY <1>2, <1>3 DEF Refused, AllLive
<1> QED
  BY <1>1, <1>5, <1>6 DEF Complete

(* No other step makes a .cfs.                                             *)
LEMMA CompleteStay ==
  ASSUME Complete, pc # "done", UNCHANGED <<segs, cfs>>
  PROVE  Complete'
BY DEF Complete

-----------------------------------------------------------------------------
(* The invariant holds at the start.                                       *)
LEMMA MergeInit == Init => MergeInv
<1> SUFFICES ASSUME Init
             PROVE  MergeInv
  OBVIOUS
<1>1. /\ segs \in Inputs /\ pc = "fields" /\ dict = <<>> /\ cfs = NoFile
      /\ pos = [s \in DOMAIN segs |-> 1]
  BY DEF Init
<1>2. Cursors
  BY <1>1 DEF Cursors
<1>3. Gathered
  BY <1>1 DEF Gathered
<1>4. DocsCopied
  BY DocsInit
<1>5. Written
  <2>1. \E T \in SUBSET TermsOf(segs) : dict = DictOf(segs, fields, T)
    BY <1>1, NothingWritten
  <2> QED
    BY <1>1, <2>1 DEF Written
<1>6. Complete
  BY <1>1 DEF Complete
<1> QED
  BY <1>2, <1>3, <1>4, <1>5, <1>6 DEF MergeInv

(* Every step keeps it.                                                    *)
LEMMA MergeStep == MergeInv /\ [Next]_vars => MergeInv'
<1> SUFFICES ASSUME MergeInv, [Next]_vars
             PROVE  MergeInv'
  OBVIOUS
<1>0. Cursors /\ Gathered /\ DocsCopied /\ Written /\ Complete
  BY DEF MergeInv
<1>1. CASE UniteFields
  <2>1. pc = "fields" /\ pc' = "docs" /\ UNCHANGED <<segs, terms, cfs>>
    BY <1>1 DEF UniteFields
  <2>2. Cursors' /\ Gathered' /\ Written'
    BY <1>0, <2>1, CursorsStay, WrittenStay
  <2>3. DocsCopied' /\ Complete'
    BY <1>0, <1>1, <2>1, DocsUnite, CompleteStay
  <2> QED
    BY <2>2, <2>3 DEF MergeInv
<1>2. CASE SkipDeleted \/ CopyDoc \/ NextSegment
  <2>1. pc = "docs" /\ pc' = pc /\ UNCHANGED <<segs, terms, cfs>>
    BY <1>2 DEF SkipDeleted, CopyDoc, CopyTo, NextSegment
  <2>2. Cursors' /\ Gathered' /\ Written'
    BY <1>0, <2>1, CursorsStay, WrittenStay
  <2>3. DocsCopied' /\ Complete'
    BY <1>0, <1>2, <2>1, DocsSkip, DocsCopy, DocsNextSegment, CompleteStay
  <2> QED
    BY <2>2, <2>3 DEF MergeInv
<1>3. CASE StartTerms
  <2>1. pc = "docs" /\ UNCHANGED <<segs, cfs>>
    BY <1>3 DEF StartTerms
  <2>2. Cursors' /\ Gathered' /\ Written'
    BY <1>0, <1>3, CursorsStart, WrittenStart
  <2>3. DocsCopied' /\ Complete'
    BY <1>0, <1>3, <2>1, DocsStart, CompleteStay
  <2> QED
    BY <2>2, <2>3 DEF MergeInv
<1>4. CASE PopTerm \/ GatherSame
  <2>1. pc \in {"pop", "gather"} /\ pc' = "gather" /\ UNCHANGED <<segs, copied, cfs>>
    BY <1>4 DEF PopTerm, GatherSame
  <2>2. Cursors' /\ Gathered'
    BY <1>0, <1>4, CursorsPop, CursorsGather
  <2>3. Written'
    BY <1>0, <1>4, WrittenTake
  <2>4. DocsCopied' /\ Complete'
    BY <1>0, <2>1, DocsStay, CompleteStay
  <2> QED
    BY <2>2, <2>3, <2>4 DEF MergeInv
<1>5. CASE EmitTerm
  <2>1. pc = "gather" /\ pc' = "pop" /\ UNCHANGED <<segs, copied, cfs>>
    BY <1>5 DEF EmitTerm
  <2>2. Cursors' /\ Gathered' /\ Written'
    BY <1>0, <1>5, CursorsAfterEmit, WrittenEmit
  <2>3. DocsCopied' /\ Complete'
    BY <1>0, <2>1, DocsStay, CompleteStay
  <2> QED
    BY <2>2, <2>3 DEF MergeInv
<1>6. CASE Assemble
  <2>1. pc = "pop" /\ pc' = "done" /\ UNCHANGED <<segs, copied, terms>>
    BY <1>6 DEF Assemble
  <2>2. UNCHANGED <<fields, at>>
    BY <2>1 DEF copied
  <2>3. Cursors' /\ Gathered' /\ Written'
    BY <1>0, <2>1, <2>2, CursorsStay, WrittenStay
  <2>4. DocsCopied' /\ Complete'
    BY <1>0, <1>6, <2>1, DocsStay, CompleteAssemble
  <2> QED
    BY <2>3, <2>4 DEF MergeInv
<1>7. CASE Refuse \/ IOFails
  <2>1. pc # "done" /\ pc' = "failed" /\ UNCHANGED <<segs, copied, terms, cfs>>
    BY <1>7 DEF Refuse, IOFails
  <2>2. UNCHANGED <<fields, at>>
    BY <2>1 DEF copied
  <2>3. Cursors' /\ Gathered' /\ Written'
    BY <1>0, <2>1, <2>2, CursorsStay, WrittenStay
  <2>4. DocsCopied' /\ Complete'
    BY <1>0, <2>1, DocsStay, CompleteStay
  <2> QED
    BY <2>3, <2>4 DEF MergeInv
<1>8. CASE UNCHANGED vars
  <2>1. pc' = pc /\ UNCHANGED <<segs, copied, terms, cfs>>
    BY <1>8 DEF vars
  <2>2. UNCHANGED <<fields, at>>
    BY <2>1 DEF copied
  <2>3. Cursors' /\ Gathered' /\ Written'
    BY <1>0, <2>1, <2>2, CursorsStay, WrittenStay
  <2>4. DocsCopied'
    BY <1>0, <2>1, DocsStay
  <2>5. Complete'
    BY <1>0, <2>1 DEF Complete
  <2> QED
    BY <2>3, <2>4, <2>5 DEF MergeInv
<1> QED
  BY <1>1, <1>2, <1>3, <1>4, <1>5, <1>6, <1>7, <1>8 DEF Next, Proceed

-----------------------------------------------------------------------------
(* What the invariant says                                                 *)

(* The new id of a live document is its place among them, from 0.          *)
LEMMA NewIdIs ==
  ASSUME NEW ss \in Inputs, NEW o \in AllLive(ss)
  PROVE  \E i \in 1 .. Cardinality(AllLive(ss)) :
           LiveDocs(ss)[i] = o /\ NewId(ss, o) = i - 1
<1> DEFINE S == AllLive(ss)
           q == LiveDocs(ss)
<1>1. IsFiniteSet(S) /\ S \subseteq Nat \X Nat
  <2>1. S \in SUBSET DocsOf(ss)
    BY DEF AllLive
  <2> QED
    BY <2>1, DocsFinite, DocsAre, FS_Subset
<1>2. NewId(ss, o) = Cardinality({a \in S : <<a, o>> \in Earlier})
  <2>1. {p \in DocsOf(ss) : Live(ss, p) /\ Before(p, o)} = {a \in S : <<a, o>> \in Earlier}
    BY <1>1 DEF AllLive, Earlier
  <2> QED
    BY <2>1 DEF NewId
<1>3. q = Sorted(S, Before)
  BY DEF LiveDocs, AllLive
<1> HIDE DEF S, q
<1>4. Lists(q, Cardinality(S), S, Earlier) /\ StrictOrder(Earlier, S)
  BY <1>1, <1>3, SortedDocs, EarlierOrders
<1>5. PICK i \in 1 .. Cardinality(S) : q[i] = o
  BY <1>4 DEF Lists, S
<1>6. Cardinality({a \in S : <<a, q[i]>> \in Earlier}) = i - 1
  BY <1>4, MembersBefore
<1> QED
  BY <1>2, <1>5, <1>6 DEF S, q

(* New ids follow the order of the documents.                              *)
LEMMA NewIdRises ==
  ASSUME NEW ss \in Inputs, NEW o \in AllLive(ss), NEW p \in AllLive(ss),
         <<o, p>> \in Earlier
  PROVE  NewId(ss, o) < NewId(ss, p)
<1> DEFINE S == AllLive(ss)
           q == LiveDocs(ss)
           n == Cardinality(S)
<1>1. S \subseteq Nat \X Nat /\ IsFiniteSet(S)
  <2>1. S \in SUBSET DocsOf(ss)
    BY DEF AllLive
  <2> QED
    BY <2>1, DocsFinite, DocsAre, FS_Subset
<1>2. q = Sorted(S, Before)
  BY DEF LiveDocs, AllLive
<1>3. PICK i \in 1 .. n : q[i] = o /\ NewId(ss, o) = i - 1
  BY NewIdIs
<1>4. PICK j \in 1 .. n : q[j] = p /\ NewId(ss, p) = j - 1
  BY NewIdIs
<1> HIDE DEF S, q, n
<1>5. Rises(q, n, S, Earlier) /\ StrictOrder(Earlier, S)
  BY <1>1, <1>2, SortedDocs, EarlierOrders DEF n, Lists
<1>6. i < j
  <2>1. <<q[i], q[j]>> \in Earlier
    BY <1>3, <1>4
  <2> QED
    BY <1>5, <2>1, RisesForward
<1> QED
  BY <1>3, <1>4, <1>6

-----------------------------------------------------------------------------
(* The cursors and the heap: CursorsInSync is a part of the invariant.     *)
LEMMA InSync ==
  ASSUME Cursors, Gathered
  PROVE  CursorsInSync
BY DEF Cursors, Gathered, CursorsInSync, HeapAt

(* A dictionary of terms lists them in order.                              *)
LEMMA Ascending ==
  ASSUME MergeInv
  PROVE  TermsAscend
<1>1. segs \in Inputs
  BY DEF MergeInv, Cursors
<1>2. PICK T \in SUBSET TermsOf(segs) : dict = DictOf(segs, fields, T)
  BY DEF MergeInv, Written
<1>3. IsFiniteSet(T) /\ T \subseteq Nat
  BY <1>1, TermsFinite, FS_Subset
<1> DEFINE q == Sorted(T, <)
<1>4. Lists(q, Cardinality(T), T, Lower)
  BY <1>3, SortedNumbers
<1>5. dict = [i \in DOMAIN q |-> Entry(segs, fields, q[i])]
  BY <1>2 DEF DictOf
<1> HIDE DEF q
<1>6. DOMAIN dict = 1 .. Cardinality(T) /\ \A i \in 1 .. Cardinality(T) : dict[i].term = q[i]
  BY <1>4, <1>5 DEF Lists, Rises, Entry
<1>7. \A i, j \in 1 .. Cardinality(T) : i < j => q[i] < q[j]
  BY <1>4 DEF Lists, Rises, Lower
<1> QED
  BY <1>6, <1>7 DEF TermsAscend

(* The documents of one entry, and what is stored of them.                 *)
LEMMA EntryInOrder ==
  ASSUME NEW ss \in Inputs, NEW fs, NEW t
  PROVE  \A m, n \in DOMAIN Entry(ss, fs, t).docs :
           m < n => Entry(ss, fs, t).docs[m].id < Entry(ss, fs, t).docs[n].id
<1> DEFINE S == LivePostings(ss, t)
           q == Sorted(S, Before)
           docs == [i \in DOMAIN q |-> [id |-> NewId(ss, q[i]),
                                        positions |-> <<q[i], t>>]]
<1>1. Entry(ss, fs, t).docs = docs
  BY DEF Entry
<1>2. IsFiniteSet(S) /\ S \subseteq Nat \X Nat /\ S \subseteq AllLive(ss)
  <2>1. S \subseteq AllLive(ss)
    BY DEF LivePostings, AllLive
  <2> QED
    BY <2>1, LivePostingsAre
<1> HIDE DEF S
<1>3. Lists(q, Cardinality(S), S, Earlier)
  BY <1>2, SortedDocs
<1> HIDE DEF q
<1>4. /\ DOMAIN q = 1 .. Cardinality(S)
      /\ \A i \in 1 .. Cardinality(S) : q[i] \in AllLive(ss)
      /\ \A i, j \in 1 .. Cardinality(S) : i < j => <<q[i], q[j]>> \in Earlier
  BY <1>2, <1>3 DEF Lists, Rises
<1>5. ASSUME NEW m \in DOMAIN docs, NEW n \in DOMAIN docs, m < n
      PROVE  docs[m].id < docs[n].id
  <2>1. q[m] \in AllLive(ss) /\ q[n] \in AllLive(ss) /\ <<q[m], q[n]>> \in Earlier
    BY <1>4, <1>5
  <2>2. docs[m].id = NewId(ss, q[m]) /\ docs[n].id = NewId(ss, q[n])
    BY <1>4
  <2> QED
    BY <2>1, <2>2, NewIdRises
<1> HIDE DEF docs
<1> QED
  BY <1>1, <1>5 DEF docs, q, S

(* The posting of a document has the id under which its values are stored. *)
LEMMA EntryMeets ==
  ASSUME NEW ss \in Inputs, NEW fs, NEW t, NEW d \in Range(Entry(ss, fs, t).docs)
  PROVE  LET st == StoredOf(ss, fs, AllLive(ss))
         IN d.id \in 0 .. (Len(st) - 1) /\ st[d.id + 1] = Remapped(ss, fs, d.positions[1])
<1> DEFINE L == AllLive(ss)
           st == StoredOf(ss, fs, L)
           q == LiveDocs(ss)
<1>1. PICK o \in LivePostings(ss, t) : d.id = NewId(ss, o) /\ d.positions[1] = o
  <2> DEFINE S == LivePostings(ss, t)
             from == Sorted(S, Before)
             docs == [i \in DOMAIN from |-> [id |-> NewId(ss, from[i]),
                                             positions |-> <<from[i], t>>]]
  <2>1. Entry(ss, fs, t).docs = docs
    BY DEF Entry
  <2>2. PICK i \in DOMAIN from : d = [id |-> NewId(ss, from[i]),
                                      positions |-> <<from[i], t>>]
    BY <2>1 DEF Range
  <2>3. from \in [1 .. Cardinality(S) -> S]
    <3>1. IsFiniteSet(S) /\ S \subseteq Nat \X Nat
      BY LivePostingsAre
    <3> HIDE DEF S
    <3> QED
      BY <3>1, SortedDocs DEF Lists, Rises
  <2>4. from[i] \in S
    BY <2>2, <2>3
  <2> QED
    BY <2>2, <2>4
<1>2. o \in L
  BY <1>1 DEF LivePostings, AllLive
<1>3. PICK i \in 1 .. Cardinality(L) : q[i] = o /\ NewId(ss, o) = i - 1
  BY <1>2, NewIdIs
<1>4. Lists(q, Cardinality(L), L, Earlier)
  <2>1. L \in SUBSET DocsOf(ss)
    BY DEF AllLive
  <2>2. IsFiniteSet(L) /\ L \subseteq Nat \X Nat
    BY <2>1, DocsFinite, DocsAre, FS_Subset
  <2>3. q = Sorted(L, Before)
    BY DEF LiveDocs, AllLive
  <2> HIDE DEF L, q
  <2> QED
    BY <2>2, <2>3, SortedDocs
<1>5. st = [k \in DOMAIN q |-> Remapped(ss, fs, q[k])]
  BY DEF StoredOf, LiveDocs, AllLive
<1> HIDE DEF L, q, st
<1>6. Cardinality(L) \in Nat /\ DOMAIN q = 1 .. Cardinality(L)
  BY <1>4 DEF Lists, Rises
<1>7. Len(st) = Cardinality(L) /\ st[i] = Remapped(ss, fs, o)
  BY <1>3, <1>5, <1>6
<1>8. d.id = i - 1 /\ d.id + 1 = i
  BY <1>1, <1>3, <1>6
<1> QED
  BY <1>1, <1>6, <1>7, <1>8 DEF st, L

(* The invariant gives the order of the postings,                          *)
LEMMA InOrder ==
  ASSUME MergeInv
  PROVE  PostingsInOrder
<1>1. segs \in Inputs
  BY DEF MergeInv, Cursors
<1>2. PICK T \in SUBSET TermsOf(segs) : dict = DictOf(segs, fields, T)
  BY DEF MergeInv, Written
<1>3. \A i \in DOMAIN dict : \E t : dict[i] = Entry(segs, fields, t)
  BY <1>2 DEF DictOf
<1>4. DocsAscend
  BY <1>1, <1>3, EntryInOrder DEF DocsAscend
<1>5. PostingsMeetDocuments
  <2> SUFFICES ASSUME NEW i \in DOMAIN dict, NEW d \in Range(dict[i].docs)
               PROVE  /\ d.id \in 0 .. (Len(stored) - 1)
                      /\ stored[d.id + 1] = Remapped(segs, fields, d.positions[1])
    BY DEF PostingsMeetDocuments
  <2>1. PICK t : dict[i] = Entry(segs, fields, t)
    BY <1>3
  <2>2. dict # <<>>
    OBVIOUS
  <2>3. stored = StoredOf(segs, fields, AllLive(segs))
    BY <2>2, DocsComplete DEF MergeInv, Written
  <2> QED
    BY <1>1, <2>1, <2>3, EntryMeets
<1> QED
  BY <1>4, <1>5 DEF PostingsInOrder

(* and what is assembled in the end.                                       *)
LEMMA Matches ==
  ASSUME MergeInv
  PROVE  MatchesBatch
BY DEF MergeInv, Complete, MatchesBatch

-----------------------------------------------------------------------------
(* For any input, merge_streaming_inner keeps the invariant.               *)
THEOREM MergeInvHolds == Spec => []MergeInv
BY MergeInit, MergeStep, PTL DEF Spec

(* For any list of segments, the heap of the k-way merge holds exactly the *)
(* term each cursor is at, and the TermInfos gathered are of one term.     *)
THEOREM CursorsInSyncHolds == Spec => []CursorsInSync
<1>1. MergeInv => CursorsInSync
  BY InSync DEF MergeInv
<1> QED
  BY <1>1, MergeInvHolds, PTL

(* For any list of segments, the merged dictionary is in order and has each*)
(* term once.                                                              *)
THEOREM TermsAscendHolds == Spec => []TermsAscend
<1>1. MergeInv => TermsAscend
  BY Ascending
<1> QED
  BY <1>1, MergeInvHolds, PTL

(* For any list of segments, the postings of every merged term come out in *)
(* strictly rising order of new ids, and each id is the one under which the*)
(* document it was read from is stored.                                    *)
THEOREM PostingsInOrderHolds == Spec => []PostingsInOrder
<1>1. MergeInv => PostingsInOrder
  BY InOrder
<1> QED
  BY <1>1, MergeInvHolds, PTL

(* For any list of segments, what merge_segments_streaming leaves is what  *)
(* merge_segments computes in one go - fields, stored values, norms, terms and*)
(* postings - and it leaves nothing where merge_segments refuses.          *)
THEOREM MatchesBatchHolds == Spec => []MatchesBatch
<1>1. MergeInv => MatchesBatch
  BY Matches
<1> QED
  BY <1>1, MergeInvHolds, PTL
=============================================================================
