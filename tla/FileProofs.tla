---------------------------- MODULE FileProofs ----------------------------
(***************************************************************************)
(* A compound file that was written without an error gives every source   *)
(* back, for any number of sources of any size.  A manifest left by any    *)
(* other program, copied and patched by any commits and rewritten by any   *)
(* merges, is read as it was meant or refused, and a torn one refused.     *)
(* Both are running concatenations laid out by running sums: OrderedLists  *)
(* has what follows of these.                                              *)
(***************************************************************************)
EXTENDS CompoundFile, GenerationFile, OrderedLists

-----------------------------------------------------------------------------
(* Sequences that lie one after another, after the first start words of b, *)
(* to its end: s[k] begins at off[k].                                      *)
LaidIn(b, s, n, off, start) ==
  /\ n \in Nat /\ start \in Nat
  /\ b \in Seq(Int) /\ s \in [1 .. n -> Seq(Int)]
  /\ off \in [1 .. (n + 1) -> Nat]
  /\ off[1] = start + 1 /\ Len(b) = off[n + 1] - 1
  /\ \A k \in 1 .. n : off[k + 1] = off[k] + Len(s[k]) /\ Within(s[k], b, off[k] - 1)

(* The words of a sequence of words and of another after it.               *)
LEMMA ConcatIs ==
  ASSUME NEW h \in Seq(Int), NEW b \in Seq(Int)
  PROVE  /\ Len(h) \in Nat /\ Len(b) \in Nat
         /\ h \o b \in Seq(Int) /\ Len(h \o b) = Len(h) + Len(b)
         /\ \A i \in 1 .. Len(h) : (h \o b)[i] = h[i]
         /\ \A i \in 1 .. Len(b) : (h \o b)[Len(h) + i] = b[i]
<1>1. Len(h) \in Nat /\ Len(b) \in Nat /\ h \o b \in Seq(Int)
  OBVIOUS
<1>2. Len(h \o b) = Len(h) + Len(b)
  BY ConcatProperties
<1>3. ASSUME NEW i \in 1 .. Len(h)
      PROVE  (h \o b)[i] = h[i]
  BY <1>1, ConcatProperties
<1>4. ASSUME NEW i \in 1 .. Len(b)
      PROVE  (h \o b)[Len(h) + i] = b[i]
  <2>1. (h \o b)[Len(h) + i] = b[(Len(h) + i) - Len(h)]
    BY <1>1, ConcatProperties
  <2>2. (Len(h) + i) - Len(h) = i
    BY <1>1
  <2> QED
    BY <2>1, <2>2
<1> QED
  BY <1>1, <1>2, <1>3, <1>4

(* Later ones begin after the earlier ones end.                            *)
LEMMA OffsetsRise ==
  ASSUME NEW b, NEW s, NEW n, NEW off, NEW start, LaidIn(b, s, n, off, start)
  PROVE  \A k \in 0 .. n :
           /\ start + 1 <= off[k + 1]
           /\ \A j \in 1 .. k : off[j] + Len(s[j]) <= off[k + 1]
<1> DEFINE Rise(k) == /\ start + 1 <= off[k + 1]
                      /\ \A j \in 1 .. k : off[j] + Len(s[j]) <= off[k + 1]
           T == {k \in 0 .. n : Rise(k)}
<1>1. n \in Nat /\ start \in Nat /\ \A k \in 1 .. n : Len(s[k]) \in Nat /\ off[k] \in Nat
  BY DEF LaidIn
<1>2. 0 \in T
  BY <1>1 DEF LaidIn
<1>3. ASSUME NEW m \in 0 .. (n - 1), m \in T
      PROVE  m + 1 \in T
  <2>1. m + 1 \in 1 .. n /\ m + 1 \in 0 .. n
    BY <1>1
  <2>2. off[(m + 1) + 1] = off[m + 1] + Len(s[m + 1])
    BY <2>1 DEF LaidIn
  <2>3. off[m + 1] <= off[(m + 1) + 1] /\ off[m + 1] \in Nat /\ off[(m + 1) + 1] \in Nat
    BY <1>1, <2>1, <2>2
  <2>4. ASSUME NEW j \in 1 .. (m + 1)
        PROVE  off[j] + Len(s[j]) <= off[(m + 1) + 1]
    <3>1. CASE j = m + 1
      BY <1>1, <2>1, <2>2, <3>1
    <3>2. CASE j # m + 1
      <4>1. j \in 1 .. m /\ j \in 1 .. n
        BY <1>1, <3>2
      <4>2. off[j] + Len(s[j]) <= off[m + 1] /\ off[j] + Len(s[j]) \in Nat
        BY <1>1, <1>3, <4>1
      <4> QED
        BY <2>3, <4>2
    <3> QED
      BY <3>1, <3>2
  <2>5. start + 1 <= off[(m + 1) + 1]
    <3>1. start + 1 <= off[m + 1]
      BY <1>3
    <3> QED
      BY <1>1, <2>3, <3>1
  <2> QED
    BY <2>1, <2>4, <2>5
<1> HIDE DEF T
<1>4. 0 .. n \subseteq T
  BY <1>1, <1>2, <1>3, InductionUpTo
<1> QED
  BY <1>4 DEF T

(* A word of one of them.                                                  *)
LEMMA WordAt ==
  ASSUME NEW b, NEW s, NEW n, NEW off, NEW start, LaidIn(b, s, n, off, start),
         NEW k \in 1 .. n, NEW x \in 1 .. Len(s[k])
  PROVE  /\ off[k] + x - 1 \in 1 .. Len(b)
         /\ b[off[k] + x - 1] = s[k][x]
<1>1. off[k] \in Nat /\ Len(s[k]) \in Nat /\ Len(b) \in Nat /\ x \in Nat
  BY DEF LaidIn
<1>2. /\ off[k] - 1 \in Nat /\ (off[k] - 1) + Len(s[k]) <= Len(b)
      /\ b[(off[k] - 1) + x] = s[k][x]
  BY DEF LaidIn, Within
<1>3. (off[k] - 1) + x = off[k] + x - 1
  BY <1>1
<1> QED
  BY <1>1, <1>2, <1>3

(* They lie there when the words of all of them do.                        *)
LEMMA LaidWords ==
  ASSUME NEW n \in Nat, NEW start \in Nat, NEW b \in Seq(Int),
         NEW s \in [1 .. n -> Seq(Int)], NEW off \in [1 .. (n + 1) -> Nat],
         off[1] = start + 1, Len(b) = off[n + 1] - 1,
         \A k \in 1 .. n : off[k + 1] = off[k] + Len(s[k]),
         \A k \in 1 .. n : off[k] >= 1,
         \A k \in 1 .. n : off[k] - 1 + Len(s[k]) <= Len(b),
         \A k \in 1 .. n : \A x \in 1 .. Len(s[k]) : b[off[k] + x - 1] = s[k][x]
  PROVE  LaidIn(b, s, n, off, start)
<1>1. ASSUME NEW k \in 1 .. n
      PROVE  Within(s[k], b, off[k] - 1)
  <2>1. /\ off[k] \in Nat /\ off[k] >= 1 /\ Len(s[k]) \in Nat
        /\ off[k] - 1 + Len(s[k]) <= Len(b)
    OBVIOUS
  <2>2. ASSUME NEW x \in 1 .. Len(s[k])
        PROVE  b[(off[k] - 1) + x] = s[k][x]
    <3>1. (off[k] - 1) + x = off[k] + x - 1
      <4>1. x \in Nat
        BY <2>1
      <4>2. \A c, y \in Nat : (c - 1) + y = c + y - 1
        OBVIOUS
      <4> QED
        BY <2>1, <4>1, <4>2
    <3> QED
      BY <3>1
  <2> QED
    BY <2>1, <2>2 DEF Within
<1> QED
  BY <1>1 DEF LaidIn

(* After a header they lie that much later.                                *)
LEMMA LaidAfter ==
  ASSUME NEW b, NEW s, NEW n, NEW off, LaidIn(b, s, n, off, 0), NEW h \in Seq(Int)
  PROVE  LaidIn(h \o b, s, n, [k \in 1 .. (n + 1) |-> off[k] + Len(h)], Len(h))
<1> DEFINE a == Len(h)
           o == [k \in 1 .. (n + 1) |-> off[k] + a]
<1>1. /\ n \in Nat /\ b \in Seq(Int) /\ s \in [1 .. n -> Seq(Int)] /\ a \in Nat /\ Len(b) \in Nat
      /\ off \in [1 .. (n + 1) -> Nat] /\ off[1] = 1 /\ Len(b) = off[n + 1] - 1
  BY DEF LaidIn
<1>2. /\ h \o b \in Seq(Int) /\ Len(h \o b) = a + Len(b)
      /\ \A i \in 1 .. Len(b) : (h \o b)[a + i] = b[i]
  BY <1>1, ConcatIs
<1> HIDE DEF a
<1>3. /\ 1 \in 1 .. (n + 1) /\ n + 1 \in 1 .. (n + 1)
      /\ \A k \in 1 .. n : k \in 1 .. (n + 1) /\ k + 1 \in 1 .. (n + 1)
  BY <1>1
<1>4. o \in [1 .. (n + 1) -> Nat] /\ o[1] = a + 1 /\ Len(h \o b) = o[n + 1] - 1
  <2>1. o \in [1 .. (n + 1) -> Nat]
    BY <1>1
  <2>2. o[1] = off[1] + a /\ o[n + 1] = off[n + 1] + a /\ off[n + 1] \in Nat
    BY <1>1, <1>3
  <2> HIDE DEF o
  <2>3. o[1] = a + 1
    BY <1>1, <2>2
  <2>4. Len(h \o b) = a + Len(b) /\ Len(b) = off[n + 1] - 1 /\ a \in Nat
    BY <1>1, <1>2
  <2>5. Len(h \o b) = o[n + 1] - 1
    BY <2>2, <2>4
  <2> QED
    BY <2>1, <2>3, <2>5
<1>5. ASSUME NEW k \in 1 .. n
      PROVE  /\ o[k + 1] = o[k] + Len(s[k])
             /\ o[k] >= 1 /\ o[k] - 1 + Len(s[k]) <= Len(h \o b)
             /\ \A x \in 1 .. Len(s[k]) : (h \o b)[o[k] + x - 1] = s[k][x]
  <2>1. /\ o[k] = off[k] + a /\ o[k + 1] = off[k + 1] + a
        /\ off[k] \in Nat /\ off[k + 1] \in Nat /\ Len(s[k]) \in Nat
        /\ off[k + 1] = off[k] + Len(s[k])
    <3>1. k \in 1 .. (n + 1) /\ k + 1 \in 1 .. (n + 1) /\ s[k] \in Seq(Int)
      BY <1>1, <1>3
    <3>2. o[k] = off[k] + a /\ o[k + 1] = off[k + 1] + a
      BY <3>1
    <3>3. off[k + 1] = off[k] + Len(s[k])
      BY DEF LaidIn
    <3> HIDE DEF o
    <3> QED
      BY <1>1, <3>1, <3>2, <3>3
  <2> HIDE DEF o
  <2>2. off[k] >= 1 /\ off[k] - 1 + Len(s[k]) <= Len(b)
    BY <2>1 DEF LaidIn, Within
  <2>3. ASSUME NEW x \in 1 .. Len(s[k])
        PROVE  (h \o b)[o[k] + x - 1] = s[k][x]
    <3>1. off[k] + x - 1 \in 1 .. Len(b) /\ b[off[k] + x - 1] = s[k][x]
      BY WordAt
    <3>2. o[k] + x - 1 = a + (off[k] + x - 1)
      <4>1. x \in Nat
        BY <2>1
      <4> QED
        BY <1>1, <2>1, <4>1
    <3> QED
      BY <1>2, <3>1, <3>2
  <2>4. o[k + 1] = o[k] + Len(s[k])
    BY <1>1, <2>1
  <2>5. o[k] >= 1 /\ o[k] - 1 + Len(s[k]) <= Len(h \o b)
    <3> DEFINE c == off[k]
               d == Len(s[k])
    <3>1. /\ c \in Nat /\ d \in Nat /\ c >= 1 /\ c - 1 + d <= Len(b) /\ o[k] = c + a
          /\ a \in Nat /\ Len(b) \in Nat /\ Len(h \o b) = a + Len(b)
      BY <1>1, <1>2, <2>1, <2>2
    <3> HIDE DEF c, d
    <3>2. o[k] >= 1 /\ o[k] - 1 + d <= Len(h \o b)
      BY <3>1
    <3> QED
      BY <3>2 DEF d
  <2> QED
    BY <2>3, <2>4, <2>5
<1> HIDE DEF o
<1>6. LaidIn(h \o b, s, n, o, a)
  BY <1>1, <1>2, <1>4, <1>5, LaidWords
<1> QED
  BY <1>6 DEF o, a

(* Another header in its place.                                            *)
LEMMA LaidHeader ==
  ASSUME NEW b, NEW s, NEW n, NEW off, NEW h \in Seq(Int), LaidIn(b, s, n, off, Len(h))
  PROVE  LaidIn(h \o SubSeq(b, Len(h) + 1, off[n + 1] - 1), s, n, off, Len(h))
<1> DEFINE a == Len(h)
           e == off[n + 1] - 1
           t == SubSeq(b, a + 1, e)
<1>1. /\ n \in Nat /\ b \in Seq(Int) /\ s \in [1 .. n -> Seq(Int)] /\ a \in Nat /\ Len(b) \in Nat
      /\ off \in [1 .. (n + 1) -> Nat] /\ off[1] = a + 1 /\ Len(b) = e
  BY DEF LaidIn
<1>2. a + 1 <= off[n + 1] /\ off[n + 1] \in Nat /\ e \in Nat /\ a <= e
  <2>1. n \in 0 .. n /\ n + 1 \in 1 .. (n + 1)
    BY <1>1
  <2>2. a + 1 <= off[n + 1]
    BY <2>1, OffsetsRise
  <2> QED
    BY <1>1, <2>1, <2>2
<1> HIDE DEF a, e
<1>3. /\ t \in Seq(Int) /\ Len(t) = e - a
      /\ \A i \in 1 .. (e - a) : t[i] = b[a + i]
  <2>1. \A i \in (a + 1) .. e : b[i] \in Int
    BY <1>1
  <2>2. t \in Seq(Int) /\ Len(t) = IF a + 1 <= e THEN e - (a + 1) + 1 ELSE 0
    BY <1>1, <1>2, <2>1, SubSeqProperties
  <2>3. ASSUME NEW i \in 1 .. (e - a)
        PROVE  t[i] = b[a + i]
    <3>1. t[i] = b[(a + 1) + i - 1]
      BY <1>1, <1>2, <2>1, SubSeqProperties
    <3>2. (a + 1) + i - 1 = a + i
      BY <1>1, <1>2
    <3> QED
      BY <3>1, <3>2
  <2> HIDE DEF t
  <2> QED
    BY <1>1, <1>2, <2>2, <2>3
<1> HIDE DEF t
<1>4. h \in Seq(Int) /\ Len(h) = a
  BY DEF a
<1>5. /\ h \o t \in Seq(Int) /\ Len(h \o t) = e
      /\ \A i \in 1 .. (e - a) : (h \o t)[a + i] = t[i]
  <2>1. /\ h \o t \in Seq(Int) /\ Len(h \o t) = Len(h) + Len(t)
        /\ \A i \in 1 .. Len(t) : (h \o t)[Len(h) + i] = t[i]
    BY <1>3, <1>4, ConcatIs
  <2>2. Len(h) + Len(t) = e
    BY <1>1, <1>2, <1>3, <1>4
  <2> QED
    BY <1>3, <1>4, <2>1, <2>2
<1>6. ASSUME NEW k \in 1 .. n
      PROVE  /\ off[k + 1] = off[k] + Len(s[k])
             /\ off[k] >= 1 /\ off[k] - 1 + Len(s[k]) <= Len(h \o t)
             /\ \A x \in 1 .. Len(s[k]) : (h \o t)[off[k] + x - 1] = s[k][x]
  <2>1. off[k + 1] = off[k] + Len(s[k]) /\ off[k] \in Nat /\ Len(s[k]) \in Nat
    BY <1>1 DEF LaidIn
  <2>2. off[k] >= 1 /\ off[k] - 1 + Len(s[k]) <= Len(b)
    <3>1. Within(s[k], b, off[k] - 1)
      BY DEF LaidIn
    <3> QED
      BY <2>1, <3>1 DEF Within
  <2>3. a + 1 <= off[k]
    <3>1. k - 1 \in 0 .. n /\ (k - 1) + 1 = k
      BY <1>1
    <3>2. a + 1 <= off[(k - 1) + 1]
      BY <3>1, OffsetsRise DEF a
    <3> QED
      BY <3>1, <3>2
  <2>4. ASSUME NEW x \in 1 .. Len(s[k])
        PROVE  (h \o t)[off[k] + x - 1] = s[k][x]
    <3>1. off[k] + x - 1 \in 1 .. Len(b) /\ b[off[k] + x - 1] = s[k][x]
      BY WordAt
    <3> DEFINE i == off[k] + x - 1 - a
    <3>2. i \in 1 .. (e - a) /\ a + i = off[k] + x - 1
      <4>1. off[k] + x - 1 \in 1 .. e
        BY <1>1, <3>1
      <4>2. x \in Nat /\ 1 <= x
        BY <2>1
      <4> DEFINE c == off[k]
      <4>3. c \in Nat /\ a + 1 <= c /\ c + x - 1 \in 1 .. e /\ i = c + x - 1 - a
        BY <2>1, <2>3, <4>1
      <4> HIDE DEF c, i
      <4>4. i \in 1 .. (e - a) /\ a + i = c + x - 1
        BY <1>1, <1>2, <4>2, <4>3
      <4> QED
        BY <4>4 DEF c
    <3> HIDE DEF i
    <3> QED
      BY <1>3, <1>5, <3>1, <3>2
  <2> QED
    BY <1>1, <1>5, <2>1, <2>2, <2>4
<1>7. Len(h \o t) = off[n + 1] - 1
  BY <1>5 DEF e
<1>8. LaidIn(h \o t, s, n, off, a)
  BY <1>1, <1>5, <1>6, <1>7, LaidWords
<1> QED
  BY <1>8 DEF t, a, e

(* A sequence alone.                                                       *)
LEMMA LaidOne ==
  ASSUME NEW w \in Seq(Int)
  PROVE  LaidIn(w, [k \in 1 .. 1 |-> w], 1,
                [k \in 1 .. 2 |-> IF k = 1 THEN 1 ELSE Len(w) + 1], 0)
<1> DEFINE s == [k \in 1 .. 1 |-> w]
           off == [k \in 1 .. 2 |-> IF k = 1 THEN 1 ELSE Len(w) + 1]
<1>1. Len(w) \in Nat
  OBVIOUS
<1>2. /\ s \in [1 .. 1 -> Seq(Int)] /\ off \in [1 .. (1 + 1) -> Nat]
      /\ off[1] = 1 /\ off[2] = Len(w) + 1
  BY <1>1
<1>3. ASSUME NEW k \in 1 .. 1
      PROVE  k = 1 /\ k + 1 = 2 /\ s[k] = w
  OBVIOUS
<1> HIDE DEF s, off
<1>4. ASSUME NEW k \in 1 .. 1
      PROVE  off[k + 1] = off[k] + Len(s[k]) /\ Within(s[k], w, off[k] - 1)
  <2>1. off[k] = 1 /\ off[k + 1] = Len(w) + 1 /\ s[k] = w
    BY <1>2, <1>3
  <2>2. Within(w, w, 0)
    BY <1>1 DEF Within
  <2> QED
    BY <1>1, <2>1, <2>2
<1>5. LaidIn(w, s, 1, off, 0)
  <2>1. Len(w) = off[1 + 1] - 1 /\ off[1] = 0 + 1
    BY <1>1, <1>2
  <2> QED
    BY <1>2, <1>4, <2>1 DEF LaidIn
<1> QED
  BY <1>5 DEF s, off

(* FlattenSeq lays them so.                                                *)
LEMMA LaidFlat ==
  ASSUME NEW n \in Nat, NEW s \in [1 .. n -> Seq(Int)]
  PROVE  \E off : LaidIn(FlattenSeq(s), s, n, off, 0)
<1>1. s \in Seq(Seq(Int)) /\ Len(s) = n
  OBVIOUS
<1>2. CASE n = 0
  <2>1. s = <<>>
    BY <1>1, <1>2, EmptySeq
  <2>2. FlattenSeq(s) = s /\ s \in Seq(Int) /\ Len(s) = 0
    BY <1>1, <1>2, <2>1 DEF FlattenSeq
  <2> DEFINE off == [k \in 1 .. (n + 1) |-> 1]
  <2>3. off \in [1 .. (n + 1) -> Nat] /\ off[1] = 0 + 1 /\ off[n + 1] = 1
    BY <1>2
  <2>4. LaidIn(FlattenSeq(s), s, n, off, 0)
    BY <1>2, <2>2, <2>3 DEF LaidIn
  <2> QED
    BY <2>4
<1>3. CASE n # 0
  <2>1. PICK f : JoinOf(f, s, n, Int) /\ FlattenSeq(s) = f[n]
    BY <1>1, <1>3, FlattenJoins
  <2>2. /\ n \in 1 .. n /\ 1 \in 1 .. n
        /\ \A k \in 1 .. n : f[k] \in Seq(Int) /\ s[k] \in Seq(Int)
        /\ \A k \in 1 .. n : f[k] = IF k = 1 THEN s[1] ELSE f[k - 1] \o s[k]
    BY <1>3, <2>1 DEF JoinOf
  <2>3. \A k \in 1 .. n : Len(f[k]) \in Nat /\ Len(s[k]) \in Nat
    BY <2>2
  <2> DEFINE len == [k \in 1 .. n |-> Len(s[k])]
             st == [k \in 1 .. n |-> IF k = 1 THEN 0 ELSE Len(f[k - 1])]
             off == [k \in 1 .. (n + 1) |-> IF k = 1 THEN 1 ELSE Len(f[k - 1]) + 1]
  <2>4. ASSUME NEW k \in 1 .. n, k # 1
        PROVE  k - 1 \in 1 .. n /\ Len(f[k]) = Len(f[k - 1]) + Len(s[k])
    <3>1. k - 1 \in 1 .. n
      BY <2>4
    <3>2. f[k] = f[k - 1] \o s[k] /\ f[k - 1] \in Seq(Int) /\ s[k] \in Seq(Int)
      BY <2>2, <2>4, <3>1
    <3> QED
      BY <3>1, <3>2, ConcatIs
  <2>5. Len(f[1]) = Len(s[1])
    BY <2>2
  <2>6. st \in [1 .. n -> Nat]
    <3>1. ASSUME NEW k \in 1 .. n
          PROVE  (IF k = 1 THEN 0 ELSE Len(f[k - 1])) \in Nat
      BY <2>3, <2>4
    <3> QED
      BY <3>1
  <2>7. ASSUME NEW k \in 1 .. n
        PROVE  st[k] = IF k = 1 THEN 0 ELSE st[k - 1] + len[k - 1]
    <3>1. CASE k = 1
      BY <3>1
    <3>2. CASE k # 1
      <4>1. k - 1 \in 1 .. n /\ st[k] = Len(f[k - 1]) /\ len[k - 1] = Len(s[k - 1])
        BY <2>4, <3>2
      <4>2. CASE k - 1 = 1
        BY <2>3, <2>5, <3>2, <4>1, <4>2
      <4>3. CASE k - 1 # 1
        <5>1. Len(f[k - 1]) = Len(f[(k - 1) - 1]) + Len(s[k - 1])
          BY <2>4, <4>1, <4>3
        <5>2. st[k - 1] = Len(f[(k - 1) - 1])
          BY <4>1, <4>3
        <5> QED
          BY <3>2, <4>1, <5>1, <5>2
      <4> QED
        BY <4>2, <4>3
    <3> QED
      BY <3>1, <3>2
  <2>8. \A i \in 1 .. n : Len(s[i]) = len[i]
    OBVIOUS
  <2>9. \A k \in 1 .. (n + 1) : off[k] = IF k = 1 THEN 1 ELSE Len(f[k - 1]) + 1
    OBVIOUS
  <2>10. \A k \in 1 .. n : st[k] = off[k] - 1
    <3> SUFFICES ASSUME NEW k \in 1 .. n
                 PROVE  st[k] = off[k] - 1
      OBVIOUS
    <3>1. k \in 1 .. (n + 1)
      OBVIOUS
    <3>2. CASE k = 1
      BY <3>1, <3>2
    <3>3. CASE k # 1
      BY <2>3, <2>4, <3>1, <3>3
    <3> QED
      BY <3>2, <3>3
  <2> HIDE DEF len, st, off
  <2>11. StartsOf(st, len, n, 0)
    BY <2>6, <2>7 DEF StartsOf
  <2>12. \A k \in 1 .. n :
           /\ 0 + Len(f[k]) = st[k] + len[k]
           /\ \A i \in 1 .. k : Within(s[i], f[k], st[i] - 0)
    BY <2>1, <2>8, <2>11, Layout
  <2>13. off \in [1 .. (n + 1) -> Nat]
    <3>1. ASSUME NEW k \in 1 .. (n + 1)
          PROVE  (IF k = 1 THEN 1 ELSE Len(f[k - 1]) + 1) \in Nat
      <4>1. k # 1 => k - 1 \in 1 .. n
        OBVIOUS
      <4> QED
        BY <2>3, <4>1
    <3> QED
      BY <3>1 DEF off
  <2>14. off[1] = 0 + 1 /\ Len(FlattenSeq(s)) = off[n + 1] - 1
    <3>1. 1 \in 1 .. (n + 1) /\ n + 1 \in 1 .. (n + 1) /\ n + 1 # 1 /\ (n + 1) - 1 = n
      BY <1>3
    <3>2. off[n + 1] = Len(f[n]) + 1 /\ off[1] = 1
      BY <2>9, <3>1
    <3> QED
      BY <2>1, <2>2, <2>3, <3>2
  <2>15. ASSUME NEW k \in 1 .. n
         PROVE  off[k + 1] = off[k] + Len(s[k]) /\ Within(s[k], FlattenSeq(s), off[k] - 1)
    <3>1. k + 1 \in 1 .. (n + 1) /\ k + 1 # 1 /\ (k + 1) - 1 = k
      OBVIOUS
    <3>2. off[k + 1] = Len(f[k]) + 1
      BY <2>9, <3>1
    <3>3. 0 + Len(f[k]) = st[k] + len[k]
      BY <2>12
    <3>4. st[k] = off[k] - 1 /\ st[k] \in Nat /\ len[k] = Len(s[k])
      BY <2>6, <2>8, <2>10
    <3>5. off[k] \in Nat
      <4>1. k \in 1 .. (n + 1)
        OBVIOUS
      <4> QED
        BY <2>13, <4>1
    <3>6. Within(s[k], f[n], st[k])
      <4>1. Within(s[k], f[n], st[k] - 0)
        BY <2>2, <2>12
      <4> QED
        BY <3>4, <4>1
    <3>7. off[k + 1] = off[k] + Len(s[k])
      <4>1. Len(f[k]) \in Nat /\ Len(s[k]) \in Nat
        BY <2>3
      <4> DEFINE x == Len(f[k])
                 y == st[k]
                 z == len[k]
                 w == off[k]
      <4>2. x \in Nat /\ y \in Nat /\ z \in Nat /\ w \in Nat /\ 0 + x = y + z /\ y = w - 1
        BY <3>3, <3>4, <3>5, <4>1
      <4> HIDE DEF x, y, z, w
      <4>2a. x + 1 = w + z
        BY <4>2
      <4>3. Len(f[k]) + 1 = off[k] + len[k]
        BY <4>2a DEF x, z, w
      <4> QED
        BY <3>2, <3>4, <4>3
    <3> QED
      BY <2>1, <3>4, <3>6, <3>7
  <2>16. FlattenSeq(s) \in Seq(Int)
    BY <2>1, <2>2
  <2>17. LaidIn(FlattenSeq(s), s, n, off, 0)
    BY <2>13, <2>14, <2>15, <2>16 DEF LaidIn
  <2> QED
    BY <2>17
<1> QED
  BY <1>2, <1>3

(* One list of sequences after another.                                    *)
LEMMA LaidOn ==
  ASSUME NEW b, NEW s, NEW n, NEW off, NEW start, LaidIn(b, s, n, off, start),
         NEW c, NEW t, NEW p, NEW ofc, LaidIn(c, t, p, ofc, 0)
  PROVE  LaidIn(b \o c, [k \in 1 .. (n + p) |-> IF k <= n THEN s[k] ELSE t[k - n]], n + p,
                [k \in 1 .. (n + p + 1) |-> IF k <= n THEN off[k] ELSE ofc[k - n] + Len(b)], start)
<1> DEFINE a == Len(b)
           u == [k \in 1 .. (n + p) |-> IF k <= n THEN s[k] ELSE t[k - n]]
           o == [k \in 1 .. (n + p + 1) |-> IF k <= n THEN off[k] ELSE ofc[k - n] + a]
<1>1. /\ n \in Nat /\ start \in Nat /\ b \in Seq(Int) /\ s \in [1 .. n -> Seq(Int)] /\ a \in Nat
      /\ off \in [1 .. (n + 1) -> Nat] /\ off[1] = start + 1 /\ a = off[n + 1] - 1
  BY DEF LaidIn
<1>2. /\ p \in Nat /\ c \in Seq(Int) /\ t \in [1 .. p -> Seq(Int)] /\ Len(c) \in Nat
      /\ ofc \in [1 .. (p + 1) -> Nat] /\ ofc[1] = 1 /\ Len(c) = ofc[p + 1] - 1
  BY DEF LaidIn
<1>3. /\ b \o c \in Seq(Int) /\ Len(b \o c) = a + Len(c)
      /\ \A i \in 1 .. a : (b \o c)[i] = b[i]
      /\ \A i \in 1 .. Len(c) : (b \o c)[a + i] = c[i]
  BY <1>1, <1>2, ConcatIs
<1> HIDE DEF a
<1>4. ASSUME NEW k \in 1 .. (n + p)
      PROVE  u[k] \in Seq(Int) /\ u[k] = IF k <= n THEN s[k] ELSE t[k - n]
  <2>1. CASE k <= n
    <3>1. k \in 1 .. n
      BY <1>1, <1>2, <2>1
    <3> QED
      BY <1>1, <2>1, <3>1
  <2>2. CASE ~ k <= n
    <3>1. k - n \in 1 .. p
      BY <1>1, <1>2, <2>2
    <3> QED
      BY <1>2, <2>2, <3>1
  <2> QED
    BY <2>1, <2>2
<1>5. u \in [1 .. (n + p) -> Seq(Int)]
  BY <1>4
<1>6. ASSUME NEW k \in 1 .. (n + p + 1)
      PROVE  /\ o[k] \in Nat
             /\ k <= n => o[k] = off[k] /\ k \in 1 .. (n + 1)
             /\ k = n + 1 => o[k] = off[k]
             /\ ~ k <= n => o[k] = ofc[k - n] + a /\ k - n \in 1 .. (p + 1)
  <2>1. CASE k <= n
    <3>1. k \in 1 .. (n + 1)
      BY <1>1, <1>2, <2>1
    <3>2. o[k] = off[k] /\ k # n + 1
      BY <1>1, <2>1
    <3> QED
      BY <1>1, <2>1, <3>1, <3>2
  <2>2. CASE ~ k <= n
    <3>1. k - n \in 1 .. (p + 1)
      BY <1>1, <1>2, <2>2
    <3>2. o[k] = ofc[k - n] + a /\ ofc[k - n] \in Nat
      BY <1>2, <2>2, <3>1
    <3>3. k = n + 1 => k - n = 1 /\ off[k] = a + 1 /\ off[k] \in Nat
      BY <1>1
    <3>4. k = n + 1 => o[k] = off[k]
      BY <1>1, <1>2, <3>2, <3>3
    <3>5. o[k] \in Nat
      BY <1>1, <3>2
    <3> QED
      BY <2>2, <3>1, <3>2, <3>4, <3>5
  <2> QED
    BY <2>1, <2>2
<1>7. o \in [1 .. (n + p + 1) -> Nat]
  BY <1>6
<1> HIDE DEF u, o
<1>8. o[1] = start + 1
  <2>1. 1 \in 1 .. (n + p + 1)
    BY <1>1, <1>2
  <2>2. 1 <= n \/ 1 = n + 1
    BY <1>1
  <2> QED
    BY <1>1, <1>6, <2>1, <2>2
<1>9. Len(b \o c) = o[n + p + 1] - 1
  <2>1. n + p + 1 \in 1 .. (n + p + 1) /\ ~ n + p + 1 <= n /\ (n + p + 1) - n = p + 1
    BY <1>1, <1>2
  <2>2. o[n + p + 1] = ofc[p + 1] + a /\ ofc[p + 1] \in Nat
    BY <1>2, <1>6, <2>1
  <2> QED
    BY <1>1, <1>2, <1>3, <2>2
<1>10. ASSUME NEW k \in 1 .. (n + p)
       PROVE  /\ o[k + 1] = o[k] + Len(u[k])
              /\ o[k] >= 1 /\ o[k] - 1 + Len(u[k]) <= Len(b \o c)
              /\ \A x \in 1 .. Len(u[k]) : (b \o c)[o[k] + x - 1] = u[k][x]
  <2>1. CASE k <= n
    <3>1. /\ k \in 1 .. n /\ k \in 1 .. (n + p + 1) /\ k + 1 \in 1 .. (n + p + 1)
          /\ k + 1 <= n \/ k + 1 = n + 1
      BY <1>1, <1>2, <2>1
    <3>2. o[k] = off[k] /\ o[k + 1] = off[k + 1] /\ u[k] = s[k]
      BY <1>4, <1>6, <2>1, <3>1
    <3>3. off[k + 1] = off[k] + Len(s[k]) /\ Within(s[k], b, off[k] - 1)
      BY <3>1 DEF LaidIn
    <3>4. off[k] >= 1 /\ off[k] - 1 + Len(s[k]) <= Len(b) /\ off[k] \in Nat /\ Len(s[k]) \in Nat
      <4>1. off[k] \in Nat /\ s[k] \in Seq(Int)
        BY <1>1, <3>1
      <4> QED
        BY <3>3, <4>1 DEF Within
    <3>5. ASSUME NEW x \in 1 .. Len(s[k])
          PROVE  (b \o c)[off[k] + x - 1] = s[k][x]
      <4>1. off[k] + x - 1 \in 1 .. a /\ b[off[k] + x - 1] = s[k][x]
        BY <3>1, WordAt DEF a
      <4> QED
        BY <1>3, <4>1
    <3>6. off[k] - 1 + Len(s[k]) <= Len(b \o c)
      <4>1. \A d \in Int : d <= a => d <= a + Len(c)
        <5>1. a \in Nat /\ Len(c) \in Nat
          BY <1>1, <1>2
        <5> QED
          BY <5>1
      <4>2. off[k] - 1 + Len(s[k]) \in Int
        BY <3>4
      <4> QED
        BY <1>3, <3>4, <4>1, <4>2 DEF a
    <3> QED
      BY <3>2, <3>3, <3>4, <3>5, <3>6
  <2>2. CASE ~ k <= n
    <3> DEFINE j == k - n
    <3>1. /\ j \in 1 .. p /\ k \in 1 .. (n + p + 1) /\ k + 1 \in 1 .. (n + p + 1)
          /\ ~ k + 1 <= n /\ (k + 1) - n = j + 1 /\ j \in 1 .. (p + 1) /\ j + 1 \in 1 .. (p + 1)
      BY <1>1, <1>2, <2>2
    <3>2. o[k] = ofc[j] + a /\ o[k + 1] = ofc[j + 1] + a /\ u[k] = t[j]
      BY <1>4, <1>6, <2>2, <3>1
    <3> HIDE DEF j
    <3>3. ofc[j + 1] = ofc[j] + Len(t[j]) /\ Within(t[j], c, ofc[j] - 1)
      BY <3>1 DEF LaidIn
    <3>4. ofc[j] >= 1 /\ ofc[j] - 1 + Len(t[j]) <= Len(c) /\ ofc[j] \in Nat /\ Len(t[j]) \in Nat
      <4>1. ofc[j] \in Nat /\ t[j] \in Seq(Int)
        BY <1>2, <3>1
      <4> QED
        BY <3>3, <4>1 DEF Within
    <3>5. ASSUME NEW x \in 1 .. Len(t[j])
          PROVE  (b \o c)[ofc[j] + a + x - 1] = t[j][x]
      <4>1. ofc[j] + x - 1 \in 1 .. Len(c) /\ c[ofc[j] + x - 1] = t[j][x]
        BY <3>1, WordAt
      <4>2. \A d, y \in Nat : d + a + y - 1 = a + (d + y - 1)
        BY <1>1
      <4>3. x \in Nat
        BY <3>4
      <4>4. ofc[j] + a + x - 1 = a + (ofc[j] + x - 1)
        BY <3>4, <4>2, <4>3
      <4> QED
        BY <1>3, <4>1, <4>4
    <3>7. ofc[j] + a >= 1 /\ (ofc[j] + a) - 1 + Len(t[j]) <= a + Len(c)
          /\ (ofc[j] + Len(t[j])) + a = (ofc[j] + a) + Len(t[j])
      <4> DEFINE d == ofc[j]
                 e == Len(t[j])
                 l == Len(c)
      <4>1. a \in Nat /\ d \in Nat /\ e \in Nat /\ l \in Nat /\ d >= 1 /\ d - 1 + e <= l
        BY <1>1, <1>2, <3>4
      <4> HIDE DEF d, e, l
      <4>2. d + a >= 1 /\ (d + a) - 1 + e <= a + l /\ (d + e) + a = (d + a) + e
        BY <4>1
      <4> QED
        BY <4>2 DEF d, e, l
    <3> QED
      BY <1>3, <3>2, <3>3, <3>5, <3>7
  <2> QED
    BY <2>1, <2>2
<1>11. LaidIn(b \o c, u, n + p, o, start)
  <2>1. n + p \in Nat
    BY <1>1, <1>2
  <2> QED
    BY <1>1, <1>3, <1>5, <1>7, <1>8, <1>9, <1>10, <2>1, LaidWords
<1> QED
  BY <1>11 DEF u, o, a

(* A recursion from 0 on has a function, too.                              *)
GrowsFrom(f, n, V, b, G) ==
  /\ f \in [0 .. n -> V]
  /\ f[0] = b /\ \A k \in 1 .. n : f[k] = G[f[k - 1]]

LEMMA RecursionFromZero ==
  ASSUME NEW n \in Nat, NEW V, NEW b \in V, NEW G \in [V -> V]
  PROVE  \E f : GrowsFrom(f, n, V, b, G)
<1> DEFINE H == [k \in 1 .. (n + 1) |-> G]
<1>1. H \in [1 .. (n + 1) -> [V -> V]] /\ n + 1 \in Nat
  OBVIOUS
<1>2. \A k \in 1 .. (n + 1) : H[k] = G
  OBVIOUS
<1> HIDE DEF H
<1>3. PICK g : GrowsBy(g, n + 1, V, b, H)
  BY <1>1, Recursion
<1>4. /\ g \in [1 .. (n + 1) -> V]
      /\ \A k \in 1 .. (n + 1) : g[k] = IF k = 1 THEN b ELSE H[k][g[k - 1]]
  BY <1>3 DEF GrowsBy
<1> DEFINE f == [i \in 0 .. n |-> g[i + 1]]
<1>5. f \in [0 .. n -> V]
  <2>1. \A i \in 0 .. n : i + 1 \in 1 .. (n + 1)
    OBVIOUS
  <2> QED
    BY <1>4, <2>1
<1>6. f[0] = b
  <2>1. 1 \in 1 .. (n + 1) /\ 0 \in 0 .. n /\ 0 + 1 = 1
    OBVIOUS
  <2>2. f[0] = g[1]
    BY <2>1
  <2>3. g[1] = b
    BY <1>4, <2>1
  <2> QED
    BY <2>2, <2>3
<1>7. ASSUME NEW k \in 1 .. n
      PROVE  f[k] = G[f[k - 1]]
  <2>1. k + 1 \in 1 .. (n + 1) /\ k + 1 # 1 /\ (k + 1) - 1 = k
        /\ k \in 0 .. n /\ k - 1 \in 0 .. n /\ (k - 1) + 1 = k
    OBVIOUS
  <2>2. g[k + 1] = G[g[k]]
    BY <1>2, <1>4, <2>1
  <2> QED
    BY <2>1, <2>2
<1> HIDE DEF f
<1> QED
  BY <1>5, <1>6, <1>7 DEF GrowsFrom

-----------------------------------------------------------------------------
(* Records.                                                                *)
Rec == [name : Nat, docs : Nat, delGen : Nat \cup {None}, store : Stores, numField : Int]
Formats == {Format21, Format23}

WordsOf(f, r) == Record(f, r.name, r.docs, r.delGen, r.store, r.numField)
SizeOf(f, r) == IF f # Format23 THEN 7 ELSE IF r.store = <<>> THEN 8 ELSE 10

(* A long takes two words and is read back from them.                      *)
LEMMA LongOfTwo ==
  ASSUME NEW n \in Nat \cup {None}
  PROVE  /\ Long(n) \in Seq(Int) /\ Len(Long(n)) = 2
         /\ Long(n)[1] \in Int /\ Long(n)[2] \in Int
         /\ OfLong(Long(n)[1], Long(n)[2]) = n
BY DEF Long, OfLong, None

(* A record is its name and documents, its delGen, its store, and the end. *)
LEMMA RecordWords ==
  ASSUME NEW f \in Formats, NEW r \in Rec
  PROVE  /\ WordsOf(f, r) \in Seq(Int) /\ Len(WordsOf(f, r)) = SizeOf(f, r)
         /\ SizeOf(f, r) \in {7, 8, 10}
         /\ WordsOf(f, r)[1] = r.name /\ WordsOf(f, r)[2] = r.docs
         /\ WordsOf(f, r)[3] = Long(r.delGen)[1] /\ WordsOf(f, r)[4] = Long(r.delGen)[2]
         /\ f = Format23 => (WordsOf(f, r)[5] = None <=> r.store = <<>>)
         /\ WordsOf(f, r)[SizeOf(f, r) - 1] = r.numField
         /\ \A q \in Rec :
              /\ q.name = r.name /\ q.docs = r.docs
              /\ q.store = r.store /\ q.numField = r.numField
              => \A x \in 1 .. SizeOf(f, r) : x \notin 3 .. 4 => WordsOf(f, q)[x] = WordsOf(f, r)[x]
<1> DEFINE A == <<r.name, r.docs>>
           S == IF f # Format23 THEN <<>> ELSE IF r.store = <<>> THEN <<None>> ELSE <<0>> \o r.store
           E == <<1, r.numField, 1>>
           z == SizeOf(f, r) - 7
<1>1. /\ r.name \in Nat /\ r.docs \in Nat /\ r.numField \in Int /\ r.store \in Stores
      /\ r.delGen \in Nat \cup {None}
  BY DEF Rec
<1>2. A \in Seq(Int) /\ Len(A) = 2 /\ A[1] = r.name /\ A[2] = r.docs
  BY <1>1
<1>3. E \in Seq(Int) /\ Len(E) = 3 /\ E[2] = r.numField
  BY <1>1
<1>4. /\ S \in Seq(Int) /\ Len(S) = z /\ z \in {0, 1, 3}
      /\ f = Format23 => z # 0 /\ (S[1] = None <=> r.store = <<>>)
  <2>1. CASE f # Format23
    BY <2>1 DEF SizeOf
  <2>2. CASE f = Format23 /\ r.store = <<>>
    BY <2>2 DEF SizeOf, None
  <2>3. CASE f = Format23 /\ r.store # <<>>
    <3>0. r.store \in [1 .. 2 -> Int]
      BY <1>1, <2>3 DEF Stores
    <3>0a. ASSUME NEW m \in Nat, NEW w \in [1 .. m -> Int]
          PROVE  w \in Seq(Int) /\ Len(w) = m
      OBVIOUS
    <3>1. r.store \in Seq(Int) /\ Len(r.store) = 2
      BY <3>0, <3>0a
    <3>2. <<0>> \in Seq(Int) /\ Len(<<0>>) = 1 /\ <<0>>[1] = 0
      OBVIOUS
    <3> DEFINE Z == <<0>>
    <3> HIDE DEF Z
    <3>2a. Z \in Seq(Int) /\ Len(Z) = 1 /\ Z[1] = 0
      BY <3>2 DEF Z
    <3>2b. /\ Z \o r.store \in Seq(Int) /\ Len(Z \o r.store) = 1 + 2
           /\ \A i \in 1 .. 1 : (Z \o r.store)[i] = Z[i]
      <4>1. /\ Z \o r.store \in Seq(Int) /\ Len(Z \o r.store) = Len(Z) + Len(r.store)
            /\ \A x \in 1 .. Len(Z) : (Z \o r.store)[x] = Z[x]
            /\ \A x \in 1 .. Len(r.store) : (Z \o r.store)[Len(Z) + x] = r.store[x]
        BY <3>1, <3>2a, ConcatIs
      <4>2. Len(Z) = 1 /\ Len(r.store) = 2
        BY <3>1, <3>2a
      <4> QED
        BY <4>1, <4>2
    <3>3. <<0>> \o r.store \in Seq(Int) /\ Len(<<0>> \o r.store) = 3 /\ (<<0>> \o r.store)[1] = 0
      BY <3>2a, <3>2b DEF Z
    <3>4. S = <<0>> \o r.store /\ z = 3
      BY <2>3 DEF SizeOf
    <3> QED
      BY <2>3, <3>3, <3>4 DEF None
  <2> QED
    BY <2>1, <2>2, <2>3
<1>5. SizeOf(f, r) = z + 7
  BY DEF SizeOf
<1> HIDE DEF A, S, E, z
<1>6. ASSUME NEW L \in Seq(Int), Len(L) = 2
      PROVE  /\ A \o L \o S \o E \in Seq(Int) /\ Len(A \o L \o S \o E) = z + 7
             /\ \A x \in 1 .. 2 : (A \o L \o S \o E)[x] = A[x]
             /\ \A x \in 1 .. 2 : (A \o L \o S \o E)[x + 2] = L[x]
             /\ \A x \in 1 .. z : (A \o L \o S \o E)[x + 4] = S[x]
             /\ \A x \in 1 .. 3 : (A \o L \o S \o E)[x + 4 + z] = E[x]
  <2>1. /\ A \o L \in Seq(Int) /\ Len(A \o L) = 2 + 2
        /\ \A x \in 1 .. 2 : (A \o L)[x] = A[x]
        /\ \A x \in 1 .. 2 : (A \o L)[2 + x] = L[x]
    <3>1. /\ A \o L \in Seq(Int) /\ Len(A \o L) = Len(A) + Len(L)
          /\ \A x \in 1 .. Len(A) : (A \o L)[x] = A[x]
          /\ \A x \in 1 .. Len(L) : (A \o L)[Len(A) + x] = L[x]
      BY <1>2, <1>6, ConcatIs
    <3>2. Len(A) = 2 /\ Len(L) = 2
      BY <1>2, <1>6
    <3> QED
      BY <3>1, <3>2
  <2> DEFINE B == A \o L
  <2> HIDE DEF B
  <2>2. /\ B \o S \in Seq(Int) /\ Len(B \o S) = 4 + z
        /\ \A x \in 1 .. 4 : (B \o S)[x] = B[x]
        /\ \A x \in 1 .. z : (B \o S)[4 + x] = S[x]
    <3>1. B \in Seq(Int) /\ Len(B) = 4
      BY <2>1 DEF B
    <3> QED
      <4>1. /\ B \o S \in Seq(Int) /\ Len(B \o S) = Len(B) + Len(S)
            /\ \A x \in 1 .. Len(B) : (B \o S)[x] = B[x]
            /\ \A x \in 1 .. Len(S) : (B \o S)[Len(B) + x] = S[x]
        BY <3>1, <1>4, ConcatIs
      <4>2. Len(B) = 4 /\ Len(S) = z
        BY <3>1, <1>4
      <4> QED
        BY <4>1, <4>2
  <2> DEFINE C == B \o S
  <2> HIDE DEF C
  <2>3. /\ C \o E \in Seq(Int) /\ Len(C \o E) = 4 + z + 3
        /\ \A x \in 1 .. (4 + z) : (C \o E)[x] = C[x]
        /\ \A x \in 1 .. 3 : (C \o E)[4 + z + x] = E[x]
    <3>1. C \in Seq(Int) /\ Len(C) = 4 + z
      BY <2>2 DEF C
    <3> QED
      <4>1. /\ C \o E \in Seq(Int) /\ Len(C \o E) = Len(C) + Len(E)
            /\ \A x \in 1 .. Len(C) : (C \o E)[x] = C[x]
            /\ \A x \in 1 .. Len(E) : (C \o E)[Len(C) + x] = E[x]
        BY <3>1, <1>3, ConcatIs
      <4>2. Len(C) = 4 + z /\ Len(E) = 3
        BY <3>1, <1>3
      <4> QED
        BY <4>1, <4>2
  <2>4. \A x \in 1 .. 4 : (C \o E)[x] = B[x]
    <3>1. \A x \in 1 .. 4 : x \in 1 .. (4 + z)
      BY <1>4
    <3> QED
      BY <2>2, <2>3, <3>1 DEF C
  <2>5. \A x \in 1 .. 2 : (C \o E)[x] = A[x]
    <3>1. \A x \in 1 .. 2 : x \in 1 .. 4
      OBVIOUS
    <3>2. \A x \in 1 .. 2 : B[x] = A[x]
      BY <2>1 DEF B
    <3> QED
      BY <2>4, <3>1, <3>2
  <2>6. \A x \in 1 .. 2 : (C \o E)[x + 2] = L[x]
    <3>1. \A x \in 1 .. 2 : x + 2 = 2 + x /\ 2 + x \in 1 .. 4
      OBVIOUS
    <3> QED
      BY <2>1, <2>4, <3>1 DEF B
  <2>7. \A x \in 1 .. z : (C \o E)[x + 4] = S[x]
    <3>1. \A x \in 1 .. z : x + 4 = 4 + x /\ 4 + x \in 1 .. (4 + z)
      BY <1>4
    <3> QED
      BY <2>2, <2>3, <3>1 DEF C
  <2>8. \A x \in 1 .. 3 : (C \o E)[x + 4 + z] = E[x]
    <3>1. \A x \in 1 .. 3 : x + 4 + z = 4 + z + x
      BY <1>4
    <3> QED
      BY <2>3, <3>1
  <2>9. C \o E = A \o L \o S \o E
    BY DEF B, C
  <2>10. 4 + z + 3 = z + 7
    BY <1>4
  <2> QED
    BY <2>3, <2>5, <2>6, <2>7, <2>8, <2>9, <2>10
<1>7. ASSUME NEW q \in Rec, q.name = r.name, q.docs = r.docs, q.store = r.store,
             q.numField = r.numField
      PROVE  WordsOf(f, q) = A \o Long(q.delGen) \o S \o E
  BY <1>7 DEF WordsOf, Record, A, S, E
<1> DEFINE W == WordsOf(f, r)
           L == Long(r.delGen)
<1>8. W = A \o L \o S \o E
  BY <1>7
<1>9. L \in Seq(Int) /\ Len(L) = 2
  BY <1>1, LongOfTwo
<1> HIDE DEF W, L
<1>10. /\ W \in Seq(Int) /\ Len(W) = z + 7
       /\ \A x \in 1 .. 2 : W[x] = A[x]
       /\ \A x \in 1 .. 2 : W[x + 2] = L[x]
       /\ \A x \in 1 .. z : W[x + 4] = S[x]
       /\ \A x \in 1 .. 3 : W[x + 4 + z] = E[x]
  BY <1>6, <1>8, <1>9
<1>11. W[1] = r.name /\ W[2] = r.docs
  BY <1>2, <1>10
<1>12. W[3] = L[1] /\ W[4] = L[2]
  <2>1. 1 + 2 = 3 /\ 2 + 2 = 4 /\ 1 \in 1 .. 2 /\ 2 \in 1 .. 2
    OBVIOUS
  <2> QED
    BY <1>10, <2>1
<1>13. f = Format23 => (W[5] = None <=> r.store = <<>>)
  <2>1. z # 0 => 1 \in 1 .. z /\ 1 + 4 = 5
    BY <1>4
  <2> QED
    BY <1>4, <1>10, <2>1
<1>14. W[SizeOf(f, r) - 1] = r.numField
  <2>1. 2 \in 1 .. 3 /\ 2 + 4 + z = SizeOf(f, r) - 1
    BY <1>4, <1>5
  <2> QED
    BY <1>3, <1>10, <2>1
<1>15. ASSUME NEW q \in Rec, q.name = r.name, q.docs = r.docs, q.store = r.store,
              q.numField = r.numField,
              NEW x \in 1 .. SizeOf(f, r), x \notin 3 .. 4
       PROVE  WordsOf(f, q)[x] = W[x]
  <2> DEFINE M == Long(q.delGen)
             V == WordsOf(f, q)
  <2>1. M \in Seq(Int) /\ Len(M) = 2
    <3>1. q.delGen \in Nat \cup {None}
      BY DEF Rec
    <3> QED
      BY <3>1, LongOfTwo
  <2>2. V = A \o M \o S \o E
    BY <1>7, <1>15
  <2> HIDE DEF M, V
  <2>3. /\ \A y \in 1 .. 2 : V[y] = A[y]
        /\ \A y \in 1 .. z : V[y + 4] = S[y]
        /\ \A y \in 1 .. 3 : V[y + 4 + z] = E[y]
    BY <1>6, <2>1, <2>2
  <2>4. ASSUME x \in 1 .. 2
        PROVE  V[x] = W[x]
    BY <1>10, <2>3, <2>4
  <2>5. ASSUME x - 4 \in 1 .. z
        PROVE  V[x] = W[x]
    <3>1. (x - 4) + 4 = x
      BY <1>4, <1>5
    <3> QED
      BY <1>10, <2>3, <2>5, <3>1
  <2>6. ASSUME x - 4 - z \in 1 .. 3
        PROVE  V[x] = W[x]
    <3>1. (x - 4 - z) + 4 + z = x
      BY <1>4, <1>5
    <3> DEFINE y == x - 4 - z
    <3>2. V[y + 4 + z] = E[y] /\ W[y + 4 + z] = E[y]
      BY <1>10, <2>3, <2>6
    <3> QED
      BY <3>1, <3>2
  <2>7. x \in 1 .. 2 \/ x - 4 \in 1 .. z \/ x - 4 - z \in 1 .. 3
    BY <1>4, <1>5, <1>15
  <2> QED
    BY <2>4, <2>5, <2>6, <2>7 DEF V
<1>16. SizeOf(f, r) \in {7, 8, 10}
  BY <1>4, <1>5
<1>17. Len(W) = SizeOf(f, r)
  BY <1>5, <1>10
<1> QED
  BY <1>10, <1>11, <1>12, <1>13, <1>14, <1>15, <1>16, <1>17 DEF W, L

(* With another delGen only its words change.                              *)
LEMMA RecordPatched ==
  ASSUME NEW f \in Formats, NEW r \in Rec, NEW g \in Nat
  PROVE  /\ [r EXCEPT !.delGen = g] \in Rec
         /\ SizeOf(f, [r EXCEPT !.delGen = g]) = SizeOf(f, r)
         /\ WordsOf(f, [r EXCEPT !.delGen = g])[3] = Long(g)[1]
         /\ WordsOf(f, [r EXCEPT !.delGen = g])[4] = Long(g)[2]
         /\ \A x \in 1 .. SizeOf(f, r) :
              x \notin 3 .. 4 => WordsOf(f, [r EXCEPT !.delGen = g])[x] = WordsOf(f, r)[x]
<1> DEFINE q == [r EXCEPT !.delGen = g]
<1>1. /\ q \in Rec /\ q.name = r.name /\ q.docs = r.docs /\ q.numField = r.numField
      /\ q.store = r.store /\ q.delGen = g
  BY DEF Rec
<1> HIDE DEF q
<1>2. SizeOf(f, q) = SizeOf(f, r)
  BY <1>1 DEF SizeOf
<1>3. WordsOf(f, q)[3] = Long(g)[1] /\ WordsOf(f, q)[4] = Long(g)[2]
  BY <1>1, RecordWords
<1>4. \A x \in 1 .. SizeOf(f, r) : x \notin 3 .. 4 => WordsOf(f, q)[x] = WordsOf(f, r)[x]
  BY <1>1, RecordWords
<1> QED
  BY <1>1, <1>2, <1>3, <1>4 DEF q

-----------------------------------------------------------------------------
(* The words of each record.                                               *)
AllWords(f, rs, n) == [k \in 1 .. n |-> WordsOf(f, rs[k])]

(* The manifest m lists the n records rs, the k-th from off[k] on.         *)
IsManifest(m, f, rs, n, off) ==
  /\ f \in Formats /\ n \in Nat /\ rs \in [1 .. n -> Rec]
  /\ LaidIn(m, AllWords(f, rs, n), n, off, HeaderLen)
  /\ Format(m) = f /\ Version(m) \in Nat /\ NameCounter(m) \in Nat /\ SegCount(m) = n

(* Where the records are, word for word.                                   *)
LEMMA Places ==
  ASSUME NEW m, NEW f, NEW rs, NEW n, NEW off, IsManifest(m, f, rs, n, off)
  PROVE  /\ m \in Seq(Int) /\ Len(m) \in Nat /\ Len(m) >= HeaderLen
         /\ n \in Nat /\ off \in [1 .. (n + 1) -> Nat]
         /\ off[1] = HeaderLen + 1 /\ off[n + 1] = Len(m) + 1
         /\ \A k \in 1 .. n :
              /\ rs[k] \in Rec /\ SizeOf(f, rs[k]) \in {7, 8, 10}
              /\ off[k] \in Nat /\ off[k + 1] \in Nat
              /\ off[k] > HeaderLen /\ off[k + 1] <= Len(m) + 1
              /\ off[k + 1] = off[k] + SizeOf(f, rs[k])
              /\ \A x \in 1 .. SizeOf(f, rs[k]) : m[off[k] + x - 1] = WordsOf(f, rs[k])[x]
<1> DEFINE s == AllWords(f, rs, n)
<1>1. LaidIn(m, s, n, off, HeaderLen) /\ n \in Nat /\ f \in Formats /\ rs \in [1 .. n -> Rec]
  BY DEF IsManifest
<1>2. ASSUME NEW k \in 1 .. n
      PROVE  /\ rs[k] \in Rec /\ s[k] = WordsOf(f, rs[k]) /\ Len(s[k]) = SizeOf(f, rs[k])
             /\ SizeOf(f, rs[k]) \in {7, 8, 10}
  <2>1. rs[k] \in Rec /\ s[k] = WordsOf(f, rs[k])
    BY <1>1 DEF AllWords
  <2> QED
    BY <1>1, <2>1, RecordWords
<1> HIDE DEF s
<1>3. /\ m \in Seq(Int) /\ Len(m) \in Nat /\ off \in [1 .. (n + 1) -> Nat]
      /\ off[1] = HeaderLen + 1 /\ Len(m) = off[n + 1] - 1
  BY <1>1 DEF LaidIn
<1>4. \A k \in 0 .. n : HeaderLen + 1 <= off[k + 1]
  BY <1>1, OffsetsRise
<1>5. off[n + 1] = Len(m) + 1 /\ Len(m) >= HeaderLen
  <2>1. n \in 0 .. n /\ n + 1 \in 1 .. (n + 1)
    BY <1>1
  <2>2. off[n + 1] \in Nat /\ HeaderLen + 1 <= off[n + 1]
    BY <1>3, <1>4, <2>1
  <2> QED
    BY <1>3, <2>2 DEF HeaderLen
<1>6. ASSUME NEW k \in 1 .. n
      PROVE  /\ off[k] \in Nat /\ off[k + 1] \in Nat
             /\ off[k] > HeaderLen /\ off[k + 1] <= Len(m) + 1
             /\ off[k + 1] = off[k] + SizeOf(f, rs[k])
             /\ \A x \in 1 .. SizeOf(f, rs[k]) : m[off[k] + x - 1] = WordsOf(f, rs[k])[x]
  <2>1. k \in 1 .. (n + 1) /\ k + 1 \in 1 .. (n + 1) /\ k - 1 \in 0 .. n /\ (k - 1) + 1 = k
    BY <1>1
  <2>2. off[k] \in Nat /\ off[k + 1] \in Nat
    BY <1>3, <2>1
  <2>3. HeaderLen + 1 <= off[k]
    <3>1. HeaderLen + 1 <= off[(k - 1) + 1]
      BY <1>4, <2>1
    <3> QED
      BY <2>1, <3>1
  <2>4. off[k + 1] = off[k] + Len(s[k]) /\ Within(s[k], m, off[k] - 1)
    BY <1>1 DEF LaidIn
  <2>5. off[k + 1] <= Len(m) + 1
    <3>1. (off[k] - 1) + Len(s[k]) <= Len(m)
      BY <2>4 DEF Within
    <3>2. Len(s[k]) \in Nat
      BY <1>2
    <3> DEFINE a == off[k]
               l == Len(s[k])
    <3>3. a \in Nat /\ l \in Nat /\ off[k + 1] = a + l /\ (a - 1) + l <= Len(m)
      BY <2>2, <2>4, <3>1, <3>2
    <3> HIDE DEF a, l
    <3> QED
      BY <1>3, <3>3
  <2>6. ASSUME NEW x \in 1 .. SizeOf(f, rs[k])
        PROVE  m[off[k] + x - 1] = WordsOf(f, rs[k])[x]
    <3>1. x \in 1 .. Len(s[k])
      BY <1>2
    <3>2. m[off[k] + x - 1] = s[k][x]
      BY <1>1, <3>1, WordAt
    <3> QED
      BY <1>2, <3>2
  <2>7. off[k] > HeaderLen
    BY <2>2, <2>3 DEF HeaderLen
  <2> QED
    BY <1>2, <2>2, <2>4, <2>5, <2>6, <2>7
<1> QED
  BY <1>1, <1>2, <1>3, <1>5, <1>6

(* t is the front of m, all of its header at least.                        *)
FrontOf(t, m) ==
  /\ t \in Seq(Int) /\ HeaderLen <= Len(t) /\ Len(t) <= Len(m)
  /\ \A p \in 1 .. Len(t) : t[p] = m[p]

(* What is read of a record, and of a record that is not all there.        *)
LEMMA RecordAt ==
  ASSUME NEW m, NEW f, NEW rs, NEW n, NEW off, IsManifest(m, f, rs, n, off),
         NEW t, FrontOf(t, m), NEW k \in 1 .. n
  PROVE  IF off[k + 1] <= Len(t) + 1
         THEN /\ At(t, off[k]) = rs[k].name /\ At(t, off[k] + 1) = rs[k].docs
              /\ OfLong(At(t, off[k] + 2), At(t, off[k] + 3)) = rs[k].delGen
              /\ off[k] + 7 + StoreWords(t, off[k] + 4) = off[k + 1]
              /\ At(t, off[k + 1] - 2) = rs[k].numField
         ELSE off[k] + 7 + StoreWords(t, off[k] + 4) > Len(t) + 1
<1> DEFINE r == rs[k]
           a == off[k]
           z == SizeOf(f, r)
           w == WordsOf(f, r)
           l == Len(t)
<1>1. /\ r \in Rec /\ z \in {7, 8, 10} /\ a \in Nat /\ a > HeaderLen
      /\ off[k + 1] = a + z /\ \A x \in 1 .. z : m[a + x - 1] = w[x]
  <2>1. /\ rs[k] \in Rec /\ SizeOf(f, rs[k]) \in {7, 8, 10}
        /\ off[k] \in Nat /\ off[k] > HeaderLen
        /\ off[k + 1] = off[k] + SizeOf(f, rs[k])
    BY SMTT(30), Places
  <2>2. \A x \in 1 .. SizeOf(f, rs[k]) : m[off[k] + x - 1] = WordsOf(f, rs[k])[x]
    BY SMTT(30), Places
  <2> QED
    BY <2>1, <2>2
<1>2. f \in Formats /\ Format(m) = f
  BY DEF IsManifest
<1>3. /\ w[1] = r.name /\ w[2] = r.docs /\ w[3] = Long(r.delGen)[1] /\ w[4] = Long(r.delGen)[2]
      /\ f = Format23 => (w[5] = None <=> r.store = <<>>)
      /\ w[z - 1] = r.numField
  BY <1>1, <1>2, RecordWords
<1>4. t \in Seq(Int) /\ l \in Nat /\ HeaderLen <= l /\ \A p \in 1 .. l : At(t, p) = m[p]
  BY DEF FrontOf, At
<1>5. Format(t) = f
  BY <1>2, <1>4 DEF Format, FrontOf, HeaderLen
<1>6. z = IF f # Format23 THEN 7 ELSE IF r.store = <<>> THEN 8 ELSE 10
  BY DEF SizeOf
<1>7. OfLong(Long(r.delGen)[1], Long(r.delGen)[2]) = r.delGen
  <2>1. r.delGen \in Nat \cup {None}
    BY <1>1 DEF Rec
  <2> QED
    BY <2>1, LongOfTwo
<1> HIDE DEF r, a, z, w, l
<1>8. ASSUME NEW x \in 1 .. z, a + x - 1 <= l
      PROVE  At(t, a + x - 1) = w[x]
  <2>1. a + x - 1 \in 1 .. l
    BY <1>1, <1>4, <1>8 DEF HeaderLen
  <2> QED
    BY <1>1, <1>4, <2>1
<1>9. a + 4 <= l => StoreWords(t, a + 4) = z - 7
  <2> SUFFICES ASSUME a + 4 <= l
               PROVE  StoreWords(t, a + 4) = z - 7
    OBVIOUS
  <2>1. CASE f # Format23
    BY <1>5, <1>6, <2>1 DEF StoreWords
  <2>2. CASE f = Format23
    <3>1. 5 \in 1 .. z /\ a + 5 - 1 = a + 4
      BY <1>1
    <3>2. At(t, a + 4) = w[5]
      BY <1>8, <3>1
    <3> QED
      BY <1>3, <1>5, <1>6, <2>2, <3>2 DEF StoreWords
  <2> QED
    BY <2>1, <2>2
<1>10. ASSUME off[k + 1] <= l + 1
       PROVE  /\ At(t, a) = r.name /\ At(t, a + 1) = r.docs
              /\ OfLong(At(t, a + 2), At(t, a + 3)) = r.delGen
              /\ a + 7 + StoreWords(t, a + 4) = off[k + 1]
              /\ At(t, off[k + 1] - 2) = r.numField
  <2>1. \A x \in 1 .. z : At(t, a + x - 1) = w[x]
    <3> SUFFICES ASSUME NEW x \in 1 .. z
                 PROVE  At(t, a + x - 1) = w[x]
      OBVIOUS
    <3>1. a + x - 1 <= l
      BY <1>1, <1>4, <1>10
    <3> QED
      BY <1>8, <3>1
  <2>2. /\ 1 \in 1 .. z /\ 2 \in 1 .. z /\ 3 \in 1 .. z /\ 4 \in 1 .. z /\ z - 1 \in 1 .. z
        /\ a + 1 - 1 = a /\ a + 2 - 1 = a + 1 /\ a + 3 - 1 = a + 2 /\ a + 4 - 1 = a + 3
        /\ a + (z - 1) - 1 = off[k + 1] - 2
    BY <1>1
  <2>3. At(t, a) = w[1] /\ At(t, a + 1) = w[2] /\ At(t, a + 2) = w[3] /\ At(t, a + 3) = w[4]
    BY <2>1, <2>2
  <2>4. At(t, off[k + 1] - 2) = w[z - 1]
    BY <2>1, <2>2
  <2>5. StoreWords(t, a + 4) = z - 7
    <3>1. a + 4 <= l
      BY <1>1, <1>4, <1>10
    <3> QED
      BY <1>9, <3>1
  <2>6. a + 7 + StoreWords(t, a + 4) = off[k + 1]
    BY <1>1, <2>5
  <2> QED
    BY <1>3, <1>7, <2>3, <2>4, <2>6
<1>11. ASSUME ~ off[k + 1] <= l + 1
       PROVE  a + 7 + StoreWords(t, a + 4) > l + 1
  <2>1. CASE a + 4 <= l
    BY <1>1, <1>4, <1>9, <1>11, <2>1
  <2>2. CASE ~ a + 4 <= l
    <3>1. At(t, a + 4) = 0
      <4>1. a + 4 \notin DOMAIN t
        BY <1>1, <1>4, <2>2 DEF l
      <4> QED
        BY <4>1 DEF At
    <3>2. CASE f # Format23
      <4>1. StoreWords(t, a + 4) = 0 /\ z = 7
        BY <1>5, <1>6, <3>2 DEF StoreWords
      <4>2. a \in Nat /\ off[k + 1] = a + z /\ l \in Nat
        BY <1>1, <1>4
      <4> QED
        BY <1>11, <4>1, <4>2
    <3>3. CASE f = Format23
      <4>1. StoreWords(t, a + 4) = 3
        BY <1>5, <3>1, <3>3 DEF StoreWords, None
      <4>2. a \in Nat /\ l \in Nat
        BY <1>1, <1>4
      <4> QED
        BY <2>2, <4>1, <4>2
    <3> QED
      BY <3>2, <3>3
  <2> QED
    BY <2>1, <2>2
<1> QED
  BY <1>10, <1>11 DEF r, a, l

(* A word, or 0 past the end.                                              *)
LEMMA AtInt ==
  ASSUME NEW m \in Seq(Int), NEW p
  PROVE  At(m, p) \in Int
BY DEF At

(* A doc store takes no, one or three words.                               *)
LEMMA StoreWordsNat ==
  ASSUME NEW m, NEW p
  PROVE  StoreWords(m, p) \in {0, 1, 3}
BY DEF StoreWords

(* The writer's walk, and the reader's, as the functions they are.         *)
WalkStart == [pos |-> HeaderLen + 1, offsets |-> <<>>, ok |-> TRUE]
ReadStart == [pos |-> HeaderLen + 1, ok |-> TRUE, out |-> <<>>]
Seg == [name : Int, docs : Int, delGen : Int]

(* The walk goes record by record from the header on.                      *)
LEMMA WalkSteps ==
  ASSUME NEW m \in Seq(Int), SegCount(m) \in Nat
  PROVE  \E w : /\ w[0] = WalkStart
                /\ \A k \in 1 .. SegCount(m) : w[k] = WalkRecord(m, w[k - 1])
                /\ WalkRecords(m) = w[SegCount(m)]
                /\ \A k \in 0 .. SegCount(m) :
                     w[k] \in [pos : Nat, offsets : Seq(Int \X Nat), ok : BOOLEAN]
<1> DEFINE n == SegCount(m)
           V == [pos : Nat, offsets : Seq(Int \X Nat), ok : BOOLEAN]
           G == [v \in V |-> WalkRecord(m, v)]
           Is(w) == w = [i \in 0 .. n |->
                           IF i = 0 THEN [pos |-> HeaderLen + 1, offsets |-> <<>>, ok |-> TRUE]
                           ELSE WalkRecord(m, w[i - 1])]
<1>1. ASSUME NEW v \in V
      PROVE  WalkRecord(m, v) \in V
  <2> DEFINE d == v.pos + 2
             end == d + 2 + StoreWords(m, d + 2) + 3
  <2>1. d \in Nat
    OBVIOUS
  <2> HIDE DEF d
  <2>2. end \in Nat
    <3>1. StoreWords(m, d + 2) \in Nat
      BY StoreWordsNat
    <3> QED
      BY <2>1, <3>1
  <2>3. Append(v.offsets, <<At(m, v.pos), d>>) \in Seq(Int \X Nat)
    <3>1. <<At(m, v.pos), d>> \in Int \X Nat
      BY <2>1, AtInt
    <3> QED
      BY <3>1
  <2>4. v.ok \in BOOLEAN
    OBVIOUS
  <2> HIDE DEF end
  <2>5. [pos |-> end, offsets |-> Append(v.offsets, <<At(m, v.pos), d>>),
         ok |-> v.ok /\ At(m, end - 2) = None] \in V
    BY <2>2, <2>3, <2>4
  <2>6. WalkRecord(m, v) = [pos |-> end, offsets |-> Append(v.offsets, <<At(m, v.pos), d>>),
                            ok |-> v.ok /\ At(m, end - 2) = None]
    BY DEF WalkRecord, d, end
  <2> QED
    BY <2>5, <2>6
<1>2. WalkStart \in V
  BY DEF WalkStart, HeaderLen
<1> HIDE DEF V
<1>3. G \in [V -> V]
  BY <1>1
<1>3a. PICK g : GrowsFrom(g, n, V, WalkStart, G)
  <2> HIDE DEF G, n
  <2>1. n \in Nat
    BY DEF n
  <2> QED
    BY <1>2, <1>3, <2>1, RecursionFromZero
<1>4. g \in [0 .. n -> V] /\ g[0] = WalkStart /\ \A k \in 1 .. n : g[k] = G[g[k - 1]]
  BY <1>3a DEF GrowsFrom
<1>5. ASSUME NEW k \in 1 .. n
      PROVE  g[k] = WalkRecord(m, g[k - 1])
  <2>1. k - 1 \in 0 .. n
    OBVIOUS
  <2>2. g[k - 1] \in V
    BY <1>4, <2>1
  <2> QED
    BY <1>4, <2>2
<1>6. Is(g)
  <2>1. \A i \in 0 .. n : i # 0 => i \in 1 .. n
    OBVIOUS
  <2> QED
    BY <1>4, <1>5, <2>1 DEF WalkStart
<1> DEFINE c == CHOOSE w : Is(w)
<1>7. Is(c)
  <2> HIDE DEF Is
  <2> QED
    BY <1>6
<1>8. WalkRecords(m) = c[n]
  BY DEF WalkRecords
<1> HIDE DEF c
<1>9. c[0] = WalkStart /\ \A k \in 1 .. n : c[k] = WalkRecord(m, c[k - 1])
  <2>1. 0 \in 0 .. n /\ \A k \in 1 .. n : k \in 0 .. n /\ k # 0
    OBVIOUS
  <2> QED
    BY <1>7, <2>1 DEF WalkStart
<1> DEFINE T == {k \in 0 .. n : c[k] \in V}
<1>10. 0 \in T
  BY <1>2, <1>9
<1>11. ASSUME NEW k \in 0 .. (n - 1), k \in T
       PROVE  k + 1 \in T
  <2>1. k + 1 \in 1 .. n /\ (k + 1) - 1 = k
    OBVIOUS
  <2>2. c[k + 1] = WalkRecord(m, c[k])
    BY <1>9, <2>1
  <2> QED
    BY <1>1, <1>11, <2>1, <2>2
<1>12. 0 .. n \subseteq T
  <2> HIDE DEF T
  <2> QED
    BY <1>10, <1>11, InductionUpTo
<1>13. \A k \in 0 .. n : c[k] \in V
  BY <1>12
<1> QED
  BY <1>8, <1>9, <1>13 DEF V

(* So does the reader.                                                     *)
LEMMA ReadSteps ==
  ASSUME NEW m \in Seq(Int), SegCount(m) \in Nat
  PROVE  \E w : /\ w[0] = ReadStart
                /\ \A k \in 1 .. SegCount(m) : w[k] = ReadRecord(m, w[k - 1])
                /\ ReadSegmentInfos(m) = IF w[SegCount(m)].ok THEN {w[SegCount(m)].out} ELSE {}
                /\ \A k \in 0 .. SegCount(m) : w[k] \in [pos : Nat, ok : BOOLEAN, out : Seq(Seg)]
<1> DEFINE n == SegCount(m)
           V == [pos : Nat, ok : BOOLEAN, out : Seq(Seg)]
           G == [v \in V |-> ReadRecord(m, v)]
           Is(w) == w = [i \in 0 .. n |->
                           IF i = 0 THEN [pos |-> HeaderLen + 1, ok |-> TRUE, out |-> <<>>]
                           ELSE ReadRecord(m, w[i - 1])]
<1>1. ASSUME NEW v \in V
      PROVE  ReadRecord(m, v) \in V
  <2> DEFINE end == v.pos + 7 + StoreWords(m, v.pos + 4)
             s == [name |-> At(m, v.pos), docs |-> At(m, v.pos + 1),
                   delGen |-> OfLong(At(m, v.pos + 2), At(m, v.pos + 3))]
             ok == v.ok /\ end <= Len(m) + 1 /\ At(m, end - 2) = None
  <2>1. end \in Nat
    <3>1. v.pos + 7 \in Nat
      OBVIOUS
    <3>2. StoreWords(m, v.pos + 4) \in Nat
      BY StoreWordsNat
    <3> QED
      BY <3>1, <3>2
  <2>2. s \in Seg
    <3>1. OfLong(At(m, v.pos + 2), At(m, v.pos + 3)) \in Int
      BY AtInt DEF OfLong, None
    <3> QED
      BY <3>1, AtInt DEF Seg
  <2> HIDE DEF s
  <2>3. Append(v.out, s) \in Seq(Seg)
    BY <2>2
  <2>4. ok \in BOOLEAN
    OBVIOUS
  <2> HIDE DEF end, ok
  <2>5. [pos |-> end, ok |-> ok, out |-> Append(v.out, s)] \in V
    BY <2>1, <2>3, <2>4
  <2>6. ReadRecord(m, v) = [pos |-> end, ok |-> ok, out |-> Append(v.out, s)]
    BY DEF ReadRecord, end, ok, s
  <2> QED
    BY <2>5, <2>6
<1>2. ReadStart \in V
  BY DEF ReadStart, HeaderLen
<1> HIDE DEF V
<1>3. G \in [V -> V]
  BY <1>1
<1>3a. PICK g : GrowsFrom(g, n, V, ReadStart, G)
  <2> HIDE DEF G, n
  <2>1. n \in Nat
    BY DEF n
  <2> QED
    BY <1>2, <1>3, <2>1, RecursionFromZero
<1>4. g \in [0 .. n -> V] /\ g[0] = ReadStart /\ \A k \in 1 .. n : g[k] = G[g[k - 1]]
  BY <1>3a DEF GrowsFrom
<1>5. ASSUME NEW k \in 1 .. n
      PROVE  g[k] = ReadRecord(m, g[k - 1])
  <2>1. k - 1 \in 0 .. n
    OBVIOUS
  <2>2. g[k - 1] \in V
    BY <1>4, <2>1
  <2> QED
    BY <1>4, <2>2
<1>6. Is(g)
  <2>1. \A i \in 0 .. n : i # 0 => i \in 1 .. n
    OBVIOUS
  <2> QED
    BY <1>4, <1>5, <2>1 DEF ReadStart
<1> DEFINE c == CHOOSE w : Is(w)
<1>7. Is(c)
  <2> HIDE DEF Is
  <2> QED
    BY <1>6
<1>8. ReadSegmentInfos(m) = IF c[n].ok THEN {c[n].out} ELSE {}
  BY DEF ReadSegmentInfos
<1> HIDE DEF c
<1>9. c[0] = ReadStart /\ \A k \in 1 .. n : c[k] = ReadRecord(m, c[k - 1])
  <2>1. 0 \in 0 .. n /\ \A k \in 1 .. n : k \in 0 .. n /\ k # 0
    OBVIOUS
  <2> QED
    BY <1>7, <2>1 DEF ReadStart
<1> DEFINE T == {k \in 0 .. n : c[k] \in V}
<1>10. 0 \in T
  BY <1>2, <1>9
<1>11. ASSUME NEW k \in 0 .. (n - 1), k \in T
       PROVE  k + 1 \in T
  <2>1. k + 1 \in 1 .. n /\ (k + 1) - 1 = k
    OBVIOUS
  <2>2. c[k + 1] = ReadRecord(m, c[k])
    BY <1>9, <2>1
  <2> QED
    BY <1>1, <1>11, <2>1, <2>2
<1>12. 0 .. n \subseteq T
  <2> HIDE DEF T
  <2> QED
    BY <1>10, <1>11, InductionUpTo
<1>13. \A k \in 0 .. n : c[k] \in V
  BY <1>12
<1> QED
  BY <1>8, <1>9, <1>13 DEF V

-----------------------------------------------------------------------------
(* What the walk finds: the end of the records, where the delGens are, and *)
(* whether every numField is none.                                         *)
LEMMA WalkIs ==
  ASSUME NEW m, NEW f, NEW rs, NEW n, NEW off, IsManifest(m, f, rs, n, off)
  PROVE  /\ WalkRecords(m).pos = off[n + 1]
         /\ Range(WalkRecords(m).offsets) = {<<rs[k].name, off[k] + 2>> : k \in 1 .. n}
         /\ WalkRecords(m).ok <=> \A k \in 1 .. n : rs[k].numField = None
<1>1. /\ m \in Seq(Int) /\ Len(m) \in Nat /\ Len(m) >= HeaderLen /\ n \in Nat /\ SegCount(m) = n
      /\ off[1] = HeaderLen + 1
      /\ \A k \in 1 .. n : off[k] \in Nat /\ off[k + 1] \in Nat /\ off[k + 1] <= Len(m) + 1
  BY Places DEF IsManifest
<1>2. PICK w : /\ w[0] = WalkStart
               /\ \A k \in 1 .. n : w[k] = WalkRecord(m, w[k - 1])
               /\ WalkRecords(m) = w[n]
               /\ \A k \in 0 .. n : w[k] \in [pos : Nat, offsets : Seq(Int \X Nat), ok : BOOLEAN]
  BY <1>1, WalkSteps
<1>3. FrontOf(m, m)
  BY <1>1 DEF FrontOf
<1> DEFINE Good(k) == /\ w[k].pos = off[k + 1] /\ Len(w[k].offsets) = k
                      /\ \A j \in 1 .. k : w[k].offsets[j] = <<rs[j].name, off[j] + 2>>
                      /\ w[k].ok <=> \A j \in 1 .. k : rs[j].numField = None
           T == {k \in 0 .. n : Good(k)}
<1>4. 0 \in T
  <2>1. w[0].pos = HeaderLen + 1 /\ Len(w[0].offsets) = 0 /\ w[0].ok
    BY <1>2 DEF WalkStart
  <2> QED
    BY <1>1, <2>1
<1>5. ASSUME NEW k \in 0 .. (n - 1), k \in T
      PROVE  k + 1 \in T
  <2> DEFINE j == k + 1
             v == w[k]
             d == v.pos + 2
             end == d + 2 + StoreWords(m, d + 2) + 3
             u == Append(v.offsets, <<At(m, v.pos), d>>)
  <2>1. j \in 1 .. n /\ j - 1 = k /\ k \in Nat /\ k \in 0 .. n
    BY <1>1
  <2>2. v.pos = off[j] /\ v.offsets \in Seq(Int \X Nat) /\ Len(v.offsets) = k /\ v.ok \in BOOLEAN
    BY <1>2, <1>5, <2>1
  <2>2a. w[j] = [pos |-> end, offsets |-> u, ok |-> v.ok /\ At(m, end - 2) = None]
    BY <1>2, <2>1 DEF WalkRecord
  <2>3. /\ off[j] \in Nat /\ off[j + 1] <= Len(m) + 1
        /\ At(m, off[j]) = rs[j].name
        /\ off[j] + 7 + StoreWords(m, off[j] + 4) = off[j + 1]
        /\ At(m, off[j + 1] - 2) = rs[j].numField
    <3> HIDE DEF j
    <3>1. off[j] \in Nat /\ off[j + 1] <= Len(m) + 1
      BY <1>1, <2>1
    <3>2. IF off[j + 1] <= Len(m) + 1
          THEN /\ At(m, off[j]) = rs[j].name /\ At(m, off[j] + 1) = rs[j].docs
               /\ OfLong(At(m, off[j] + 2), At(m, off[j] + 3)) = rs[j].delGen
               /\ off[j] + 7 + StoreWords(m, off[j] + 4) = off[j + 1]
               /\ At(m, off[j + 1] - 2) = rs[j].numField
          ELSE off[j] + 7 + StoreWords(m, off[j] + 4) > Len(m) + 1
      BY <1>3, <2>1, RecordAt
    <3> QED
      BY <3>1, <3>2
  <2>4. d = off[j] + 2 /\ d + 2 = off[j] + 4 /\ end = off[j + 1]
    <3> DEFINE x == off[j]
    <3>1. x \in Nat /\ v.pos = x /\ x + 7 + StoreWords(m, x + 4) = off[j + 1]
      BY <2>2, <2>3
    <3>2. StoreWords(m, x + 4) \in Nat
      BY StoreWordsNat
    <3> HIDE DEF x, j, v
    <3>3. d = x + 2 /\ d + 2 = x + 4
      BY <3>1
    <3>4. end = d + 2 + StoreWords(m, x + 4) + 3
      BY <3>3
    <3>5. end = off[j + 1]
      BY <3>1, <3>2, <3>3, <3>4
    <3> QED
      BY <3>3, <3>5 DEF x
  <2>5. <<At(m, v.pos), d>> = <<rs[j].name, off[j] + 2>>
    BY <2>2, <2>3, <2>4
  <2>6. u[j] = <<rs[j].name, off[j] + 2>> /\ Len(u) = j /\ \A i \in 1 .. k : u[i] = v.offsets[i]
    <3> DEFINE e == <<At(m, v.pos), d>>
    <3> HIDE DEF e, v, d
    <3>1. u = Append(v.offsets, e)
      BY DEF e
    <3>2. u[j] = e /\ Len(u) = j /\ \A i \in 1 .. k : u[i] = v.offsets[i]
      <4> HIDE DEF u
      <4> QED
        BY <2>1, <2>2, <3>1, AppendProperties
    <3> QED
      BY <2>5, <3>2 DEF e
  <2>7. w[j].pos = end /\ w[j].offsets = u /\ (w[j].ok <=> v.ok /\ At(m, end - 2) = None)
    <3> DEFINE good == v.ok /\ At(m, end - 2) = None
    <3>1. w[j] = [pos |-> end, offsets |-> u, ok |-> good]
      BY <2>2a
    <3> HIDE DEF good, end, u, v, j
    <3>2. w[j].pos = end /\ w[j].offsets = u /\ w[j].ok = good
      BY <3>1
    <3> QED
      BY <3>2 DEF good
  <2> HIDE DEF v, d, end, u
  <2>8. \A i \in 1 .. j : w[j].offsets[i] = <<rs[i].name, off[i] + 2>>
    <3> SUFFICES ASSUME NEW i \in 1 .. j
                 PROVE  u[i] = <<rs[i].name, off[i] + 2>>
      BY <2>7
    <3>1. CASE i = j
      BY <2>6, <3>1
    <3>2. CASE i # j
      <4>1. i \in 1 .. k
        BY <2>1, <3>2
      <4> QED
        BY <1>5, <2>6, <4>1 DEF v
    <3> QED
      BY <3>1, <3>2
  <2>9. w[j].ok <=> \A i \in 1 .. j : rs[i].numField = None
    <3>1. v.ok <=> \A i \in 1 .. k : rs[i].numField = None
      BY <1>5 DEF v
    <3>2. At(m, end - 2) = rs[j].numField
      BY <2>3, <2>4
    <3>3. \A i : i \in 1 .. j <=> i \in 1 .. k \/ i = j
      BY <2>1
    <3> HIDE DEF j
    <3> QED
      BY <2>7, <3>1, <3>2, <3>3
  <2>10. w[j].pos = off[j + 1] /\ Len(w[j].offsets) = j
    BY <2>4, <2>6, <2>7
  <2>11. Good(j)
    BY <2>8, <2>9, <2>10
  <2>12. j \in 0 .. n
    BY <2>1
  <2> HIDE DEF Good
  <2> QED
    BY <2>11, <2>12
<1>6. n \in T
  <2> HIDE DEF T
  <2>1. 0 .. n \subseteq T
    BY <1>1, <1>4, <1>5, InductionUpTo
  <2> QED
    BY <1>1, <2>1
<1>7. Good(n)
  BY <1>6
<1>8. Range(w[n].offsets) = {<<rs[k].name, off[k] + 2>> : k \in 1 .. n}
  <2>1. w[n].offsets \in Seq(Int \X Nat)
    BY <1>1, <1>2
  <2>2. DOMAIN w[n].offsets = 1 .. n
    BY <1>7, <2>1
  <2> QED
    BY <1>7, <2>2 DEF Range
<1> QED
  BY <1>2, <1>7, <1>8

(* The segment a record is for.                                            *)
SegOf(r) == [name |-> r.name, docs |-> r.docs, delGen |-> r.delGen]

(* What is read of the front of a manifest: all of its segments, if all of *)
(* it is there and every numField is none; else nothing.                   *)
LEMMA ReadIs ==
  ASSUME NEW m, NEW f, NEW rs, NEW n, NEW off, IsManifest(m, f, rs, n, off),
         NEW t, FrontOf(t, m)
  PROVE  ReadSegmentInfos(t) =
           IF Len(t) = Len(m) /\ \A k \in 1 .. n : rs[k].numField = None
           THEN {[k \in 1 .. n |-> SegOf(rs[k])]} ELSE {}
<1> DEFINE l == Len(t)
<1>1. /\ m \in Seq(Int) /\ Len(m) \in Nat /\ Len(m) >= HeaderLen /\ n \in Nat /\ SegCount(m) = n
      /\ off[1] = HeaderLen + 1 /\ off[n + 1] = Len(m) + 1
      /\ \A k \in 1 .. n : off[k] \in Nat /\ off[k + 1] \in Nat /\ off[k] <= off[k + 1]
  <2>1. ASSUME NEW k \in 1 .. n
        PROVE  /\ off[k] \in Nat /\ off[k + 1] \in Nat
               /\ off[k + 1] = off[k] + SizeOf(f, rs[k]) /\ SizeOf(f, rs[k]) \in Nat
    <3>1. /\ off[k] \in Nat /\ off[k + 1] \in Nat
          /\ off[k + 1] = off[k] + SizeOf(f, rs[k]) /\ SizeOf(f, rs[k]) \in {7, 8, 10}
      BY Places
    <3> QED
      BY <3>1
  <2>3. /\ m \in Seq(Int) /\ Len(m) \in Nat /\ Len(m) >= HeaderLen /\ n \in Nat
        /\ off[1] = HeaderLen + 1 /\ off[n + 1] = Len(m) + 1 /\ SegCount(m) = n
    BY Places DEF IsManifest
  <2>2. \A k \in 1 .. n : off[k] <= off[k + 1]
    <3> SUFFICES ASSUME NEW k \in 1 .. n
                 PROVE  off[k] <= off[k + 1]
      OBVIOUS
    <3> DEFINE x == off[k]
               y == SizeOf(f, rs[k])
    <3>1. x \in Nat /\ y \in Nat /\ off[k + 1] = x + y
      BY <2>1
    <3> HIDE DEF x, y
    <3>2. x <= off[k + 1]
      BY <3>1
    <3> QED
      BY <3>2 DEF x
  <2> QED
    BY <2>1, <2>2, <2>3
<1>2. /\ t \in Seq(Int) /\ l \in Nat /\ HeaderLen <= l /\ l <= Len(m)
      /\ SegCount(t) = n
  BY <1>1 DEF FrontOf, SegCount, HeaderLen
<1>3. PICK w : /\ w[0] = ReadStart
               /\ \A k \in 1 .. n : w[k] = ReadRecord(t, w[k - 1])
               /\ ReadSegmentInfos(t) = IF w[n].ok THEN {w[n].out} ELSE {}
               /\ \A k \in 0 .. n : w[k] \in [pos : Nat, ok : BOOLEAN, out : Seq(Seg)]
  BY <1>1, <1>2, ReadSteps
<1> HIDE DEF l
<1> DEFINE Read(k) == /\ w[k].pos = off[k + 1] /\ Len(w[k].out) = k
                      /\ \A j \in 1 .. k : w[k].out[j] = SegOf(rs[j])
                      /\ w[k].ok <=> \A j \in 1 .. k : rs[j].numField = None
           T == {k \in 0 .. n : IF off[k + 1] <= l + 1 THEN Read(k) ELSE ~ w[k].ok}
<1>4. 0 \in T
  <2>1. w[0].pos = HeaderLen + 1 /\ Len(w[0].out) = 0 /\ w[0].ok
    BY <1>3 DEF ReadStart
  <2>2. off[0 + 1] <= l + 1
    BY <1>1, <1>2 DEF HeaderLen
  <2> QED
    BY <1>1, <2>1, <2>2
<1>5. ASSUME NEW k \in 0 .. (n - 1), k \in T
      PROVE  k + 1 \in T
  <2> DEFINE j == k + 1
             v == w[k]
             end == v.pos + 7 + StoreWords(t, v.pos + 4)
             s == [name |-> At(t, v.pos), docs |-> At(t, v.pos + 1),
                   delGen |-> OfLong(At(t, v.pos + 2), At(t, v.pos + 3))]
             u == Append(v.out, s)
  <2>1. j \in 1 .. n /\ j - 1 = k /\ k \in Nat /\ k \in 0 .. n /\ j \in 0 .. n
    BY <1>1
  <2>2. v \in [pos : Nat, ok : BOOLEAN, out : Seq(Seg)]
    BY <1>3, <2>1
  <2>3. /\ w[j].pos = end /\ w[j].out = u
        /\ w[j].ok <=> (v.ok /\ end <= Len(t) + 1 /\ At(t, end - 2) = None)
    <3>1. w[j] = [pos |-> end, ok |-> v.ok /\ end <= Len(t) + 1 /\ At(t, end - 2) = None, out |-> u]
      BY <1>3, <2>1 DEF ReadRecord
    <3> DEFINE good == v.ok /\ end <= Len(t) + 1 /\ At(t, end - 2) = None
    <3>2. w[j] = [pos |-> end, ok |-> good, out |-> u]
      BY <3>1
    <3> HIDE DEF good, end, u, v, j, s
    <3>3. w[j].pos = end /\ w[j].out = u /\ w[j].ok = good
      BY <3>2
    <3> QED
      BY <3>3 DEF good
  <2>4. off[j] \in Nat /\ off[j + 1] \in Nat /\ off[j] <= off[j + 1]
    <3> HIDE DEF j
    <3> QED
      BY <1>1, <2>1
  <2>5. v.ok \in BOOLEAN /\ v.out \in Seq(Seg)
    BY <2>2
  <2> HIDE DEF v
  <2>6. CASE ~ off[j] <= l + 1
    <3>1. ~ off[j + 1] <= l + 1
      BY <1>2, <2>4, <2>6
    <3>2. ~ v.ok
      BY <1>5, <2>6 DEF v
    <3> QED
      BY <2>1, <2>3, <3>1, <3>2
  <2>7. CASE off[j] <= l + 1
    <3>1. Read(k)
      BY <1>5, <2>7
    <3>2. v.pos = off[j] /\ Len(v.out) = k
      BY <3>1 DEF v
    <3>3. IF off[j + 1] <= l + 1
          THEN /\ At(t, off[j]) = rs[j].name /\ At(t, off[j] + 1) = rs[j].docs
               /\ OfLong(At(t, off[j] + 2), At(t, off[j] + 3)) = rs[j].delGen
               /\ off[j] + 7 + StoreWords(t, off[j] + 4) = off[j + 1]
               /\ At(t, off[j + 1] - 2) = rs[j].numField
          ELSE off[j] + 7 + StoreWords(t, off[j] + 4) > l + 1
      <4> HIDE DEF j
      <4> QED
        BY <2>1, RecordAt DEF l
    <3>4. CASE ~ off[j + 1] <= l + 1
      <4>1. end > l + 1
        BY <3>2, <3>3, <3>4
      <4>2. end \in Nat
        <5>1. StoreWords(t, v.pos + 4) \in Nat
          BY StoreWordsNat
        <5> QED
          BY <2>4, <3>2, <5>1
      <4> HIDE DEF end
      <4>3. ~ end <= Len(t) + 1
        BY <1>2, <4>1, <4>2 DEF l
      <4>4. ~ w[j].ok
        BY <2>3, <4>3
      <4> QED
        BY <2>1, <3>4, <4>4
    <3>5. CASE off[j + 1] <= l + 1
      <4>1. end = off[j + 1] /\ At(t, end - 2) = rs[j].numField
        BY <3>2, <3>3, <3>5
      <4>2. s = SegOf(rs[j])
        BY <3>2, <3>3, <3>5 DEF SegOf
      <4>3. s \in Seg
        <5>1. OfLong(At(t, v.pos + 2), At(t, v.pos + 3)) \in Int
          BY <1>2, AtInt DEF OfLong, None
        <5> QED
          BY <1>2, <5>1, AtInt DEF Seg
      <4> HIDE DEF s, end
      <4>4. u[j] = s /\ Len(u) = j /\ \A i \in 1 .. k : u[i] = v.out[i]
        BY <2>1, <2>5, <3>2, <4>3, AppendProperties
      <4> HIDE DEF u
      <4>5. ASSUME NEW i \in 1 .. j
            PROVE  w[j].out[i] = SegOf(rs[i])
        <5>1. CASE i = j
          BY <2>3, <4>2, <4>4, <5>1
        <5>2. CASE i # j
          <6>1. i \in 1 .. k
            BY <2>1, <5>2
          <6>2. v.out[i] = SegOf(rs[i])
            BY <3>1, <6>1 DEF v
          <6> QED
            BY <2>3, <4>4, <6>1, <6>2
        <5> QED
          BY <5>1, <5>2
      <4>6. w[j].ok <=> \A i \in 1 .. j : rs[i].numField = None
        <5>1. v.ok <=> \A i \in 1 .. k : rs[i].numField = None
          BY <3>1 DEF v
        <5>2. end <= Len(t) + 1
          BY <3>5, <4>1 DEF l
        <5>3. \A i : i \in 1 .. j <=> i \in 1 .. k \/ i = j
          BY <2>1
        <5> HIDE DEF j
        <5> QED
          BY <2>3, <4>1, <5>1, <5>2, <5>3
      <4>7. Read(j)
        BY <2>3, <4>1, <4>4, <4>5, <4>6
      <4> HIDE DEF Read
      <4> QED
        BY <2>1, <3>5, <4>7
    <3> QED
      BY <3>4, <3>5
  <2> QED
    BY <2>6, <2>7
<1>6. n \in T
  <2> HIDE DEF T
  <2>1. 0 .. n \subseteq T
    BY <1>1, <1>4, <1>5, InductionUpTo
  <2> QED
    BY <1>1, <2>1
<1>7. CASE Len(t) # Len(m)
  <2>1. ~ off[n + 1] <= l + 1
    BY <1>1, <1>2, <1>7 DEF l
  <2>2. ~ w[n].ok
    BY <1>6, <2>1
  <2> QED
    BY <1>3, <1>7, <2>2
<1>8. CASE Len(t) = Len(m)
  <2>1. off[n + 1] <= l + 1
    BY <1>1, <1>2, <1>8 DEF l
  <2>2. Read(n)
    BY <1>6, <2>1
  <2>3. w[n].out \in Seq(Seg) /\ n \in 0 .. n
    <3>1. n \in 0 .. n
      BY <1>1
    <3> QED
      BY <1>3, <3>1
  <2>4. w[n].out = [k \in 1 .. n |-> SegOf(rs[k])]
    <3>1. w[n].out \in [1 .. n -> Seg]
      BY <2>2, <2>3
    <3> QED
      BY <2>2, <3>1
  <2> QED
    BY <1>3, <1>8, <2>2, <2>4
<1> QED
  BY <1>7, <1>8

(* Where one record begins the ones before have ended.                     *)
LEMMA RecordsApart ==
  ASSUME NEW m, NEW f, NEW rs, NEW n, NEW off, IsManifest(m, f, rs, n, off),
         NEW j \in 1 .. n, NEW k \in 1 .. n, j < k
  PROVE  off[j] + SizeOf(f, rs[j]) <= off[k]
<1> DEFINE s == AllWords(f, rs, n)
<1>1. LaidIn(m, s, n, off, HeaderLen) /\ n \in Nat /\ f \in Formats /\ rs[j] \in Rec
  BY DEF IsManifest
<1>2. s[j] = WordsOf(f, rs[j]) /\ Len(WordsOf(f, rs[j])) = SizeOf(f, rs[j])
  BY <1>1, RecordWords DEF AllWords
<1> HIDE DEF s
<1>3. k - 1 \in 0 .. n /\ j \in 1 .. (k - 1) /\ (k - 1) + 1 = k
  BY <1>1
<1>4. off[j] + Len(s[j]) <= off[(k - 1) + 1]
  BY <1>1, <1>3, OffsetsRise
<1> QED
  BY <1>2, <1>3, <1>4

(* The records with the delGens of the overrides.                          *)
Overridden(rs, n, ov) ==
  [k \in 1 .. n |-> IF rs[k].name \in DOMAIN ov THEN [rs[k] EXCEPT !.delGen = ov[rs[k].name]]
                    ELSE rs[k]]

(* Patched changes the delGens of these records and nothing else.          *)
LEMMA PatchedIs ==
  ASSUME NEW m, NEW f, NEW rs, NEW n, NEW off, IsManifest(m, f, rs, n, off),
         NEW marked, NEW ov \in [marked -> Nat]
  PROVE  /\ Overridden(rs, n, ov) \in [1 .. n -> Rec]
         /\ LaidIn(Patched(m, ov), AllWords(f, Overridden(rs, n, ov), n), n, off, HeaderLen)
<1>1. /\ m \in Seq(Int) /\ Len(m) \in Nat /\ n \in Nat /\ off \in [1 .. (n + 1) -> Nat]
      /\ off[1] = HeaderLen + 1 /\ off[n + 1] = Len(m) + 1 /\ f \in Formats
  <2>1. /\ m \in Seq(Int) /\ Len(m) \in Nat /\ n \in Nat /\ off \in [1 .. (n + 1) -> Nat]
        /\ off[1] = HeaderLen + 1 /\ off[n + 1] = Len(m) + 1
    BY Places
  <2>2. f \in Formats
    BY DEF IsManifest
  <2> QED
    BY <2>1, <2>2
<1>2. ASSUME NEW k \in 1 .. n
      PROVE  /\ rs[k] \in Rec /\ SizeOf(f, rs[k]) \in {7, 8, 10}
             /\ off[k] \in Nat /\ off[k + 1] \in Nat
             /\ off[k] > HeaderLen /\ off[k + 1] <= Len(m) + 1
             /\ off[k + 1] = off[k] + SizeOf(f, rs[k])
             /\ \A x \in 1 .. SizeOf(f, rs[k]) : m[off[k] + x - 1] = WordsOf(f, rs[k])[x]
  <2>1. /\ rs[k] \in Rec /\ SizeOf(f, rs[k]) \in {7, 8, 10}
        /\ off[k] \in Nat /\ off[k + 1] \in Nat
        /\ off[k] > HeaderLen /\ off[k + 1] <= Len(m) + 1
        /\ off[k + 1] = off[k] + SizeOf(f, rs[k])
    BY Places
  <2>2. \A x \in 1 .. SizeOf(f, rs[k]) : m[off[k] + x - 1] = WordsOf(f, rs[k])[x]
    BY Places
  <2> QED
    BY <2>1, <2>2
<1> DEFINE ps == Overridden(rs, n, ov)
           s == AllWords(f, ps, n)
           P == Patched(m, ov)
           hit == {o \in Range(WalkRecords(m).offsets) : o[1] \in marked}
<1>3. ASSUME NEW k \in 1 .. n
      PROVE  /\ ps[k] \in Rec /\ SizeOf(f, ps[k]) = SizeOf(f, rs[k])
             /\ s[k] \in Seq(Int) /\ Len(s[k]) = SizeOf(f, rs[k])
             /\ s[k] = WordsOf(f, ps[k])
             /\ ps[k] = IF rs[k].name \in marked THEN [rs[k] EXCEPT !.delGen = ov[rs[k].name]]
                        ELSE rs[k]
  <2>1. ps[k] = IF rs[k].name \in marked THEN [rs[k] EXCEPT !.delGen = ov[rs[k].name]] ELSE rs[k]
    BY DEF Overridden
  <2>2. s[k] = WordsOf(f, ps[k])
    BY DEF AllWords
  <2>3. rs[k] \in Rec
    BY <1>2
  <2> HIDE DEF ps
  <2>4. ps[k] \in Rec /\ SizeOf(f, ps[k]) = SizeOf(f, rs[k])
    <3>1. CASE rs[k].name \in marked
      <4> DEFINE r == rs[k]
                 g == ov[r.name]
      <4>1. g \in Nat /\ r \in Rec /\ ps[k] = [r EXCEPT !.delGen = g]
        BY <2>1, <2>3, <3>1
      <4> HIDE DEF r, g
      <4>2. [r EXCEPT !.delGen = g] \in Rec /\ SizeOf(f, [r EXCEPT !.delGen = g]) = SizeOf(f, r)
        <5>1. f \in Formats
          BY <1>1
        <5>2. r \in Rec /\ g \in Nat
          BY <4>1
        <5> QED
          BY SMTT(30), <5>1, <5>2, RecordPatched
      <4> QED
        BY <4>1, <4>2 DEF r
    <3>2. CASE rs[k].name \notin marked
      BY <2>1, <2>3, <3>2
    <3> QED
      BY <3>1, <3>2
  <2>5. WordsOf(f, ps[k]) \in Seq(Int) /\ Len(WordsOf(f, ps[k])) = SizeOf(f, ps[k])
    BY <1>1, <2>4, RecordWords
  <2> QED
    BY <2>1, <2>2, <2>4, <2>5
<1>4. ps \in [1 .. n -> Rec] /\ s \in [1 .. n -> Seq(Int)]
  <2>1. ps = [k \in 1 .. n |-> ps[k]] /\ s = [k \in 1 .. n |-> s[k]]
    BY DEF Overridden, AllWords
  <2> HIDE DEF ps, s
  <2> QED
    BY <1>3, <2>1
<1>5. hit = {o \in {<<rs[k].name, off[k] + 2>> : k \in 1 .. n} : o[1] \in marked}
  BY WalkIs
<1>6. ASSUME NEW o \in hit
      PROVE  \E k \in 1 .. n : /\ rs[k].name \in marked
                               /\ o[1] = rs[k].name /\ o[2] = off[k] + 2
  BY <1>5
<1>7. ASSUME NEW k \in 1 .. n, rs[k].name \in marked
      PROVE  <<rs[k].name, off[k] + 2>> \in hit
  BY <1>5, <1>7
<1>8. \A p \in 1 .. Len(m) :
         P[p] = IF \E o \in hit : p - o[2] \in 0 .. 1
                THEN Long(ov[(CHOOSE o \in hit : p - o[2] \in 0 .. 1)[1]])
                         [p - (CHOOSE o \in hit : p - o[2] \in 0 .. 1)[2] + 1]
                ELSE m[p]
  <2>1. DOMAIN m = 1 .. Len(m) /\ DOMAIN ov = marked
    BY <1>1
  <2> QED
    BY <2>1 DEF Patched
<1>9. DOMAIN P = 1 .. Len(m)
  BY <1>1 DEF Patched
<1> HIDE DEF hit, P, ps, s
<1>10. ASSUME NEW p \in 1 .. Len(m)
       PROVE  P[p] \in Int
  <2>1. CASE \E o \in hit : p - o[2] \in 0 .. 1
    <3> DEFINE o == CHOOSE o \in hit : p - o[2] \in 0 .. 1
    <3>1. o \in hit /\ p - o[2] \in 0 .. 1
      BY <2>1
    <3>2. P[p] = Long(ov[o[1]])[p - o[2] + 1]
      BY <1>8, <2>1
    <3> HIDE DEF o
    <3>3. o[1] \in marked /\ o[2] \in Nat
      BY <1>2, <1>6, <3>1
    <3>4. ov[o[1]] \in Nat \cup {None}
      BY <3>3
    <3>5. Long(ov[o[1]])[1] \in Int /\ Long(ov[o[1]])[2] \in Int
      BY <3>4, LongOfTwo
    <3>6. p - o[2] + 1 \in {1, 2}
      BY <3>1, <3>3
    <3> QED
      BY <3>2, <3>5, <3>6
  <2>2. CASE ~ \E o \in hit : p - o[2] \in 0 .. 1
    <3>1. P[p] = m[p]
      BY <1>8, <2>2, Zenon
    <3>2. m[p] \in Int
      BY <1>1
    <3> QED
      BY <3>1, <3>2
  <2> QED
    BY <2>1, <2>2
<1>11. P \in Seq(Int) /\ Len(P) = Len(m)
  <2>1. P \in [1 .. Len(m) -> Int]
    <3>1. P = [p \in 1 .. Len(m) |-> P[p]]
      BY <1>1 DEF P, Patched
    <3> QED
      BY <1>10, <3>1
  <2> QED
    BY <1>1, <2>1
<1>12. ASSUME NEW k \in 1 .. n, NEW x \in 1 .. SizeOf(f, rs[k]),
              NEW o \in hit, (off[k] + x - 1) - o[2] \in 0 .. 1
       PROVE  /\ rs[k].name \in marked /\ x \in 3 .. 4
              /\ o[1] = rs[k].name /\ o[2] = off[k] + 2
  <2>1. PICK j \in 1 .. n : /\ rs[j].name \in marked
                            /\ o[1] = rs[j].name /\ o[2] = off[j] + 2
    BY <1>6
  <2> DEFINE a == off[j]
             c == off[k]
             y == SizeOf(f, rs[j])
             z == SizeOf(f, rs[k])
  <2>2. /\ a \in Nat /\ c \in Nat /\ y \in {7, 8, 10} /\ z \in {7, 8, 10} /\ x \in 1 .. z
        /\ (c + x - 1) - (a + 2) \in 0 .. 1
    BY <1>2, <1>12, <2>1
  <2>3. (j < k => a + y <= c) /\ (k < j => c + z <= a)
    BY RecordsApart
  <2> HIDE DEF a, c, y, z
  <2>4. ~ (j < k)
    BY <2>2, <2>3
  <2>5. ~ (k < j)
    BY <2>2, <2>3
  <2>6. j = k
    BY <1>1, <2>4, <2>5
  <2>7. a = c
    BY <2>6 DEF a, c
  <2>8. x \in 3 .. 4
    BY <2>2, <2>7
  <2> QED
    BY <2>1, <2>6, <2>8
<1>13. ASSUME NEW k \in 1 .. n, NEW x \in 1 .. SizeOf(f, rs[k])
       PROVE  P[off[k] + x - 1] = s[k][x]
  <2> DEFINE p == off[k] + x - 1
             r == rs[k]
             c == off[k]
             z == SizeOf(f, rs[k])
  <2>1. /\ c \in Nat /\ z \in {7, 8, 10} /\ c > HeaderLen /\ c + z <= Len(m) + 1 /\ x \in 1 .. z
        /\ r \in Rec /\ p = c + x - 1
    BY <1>2
  <2>2. m[p] = WordsOf(f, r)[x]
    BY <1>2
  <2>2a. p = off[k] + x - 1
    OBVIOUS
  <2> HIDE DEF c, z, r, p
  <2>3. p \in 1 .. Len(m)
    BY <1>1, <2>1 DEF HeaderLen
  <2>4. CASE r.name \in marked /\ x \in 3 .. 4
    <3> DEFINE g == ov[r.name]
               w == <<r.name, c + 2>>
    <3>1. w \in hit /\ w[2] = c + 2 /\ w[1] = r.name
      BY <1>7, <2>4 DEF r, c
    <3>2. p - w[2] \in 0 .. 1
      BY <2>1, <2>4, <3>1
    <3> DEFINE o == CHOOSE o \in hit : p - o[2] \in 0 .. 1
    <3>3. o \in hit /\ p - o[2] \in 0 .. 1
      BY <3>1, <3>2
    <3>4. P[p] = Long(ov[o[1]])[p - o[2] + 1]
      BY <1>8, <2>3, <3>1, <3>2
    <3> HIDE DEF o, w
    <3>4a. (off[k] + x - 1) - o[2] \in 0 .. 1
      BY <2>2a, <3>3, Zenon
    <3>5. o[1] = r.name /\ o[2] = c + 2
      BY <1>12, <3>3, <3>4a DEF r, c
    <3>6. P[p] = Long(g)[x - 2]
      <4>1. p - (c + 2) + 1 = x - 2
        BY <2>1
      <4> QED
        BY <3>4, <3>5, <4>1
    <3>7. g \in Nat
      BY <2>4
    <3>8. s[k] = WordsOf(f, [r EXCEPT !.delGen = g])
      BY <1>3, <2>4 DEF r
    <3> HIDE DEF g
    <3>8a. /\ WordsOf(f, [r EXCEPT !.delGen = g])[3] = Long(g)[1]
           /\ WordsOf(f, [r EXCEPT !.delGen = g])[4] = Long(g)[2]
      BY <1>1, <2>1, <3>7, RecordPatched
    <3>9. s[k][3] = Long(g)[1] /\ s[k][4] = Long(g)[2]
      BY <3>8, <3>8a
    <3>10. (x = 3 /\ x - 2 = 1) \/ (x = 4 /\ x - 2 = 2)
      BY <2>4
    <3>11. P[p] = s[k][x]
      BY <3>6, <3>9, <3>10
    <3> QED
      BY <3>11 DEF p
  <2>5. CASE ~ (r.name \in marked /\ x \in 3 .. 4)
    <3>1. ~ \E o \in hit : p - o[2] \in 0 .. 1
      <4> SUFFICES ASSUME NEW o \in hit, p - o[2] \in 0 .. 1
                   PROVE  FALSE
        OBVIOUS
      <4>1. (off[k] + x - 1) - o[2] \in 0 .. 1
        BY <2>2a, Zenon
      <4>2. rs[k].name \in marked /\ x \in 3 .. 4
        BY <1>12, <4>1
      <4> QED
        BY <2>5, <4>2 DEF r
    <3>2. P[p] = m[p]
      BY <1>8, <2>3, <3>1
    <3>3. s[k][x] = WordsOf(f, r)[x]
      <4>1. CASE r.name \notin marked
        BY <1>3, <4>1 DEF r
      <4>2. CASE r.name \in marked /\ x \notin 3 .. 4
        <5> DEFINE g == ov[r.name]
        <5>1. g \in Nat /\ s[k] = WordsOf(f, [r EXCEPT !.delGen = g])
          BY <1>3, <4>2 DEF r
        <5> HIDE DEF g
        <5>2. \A y \in 1 .. SizeOf(f, r) :
                 y \notin 3 .. 4 => WordsOf(f, [r EXCEPT !.delGen = g])[y] = WordsOf(f, r)[y]
          BY <1>1, <2>1, <5>1, RecordPatched
        <5>3. x \in 1 .. SizeOf(f, r)
          BY DEF r
        <5> QED
          BY <4>2, <5>1, <5>2, <5>3
      <4> QED
        BY <2>5, <4>1, <4>2
    <3>4. P[p] = s[k][x]
      BY <2>2, <3>2, <3>3
    <3> QED
      BY <3>4 DEF p
  <2> QED
    BY <2>4, <2>5
<1>14. ASSUME NEW k \in 1 .. n
       PROVE  /\ off[k + 1] = off[k] + Len(s[k])
              /\ off[k] >= 1 /\ off[k] - 1 + Len(s[k]) <= Len(P)
              /\ \A x \in 1 .. Len(s[k]) : P[off[k] + x - 1] = s[k][x]
  <2> DEFINE c == off[k]
             z == Len(s[k])
  <2>1. /\ c \in Nat /\ z \in {7, 8, 10} /\ c > HeaderLen /\ c + z <= Len(m) + 1
        /\ off[k + 1] = c + z /\ z = SizeOf(f, rs[k])
    <3>1. Len(s[k]) = SizeOf(f, rs[k])
      BY <1>3
    <3>2. /\ off[k] \in Nat /\ SizeOf(f, rs[k]) \in {7, 8, 10} /\ off[k] > HeaderLen
          /\ off[k + 1] = off[k] + SizeOf(f, rs[k]) /\ off[k + 1] <= Len(m) + 1
      BY <1>2
    <3> QED
      BY <3>1, <3>2
  <2>2. \A x \in 1 .. z : P[off[k] + x - 1] = s[k][x]
    BY <1>13, <2>1
  <2> HIDE DEF c, z
  <2>3. c >= 1 /\ c - 1 + z <= Len(P)
    BY <1>1, <1>11, <2>1 DEF HeaderLen
  <2> QED
    BY <2>1, <2>2, <2>3 DEF c, z
<1>15. LaidIn(P, s, n, off, HeaderLen)
  <2>1. HeaderLen \in Nat /\ Len(P) = off[n + 1] - 1
    BY <1>1, <1>11 DEF HeaderLen
  <2> QED
    BY <1>1, <1>4, <1>11, <1>14, <2>1, LaidWords
<1> QED
  BY <1>4, <1>15 DEF P, s, ps

(* Sequences of words are joined in any order.                             *)
LEMMA ConcatTwice ==
  ASSUME NEW a \in Seq(Int), NEW b \in Seq(Int), NEW c \in Seq(Int)
  PROVE  (a \o b) \o c = a \o (b \o c)
<1> QED
  BY ConcatAssociative

(* A header has five words.                                                *)
LEMMA HeaderIs ==
  \A f \in Formats : \A v, c, k \in Nat :
    /\ Header(f, v, c, k) \in Seq(Int) /\ Len(Header(f, v, c, k)) = HeaderLen
    /\ Header(f, v, c, k)[1] = f /\ Header(f, v, c, k)[3] = v
    /\ Header(f, v, c, k)[4] = c /\ Header(f, v, c, k)[5] = k
<1> TAKE f \in Formats
<1> TAKE v, c, k \in Nat
<1> DEFINE A == <<f>>
           L == Long(v)
           E == <<c, k>>
<1>1. A \in Seq(Int) /\ Len(A) = 1 /\ A[1] = f
  BY DEF Formats, Format21, Format23
<1>2. L \in Seq(Int) /\ Len(L) = 2 /\ L[2] = v
  BY DEF Long, None
<1>3. E \in Seq(Int) /\ Len(E) = 2 /\ E[1] = c /\ E[2] = k
  OBVIOUS
<1>4. Header(f, v, c, k) = A \o L \o E
  BY DEF Header
<1> HIDE DEF A, L, E
<1>5. /\ A \o L \in Seq(Int) /\ Len(A \o L) = Len(A) + Len(L)
      /\ \A i \in 1 .. Len(A) : (A \o L)[i] = A[i]
      /\ \A i \in 1 .. Len(L) : (A \o L)[Len(A) + i] = L[i]
  BY <1>1, <1>2, ConcatIs
<1> DEFINE B == A \o L
<1>6. B \in Seq(Int) /\ Len(B) = 3 /\ B[1] = f /\ B[3] = v
  <2>1. 1 \in 1 .. Len(A) /\ 2 \in 1 .. Len(L) /\ Len(A) + 2 = 3 /\ Len(A) + Len(L) = 3
    BY <1>1, <1>2
  <2> QED
    BY <1>1, <1>2, <1>5, <2>1
<1> HIDE DEF B
<1>7. /\ B \o E \in Seq(Int) /\ Len(B \o E) = Len(B) + Len(E)
      /\ \A i \in 1 .. Len(B) : (B \o E)[i] = B[i]
      /\ \A i \in 1 .. Len(E) : (B \o E)[Len(B) + i] = E[i]
  BY <1>3, <1>6, ConcatIs
<1>8. /\ 1 \in 1 .. Len(B) /\ 3 \in 1 .. Len(B) /\ 1 \in 1 .. Len(E) /\ 2 \in 1 .. Len(E)
      /\ Len(B) + 1 = 4 /\ Len(B) + 2 = 5 /\ Len(B) + Len(E) = 5
  BY <1>3, <1>6
<1>9. /\ (B \o E)[1] = f /\ (B \o E)[3] = v /\ (B \o E)[4] = c /\ (B \o E)[5] = k
  BY <1>3, <1>6, <1>7, <1>8
<1> QED
  BY <1>4, <1>7, <1>8, <1>9 DEF B, HeaderLen

(* A header and records after it are a manifest.                           *)
LEMMA ManifestOf ==
  ASSUME NEW f \in Formats, NEW v \in Nat, NEW c \in Nat, NEW n \in Nat, NEW rs \in [1 .. n -> Rec],
         NEW b \in Seq(Int), NEW off,
         LaidIn(Header(f, v, c, n) \o b, AllWords(f, rs, n), n, off, HeaderLen)
  PROVE  IsManifest(Header(f, v, c, n) \o b, f, rs, n, off)
<1> DEFINE h == Header(f, v, c, n)
<1>1. /\ h \in Seq(Int) /\ Len(h) = HeaderLen
      /\ h[1] = f /\ h[3] = v /\ h[4] = c /\ h[5] = n
  BY HeaderIs
<1>2. LaidIn(h \o b, AllWords(f, rs, n), n, off, HeaderLen)
  OBVIOUS
<1> HIDE DEF h
<1>3. \A i \in 1 .. Len(h) : (h \o b)[i] = h[i]
  BY <1>1, ConcatIs
<1>4. 1 \in 1 .. Len(h) /\ 3 \in 1 .. Len(h) /\ 4 \in 1 .. Len(h) /\ 5 \in 1 .. Len(h)
  BY <1>1 DEF HeaderLen
<1>5. /\ Format(h \o b) = f /\ Version(h \o b) = v
      /\ NameCounter(h \o b) = c /\ SegCount(h \o b) = n
  BY <1>1, <1>3, <1>4 DEF Format, Version, NameCounter, SegCount
<1>6. IsManifest(h \o b, f, rs, n, off)
  BY <1>2, <1>5 DEF IsManifest
<1> QED
  BY <1>6 DEF h

(* The words of the records are words.                                     *)
LEMMA AllWordsAre ==
  ASSUME NEW f \in Formats, NEW n \in Nat, NEW rs \in [1 .. n -> Rec]
  PROVE  AllWords(f, rs, n) \in [1 .. n -> Seq(Int)]
<1>1. ASSUME NEW k \in 1 .. n
      PROVE  WordsOf(f, rs[k]) \in Seq(Int)
  <2>1. rs[k] \in Rec
    OBVIOUS
  <2> QED
    BY <2>1, RecordWords
<1> QED
  BY <1>1 DEF AllWords

(* The manifest lists the records of the segments it is meant to.          *)
ManifestInv ==
  \E f, rs, n, off : /\ IsManifest(manifest, f, rs, n, off)
                     /\ segs = [k \in 1 .. n |-> SegOf(rs[k])]

(* It does as another program left it.                                     *)
LEMMA InitManifest == ManifestInit => ManifestInv
<1> SUFFICES ASSUME ManifestInit
             PROVE  ManifestInv
  OBVIOUS
<1>1. PICK f \in {Format21, Format23}, recs \in Foreign :
        /\ manifest = Header(f, 7, Len(recs), Len(recs))
                        \o FlattenSeq([i \in DOMAIN recs |->
                             Record(f, i - 1, recs[i].docs, recs[i].delGen, recs[i].store,
                                    recs[i].numField)])
        /\ segs = [i \in DOMAIN recs |->
                     [name |-> i - 1, docs |-> recs[i].docs, delGen |-> recs[i].delGen]]
  BY DEF ManifestInit
<1> DEFINE n == Len(recs)
           rs == [i \in 1 .. n |-> [name |-> i - 1, docs |-> recs[i].docs, delGen |-> recs[i].delGen,
                                    store |-> recs[i].store, numField |-> recs[i].numField]]
           h == Header(f, 7, n, n)
           s == AllWords(f, rs, n)
<1>2. /\ recs \in Seq([docs : Nat, delGen : Nat \cup {None}, store : Stores, numField : Int])
      /\ f \in Formats
  BY ForeignAssumption DEF Formats
<1>3. n \in Nat /\ DOMAIN recs = 1 .. n
  BY <1>2
<1>4. rs \in [1 .. n -> Rec]
  <2>1. ASSUME NEW i \in 1 .. n
        PROVE  [name |-> i - 1, docs |-> recs[i].docs, delGen |-> recs[i].delGen,
                store |-> recs[i].store, numField |-> recs[i].numField] \in Rec
    <3> DEFINE R == [docs : Nat, delGen : Nat \cup {None}, store : Stores, numField : Int]
    <3>1. recs[i] \in R
      <4>1. recs \in Seq(R) /\ i \in 1 .. Len(recs)
        BY <1>2
      <4> HIDE DEF R
      <4> QED
        BY <4>1
    <3>2. i - 1 \in Nat
      BY <1>3
    <3> QED
      BY <3>1, <3>2 DEF Rec
  <2> QED
    BY <2>1
<1>5. s = [i \in DOMAIN recs |->
             Record(f, i - 1, recs[i].docs, recs[i].delGen, recs[i].store, recs[i].numField)]
  <2>1. ASSUME NEW i \in 1 .. n
        PROVE  WordsOf(f, rs[i]) = Record(f, i - 1, recs[i].docs, recs[i].delGen, recs[i].store,
                                          recs[i].numField)
    BY DEF WordsOf
  <2> QED
    BY <1>3, <2>1 DEF AllWords
<1>6. segs = [k \in 1 .. n |-> SegOf(rs[k])]
  BY <1>1, <1>3 DEF SegOf
<1>7. manifest = h \o FlattenSeq(s)
  BY <1>1, <1>5
<1> HIDE DEF n, rs
<1>8. s \in [1 .. n -> Seq(Int)]
  BY <1>2, <1>3, <1>4, AllWordsAre
<1> HIDE DEF s
<1>9. PICK off : LaidIn(FlattenSeq(s), s, n, off, 0)
  BY <1>3, <1>8, LaidFlat
<1>10. h \in Seq(Int) /\ Len(h) = HeaderLen
  <2>1. ASSUME NEW x \in Nat, NEW y \in Nat, NEW z \in Nat
        PROVE  Header(f, x, y, z) \in Seq(Int) /\ Len(Header(f, x, y, z)) = HeaderLen
    <3>1. f \in Formats
      BY <1>2
    <3>2. \A g \in Formats :
            /\ Header(g, x, y, z) \in Seq(Int) /\ Len(Header(g, x, y, z)) = HeaderLen
            /\ Header(g, x, y, z)[1] = g /\ Header(g, x, y, z)[3] = x
            /\ Header(g, x, y, z)[4] = y /\ Header(g, x, y, z)[5] = z
      BY HeaderIs
    <3> QED
      BY <3>1, <3>2
  <2>2. 7 \in Nat
    OBVIOUS
  <2> QED
    BY <1>3, <2>1, <2>2
<1> HIDE DEF h
<1> DEFINE o == [k \in 1 .. (n + 1) |-> off[k] + Len(h)]
<1>11. LaidIn(h \o FlattenSeq(s), s, n, o, HeaderLen)
  <2>1. LaidIn(h \o FlattenSeq(s), s, n, o, Len(h))
    BY <1>9, <1>10, LaidAfter
  <2> QED
    BY <1>10, <2>1
<1>12. FlattenSeq(s) \in Seq(Int)
  BY <1>9 DEF LaidIn
<1> HIDE DEF o
<1>13. IsManifest(h \o FlattenSeq(s), f, rs, n, o)
  <2>1. 7 \in Nat
    OBVIOUS
  <2> QED
    BY <1>2, <1>3, <1>4, <1>11, <1>12, <2>1, ManifestOf DEF h, s
<1> QED
  BY <1>6, <1>7, <1>13 DEF ManifestInv

(* A merge leaves one record.                                              *)
LEMMA OptimizeManifest == ManifestInv /\ Optimize => ManifestInv'
<1> SUFFICES ASSUME ManifestInv, Optimize
             PROVE  ManifestInv'
  OBVIOUS
<1>1. PICK f, rs, n, off : IsManifest(manifest, f, rs, n, off)
  BY DEF ManifestInv
<1>2. PICK docs \in MergedDocs :
        /\ manifest' = Optimized(manifest, NameCounter(manifest), docs)
        /\ segs' = <<[name |-> NameCounter(manifest), docs |-> docs, delGen |-> None]>>
  BY DEF Optimize
<1> DEFINE c == NameCounter(manifest)
           v == Version(manifest)
           r == [name |-> c, docs |-> docs, delGen |-> None, store |-> <<>>, numField |-> None]
           w == WordsOf(f, r)
           qs == [k \in 1 .. 1 |-> r]
           h == Header(f, v + 1, c + 1, 1)
           o == [k \in 1 .. 2 |-> IF k = 1 THEN 1 ELSE Len(w) + 1]
<1>3. f \in Formats /\ c \in Nat /\ v \in Nat /\ Format(manifest) = f
  BY <1>1 DEF IsManifest
<1>4. r \in Rec
  <2>1. docs \in Nat
    BY ForeignAssumption
  <2> QED
    BY <1>3, <2>1 DEF Rec, Stores, None
<1>5. manifest' = h \o w
  BY <1>2, <1>3 DEF Optimized, WordsOf
<1>6. segs' = [k \in 1 .. 1 |-> SegOf(qs[k])]
  <2>1. SegOf(r) = [name |-> c, docs |-> docs, delGen |-> None]
    BY DEF SegOf
  <2> DEFINE g == SegOf(r)
  <2>2. segs' = <<g>>
    BY <1>2, <2>1
  <2>3. \A k \in 1 .. 1 : SegOf(qs[k]) = g
    OBVIOUS
  <2> HIDE DEF g, qs
  <2>4. <<g>> = [k \in 1 .. 1 |-> SegOf(qs[k])]
    BY <2>3
  <2> QED
    BY <2>2, <2>4
<1>7. qs \in [1 .. 1 -> Rec]
  BY <1>4
<1>8. AllWords(f, qs, 1) = [k \in 1 .. 1 |-> w]
  BY DEF AllWords
<1>9. w \in Seq(Int)
  <2> HIDE DEF r
  <2> QED
    BY <1>3, <1>4, RecordWords
<1>10. h \in Seq(Int) /\ Len(h) = HeaderLen /\ v + 1 \in Nat /\ c + 1 \in Nat /\ 1 \in Nat
  <2>1. v + 1 \in Nat /\ c + 1 \in Nat /\ 1 \in Nat
    BY <1>3
  <2> QED
    BY <1>3, <2>1, HeaderIs
<1> HIDE DEF w, h, c, v, qs
<1>11. LaidIn(w, [k \in 1 .. 1 |-> w], 1, o, 0)
  BY <1>9, LaidOne
<1> HIDE DEF o
<1> DEFINE a == [k \in 1 .. (1 + 1) |-> o[k] + Len(h)]
<1>12. LaidIn(h \o w, AllWords(f, qs, 1), 1, a, HeaderLen)
  <2>1. LaidIn(w, AllWords(f, qs, 1), 1, o, 0)
    BY <1>8, <1>11
  <2>2. LaidIn(h \o w, AllWords(f, qs, 1), 1, a, Len(h))
    BY <1>10, <2>1, LaidAfter
  <2> QED
    BY <1>10, <2>2
<1> HIDE DEF a
<1>13. IsManifest(h \o w, f, qs, 1, a)
  BY <1>3, <1>7, <1>9, <1>10, <1>12, ManifestOf DEF h
<1>14. IsManifest(manifest', f, qs, 1, a)
  BY <1>5, <1>13
<1> QED
  BY <1>6, <1>14 DEF ManifestInv

(* A commit copies the records it found, patched, and adds its own.        *)
LEMMA CommitManifest == ManifestInv /\ Commit => ManifestInv'
<1> SUFFICES ASSUME ManifestInv, Commit
             PROVE  ManifestInv'
  OBVIOUS
<1>1. PICK f, rs, n, off : /\ IsManifest(manifest, f, rs, n, off)
                           /\ segs = [k \in 1 .. n |-> SegOf(rs[k])]
  BY DEF ManifestInv
<1>2. PICK marked \in SUBSET {s.name : s \in Range(segs)}, docs \in AddedDocs :
        LET next == [x \in marked |-> 1 + Max({0, (CHOOSE s \in Range(segs) : s.name = x).delGen})]
            new  == [i \in DOMAIN docs |->
                       [name |-> NameCounter(manifest) + i - 1, docs |-> docs[i], delGen |-> None]]
        IN  /\ manifest' = WithDelGens(manifest, next, new, NameCounter(manifest) + Len(docs))
            /\ segs' = [i \in DOMAIN segs |->
                          [segs[i] EXCEPT !.delGen = IF segs[i].name \in marked
                                                     THEN next[segs[i].name] ELSE @]] \o new
  BY DEF Commit
<1> DEFINE c == NameCounter(manifest)
           v == Version(manifest)
           p == Len(docs)
           next == [x \in marked |-> 1 + Max({0, (CHOOSE s \in Range(segs) : s.name = x).delGen})]
           new == [i \in DOMAIN docs |-> [name |-> c + i - 1, docs |-> docs[i], delGen |-> None]]
           ps == Overridden(rs, n, next)
           ns == [i \in 1 .. p |-> [name |-> c + i - 1, docs |-> docs[i], delGen |-> None,
                                    store |-> <<>>, numField |-> None]]
           qs == [k \in 1 .. (n + p) |-> IF k <= n THEN ps[k] ELSE ns[k - n]]
           P == Patched(manifest, next)
           h == Header(f, v + 1, c + p, n + p)
           s1 == AllWords(f, ps, n)
           s2 == AllWords(f, ns, p)
<1>3. /\ f \in Formats /\ c \in Nat /\ v \in Nat /\ Format(manifest) = f /\ SegCount(manifest) = n
      /\ n \in Nat /\ rs \in [1 .. n -> Rec]
  BY <1>1 DEF IsManifest
<1>4. docs \in Seq(Nat) /\ p \in Nat /\ DOMAIN docs = 1 .. p
  <2>1. docs \in Seq(Nat)
    BY ForeignAssumption
  <2> QED
    BY <2>1
<1>5. next \in [marked -> Nat]
  <2>1. ASSUME NEW x \in marked
        PROVE  1 + Max({0, (CHOOSE s \in Range(segs) : s.name = x).delGen}) \in Nat
    <3> DEFINE s == CHOOSE s \in Range(segs) : s.name = x
    <3>1. s \in Range(segs)
      <4>1. \E t \in Range(segs) : t.name = x
        OBVIOUS
      <4> QED
        BY <4>1
    <3>2. \E k \in 1 .. n : s = SegOf(rs[k])
      <4>1. DOMAIN segs = 1 .. n /\ \A k \in 1 .. n : segs[k] = SegOf(rs[k])
        BY <1>1
      <4> HIDE DEF s
      <4>2. PICK k \in DOMAIN segs : s = segs[k]
        BY <3>1 DEF Range
      <4> QED
        BY <4>1, <4>2
    <3> HIDE DEF s
    <3>3. s.delGen \in Int
      <4>1. PICK k \in 1 .. n : s = SegOf(rs[k])
        BY <3>2
      <4>2. rs[k].delGen \in Nat \cup {None}
        BY <1>3 DEF Rec
      <4> QED
        BY <4>1, <4>2 DEF SegOf, None
    <3> DEFINE d == s.delGen
    <3>4. Max({0, d}) \in Nat
      <4> HIDE DEF d
      <4>1. d \in Int
        BY <3>3 DEF d
      <4>2. \E y \in {0, d} : \A z \in {0, d} : y >= z
        <5>1. CASE d >= 0
          BY <4>1, <5>1
        <5>2. CASE ~ d >= 0
          BY <4>1, <5>2
        <5> QED
          BY <5>1, <5>2
      <4>3. Max({0, d}) \in {0, d} /\ \A z \in {0, d} : Max({0, d}) >= z
        BY <4>2 DEF Max
      <4> QED
        BY <4>1, <4>3
    <3> HIDE DEF d
    <3> QED
      BY <3>4 DEF d, s
  <2> QED
    BY <2>1
<1>6. /\ manifest' = WithDelGens(manifest, next, new, c + p)
      /\ segs' = [i \in DOMAIN segs |->
                    [segs[i] EXCEPT !.delGen = IF segs[i].name \in marked
                                               THEN next[segs[i].name] ELSE @]] \o new
  BY <1>2
<1>7. /\ DOMAIN new = 1 .. p /\ Len(new) = p
      /\ \A i \in 1 .. p : new[i] = [name |-> c + i - 1, docs |-> docs[i], delGen |-> None]
  BY <1>4
<1>8. ns \in [1 .. p -> Rec]
  <2>1. ASSUME NEW i \in 1 .. p
        PROVE  [name |-> c + i - 1, docs |-> docs[i], delGen |-> None, store |-> <<>>,
                numField |-> None] \in Rec
    <3>1. c + i - 1 \in Nat /\ docs[i] \in Nat
      BY <1>3, <1>4
    <3> QED
      BY <3>1 DEF Rec, Stores, None
  <2> QED
    BY <2>1
<1>9. s2 = [i \in DOMAIN new |-> Record(f, new[i].name, new[i].docs, None, <<>>, None)]
  <2>1. ASSUME NEW i \in 1 .. p
        PROVE  WordsOf(f, ns[i]) = Record(f, new[i].name, new[i].docs, None, <<>>, None)
    BY <1>7 DEF WordsOf
  <2> QED
    BY <1>7, <2>1 DEF AllWords
<1>10. WalkRecords(manifest).pos = off[n + 1]
  BY <1>1, WalkIs
<1>11. manifest' = h \o SubSeq(P, HeaderLen + 1, off[n + 1] - 1) \o FlattenSeq(s2)
  BY <1>3, <1>6, <1>7, <1>9, <1>10 DEF WithDelGens
<1>12. \A k \in 1 .. n :
          ps[k] = IF rs[k].name \in marked THEN [rs[k] EXCEPT !.delGen = next[rs[k].name]]
                  ELSE rs[k]
  BY DEF Overridden
<1>13. \A i \in 1 .. p : SegOf(ns[i]) = new[i]
  BY <1>7 DEF SegOf
<1> HIDE DEF next, new, ns
<1>14. ps \in [1 .. n -> Rec] /\ LaidIn(P, s1, n, off, HeaderLen)
  BY <1>1, <1>5, PatchedIs
<1> HIDE DEF ps, P
<1>15. s1 \in [1 .. n -> Seq(Int)] /\ s2 \in [1 .. p -> Seq(Int)]
  BY <1>3, <1>4, <1>8, <1>14, AllWordsAre
<1>16. h \in Seq(Int) /\ Len(h) = HeaderLen /\ v + 1 \in Nat /\ c + p \in Nat /\ n + p \in Nat
  <2>1. v + 1 \in Nat /\ c + p \in Nat /\ n + p \in Nat
    BY <1>3, <1>4
  <2>2. ASSUME NEW x \in Nat, NEW y \in Nat, NEW z \in Nat
        PROVE  Header(f, x, y, z) \in Seq(Int) /\ Len(Header(f, x, y, z)) = HeaderLen
    <3>1. f \in Formats
      BY <1>3
    <3>2. \A g \in Formats :
            /\ Header(g, x, y, z) \in Seq(Int) /\ Len(Header(g, x, y, z)) = HeaderLen
            /\ Header(g, x, y, z)[1] = g /\ Header(g, x, y, z)[3] = x
            /\ Header(g, x, y, z)[4] = y /\ Header(g, x, y, z)[5] = z
      BY HeaderIs
    <3> QED
      BY <3>1, <3>2
  <2> QED
    BY <2>1, <2>2
<1> HIDE DEF h, p
<1> DEFINE t == SubSeq(P, HeaderLen + 1, off[n + 1] - 1)
           b == h \o t
<1>17. LaidIn(b, s1, n, off, HeaderLen)
  <2>1. LaidIn(P, s1, n, off, Len(h))
    BY <1>14, <1>16
  <2>2. LaidIn(h \o SubSeq(P, Len(h) + 1, off[n + 1] - 1), s1, n, off, Len(h))
    BY <1>16, <2>1, LaidHeader
  <2> QED
    BY <1>16, <2>2
<1>18. PICK o : LaidIn(FlattenSeq(s2), s2, p, o, 0)
  <2> HIDE DEF s2
  <2> QED
    BY <1>4, <1>15, LaidFlat
<1> DEFINE a == [k \in 1 .. (n + p + 1) |-> IF k <= n THEN off[k] ELSE o[k - n] + Len(b)]
           s3 == [k \in 1 .. (n + p) |-> IF k <= n THEN s1[k] ELSE s2[k - n]]
<1>19. LaidIn(b \o FlattenSeq(s2), s3, n + p, a, HeaderLen)
  <2> HIDE DEF b, s1, s2
  <2> QED
    BY <1>17, <1>18, LaidOn
<1>20. ASSUME NEW k \in 1 .. (n + p)
       PROVE  /\ (k <= n => k \in 1 .. n) /\ (~ k <= n => k - n \in 1 .. p)
              /\ qs[k] = IF k <= n THEN ps[k] ELSE ns[k - n]
              /\ qs[k] \in Rec
  <2>1. (k <= n => k \in 1 .. n) /\ (~ k <= n => k - n \in 1 .. p)
    BY <1>3, <1>4
  <2>2. qs[k] = IF k <= n THEN ps[k] ELSE ns[k - n]
    OBVIOUS
  <2> HIDE DEF qs
  <2> QED
    BY <1>8, <1>14, <2>1, <2>2
<1>21. qs \in [1 .. (n + p) -> Rec]
  BY <1>20
<1>22. s3 = AllWords(f, qs, n + p)
  <2>1. ASSUME NEW k \in 1 .. (n + p)
        PROVE  (IF k <= n THEN s1[k] ELSE s2[k - n]) = WordsOf(f, qs[k])
    <3>1. CASE k <= n
      <4>1. s1[k] = WordsOf(f, ps[k])
        BY <1>20, <3>1 DEF AllWords
      <4> QED
        BY <1>20, <3>1, <4>1
    <3>2. CASE ~ k <= n
      <4>1. s2[k - n] = WordsOf(f, ns[k - n])
        BY <1>20, <3>2 DEF AllWords
      <4> QED
        BY <1>20, <3>2, <4>1
    <3> QED
      BY <3>1, <3>2
  <2> HIDE DEF s1, s2, qs
  <2> QED
    BY <2>1 DEF AllWords
<1>23. t \in Seq(Int) /\ FlattenSeq(s2) \in Seq(Int) /\ b \in Seq(Int)
  <2>1. b \in Seq(Int)
    <3> HIDE DEF b
    <3> QED
      BY <1>17 DEF LaidIn
  <2>2. FlattenSeq(s2) \in Seq(Int)
    <3> HIDE DEF s2
    <3> QED
      BY <1>18 DEF LaidIn
  <2>3. t \in Seq(Int)
    <3>1. /\ P \in Seq(Int) /\ n \in Nat /\ off \in [1 .. (n + 1) -> Nat] /\ Len(P) = off[n + 1] - 1
          /\ off[1] = HeaderLen + 1
      BY <1>14 DEF LaidIn
    <3>2. off[n + 1] \in Nat
      BY <3>1
    <3>3. \A i \in (HeaderLen + 1) .. (off[n + 1] - 1) : P[i] \in Int
      BY <3>1, <3>2 DEF HeaderLen
    <3> QED
      BY <3>1, <3>2, <3>3, SubSeqProperties DEF HeaderLen
  <2> QED
    BY <2>1, <2>2, <2>3
<1>24. manifest' = h \o (t \o FlattenSeq(s2)) /\ t \o FlattenSeq(s2) \in Seq(Int)
  <2> DEFINE u == FlattenSeq(s2)
  <2>0. h \in Seq(Int) /\ t \in Seq(Int) /\ u \in Seq(Int)
    BY <1>16, <1>23
  <2>1. (h \o t) \o FlattenSeq(s2) = h \o (t \o FlattenSeq(s2))
    <3> HIDE DEF t, u
    <3>1. (h \o t) \o u = h \o (t \o u)
      BY <2>0, ConcatTwice
    <3> QED
      BY <3>1 DEF u
  <2> HIDE DEF t, s2
  <2>2. t \o FlattenSeq(s2) \in Seq(Int)
    BY <1>23, ConcatIs
  <2> QED
    BY <1>11, <2>1, <2>2 DEF t
<1>25. IsManifest(manifest', f, qs, n + p, a)
  <2> DEFINE u == t \o FlattenSeq(s2)
  <2>1. LaidIn(manifest', AllWords(f, qs, n + p), n + p, a, HeaderLen)
    BY <1>11, <1>19, <1>22
  <2>2. manifest' = h \o u /\ u \in Seq(Int)
    BY <1>24
  <2> HIDE DEF u, a, qs
  <2>3. IsManifest(h \o u, f, qs, n + p, a)
    BY <1>3, <1>16, <1>21, <2>1, <2>2, ManifestOf DEF h
  <2> QED
    BY <2>2, <2>3
<1>26. segs' = [k \in 1 .. (n + p) |-> SegOf(qs[k])]
  <2> DEFINE ss == [i \in DOMAIN segs |->
                      [segs[i] EXCEPT !.delGen = IF segs[i].name \in marked
                                                 THEN next[segs[i].name] ELSE @]]
  <2>1. /\ DOMAIN segs = 1 .. n /\ \A k \in 1 .. n : segs[k] = SegOf(rs[k])
        /\ segs' = ss \o new
    BY <1>1, <1>6
  <2>2. ASSUME NEW k \in 1 .. n
        PROVE  ss[k] = SegOf(ps[k])
    <3>1. ss[k] = [SegOf(rs[k]) EXCEPT !.delGen = IF SegOf(rs[k]).name \in marked
                                                  THEN next[SegOf(rs[k]).name] ELSE @]
      BY <2>1
    <3>2. SegOf(rs[k]).name = rs[k].name
      BY DEF SegOf
    <3>3. rs[k] \in Rec
      BY <1>3
    <3>4. CASE rs[k].name \in marked
      <4> DEFINE g == next[rs[k].name]
                 r == rs[k]
      <4>1. ss[k] = [SegOf(r) EXCEPT !.delGen = g] /\ ps[k] = [r EXCEPT !.delGen = g] /\ r \in Rec
        BY <1>12, <3>1, <3>2, <3>3, <3>4
      <4> HIDE DEF g, r, ss
      <4>2. [SegOf(r) EXCEPT !.delGen = g] = SegOf([r EXCEPT !.delGen = g])
        BY <4>1 DEF SegOf, Rec
      <4> QED
        BY <4>1, <4>2
    <3>5. CASE rs[k].name \notin marked
      <4>1. ss[k] = [SegOf(rs[k]) EXCEPT !.delGen = @] /\ ps[k] = rs[k]
        BY <1>12, <3>1, <3>2, <3>5
      <4> HIDE DEF ss
      <4> QED
        BY <4>1 DEF SegOf
    <3> QED
      BY <3>4, <3>5
  <2>3. DOMAIN ss = 1 .. n
    BY <2>1
  <2> HIDE DEF ss
  <2>4. ASSUME NEW k \in 1 .. (n + p)
        PROVE  SegOf(qs[k]) \in Seg
    <3>1. qs[k] \in Rec
      BY <1>20
    <3> HIDE DEF qs
    <3> QED
      BY <3>1 DEF SegOf, Rec, Seg, None
  <2>5. ss \in Seq(Seg) /\ Len(ss) = n
    <3>1. ASSUME NEW k \in 1 .. n
          PROVE  ss[k] \in Seg
      <4>1. k \in 1 .. (n + p) /\ k <= n
        BY <1>3, <1>4
      <4> QED
        BY <1>20, <2>2, <2>4, <4>1
    <3>2. ss = [k \in 1 .. n |-> ss[k]]
      BY <2>1, <2>3 DEF ss
    <3> QED
      BY <1>3, <3>1, <3>2
  <2>6. new \in Seq(Seg) /\ Len(new) = p
    <3>1. ASSUME NEW i \in 1 .. p
          PROVE  new[i] \in Seg
      <4>1. /\ i + n \in 1 .. (n + p) /\ ~ i + n <= n /\ (i + n) - n = i
        BY <1>3, <1>4
      <4>2. qs[i + n] = ns[i]
        BY <1>20, <4>1
      <4> QED
        BY <1>13, <2>4, <4>1, <4>2
    <3>2. new = [i \in 1 .. p |-> new[i]]
      BY <1>7 DEF new
    <3>3. new \in [1 .. p -> Seg]
      BY <3>1, <3>2
    <3> QED
      BY <1>4, <1>7, <3>3
  <2> DEFINE y == [k \in 1 .. (n + p) |-> SegOf(qs[k])]
  <2>7. y \in Seq(Seg) /\ Len(y) = n + p /\ \A k \in 1 .. (n + p) : y[k] = SegOf(qs[k])
    <3> HIDE DEF qs
    <3> QED
      BY <1>16, <2>4
  <2>8. ASSUME NEW k \in 1 .. (n + p)
        PROVE  (ss \o new)[k] = y[k]
    <3>1. (ss \o new)[k] = IF k <= n THEN ss[k] ELSE new[k - n]
      <4>1. k \in 1 .. (Len(ss) + Len(new))
        BY <2>5, <2>6
      <4>2. (ss \o new)[k] = IF k <= Len(ss) THEN ss[k] ELSE new[k - Len(ss)]
        BY <2>5, <2>6, <4>1, ConcatProperties
      <4> QED
        BY <2>5, <4>2
    <3>2. y[k] = SegOf(qs[k])
      BY <2>7
    <3> HIDE DEF y, qs
    <3>3. CASE k <= n
      BY <1>20, <2>2, <3>1, <3>2, <3>3
    <3>4. CASE ~ k <= n
      BY <1>13, <1>20, <3>1, <3>2, <3>4
    <3> QED
      BY <3>3, <3>4
  <2>9. ss \o new \in Seq(Seg) /\ Len(ss \o new) = n + p
    BY <2>5, <2>6, ConcatProperties
  <2> HIDE DEF y
  <2>10. ss \o new = y
    BY <2>7, <2>8, <2>9, SeqEqual
  <2> QED
    BY <2>1, <2>10 DEF y
<1> HIDE DEF qs, a
<1> QED
  BY <1>25, <1>26 DEF ManifestInv

(* Such a manifest is read as meant or refused, and refused when torn.     *)
LEMMA ManifestGivesBack == ManifestInv => ManifestIsWhole
<1> SUFFICES ASSUME ManifestInv
             PROVE  ManifestIsWhole
  OBVIOUS
<1>1. PICK f, rs, n, off : /\ IsManifest(manifest, f, rs, n, off)
                           /\ segs = [k \in 1 .. n |-> SegOf(rs[k])]
  BY DEF ManifestInv
<1>2. manifest \in Seq(Int) /\ Len(manifest) \in Nat /\ Len(manifest) >= HeaderLen
  BY <1>1, Places
<1>3. WriterOpens <=> \A k \in 1 .. n : rs[k].numField = None
  BY <1>1, WalkIs DEF WriterOpens
<1>4. ManifestReadsBack
  <2>1. FrontOf(manifest, manifest)
    BY <1>2 DEF FrontOf
  <2>2. ReadSegmentInfos(manifest) =
          IF Len(manifest) = Len(manifest) /\ \A k \in 1 .. n : rs[k].numField = None
          THEN {[k \in 1 .. n |-> SegOf(rs[k])]} ELSE {}
    BY <1>1, <2>1, ReadIs
  <2> QED
    BY <1>1, <1>3, <2>2 DEF ManifestReadsBack
<1>5. TornIsRefused
  <2> SUFFICES ASSUME NEW q \in HeaderLen .. (Len(manifest) - 1)
               PROVE  ReadSegmentInfos(SubSeq(manifest, 1, q)) = {}
    BY DEF TornIsRefused
  <2> DEFINE t == SubSeq(manifest, 1, q)
  <2>1. q \in Nat /\ q < Len(manifest) /\ HeaderLen <= q /\ 1 <= q
    BY <1>2 DEF HeaderLen
  <2>2. t \in Seq(Int) /\ Len(t) = q /\ \A i \in 1 .. q : t[i] = manifest[i]
    <3>1. \A i \in 1 .. q : manifest[i] \in Int
      BY <1>2, <2>1
    <3>2. t \in Seq(Int) /\ Len(t) = q - 1 + 1
      BY <2>1, <3>1, SubSeqProperties
    <3>3. ASSUME NEW i \in 1 .. q
          PROVE  t[i] = manifest[i]
      <4>1. t[i] = manifest[1 + i - 1]
        BY <2>1, <3>1, SubSeqProperties
      <4>2. 1 + i - 1 = i
        BY <2>1
      <4> QED
        BY <4>1, <4>2
    <3> HIDE DEF t
    <3> QED
      BY <2>1, <3>2, <3>3
  <2> HIDE DEF t
  <2>3. FrontOf(t, manifest)
    BY <1>2, <2>1, <2>2 DEF FrontOf
  <2>4. Len(t) # Len(manifest)
    BY <1>2, <2>1, <2>2
  <2>5. ReadSegmentInfos(t) = {}
    BY <1>1, <2>3, <2>4, ReadIs
  <2> QED
    BY <2>5 DEF t
<1> QED
  BY <1>4, <1>5 DEF ManifestIsWhole

(* Whatever records it was left by another program, after any commits and  *)
(* merges a manifest is read as it was meant or refused, and a torn one is *)
(* refused.                                                                *)
THEOREM ManifestIsWholeHolds == ManifestSpec => []ManifestIsWhole
<1>1. ManifestInv /\ [ManifestNext]_manifestVars => ManifestInv'
  <2>1. ManifestInv /\ UNCHANGED manifestVars => ManifestInv'
    BY DEF ManifestInv, manifestVars
  <2> QED
    BY <2>1, CommitManifest, OptimizeManifest DEF ManifestNext
<1>2. ManifestSpec => []ManifestInv
  BY <1>1, InitManifest, PTL DEF ManifestSpec
<1> QED
  BY <1>2, ManifestGivesBack, PTL

-----------------------------------------------------------------------------
USE SizeAssumption

(* The offsets the directory is given are the starts of the sources.       *)
LEMMA OffsetsStart ==
  ASSUME measured \in Seq(Nat), Len(measured) = Len(Sources)
  PROVE  StartsOf(Offsets, measured, Len(Sources), DirLength)
<1> DEFINE n == Len(Sources)
           G == [k \in 1 .. n |-> [v \in Nat |-> IF k = 1 THEN v ELSE v + measured[k - 1]]]
           Is(f) == f = [i \in DOMAIN Sources |->
                           IF i = 1 THEN DirLength ELSE f[i - 1] + measured[i - 1]]
<1>1. n \in Nat /\ DOMAIN Sources = 1 .. n
  OBVIOUS
<1>2. \A k \in 1 .. n : measured[k] \in Nat
  OBVIOUS
<1>3. G \in [1 .. n -> [Nat -> Nat]]
  BY <1>1, <1>2
<1>4. PICK f : GrowsBy(f, n, Nat, DirLength, G)
  <2> HIDE DEF G, n
  <2> QED
    BY <1>1, <1>3, Recursion
<1>4a. f \in [1 .. n -> Nat] /\ \A k \in 1 .. n : f[k] = IF k = 1 THEN DirLength ELSE G[k][f[k - 1]]
  BY <1>4 DEF GrowsBy
<1>5. ASSUME NEW k \in 1 .. n
      PROVE  f[k] = IF k = 1 THEN DirLength ELSE f[k - 1] + measured[k - 1]
  <2>1. CASE k = 1
    BY <2>1, <1>4a
  <2>2. CASE k # 1
    <3>1. k - 1 \in 1 .. n
      BY <2>2, <1>1
    <3>2. f[k - 1] \in Nat
      BY <3>1, <1>4a
    <3>3. G[k][f[k - 1]] = f[k - 1] + measured[k - 1]
      BY <2>2, <3>2
    <3> QED
      BY <2>2, <3>3, <1>4a
  <2> QED
    BY <2>1, <2>2
<1>6. Is(f)
  BY SMTT(30), <1>1, <1>5, <1>4a
<1>7. Offsets = CHOOSE g : Is(g)
  BY DEF Offsets
<1>8. Is(Offsets)
  <2> HIDE DEF Is
  <2> QED
    BY <1>6, <1>7
<1> DEFINE T == {k \in 0 .. n : k # 0 => Offsets[k] \in Nat}
<1>9. 0 \in T
  BY <1>1
<1>10. ASSUME NEW m \in 0 .. (n - 1), m \in T
       PROVE  m + 1 \in T
  <2>1. m + 1 \in 1 .. n
    BY <1>1
  <2>1a. m \in Nat /\ (m + 1) - 1 = m /\ (m + 1 = 1 <=> m = 0)
    BY <1>1
  <2>2. Offsets[m + 1] = IF m = 0 THEN DirLength ELSE Offsets[m] + measured[m]
    BY <1>1, <1>8, <2>1, <2>1a
  <2>3. m # 0 => Offsets[m] \in Nat /\ measured[m] \in Nat
    BY <1>1, <1>2, <1>10
  <2> QED
    BY <2>1, <2>2, <2>3
<1>11. 0 .. n \subseteq T
  <2> HIDE DEF T, n
  <2> QED
    BY <1>1, <1>9, <1>10, InductionUpTo
<1>12. ASSUME NEW k \in 1 .. n
       PROVE  Offsets[k] \in Nat
  BY <1>1, <1>11
<1> QED
  BY <1>1, <1>8, <1>12 DEF StartsOf

-----------------------------------------------------------------------------
(* While no error was met, each item of the data is a whole source as it   *)
(* was measured; a directory is that of these lengths.                     *)
CompoundInv ==
  /\ size \in [DOMAIN Sources -> Nat]
  /\ measured \in Seq(Nat) /\ Len(measured) <= Len(Sources)
  /\ dir # <<>> => /\ Len(measured) = Len(Sources)
                   /\ Len(Sources) # 0
                   /\ dir = Offsets
  /\ out \in Seq(Seq(Range(Sources))) /\ Len(out) <= Len(Sources)
  /\ Len(out) # 0 => dir # <<>>
  /\ ~error => \A i \in 1 .. Len(out) : out[i] = [x \in 1 .. measured[i] |-> Sources[i]]
  /\ Running /\ dir # <<>> => Len(out) < Len(Sources)
  /\ done => ~error /\ dir # <<>> /\ Len(out) = Len(Sources)

(* It holds of files not yet measured.                                     *)
LEMMA InitCompound == Init => CompoundInv
<1> SUFFICES ASSUME Init
             PROVE  CompoundInv
  OBVIOUS
<1>1. size \in [DOMAIN Sources -> Nat]
  BY DEF Init
<1>2. measured = <<>> /\ dir = <<>> /\ out = <<>> /\ ~done
  BY DEF Init
<1>3. Len(Sources) \in Nat
  OBVIOUS
<1> QED
  BY <1>1, <1>2, <1>3 DEF CompoundInv

(* Every step of the writer, and of the files, keeps it.                   *)
LEMMA NextCompound == CompoundInv /\ [Next]_vars => CompoundInv'
<1> SUFFICES ASSUME CompoundInv, [Next]_vars
             PROVE  CompoundInv'
  OBVIOUS
<1> DEFINE n == Len(Sources)
<1>1. n \in Nat /\ DOMAIN Sources = 1 .. n
  OBVIOUS
<1>2. UNCHANGED measured => UNCHANGED Offsets
  BY DEF Offsets
<1>3. ASSUME NEW i \in DOMAIN Sources, Resize(i)
      PROVE  CompoundInv'
  <2>1. size' \in [DOMAIN Sources -> Nat]
    BY <1>3 DEF Resize, CompoundInv
  <2>2. UNCHANGED <<measured, dir, out, error, done>>
    BY <1>3 DEF Resize
  <2> QED
    BY <1>2, <2>1, <2>2 DEF CompoundInv, Running
<1>4. CASE Measure
  <2>1. Len(measured) \in Nat /\ Len(measured) + 1 \in DOMAIN Sources
    BY <1>1, <1>4 DEF Measure, CompoundInv
  <2>2. size[Len(measured) + 1] \in Nat
    BY <2>1 DEF CompoundInv
  <2>3. measured' \in Seq(Nat) /\ Len(measured') = Len(measured) + 1
    BY <1>4, <2>2 DEF Measure, CompoundInv
  <2>4. dir = <<>> /\ Len(out) = 0
    BY <1>1, <1>4, <2>1 DEF Measure, CompoundInv
  <2>5. UNCHANGED <<size, dir, out, error, done>>
    BY <1>4 DEF Measure
  <2>6. Len(measured') <= n
    BY <1>1, <2>1, <2>3
  <2> QED
    BY <1>1, <2>3, <2>4, <2>5, <2>6 DEF CompoundInv, Running
<1>5. CASE WriteDirectory
  <2>1. /\ Len(measured) = n /\ dir = <<>> /\ dir' = Offsets /\ ~done
        /\ UNCHANGED <<size, measured, out, error, done>>
    BY <1>5 DEF WriteDirectory, Running
  <2>2. Len(out) = 0
    BY <1>1, <2>1 DEF CompoundInv
  <2>3. n = 0 => dir' = <<>>
    <3>1. StartsOf(Offsets, measured, n, DirLength)
      BY <2>1, OffsetsStart DEF CompoundInv
    <3>2. n = 0 => Offsets \in Seq(Nat) /\ Len(Offsets) = 0
      BY <3>1 DEF StartsOf
    <3>3. n = 0 => Offsets = <<>>
      BY <3>2, EmptySeq
    <3> QED
      BY <2>1, <3>3
  <2> QED
    BY <1>1, <1>2, <2>1, <2>2, <2>3 DEF CompoundInv, Running
<1>6. CASE Copy
  <2> DEFINE i == Len(out) + 1
             copy == [x \in 1 .. size[i] |-> Sources[i]]
  <2>1. /\ dir # <<>> /\ ~error /\ ~done
        /\ out' = Append(out, copy)
        /\ error' = (size[i] # measured[i])
        /\ done' = (i = n /\ ~error')
        /\ UNCHANGED <<size, measured, dir>>
    BY <1>6 DEF Copy, Running, Copied
  <2>2. Len(out) \in Nat /\ i \in 1 .. n /\ Len(out) < n
    BY <1>1, <2>1 DEF CompoundInv, Running
  <2>3. size[i] \in Nat /\ Sources[i] \in Range(Sources)
    BY <1>1, <2>2 DEF CompoundInv
  <2>4. copy \in Seq(Range(Sources))
    BY <2>3
  <2> HIDE DEF copy
  <2>5. /\ out' \in Seq(Seq(Range(Sources))) /\ Len(out') = i
        /\ out'[i] = copy
        /\ \A k \in 1 .. Len(out) : out'[k] = out[k]
    BY <2>1, <2>4 DEF CompoundInv
  <2>6. ASSUME ~error', NEW k \in 1 .. Len(out')
        PROVE  out'[k] = [x \in 1 .. measured'[k] |-> Sources[k]]
    <3>1. CASE k = i
      BY <3>1, <2>1, <2>5, <2>6 DEF copy
    <3>2. CASE k # i
      <4>1. k \in 1 .. Len(out)
        BY <2>2, <2>5, <3>2
      <4> QED
        BY <2>1, <2>5, <4>1 DEF CompoundInv
    <3> QED
      BY <3>1, <3>2
  <2>7. error' \in BOOLEAN /\ (done' <=> i = n /\ ~error')
    BY <2>1
  <2>8. Running' /\ dir' # <<>> => Len(out') < n
    BY <2>2, <2>5, <2>7 DEF Running
  <2>9. done' => ~error' /\ dir' # <<>> /\ Len(out') = n
    BY <2>1, <2>5, <2>7
  <2>10. Len(out') <= n
    BY <2>2, <2>5
  <2>11. dir' # <<>> /\ dir' = Offsets' /\ Len(measured') = n /\ n # 0
    BY <1>2, <2>1 DEF CompoundInv
  <2> HIDE DEF i
  <2> QED
    BY <2>1, <2>5, <2>6, <2>8, <2>9, <2>10, <2>11 DEF CompoundInv
<1>7. CASE UNCHANGED vars
  BY <1>2, <1>7 DEF vars, CompoundInv, Running
<1> QED
  BY <1>3, <1>4, <1>5, <1>6, <1>7 DEF Next

(* What such a file gives back.                                            *)
LEMMA CompoundGivesBack == CompoundInv => EachNameHasItsSource
<1> SUFFICES ASSUME CompoundInv, done
             PROVE  /\ Opens
                    /\ \A i \in DOMAIN Sources :
                         Sub(i) = [x \in 1 .. measured[i] |-> Sources[i]]
  BY DEF EachNameHasItsSource
<1> DEFINE n == Len(Sources)
           S == Range(Sources)
<1>1. /\ n \in Nat /\ n # 0 /\ DOMAIN Sources = 1 .. n
      /\ Len(out) = n /\ Len(measured) = n /\ dir = Offsets
      /\ measured \in Seq(Nat) /\ out \in Seq(Seq(S)) /\ ~error
  BY DEF CompoundInv
<1>2. \A i \in 1 .. n : out[i] = [x \in 1 .. measured[i] |-> Sources[i]]
  BY <1>1 DEF CompoundInv
<1> HIDE DEF S
<1>3. out \in [1 .. n -> Seq(S)]
  BY <1>1
<1>4. ASSUME NEW i \in 1 .. n
      PROVE  /\ measured[i] \in Nat /\ out[i] \in Seq(S)
             /\ Len(out[i]) = measured[i]
  <2>1. measured[i] \in Nat /\ out[i] \in Seq(S)
    BY <1>1
  <2>2. Len([x \in 1 .. measured[i] |-> Sources[i]]) = measured[i]
    BY <2>1
  <2> QED
    BY <1>2, <2>1, <2>2
<1>5. StartsOf(dir, measured, n, DirLength)
  BY <1>1, OffsetsStart
<1>6. PICK f : JoinOf(f, out, n, S) /\ Data = f[n]
  BY <1>1, FlattenJoins DEF Data
<1>7. n \in 1 .. n
  BY <1>1
<1>8. ASSUME NEW k \in 1 .. n
      PROVE  /\ DirLength + Len(f[k]) = dir[k] + measured[k]
             /\ \A i \in 1 .. k : Within(out[i], f[k], dir[i] - DirLength)
  <2> HIDE DEF n
  <2>1. n \in Nat /\ JoinOf(f, out, n, S)
    BY <1>1, <1>6
  <2>2. \A i \in 1 .. n : Len(out[i]) = measured[i]
    BY <1>4
  <2> QED
    BY <1>3, <1>5, <2>1, <2>2, Layout
<1>9. Data \in Seq(S)
  BY <1>6, <1>7 DEF JoinOf
<1>10. DirLength + Len(Data) = dir[n] + measured[n]
  BY <1>6, <1>7, <1>8
<1>11. ASSUME NEW i \in 1 .. n
       PROVE  End(i) = dir[i] + measured[i]
  <2>1. CASE i = n
    <3>1. ~ i < Len(Sources)
      BY <1>1, <2>1
    <3> QED
      BY <1>10, <2>1, <3>1 DEF End
  <2>2. CASE i # n
    <3>1. i < Len(Sources) /\ i + 1 \in 1 .. n /\ (i + 1) - 1 = i /\ i + 1 # 1
      <4>1. n \in Nat /\ Len(Sources) = n
        BY <1>1
      <4> HIDE DEF n
      <4> QED
        BY <2>2, <4>1
    <3>2. dir[i + 1] = dir[i] + measured[i]
      BY <1>5, <3>1 DEF StartsOf
    <3> QED
      BY <3>1, <3>2 DEF End
  <2> QED
    BY <2>1, <2>2
<1>12. ASSUME NEW i \in 1 .. n
       PROVE  /\ dir[i] <= End(i) /\ End(i) <= DirLength + Len(Data)
              /\ Sub(i) = [x \in 1 .. measured[i] |-> Sources[i]]
  <2>1. Within(out[i], Data, dir[i] - DirLength)
    BY <1>6, <1>7, <1>8
  <2>2. dir[i] \in Nat /\ measured[i] \in Nat /\ out[i] \in Seq(S) /\ Len(out[i]) = measured[i]
    BY <1>4, <1>5 DEF StartsOf
  <2>3. Len(Data) \in Nat /\ dir[i] - DirLength + measured[i] <= Len(Data)
    BY <1>9, <2>1, <2>2 DEF Within
  <2>4. SubSeq(Data, dir[i] - DirLength + 1, dir[i] - DirLength + measured[i]) = out[i]
    <3> DEFINE a == dir[i] - DirLength
    <3>1. Within(out[i], Data, a)
      BY <2>1
    <3> HIDE DEF a
    <3>2. SubSeq(Data, a + 1, a + Len(out[i])) = out[i]
      BY <1>9, <2>2, <3>1, WithinSub
    <3> QED
      BY <2>2, <3>2 DEF a
  <2>5. End(i) - DirLength = dir[i] - DirLength + measured[i]
    BY <1>11, <2>2
  <2>6. Sub(i) = out[i]
    BY <2>4, <2>5 DEF Sub
  <2> QED
    BY SMTT(30), <1>2, <1>11, <2>2, <2>3, <2>6
<1> QED
  BY <1>1, <1>12 DEF Opens

(* A compound file that was written without an error opens and gives each  *)
(* source back, whatever happened to the files since they were measured.   *)
THEOREM EachNameHasItsSourceHolds == Spec => []EachNameHasItsSource
<1>1. Spec => []CompoundInv
  BY InitCompound, NextCompound, PTL DEF Spec
<1> QED
  BY <1>1, CompoundGivesBack, PTL
=============================================================================
