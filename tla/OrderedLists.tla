---------------------------- MODULE OrderedLists ----------------------------
(***************************************************************************)
(* Induction on naturals stated over sets, so that the provers can use it: *)
(* the predicate is the set of the numbers that have it.  And what follows *)
(* by it: a finite set is listed in a strict order in one way only; a      *)
(* recursion has a function; sequences that are joined lie where their     *)
(* lengths say.                                                            *)
(***************************************************************************)
EXTENDS Integers, SequencesExt, TLAPS, WellFoundedInduction, SequenceTheorems,
        FiniteSetTheorems

(* Every inhabited set of naturals has a least member.                     *)
LEMMA LeastNatural ==
  ASSUME NEW T, T \subseteq Nat, T # {}
  PROVE  \E x \in T : \A y \in T : x <= y
<1> DEFINE R == OpToRel(<, Nat)
<1>1. IsWellFoundedOn(R, Nat)
  BY NatLessThanWellFounded
<1>2. ASSUME NEW x \in Nat, NEW y \in Nat, x < y
      PROVE  <<x, y>> \in R
  BY <1>2 DEF OpToRel
<1> HIDE DEF R
<1>3. PICK x \in T : \A y \in T : <<y, x>> \notin R
  BY <1>1, WFMin
<1>4. ASSUME NEW y \in T
      PROVE  x <= y
  <2>1. x \in Nat /\ y \in Nat
    OBVIOUS
  <2>2. ~ y < x
    BY <1>2, <1>3, <2>1
  <2> QED
    BY <2>1, <2>2
<1> QED
  BY <1>4

(* A set that has 0 and with every number up to n its successor has all.   *)
THEOREM InductionUpTo ==
  ASSUME NEW n \in Nat, NEW T,
         0 \in T,
         \A m \in 0 .. (n - 1) : m \in T => m + 1 \in T
  PROVE  0 .. n \subseteq T
<1> DEFINE Bad == (0 .. n) \ T
<1> SUFFICES ASSUME Bad # {}
             PROVE  FALSE
  OBVIOUS
<1>1. Bad \subseteq Nat
  OBVIOUS
<1> HIDE DEF Bad
<1>2. PICK m \in Bad : \A k \in Bad : m <= k
  BY <1>1, LeastNatural
<1>3. m \in 0 .. n /\ m \notin T /\ m # 0
  BY DEF Bad
<1>4. m - 1 \in 0 .. (n - 1) /\ m - 1 \notin Bad
  BY <1>1, <1>2, <1>3
<1>5. m - 1 \in T
  BY <1>4 DEF Bad
<1> QED
  BY <1>3, <1>4, <1>5

(* A set that has 0 and with every number its successor has all numbers.   *)
THEOREM NaturalInduction ==
  ASSUME NEW T, 0 \in T, \A n \in Nat : n \in T => n + 1 \in T
  PROVE  Nat \subseteq T
<1> SUFFICES ASSUME NEW n \in Nat
             PROVE  n \in T
  OBVIOUS
<1>1. 0 .. n \subseteq T
  BY InductionUpTo
<1> QED
  BY <1>1

-----------------------------------------------------------------------------
(* R, a set of pairs, is a strict total order on S.                        *)
StrictOrder(R, S) ==
  /\ \A a \in S : <<a, a>> \notin R
  /\ \A a, b \in S : a # b => <<a, b>> \in R \/ <<b, a>> \in R
  /\ \A a, b, c \in S : <<a, b>> \in R /\ <<b, c>> \in R => <<a, c>> \in R

(* q is a list of members of S that rises by R.                            *)
Rises(q, n, S, R) ==
  /\ n \in Nat
  /\ q \in [1 .. n -> S]
  /\ \A i, j \in 1 .. n : i < j => <<q[i], q[j]>> \in R

(* It has every member of S.                                               *)
Lists(q, n, S, R) == Rises(q, n, S, R) /\ \A a \in S : \E i \in 1 .. n : q[i] = a

(* Every finite inhabited set has a least member.                          *)
LEMMA LeastMember ==
  ASSUME NEW S, IsFiniteSet(S), NEW R, StrictOrder(R, S)
  PROVE  \A U \in SUBSET S : U # {} => \E a \in U : \A b \in U : a = b \/ <<a, b>> \in R
<1> DEFINE HasLeast(U) == \E a \in U : \A b \in U : a = b \/ <<a, b>> \in R
           T == {n \in Nat : \A U \in SUBSET S :
                   Cardinality(U) = n + 1 => HasLeast(U)}
<1>1. \A U \in SUBSET S : IsFiniteSet(U) /\ Cardinality(U) \in Nat
  BY FS_Subset, FS_CardinalityType
<1>2. 0 \in T
  <2> SUFFICES ASSUME NEW U \in SUBSET S, Cardinality(U) = 1
               PROVE  HasLeast(U)
    OBVIOUS
  <2>1. PICK a : U = {a}
    BY <1>1, FS_Singleton
  <2> QED
    BY <2>1
<1>3. ASSUME NEW n \in Nat, n \in T
      PROVE  n + 1 \in T
  <2> SUFFICES ASSUME NEW U \in SUBSET S, Cardinality(U) = n + 2
               PROVE  HasLeast(U)
    OBVIOUS
  <2>1. PICK x \in U : TRUE
    BY <1>1, FS_EmptySet
  <2>2. Cardinality(U \ {x}) = n + 1
    BY <1>1, <2>1, FS_RemoveElement
  <2>3. HasLeast(U \ {x})
    BY <1>3, <2>2
  <2>4. PICK a \in U \ {x} : \A b \in U \ {x} : a = b \/ <<a, b>> \in R
    BY <2>3
  <2>5. <<a, x>> \in R \/ <<x, a>> \in R
    BY DEF StrictOrder
  <2>6. CASE <<a, x>> \in R
    BY <2>4, <2>6
  <2>7. CASE <<x, a>> \in R
    <3>1. \A b \in U : x = b \/ <<x, b>> \in R
      BY <2>4, <2>7 DEF StrictOrder
    <3> QED
      BY <2>1, <3>1
  <2> QED
    BY <2>5, <2>6, <2>7
<1>4. Nat \subseteq T
  <2> HIDE DEF T
  <2> QED
    BY <1>2, <1>3, NaturalInduction
<1> SUFFICES ASSUME NEW U \in SUBSET S, U # {}
             PROVE  HasLeast(U)
  OBVIOUS
<1>5. Cardinality(U) - 1 \in Nat
  BY <1>1, FS_EmptySet
<1>6. Cardinality(U) = (Cardinality(U) - 1) + 1
  BY <1>1
<1> HIDE DEF HasLeast
<1> QED
  BY <1>4, <1>5, <1>6

(* A finite set can be listed in order.                                    *)
LEMMA ListExists ==
  ASSUME NEW S, IsFiniteSet(S), NEW R, StrictOrder(R, S)
  PROVE  \E q : Lists(q, Cardinality(S), S, R)
<1> DEFINE T == {n \in Nat : \A U \in SUBSET S :
                   Cardinality(U) = n => \E q : Lists(q, n, U, R)}
<1>1. \A U \in SUBSET S : IsFiniteSet(U) /\ Cardinality(U) \in Nat
  BY FS_Subset, FS_CardinalityType
<1>2. 0 \in T
  <2> SUFFICES ASSUME NEW U \in SUBSET S, Cardinality(U) = 0
               PROVE  \E q : Lists(q, 0, U, R)
    OBVIOUS
  <2>1. U = {}
    BY <1>1, FS_EmptySet
  <2>2. Lists([i \in 1 .. 0 |-> i], 0, U, R)
    BY <2>1 DEF Lists, Rises
  <2> QED
    BY <2>2
<1>3. ASSUME NEW n \in Nat, n \in T
      PROVE  n + 1 \in T
  <2> SUFFICES ASSUME NEW U \in SUBSET S, Cardinality(U) = n + 1
               PROVE  \E q : Lists(q, n + 1, U, R)
    OBVIOUS
  <2>1. U # {}
    BY FS_EmptySet
  <2>2. PICK a \in U : \A b \in U : a = b \/ <<a, b>> \in R
    BY <2>1, LeastMember
  <2>3. Cardinality(U \ {a}) = n /\ U \ {a} \in SUBSET S
    <3>1. Cardinality(U \ {a}) = Cardinality(U) - 1
      BY <1>1, FS_RemoveElement
    <3> QED
      BY <1>3, <3>1
  <2>4. PICK q : Lists(q, n, U \ {a}, R)
    BY <1>3, <2>3
  <2> DEFINE r == [i \in 1 .. (n + 1) |-> IF i = 1 THEN a ELSE q[i - 1]]
  <2>5. r \in [1 .. (n + 1) -> U]
    BY <2>4 DEF Lists, Rises
  <2>6. ASSUME NEW i \in 1 .. (n + 1), NEW j \in 1 .. (n + 1), i < j
        PROVE  <<r[i], r[j]>> \in R
    <3>1. j - 1 \in 1 .. n /\ r[j] = q[j - 1] /\ q[j - 1] \in U \ {a}
      BY <2>4, <2>6 DEF Lists, Rises
    <3>2. CASE i = 1
      BY <2>2, <3>1, <3>2
    <3>3. CASE i # 1
      <4>1. i - 1 \in 1 .. n /\ r[i] = q[i - 1] /\ i - 1 < j - 1
        BY <2>6, <3>3
      <4> QED
        BY <2>4, <3>1, <4>1 DEF Lists, Rises
    <3> QED
      BY <3>2, <3>3
  <2>7. ASSUME NEW b \in U
        PROVE  \E i \in 1 .. (n + 1) : r[i] = b
    <3>1. CASE b = a
      BY <3>1
    <3>2. CASE b # a
      <4>1. PICK i \in 1 .. n : q[i] = b
        BY <2>4, <3>2 DEF Lists
      <4>2. i + 1 \in 1 .. (n + 1) /\ r[i + 1] = b
        BY <4>1
      <4> QED
        BY <4>2
    <3> QED
      BY <3>1, <3>2
  <2> HIDE DEF r
  <2>8. Lists(r, n + 1, U, R)
    BY <2>5, <2>6, <2>7 DEF Lists, Rises
  <2> QED
    BY <2>8
<1>4. Nat \subseteq T
  <2> HIDE DEF T
  <2> QED
    BY <1>2, <1>3, NaturalInduction
<1> QED
  BY <1>1, <1>4

(* A rising list goes up only forward.                                     *)
LEMMA RisesForward ==
  ASSUME NEW S, NEW R, StrictOrder(R, S), NEW q, NEW n, Rises(q, n, S, R)
  PROVE  \A i, j \in 1 .. n : <<q[i], q[j]>> \in R => i < j
<1> SUFFICES ASSUME NEW i \in 1 .. n, NEW j \in 1 .. n, <<q[i], q[j]>> \in R
             PROVE  i < j
  OBVIOUS
<1>1. q[i] \in S /\ q[j] \in S
  BY DEF Rises
<1>2. j < i => <<q[j], q[i]>> \in R
  BY DEF Rises
<1>3. ~(j < i) /\ i # j
  BY <1>1, <1>2 DEF StrictOrder
<1> QED
  BY <1>3

(* It repeats nothing.                                                     *)
LEMMA RisesOnce ==
  ASSUME NEW S, NEW R, StrictOrder(R, S), NEW q, NEW n, Rises(q, n, S, R)
  PROVE  \A i, j \in 1 .. n : q[i] = q[j] => i = j
<1> SUFFICES ASSUME NEW i \in 1 .. n, NEW j \in 1 .. n, q[i] = q[j]
             PROVE  i = j
  OBVIOUS
<1>1. q[i] \in S
  BY DEF Rises
<1>2. i < j => <<q[i], q[j]>> \in R
  BY DEF Rises
<1>3. j < i => <<q[j], q[i]>> \in R
  BY DEF Rises
<1> QED
  BY <1>1, <1>2, <1>3 DEF StrictOrder

(* It is as long as its set.                                               *)
LEMMA ListLength ==
  ASSUME NEW S, NEW R, StrictOrder(R, S), NEW q, NEW n, Lists(q, n, S, R)
  PROVE  IsFiniteSet(S) /\ Cardinality(S) = n
<1>1. q \in Bijection(1 .. n, S)
  <2>1. \A i, j \in 1 .. n : q[i] = q[j] => i = j
    BY RisesOnce DEF Lists
  <2>2. q \in [1 .. n -> S] /\ \A a \in S : \E i \in 1 .. n : q[i] = a
    BY DEF Lists, Rises
  <2> QED
    BY <2>1, <2>2 DEF Bijection, Injection, Surjection, IsInjective
<1>2. ExistsBijection(1 .. n, S)
  BY <1>1 DEF ExistsBijection
<1>3. n \in Nat
  BY DEF Lists, Rises
<1> QED
  BY <1>2, <1>3, FS_CountingElements, FS_NatBijection

(* A rising list as long as its set has every member.                      *)
LEMMA RisesToLists ==
  ASSUME NEW S, IsFiniteSet(S), NEW R, StrictOrder(R, S), NEW q,
         Rises(q, Cardinality(S), S, R)
  PROVE  Lists(q, Cardinality(S), S, R)
<1> DEFINE n == Cardinality(S)
<1>1. n \in Nat
  BY FS_CardinalityType
<1>2. q \in Injection(1 .. n, S)
  <2>1. \A i, j \in 1 .. n : q[i] = q[j] => i = j
    BY RisesOnce
  <2>2. q \in [1 .. n -> S]
    BY DEF Rises
  <2> QED
    BY <2>1, <2>2 DEF Injection, IsInjective
<1>3. Cardinality(1 .. n) = n
  BY <1>1, FS_Interval
<1>4. q \in Surjection(1 .. n, S)
  BY <1>2, <1>3, FS_Injection
<1> QED
  BY <1>4 DEF Lists, Surjection

(* Two lists of a set in order are the same.                               *)
LEMMA OneList ==
  ASSUME NEW S, NEW R, StrictOrder(R, S),
         NEW q, NEW m, Lists(q, m, S, R),
         NEW r, NEW n, Lists(r, n, S, R)
  PROVE  m = n /\ q = r
<1>1. m = n /\ n \in Nat
  <2>1. Cardinality(S) = m /\ Cardinality(S) = n
    BY ListLength
  <2> QED
    BY <2>1 DEF Lists, Rises
<1>7. \A i, j \in 1 .. n : q[i] = q[j] => i = j
  BY <1>1, RisesOnce DEF Lists
<1>8. \A i, j \in 1 .. n : r[i] = r[j] => i = j
  BY <1>1, RisesOnce DEF Lists
<1> DEFINE T == {k \in 0 .. n : \A i \in 1 .. k : q[i] = r[i]}
<1>2. 0 \in T
  BY <1>1
<1>3. ASSUME NEW k \in 0 .. (n - 1), k \in T
      PROVE  k + 1 \in T
  <2>1. k + 1 \in 1 .. n /\ q[k + 1] \in S /\ r[k + 1] \in S
    BY <1>1, <1>3 DEF Lists, Rises
  <2>2. PICK i \in 1 .. n : r[i] = q[k + 1]
    BY <2>1 DEF Lists
  <2>3. PICK j \in 1 .. n : q[j] = r[k + 1]
    BY <1>1, <2>1 DEF Lists
  <2>4. ~(i \in 1 .. k)
    <3> SUFFICES ASSUME i \in 1 .. k
                 PROVE  FALSE
      OBVIOUS
    <3>1. q[i] = q[k + 1]
      BY <1>3, <2>2
    <3>2. i = k + 1
      BY <1>1, <1>7, <2>1, <3>1
    <3> QED
      BY <3>2
  <2>5. ~(j \in 1 .. k)
    <3> SUFFICES ASSUME j \in 1 .. k
                 PROVE  FALSE
      OBVIOUS
    <3>1. r[j] = r[k + 1]
      BY <1>3, <2>3
    <3>2. j = k + 1
      BY <1>1, <1>8, <2>1, <3>1
    <3> QED
      BY <3>2
  <2>6. CASE i = k + 1
    BY <1>1, <1>3, <2>2, <2>6
  <2>7. CASE j = k + 1
    BY <1>1, <1>3, <2>3, <2>7
  <2>8. CASE i # k + 1 /\ j # k + 1
    <3>1. k + 1 < i /\ k + 1 < j
      BY <1>1, <2>1, <2>4, <2>5, <2>8
    <3>2. <<r[k + 1], r[i]>> \in R /\ <<q[k + 1], q[j]>> \in R
      BY <1>1, <2>1, <3>1 DEF Lists, Rises
    <3> QED
      BY <2>1, <2>2, <2>3, <3>2 DEF StrictOrder
  <2> QED
    BY <2>6, <2>7, <2>8
<1>4. 0 .. n \subseteq T
  <2> HIDE DEF T
  <2> QED
    BY <1>1, <1>2, <1>3, InductionUpTo
<1>5. \A i \in 1 .. n : q[i] = r[i]
  BY <1>1, <1>4
<1>6. q \in [1 .. n -> S] /\ r \in [1 .. n -> S]
  BY <1>1 DEF Lists, Rises
<1> QED
  BY <1>1, <1>5, <1>6

(* The i-th of a list has i - 1 members before it.                         *)
LEMMA MembersBefore ==
  ASSUME NEW S, NEW R, StrictOrder(R, S), NEW q, NEW n, Lists(q, n, S, R),
         NEW i \in 1 .. n
  PROVE  Cardinality({a \in S : <<a, q[i]>> \in R}) = i - 1
<1> DEFINE U == {a \in S : <<a, q[i]>> \in R}
           p == [k \in 1 .. (i - 1) |-> q[k]]
<1>1. n \in Nat /\ i - 1 \in Nat /\ \A k \in 1 .. (i - 1) : k \in 1 .. n /\ k < i
  BY DEF Lists, Rises
<1>2. Rises(p, i - 1, U, R)
  BY <1>1 DEF Lists, Rises
<1>3. \A a \in U : \E k \in 1 .. (i - 1) : p[k] = a
  <2> SUFFICES ASSUME NEW a \in S, <<a, q[i]>> \in R
               PROVE  \E k \in 1 .. (i - 1) : p[k] = a
    OBVIOUS
  <2>1. PICK k \in 1 .. n : q[k] = a
    BY DEF Lists
  <2>2. k < i
    <3>1. <<q[k], q[i]>> \in R /\ Rises(q, n, S, R)
      BY <2>1 DEF Lists
    <3> QED
      BY <3>1, RisesForward
  <2>3. k \in 1 .. (i - 1)
    BY <1>1, <2>2
  <2> QED
    BY <2>1, <2>3
<1>4. StrictOrder(R, U)
  BY DEF StrictOrder
<1> HIDE DEF U, p
<1>5. Lists(p, i - 1, U, R)
  BY <1>2, <1>3 DEF Lists
<1>6. Cardinality(U) = i - 1
  BY <1>4, <1>5, ListLength
<1> QED
  BY <1>6 DEF U

(* What a list of some members has before it is what the list of all has,  *)
(* when these members come first.                                          *)
LEMMA FirstOfList ==
  ASSUME NEW M, NEW R, StrictOrder(R, M), NEW f, NEW n, Lists(f, n, M, R),
         NEW H, H \subseteq M, NEW g, NEW k, Lists(g, k, H, R),
         \A a \in H : \A x \in M \ H : <<a, x>> \in R
  PROVE  k <= n /\ \A i \in 1 .. k : f[i] = g[i]
<1>1. StrictOrder(R, H)
  BY DEF StrictOrder
<1>2. k \in Nat /\ n \in Nat /\ \A i \in 1 .. k : g[i] \in H
  BY DEF Lists, Rises
<1>3. ASSUME NEW i \in 1 .. k
      PROVE  i \in 1 .. n /\ f[i] = g[i]
  <2>1. {a \in M : <<a, g[i]>> \in R} = {a \in H : <<a, g[i]>> \in R}
    <3>1. g[i] \in H
      BY <1>2
    <3>2. ASSUME NEW a \in M \ H
          PROVE  <<a, g[i]>> \notin R
      <4>1. <<g[i], a>> \in R /\ g[i] \in M /\ a \in M
        BY <3>1
      <4> QED
        BY <4>1 DEF StrictOrder
    <3> QED
      BY <3>2
  <2>2. Cardinality({a \in H : <<a, g[i]>> \in R}) = i - 1
    BY <1>1, MembersBefore
  <2>3. PICK j \in 1 .. n : f[j] = g[i]
    <3>1. g[i] \in M
      BY <1>2
    <3> QED
      BY <3>1 DEF Lists
  <2>4. Cardinality({a \in M : <<a, f[j]>> \in R}) = j - 1
    BY MembersBefore
  <2>5. j - 1 = i - 1
    BY <2>1, <2>2, <2>3, <2>4
  <2>6. j = i
    BY <1>2, <2>5
  <2> QED
    BY <2>3, <2>6
<1>4. k <= n
  <2>1. CASE k = 0
    BY <1>2, <2>1
  <2>2. CASE k # 0
    <3>1. k \in 1 .. k
      BY <1>2, <2>2
    <3>2. k \in 1 .. n
      BY <1>3, <3>1
    <3> QED
      BY <1>2, <3>2
  <2> QED
    BY <2>1, <2>2
<1> QED
  BY <1>3, <1>4

(* Every finite inhabited set has a greatest member.                       *)
LEMMA GreatestMember ==
  ASSUME NEW S, IsFiniteSet(S), NEW R, StrictOrder(R, S), S # {}
  PROVE  \E a \in S : \A b \in S \ {a} : <<b, a>> \in R
<1> DEFINE Q == {p \in S \X S : <<p[2], p[1]>> \in R}
<1>1. \A a, b \in S : <<a, b>> \in Q <=> <<b, a>> \in R
  OBVIOUS
<1> HIDE DEF Q
<1>2. StrictOrder(Q, S)
  <2>1. \A a \in S : <<a, a>> \notin Q
    BY <1>1 DEF StrictOrder
  <2>2. \A a, b \in S : a # b => <<a, b>> \in Q \/ <<b, a>> \in Q
    BY <1>1 DEF StrictOrder
  <2>3. \A a, b, c \in S : <<a, b>> \in Q /\ <<b, c>> \in Q => <<a, c>> \in Q
    BY <1>1 DEF StrictOrder
  <2> QED
    BY <2>1, <2>2, <2>3 DEF StrictOrder
<1>3. \E a \in S : \A b \in S : a = b \/ <<a, b>> \in Q
  BY <1>2, LeastMember
<1> QED
  BY <1>1, <1>3

(* One more at the end of a list.                                          *)
LEMMA ListMore ==
  ASSUME NEW S, NEW R, NEW q, NEW n, Lists(q, n, S, R),
         NEW x, \A a \in S : <<a, x>> \in R
  PROVE  Lists([i \in 1 .. (n + 1) |-> IF i = n + 1 THEN x ELSE q[i]], n + 1,
               S \cup {x}, R)
<1> DEFINE r == [i \in 1 .. (n + 1) |-> IF i = n + 1 THEN x ELSE q[i]]
<1>1. n \in Nat /\ q \in [1 .. n -> S]
  BY DEF Lists, Rises
<1>2. r \in [1 .. (n + 1) -> S \cup {x}]
  BY <1>1
<1>3. ASSUME NEW i \in 1 .. (n + 1), NEW j \in 1 .. (n + 1), i < j
      PROVE  <<r[i], r[j]>> \in R
  <2>1. i \in 1 .. n /\ r[i] = q[i] /\ q[i] \in S
    BY <1>1, <1>3
  <2>2. CASE j = n + 1
    BY <2>1, <2>2
  <2>3. CASE j # n + 1
    BY <1>1, <1>3, <2>1, <2>3 DEF Lists, Rises
  <2> QED
    BY <2>2, <2>3
<1>4. ASSUME NEW a \in S \cup {x}
      PROVE  \E i \in 1 .. (n + 1) : r[i] = a
  <2>1. CASE a = x
    BY <1>1, <2>1
  <2>2. CASE a \in S /\ a # x
    <3>1. PICK i \in 1 .. n : q[i] = a
      BY <2>2 DEF Lists
    <3>2. i \in 1 .. (n + 1) /\ r[i] = a
      BY <1>1, <3>1
    <3> QED
      BY <3>2
  <2> QED
    BY <2>1, <2>2
<1> HIDE DEF r
<1>5. Lists(r, n + 1, S \cup {x}, R)
  BY <1>1, <1>2, <1>3, <1>4 DEF Lists, Rises
<1> QED
  BY <1>5 DEF r

-----------------------------------------------------------------------------
(* f begins with b and goes on by the step function of each number.        *)
GrowsBy(f, n, V, b, G) ==
  /\ f \in [1 .. n -> V]
  /\ \A k \in 1 .. n : f[k] = IF k = 1 THEN b ELSE G[k][f[k - 1]]

(* A recursion on 1 .. n over members of a set has a function.             *)
LEMMA Recursion ==
  ASSUME NEW n \in Nat, NEW V, NEW b \in V, NEW G \in [1 .. n -> [V -> V]]
  PROVE  \E f : GrowsBy(f, n, V, b, G)
<1> DEFINE Good(m, f) == \A k \in 1 .. m : f[k] = IF k = 1 THEN b ELSE G[k][f[k - 1]]
           T == {m \in 0 .. n : \E f \in [1 .. m -> V] : Good(m, f)}
<1>1. 0 \in T
  <2>1. [k \in 1 .. 0 |-> b] \in [1 .. 0 -> V] /\ Good(0, [k \in 1 .. 0 |-> b])
    OBVIOUS
  <2>2. 0 \in 0 .. n
    OBVIOUS
  <2> HIDE DEF Good
  <2> QED
    BY <2>1, <2>2
<1>2. ASSUME NEW m \in 0 .. (n - 1), m \in T
      PROVE  m + 1 \in T
  <2>1. PICK f \in [1 .. m -> V] : Good(m, f)
    BY <1>2
  <2> DEFINE v == IF m = 0 THEN b ELSE G[m + 1][f[m]]
             g == [k \in 1 .. (m + 1) |-> IF k = m + 1 THEN v ELSE f[k]]
  <2>2. v \in V
    <3>1. CASE m = 0
      BY <3>1
    <3>2. CASE m # 0
      <4>1. m + 1 \in 1 .. n /\ m \in 1 .. m
        BY <3>2
      <4>2. G[m + 1] \in [V -> V] /\ f[m] \in V
        BY <4>1
      <4> QED
        BY <3>2, <4>2
    <3> QED
      BY <3>1, <3>2
  <2> HIDE DEF v
  <2>3. g \in [1 .. (m + 1) -> V]
    BY <2>2
  <2>4. ASSUME NEW k \in 1 .. (m + 1)
        PROVE  g[k] = IF k = 1 THEN b ELSE G[k][g[k - 1]]
    <3>1. CASE k = m + 1
      BY <3>1 DEF v
    <3>2. CASE k # m + 1
      BY <3>2, <2>1
    <3> QED
      BY <3>1, <3>2
  <2>5. Good(m + 1, g)
    BY <2>4
  <2> HIDE DEF Good, g
  <2>6. m + 1 \in 0 .. n
    OBVIOUS
  <2> QED
    BY <2>3, <2>5, <2>6
<1> HIDE DEF T
<1>3. 0 .. n \subseteq T
  BY <1>1, <1>2, InductionUpTo
<1>4. n \in T
  BY <1>3
<1> QED
  BY <1>4 DEF T, GrowsBy

-----------------------------------------------------------------------------
(* The offsets follow from the lengths and where the first one starts.     *)
StartsOf(off, len, n, start) ==
  /\ off \in [1 .. n -> Nat]
  /\ \A k \in 1 .. n : off[k] = IF k = 1 THEN start ELSE off[k - 1] + len[k - 1]

(* f[k] is the first k of the sequences in s one after another.            *)
JoinOf(f, s, n, S) ==
  /\ f \in [1 .. n -> Seq(S)]
  /\ \A k \in 1 .. n : f[k] = IF k = 1 THEN s[1] ELSE f[k - 1] \o s[k]

(* FlattenSeq joins the sequences one after another.                       *)
LEMMA FlattenJoins ==
  ASSUME NEW S, NEW s \in Seq(Seq(S)), Len(s) # 0
  PROVE  \E f : JoinOf(f, s, Len(s), S) /\ FlattenSeq(s) = f[Len(s)]
<1> DEFINE n == Len(s)
           G == [k \in 1 .. n |-> [v \in Seq(S) |-> v \o s[k]]]
           Is(f) == f = [i \in 1 .. Len(s) |-> IF i = 1 THEN s[i] ELSE f[i - 1] \o s[i]]
<1>1. n \in Nat /\ n >= 1
  OBVIOUS
<1>2. ASSUME NEW k \in 1 .. n
      PROVE  s[k] \in Seq(S)
  OBVIOUS
<1>3. ASSUME NEW u \in Seq(S), NEW v \in Seq(S)
      PROVE  u \o v \in Seq(S)
  OBVIOUS
<1>4. G \in [1 .. n -> [Seq(S) -> Seq(S)]]
  BY <1>2, <1>3
<1>5. s[1] \in Seq(S)
  BY <1>1, <1>2
<1>6. PICK f : GrowsBy(f, n, Seq(S), s[1], G)
  <2> HIDE DEF G, n
  <2> QED
    BY <1>1, <1>4, <1>5, Recursion
<1>6a. f \in [1 .. n -> Seq(S)] /\ \A k \in 1 .. n : f[k] = IF k = 1 THEN s[1] ELSE G[k][f[k - 1]]
  BY <1>6 DEF GrowsBy
<1>7. ASSUME NEW k \in 1 .. n
      PROVE  f[k] = IF k = 1 THEN s[k] ELSE f[k - 1] \o s[k]
  <2>1. CASE k = 1
    BY <2>1, <1>6a
  <2>2. CASE k # 1
    <3>1. k - 1 \in 1 .. n
      BY <2>2, <1>1
    <3>2. f[k - 1] \in Seq(S)
      BY <3>1, <1>6a
    <3>3. G[k][f[k - 1]] = f[k - 1] \o s[k]
      BY <3>2
    <3> QED
      BY <2>2, <3>3, <1>6a
  <2> QED
    BY <2>1, <2>2
<1>8. Is(f)
  BY <1>1, <1>7, <1>6a
<1> DEFINE c == CHOOSE g : Is(g)
<1>9. Is(c)
  <2> HIDE DEF Is
  <2> QED
    BY <1>8
<1>10. FlattenSeq(s) = c[Len(s)]
  BY DEF FlattenSeq
<1> HIDE DEF c
<1> DEFINE T == {k \in 0 .. n : k # 0 => c[k] \in Seq(S)}
<1>11. 0 \in T
  BY <1>1
<1>12. ASSUME NEW m \in 0 .. (n - 1), m \in T
       PROVE  m + 1 \in T
  <2>1. m + 1 \in 1 .. n
    BY <1>1
  <2>1a. m \in Nat /\ (m + 1) - 1 = m /\ (m + 1 = 1 <=> m = 0)
    BY <1>1
  <2>2. c[m + 1] = IF m = 0 THEN s[m + 1] ELSE c[m] \o s[m + 1]
    BY <1>1, <1>9, <2>1, <2>1a
  <2>3. m # 0 => c[m] \in Seq(S)
    BY <1>12
  <2>4. c[m + 1] \in Seq(S)
    BY <1>2, <1>3, <2>1, <2>2, <2>3
  <2> QED
    BY <2>1, <2>4
<1>13. 0 .. n \subseteq T
  <2> HIDE DEF T, n
  <2> QED
    BY <1>1, <1>11, <1>12, InductionUpTo
<1>14. ASSUME NEW k \in 1 .. n
       PROVE  c[k] \in Seq(S)
  <2>1. k \in 0 .. n /\ k # 0
    BY <1>1
  <2> HIDE DEF c, n
  <2>2. k \in T
    BY <1>13, <2>1
  <2> QED
    BY <2>1, <2>2
<1>15. JoinOf(c, s, n, S)
  BY <1>1, <1>9, <1>14 DEF JoinOf
<1> QED
  BY <1>10, <1>15

-----------------------------------------------------------------------------
(* u is in t, beginning after the first a.                                 *)
Within(u, t, a) ==
  /\ a \in Nat
  /\ a + Len(u) <= Len(t)
  /\ \A x \in 1 .. Len(u) : t[a + x] = u[x]

(* What is in a sequence is cut out of it at its place.                    *)
LEMMA WithinSub ==
  ASSUME NEW S, NEW t \in Seq(S), NEW u \in Seq(S), NEW a, Within(u, t, a)
  PROVE  SubSeq(t, a + 1, a + Len(u)) = u
<1>1. /\ a \in Nat /\ Len(u) \in Nat /\ Len(t) \in Nat
      /\ a + Len(u) <= Len(t)
      /\ \A x \in 1 .. Len(u) : t[a + x] = u[x]
  BY DEF Within
<1> DEFINE w == SubSeq(t, a + 1, a + Len(u))
<1>2. w \in Seq(S) /\ Len(w) = Len(u)
  <2>1. \A i \in (a + 1) .. (a + Len(u)) : t[i] \in S
    BY <1>1
  <2> QED
    BY <1>1, <2>1, SubSeqProperties
<1>3. ASSUME NEW x \in 1 .. Len(u)
      PROVE  w[x] = u[x]
  <2>1. w[x] = t[(a + 1) + x - 1]
    BY <1>1, SubSeqProperties
  <2>2. (a + 1) + x - 1 = a + x
    BY <1>1
  <2> QED
    BY <1>1, <2>1, <2>2
<1> HIDE DEF w
<1>4. w = u
  BY <1>2, <1>3, SeqEqual
<1> QED
  BY <1>4 DEF w

(* It stays there when something is appended.                              *)
LEMMA WithinLonger ==
  ASSUME NEW S, NEW t \in Seq(S), NEW u \in Seq(S), NEW v \in Seq(S), NEW a,
         Within(u, t, a)
  PROVE  Within(u, t \o v, a)
<1>1. Len(t \o v) = Len(t) + Len(v) /\ Len(v) \in Nat /\ Len(t) \in Nat /\ Len(u) \in Nat
  OBVIOUS
<1>2. ASSUME NEW x \in 1 .. Len(u)
      PROVE  (t \o v)[a + x] = u[x]
  <2>1. a + x \in 1 .. Len(t)
    BY <1>1 DEF Within
  <2>2. (t \o v)[a + x] = t[a + x]
    BY <2>1
  <2> QED
    BY <2>2 DEF Within
<1> QED
  BY <1>1, <1>2 DEF Within

(* What is appended is after what was there.                               *)
LEMMA WithinAppended ==
  ASSUME NEW S, NEW t \in Seq(S), NEW v \in Seq(S)
  PROVE  Within(v, t \o v, Len(t))
<1>1. Len(t \o v) = Len(t) + Len(v) /\ Len(v) \in Nat /\ Len(t) \in Nat
  OBVIOUS
<1>2. ASSUME NEW x \in 1 .. Len(v)
      PROVE  (t \o v)[Len(t) + x] = v[x]
  BY <1>1
<1> QED
  BY <1>1, <1>2 DEF Within

(* Every sequence is in the join, where its offset says; offsets rise.     *)
LEMMA Layout ==
  ASSUME NEW S, NEW n \in Nat, NEW start \in Nat, NEW s \in [1 .. n -> Seq(S)], NEW len, NEW off, NEW f,
         StartsOf(off, len, n, start), JoinOf(f, s, n, S),
         \A i \in 1 .. n : Len(s[i]) = len[i]
  PROVE  \A k \in 1 .. n :
           /\ start + Len(f[k]) = off[k] + len[k]
           /\ \A i \in 1 .. k : Within(s[i], f[k], off[i] - start)
<1> DEFINE Holds(k) ==
             /\ start + Len(f[k]) = off[k] + len[k]
             /\ \A i \in 1 .. k : Within(s[i], f[k], off[i] - start)
           T == {k \in 0 .. n : k # 0 => Holds(k)}
<1>1. 0 \in T
  OBVIOUS
<1>2. ASSUME NEW m \in 0 .. (n - 1), m \in T
      PROVE  m + 1 \in T
  <2> DEFINE k == m + 1
  <2>1. k \in 1 .. n /\ k - 1 = m /\ (k = 1 <=> m = 0) /\ m \in Nat
    OBVIOUS
  <2> HIDE DEF k
  <2>2. /\ off[k] = IF m = 0 THEN start ELSE off[m] + len[m]
        /\ f[k] = IF m = 0 THEN s[1] ELSE f[m] \o s[k]
        /\ off[k] \in Nat /\ f[k] \in Seq(S)
    BY <2>1 DEF StartsOf, JoinOf
  <2>3. s[k] \in Seq(S) /\ Len(s[k]) = len[k] /\ len[k] \in Nat
    BY <2>1
  <2>4. CASE m = 0
    <3>1. k = 1 /\ f[k] = <<>> \o s[k] /\ <<>> \in Seq(S)
      BY <2>1, <2>2, <2>3, <2>4
    <3>2. Within(s[k], f[k], 0)
      <4>1. Within(s[k], <<>> \o s[k], Len(<<>>))
        BY <2>3, <3>1, WithinAppended
      <4> QED
        BY <3>1, <4>1
    <3>3. off[k] - start = 0 /\ Len(f[k]) = len[k]
      BY <2>2, <2>3, <2>4, <3>1
    <3>4. \A i \in 1 .. k : i = k
      BY <3>1
    <3>5. \A i \in 1 .. k : Within(s[i], f[k], off[i] - start)
      BY <3>2, <3>3, <3>4
    <3>6. start + Len(f[k]) = off[k] + len[k]
      BY <2>2, <2>3, <2>4, <3>3
    <3>7. Holds(k)
      BY <3>5, <3>6
    <3> QED
      BY <2>1, <3>7 DEF k
  <2>5. CASE m # 0
    <3>1. Holds(m)
      BY <1>2, <2>5
    <3>2. m \in 1 .. n /\ m \in 1 .. m
      BY <2>1, <2>5
    <3>3. f[m] \in Seq(S) /\ off[m] \in Nat /\ len[m] \in Nat /\ f[k] = f[m] \o s[k]
      <4>1. f[m] \in Seq(S) /\ off[m] \in Nat
        BY <3>2 DEF StartsOf, JoinOf
      <4>2. Len(s[m]) = len[m] /\ s[m] \in Seq(S)
        BY <3>2
      <4>3. len[m] \in Nat
        BY <4>2
      <4> QED
        BY <2>2, <2>5, <4>1, <4>3
    <3>4. Len(f[k]) = Len(f[m]) + Len(s[k]) /\ Len(f[m]) \in Nat
      <4>1. Len(f[m] \o s[k]) = Len(f[m]) + Len(s[k])
        BY <2>3, <3>3, ConcatProperties
      <4> QED
        BY <3>3, <4>1
    <3>5. off[k] = off[m] + len[m]
      BY <2>2, <2>5
    <3>6. off[k] - start = Len(f[m]) /\ start + Len(f[k]) = off[k] + len[k]
      BY SMTT(30), <2>3, <3>1, <3>3, <3>4, <3>5
    <3>7. Within(s[k], f[k], off[k] - start)
      BY <2>3, <3>3, <3>6, WithinAppended
    <3>8. ASSUME NEW i \in 1 .. k
          PROVE  Within(s[i], f[k], off[i] - start)
      <4>1. CASE i = k
        BY <4>1, <3>7
      <4>2. CASE i # k
        <5>1. i \in 1 .. m /\ i \in 1 .. n
          BY <2>1, <4>2
        <5>2. Within(s[i], f[m], off[i] - start) /\ s[i] \in Seq(S)
          BY <3>1, <5>1
        <5> QED
          BY <2>3, <3>3, <5>2, WithinLonger
      <4> QED
        BY <4>1, <4>2
    <3>9. Holds(k)
      BY <3>6, <3>8
    <3> QED
      BY <2>1, <3>9 DEF k
  <2> QED
    BY <2>4, <2>5
<1>3. 0 .. n \subseteq T
  <2> HIDE DEF T
  <2> QED
    BY <1>1, <1>2, InductionUpTo
<1>4. ASSUME NEW k \in 1 .. n
      PROVE  Holds(k)
  <2>1. k \in 0 .. n /\ k # 0
    OBVIOUS
  <2>2. k \in T
    BY <1>3, <2>1
  <2> QED
    BY <2>1, <2>2
<1> QED
  BY <1>4
=============================================================================
