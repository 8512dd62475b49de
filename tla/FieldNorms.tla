----------------------------- MODULE FieldNorms -----------------------------
(***************************************************************************)
(* The length of a field on its way from the writer to a score: 1/sqrt(n)  *)
(* is rounded to one byte of a floating-point format, decoded to a length, *)
(* averaged over a sample of the documents, and weighed by BM25 or tf-idf. *)
(* The floats are compared exactly, as squares and cross products of       *)
(* integers.  A document's boost is 1, as every caller passes it.          *)
(***************************************************************************)
EXTENDS Sequences, FiniteSetsExt, Integers

CONSTANTS Lengths,      \* token counts of a field
          Collections,  \* sequences of documents: length (0 when absent) and term frequency
          SampleCap     \* AVG_SAMPLE_CAP

VARIABLE what    \* the length or the collection at hand

Nothing == [kind |-> "none"]
Absent == 255    \* encode_norm(lengthNorm(0)): infinity is above the table

-----------------------------------------------------------------------------
(* NORM_TABLE[b] is (4 + Mantissa(b)) * 2^-Exponent(b), and 0 for b = 0.   *)
Mantissa(b) == b % 4
Exponent(b) == 33 - (b \div 4)

(* (c * 2^-k)^2 compared with 1/n; MaxExponent keeps the powers small: the *)
(* lengths are far below 4^MaxExponent / 225.                              *)
MaxExponent == 14
SquareAbove(c, k, n) == IF k < 0 THEN TRUE ELSE k <= MaxExponent /\ c * c * n > 4^k
SquareIs(c, k, n) == k \in 0..MaxExponent /\ c * c * n = 4^k

TableAbove(b, n) == b > 0 /\ SquareAbove(4 + Mantissa(b), Exponent(b), n)
TableIs(b, n) == b > 0 /\ SquareIs(4 + Mantissa(b), Exponent(b), n)

(* f - table[b] > table[b + 1] - f                                         *)
MidBelow(b, n) ==
    LET c == 9 + 2 * Mantissa(b)
    IN  ~SquareAbove(c, Exponent(b) + 1, n) /\ ~SquareIs(c, Exponent(b) + 1, n)

(* The binary search of encode_norm: the last entry not above 1/sqrt(n),   *)
(* an exact hit ending it early.                                           *)
Searched(n) ==
    LET Halve(s, i) ==
          LET mid == (s.hi + s.lo) \div 2
          IN  IF s.hi < s.lo \/ s.hit # {} THEN s
              ELSE IF TableAbove(mid, n) THEN [s EXCEPT !.hi = mid - 1]
              ELSE IF TableIs(mid, n) THEN [s EXCEPT !.hit = {mid}]
              ELSE [s EXCEPT !.lo = mid + 1]
        halves[i \in 0..9] ==
          IF i = 0 THEN [lo |-> 0, hi |-> 255, hit |-> {}] ELSE Halve(halves[i - 1], i)
    IN  halves[9]

(* Mutant: the search's last entry is taken without rounding.              *)
EncodeNormFloor(n) ==
    IF n = 0 THEN Absent
    ELSE LET s == Searched(n) IN IF s.hit # {} THEN Max(s.hit) ELSE s.hi

EncodeNorm(n) ==
    IF n = 0 THEN Absent
    ELSE LET s == Searched(n)
         IN  IF s.hit # {} THEN Max(s.hit) ELSE IF MidBelow(s.hi, n) THEN s.hi + 1 ELSE s.hi

(* Mutant: the norm is decoded without the exponent's bias, and saturates. *)
ApproxFieldLenUnbiased(b) == 300

(* 1/norm^2, rounded, and at least 1.                                      *)
ApproxFieldLen(b) ==
    IF b = 0 \/ Exponent(b) < 0 THEN 1
    ELSE LET d == (4 + Mantissa(b)) * (4 + Mantissa(b))
         IN  Max({1, (2 * 4^Exponent(b) + d) \div (2 * d)})

-----------------------------------------------------------------------------
(* sampled_avg_field_len: the sum of the sampled lengths and their count.  *)
Stride(n) == Max({1, n \div SampleCap})
Sampled(n) == {i \in 1..n : (i - 1) % Stride(n) = 0}

SampledAvg(lens) ==
    LET at    == Sampled(Len(lens))
        total == MapThenSumSet(LAMBDA i : lens[i], at)
    IN  IF total = 0 THEN <<1, 1>> ELSE <<total, Cardinality(at)>>

(* Scores as fractions, without the idf common to all documents; tf-idf's  *)
(* squared.  avg is a sum and a count.                                     *)
Bm25(tf, len, avg) ==
    <<22 * tf * avg[1], 10 * tf * avg[1] + 3 * avg[1] + 9 * len * avg[2]>>

TfIdf(tf, len, avg) == <<tf, len>>

Less(x, y) == x[1] * y[2] < y[1] * x[2]

(* field_len of a document, as the readers report it.                      *)
FieldLen(d) == ApproxFieldLen(EncodeNorm(d.len))

-----------------------------------------------------------------------------
Init == what = Nothing

Take ==
    /\ what = Nothing
    /\ what' \in [kind : {"length"}, n : Lengths] \cup [kind : {"docs"}, docs : Collections]

Next == Take

Spec == Init /\ [][Next]_what

-----------------------------------------------------------------------------
(* The byte stored is the one nearest to 1/sqrt(n), as ZSL's is            *)
(* (writer/norms.rs:28).                                                   *)
NormIsNearest ==
    what.kind = "length" =>
        LET b == EncodeNorm(what.n)
        IN  ~MidBelow(b, what.n) /\ (TableIs(b, what.n) \/ MidBelow(b - 1, what.n)
                                     \/ SquareIs(9 + 2 * Mantissa(b - 1), Exponent(b - 1) + 1, what.n))

(* "higher frequency raises the score, a longer field lowers it"           *)
(* (score.rs:3): of two documents the one with the term at least as often  *)
(* in a field at most as long is never below the other, under either       *)
(* similarity and whatever the byte made of the lengths, and is above it   *)
(* when the term is more frequent or the other field twice as long.        *)
ShapeIsKept ==
    what.kind = "docs" =>
        LET avg == SampledAvg([i \in DOMAIN what.docs |-> FieldLen(what.docs[i])])
            Shape(Score(_, _, _)) ==
              \A i, j \in {k \in DOMAIN what.docs : what.docs[k].tf > 0} :
                 LET x == what.docs[i]
                     y == what.docs[j]
                     sx == Score(x.tf, FieldLen(x), avg)
                     sy == Score(y.tf, FieldLen(y), avg)
                 IN  x.tf >= y.tf /\ x.len <= y.len =>
                       /\ ~Less(sx, sy)
                       /\ x.tf > y.tf \/ y.len >= 2 * x.len => Less(sy, sx)
        IN  Shape(Bm25) /\ Shape(TfIdf)

(* A length kept in one byte is kept well enough to rank by.               *)
NormsRank == NormIsNearest /\ ShapeIsKept
=============================================================================
