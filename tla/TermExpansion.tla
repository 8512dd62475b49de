--------------------------- MODULE TermExpansion ---------------------------
(***************************************************************************)
(* The leaves of a query that reach more than one term: wildcards, typos,  *)
(* accent variants and phrases over them, asked of one field of one index. *)
(* A word is a sequence of characters, integers in the order of their      *)
(* UTF-8 bytes.                                                            *)
(***************************************************************************)
EXTENDS SequencesExt, FiniteSetsExt, Functions, Integers

CONSTANTS Forms,        \* the accented forms of a character, in order
          Bare,         \* the character without its accent
          Bytes,        \* its bytes
          MaxVariant,   \* MAX_VARIANT_CHARS
          MaxWildcard,  \* MAX_WILDCARD_TERMS
          MaxFuzzy,     \* MAX_FUZZY_TERMS
          Corpora,      \* documents, as sequences of words
          Words, Patterns, Phrases, Settings, MaxAsked

Space == 0
Star == 98
Question == 99

VARIABLES docs, setting, answers

vars == <<docs, setting, answers>>

-----------------------------------------------------------------------------
(* Characters, words and the dictionary.                                   *)

Fold(w) == [i \in DOMAIN w |-> Bare[w[i]]]

BytesOf(w) == FlattenSeq([i \in DOMAIN w |-> Bytes[w[i]]])

Before(v, w) ==
    \E n \in 0..Len(v) :
        /\ IsPrefix(SubSeq(v, 1, n), w)
        /\ n < Len(w)
        /\ n < Len(v) => v[n + 1] < w[n + 1]

Dictionary == UNION {ToSet(docs[d]) : d \in DOMAIN docs}

FirstWords(S, limit) ==
    [i \in 1..Min({limit, Cardinality(S)}) |->
        CHOOSE w \in S : Cardinality({v \in S : Before(v, w)}) = i - 1]

TermsWithPrefix(p) == {w \in Dictionary : IsPrefix(p, w)}

PositionsIn(w, d) == {i \in DOMAIN docs[d] : docs[d][i] = w}

-----------------------------------------------------------------------------
(* Accent variants: the typed form, the folded one, then one accent at a   *)
(* time.                                                                   *)

(* Mutant: the folded form comes first.                                    *)
AccentVariantsFolded(w) ==
    LET base == Fold(w)
        At(i) == [k \in DOMAIN Forms[base[i]] |-> [base EXCEPT ![i] = Forms[base[i]][k]]]
        accented == FlattenSeq([i \in DOMAIN base |-> At(i)])
        Untyped(v) == v # w
    IN  (IF base = w THEN <<w>> ELSE <<base, w>>)
        \o (IF Len(base) > MaxVariant THEN <<>> ELSE SelectSeq(accented, Untyped))

(* Mutant: only the base of the typed form gets accents.                   *)
AccentVariantsTyped(w) ==
    LET At(i) == [k \in DOMAIN Forms[w[i]] |-> [w EXCEPT ![i] = Forms[w[i]][k]]]
    IN  <<w>> \o (IF Fold(w) = w THEN FlattenSeq([i \in DOMAIN w |-> At(i)]) ELSE <<Fold(w)>>)

AccentVariants(w) ==
    LET base == Fold(w)
        At(i) == [k \in DOMAIN Forms[base[i]] |-> [base EXCEPT ![i] = Forms[base[i]][k]]]
        accented == FlattenSeq([i \in DOMAIN base |-> At(i)])
        Untyped(v) == v # w
    IN  (IF base = w THEN <<w>> ELSE <<w, base>>)
        \o (IF Len(base) > MaxVariant THEN <<>> ELSE SelectSeq(accented, Untyped))

AccentVariantTerms(w) == SelectSeq(AccentVariants(w), LAMBDA v : v \in Dictionary)

-----------------------------------------------------------------------------
(* Wildcards: the literal prefix picks the terms, capped, and the pattern  *)
(* filters them.                                                           *)

LiteralPrefix(p) ==
    LET wild == {i \in DOMAIN p : p[i] \in {Star, Question}}
    IN  IF wild = {} THEN p ELSE SubSeq(p, 1, Min(wild) - 1)

(* ^pattern$, with * for any characters and ? for one.                     *)
IsMatch(p, w) ==
    LET M[i \in 0..Len(p), j \in 0..Len(w)] ==
          CASE i = 0 -> j = 0
            [] i > 0 /\ p[i] = Star -> M[i - 1, j] \/ (j > 0 /\ M[i, j - 1])
            [] OTHER -> j > 0 /\ p[i] \in {Question, w[j]} /\ M[i - 1, j - 1]
    IN  M[Len(p), Len(w)]

WildcardTerms(p, min) ==
    IF Len(BytesOf(LiteralPrefix(p))) < min THEN <<>>
    ELSE SelectSeq(FirstWords(TermsWithPrefix(LiteralPrefix(p)), MaxWildcard),
                   LAMBDA w : IsMatch(p, w))

(* Mutant: every bucket gets the whole cap.                                *)
BucketTermsFull(p, found, bucket) ==
    SelectSeq(FirstWords(TermsWithPrefix(bucket), MaxWildcard), LAMBDA w : IsMatch(Fold(p), Fold(w)))

BucketTerms(p, found, bucket) ==
    SelectSeq(FirstWords(TermsWithPrefix(bucket), MaxWildcard - Len(found)),
              LAMBDA w : IsMatch(Fold(p), Fold(w)))

AccentWildcardTerms(p, min) ==
    LET prefix == LiteralPrefix(Fold(p))
        Add(found, bucket) == found \o BucketTerms(p, found, bucket)
    IN  IF Len(BytesOf(prefix)) < min THEN <<>>
        ELSE IF Space \in ToSet(prefix) THEN WildcardTerms(p, min)
        ELSE FoldLeft(Add, <<>>, AccentVariants(LiteralPrefix(p)))

-----------------------------------------------------------------------------
(* levenshtein_bytes: two rows of the table, swapped after each byte of a. *)

(* Mutant: a transposed pair costs one.                                    *)
NextRowTransposed(a, b, i, prev) ==
    LET Cost(j) == IF a[i] = b[j] \/ (i > 1 /\ j > 1 /\ a[i] = b[j - 1] /\ a[i - 1] = b[j]) THEN 0 ELSE 1
        Cell(cur, j) == Append(cur, Min({prev[j + 1] + 1, cur[j] + 1, prev[j] + Cost(j)}))
    IN  FoldLeft(Cell, <<i>>, [j \in DOMAIN b |-> j])

(* The row of a's i-th byte: row[j + 1] is the distance to b's first j.    *)
NextRow(a, b, i, prev) ==
    LET Cost(j) == IF a[i] = b[j] THEN 0 ELSE 1
        Cell(cur, j) == Append(cur, Min({prev[j + 1] + 1, cur[j] + 1, prev[j] + Cost(j)}))
    IN  FoldLeft(Cell, <<i>>, [j \in DOMAIN b |-> j])

LevenshteinBytes(a, b) ==
    IF a = <<>> THEN Len(b) ELSE IF b = <<>> THEN Len(a)
    ELSE LET Step(prev, i) == NextRow(a, b, i, prev)
         IN  FoldLeft(Step, [j \in 1..(Len(b) + 1) |-> j - 1], [i \in DOMAIN a |-> i])[Len(b) + 1]

(* Zend's similarity is 1 - d/m, here <<d, m>>; <<1, 1>> is none.          *)
ZendSimilarity(rest, target, prefix, min) ==
    LET shorter == Min({Len(rest), Len(target)})
        gap == IF Len(rest) > Len(target) THEN Len(rest) - Len(target) ELSE Len(target) - Len(rest)
        maxDistance == ((min[2] - min[1]) * (shorter + prefix)) \div min[2]
    IN  CASE (rest = <<>> \/ target = <<>>) /\ prefix = 0 -> <<1, 1>>
          [] (rest = <<>> \/ target = <<>>) /\ prefix > 0 -> <<gap, prefix>>
          [] rest # <<>> /\ target # <<>> /\ maxDistance < gap -> <<1, 1>>
          [] OTHER -> <<LevenshteinBytes(rest, target), prefix + shorter>>

(* 1 - d/m > min, and the order of similarities.                           *)
Above(s, min) == (s[2] - s[1]) * min[2] > min[1] * s[2]
Closer(s, t) == s[1] * t[2] < t[1] * s[2]

(* Mutant: the seed stays as it was typed.                                 *)
SeedTyped(w, accents) == w

Seed(w, accents) == IF accents THEN Fold(w) ELSE w

Key(cand, accents) == BytesOf(IF accents THEN Fold(cand) ELSE cand)

(* The bytes of the prefix in the seed, where every candidate is cut.      *)
Cut(w, n, accents) == Len(BytesOf(SubSeq(Seed(w, accents), 1, Min({n, Len(w)}))))

FuzzyBuckets(w, n, accents) ==
    LET prefix == SubSeq(w, 1, Min({n, Len(w)}))
    IN  IF accents THEN ToSet(AccentVariants(prefix)) ELSE {prefix}

(* Past the cap, the closest terms, then the first.                        *)
MostSimilar(matched) ==
    {m \in matched :
        Cardinality({o \in matched : \/ Closer(o[2], m[2])
                                     \/ ~Closer(m[2], o[2]) /\ Before(o[1], m[1])}) < MaxFuzzy}

(* Pairs of a term and its similarity; the boost grows with it, from 0 at  *)
(* min to 1 at <<0, m>>.                                                   *)
FuzzyTerms(w, min, n, accents) ==
    LET cut == Cut(w, n, accents)
        rest == LET s == BytesOf(Seed(w, accents)) IN SubSeq(s, cut + 1, Len(s))
        Sim(c) == ZendSimilarity(rest, SubSeq(Key(c, accents), cut + 1, Len(Key(c, accents))),
                                 Min({n, Len(w)}), min)
        cands == UNION {TermsWithPrefix(b) : b \in FuzzyBuckets(w, n, accents)}
    IN  MostSimilar({<<c, Sim(c)>> : c \in {x \in cands : Above(Sim(x), min)}})

-----------------------------------------------------------------------------
(* Phrases: the positions of every word, its variants merged, and docs     *)
(* that have one of the first word's followed by all the others.           *)
MergedPositions(ws) ==
    [d \in {x \in DOMAIN docs : \E w \in ToSet(ws) : PositionsIn(w, x) # {}} |->
        UNION {PositionsIn(w, d) : w \in ToSet(ws)}]

(* Mutant: each word after the one before it, wherever that one is.        *)
AdjacentByPair(per, d) ==
    \A i \in 1..(Len(per) - 1) : \E p \in per[i][d] : p + 1 \in per[i + 1][d]

Adjacent(per, d) == \E p \in per[1][d] : \A i \in 1..(Len(per) - 1) : p + i \in per[i + 1][d]

PhraseDocs(phrase, accents, restrict) ==
    IF phrase = <<>> THEN {}
    ELSE LET per == [i \in DOMAIN phrase |->
                        MergedPositions(IF accents THEN AccentVariantTerms(phrase[i]) ELSE <<phrase[i]>>)]
             candidates == {d \in restrict : \A i \in DOMAIN per : d \in DOMAIN per[i]}
         IN  {d \in candidates : Adjacent(per, d)}

(* union_scores, with a document's frequencies for its score.              *)
UnionScores(ws, restrict) ==
    LET hit == {d \in restrict : \E w \in ToSet(ws) : PositionsIn(w, d) # {}}
    IN  [d \in hit |-> MapThenSumSet(LAMBDA w : Cardinality(PositionsIn(w, d)), ToSet(ws))]

-----------------------------------------------------------------------------
Init == docs \in Corpora /\ setting \in Settings /\ answers = [q \in {} |-> {}]

(* A client that tries one spelling after another, with accents or without.*)
Reply(kind, accents, what, reply) ==
    /\ Cardinality(DOMAIN answers) < MaxAsked
    /\ \A q \in DOMAIN answers : q[1] = kind /\ Fold(q[3]) = Fold(what)
    /\ <<kind, accents, what>> \notin DOMAIN answers
    /\ answers' = (<<kind, accents, what>> :> reply) @@ answers
    /\ UNCHANGED <<docs, setting>>

Wildcard == \E p \in Patterns, accents \in BOOLEAN :
    LET found == IF accents THEN AccentWildcardTerms(p, setting.min_prefix)
                 ELSE WildcardTerms(p, setting.min_prefix)
    IN  Reply("wildcard", accents, p, <<found, UnionScores(found, setting.restrict \cap DOMAIN docs)>>)

Fuzzy == \E w \in Words, accents \in BOOLEAN :
    Reply("fuzzy", accents, w, FuzzyTerms(w, setting.min, setting.prefix_length, accents))

AccentTerm == \E w \in Words :
    Reply("term", TRUE, w, UnionScores(AccentVariantTerms(w), setting.restrict \cap DOMAIN docs))

Phrase == \E p \in Phrases, accents \in BOOLEAN :
    /\ answers = [q \in {} |-> {}]
    /\ answers' = <<"phrase", accents, p>> :> PhraseDocs(p, accents, setting.restrict \cap DOMAIN docs)
    /\ UNCHANGED <<docs, setting>>

Next == Wildcard \/ Fuzzy \/ AccentTerm \/ Phrase

Spec == Init /\ [][Next]_vars

-----------------------------------------------------------------------------
Accents(w) == Cardinality({i \in DOMAIN w : Bare[w[i]] # w[i]})

(* A word the variants cover in both spellings.                            *)
Plain(w) == Accents(w) <= 1 /\ Len(w) <= MaxVariant

(* The terms that the accented buckets of a pattern hold.                  *)
Reachable(p) == UNION {TermsWithPrefix(b) : b \in ToSet(AccentVariants(LiteralPrefix(p)))}

(* With accent_insensitive, two spellings of a word have the same terms,   *)
(* the same scores and the same boosts, as docs/API.md promises, unless a  *)
(* wildcard meets its cap or a prefix spans words (search.rs:268, :316).   *)
SpellingsAgree ==
    \A q, r \in DOMAIN answers :
        q[1] = r[1] /\ q[1] # "phrase" /\ q[2] /\ r[2] /\ Plain(q[3]) /\ Plain(r[3]) =>
            IF q[1] # "wildcard" THEN answers[q] = answers[r]
            ELSE Cardinality(Reachable(q[3])) <= MaxWildcard /\ Space \notin ToSet(LiteralPrefix(q[3])) =>
                     /\ ToSet(answers[q][1]) = ToSet(answers[r][1])
                     /\ answers[q][2] = answers[r][2]

(* Accent folding never costs a wildcard a term that the typed spelling    *)
(* reaches by itself, not even when the cap cuts the variants: the typed   *)
(* bucket is filled first (search.rs:294).  Only the gate may close.       *)
PlainSurvives ==
    \A q, r \in DOMAIN answers :
        /\ q[1] = "wildcard" /\ r[1] = "wildcard" /\ q[3] = r[3] /\ ~q[2] /\ r[2]
        /\ Len(BytesOf(LiteralPrefix(Fold(q[3])))) >= setting.min_prefix
        => ToSet(answers[q][1]) \subseteq ToSet(answers[r][1])

(* The cap bounds the union of the buckets, and no term comes twice: the   *)
(* buckets are disjoint (search.rs:291).                                   *)
WithinTheCap ==
    \A q \in DOMAIN answers : q[1] = "wildcard" =>
        Len(answers[q][1]) <= MaxWildcard /\ IsInjective(answers[q][1])

(* Every candidate of a typo match is at least as long as the cut that is  *)
(* sliced off its bytes; a shorter one would panic (search.rs:332).        *)
CutInRange ==
    \A q \in DOMAIN answers : q[1] = "fuzzy" =>
        \A b \in FuzzyBuckets(q[3], setting.prefix_length, q[2]) :
            \A c \in TermsWithPrefix(b) :
                /\ Len(Key(c, q[2])) >= Cut(q[3], setting.prefix_length, q[2])
                /\ IsPrefix(SubSeq(BytesOf(Seed(q[3], q[2])), 1, Cut(q[3], setting.prefix_length, q[2])),
                            Key(c, q[2]))

(* The distance by its definition, over all ways to edit a into b.         *)
Distance(a, b) ==
    LET D[i \in 0..Len(a), j \in 0..Len(b)] ==
          CASE i = 0 -> j
            [] j = 0 -> i
            [] OTHER -> Min({D[i - 1, j] + 1, D[i, j - 1] + 1,
                             D[i - 1, j - 1] + IF a[i] = b[j] THEN 0 ELSE 1})
    IN  D[Len(a), Len(b)]

(* A typo match finds the terms whose whole distance to the word, prefix   *)
(* included, is within the similarity, the closest when there are too many *)
(* (the gate on the lengths and the cut prefix lose nothing), and only the *)
(* word itself has the boost of an exact match (search.rs:330, :372).      *)
FuzzyIsExact ==
    \A q \in DOMAIN answers : q[1] = "fuzzy" =>
        LET n == Min({setting.prefix_length, Len(q[3])})
            accents == q[2]
            word == BytesOf(Seed(q[3], accents))
            cut == Cut(q[3], n, accents)
            m(c) == n + Min({Len(word), Len(Key(c, accents))}) - cut
            Sim(c) == IF m(c) = 0 THEN <<1, 1>> ELSE <<Distance(word, Key(c, accents)), m(c)>>
            near == {c \in UNION {TermsWithPrefix(b) : b \in FuzzyBuckets(q[3], n, accents)} :
                        Above(Sim(c), setting.min)}
            found == {a[1] : a \in answers[q]}
        IN  /\ found \subseteq near
            /\ \A c \in found, x \in near \ found : ~Closer(Sim(x), Sim(c))
            /\ found # near => Cardinality(found) = MaxFuzzy
            /\ \A a \in answers[q] : a[2][1] = 0 <=> Key(a[1], accents) = word

(* A phrase is found where its words stand one after another, each in any  *)
(* of its spellings, in the documents asked for (search.rs:440).           *)
PhraseIsAdjacent ==
    \A q \in DOMAIN answers : q[1] = "phrase" =>
        LET Spelling(w) == IF q[2] THEN ToSet(AccentVariants(w)) ELSE {w}
        IN  answers[q] = {d \in setting.restrict \cap DOMAIN docs :
                /\ q[3] # <<>>
                /\ \E p \in 0..(Len(docs[d]) - Len(q[3])) :
                      \A i \in DOMAIN q[3] : docs[d][p + i] \in Spelling(q[3][i])}

(* A word reaches the terms it should, whatever its spelling and caps.     *)
ExpansionIsExact ==
    SpellingsAgree /\ PlainSurvives /\ WithinTheCap /\ CutInRange /\ FuzzyIsExact /\ PhraseIsAdjacent
=============================================================================
