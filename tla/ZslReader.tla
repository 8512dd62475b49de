----------------------------- MODULE ZslReader -----------------------------
(***************************************************************************)
(* What an open index answers: ZslIndex over its ZslSegments.  Document    *)
(* ids start at 0 and are global; a segment holds the ids from its base    *)
(* on, deleted documents included.                                         *)
(*                                                                         *)
(* Terms and stored values are integers in dictionary order; those below   *)
(* Texts parse as an i64, the others do not.  A segment has docs, a        *)
(* sequence of functions from field names to the terms and the stored      *)
(* values of the field in write order; dead, the ids that its bitmap       *)
(* deletes; and infos, a function from the fields of its .fnm to whether   *)
(* they are indexed.                                                       *)
(***************************************************************************)
EXTENDS SequencesExt, FiniteSetsExt, Integers

CONSTANT Texts

None == 0 - 1

(* The terms and values of a segment are numbers.                          *)
IsSegment(seg) ==
    /\ seg.docs \in Seq(ToSet(seg.docs))
    /\ \A d \in DOMAIN seg.docs : \A f \in DOMAIN seg.docs[d] :
          seg.docs[d][f].terms \in Seq(Nat) /\ seg.docs[d][f].values \in Seq(Nat)

IsIndex(ss) == ss \in Seq(ToSet(ss)) /\ \A i \in DOMAIN ss : IsSegment(ss[i])

-----------------------------------------------------------------------------
(* One segment: local ids.                                                 *)

MaxDoc(seg) == Len(seg.docs)
LocalIds(seg) == 0..(MaxDoc(seg) - 1)
LiveIds(seg) == LocalIds(seg) \ seg.dead

Field(seg, f, d) ==
    IF f \in DOMAIN seg.docs[d + 1] THEN seg.docs[d + 1][f]
    ELSE [terms |-> <<>>, values |-> <<>>]

TermsAt(seg, f, d) ==
    IF f \in DOMAIN seg.infos /\ seg.infos[f] THEN Field(seg, f, d).terms ELSE <<>>

Positions(seg, f, t, d) == {i \in DOMAIN TermsAt(seg, f, d) : TermsAt(seg, f, d)[i] = t}

HasTerm(seg, f, t, d) == t \in ToSet(TermsAt(seg, f, d))

SegTerms(seg, f) == UNION {ToSet(TermsAt(seg, f, d)) : d \in LocalIds(seg)}

(* The members of S in the order of the pairs in before: the i-th has      *)
(* i - 1 of them before it.                                                *)
InOrder(S, before) ==
    [i \in 1..Cardinality(S) |-> CHOOSE x \in S : Cardinality({y \in S : <<y, x>> \in before}) = i - 1]

Ascending(S) == InOrder(S, {p \in S \X S : p[1] < p[2]})

(* docFreq counts deleted documents; postings leave them out.              *)
SegDocFreq(seg, f, t) == Cardinality({d \in LocalIds(seg) : HasTerm(seg, f, t, d)})

SegPostings(seg, f, t) ==
    LET ids == Ascending({d \in LiveIds(seg) : HasTerm(seg, f, t, d)})
    IN  [i \in DOMAIN ids |-> <<ids[i], Cardinality(Positions(seg, f, t, ids[i]))>>]

(* The first value in write order.                                         *)
SegStoredValue(seg, d, f) ==
    IF f \notin DOMAIN seg.infos \/ Field(seg, f, d).values = <<>> THEN None
    ELSE Field(seg, f, d).values[1]

(* Mutant: a second value is taken for the first.                          *)
SegNumericSortValuesOfAny(seg, f) ==
    IF f \in DOMAIN seg.infos /\ (~seg.infos[f] \/ \E t \in SegTerms(seg, f) : t >= Texts) THEN <<>>
    ELSE LET Entry(d) == LET ts == ToSet(TermsAt(seg, f, d))
                         IN  IF ts = {} THEN None ELSE CHOOSE t \in ts : \A u \in ts : t <= u
         IN  <<[i \in 1..MaxDoc(seg) |-> Entry(i - 1)]>>

(* The table of a field's numbers, <<>> when only the stored values can    *)
(* tell: the field has no terms, one that is not a number, or two in one   *)
(* document.  A field the segment does not know has no value anywhere.     *)
SegNumericSortValues(seg, f) ==
    LET Ts(d) == ToSet(TermsAt(seg, f, d))
        Entry(d) == IF Ts(d) = {} THEN None ELSE CHOOSE t \in Ts(d) : TRUE
        known == f \in DOMAIN seg.infos
    IN  IF \/ known /\ ~seg.infos[f]
           \/ \E d \in LocalIds(seg) : Cardinality(Ts(d)) > 1 \/ \E t \in Ts(d) : t >= Texts
        THEN <<>>
        ELSE <<[i \in 1..MaxDoc(seg) |-> Entry(i - 1)]>>

FirstOf(S, limit) ==
    LET s == Ascending(S) IN IF Len(s) <= limit THEN s ELSE SubSeq(s, 1, limit)

(* A prefix is the interval of the terms that start with it.               *)
SegWithPrefix(seg, f, prefix, limit) == FirstOf(SegTerms(seg, f) \cap prefix, limit)

-----------------------------------------------------------------------------
(* The index: a sequence of segments and their bases.                      *)

(* The first n numbers of f together.                                      *)
SumOf(f, n) ==
    LET upto[k \in 0..n] == IF k = 0 THEN 0 ELSE upto[k - 1] + f[k]
    IN  upto[n]

Base(segs, i) == SumOf([j \in DOMAIN segs |-> MaxDoc(segs[j])], i - 1)

TotalDocs(segs) == Base(segs, Len(segs) + 1)

NumDocs(segs) == SumOf([j \in DOMAIN segs |-> Cardinality(LiveIds(segs[j]))], Len(segs))

(* The segment and local id of a global id, none when it is out of range.  *)
Locate(segs, id) ==
    {<<i, id - Base(segs, i)>> : i \in {j \in DOMAIN segs :
        id >= Base(segs, j) /\ id < Base(segs, j) + MaxDoc(segs[j])}}

IsDeleted(segs, id) == \E at \in Locate(segs, id) : at[2] \in segs[at[1]].dead

DocFreq(segs, f, t) == SumOf([j \in DOMAIN segs |-> SegDocFreq(segs[j], f, t)], Len(segs))

(* Mutant: local ids are passed on.                                        *)
PostingsForLocal(segs, f, t) ==
    FlattenSeq([i \in DOMAIN segs |-> SegPostings(segs[i], f, t)])

PostingsFor(segs, f, t) ==
    LET Global(i) == LET ps == SegPostings(segs[i], f, t)
                     IN  [k \in DOMAIN ps |-> <<Base(segs, i) + ps[k][1], ps[k][2]>>]
    IN  FlattenSeq([i \in DOMAIN segs |-> Global(i)])

PositionsAll(segs, f, t) ==
    LET ids == {p[1] : p \in ToSet(PostingsFor(segs, f, t))}
        At(id) == CHOOSE at \in Locate(segs, id) : TRUE
    IN  [id \in ids |-> Positions(segs[At(id)[1]], f, t, At(id)[2])]

StoredValue(segs, id, f) ==
    IF Locate(segs, id) = {} THEN None
    ELSE LET at == CHOOSE a \in Locate(segs, id) : TRUE
         IN  SegStoredValue(segs[at[1]], at[2], f)

(* One segment without a table sinks the whole table.                      *)
NumericSortValues(segs, f) ==
    LET tables == [i \in DOMAIN segs |-> SegNumericSortValues(segs[i], f)]
    IN  IF \E i \in DOMAIN segs : tables[i] = <<>> THEN <<>>
        ELSE <<FlattenSeq([i \in DOMAIN segs |-> tables[i][1]])>>

(* Mutant: the segments' lists are taken one after another up to the limit.*)
WithPrefixInTurn(segs, f, prefix, limit) ==
    LET all == FlattenSeq([i \in DOMAIN segs |-> SegWithPrefix(segs[i], f, prefix, limit)])
    IN  FirstOf(ToSet(SubSeq(all, 1, IF Len(all) < limit THEN Len(all) ELSE limit)), limit)

TermsWithPrefixLimited(segs, f, prefix, limit) ==
    FirstOf(UNION {ToSet(SegWithPrefix(segs[i], f, prefix, limit)) : i \in DOMAIN segs}, limit)

TermsInRange(segs, f, lo, hi) ==
    Ascending((UNION {SegTerms(segs[i], f) : i \in DOMAIN segs}) \cap lo..hi)

IndexedFields(segs) ==
    UNION {{f \in DOMAIN segs[i].infos : segs[i].infos[f]} : i \in DOMAIN segs}

HasField(segs, f) == \E i \in DOMAIN segs : f \in DOMAIN segs[i].infos
=============================================================================
