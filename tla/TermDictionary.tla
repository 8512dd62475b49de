--------------------------- MODULE TermDictionary ---------------------------
(***************************************************************************)
(* The term dictionary of a segment: the writer that streams .tis, .tii,   *)
(* .frq and .prx, term by term, and the reader that answers from them with *)
(* one seek into the sparse index.  Offsets into .tis count entries; .frq  *)
(* and .prx are sequences of the numbers that the code writes as VInts.    *)
(***************************************************************************)
EXTENDS SequencesExt, FiniteSetsExt, Integers

CONSTANTS Fields,    \* field names, as numbers in their order
          Texts,     \* term texts: sequences of letters
          DocLists,  \* postings a term may have
          Interval   \* INDEX_INTERVAL


VARIABLES names,     \* the field names by field number
          tis, tii, frq, prx,
          prev, idxPrev, lastIndexPosition,
          cur,       \* the term begun by begin_term
          todo,      \* its postings still to add
          written,   \* what the files must answer
          done

vars == <<names, tis, tii, frq, prx, prev, idxPrev, lastIndexPosition, cur, todo, written, done>>

-----------------------------------------------------------------------------
(* Order.                                                                  *)
TextBefore(a, b) ==
    \/ IsStrictPrefix(a, b)
    \/ \E i \in DOMAIN a \cap DOMAIN b : a[i] < b[i] /\ \A j \in 1..(i - 1) : a[j] = b[j]

Before(k, l) == k[1] < l[1] \/ (k[1] = l[1] /\ TextBefore(k[2], l[2]))

AtMost(k, l) == k = l \/ Before(k, l)

NoTerm == [text |-> <<>>, num |-> -1, fp |-> 0, pp |-> 0]

-----------------------------------------------------------------------------
(* Writer.                                                                 *)
CommonPrefix(a, b) ==
    Max({n \in 0..Len(a) : n <= Len(b) /\ SubSeq(a, 1, n) = SubSeq(b, 1, n)})

(* Mutant: the prefix is counted one letter too long.                      *)
DumpEntryLong(p, num, text, df, fp, pp) ==
    LET shared == IF p.num = num THEN CommonPrefix(p.text, text) ELSE 0
    IN  [shared |-> shared, suffix |-> SubSeq(text, shared + 2, Len(text)),
         num |-> num, df |-> df, fd |-> fp - p.fp, pd |-> pp - p.pp]

DumpEntry(p, num, text, df, fp, pp) ==
    LET shared == IF p.num = num THEN CommonPrefix(p.text, text) ELSE 0
    IN  [shared |-> shared, suffix |-> SubSeq(text, shared + 1, Len(text)),
         num |-> num, df |-> df, fd |-> fp - p.fp, pd |-> pp - p.pp]

IndexPosition == Len(tis) + 1

(* dump_tis_entry.                                                         *)
DumpTisEntry(num, text, df, fp, pp) ==
    /\ tis' = Append(tis, DumpEntry(prev, num, text, df, fp, pp))
    /\ prev' = [text |-> text, num |-> num, fp |-> fp, pp |-> pp]
    /\ IF Len(tis') % Interval # 0 THEN UNCHANGED <<tii, idxPrev, lastIndexPosition>>
       ELSE /\ tii' = Append(tii, DumpEntry(idxPrev, num, text, df, fp, pp)
                                      @@ [idelta |-> IndexPosition - lastIndexPosition])
            /\ lastIndexPosition' = IndexPosition
            /\ idxPrev' = prev'

Gaps(s) == [i \in DOMAIN s |-> s[i] - IF i = 1 THEN 0 ELSE s[i - 1]]

(* What one document adds to .frq.                                         *)
FreqCode(delta, positions) ==
    IF Len(positions) > 1 THEN <<2 * delta, Len(positions)>> ELSE <<2 * delta + 1>>

(* write_term_postings.                                                    *)
FreqCodes(docs) ==
    FlattenSeq([i \in DOMAIN docs |->
        FreqCode(docs[i][1] - IF i = 1 THEN 0 ELSE docs[i - 1][1], docs[i][2])])

ProxCodes(docs) == FlattenSeq([i \in DOMAIN docs |-> Gaps(docs[i][2])])

Keys == Fields \X Texts

NumOf(f) == CHOOSE n \in DOMAIN names : names[n] = f

(* Terms arrive in the order of field name and text.                       *)
InOrder(k) == \A l \in DOMAIN written : Before(l, k)

Idle == ~done /\ cur.df = -1

NotBegun == [num |-> -1, text |-> <<>>, fp |-> 0, pp |-> 0, df |-> -1, doc |-> 0]

AddTerm(k, docs) ==
    /\ Idle /\ InOrder(k) /\ docs # <<>>
    /\ DumpTisEntry(NumOf(k[1]), k[2], Len(docs), Len(frq), Len(prx))
    /\ frq' = frq \o FreqCodes(docs)
    /\ prx' = prx \o ProxCodes(docs)
    /\ written' = (k :> docs) @@ written
    /\ UNCHANGED <<names, cur, todo, done>>

BeginTerm(k, docs) ==
    /\ Idle /\ InOrder(k)
    /\ cur' = [num |-> NumOf(k[1]), text |-> k[2], fp |-> Len(frq), pp |-> Len(prx), df |-> 0, doc |-> 0]
    /\ todo' = docs
    /\ written' = IF docs = <<>> THEN written ELSE (k :> docs) @@ written
    /\ UNCHANGED <<names, tis, tii, frq, prx, prev, idxPrev, lastIndexPosition, done>>

AddPosting ==
    /\ cur.df >= 0 /\ todo # <<>>
    /\ LET p == Head(todo)
       IN  /\ frq' = frq \o FreqCode(p[1] - cur.doc, p[2])
           /\ prx' = prx \o Gaps(p[2])
           /\ cur' = [cur EXCEPT !.doc = p[1], !.df = @ + 1]
    /\ todo' = Tail(todo)
    /\ UNCHANGED <<names, tis, tii, prev, idxPrev, lastIndexPosition, written, done>>

(* Mutant: a term with no postings left is written all the same.           *)
EndTermKeeps ==
    /\ cur.df >= 0 /\ todo = <<>>
    /\ DumpTisEntry(cur.num, cur.text, cur.df, cur.fp, cur.pp)
    /\ cur' = NotBegun
    /\ UNCHANGED <<names, frq, prx, todo, written, done>>

(* A term that kept no posting is dropped.                                 *)
EndTerm ==
    /\ cur.df >= 0 /\ todo = <<>>
    /\ IF cur.df = 0 THEN UNCHANGED <<tis, tii, prev, idxPrev, lastIndexPosition>>
       ELSE DumpTisEntry(cur.num, cur.text, cur.df, cur.fp, cur.pp)
    /\ cur' = NotBegun
    /\ UNCHANGED <<names, frq, prx, todo, written, done>>

Finish ==
    /\ Idle
    /\ done' = TRUE
    /\ UNCHANGED <<names, tis, tii, frq, prx, prev, idxPrev, lastIndexPosition, cur, todo, written>>

Init ==
    /\ names \in {s \in [1..Cardinality(Fields) -> Fields] : IsInjective(s)}
    /\ tis = <<>> /\ tii = <<>> /\ frq = <<>> /\ prx = <<>>
    /\ prev = NoTerm /\ idxPrev = NoTerm /\ lastIndexPosition = 0
    /\ cur = NotBegun /\ todo = <<>> /\ written = <<>> /\ done = FALSE

Next ==
    \/ \E k \in Keys, docs \in DocLists : AddTerm(k, docs) \/ BeginTerm(k, docs)
    \/ AddPosting \/ EndTerm \/ Finish

Spec == Init /\ [][Next]_vars

-----------------------------------------------------------------------------
(* Reader.                                                                 *)
(* One entry, given the one before it.                                     *)
DecodeEntry(s, e) ==
    [key |-> <<names[e.num], SubSeq(s.key[2], 1, e.shared) \o e.suffix>>,
     df |-> e.df, fp |-> s.fp + e.fd, pp |-> s.pp + e.pd]

(* The entries of seq, decoded one after the other from the state s.       *)
Decode(s, seq) ==
    Tail(FoldLeft(LAMBDA acc, e : Append(acc, DecodeEntry(Last(acc), e)), <<s>>, seq))

Synthetic == [key |-> <<0, <<>>>>, df |-> 0, fp |-> 0, pp |-> 0]

(* The sparse index and, entry by entry, where scanning goes on in .tis.   *)
Index == <<Synthetic>> \o Decode(Synthetic, tii)

Offset(i) == FoldLeft(LAMBDA n, e : n + e.idelta, 0, SubSeq(tii, 1, i - 1))

(* The last sample at or before the key.                                   *)
AnchorOf(key) == Cardinality({i \in DOMAIN Index : AtMost(Index[i].key, key)})

(* What a scan from the anchor of key decodes.                             *)
Scan(key) ==
    LET a == AnchorOf(key)
    IN  Decode(Index[a], SubSeq(tis, Offset(a) + 1, Len(tis)))

(* s up to the first element where Stop holds, it excluded.                *)
Until(s, Stop(_)) == SubSeq(s, 1, Min({i \in DOMAIN s : Stop(s[i])} \cup {Len(s) + 1}) - 1)

FirstOf(s, n) == SubSeq(s, 1, IF Len(s) < n THEN Len(s) ELSE n)

AnchorEntry(key) == Index[AnchorOf(key)]

InfoOf(e) == [df |-> e.df, fp |-> e.fp, pp |-> e.pp]

(* At most one: the anchor itself, or the entry the scan stops at.         *)
Info(f, t) ==
    LET key == <<f, t>>
        rest == Scan(key)
        passed == Len(Until(rest, LAMBDA e : AtMost(key, e.key)))
    IN  IF AnchorEntry(key).key = key /\ t # <<>> THEN {InfoOf(AnchorEntry(key))}
        ELSE IF passed < Len(rest) /\ rest[passed + 1].key = key THEN {InfoOf(rest[passed + 1])}
        ELSE {}

(* The texts of field f that the anchor and the scan contribute.           *)
Collected(f, key, Wanted(_), Stop(_)) ==
    LET a == AnchorEntry(key)
        own == IF a.key[1] = f /\ a.key[2] # <<>> /\ Wanted(a.key[2]) THEN <<a.key[2]>> ELSE <<>>
        scanned == Until(Scan(key), LAMBDA e : e.key[1] > f \/ (e.key[1] = f /\ Stop(e.key[2])))
        found == SelectSeq(scanned, LAMBDA e : e.key[1] = f /\ Wanted(e.key[2]))
    IN  own \o [i \in DOMAIN found |-> found[i].key[2]]

(* Mutant: the scan ends at the first term without the prefix.             *)
TermsWithPrefixLimitedHasty(f, p, limit) ==
    FirstOf(Collected(f, <<f, p>>, LAMBDA t : IsPrefix(p, t), LAMBDA t : ~IsPrefix(p, t)), limit)

TermsWithPrefixLimited(f, p, limit) ==
    FirstOf(Collected(f, <<f, p>>, LAMBDA t : IsPrefix(p, t),
                      LAMBDA t : ~IsPrefix(p, t) /\ TextBefore(p, t)), limit)

(* Mutant: the upper bound ends the scan before it is collected.           *)
TermsInRangeExclusive(f, lo, hi) ==
    Collected(f, <<f, lo>>, LAMBDA t : ~TextBefore(t, lo) /\ TextBefore(t, hi),
              LAMBDA t : ~TextBefore(t, hi))

TermsInRange(f, lo, hi) ==
    Collected(f, <<f, lo>>, LAMBDA t : ~TextBefore(t, lo) /\ ~TextBefore(hi, t),
              LAMBDA t : TextBefore(hi, t))

FieldTerms(f) ==
    SelectSeq(Until(Scan(<<f, <<>>>>), LAMBDA e : e.key[1] > f), LAMBDA e : e.key[1] = f)

(* The merge's cursor.                                                     *)
DecodeAll == Decode(Synthetic, tis)

(* read_all_positions: one document per step over both files.              *)
ReadAllPositions(info) ==
    FoldLeft(LAMBDA s, i :
        LET v == frq[s.f + 1]
            freq == IF v % 2 = 1 THEN 1 ELSE frq[s.f + 2]
            doc == s.doc + (v \div 2)
            Position(n) == FoldLeft(LAMBDA sum, j : sum + prx[s.p + j], 0, [j \in 1..n |-> j])
        IN  [f |-> s.f + (IF v % 2 = 1 THEN 1 ELSE 2), p |-> s.p + freq, doc |-> doc,
             out |-> Append(s.out, <<doc, [n \in 1..freq |-> Position(n)]>>)],
        [f |-> info.fp, p |-> info.pp, doc |-> 0, out |-> <<>>],
        [i \in 1..info.df |-> i]).out

-----------------------------------------------------------------------------
(* What the dictionary of the written terms answers, without any file.     *)
Sorted(S) == CHOOSE s \in [1..Cardinality(S) -> S] :
                 \A i, j \in 1..Cardinality(S) : i < j => TextBefore(s[i], s[j])

Matching(f, Wanted(_)) == Sorted({t \in Texts : <<f, t>> \in DOMAIN written /\ Wanted(t)})

(* A term is found exactly if it was written, by a whole-term call or       *)
(* posting by posting, whatever samples the index has, and its pointers     *)
(* lead to its own documents and positions (terms.rs:338, postings.rs:102). *)
LookupIsExact ==
    done => \A k \in Keys :
        LET found == Info(k[1], k[2])
        IN  IF k \in DOMAIN written
            THEN Cardinality(found) = 1 /\ \A i \in found : ReadAllPositions(i) = written[k]
            ELSE found = {}

(* A prefix scan returns the first terms of its field with the prefix, in   *)
(* order, wherever the sample it starts from lies (terms.rs:387).           *)
PrefixScanIsExact ==
    done => \A f \in Fields, p \in Texts \cup {<<>>}, limit \in 1..3 :
        TermsWithPrefixLimited(f, p, limit) = FirstOf(Matching(f, LAMBDA t : IsPrefix(p, t)), limit)

(* A range scan returns the terms between its bounds, both included         *)
(* (terms.rs:446).                                                          *)
RangeScanIsExact ==
    done => \A f \in Fields, lo, hi \in Texts \cup {<<>>} :
        TermsInRange(f, lo, hi) = Matching(f, LAMBDA t : ~TextBefore(t, lo) /\ ~TextBefore(hi, t))

(* The merge's cursor walks every term once in canonical order, and a       *)
(* field's walk is its part, with the same pointers (terms.rs:496, 538).    *)
WalksAgree ==
    done =>
        /\ {DecodeAll[i].key : i \in DOMAIN DecodeAll} = DOMAIN written
        /\ \A i \in 2..Len(DecodeAll) : Before(DecodeAll[i - 1].key, DecodeAll[i].key)
        /\ \A f \in Fields : FieldTerms(f) = SelectSeq(DecodeAll, LAMBDA e : e.key[1] = f)

(* The files of a dictionary answer as the set of its terms would.         *)
DictionaryIsExact == LookupIsExact /\ PrefixScanIsExact /\ RangeScanIsExact /\ WalksAgree
=============================================================================
