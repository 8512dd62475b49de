--------------------------- MODULE SegmentedIndex ---------------------------
(***************************************************************************)
(* An index of any number of segments is asked a question: the answer must *)
(* be what one segment with all the documents would give.                  *)
(***************************************************************************)
EXTENDS ZslReader

CONSTANTS Indexes, Names, Terms, PrefixSets, MaxLimit

ASSUME IndexesAssumption ==
    /\ \A ss \in Indexes : IsIndex(ss)
    /\ Terms \subseteq Nat /\ MaxLimit \in Nat

VARIABLES index, asked, reply

askVars == <<index, asked, reply>>

AskInit == index \in Indexes /\ asked = <<"nothing">> /\ reply = <<>>

Ask(question, answer) ==
    /\ asked[1] = "nothing"
    /\ asked' = question /\ reply' = answer
    /\ UNCHANGED index

AskPostings == \E f \in Names, t \in Terms :
    Ask(<<"postings", f, t>>, <<PostingsFor(index, f, t), DocFreq(index, f, t), PositionsAll(index, f, t)>>)

AskPrefix == \E f \in Names, p \in PrefixSets, n \in 0..MaxLimit :
    Ask(<<"prefix", f, p, n>>, TermsWithPrefixLimited(index, f, p, n))

AskRange == \E f \in Names, lo \in Terms, hi \in Terms :
    Ask(<<"range", f, lo, hi>>, TermsInRange(index, f, lo, hi))

(* One id past the end, too.                                               *)
AskDocument == \E f \in Names, id \in 0..TotalDocs(index) :
    Ask(<<"document", f, id>>, <<IsDeleted(index, id), StoredValue(index, id, f)>>)

AskFields == \E f \in Names :
    Ask(<<"fields", f>>, <<HasField(index, f), f \in IndexedFields(index), NumDocs(index), TotalDocs(index)>>)

AskNext == AskPostings \/ AskPrefix \/ AskRange \/ AskDocument \/ AskFields

AskSpec == AskInit /\ [][AskNext]_askVars

-----------------------------------------------------------------------------
(* All the documents in one row, by global id, and their deletions.        *)
RowOf(ss) == FlattenSeq([i \in DOMAIN ss |-> [d \in 1..MaxDoc(ss[i]) |-> <<i, d - 1>>]])

IdsIn(ss) == 0..(Len(RowOf(ss)) - 1)

GoneIn(ss, id) == RowOf(ss)[id + 1][2] \in ss[RowOf(ss)[id + 1][1]].dead

HereIn(ss, f, id) == TermsAt(ss[RowOf(ss)[id + 1][1]], f, RowOf(ss)[id + 1][2])

AllTermsIn(ss, f) == UNION {ToSet(HereIn(ss, f, id)) : id \in IdsIn(ss)}

PlacesIn(ss, f, t, id) == {k \in DOMAIN HereIn(ss, f, id) : HereIn(ss, f, id)[k] = t}

LiveWith(ss, f, t) == {id \in IdsIn(ss) : ~GoneIn(ss, id) /\ t \in ToSet(HereIn(ss, f, id))}

(* The global ids of the postings ascend, as the binary search of          *)
(* more_like_this relies on (mlt.rs:231), deleted documents keep their id  *)
(* and their part of docFreq, and no document is answered for another one  *)
(* at a segment's border (zsl/index.rs:44, locate).                        *)
AnswersByGlobalId ==
    /\ asked[1] = "postings" =>
         LET f == asked[2]
             t == asked[3]
             ids == Ascending(LiveWith(index, f, t))
         IN  reply = <<[k \in DOMAIN ids |-> <<ids[k], Cardinality(PlacesIn(index, f, t, ids[k]))>>],
                       Cardinality({id \in IdsIn(index) : t \in ToSet(HereIn(index, f, id))}),
                       [id \in ToSet(ids) |-> PlacesIn(index, f, t, id)]>>
    /\ asked[1] = "document" =>
         LET id == asked[3]
             at == RowOf(index)[id + 1]
         IN  reply = IF id \in IdsIn(index)
                     THEN <<GoneIn(index, id), SegStoredValue(index[at[1]], at[2], asked[2])>>
                     ELSE <<FALSE, None>>

(* The first terms of a prefix are the first of the whole index, though    *)
(* each segment gives at most the limit of its own (zsl/index.rs:136).     *)
FirstTermsOfAll ==
    /\ asked[1] = "prefix" => reply = FirstOf(AllTermsIn(index, asked[2]) \cap asked[3], asked[4])
    /\ asked[1] = "range" =>
         reply = Ascending({t \in AllTermsIn(index, asked[2]) : asked[3] <= t /\ t <= asked[4]})

(* Several segments answer as one index would.                             *)
AnswersAsOneIndex == AnswersByGlobalId /\ FirstTermsOfAll
=============================================================================
