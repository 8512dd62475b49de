---------------------------- MODULE MoreLikeThis ----------------------------
(***************************************************************************)
(* more_like_this_index: the reference document is resolved by its id, its *)
(* distinctive terms are scored one by one until the timeout, and what     *)
(* they reach is filtered.  The clock is read before every term but the    *)
(* first, and may be past the deadline from any reading on.                *)
(***************************************************************************)
EXTENDS TermSelection

CONSTANT Lookups   \* sets of indexes with the requests to look up in them

VARIABLES ix, req, pc,
          source,    \* the reference document, {} before it is resolved
          selected,  \* the terms to score
          i,         \* how many of them are scored
          late,      \* TRUE once the deadline has been found past
          score,     \* for each document reached, the terms that reached it
          hits       \* the documents returned

vars == <<ix, req, pc, source, selected, i, late, score, hits>>

-----------------------------------------------------------------------------
(* Mutant: the percentage is of the terms asked for.                       *)
ThresholdOfAsked(selectedCount, msm) ==
    IF msm.percent THEN (msm.n * (selectedCount + 1)) \div 100 ELSE msm.n

Threshold(selectedCount, msm) ==
    IF msm.percent THEN (msm.n * selectedCount) \div 100 ELSE msm.n

MsmThreshold == IF req.msm = {} THEN 0 ELSE Threshold(Len(selected), The(req.msm))

Reached == DOMAIN score

(* The reached documents without the source, and those that matched too    *)
(* few terms when a threshold above one is tracked.                        *)
Similar ==
    {d \in Reached \ source :
        MsmThreshold > 1 => Len(score[d]) >= MsmThreshold}

(* A stored value is a number when it is one numeric word.                 *)
NumberIn(index, f, d) ==
    LET v == Stored(index, f, d) IN IF Len(v) = 1 THEN ToSet(Analyze(v)) ELSE {}

PassesFilters(d) ==
    /\ \A t \in ToSet(req.term_filters) : d \in Postings(ix, t.field, t.word)
    /\ \A r \in ToSet(req.range_filters) :
          \E x \in NumberIn(ix, r.field, d) : InRange(r, x)

-----------------------------------------------------------------------------
Init ==
    /\ \E l \in Lookups : ix \in l.indexes /\ req \in l.requests
    /\ pc = "resolve"
    /\ source = {} /\ selected = <<>> /\ i = 0 /\ late = FALSE
    /\ score = <<>> /\ hits = {}

(* An in group over the id field, and the first hit of the search.         *)
ReferenceQuery == Boolean(InClauses([in |-> <<[field |-> req.id_field, values |-> <<req.id>>]>>]))

Found == DOMAIN Eval(ix, ReferenceQuery, {})

Resolve ==
    /\ pc = "resolve"
    /\ \E d \in Found : source' = {d}
    /\ pc' = "select"
    /\ UNCHANGED <<ix, req, selected, i, late, score, hits>>

NotFound ==
    /\ pc = "resolve"
    /\ Found = {}
    /\ pc' = "done"
    /\ UNCHANGED <<ix, req, source, selected, i, late, score, hits>>

Select ==
    /\ pc = "select"
    /\ selected' \in SelectTerms(ix, source, req)
    /\ pc' = IF selected' = <<>> THEN "done" ELSE "score"
    /\ UNCHANGED <<ix, req, source, i, late, score, hits>>

Reading(k) == Postings(ix, selected[k].field, selected[k].word)

ScoreTerm ==
    /\ pc = "score"
    /\ i < Len(selected) /\ ~late
    /\ score' = [d \in Reached \cup Reading(i + 1) |->
                    (IF d \in Reached THEN score[d] ELSE <<>>)
                      \o IF d \in Reading(i + 1) THEN <<selected[i + 1]>> ELSE <<>>]
    /\ i' = i + 1
    /\ UNCHANGED <<ix, req, pc, source, selected, late, hits>>

(* Mutant: the clock is read before the first term too.                    *)
DeadlineAtOnce ==
    /\ pc = "score"
    /\ i < Len(selected) /\ ~late
    /\ req.timeout
    /\ late' = TRUE
    /\ UNCHANGED <<ix, req, pc, source, selected, i, score, hits>>

Deadline ==
    /\ pc = "score"
    /\ i > 0 /\ i < Len(selected) /\ ~late
    /\ req.timeout
    /\ late' = TRUE
    /\ UNCHANGED <<ix, req, pc, source, selected, i, score, hits>>

(* Mutant: the reference document is not taken out.                        *)
FilterKeepsSource ==
    /\ pc = "score"
    /\ late \/ i = Len(selected)
    /\ hits' = {d \in Similar \cup (source \cap Reached) : PassesFilters(d)}
    /\ pc' = "done"
    /\ UNCHANGED <<ix, req, source, selected, i, late, score>>

Filter ==
    /\ pc = "score"
    /\ late \/ i = Len(selected)
    /\ hits' = {d \in Similar : PassesFilters(d)}
    /\ pc' = "done"
    /\ UNCHANGED <<ix, req, source, selected, i, late, score>>

Next == Resolve \/ NotFound \/ Select \/ ScoreTerm \/ Deadline \/ Filter

Spec == Init /\ [][Next]_vars

-----------------------------------------------------------------------------
Has(d, t) == t.word \in ToSet(Tokens(ix, t.field, d))

Shares(d, terms) == Cardinality({k \in DOMAIN terms : Has(d, terms[k])})

Required == Max({1, MsmThreshold})

Eligible(d) ==
    /\ d \notin source
    /\ \A t \in ToSet(req.term_filters) : Has(d, t)
    /\ \A r \in ToSet(req.range_filters) :
          \E x \in NumberIn(ix, r.field, d) : InRange(r, x)

(* However early the clock stops the scoring, what is returned is live, is *)
(* not the reference itself, passes every filter and shares at least the   *)
(* required number of terms with it, wherever it stands in the ranking     *)
(* (mlt.rs:185, more_like_this).                                           *)
EarlyStopIsSound ==
    \A d \in hits : d \in Live(ix) /\ Eligible(d) /\ Shares(d, selected) >= Required

(* Without an early stop nothing similar is missed, and a search that is   *)
(* late from the start still returns what its top term alone reaches.      *)
SimilarAreFound ==
    pc = "done" /\ selected # <<>> =>
        /\ ~late => {d \in Live(ix) : Eligible(d) /\ Shares(d, selected) >= Required} \subseteq hits
        /\ Required = 1 => {d \in Live(ix) : Eligible(d) /\ Has(d, selected[1])} \subseteq hits

(* A percentage of at most 100 never asks for more terms than were         *)
(* selected, so that a near copy of the reference is always a hit          *)
(* (mlt.rs:29, MinShouldMatch::threshold).                                 *)
CopyIsFound ==
    pc = "done" /\ selected # <<>> /\ ~late /\ (\A m \in req.msm : m.percent /\ m.n <= 100) =>
        \A d \in Live(ix) :
            Eligible(d) /\ (\A s \in source : ix.docs[d] = ix.docs[s]) => d \in hits

(* Stopped early or not, what is similar enough is told from what is not.  *)
SimilarityIsSound == EarlyStopIsSound /\ SimilarAreFound /\ CopyIsFound
=============================================================================
