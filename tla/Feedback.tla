------------------------------ MODULE Feedback ------------------------------
(***************************************************************************)
(* The searches that run a query more than once: search_prf, which feeds   *)
(* the terms of its first hits back into a second query, and               *)
(* search_hybrid_index, which fuses the lexical ranking with that of       *)
(* search_prf.                                                             *)
(*                                                                         *)
(* Scores are floats: the ranking of a set of hits is any order of it, the *)
(* same one for every run of one query, and a positive min_score keeps any *)
(* part of the front.  The sums of the fusion are compared exactly.        *)
(***************************************************************************)
EXTENDS TermSelection

CONSTANT Searches   \* sets of indexes, requests and settings to search with

VARIABLES ix, req, how, pc,
          base,      \* the query of the request
          allow,     \* its allow list
          ranking,   \* every hit of the base query, best first
          lexical,   \* what lexical_search returned
          pass1,     \* the pseudo-relevant documents
          selected,  \* the terms select_terms chose
          semantic,  \* what search_prf returned
          hits       \* the fused list

vars == <<ix, req, how, pc, base, allow, ranking, lexical, pass1, selected,
          semantic, hits>>

-----------------------------------------------------------------------------
Limited(s, limit) == IF limit = 0 \/ limit >= Len(s) THEN s ELSE SubSeq(s, 1, limit)

(* The hits from the top that reach min_score: all of them when it is zero.*)
Page(s, limit) ==
    {Limited(SubSeq(s, 1, n), limit) : n \in IF how.min_score = 0 THEN {Len(s)} ELSE 0..Len(s)}

SmallerOf(a, b) == IF a < b THEN a ELSE b
LargerOf(a, b) == IF a < b THEN b ELSE a

(* Mutant: the smaller of the pool and the page.                           *)
DepthShallow(h) ==
    IF h.depth = 0 \/ h.limit = 0 THEN 0 ELSE SmallerOf(h.depth, h.limit)

Depth(h) == IF h.depth = 0 \/ h.limit = 0 THEN 0 ELSE LargerOf(h.depth, h.limit)

NothingToExpand(q) == \E i \in DOMAIN q.clauses : q.clauses[i].q = MatchAll

Config(fields) ==
    [fields |-> fields, min_term_freq |-> 1, max_query_terms |-> how.num_terms,
     min_doc_freq |-> 1, max_doc_freq |-> how.max_doc_freq,
     posting_budget |-> how.posting_budget]

FeedbackQuery(terms) ==
    Boosted(Boolean([i \in DOMAIN terms |->
        Should(Leaf("term", {terms[i].field}, <<terms[i].word>>, FALSE))]))

Augmented(q, terms) == Boolean(<<Should(q), Should(FeedbackQuery(terms))>>)

-----------------------------------------------------------------------------
(* Reciprocal rank fusion, with 1 / (k + rank) scaled to an integer.       *)
Scale(k, n) == FoldSet(LAMBDA r, acc : r * acc, 1, (k + 1)..(k + n))

RankIn(list, d) == {i \in DOMAIN list : list[i] = d}

(* The contributions of the lists ls.                                      *)
FusedScore(lists, ls, k, d) ==
    LET n == Max({0} \cup {Len(lists[l]) : l \in DOMAIN lists})
        In(l) == MapThenSumSet(LAMBDA r : Scale(k, n) \div (k + r), RankIn(lists[l], d))
    IN  MapThenSumSet(In, ls)

(* Mutant: a document keeps the contribution of its first list only.       *)
FuseFirst(lists, k, limit) ==
    LET Score(d) == FusedScore(lists, {IF d \in ToSet(lists[1]) THEN 1 ELSE 2}, k, d)
        Before(d, e) == Score(d) > Score(e) \/ (Score(d) = Score(e) /\ d < e)
    IN  Limited(SetToSortSeq(UNION {ToSet(lists[l]) : l \in DOMAIN lists}, Before), limit)

FuseRRF(lists, k, limit) ==
    LET Score(d) == FusedScore(lists, DOMAIN lists, k, d)
        Before(d, e) == Score(d) > Score(e) \/ (Score(d) = Score(e) /\ d < e)
    IN  Limited(SetToSortSeq(UNION {ToSet(lists[l]) : l \in DOMAIN lists}, Before), limit)

-----------------------------------------------------------------------------
Init ==
    /\ \E s \in Searches : ix \in s.indexes /\ req \in s.requests /\ how \in s.settings
    /\ pc = "lexical"
    /\ base = {} /\ allow = {} /\ ranking = <<>> /\ lexical = <<>>
    /\ pass1 = <<>> /\ selected = <<>> /\ semantic = <<>> /\ hits = <<>>

Refuse ==
    /\ pc = "lexical"
    /\ BuiltQuery(req) = {} \/ HasEmptyField(req)
    /\ pc' = "refused"
    /\ UNCHANGED <<ix, req, how, base, allow, ranking, lexical, pass1, selected,
                   semantic, hits>>

LexicalSearch ==
    /\ pc = "lexical"
    /\ ~HasEmptyField(req)
    /\ \E q \in BuiltQuery(req) :
          /\ base' = {q}
          /\ allow' = AllowList(ix, req)
          /\ ranking' \in SetToSeqs(DOMAIN Eval(ix, q, allow'))
          /\ lexical' \in Page(ranking', Depth(how))
    /\ pc' = "prf"
    /\ UNCHANGED <<ix, req, how, pass1, selected, semantic, hits>>

Expandable ==
    how.top_k > 0 /\ how.num_terms > 0 /\ ~NothingToExpand(The(base))

(* The plain search, identical to the lexical leg.                         *)
Plain ==
    /\ semantic' = lexical
    /\ pc' = "fuse"

Degrade ==
    /\ pc = "prf"
    /\ ~Expandable
    /\ Plain
    /\ UNCHANGED <<ix, req, how, base, allow, ranking, lexical, pass1, selected, hits>>

FirstPass ==
    /\ pc = "prf"
    /\ Expandable
    /\ pass1' = Limited(ranking, how.top_k)
    /\ pc' = IF pass1' = <<>> THEN "fuse" ELSE "select"
    /\ UNCHANGED <<ix, req, how, base, allow, ranking, lexical, selected, semantic, hits>>

Select ==
    /\ pc = "select"
    /\ selected' \in SelectTerms(ix, ToSet(pass1), Config(ToSet(ix.fields)))
    /\ IF selected' = <<>> THEN Plain
       ELSE pc' = "augment" /\ UNCHANGED semantic
    /\ UNCHANGED <<ix, req, how, base, allow, ranking, lexical, pass1, hits>>

(* Mutant: the second pass forgets the allow list.                         *)
SecondPassOpen ==
    /\ pc = "augment"
    /\ \E r \in SetToSeqs(DOMAIN Eval(ix, Augmented(The(base), selected), {})) :
          semantic' \in Page(r, Depth(how))
    /\ pc' = "fuse"
    /\ UNCHANGED <<ix, req, how, base, allow, ranking, lexical, pass1, selected, hits>>

(* Mutant: the second pass runs the feedback terms alone.                  *)
SecondPassAlone ==
    /\ pc = "augment"
    /\ \E r \in SetToSeqs(DOMAIN Eval(ix, FeedbackQuery(selected), allow)) :
          semantic' \in Page(r, Depth(how))
    /\ pc' = "fuse"
    /\ UNCHANGED <<ix, req, how, base, allow, ranking, lexical, pass1, selected, hits>>

SecondPass ==
    /\ pc = "augment"
    /\ \E r \in SetToSeqs(DOMAIN Eval(ix, Augmented(The(base), selected), allow)) :
          semantic' \in Page(r, Depth(how))
    /\ pc' = "fuse"
    /\ UNCHANGED <<ix, req, how, base, allow, ranking, lexical, pass1, selected, hits>>

Fuse ==
    /\ pc = "fuse"
    /\ hits' = FuseRRF(<<lexical, semantic>>, LargerOf(how.k, 1), how.limit)
    /\ pc' = "done"
    /\ UNCHANGED <<ix, req, how, base, allow, ranking, lexical, pass1, selected, semantic>>

Next ==
    Refuse \/ LexicalSearch \/ Degrade \/ FirstPass \/ Select \/ SecondPass \/ Fuse

Spec == Init /\ [][Next]_vars

-----------------------------------------------------------------------------
(* With min_score 0 and no limit, feedback and fusion only add hits to a   *)
(* plain search (prf.rs:61, runner.rs:98): nothing is lost on the way      *)
(* through the degraded paths, the second query or the fusion.             *)
NoHitLost ==
    pc = "done" /\ how.min_score = 0 /\ how.limit = 0 =>
        /\ ToSet(ranking) \subseteq ToSet(semantic)
        /\ ToSet(ranking) \subseteq ToSet(hits)

(* Feedback lands on documents that the range and match_all filters let    *)
(* through, and on none that is deleted (prf.rs:75).                       *)
FeedbackStaysFiltered ==
    \A d \in ToSet(semantic) :
        /\ d \in Live(ix)
        /\ \A r \in ToSet(req.range) : \E w \in ToSet(Tokens(ix, r.field, d)) : InRange(r, w)
        /\ \A m \in ToSet(req.match_all) :
              ToSet(Analyze(m.text)) \subseteq ToSet(Tokens(ix, m.field, d))

(* A hit that neither list places below another is not fused below it, and *)
(* the fused list has no hit twice (hybrid.rs:27).                         *)
Position(list, d) ==
    IF d \in ToSet(list) THEN The(RankIn(list, d)) ELSE Len(list) + 1

FusionRespectsLists ==
    pc = "done" =>
        \A i, j \in DOMAIN hits : i < j =>
            /\ hits[i] # hits[j]
            /\ ~ /\ Position(lexical, hits[j]) <= Position(lexical, hits[i])
                 /\ Position(semantic, hits[j]) <= Position(semantic, hits[i])

(* A limited hybrid search is as long as a plain one would be: each leg is *)
(* fetched at least as deep as the page it has to fill (runner.rs:110).    *)
PageFilled ==
    pc = "done" /\ how.min_score = 0 =>
        Len(hits) >= Len(Limited(ranking, how.limit))

(* With the inferred limits, the feedback terms have no more postings than *)
(* the collection has documents, so that one request cannot load many      *)
(* times the collection (mlt.rs:92).                                       *)
LoadsOneCollection ==
    how.max_doc_freq = {} /\ how.posting_budget = {} =>
        Spent(selected, Len(selected)) <= Total(ix)

(* Feedback and fusion add hits, within the filters, at a bounded cost, in  *)
(* an order that both lists bear out.                                      *)
FeedbackIsSound ==
    NoHitLost /\ FeedbackStaysFiltered /\ FusionRespectsLists /\ PageFilled /\ LoadsOneCollection
=============================================================================
