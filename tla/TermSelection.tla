--------------------------- MODULE TermSelection ---------------------------
(***************************************************************************)
(* select_terms: the most distinctive terms of some source documents, for  *)
(* more_like_this and for the feedback of search_prf.  tf * idf is a float *)
(* and is abstracted to the orders it can give: a term that is at least as *)
(* frequent in the sources and at most as frequent in the collection as    *)
(* another, and not equal in both, comes first.                            *)
(***************************************************************************)
EXTENDS QueryEval

Stored(index, f, d) == IF f \in index.stored THEN Tokens(index, f, d) ELSE <<>>

Occurrences(toks, w) == Cardinality({i \in DOMAIN toks : toks[i] = w})

TermFreq(index, sources, f, w) ==
    MapThenSumSet(LAMBDA d : Occurrences(Analyze(Stored(index, f, d)), w), sources)

Total(index) == Cardinality(DOMAIN index.docs)

(* None infers the limit from the collection, 0 switches it off.           *)
MaxDocFreq(index, cfg) ==
    IF cfg.max_doc_freq = {} THEN Total(index) \div 2 ELSE The(cfg.max_doc_freq)

PostingBudget(index, cfg) ==
    IF cfg.posting_budget = {} THEN Total(index) ELSE The(cfg.posting_budget)

Admitted(index, cfg, c) ==
    /\ c.tf >= cfg.min_term_freq
    /\ c.df >= cfg.min_doc_freq
    /\ MaxDocFreq(index, cfg) > 0 => c.df <= MaxDocFreq(index, cfg)

Candidates(index, sources, cfg) ==
    LET Read(f) == UNION {ToSet(Analyze(Stored(index, f, d))) : d \in sources}
        all == UNION {{[field |-> f, word |-> w, tf |-> TermFreq(index, sources, f, w),
                        df |-> DocFreq(index, f, w)] : w \in Read(f)} :
                         f \in cfg.fields}
    IN  {c \in all : Admitted(index, cfg, c)}

Outweighs(a, b) == a.tf >= b.tf /\ a.df <= b.df /\ <<a.tf, a.df>> # <<b.tf, b.df>>

ByWeight(cands) ==
    {s \in SetToSeqs(cands) :
        \A i, j \in DOMAIN s : i < j => ~Outweighs(s[j], s[i])}

Spent(s, k) == MapThenSumSet(LAMBDA i : s[i].df, 1..k)

(* Mutant: the budget is compared before the term is added.                *)
AffordLate(s, budget) ==
    LET Fits(k) == budget = 0 \/ k = 1 \/ Spent(s, k - 1) <= budget
    IN  SubSeq(s, 1, Max({k \in 0..Len(s) : \A j \in 1..k : Fits(j)}))

(* The first term that does not fit the budget ends the selection; the top *)
(* term always stays.                                                      *)
Afford(s, budget) ==
    LET Fits(k) == budget = 0 \/ k = 1 \/ Spent(s, k) <= budget
    IN  SubSeq(s, 1, Max({k \in 0..Len(s) : \A j \in 1..k : Fits(j)}))

(* The selections that select_terms can return.                            *)
SelectTerms(index, sources, cfg) ==
    LET Truncated(s) ==
            IF cfg.max_query_terms > 0 /\ Len(s) > cfg.max_query_terms
            THEN SubSeq(s, 1, cfg.max_query_terms) ELSE s
    IN  {Afford(Truncated(s), PostingBudget(index, cfg)) :
            s \in ByWeight(Candidates(index, sources, cfg))}
=============================================================================
