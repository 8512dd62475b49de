----------------------------- MODULE MCRequests -----------------------------
(* The indexes and the requests of the query modules, for TLC.  Words are   *)
(* the numbers 1 to 9; the analyzer finds nothing in 9.                     *)
EXTENDS Integers, Sequences, TLC

Silent == {9}
Same == [w \in 1..9 |-> {w}]

(* No word begins with another, and no term with several words.             *)
ShortTexts == {<<v>> : v \in 1..9} \cup {<<v, w>> : v \in 1..9, w \in 1..9}
Whole == [t \in ShortTexts |-> IF Len(t) = 1 THEN {t[1]} ELSE {}]
NoSynonyms == [w \in 1..9 |-> <<>>]

LOCAL E == INSTANCE QueryEval WITH
    Variants <- Same, Near <- Same, Completions <- Whole, Synonyms <- NoSynonyms, MaxTreeDepth <- 2

Phrase(words) == E!Phrase(words)
Node(op, kids) == E!Node(op, kids)
T == <<"t", 0>>
K == <<"k", 1>>
Doc(t, k) == (T :> t) @@ (K :> k)
StoredIndex(docs, dead) ==
    [docs |-> docs, dead |-> dead, fields |-> <<T, K>>, stored |-> {T, K}]
RangeOf(l, u) == [field |-> K, lower |-> l, upper |-> u]
Not(n) == Node("not", <<n>>)

Empty == [text |-> <<>>, tree |-> {}, accent |-> FALSE, synonyms |-> FALSE,
          where |-> <<>>, in |-> <<>>, range |-> <<>>, match_all |-> <<>>]

-----------------------------------------------------------------------------
(* Query: at most three documents; 3 is an accent variant of 1, 2 has a     *)
(* typing neighbour, and 4 is a keyword that begins with "2 1".             *)
QueryDocs == {Doc(<<1>>, <<1>>), Doc(<<1, 2>>, <<2>>), Doc(<<2, 1>>, <<1>>),
         Doc(<<2>>, <<>>), Doc(<<3, 2>>, <<2>>), Doc(<<5>>, <<4>>)}
QueryIndex(docs, dead) == [docs |-> docs, dead |-> dead, fields |-> <<T, K>>]

Pairs == {QueryIndex(<<a, b>>, dead) : a \in QueryDocs, b \in QueryDocs, dead \in {{}, {1}, {2}}}
Triples == {QueryIndex(<<Doc(<<1, 2>>, <<1>>), Doc(<<2, 1>>, <<2>>), Doc(<<3, 2>>, <<1>>)>>, dead) :
               dead \in SUBSET {1, 3}}
QueryIndexes == Pairs \cup Triples \cup {QueryIndex(<<>>, {})}

TermQueries == {Phrase(<<1>>), Phrase(<<2>>), Phrase(<<1, 2>>)}
Signed == TermQueries \cup {Not(n) : n \in TermQueries}
Flat == {Node(op, <<a, b>>) : op \in {"and", "or"}, a \in Signed, b \in Signed}
          \cup {Node(op, <<a>>) : op \in {"and", "or"}, a \in Signed}
          \cup {Node("and", <<>>), Node("or", <<>>), Not(Not(Phrase(<<1>>)))}
Some == {Node("and", <<Phrase(<<1>>), Not(Phrase(<<2>>))>>), Node("or", <<Phrase(<<2>>), Not(Phrase(<<1>>))>>),
         Node("and", <<Not(Phrase(<<1>>))>>), Node("or", <<Phrase(<<1>>), Phrase(<<2>>)>>)}
Inners == Some \cup {Not(n) : n \in Some}
Nested == {Node(op, <<a, b>>) : op \in {"and", "or"}, a \in Inners, b \in Inners \cup Signed}
            \cup Inners \cup {Not(Not(n)) : n \in Inners}
Deep == {Node(op, <<Phrase(<<1>>), n>>) : op \in {"and", "or"},
            n \in {Not(m) : m \in Nested} \cup Nested}

QueryTexts == {<<>>, <<1>>, <<2, 1>>, <<9>>}
Group(f, values, occur) == [field |-> f, values |-> values, occur |-> occur]
K0 == <<"k", 0>>
Wheres == {<<>>} \cup {<<Group(K0, v, o)>> : v \in {<<1>>, <<1, 2>>, <<>>},
                           o \in {"must", "should", "mustnot"}}
            \cup {<<Group(K0, <<1>>, a), Group(K0, <<2>>, b)>> :
                     a \in {"must", "should", "mustnot"}, b \in {"should", "mustnot"}}
            \cup {<<Group(K, <<1>>, "must")>>, <<Group(<<"", 0>>, <<1>>, "must")>>}
In(f, values) == [field |-> f, values |-> values]
Ins == {<<>>, <<In(K0, <<1>>)>>, <<In(K, <<2>>), In(K0, <<1>>)>>, <<In(K0, <<>>)>>,
        <<In(<<"", 0>>, <<>>)>>}
Range2(f, l, u) == [field |-> f, lower |-> l, upper |-> u]
RangeFilters == {<<>>, <<Range2(K, {1}, {})>>, <<Range2(K, {2}, {2})>>, <<Range2(T, {2}, {}), Range2(K, {}, {1})>>}
Contain(f, text) == [field |-> f, text |-> text]
MatchAlls == {<<>>, <<Contain(T, <<2, 1>>)>>, <<Contain(T, <<9>>)>>,
              <<Contain(T, <<9>>), Contain(T, <<3>>), Contain(K, <<2>>)>>}

Filters == {[Empty EXCEPT !.text = t, !.where = w, !.in = i, !.range = r, !.match_all = m] :
               t \in {<<>>, <<1>>}, w \in Wheres, i \in Ins, r \in RangeFilters, m \in MatchAlls}
ByText == {[Empty EXCEPT !.text = t, !.accent = a, !.synonyms = s, !.where = w] :
               t \in QueryTexts, a \in BOOLEAN, s \in BOOLEAN, w \in Wheres}
ByTree(trees) == {[Empty EXCEPT !.tree = {t}, !.text = <<9>>, !.accent = a, !.where = w] :
               t \in trees, a \in BOOLEAN, w \in {<<>>, <<Group(K0, <<1>>, "should")>>}}
Filtered == {[Empty EXCEPT !.tree = {t}, !.range = r, !.where = w] :
               t \in Some, r \in RangeFilters, w \in Wheres}

Case(indexes, requests) == [indexes |-> indexes, requests |-> requests]
QueryCases == {Case(Triples, Filters \cup Filtered \cup ByTree(Flat \cup Nested \cup Deep)),
            Case(QueryIndexes, ByText)}

QueryVariants == [w \in 1..9 |-> IF w = 1 THEN {1, 3} ELSE {w}]
QueryNear == [w \in 1..9 |-> IF w = 2 THEN {1, 2} ELSE {w}]
QueryCompletions == [Whole EXCEPT ![<<1>>] = {1, 3}, ![<<2>>] = {2, 4}, ![<<2, 1>>] = {4}]
QuerySynonyms == [w \in 1..9 |-> IF w = 1 THEN <<2, 3>> ELSE <<>>]

-----------------------------------------------------------------------------
(* Feedback: four documents, one of them perhaps deleted, or none.          *)
FeedbackIndexes == {StoredIndex(<<Doc(<<1, 2>>, <<1>>), Doc(<<2, 4>>, <<2>>), Doc(<<1, 1, 5>>, <<1>>), Doc(<<5>>, <<2>>)>>, dead) :
               dead \in {{}, {3}}}
            \cup {StoredIndex(<<>>, {})}

InGroup(f, values) == [field |-> f, values |-> values]
FeedbackRequests == {[Empty EXCEPT !.text = t, !.in = i, !.range = r] :
                t \in {<<>>, <<1>>, <<1, 5>>},
                i \in {<<>>, <<InGroup(<<"k", 0>>, <<1>>)>>, <<InGroup(<<"", 0>>, <<1>>)>>},
                r \in {<<>>, <<RangeOf({1}, {1})>>, <<RangeOf({2}, {})>>}}

FeedbackSetting(top, terms, maxdf, budget, k, depth, limit, ms) ==
    [top_k |-> top, num_terms |-> terms, max_doc_freq |-> maxdf, posting_budget |-> budget,
     k |-> k, depth |-> depth, limit |-> limit, min_score |-> ms]
FeedbackSettings ==
    {FeedbackSetting(top, terms, {}, {}, 1, depth, limit, ms) :
        top \in {0, 2}, terms \in {0, 3}, depth \in {0, 1}, limit \in {0, 2}, ms \in {0, 1}}
    \cup {FeedbackSetting(1, 2, {0}, b, 0, 2, 1, 0) : b \in {{0}, {2}, {}}}

FeedbackSearches == {[indexes |-> FeedbackIndexes, requests |-> FeedbackRequests, settings |-> FeedbackSettings]}

FeedbackNear == [w \in 1..9 |-> IF w = 2 THEN {2, 4} ELSE {w}]

-----------------------------------------------------------------------------
(* MoreLikeThis: a source and three documents that share some of its words. *)
SimilarDocs == {Doc(<<1, 2>>, <<1>>), Doc(<<2, 3, 2>>, <<2>>), Doc(<<1, 3>>, <<9>>)}
First == Doc(<<1, 2, 2, 3>>, <<7>>)
SimilarIndexes == {StoredIndex(<<First, a, b, c>>, dead) : a \in SimilarDocs \cup {First}, b \in SimilarDocs, c \in SimilarDocs, dead \in {{}, {2}}}

Term(f, w) == [field |-> f, word |-> w]
Msm(n, percent) == [n |-> n, percent |-> percent]
SimilarRequest(id, maxterms, maxdf, budget, msm, timeout, terms, ranges) ==
    [id_field |-> <<"k", 0>>, id |-> id, fields |-> {T}, min_term_freq |-> 1,
     min_doc_freq |-> 1, max_query_terms |-> maxterms, max_doc_freq |-> maxdf,
     posting_budget |-> budget, msm |-> msm, timeout |-> timeout,
     term_filters |-> terms, range_filters |-> ranges]
SimilarRequests ==
    {SimilarRequest(7, n, d, b, m, t, <<>>, <<>>) :
        n \in {0, 2}, d \in {{}, {0}}, b \in {{}, {0}},
        m \in {{}, {Msm(2, FALSE)}, {Msm(70, TRUE)}, {Msm(100, TRUE)}}, t \in BOOLEAN}
    \cup {SimilarRequest(id, 0, {0}, {0}, {}, TRUE, f, r) : id \in {5, 7},
        f \in {<<>>, <<Term(T, 3)>>}, r \in {<<>>, <<RangeOf({1}, {})>>, <<RangeOf({2}, {2})>>}}

SimilarLookups == {[indexes |-> SimilarIndexes, requests |-> SimilarRequests]}

-----------------------------------------------------------------------------
(* EngineCalls: every key omitted, at its default or at another value.      *)
CallIndex == [docs |-> <<Doc(<<1, 2>>, <<1>>), Doc(<<2, 1>>, <<2>>), Doc(<<3, 2>>, <<1>>)>>,
            dead |-> {}, fields |-> <<T, K>>, names |-> {"t", "k_key"}]

Exact == -1
Off == -2
EmptyCall == [text |-> <<>>, tree |-> {}, exact_match |-> {}, accent_insensitive |-> {},
          synonyms |-> {}, where |-> <<>>, in |-> <<>>, similarity |-> {}, fuzzy |-> 50,
          sort |-> {}, sort_dir |-> {}, track_total_hits |-> {}, limit |-> 0]
CallGroup(occur) == [field |-> <<"k", 0>>, values |-> <<1>>, occur |-> occur]
Trees == {{}} \cup {{t} : t \in {Phrase(<<1, 2>>), Not(Phrase(<<2, 1>>)),
                                 Node("and", <<Phrase(<<2>>), Not(Phrase(<<3>>))>>)}}
CallMatched == {[EmptyCall EXCEPT !.text = t, !.tree = n, !.exact_match = e, !.accent_insensitive = a,
                          !.where = w, !.limit = l] :
              t \in {<<>>, <<1>>, <<1, 2>>}, n \in Trees, e \in {{}, {TRUE}}, a \in {{}, {FALSE}},
              w \in {<<>>} \cup {<<CallGroup(o)>> : o \in {{"must"}, {"mustnot"}, {"should"}, {"MUST"}}},
              l \in {0, 1}}
Unspelled == {[EmptyCall EXCEPT !.text = t, !.where = <<CallGroup({})>>] : t \in {<<>>, <<1>>}}
CallSettings == {[EmptyCall EXCEPT !.text = <<2>>, !.similarity = s, !.fuzzy = f, !.sort = o, !.sort_dir = d,
                           !.track_total_hits = n, !.limit = l] :
               s \in {{}, {"okapi"}}, f \in {50, 100}, o \in {{}, {"_score"}, {"k_key"}, {"missing"}},
               d \in {{}, {"asc"}, {"up"}}, n \in {{}, {Exact}, {Off}, {1}, {3}}, l \in {0, 2}}

Methods == {"search", "semantic_query", "hybrid_query"}
MoreLike == {[min_should_match |-> m] :
               m \in {{}} \cup {{[percent |-> p, n |-> n]} : p \in BOOLEAN, n \in {0, 2, 3, 4, 30, 100, 200, 300}}}
CallCases == {[indexes |-> {CallIndex, [CallIndex EXCEPT !.dead = {2}], [CallIndex EXCEPT !.docs = <<>>, !.names = {}]},
             calls |-> [method : Methods, dto : CallMatched \cup Unspelled \cup CallSettings]
                         \cup [method : {"more_like_this"}, dto : MoreLike]]}

CallSimilar == <<{"a"}, {"a", "b"}, {"a", "b", "c"}>>
CallVariants == [w \in 1..9 |-> IF w \in {1, 3} THEN {1, 3} ELSE {w}]
=============================================================================
