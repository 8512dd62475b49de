----------------------------- MODULE QueryEval -----------------------------
(***************************************************************************)
(* What the code of a search computes, as operators: build_query,          *)
(* map_bool_node and text_subquery, the allow list of the range and        *)
(* match_all filters, and eval with eval_boolean.                          *)
(*                                                                         *)
(* An Option is a set of at most one element: {} is None, {x} is Some(x).  *)
(* Scores are symbolic: a score is the tree of the contributions that the  *)
(* code adds and multiplies, in the order in which it adds them, because   *)
(* addition of f32 is not associative.  A field name is a base and the     *)
(* number of "_key" suffixes after it.                                     *)
(***************************************************************************)
EXTENDS SequencesExt, Integers

CONSTANTS Silent,        \* words in which the analyzer finds no token
          Variants,      \* accent variants of a word, itself included
          Near,          \* dictionary terms within typing distance of a word
          Completions,   \* dictionary terms that begin with a text, by its words
          Synonyms,      \* sequence of synonyms of a word
          MaxTreeDepth   \* MAX_TREE_DEPTH


-----------------------------------------------------------------------------
(* The index: docs, their fields as sequences of words, and the dead ones. *)

Live(index) == DOMAIN index.docs \ index.dead

Tokens(index, f, d) ==
    IF f \in DOMAIN index.docs[d] THEN index.docs[d][f] ELSE <<>>

Postings(index, f, w) == {d \in Live(index) : w \in ToSet(Tokens(index, f, d))}

DocFreq(index, f, w) ==
    Cardinality({d \in DOMAIN index.docs : w \in ToSet(Tokens(index, f, d))})

-----------------------------------------------------------------------------
(* Allow lists.                                                            *)

The(option) == CHOOSE x \in option : TRUE

Narrow(S, restrict) == {d \in S : \A allowed \in restrict : d \in allowed}

IntersectAllow(a, b) ==
    IF a = {} THEN b ELSE IF b = {} THEN a ELSE {(UNION a) \cap (UNION b)}

DropIfUniversal(restrict, live) ==
    {S \in restrict : S = {} \/ Cardinality(S) # live}

InRange(filter, w) ==
    (\A l \in filter.lower : l <= w) /\ (\A u \in filter.upper : w <= u)

Dictionary(index, f) ==
    UNION {ToSet(Tokens(index, f, d)) : d \in DOMAIN index.docs}

(* Mutant: postings read without dropping the deleted documents.            *)
RangeDocsRaw(index, filter) ==
    {d \in DOMAIN index.docs :
        \E w \in ToSet(Tokens(index, filter.field, d)) : InRange(filter, w)}

RangeDocs(index, filter) ==
    UNION {Postings(index, filter.field, w) :
              w \in {v \in Dictionary(index, filter.field) : InRange(filter, v)}}

Analyze(text) == SelectSeq(text, LAMBDA w : w \notin Silent)

MatchAllDocs(index, filter) ==
    LET toks == ToSet(Analyze(filter.text))
        f == filter.field
    IN  IF \E w \in toks : DocFreq(index, f, w) = 0 THEN {}
        ELSE {d \in Live(index) : \A w \in toks : d \in Postings(index, f, w)}

(* Filters are intersected one after another; the order, rarest word first,*)
(* and the early exits change the cost only.                               *)
Conjoin(index, sets) ==
    DropIfUniversal(FoldLeft(LAMBDA acc, S : IntersectAllow(acc, {S}), {}, sets),
                    Cardinality(Live(index)))

RangeAllowList(index, filters) ==
    Conjoin(index, [i \in DOMAIN filters |-> RangeDocs(index, filters[i])])

Vacuous(filter) == Analyze(filter.text) = <<>>

MatchAllAllowList(index, filters) ==
    LET real == SelectSeq(filters, LAMBDA filter : ~Vacuous(filter))
    IN  Conjoin(index, [i \in DOMAIN real |-> MatchAllDocs(index, real[i])])

AllowList(index, req) ==
    IntersectAllow(RangeAllowList(index, req.range),
                   MatchAllAllowList(index, req.match_all))

-----------------------------------------------------------------------------
(* Queries and their evaluation.                                           *)

Leaf(kind, fields, words, accent) ==
    [op |-> "leaf", kind |-> kind, fields |-> fields, words |-> words,
     accent |-> accent]
Boolean(clauses) == [op |-> "bool", clauses |-> clauses]
Boosted(q) == [op |-> "boosted", inner |-> q]
MatchAll == [op |-> "all"]
Clause(occur, q) == [occur |-> occur, q |-> q]

Reach(leaf, w) ==
    LET forms == IF leaf.accent THEN Variants[w] ELSE {w}
    IN  IF leaf.kind = "fuzzy" THEN UNION {Near[v] : v \in forms} ELSE forms

(* A wildcard is the whole text and a star: a prefix that spans words is    *)
(* not folded, and reaches the keywords with its blanks in them.           *)
WildcardTerms(leaf) ==
    IF leaf.accent /\ Len(leaf.words) = 1
    THEN UNION {Completions[<<v>>] : v \in Variants[leaf.words[1]]}
    ELSE Completions[leaf.words]

(* The words at consecutive positions of one field.                        *)
MatchesAt(leaf, toks, i) ==
    \A j \in DOMAIN leaf.words : toks[i + j] \in Reach(leaf, leaf.words[j])

Matches(index, leaf, f, d) ==
    LET toks == Tokens(index, f, d)
    IN  /\ leaf.words # <<>>
        /\ IF leaf.kind = "wildcard"
           THEN ToSet(toks) \cap WildcardTerms(leaf) # {}
           ELSE \E i \in 0..(Len(toks) - Len(leaf.words)) : MatchesAt(leaf, toks, i)

TargetFields(index, leaf) ==
    IF leaf.fields = {} THEN index.fields ELSE SetToSeq(leaf.fields)

FieldsOf(index, leaf, d) ==
    SelectSeq(TargetFields(index, leaf), LAMBDA f : Matches(index, leaf, f, d))

QueriesOf(clauses, occur) ==
    LET chosen == SelectSeq(clauses, LAMBDA c : c.occur = occur)
    IN  [i \in DOMAIN chosen |-> chosen[i].q]

RECURSIVE Eval(_, _, _)

(* Mutant: summed in the order of evaluation.                              *)
NarrowByMustsSummed(index, musts, restrict) ==
    LET n == Len(musts)
        Step(acc, i) ==
            LET m == Eval(index, musts[(i % n) + 1], acc.cand)
            IN  [cand |-> IntersectAllow(acc.cand, {DOMAIN m}),
                 maps |-> [acc.maps EXCEPT ![i] = m]]
    IN  FoldLeft(Step, [cand |-> restrict, maps |-> musts], [i \in 1..n |-> i])

(* The musts are evaluated from the second to the last and then the first, *)
(* each within what is left, and summed in the order they are declared in. *)
NarrowByMusts(index, musts, restrict) ==
    LET n == Len(musts)
        order == [i \in 1..n |-> (i % n) + 1]
        Step(acc, i) ==
            LET m == Eval(index, musts[i], acc.cand)
            IN  [cand |-> IntersectAllow(acc.cand, {DOMAIN m}),
                 maps |-> [acc.maps EXCEPT ![i] = m]]
    IN  FoldLeft(Step, [cand |-> restrict, maps |-> musts], order)

EvalBoolean(index, clauses, restrict) ==
    LET musts == QueriesOf(clauses, "must")
        shoulds == QueriesOf(clauses, "should")
        nots == QueriesOf(clauses, "mustnot")
        narrowed == NarrowByMusts(index, musts, restrict)
        optional == [i \in DOMAIN shoulds |->
                        Eval(index, shoulds[i], narrowed.cand)]
        matching == IF musts = <<>>
                    THEN UNION {DOMAIN optional[i] : i \in DOMAIN shoulds}
                    ELSE UNION narrowed.cand
        excluded == UNION {DOMAIN Eval(index, nots[i], {matching}) :
                              i \in DOMAIN nots}
        Parts(d) ==
            [i \in DOMAIN musts |-> narrowed.maps[i][d]]
              \o LET hits == SelectSeq(optional, LAMBDA m : d \in DOMAIN m)
                 IN  [i \in DOMAIN hits |-> hits[i][d]]
    IN  [d \in matching \ excluded |->
            <<"coord", Parts(d), Len(musts) + Len(shoulds)>>]

Eval(index, q, restrict) ==
    CASE q.op = "leaf" ->
           [d \in {e \in Narrow(Live(index), restrict) :
                      FieldsOf(index, q, e) # <<>>}
              |-> <<"leaf", q, FieldsOf(index, q, d)>>]
      [] q.op = "bool" -> EvalBoolean(index, q.clauses, restrict)
      [] q.op = "boosted" ->
           LET m == Eval(index, q.inner, restrict)
           IN  [d \in DOMAIN m |-> <<"boost", m[d]>>]
      [] q.op = "all" -> [d \in Narrow(Live(index), restrict) |-> <<"one">>]

-----------------------------------------------------------------------------
(* Boolean trees.  A node has an op, its kids, and the words of a term.    *)

Node(op, kids) == [op |-> op, kids |-> kids, words |-> <<>>]
Phrase(words) == [op |-> "term", kids |-> <<>>, words |-> words]

RECURSIVE StripDoubleNegation(_)
StripDoubleNegation(node) ==
    IF node.op = "not" /\ node.kids[1].op = "not"
    THEN StripDoubleNegation(node.kids[1].kids[1])
    ELSE node

RECURSIVE MapBoolNode(_, _, _)

(* Mutant: the depth is not counted through a negation under an and.       *)
MapChildShallow(op, child, accent, depth) ==
    LET kid == StripDoubleNegation(child) IN
    IF op = "and" /\ kid.op = "not"
    THEN {Clause("mustnot", q) : q \in MapBoolNode(kid.kids[1], accent, depth)}
    ELSE {Clause(CASE op = "or" -> "should" [] op = "and" -> "must" [] OTHER -> "mustnot", q) :
             q \in MapBoolNode(child, accent, depth + 1)}

(* A negated child of an and is a must-not clause of that and.             *)
MapChild(op, child, accent, depth) ==
    LET kid == StripDoubleNegation(child) IN
    CASE op = "or" ->
           {Clause("should", q) : q \in MapBoolNode(child, accent, depth + 1)}
      [] op = "and" /\ kid.op = "not" ->
           {Clause("mustnot", q) :
               q \in MapBoolNode(kid.kids[1], accent, depth + 1)}
      [] op = "and" /\ kid.op # "not" ->
           {Clause("must", q) : q \in MapBoolNode(kid, accent, depth + 1)}
      [] op = "not" ->
           {Clause("mustnot", q) : q \in MapBoolNode(child, accent, depth + 1)}

(* None is TreeTooDeep.                                                    *)
MapBoolNode(node, accent, depth) ==
    LET n == StripDoubleNegation(node)
        clauses == [i \in DOMAIN n.kids |->
                       MapChild(n.op, n.kids[i], accent, depth)]
    IN  CASE depth > MaxTreeDepth -> {}
          [] depth <= MaxTreeDepth /\ n.op = "term" ->
               {Leaf("phrase", {}, Analyze(n.words), accent)}
          [] depth <= MaxTreeDepth /\ n.op # "term" ->
               IF \E i \in DOMAIN clauses : clauses[i] = {} THEN {}
               ELSE {Boolean([i \in DOMAIN clauses |->
                                 The(clauses[i])])}

-----------------------------------------------------------------------------
(* Building the query of a request.                                        *)

Should(leaf) == Clause("should", leaf)

WordClause(req, w) == Should(Leaf("fuzzy", {}, <<w>>, req.accent))

TokenClauses(req, w) ==
    LET Term(v) == Leaf("term", {}, <<v>>, req.accent)
        syns == IF req.synonyms THEN Synonyms[w] ELSE <<>>
    IN  <<Should(Term(w))>>
          \o [i \in DOMAIN syns |-> Should(Boosted(Term(syns[i])))]

TextSubquery(req) ==
    LET toks == Analyze(req.text)
    IN  Boolean([i \in DOMAIN req.text |-> WordClause(req, req.text[i])]
                  \o <<Should(Leaf("wildcard", {}, req.text, req.accent))>>
                  \o FlattenSeq([i \in DOMAIN toks |-> TokenClauses(req, toks[i])]))

WhereField(name) == <<name[1], name[2] + 1>>

KeyFieldIn(name) == IF name[2] > 0 THEN name ELSE WhereField(name)

ValueClauses(field, values) ==
    [i \in DOMAIN values |-> Should(Leaf("term", {field}, <<values[i]>>, FALSE))]

(* A root that only negates is hoisted, to subtract from every document.   *)
HoistsNots(q) ==
    /\ q.op = "bool"
    /\ q.clauses # <<>>
    /\ \A i \in DOMAIN q.clauses : q.clauses[i].occur = "mustnot"

TreeClauses(q) == IF HoistsNots(q) THEN q.clauses ELSE <<Clause("must", q)>>

WhereClauses(req) ==
    [i \in DOMAIN req.where |->
        Clause(req.where[i].occur,
               Boolean(ValueClauses(WhereField(req.where[i].field),
                                    req.where[i].values)))]

(* All the in groups are one required clause, which without a value matches*)
(* nothing.                                                                *)
InClauses(req) ==
    IF req.in = <<>> THEN <<>>
    ELSE <<Clause("must", Boolean(FlattenSeq(
               [i \in DOMAIN req.in |->
                   ValueClauses(KeyFieldIn(req.in[i].field), req.in[i].values)])))>>

HasEmptyField(req) ==
    \E g \in ToSet(req.where) \cup ToSet(req.in) : g.field[1] = ""

(* The clauses of the tree or of the text; None when the tree is too deep. *)
TextClauses(req) ==
    IF req.tree # {}
    THEN {TreeClauses(q) : q \in UNION {MapBoolNode(t, req.accent, 0) : t \in req.tree}}
    ELSE IF req.text # <<>> THEN {<<Clause("must", TextSubquery(req))>>}
    ELSE {<<>>}

WithBase(clauses) ==
    IF \E i \in DOMAIN clauses : clauses[i].occur # "mustnot" THEN clauses
    ELSE clauses \o <<Clause("must", MatchAll)>>

BuiltQuery(req) ==
    {Boolean(WithBase(t \o WhereClauses(req) \o InClauses(req))) :
        t \in TextClauses(req)}

=============================================================================
