------------------------------- MODULE Query -------------------------------
(***************************************************************************)
(* A search from its parameters to its scored documents, and what its      *)
(* parameters mean document by document.                                   *)
(***************************************************************************)
EXTENDS QueryEval

CONSTANT Cases   \* sets of indexes with the requests to search them for

VARIABLES ix, p, pc, query, allow, found

vars == <<ix, p, pc, query, allow, found>>

-----------------------------------------------------------------------------
(* search_index_paged: build the query, read the allow list, evaluate.     *)

Init ==
    /\ \E c \in Cases : ix \in c.indexes /\ p \in c.requests
    /\ pc = "build"
    /\ query = {} /\ allow = {} /\ found = <<>>

Build ==
    /\ pc = "build"
    /\ BuiltQuery(p) # {} /\ ~HasEmptyField(p)
    /\ query' = BuiltQuery(p)
    /\ pc' = "restrict"
    /\ UNCHANGED <<ix, p, allow, found>>

RefuseDeepTree ==
    /\ pc = "build"
    /\ BuiltQuery(p) = {}
    /\ pc' = "TreeTooDeep"
    /\ UNCHANGED <<ix, p, query, allow, found>>

RefuseEmptyField ==
    /\ pc = "build"
    /\ BuiltQuery(p) # {} /\ HasEmptyField(p)
    /\ pc' = "EmptyField"
    /\ UNCHANGED <<ix, p, query, allow, found>>

ReadAllowList ==
    /\ pc = "restrict"
    /\ allow' = AllowList(ix, p)
    /\ pc' = "eval"
    /\ UNCHANGED <<ix, p, query, found>>

Evaluate ==
    /\ pc = "eval"
    /\ \E q \in query : found' = Eval(ix, q, allow)
    /\ pc' = "scored"
    /\ UNCHANGED <<ix, p, query, allow>>

Next == Build \/ RefuseDeepTree \/ RefuseEmptyField \/ ReadAllowList \/ Evaluate

Spec == Init /\ [][Next]_vars

-----------------------------------------------------------------------------
(* What a request means, document by document.                             *)

RECURSIVE RefScore(_, _, _)

(* The score of one document, {} when the query does not match it: every   *)
(* clause is asked about this document alone, in the declared order.       *)
RefScore(index, q, d) ==
    CASE q.op = "leaf" ->
           IF FieldsOf(index, q, d) = <<>> THEN {}
           ELSE {<<"leaf", q, FieldsOf(index, q, d)>>}
      [] q.op = "boosted" -> {<<"boost", s>> : s \in RefScore(index, q.inner, d)}
      [] q.op = "all" -> {<<"one">>}
      [] q.op = "bool" ->
           LET Asked(occur) ==
                   LET qs == QueriesOf(q.clauses, occur)
                   IN  [i \in DOMAIN qs |-> RefScore(index, qs[i], d)]
               Hits(occur) == SelectSeq(Asked(occur), LAMBDA s : s # {})
               parts == Hits("must") \o Hits("should")
           IN  IF \/ Len(Hits("must")) < Len(Asked("must"))
                  \/ parts = <<>>
                  \/ Hits("mustnot") # <<>>
               THEN {}
               ELSE {<<"coord", [i \in DOMAIN parts |-> The(parts[i])],
                       Len(Asked("must")) + Len(Asked("should"))>>}

InPhrase(d, words) ==
    \E f \in ToSet(ix.fields) :
        LET toks == Tokens(ix, f, d) IN
        /\ words # <<>>
        /\ \E i \in 0..(Len(toks) - Len(words)) : \A j \in DOMAIN words :
             toks[i + j] \in IF p.accent THEN Variants[words[j]] ELSE {words[j]}

(* Or, and, not of the phrases a document has.                             *)
RECURSIVE Classical(_, _)
Classical(node, d) ==
    CASE node.op = "term" -> InPhrase(d, Analyze(node.words))
      [] node.op = "not" -> ~Classical(node.kids[1], d)
      [] node.op = "and" -> \A i \in DOMAIN node.kids : Classical(node.kids[i], d)
      [] node.op = "or" -> \E i \in DOMAIN node.kids : Classical(node.kids[i], d)

Positives(node) == {i \in DOMAIN node.kids : StripDoubleNegation(node.kids[i]).op # "not"}
Inner(node) == StripDoubleNegation(node).kids[1]

(* A negation selects nothing of its own: it subtracts from what it is     *)
(* and-ed with (docs/API.md, "Boolean tree queries").                      *)
RECURSIVE Selects(_, _)
Selects(unstripped, d) ==
    LET node == StripDoubleNegation(unstripped) IN
    CASE node.op = "term" -> InPhrase(d, Analyze(node.words))
      [] node.op = "not" -> FALSE
      [] node.op = "and" ->
           /\ Positives(node) # {}
           /\ \A i \in Positives(node) : Selects(node.kids[i], d)
           /\ \A i \in DOMAIN node.kids \ Positives(node) :
                 ~Selects(Inner(node.kids[i]), d)
      [] node.op = "or" -> \E i \in DOMAIN node.kids : Selects(node.kids[i], d)

(* Every negation has something positive to subtract from.                 *)
RECURSIVE Grounded(_)
Grounded(unstripped) ==
    LET node == StripDoubleNegation(unstripped) IN
    /\ node.op # "not"
    /\ node.op = "and" => Positives(node) # {}
    /\ \A i \in DOMAIN node.kids :
          IF node.op = "and" /\ i \notin Positives(node)
          THEN Grounded(Inner(node.kids[i])) ELSE Grounded(node.kids[i])

OnlyNegates(node) ==
    \/ node.op = "not"
    \/ node.op = "and" /\ node.kids # <<>> /\ Positives(node) = {}

(* The trees under the negations of a root that only negates.              *)
Negated(node) ==
    IF node.op = "not" THEN {node.kids[1]}
    ELSE {Inner(node.kids[i]) : i \in DOMAIN node.kids}

TreeWants(tree, d) ==
    LET root == StripDoubleNegation(tree) IN
    IF OnlyNegates(root)
    THEN IF \A t \in Negated(root) : Grounded(t) THEN Classical(tree, d)
         ELSE \A t \in Negated(root) : ~Selects(t, d)
    ELSE IF Grounded(root) THEN Classical(tree, d) ELSE Selects(root, d)

(* Typing distance, accents and synonyms of the words typed, and terms that *)
(* begin with all of what was typed: a keyword may hold several words       *)
(* (query.rs:739 takes it that no term does).                              *)
TextWants(d) ==
    LET has == UNION {ToSet(Tokens(ix, f, d)) : f \in ToSet(ix.fields)}
        Forms(w) == IF p.accent THEN Variants[w] ELSE {w}
        Literal(w) == UNION {Forms(v) :
                         v \in {w} \cup IF p.synonyms THEN ToSet(Synonyms[w]) ELSE {}}
        Typed(text) == IF Len(text) = 1 THEN {<<v>> : v \in Forms(text[1])} ELSE {text}
    IN  \/ \E w \in ToSet(p.text), v \in has : \E x \in Forms(w) : v \in Near[x]
        \/ \E x \in Typed(p.text) : has \cap Completions[x] # {}
        \/ \E w \in ToSet(Analyze(p.text)) : has \cap Literal(w) # {}

InGroup(d, field, values) == ToSet(values) \cap ToSet(Tokens(ix, field, d)) # {}

WhereWants(d, occur) ==
    \A g \in {h \in ToSet(p.where) : h.occur = occur} :
        InGroup(d, WhereField(g.field), g.values) <=> (occur = "must")

FiltersWant(d) ==
    /\ \A r \in ToSet(p.range) :
          \E w \in ToSet(Tokens(ix, r.field, d)) : InRange(r, w)
    /\ \A m \in ToSet(p.match_all) :
          ToSet(Analyze(m.text)) \subseteq ToSet(Tokens(ix, m.field, d))

HasRequired ==
    \/ p.tree = {} /\ p.text # <<>>
    \/ \E t \in p.tree : ~OnlyNegates(StripDoubleNegation(t))
    \/ \E g \in ToSet(p.where) : g.occur = "must"
    \/ p.in # <<>>

Wanted(d) ==
    /\ \A t \in p.tree : TreeWants(t, d)
    /\ p.tree = {} /\ p.text # <<>> => TextWants(d)
    /\ WhereWants(d, "must") /\ WhereWants(d, "mustnot")
    /\ p.in # <<>> => \E g \in ToSet(p.in) : InGroup(d, KeyFieldIn(g.field), g.values)
    /\ FiltersWant(d)
    /\ LET shoulds == {g \in ToSet(p.where) : g.occur = "should"}
       IN  shoulds = {} \/ HasRequired
             \/ \E g \in shoulds : InGroup(d, WhereField(g.field), g.values)

RECURSIVE Nesting(_)
Nesting(unstripped) ==
    LET node == StripDoubleNegation(unstripped)
        Kid(i) == IF node.op = "and" /\ i \notin Positives(node)
                  THEN Inner(node.kids[i]) ELSE node.kids[i]
    IN  Max({0} \cup {1 + Nesting(Kid(i)) : i \in DOMAIN node.kids})

RECURSIVE Height(_)
Height(q) ==
    IF q.op = "bool"
    THEN Max({1} \cup {1 + Height(q.clauses[i].q) : i \in DOMAIN q.clauses})
    ELSE 1

-----------------------------------------------------------------------------
(* The evaluation restricts its clauses to the documents that can still    *)
(* match, the first must last and the must-nots to what is left. None of   *)
(* that may change a score: each document has the one it gets when every   *)
(* clause is evaluated without a restriction (query.rs:212, eval_boolean). *)
PushdownExact ==
    pc = "scored" =>
        \A q \in query :
            LET Ref(d) == RefScore(ix, q, d)
                hits == {d \in Narrow(Live(ix), allow) : Ref(d) # {}}
            IN  /\ DOMAIN found = hits
                /\ \A d \in hits : found[d] \in Ref(d)

(* A search finds the live documents its parameters ask for: those of the  *)
(* tree or the text, in all the required groups and none of the excluded,  *)
(* within every filter; a tree whose negations all have something to       *)
(* subtract from means what and, or and not mean (build_query, allow_list).*)
FindsWhatIsAsked ==
    pc = "scored" => DOMAIN found = {d \in Live(ix) : Wanted(d)}

(* Only a tree that nests too deep is refused for it, double negations not *)
(* counted, and the recursion of eval over what is accepted stays bounded, *)
(* so that no stack overflows (query.rs:598, MAX_TREE_DEPTH).              *)
DeepTreesRefused ==
    /\ pc # "build" =>
          (pc = "TreeTooDeep" <=> \E t \in p.tree : Nesting(t) > MaxTreeDepth)
    /\ \A q \in query : p.tree # {} => Height(q) <= MaxTreeDepth + 3

(* A request is refused for its depth and nothing else, or answered with   *)
(* what it asks for.                                                       *)
RequestsAnswered == DeepTreesRefused /\ FindsWhatIsAsked
=============================================================================
