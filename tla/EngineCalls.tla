---------------------------- MODULE EngineCalls ----------------------------
(***************************************************************************)
(* The calls of SdSearch\Engine: what a JSON request becomes on its way to *)
(* the core, which requests are refused, and what the answer says of the   *)
(* hits.  A key that was omitted is {}.  The core's search is that of      *)
(* QueryEval; its two-pass search is any second pass over the query and    *)
(* feedback terms (Feedback models how they are chosen).                   *)
(***************************************************************************)
EXTENDS QueryEval

CONSTANTS Calls,        \* sets of indexes with the requests to send them
          Similar,      \* for each document, the selected terms it matches
          TermCount,    \* how many terms more_like_this selected
          DefaultCap,   \* DEFAULT_TOTAL_CAP
          U8Max         \* u8::MAX

VARIABLES ix, call, answer

vars == <<ix, call, answer>>

Pending == [kind |-> "pending"]
Exception(msg) == [kind |-> "exception", msg |-> msg]

Or(option, default) == IF option = {} THEN default ELSE The(option)

-----------------------------------------------------------------------------
(* From the JSON to the parameters.                                        *)

(* serde refuses a where group without its occur; the rest has defaults.   *)
Parses(dto) == \A g \in ToSet(dto.where) : g.occur # {}

OccurFrom(s) == IF s \in {"must", "mustnot"} THEN s ELSE "should"

WellFormed(dto) ==
    /\ Or(dto.similarity, "bm25") \in {"bm25", "tfidf"}
    /\ dto.fuzzy \in 0..99     \* hundredths, of [0, 1)
    /\ Or(dto.sort, "_score") # "_score" => Or(dto.sort_dir, "desc") \in {"asc", "desc"}

(* Mutant: exact_match wins over the tree.                                 *)
TreeFromExactFirst(dto) ==
    IF Or(dto.exact_match, FALSE) /\ dto.text # <<>> THEN {Phrase(dto.text)} ELSE dto.tree

(* The tree, or else the text as one phrase when exact_match is on.        *)
TreeFrom(dto) ==
    IF dto.tree # {} THEN dto.tree
    ELSE IF Or(dto.exact_match, FALSE) /\ dto.text # <<>> THEN {Phrase(dto.text)}
    ELSE {}

QueryParamsFrom(dto) ==
    [text |-> dto.text, tree |-> TreeFrom(dto),
     accent |-> Or(dto.accent_insensitive, TRUE), synonyms |-> Or(dto.synonyms, FALSE),
     where |-> [i \in DOMAIN dto.where |->
                  [dto.where[i] EXCEPT !.occur = OccurFrom(The(@))]],
     in |-> dto.in, range |-> <<>>, match_all |-> <<>>]

(* Mutant: true is taken for omitted.                                      *)
TotalTrackingDefault(dto) ==
    CASE dto.track_total_hits = {}      -> [cap |-> {DefaultCap}, report |-> TRUE]
      [] dto.track_total_hits = {-1}    -> [cap |-> {DefaultCap}, report |-> TRUE]
      [] dto.track_total_hits = {-2}    -> [cap |-> {}, report |-> FALSE]
      [] OTHER                          -> [cap |-> dto.track_total_hits, report |-> TRUE]

(* track_total_hits: a cap, or true and false, which are Exact and Off.    *)
Exact == -1
Off == -2
TotalTracking(dto) ==
    CASE dto.track_total_hits = {}      -> [cap |-> {DefaultCap}, report |-> TRUE]
      [] dto.track_total_hits = {Exact} -> [cap |-> {}, report |-> TRUE]
      [] dto.track_total_hits = {Off}   -> [cap |-> {}, report |-> FALSE]
      [] OTHER                          -> [cap |-> dto.track_total_hits, report |-> TRUE]

RejectTreeAndExact(dto) == dto.tree # {} \/ Or(dto.exact_match, FALSE)

(* An index without documents is exempt.                                   *)
UnknownSort(dto) ==
    /\ Or(dto.sort, "_score") # "_score" /\ DOMAIN ix.docs # {}
    /\ The(dto.sort) \notin ix.names

-----------------------------------------------------------------------------
(* The answers.                                                            *)

Refused(dto) == ~Parses(dto) \/ ~WellFormed(dto)

Matching(params, q) == DOMAIN Eval(ix, q, AllowList(ix, params))

Built(params) == IF HasEmptyField(params) THEN {} ELSE BuiltQuery(params)

Limited(S, limit) ==
    {P \in SUBSET S : Cardinality(P) = IF limit = 0 THEN Cardinality(S)
                                       ELSE Min({limit, Cardinality(S)})}

(* run: the answers a search can give.                                     *)
Run(dto) ==
    LET params == QueryParamsFrom(dto)
        track  == TotalTracking(dto)
    IN  IF Refused(dto) THEN {Exception("request")}
        ELSE IF Built(params) = {} \/ UnknownSort(dto) THEN {Exception("query")}
        ELSE LET found  == Matching(params, The(Built(params)))
                 n      == Cardinality(found)
                 capped == \E c \in track.cap : n > c
                 total  == IF capped THEN The(track.cap) ELSE n
             IN  {[kind |-> "hits", hits |-> P, capped |-> capped,
                   total |-> IF track.report THEN {total} ELSE {}] : P \in Limited(found, dto.limit)}

Feedback == {<<f, w>> : f \in ToSet(ix.fields), w \in UNION {Dictionary(ix, f) : f \in ToSet(ix.fields)}}

(* What search_prf can find: the plain hits, or a second pass.             *)
SecondPasses(q) ==
    {q} \cup {Boolean(<<Should(q), Should(Boosted(Boolean(<<Should(Leaf("term", {t[1]}, <<t[2]>>, FALSE))>>)))>>) :
                t \in Feedback}

(* run_semantic and run_hybrid; a fused list has the hits of both legs.    *)
RunPrf(dto, hybrid) ==
    LET params == QueryParamsFrom(dto)
    IN  IF ~Parses(dto) \/ RejectTreeAndExact(dto) \/ ~WellFormed(dto) THEN {Exception("request")}
        ELSE IF Built(params) = {} THEN {Exception("query")}
        ELSE LET q == The(Built(params))
             IN  UNION {{[kind |-> "hits", hits |-> P, capped |-> FALSE, total |-> {}] :
                           P \in Limited(IF hybrid THEN Matching(params, q) \cup Matching(params, r)
                                         ELSE Matching(params, r), dto.limit)} :
                        r \in SecondPasses(q)}

(* min_should_match: a number of terms, or a percentage in a string, which *)
(* is off when it does not parse as a u8.                                  *)
ParseMinShouldMatch(msm) ==
    IF msm = {} THEN {}
    ELSE LET m == The(msm) IN IF m.percent /\ m.n > U8Max THEN {} ELSE {m}

Threshold(m) == IF m.percent THEN (m.n * TermCount) \div 100 ELSE m.n

RunMlt(dto) ==
    LET threshold == IF ParseMinShouldMatch(dto.min_should_match) = {} THEN 0
                     ELSE Threshold(The(ParseMinShouldMatch(dto.min_should_match)))
        similar   == {d \in DOMAIN Similar : Cardinality(Similar[d]) >= Max({1, threshold})}
    IN  {[kind |-> "hits", hits |-> similar, capped |-> FALSE, total |-> {}]}

Answers(c) ==
    CASE c.method = "search"          -> Run(c.dto)
      [] c.method = "semantic_query"  -> RunPrf(c.dto, FALSE)
      [] c.method = "hybrid_query"    -> RunPrf(c.dto, TRUE)
      [] c.method = "more_like_this"  -> RunMlt(c.dto)

-----------------------------------------------------------------------------
Init ==
    /\ \E c \in Calls : ix \in c.indexes /\ call \in c.calls
    /\ answer = Pending

Answer ==
    /\ answer = Pending
    /\ answer' \in Answers(call)
    /\ UNCHANGED <<ix, call>>

Next == Answer

Spec == Init /\ [][Next]_vars

-----------------------------------------------------------------------------
Searches == call.method # "more_like_this" /\ answer.kind = "hits"

(* Whatever the call, a tree is a hard filter, and so is the phrase of an  *)
(* exact match: what it excludes never comes back through feedback or      *)
(* fusion, and the tree decides where both are given (lib.rs:369).         *)
TreeStaysHard ==
    Searches =>
        LET dto    == call.dto
            asked  == IF dto.tree # {} THEN dto.tree
                      ELSE IF dto.exact_match = {TRUE} /\ dto.text # <<>> THEN {Phrase(dto.text)}
                      ELSE {}
            params == [text |-> <<>>, tree |-> asked, where |-> <<>>, in |-> <<>>,
                       range |-> <<>>, match_all |-> <<>>, synonyms |-> FALSE,
                       accent |-> dto.accent_insensitive # {FALSE}]
        IN  asked # {} =>
               \E q \in BuiltQuery(params) : answer.hits \subseteq DOMAIN Eval(ix, q, {})

(* The total is there unless it was declined, is never less than the hits  *)
(* shown unless it says so, and is the number of matches when it was asked *)
(* for exactly (lib.rs:168).                                               *)
TotalIsHonest ==
    Searches /\ call.method = "search" =>
        LET dto == call.dto
        IN  /\ answer.total = {} <=> dto.track_total_hits = {Off}
            /\ \A n \in answer.total :
                  /\ n < Cardinality(answer.hits) => answer.capped
                  /\ answer.capped => n = Or(dto.track_total_hits, DefaultCap)
                  /\ ~answer.capped /\ dto.limit = 0 => n = Cardinality(answer.hits)

(* "a value above the selected-term count matches nothing"                 *)
(* (docs/API.md:323), where it is one that parses.                         *)
AboveTheCountNothing ==
    call.method = "more_like_this" /\ answer # Pending =>
        \A m \in call.dto.min_should_match :
            Threshold(m) > TermCount /\ (m.percent => m.n <= U8Max) => answer.hits = {}

(* An answer keeps to its request: filters stay hard, thresholds hold, and *)
(* a total says what it is.                                                *)
CallsAreHonest == TreeStaysHard /\ TotalIsHonest /\ AboveTheCountNothing
=============================================================================
