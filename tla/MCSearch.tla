------------------------------ MODULE MCSearch ------------------------------
(* A request of some kind to the search side of the program, each kind with *)
(* the module that models it on the inputs of MCRequests and MCHits.  The   *)
(* kinds share nothing: the variables of the others stay as they are.       *)
(* TopHits and SegmentedIndex are extended, the rest are instances.         *)
EXTENDS TopHits, SegmentedIndex

LOCAL R == INSTANCE MCRequests
LOCAL H == INSTANCE MCHits

HitRequests == H!HitRequests
Segmentations == H!Segmentations
ReaderPrefixes == H!ReaderPrefixes

VARIABLES kind,
          ix, req, stage,                                 \* of several kinds
          query, allow, found,                            \* Query
          form, base, ranking, lexical, pass1, selected, semantic, hits,
          source, i, late, score,                         \* MoreLikeThis
          answer,                                         \* EngineCalls
          answers                                         \* TermExpansion

Q == INSTANCE Query WITH
    Silent <- R!Silent, Variants <- R!QueryVariants, Near <- R!QueryNear,
    Completions <- R!QueryCompletions, Synonyms <- R!QuerySynonyms, MaxTreeDepth <- 2,
    Cases <- R!QueryCases, p <- req, pc <- stage

F == INSTANCE Feedback WITH
    Silent <- R!Silent, Variants <- R!Same, Near <- R!FeedbackNear, Completions <- R!Whole,
    Synonyms <- R!NoSynonyms, MaxTreeDepth <- 2, Searches <- R!FeedbackSearches,
    how <- form, pc <- stage

M == INSTANCE MoreLikeThis WITH
    Silent <- R!Silent, Variants <- R!Same, Near <- R!Same, Completions <- R!Whole,
    Synonyms <- R!NoSynonyms, MaxTreeDepth <- 2, Lookups <- R!SimilarLookups, pc <- stage

C == INSTANCE EngineCalls WITH
    Silent <- R!Silent, Variants <- R!CallVariants, Near <- R!Same, Completions <- R!Whole,
    Synonyms <- R!NoSynonyms, MaxTreeDepth <- 3, Calls <- R!CallCases, Similar <- R!CallSimilar,
    TermCount <- 3, DefaultCap <- 2, U8Max <- 255, call <- req

X == INSTANCE TermExpansion WITH
    Forms <- H!Forms, Bare <- H!Bare, Bytes <- H!Bytes, MaxVariant <- 3, MaxWildcard <- 3,
    MaxFuzzy <- 4, Corpora <- H!Corpora, Words <- H!Words, Patterns <- H!Patterns,
    Phrases <- H!Phrases, Settings <- H!Settings, MaxAsked <- 2, docs <- ix, setting <- req

-----------------------------------------------------------------------------
Off(x) == x = 0

(* What a kind leaves alone.                                                *)
AskedOff == Off(ix) /\ Off(req)
QueryOff == Off(query) /\ Off(found)
FirstOff == Off(form) /\ Off(base) /\ Off(ranking) /\ Off(lexical) /\ Off(pass1) /\ Off(semantic)
MoreOff == Off(source) /\ Off(i) /\ Off(late) /\ Off(score)
ResultOff == Off(stage) /\ Off(allow) /\ Off(selected) /\ Off(hits)
IndexOff == asked = <<"nothing">> /\ Off(index) /\ Off(reply)
PageOff == pc = "none" /\ Off(scored) /\ Off(how) /\ Off(offset) /\ Off(todo) /\ Off(table) /\ Off(heap)
           /\ Off(count) /\ Off(shown) /\ Off(total)

SearchInit ==
    \/ kind = "query" /\ Q!Init /\ IndexOff /\ FirstOff /\ MoreOff /\ Off(segs) /\ PageOff
       /\ Off(selected) /\ Off(hits) /\ Off(answer) /\ Off(answers)
    \/ kind = "feedback" /\ F!Init /\ IndexOff /\ QueryOff /\ MoreOff /\ Off(segs) /\ PageOff /\ Off(answer) /\ Off(answers)
    \/ kind = "similar" /\ M!Init /\ IndexOff /\ QueryOff /\ FirstOff /\ Off(segs) /\ PageOff
       /\ Off(allow) /\ Off(answer) /\ Off(answers)
    \/ kind = "call" /\ C!Init /\ IndexOff /\ QueryOff /\ FirstOff /\ MoreOff /\ ResultOff /\ Off(segs) /\ PageOff /\ Off(answers)
    \/ kind = "index" /\ AskInit /\ AskedOff /\ Off(segs) /\ QueryOff /\ FirstOff /\ MoreOff /\ ResultOff /\ PageOff /\ Off(answer) /\ Off(answers)
    \/ kind = "page" /\ Init /\ IndexOff /\ AskedOff /\ QueryOff /\ FirstOff /\ MoreOff /\ ResultOff /\ Off(answer) /\ Off(answers)
    \/ kind = "expansion" /\ X!Init /\ IndexOff /\ QueryOff /\ FirstOff /\ MoreOff /\ ResultOff /\ Off(segs) /\ PageOff /\ Off(answer)

first == <<form, base, ranking, lexical, pass1, semantic>>
more == <<source, i, late, score>>
rest == <<stage, allow, selected, hits>>

SearchNext ==
    \/ kind = "query" /\ Q!Next /\ UNCHANGED <<kind, askVars, first, more, vars, selected, hits, answer, answers>>
    \/ kind = "feedback" /\ F!Next /\ UNCHANGED <<kind, askVars, query, found, more, vars, answer, answers>>
    \/ kind = "similar" /\ M!Next /\ UNCHANGED <<kind, askVars, query, found, first, vars, allow, answer, answers>>
    \/ kind = "call" /\ C!Next /\ UNCHANGED <<kind, askVars, query, found, first, more, rest, vars, answers>>
    \/ kind = "index" /\ AskNext /\ UNCHANGED <<kind, ix, req, query, found, first, more, rest, vars, answer, answers>>
    \/ kind = "page" /\ Next /\ UNCHANGED <<kind, askVars, ix, req, query, found, first, more, rest, answer, answers>>
    \/ kind = "expansion" /\ X!Next /\ UNCHANGED <<kind, askVars, query, found, first, more, rest, vars, answer>>

SearchVars == <<kind, askVars, ix, req, query, found, first, more, rest, vars, answer, answers>>

SearchSpec == SearchInit /\ [][SearchNext]_SearchVars

-----------------------------------------------------------------------------
(* The properties of each module, stated there; PagesAreTheRanking and      *)
(* AnswersAsOneIndex are those of the modules it extends.                   *)
PushdownExact == kind = "query" => Q!PushdownExact
RequestsAnswered == kind = "query" => Q!RequestsAnswered
FeedbackIsSound == kind = "feedback" => F!FeedbackIsSound
SimilarityIsSound == kind = "similar" => M!SimilarityIsSound
CallsAreHonest == kind = "call" => C!CallsAreHonest
ExpansionIsExact == kind = "expansion" => X!ExpansionIsExact
=============================================================================
