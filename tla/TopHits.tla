------------------------------ MODULE TopHits ------------------------------
(***************************************************************************)
(* From scored documents to pages of hits: finalize_paged by relevance and *)
(* finalize_sorted by a field, with its bounded heap, its two sources of   *)
(* sort values and its saturating bound, for a client that reads one page  *)
(* after another.                                                          *)
(***************************************************************************)
EXTENDS ZslReader

CONSTANTS Fraction,   \* TABLE_MIN_MATCH_FRACTION
          MaxUsize,   \* usize::MAX, which the runner passes for no limit
          Requests    \* sets of indexes, scores and requests

(* A field to sort by is a keyword: where it is indexed, the terms of a    *)
(* document are its values as they are stored.                             *)
IsKeyword(seg, f) ==
    f \in DOMAIN seg.infos /\ seg.infos[f] =>
        \A d \in LocalIds(seg) : ToSet(Field(seg, f, d).terms) = ToSet(Field(seg, f, d).values)

IsScores(scores) ==
    /\ IsFiniteSet(DOMAIN scores) /\ Cardinality(DOMAIN scores) <= MaxUsize
    /\ DOMAIN scores \subseteq Nat
    /\ \A id \in DOMAIN scores : scores[id] \in Int

IsPaging(page) ==
    /\ page.offset \in 0..MaxUsize /\ page.limit \in 0..MaxUsize
    /\ page.cap \in Nat \cup {None}
    /\ page.min_score \in Int /\ page.ascending \in BOOLEAN

ASSUME RequestsAssumption ==
    /\ Fraction \in Nat \ {0} /\ MaxUsize \in Nat
    /\ \A r \in Requests :
          /\ \A scores \in r.scores : IsScores(scores)
          /\ \A page \in r.how : IsPaging(page)
          /\ \A ss \in r.indexes :
                /\ IsIndex(ss)
                /\ \A i \in DOMAIN ss, page \in r.how :
                      page.sort # "relevance" => IsKeyword(ss[i], page.sort)

VARIABLES segs, scored, how, pc,
          offset,     \* where the next page starts
          todo,       \* the matches still to walk
          table,      \* the values read from the terms, <<>> for none
          heap,       \* the entries kept
          count,      \* the matches that reach min_score
          shown,      \* the hits of the pages read so far
          total       \* <<total, total_capped>> of the last page

vars == <<segs, scored, how, pc, offset, todo, table, heap, count, shown, total>>

-----------------------------------------------------------------------------
Relevance == "relevance"

Missing(key) == key = None

KeyBefore(a, b) == IF how.ascending THEN a < b ELSE a > b

ByScore(a, b) == a.score > b.score \/ (a.score = b.score /\ a.id < b.id)

(* Mutant: the missing flag is flipped with the direction.                 *)
EntryBeforeFlipped(a, b) ==
    \/ Missing(a.key) # Missing(b.key) /\ (Missing(b.key) <=> how.ascending)
    \/ ~Missing(a.key) /\ ~Missing(b.key) /\ KeyBefore(a.key, b.key)
    \/ a.key = b.key /\ ByScore(a, b)

(* A document without a value is last in both directions.                  *)
EntryBefore(a, b) ==
    \/ ~Missing(a.key) /\ Missing(b.key)
    \/ ~Missing(a.key) /\ ~Missing(b.key) /\ KeyBefore(a.key, b.key)
    \/ a.key = b.key /\ ByScore(a, b)

Need(off, limit) == IF off + limit > MaxUsize THEN MaxUsize ELSE off + limit

WorthATable(matches, docs) == matches > 0 /\ matches >= docs \div Fraction

(* Mutant: the total is what the heap kept.                                *)
CappedKept(n, cap) == LET kept == IF n > Cardinality(heap) THEN Cardinality(heap) ELSE n
                      IN  IF cap # None /\ kept > cap THEN <<cap, TRUE>> ELSE <<kept, FALSE>>

Capped(n, cap) == IF cap # None /\ n > cap THEN <<cap, TRUE>> ELSE <<n, FALSE>>

Slice(s, off, limit) ==
    LET last == IF Need(off, limit) > Len(s) THEN Len(s) ELSE Need(off, limit)
    IN  SubSeq(s, off + 1, last)

-----------------------------------------------------------------------------
Init ==
    /\ \E r \in Requests : segs \in r.indexes /\ scored \in r.scores /\ how \in r.how
    /\ pc = "page" /\ offset = how.offset
    /\ todo = {} /\ table = <<>> /\ heap = {} /\ count = 0 /\ shown = <<>> /\ total = <<0, FALSE>>

Reaches(id) == scored[id] >= how.min_score

Matches == {d \in DOMAIN scored : Reaches(d)}

(* By relevance: keep the best offset + limit, sort them, cut the page.    *)
PageByRelevance ==
    /\ pc = "page" /\ how.sort = Relevance
    /\ LET ranked == {[id |-> id, score |-> scored[id]] : id \in Matches}
           sorted == InOrder(ranked, {p \in ranked \X ranked : ByScore(p[1], p[2])})
           kept == Slice(sorted, 0, Need(offset, how.limit))
           page == Slice(kept, offset, how.limit)
       IN  /\ shown' = shown \o [i \in DOMAIN page |-> page[i].id]
           /\ total' = Capped(Cardinality(ranked), how.cap)
    /\ pc' = "shown"
    /\ UNCHANGED <<segs, scored, how, offset, todo, table, heap, count>>

(* By a field: pick the source of the values and walk the matches, in any  *)
(* order, as they come from a hash map.                                    *)
StartSorted ==
    /\ pc = "page" /\ how.sort # Relevance
    /\ table' = IF /\ Need(offset, how.limit) > 0
                   /\ WorthATable(Cardinality(DOMAIN scored), TotalDocs(segs))
                THEN NumericSortValues(segs, how.sort) ELSE <<>>
    /\ todo' = DOMAIN scored
    /\ heap' = {} /\ count' = 0
    /\ pc' = "walk"
    /\ UNCHANGED <<segs, scored, how, offset, shown, total>>

Key(id) ==
    IF table = <<>> THEN StoredValue(segs, id, how.sort)
    ELSE IF id < Len(table[1]) THEN table[1][id + 1] ELSE None

Entry(id) == [key |-> Key(id), id |-> id, score |-> scored[id]]

Worst(S) == CHOOSE e \in S : \A x \in S \ {e} : EntryBefore(x, e)

(* Mutant: an equal key does not displace the worst entry.                 *)
KeepStrict(entry) ==
    IF Cardinality(heap) < Need(offset, how.limit) THEN heap \cup {entry}
    ELSE IF EntryBefore(entry, Worst(heap)) /\ entry.key # Worst(heap).key
         THEN (heap \ {Worst(heap)}) \cup {entry}
         ELSE heap

Keep(entry) ==
    IF Cardinality(heap) < Need(offset, how.limit) THEN heap \cup {entry}
    ELSE IF EntryBefore(entry, Worst(heap)) THEN (heap \ {Worst(heap)}) \cup {entry}
         ELSE heap

Walk ==
    /\ pc = "walk" /\ todo # {}
    /\ \E id \in todo :
          /\ todo' = todo \ {id}
          /\ count' = IF Reaches(id) THEN count + 1 ELSE count
          /\ heap' = IF Reaches(id) /\ Need(offset, how.limit) > 0 THEN Keep(Entry(id)) ELSE heap
    /\ UNCHANGED <<segs, scored, how, pc, offset, table, shown, total>>

PageSorted ==
    /\ pc = "walk" /\ todo = {}
    /\ LET sorted == InOrder(heap, {p \in heap \X heap : EntryBefore(p[1], p[2])})
           page == Slice(sorted, offset, how.limit)
       IN  shown' = shown \o [i \in DOMAIN page |-> page[i].id]
    /\ total' = Capped(count, how.cap)
    /\ pc' = "shown"
    /\ UNCHANGED <<segs, scored, how, offset, todo, table, heap, count>>

(* The client asks for the next page until it has all the matches.         *)
NextPage ==
    /\ pc = "shown"
    /\ how.limit > 0 /\ offset + how.limit < Cardinality(DOMAIN scored)
    /\ offset' = offset + how.limit
    /\ pc' = "page"
    /\ UNCHANGED <<segs, scored, how, todo, table, heap, count, shown, total>>

Next == PageByRelevance \/ StartSorted \/ Walk \/ PageSorted \/ NextPage

Spec == Init /\ [][Next]_vars

-----------------------------------------------------------------------------
(* The ranking the documentation promises: numbers before texts, each in   *)
(* its own order, reversed when descending; no value last; then the score, *)
(* then the id (docs/API.md, "Sort ordering").                             *)
Rank(id) ==
    LET v == StoredValue(segs, id, how.sort)
        key == IF how.sort = Relevance THEN <<0, 0>>
               ELSE IF v = None THEN <<1, 0>>
               ELSE <<0, IF how.ascending THEN v ELSE 0 - v>>
    IN  <<key[1], key[2], 0 - scored[id], id>>

Less(a, b) ==
    \E k \in 1..4 : a[k] < b[k] /\ \A j \in 1..(k - 1) : a[j] = b[j]

FullOrder == InOrder(Matches, {p \in Matches \X Matches : Less(Rank(p[1]), Rank(p[2]))})

(* Page after page, a client gets the whole ranking from its first offset  *)
(* on: no hit twice, none left out, ties included, whatever the order the  *)
(* matches are walked in, the bound of the heap or the source of the       *)
(* values of a page, which comes to the same thing for every page          *)
(* (search.rs:537).                                                        *)
PagesTile ==
    pc = "shown" =>
        LET last == offset + how.limit
        IN  shown = SubSeq(FullOrder, how.offset + 1, IF last > Len(FullOrder) THEN Len(FullOrder) ELSE last)

(* While the matches are walked, the heap has the best of those seen.      *)
HeapHasTheBest ==
    pc = "walk" =>
        LET seen == {Entry(d) : d \in Matches \ todo}
        IN  /\ heap \subseteq seen
            /\ \A e \in heap, x \in seen \ heap : EntryBefore(e, x)
            /\ seen # heap => Cardinality(heap) = Need(offset, how.limit)

(* The total counts every match that reaches min_score, also those that    *)
(* no page can show, and says so when the cap cuts it.                     *)
TotalIsExact ==
    pc = "shown" =>
        LET n == Len(FullOrder)
        IN  total = IF how.cap = None \/ n <= how.cap THEN <<n, FALSE>> ELSE <<how.cap, TRUE>>

(* Where the values come from never changes a result (search.rs:618).      *)
SourceIsNoMatter ==
    pc = "walk" /\ table # <<>> =>
        \A id \in DOMAIN scored : Key(id) = StoredValue(segs, id, how.sort)

(* Pages are cut from one ranking, however they are computed.              *)
PagesAreTheRanking == PagesTile /\ HeapHasTheBest /\ TotalIsExact /\ SourceIsNoMatter
=============================================================================
