---------------------------- MODULE NativeIndex ----------------------------
(***************************************************************************)
(* The native format: an index built in memory, written file by file to a  *)
(* fresh directory, perhaps not to the end, and opened as a segment.  A    *)
(* term is a sequence of letters, 0 the blank; an integer of a postings    *)
(* file is one item, and a term dictionary is the map it decodes to.       *)
(***************************************************************************)
EXTENDS SequencesExt, FiniteSetsExt, Integers

CONSTANTS Documents,   \* the documents there are: sequences of fields
          MaxDocs,     \* bound on the documents added
          Probes       \* terms asked for

VARIABLES mem,    \* the MemoryIndex
          todo,   \* the files write_to has still to write
          dir,    \* the files of the directory
          pc,
          seg     \* {} or the segment opened

vars == <<mem, todo, dir, pc, seg>>

Get(f, x, default) == IF x \in DOMAIN f THEN f[x] ELSE default
Set(f, x, v) == [y \in DOMAIN f \cup {x} |-> IF y = x THEN v ELSE f[y]]

Below(v, w) ==
    \/ IsStrictPrefix(v, w)
    \/ \E i \in DOMAIN v \cap DOMAIN w :
          v[i] < w[i] /\ \A j \in 1..(i - 1) : v[j] = w[j]

Sorted(S) == SetToSortSeq(S, LAMBDA a, b : a < b)
SortedTerms(S) == SetToSortSeq(S, Below)
InOrder(s) == SortSeq(s, LAMBDA a, b : a < b)

-----------------------------------------------------------------------------
(* MemoryIndex: postings by <<field, term>> and document, token counts and *)
(* stored values by document.                                              *)
EmptyIndex == [docs |-> 0, postings |-> <<>>, lengths |-> <<>>, stored |-> <<>>]

(* A value is a sequence of words; a keyword is the whole value.           *)
Joined(value) == FoldLeft(LAMBDA acc, w : IF acc = <<>> THEN w ELSE acc \o <<0>> \o w, <<>>, value)

AddPosition(postings, key, d, pos) ==
    LET docs == Get(postings, key, <<>>)
    IN  Set(postings, key, Set(docs, d, Append(Get(docs, d, <<>>), pos)))

AddField(m, d, field) ==
    LET words == [i \in DOMAIN field.value |-> i]
        Word(p, i) == AddPosition(p, <<field.name, field.value[i]>>, d, i - 1)
        key  == <<field.name, Joined(field.value)>>
    IN  [m EXCEPT
           !.postings = CASE field.kind = "text" -> FoldLeft(Word, @, words)
                          [] field.kind = "keyword" -> Set(@, key, Set(Get(@, key, <<>>), d, <<0>>))
                          [] field.kind = "stored" -> @,
           !.lengths = IF field.kind = "stored" THEN @
                       ELSE Set(@, <<d, field.name>>,
                                IF field.kind = "text" THEN Len(field.value) ELSE 1),
           !.stored = Set(@, <<d, field.name>>, field.value)]

IndexedFields(m) == {k[1] : k \in DOMAIN m.postings}
TermsOf(m, f) == {k[2] : k \in {x \in DOMAIN m.postings : x[1] = f}}
FieldLen(m, d, f) == Get(m.lengths, <<d, f>>, 0)
StoredFields(m, d) ==
    LET mine == {k \in DOMAIN m.stored : k[1] = d}
    IN  [f \in {k[2] : k \in mine} |-> m.stored[<<d, f>>]]

MemPostings(m, f, t) ==
    LET docs == Get(m.postings, <<f, t>>, <<>>)
    IN  [i \in 1..Cardinality(DOMAIN docs) |->
           <<Sorted(DOMAIN docs)[i], Len(docs[Sorted(DOMAIN docs)[i]])>>]

MemPositions(m, f, t, d) == InOrder(Get(Get(m.postings, <<f, t>>, <<>>), d, <<>>))

-----------------------------------------------------------------------------
(* write_to                                                                *)

(* Mutant: deltas are taken from the first document of the term.           *)
PostingListFromFirst(docs) ==
    LET ds == Sorted(DOMAIN docs)
        One(i) == <<ds[i] - (IF i = 1 THEN 0 ELSE ds[1]), Len(docs[ds[i]])>> \o InOrder(docs[ds[i]])
    IN  <<Len(ds)>> \o FlattenSeq([i \in DOMAIN ds |-> One(i)])

PostingList(docs) ==
    LET ds == Sorted(DOMAIN docs)
        One(i) == <<ds[i] - (IF i = 1 THEN 0 ELSE ds[i - 1]), Len(docs[ds[i]])>> \o InOrder(docs[ds[i]])
    IN  <<Len(ds)>> \o FlattenSeq([i \in DOMAIN ds |-> One(i)])

PostingsBin(m, f) ==
    LET terms == SortedTerms(TermsOf(m, f))
    IN  [i \in DOMAIN terms |-> PostingList(m.postings[<<f, terms[i]>>])]

(* Each term with the offset of its postings.                              *)
Offsets(m, f) ==
    LET terms == SortedTerms(TermsOf(m, f))
        lists == PostingsBin(m, f)
    IN  [t \in Range(terms) |->
           LET i == CHOOSE j \in DOMAIN terms : terms[j] = t
           IN  Len(FlattenSeq(SubSeq(lists, 1, i - 1)))]

File(kind, f, body) == [name |-> <<kind, f>>, body |-> body, torn |-> FALSE]

Meta(m) == File("meta", "", [docs |-> m.docs, fields |-> IndexedFields(m)])
LengthsFile(m) ==
    File("lengths", "", [f \in IndexedFields(m) |-> [i \in 1..m.docs |-> FieldLen(m, i - 1, f)]])
StoredFile(m) == File("stored", "", [i \in 1..m.docs |-> StoredFields(m, i - 1)])
FieldFiles(m) ==
    FlattenSeq([i \in 1..Cardinality(IndexedFields(m)) |->
       LET f == SetToSeq(IndexedFields(m))[i]
       IN  <<File("terms", f, Offsets(m, f)), File("postings", f, FlattenSeq(PostingsBin(m, f)))>>])

(* Mutant: the field files come last.                                      *)
FilesMetaFirst(m) == <<Meta(m), LengthsFile(m), StoredFile(m)>> \o FieldFiles(m)

Files(m) == FieldFiles(m) \o <<Meta(m), LengthsFile(m), StoredFile(m)>>

-----------------------------------------------------------------------------
(* Segment                                                                 *)
Has(name) == name \in DOMAIN dir
Body(name) == dir[name].body

(* Err: a file is missing, or does not parse.  A torn postings file is     *)
(* bytes like any other.                                                   *)
Opens ==
    /\ \A kind \in {"meta", "lengths", "stored"} : Has(<<kind, "">>) /\ ~dir[<<kind, "">>].torn
    /\ \A f \in Body(<<"meta", "">>).fields :
          Has(<<"terms", f>>) /\ ~dir[<<"terms", f>>].torn /\ Has(<<"postings", f>>)

Opened ==
    LET fields == Body(<<"meta", "">>).fields
    IN  [docs |-> Body(<<"meta", "">>).docs, lengths |-> Body(<<"lengths", "">>),
         stored |-> Body(<<"stored", "">>),
         fsts |-> [f \in fields |-> Body(<<"terms", f>>)],
         postings |-> [f \in fields |-> Body(<<"postings", f>>)]]

(* {} when there is no such term.                                          *)
OffsetOf(s, f, t) ==
    IF f \in DOMAIN s.fsts /\ t \in DOMAIN s.fsts[f] THEN {s.fsts[f][t]} ELSE {}

(* One document of a list: the document, its positions and what is next.   *)
Decoded(data, pos, prev) ==
    [doc |-> prev + data[pos], at |-> SubSeq(data, pos + 2, pos + 1 + data[pos + 1]),
     next |-> pos + 2 + data[pos + 1]]

Decode(s, f, off) ==
    LET data == s.postings[f]
        Step(acc, i) ==
          LET d == Decoded(data, acc.pos, acc.prev)
          IN  [pos |-> d.next, prev |-> d.doc, out |-> Append(acc.out, <<d.doc, d.at>>)]
    IN  FoldLeft(Step, [pos |-> off + 2, prev |-> 0, out |-> <<>>],
                 [i \in 1..data[off + 1] |-> i]).out

SegPostings(s, f, t) ==
    IF OffsetOf(s, f, t) = {} THEN <<>>
    ELSE LET list == Decode(s, f, Max(OffsetOf(s, f, t)))
         IN  [i \in DOMAIN list |-> <<list[i][1], Len(list[i][2])>>]

SegDocFreq(s, f, t) ==
    IF OffsetOf(s, f, t) = {} THEN 0 ELSE s.postings[f][Max(OffsetOf(s, f, t)) + 1]

SegPositions(s, f, t, d) ==
    IF OffsetOf(s, f, t) = {} THEN <<>>
    ELSE LET list == Decode(s, f, Max(OffsetOf(s, f, t)))
             mine == SelectSeq(list, LAMBDA x : x[1] = d)
         IN  IF mine = <<>> THEN <<>> ELSE mine[1][2]

SegFieldLen(s, d, f) ==
    IF f \in DOMAIN s.lengths /\ d + 1 \in DOMAIN s.lengths[f] THEN s.lengths[f][d + 1] ELSE 0

(* The stream from the prefix on, until a term does not start with it.     *)
SegTermsWithPrefix(s, f, prefix) ==
    IF f \notin DOMAIN s.fsts THEN <<>>
    ELSE LET from == SortedTerms({t \in DOMAIN s.fsts[f] : ~Below(t, prefix)})
             miss == {i \in DOMAIN from : ~IsPrefix(prefix, from[i])}
         IN  IF miss = {} THEN from ELSE SubSeq(from, 1, Min(miss) - 1)

-----------------------------------------------------------------------------
Init ==
    mem = EmptyIndex /\ todo = <<>> /\ dir = <<>> /\ pc = "build" /\ seg = {}

AddDocument ==
    /\ pc = "build" /\ mem.docs < MaxDocs
    /\ \E doc \in Documents :
          mem' = [FoldLeft(LAMBDA m, field : AddField(m, mem.docs, field), mem, doc)
                    EXCEPT !.docs = @ + 1]
    /\ UNCHANGED <<todo, dir, pc, seg>>

WriteTo ==
    /\ pc = "build"
    /\ todo' = Files(mem)
    /\ pc' = "write"
    /\ UNCHANGED <<mem, dir, seg>>

WriteFile ==
    /\ pc = "write" /\ todo # <<>>
    /\ dir' = Set(dir, todo[1].name, todo[1])
    /\ todo' = Tail(todo)
    /\ UNCHANGED <<mem, pc, seg>>

(* The process dies, between two files or inside one.                      *)
Crash ==
    /\ pc = "write" /\ todo # <<>>
    /\ dir' \in {dir, Set(dir, todo[1].name, [todo[1] EXCEPT !.torn = TRUE])}
    /\ pc' = "dead"
    /\ UNCHANGED <<mem, todo, seg>>

Open ==
    /\ pc = "dead" \/ (pc = "write" /\ todo = <<>>)
    /\ IF Opens THEN seg' = {Opened} /\ pc' = "open" ELSE pc' = "refused" /\ UNCHANGED seg
    /\ UNCHANGED <<mem, todo, dir>>

Next == AddDocument \/ WriteTo \/ WriteFile \/ Crash \/ Open

Spec == Init /\ [][Next]_vars

-----------------------------------------------------------------------------
FieldNames == {k[2] : k \in DOMAIN mem.stored}

(* The segment answers every question as the index it was written from:    *)
(* postings, positions of repeated fields, lengths, stored values and the  *)
(* order of the terms (index.rs:217, segment.rs:70).                       *)
SegmentIsTheIndex ==
    \A s \in seg :
       /\ s.docs = mem.docs
       /\ \A d \in 0..(mem.docs - 1) : s.stored[d + 1] = StoredFields(mem, d)
       /\ \A f \in FieldNames :
             /\ \A p \in Probes :
                   LET terms == {t \in TermsOf(mem, f) : IsPrefix(p, t)}
                   IN  SegTermsWithPrefix(s, f, p) = SortedTerms(terms)
             /\ \A t \in Probes \cup TermsOf(mem, f) :
                   /\ SegPostings(s, f, t) = MemPostings(mem, f, t)
                   /\ SegDocFreq(s, f, t) = Len(MemPostings(mem, f, t))
                   /\ \A d \in 0..mem.docs : SegPositions(s, f, t, d) = MemPositions(mem, f, t, d)
             /\ \A d \in 0..mem.docs : SegFieldLen(s, d, f) = FieldLen(mem, d, f)

(* A directory whose writing was interrupted is never opened, so that no   *)
(* reader answers from a part of an index (index.rs:283, stored.json last).*)
OpensOnlyWhole == seg # {} => todo = <<>>

(* A directory that opens is the index it was written from.                *)
NativeIsTheIndex == SegmentIsTheIndex /\ OpensOnlyWhole
=============================================================================
