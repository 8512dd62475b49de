---------------------------- MODULE SegmentMerge ----------------------------
(***************************************************************************)
(* merge_segments_streaming, which compacts flushed segments and optimizes *)
(* an index: fields are united, live documents renumbered and copied, and  *)
(* term dictionaries merged with one cursor per segment and a heap; and    *)
(* merge_segments, the batch version kept as its test oracle, which Batch  *)
(* defines in one go.                                                      *)
(*                                                                         *)
(* A document is where it comes from: <<segment, local id>>.  What is      *)
(* copied verbatim (stored values, norm bytes, positions) is named by the  *)
(* document, and positions also by the term whose postings they are.  A    *)
(* term is its rank in the byte order of (field name, text); FieldOf gives *)
(* its field.                                                              *)
(*                                                                         *)
(* The temporary files hold what is in the variables here; they go when    *)
(* the call returns, and nothing reads one that a crash left behind.       *)
(***************************************************************************)
EXTENDS Integers, FiniteSets, Sequences, SequencesExt

CONSTANTS
  Inputs,   \* the lists of segments to merge
  FieldOf,  \* FieldOf[t] : the field of term t
  Dead,     \* the entry of a deleted document in a doc map
  NoFile    \* the merged .cfs before it is renamed

Binary  == -1                 \* a binary stored value
Byte255 == 255                \* the norm of a field a document has not

VARIABLES
  segs,          \* the open input segments
  pc,            \* the phase
  fields,        \* the merged fields
  at,            \* the next document to copy
  docMaps,       \* docMaps[s][d] : its new id, or Dead
  stored,        \* the copied documents
  norms,         \* norms[f] : the column of merged field f
  pos,           \* pos[s] : where the cursor of segment s is
  heap,          \* pairs <<term, segment>>
  term,          \* the term being gathered
  contributing,  \* pairs <<segment, position of its TermInfo>>
  dict,          \* the merged terms written so far
  cfs            \* the merged .cfs

copied == <<fields, at, docMaps, stored, norms>>
terms  == <<pos, heap, term, contributing, dict>>
vars   == <<segs, pc, copied, terms, cfs>>

-----------------------------------------------------------------------------
(* The inputs                                                              *)

(* The members of a finite set, each once, in a strict order.              *)
Sorted(S, Less(_, _)) ==
  CHOOSE q \in [1 .. Cardinality(S) -> S] :
    \A i, j \in 1 .. Cardinality(S) : i < j => Less(q[i], q[j])

LocalsOf(seg) == 0 .. (seg.maxDoc - 1)
DocsOf(ss)  == UNION {{s} \X LocalsOf(ss[s]) : s \in DOMAIN ss}
Live(ss, o) == o[2] \notin ss[o[1]].deleted
Before(o, p) == o[1] < p[1] \/ (o[1] = p[1] /\ o[2] < p[2])
LiveDocs(ss) == Sorted({o \in DocsOf(ss) : Live(ss, o)}, Before)

(* The stored values of a document cannot be copied.                       *)
BadStored(ss, o) ==
  \E n \in Range(ss[o[1]].stored[o[2]]) :
    n = Binary \/ n >= Len(ss[o[1]].fields)

HasPositions(seg) == (\E fi \in Range(seg.fields) : fi.indexed) => seg.prx

Number(fs, name) == (CHOOSE i \in DOMAIN fs : fs[i].name = name) - 1

(* Stored values in order, with the merged field numbers.                  *)
Remapped(ss, fs, o) ==
  LET seg == ss[o[1]]
      own == seg.stored[o[2]]
  IN [i \in DOMAIN own |-> [field |-> Number(fs, seg.fields[own[i] + 1].name),
                            value |-> <<o, i>>]]

NormByte(ss, name, o) == IF name \in ss[o[1]].normed THEN o ELSE Byte255

(* A dictionary is in term order, each term once, with postings of the     *)
(* segment's own documents: that is how the writer and ZSL leave it, and   *)
(* what the reader's seeks and the document map rely on.                   *)
ASSUME SegmentsAssumption ==
  \A ss \in Inputs : ss \in Seq(Range(ss)) /\ \A s \in DOMAIN ss :
    /\ ss[s].maxDoc \in Nat
    /\ ss[s].fields \in Seq([name : STRING, indexed : BOOLEAN])
    /\ ss[s].dict \in Seq(Nat)
    /\ \A i, j \in 1 .. Len(ss[s].dict) : i < j => ss[s].dict[i] < ss[s].dict[j]
    /\ \A t \in Range(ss[s].dict) : ss[s].post[t] \subseteq LocalsOf(ss[s])

-----------------------------------------------------------------------------
(* merge_segments                                                          *)

FieldInfos(ss) == FlattenSeq([s \in DOMAIN ss |-> ss[s].fields])

(* Fields in the order they are first seen.                                *)
FirstSeen(ss) ==
  LET all == FieldInfos(ss)
      firsts == {i \in DOMAIN all : \A j \in 1 .. (i - 1) : all[j].name # all[i].name}
      order == Sorted(firsts, <)
  IN [i \in DOMAIN order |->
       [name    |-> all[order[i]].name,
        indexed |-> \E j \in DOMAIN all : all[j].name = all[order[i]].name
                                          /\ all[j].indexed]]

NewId(ss, o) == Cardinality({p \in DocsOf(ss) : Live(ss, p) /\ Before(p, o)})

LivePostings(ss, t) ==
  {o \in DocsOf(ss) : Live(ss, o) /\ t \in Range(ss[o[1]].dict)
                      /\ o[2] \in ss[o[1]].post[t]}

TermsOf(ss) == UNION {Range(ss[s].dict) : s \in DOMAIN ss}

(* A term of the merged dictionary, with its documents.                    *)
Entry(ss, fs, t) ==
  LET from == Sorted(LivePostings(ss, t), Before)
  IN [term  |-> t,
      field |-> Number(fs, FieldOf[t]),
      docs  |-> [i \in DOMAIN from |-> [id |-> NewId(ss, from[i]),
                                        positions |-> <<from[i], t>>]]]

Batch(ss) ==
  LET fs    == FirstSeen(ss)
      docs  == LiveDocs(ss)
      order == Sorted({t \in TermsOf(ss) : LivePostings(ss, t) # {}}, <)
  IN [fields |-> fs,
      stored |-> [i \in DOMAIN docs |-> Remapped(ss, fs, docs[i])],
      norms  |-> [f \in DOMAIN fs |->
                   IF fs[f].indexed
                   THEN [i \in DOMAIN docs |-> NormByte(ss, fs[f].name, docs[i])]
                   ELSE <<>>],
      dict   |-> [i \in DOMAIN order |-> Entry(ss, fs, order[i])]]

(* The batch merge returns Err.                                            *)
Refused(ss) ==
  \/ \E o \in DocsOf(ss) : Live(ss, o) /\ BadStored(ss, o)
  \/ \E s \in DOMAIN ss : ~HasPositions(ss[s])

-----------------------------------------------------------------------------
(* merge_streaming_inner                                                   *)

Init ==
  /\ segs \in Inputs
  /\ pc = "fields"
  /\ fields = <<>> /\ at = <<1, 0>>
  /\ docMaps = [s \in DOMAIN segs |-> [d \in LocalsOf(segs[s]) |-> Dead]]
  /\ stored = <<>> /\ norms = <<>>
  /\ pos = [s \in DOMAIN segs |-> 1]
  /\ heap = {} /\ term = 0 /\ contributing = {} /\ dict = <<>>
  /\ cfs = NoFile

(* Mutation: a field is indexed when the first segment that has it says so.*)
SeenOnce(fs, fi) ==
  IF \E i \in DOMAIN fs : fs[i].name = fi.name THEN fs ELSE Append(fs, fi)

Seen(fs, fi) ==
  IF \E i \in DOMAIN fs : fs[i].name = fi.name
  THEN [i \in DOMAIN fs |->
         IF fs[i].name = fi.name
         THEN [fs[i] EXCEPT !.indexed = @ \/ fi.indexed] ELSE fs[i]]
  ELSE Append(fs, fi)

United(all) ==
  LET upTo[n \in 0 .. Len(all)] ==
        IF n = 0 THEN <<>> ELSE Seen(upTo[n - 1], all[n])
  IN upTo[Len(all)]

UniteFields ==
  /\ pc = "fields"
  /\ fields' = United(FieldInfos(segs))
  /\ norms' = [f \in DOMAIN fields' |-> <<>>]
  /\ pc' = "docs"
  /\ UNCHANGED <<segs, at, docMaps, stored, terms, cfs>>

(* Phase 2: documents, in order.                                           *)

HasDoc == at[1] \in DOMAIN segs /\ at[2] \in LocalsOf(segs[at[1]])
NextLocal == at' = <<at[1], at[2] + 1>>

SkipDeleted ==
  /\ pc = "docs" /\ HasDoc /\ ~Live(segs, at)
  /\ NextLocal
  /\ UNCHANGED <<segs, pc, fields, docMaps, stored, norms, terms, cfs>>

CopyTo(id) ==
  /\ pc = "docs" /\ HasDoc /\ Live(segs, at) /\ ~BadStored(segs, at)
  /\ docMaps' = [docMaps EXCEPT ![at[1]][at[2]] = id]
  /\ stored' = Append(stored, Remapped(segs, fields, at))
  /\ norms' = [f \in DOMAIN fields |->
                IF fields[f].indexed
                THEN Append(norms[f], NormByte(segs, fields[f].name, at))
                ELSE norms[f]]
  /\ NextLocal
  /\ UNCHANGED <<segs, pc, fields, terms, cfs>>

(* Mutation: deleted documents take a number too.                          *)
CopyDocSparse ==
  CopyTo(Cardinality({o \in DocsOf(segs) : Before(o, at)}))

CopyDoc == CopyTo(Len(stored))

NextSegment ==
  /\ pc = "docs" /\ at[1] \in DOMAIN segs /\ ~HasDoc
  /\ at' = <<at[1] + 1, 0>>
  /\ UNCHANGED <<segs, pc, fields, docMaps, stored, norms, terms, cfs>>

(* Phase 3: every segment with indexed fields must have positions; then    *)
(* each cursor that has a term puts it on the heap.                        *)
StartTerms ==
  /\ pc = "docs" /\ at[1] \notin DOMAIN segs
  /\ \A s \in DOMAIN segs : HasPositions(segs[s])
  /\ heap' = {<<segs[s].dict[1], s>> : s \in {r \in DOMAIN segs : segs[r].dict # <<>>}}
  /\ pc' = "pop"
  /\ UNCHANGED <<segs, copied, pos, term, contributing, dict, cfs>>

(* Mutation: keys are compared by segment first.                           *)
LeastSegment(h) ==
  CHOOSE e \in h : \A f \in h : e[2] < f[2] \/ (e[2] = f[2] /\ e[1] <= f[1])

Least(h) ==
  CHOOSE e \in h : \A f \in h : e[1] < f[1] \/ (e[1] = f[1] /\ e[2] <= f[2])

(* Mutation: the TermInfo is read after the cursor advanced.               *)
TakeLate(e, others) ==
  LET s    == e[2]
      next == pos[s] + 1
      read == IF next <= Len(segs[s].dict) THEN next ELSE pos[s]
  IN /\ contributing' = others \cup {<<s, read>>}
     /\ pos' = [pos EXCEPT ![s] = next]
     /\ heap' = (heap \ {e}) \cup
          IF next <= Len(segs[s].dict) THEN {<<segs[s].dict[next], s>>} ELSE {}

(* Mutation: the term is pushed again before the cursor advances.          *)
TakeAgain(e, others) ==
  /\ contributing' = others \cup {<<e[2], pos[e[2]]>>}
  /\ UNCHANGED <<pos, heap>>

(* One key leaves the heap: its segment's TermInfo is kept, its cursor     *)
(* advances and its next term is pushed.                                   *)
Take(e, others) ==
  LET s    == e[2]
      next == pos[s] + 1
  IN /\ contributing' = others \cup {<<s, pos[s]>>}
     /\ pos' = [pos EXCEPT ![s] = next]
     /\ heap' = (heap \ {e}) \cup
          IF next <= Len(segs[s].dict) THEN {<<segs[s].dict[next], s>>} ELSE {}

PopTerm ==
  /\ pc = "pop" /\ heap # {}
  /\ term' = Least(heap)[1]
  /\ Take(Least(heap), {})
  /\ pc' = "gather"
  /\ UNCHANGED <<segs, copied, dict, cfs>>

SameOnTop == heap # {} /\ Least(heap)[1] = term

GatherSame ==
  /\ pc = "gather" /\ SameOnTop
  /\ Take(Least(heap), contributing)
  /\ UNCHANGED <<segs, pc, copied, term, dict, cfs>>

(* for_each_live_posting_ti of one segment: its live documents with the    *)
(* term TermInfo is about, and their new ids.                              *)
PostingsOf(c) ==
  LET s      == c[1]
      t      == segs[s].dict[c[2]]
      locals == Sorted({d \in segs[s].post[t] : Live(segs, <<s, d>>)}, <)
  IN [i \in DOMAIN locals |-> [id |-> docMaps[s][locals[i]],
                               positions |-> <<<<s, locals[i]>>, t>>]]

(* Mutation: the segments contribute in the order they left the heap,      *)
(* which a sort by position stands for.                                    *)
InHeapOrder(cs) == Sorted(cs, LAMBDA c, d : d[1] < c[1])

InSegmentOrder(cs) == Sorted(cs, LAMBDA c, d : c[1] < d[1])

(* begin_term, add_posting and end_term, which drops a term with no posting*)
EndTerm(written, entry) ==
  IF entry.docs = <<>> THEN written ELSE Append(written, entry)

EmitTerm ==
  /\ pc = "gather" /\ ~SameOnTop
  /\ LET order == InSegmentOrder(contributing)
     IN dict' = EndTerm(dict,
          [term  |-> term,
           field |-> Number(fields, FieldOf[term]),
           docs  |-> FlattenSeq([i \in DOMAIN order |-> PostingsOf(order[i])])])
  /\ pc' = "pop"
  /\ UNCHANGED <<segs, copied, pos, heap, term, contributing, cfs>>

(* Phase 4: the .cfs is assembled aside, synced and renamed.               *)
Assemble ==
  /\ pc = "pop" /\ heap = {}
  /\ cfs' = [fields |-> fields, stored |-> stored, norms |-> norms,
             dict |-> dict]
  /\ pc' = "done"
  /\ UNCHANGED <<segs, copied, terms>>

(* An input is refused: a stored value that cannot be copied, or indexed   *)
(* fields without positions.                                               *)
Refuse ==
  /\ pc = "docs"
  /\ \/ HasDoc /\ Live(segs, at) /\ BadStored(segs, at)
     \/ at[1] \notin DOMAIN segs /\ \E s \in DOMAIN segs : ~HasPositions(segs[s])
  /\ pc' = "failed"
  /\ UNCHANGED <<segs, copied, terms, cfs>>

(* A read or a write fails, at any step.                                   *)
IOFails ==
  /\ pc \notin {"done", "failed"}
  /\ pc' = "failed"
  /\ UNCHANGED <<segs, copied, terms, cfs>>

Proceed ==
  \/ UniteFields \/ SkipDeleted \/ CopyDoc \/ NextSegment \/ StartTerms
  \/ PopTerm \/ GatherSame \/ EmitTerm \/ Assemble \/ Refuse

Next == IOFails \/ Proceed

Spec == Init /\ [][Next]_vars

(* One thread runs the merge to its end; no I/O error is needed for that.  *)
FairSpec == Spec /\ WF_vars(Proceed)

-----------------------------------------------------------------------------
(* What the streaming merge writes is what the batch merge computes, and   *)
(* it writes nothing where the batch merge refuses.                        *)
MatchesBatch == cfs # NoFile => ~Refused(segs) /\ cfs = Batch(segs)

(* The note at the heap: a key on it is the term its cursor is at, one per *)
(* segment, and the TermInfos gathered are all of the term being gathered. *)
CursorsInSync ==
  pc \in {"pop", "gather"} =>
    /\ heap = {<<segs[s].dict[pos[s]], s>> :
                 s \in {r \in DOMAIN segs : pos[r] <= Len(segs[r].dict)}}
    /\ pc = "gather" =>
         \A c \in contributing : segs[c[1]].dict[c[2]] = term

(* Terms come out in the order the dictionary's prefixes and its sparse    *)
(* index need, each of them once.                                          *)
TermsAscend == \A i, j \in DOMAIN dict : i < j => dict[i].term < dict[j].term

(* The documents of a term come out in the strictly rising order whose     *)
(* differences add_posting writes; it only asserts so in debug builds.     *)
DocsAscend ==
  \A i \in DOMAIN dict : \A m, n \in DOMAIN dict[i].docs :
    m < n => dict[i].docs[m].id < dict[i].docs[n].id

(* A posting's new id is that of the document its positions were read      *)
(* from: there the document's own stored values are.                       *)
PostingsMeetDocuments ==
  \A i \in DOMAIN dict : \A d \in Range(dict[i].docs) :
    /\ d.id \in 0 .. (Len(stored) - 1)
    /\ stored[d.id + 1] = Remapped(segs, fields, d.positions[1])

(* Postings come out in order, each with the id of the document it is of.  *)
PostingsInOrder == DocsAscend /\ PostingsMeetDocuments

(* The merge comes to an end: each turn of its loops takes a document or a *)
(* term away.                                                              *)
Returns == <>(pc \in {"done", "failed"})
=============================================================================
