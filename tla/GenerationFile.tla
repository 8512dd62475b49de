--------------------------- MODULE GenerationFile ---------------------------
(***************************************************************************)
(* The manifest segments_N as the writer's and the reader's codecs see it: *)
(* a sequence of words, a long being two.  The writer never rebuilds the   *)
(* records it finds: it walks them for their delGens, copies them verbatim *)
(* and patches the delGens in place, whoever wrote the records.            *)
(***************************************************************************)
EXTENDS SequencesExt, FiniteSetsExt, Integers

CONSTANTS Foreign,      \* record lists Lucene or ZSL may have left
          AddedDocs,    \* documents of the segments of a commit, sequences
          MergedDocs,   \* documents of a merged segment
          MaxSegments,  \* bound on the records of a manifest
          MaxGen        \* bound on delGens

None == 0 - 1
Format21 == 0 - 3
Format23 == 0 - 4
HeaderLen == 5   \* format, version (a long), name counter, count

(* Where a doc store is, if anywhere: its segment and its compound flag.   *)
Stores == {<<>>} \cup [1..2 -> Int]

ASSUME ForeignAssumption ==
    /\ Foreign \subseteq Seq([docs : Nat, delGen : Nat \cup {None}, store : Stores, numField : Int])
    /\ AddedDocs \subseteq Seq(Nat) /\ MergedDocs \subseteq Nat

VARIABLES manifest,  \* the words of the current segments_N
          segs       \* what it is meant to list: name, docs, delGen

manifestVars == <<manifest, segs>>

Long(n) == IF n = None THEN <<None, None>> ELSE <<0, n>>
OfLong(hi, lo) == IF hi = None THEN None ELSE lo
At(m, p) == IF p \in DOMAIN m THEN m[p] ELSE 0
Format(m) == m[1]
Version(m) == m[3]
NameCounter(m) == m[4]
SegCount(m) == m[5]

Header(format, version, counter, count) == <<format>> \o Long(version) \o <<counter, count>>

(* A record; store is <<>> or the doc store segment and its compound flag. *)
Record(format, name, docs, delGen, store, numField) ==
    <<name, docs>> \o Long(delGen)
      \o (IF format # Format23 THEN <<>> ELSE IF store = <<>> THEN <<None>> ELSE <<0>> \o store)
      \o <<1, numField, 1>>

-----------------------------------------------------------------------------
(* The words a record of 2.3 spends on its doc store, from p on.           *)
StoreWords(m, p) == IF Format(m) # Format23 THEN 0 ELSE IF At(m, p) # None THEN 3 ELSE 1

(* walk_records: the end of the records, and where each delGen is.         *)
WalkRecord(m, w) ==
    LET delGenAt == w.pos + 2
        end      == delGenAt + 2 + StoreWords(m, delGenAt + 2) + 3
    IN  [pos |-> end, offsets |-> Append(w.offsets, <<At(m, w.pos), delGenAt>>),
         ok |-> w.ok /\ At(m, end - 2) = None]

WalkRecords(m) ==
    LET walk[i \in 0..SegCount(m)] ==
          IF i = 0 THEN [pos |-> HeaderLen + 1, offsets |-> <<>>, ok |-> TRUE]
          ELSE WalkRecord(m, walk[i - 1])
    IN  walk[SegCount(m)]

(* read_segment_infos: a record, and all of them, none for Err.            *)
ReadRecord(m, r) ==
    LET end == r.pos + 7 + StoreWords(m, r.pos + 4)
    IN  [pos |-> end, ok |-> r.ok /\ end <= Len(m) + 1 /\ At(m, end - 2) = None,
         out |-> Append(r.out, [name |-> At(m, r.pos), docs |-> At(m, r.pos + 1),
                                delGen |-> OfLong(At(m, r.pos + 2), At(m, r.pos + 3))])]

(* Mutant: the reader takes a manifest that ends early for a shorter one.  *)
ReadLenient(m) ==
    LET read[i \in 0..SegCount(m)] ==
          IF i = 0 THEN [pos |-> HeaderLen + 1, ok |-> TRUE, out |-> <<>>]
          ELSE LET r == ReadRecord(m, read[i - 1])
               IN  IF r.pos > Len(m) + 1 THEN read[i - 1] ELSE r
        all == read[SegCount(m)]
    IN  IF all.ok THEN {all.out} ELSE {}

ReadSegmentInfos(m) ==
    LET read[i \in 0..SegCount(m)] ==
          IF i = 0 THEN [pos |-> HeaderLen + 1, ok |-> TRUE, out |-> <<>>]
          ELSE ReadRecord(m, read[i - 1])
        all == read[SegCount(m)]
    IN  IF all.ok THEN {all.out} ELSE {}

-----------------------------------------------------------------------------
(* Mutant: the low word of a delGen only is patched.                       *)
PatchedLow(m, overrides) ==
    LET at == [o \in Range(WalkRecords(m).offsets) |-> o[2]]
        hit == {o \in DOMAIN at : o[1] \in DOMAIN overrides}
    IN  [p \in DOMAIN m |-> IF \E o \in hit : p = at[o] + 1
                            THEN overrides[(CHOOSE o \in hit : p = at[o] + 1)[1]] ELSE m[p]]

(* The words of the manifest, with the delGens of the overrides.           *)
Patched(m, overrides) ==
    LET hit == {o \in Range(WalkRecords(m).offsets) : o[1] \in DOMAIN overrides}
    IN  [p \in DOMAIN m |->
           IF \E o \in hit : p - o[2] \in 0..1
           THEN LET o == CHOOSE o \in hit : p - o[2] \in 0..1
                IN  Long(overrides[o[1]])[p - o[2] + 1]
           ELSE m[p]]

(* write_generation_with_delgens                                           *)
WithDelGens(m, overrides, new, counter) ==
    Header(Format(m), Version(m) + 1, counter, SegCount(m) + Len(new))
      \o SubSeq(Patched(m, overrides), HeaderLen + 1, WalkRecords(m).pos - 1)
      \o FlattenSeq([i \in DOMAIN new |->
                       Record(Format(m), new[i].name, new[i].docs, None, <<>>, None)])

(* write_optimized_generation                                              *)
Optimized(m, name, docs) ==
    Header(Format(m), Version(m) + 1, NameCounter(m) + 1, 1)
      \o Record(Format(m), name, docs, None, <<>>, None)

-----------------------------------------------------------------------------
ManifestInit ==
    \E format \in {Format21, Format23}, recs \in Foreign :
       /\ manifest = Header(format, 7, Len(recs), Len(recs))
                       \o FlattenSeq([i \in DOMAIN recs |->
                            Record(format, i - 1, recs[i].docs, recs[i].delGen, recs[i].store,
                                   recs[i].numField)])
       /\ segs = [i \in DOMAIN recs |->
                    [name |-> i - 1, docs |-> recs[i].docs, delGen |-> recs[i].delGen]]

(* Err: a numField other than none.                                        *)
WriterOpens == WalkRecords(manifest).ok

Commit ==
    /\ WriterOpens
    /\ \E marked \in SUBSET {s.name : s \in Range(segs)}, docs \in AddedDocs :
          LET next == [n \in marked |->
                         1 + Max({0, (CHOOSE s \in Range(segs) : s.name = n).delGen})]
              new  == [i \in DOMAIN docs |->
                         [name |-> NameCounter(manifest) + i - 1, docs |-> docs[i], delGen |-> None]]
          IN  /\ Len(segs) + Len(docs) <= MaxSegments
              /\ NameCounter(manifest) + Len(docs) <= 2 * MaxSegments
              /\ \A n \in marked : next[n] <= MaxGen
              /\ Version(manifest) < 7 + MaxSegments
              /\ manifest' = WithDelGens(manifest, next, new, NameCounter(manifest) + Len(docs))
              /\ segs' = [i \in DOMAIN segs |->
                            [segs[i] EXCEPT !.delGen = IF segs[i].name \in marked
                                                       THEN next[segs[i].name] ELSE @]] \o new

Optimize ==
    /\ WriterOpens
    /\ NameCounter(manifest) < 2 * MaxSegments
    /\ Version(manifest) < 7 + MaxSegments
    /\ \E docs \in MergedDocs :
          /\ manifest' = Optimized(manifest, NameCounter(manifest), docs)
          /\ segs' = <<[name |-> NameCounter(manifest), docs |-> docs, delGen |-> None]>>

ManifestNext == Commit \/ Optimize

ManifestSpec == ManifestInit /\ [][ManifestNext]_manifestVars

-----------------------------------------------------------------------------
(* A reader takes from every manifest exactly the segments, documents and  *)
(* delGens the commits and merges so far left, whoever wrote the records   *)
(* it was copied from (segments.rs:284, zsl/segments.rs:55), and refuses   *)
(* it where the writer does.                                               *)
ManifestReadsBack ==
    ReadSegmentInfos(manifest) = IF WriterOpens THEN {segs} ELSE {}

(* A manifest torn by a crash of its write is refused, never taken for a   *)
(* shorter list of segments (segments.rs:326 writes it without a sync).    *)
TornIsRefused ==
    \A n \in HeaderLen..(Len(manifest) - 1) : ReadSegmentInfos(SubSeq(manifest, 1, n)) = {}

(* A manifest is read whole, and as it was meant, or refused.              *)
ManifestIsWhole == ManifestReadsBack /\ TornIsRefused
=============================================================================
