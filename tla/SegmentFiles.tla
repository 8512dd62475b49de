---------------------------- MODULE SegmentFiles ----------------------------
(***************************************************************************)
(* The files of one segment: a batch of documents is inverted and written  *)
(* as .fnm, .fdt, .fdx, .nrm and postings, packed into a .cfs, and read    *)
(* back.  Files are sequences of the items the code writes; .fdx holds     *)
(* positions in .fdt.  Terms are sequences of letters, and the analyzer    *)
(* makes one token of each letter.  How terms are laid out in .tis and     *)
(* .tii is in TermDictionary.                                              *)
(***************************************************************************)
EXTENDS SequencesExt, FiniteSetsExt, Integers

CONSTANTS Fields,   \* field names
          Values,   \* values: sequences of letters
          MaxDocs, MaxFields,
          Word,     \* 2^32: positions and their deltas are u32
          ByteBits  \* documents per byte of a .del

VARIABLES docs,     \* the batch: documents, each a sequence of fields
          fnm, fdx, fdt, nrm, postings,
          del,      \* the .del file, once documents are deleted
          deleted,
          pc

vars == <<docs, fnm, fdx, fdt, nrm, postings, del, deleted, pc>>

Absent == 255

IsIndexed(kind) == kind \in {"text", "keyword"}

IsTokenized(kind) == kind = "text"

-----------------------------------------------------------------------------
(* invert                                                                  *)
AllFields == FlattenSeq(docs)

FirstSeen(name) == Min({i \in DOMAIN AllFields : AllFields[i].name = name})

Names == {f.name : f \in ToSet(AllFields)}

(* Field numbers in the order of first appearance.                         *)
NumOf(name) == Cardinality({n \in Names : FirstSeen(n) <= FirstSeen(name)})

FieldMetas ==
    [n \in 1..Cardinality(Names) |->
        LET name == CHOOSE x \in Names : NumOf(x) = n
        IN  [name |-> name,
             indexed |-> \E f \in ToSet(AllFields) : f.name = name /\ IsIndexed(f.kind)]]

(* The terms of one field value, with their positions.                     *)
TermsOf(f) ==
    IF IsTokenized(f.kind) THEN [i \in DOMAIN f.value |-> [text |-> <<f.value[i]>>, pos |-> i]]
    ELSE IF f.kind = "keyword" /\ f.value # <<>> THEN <<[text |-> f.value, pos |-> 0]>>
    ELSE <<>>

(* Of each occurrence of field n in document d, one after the other.       *)
Occurrences(n, d) == SelectSeq(docs[d], LAMBDA f : NumOf(f.name) = n)

Positions(n, text, d) ==
    FlattenSeq([i \in DOMAIN Occurrences(n, d) |->
        LET hits == SelectSeq(TermsOf(Occurrences(n, d)[i]), LAMBDA t : t.text = text)
        IN  [j \in DOMAIN hits |-> hits[j].pos]])

TermKeys ==
    UNION {{<<NumOf(f.name), t.text>> : t \in ToSet(TermsOf(f))} : f \in ToSet(AllFields)}

DocsOf(n, text) == {d \in DOMAIN docs : Positions(n, text, d) # <<>>}

(* The length of the last occurrence that has terms.                       *)
NumTerms(n, d) ==
    LET filled == SelectSeq(Occurrences(n, d), LAMBDA f : TermsOf(f) # <<>>)
    IN  IF filled = <<>> THEN Absent ELSE Len(TermsOf(Last(filled)))

-----------------------------------------------------------------------------
(* The writers.                                                            *)
(* Mutant: a column for the stored-only fields as well.                    *)
WriteNormsOfAll(metas) ==
    FlattenSeq([n \in DOMAIN metas |-> [d \in DOMAIN docs |-> NumTerms(n, d)]])

(* A column of encoded lengths for each indexed field.                     *)
WriteNorms(metas) ==
    FlattenSeq([n \in DOMAIN metas |->
        IF metas[n].indexed THEN [d \in DOMAIN docs |-> NumTerms(n, d)] ELSE <<>>])

(* Mutant: the flag says indexed.                                          *)
BlockIndexed(d) ==
    <<Len(docs[d])>> \o FlattenSeq([i \in DOMAIN docs[d] |->
        <<NumOf(docs[d][i].name), IsIndexed(docs[d][i].kind), docs[d][i].value>>])

(* The block of one document: the count, then number, flag and value.      *)
Block(d) ==
    <<Len(docs[d])>> \o FlattenSeq([i \in DOMAIN docs[d] |->
        <<NumOf(docs[d][i].name), IsTokenized(docs[d][i].kind), docs[d][i].value>>])

Blocks(n) == FlattenSeq([d \in 1..n |-> Block(d)])

Pointers == [d \in DOMAIN docs |-> Len(Blocks(d - 1))]

(* Mutant: a delta below zero is written as zero.                          *)
ProxDeltasSaturated(s) ==
    [i \in DOMAIN s |-> IF i = 1 THEN s[i] ELSE Max({0, s[i] - s[i - 1]})]

(* Deltas wrap around in the release build.                                *)
ProxDeltas(s) == [i \in DOMAIN s |-> IF i = 1 THEN s[i] ELSE (s[i] - s[i - 1]) % Word]

(* write_segment_cfs, up to the bytes of the .cfs.                         *)
Write ==
    /\ pc = "batch" /\ docs # <<>>
    /\ fnm' = FieldMetas
    /\ fdx' = Pointers /\ fdt' = Blocks(Len(docs))
    /\ nrm' = WriteNorms(FieldMetas)
    /\ postings' = [k \in TermKeys |-> [d \in DocsOf(k[1], k[2]) |-> ProxDeltas(Positions(k[1], k[2], d))]]
    /\ pc' = "written"
    /\ UNCHANGED <<docs, del, deleted>>

(* Mutant: as many bytes as hold the documents.                            *)
DelFileShort(n, ids) ==
    [b \in 1..(n \div ByteBits) |-> {i \in 0..(ByteBits - 1) : (b - 1) * ByteBits + i \in ids}]

(* A dense .del: byte after byte, each the set of its bits that are set.   *)
DelFile(n, ids) ==
    [b \in 1..(n \div ByteBits + 1) |->
        {i \in 0..(ByteBits - 1) : (b - 1) * ByteBits + i \in {x \in ids : x < n}}]

Delete ==
    /\ pc = "written"
    /\ \E ids \in SUBSET (0..(Len(docs) - 1)) :
          /\ ids # {}
          /\ deleted' = ids
          /\ del' = DelFile(Len(docs), ids)
    /\ pc' = "deleted"
    /\ UNCHANGED <<docs, fnm, fdx, fdt, nrm, postings>>

-----------------------------------------------------------------------------
(* The batch.                                                              *)
Init ==
    /\ docs = <<>> /\ pc = "batch" /\ deleted = {} /\ del = <<>>
    /\ fnm = <<>> /\ fdx = <<>> /\ fdt = <<>> /\ nrm = <<>> /\ postings = <<>>

AddDocument ==
    /\ pc = "batch" /\ Len(docs) < MaxDocs
    /\ docs' = Append(docs, <<>>)
    /\ UNCHANGED <<fnm, fdx, fdt, nrm, postings, del, deleted, pc>>

AddField ==
    /\ pc = "batch" /\ docs # <<>> /\ Len(Last(docs)) < MaxFields
    /\ \E name \in Fields, kind \in {"text", "keyword", "unindexed"}, value \in Values :
          docs' = [docs EXCEPT ![Len(docs)] = Append(@, [name |-> name, kind |-> kind, value |-> value])]
    /\ UNCHANGED <<fnm, fdx, fdt, nrm, postings, del, deleted, pc>>

Next == AddDocument \/ AddField \/ Write \/ Delete

Spec == Init /\ [][Next]_vars

-----------------------------------------------------------------------------
(* The readers.                                                            *)
Written == pc \in {"written", "deleted"}

(* Documents count from 1 here, and from 0 in the files.                   *)
ReadStoredRaw(d) ==
    LET at == fdx[d] + 1
    IN  [i \in 1..fdt[at] |-> [num |-> fdt[at + 3 * i - 2], tokenized |-> fdt[at + 3 * i - 1],
                               value |-> fdt[at + 3 * i]]]

(* read_stored_field: the first value of the field.                        *)
ReadStoredField(d, n) ==
    LET hits == SelectSeq(ReadStoredRaw(d), LAMBDA r : r.num = n)
    IN  IF hits = <<>> THEN {} ELSE {Head(hits).value}

(* read_stored_fields: a map, where a later value replaces an earlier one. *)
ReadStoredFields(d, n) ==
    LET hits == SelectSeq(ReadStoredRaw(d), LAMBDA r : r.num = n)
    IN  IF hits = <<>> THEN {} ELSE {Last(hits).value}

Indexed == SelectSeq([n \in DOMAIN fnm |-> n], LAMBDA n : fnm[n].indexed)

(* read_norms: the columns in the order of the indexed fields.             *)
ReadNorm(n, d) ==
    LET column == CHOOSE i \in DOMAIN Indexed : Indexed[i] = n
    IN  nrm[(column - 1) * Len(docs) + d]

ReadPositions(n, text, d) ==
    LET deltas == postings[<<n, text>>][d]
    IN  [i \in DOMAIN deltas |->
            FoldLeft(LAMBDA sum, x : (sum + x) % Word, 0, SubSeq(deltas, 1, i))]

IsDeleted(id) ==
    LET byte == id \div ByteBits + 1
    IN  byte \in DOMAIN del /\ id % ByteBits \in del[byte]

-----------------------------------------------------------------------------
NumberIn(name) == {n \in DOMAIN fnm : fnm[n].name = name}

(* The stored fields of every document come back in write order with names *)
(* and flags, through the pointers and blocks of all the documents before  *)
(* it; of a field given twice, read_stored_field has the first value and   *)
(* read_stored_fields the last (stored.rs:30).                             *)
StoredComesBack ==
    Written => \A d \in DOMAIN docs :
        LET raw == ReadStoredRaw(d)
        IN  /\ Len(raw) = Len(docs[d])
            /\ \A i \in DOMAIN raw :
                  /\ fnm[raw[i].num].name = docs[d][i].name
                  /\ raw[i].value = docs[d][i].value
                  /\ raw[i].tokenized = IsTokenized(docs[d][i].kind)
            /\ \A n \in DOMAIN fnm :
                  LET given == SelectSeq(docs[d], LAMBDA f : f.name = fnm[n].name)
                  IN  IF given = <<>>
                      THEN ReadStoredField(d, n) = {} /\ ReadStoredFields(d, n) = {}
                      ELSE /\ ReadStoredField(d, n) = {Head(given).value}
                           /\ ReadStoredFields(d, n) = {Last(given).value}

(* The length read for a field of a document is the number of its          *)
(* positions in all postings, when the field occurs once in it: no column  *)
(* is read in place of another's (norms.rs:4).                             *)
LengthsMatchPostings ==
    Written => \A n \in ToSet(Indexed), d \in DOMAIN docs :
        Cardinality({i \in DOMAIN docs[d] : docs[d][i].name = fnm[n].name}) <= 1 =>
            LET terms == {k \in DOMAIN postings : k[1] = n /\ d \in DOMAIN postings[k]}
            IN  ReadNorm(n, d) = IF terms = {} THEN Absent
                                 ELSE MapThenSumSet(LAMBDA k : Len(postings[k][d]), terms)

(* A position read back is one of a token of that text in that field of    *)
(* the document, and every token is read back, also when the field occurs  *)
(* twice and the positions start over (postings.rs:36).                    *)
PositionsComeBack ==
    Written => \A n \in DOMAIN fnm, d \in DOMAIN docs :
        LET values == SelectSeq(docs[d], LAMBDA f : f.name = fnm[n].name)
            tokens == UNION {ToSet(TermsOf(values[i])) : i \in DOMAIN values}
            read == UNION {{[text |-> k[2], pos |-> p] : p \in ToSet(ReadPositions(n, k[2], d))}
                           : k \in {x \in DOMAIN postings : x[1] = n /\ d \in DOMAIN postings[x]}}
        IN  read = tokens

(* A document is deleted exactly if it was marked, at the byte boundaries  *)
(* of the bitmap too (deletes.rs:44).                                      *)
DeletesComeBack ==
    pc = "deleted" => \A id \in 0..(Len(docs) + ByteBits) : IsDeleted(id) <=> id \in deleted

(* A segment read back is the batch of documents it was written from.      *)
SegmentComesBack == StoredComesBack /\ LengthsMatchPostings /\ PositionsComeBack /\ DeletesComeBack
=============================================================================
