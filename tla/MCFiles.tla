------------------------------ MODULE MCFiles ------------------------------
(* The files of an index, one module at a time on small inputs.  The parts *)
(* share nothing: the variables of the others stay as they are.            *)
(* CompoundFile and GenerationFile are extended; the rest are instances,   *)
(* under other names where two have a variable in common.                  *)
EXTENDS CompoundFile, GenerationFile, TLC

VARIABLES part,
          names, tis, tii, frq, prx, prev, idxPrev, lastIndexPosition, cur, todo, written, closed,
          docs, fnm, fdx, fdt, nrm, postings, del, deleted, pc,
          code, norm,                      \* "what" of Codecs and FieldNorms
          pairs, map,                      \* Synonyms
          mem, unwritten, folder, at, seg  \* NativeIndex

MCSources == <<".tis", ".fnm", ".frq">>
MCOnDisk == {".tis", ".frq"}

-----------------------------------------------------------------------------
(* Two fields of four terms each, some a prefix of another; a term in one   *)
(* document, in two of them, or in none that is left.                       *)
DictionaryTexts == {<<1>>, <<1, 1>>, <<1, 2>>, <<2>>}
DocLists == {<<>>, <<<<2, <<0>>>>>>, <<<<0, <<1, 3>>>>, <<1, <<2>>>>>>}

D == INSTANCE TermDictionary WITH
    Fields <- {1, 2}, Texts <- DictionaryTexts, DocLists <- DocLists, Interval <- 3, done <- closed

-----------------------------------------------------------------------------
(* Two documents of up to two fields; words of sixteen and bytes of two.    *)
S == INSTANCE SegmentFiles WITH
    Fields <- {"f", "g"}, Values <- {<<>>, <<1, 2, 1>>}, MaxDocs <- 2, MaxFields <- 2,
    Word <- 16, ByteBits <- 2

-----------------------------------------------------------------------------
(* Payloads of three bits in words of eight, so that the last byte is not   *)
(* full, as that of seven bits in 64 is not.  Code points at both ends of   *)
(* each width, and every class of lead byte.                                *)
UpTo(n, X) == UNION {[1..k -> X] : k \in 0..n}
Points == {0, 1, 127, 128, 2047, 2048, 65535, 65536, 1114111}
Junk == {<<k>> \o s : k \in 0..2, s \in UpTo(4, {0, 65, 128, 195, 224, 240, 255})}

C == INSTANCE Codecs WITH
    PayloadBits <- 3, WordBits <- 8, Ints <- 0..255, Chars <- UpTo(2, Points),
    Junk <- Junk, Numbers <- 0..40 \cup {1294, 1295, 1296, 1297, 46655, 46656}, what <- code

-----------------------------------------------------------------------------
(* All lengths up to 1500; collections of up to five documents around a     *)
(* sample of two.                                                           *)
NormDocs == {d \in [len : {0, 1, 2, 3, 5, 8, 40}, tf : 0..3] : d.tf <= d.len}
Collections == UNION {[1..n -> NormDocs] : n \in 1..2}
                 \cup UNION {[1..n -> {[len |-> 2, tf |-> 1], [len |-> 40, tf |-> 1]}] : n \in 3..5}

N == INSTANCE FieldNorms WITH
    Lengths <- 1..1500, Collections <- Collections, SampleCap <- 2, what <- norm

-----------------------------------------------------------------------------
(* Manifests that Lucene or ZSL may have left: with deletions and without,  *)
(* and records with separate norm files.                                    *)
Records == [docs : {5}, delGen : {-1, 1}, store : {<<>>, <<0, 1>>}, numField : {-1}]
Left == UpTo(2, Records) \cup {<<[docs |-> 5, delGen |-> -1, store |-> <<>>, numField |-> 0]>>}
Additions == {<<>>, <<2>>, <<2, 3>>}

-----------------------------------------------------------------------------
(* Values in the order given, repeated, empty, and more than the cap.       *)
SynonymPairs ==
    [key : {<<1>>, <<2>>, <<3, 4>>},
     values : {<<>>} \cup UNION {[1..n -> {<<2>>, <<4, 2>>, <<>>}] : n \in 1..2}
                \cup {<<<<4>>, <<2>>, <<1>>>>}]

Y == INSTANCE Synonyms WITH Pairs <- SynonymPairs, MaxPairs <- 3, Cap <- 2

-----------------------------------------------------------------------------
(* Documents with a repeated field, an empty one, a field both text and     *)
(* keyword, and a stored-only field.                                        *)
Field(name, value, kind) == [name |-> name, value |-> value, kind |-> kind]
Aa == <<1>>
Bb == <<1, 2>>
Cc == <<2>>
Documents ==
    {<<Field("t", <<Aa, Bb, Aa>>, "text"), Field("k", <<Aa>>, "keyword")>>,
     <<Field("t", <<Bb>>, "text"), Field("t", <<Bb, Cc>>, "text"), Field("s", <<Cc>>, "stored")>>,
     <<Field("k", <<Aa, Cc>>, "keyword"), Field("t", <<>>, "text")>>,
     <<Field("t", <<Cc>>, "keyword"), Field("t", <<Cc, Aa>>, "text"), Field("k", <<Cc>>, "keyword")>>,
     <<>>}

I == INSTANCE NativeIndex WITH
    Documents <- Documents, MaxDocs <- 3, Probes <- {<<>>, Aa, Bb, Cc, <<1, 1>>},
    todo <- unwritten, dir <- folder, pc <- at

-----------------------------------------------------------------------------
Off(x) == x = 0

DictionaryOff == Off(names) /\ Off(tis) /\ Off(tii) /\ Off(frq) /\ Off(prx) /\ Off(prev) /\ Off(idxPrev)
                 /\ Off(lastIndexPosition) /\ Off(cur) /\ Off(todo) /\ Off(written) /\ Off(closed)
SegmentOff == Off(docs) /\ Off(fnm) /\ Off(fdx) /\ Off(fdt) /\ Off(nrm) /\ Off(postings) /\ Off(del)
              /\ Off(deleted) /\ Off(pc)
CompoundOff == Off(size) /\ Off(measured) /\ Off(dir) /\ Off(out) /\ error = FALSE /\ done = FALSE
ManifestOff == manifest = Header(Format23, 0, 0, 0) /\ segs = <<>>
NativeOff == Off(mem) /\ Off(unwritten) /\ Off(folder) /\ Off(at) /\ Off(seg)

Parts == {"compound", "dictionary", "segment", "codecs", "norms", "manifest", "synonyms", "native"}

FilesInit ==
    /\ part \in Parts
    /\ IF part = "compound" THEN Init ELSE CompoundOff
    /\ IF part = "dictionary" THEN D!Init ELSE DictionaryOff
    /\ IF part = "segment" THEN S!Init ELSE SegmentOff
    /\ IF part = "codecs" THEN C!Init ELSE Off(code)
    /\ IF part = "norms" THEN N!Init ELSE Off(norm)
    /\ IF part = "manifest" THEN ManifestInit ELSE ManifestOff
    /\ IF part = "synonyms" THEN Y!Init ELSE Off(pairs) /\ Off(map)
    /\ IF part = "native" THEN I!Init ELSE NativeOff

dictionary == <<names, tis, tii, frq, prx, prev, idxPrev, lastIndexPosition, cur, todo, written, closed>>
segment == <<docs, fnm, fdx, fdt, nrm, postings, del, deleted, pc>>
native == <<mem, unwritten, folder, at, seg>>
small == <<code, norm, manifest, segs, pairs, map>>

FilesNext ==
    \/ part = "compound" /\ Next /\ UNCHANGED <<part, dictionary, segment, native, small>>
    \/ part = "dictionary" /\ D!Next /\ UNCHANGED <<part, vars, segment, native, small>>
    \/ part = "segment" /\ S!Next /\ UNCHANGED <<part, vars, dictionary, native, small>>
    \/ part = "native" /\ I!Next /\ UNCHANGED <<part, vars, dictionary, segment, small>>
    \/ part = "codecs" /\ C!Next
       /\ UNCHANGED <<part, vars, dictionary, segment, native, norm, manifest, segs, pairs, map>>
    \/ part = "norms" /\ N!Next
       /\ UNCHANGED <<part, vars, dictionary, segment, native, code, manifest, segs, pairs, map>>
    \/ part = "manifest" /\ ManifestNext
       /\ UNCHANGED <<part, vars, dictionary, segment, native, code, norm, pairs, map>>
    \/ part = "synonyms" /\ Y!Next
       /\ UNCHANGED <<part, vars, dictionary, segment, native, code, norm, manifest, segs>>

FilesSpec == FilesInit /\ [][FilesNext]_<<part, vars, dictionary, segment, native, small>>

-----------------------------------------------------------------------------
(* The properties of each module, stated there; EachNameHasItsSource and    *)
(* ManifestIsWhole are those of the modules it extends.                     *)
DictionaryIsExact == part = "dictionary" => D!DictionaryIsExact
SegmentComesBack == part = "segment" => S!SegmentComesBack
CodecsInvert == part = "codecs" => C!CodecsInvert
NormsRank == part = "norms" => N!NormsRank
SynonymsComeBack == part = "synonyms" => Y!SynonymsComeBack
NativeIsTheIndex == part = "native" => I!NativeIsTheIndex
=============================================================================
