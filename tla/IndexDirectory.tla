--------------------------- MODULE IndexDirectory ---------------------------
(***************************************************************************)
(* The files of an index directory, as the writer leaves them and as a     *)
(* reader finds them: segments.gen, the manifests segments_<n>, the        *)
(* compound segment files _<k>.cfs, the deletion bitmaps _<k>_<g>.del and  *)
(* the pending_deletions sidecar.                                          *)
(*                                                                         *)
(* A segment is the set of its documents: their order and the numbers it   *)
(* gives them are left out, and so is everything else a .cfs holds.  A     *)
(* file that does not exist and a file whose write stopped half-way are    *)
(* both NoFile: every reader of the code answers Err to the one as to the  *)
(* other.                                                                  *)
(***************************************************************************)
EXTENDS Integers, FiniteSets

CONSTANTS
  Docs,       \* the documents: one value per add_document call
  InitDocs,   \* those of the index before the first session
  MaxName,    \* bound on segment names (name_counter)
  MaxGen,     \* bound on generations
  MaxDelGen,  \* bound on the delGen of a segment
  NoFile      \* the content of a file that is missing or half-written

Names   == 0 .. MaxName
Gens    == 0 .. MaxGen
DelGens == 0 .. MaxDelGen
NoDel   == -1              \* delGen of a segment with no .del file

(* What segments_<n> says: the segments listed, the delGen of each and     *)
(* name_counter.  Names that are not listed have delGen NoDel.             *)
Manifests == [names   : SUBSET Names,
              delGen  : [Names -> {NoDel} \cup DelGens],
              counter : 0 .. (MaxName + 1)]

(* A data file: _<seg>.cfs when del = NoDel, else its bitmap number del.   *)
DataFiles == [seg : Names, del : {NoDel} \cup DelGens]

ASSUME ConstantsAssumption ==
  /\ InitDocs \subseteq Docs
  /\ IsFiniteSet(Docs)
  /\ MaxName \in Nat /\ MaxGen \in Nat \ {0} /\ MaxDelGen \in Nat
  /\ \A content \in SUBSET Docs : content # NoFile
  /\ NoFile \notin Manifests

VARIABLES
  gen,       \* the number in segments.gen
  manifest,  \* manifest[n] : segments_<n>   (n = 0: the file "segments")
  cfs,       \* cfs[k] : the documents of _<k>.cfs
  del,       \* del[k][g] : the documents _<k>_<g>.del marks (g = 0: _<k>.del)
  sidecar    \* the data files listed in pending_deletions

dirVars == <<gen, manifest, cfs, del, sidecar>>

DirTypeOK ==
  /\ gen \in Gens
  /\ manifest \in [Gens -> {NoFile} \cup Manifests]
  /\ cfs \in [Names -> {NoFile} \cup SUBSET Docs]
  /\ del \in [Names -> [DelGens -> {NoFile} \cup SUBSET Docs]]
  /\ sidecar \in SUBSET DataFiles

-----------------------------------------------------------------------------
(* The documents bitmap g of segment k deletes.  The reader takes a bitmap *)
(* it cannot read for an empty one.                                        *)
Deleted(k, g) ==
  IF g = NoDel \/ del[k][g] = NoFile THEN {} ELSE del[k][g]

(* The documents a reader of manifest m finds.                             *)
Visible(m) == UNION {cfs[k] \ Deleted(k, m.delGen[k]) : k \in m.names}

(* The data files manifest m refers to.                                    *)
FilesOf(m) ==
  {f \in DataFiles : f.seg \in m.names /\ f.del \in {NoDel, m.delGen[f.seg]}}

Present(f) ==
  IF f.del = NoDel THEN cfs[f.seg] # NoFile ELSE del[f.seg][f.del] # NoFile

(* Manifest n can be read and so can every file it refers to.              *)
Complete(n) ==
  /\ manifest[n] # NoFile
  /\ \A f \in FilesOf(manifest[n]) : Present(f)

(* One of the generations a commit must leave alone: the current one and   *)
(* the one before it, kept for readers that read segments.gen before the   *)
(* flip.  The directory the first session finds may have no older one.     *)
InGrace(n) == n \in Gens /\ n <= gen /\ n >= gen - 1 /\ n >= 1

DirInit ==
  \E g \in {NoDel, 0} : \E deleted \in SUBSET InitDocs :
    /\ g = NoDel => deleted = {}
    /\ gen = 1
    /\ manifest = [n \in Gens |->
         IF n = 1
         THEN [names   |-> {0},
               delGen  |-> [k \in Names |-> IF k = 0 THEN g ELSE NoDel],
               counter |-> 1]
         ELSE NoFile]
    /\ cfs = [k \in Names |-> IF k = 0 THEN InitDocs ELSE NoFile]
    /\ del = [k \in Names |-> [h \in DelGens |->
         IF k = 0 /\ h = g THEN deleted ELSE NoFile]]
    /\ sidecar = {}
=============================================================================
