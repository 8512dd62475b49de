----------------------------- MODULE IndexWriter -----------------------------
(***************************************************************************)
(* The streaming writer: IndexWriter::open, add_document, delete_document, *)
(* commit, optimize and Drop, down to each file they write, flip, prune or *)
(* remove.  One session holds the write lock at a time; sessions follow    *)
(* each other, cut short by a crash, by an I/O error or by the caller.     *)
(*                                                                         *)
(* std::fs::write is two steps, between which the file reads as NoFile;    *)
(* write_atomic, write_durable and the streaming merge end in a rename and *)
(* are one.  commit_inner moves pending_deletes and flushed into locals    *)
(* (mem::take); they stay in these variables here, until the flip makes    *)
(* them obsolete, and the program counter says that Drop no longer sees    *)
(* them.                                                                   *)
(***************************************************************************)
EXTENDS IndexDirectory

CONSTANTS
  MaxBufferedDocs,  \* WriterOpts.max_buffered_docs
  MaxSegments,      \* WriterOpts.max_segments, 0 = no ceiling
  Faults            \* what may go wrong: a subset of FaultKinds

FaultKinds == {"crash",    \* the process dies
               "io",       \* a write fails and the call returns Err
               "unlink"}   \* a best-effort remove_file fails

ASSUME WriterAssumption ==
  /\ MaxBufferedDocs \in Nat /\ MaxSegments \in Nat
  /\ Faults \subseteq FaultKinds

VARIABLES
  pc,       \* "closed", "idle" between two calls, or the step a call is at
  op,       \* the call in progress; "merge" is the second half of optimize
  base,     \* the manifest the session builds upon (base, base_segments)
  baseGen,  \* its number
  nextName, \* next_name_counter
  buffer,   \* documents not yet flushed
  flushed,  \* names of the segments flushed in this session
  pending,  \* pending[k] : documents of base segment k to delete
  todo,     \* the rest of the loop pc is in: names, segments or data files
  carry     \* listed files whose removal failed, to be listed again

session == <<pc, op, base, baseGen, nextName, buffer, flushed, pending,
             todo, carry>>
vars == <<dirVars, session>>

Loops == {"drain", "dels", "reclaim"}
Steps == {"flush", "flushing", "compact", "take", "manifest", "writing",
          "flip", "prune", "relist", "listing", "check", "merge"} \cup Loops

NoManifest == [names |-> {}, delGen |-> [k \in Names |-> NoDel], counter |-> 0]
NoPending  == [k \in Names |-> {}]

TypeOK ==
  /\ DirTypeOK
  /\ pc \in {"closed", "idle"} \cup Steps
  /\ op \in {"none", "add", "commit", "optimize", "merge"}
  /\ base \in Manifests
  /\ baseGen \in Gens
  /\ nextName \in 0 .. (MaxName + 1)
  /\ buffer \in SUBSET Docs
  /\ flushed \in SUBSET Names
  /\ pending \in [Names -> SUBSET Docs]
  /\ todo # {} => pc \in {"drain", "dels", "reclaim"}
  /\ todo \in SUBSET (IF pc = "reclaim" THEN DataFiles ELSE Names)
  /\ carry \in SUBSET DataFiles

-----------------------------------------------------------------------------
DocsIn(segs) == UNION {cfs[k] : k \in segs}
Doomed       == {k \in Names : pending[k] # {}}

(* Documents that no file and no session has seen.                         *)
Fresh == Docs \ (buffer \cup UNION {cfs[k] : k \in {n \in Names : cfs[n] # NoFile}})

(* document_count.                                                         *)
DocumentCount ==
  LET staged == Cardinality(Visible(base)) + Cardinality(DocsIn(flushed))
                  + Cardinality(buffer)
      doomed == Cardinality(UNION {pending[k] : k \in Names})
  IN IF staged > doomed THEN staged - doomed ELSE 0

(* Mutation: the bitmap is rewritten in place.                             *)
NextDelGenInPlace(g) == IF g = NoDel THEN 1 ELSE g

(* The delGen commit_inner gives a segment it deletes from.                *)
NextDelGen(g) == IF g = NoDel THEN 1 ELSE g + 1

(* The manifest the call in progress is about to publish: the merged       *)
(* segment alone, or the base with the flushed segments and new delGens.   *)
NextManifest ==
  IF op = "merge"
  THEN [names   |-> {base.counter},
        delGen  |-> [k \in Names |-> NoDel],
        counter |-> base.counter + 1]
  ELSE [names   |-> base.names \cup flushed,
        delGen  |-> [k \in Names |-> IF k \in Doomed
                                     THEN NextDelGen(base.delGen[k])
                                     ELSE base.delGen[k]],
        counter |-> nextName]

(* Mutations: optimize forgets the files it merged, or lists the new ones. *)
SupersededNothing == {}
SupersededCurrent == IF op = "merge" THEN FilesOf(manifest[gen]) ELSE {}

(* What the flip made obsolete, for the sidecar: optimize lists the files  *)
(* of the segments it merged; commit lists nothing.                        *)
Superseded == IF op = "merge" THEN FilesOf(base) ELSE {}

WriterInit ==
  /\ pc = "closed" /\ op = "none"
  /\ base = NoManifest /\ baseGen = 0 /\ nextName = 0
  /\ buffer = {} /\ flushed = {} /\ pending = NoPending
  /\ todo = {} /\ carry = {}

Init == DirInit /\ WriterInit

(* The writer is dropped, or its process dies: nothing of it is left.      *)
Forget ==
  /\ pc' = "closed" /\ op' = "none"
  /\ base' = NoManifest /\ baseGen' = 0 /\ nextName' = 0
  /\ buffer' = {} /\ flushed' = {} /\ pending' = NoPending
  /\ todo' = {} /\ carry' = {}

-----------------------------------------------------------------------------
(* The calls                                                               *)

(* IndexWriter::open.  Bound: a session flips at most twice.               *)
Open ==
  /\ pc = "closed" /\ gen + 2 <= MaxGen
  /\ manifest[gen] # NoFile
  /\ \A k \in manifest[gen].names : cfs[k] # NoFile
  /\ pc' = "idle"
  /\ base' = manifest[gen] /\ baseGen' = gen
  /\ nextName' = manifest[gen].counter
  /\ UNCHANGED <<dirVars, op, buffer, flushed, pending, todo, carry>>

(* add_document pushes first, and flushes when the buffer is full.         *)
(* Bound: names for this flush, one compaction and one merge remain.       *)
AddDocument(d) ==
  /\ pc = "idle" /\ d \in Fresh /\ nextName + 2 <= MaxName
  /\ buffer' = buffer \cup {d}
  /\ IF Cardinality(buffer') >= MaxBufferedDocs
     THEN pc' = "flush" /\ op' = "add"
     ELSE UNCHANGED <<pc, op>>
  /\ UNCHANGED <<dirVars, base, baseGen, nextName, flushed, pending, todo,
                 carry>>

(* delete_document of a base document, deleted already or not.             *)
(* Bound: the segment's next delGen exists.                                *)
DeleteDocument(k, d) ==
  /\ pc = "idle" /\ k \in base.names /\ d \in cfs[k]
  /\ NextDelGen(base.delGen[k]) \in DelGens
  /\ pending' = [pending EXCEPT ![k] = @ \cup {d}]
  /\ UNCHANGED <<dirVars, pc, op, base, baseGen, nextName, buffer, flushed,
                 todo, carry>>

(* commit and optimize start by flushing what is left in the buffer.       *)
(* Bound: names for that flush, one compaction and one merge remain.       *)
StartCommit(call) ==
  /\ pc = "idle" /\ call \in {"commit", "optimize"}
  /\ call = "optimize" => nextName <= MaxName
  /\ pc' = IF buffer = {} THEN "take" ELSE "flush"
  /\ op' = call
  /\ UNCHANGED <<dirVars, base, baseGen, nextName, buffer, flushed, pending,
                 todo, carry>>

(* Drop: removes the segments it still lists, as far as it can.            *)
Drop(orphans) ==
  /\ \E kept \in SUBSET orphans :
       /\ kept # {} => "unlink" \in Faults
       /\ cfs' = [k \in Names |-> IF k \in orphans \ kept THEN NoFile
                                  ELSE cfs[k]]
  /\ Forget
  /\ UNCHANGED <<gen, manifest, del, sidecar>>

(* The caller drops the writer without committing.                         *)
Abandon == pc = "idle" /\ Drop(flushed)

-----------------------------------------------------------------------------
(* flush_segment and compact_flushed                                       *)

AfterFlush == IF op = "add" THEN "idle" ELSE "take"
AfterFlushOp == IF op = "add" THEN "none" ELSE op

(* Mutation: the base segments are not counted.                            *)
CrossesCeilingAlone(segs) ==
  MaxSegments # 0 /\ Cardinality(segs) > MaxSegments

CrossesCeiling(segs) ==
  /\ MaxSegments # 0
  /\ Cardinality(base.names) + Cardinality(segs) > MaxSegments
  /\ Cardinality(segs) >= 2

FlushBegin ==
  /\ pc = "flush" /\ nextName <= MaxName
  /\ cfs' = [cfs EXCEPT ![nextName] = NoFile]
  /\ pc' = "flushing"
  /\ UNCHANGED <<gen, manifest, del, sidecar, op, base, baseGen, nextName,
                 buffer, flushed, pending, todo, carry>>

FlushEnd ==
  /\ pc = "flushing" /\ nextName <= MaxName
  /\ cfs' = [cfs EXCEPT ![nextName] = buffer]
  /\ flushed' = flushed \cup {nextName}
  /\ nextName' = nextName + 1
  /\ buffer' = {}
  /\ IF CrossesCeiling(flushed')
     THEN pc' = "compact" /\ UNCHANGED op
     ELSE pc' = AfterFlush /\ op' = AfterFlushOp
  /\ UNCHANGED <<gen, manifest, del, sidecar, base, baseGen, pending, todo,
                 carry>>

(* The merged segment replaces its inputs in flushed here, not after their *)
(* removal: nothing looks at flushed in between.                           *)
Compact ==
  /\ pc = "compact" /\ nextName <= MaxName
  /\ \A k \in flushed : cfs[k] # NoFile
  /\ cfs' = [cfs EXCEPT ![nextName] = DocsIn(flushed)]
  /\ flushed' = {nextName}
  /\ nextName' = nextName + 1
  /\ todo' = flushed
  /\ pc' = "drain"
  /\ UNCHANGED <<gen, manifest, del, sidecar, op, base, baseGen, buffer,
                 pending, carry>>

(* One merged-away input is removed, or could not be.                      *)
RemoveInput(k) ==
  /\ pc = "drain" /\ k \in todo
  /\ \/ cfs' = [cfs EXCEPT ![k] = NoFile]
     \/ "unlink" \in Faults /\ UNCHANGED cfs
  /\ todo' = todo \ {k}
  /\ UNCHANGED <<gen, manifest, del, sidecar, pc, op, base, baseGen,
                 nextName, buffer, flushed, pending, carry>>

Drained ==
  /\ pc = "drain" /\ todo = {}
  /\ pc' = AfterFlush /\ op' = AfterFlushOp
  /\ UNCHANGED <<dirVars, base, baseGen, nextName, buffer, flushed, pending,
                 todo, carry>>

-----------------------------------------------------------------------------
(* commit_inner                                                            *)

(* Nothing to publish: commit returns, optimize goes on to its merge.      *)
TakeNothing ==
  /\ pc = "take" /\ flushed = {} /\ Doomed = {}
  /\ IF op = "commit"
     THEN Forget
     ELSE /\ pc' = "check"
          /\ UNCHANGED <<op, base, baseGen, nextName, buffer, flushed,
                         pending, todo, carry>>
  /\ UNCHANGED dirVars

Take ==
  /\ pc = "take" /\ ~(flushed = {} /\ Doomed = {})
  /\ pc' = "dels"
  /\ todo' = Doomed
  /\ UNCHANGED <<dirVars, op, base, baseGen, nextName, buffer, flushed,
                 pending, carry>>

(* Mutation: the deletions of earlier sessions are forgotten.              *)
WriteDelAfresh(k) ==
  LET next == NextDelGen(base.delGen[k])
  IN /\ pc = "dels" /\ k \in todo /\ next \in DelGens
     /\ del' = [del EXCEPT ![k][next] = pending[k]]
     /\ todo' = todo \ {k}
     /\ UNCHANGED <<gen, manifest, cfs, sidecar, pc, op, base, baseGen,
                    nextName, buffer, flushed, pending, carry>>

(* The bitmap of a touched segment: the one the base has, which must be    *)
(* readable, and the documents this session deletes.                       *)
WriteDel(k) ==
  LET current == base.delGen[k]
      next    == NextDelGen(current)
  IN /\ pc = "dels" /\ k \in todo /\ next \in DelGens
     /\ current # NoDel => del[k][current] # NoFile
     /\ del' = [del EXCEPT ![k][next] = Deleted(k, current) \cup pending[k]]
     /\ todo' = todo \ {k}
     /\ UNCHANGED <<gen, manifest, cfs, sidecar, pc, op, base, baseGen,
                    nextName, buffer, flushed, pending, carry>>

DelsWritten ==
  /\ pc = "dels" /\ todo = {}
  /\ pc' = "manifest"
  /\ UNCHANGED <<dirVars, op, base, baseGen, nextName, buffer, flushed,
                 pending, todo, carry>>

-----------------------------------------------------------------------------
(* write_generation_with_delgens, write_optimized_generation               *)

(* commit writes segments_{N+1} in place.                                  *)
ManifestBegin ==
  /\ pc = "manifest" /\ op # "merge" /\ baseGen < MaxGen
  /\ manifest' = [manifest EXCEPT ![baseGen + 1] = NoFile]
  /\ pc' = "writing"
  /\ UNCHANGED <<gen, cfs, del, sidecar, op, base, baseGen, nextName, buffer,
                 flushed, pending, todo, carry>>

(* The end of that write, or optimize's rename of the synced manifest.     *)
ManifestEnd ==
  /\ pc = IF op = "merge" THEN "manifest" ELSE "writing"
  /\ baseGen < MaxGen /\ NextManifest \in Manifests
  /\ manifest' = [manifest EXCEPT ![baseGen + 1] = NextManifest]
  /\ pc' = "flip"
  /\ UNCHANGED <<gen, cfs, del, sidecar, op, base, baseGen, nextName, buffer,
                 flushed, pending, todo, carry>>

(* The rename of segments.gen: the session's documents and deletions are   *)
(* now in the index.                                                       *)
Flip ==
  /\ pc = "flip" /\ baseGen < MaxGen
  /\ gen' = baseGen + 1
  /\ flushed' = {} /\ pending' = NoPending
  /\ pc' = "prune"
  /\ UNCHANGED <<manifest, cfs, del, sidecar, op, base, baseGen, nextName,
                 buffer, todo, carry>>

(* Mutation: only the current manifest is kept.                            *)
StaleTooSoon(n) == n \in Gens /\ n >= 1 /\ n < gen /\ manifest[n] # NoFile

(* prune_old_generations: never the file "segments" (n = 0).               *)
Stale(n) == n \in Gens /\ n >= 1 /\ n < gen - 1 /\ manifest[n] # NoFile

Prune(n) ==
  /\ pc = "prune" /\ Stale(n)
  /\ manifest' = [manifest EXCEPT ![n] = NoFile]
  /\ UNCHANGED <<gen, cfs, del, sidecar, session>>

(* Mutations: the old list is carried over whole; what this flip made      *)
(* obsolete goes at once.                                                  *)
PrunedCarries ==
  /\ pc = "prune"
  /\ (\E n \in Gens : Stale(n)) => "unlink" \in Faults
  /\ todo' = sidecar /\ carry' = sidecar
  /\ pc' = "reclaim"
  /\ UNCHANGED <<dirVars, op, base, baseGen, nextName, buffer, flushed,
                 pending>>
PrunedEager ==
  /\ pc = "prune"
  /\ (\E n \in Gens : Stale(n)) => "unlink" \in Faults
  /\ todo' = sidecar \cup Superseded /\ carry' = {}
  /\ pc' = "reclaim"
  /\ UNCHANGED <<dirVars, op, base, baseGen, nextName, buffer, flushed,
                 pending>>

(* The directory has been walked; process_pending_deletions reads the      *)
(* sidecar, and forgets the old list when it cannot.                       *)
Pruned ==
  /\ pc = "prune"
  /\ (\E n \in Gens : Stale(n)) => "unlink" \in Faults
  /\ \/ todo' = sidecar
     \/ "io" \in Faults /\ todo' = {}
  /\ carry' = {}
  /\ pc' = "reclaim"
  /\ UNCHANGED <<dirVars, op, base, baseGen, nextName, buffer, flushed,
                 pending>>

-----------------------------------------------------------------------------
(* process_pending_deletions                                               *)

Reclaim(f) ==
  /\ pc = "reclaim" /\ f \in todo
  /\ IF f.del = NoDel
     THEN cfs' = [cfs EXCEPT ![f.seg] = NoFile] /\ UNCHANGED del
     ELSE del' = [del EXCEPT ![f.seg][f.del] = NoFile] /\ UNCHANGED cfs
  /\ todo' = todo \ {f}
  /\ UNCHANGED <<gen, manifest, sidecar, pc, op, base, baseGen, nextName,
                 buffer, flushed, pending, carry>>

(* Mutation: the first removal that fails ends the loop, with the rest of   *)
(* the list neither tried nor carried.                                     *)
ReclaimStops(f) ==
  /\ pc = "reclaim" /\ f \in todo /\ "unlink" \in Faults /\ Present(f)
  /\ carry' = carry \cup {f}
  /\ todo' = todo \ {f}
  /\ pc' = "relist"
  /\ UNCHANGED <<dirVars, op, base, baseGen, nextName, buffer, flushed,
                 pending>>

(* The file is still there after the failed removal: listed again.         *)
ReclaimFails(f) ==
  /\ pc = "reclaim" /\ f \in todo /\ "unlink" \in Faults /\ Present(f)
  /\ carry' = carry \cup {f}
  /\ todo' = todo \ {f}
  /\ UNCHANGED <<dirVars, pc, op, base, baseGen, nextName, buffer, flushed,
                 pending>>

(* Mutation: the call waits until every listed file is gone.               *)
ReclaimedAll ==
  /\ pc = "reclaim" /\ todo = {} /\ carry = {}
  /\ pc' = "relist"
  /\ UNCHANGED <<dirVars, op, base, baseGen, nextName, buffer, flushed,
                 pending, todo, carry>>

Reclaimed ==
  /\ pc = "reclaim" /\ todo = {}
  /\ pc' = "relist"
  /\ UNCHANGED <<dirVars, op, base, baseGen, nextName, buffer, flushed,
                 pending, todo, carry>>

(* The call returns, or optimize goes on from its commit to its merge.     *)
AfterPublish ==
  IF op = "optimize"
  THEN /\ pc' = "check" /\ carry' = {}
       /\ UNCHANGED <<op, base, baseGen, nextName, buffer, flushed, pending,
                      todo>>
  ELSE Forget

Listed == carry \cup Superseded

(* Nothing to list: the sidecar is removed.  Otherwise it is written in    *)
(* place, and truncated first.                                             *)
Relist ==
  /\ pc = "relist"
  /\ sidecar' = {}
  /\ IF Listed = {}
     THEN AfterPublish
     ELSE /\ pc' = "listing"
          /\ UNCHANGED <<op, base, baseGen, nextName, buffer, flushed,
                         pending, todo, carry>>
  /\ UNCHANGED <<gen, manifest, cfs, del>>

(* A failed write is ignored and leaves some of the lines.                 *)
ListingEnd ==
  /\ pc = "listing"
  /\ \/ sidecar' = Listed
     \/ "io" \in Faults /\ sidecar' \in SUBSET Listed
  /\ AfterPublish
  /\ UNCHANGED <<gen, manifest, cfs, del>>

-----------------------------------------------------------------------------
(* The second half of optimize                                             *)

NeedsMerge(m) ==
  \/ Cardinality(m.names) > 1
  \/ \E k \in m.names : m.delGen[k] # NoDel

(* It reads the index again; with one segment and no deletions, it is done.*)
Check ==
  /\ pc = "check" /\ manifest[gen] # NoFile
  /\ IF NeedsMerge(manifest[gen])
     THEN /\ pc' = "merge" /\ op' = "merge"
          /\ base' = manifest[gen] /\ baseGen' = gen
          /\ UNCHANGED <<nextName, buffer, flushed, pending, todo, carry>>
     ELSE Forget
  /\ UNCHANGED dirVars

(* Mutation: the merge ignores the bitmaps.                                *)
MergeDead ==
  /\ pc = "merge" /\ base.counter <= MaxName
  /\ cfs' = [cfs EXCEPT ![base.counter] = DocsIn(base.names)]
  /\ pc' = "manifest"
  /\ UNCHANGED <<gen, manifest, del, sidecar, op, base, baseGen, nextName,
                 buffer, flushed, pending, todo, carry>>

(* merge_segments_streaming: every live document, in one new segment.      *)
Merge ==
  /\ pc = "merge" /\ base.counter <= MaxName
  /\ \A k \in base.names : cfs[k] # NoFile
  /\ cfs' = [cfs EXCEPT ![base.counter] = Visible(base)]
  /\ pc' = "manifest"
  /\ UNCHANGED <<gen, manifest, del, sidecar, op, base, baseGen, nextName,
                 buffer, flushed, pending, todo, carry>>

-----------------------------------------------------------------------------
(* Faults                                                                  *)

(* add_document returns Err: the writer stays open, with the document in   *)
(* its buffer or, when compaction failed, in a flushed segment.            *)
AddFails ==
  /\ op = "add" /\ pc \in {"flush", "flushing", "compact"}
  /\ pc = "compact" => nextName <= MaxName
  /\ pc' = "idle" /\ op' = "none"
  /\ nextName' = IF pc = "compact" THEN nextName + 1 ELSE nextName
  /\ UNCHANGED <<dirVars, base, baseGen, buffer, flushed, pending, todo,
                 carry>>

(* commit or optimize returns Err and the writer it consumed is dropped;   *)
(* once they are taken, Drop no longer removes the flushed segments.       *)
CallFails ==
  /\ op # "add"
  /\ \/ pc \in {"flush", "flushing", "compact"} /\ Drop(flushed)
     \/ pc \in {"dels", "manifest", "writing", "flip", "check", "merge"}
          /\ Drop({})

Crash ==
  /\ pc # "closed"
  /\ Forget
  /\ UNCHANGED dirVars

-----------------------------------------------------------------------------
(* What the caller asks for.                                               *)
Call ==
  \/ Open
  \/ \E d \in Docs : AddDocument(d)
  \/ \E k \in Names, d \in Docs : DeleteDocument(k, d)
  \/ \E call \in {"commit", "optimize"} : StartCommit(call)
  \/ Abandon

(* What a call in progress does next.                                      *)
Continue ==
  \/ FlushBegin \/ FlushEnd \/ Compact \/ Drained
  \/ \E k \in Names : RemoveInput(k)
  \/ TakeNothing \/ Take \/ DelsWritten
  \/ \E k \in Names : WriteDel(k)
  \/ ManifestBegin \/ ManifestEnd \/ Flip \/ Pruned
  \/ \E n \in Gens : Prune(n)
  \/ \E f \in DataFiles : Reclaim(f) \/ ReclaimFails(f)
  \/ Reclaimed \/ Relist \/ ListingEnd
  \/ Check \/ Merge

Fail ==
  \/ "io" \in Faults /\ (AddFails \/ CallFails)
  \/ "crash" \in Faults /\ Crash

Next == Call \/ Continue \/ Fail

Spec == Init /\ [][Next]_vars

(* A thread that runs a call keeps running it.                             *)
FairSpec == Spec /\ WF_vars(Continue)

-----------------------------------------------------------------------------
(* Properties                                                              *)

(* Whatever happens, the current generation and the one a slow reader may  *)
(* still hold can be read in full: no flip precedes the files it refers    *)
(* to, and neither a reused name nor a removal takes one of them away.     *)
GraceComplete == \A n \in Gens : InGrace(n) => Complete(n)

Content(f) == IF f.del = NoDel THEN cfs[f.seg] ELSE del[f.seg][f.del]

(* A manifest that stays in grace is never rewritten, and neither are the  *)
(* files it refers to: what a reader opened twice is twice the same.       *)
Frozen(n) ==
  /\ manifest'[n] = manifest[n]
  /\ manifest[n] # NoFile =>
       \A f \in FilesOf(manifest[n]) : Content(f)' = Content(f)

GraceFrozen ==
  [][\A n \in Gens : InGrace(n) /\ InGrace(n)' => Frozen(n)]_vars

(* document_count, asked before a commit, is the number of documents the   *)
(* commit leaves in the index, unless a dead document was deleted again:   *)
(* then it is less.                                                        *)
Redeleted ==
  \E k \in base.names : pending[k] \cap Deleted(k, base.delGen[k]) # {}

CountExact ==
  [][op # "merge" /\ gen' # gen =>
       LET found == Cardinality(Visible(manifest'[gen']))
       IN IF Redeleted THEN DocumentCount <= found
                       ELSE DocumentCount = found]_vars

(* Between sessions, the segments on disk are those of the two generations *)
(* in grace and those listed for removal.  Faults leave orphans.           *)
Referenced(k) == \E n \in Gens : InGrace(n) /\ k \in manifest[n].names

NoOrphanSegment ==
  Faults = {} /\ pc = "closed" =>
    \A k \in Names : cfs[k] # NoFile =>
      Referenced(k) \/ [seg |-> k, del |-> NoDel] \in sidecar

(* The files listed for removal are still of use to a reader of the older  *)
(* generation in grace: whatever is no longer of use is gone already.      *)
ListedOnce ==
  Faults = {} /\ pc = "closed" /\ sidecar # {} =>
    gen > 1 /\ sidecar = FilesOf(manifest[gen - 1])

(* Every file that falls out of use is listed once, and so removed in time.*)
CleanUpExact == NoOrphanSegment /\ ListedOnce

(* index_writer.rs, on the clean-up after a commit: "This add-only commit   *)
(* supersedes nothing, so it records no new files."                        *)
CommitSupersedesNothing ==
  [][op # "merge" /\ gen' # gen =>
       FilesOf(manifest[gen]) \subseteq FilesOf(manifest'[gen'])]_vars

(* Compaction keeps the segments of the index at the ceiling, or at one    *)
(* more than the session found, after every call that did not fail.        *)
Ceiling ==
  Faults = {} /\ MaxSegments # 0 /\ pc = "idle" =>
    \/ Cardinality(flushed) <= 1
    \/ Cardinality(base.names) + Cardinality(flushed) <= MaxSegments

(* Every call returns.                                                     *)
CallsReturn == (pc \in Steps) ~> (pc \in {"idle", "closed"})

(* The writer implements the atomic index.                                 *)
Atomic == INSTANCE AtomicIndex WITH
  visible <- Visible(manifest[gen]),
  open    <- pc # "closed",
  staged  <- buffer \cup DocsIn(flushed),
  doomed  <- UNION {pending[k] : k \in Names}

ImplementsAtomic == Atomic!Spec
==============================================================================
