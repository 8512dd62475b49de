--------------------------- MODULE WriterInvariant ---------------------------
(***************************************************************************)
(* Why GraceComplete and GraceFrozen hold: an inductive invariant of the   *)
(* writer.  Two orders do the work.  Segment names only grow, so whatever  *)
(* a session writes under a name at or above the counter it found cannot   *)
(* be a file of a manifest in grace; the delGens of a segment only grow,   *)
(* so a new bitmap never lands on an old one.  And a file is listed for    *)
(* removal by the flip that stops referring to it, so that by the next     *)
(* flip, the one that removes it, no manifest in grace refers to it.       *)
(***************************************************************************)
EXTENDS IndexWriter

(* GraceComplete, file by file.                                            *)
Sound(n) ==
  /\ manifest[n] # NoFile
  /\ \A k \in manifest[n].names :
       /\ cfs[k] # NoFile
       /\ k < manifest[n].counter
       /\ manifest[n].delGen[k] # NoDel =>
            del[k][manifest[n].delGen[k]] # NoFile
  /\ \A k \in Names \ manifest[n].names : manifest[n].delGen[k] = NoDel

(* The manifest before the current one is older name by name.              *)
Older ==
  gen - 1 >= 1 =>
    /\ manifest[gen - 1].counter <= manifest[gen].counter
    /\ \A k \in manifest[gen - 1].names \cap manifest[gen].names :
         manifest[gen - 1].delGen[k] <= manifest[gen].delGen[k]

DirInv ==
  /\ gen >= 1
  /\ Sound(gen)
  /\ gen - 1 >= 1 => Sound(gen - 1)
  /\ Older

(* Files to be removed belong to segments the index has done with.         *)
Retired(files) ==
  \A f \in files : f.seg \notin manifest[gen].names
                   /\ f.seg < manifest[gen].counter

(* ... and, once the flip is made, the generation before it too.           *)
Forgotten(files) ==
  gen - 1 >= 1 => \A f \in files : f.seg \notin manifest[gen - 1].names

CleaningUp == {"prune", "reclaim", "relist", "listing"}

CleanupInv ==
  /\ Retired(sidecar)
  /\ pc = "prune"   => Forgotten(sidecar)
  /\ pc = "reclaim" => Retired(todo) /\ Forgotten(todo)
  /\ pc \in CleaningUp \ {"prune"} => Retired(carry)
  /\ pc \in CleaningUp =>
       /\ flushed = {} /\ pending = NoPending
       /\ op \in {"commit", "optimize", "merge"}
       /\ op = "merge" => Retired(FilesOf(base))

(* A session until its flip: it builds on the current generation, under    *)
(* names and delGens that generation does not use.                         *)
Flushing == {"flush", "flushing", "compact", "drain"}
Building == {"dels", "manifest", "writing", "flip"}
BeforeFlip == {"idle", "take", "merge"} \cup Flushing \cup Building

SessionInv ==
  /\ pc \in BeforeFlip => base = manifest[gen] /\ baseGen = gen
  /\ pc \in BeforeFlip /\ op # "merge" =>
       /\ base.counter <= nextName
       /\ \A k \in flushed : base.counter <= k /\ k < nextName
                             /\ cfs[k] # NoFile
       /\ \A k \in Names : pending[k] # {} => k \in base.names
  /\ pc = "flushing" => nextName <= MaxName
  /\ pc = "drain" => \A k \in todo : base.counter <= k /\ k \notin flushed
  /\ op = "add" => pc \in Flushing
  /\ pc \in Flushing => op \in {"add", "commit", "optimize"}
  /\ pc \in {"take"} \cup Building => op \in {"commit", "optimize", "merge"}
  /\ op = "merge" =>
       pc \in {"merge", "manifest", "flip"} \cup CleaningUp
  /\ pc = "merge" => op = "merge"
  /\ pc \in {"closed", "check"} => flushed = {} /\ pending = NoPending

(* What the manifest about to be written refers to is there before it.     *)
Written(k) ==
  LET next == NextDelGen(base.delGen[k])
  IN next \in DelGens /\ del[k][next] # NoFile

BuildInv ==
  /\ pc = "dels" => todo \subseteq Doomed
                    /\ \A k \in Doomed \ todo : Written(k)
  /\ pc \in {"manifest", "writing", "flip"} =>
       IF op = "merge"
       THEN base.counter <= MaxName /\ cfs[base.counter] # NoFile
       ELSE \A k \in Doomed : Written(k)
  /\ pc = "flip" =>
       /\ gen < MaxGen
       /\ NextManifest \in Manifests
       /\ manifest[gen + 1] = NextManifest

IndInv == TypeOK /\ DirInv /\ CleanupInv /\ SessionInv /\ BuildInv
==============================================================================
