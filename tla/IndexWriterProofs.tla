-------------------------- MODULE IndexWriterProofs --------------------------
(***************************************************************************)
(* What holds of the writer for every index, every bound, every ceiling    *)
(* and every combination of faults, and of the readers beside it.          *)
(***************************************************************************)
EXTENDS IndexReaders, WriterInvariant, FiniteSetTheorems, TLAPS

USE ConstantsAssumption

(* The manifest of an open session is typed.                               *)
LEMMA NoManifestTyped == NoManifest \in Manifests
BY DEF NoManifest, Manifests, Names, NoDel

LEMMA InitTyped == Init => TypeOK
<1> SUFFICES ASSUME Init PROVE TypeOK
  OBVIOUS
<1>1. PICK g \in {NoDel, 0}, deleted \in SUBSET InitDocs : DirInit!(g)!(deleted)
  BY DEF Init, DirInit
<1>2. gen \in Gens
  BY <1>1 DEF Gens
<1>3. manifest \in [Gens -> {NoFile} \cup Manifests]
  BY <1>1 DEF Manifests, Names, DelGens, NoDel
<1>4. cfs \in [Names -> {NoFile} \cup SUBSET Docs]
  BY <1>1
<1>5. del \in [Names -> [DelGens -> {NoFile} \cup SUBSET Docs]]
  BY <1>1
<1>6. sidecar \in SUBSET DataFiles
  BY <1>1
<1> QED
  BY <1>2, <1>3, <1>4, <1>5, <1>6, NoManifestTyped
     DEF TypeOK, DirTypeOK, Init, WriterInit, Gens, NoPending

(* Nothing is left of a session that has ended: what Forget sets is typed. *)
LEMMA ForgetTyped == ASSUME DirTypeOK', Forget PROVE TypeOK'
BY NoManifestTyped DEF TypeOK, Forget, NoPending, Gens

(* What the flip lists is a set of data files.                             *)
LEMMA SupersededTyped == Superseded \subseteq DataFiles
BY DEF Superseded, FilesOf

(* Every step keeps the types.                                             *)
LEMMA NextTyped == TypeOK /\ [Next]_vars => TypeOK'
<1> SUFFICES ASSUME TypeOK, [Next]_vars PROVE TypeOK'
  OBVIOUS
<1> USE DEF TypeOK, DirTypeOK
<1>1. CASE Call
  <2>1. CASE Open
    BY <2>1 DEF Open, dirVars, Steps, Loops, Manifests
  <2>2. ASSUME NEW d \in Docs, AddDocument(d) PROVE TypeOK'
    BY <2>2 DEF AddDocument, dirVars, Steps, Loops
  <2>3. ASSUME NEW k \in Names, NEW d \in Docs, DeleteDocument(k, d)
        PROVE TypeOK'
    BY <2>3 DEF DeleteDocument, dirVars
  <2>4. ASSUME NEW call \in {"commit", "optimize"}, StartCommit(call)
        PROVE TypeOK'
    BY <2>4 DEF StartCommit, dirVars, Steps, Loops
  <2>5. CASE Abandon
    BY <2>5, ForgetTyped DEF Abandon, Drop
  <2> QED
    BY <1>1, <2>1, <2>2, <2>3, <2>4, <2>5 DEF Call
<1>2. CASE Continue
  <2>1. CASE FlushBegin
    BY <2>1 DEF FlushBegin, Steps, Loops
  <2>2. CASE FlushEnd
    BY <2>2 DEF FlushEnd, Steps, Loops, Names, AfterFlush, AfterFlushOp
  <2>3. CASE Compact
    <3>1. \A k \in flushed : cfs[k] \in SUBSET Docs
      BY <2>3 DEF Compact
    <3>2. DocsIn(flushed) \in SUBSET Docs
      BY <3>1 DEF DocsIn
    <3> QED
      BY <2>3, <3>2 DEF Compact, Steps, Loops, Names
  <2>4. CASE Drained
    BY <2>4 DEF Drained, dirVars, Steps, Loops, AfterFlush, AfterFlushOp
  <2>5. ASSUME NEW k \in Names, RemoveInput(k) PROVE TypeOK'
    BY <2>5 DEF RemoveInput
  <2>6. CASE TakeNothing
    BY <2>6, ForgetTyped DEF TakeNothing, dirVars, Steps, Loops
  <2>7. CASE Take
    BY <2>7 DEF Take, dirVars, Steps, Loops, Doomed
  <2>8. CASE DelsWritten
    BY <2>8 DEF DelsWritten, dirVars, Steps, Loops
  <2>9. ASSUME NEW k \in Names, WriteDel(k) PROVE TypeOK'
    <3>1. Deleted(k, base.delGen[k]) \cup pending[k] \in SUBSET Docs
      BY <2>9 DEF WriteDel, Deleted, Manifests
    <3> QED
      BY <2>9, <3>1 DEF WriteDel
  <2>10. CASE ManifestBegin
    BY <2>10 DEF ManifestBegin, Steps, Loops
  <2>11. CASE ManifestEnd
    BY <2>11 DEF ManifestEnd, Steps, Loops
  <2>12. CASE Flip
    BY <2>12 DEF Flip, Steps, Loops, Gens, NoPending
  <2>13. CASE Pruned
    BY <2>13 DEF Pruned, dirVars, Steps, Loops
  <2>14. ASSUME NEW n \in Gens, Prune(n) PROVE TypeOK'
    BY <2>14 DEF Prune, session
  <2>15. ASSUME NEW f \in DataFiles, Reclaim(f) PROVE TypeOK'
    <3>1. /\ cfs' \in [Names -> {NoFile} \cup SUBSET Docs]
          /\ del' \in [Names -> [DelGens -> {NoFile} \cup SUBSET Docs]]
      BY SMTT(30), <2>15 DEF Reclaim
    <3>2. /\ todo' \in SUBSET DataFiles
          /\ pc = "reclaim" /\ pc' = pc
      BY <2>15 DEF Reclaim
    <3> QED
      BY <2>15, <3>1, <3>2 DEF Reclaim
  <2>16. ASSUME NEW f \in DataFiles, ReclaimFails(f) PROVE TypeOK'
    BY <2>16 DEF ReclaimFails, dirVars
  <2>17. CASE Reclaimed
    BY <2>17 DEF Reclaimed, dirVars, Steps, Loops
  <2>18. CASE Relist
    BY <2>18, ForgetTyped DEF Relist, AfterPublish, Steps, Loops
  <2>19. CASE ListingEnd
    BY <2>19, ForgetTyped, SupersededTyped
       DEF ListingEnd, AfterPublish, Listed, Steps, Loops
  <2>20. CASE Check
    BY <2>20, ForgetTyped DEF Check, dirVars, Steps, Loops
  <2>21. CASE Merge
    <3>1. \A k \in base.names : cfs[k] \in SUBSET Docs
      BY <2>21 DEF Merge, Manifests
    <3>2. Visible(base) \in SUBSET Docs
      BY <3>1 DEF Visible
    <3> QED
      BY <2>21, <3>2 DEF Merge, Steps, Loops
  <2> QED
    BY <1>2, <2>1, <2>2, <2>3, <2>4, <2>5, <2>6, <2>7, <2>8, <2>9, <2>10,
       <2>11, <2>12, <2>13, <2>14, <2>15, <2>16, <2>17, <2>18, <2>19, <2>20,
       <2>21 DEF Continue
<1>3. CASE Fail
  <2>1. CASE AddFails
    BY <2>1 DEF AddFails, dirVars
  <2>2. CASE CallFails
    BY <2>2, ForgetTyped DEF CallFails, Drop
  <2>3. CASE Crash
    BY <2>3, ForgetTyped DEF Crash, dirVars
  <2> QED
    BY <1>3, <2>1, <2>2, <2>3 DEF Fail
<1>4. CASE UNCHANGED vars
  BY <1>4 DEF vars, dirVars, session
<1> QED
  BY <1>1, <1>2, <1>3, <1>4 DEF Next

(* Files, manifests and the writer's own variables keep their types.       *)
THEOREM TypeCorrect == Spec => []TypeOK
<1> QED
  BY InitTyped, NextTyped, PTL DEF Spec

-----------------------------------------------------------------------------
(* The generations in grace are left alone.                                *)

(* A step keeps manifest n and the files it refers to.                     *)
Kept(n) ==
  /\ manifest'[n] = manifest[n]
  /\ \A k \in manifest[n].names :
       /\ cfs'[k] = cfs[k]
       /\ manifest[n].delGen[k] # NoDel =>
            del'[k][manifest[n].delGen[k]] = del[k][manifest[n].delGen[k]]

KeptGrace ==
  /\ gen' = gen
  /\ Kept(gen)
  /\ gen - 1 >= 1 => Kept(gen - 1)

(* The manifests in grace are there, and they are manifests.               *)
LEMMA GraceTyped ==
  ASSUME TypeOK, DirInv
  PROVE  /\ gen \in Gens /\ gen \in Nat /\ manifest[gen] \in Manifests
         /\ gen - 1 >= 1 =>
              gen - 1 \in Gens /\ manifest[gen - 1] \in Manifests
BY DEF TypeOK, DirTypeOK, DirInv, Sound, Gens

LEMMA ManifestFields ==
  ASSUME NEW m \in Manifests
  PROVE  /\ m.names \subseteq Names
         /\ m.delGen \in [Names -> {NoDel} \cup DelGens]
         /\ m.counter \in Nat /\ m.counter <= MaxName + 1
BY DEF Manifests

(* A step that touches no manifest, segment or bitmap keeps them all.      *)
LEMMA NothingTouched ==
  ASSUME UNCHANGED <<gen, manifest, cfs, del>> PROVE KeptGrace
BY DEF KeptGrace, Kept

(* A step that touches segments at or above the counter only.              *)
LEMMA NewNamesTouched ==
  ASSUME TypeOK, DirInv, UNCHANGED <<gen, manifest, del>>,
         NEW touched \in SUBSET Names,
         \A k \in touched : k >= manifest[gen].counter,
         \A k \in Names \ touched : cfs'[k] = cfs[k]
  PROVE  KeptGrace
<1>1. \A k \in manifest[gen].names : k \in Names \ touched
  BY GraceTyped, ManifestFields DEF DirInv, Sound, Names
<1>2. gen - 1 >= 1 => \A k \in manifest[gen - 1].names : k \in Names \ touched
  <2> SUFFICES ASSUME gen - 1 >= 1, NEW k \in manifest[gen - 1].names
               PROVE  k \in Names \ touched
    OBVIOUS
  <2>1. k \in Names /\ k < manifest[gen - 1].counter
    BY GraceTyped, ManifestFields DEF DirInv, Sound
  <2>2. manifest[gen - 1].counter <= manifest[gen].counter
    BY DEF DirInv, Older
  <2>3. manifest[gen - 1].counter \in Nat /\ manifest[gen].counter \in Nat
    BY GraceTyped, ManifestFields
  <2> QED
    BY <2>1, <2>2, <2>3 DEF Names
<1> QED
  BY <1>1, <1>2 DEF KeptGrace, Kept

LEMMA NewNameTouched ==
  ASSUME TypeOK, DirInv, UNCHANGED <<gen, manifest, del>>,
         NEW name \in Names, name >= manifest[gen].counter,
         \A k \in Names \ {name} : cfs'[k] = cfs[k]
  PROVE  KeptGrace
<1> DEFINE touched == {name}
<1>1. touched \in SUBSET Names /\ \A k \in touched : k >= manifest[gen].counter
  OBVIOUS
<1> HIDE DEF touched
<1> SUFFICES \A k \in Names \ touched : cfs'[k] = cfs[k]
  BY <1>1, NewNamesTouched
<1> QED
  BY DEF touched

(* A step that touches one manifest, and that one newer than the current.  *)
LEMMA NewManifestTouched ==
  ASSUME TypeOK, DirInv, UNCHANGED <<gen, cfs, del>>,
         NEW n \in Gens, n # gen, n # gen - 1,
         \A m \in Gens \ {n} : manifest'[m] = manifest[m]
  PROVE  KeptGrace
BY GraceTyped DEF KeptGrace, Kept

(* Removing a file that no generation in grace refers to.                  *)
LEMMA RetiredTouched ==
  ASSUME TypeOK, DirInv, UNCHANGED <<gen, manifest>>,
         NEW gone \in Names,
         gone \notin manifest[gen].names,
         gen - 1 >= 1 => gone \notin manifest[gen - 1].names,
         \A k \in Names \ {gone} : cfs'[k] = cfs[k] /\ del'[k] = del[k]
  PROVE  KeptGrace
BY GraceTyped, ManifestFields DEF KeptGrace, Kept

(* A new bitmap is none that a generation in grace refers to.              *)
LEMMA NewBitmapTouched ==
  ASSUME IndInv, NEW k \in Names, WriteDel(k)
  PROVE  KeptGrace
<1> DEFINE next == NextDelGen(base.delGen[k])
<1>0. TypeOK /\ DirInv
  BY DEF IndInv
<1>1. base = manifest[gen] /\ k \in manifest[gen].names
  BY DEF WriteDel, IndInv, SessionInv, BuildInv, BeforeFlip, Building, Doomed,
         CleaningUp
<1>2. manifest[gen].delGen[k] # next
  BY <1>0, <1>1, GraceTyped, ManifestFields DEF NextDelGen, NoDel, DelGens
<1>3. ASSUME gen - 1 >= 1, k \in manifest[gen - 1].names
      PROVE  manifest[gen - 1].delGen[k] # next
  <2>1. manifest[gen - 1].delGen[k] <= manifest[gen].delGen[k]
    BY <1>0, <1>1, <1>3 DEF DirInv, Older
  <2>2. /\ manifest[gen].delGen[k] \in {NoDel} \cup DelGens
        /\ manifest[gen - 1].delGen[k] \in {NoDel} \cup DelGens
    BY <1>0, <1>3, GraceTyped, ManifestFields
  <2> QED
    BY <1>1, <2>1, <2>2 DEF NextDelGen, NoDel, DelGens
<1>4. /\ UNCHANGED <<gen, manifest, cfs>>
      /\ del' = [del EXCEPT ![k][next] = Deleted(k, base.delGen[k])
                                           \cup pending[k]]
  BY DEF WriteDel
<1>5. \A j \in Names, g \in DelGens :
        j # k \/ g # next => del'[j][g] = del[j][g]
  BY <1>0, <1>4 DEF TypeOK, DirTypeOK
<1>6. ASSUME NEW m \in Manifests, NEW j \in m.names, m.delGen[j] # NoDel
      PROVE  j \in Names /\ m.delGen[j] \in DelGens
  BY <1>6, ManifestFields
<1>7. Kept(gen)
  BY <1>0, <1>2, <1>4, <1>5, <1>6, GraceTyped DEF Kept
<1>8. gen - 1 >= 1 => Kept(gen - 1)
  BY <1>0, <1>3, <1>4, <1>5, <1>6, GraceTyped DEF Kept
<1> QED
  BY <1>4, <1>7, <1>8 DEF KeptGrace

(* Dropping a writer before its commit removes only what it flushed.       *)
LEMMA DropTouched ==
  ASSUME IndInv, pc \in {"idle", "flush", "flushing", "compact"},
         op # "merge", Drop(flushed)
  PROVE  KeptGrace
<1>1. /\ TypeOK /\ DirInv /\ UNCHANGED <<gen, manifest, del>>
      /\ flushed \in SUBSET Names
  BY DEF IndInv, TypeOK, Drop
<1>2. \A k \in flushed : k >= manifest[gen].counter
  BY GraceTyped, ManifestFields
     DEF IndInv, SessionInv, BeforeFlip, Flushing, Names, TypeOK
<1>3. \A k \in Names \ flushed : cfs'[k] = cfs[k]
  BY DEF Drop
<1> QED
  BY <1>1, <1>2, <1>3, NewNamesTouched

(* Every step but the flip keeps the generations in grace.                 *)
LEMMA StepKeepsGrace ==
  ASSUME IndInv, [Next]_vars, ~Flip
  PROVE  KeptGrace
<1>0. TypeOK /\ DirInv /\ gen \in Nat /\ manifest[gen].counter \in Nat
  BY GraceTyped, ManifestFields DEF IndInv
<1>1. CASE Call
  <2>1. CASE Abandon
    BY <2>1, DropTouched DEF Abandon, IndInv, SessionInv, CleaningUp
  <2>2. CASE ~Abandon
    BY <1>1, <2>2, NothingTouched
       DEF Call, Open, AddDocument, DeleteDocument, StartCommit, dirVars
  <2> QED
    BY <2>1, <2>2
<1>2. CASE Continue
  <2>1. CASE FlushBegin \/ FlushEnd \/ Compact
    <3>1. base = manifest[gen] /\ op # "merge" /\ base.counter <= nextName
      BY <2>1 DEF FlushBegin, FlushEnd, Compact, IndInv, SessionInv,
                  BeforeFlip, Flushing, CleaningUp
    <3>2. nextName \in Names /\ nextName >= manifest[gen].counter
      BY <1>0, <2>1, <3>1
         DEF FlushBegin, FlushEnd, Compact, TypeOK, Names
    <3>3. /\ UNCHANGED <<gen, manifest, del>>
          /\ \A k \in Names \ {nextName} : cfs'[k] = cfs[k]
      BY <1>0, <2>1 DEF FlushBegin, FlushEnd, Compact, TypeOK, DirTypeOK
    <3> QED
      BY <1>0, <3>2, <3>3, NewNameTouched
  <2>2. ASSUME NEW k \in Names, RemoveInput(k) PROVE KeptGrace
    <3>1. manifest[gen].counter <= k
      BY <2>2 DEF RemoveInput, IndInv, SessionInv, BeforeFlip, Flushing,
                  CleaningUp
    <3>2. /\ UNCHANGED <<gen, manifest, del>>
          /\ \A j \in Names \ {k} : cfs'[j] = cfs[j]
      BY <1>0, <2>2 DEF RemoveInput, TypeOK, DirTypeOK
    <3> QED
      BY <1>0, <3>1, <3>2, NewNameTouched DEF Names
  <2>3. ASSUME NEW k \in Names, WriteDel(k) PROVE KeptGrace
    BY <2>3, NewBitmapTouched
  <2>4. CASE ManifestBegin \/ ManifestEnd
    <3>1. baseGen = gen /\ gen + 1 \in Gens
      BY <1>0, <2>4 DEF ManifestBegin, ManifestEnd, IndInv, SessionInv,
                        BeforeFlip, Building, Gens
    <3>2. /\ UNCHANGED <<gen, cfs, del>>
          /\ \A m \in Gens \ {gen + 1} : manifest'[m] = manifest[m]
      BY <1>0, <2>4, <3>1
         DEF ManifestBegin, ManifestEnd, TypeOK, DirTypeOK
    <3> QED
      BY <1>0, <3>1, <3>2, NewManifestTouched
  <2>5. ASSUME NEW n \in Gens, Prune(n) PROVE KeptGrace
    <3>1. /\ UNCHANGED <<gen, cfs, del>> /\ n # gen /\ n # gen - 1
          /\ \A m \in Gens \ {n} : manifest'[m] = manifest[m]
      BY <1>0, <2>5 DEF Prune, Stale, TypeOK, DirTypeOK, Gens
    <3> QED
      BY <1>0, <3>1, NewManifestTouched
  <2>6. ASSUME NEW f \in DataFiles, Reclaim(f) PROVE KeptGrace
    <3>1. /\ f.seg \in Names /\ f.seg \notin manifest[gen].names
          /\ gen - 1 >= 1 => f.seg \notin manifest[gen - 1].names
      BY <2>6 DEF Reclaim, IndInv, CleanupInv, Retired, Forgotten, DataFiles
    <3>2. /\ UNCHANGED <<gen, manifest>>
          /\ \A k \in Names \ {f.seg} : cfs'[k] = cfs[k] /\ del'[k] = del[k]
      BY <1>0, <2>6, <3>1 DEF Reclaim, TypeOK, DirTypeOK
    <3> QED
      BY <1>0, <3>1, <3>2, RetiredTouched
  <2>7. CASE Merge
    <3>1. base.counter \in Names /\ base.counter >= manifest[gen].counter
      BY <1>0, <2>7 DEF Merge, IndInv, SessionInv, BeforeFlip, Names
    <3>2. /\ UNCHANGED <<gen, manifest, del>>
          /\ \A k \in Names \ {base.counter} : cfs'[k] = cfs[k]
      BY <1>0, <2>7 DEF Merge, TypeOK, DirTypeOK
    <3> QED
      BY <1>0, <3>1, <3>2, NewNameTouched
  <2>8. CASE \/ Drained \/ TakeNothing \/ Take \/ DelsWritten \/ Pruned
             \/ Reclaimed \/ Relist \/ ListingEnd \/ Check
             \/ \E f \in DataFiles : ReclaimFails(f)
    BY <2>8, NothingTouched
       DEF Drained, TakeNothing, Take, DelsWritten, Pruned, Reclaimed,
           Relist, ListingEnd, Check, ReclaimFails, dirVars
  <2> QED
    BY <1>2, <2>1, <2>2, <2>3, <2>4, <2>5, <2>6, <2>7, <2>8 DEF Continue
<1>3. CASE Fail
  <2>1. CASE AddFails \/ Crash
    BY <2>1, NothingTouched DEF AddFails, Crash, dirVars
  <2>2. CASE CallFails
    <3>1. CASE pc \in {"flush", "flushing", "compact"} /\ Drop(flushed)
      BY <3>1, DropTouched DEF IndInv, SessionInv, CleaningUp
    <3>2. CASE Drop({})
      <4>1. UNCHANGED <<gen, manifest, cfs, del>>
        BY <1>0, <3>2 DEF Drop, TypeOK, DirTypeOK
      <4> QED
        BY <4>1, NothingTouched
    <3> QED
      BY <2>2, <3>1, <3>2 DEF CallFails
  <2> QED
    BY <1>3, <2>1, <2>2 DEF Fail
<1>4. CASE UNCHANGED vars
  BY <1>4, NothingTouched DEF vars, dirVars
<1> QED
  BY <1>1, <1>2, <1>3, <1>4 DEF Next

-----------------------------------------------------------------------------
(* The invariant is inductive.                                             *)

LEMMA KeptDirInv ==
  ASSUME TypeOK, DirInv, KeptGrace PROVE DirInv'
<1>1. gen' = gen /\ manifest'[gen] = manifest[gen]
  BY DEF KeptGrace, Kept
<1>2. gen - 1 >= 1 => manifest'[gen - 1] = manifest[gen - 1]
  BY DEF KeptGrace, Kept
<1>3. Sound(gen)'
  BY <1>1 DEF DirInv, Sound, KeptGrace, Kept
<1>4. gen - 1 >= 1 => Sound(gen - 1)'
  BY SMTT(30), <1>1, <1>2 DEF DirInv, Sound, KeptGrace, Kept
<1>5. Older'
  BY <1>1, <1>2 DEF DirInv, Older
<1> QED
  BY <1>1, <1>3, <1>4, <1>5 DEF DirInv

(* What the manifest about to be published says.                           *)
LEMMA NextManifestFields ==
  ASSUME IndInv, pc = "flip"
  PROVE  /\ NextManifest \in Manifests
         /\ op = "merge" =>
              /\ NextManifest.names = {base.counter}
              /\ \A k \in Names : NextManifest.delGen[k] = NoDel
              /\ NextManifest.counter = base.counter + 1
         /\ op # "merge" =>
              /\ NextManifest.names = base.names \cup flushed
              /\ \A k \in Names : NextManifest.delGen[k] =
                   IF k \in Doomed THEN NextDelGen(base.delGen[k])
                                   ELSE base.delGen[k]
              /\ NextManifest.counter = nextName
BY DEF IndInv, BuildInv, NextManifest

(* The flip finds every file of the new generation written.                *)
LEMMA FlipDirInv ==
  ASSUME IndInv, Flip PROVE DirInv'
<1>0. /\ TypeOK /\ DirInv /\ gen \in Nat /\ gen >= 1 /\ gen < MaxGen
      /\ pc = "flip"
      /\ base = manifest[gen] /\ baseGen = gen /\ base \in Manifests
  BY GraceTyped
     DEF Flip, IndInv, DirInv, BuildInv, SessionInv, BeforeFlip, Building
<1>1. gen' = gen + 1 /\ UNCHANGED <<manifest, cfs, del>>
  BY <1>0 DEF Flip
<1>2. manifest[gen + 1] = NextManifest /\ NextManifest \in Manifests
  BY <1>0 DEF IndInv, BuildInv
<1>3. /\ base.names \subseteq Names
      /\ base.delGen \in [Names -> {NoDel} \cup DelGens]
      /\ base.counter \in Nat
  BY <1>0, ManifestFields
<1>4. /\ \A k \in base.names : cfs[k] # NoFile /\ k < base.counter
      /\ \A k \in base.names : base.delGen[k] # NoDel =>
           del[k][base.delGen[k]] # NoFile
      /\ \A k \in Names \ base.names : base.delGen[k] = NoDel
  BY <1>0 DEF DirInv, Sound
<1>5. NextManifest # NoFile
  BY <1>2
<1>6. /\ \A k \in NextManifest.names :
           /\ cfs[k] # NoFile /\ k < NextManifest.counter
           /\ NextManifest.delGen[k] # NoDel =>
                del[k][NextManifest.delGen[k]] # NoFile
      /\ \A k \in Names \ NextManifest.names : NextManifest.delGen[k] = NoDel
      /\ base.counter <= NextManifest.counter
      /\ \A k \in base.names \cap NextManifest.names :
           base.delGen[k] <= NextManifest.delGen[k]
  <2>1. CASE op = "merge"
    <3>1. base.counter \in Names /\ cfs[base.counter] # NoFile
      BY <1>0, <1>3, <2>1 DEF IndInv, BuildInv, Names
    <3> QED
      BY <1>0, <1>3, <1>4, <2>1, <3>1, NextManifestFields DEF Names
  <2>2. CASE op # "merge"
    <3>1. /\ \A k \in Doomed : k \in base.names /\ Written(k)
          /\ \A k \in flushed : base.counter <= k /\ k < nextName
                                /\ cfs[k] # NoFile
          /\ base.counter <= nextName
          /\ flushed \subseteq Names /\ nextName \in Nat
      BY <1>0, <2>2
         DEF IndInv, BuildInv, SessionInv, BeforeFlip, Building, Doomed,
             TypeOK
    <3>2. \A k \in base.names : k < nextName
      BY <1>3, <1>4, <3>1 DEF Names
    <3>3. \A k \in flushed : k \notin base.names
      BY <1>3, <1>4, <3>1 DEF Names
    <3>4. \A k \in Names : base.delGen[k] <= NextDelGen(base.delGen[k])
      BY <1>3 DEF NextDelGen, NoDel, DelGens
    <3>5. \A k \in Names : base.delGen[k] \in Int
      BY <1>3 DEF NoDel, DelGens
    <3>6. \A k \in Doomed : del[k][NextDelGen(base.delGen[k])] # NoFile
      BY <3>1 DEF Written
    <3> HIDE DEF NextManifest
    <3>7. \A k \in NextManifest.names :
            cfs[k] # NoFile /\ k < NextManifest.counter
      BY <1>0, <1>4, <2>2, <3>1, <3>2, NextManifestFields
    <3>8. \A k \in NextManifest.names : NextManifest.delGen[k] # NoDel =>
            del[k][NextManifest.delGen[k]] # NoFile
      BY <1>0, <1>3, <1>4, <2>2, <3>1, <3>3, <3>6, NextManifestFields
    <3>9. \A k \in Names \ NextManifest.names :
            NextManifest.delGen[k] = NoDel
      BY <1>0, <1>4, <2>2, <3>1, NextManifestFields
    <3>10. \A k \in base.names \cap NextManifest.names :
             base.delGen[k] <= NextManifest.delGen[k]
      BY <1>0, <1>3, <2>2, <3>4, <3>5, NextManifestFields
    <3> QED
      BY <1>0, <2>2, <3>1, <3>7, <3>8, <3>9, <3>10, NextManifestFields
  <2> QED
    BY <2>1, <2>2
<1>7. manifest'[gen'] = NextManifest /\ manifest'[gen' - 1] = base
  BY <1>0, <1>1, <1>2
<1>8. Sound(gen)'
  BY <1>1, <1>5, <1>6, <1>7 DEF Sound
<1>9. Sound(gen - 1)'
  BY <1>0, <1>1, <1>7 DEF DirInv, Sound
<1>10. Older'
  BY <1>6, <1>7 DEF Older
<1> QED
  BY <1>0, <1>1, <1>8, <1>9, <1>10 DEF DirInv

LEMMA NextDirInv ==
  ASSUME IndInv, [Next]_vars PROVE DirInv'
BY StepKeepsGrace, KeptDirInv, FlipDirInv DEF IndInv

(* Outside the clean-up, the listed files stay retired.                    *)
LEMMA QuietCleanupInv ==
  ASSUME CleanupInv, KeptGrace, sidecar' = sidecar, pc' \notin CleaningUp
  PROVE  CleanupInv'
BY DEF CleanupInv, CleaningUp, Retired, KeptGrace, Kept

(* The clean-up begins: the listed files now belong to no generation in    *)
(* grace.                                                                  *)
LEMMA FlipCleanupInv ==
  ASSUME IndInv, Flip PROVE CleanupInv'
<1>0. /\ TypeOK /\ DirInv /\ gen \in Nat /\ gen >= 1 /\ pc = "flip"
      /\ base = manifest[gen] /\ baseGen = gen /\ base \in Manifests
      /\ op \in {"commit", "optimize", "merge"}
  BY GraceTyped
     DEF Flip, IndInv, DirInv, SessionInv, BeforeFlip, Building
<1>1. /\ gen' = gen + 1 /\ UNCHANGED <<manifest, sidecar, op, base>>
      /\ pc' = "prune" /\ flushed' = {} /\ pending' = NoPending
  BY <1>0 DEF Flip
<1>2. manifest[gen + 1] = NextManifest
  BY <1>0 DEF IndInv, BuildInv
<1>3. base.counter \in Nat /\ base.names \subseteq Names
  BY <1>0, ManifestFields
<1>4. \A k \in base.names : k < base.counter
  BY <1>0 DEF DirInv, Sound
<1>5. base.counter <= NextManifest.counter /\ NextManifest.counter \in Nat
  BY <1>0, <1>3, NextManifestFields, ManifestFields
     DEF IndInv, SessionInv, BeforeFlip, Building
<1>6. \A k \in Names : k < base.counter /\ k \notin base.names =>
        k \notin NextManifest.names
  <2>1. op # "merge" => \A k \in flushed : base.counter <= k
    BY <1>0 DEF IndInv, SessionInv, BeforeFlip, Building
  <2> QED
    BY <1>0, <1>3, <2>1, NextManifestFields DEF Names
<1>7. Retired(sidecar)'
  <2> SUFFICES ASSUME NEW f \in sidecar
               PROVE  /\ f.seg \notin NextManifest.names
                      /\ f.seg < NextManifest.counter
    BY <1>1, <1>2 DEF Retired
  <2>1. f.seg \in Names /\ f.seg \notin base.names /\ f.seg < base.counter
    BY <1>0 DEF IndInv, CleanupInv, Retired, TypeOK, DirTypeOK, DataFiles
  <2> QED
    BY <1>3, <1>5, <1>6, <2>1 DEF Names
<1>8. Forgotten(sidecar)'
  <2>1. \A f \in sidecar : f.seg \notin base.names
    BY <1>0 DEF IndInv, CleanupInv, Retired
  <2>2. manifest'[gen' - 1] = base
    BY <1>0, <1>1
  <2> QED
    BY <1>1, <2>1, <2>2 DEF Forgotten
<1>9. op = "merge" => Retired(FilesOf(base))'
  <2> SUFFICES ASSUME op = "merge", NEW f \in FilesOf(base)
               PROVE  /\ f.seg \notin NextManifest.names
                      /\ f.seg < NextManifest.counter
    BY <1>1, <1>2 DEF Retired, FilesOf
  <2>1. f.seg \in base.names
    BY DEF FilesOf
  <2> QED
    BY <1>0, <1>3, <1>4, <2>1, NextManifestFields DEF Names
<1> QED
  BY <1>0, <1>1, <1>7, <1>8, <1>9 DEF CleanupInv, CleaningUp

LEMMA NextCleanupInv ==
  ASSUME IndInv, [Next]_vars PROVE CleanupInv'
<1>0. TypeOK /\ DirInv /\ CleanupInv
  BY DEF IndInv
<1>1. CASE Flip
  BY <1>1, FlipCleanupInv
<1>2. CASE ~Flip
  <2>0. KeptGrace
    BY <1>2, StepKeepsGrace
  <2> USE DEF CleanupInv, CleaningUp, Retired, Forgotten, KeptGrace, Kept
  <2>1. ASSUME NEW n \in Gens, Prune(n) PROVE CleanupInv'
    BY <1>0, <2>0, <2>1 DEF Prune, session
  <2>2. CASE Pruned
    BY <1>0, <2>0, <2>2 DEF Pruned, dirVars
  <2>3. ASSUME NEW f \in DataFiles, Reclaim(f) PROVE CleanupInv'
    BY <1>0, <2>0, <2>3 DEF Reclaim
  <2>4. ASSUME NEW f \in DataFiles, ReclaimFails(f) PROVE CleanupInv'
    BY <1>0, <2>0, <2>4 DEF ReclaimFails, dirVars
  <2>5. CASE Reclaimed
    BY <1>0, <2>0, <2>5 DEF Reclaimed, dirVars
  <2>6. CASE Relist
    BY <1>0, <2>0, <2>6 DEF Relist, AfterPublish, Forget
  <2>7. CASE ListingEnd
    <3>1. Retired(Listed)
      BY <1>0, <2>7 DEF ListingEnd, Listed, Superseded
    <3>2. sidecar' \subseteq Listed /\ pc' \notin CleaningUp
      BY <2>7 DEF ListingEnd, AfterPublish, Forget
    <3> QED
      BY <2>0, <3>1, <3>2
  <2>8. CASE Call
    BY <1>0, <2>0, <2>8, QuietCleanupInv
       DEF Call, Open, AddDocument, DeleteDocument, StartCommit, Abandon,
           Drop, Forget, dirVars
  <2>9. CASE Fail
    BY <1>0, <2>0, <2>9, QuietCleanupInv
       DEF Fail, AddFails, CallFails, Crash, Drop, Forget, dirVars
  <2>10. CASE UNCHANGED vars
    BY <1>0, <2>0, <2>10 DEF vars, dirVars, session
  <2>11. CASE \/ FlushBegin \/ FlushEnd \/ Compact \/ Drained
              \/ TakeNothing \/ Take \/ DelsWritten
              \/ ManifestBegin \/ ManifestEnd \/ Check \/ Merge
              \/ \E k \in Names : RemoveInput(k) \/ WriteDel(k)
    <3>1. sidecar' = sidecar /\ pc' \notin CleaningUp
      BY <2>11
         DEF FlushBegin, FlushEnd, Compact, Drained, TakeNothing, Take,
             DelsWritten, ManifestBegin, ManifestEnd, Check, Merge,
             RemoveInput, WriteDel, AfterFlush, Forget, dirVars
    <3> QED
      BY <1>0, <2>0, <3>1, QuietCleanupInv
  <2> QED
    BY <1>2, <2>1, <2>2, <2>3, <2>4, <2>5, <2>6, <2>7, <2>8, <2>9, <2>10,
       <2>11 DEF Next, Continue
<1> QED
  BY <1>1, <1>2

LEMMA ForgetSessionInv ==
  ASSUME Forget PROVE SessionInv' /\ BuildInv'
BY DEF Forget, SessionInv, BuildInv, BeforeFlip, Flushing, Building,
       CleaningUp

LEMMA NextSessionInv ==
  ASSUME IndInv, [Next]_vars PROVE SessionInv'
<1>0. TypeOK /\ DirInv /\ SessionInv
  BY DEF IndInv
<1>00. /\ flushed \subseteq Names /\ \A k \in Names : k \in Int
      /\ nextName \in Int /\ base.counter \in Int
      /\ manifest[gen].counter \in Int
  BY <1>0, GraceTyped, ManifestFields DEF TypeOK, Names
<1> USE DEF SessionInv, BeforeFlip, Flushing, Building, CleaningUp
<1>1. CASE Flip
  BY <1>0, <1>1 DEF Flip, IndInv, CleanupInv
<1>2. CASE ~Flip
  <2>0. gen' = gen /\ manifest'[gen] = manifest[gen]
    BY <1>2, StepKeepsGrace DEF KeptGrace, Kept
  <2>1. CASE Call
    <3>1. CASE Open
      BY <1>0, <1>00, <2>0, <3>1 DEF Open, dirVars, NoPending
    <3>2. ASSUME NEW d \in Docs, AddDocument(d) PROVE SessionInv'
      BY <1>0, <2>0, <3>2 DEF AddDocument, dirVars
    <3>3. ASSUME NEW k \in Names, NEW d \in Docs, DeleteDocument(k, d)
          PROVE SessionInv'
      BY <1>0, <2>0, <3>3 DEF DeleteDocument, dirVars, TypeOK
    <3>4. ASSUME NEW call \in {"commit", "optimize"}, StartCommit(call)
          PROVE SessionInv'
      BY <1>0, <2>0, <3>4 DEF StartCommit, dirVars
    <3>5. CASE Abandon
      BY <3>5, ForgetSessionInv DEF Abandon, Drop
    <3> QED
      BY <2>1, <3>1, <3>2, <3>3, <3>4, <3>5 DEF Call
  <2>2. CASE FlushBegin
    BY <1>0, <2>0, <2>2 DEF FlushBegin, TypeOK, DirTypeOK, Names
  <2>3. CASE FlushEnd
    BY <1>0, <1>00, <2>0, <2>3
       DEF FlushEnd, AfterFlush, AfterFlushOp, TypeOK, DirTypeOK, Names
  <2>4. CASE Compact
    <3>1. \A k \in flushed : cfs[k] \in SUBSET Docs
      BY <1>0, <1>00, <2>4 DEF Compact, TypeOK, DirTypeOK
    <3>2. DocsIn(flushed) # NoFile
      BY <3>1 DEF DocsIn
    <3>3. /\ flushed' = {nextName} /\ cfs'[nextName] # NoFile
          /\ nextName' = nextName + 1 /\ todo' = flushed
      BY <1>0, <2>4, <3>2 DEF Compact, TypeOK, DirTypeOK, Names
    <3>4. \A k \in flushed : base.counter <= k /\ k # nextName
      BY <1>0, <1>00, <2>4 DEF Compact
    <3> QED
      BY <1>0, <1>00, <2>0, <2>4, <3>3, <3>4 DEF Compact
  <2>5. CASE Drained
    BY <1>0, <2>0, <2>5 DEF Drained, dirVars, AfterFlush, AfterFlushOp
  <2>6. ASSUME NEW k \in Names, RemoveInput(k) PROVE SessionInv'
    BY <1>0, <2>0, <2>6 DEF RemoveInput, TypeOK, DirTypeOK
  <2>7. CASE TakeNothing
    <3>1. pending = NoPending
      BY <1>0, <2>7 DEF TakeNothing, Doomed, NoPending, TypeOK
    <3> QED
      BY <1>0, <2>0, <2>7, <3>1, ForgetSessionInv DEF TakeNothing, dirVars
  <2>8. CASE Take \/ DelsWritten
    BY <1>0, <2>0, <2>8 DEF Take, DelsWritten, dirVars
  <2>9. ASSUME NEW k \in Names, WriteDel(k) PROVE SessionInv'
    BY <1>0, <2>0, <2>9 DEF WriteDel
  <2>10. CASE ManifestBegin \/ ManifestEnd
    BY <1>0, <2>0, <2>10 DEF ManifestBegin, ManifestEnd
  <2>11. CASE Pruned \/ \E n \in Gens : Prune(n)
    BY <1>0, <2>0, <2>11 DEF Pruned, Prune, dirVars, session
  <2>12. CASE \E f \in DataFiles : Reclaim(f) \/ ReclaimFails(f)
    BY <1>0, <2>0, <2>12 DEF Reclaim, ReclaimFails, dirVars
  <2>13. CASE Reclaimed
    BY <1>0, <2>0, <2>13 DEF Reclaimed, dirVars
  <2>14. CASE Relist \/ ListingEnd
    BY <1>0, <2>0, <2>14, ForgetSessionInv
       DEF Relist, ListingEnd, AfterPublish, IndInv, CleanupInv
  <2>15. CASE Check
    BY <1>0, <2>0, <2>15, ForgetSessionInv DEF Check, dirVars
  <2>16. CASE Merge
    BY <1>0, <2>0, <2>16 DEF Merge
  <2>17. CASE AddFails
    BY <1>0, <1>00, <2>0, <2>17 DEF AddFails, dirVars
  <2>18. CASE CallFails \/ Crash
    BY <2>18, ForgetSessionInv DEF CallFails, Crash, Drop
  <2>19. CASE UNCHANGED vars
    BY <1>0, <2>19 DEF vars, dirVars, session
  <2> QED
    BY <1>2, <2>1, <2>2, <2>3, <2>4, <2>5, <2>6, <2>7, <2>8, <2>9, <2>10,
       <2>11, <2>12, <2>13, <2>14, <2>15, <2>16, <2>17, <2>18, <2>19
       DEF Next, Continue, Fail
<1> QED
  BY <1>1, <1>2

(* Nothing the next manifest needs is missing when it is written.          *)
LEMMA NextBuildInv ==
  ASSUME IndInv, [Next]_vars PROVE BuildInv'
<1>0. TypeOK /\ DirInv /\ SessionInv /\ BuildInv
  BY DEF IndInv
<1>1. /\ base \in Manifests /\ gen \in Nat /\ baseGen \in Nat
      /\ base.counter \in Nat
      /\ base.delGen \in [Names -> {NoDel} \cup DelGens]
  BY <1>0, GraceTyped, ManifestFields DEF TypeOK, Gens
<1> USE DEF BuildInv
<1>2. CASE pc' \notin Building
  BY <1>2 DEF Building
<1>3. CASE Take
  BY <1>0, <1>3 DEF Take, dirVars, Doomed
<1>4. ASSUME NEW k \in Names, WriteDel(k) PROVE BuildInv'
  <2> DEFINE next == NextDelGen(base.delGen[k])
             bits == Deleted(k, base.delGen[k]) \cup pending[k]
  <2>1. /\ next \in DelGens /\ del' = [del EXCEPT ![k][next] = bits]
        /\ UNCHANGED <<base, pending, pc>> /\ pc = "dels"
        /\ todo' = todo \ {k}
    BY <1>4 DEF WriteDel
  <2>2. bits \in SUBSET Docs
    BY <1>0, <1>1, <1>4 DEF WriteDel, Deleted, TypeOK, DirTypeOK
  <2>3. del'[k][next] # NoFile
    BY <1>0, <2>1, <2>2 DEF TypeOK, DirTypeOK
  <2>4. \A j \in Names \ {k} : del'[j] = del[j]
    BY <1>0, <2>1 DEF TypeOK, DirTypeOK
  <2>5. \A j \in Doomed \ todo' : Written(j)'
    BY <1>0, <2>1, <2>3, <2>4 DEF Written, Doomed
  <2> QED
    BY <1>0, <2>1, <2>5 DEF Doomed
<1>5. CASE DelsWritten
  BY <1>0, <1>5 DEF DelsWritten, dirVars, Doomed, Written, SessionInv,
                    CleaningUp
<1>6. CASE ManifestBegin
  BY <1>0, <1>6 DEF ManifestBegin, Doomed, Written
<1>7. CASE ManifestEnd
  <2>1. UNCHANGED <<gen, base, op, pending, flushed, nextName, cfs, del>>
        /\ pc' = "flip" /\ pc \in {"manifest", "writing"}
    BY <1>7 DEF ManifestEnd
  <2>2. gen < MaxGen /\ manifest'[gen + 1] = NextManifest
    BY <1>0, <1>1, <1>7
       DEF ManifestEnd, SessionInv, BeforeFlip, Building, Gens, TypeOK,
           DirTypeOK
  <2>3. NextManifest' = NextManifest /\ NextManifest \in Manifests
    BY <1>7, <2>1 DEF NextManifest, ManifestEnd, Doomed
  <2> QED
    BY <1>0, <2>1, <2>2, <2>3 DEF Doomed, Written
<1>8. CASE Merge
  <2>1. \A k \in base.names : cfs[k] \in SUBSET Docs
    BY <1>0, <1>1, <1>8, ManifestFields DEF Merge, TypeOK, DirTypeOK
  <2>2. Visible(base) # NoFile
    BY <2>1 DEF Visible
  <2>3. cfs'[base.counter] # NoFile /\ base.counter <= MaxName
    BY <1>0, <1>1, <1>8, <2>2 DEF Merge, TypeOK, DirTypeOK, Names
  <2> QED
    BY <1>0, <1>8, <2>3 DEF Merge, SessionInv
<1>9. CASE UNCHANGED vars
  BY <1>0, <1>9 DEF vars, dirVars, session, Doomed, Written, NextManifest
<1>10. CASE Next /\ pc' \in Building
  <2>1. \/ Take \/ DelsWritten \/ ManifestBegin \/ ManifestEnd \/ Merge
        \/ \E k \in Names : WriteDel(k)
    BY <1>10
       DEF Next, Call, Continue, Fail, Open, AddDocument, DeleteDocument,
           StartCommit, Abandon, Drop, Forget, FlushBegin, FlushEnd,
           Compact, Drained, RemoveInput, TakeNothing, Flip, Pruned, Prune,
           Reclaim, ReclaimFails, Reclaimed, Relist, ListingEnd, Check,
           AddFails, CallFails, Crash, AfterFlush, AfterPublish, Building,
           session
  <2> QED
    BY <1>3, <1>4, <1>5, <1>6, <1>7, <1>8, <2>1
<1> QED
  BY <1>2, <1>9, <1>10

LEMMA InitIndInv == Init => IndInv
<1> SUFFICES ASSUME Init PROVE IndInv
  OBVIOUS
<1>1. PICK g \in {NoDel, 0}, deleted \in SUBSET InitDocs : DirInit!(g)!(deleted)
  BY DEF Init, DirInit
<1>2. TypeOK
  BY InitTyped
<1>3. WriterInit
  BY DEF Init
<1>4. DirInv
  <2> DEFINE first == [names   |-> {0},
                       delGen  |-> [k \in Names |-> IF k = 0 THEN g ELSE NoDel],
                       counter |-> 1]
  <2>1. gen = 1 /\ manifest[1] = first
    BY <1>1 DEF Gens
  <2>2. 0 \in Names /\ cfs[0] = InitDocs /\ InitDocs # NoFile
    BY <1>1 DEF Names
  <2>3. g # NoDel => del[0][g] # NoFile
    BY <1>1, <2>2 DEF DelGens
  <2>4. first \in Manifests
    BY DEF Manifests, Names, NoDel, DelGens
  <2>5. Sound(gen)
    BY SMTT(30), <2>1, <2>2, <2>3, <2>4 DEF Sound
  <2> QED
    BY <2>1, <2>5 DEF DirInv, Older
<1>5. CleanupInv
  BY <1>1, <1>3 DEF WriterInit, CleanupInv, Retired, CleaningUp
<1>6. SessionInv /\ BuildInv
  BY <1>3 DEF WriterInit, SessionInv, BuildInv, BeforeFlip, Flushing,
              Building, CleaningUp
<1> QED
  BY <1>2, <1>4, <1>5, <1>6 DEF IndInv

LEMMA NextIndInv == IndInv /\ [Next]_vars => IndInv'
BY NextTyped, NextDirInv, NextCleanupInv, NextSessionInv, NextBuildInv
   DEF IndInv

THEOREM IndInvHolds == Spec => []IndInv
<1> QED
  BY InitIndInv, NextIndInv, PTL DEF Spec

-----------------------------------------------------------------------------
(* Results                                                                 *)

(* The generations in grace are the current one and the one before.        *)
LEMMA InGraceCases ==
  ASSUME TypeOK, DirInv, NEW n, InGrace(n)
  PROVE  n \in Gens /\ (n = gen \/ (n = gen - 1 /\ gen - 1 >= 1))
BY GraceTyped DEF InGrace, Gens

(* Every manifest in grace can be read, with every file it refers to.      *)
THEOREM GraceCompleteHolds == Spec => []GraceComplete
<1>1. ASSUME IndInv, NEW n \in Gens, InGrace(n) PROVE Complete(n)
  <2>1. Sound(n) /\ manifest[n] # NoFile
    BY <1>1, InGraceCases DEF IndInv, DirInv, Sound
  <2> QED
    BY <2>1 DEF Complete, FilesOf, Present, Sound
<1>2. IndInv => GraceComplete
  BY <1>1 DEF GraceComplete
<1> QED
  BY <1>2, IndInvHolds, PTL

(* No step changes a manifest that stays in grace, nor a file it refers    *)
(* to.                                                                     *)
LEMMA StepFreezes ==
  ASSUME IndInv, [Next]_vars, NEW n \in Gens, InGrace(n)
  PROVE  Frozen(n)
<1>0. TypeOK /\ DirInv
  BY DEF IndInv
<1>1. CASE Flip
  BY <1>1 DEF Flip, Frozen, Content
<1>2. CASE ~Flip
  <2>1. Kept(n)
    BY <1>0, <1>2, StepKeepsGrace, InGraceCases DEF KeptGrace
  <2> QED
    BY <2>1 DEF Kept, Frozen, Content, FilesOf
<1> QED
  BY <1>1, <1>2

THEOREM GraceFrozenHolds == Spec => GraceFrozen
<1>1. IndInv /\ [Next]_vars =>
        [\A n \in Gens : InGrace(n) /\ InGrace(n)' => Frozen(n)]_vars
  BY StepFreezes
<1> QED
  BY <1>1, IndInvHolds, PTL DEF Spec, GraceFrozen

-----------------------------------------------------------------------------
(***************************************************************************)
(* The writer implements the atomic index, for every index, every bound,   *)
(* every ceiling and every combination of faults.  IndInv says that the    *)
(* files a manifest refers to are there; here it is said what is in them.  *)
(***************************************************************************)

DisjointIn(segs) == \A j, k \in segs : j # k => cfs[j] \cap cfs[k] = {}

(* No document is twice in the index.                                      *)
SegmentsApart == DisjointIn(manifest[gen].names)

(* ... nor in the index and the session; and what a segment is to lose it  *)
(* has.                                                                    *)
Staging == pc \in BeforeFlip /\ op # "merge"

StagedApart ==
  Staging =>
    /\ DisjointIn(base.names \cup flushed)
    /\ \A k \in base.names \cup flushed : cfs[k] \cap buffer = {}
    /\ \A k \in base.names : pending[k] \subseteq cfs[k]

(* Nothing is buffered once it is flushed.                                 *)
Emptied == pc \notin {"idle", "flush", "flushing"} => buffer = {}

(* What the new bitmaps mark ...                                           *)
Marks(k) ==
  del[k][NextDelGen(base.delGen[k])] = Deleted(k, base.delGen[k]) \cup pending[k]

MarkedInv ==
  /\ pc = "dels" => \A k \in Doomed \ todo : Marks(k)
  /\ pc \in {"manifest", "writing", "flip"} /\ op # "merge" =>
       \A k \in Doomed : Marks(k)

(* ... and what the merged segment holds.                                  *)
MergedInv ==
  op = "merge" =>
    /\ flushed = {} /\ pending = NoPending
    /\ pc \in {"manifest", "flip"} => cfs[base.counter] = Visible(base)

AtomicInv ==
  IndInv /\ SegmentsApart /\ StagedApart /\ Emptied /\ MarkedInv /\ MergedInv

-----------------------------------------------------------------------------
(* What the files in use hold.                                             *)

(* A session's base is the current manifest, and its segments, like those  *)
(* it flushed under names of their own, are there.                         *)
LEMMA SessionFiles ==
  ASSUME IndInv, pc \in BeforeFlip
  PROVE  /\ base = manifest[gen] /\ base \in Manifests
         /\ baseGen = gen /\ gen \in Nat
         /\ base.names \subseteq Names /\ base.counter \in Nat
         /\ base.delGen \in [Names -> {NoDel} \cup DelGens]
         /\ \A k \in base.names : cfs[k] \in SUBSET Docs /\ k < base.counter
         /\ op # "merge" =>
              \A k \in flushed :
                /\ k \in Names /\ base.counter <= k /\ k < nextName
                /\ cfs[k] \in SUBSET Docs /\ k \notin base.names
<1>0. TypeOK /\ DirInv /\ SessionInv
  BY DEF IndInv
<1>1. base = manifest[gen] /\ base \in Manifests /\ baseGen = gen /\ gen \in Nat
  BY <1>0, GraceTyped DEF SessionInv
<1>2. /\ base.names \subseteq Names /\ base.counter \in Nat
      /\ base.delGen \in [Names -> {NoDel} \cup DelGens]
  BY <1>1, ManifestFields
<1>3. \A k \in base.names : cfs[k] \in SUBSET Docs /\ k < base.counter
  BY <1>0, <1>1, <1>2 DEF DirInv, Sound, TypeOK, DirTypeOK
<1>4. ASSUME op # "merge", NEW k \in flushed
      PROVE  /\ k \in Names /\ base.counter <= k /\ k < nextName
             /\ cfs[k] \in SUBSET Docs
  BY <1>0, <1>4 DEF SessionInv, TypeOK, DirTypeOK
<1>5. ASSUME op # "merge", NEW k \in flushed PROVE k \notin base.names
  BY <1>2, <1>3, <1>4, <1>5 DEF Names
<1> QED
  BY <1>1, <1>2, <1>3, <1>4, <1>5

(* Whatever keeps a manifest and its files keeps what a reader finds.      *)
LEMMA KeptVisible ==
  ASSUME TypeOK, DirInv, KeptGrace
  PROVE  Visible(manifest[gen])' = Visible(manifest[gen])
<1> DEFINE m == manifest[gen]
<1>1. m.names \subseteq Names
  BY GraceTyped, ManifestFields
<1>2. manifest[gen]' = m
  BY DEF KeptGrace, Kept
<1>3. \A k \in m.names : /\ cfs'[k] = cfs[k]
                         /\ Deleted(k, m.delGen[k])' = Deleted(k, m.delGen[k])
  BY <1>2 DEF KeptGrace, Kept, Deleted
<1> QED
  BY <1>2, <1>3 DEF Visible, Deleted

-----------------------------------------------------------------------------
(* The invariant is inductive.                                             *)

(* What the flip publishes.                                                *)
LEMMA FlipFacts ==
  ASSUME IndInv, Flip
  PROVE  /\ pc = "flip" /\ pc \in BeforeFlip /\ gen' = gen + 1
         /\ UNCHANGED <<manifest, cfs, del>>
         /\ manifest[gen]' = NextManifest
         /\ op # "merge" => Staging
BY SessionFiles
   DEF Flip, IndInv, BuildInv, BeforeFlip, Building, Staging

LEMMA NextSegmentsApart ==
  ASSUME IndInv, SegmentsApart, StagedApart, [Next]_vars
  PROVE  SegmentsApart'
<1>1. CASE ~Flip
  <2>1. KeptGrace
    BY <1>1, StepKeepsGrace
  <2> QED
    BY <2>1 DEF SegmentsApart, DisjointIn, KeptGrace, Kept
<1>2. CASE Flip
  <2>1. CASE op = "merge"
    BY <1>2, <2>1, FlipFacts, NextManifestFields DEF SegmentsApart, DisjointIn
  <2>2. CASE op # "merge"
    <3>1. manifest[gen]'.names = base.names \cup flushed
      BY <1>2, <2>2, FlipFacts, NextManifestFields
    <3> QED
      BY <1>2, <2>2, <3>1, FlipFacts DEF SegmentsApart, DisjointIn, StagedApart
  <2> QED
    BY <2>1, <2>2
<1> QED
  BY <1>1, <1>2

(* A step that leaves the session and its segments alone.                  *)
LEMMA SameSession ==
  ASSUME IndInv, StagedApart, Staging,
         UNCHANGED <<base, flushed, buffer, pending>>,
         \A k \in base.names \cup flushed : cfs'[k] = cfs[k]
  PROVE  StagedApart'
BY DEF StagedApart, DisjointIn

(* A step that touches no segment of the index keeps those of the base.    *)
LEMMA BaseKept ==
  ASSUME IndInv, pc \in BeforeFlip, KeptGrace
  PROVE  \A k \in base.names : cfs'[k] = cfs[k]
BY SessionFiles DEF KeptGrace, Kept

LEMMA NextStagedApart ==
  ASSUME IndInv, SegmentsApart, StagedApart, Emptied, [Next]_vars
  PROVE  StagedApart'
<1>0. TypeOK /\ DirInv /\ SessionInv
  BY DEF IndInv
<1> USE DEF BeforeFlip, Flushing, Building, Staging
<1>1. CASE Open
  <2>1. UNCHANGED <<dirVars, op>> /\ base' = manifest[gen]
        /\ buffer' = {} /\ flushed' = {} /\ pending' = NoPending
    BY <1>0, <1>1 DEF Open, Emptied, SessionInv
  <2>2. base'.names \subseteq Names
    BY <1>0, <2>1, GraceTyped, ManifestFields
  <2> QED
    BY <2>1, <2>2 DEF StagedApart, DisjointIn, SegmentsApart, dirVars, NoPending
<1>2. ASSUME NEW d \in Docs, AddDocument(d) PROVE StagedApart'
  <2>1. Staging
    BY <1>0, <1>2 DEF AddDocument, SessionInv, CleaningUp
  <2>2. \A k \in base.names \cup flushed : cfs[k] \in SUBSET Docs /\ d \notin cfs[k]
    BY <1>2, <2>1, SessionFiles DEF AddDocument, Fresh
  <2> QED
    BY <1>2, <2>1, <2>2 DEF AddDocument, StagedApart, DisjointIn, dirVars
<1>3. ASSUME NEW k \in Names, NEW d \in Docs, DeleteDocument(k, d)
      PROVE  StagedApart'
  <2>1. Staging
    BY <1>0, <1>3 DEF DeleteDocument, SessionInv, CleaningUp
  <2>2. \A j \in base.names : j \in Names
    BY <2>1, SessionFiles
  <2> QED
    BY <1>0, <1>3, <2>1, <2>2
       DEF DeleteDocument, StagedApart, DisjointIn, dirVars, TypeOK
<1>4. CASE FlushBegin
  <2>1. Staging /\ KeptGrace
    BY <1>0, <1>4, StepKeepsGrace
       DEF FlushBegin, SessionInv, Continue, Next, Flip, CleaningUp
  <2>2. \A k \in base.names \cup flushed : cfs'[k] = cfs[k]
    BY <1>0, <1>4, <2>1, BaseKept, SessionFiles
       DEF FlushBegin, TypeOK, DirTypeOK
  <2> QED
    BY <1>4, <2>1, <2>2, SameSession DEF FlushBegin
<1>5. CASE FlushEnd
  <2>1. Staging /\ KeptGrace
    BY <1>0, <1>5, StepKeepsGrace
       DEF FlushEnd, SessionInv, Continue, Next, Flip, CleaningUp
  <2>2. \A k \in base.names \cup flushed : cfs'[k] = cfs[k]
    BY <1>0, <1>5, <2>1, BaseKept, SessionFiles
       DEF FlushEnd, TypeOK, DirTypeOK
  <2>3. cfs'[nextName] = buffer /\ flushed' = flushed \cup {nextName}
        /\ buffer' = {} /\ UNCHANGED <<base, pending>>
    BY <1>0, <1>5 DEF FlushEnd, TypeOK, DirTypeOK, Names
  <2> QED
    BY <2>1, <2>2, <2>3 DEF StagedApart, DisjointIn
<1>6. CASE Compact
  <2>1. Staging /\ KeptGrace
    BY <1>0, <1>6, StepKeepsGrace
       DEF Compact, SessionInv, Continue, Next, Flip, CleaningUp
  <2>2. \A k \in base.names : cfs'[k] = cfs[k]
    BY <2>1, BaseKept
  <2>3. cfs'[nextName] = DocsIn(flushed) /\ flushed' = {nextName}
        /\ buffer = {} /\ UNCHANGED <<base, pending, buffer>>
    BY <1>0, <1>6 DEF Compact, TypeOK, DirTypeOK, Names, Emptied
  <2>4. \A k \in base.names : cfs[k] \cap DocsIn(flushed) = {}
    BY <2>1, SessionFiles DEF StagedApart, DisjointIn, DocsIn
  <2> QED
    BY <2>1, <2>2, <2>3, <2>4 DEF StagedApart, DisjointIn
<1>7. ASSUME NEW k \in Names, RemoveInput(k) PROVE StagedApart'
  <2>1. Staging /\ KeptGrace
    BY <1>0, <1>7, StepKeepsGrace
       DEF RemoveInput, SessionInv, Continue, Next, Flip, CleaningUp
  <2>2. \A j \in base.names \cup flushed : cfs'[j] = cfs[j]
    BY <1>0, <1>7, <2>1, BaseKept, SessionFiles
       DEF RemoveInput, SessionInv, TypeOK, DirTypeOK
  <2> QED
    BY <1>7, <2>1, <2>2, SameSession DEF RemoveInput
<1>8. CASE \/ \E call \in {"commit", "optimize"} : StartCommit(call)
           \/ Drained \/ Take \/ DelsWritten \/ AddFails
           \/ \E k \in Names : WriteDel(k)
           \/ ManifestBegin \/ ManifestEnd
  <2>1. Staging' => Staging
    BY <1>0, <1>8 DEF StartCommit, Drained, Take, DelsWritten, AddFails,
                      WriteDel, ManifestBegin, ManifestEnd, SessionInv,
                      CleaningUp
  <2>2. UNCHANGED <<cfs, base, flushed, buffer, pending>>
    BY <1>8 DEF StartCommit, Drained, Take, DelsWritten, AddFails,
                WriteDel, ManifestBegin, ManifestEnd, dirVars
  <2> QED
    BY <2>1, <2>2, SameSession DEF StagedApart
<1>9. CASE \/ Flip \/ Pruned \/ \E n \in Gens : Prune(n)
           \/ \E f \in DataFiles : Reclaim(f) \/ ReclaimFails(f)
           \/ Reclaimed \/ Relist \/ ListingEnd \/ Check \/ Merge
           \/ Abandon \/ CallFails \/ Crash
  <2>1. ~Staging'
    BY <1>0, <1>9
       DEF Flip, Pruned, Prune, session, Reclaim, ReclaimFails, Reclaimed,
           Relist, ListingEnd, AfterPublish, Forget, Check, Merge, Abandon,
           Drop, CallFails, Crash, SessionInv
  <2> QED
    BY <2>1 DEF StagedApart
<1>10. CASE TakeNothing
  <2>1. ~Staging'
    BY <1>10 DEF TakeNothing, Forget
  <2> QED
    BY <2>1 DEF StagedApart
<1>11. CASE UNCHANGED vars
  BY <1>11 DEF vars, dirVars, session, StagedApart, DisjointIn
<1> QED
  BY <1>1, <1>2, <1>3, <1>4, <1>5, <1>6, <1>7, <1>8, <1>9, <1>10, <1>11
     DEF Next, Call, Continue, Fail

LEMMA NextEmptied ==
  ASSUME IndInv, Emptied, [Next]_vars PROVE Emptied'
<1>1. CASE Call
  BY <1>1 DEF Call, Open, AddDocument, DeleteDocument, StartCommit, Abandon,
              Drop, Forget, Emptied
<1>2. CASE Continue
  BY <1>2 DEF Continue, FlushBegin, FlushEnd, Compact, RemoveInput, Drained,
              TakeNothing, Take, WriteDel, DelsWritten, ManifestBegin,
              ManifestEnd, Flip, Prune, session, Pruned, Reclaim,
              ReclaimFails, Reclaimed, Relist, ListingEnd, AfterPublish,
              Check, Merge, Forget, Emptied
<1>3. CASE Fail
  BY <1>3 DEF Fail, AddFails, CallFails, Crash, Drop, Forget, Emptied
<1>4. CASE UNCHANGED vars
  BY <1>4 DEF vars, session, Emptied
<1> QED
  BY <1>1, <1>2, <1>3, <1>4 DEF Next

LEMMA NextMarkedInv ==
  ASSUME IndInv, MarkedInv, [Next]_vars PROVE MarkedInv'
<1>0. TypeOK /\ SessionInv
  BY DEF IndInv
<1> USE DEF MarkedInv
<1>1. CASE Take
  BY <1>1 DEF Take, Doomed
<1>2. ASSUME NEW k \in Names, WriteDel(k) PROVE MarkedInv'
  <2>1. /\ pc = "dels" /\ pc' = pc /\ todo' = todo \ {k}
        /\ UNCHANGED <<base, pending>>
        /\ k \in Names /\ NextDelGen(base.delGen[k]) \in DelGens
        /\ del' = [del EXCEPT ![k][NextDelGen(base.delGen[k])] =
                     Deleted(k, base.delGen[k]) \cup pending[k]]
    BY <1>2 DEF WriteDel
  <2>2. \A j \in Names : base.delGen[j] \in {NoDel} \cup DelGens
    BY <1>0, <2>1, SessionFiles DEF BeforeFlip, Building
  <2>3. base.delGen[k] # NextDelGen(base.delGen[k])
    BY <2>1, <2>2 DEF NextDelGen, NoDel, DelGens
  <2>4. /\ del'[k][NextDelGen(base.delGen[k])]
             = Deleted(k, base.delGen[k]) \cup pending[k]
        /\ base.delGen[k] # NoDel =>
             del'[k][base.delGen[k]] = del[k][base.delGen[k]]
    BY <1>0, <2>1, <2>2, <2>3 DEF TypeOK, DirTypeOK
  <2>5. Deleted(k, base.delGen[k])' = Deleted(k, base.delGen[k])
    BY <2>1, <2>4 DEF Deleted
  <2>6. Marks(k)'
    BY <2>1, <2>4, <2>5 DEF Marks, NextDelGen
  <2>7. \A j \in Names \ {k} : del'[j] = del[j]
    BY <1>0, <2>1 DEF TypeOK, DirTypeOK
  <2>8. \A j \in Doomed \ todo : j # k => Marks(j)'
    BY <2>1, <2>7 DEF Marks, NextDelGen, Deleted, Doomed
  <2> QED
    BY <2>1, <2>6, <2>8 DEF Doomed
<1>3. CASE DelsWritten
  BY <1>3 DEF DelsWritten, dirVars, Marks, NextDelGen, Deleted, Doomed
<1>4. CASE ManifestBegin \/ ManifestEnd
  BY <1>4 DEF ManifestBegin, ManifestEnd, Marks, NextDelGen, Deleted, Doomed
<1>5. CASE \/ Call \/ Fail
           \/ FlushBegin \/ FlushEnd \/ Compact \/ Drained
           \/ \E k \in Names : RemoveInput(k)
           \/ TakeNothing \/ Flip \/ Pruned
           \/ \E n \in Gens : Prune(n)
           \/ \E f \in DataFiles : Reclaim(f) \/ ReclaimFails(f)
           \/ Reclaimed \/ Relist \/ ListingEnd \/ Check
  <2>1. pc' \notin {"dels", "manifest", "writing", "flip"}
    BY <1>5 DEF Call, Open, AddDocument, DeleteDocument, StartCommit, Abandon,
         Fail, AddFails, CallFails, Crash, Drop, FlushBegin, FlushEnd,
         AfterFlush, Compact, RemoveInput, Drained, TakeNothing, Flip, Prune,
         session, Pruned, Reclaim, ReclaimFails, Reclaimed, Relist,
         ListingEnd, AfterPublish, Check, Forget
  <2> QED
    BY <2>1
<1>6. CASE Merge
  BY <1>0, <1>6 DEF Merge, SessionInv
<1>7. CASE UNCHANGED vars
  BY <1>7 DEF vars, dirVars, session, Marks, NextDelGen, Deleted, Doomed
<1> QED
  BY <1>1, <1>2, <1>3, <1>4, <1>5, <1>6, <1>7 DEF Next, Continue

LEMMA NextMergedInv ==
  ASSUME IndInv, MergedInv, [Next]_vars PROVE MergedInv'
<1>0. TypeOK /\ DirInv /\ SessionInv
  BY DEF IndInv
<1> USE DEF MergedInv
<1>1. CASE Check
  BY <1>0, <1>1 DEF Check, Forget, SessionInv
<1>2. CASE Merge
  <2>1. /\ op = "merge" /\ base = manifest[gen] /\ base' = base
        /\ UNCHANGED <<flushed, pending>>
    BY <1>0, <1>2 DEF Merge, SessionInv, BeforeFlip
  <2>2. Visible(base)' = Visible(base)
    <3>1. KeptGrace
      BY <1>2, StepKeepsGrace DEF Next, Continue, Merge, Flip
    <3>2. gen' = gen /\ manifest'[gen] = base
      BY <2>1, <3>1 DEF KeptGrace, Kept
    <3> QED
      BY <1>0, <2>1, <3>1, <3>2, KeptVisible
  <2>3. cfs'[base.counter] = Visible(base)
    BY <1>0, <1>2, <2>1, GraceTyped, ManifestFields
       DEF Merge, TypeOK, DirTypeOK, Names
  <2> QED
    BY <2>1, <2>2, <2>3
<1>3. CASE ManifestBegin \/ ManifestEnd
  BY <1>3 DEF ManifestBegin, ManifestEnd, Visible, Deleted
<1>4. CASE \/ Flip \/ Pruned \/ \E n \in Gens : Prune(n)
           \/ \E f \in DataFiles : Reclaim(f) \/ ReclaimFails(f)
           \/ Reclaimed \/ Relist \/ ListingEnd
  BY <1>4 DEF Flip, Pruned, Prune, session, Reclaim, ReclaimFails, Reclaimed,
              Relist, ListingEnd, AfterPublish, Forget
<1>5. CASE \/ Call \/ Fail
           \/ FlushBegin \/ FlushEnd \/ Compact \/ Drained
           \/ \E k \in Names : RemoveInput(k) \/ WriteDel(k)
           \/ TakeNothing \/ Take \/ DelsWritten
  <2>1. op' = "merge" => op = "merge" /\ pc \in {"dels", "take"}
    BY <1>0, <1>5 DEF Call, Open, AddDocument, DeleteDocument, StartCommit,
         Abandon, Fail, AddFails, CallFails, Crash, Drop, FlushBegin,
         FlushEnd, AfterFlush, AfterFlushOp, Compact, RemoveInput, Drained,
         TakeNothing, Take, DelsWritten, WriteDel, Forget, SessionInv,
         CleaningUp, Flushing
  <2> QED
    BY <1>0, <2>1 DEF SessionInv, CleaningUp
<1>6. CASE UNCHANGED vars
  BY <1>6 DEF vars, dirVars, session, Visible, Deleted
<1> QED
  BY <1>1, <1>2, <1>3, <1>4, <1>5, <1>6 DEF Next, Continue

LEMMA NextAtomicInv == AtomicInv /\ [Next]_vars => AtomicInv'
BY NextIndInv, NextSegmentsApart, NextStagedApart, NextEmptied,
   NextMarkedInv, NextMergedInv DEF AtomicInv

LEMMA InitAtomicInv == Init => AtomicInv
<1> SUFFICES ASSUME Init PROVE AtomicInv
  OBVIOUS
<1>1. gen = 1 /\ manifest[1].names = {0}
  BY DEF Init, DirInit, Gens
<1> QED
  BY <1>1, InitIndInv
     DEF Init, WriterInit, AtomicInv, SegmentsApart, DisjointIn, StagedApart,
         Staging, BeforeFlip, Flushing, Building, Emptied, MarkedInv, MergedInv

-----------------------------------------------------------------------------
(* Every step maps to a step of the atomic index, or to a stutter.         *)

(* The documents a session has staged, and those it is to delete.          *)
Staged      == buffer \cup DocsIn(flushed)
DoomedDocs  == UNION {pending[k] : k \in Names}

LEMMA InitMaps == Init => Atomic!Init
<1> SUFFICES ASSUME Init PROVE Atomic!Init
  OBVIOUS
<1>1. PICK g \in {NoDel, 0}, deleted \in SUBSET InitDocs : DirInit!(g)!(deleted)
  BY DEF Init, DirInit
<1>2. manifest[gen].names = {0} /\ cfs[0] = InitDocs
  BY <1>1 DEF Gens, Names
<1>3. Visible(manifest[gen]) \in SUBSET InitDocs
  BY <1>2 DEF Visible
<1>4. DocsIn(flushed) = {} /\ DoomedDocs = {}
  BY DEF Init, WriterInit, DocsIn, DoomedDocs, NoPending
<1> QED
  BY <1>3, <1>4 DEF Atomic!Init, DoomedDocs, Init, WriterInit

(* The session ends, by whatever way.                                      *)
LEMMA ForgetMaps ==
  ASSUME Forget, pc # "closed", Visible(manifest[gen])' = Visible(manifest[gen])
  PROVE  Atomic!End
BY DEF Forget, Atomic!End, DocsIn, NoPending

(* A step that neither shows nor stages anything.                          *)
LEMMA StutterMaps ==
  ASSUME Visible(manifest[gen])' = Visible(manifest[gen]),
         Staged' = Staged, DoomedDocs' = DoomedDocs,
         (pc # "closed")' = (pc # "closed")
  PROVE  UNCHANGED Atomic!vars
BY DEF Atomic!vars, Staged, DoomedDocs

LEMMA AddMaps ==
  ASSUME IndInv, NEW d \in Docs, AddDocument(d),
         Visible(manifest[gen])' = Visible(manifest[gen])
  PROVE  Atomic!Stage(d)
<1>0. TypeOK /\ DirInv /\ SessionInv
  BY DEF IndInv
<1>1. pc = "idle" /\ op # "merge"
  BY <1>0 DEF AddDocument, SessionInv, CleaningUp
<1>2. d \notin Visible(manifest[gen])
  <2>1. \A k \in manifest[gen].names : cfs[k] # NoFile /\ k \in Names
    BY <1>0, GraceTyped, ManifestFields DEF DirInv, Sound
  <2> QED
    BY <2>1 DEF AddDocument, Fresh, Visible
<1>3. d \notin Staged
  <2>1. \A k \in flushed : cfs[k] # NoFile /\ k \in Names
    BY <1>0, <1>1 DEF SessionInv, BeforeFlip, TypeOK
  <2> QED
    BY <2>1 DEF AddDocument, Fresh, Staged, DocsIn
<1>4. /\ buffer' = buffer \cup {d} /\ UNCHANGED <<cfs, flushed, pending>>
      /\ pc' # "closed"
  BY <1>1 DEF AddDocument, dirVars
<1> QED
  BY <1>1, <1>2, <1>3, <1>4 DEF Atomic!Stage, Staged, DocsIn

(* A base document is none of the session's own.                           *)
LEMMA DeleteMaps ==
  ASSUME AtomicInv, NEW k \in Names, NEW d \in Docs, DeleteDocument(k, d),
         Visible(manifest[gen])' = Visible(manifest[gen])
  PROVE  Atomic!Doom(d)
<1>0. TypeOK /\ IndInv
  BY DEF AtomicInv, IndInv
<1>1. pc \in BeforeFlip /\ op # "merge" /\ pc = "idle"
  BY <1>0 DEF DeleteDocument, IndInv, SessionInv, CleaningUp, BeforeFlip
<1>2. d \notin Staged
  <2>1. \A j \in flushed : j # k /\ cfs[j] \cap cfs[k] = {}
    BY <1>0, <1>1, SessionFiles
       DEF AtomicInv, StagedApart, Staging, DisjointIn, DeleteDocument
  <2>2. cfs[k] \cap buffer = {}
    BY <1>1 DEF AtomicInv, StagedApart, Staging, DeleteDocument
  <2> QED
    BY <2>1, <2>2 DEF Staged, DocsIn, DeleteDocument
<1>3. UNCHANGED <<pc, buffer, cfs, flushed>>
  BY DEF DeleteDocument, dirVars
<1>4. DoomedDocs' = DoomedDocs \cup {d}
  <2>1. pending' = [pending EXCEPT ![k] = @ \cup {d}]
    BY DEF DeleteDocument
  <2>2. pending'[k] = pending[k] \cup {d}
    BY <1>0, <2>1 DEF TypeOK
  <2>3. \A j \in Names : j # k => pending'[j] = pending[j]
    BY <1>0, <2>1 DEF TypeOK
  <2> QED
    BY <2>2, <2>3 DEF DoomedDocs
<1> QED
  BY <1>1, <1>2, <1>3, <1>4 DEF Atomic!Doom, Staged, DoomedDocs, DocsIn

(* The flip of a commit publishes the session; that of a merge shows what  *)
(* was there before.                                                       *)
LEMMA CommitPublishes ==
  ASSUME AtomicInv, Flip, op # "merge"
  PROVE  Visible(manifest[gen])' = (Visible(manifest[gen]) \ DoomedDocs) \cup Staged
<1>0. TypeOK /\ DirInv /\ IndInv /\ pc = "flip" /\ Staging
  BY FlipFacts DEF AtomicInv, IndInv
<1>1. /\ base = manifest[gen] /\ base.names \subseteq Names
      /\ base.delGen \in [Names -> {NoDel} \cup DelGens]
      /\ \A k \in base.names : cfs[k] \in SUBSET Docs
      /\ \A k \in flushed : k \in Names /\ k \notin base.names
  BY <1>0, SessionFiles DEF Staging
<1> DEFINE new == NextManifest
           dead(k) == Deleted(k, new.delGen[k])
<1>2. Visible(manifest[gen])' = UNION {cfs[k] \ dead(k) : k \in new.names}
  BY FlipFacts, <1>0 DEF Visible, Deleted
<1>3. /\ new.names = base.names \cup flushed
      /\ \A k \in Names :
           new.delGen[k] = IF k \in Doomed THEN NextDelGen(base.delGen[k])
                           ELSE base.delGen[k]
  BY DEF NextManifest
<1>4. \A k \in flushed : dead(k) = {}
  <2>1. \A k \in flushed : k \notin Doomed /\ base.delGen[k] = NoDel
    BY <1>0, <1>1
       DEF IndInv, SessionInv, Staging, Doomed, DirInv, Sound
  <2> QED
    BY <1>1, <1>3, <2>1 DEF Deleted
<1>5. \A k \in base.names : dead(k) = Deleted(k, base.delGen[k]) \cup pending[k]
  <2>1. ASSUME NEW k \in base.names, k \in Doomed
        PROVE  dead(k) = Deleted(k, base.delGen[k]) \cup pending[k]
    <3>1. Written(k) /\ Marks(k)
      BY <1>0, <2>1 DEF AtomicInv, MarkedInv, IndInv, BuildInv, Staging
    <3>2. new.delGen[k] = NextDelGen(base.delGen[k])
      BY <1>1, <1>3, <2>1
    <3>3. NextDelGen(base.delGen[k]) # NoDel
      BY <3>1 DEF Written, DelGens, NoDel
    <3> QED
      BY <3>1, <3>2, <3>3 DEF Written, Marks, Deleted
  <2>2. ASSUME NEW k \in base.names, k \notin Doomed
        PROVE  dead(k) = Deleted(k, base.delGen[k]) \cup pending[k]
    BY <1>1, <1>3, <2>2 DEF Doomed
  <2> QED
    BY <2>1, <2>2
<1>6. \A k \in base.names :
        cfs[k] \ DoomedDocs = cfs[k] \ pending[k]
  <2> SUFFICES ASSUME NEW k \in base.names, NEW d \in cfs[k]
               PROVE  d \in DoomedDocs <=> d \in pending[k]
    OBVIOUS
  <2>1. ASSUME NEW j \in Names, d \in pending[j] PROVE d \in pending[k]
    <3>1. j \in base.names
      BY <1>0, <2>1 DEF IndInv, SessionInv, Staging
    <3>2. d \in cfs[j]
      BY <1>0, <2>1, <3>1 DEF AtomicInv, StagedApart
    <3>3. j = k
      BY <1>0, <3>1, <3>2 DEF AtomicInv, StagedApart, DisjointIn
    <3> QED
      BY <2>1, <3>3
  <2> QED
    BY <1>1, <2>1 DEF DoomedDocs
<1>7. buffer = {}
  BY <1>0 DEF AtomicInv, Emptied
<1> HIDE DEF dead, new
<1>8. \A k \in base.names :
        cfs[k] \ dead(k) = (cfs[k] \ Deleted(k, base.delGen[k])) \ DoomedDocs
  BY <1>5, <1>6
<1>9. ASSUME NEW d
      PROVE  d \in Visible(manifest[gen])' <=>
               (d \in Visible(manifest[gen]) /\ d \notin DoomedDocs) \/ d \in Staged
  <2>1. d \in Visible(manifest[gen])' <=>
          \E k \in base.names \cup flushed : d \in cfs[k] \ dead(k)
    BY <1>2, <1>3
  <2>2. (\E k \in flushed : d \in cfs[k] \ dead(k)) <=> d \in Staged
    BY <1>4, <1>7 DEF Staged, DocsIn
  <2>3. (\E k \in base.names : d \in cfs[k] \ dead(k)) <=>
          d \in Visible(manifest[gen]) /\ d \notin DoomedDocs
    BY <1>1, <1>8 DEF Visible
  <2> QED
    BY <2>1, <2>2, <2>3
<1> QED
  BY <1>9

LEMMA MergeShowsTheSame ==
  ASSUME AtomicInv, Flip, op = "merge"
  PROVE  Visible(manifest[gen])' = Visible(manifest[gen])
<1>1. IndInv /\ pc = "flip" /\ base = manifest[gen] /\ base.counter \in Nat
  BY FlipFacts, SessionFiles DEF AtomicInv
<1>2. cfs[base.counter] = Visible(manifest[gen])
  BY <1>1 DEF AtomicInv, MergedInv
<1>3. /\ NextManifest.names = {base.counter}
      /\ base.counter \in Names
      /\ NextManifest.delGen[base.counter] = NoDel
  BY <1>1, NextManifestFields DEF IndInv, BuildInv, Names
<1>4. Visible(manifest[gen])' = UNION {cfs[k] \ Deleted(k, NextManifest.delGen[k]) :
                                         k \in NextManifest.names}
  BY <1>1, FlipFacts DEF Visible, Deleted
<1> QED
  BY <1>2, <1>3, <1>4 DEF Deleted

LEMMA FlipMaps ==
  ASSUME AtomicInv, Flip PROVE [Atomic!Next]_(Atomic!vars)
<1>1. /\ pc = "flip" /\ pc' = "prune" /\ buffer = {} /\ buffer' = {}
      /\ flushed' = {} /\ pending' = NoPending
  BY DEF Flip, AtomicInv, Emptied
<1>2. Staged' = {} /\ DoomedDocs' = {}
  BY <1>1 DEF Staged, DoomedDocs, DocsIn, NoPending
<1>3. CASE op = "merge"
  <2>1. Staged = {} /\ DoomedDocs = {}
    BY <1>1, <1>3
       DEF AtomicInv, MergedInv, Staged, DoomedDocs, DocsIn, NoPending
  <2> QED
    BY <1>1, <1>2, <1>3, <2>1, MergeShowsTheSame, StutterMaps
<1>4. CASE op # "merge" /\ Staged \cup DoomedDocs = {}
  <2>1. Visible(manifest[gen])' = Visible(manifest[gen])
    BY <1>4, CommitPublishes
  <2> QED
    BY <1>1, <1>2, <1>4, <2>1, StutterMaps
<1>5. CASE op # "merge" /\ Staged \cup DoomedDocs # {}
  <2>1. Atomic!Publish
    BY <1>1, <1>2, <1>5, CommitPublishes
       DEF Atomic!Publish, Staged, DoomedDocs
  <2> QED
    BY <2>1 DEF Atomic!Next
<1> QED
  BY <1>3, <1>4, <1>5

(* Flushing and compacting move documents, and stage none.                 *)
LEMMA FlushMaps ==
  ASSUME AtomicInv,
         \/ FlushBegin \/ FlushEnd \/ Compact
         \/ \E k \in Names : RemoveInput(k)
  PROVE  Staged' = Staged /\ DoomedDocs' = DoomedDocs
                          /\ pc # "closed" /\ pc' # "closed"
<1>0. TypeOK /\ IndInv /\ SessionInv
  BY DEF AtomicInv, IndInv
<1>1. /\ pc \in BeforeFlip /\ op # "merge" /\ pc # "closed" /\ pc' # "closed"
      /\ UNCHANGED pending
  BY <1>0 DEF FlushBegin, FlushEnd, Compact, RemoveInput, AfterFlush,
              BeforeFlip, Flushing, SessionInv
<1>2. \A k \in flushed : k \in Names /\ k < nextName
  BY <1>0, <1>1, SessionFiles
<1>3. nextName \in Int
  BY <1>0 DEF TypeOK
<1>4. CASE FlushBegin
  <2>1. \A k \in flushed : cfs'[k] = cfs[k]
    BY <1>0, <1>2, <1>3, <1>4 DEF FlushBegin, TypeOK, DirTypeOK, Names
  <2> QED
    BY <1>1, <1>4, <2>1 DEF FlushBegin, Staged, DocsIn, DoomedDocs
<1>5. CASE FlushEnd
  <2>1. /\ \A k \in flushed : cfs'[k] = cfs[k]
        /\ cfs'[nextName] = buffer /\ flushed' = flushed \cup {nextName}
        /\ buffer' = {}
    BY <1>0, <1>2, <1>3, <1>5 DEF FlushEnd, TypeOK, DirTypeOK, Names
  <2>2. DocsIn(flushed)' = DocsIn(flushed) \cup buffer
    BY <2>1 DEF DocsIn
  <2> QED
    BY <1>1, <2>1, <2>2 DEF Staged, DoomedDocs
<1>6. CASE Compact
  <2>1. /\ cfs'[nextName] = DocsIn(flushed) /\ flushed' = {nextName}
        /\ buffer' = buffer
    BY <1>0, <1>3, <1>6 DEF Compact, TypeOK, DirTypeOK, Names
  <2>2. DocsIn(flushed)' = DocsIn(flushed)
    BY <2>1 DEF DocsIn
  <2> QED
    BY <1>1, <2>1, <2>2 DEF Staged, DoomedDocs
<1>7. ASSUME NEW k \in Names, RemoveInput(k)
      PROVE  Staged' = Staged /\ DoomedDocs' = DoomedDocs
  <2>1. \A j \in flushed : cfs'[j] = cfs[j]
    BY <1>0, <1>2, <1>7 DEF RemoveInput, SessionInv, TypeOK, DirTypeOK
  <2> QED
    BY <1>1, <1>7, <2>1 DEF RemoveInput, Staged, DocsIn, DoomedDocs
<1> QED
  BY <1>1, <1>4, <1>5, <1>6, <1>7

(* Once nothing is flushed, removing and merging segments stages nothing.  *)
LEMMA CleanMaps ==
  ASSUME AtomicInv, Merge \/ \E f \in DataFiles : Reclaim(f)
  PROVE  Staged' = Staged /\ DoomedDocs' = DoomedDocs
                          /\ pc # "closed" /\ pc' # "closed"
<1>1. flushed = {} /\ UNCHANGED <<flushed, buffer, pending>>
  BY DEF Merge, Reclaim, AtomicInv, IndInv, CleanupInv, CleaningUp,
         SessionInv, MergedInv
<1>2. pc # "closed" /\ pc' # "closed"
  BY DEF Merge, Reclaim
<1> QED
  BY <1>1, <1>2 DEF Staged, DocsIn, DoomedDocs

LEMMA NextMaps ==
  AtomicInv /\ [Next]_vars => [Atomic!Next]_(Atomic!vars)
<1> SUFFICES ASSUME AtomicInv, [Next]_vars
             PROVE  [Atomic!Next]_(Atomic!vars)
  OBVIOUS
<1>0. TypeOK /\ DirInv /\ IndInv
  BY DEF AtomicInv, IndInv
<1>1. CASE Flip
  BY <1>1, FlipMaps
<1>2. CASE ~Flip
  <2>0. Visible(manifest[gen])' = Visible(manifest[gen])
    BY <1>0, <1>2, StepKeepsGrace, KeptVisible
  <2>1. CASE Open
    BY <2>0, <2>1 DEF Open, dirVars, Atomic!Next, Atomic!Begin, DocsIn
  <2>2. ASSUME NEW d \in Docs, AddDocument(d)
        PROVE  [Atomic!Next]_(Atomic!vars)
    BY <1>0, <2>0, <2>2, AddMaps DEF Atomic!Next
  <2>3. ASSUME NEW k \in Names, NEW d \in Docs, DeleteDocument(k, d)
        PROVE  [Atomic!Next]_(Atomic!vars)
    BY <2>0, <2>3, DeleteMaps DEF Atomic!Next
  <2>4. CASE \/ FlushBegin \/ FlushEnd \/ Compact
             \/ \E k \in Names : RemoveInput(k)
             \/ Merge \/ \E f \in DataFiles : Reclaim(f)
    BY <2>0, <2>4, FlushMaps, CleanMaps, StutterMaps
  <2>5. ASSUME Forget, pc # "closed" PROVE [Atomic!Next]_(Atomic!vars)
    BY <2>0, <2>5, ForgetMaps DEF Atomic!Next
  <2>6. CASE Abandon \/ CallFails \/ Crash
    <3>1. Forget /\ pc # "closed"
      BY <2>6 DEF Abandon, CallFails, Crash, Drop
    <3> QED
      BY <2>5, <3>1
  <2>7. CASE TakeNothing \/ Relist \/ ListingEnd \/ Check
    <3>1. CASE Forget
      BY <2>5, <2>7, <3>1 DEF TakeNothing, Relist, ListingEnd, Check
    <3>2. CASE ~Forget
      <4>1. /\ UNCHANGED <<cfs, flushed, buffer, pending>>
            /\ pc # "closed" /\ pc' # "closed"
        BY <2>7, <3>2
           DEF TakeNothing, Relist, ListingEnd, Check, AfterPublish, dirVars
      <4> QED
        BY <2>0, <4>1, StutterMaps DEF Staged, DocsIn, DoomedDocs
    <3> QED
      BY <3>1, <3>2
  <2>8. CASE \/ \E call \in {"commit", "optimize"} : StartCommit(call)
             \/ Drained \/ Take \/ DelsWritten \/ AddFails
             \/ \E k \in Names : WriteDel(k)
             \/ ManifestBegin \/ ManifestEnd \/ Pruned
             \/ \E n \in Gens : Prune(n)
             \/ \E f \in DataFiles : ReclaimFails(f)
             \/ Reclaimed
    <3>1. /\ UNCHANGED <<cfs, flushed, buffer, pending>>
          /\ pc # "closed" /\ pc' # "closed"
      BY <2>8 DEF StartCommit, Drained, AfterFlush, Take, DelsWritten,
           AddFails, WriteDel, ManifestBegin, ManifestEnd, Pruned, Prune,
           session, ReclaimFails, Reclaimed, dirVars
    <3> QED
      BY <2>0, <3>1, StutterMaps DEF Staged, DocsIn, DoomedDocs
  <2>9. CASE UNCHANGED vars
    BY <2>0, <2>9, StutterMaps
       DEF vars, dirVars, session, Staged, DocsIn, DoomedDocs
  <2> QED
    BY <1>2, <2>1, <2>2, <2>3, <2>4, <2>6, <2>7, <2>8, <2>9
       DEF Next, Call, Continue, Fail
<1> QED
  BY <1>1, <1>2

(* The files of an index, under whatever a session does and whatever       *)
(* befalls it, are an index whose sessions are published whole or not at   *)
(* all: IndexWriter refines the index its callers are promised.            *)
THEOREM WriterIsAtomic == Spec => ImplementsAtomic
<1>1. Spec => []AtomicInv
  BY InitAtomicInv, NextAtomicInv, PTL DEF Spec
<1> QED
  BY <1>1, InitMaps, NextMaps, PTL DEF Spec, ImplementsAtomic, Atomic!Spec

-----------------------------------------------------------------------------
(* document_count.                                                         *)

LEMMA FiniteDocs ==
  ASSUME NEW S \in SUBSET Docs
  PROVE  IsFiniteSet(S) /\ Cardinality(S) \in Nat
BY FS_Subset, FS_CardinalityType

(* Publishing "in" and taking "out" away.                                  *)
LEMMA CountAfter ==
  ASSUME NEW seen \in SUBSET Docs, NEW in \in SUBSET Docs,
         NEW out \in SUBSET Docs,
         seen \cap in = {}
  PROVE  LET found == Cardinality((seen \ out) \cup in)
             count == Cardinality(seen) + Cardinality(in) - Cardinality(out)
         IN  /\ count <= found
             /\ out \subseteq seen => count = found
<1>1. /\ IsFiniteSet(seen) /\ IsFiniteSet(in) /\ IsFiniteSet(out)
      /\ IsFiniteSet(seen \ out) /\ IsFiniteSet(seen \cap out)
      /\ Cardinality(seen) \in Nat /\ Cardinality(in) \in Nat
      /\ Cardinality(out) \in Nat /\ Cardinality(seen \ out) \in Nat
      /\ Cardinality(seen \cap out) \in Nat
  <2>1. seen \ out \in SUBSET Docs /\ seen \cap out \in SUBSET Docs
    OBVIOUS
  <2> QED
    BY <2>1, FiniteDocs
<1>2. Cardinality(seen \ out) = Cardinality(seen) - Cardinality(seen \cap out)
  BY <1>1, FS_Difference
<1>3. Cardinality((seen \ out) \cup in) = Cardinality(seen \ out) + Cardinality(in)
  <2>1. (seen \ out) \cap in = {} /\ Cardinality({}) = 0
    BY FS_EmptySet
  <2>2. Cardinality((seen \ out) \cup in) =
          Cardinality(seen \ out) + Cardinality(in) - Cardinality((seen \ out) \cap in)
    BY <1>1, FS_Union
  <2>3. Cardinality((seen \ out) \cap in) = 0
    BY <2>1, Zenon
  <2> QED
    BY <1>1, <2>2, <2>3
<1>4. Cardinality(seen \cap out) <= Cardinality(out)
  <2>1. seen \cap out \in SUBSET out
    OBVIOUS
  <2> QED
    BY <1>1, <2>1, FS_Subset
<1>5. out \subseteq seen => seen \cap out = out
  OBVIOUS
<1> QED
  BY <1>1, <1>2, <1>3, <1>4, <1>5

LEMMA CommitCounts ==
  ASSUME AtomicInv, Flip, op # "merge"
  PROVE  LET found == Cardinality(Visible(manifest[gen])')
         IN  IF Redeleted THEN DocumentCount <= found
                          ELSE DocumentCount = found
<1> DEFINE seen == Visible(manifest[gen])
           in   == DocsIn(flushed)
           out  == DoomedDocs
<1>0. TypeOK /\ DirInv /\ IndInv /\ Staging /\ buffer = {}
  BY FlipFacts DEF AtomicInv, IndInv, Emptied
<1>1. /\ base = manifest[gen] /\ base.names \subseteq Names
      /\ \A k \in base.names : cfs[k] \in SUBSET Docs
      /\ \A k \in flushed : cfs[k] \in SUBSET Docs /\ k \notin base.names
  BY <1>0, SessionFiles DEF Staging
<1>2. seen \in SUBSET Docs /\ in \in SUBSET Docs /\ out \in SUBSET Docs
  BY <1>0, <1>1 DEF Visible, DocsIn, DoomedDocs, TypeOK
<1>3. seen \cap in = {}
  BY <1>0, <1>1 DEF AtomicInv, StagedApart, DisjointIn, Visible, DocsIn
<1>4. ~Redeleted => out \subseteq seen
  <2> SUFFICES ASSUME ~Redeleted, NEW j \in Names, NEW d \in pending[j]
               PROVE  d \in seen
    BY DEF DoomedDocs
  <2>1. j \in base.names
    BY <1>0 DEF IndInv, SessionInv, Staging
  <2>2. d \in cfs[j] /\ d \notin Deleted(j, base.delGen[j])
    BY <1>0, <2>1 DEF AtomicInv, StagedApart, Redeleted
  <2> QED
    BY <1>1, <2>1, <2>2 DEF Visible
<1>5. Visible(manifest[gen])' = (seen \ out) \cup in
  BY <1>0, CommitPublishes DEF Staged
<1>6. Cardinality(buffer) = 0
  BY <1>0, FS_EmptySet
<1>7. DocumentCount = LET staged == Cardinality(seen) + Cardinality(in)
                      IN  IF staged > Cardinality(out)
                          THEN staged - Cardinality(out) ELSE 0
  <2>1. Cardinality(seen) \in Nat /\ Cardinality(in) \in Nat
    BY <1>2, FiniteDocs
  <2> QED
    BY <1>1, <1>6, <2>1 DEF DocumentCount, DoomedDocs
<1> HIDE DEF seen, in, out
<1>8. /\ Cardinality(seen) \in Nat /\ Cardinality(in) \in Nat
      /\ Cardinality(out) \in Nat /\ Cardinality((seen \ out) \cup in) \in Nat
  BY <1>2, FiniteDocs
<1>9. LET found == Cardinality((seen \ out) \cup in)
          count == Cardinality(seen) + Cardinality(in) - Cardinality(out)
      IN  /\ count <= found
          /\ out \subseteq seen => count = found
  BY <1>2, <1>3, CountAfter
<1>10. Cardinality(Visible(manifest[gen])') = Cardinality((seen \ out) \cup in)
  BY <1>5, Zenon
<1> QED
  BY <1>4, <1>7, <1>8, <1>9, <1>10

(* document_count is what the commit leaves in the index, and less only    *)
(* when a dead document was deleted again.                                 *)
THEOREM CountExactHolds == Spec => CountExact
<1>1. Spec => []AtomicInv
  BY InitAtomicInv, NextAtomicInv, PTL DEF Spec
<1>2. AtomicInv /\ [Next]_vars =>
        [op # "merge" /\ gen' # gen =>
           LET found == Cardinality(Visible(manifest'[gen']))
           IN IF Redeleted THEN DocumentCount <= found
                           ELSE DocumentCount = found]_vars
  <2> SUFFICES ASSUME AtomicInv, [Next]_vars, op # "merge", gen' # gen
               PROVE  LET found == Cardinality(Visible(manifest'[gen']))
                      IN IF Redeleted THEN DocumentCount <= found
                                      ELSE DocumentCount = found
    OBVIOUS
  <2>1. Flip
    BY StepKeepsGrace DEF AtomicInv, KeptGrace
  <2>2. Visible(manifest'[gen']) = Visible(manifest[gen])'
    BY <2>1 DEF Flip, Visible, Deleted
  <2> QED
    BY <2>1, <2>2, CommitCounts
<1> QED
  BY <1>1, <1>2, PTL DEF Spec, CountExact

-----------------------------------------------------------------------------
(* What a search beside a writer finds, for any number of readers and      *)
(* every index.  A reader that is in time goes by a manifest in grace,     *)
(* which stays as it is; a later one goes by a manifest whose names and    *)
(* delGens nobody uses again, so that its files can go but not change.     *)

(* A manifest the index has now or had once.                               *)
Past(m) ==
  /\ m \in Manifests
  /\ m.counter <= manifest[gen].counter
  /\ \A k \in m.names :
       /\ k < m.counter
       /\ k \in manifest[gen].names => m.delGen[k] <= manifest[gen].delGen[k]

(* Segment k of manifest m still shows all that reader r is to find in it, *)
(* unless it is gone.                                                      *)
Marked(r, m, k) == rexpect[r][k] \cap Deleted(k, m.delGen[k]) = {}
Left(r, m, k) ==
  /\ cfs[k] # NoFile => rexpect[r][k] \subseteq cfs[k]
  /\ Marked(r, m, k)

Active(r) == rpc[r] \in {"manifest", "segments", "bitmap", "done"}

(* Before the manifest is read, and after.                                 *)
Seeking(r) ==
  rpc[r] = "manifest" /\ manifest[rgen[r]] # NoFile =>
    /\ Past(manifest[rgen[r]])
    /\ \A k \in Names :
         IF k \in manifest[rgen[r]].names
         THEN Left(r, manifest[rgen[r]], k) ELSE rexpect[r][k] = {}

Opening(r) ==
  rpc[r] \in {"segments", "bitmap", "done"} =>
    /\ Past(rman[r]) /\ rtodo[r] \subseteq rman[r].names
    /\ \A k \in rtodo[r] : Left(r, rman[r], k)
    /\ \A k \in Names \ rtodo[r] : rexpect[r][k] \subseteq rview[r][k]
    /\ rpc[r] = "bitmap" =>
         ropen[r] \in rman[r].names /\ Marked(r, rman[r], ropen[r])
    /\ rpc[r] = "done" => rtodo[r] = {}

(* As long as the manifest is in grace.                                    *)
Timely(r) ==
  Active(r) /\ InTime(r) =>
    /\ rexpect[r] = Shown(manifest[rgen[r]])
    /\ rpc[r] = "manifest" => rview[r] = NothingShown
    /\ rpc[r] # "manifest" =>
         /\ rman[r] = manifest[rgen[r]]
         /\ \A k \in Names : rview[r][k] =
              IF k \in rtodo[r] THEN {}
              ELSE IF rpc[r] = "bitmap" /\ k = ropen[r] THEN cfs[k]
              ELSE rexpect[r][k]

ReaderInv(r) ==
  /\ Active(r) => rgen[r] >= 1 /\ rgen[r] <= gen
  /\ Seeking(r) /\ Opening(r) /\ Timely(r)

ReadersInv == IndInv /\ ReadersTypeOK /\ \A r \in Readers : ReaderInv(r)

-----------------------------------------------------------------------------
(* What the writer's steps leave of an old manifest.                       *)

LEMMA CurrentIsPast ==
  ASSUME TypeOK, DirInv PROVE Past(manifest[gen])
BY GraceTyped, ManifestFields DEF Past, DirInv, Sound, NoDel, DelGens

LEMMA PastNames ==
  ASSUME TypeOK, DirInv, NEW m, Past(m), NEW k \in m.names
  PROVE  /\ k \in Names /\ k \in Nat
         /\ k < manifest[gen].counter
         /\ m.delGen[k] \in {NoDel} \cup DelGens
<1>1. /\ m \in Manifests /\ manifest[gen] \in Manifests
      /\ k < m.counter /\ m.counter <= manifest[gen].counter
  BY GraceTyped DEF Past
<1>2. k \in Names /\ m.counter \in Nat /\ manifest[gen].counter \in Nat
      /\ m.delGen[k] \in {NoDel} \cup DelGens
  BY <1>1, ManifestFields
<1> QED
  BY <1>1, <1>2 DEF Names

(* Manifests up to the current one are removed, never rewritten.           *)
LEMMA ManifestStays ==
  ASSUME IndInv, [Next]_vars, NEW n \in Gens, n <= gen
  PROVE  manifest'[n] \in {manifest[n], NoFile}
<1>0. TypeOK /\ DirInv /\ gen \in Nat /\ n \in Nat
  BY GraceTyped DEF IndInv, Gens
<1>1. CASE ManifestBegin \/ ManifestEnd
  <2>1. baseGen = gen
    BY <1>0, <1>1 DEF ManifestBegin, ManifestEnd, IndInv, SessionInv,
                      BeforeFlip, Building
  <2> QED
    BY <1>0, <1>1, <2>1 DEF ManifestBegin, ManifestEnd, TypeOK, DirTypeOK
<1>2. ASSUME NEW j \in Gens, Prune(j) PROVE manifest'[n] \in {manifest[n], NoFile}
  BY <1>0, <1>2 DEF Prune, TypeOK, DirTypeOK
<1>3. CASE UNCHANGED manifest
  BY <1>3
<1>4. CASE Call \/ Fail \/ UNCHANGED vars
  BY <1>4 DEF Call, Fail, Open, AddDocument, DeleteDocument, StartCommit, Abandon,
              Drop, AddFails, CallFails, Crash, dirVars, vars
<1>5. CASE Continue
  BY <1>1, <1>2, <1>3, <1>5
     DEF Continue, FlushBegin, FlushEnd, Compact, Drained, RemoveInput,
         TakeNothing, Take, DelsWritten, WriteDel, Flip, Pruned, Reclaim,
         ReclaimFails, Reclaimed, Relist, ListingEnd, Check, Merge, dirVars
<1> QED
  BY <1>4, <1>5 DEF Next

(* A name below the counter and a delGen not above the current one are     *)
(* never written again.                                                    *)
LEMMA FilesStay ==
  ASSUME IndInv, [Next]_vars, NEW m, Past(m), NEW k \in m.names
  PROVE  /\ cfs'[k] \in {cfs[k], NoFile}
         /\ m.delGen[k] # NoDel =>
              del'[k][m.delGen[k]] \in {del[k][m.delGen[k]], NoFile}
<1> DEFINE g == m.delGen[k]
           Goal == /\ cfs'[k] \in {cfs[k], NoFile}
                   /\ g # NoDel => del'[k][g] \in {del[k][g], NoFile}
<1>0. /\ TypeOK /\ DirInv /\ manifest[gen] \in Manifests
      /\ k \in Names /\ k \in Nat /\ k < manifest[gen].counter
      /\ g \in {NoDel} \cup DelGens
      /\ manifest[gen].counter \in Nat
  BY PastNames, GraceTyped, ManifestFields DEF IndInv
<1> SUFFICES Goal
  OBVIOUS
<1>1. CASE UNCHANGED <<cfs, del>>
  BY <1>1
<1>2. CASE FlushBegin \/ FlushEnd \/ Compact
  <2>1. base = manifest[gen] /\ base.counter <= nextName
    BY <1>0, <1>2 DEF FlushBegin, FlushEnd, Compact, IndInv, SessionInv,
                BeforeFlip, Flushing, CleaningUp
  <2>2. nextName # k
    BY <1>0, <1>2, <2>1 DEF TypeOK
  <2> QED
    BY <1>0, <1>2, <2>2 DEF FlushBegin, FlushEnd, Compact, TypeOK, DirTypeOK
<1>3. CASE Merge
  <2>1. base = manifest[gen]
    BY <1>0, <1>3 DEF Merge, IndInv, SessionInv, BeforeFlip
  <2> QED
    BY <1>0, <1>3, <2>1 DEF Merge, TypeOK, DirTypeOK
<1>4. ASSUME NEW j \in Names, RemoveInput(j) PROVE Goal
  BY <1>0, <1>4 DEF RemoveInput, TypeOK, DirTypeOK
<1>5. ASSUME NEW j \in Names, WriteDel(j) PROVE Goal
  <2> DEFINE next == NextDelGen(base.delGen[j])
  <2>1. /\ UNCHANGED cfs /\ next \in DelGens
        /\ del' = [del EXCEPT ![j][next] = Deleted(j, base.delGen[j]) \cup pending[j]]
    BY <1>5 DEF WriteDel
  <2>2. base = manifest[gen] /\ j \in base.names
    BY <1>5 DEF WriteDel, IndInv, SessionInv, BuildInv, BeforeFlip, Building, Doomed,
                CleaningUp
  <2>3. ASSUME j = k PROVE g # next
    <3>1. g <= base.delGen[k]
      BY <2>2, <2>3 DEF Past
    <3>2. base.delGen[k] \in {NoDel} \cup DelGens
      BY <1>0, <2>2, ManifestFields
    <3> QED
      BY <1>0, <2>3, <3>1, <3>2 DEF NextDelGen, NoDel, DelGens
  <2> HIDE DEF next, g
  <2>4. g # NoDel => del'[k][g] = del[k][g]
    BY <1>0, <2>1, <2>3 DEF TypeOK, DirTypeOK
  <2> QED
    BY <2>1, <2>4
<1>6. ASSUME NEW f \in DataFiles, Reclaim(f) PROVE Goal
  BY <1>0, <1>6 DEF Reclaim, TypeOK, DirTypeOK, DataFiles
<1>7. ASSUME NEW orphans \in SUBSET Names, Drop(orphans) PROVE Goal
  BY <1>0, <1>7 DEF Drop, TypeOK, DirTypeOK
<1>8. CASE Call
  BY <1>0, <1>1, <1>7, <1>8
     DEF Call, Open, AddDocument, DeleteDocument, StartCommit, Abandon, dirVars, TypeOK
<1>9. CASE Continue
  <2>1. CASE \/ Drained \/ TakeNothing \/ Take \/ DelsWritten \/ ManifestBegin
             \/ ManifestEnd \/ Flip \/ Pruned \/ Reclaimed \/ Relist \/ ListingEnd
             \/ Check \/ \E f \in DataFiles : ReclaimFails(f)
             \/ \E n \in Gens : Prune(n)
    BY <1>1, <2>1
       DEF Drained, TakeNothing, Take, DelsWritten, ManifestBegin, ManifestEnd, Flip,
           Pruned, Reclaimed, Relist, ListingEnd, Check, ReclaimFails, Prune, dirVars
  <2> QED
    BY <1>2, <1>3, <1>4, <1>5, <1>6, <1>9, <2>1 DEF Continue
<1>10. CASE Fail
  BY <1>0, <1>1, <1>7, <1>10 DEF Fail, AddFails, CallFails, Crash, dirVars, TypeOK
<1>11. CASE UNCHANGED vars
  BY <1>1, <1>11 DEF vars, dirVars
<1> QED
  BY <1>8, <1>9, <1>10, <1>11 DEF Next

LEMMA PastStays ==
  ASSUME IndInv, [Next]_vars, NEW m, Past(m) PROVE Past(m)'
<1>0. /\ TypeOK /\ DirInv /\ TypeOK' /\ DirInv'
      /\ manifest[gen] \in Manifests /\ manifest'[gen'] \in Manifests
  <2>1. TypeOK /\ DirInv /\ TypeOK' /\ DirInv'
    BY NextIndInv DEF IndInv
  <2> QED
    BY <2>1, GraceTyped DEF TypeOK, DirTypeOK, DirInv, Sound, Gens
<1>1. CASE ~Flip
  BY <1>1, StepKeepsGrace DEF KeptGrace, Kept, Past
<1>2. CASE Flip
  <2>0. /\ pc = "flip" /\ gen \in Nat /\ gen >= 1 /\ gen' = gen + 1
        /\ base = manifest[gen] /\ UNCHANGED manifest
        /\ manifest[gen + 1] = NextManifest
    BY <1>0, <1>2, GraceTyped
       DEF Flip, IndInv, DirInv, SessionInv, BuildInv, BeforeFlip, Building
  <2>1. /\ manifest[gen].counter <= manifest'[gen'].counter
        /\ \A k \in manifest[gen].names \cap manifest'[gen'].names :
             manifest[gen].delGen[k] <= manifest'[gen'].delGen[k]
    BY <1>0, <2>0 DEF DirInv, Older
  <2>2. ASSUME NEW k \in Names, k < manifest[gen].counter, k \in manifest'[gen'].names
        PROVE  k \in manifest[gen].names
    <3>1. op # "merge" => \A j \in flushed : base.counter <= j
      BY <2>0 DEF IndInv, SessionInv, BeforeFlip, Building
    <3>2. manifest[gen].counter \in Nat /\ k \in Nat
      BY <1>0, ManifestFields DEF Names
    <3> QED
      BY <2>0, <2>2, <3>1, <3>2, NextManifestFields
  <2>3. /\ m.counter \in Nat /\ manifest[gen].counter \in Nat
        /\ manifest'[gen'].counter \in Nat
    BY <1>0, ManifestFields DEF Past
  <2>4. ASSUME NEW k \in m.names
        PROVE  /\ k < m.counter
               /\ k \in manifest'[gen'].names => m.delGen[k] <= manifest'[gen'].delGen[k]
    <3>1. k \in Names /\ k < manifest[gen].counter /\ m.delGen[k] \in Int
      BY <1>0, PastNames DEF NoDel, DelGens
    <3>2. /\ manifest[gen].delGen[k] \in Int /\ manifest'[gen'].delGen[k] \in Int
      BY <1>0, <3>1, ManifestFields DEF NoDel, DelGens
    <3> QED
      BY <2>1, <2>2, <3>1, <3>2 DEF Past
  <2> QED
    BY <2>1, <2>3, <2>4 DEF Past
<1> QED
  BY <1>1, <1>2

(* So what a reader is still to find can only go with its whole file.      *)
LEMMA MarkedStays ==
  ASSUME IndInv, [Next]_vars, UNCHANGED readerVars, NEW m, Past(m), NEW k \in m.names,
         NEW r \in Readers, Marked(r, m, k)
  PROVE  Marked(r, m, k)'
<1>1. m.delGen[k] # NoDel => del'[k][m.delGen[k]] \in {del[k][m.delGen[k]], NoFile}
  BY FilesStay
<1>2. Deleted(k, m.delGen[k])' \in {Deleted(k, m.delGen[k]), {}}
  BY <1>1 DEF Deleted
<1> QED
  BY <1>2 DEF Marked, readerVars

LEMMA LeftStays ==
  ASSUME IndInv, [Next]_vars, UNCHANGED readerVars, NEW m, Past(m), NEW k \in m.names,
         NEW r \in Readers, Left(r, m, k)
  PROVE  Left(r, m, k)'
BY FilesStay, MarkedStays DEF Left, readerVars

-----------------------------------------------------------------------------
(* The invariant is inductive.                                             *)

LEMMA WriterKeepsReaders ==
  ASSUME ReadersInv, [Next]_vars, UNCHANGED readerVars, NEW r \in Readers
  PROVE  ReaderInv(r)'
<1>0. /\ IndInv /\ TypeOK /\ DirInv /\ ReadersTypeOK /\ ReaderInv(r)
      /\ rgen[r] \in Gens /\ rgen[r] \in Nat /\ gen \in Nat
  BY GraceTyped DEF ReadersInv, ReadersTypeOK, IndInv, Gens
<1>1. gen' \in Nat /\ (gen' = gen \/ (Flip /\ gen' = gen + 1))
  <2>1. CASE ~Flip
    BY <1>0, <2>1, StepKeepsGrace DEF KeptGrace
  <2>2. CASE Flip
    BY <1>0, <2>2 DEF Flip, IndInv, SessionInv, BeforeFlip, Building
  <2> QED
    BY <2>1, <2>2
<1>2. Active(r)' => rgen'[r] >= 1 /\ rgen'[r] <= gen'
  BY <1>0, <1>1 DEF ReaderInv, Active, readerVars
<1>3. Seeking(r)'
  <2> SUFFICES ASSUME rpc[r] = "manifest", manifest'[rgen[r]] # NoFile
               PROVE  Seeking(r)'
    BY DEF Seeking, readerVars
  <2>0. PICK m : m = manifest[rgen[r]]
    OBVIOUS
  <2>1. manifest'[rgen[r]] = m /\ m # NoFile
    BY <1>0, <2>0, ManifestStays DEF ReaderInv, Active
  <2>2. /\ Past(m)
        /\ \A k \in Names : IF k \in m.names THEN Left(r, m, k) ELSE rexpect[r][k] = {}
    BY <1>0, <2>0, <2>1 DEF ReaderInv, Seeking
  <2>3. Past(m)'
    BY <1>0, <2>2, PastStays
  <2>4. \A k \in Names : IF k \in m.names THEN Left(r, m, k)' ELSE rexpect'[r][k] = {}
    BY <1>0, <2>2, LeftStays DEF readerVars
  <2> QED
    BY <2>1, <2>3, <2>4 DEF Seeking, readerVars
<1>4. Opening(r)'
  <2> SUFFICES ASSUME rpc[r] \in {"segments", "bitmap", "done"} PROVE Opening(r)'
    BY DEF Opening, readerVars
  <2>0. PICK m, j : m = rman[r] /\ j = ropen[r]
    OBVIOUS
  <2>1. /\ Past(m) /\ rtodo[r] \subseteq m.names
        /\ \A k \in rtodo[r] : Left(r, m, k)
        /\ rpc[r] = "bitmap" => j \in m.names /\ Marked(r, m, j)
    BY <1>0, <2>0 DEF ReaderInv, Opening
  <2>2. Past(m)'
    BY <1>0, <2>1, PastStays
  <2>3. \A k \in rtodo[r] : Left(r, m, k)'
    BY <1>0, <2>1, LeftStays
  <2>4. rpc[r] = "bitmap" => Marked(r, m, j)'
    BY <1>0, <2>1, MarkedStays
  <2> QED
    BY <1>0, <2>0, <2>1, <2>2, <2>3, <2>4 DEF Opening, ReaderInv, readerVars, Marked
<1>5. Timely(r)'
  <2> SUFFICES ASSUME Active(r), gen' <= rgen[r] + 1 PROVE Timely(r)'
    BY DEF Timely, InTime, Active, readerVars
  <2>0. PICK n, m : n = rgen[r] /\ m = manifest[n]
    OBVIOUS
  <2>1. /\ InTime(r) /\ rexpect[r] = Shown(m)
        /\ rpc[r] = "manifest" => rview[r] = NothingShown
        /\ rpc[r] # "manifest" =>
             /\ rman[r] = m
             /\ \A k \in Names : rview[r][k] =
                  IF k \in rtodo[r] THEN {}
                  ELSE IF rpc[r] = "bitmap" /\ k = ropen[r] THEN cfs[k]
                  ELSE rexpect[r][k]
    BY <1>0, <1>1, <2>0 DEF ReaderInv, Timely, InTime
  <2>2. /\ m \in Manifests /\ manifest'[n] = m
        /\ \A k \in m.names :
             /\ cfs'[k] = cfs[k]
             /\ m.delGen[k] # NoDel => del'[k][m.delGen[k]] = del[k][m.delGen[k]]
    <3>1. n >= 1 /\ (n = gen \/ n = gen - 1)
      BY <1>0, <2>0, <2>1 DEF InTime, ReaderInv
    <3>2. m \in Manifests
      BY <1>0, <2>0, <3>1, GraceTyped
    <3>3. CASE Flip
      BY <2>0, <3>2, <3>3 DEF Flip
    <3>4. CASE ~Flip
      <4>1. Kept(n)
        BY <1>0, <3>1, <3>4, StepKeepsGrace DEF KeptGrace
      <4> QED
        BY <2>0, <3>2, <4>1 DEF Kept
    <3> QED
      BY <3>3, <3>4
  <2>3. \A k \in m.names : Deleted(k, m.delGen[k])' = Deleted(k, m.delGen[k])
    BY <2>2 DEF Deleted
  <2>4. Shown(m)' = Shown(m)
    BY <2>2, <2>3 DEF Shown
  <2>5. rpc[r] = "bitmap" => cfs'[ropen[r]] = cfs[ropen[r]]
    BY <1>0, <2>1, <2>2 DEF ReaderInv, Opening
  <2> QED
    BY <2>0, <2>1, <2>2, <2>4, <2>5 DEF Timely, readerVars, NothingShown
<1> QED
  BY <1>2, <1>3, <1>4, <1>5 DEF ReaderInv

(* A reader's own step.                                                    *)
LEMMA ReadKeepsType ==
  ASSUME ReadersInv, NEW s \in Readers, Reading(s) PROVE ReadersTypeOK'
<1>0. /\ IndInv /\ TypeOK /\ DirInv /\ ReadersTypeOK /\ manifest[gen] \in Manifests
      /\ \A n \in Gens : manifest[n] # NoFile => manifest[n] \in Manifests
  BY GraceTyped DEF ReadersInv, IndInv, TypeOK, DirTypeOK
<1> USE DEF ReadersTypeOK
<1>1. CASE ReadGen(s)
  <2>1. \A k \in manifest[gen].names : cfs[k] \in SUBSET Docs
    BY <1>0, ManifestFields DEF DirInv, Sound, TypeOK, DirTypeOK
  <2>2. Shown(manifest[gen]) \in [Names -> SUBSET Docs]
    BY <2>1 DEF Shown
  <2> QED
    BY <1>0, <1>1, <2>2 DEF ReadGen, TypeOK, DirTypeOK, NothingShown
<1>2. CASE ReadManifest(s)
  <2>1. manifest[rgen[s]] # NoFile => manifest[rgen[s]] \in Manifests
    BY <1>0
  <2>2. manifest[rgen[s]] # NoFile => manifest[rgen[s]].names \in SUBSET Names
    BY <2>1, ManifestFields
  <2> QED
    BY <1>0, <1>2, <2>1, <2>2 DEF ReadManifest
<1>3. CASE ReadBitmap(s)
  BY <1>0, <1>3 DEF ReadBitmap
<1>4. CASE Opened(s)
  BY <1>0, <1>4 DEF Opened
<1>5. ASSUME NEW k \in Names, OpenSegment(s, k) PROVE ReadersTypeOK'
  <2>1. cfs[k] # NoFile => cfs[k] \in SUBSET Docs
    BY <1>0 DEF TypeOK, DirTypeOK
  <2> QED
    <3>1. CASE cfs[k] = NoFile
      BY <1>0, <1>5, <3>1 DEF OpenSegment
    <3>2. CASE cfs[k] # NoFile
      <4>1. [rview EXCEPT ![s][k] = cfs[k]] \in [Readers -> [Names -> SUBSET Docs]]
        BY <1>0, <2>1, <3>2
      <4>2. /\ rpc' = [rpc EXCEPT ![s] = "bitmap"]
            /\ rtodo' = [rtodo EXCEPT ![s] = @ \ {k}]
            /\ ropen' = [ropen EXCEPT ![s] = k]
            /\ rview' = [rview EXCEPT ![s][k] = cfs[k]]
            /\ UNCHANGED <<rgen, rman, rexpect>>
        BY <1>5, <3>2 DEF OpenSegment
      <4> QED
        BY <1>0, <4>1, <4>2
    <3> QED
      BY <3>1, <3>2
<1> QED
  BY <1>1, <1>2, <1>3, <1>4, <1>5 DEF Reading

LEMMA ReadKeepsOthers ==
  ASSUME ReadersInv, NEW s \in Readers, Reading(s), NEW r \in Readers, r # s
  PROVE  ReaderInv(r)'
<1>0. ReadersTypeOK /\ ReaderInv(r)
  BY DEF ReadersInv
<1>1. /\ UNCHANGED vars
      /\ rpc'[r] = rpc[r] /\ rgen'[r] = rgen[r] /\ rman'[r] = rman[r]
      /\ rtodo'[r] = rtodo[r] /\ ropen'[r] = ropen[r]
      /\ rview'[r] = rview[r] /\ rexpect'[r] = rexpect[r]
  BY <1>0 DEF Reading, ReadGen, ReadManifest, ReadBitmap, Opened, OpenSegment,
              ReadersTypeOK
<1>2. UNCHANGED <<gen, manifest, cfs, del>>
  BY <1>1 DEF vars, dirVars
<1>2a. /\ Past(manifest[rgen[r]])' = Past(manifest[rgen[r]])
       /\ Past(rman[r])' = Past(rman[r])
       /\ \A k : Left(r, manifest[rgen[r]], k)' = Left(r, manifest[rgen[r]], k)
       /\ \A k : Left(r, rman[r], k)' = Left(r, rman[r], k)
       /\ Marked(r, rman[r], ropen[r])' = Marked(r, rman[r], ropen[r])
  BY <1>1, <1>2 DEF Past, Left, Marked, Deleted
<1>3. Seeking(r)'
  BY <1>0, <1>1, <1>2, <1>2a DEF ReaderInv, Seeking
<1>4. Opening(r)'
  BY <1>0, <1>1, <1>2, <1>2a DEF ReaderInv, Opening
<1>5. Timely(r)'
  <2>1. Shown(manifest[rgen[r]])' = Shown(manifest[rgen[r]])
    BY <1>1, <1>2 DEF Shown, Deleted
  <2> QED
    BY <1>0, <1>1, <1>2, <2>1 DEF ReaderInv, Timely, Active, InTime, NothingShown
<1> QED
  BY <1>0, <1>1, <1>2, <1>3, <1>4, <1>5 DEF ReaderInv, Active

LEMMA ReadKeepsOwn ==
  ASSUME ReadersInv, NEW r \in Readers, Reading(r) PROVE ReaderInv(r)'
<1>0. /\ IndInv /\ TypeOK /\ DirInv /\ ReadersTypeOK /\ ReaderInv(r)
      /\ gen \in Nat /\ gen >= 1 /\ rgen[r] \in Nat
  BY GraceTyped DEF ReadersInv, ReadersTypeOK, IndInv, DirInv, Gens
<1>1. UNCHANGED <<gen, manifest, cfs, del>>
  BY DEF Reading, ReadGen, ReadManifest, ReadBitmap, Opened, OpenSegment, vars, dirVars
<1>2. CASE ReadGen(r)
  <2>1. /\ rpc'[r] = "manifest" /\ rgen'[r] = gen /\ rview'[r] = NothingShown
        /\ rexpect'[r] = Shown(manifest[gen])
    BY <1>0, <1>2 DEF ReadGen, ReadersTypeOK
  <2>2. Past(manifest[gen])
    BY <1>0, CurrentIsPast
  <2>3. \A k \in Names : IF k \in manifest[gen].names
                         THEN Left(r, manifest[gen], k)' ELSE rexpect'[r][k] = {}
    BY <1>1, <2>1 DEF Shown, Left, Marked, Deleted
  <2> QED
    <3>1. manifest'[rgen'[r]] = manifest[gen] /\ Past(manifest[gen])'
      BY <1>1, <2>1, <2>2 DEF Past
    <3>2. Seeking(r)'
      BY <1>1, <2>1, <2>3, <3>1 DEF Seeking
    <3>3. Opening(r)'
      BY <2>1 DEF Opening
    <3>4. Shown(manifest[gen])' = Shown(manifest[gen]) /\ UNCHANGED NothingShown
      BY <1>1 DEF Shown, Deleted, NothingShown
    <3>5. Timely(r)'
      BY <1>1, <2>1, <3>1, <3>4 DEF Timely
    <3> QED
      BY <1>0, <1>1, <2>1, <3>2, <3>3, <3>5 DEF ReaderInv
<1>3. CASE ReadManifest(r)
  <2>1. CASE manifest[rgen[r]] = NoFile
    BY <1>0, <1>3, <2>1
       DEF ReadManifest, ReadersTypeOK, ReaderInv, Active, Seeking, Opening, Timely
  <2>2. CASE manifest[rgen[r]] # NoFile
    <3>0. PICK m : m = manifest[rgen[r]]
      OBVIOUS
    <3>1. /\ rpc'[r] = "segments" /\ rman'[r] = m /\ rtodo'[r] = m.names
          /\ rpc[r] = "manifest" /\ UNCHANGED <<rgen, rview, rexpect>>
      BY <1>0, <1>3, <2>2, <3>0 DEF ReadManifest, ReadersTypeOK
    <3>2. /\ Past(m)
          /\ \A k \in Names : IF k \in m.names THEN Left(r, m, k) ELSE rexpect[r][k] = {}
      BY <1>0, <2>2, <3>0, <3>1 DEF ReaderInv, Seeking
    <3>3. m.names \subseteq Names
      BY <3>2, ManifestFields DEF Past
    <3>4. Opening(r)'
      BY <1>1, <3>1, <3>2, <3>3 DEF Opening, Past, Left, Marked, Deleted
    <3>5. Timely(r)'
      BY <1>0, <1>1, <3>0, <3>1, <3>2, <3>3
         DEF ReaderInv, Timely, Active, InTime, Shown, Deleted, NothingShown
    <3> QED
      BY <1>0, <1>1, <3>1, <3>4, <3>5 DEF ReaderInv, Active, Seeking
  <2> QED
    BY <2>1, <2>2
<1>4. ASSUME NEW k \in Names, OpenSegment(r, k) PROVE ReaderInv(r)'
  <2>1. CASE cfs[k] = NoFile
    BY <1>0, <1>4, <2>1
       DEF OpenSegment, ReadersTypeOK, ReaderInv, Active, Seeking, Opening, Timely
  <2>2. CASE cfs[k] # NoFile
    <3>1. /\ rpc[r] = "segments" /\ rpc'[r] = "bitmap" /\ k \in rtodo[r]
          /\ ropen'[r] = k /\ rtodo'[r] = rtodo[r] \ {k}
          /\ rview'[r] = [rview[r] EXCEPT ![k] = cfs[k]]
          /\ UNCHANGED <<rgen, rman, rexpect>>
      BY <1>0, <1>4, <2>2 DEF OpenSegment, ReadersTypeOK
    <3>2. Opening(r)
      BY <1>0 DEF ReaderInv
    <3>3. rview[r] \in [Names -> SUBSET Docs]
      BY <1>0 DEF ReadersTypeOK
    <3>4. Opening(r)'
      BY SMTT(30), <1>1, <2>2, <3>1, <3>2, <3>3 DEF Opening, Past, Left, Marked, Deleted
    <3>5. Timely(r)'
      <4>1. Shown(manifest[rgen[r]])' = Shown(manifest[rgen[r]])
        BY <1>1, <3>1 DEF Shown, Deleted
      <4>2. /\ Timely(r) /\ Active(r) /\ (InTime(r)' <=> InTime(r))
            /\ rpc[r] # "bitmap" /\ rpc[r] # "manifest"
        BY <1>0, <1>1, <3>1 DEF ReaderInv, Active, InTime
      <4>3. InTime(r) => \A j \in Names : rview'[r][j] =
              IF j \in rtodo'[r] THEN {} ELSE IF j = k THEN cfs[j] ELSE rexpect[r][j]
        BY <3>1, <3>3, <4>2 DEF Timely
      <4> QED
        BY <1>1, <3>1, <4>1, <4>2, <4>3 DEF Timely
    <3> QED
      BY <1>0, <1>1, <3>1, <3>4, <3>5 DEF ReaderInv, Active, Seeking
  <2> QED
    BY <2>1, <2>2
<1>5. CASE ReadBitmap(r)
  <2>0. PICK j, m, g : j = ropen[r] /\ m = rman[r] /\ g = m.delGen[j]
    OBVIOUS
  <2>1. /\ rpc[r] = "bitmap" /\ rpc'[r] = "segments"
        /\ rview'[r] = [rview[r] EXCEPT ![j] = @ \ Deleted(j, g)]
        /\ UNCHANGED <<rgen, rman, rtodo, ropen, rexpect>>
    BY <1>0, <1>5, <2>0 DEF ReadBitmap, ReadersTypeOK
  <2>2. Opening(r) /\ Timely(r) /\ j \in Names /\ rview[r] \in [Names -> SUBSET Docs]
    BY <1>0, <2>0 DEF ReaderInv, ReadersTypeOK
  <2>3. rexpect[r][j] \cap Deleted(j, g) = {}
    BY <2>0, <2>1, <2>2 DEF Opening, Marked
  <2>4. Opening(r)'
    BY SMTT(30), <1>1, <2>1, <2>2, <2>3 DEF Opening, Past, Left, Marked, Deleted
  <2>5. Timely(r)'
    <3>1. InTime(r) /\ j \notin rtodo[r] => rexpect[r][j] = cfs[j] \ Deleted(j, g)
      BY <2>0, <2>1, <2>2 DEF Opening, Timely, Active, Shown
    <3>2. Active(r) /\ (InTime(r)' <=> InTime(r))
      BY <1>1, <2>1 DEF Active, InTime
    <3>3. Shown(manifest[rgen[r]])' = Shown(manifest[rgen[r]])
      BY <1>1, <2>1 DEF Shown, Deleted
    <3>4. InTime(r) => \A k \in Names : rview'[r][k] =
                         IF k \in rtodo[r] THEN {} ELSE rexpect[r][k]
      <4>1. InTime(r) => \A k \in Names : rview[r][k] =
                           IF k \in rtodo[r] THEN {}
                           ELSE IF k = j THEN cfs[k] ELSE rexpect[r][k]
        BY <2>0, <2>1, <2>2, <3>2 DEF Timely
      <4>2. \A k \in Names : rview'[r][k] =
              IF k = j THEN rview[r][k] \ Deleted(j, g) ELSE rview[r][k]
        BY <2>1, <2>2
      <4> QED
        BY <2>2, <3>1, <4>1, <4>2
    <3> QED
      BY <1>1, <2>1, <2>2, <3>2, <3>3, <3>4 DEF Timely
  <2> QED
    BY <1>0, <1>1, <2>1, <2>4, <2>5 DEF ReaderInv, Active, Seeking
<1>6. CASE Opened(r)
  <2>1. /\ rpc[r] = "segments" /\ rpc'[r] = "done" /\ rtodo[r] = {}
        /\ UNCHANGED <<rgen, rman, rtodo, ropen, rview, rexpect>>
    BY <1>0, <1>6 DEF Opened, ReadersTypeOK
  <2>2. Opening(r)'
    BY <1>0, <1>1, <2>1 DEF ReaderInv, Opening, Past, Left, Marked, Deleted
  <2>3. Shown(manifest[rgen[r]])' = Shown(manifest[rgen[r]])
    BY <1>1, <2>1 DEF Shown, Deleted
  <2>4. Timely(r)'
    BY <1>0, <1>1, <2>1, <2>3 DEF ReaderInv, Timely, Active, InTime
  <2> QED
    BY <1>0, <1>1, <2>1, <2>2, <2>4 DEF ReaderInv, Active, Seeking
<1> QED
  BY <1>2, <1>3, <1>4, <1>5, <1>6 DEF Reading

LEMMA InitReadersInv == ReadersInit => ReadersInv
<1> SUFFICES ASSUME ReadersInit PROVE ReadersInv
  OBVIOUS
<1>1. IndInv
  BY InitIndInv DEF ReadersInit
<1>2. ReadersTypeOK
  <2>1. NothingShown \in [Names -> SUBSET Docs] /\ 0 \in Gens /\ 0 \in Names
    BY DEF NothingShown, Gens, Names
  <2> QED
    BY <2>1, NoManifestTyped DEF ReadersInit, ReadersTypeOK
<1>3. \A r \in Readers : ReaderInv(r)
  BY DEF ReadersInit, ReaderInv, Active, Seeking, Opening, Timely
<1> QED
  BY <1>1, <1>2, <1>3 DEF ReadersInv

LEMMA NextReadersInv ==
  ReadersInv /\ [ReadersNext]_allVars => ReadersInv'
<1> SUFFICES ASSUME ReadersInv, [ReadersNext]_allVars PROVE ReadersInv'
  OBVIOUS
<1>1. CASE [Next]_vars /\ UNCHANGED readerVars
  <2>1. IndInv'
    BY <1>1, NextIndInv DEF ReadersInv
  <2>2. ReadersTypeOK'
    BY <1>1 DEF ReadersInv, ReadersTypeOK, readerVars
  <2> QED
    BY <1>1, <2>1, <2>2, WriterKeepsReaders DEF ReadersInv
<1>2. ASSUME NEW s \in Readers, Reading(s) PROVE ReadersInv'
  <2>1. UNCHANGED vars
    BY <1>2 DEF Reading, ReadGen, ReadManifest, ReadBitmap, Opened, OpenSegment
  <2>2. IndInv'
    BY <2>1, NextIndInv DEF ReadersInv
  <2> QED
    BY <1>2, <2>2, ReadKeepsType, ReadKeepsOthers, ReadKeepsOwn DEF ReadersInv
<1> QED
  BY <1>1, <1>2 DEF ReadersNext, allVars

LEMMA ReadersInvHolds == ReadersSpec => []ReadersInv
<1> QED
  BY InitReadersInv, NextReadersInv, PTL DEF ReadersSpec

-----------------------------------------------------------------------------
(* Results                                                                 *)

(* However many flips overtake it, a search that opens the index misses no *)
(* document of the generation it read from segments.gen.                   *)
THEOREM NoDocumentMissedHolds == ReadersSpec => []NoDocumentMissed
<1>1. ReadersInv => NoDocumentMissed
  BY DEF ReadersInv, ReaderInv, Opening, NoDocumentMissed
<1> QED
  BY <1>1, ReadersInvHolds, PTL

(* A search that at most one flip overtakes never fails to open the index. *)
THEOREM InTimeOpensHolds == ReadersSpec => InTimeOpens
<1>1. ASSUME ReadersInv, [ReadersNext]_allVars, NEW r \in Readers,
             rpc[r] # "failed", rpc'[r] = "failed", InTime(r)
      PROVE  FALSE
  <2>0. /\ TypeOK /\ DirInv /\ ReadersTypeOK /\ ReaderInv(r)
        /\ gen \in Nat /\ rgen[r] \in Nat
    BY <1>1, GraceTyped DEF ReadersInv, ReadersTypeOK, IndInv, Gens
  <2>1. ReadManifest(r) \/ \E k \in Names : OpenSegment(r, k)
    <3>1. PICK s \in Readers : Reading(s)
      BY <1>1 DEF ReadersNext, readerVars, allVars
    <3>2. s = r
      <4> SUFFICES ASSUME s # r
                   PROVE  rpc'[r] = rpc[r]
        BY <1>1
      <4>1. \A v : rpc' = [rpc EXCEPT ![s] = v] => rpc'[r] = rpc[r]
        OBVIOUS
      <4>2. \A k \in Names : OpenSegment(s, k) => \E v : rpc' = [rpc EXCEPT ![s] = v]
        BY DEF OpenSegment
      <4>3. ReadGen(s) \/ ReadManifest(s) \/ ReadBitmap(s) \/ Opened(s)
              => \E v : rpc' = [rpc EXCEPT ![s] = v]
        BY DEF ReadGen, ReadManifest, ReadBitmap, Opened
      <4> QED
        BY <3>1, <4>1, <4>2, <4>3 DEF Reading
    <3>3. ~ReadGen(r) /\ ~ReadBitmap(r) /\ ~Opened(r)
      BY <1>1, <2>0 DEF ReadGen, ReadBitmap, Opened, ReadersTypeOK
    <3> QED
      BY <3>1, <3>2, <3>3 DEF Reading
  <2>2. Active(r) /\ Sound(rgen[r])
    <3>1. Active(r)
      BY <2>1 DEF ReadManifest, OpenSegment, Active
    <3>2. rgen[r] = gen \/ (rgen[r] = gen - 1 /\ gen - 1 >= 1)
      BY <1>1, <2>0, <3>1 DEF ReaderInv, InTime
    <3> QED
      BY <2>0, <3>1, <3>2 DEF DirInv
  <2>3. rpc[r] = "segments" => rtodo[r] \subseteq manifest[rgen[r]].names
    BY <1>1, <2>0, <2>2 DEF ReaderInv, Opening, Timely
  <2>4. CASE ReadManifest(r)
    BY <1>1, <2>0, <2>2, <2>4 DEF ReadManifest, Sound, ReadersTypeOK
  <2>5. ASSUME NEW k \in Names, OpenSegment(r, k) PROVE FALSE
    BY <1>1, <2>0, <2>2, <2>3, <2>5 DEF OpenSegment, Sound, ReadersTypeOK
  <2> QED
    BY <2>1, <2>4, <2>5
<1>2. ReadersInv /\ [ReadersNext]_allVars =>
        [\A r \in Readers :
           rpc[r] # "failed" /\ rpc'[r] = "failed" => ~InTime(r)]_allVars
  BY <1>1
<1> QED
  BY <1>2, ReadersInvHolds, PTL DEF ReadersSpec, InTimeOpens

(* ... and finds exactly what that generation shows, segment by segment.   *)
THEOREM InTimeExactHolds == ReadersSpec => InTimeExact
<1>1. ASSUME ReadersInv, [ReadersNext]_allVars, NEW r \in Readers,
             rpc[r] # "done", rpc'[r] = "done", InTime(r)
      PROVE  rview[r] = rexpect[r]
  <2>0. ReadersTypeOK /\ ReaderInv(r)
    BY <1>1 DEF ReadersInv
  <2>1. Opened(r)
    BY <1>1, <2>0
       DEF ReadersNext, Reading, ReadGen, ReadManifest, ReadBitmap, Opened,
           OpenSegment, ReadersTypeOK, readerVars, allVars
  <2>2. \A k \in Names : rview[r][k] = rexpect[r][k]
    BY <1>1, <2>0, <2>1 DEF Opened, ReaderInv, Timely, Active
  <2> QED
    BY <2>0, <2>2 DEF ReadersTypeOK
<1>2. ReadersInv /\ [ReadersNext]_allVars =>
        [\A r \in Readers :
           rpc[r] # "done" /\ rpc'[r] = "done" /\ InTime(r)
             => rview[r] = rexpect[r]]_allVars
  BY <1>1
<1> QED
  BY <1>2, ReadersInvHolds, PTL DEF ReadersSpec, InTimeExact

-----------------------------------------------------------------------------
(* A writer nothing goes wrong with leaves no segment behind, and keeps    *)
(* the number of segments at the ceiling.                                  *)
USE WriterAssumption

SegmentFile(k) == [seg |-> k, del |-> NoDel]

(* What a segment on disk is there for: a generation in grace, the session,*)
(* or to be removed.                                                       *)
Accounted(k) ==
  \/ k \in manifest[gen].names
  \/ gen - 1 >= 1 /\ k \in manifest[gen - 1].names
  \/ k \in flushed
  \/ pc = "drain" /\ k \in todo
  \/ op = "merge" /\ pc \in {"manifest", "flip"} /\ k = base.counter
  \/ pc = "reclaim" /\ SegmentFile(k) \in todo
  \/ pc \notin {"reclaim", "relist", "listing"} /\ SegmentFile(k) \in sidecar

NoStray == \A k \in Names : cfs[k] # NoFile => Accounted(k)

(* The sidecar lists what the last flip made obsolete, from the end of its *)
(* clean-up to the next flip.                                              *)
NothingObsolete ==
  gen - 1 >= 1 => manifest[gen - 1].names \subseteq manifest[gen].names

ListInv ==
  /\ pc \notin CleaningUp =>
       \/ sidecar = {} /\ NothingObsolete
       \/ gen - 1 >= 1 /\ sidecar = FilesOf(manifest[gen - 1])
  /\ pc \in CleaningUp =>
       IF op = "merge" THEN gen - 1 >= 1 /\ base = manifest[gen - 1]
       ELSE NothingObsolete
  /\ pc \in CleaningUp \ {"prune"} => carry = {}
  /\ pc = "relist" \/ pc = "listing" => todo = {}
  /\ op = "merge" => flushed = {}

TidyInv == Faults = {} => NoStray /\ ListInv

-----------------------------------------------------------------------------
LEMMA NoFailure == ASSUME Faults = {}, [Next]_vars
                   PROVE  Call \/ Continue \/ UNCHANGED vars
BY DEF Next, Fail

LEMMA SegmentListed ==
  ASSUME NEW m \in Manifests, NEW k \in m.names
  PROVE  SegmentFile(k) \in FilesOf(m)
BY ManifestFields DEF SegmentFile, FilesOf, DataFiles

LEMMA NextListInv ==
  ASSUME IndInv, ListInv, Faults = {}, [Next]_vars PROVE ListInv'
<1>0. TypeOK /\ DirInv /\ SessionInv /\ CleanupInv
  BY DEF IndInv
<1>1. CASE Flip
  <2>1. gen \in Nat /\ gen >= 1 /\ base = manifest[gen] /\ baseGen = gen
    BY <1>0, <1>1, GraceTyped
       DEF Flip, DirInv, SessionInv, BeforeFlip, Building
  <2>2. /\ gen' = gen + 1 /\ gen' - 1 = gen /\ pc = "flip" /\ pc' = "prune"
        /\ UNCHANGED <<manifest, op, base>> /\ flushed' = {}
    BY <1>1, <2>1 DEF Flip
  <2>3. manifest'[gen'] = NextManifest
    BY <1>1, <2>1, <2>2 DEF IndInv, BuildInv
  <2>4. op # "merge" => base.names \subseteq manifest'[gen'].names
    BY <2>3 DEF NextManifest
  <2> QED
    BY <2>1, <2>2, <2>4 DEF ListInv, CleaningUp, NothingObsolete
<1>2. CASE ~Flip
  <2>0. KeptGrace /\ gen \in Nat
    BY <1>0, <1>2, StepKeepsGrace, GraceTyped
  <2>1. /\ gen' = gen /\ manifest'[gen] = manifest[gen]
        /\ gen - 1 >= 1 => manifest'[gen - 1] = manifest[gen - 1]
    BY <2>0 DEF KeptGrace, Kept
  <2>2. /\ NothingObsolete' <=> NothingObsolete
        /\ gen - 1 >= 1 => FilesOf(manifest[gen - 1])' = FilesOf(manifest[gen - 1])
    BY <2>1 DEF NothingObsolete, FilesOf
  <2> USE DEF ListInv, CleaningUp
  <2>3. CASE Call
    <3>1. /\ pc' \notin CleaningUp /\ pc \notin CleaningUp
          /\ sidecar' = sidecar /\ op' # "merge"
      BY <1>0, <2>3
         DEF Call, Open, AddDocument, DeleteDocument, StartCommit, Abandon,
             Drop, Forget, dirVars, SessionInv
    <3> QED
      BY <2>1, <2>2, <3>1
  <2>4. CASE \/ FlushBegin \/ FlushEnd \/ Compact \/ Drained
             \/ \E k \in Names : RemoveInput(k) \/ WriteDel(k)
             \/ TakeNothing \/ Take \/ DelsWritten
             \/ ManifestBegin \/ ManifestEnd \/ Check \/ Merge
    <3>1. /\ pc' \notin CleaningUp /\ pc \notin CleaningUp
          /\ sidecar' = sidecar
      BY <2>4
         DEF FlushBegin, FlushEnd, AfterFlush, Compact, Drained, RemoveInput,
             WriteDel, TakeNothing, Take, DelsWritten, ManifestBegin,
             ManifestEnd, Check, Merge, Forget, dirVars
    <3>2. op' = "merge" => flushed' = {}
      BY <1>0, <2>4
         DEF FlushBegin, FlushEnd, AfterFlushOp, Compact, Drained, RemoveInput,
             WriteDel, TakeNothing, Take, DelsWritten, ManifestBegin,
             ManifestEnd, Check, Merge, Forget, SessionInv, Flushing
    <3> QED
      BY <2>1, <2>2, <3>1, <3>2
  <2>5. CASE \/ Pruned \/ Reclaimed \/ \E n \in Gens : Prune(n)
             \/ \E f \in DataFiles : Reclaim(f) \/ ReclaimFails(f)
    BY <2>1, <2>2, <2>5
       DEF Pruned, Reclaimed, Prune, session, Reclaim, ReclaimFails
  <2>6. CASE Relist \/ ListingEnd
    <3>1. /\ carry = {} /\ pc \in CleaningUp /\ todo = {} /\ Listed = Superseded
      BY <2>6 DEF Relist, ListingEnd, Listed
    <3>2. CASE pc' = "listing"
      BY <2>1, <2>2, <2>6, <3>1, <3>2 DEF Relist, ListingEnd, AfterPublish, Forget
    <3>3. CASE pc' # "listing"
      <4>1. pc' \in {"check", "closed"} /\ op' # "merge" /\ sidecar' = Superseded
        BY <2>6, <3>1, <3>3
           DEF Relist, ListingEnd, AfterPublish, Forget
      <4>2. CASE op = "merge"
        BY <2>1, <2>2, <3>1, <4>1, <4>2 DEF Superseded
      <4>3. CASE op # "merge"
        BY <2>1, <2>2, <3>1, <4>1, <4>3 DEF Superseded
      <4> QED
        BY <4>2, <4>3
    <3> QED
      BY <3>2, <3>3
  <2>7. CASE UNCHANGED vars
    BY <2>1, <2>2, <2>7 DEF vars, dirVars, session
  <2> QED
    BY <1>2, <2>3, <2>4, <2>5, <2>6, <2>7, NoFailure DEF Continue
<1> QED
  BY <1>1, <1>2

LEMMA NextNoStray ==
  ASSUME IndInv, ListInv, NoStray, Faults = {}, [Next]_vars PROVE NoStray'
<1>0. TypeOK /\ DirInv /\ SessionInv /\ CleanupInv
  BY DEF IndInv
<1>1. CASE Flip
  <2>1. gen \in Nat /\ gen >= 1 /\ base = manifest[gen] /\ baseGen = gen
    BY <1>0, <1>1, GraceTyped
       DEF Flip, DirInv, SessionInv, BeforeFlip, Building
  <2>2. /\ gen' = gen + 1 /\ gen' - 1 = gen /\ pc = "flip" /\ pc' = "prune"
        /\ UNCHANGED <<manifest, cfs, sidecar, op, base>>
    BY <1>1, <2>1 DEF Flip
  <2>3. manifest'[gen'] = NextManifest
    BY <1>1, <2>1, <2>2 DEF IndInv, BuildInv
  <2>4. ASSUME NEW k \in Names, Accounted(k) PROVE Accounted(k)'
    <3>1. CASE k \in manifest[gen].names
      BY <2>1, <2>2, <3>1 DEF Accounted
    <3>2. CASE gen - 1 >= 1 /\ k \in manifest[gen - 1].names
      <4>1. k \in manifest[gen].names \/ SegmentFile(k) \in sidecar
        BY <1>0, <2>2, <3>2, SegmentListed, GraceTyped
           DEF ListInv, CleaningUp, NothingObsolete
      <4> QED
        BY <2>1, <2>2, <4>1 DEF Accounted, SegmentFile
    <3>3. CASE k \in flushed
      BY <2>2, <2>3, <3>3 DEF Accounted, NextManifest, ListInv
    <3>4. CASE op = "merge" /\ k = base.counter
      BY <2>2, <2>3, <3>4 DEF Accounted, NextManifest
    <3>5. CASE SegmentFile(k) \in sidecar
      BY <2>2, <3>5 DEF Accounted, SegmentFile
    <3> QED
      BY <2>2, <2>4, <3>1, <3>2, <3>3, <3>4, <3>5 DEF Accounted
  <2> QED
    BY <2>2, <2>4 DEF NoStray
<1>2. CASE ~Flip
  <2>0. KeptGrace /\ gen \in Nat
    BY <1>0, <1>2, StepKeepsGrace, GraceTyped
  <2>1. /\ gen' = gen /\ manifest'[gen] = manifest[gen]
        /\ gen - 1 >= 1 => manifest'[gen - 1] = manifest[gen - 1]
    BY <2>0 DEF KeptGrace, Kept
  <2> USE DEF NoStray, Accounted, SegmentFile
  <2>2. CASE \/ Open \/ \E d \in Docs : AddDocument(d)
             \/ \E k \in Names, d \in Docs : DeleteDocument(k, d)
             \/ \E call \in {"commit", "optimize"} : StartCommit(call)
             \/ Take \/ DelsWritten \/ \E k \in Names : WriteDel(k)
             \/ ManifestBegin \/ Drained
    <3>1. /\ UNCHANGED <<cfs, sidecar, flushed>>
          /\ pc' \notin {"reclaim", "relist", "listing"}
          /\ pc \notin {"reclaim", "relist", "listing"}
          /\ pc = "drain" => todo = {}
          /\ pc \notin {"manifest", "flip"} \/ op # "merge"
      BY <2>2 DEF Open, AddDocument, DeleteDocument, StartCommit, Take,
                  DelsWritten, WriteDel, ManifestBegin, Drained, AfterFlush,
                  dirVars
    <3> QED
      BY <2>1, <3>1
  <2>3. CASE Abandon
    BY <1>0, <2>1, <2>3 DEF Abandon, Drop, Forget
  <2>4. CASE FlushBegin \/ FlushEnd
    <3>1. /\ UNCHANGED sidecar /\ flushed \subseteq flushed'
          /\ pc \in {"flush", "flushing"}
          /\ pc' \notin {"reclaim", "relist", "listing"}
      BY <2>4 DEF FlushBegin, FlushEnd, AfterFlush
    <3>2. \A k \in Names : cfs'[k] # NoFile => cfs[k] # NoFile \/ k \in flushed'
      BY <1>0, <2>4 DEF FlushBegin, FlushEnd, TypeOK, DirTypeOK
    <3> QED
      BY <2>1, <3>1, <3>2
  <2>5. CASE Compact
    BY <1>0, <2>1, <2>5 DEF Compact, TypeOK, DirTypeOK
  <2>6. ASSUME NEW k \in Names, RemoveInput(k) PROVE NoStray'
    <3>1. /\ UNCHANGED <<pc, sidecar, flushed>> /\ todo' = todo \ {k}
          /\ cfs' = [cfs EXCEPT ![k] = NoFile] /\ pc = "drain"
      BY <2>6 DEF RemoveInput
    <3> QED
      BY <1>0, <2>1, <3>1 DEF TypeOK, DirTypeOK
  <2>7. CASE TakeNothing
    BY <2>1, <2>7 DEF TakeNothing, Forget, dirVars
  <2>8. CASE ManifestEnd
    BY <2>1, <2>8 DEF ManifestEnd
  <2>9. CASE Pruned
    BY <2>1, <2>9 DEF Pruned, dirVars
  <2>10. CASE \E n \in Gens : Prune(n)
    BY <2>1, <2>10 DEF Prune, session
  <2>11. ASSUME NEW f \in DataFiles, Reclaim(f) PROVE NoStray'
    <3>1. /\ UNCHANGED <<pc, op, sidecar, flushed>> /\ todo' = todo \ {f}
          /\ pc = "reclaim"
      BY <2>11 DEF Reclaim
    <3>2. \A k \in Names : cfs'[k] # NoFile => cfs[k] # NoFile /\ f # SegmentFile(k)
      BY <1>0, <2>11 DEF Reclaim, TypeOK, DirTypeOK
    <3> QED
      BY <2>1, <3>1, <3>2
  <2>12. CASE Reclaimed
    BY <2>1, <2>12 DEF Reclaimed, dirVars
  <2>13. CASE Relist \/ ListingEnd
    <3>1. flushed = {} /\ pc \in {"relist", "listing"} /\ cfs' = cfs
      BY <1>0, <2>13 DEF Relist, ListingEnd, CleanupInv, CleaningUp
    <3> QED
      BY <2>1, <3>1
  <2>14. CASE Check
    BY <1>0, <2>1, <2>14 DEF Check, Forget, dirVars, SessionInv
  <2>15. CASE Merge
    <3>1. /\ UNCHANGED <<sidecar, flushed, base, op>> /\ op = "merge"
          /\ pc = "merge" /\ pc' = "manifest"
          /\ cfs' = [cfs EXCEPT ![base.counter] = Visible(base)]
      BY <1>0, <2>15 DEF Merge, SessionInv
    <3>2. \A k \in Names : cfs'[k] # NoFile => cfs[k] # NoFile \/ k = base.counter
      BY <1>0, <3>1 DEF TypeOK, DirTypeOK
    <3> QED
      BY <2>1, <3>1, <3>2
  <2>16. CASE UNCHANGED vars
    BY <2>1, <2>16 DEF vars, dirVars, session
  <2>17. ~(\E f \in DataFiles : ReclaimFails(f))
    BY DEF ReclaimFails
  <2> QED
    BY <1>2, <2>2, <2>3, <2>4, <2>5, <2>6, <2>7, <2>8, <2>9, <2>10, <2>11,
       <2>12, <2>13, <2>14, <2>15, <2>16, <2>17, NoFailure DEF Call, Continue
<1> QED
  BY <1>1, <1>2

LEMMA InitTidyInv == Init => NoStray /\ ListInv
<1> SUFFICES ASSUME Init PROVE NoStray /\ ListInv
  OBVIOUS
<1>1. /\ gen = 1 /\ manifest[1].names = {0} /\ sidecar = {}
      /\ \A k \in Names : cfs[k] # NoFile => k = 0
      /\ pc = "closed" /\ op = "none"
  BY DEF Init, DirInit, WriterInit, Gens, Names
<1> QED
  BY <1>1 DEF NoStray, Accounted, ListInv, NothingObsolete, CleaningUp

(* Between sessions every segment on disk belongs to a generation in grace *)
(* or is listed for removal, and what is listed is what the last flip made *)
(* obsolete.                                                               *)
THEOREM CleanUpExactHolds == Spec => []CleanUpExact
<1>1. Init => IndInv /\ TidyInv
  BY InitIndInv, InitTidyInv DEF TidyInv
<1>2. IndInv /\ TidyInv /\ [Next]_vars => IndInv' /\ TidyInv'
  BY NextIndInv, NextListInv, NextNoStray DEF TidyInv
<1>3. ASSUME IndInv, TidyInv PROVE CleanUpExact
  <2>0. TypeOK /\ DirInv /\ SessionInv /\ gen \in Nat /\ gen \in Gens
    BY <1>3, GraceTyped DEF IndInv
  <2>1. NoOrphanSegment
    <3> SUFFICES ASSUME Faults = {}, pc = "closed", NEW k \in Names,
                        cfs[k] # NoFile
                 PROVE  Referenced(k) \/ SegmentFile(k) \in sidecar
      BY DEF NoOrphanSegment, SegmentFile
    <3>1. /\ flushed = {} /\ Accounted(k)
          /\ op # "merge"
      BY <1>3, <2>0 DEF TidyInv, NoStray, SessionInv, CleaningUp
    <3>2. InGrace(gen) /\ (gen - 1 >= 1 => InGrace(gen - 1))
      BY <2>0 DEF InGrace, Gens, DirInv
    <3> QED
      BY <3>1, <3>2 DEF Accounted, Referenced, InGrace
  <2>2. ListedOnce
    BY <1>3, <2>0 DEF ListedOnce, TidyInv, ListInv, CleaningUp
  <2> QED
    BY <2>1, <2>2 DEF CleanUpExact
<1> QED
  BY <1>1, <1>2, <1>3, PTL DEF Spec

-----------------------------------------------------------------------------
(* The ceiling.                                                            *)

(* A compaction leaves one segment.                                        *)
CeilingInv ==
  Faults = {} => Ceiling /\ (pc = "drain" => Cardinality(flushed) <= 1)

LEMMA FiniteNames ==
  ASSUME NEW segs \in SUBSET Names PROVE Cardinality(segs) \in Nat
<1>1. IsFiniteSet(Names)
  BY FS_Interval DEF Names
<1>2. IsFiniteSet(segs)
  BY <1>1, FS_Subset
<1> QED
  BY <1>2, FS_CardinalityType

LEMMA NextCeilingInv ==
  IndInv /\ CeilingInv /\ [Next]_vars => CeilingInv'
<1> SUFFICES ASSUME IndInv, CeilingInv, [Next]_vars, Faults = {}
             PROVE  Ceiling' /\ (pc' = "drain" => Cardinality(flushed') <= 1)
  BY DEF CeilingInv
<1>0. SessionInv /\ Cardinality({}) = 0
  BY FS_EmptySet DEF IndInv
<1>1. CASE Open
  <2>1. flushed' = {} /\ pc' = "idle"
    BY <1>0, <1>1 DEF Open, SessionInv
  <2>2. Cardinality(flushed') = 0
    BY <1>0, <2>1, Zenon
  <2> QED
    BY <2>1, <2>2 DEF Ceiling
<1>2. CASE FlushEnd
  <2>1. pc' \in {"idle", "take", "compact"} /\ base' = base
    BY <1>2 DEF FlushEnd, AfterFlush
  <2>2. pc' = "idle" => ~CrossesCeiling(flushed')
    BY <1>2 DEF FlushEnd
  <2>3. /\ Cardinality(flushed') \in Nat
        /\ Cardinality(base.names) \in Nat
    <3>1. flushed' \in SUBSET Names /\ base.names \in SUBSET Names
      BY NextTyped DEF IndInv, TypeOK, Manifests
    <3> QED
      BY <3>1, FiniteNames
  <2> QED
    BY <2>1, <2>2, <2>3 DEF CrossesCeiling, Ceiling
<1>3. CASE Compact
  <2>1. flushed' = {nextName} /\ pc' = "drain"
    BY <1>3 DEF Compact
  <2>2. Cardinality(flushed') = 1
    BY <2>1, FS_Singleton, Zenon
  <2> QED
    BY <2>1, <2>2 DEF Ceiling
<1>4. CASE Drained
  BY <1>4 DEF Drained, AfterFlush, CeilingInv, Ceiling
<1>5. CASE Abandon \/ Relist \/ ListingEnd \/ Check \/ TakeNothing
  BY <1>5 DEF Abandon, Drop, Forget, Relist, ListingEnd, AfterPublish, Check,
              TakeNothing, Ceiling
<1>6. CASE \/ \E d \in Docs : AddDocument(d)
           \/ \E k \in Names, d \in Docs : DeleteDocument(k, d)
  BY <1>6 DEF AddDocument, DeleteDocument, CeilingInv, Ceiling
<1>7. CASE \E k \in Names : RemoveInput(k)
  BY <1>7 DEF RemoveInput, CeilingInv, Ceiling
<1>8. CASE \/ \E call \in {"commit", "optimize"} : StartCommit(call)
           \/ FlushBegin \/ Take \/ DelsWritten
           \/ \E k \in Names : WriteDel(k)
           \/ ManifestBegin \/ ManifestEnd \/ Flip \/ Pruned
           \/ \E n \in Gens : Prune(n)
           \/ \E f \in DataFiles : Reclaim(f) \/ ReclaimFails(f)
           \/ Reclaimed \/ Merge
  BY <1>8 DEF StartCommit, FlushBegin, Take, DelsWritten, WriteDel,
              ManifestBegin, ManifestEnd, Flip, Pruned, Prune, session,
              Reclaim, ReclaimFails, Reclaimed, Merge, Ceiling
<1>9. CASE UNCHANGED vars
  BY <1>9 DEF vars, session, CeilingInv, Ceiling
<1> QED
  BY <1>1, <1>2, <1>3, <1>4, <1>5, <1>6, <1>7, <1>8, <1>9, NoFailure
     DEF Call, Continue

(* Between two calls a writer has at most max_segments segments, or one    *)
(* more than its session found.                                            *)
THEOREM CeilingHolds == Spec => []Ceiling
<1>1. Init => IndInv /\ CeilingInv
  BY InitIndInv DEF Init, WriterInit, CeilingInv, Ceiling
<1>2. CeilingInv => Ceiling
  BY DEF CeilingInv, Ceiling
<1> QED
  BY <1>1, <1>2, NextIndInv, NextCeilingInv, PTL DEF Spec
=============================================================================
