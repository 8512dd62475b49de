----------------------------- MODULE WriterRace -----------------------------
(***************************************************************************)
(* Several processes that write one index: WriteLock, the opening and the  *)
(* closing of an IndexWriter, and append_documents, which takes no lock.   *)
(* IndexWriter has one session at a time and opens and drops it in one     *)
(* step; here those steps are taken apart, and what a session does in      *)
(* between is one segment and one commit.  Deletions and optimize are left *)
(* out.                                                                    *)
(*                                                                         *)
(* Each process writes once, one segment, whose content is the process.    *)
(***************************************************************************)
EXTENDS Integers, FiniteSets

CONSTANTS
  Writers,    \* processes with an IndexWriter
  Appenders,  \* processes that call append_documents
  Handoff,    \* do callers wait for an append to end, and it for them?
  MaxGen,     \* bound on generations
  NoOne,      \* the holder of a lock nobody holds
  NoFile      \* the content of a file that does not exist

Procs == Writers \cup Appenders
Gens  == 0 .. MaxGen
Names == 0 .. MaxGen

ASSUME RaceAssumption ==
  /\ Writers \cap Appenders = {}
  /\ Handoff \in BOOLEAN
  /\ MaxGen \in Nat \ {0}
  /\ NoOne \notin Procs /\ NoFile \notin Procs

(* segments_<n>: the segments listed, and name_counter.                    *)
Manifests == [names : SUBSET Names, counter : Nat]

ASSUME RaceNoFile == NoFile \notin Manifests

VARIABLES
  lock,      \* who has write.lock.file locked
  gen,       \* the number in segments.gen
  manifest,  \* manifest[n] : segments_<n>
  cfs,       \* cfs[k] : the content of _<k>.cfs
  pc,        \* where each process is
  base,      \* base[p] : the manifest read_generation gave p
  baseGen,   \* its number
  infos,     \* infos[p] : the segments read_segment_infos gave p
  committed  \* the processes whose commit or append has returned Ok

disk == <<gen, manifest, cfs>>
vars == <<lock, disk, pc, base, baseGen, infos, committed>>

Steps == {"start", "locked", "read", "open", "flushed", "written", "flipped",
          "pruned", "dropping", "dropped", "done"}

TypeOK ==
  /\ lock \in Procs \cup {NoOne}
  /\ gen \in Gens
  /\ manifest \in [Gens -> {NoFile} \cup Manifests]
  /\ cfs \in [Names -> {NoFile} \cup Procs]
  /\ pc \in [Procs -> Steps]
  /\ base \in [Procs -> Manifests]
  /\ baseGen \in [Procs -> Gens]
  /\ infos \in [Procs -> SUBSET Names]
  /\ committed \in SUBSET Procs

Inside(p)  == pc[p] \notin {"start", "done"}
HasOpen(p) == pc[p] \in {"open", "flushed", "written"}
Goto(p, step) == pc' = [pc EXCEPT ![p] = step]

Unlocked(p) == lock' = IF lock = p THEN NoOne ELSE lock

-----------------------------------------------------------------------------
EmptyManifest == [names |-> {}, counter |-> 0]

Init ==
  /\ lock = NoOne
  /\ gen = 1
  /\ manifest = [n \in Gens |-> IF n = 1 THEN EmptyManifest ELSE NoFile]
  /\ cfs = [k \in Names |-> NoFile]
  /\ pc = [p \in Procs |-> "start"]
  /\ base = [p \in Procs |-> EmptyManifest]
  /\ baseGen = [p \in Procs |-> 0]
  /\ infos = [p \in Procs |-> {}]
  /\ committed = {}

(* "Sequential handoff": the host starts no writer while an append runs,   *)
(* and no append while anyone writes.                                      *)
MayStart(p) ==
  Handoff => \A q \in Procs : Inside(q) => {p, q} \subseteq Writers

(* Mutation: the WouldBlock of try_lock is not an error.                   *)
AcquireAnyway(p) ==
  /\ p \in Writers /\ pc[p] = "start" /\ MayStart(p)
  /\ lock' = p
  /\ Goto(p, "locked")
  /\ UNCHANGED <<disk, base, baseGen, infos, committed>>

(* When another process has the lock, open answers WouldBlock and nothing  *)
(* changes: the caller may ask again.                                      *)
Acquire(p) ==
  /\ p \in Writers /\ pc[p] = "start" /\ MayStart(p)
  /\ lock = NoOne
  /\ lock' = p
  /\ Goto(p, "locked")
  /\ UNCHANGED <<disk, base, baseGen, infos, committed>>

BeginAppend(p) ==
  /\ p \in Appenders /\ pc[p] = "start" /\ MayStart(p)
  /\ Goto(p, "locked")
  /\ UNCHANGED <<lock, disk, base, baseGen, infos, committed>>

ReadGeneration(p) ==
  /\ pc[p] = "locked" /\ manifest[gen] # NoFile
  /\ base' = [base EXCEPT ![p] = manifest[gen]]
  /\ baseGen' = [baseGen EXCEPT ![p] = gen]
  /\ Goto(p, IF p \in Writers THEN "read" ELSE "open")
  /\ UNCHANGED <<lock, disk, infos, committed>>

(* Mutation: the lock is bound to a pattern that drops it as open returns. *)
ReadInfosUnlocks(p) ==
  /\ pc[p] = "read" /\ manifest[gen] # NoFile
  /\ \A k \in manifest[gen].names : cfs[k] # NoFile
  /\ infos' = [infos EXCEPT ![p] = manifest[gen].names]
  /\ Goto(p, "open")
  /\ Unlocked(p)
  /\ UNCHANGED <<disk, base, baseGen, committed>>

(* open reads the directory again: ZslIndex::open, read_segment_infos.     *)
ReadInfos(p) ==
  /\ pc[p] = "read" /\ manifest[gen] # NoFile
  /\ \A k \in manifest[gen].names : cfs[k] # NoFile
  /\ infos' = [infos EXCEPT ![p] = manifest[gen].names]
  /\ Goto(p, "open")
  /\ UNCHANGED <<lock, disk, base, baseGen, committed>>

Flush(p) ==
  /\ pc[p] = "open" /\ base[p].counter \in Names
  /\ cfs' = [cfs EXCEPT ![base[p].counter] = p]
  /\ Goto(p, "flushed")
  /\ UNCHANGED <<lock, gen, manifest, base, baseGen, infos, committed>>

WriteManifest(p) ==
  /\ pc[p] = "flushed" /\ baseGen[p] < MaxGen /\ base[p].counter \in Names
  /\ manifest' = [manifest EXCEPT ![baseGen[p] + 1] =
       [names   |-> base[p].names \cup {base[p].counter},
        counter |-> base[p].counter + 1]]
  /\ Goto(p, "written")
  /\ UNCHANGED <<lock, gen, cfs, base, baseGen, infos, committed>>

Flip(p) ==
  /\ pc[p] = "written" /\ baseGen[p] < MaxGen
  /\ gen' = baseGen[p] + 1
  /\ Goto(p, "flipped")
  /\ UNCHANGED <<lock, manifest, cfs, base, baseGen, infos, committed>>

(* prune_old_generations keeps the new manifest and the one before it.     *)
Prune(p) ==
  /\ pc[p] = "flipped"
  /\ manifest' = [n \in Gens |-> IF n < baseGen[p] THEN NoFile
                                                   ELSE manifest[n]]
  /\ Goto(p, "pruned")
  /\ UNCHANGED <<lock, gen, cfs, base, baseGen, infos, committed>>

(* The call returns Ok; the writer it consumed is gone, and its lock.      *)
Return(p) ==
  /\ pc[p] = "pruned"
  /\ committed' = committed \cup {p}
  /\ Unlocked(p)
  /\ Goto(p, "done")
  /\ UNCHANGED <<disk, base, baseGen, infos>>

(* Mutation: the lock goes before the flushed segments are removed.        *)
DropUnlocksFirst(p) ==
  /\ p \in Writers /\ pc[p] = "flushed"
  /\ Unlocked(p)
  /\ Goto(p, "dropping")
  /\ UNCHANGED <<disk, base, baseGen, infos, committed>>

(* The caller drops the writer without committing.                         *)
Drop(p) ==
  /\ p \in Writers /\ pc[p] = "flushed"
  /\ Goto(p, "dropping")
  /\ UNCHANGED <<lock, disk, base, baseGen, infos, committed>>

RemoveFlushed(p) ==
  /\ pc[p] = "dropping"
  /\ cfs' = [cfs EXCEPT ![base[p].counter] = NoFile]
  /\ Goto(p, "dropped")
  /\ UNCHANGED <<lock, gen, manifest, base, baseGen, infos, committed>>

(* Its fields are dropped after it, _lock among them.                      *)
Unlock(p) ==
  /\ pc[p] = "dropped"
  /\ Unlocked(p)
  /\ Goto(p, "done")
  /\ UNCHANGED <<disk, base, baseGen, infos, committed>>

(* The process dies, and the kernel unlocks; or a step fails, open, commit *)
(* or append_documents returns Err, and the lock goes with the writer.     *)
Stop(p) ==
  /\ Inside(p)
  /\ Unlocked(p)
  /\ Goto(p, "done")
  /\ UNCHANGED <<disk, base, baseGen, infos, committed>>

Next ==
  \E p \in Procs :
    \/ Acquire(p) \/ BeginAppend(p) \/ ReadGeneration(p) \/ ReadInfos(p)
    \/ Flush(p) \/ WriteManifest(p) \/ Flip(p) \/ Prune(p) \/ Return(p)
    \/ Drop(p) \/ RemoveFlushed(p) \/ Unlock(p) \/ Stop(p)

Spec == Init /\ [][Next]_vars

-----------------------------------------------------------------------------
(* Everything a commit or an append has returned Ok for is in the index:   *)
(* no other process's manifest, written from an older snapshot, leaves it  *)
(* out, no other segment is written over its file and no drop removes it.  *)
NothingLost ==
  /\ manifest[gen] # NoFile
  /\ \A p \in committed : \E k \in manifest[gen].names : cfs[k] = p

(* While a writer is open the index stays as open read it, both times: the *)
(* ids the extension's cached reader finds are those delete_document means.*)
SnapshotStays ==
  \A p \in Writers : HasOpen(p) =>
    /\ baseGen[p] = gen
    /\ manifest[gen] = base[p]
    /\ infos[p] = base[p].names

(* A segment that was flushed and not yet published is still there, as it  *)
(* was written, when its manifest is: names are given out by counter, so   *)
(* two sessions from one generation use the same.                          *)
FlushedStays ==
  \A p \in Procs : pc[p] \in {"flushed", "written"} =>
    cfs[base[p].counter] = p

-----------------------------------------------------------------------------
(* At most one process is inside: the lock "excludes another native        *)
(* writer" (lock.rs:5), and the host hands off between the others.         *)
OneWriter == \A p, q \in Procs : Inside(p) /\ Inside(q) => p = q

(* The inductive invariant behind the first three, when appends are handed *)
(* off or there are none: at most one process is inside, so what one knows *)
(* of the disk no other changes.                                           *)
New(p) == [names   |-> base[p].names \cup {base[p].counter},
           counter |-> base[p].counter + 1]

LockInv ==
  /\ \A p \in Writers : Inside(p) => lock = p
  /\ lock # NoOne => lock \in Writers /\ Inside(lock)

DiskInv ==
  /\ manifest[gen] # NoFile
  /\ \A k \in manifest[gen].names : k < manifest[gen].counter /\ cfs[k] # NoFile

Knows(p) ==
  /\ pc[p] \in {"read", "open", "flushed", "written", "dropping"} =>
       baseGen[p] = gen /\ base[p] = manifest[gen]
  /\ p \in Writers /\ HasOpen(p) => infos[p] = base[p].names
  /\ pc[p] \in {"flushed", "written"} =>
       base[p].counter \in Names /\ cfs[base[p].counter] = p
  /\ pc[p] = "written" => gen < MaxGen /\ manifest[gen + 1] = New(p)
  /\ pc[p] \in {"flipped", "pruned"} =>
       /\ gen = baseGen[p] + 1
       /\ \E k \in manifest[gen].names : cfs[k] = p

RaceInv == OneWriter /\ LockInv /\ DiskInv /\ NothingLost
             /\ \A p \in Procs : Knows(p)

RaceIndInv == TypeOK /\ RaceInv
=============================================================================
