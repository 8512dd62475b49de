-------------------------- MODULE WriterRaceProofs --------------------------
(***************************************************************************)
(* For any number of processes: when nobody appends beside a writer, no    *)
(* commit is lost and an open writer's snapshot stays current.             *)
(***************************************************************************)
EXTENDS WriterRace, TLAPS

(* Appends are handed off, or there are none.                              *)
Disciplined == Handoff \/ Appenders = {}

(* What a step of p may change of the other processes: nothing.            *)
LEMMA OthersStay ==
  ASSUME TypeOK, NEW p \in Procs, NEW step \in Steps, Goto(p, step)
  PROVE  /\ pc'[p] = step
         /\ pc' \in [Procs -> Steps]
         /\ \A q \in Procs : q # p => pc'[q] = pc[q]
BY DEF TypeOK, Goto

LEMMA RaceInit == Init => TypeOK /\ RaceInv
<1> SUFFICES ASSUME Init PROVE TypeOK /\ RaceInv
  OBVIOUS
<1> USE RaceAssumption, RaceNoFile
<1>1. EmptyManifest \in Manifests
  BY DEF EmptyManifest, Manifests
<1>2. TypeOK
  BY <1>1 DEF Init, TypeOK, Gens, Steps
<1>3. manifest[gen] = EmptyManifest /\ EmptyManifest # NoFile
  BY <1>1 DEF Init, Gens
<1>4. \A p \in Procs : ~Inside(p) /\ pc[p] = "start"
  BY DEF Init, Inside
<1>5. OneWriter /\ NothingLost /\ \A p \in Procs : Knows(p)
  BY <1>3, <1>4 DEF OneWriter, NothingLost, Knows, HasOpen, Init
<1>6. LockInv /\ DiskInv
  BY <1>3, <1>4 DEF LockInv, DiskInv, Init, EmptyManifest, Procs
<1> QED
  BY <1>2, <1>5, <1>6 DEF RaceInv

(* Every step keeps the types.                                             *)
LEMMA RaceTyped == TypeOK /\ [Next]_vars => TypeOK'
<1> SUFFICES ASSUME TypeOK, [Next]_vars PROVE TypeOK'
  OBVIOUS
<1> USE RaceAssumption, RaceNoFile DEF TypeOK, disk
<1>1. CASE UNCHANGED vars
  BY <1>1 DEF vars
<1>2. ASSUME NEW p \in Procs,
             \/ Acquire(p) \/ BeginAppend(p) \/ ReadGeneration(p)
             \/ ReadInfos(p) \/ Flush(p) \/ WriteManifest(p) \/ Flip(p)
             \/ Prune(p) \/ Return(p) \/ Drop(p) \/ RemoveFlushed(p)
             \/ Unlock(p) \/ Stop(p)
      PROVE  TypeOK'
  <2>1. CASE Acquire(p)
    BY <2>1 DEF Acquire, Goto, Steps
  <2>2. CASE BeginAppend(p)
    BY <2>2 DEF BeginAppend, Goto, Steps
  <2>3. CASE ReadGeneration(p)
    BY <2>3 DEF ReadGeneration, Goto, Steps
  <2>4. CASE ReadInfos(p)
    <3>1. manifest[gen].names \in SUBSET Names
      BY <2>4 DEF ReadInfos, Manifests
    <3> QED
      BY <2>4, <3>1 DEF ReadInfos, Goto, Steps
  <2>5. CASE Flush(p)
    BY <2>5 DEF Flush, Goto, Steps
  <2>6. CASE WriteManifest(p)
    <3>1. New(p) \in Manifests
      <4>1. base[p].counter \in Names
        BY <2>6 DEF WriteManifest, Manifests
      <4> QED
        BY <4>1 DEF New, Manifests, Names
    <3> QED
      BY <2>6, <3>1 DEF WriteManifest, New, Goto, Steps, Gens
  <2>7. CASE Flip(p)
    BY <2>7 DEF Flip, Goto, Steps, Gens
  <2>8. CASE Prune(p)
    BY <2>8 DEF Prune, Goto, Steps
  <2>9. CASE Return(p)
    BY <2>9 DEF Return, Unlocked, Goto, Steps
  <2>10. CASE Drop(p)
    BY <2>10 DEF Drop, Goto, Steps
  <2>11. CASE RemoveFlushed(p)
    BY <2>11 DEF RemoveFlushed, Goto, Steps
  <2>12. CASE Unlock(p)
    BY <2>12 DEF Unlock, Unlocked, Goto, Steps
  <2>13. CASE Stop(p)
    BY <2>13 DEF Stop, Unlocked, Goto, Steps
  <2> QED
    BY <1>2, <2>1, <2>2, <2>3, <2>4, <2>5, <2>6, <2>7, <2>8, <2>9, <2>10,
       <2>11, <2>12, <2>13
<1> QED
  BY <1>1, <1>2 DEF Next

-----------------------------------------------------------------------------
(* A process that is inside is alone there; what it does leaves it alone   *)
(* and tells the others nothing new.                                       *)
LEMMA StaysAlone ==
  ASSUME TypeOK, OneWriter, NEW p \in Procs, Inside(p),
         NEW step \in Steps, Goto(p, step)
  PROVE  OneWriter' /\ \A q \in Procs : q # p => ~Inside(q) /\ ~Inside(q)' /\ Knows(q)'
<1>1. \A q \in Procs : q # p => pc'[q] = pc[q]
  BY OthersStay
<1>2. \A q \in Procs : q # p => ~Inside(q)
  BY DEF OneWriter
<1>3. \A q \in Procs : q # p => ~Inside(q)' /\ pc'[q] \in {"start", "done"}
  BY <1>1, <1>2 DEF Inside
<1>4. \A q \in Procs : q # p => Knows(q)'
  BY <1>3 DEF Knows, HasOpen
<1> QED
  BY <1>2, <1>3, <1>4 DEF OneWriter

(* It starts alone: a writer because the lock was free and nobody appends, *)
(* an append because nobody is inside.                                     *)
LEMMA StartsAlone ==
  ASSUME TypeOK, LockInv, Disciplined, NEW p \in Procs, MayStart(p),
         p \in Writers => lock = NoOne,
         Goto(p, "locked")
  PROVE  OneWriter' /\ \A q \in Procs : q # p => ~Inside(q)' /\ Knows(q)'
<1> USE RaceAssumption
<1>1. \A q \in Procs : ~Inside(q)
  <2> SUFFICES ASSUME NEW q \in Procs, Inside(q) PROVE FALSE
    OBVIOUS
  <2>1. p \in Writers /\ q \in Writers
    BY DEF Disciplined, MayStart, Procs
  <2>2. lock = q
    BY <2>1 DEF LockInv
  <2> QED
    BY <2>1, <2>2
<1>2. \A q \in Procs : q # p => pc'[q] = pc[q]
  BY OthersStay DEF Steps
<1>3. \A q \in Procs : q # p => ~Inside(q)' /\ pc'[q] \in {"start", "done"}
  BY <1>1, <1>2 DEF Inside
<1>4. \A q \in Procs : q # p => Knows(q)'
  BY <1>3 DEF Knows, HasOpen
<1> QED
  BY <1>3, <1>4 DEF OneWriter

(* The lock is p's, or free, until p leaves; then it is free.              *)
LEMMA LockKept ==
  ASSUME TypeOK, LockInv, OneWriter, NEW p \in Procs, Inside(p),
         NEW step \in Steps, Goto(p, step),
         \/ lock' = lock /\ step \notin {"start", "done"}
         \/ Unlocked(p) /\ step = "done"
  PROVE  LockInv'
<1> USE RaceAssumption
<1>1. /\ pc'[p] = step
      /\ \A q \in Procs : q # p => ~Inside(q)' /\ ~Inside(q)
  BY OthersStay, StaysAlone
<1>2. lock # NoOne => lock = p
  BY <1>1 DEF LockInv, Procs
<1>3. CASE lock' = lock /\ step \notin {"start", "done"}
  <2>1. Inside(p)'
    BY <1>1, <1>3 DEF Inside
  <2> QED
    BY <1>1, <1>2, <1>3, <2>1 DEF LockInv, Procs
<1>4. CASE Unlocked(p) /\ step = "done"
  <2>1. ~Inside(p)' /\ lock' = NoOne
    BY <1>1, <1>2, <1>4 DEF Inside, Unlocked
  <2> QED
    BY <1>1, <2>1 DEF LockInv, Procs
<1> QED
  BY <1>3, <1>4

(* Where the files stay as they are, so does what is said of them.         *)
LEMMA DiskKept ==
  ASSUME DiskInv, NothingLost, UNCHANGED <<disk, committed>>
  PROVE  DiskInv' /\ NothingLost'
BY DEF DiskInv, NothingLost, disk

(* What is left to show of a step of the process inside.                   *)
LEMMA Frame ==
  ASSUME TypeOK, RaceInv, NEW p \in Procs, Inside(p),
         NEW step \in Steps, Goto(p, step),
         \/ lock' = lock /\ step \notin {"start", "done"}
         \/ Unlocked(p) /\ step = "done",
         DiskInv', NothingLost', Knows(p)'
  PROVE  RaceInv'
<1>1. OneWriter' /\ \A q \in Procs : q # p => Knows(q)'
  BY StaysAlone DEF RaceInv
<1>2. LockInv'
  BY LockKept DEF RaceInv
<1> QED
  BY <1>1, <1>2 DEF RaceInv

(* Every step of a process that keeps the discipline keeps the invariant.  *)
LEMMA RaceStep ==
  ASSUME TypeOK, TypeOK', RaceInv, Disciplined, [Next]_vars
  PROVE  RaceInv'
<1> USE RaceAssumption, RaceNoFile
<1>0. OneWriter /\ LockInv /\ DiskInv /\ NothingLost
  BY DEF RaceInv
<1>1. CASE UNCHANGED vars
  BY <1>1 DEF vars, disk, RaceInv, OneWriter, LockInv, DiskInv, NothingLost,
              Knows, Inside, HasOpen, New
<1>2. ASSUME NEW p \in Procs,
             \/ Acquire(p) \/ BeginAppend(p) \/ ReadGeneration(p)
             \/ ReadInfos(p) \/ Flush(p) \/ WriteManifest(p) \/ Flip(p)
             \/ Prune(p) \/ Return(p) \/ Drop(p) \/ RemoveFlushed(p)
             \/ Unlock(p) \/ Stop(p)
      PROVE  RaceInv'
  <2>0. Knows(p)
    BY DEF RaceInv
  <2>1. CASE Acquire(p) \/ BeginAppend(p)
    <3>1. /\ pc[p] = "start" /\ MayStart(p) /\ Goto(p, "locked")
          /\ p \in Writers => lock = NoOne /\ lock' = p
          /\ p \in Appenders => lock' = lock
          /\ UNCHANGED <<disk, committed>>
      BY <2>1 DEF Acquire, BeginAppend
    <3>2. OneWriter' /\ \A q \in Procs : q # p => ~Inside(q)' /\ Knows(q)'
      BY <1>0, <3>1, StartsAlone
    <3>3. pc'[p] = "locked" /\ Inside(p)' /\ ~Inside(p)
      BY <3>1, OthersStay DEF Inside, Steps
    <3>4. Knows(p)'
      BY <3>3 DEF Knows, HasOpen
    <3>5. LockInv'
      <4>1. p \in Appenders => lock = NoOne
        <5> SUFFICES ASSUME p \in Appenders, lock # NoOne PROVE FALSE
          OBVIOUS
        <5>1. lock \in Writers /\ Inside(lock)
          BY <1>0 DEF LockInv
        <5> QED
          BY <3>1, <5>1 DEF MayStart, Disciplined, Procs
      <4> QED
        BY <3>1, <3>2, <3>3, <4>1 DEF LockInv, Procs
    <3> QED
      BY <1>0, <3>1, <3>2, <3>4, <3>5, DiskKept DEF RaceInv
  <2>2. CASE ReadGeneration(p)
    <3>1. /\ pc[p] = "locked" /\ UNCHANGED <<disk, committed>>
          /\ lock' = lock
          /\ Goto(p, IF p \in Writers THEN "read" ELSE "open")
          /\ base'[p] = manifest[gen] /\ baseGen'[p] = gen
      BY <2>2 DEF ReadGeneration, TypeOK
    <3>2. pc'[p] = IF p \in Writers THEN "read" ELSE "open"
      BY <3>1, OthersStay DEF Steps
    <3>3. Knows(p)'
      BY <3>1, <3>2 DEF Knows, HasOpen, disk
    <3> QED
      BY <1>0, <3>1, <3>3, DiskKept, Frame DEF Inside, Steps
  <2>3. CASE ReadInfos(p)
    <3>1. /\ pc[p] = "read" /\ UNCHANGED <<disk, committed, base, baseGen>>
          /\ lock' = lock /\ Goto(p, "open")
          /\ infos'[p] = manifest[gen].names
      BY <2>3 DEF ReadInfos, TypeOK
    <3>2. pc'[p] = "open"
      BY <3>1, OthersStay DEF Steps
    <3>3. Knows(p)'
      BY <2>0, <3>1, <3>2 DEF Knows, HasOpen, disk
    <3> QED
      BY <1>0, <3>1, <3>3, DiskKept, Frame DEF Inside, Steps
  <2>4. CASE Flush(p)
    <3>1. /\ pc[p] = "open" /\ lock' = lock /\ Goto(p, "flushed")
          /\ base[p].counter \in Names
          /\ cfs' = [cfs EXCEPT ![base[p].counter] = p]
          /\ UNCHANGED <<gen, manifest, base, baseGen, infos, committed>>
      BY <2>4 DEF Flush
    <3>2. pc'[p] = "flushed"
      BY <3>1, OthersStay DEF Steps
    <3>3. base[p] = manifest[gen] /\ baseGen[p] = gen
      BY <2>0, <3>1 DEF Knows
    <3>4. cfs'[base[p].counter] = p
      BY <3>1 DEF TypeOK
    <3>5. \A k \in manifest[gen].names : cfs'[k] = cfs[k]
      BY <1>0, <3>1, <3>3 DEF DiskInv, TypeOK, Manifests, Names
    <3>6. DiskInv' /\ NothingLost'
      BY <1>0, <3>1, <3>5 DEF DiskInv, NothingLost
    <3>7. Knows(p)'
      BY <2>0, <3>1, <3>2, <3>3, <3>4 DEF Knows, HasOpen
    <3> QED
      BY <3>1, <3>6, <3>7, Frame DEF Inside, Steps
  <2>5. CASE WriteManifest(p)
    <3>1. /\ pc[p] = "flushed" /\ lock' = lock /\ Goto(p, "written")
          /\ baseGen[p] < MaxGen
          /\ manifest' = [manifest EXCEPT ![baseGen[p] + 1] = New(p)]
          /\ UNCHANGED <<gen, cfs, base, baseGen, infos, committed>>
      BY <2>5 DEF WriteManifest, New
    <3>2. pc'[p] = "written"
      BY <3>1, OthersStay DEF Steps
    <3>3. base[p] = manifest[gen] /\ baseGen[p] = gen /\ gen \in Nat
      BY <2>0, <3>1 DEF Knows, TypeOK, Gens
    <3>4. manifest'[gen] = manifest[gen] /\ manifest'[gen + 1] = New(p)
      BY <3>1, <3>3 DEF TypeOK, Gens
    <3>5. DiskInv' /\ NothingLost'
      BY <1>0, <3>1, <3>4 DEF DiskInv, NothingLost
    <3>6. Knows(p)'
      BY <2>0, <3>1, <3>2, <3>3, <3>4 DEF Knows, HasOpen, New
    <3> QED
      BY <3>1, <3>5, <3>6, Frame DEF Inside, Steps
  <2>6. CASE Flip(p)
    <3>1. /\ pc[p] = "written" /\ lock' = lock /\ Goto(p, "flipped")
          /\ gen' = baseGen[p] + 1
          /\ UNCHANGED <<manifest, cfs, base, baseGen, infos, committed>>
      BY <2>6 DEF Flip
    <3>2. pc'[p] = "flipped"
      BY <3>1, OthersStay DEF Steps
    <3>3. /\ base[p] = manifest[gen] /\ gen' = gen + 1
          /\ manifest'[gen'] = New(p)
          /\ base[p].counter \in Names /\ cfs[base[p].counter] = p
      BY <2>0, <3>1 DEF Knows
    <3>4. /\ manifest'[gen'].names = manifest[gen].names \cup {base[p].counter}
          /\ manifest'[gen'].counter = base[p].counter + 1
          /\ manifest'[gen'] # NoFile
      BY SMTT(30), <3>3 DEF New, TypeOK, Manifests, Names
    <3>5. DiskInv'
      <4>1. \A k \in manifest[gen].names : k < base[p].counter + 1 /\ cfs[k] # NoFile
        BY <1>0, <3>3 DEF DiskInv, TypeOK, Manifests, Names
      <4>2. base[p].counter < base[p].counter + 1
        BY <3>3 DEF Names
      <4> QED
        BY <3>1, <3>3, <3>4, <4>1, <4>2 DEF DiskInv, TypeOK
    <3>6. NothingLost'
      BY <1>0, <3>1, <3>4 DEF NothingLost
    <3>7. Knows(p)'
      BY <3>1, <3>2, <3>3, <3>4 DEF Knows, HasOpen, TypeOK, Gens
    <3> QED
      BY <3>1, <3>5, <3>6, <3>7, Frame DEF Inside, Steps
  <2>7. CASE Prune(p)
    <3>1. /\ pc[p] = "flipped" /\ lock' = lock /\ Goto(p, "pruned")
          /\ \A n \in Gens : n >= baseGen[p] => manifest'[n] = manifest[n]
          /\ UNCHANGED <<gen, cfs, base, baseGen, infos, committed>>
      BY <2>7 DEF Prune, Gens, TypeOK
    <3>2. pc'[p] = "pruned"
      BY <3>1, OthersStay DEF Steps
    <3>3. gen = baseGen[p] + 1
      BY <2>0, <3>1 DEF Knows
    <3>4. manifest'[gen] = manifest[gen]
      BY <3>1, <3>3 DEF TypeOK, Gens
    <3>5. DiskInv' /\ NothingLost'
      BY <1>0, <3>1, <3>4 DEF DiskInv, NothingLost
    <3>6. Knows(p)'
      BY <2>0, <3>1, <3>2, <3>4 DEF Knows, HasOpen
    <3> QED
      BY <3>1, <3>5, <3>6, Frame DEF Inside, Steps
  <2>8. CASE Return(p)
    <3>1. /\ pc[p] = "pruned" /\ Unlocked(p) /\ Goto(p, "done")
          /\ committed' = committed \cup {p}
          /\ UNCHANGED disk
      BY <2>8 DEF Return
    <3>2. pc'[p] = "done"
      BY <3>1, OthersStay DEF Steps
    <3>3. DiskInv' /\ NothingLost'
      BY <1>0, <2>0, <3>1 DEF DiskInv, NothingLost, Knows, disk
    <3>4. Knows(p)'
      BY <3>2 DEF Knows, HasOpen
    <3> QED
      BY <3>1, <3>3, <3>4, Frame DEF Inside, Steps
  <2>9. CASE Drop(p)
    <3>1. /\ pc[p] = "flushed" /\ lock' = lock /\ Goto(p, "dropping")
          /\ UNCHANGED <<disk, base, baseGen, infos, committed>>
      BY <2>9 DEF Drop
    <3>2. pc'[p] = "dropping"
      BY <3>1, OthersStay DEF Steps
    <3>3. Knows(p)'
      BY <2>0, <3>1, <3>2 DEF Knows, HasOpen, disk
    <3> QED
      BY <1>0, <3>1, <3>3, DiskKept, Frame DEF Inside, Steps
  <2>10. CASE RemoveFlushed(p)
    <3>1. /\ pc[p] = "dropping" /\ lock' = lock /\ Goto(p, "dropped")
          /\ cfs' = [cfs EXCEPT ![base[p].counter] = NoFile]
          /\ UNCHANGED <<gen, manifest, base, baseGen, infos, committed>>
      BY <2>10 DEF RemoveFlushed
    <3>2. pc'[p] = "dropped"
      BY <3>1, OthersStay DEF Steps
    <3>3. base[p] = manifest[gen]
      BY <2>0, <3>1 DEF Knows
    <3>4. \A k \in manifest[gen].names : cfs'[k] = cfs[k]
      BY <1>0, <3>1, <3>3 DEF DiskInv, TypeOK, Manifests, Names
    <3>5. DiskInv' /\ NothingLost'
      BY <1>0, <3>1, <3>4 DEF DiskInv, NothingLost
    <3>6. Knows(p)'
      BY <3>2 DEF Knows, HasOpen
    <3> QED
      BY <3>1, <3>5, <3>6, Frame DEF Inside, Steps
  <2>11. CASE Unlock(p) \/ Stop(p)
    <3>1. /\ Inside(p) /\ Unlocked(p) /\ Goto(p, "done")
          /\ UNCHANGED <<disk, committed>>
      BY <2>11 DEF Unlock, Stop, Inside
    <3>2. pc'[p] = "done"
      BY <3>1, OthersStay DEF Steps
    <3>3. Knows(p)'
      BY <3>2 DEF Knows, HasOpen
    <3> QED
      BY <1>0, <3>1, <3>3, DiskKept, Frame DEF Steps
  <2> QED
    BY <1>2, <2>1, <2>2, <2>3, <2>4, <2>5, <2>6, <2>7, <2>8, <2>9, <2>10, <2>11
<1> QED
  BY <1>1, <1>2 DEF Next

(* The invariant says what the properties say.                             *)
LEMMA RaceInvSays == RaceIndInv => NothingLost /\ SnapshotStays /\ FlushedStays
BY DEF RaceIndInv, RaceInv, Knows, SnapshotStays, FlushedStays, HasOpen, Procs

(* The inductive invariant holds, types included.                          *)
THEOREM RaceIndInvHolds == ASSUME Disciplined PROVE Spec => []RaceIndInv
<1>1. Init => RaceIndInv
  BY RaceInit DEF RaceIndInv
<1>2. RaceIndInv /\ [Next]_vars => RaceIndInv'
  BY RaceTyped, RaceStep DEF RaceIndInv
<1> QED
  BY <1>1, <1>2, PTL DEF Spec

(* No process's commit is ever lost to another's.                          *)
THEOREM NothingLostHolds == ASSUME Disciplined PROVE Spec => []NothingLost
<1> QED
  BY RaceIndInvHolds, RaceInvSays, PTL

(* What a writer read when it opened stays what the index is.              *)
THEOREM SnapshotStaysHolds == ASSUME Disciplined PROVE Spec => []SnapshotStays
<1> QED
  BY RaceIndInvHolds, RaceInvSays, PTL

(* What a session flushed is there when its manifest is.                   *)
THEOREM FlushedStaysHolds == ASSUME Disciplined PROVE Spec => []FlushedStays
<1> QED
  BY RaceIndInvHolds, RaceInvSays, PTL
=============================================================================
