---------------------------- MODULE IndexReaders ----------------------------
(***************************************************************************)
(* Searches beside a writer.  Every request opens the index anew           *)
(* (ZslIndex::open), taking no lock: segments.gen, then the manifest it    *)
(* names, then one segment after the other, its .cfs first and its bitmap  *)
(* after.  The writer may do anything between two of these reads.  What    *)
(* has been opened is mapped, and survives the removal of its file.        *)
(***************************************************************************)
EXTENDS IndexWriter

CONSTANT Readers

VARIABLES
  rpc,     \* "idle", "manifest", "segments", "bitmap", "done" or "failed"
  rgen,    \* the generation read from segments.gen
  rman,    \* the manifest read
  rtodo,   \* its segments not opened yet
  ropen,   \* the segment whose bitmap comes next
  rview,   \* the documents found so far, by segment
  rexpect  \* history: what generation rgen showed when it was read

readerVars == <<rpc, rgen, rman, rtodo, ropen, rview, rexpect>>
allVars    == <<vars, readerVars>>

(* What manifest m shows of each segment.                                  *)
Shown(m) ==
  [k \in Names |-> IF k \in m.names THEN cfs[k] \ Deleted(k, m.delGen[k]) ELSE {}]

NothingShown == [k \in Names |-> {}]

ReadersTypeOK ==
  /\ rpc \in [Readers ->
       {"idle", "manifest", "segments", "bitmap", "done", "failed"}]
  /\ rgen \in [Readers -> Gens]
  /\ rman \in [Readers -> Manifests]
  /\ rtodo \in [Readers -> SUBSET Names]
  /\ ropen \in [Readers -> Names]
  /\ rview \in [Readers -> [Names -> SUBSET Docs]]
  /\ rexpect \in [Readers -> [Names -> SUBSET Docs]]

ReadersInit ==
  /\ Init
  /\ rpc = [r \in Readers |-> "idle"]
  /\ rgen = [r \in Readers |-> 0]
  /\ rman = [r \in Readers |-> NoManifest]
  /\ rtodo = [r \in Readers |-> {}]
  /\ ropen = [r \in Readers |-> 0]
  /\ rview = [r \in Readers |-> NothingShown]
  /\ rexpect = [r \in Readers |-> NothingShown]

(* read_segment_infos: segments.gen ...                                    *)
ReadGen(r) ==
  /\ rpc[r] \in {"idle", "done", "failed"}
  /\ rgen' = [rgen EXCEPT ![r] = gen]
  /\ rexpect' = [rexpect EXCEPT ![r] = Shown(manifest[gen])]
  /\ rview' = [rview EXCEPT ![r] = NothingShown]
  /\ rpc' = [rpc EXCEPT ![r] = "manifest"]
  /\ UNCHANGED <<vars, rman, rtodo, ropen>>

(* Mutation: segments.gen is read again for the manifest.                  *)
ReadManifestAgain(r) ==
  /\ rpc[r] = "manifest"
  /\ rpc' = [rpc EXCEPT ![r] = "segments"]
  /\ rman' = [rman EXCEPT ![r] = manifest[gen]]
  /\ rtodo' = [rtodo EXCEPT ![r] = manifest[gen].names]
  /\ UNCHANGED <<vars, rgen, ropen, rview, rexpect>>

(* ... and the manifest.                                                   *)
ReadManifest(r) ==
  /\ rpc[r] = "manifest"
  /\ IF manifest[rgen[r]] = NoFile
     THEN /\ rpc' = [rpc EXCEPT ![r] = "failed"]
          /\ UNCHANGED <<rman, rtodo>>
     ELSE /\ rpc' = [rpc EXCEPT ![r] = "segments"]
          /\ rman' = [rman EXCEPT ![r] = manifest[rgen[r]]]
          /\ rtodo' = [rtodo EXCEPT ![r] = manifest[rgen[r]].names]
  /\ UNCHANGED <<vars, rgen, ropen, rview, rexpect>>

(* open_named: CompoundFile::open maps the .cfs.                           *)
OpenSegment(r, k) ==
  /\ rpc[r] = "segments" /\ k \in rtodo[r]
  /\ rtodo' = [rtodo EXCEPT ![r] = @ \ {k}]
  /\ IF cfs[k] = NoFile
     THEN /\ rpc' = [rpc EXCEPT ![r] = "failed"]
          /\ UNCHANGED <<ropen, rview>>
     ELSE /\ rpc' = [rpc EXCEPT ![r] = "bitmap"]
          /\ ropen' = [ropen EXCEPT ![r] = k]
          /\ rview' = [rview EXCEPT ![r][k] = cfs[k]]
  /\ UNCHANGED <<vars, rgen, rman, rexpect>>

(* Mutation: the newest bitmap of the segment is read.                     *)
ReadBitmapNewest(r) ==
  LET k == ropen[r]
      gone == Deleted(k, manifest[gen].delGen[k])
  IN /\ rpc[r] = "bitmap"
     /\ rpc' = [rpc EXCEPT ![r] = "segments"]
     /\ rview' = [rview EXCEPT ![r][k] = @ \ gone]
     /\ UNCHANGED <<vars, rgen, rman, rtodo, ropen, rexpect>>

(* Its bitmap: a file that is not there deletes nothing.                   *)
ReadBitmap(r) ==
  LET k == ropen[r]
      gone == Deleted(k, rman[r].delGen[k])
  IN /\ rpc[r] = "bitmap"
     /\ rpc' = [rpc EXCEPT ![r] = "segments"]
     /\ rview' = [rview EXCEPT ![r][k] = @ \ gone]
     /\ UNCHANGED <<vars, rgen, rman, rtodo, ropen, rexpect>>

Opened(r) ==
  /\ rpc[r] = "segments" /\ rtodo[r] = {}
  /\ rpc' = [rpc EXCEPT ![r] = "done"]
  /\ UNCHANGED <<vars, rgen, rman, rtodo, ropen, rview, rexpect>>

Reading(r) ==
  \/ ReadGen(r) \/ ReadManifest(r) \/ ReadBitmap(r) \/ Opened(r)
  \/ \E k \in Names : OpenSegment(r, k)

ReadersNext ==
  \/ Next /\ UNCHANGED readerVars
  \/ \E r \in Readers : Reading(r)

ReadersSpec == ReadersInit /\ [][ReadersNext]_allVars

-----------------------------------------------------------------------------
(* Properties                                                              *)

(* At most one flip since the reader read segments.gen.                    *)
InTime(r) == gen <= rgen[r] + 1

(* A reader that meets at most one flip never fails to open the index.     *)
InTimeOpens ==
  [][\A r \in Readers :
       rpc[r] # "failed" /\ rpc'[r] = "failed" => ~InTime(r)]_allVars

(* ... and finds exactly the documents of the generation it read, however  *)
(* many steps of the writer it overlapped: no half of a commit.            *)
InTimeExact ==
  [][\A r \in Readers :
       rpc[r] # "done" /\ rpc'[r] = "done" /\ InTime(r)
         => rview[r] = rexpect[r]]_allVars

(* However late, a reader that opens the index misses no document of its   *)
(* generation: only deleted ones may come back.                            *)
NoDocumentMissed ==
  \A r \in Readers : rpc[r] = "done" =>
    \A k \in Names : rexpect[r][k] \subseteq rview[r][k]

(* FORMAT.md: the delGen a manifest records selects the segment's bitmap,  *)
(* and -1 alone means there is none.  A search beside a writer therefore   *)
(* finds the documents of its generation or fails.                         *)
OpenedExact ==
  \A r \in Readers : rpc[r] = "done" => rview[r] = rexpect[r]
=============================================================================
