----------------------------- MODULE PowerLoss -----------------------------
(***************************************************************************)
(* What a power loss leaves of an index: the writes, fsyncs and renames of *)
(* commit and optimize one by one, over a file system that keeps them in   *)
(* its caches until it is told to sync.  Crashes of the process alone,     *)
(* which lose nothing that was written, are in IndexWriter.                *)
(***************************************************************************)
EXTENDS SequencesExt, FiniteSetsExt, Functions, Integers

CONSTANTS MetadataOrdered,  \* directory entries reach the disk in order
          DataOrdered,      \* a rename takes the content of its file along
          MaxCalls

ASSUME FileSystemAssumption == MetadataOrdered \in BOOLEAN /\ DataOrdered \in BOOLEAN

VARIABLES dirs,   \* the directory since it was last synced, oldest first
          synced, \* the file under its .tmp name has been synced
          prog,   \* the steps of the current call, or of its merge
          at,     \* how many of them are done
          merging, \* the merge of the current call is still to come
          call,   \* the current or last call
          before, \* the documents before it, and whether they were durable
          want,   \* the documents after it
          calls,
          lost    \* the power has just failed

vars == <<dirs, synced, prog, at, merging, call, before, want, calls, lost>>

-----------------------------------------------------------------------------
(* Names are pairs; a file is its content and whether that is on disk.     *)
Gen == <<"gen", 0>>
Manifest(g) == <<"segments", g>>
Cfs(k) == <<"cfs", k>>
Pending == <<"pending_deletions", 0>>

Torn == <<"torn">>

Dir == Last(dirs)

Content(d, name) == IF name \in DOMAIN d THEN d[name].content ELSE Torn

Generation(d) == Content(d, Gen)

Segments(d) == Content(d, Manifest(Generation(d)[2]))[2]

Readable(d) ==
    /\ Generation(d) # Torn
    /\ Content(d, Manifest(Generation(d)[2])) # Torn
    /\ \A k \in Segments(d) : Content(d, Cfs(k)) # Torn

Documents(d) == UNION {Content(d, Cfs(k))[2] : k \in Segments(d)}

Durable == Len(dirs) = 1 /\ \A n \in DOMAIN Dir : Dir[n].safe

-----------------------------------------------------------------------------
(* The steps of the calls.                                                 *)
Create(name, content) == [op |-> "create", name |-> name, content |-> content]
Tmp(content) == [op |-> "tmp", name |-> Gen, content |-> content]
Rename(name, content) == [op |-> "rename", name |-> name, content |-> content]
Unlink(name) == [op |-> "remove", name |-> name, content |-> Torn]
Fsync == [op |-> "fsync", name |-> Gen, content |-> Torn]
SyncDir == [op |-> "syncdir", name |-> Gen, content |-> Torn]

WriteAtomic(name, content) == <<Tmp(content), Rename(name, content)>>

(* Mutant: the directory entry is not synced.                              *)
WriteDurableUnsynced(name, content) == <<Tmp(content), Fsync, Rename(name, content)>>

WriteDurable(name, content) == <<Tmp(content), Fsync, Rename(name, content), SyncDir>>

(* A set as a list, where the code has the order of the directory.         *)
Listed(S) == FoldSet(LAMBDA n, list : Append(list, n), <<>>, S)

Unlinks(names) ==
    LET list == Listed(names)
    IN  [i \in 1 .. Len(list) |-> Unlink(list[i])]

(* prune_old_generations and process_pending_deletions after the flip to g.*)
CleanUp(d, g, superseded) ==
    LET old == {n \in DOMAIN d : n[1] = "segments" /\ n[2] < g - 1}
        listed == IF Content(d, Pending) = Torn THEN {} ELSE Content(d, Pending)[2] \cap DOMAIN d
    IN  Unlinks(old) \o Unlinks(listed)
        \o IF superseded # {} THEN <<Create(Pending, <<"list", superseded>>)>>
           ELSE Unlinks({Pending} \cap DOMAIN d)

FlipCommit(d, g, segs) ==
    <<Create(Manifest(g), <<"segs", segs>>)>> \o WriteAtomic(Gen, <<"gen", g>>) \o CleanUp(d, g, {})

(* Mutant: the generation before is pruned, and its files removed, before  *)
(* the flip is on disk.                                                    *)
FlipOptimizedUnsynced(d, g, m, superseded) ==
    WriteDurable(Manifest(g), <<"segs", {m}>>) \o WriteAtomic(Gen, <<"gen", g>>)
    \o CleanUp(d, g + 1, superseded)

FlipOptimized(d, g, m, superseded) ==
    WriteDurable(Manifest(g), <<"segs", {m}>>) \o WriteAtomic(Gen, <<"gen", g>>) \o <<SyncDir>>
    \o CleanUp(d, g, superseded)

(* The name counter of the generation: every flip lists its newest segment.*)
NextName(d) == Max(Segments(d)) + 1

(* A session that adds one document.                                       *)
CommitSteps(d) ==
    LET g == Generation(d)[2]
        k == NextName(d)
    IN  <<Create(Cfs(k), <<"docs", {k}>>)>> \o FlipCommit(d, g + 1, Segments(d) \cup {k})

(* The merge of all segments and the flip to it; one is left as it is.     *)
MergeSteps(d) ==
    LET segs == Segments(d)
        m == NextName(d)
    IN  IF Cardinality(segs) <= 1 THEN <<>>
        ELSE WriteDurable(Cfs(m), <<"docs", Documents(d)>>)
             \o FlipOptimized(d, Generation(d)[2] + 1, m, {Cfs(k) : k \in segs})

-----------------------------------------------------------------------------
(* What one step does to the directory.                                    *)
Put(d, name, file) == [n \in DOMAIN d \cup {name} |-> IF n = name THEN file ELSE d[n]]

Apply(s, d) ==
    CASE s.op = "create" -> Put(d, s.name, [content |-> s.content, safe |-> FALSE])
      [] s.op = "rename" -> Put(d, s.name, [content |-> s.content, safe |-> synced \/ DataOrdered])
      [] s.op = "remove" -> Restrict(d, DOMAIN d \ {s.name})
      [] OTHER -> d

Start == [n \in {Gen, Manifest(1), Cfs(1), Cfs(2)} |->
             [safe |-> TRUE,
              content |-> CASE n = Gen -> <<"gen", 1>>
                            [] n = Manifest(1) -> <<"segs", {1, 2}>>
                            [] OTHER -> <<"docs", {n[2]}>>]]

Init ==
    /\ dirs = <<Start>> /\ synced = FALSE /\ prog = <<>> /\ at = 0 /\ merging = FALSE
    /\ call = "none" /\ before = [docs |-> {1, 2}, durable |-> TRUE] /\ want = {1, 2}
    /\ calls = 0 /\ lost = FALSE

Returned == at = Len(prog) /\ ~merging

Begin(name, steps, merges, docs) ==
    /\ Returned /\ calls < MaxCalls /\ Readable(Dir)
    /\ calls' = calls + 1
    /\ call' = name /\ prog' = steps /\ at' = 0 /\ merging' = merges
    /\ before' = [docs |-> Documents(Dir), durable |-> Durable]
    /\ want' = docs
    /\ lost' = FALSE
    /\ UNCHANGED <<dirs, synced>>

WithOneMore(d) == Documents(d) \cup {NextName(d)}

Commit == Begin("commit", CommitSteps(Dir), FALSE, WithOneMore(Dir))

(* optimize with nothing to commit, and after adding a document.           *)
Optimize == Begin("optimize", <<>>, TRUE, Documents(Dir))

AddAndOptimize == Begin("add and optimize", CommitSteps(Dir), TRUE, WithOneMore(Dir))

(* The second half of optimize reads what its commit has left; where that  *)
(* cannot be read, it fails, and so would any other call.                  *)
Merge ==
    /\ at = Len(prog) /\ merging /\ Readable(Dir)
    /\ prog' = MergeSteps(Dir) /\ at' = 0 /\ merging' = FALSE
    /\ UNCHANGED <<dirs, synced, call, before, want, calls, lost>>

Step ==
    /\ at < Len(prog)
    /\ at' = at + 1
    /\ LET s == prog[at + 1]
       IN  /\ synced' = (s.op = "fsync" \/ (synced /\ s.op # "tmp"))
           /\ dirs' = IF s.op = "syncdir" THEN <<Dir>>
                      ELSE IF Apply(s, Dir) = Dir THEN dirs ELSE Append(dirs, Apply(s, Dir))
    /\ UNCHANGED <<prog, merging, call, before, want, calls, lost>>

(* What the disk may hold under a name, of the directories in history: a   *)
(* file that was not synced may have lost its content, and counts as lost. *)
Kept(n, history) ==
    UNION {IF n \notin DOMAIN dirs[i] THEN {Torn}
           ELSE {dirs[i][n].content} \cup (IF dirs[i][n].safe THEN {} ELSE {Torn}) : i \in history}

WithName(n, disks, history) == {Put(d, n, c) : d \in disks, c \in Kept(n, history)}

Disks(history) ==
    LET names == Listed(UNION {DOMAIN dirs[i] : i \in history})
        upTo[n \in 0 .. Len(names)] ==
            IF n = 0 THEN {<<>>} ELSE WithName(names[n], upTo[n - 1], history)
    IN  upTo[Len(names)]

OnDisk ==
    IF MetadataOrdered THEN UNION {Disks({i}) : i \in DOMAIN dirs} ELSE Disks(DOMAIN dirs)

PowerLoss ==
    /\ ~lost
    /\ \E d \in OnDisk :
          dirs' = <<[n \in {x \in DOMAIN d : d[x] # Torn} |-> [content |-> d[n], safe |-> TRUE]]>>
    /\ lost' = TRUE
    /\ UNCHANGED <<synced, prog, at, merging, call, before, want, calls>>

(* The next request finds what is left.                                    *)
Restart ==
    /\ lost /\ Readable(Dir)
    /\ prog' = <<>> /\ at' = 0 /\ merging' = FALSE /\ lost' = FALSE
    /\ call' = "none" /\ want' = Documents(Dir)
    /\ UNCHANGED <<dirs, synced, before, calls>>

Next == ((Commit \/ Optimize \/ AddAndOptimize \/ Merge \/ Step) /\ ~lost) \/ PowerLoss \/ Restart

Spec == Init /\ [][Next]_vars

-----------------------------------------------------------------------------
Holds(docs) == Readable(Dir) /\ Documents(Dir) = docs

(* Once optimize has returned, no power loss takes its result away, also   *)
(* what it committed without an fsync on the way (segments.rs:380).        *)
OptimizedSurvives ==
    lost /\ Returned /\ call \in {"optimize", "add and optimize"} /\ (call = "optimize" => before.durable)
        => Holds(want)

(* A power loss in the middle of an optimize that has nothing to commit    *)
(* leaves the documents as they were, merged or not (segments.rs:333).     *)
OptimizeIsSafe ==
    lost /\ call = "optimize" /\ before.durable => Holds(before.docs)

(* An optimize is all there or not there at all, and what was durable stays.*)
OptimizeIsDurable == OptimizedSurvives /\ OptimizeIsSafe

(* "A commit lost to a power cut is re-indexed on the next run"            *)
(* (durability.rs:15): what is lost is the commit, never the index.        *)
OnlyTheCommitIsLost ==
    lost /\ call = "commit" /\ before.durable => Holds(before.docs) \/ Holds(want)
=============================================================================
