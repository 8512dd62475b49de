----------------------------- MODULE PhpWriter -----------------------------
(***************************************************************************)
(* SdSearch\Writer as hosts use it: objects in PHP requests that open one  *)
(* of several indexes, replace documents by find_doc_id, delete_document   *)
(* and add_document, and commit or optimize, beside each other.  A panic   *)
(* of the engine is caught at the boundary and the object goes on.         *)
(*                                                                         *)
(* An index is the sequence of its documents by global id, dead ones       *)
(* included.  How IndexWriter brings a session to disk is in IndexWriter.  *)
(***************************************************************************)
EXTENDS SequencesExt, FiniteSetsExt, Integers

CONSTANTS Objects,   \* Writer objects, each in a request of its own
          Dirs, Keys,
          Poisons,   \* keys whose documents make a flush panic
          MaxBuffered,
          MaxAdds    \* bound on the documents ever added

ASSUME BufferAssumption == MaxBuffered \in Nat \ {0}

VARIABLES disk,      \* the current generation of each index
          lock,      \* the object that holds the write lock of each index
          inner,     \* the IndexWriter of each object, if open
          reader,    \* its cached reader, if open
          host,      \* the update each host is in the middle of
          adds,      \* documents added so far
          promised   \* the version of each key that a commit returned for

vars == <<disk, lock, inner, reader, host, adds, promised>>

(* No index, no key and no object: names that nothing else has.            *)
NoOne == "no one"

ASSUME NamesAssumption == "none" \notin Dirs \cup Keys /\ NoOne \notin Objects

Closed == [dir |-> "none", base |-> <<>>, buf |-> <<>>, flushed |-> <<>>, dels |-> {}]
Idle == [key |-> "none", id |-> 0 - 1, done |-> {}, refused |-> {}, added |-> [k \in Keys |-> 0]]

-----------------------------------------------------------------------------
(* Documents are records of a key, the number of the addition, and the     *)
(* index they were meant for.                                              *)
LiveRows(rows) == {i \in DOMAIN rows : ~rows[i].dead}

Open(o) == inner[o] # Closed

(* Mutant: the new session starts with the buffer of the one it replaces.  *)
SessionInherits(o, d) == [dir |-> d, base |-> disk[d], buf |-> inner[o].buf, flushed |-> <<>>, dels |-> {}]

Session(o, d) == [dir |-> d, base |-> disk[d], buf |-> <<>>, flushed |-> <<>>, dels |-> {}]

(* Mutant: the lock of another object does not count.                      *)
LockedIgnored(o, d) == lock[d] = o

(* The lock excludes the holder's own second attempt, too.                 *)
Locked(o, d) == lock[d] # NoOne

(* Mutant: ids count live documents.                                       *)
DeletesLive(rows, dels) ==
    [i \in DOMAIN rows |->
        [rows[i] EXCEPT !.dead = @ \/ Cardinality({j \in LiveRows(rows) : j < i}) \in dels]]

Deletes(rows, dels) == [i \in DOMAIN rows |-> [rows[i] EXCEPT !.dead = @ \/ (i - 1) \in dels]]

Panics(buf) == \E i \in DOMAIN buf : buf[i].key \in Poisons

(* What a commit makes of the index.                                       *)
Committed(s) == Deletes(s.base, s.dels) \o s.flushed \o s.buf

Compacted(rows) ==
    LET live[n \in 0 .. Len(rows)] ==
            IF n = 0 THEN <<>>
            ELSE IF rows[n].dead THEN live[n - 1] ELSE Append(live[n - 1], rows[n])
    IN  live[Len(rows)]

-----------------------------------------------------------------------------
Init ==
    /\ disk \in [Dirs -> {<<>>}]
    /\ lock = [d \in Dirs |-> NoOne]
    /\ inner = [o \in Objects |-> Closed]
    /\ reader = [o \in Objects |-> <<>>]
    /\ host = [o \in Objects |-> Idle]
    /\ adds = 0
    /\ promised = [d \in Dirs |-> [k \in Keys |-> 0]]

(* open and try_open up to the cached reader: a session that the object    *)
(* had is dropped only when the new one is there; an index that is locked, *)
(* or that the reader cannot open, leaves the object as it was.            *)
OpenWriter(o, d) ==
    /\ ~Locked(o, d)
    /\ inner' = [inner EXCEPT ![o] = Session(o, d)]
    /\ reader' = [reader EXCEPT ![o] = disk[d]]
    /\ lock' = [x \in Dirs |-> IF x = d THEN o ELSE IF lock[x] = o THEN NoOne ELSE lock[x]]
    /\ host' = [host EXCEPT ![o] = Idle]
    /\ UNCHANGED <<disk, adds, promised>>

(* The first live document of the key in the reader; -1 when there is none.*)
FindDocId(o, k) ==
    /\ Open(o) /\ host[o].key = "none" /\ k \notin host[o].done
    /\ LET ids == {i - 1 : i \in {j \in LiveRows(reader[o]) : reader[o][j].key = k}}
           id == IF ids = {} THEN 0 - 1 ELSE Min(ids)
       IN  /\ host' = [host EXCEPT ![o].key = k, ![o].id = id, ![o].done = @ \cup {k}]
    /\ UNCHANGED <<disk, lock, inner, reader, adds, promised>>

(* A negative id, or one past the base, deletes nothing.                   *)
DeleteDocument(o) ==
    /\ Open(o) /\ host[o].id >= 0
    /\ inner' = [inner EXCEPT ![o].dels = IF host[o].id < Len(inner[o].base) THEN @ \cup {host[o].id} ELSE @]
    /\ host' = [host EXCEPT ![o].id = 0 - 1]
    /\ UNCHANGED <<disk, lock, reader, adds, promised>>

(* doc_from_json rejects what the host wrote: an Err that keeps nothing,   *)
(* whatever the host deleted before it.  A host that mends the document    *)
(* and calls again is where it was; this one goes on without it.           *)
Refused(o) ==
    /\ host' = [host EXCEPT ![o].key = "none", ![o].refused = @ \cup {host[o].key}]
    /\ UNCHANGED <<inner, adds>>

(* Into the buffer; a full one is flushed.  The flush may panic, or fail   *)
(* before or (a compaction) after the segment is written: the document     *)
(* stays in the buffer, or in the segment.  The host notes an Ok only.     *)
Buffered(o) ==
    /\ adds < MaxAdds
    /\ adds' = adds + 1
    /\ LET s == inner[o]
           buf == Append(s.buf, [key |-> host[o].key, ver |-> adds + 1, dir |-> s.dir, dead |-> FALSE])
           kept == [s EXCEPT !.buf = buf]
           flushed == [s EXCEPT !.buf = <<>>, !.flushed = @ \o buf]
           Ok == [host EXCEPT ![o].key = "none", ![o].added[host[o].key] = adds + 1]
           Err == [host EXCEPT ![o].key = "none"]
       IN  \/ /\ Len(buf) < MaxBuffered
              /\ inner' = [inner EXCEPT ![o] = kept] /\ host' = Ok
           \/ /\ Len(buf) >= MaxBuffered
              /\ inner' = [inner EXCEPT ![o] = kept] /\ host' = Err
           \/ /\ Len(buf) >= MaxBuffered /\ ~Panics(buf)
              /\ inner' = [inner EXCEPT ![o] = flushed] /\ host' \in {Ok, Err}

AddDocument(o) ==
    /\ Open(o) /\ host[o].key # "none" /\ host[o].id < 0
    /\ Refused(o) \/ Buffered(o)
    /\ UNCHANGED <<disk, lock, reader, promised>>

-----------------------------------------------------------------------------
(* The writer is taken out of the object whatever comes of the commit.     *)
Consume(o) ==
    /\ inner' = [inner EXCEPT ![o] = Closed]
    /\ reader' = [reader EXCEPT ![o] = <<>>]
    /\ host' = [host EXCEPT ![o] = Idle]
    /\ lock' = [lock EXCEPT ![inner[o].dir] = NoOne]
    /\ UNCHANGED adds

(* No more is promised of a key whose document the host deleted and whose  *)
(* new one was refused.                                                    *)
Withdrawn(o) == [k \in Keys |-> IF k \in host[o].refused THEN 0 ELSE promised[inner[o].dir][k]]

(* A key that was added with an Ok is promised in that version.  An add    *)
(* that fails after the document was buffered keeps it: the key is there   *)
(* as it was, or newer.                                                    *)
Promise(o) ==
    promised' = [promised EXCEPT ![inner[o].dir] =
                    [k \in Keys |-> IF host[o].added[k] > 0 THEN host[o].added[k] ELSE Withdrawn(o)[k]]]

(* The host has no document deleted and not added again.                   *)
Commit(o) ==
    /\ Open(o) /\ host[o].key = "none" /\ Consume(o) /\ ~Panics(inner[o].buf)
    /\ disk' = [disk EXCEPT ![inner[o].dir] = Committed(inner[o])]
    /\ Promise(o)

Optimize(o) ==
    /\ Open(o) /\ host[o].key = "none" /\ Consume(o) /\ ~Panics(inner[o].buf)
    /\ disk' = [disk EXCEPT ![inner[o].dir] = Compacted(Committed(inner[o]))]
    /\ Promise(o)

(* An error or a caught panic before the flip.                             *)
CommitFails(o) == Open(o) /\ Consume(o) /\ UNCHANGED <<disk, promised>>

(* optimize's own commit has flipped when its merge fails.                 *)
MergeFails(o) ==
    /\ Open(o) /\ host[o].key = "none" /\ Consume(o) /\ ~Panics(inner[o].buf)
    /\ disk' = [disk EXCEPT ![inner[o].dir] = Committed(inner[o])]
    /\ promised' = [promised EXCEPT ![inner[o].dir] = Withdrawn(o)]

(* The request ends or dies, with its objects and their locks.            *)
Vanish(o) == Open(o) /\ Consume(o) /\ UNCHANGED <<disk, promised>>

Next == \E o \in Objects :
    \/ \E d \in Dirs : OpenWriter(o, d)
    \/ \E k \in Keys : FindDocId(o, k)
    \/ DeleteDocument(o) \/ AddDocument(o)
    \/ Commit(o) \/ Optimize(o) \/ CommitFails(o) \/ MergeFails(o) \/ Vanish(o)

Spec == Init /\ [][Next]_vars

-----------------------------------------------------------------------------
(* Hosts that replace what they find have one live document of each key,   *)
(* across sessions, failed additions, panics and compactions, although the *)
(* ids they delete by change with every optimize (lib.rs:780).             *)
OneLivePerKey ==
    \A d \in Dirs, k \in Keys :
        Cardinality({i \in LiveRows(disk[d]) : disk[d][i].key = k}) <= 1

(* A document whose add returned Ok and whose commit or optimize returned  *)
(* is there, or a newer version of it, whatever other objects do, whichever *)
(* sessions are given up and whichever later calls fail, unless its host   *)
(* deleted it and the add of the new version was refused (lib.rs:948).     *)
PromisesKept ==
    \A d \in Dirs, k \in Keys : promised[d][k] > 0 =>
        \E i \in LiveRows(disk[d]) : disk[d][i].key = k /\ disk[d][i].ver >= promised[d][k]

(* A session that another open replaces on the same object takes its       *)
(* documents with it: none turns up in another index (lib.rs:838).         *)
StaysInItsIndex ==
    /\ \A d \in Dirs : \A i \in DOMAIN disk[d] : disk[d][i].dir = d
    /\ \A d \in Dirs : lock[d] # NoOne => inner[lock[d]].dir = d
=============================================================================
