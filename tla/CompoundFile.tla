---------------------------- MODULE CompoundFile ----------------------------
(***************************************************************************)
(* write_cfs_streaming packs the sub-files of a merged segment into one    *)
(* .cfs: it measures every source, writes the directory with the offsets   *)
(* that follow, and then copies the sources one by one.  A source that is  *)
(* a temporary file may change size in between.  The reader takes each     *)
(* sub-file to end where the next one starts.                              *)
(***************************************************************************)
EXTENDS SequencesExt, Integers

CONSTANTS Sources,    \* sub-files, a sequence of names
          OnDiskOnes, \* those that are files, the others are in memory
          DirLength,  \* length of the directory
          MaxSize

ASSUME SizeAssumption ==
    /\ MaxSize \in Nat /\ DirLength \in Nat
    /\ Sources \in Seq(Range(Sources))

VARIABLES size,       \* of each source, now
          measured,   \* the lengths taken, in order
          dir,        \* the offsets of the directory, once written
          out,        \* the data written so far: each item names its source
          error, done

vars == <<size, measured, dir, out, error, done>>

Init ==
    /\ size \in [DOMAIN Sources -> 0..MaxSize]
    /\ measured = <<>> /\ dir = <<>> /\ out = <<>>
    /\ error = FALSE /\ done = FALSE

Running == ~error /\ ~done

(* Somebody truncates, extends or replaces a file.                         *)
Resize(i) ==
    /\ Running /\ Sources[i] \in OnDiskOnes
    /\ \E n \in 0..MaxSize : n # size[i] /\ size' = [size EXCEPT ![i] = n]
    /\ UNCHANGED <<measured, dir, out, error, done>>

Measure ==
    /\ Running /\ Len(measured) < Len(Sources)
    /\ measured' = Append(measured, size[Len(measured) + 1])
    /\ UNCHANGED <<size, dir, out, error, done>>

(* Each source starts where the one before it ends.                        *)
Offsets ==
    LET start[i \in DOMAIN Sources] ==
            IF i = 1 THEN DirLength ELSE start[i - 1] + measured[i - 1]
    IN  start

WriteDirectory ==
    /\ Running /\ Len(measured) = Len(Sources) /\ dir = <<>>
    /\ dir' = Offsets
    /\ UNCHANGED <<size, measured, out, error, done>>

(* The sources copied so far.                                              *)
Copied == Len(out)

(* Mutant: the number of bytes copied is not compared.                     *)
CopyUnchecked ==
    /\ Running /\ dir # <<>>
    /\ LET i == Copied + 1
       IN  /\ out' = Append(out, [x \in 1..size[i] |-> Sources[i]])
           /\ error' = FALSE
           /\ done' = (i = Len(Sources))
    /\ UNCHANGED <<size, measured, dir>>

Copy ==
    /\ Running /\ dir # <<>>
    /\ LET i == Copied + 1
       IN  /\ out' = Append(out, [x \in 1..size[i] |-> Sources[i]])
           /\ error' = (size[i] # measured[i])
           /\ done' = (i = Len(Sources) /\ ~error')
    /\ UNCHANGED <<size, measured, dir>>

Next ==
    \/ \E i \in DOMAIN Sources : Resize(i)
    \/ Measure \/ WriteDirectory \/ Copy

Spec == Init /\ [][Next]_vars

-----------------------------------------------------------------------------
(* CompoundFile::open and sub.                                             *)
Data == FlattenSeq(out)

End(i) == IF i < Len(Sources) THEN dir[i + 1] ELSE DirLength + Len(Data)

Opens == \A i \in DOMAIN Sources : dir[i] <= End(i) /\ End(i) <= DirLength + Len(Data)

Sub(i) == SubSeq(Data, dir[i] - DirLength + 1, End(i) - DirLength)

(* A .cfs that was written without an error opens, and each name in it     *)
(* holds all of its own source, whatever happened to the files since they  *)
(* were measured (cfs.rs:57).                                              *)
EachNameHasItsSource ==
    done => /\ Opens
            /\ \A i \in DOMAIN Sources : Sub(i) = [x \in 1..measured[i] |-> Sources[i]]
=============================================================================
