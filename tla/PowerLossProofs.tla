-------------------------- MODULE PowerLossProofs --------------------------
(***************************************************************************)
(* Proof that optimize is durable (OptimizeIsDurable of PowerLoss), on any *)
(* file system whose renames take the content of the file along.           *)
(*                                                                         *)
(* The invariant goes by the set of directories the disk may still hold,   *)
(* and by how far the current call has come.                               *)
(***************************************************************************)
EXTENDS PowerLoss, OrderedLists

(* The directory since it was last synced.                                 *)
Hist == {dirs[i] : i \in 1 .. Len(dirs)}

DirsInv == Len(dirs) \in Nat \ {0} /\ dirs = [i \in 1 .. Len(dirs) |-> dirs[i]]

(* A manifest lists the newest segment, which has the number of its        *)
(* generation plus one: each flip takes one of either.                     *)
Proper(n, c) ==
    \/ n = Gen /\ \E g \in Nat : c = <<"gen", g>>
    \/ \E g \in Nat : /\ n = Manifest(g)
                      /\ \E S \in SUBSET (0 .. (g + 1)) : g + 1 \in S /\ c = <<"segs", S>>
    \/ n[1] = "cfs" /\ c = <<"docs", c[2]>>
    \/ n = Pending /\ c = <<"list", c[2]>> /\ \A x \in c[2] : \E k \in Nat : x = Cfs(k)

IsFcn(f) == f = [x \in DOMAIN f |-> f[x]]

SoundDir(d) ==
    /\ IsFiniteSet(DOMAIN d) /\ IsFcn(d)
    /\ \A n \in DOMAIN d : Proper(n, d[n].content)

Is(d, n, c) == n \in DOMAIN d /\ d[n].content = c

Has(d, n, c) == Is(d, n, c) /\ d[n].safe

GenIs(d, g) == Is(d, Gen, <<"gen", g>>)

(* What is listed for removal is no newer than the newest segment.         *)
ListBelow(list, g) == \A k \in Nat : Cfs(k) \in list => k <= g + 1

PendingInv ==
    \A d, e \in Hist : \A g \in Nat :
        Pending \in DOMAIN d /\ GenIs(e, g) => ListBelow(d[Pending].content[2], g)

-----------------------------------------------------------------------------
(* A commit from generation g of the segments S.                           *)
CommitShape(p, g, S) ==
    /\ Len(p) \in Nat /\ Len(p) >= 4
    /\ p[1] = Create(Cfs(g + 2), <<"docs", {g + 2}>>)
    /\ p[2] = Create(Manifest(g + 1), <<"segs", S \cup {g + 2}>>)
    /\ p[3].op = "tmp"
    /\ p[4] = Rename(Gen, <<"gen", g + 1>>)
    /\ \A i \in 5 .. Len(p) : p[i].op = "remove" /\ p[i].name \notin {Gen, Manifest(g + 1)}

There(d, S) == \A k \in S : Cfs(k) \in DOMAIN d

Docs(d, S) == UNION {d[Cfs(k)].content[2] : k \in S}

CommitStage(g, S) ==
    /\ at <= 3 => GenIs(Dir, g)
    /\ at >= 4 => GenIs(Dir, g + 1)
    /\ at = 0 => There(Dir, S) /\ want = Docs(Dir, S) \cup {g + 2}
    /\ at >= 1 /\ There(Dir, S \cup {g + 2}) => want = Docs(Dir, S \cup {g + 2})
    /\ at >= 2 => Is(Dir, Manifest(g + 1), <<"segs", S \cup {g + 2}>>)

Committing ==
    \E g \in Nat : \E S \in SUBSET (0 .. (g + 1)) :
        g + 1 \in S /\ CommitShape(prog, g, S) /\ CommitStage(g, S)

-----------------------------------------------------------------------------
(* A merge from generation g.                                              *)
MergeTail(s, g) ==
    \/ s.op = "remove" /\ s.name \notin {Gen, Manifest(g + 1), Cfs(g + 2)}
    \/ /\ s.op = "create" /\ s.name = Pending
       /\ Proper(Pending, s.content) /\ ListBelow(s.content[2], g)

MergeShape(p, g, docs) ==
    /\ Len(p) \in Nat /\ Len(p) >= 11
    /\ \A i \in {1, 2, 5, 6, 9} : p[i].op \in {"tmp", "fsync"}
    /\ \A i \in {4, 8, 11} : p[i].op = "syncdir"
    /\ p[3] = Rename(Cfs(g + 2), <<"docs", docs>>)
    /\ p[7] = Rename(Manifest(g + 1), <<"segs", {g + 2}>>)
    /\ p[10] = Rename(Gen, <<"gen", g + 1>>)
    /\ \A i \in 12 .. Len(p) : MergeTail(p[i], g)

NewManifest(d, g) == Has(d, Manifest(g + 1), <<"segs", {g + 2}>>)

MergeStage(g) ==
    /\ at <= 9 => GenIs(Dir, g)
    /\ at >= 3 => Has(Dir, Cfs(g + 2), <<"docs", want>>)
    /\ at >= 7 => NewManifest(Dir, g)
    /\ at >= 10 => Has(Dir, Gen, <<"gen", g + 1>>)
    /\ \A d \in Hist :
        /\ at >= 4 => Has(d, Cfs(g + 2), <<"docs", want>>)
        /\ at >= 8 => NewManifest(d, g)
        /\ at >= 11 => Has(d, Gen, <<"gen", g + 1>>)

(* Until the flip is on disk, the documents of the old generation are.     *)
OldIsThere(d, e, n, g, S) ==
    /\ Has(d, Manifest(g), <<"segs", S>>)
    /\ \A k \in S : Cfs(k) \in DOMAIN e /\ Has(d, Cfs(k), e[Cfs(k)].content)
    /\ Has(d, Gen, <<"gen", g>>) \/ (n = 10 /\ Has(d, Gen, <<"gen", g + 1>>))

OldStays(g) ==
    /\ want = before.docs
    /\ at <= 10 =>
         \E S \in SUBSET (0 .. (g + 1)) :
             (\A d \in Hist : OldIsThere(d, Dir, at, g, S)) /\ before.docs = Docs(Dir, S)

Merging ==
    \E g \in Nat : /\ MergeShape(prog, g, want) /\ MergeStage(g)
                   /\ call = "optimize" /\ before.durable => OldStays(g)

(* An optimize that has not begun to merge, or has nothing to.             *)
Untouched ==
    /\ Hist = {Dir} /\ \A n \in DOMAIN Dir : Dir[n].safe
    /\ want = before.docs

Stage ==
    \/ call = "none" /\ prog = <<>> /\ ~merging
    \/ call = "commit" /\ ~merging /\ Committing
    \/ call = "add and optimize" /\ merging /\ Committing
    \/ call \in {"optimize", "add and optimize"} /\ ~merging /\ Merging
    \/ /\ call = "optimize" /\ prog = <<>>
       /\ Readable(Dir) /\ Documents(Dir) = want
       /\ before.durable => Untouched

PowerInv ==
    /\ DirsInv /\ at \in 0 .. Len(prog) /\ Len(prog) \in Nat
    /\ \A d \in Hist : SoundDir(d)
    /\ PendingInv
    /\ ~lost => Stage
    /\ OptimizeIsDurable

-----------------------------------------------------------------------------
(* Lists of sets: what the fold in Listed computes.                        *)
Some(s) == CHOOSE x \in s : TRUE

ListStep(f, s) == IF s = {} THEN <<>> ELSE Append(f[s \ {Some(s)}], Some(s))

(* The lists of the subsets of a finite set exist.                         *)
LEMMA ListStepsExist ==
  ASSUME NEW S, IsFiniteSet(S)
  PROVE  \E f : f = [s \in SUBSET S |-> ListStep(f, s)]
<1> DEFINE Small(m) == {s \in SUBSET S : Cardinality(s) <= m}
           Upto(m) == \E f : f = [s \in Small(m) |-> ListStep(f, s)]
           T == {m \in Nat : Upto(m)}
<1>1. \A s \in SUBSET S : IsFiniteSet(s) /\ Cardinality(s) \in Nat
  BY FS_Subset, FS_CardinalityType
<1>2. Upto(0)
  <2>1. \A s \in Small(0) : s = {}
    BY <1>1, FS_EmptySet
  <2> DEFINE g == [s \in Small(0) |-> <<>>]
  <2>2. g = [s \in Small(0) |-> ListStep(g, s)]
    BY <2>1 DEF ListStep
  <2> HIDE DEF g
  <2> QED
    BY <2>2
<1>3. ASSUME NEW m \in Nat, Upto(m)
      PROVE  Upto(m + 1)
  <2>1. PICK f : f = [s \in Small(m) |-> ListStep(f, s)]
    BY <1>3
  <2> DEFINE g == [s \in Small(m + 1) |-> IF s \in Small(m) THEN f[s] ELSE ListStep(f, s)]
  <2>2. ASSUME NEW s \in SUBSET S, s # {}, Cardinality(s) <= m + 1
        PROVE  s \ {Some(s)} \in Small(m)
    <3>1. Some(s) \in s
      BY <2>2 DEF Some
    <3>2. Cardinality(s \ {Some(s)}) = Cardinality(s) - 1
      BY <1>1, <3>1, FS_RemoveElement
    <3> QED
      BY <1>1, <2>2, <3>2
  <2>3. ASSUME NEW s \in Small(m + 1)
        PROVE  ListStep(g, s) = ListStep(f, s)
    <3>1. CASE s = {}
      BY <3>1 DEF ListStep
    <3>2. CASE s # {}
      <4> DEFINE r == s \ {Some(s)}
      <4>1. r \in Small(m) /\ r \in Small(m + 1)
        BY <1>1, <2>2, <3>2
      <4>2. g[r] = f[r]
        BY <4>1
      <4> HIDE DEF g
      <4> QED
        BY <3>2, <4>2 DEF ListStep
    <3> QED
      BY <3>1, <3>2
  <2>4. ASSUME NEW s \in Small(m + 1)
        PROVE  g[s] = ListStep(g, s)
    <3>1. s \in Small(m) => f[s] = ListStep(f, s)
      BY <2>1
    <3>2. g[s] = ListStep(f, s)
      BY <3>1
    <3> QED
      BY <2>3, <3>2
  <2>5. g = [s \in Small(m + 1) |-> ListStep(g, s)]
    BY <2>4
  <2> HIDE DEF g
  <2> QED
    BY <2>5
<1>4. Upto(Cardinality(S))
  <2> HIDE DEF Upto
  <2>1. 0 \in T /\ \A m \in Nat : m \in T => m + 1 \in T
    BY <1>2, <1>3
  <2> HIDE DEF T
  <2>2. Nat \subseteq T
    BY <2>1, NaturalInduction
  <2> QED
    BY <1>1, <2>2 DEF T
<1>5. Small(Cardinality(S)) = SUBSET S
  BY <1>1, FS_Subset
<1> QED
  BY <1>4, <1>5

(* Listed takes the elements out of the set one by one.                    *)
LEMMA ListedInSteps ==
  ASSUME NEW S, IsFiniteSet(S)
  PROVE  \E f : /\ f = [s \in SUBSET S |-> ListStep(f, s)]
                /\ Listed(S) = f[S]
<1> DEFINE iter[s \in SUBSET S] ==
               IF s = {} THEN <<>>
               ELSE LET x == CHOOSE x \in s : TRUE IN Append(iter[s \ {x}], x)
<1>1. Listed(S) = iter[S]
  BY DEF Listed, FoldSet, MapThenFoldSet
<1>2. iter = [s \in SUBSET S |-> ListStep(iter, s)]
  BY ListStepsExist DEF ListStep, Some
<1> HIDE DEF iter
<1> QED
  BY <1>1, <1>2

(* A set as a list: its elements, and all of them.                         *)
LEMMA ListedAll ==
  ASSUME NEW S, IsFiniteSet(S)
  PROVE  /\ Listed(S) \in Seq(S)
         /\ \A x \in S : \E i \in 1 .. Len(Listed(S)) : Listed(S)[i] = x
<1> DEFINE Whole(list, s) ==
               list \in Seq(s) /\ \A x \in s : \E i \in 1 .. Len(list) : list[i] = x
<1>1. PICK f : f = [s \in SUBSET S |-> ListStep(f, s)] /\ Listed(S) = f[S]
  BY ListedInSteps
<1> DEFINE T == {m \in Nat : \A s \in SUBSET S : Cardinality(s) = m => Whole(f[s], s)}
<1>2. \A s \in SUBSET S : IsFiniteSet(s) /\ Cardinality(s) \in Nat
  BY FS_Subset, FS_CardinalityType
<1>3. 0 \in T
  <2>1. \A s \in SUBSET S : Cardinality(s) = 0 => s = {} /\ f[s] = <<>>
    BY <1>1, <1>2, FS_EmptySet DEF ListStep
  <2>2. Whole(<<>>, {})
    BY EmptySeq
  <2> QED
    BY <2>1, <2>2
<1>4. ASSUME NEW m \in Nat, m \in T
      PROVE  m + 1 \in T
  <2>1. ASSUME NEW s \in SUBSET S, Cardinality(s) = m + 1
        PROVE  Whole(f[s], s)
    <3> DEFINE x == Some(s)
               r == s \ {x}
    <3>1. s # {}
      BY <2>1, FS_EmptySet
    <3>2. x \in s
      BY <3>1 DEF Some
    <3> HIDE DEF x
    <3>3. r \in SUBSET S /\ Cardinality(r) = m
      BY SMTT(30), <1>2, <2>1, <3>2, FS_RemoveElement
    <3>4. f[s] = Append(f[r], x)
      BY <1>1, <3>1 DEF ListStep, x
    <3>5. Whole(f[r], r)
      BY <1>4, <3>3
    <3>6. f[r] \in Seq(s)
      <4>0. f[r] \in Seq(r)
        BY <3>5
      <4>1. f[r] \in [1 .. Len(f[r]) -> r] /\ Len(f[r]) \in Nat
        BY <4>0, LenProperties
      <4>2. f[r] \in [1 .. Len(f[r]) -> s]
        BY <4>1
      <4> QED
        BY <4>1, <4>2, SeqDef
    <3>7. /\ Append(f[r], x) \in Seq(s)
          /\ Len(Append(f[r], x)) = Len(f[r]) + 1
          /\ Len(f[r]) \in Nat
          /\ \A i \in 1 .. Len(f[r]) : Append(f[r], x)[i] = f[r][i]
          /\ Append(f[r], x)[Len(f[r]) + 1] = x
      <4> DEFINE list == f[r]
      <4>1. list \in Seq(s)
        BY <3>6
      <4> HIDE DEF list, r
      <4>2. Len(list) \in Nat
        BY <4>1, LenProperties
      <4>3. /\ Append(list, x) \in Seq(s)
            /\ Len(Append(list, x)) = Len(list) + 1
            /\ \A i \in 1 .. Len(list) : Append(list, x)[i] = list[i]
            /\ Append(list, x)[Len(list) + 1] = x
        BY <3>2, <4>1, <4>2, AppendProperties
      <4> QED
        BY <4>1, <4>2, <4>3 DEF list
    <3>8. ASSUME NEW y \in s
          PROVE  \E i \in 1 .. Len(f[s]) : f[s][i] = y
      <4>1. CASE y = x
        BY <3>4, <3>7, <4>1
      <4>2. CASE y # x
        <5>1. PICK i \in 1 .. Len(f[r]) : f[r][i] = y
          BY <3>5, <3>8, <4>2
        <5> QED
          BY <3>4, <3>7, <5>1
      <4> QED
        BY <4>1, <4>2
    <3> QED
      BY <3>4, <3>7, <3>8
  <2> QED
    BY <2>1
<1>5. Cardinality(S) \in T
  <2> HIDE DEF T
  <2>1. Nat \subseteq T
    BY <1>3, <1>4, NaturalInduction
  <2> QED
    BY <1>2, <2>1
<1>6. Whole(f[S], S)
  BY <1>5
<1> HIDE DEF T
<1> QED
  BY <1>1, <1>6

-----------------------------------------------------------------------------
(* Disks: what a power loss may leave.                                     *)
DiskStep(f, names, history, n) ==
    IF n = 0 THEN {<<>>}
    ELSE WithName(names[n], f[n - 1], history)

(* The sets of disks up to each name exist.                                *)
LEMMA DiskStepsExist ==
  ASSUME NEW names, NEW history, NEW len \in Nat
  PROVE  \E f : f = [n \in 0 .. len |-> DiskStep(f, names, history, n)]
<1> DEFINE Upto(m) == \E f : f = [n \in 0 .. m |-> DiskStep(f, names, history, n)]
           T == {m \in Nat : Upto(m)}
<1>1. Upto(0)
  <2> DEFINE g == [n \in 0 .. 0 |-> {<<>>}]
  <2>1. g = [n \in 0 .. 0 |-> DiskStep(g, names, history, n)]
    BY DEF DiskStep
  <2> HIDE DEF g
  <2> QED
    BY <2>1
<1>2. ASSUME NEW m \in Nat, Upto(m)
      PROVE  Upto(m + 1)
  <2>1. PICK f : f = [n \in 0 .. m |-> DiskStep(f, names, history, n)]
    BY <1>2
  <2> DEFINE g == [n \in 0 .. (m + 1) |-> IF n = m + 1 THEN DiskStep(f, names, history, n) ELSE f[n]]
  <2>2. ASSUME NEW n \in 0 .. (m + 1)
        PROVE  g[n] = DiskStep(g, names, history, n)
    <3>1. g[n] = DiskStep(f, names, history, n)
      BY <2>1
    <3>2. n # 0 => g[n - 1] = f[n - 1]
      OBVIOUS
    <3> HIDE DEF g
    <3> QED
      BY <3>1, <3>2 DEF DiskStep
  <2>3. g = [n \in 0 .. (m + 1) |-> DiskStep(g, names, history, n)]
    BY <2>2
  <2> HIDE DEF g
  <2> QED
    BY <2>3
<1> HIDE DEF Upto
<1>3. Nat \subseteq T
  <2>1. 0 \in T /\ \A m \in Nat : m \in T => m + 1 \in T
    BY <1>1, <1>2
  <2> HIDE DEF T
  <2> QED
    BY <2>1, NaturalInduction
<1> QED
  BY <1>3 DEF Upto

(* Disks goes through the names one by one.                                *)
LEMMA DisksInSteps ==
  ASSUME NEW history,
         NEW names, names = Listed(UNION {DOMAIN dirs[i] : i \in history}), Len(names) \in Nat
  PROVE  \E f : /\ f = [n \in 0 .. Len(names) |-> DiskStep(f, names, history, n)]
                /\ Disks(history) = f[Len(names)]
<1> DEFINE upTo[n \in 0 .. Len(names)] ==
               IF n = 0 THEN {<<>>}
               ELSE WithName(names[n], upTo[n - 1], history)
<1>1. Disks(history) = upTo[Len(names)]
  BY DEF Disks
<1>2. upTo = [n \in 0 .. Len(names) |-> DiskStep(upTo, names, history, n)]
  <2>1. \E f : f = [n \in 0 .. Len(names) |->
                      IF n = 0 THEN {<<>>} ELSE WithName(names[n], f[n - 1], history)]
    <3>1. PICK f : f = [n \in 0 .. Len(names) |-> DiskStep(f, names, history, n)]
      BY DiskStepsExist
    <3>2. \A n \in 0 .. Len(names) :
            DiskStep(f, names, history, n) =
              IF n = 0 THEN {<<>>} ELSE WithName(names[n], f[n - 1], history)
      BY DEF DiskStep
    <3>3. f = [n \in 0 .. Len(names) |->
                 IF n = 0 THEN {<<>>} ELSE WithName(names[n], f[n - 1], history)]
      BY <3>1, <3>2
    <3> QED
      BY <3>3
  <2>2. upTo = [n \in 0 .. Len(names) |->
                  IF n = 0 THEN {<<>>} ELSE WithName(names[n], upTo[n - 1], history)]
    BY <2>1
  <2> QED
    BY <2>2 DEF DiskStep
<1> HIDE DEF upTo
<1> QED
  BY <1>1, <1>2

(* A disk has every name of the history, with something that was kept.     *)
LEMMA DisksKeep ==
  ASSUME NEW history, NEW d \in Disks(history),
         IsFiniteSet(UNION {DOMAIN dirs[i] : i \in history})
  PROVE  /\ DOMAIN d = UNION {DOMAIN dirs[i] : i \in history}
         /\ \A x \in DOMAIN d : d[x] \in Kept(x, history)
<1> DEFINE all == UNION {DOMAIN dirs[i] : i \in history}
           names == Listed(all)
<1>1. /\ names \in Seq(all) /\ Len(names) \in Nat
      /\ \A i \in 1 .. Len(names) : names[i] \in all
      /\ \A x \in all : \E i \in 1 .. Len(names) : names[i] = x
  <2> HIDE DEF all
  <2>1. names \in Seq(all) /\ \A x \in all : \E i \in 1 .. Len(names) : names[i] = x
    BY ListedAll DEF all
  <2> HIDE DEF names
  <2> QED
    BY <2>1, LenProperties, ElementOfSeq
<1>2. PICK f : /\ f = [n \in 0 .. Len(names) |-> DiskStep(f, names, history, n)]
               /\ Disks(history) = f[Len(names)]
  BY <1>1, DisksInSteps
<1> HIDE DEF names, all
<1> DEFINE Of(e, n) == /\ DOMAIN e = {names[j] : j \in 1 .. n}
                       /\ \A x \in DOMAIN e : e[x] \in Kept(x, history)
           T == {n \in 0 .. Len(names) : \A e \in f[n] : Of(e, n)}
<1>3. 0 \in T
  <2>1. f[0] = {<<>>}
    <3>1. f[0] = DiskStep(f, names, history, 0)
      BY SMTT(30), <1>1, <1>2
    <3> QED
      BY <3>1 DEF DiskStep
  <2>2. \A e \in f[0] : Of(e, 0)
    BY <2>1
  <2> HIDE DEF Of
  <2> QED
    BY <1>1, <2>2
<1>4. ASSUME NEW n \in 0 .. (Len(names) - 1), n \in T
      PROVE  n + 1 \in T
  <2>1. f[n + 1] = WithName(names[n + 1], f[n], history)
    <3>1. n + 1 \in 0 .. Len(names) /\ n + 1 # 0 /\ (n + 1) - 1 = n
      BY <1>1
    <3>2. f[n + 1] = DiskStep(f, names, history, n + 1)
      BY <1>2, <3>1
    <3> QED
      BY <3>1, <3>2 DEF DiskStep
  <2>2. ASSUME NEW e \in f[n], NEW c \in Kept(names[n + 1], history)
        PROVE  Of(Put(e, names[n + 1], c), n + 1)
    <3> DEFINE h == Put(e, names[n + 1], c)
    <3>1. DOMAIN e = {names[j] : j \in 1 .. n} /\ \A x \in DOMAIN e : e[x] \in Kept(x, history)
      BY <1>4
    <3>2. DOMAIN h = {names[n + 1]} \cup DOMAIN e
      BY DEF Put
    <3>3. h[names[n + 1]] = c /\ \A x \in DOMAIN e : x # names[n + 1] => h[x] = e[x]
      BY DEF Put
    <3> HIDE DEF h
    <3>4. DOMAIN h = {names[j] : j \in 1 .. (n + 1)}
      <4>1. 1 .. (n + 1) = (1 .. n) \cup {n + 1}
        BY SMTT(30), <1>1
      <4> QED
        BY <3>1, <3>2, <4>1
    <3>5. \A x \in DOMAIN h : h[x] \in Kept(x, history)
      BY <3>1, <3>2, <3>3
    <3> QED
      BY <3>4, <3>5 DEF h
  <2>3. \A e \in f[n + 1] : Of(e, n + 1)
    <3> HIDE DEF Of
    <3> QED
      BY <2>1, <2>2 DEF WithName
  <2> HIDE DEF Of
  <2> QED
    BY <1>1, <2>3
<1>5. Len(names) \in T
  <2> HIDE DEF T
  <2>1. 0 .. Len(names) \subseteq T
    BY <1>1, <1>3, <1>4, InductionUpTo
  <2> QED
    BY <1>1, <2>1
<1>6. Of(d, Len(names))
  BY <1>2, <1>5
<1>7. {names[j] : j \in 1 .. Len(names)} = all
  BY <1>1
<1> QED
  BY <1>6, <1>7 DEF all

-----------------------------------------------------------------------------
(* Directories                                                             *)

(* The names differ, and a proper content is never torn.                   *)
LEMMA NamesDiffer ==
  /\ \A g \in Nat : Manifest(g) # Gen /\ Manifest(g) # Pending
  /\ \A k \in Nat : Cfs(k) # Gen /\ Cfs(k) # Pending
  /\ \A g, k \in Nat : Manifest(g) # Cfs(k)
  /\ \A g, k \in Nat : Manifest(g) = Manifest(k) => g = k
  /\ \A g, k \in Nat : Cfs(g) = Cfs(k) => g = k
  /\ Gen # Pending
  BY DEF Manifest, Gen, Cfs, Pending

(* A proper content is never torn.                                         *)
LEMMA ProperIsNotTorn ==
  ASSUME NEW n, NEW c, Proper(n, c)
  PROVE  c # Torn
<1>1. Len(Torn) = 1 /\ \A x, y : Len(<<x, y>>) = 2
  BY DEF Torn
<1> QED
  BY <1>1 DEF Proper
  
(* What each name of a sound directory holds.                              *)
LEMMA ProperOf ==
  ASSUME NEW c
  PROVE  /\ Proper(Gen, c) => \E g \in Nat : c = <<"gen", g>>
         /\ \A g \in Nat : Proper(Manifest(g), c) =>
               \E S \in SUBSET (0 .. (g + 1)) : g + 1 \in S /\ c = <<"segs", S>>
         /\ \A k \in Nat : Proper(Cfs(k), c) => c = <<"docs", c[2]>>
  BY DEF Proper, Gen, Manifest, Cfs, Pending

(* What is on the disk in all of the history outlives a power loss, and    *)
(* nothing else comes up.                                                  *)
LEMMA AfterPowerLoss ==
  ASSUME DirsInv, \A d \in Hist : SoundDir(d), PowerLoss
  PROVE  \E d : /\ dirs' = <<d>> /\ SoundDir(d)
                /\ \A n \in DOMAIN d : d[n].safe /\ \E e \in Hist : Is(e, n, d[n].content)
                /\ \A n : (\A e \in Hist : n \in DOMAIN e /\ e[n].safe) => n \in DOMAIN d
<1>1. PICK w \in OnDisk :
        dirs' = <<[n \in {x \in DOMAIN w : w[x] # Torn} |-> [content |-> w[n], safe |-> TRUE]]>>
  BY DEF PowerLoss
<1>2. PICK history \in SUBSET (1 .. Len(dirs)) : history # {} /\ w \in Disks(history)
  <2>1. DOMAIN dirs = 1 .. Len(dirs) /\ 1 \in 1 .. Len(dirs)
    BY DEF DirsInv
  <2>2. CASE MetadataOrdered
    <3>1. PICK i \in 1 .. Len(dirs) : w \in Disks({i})
      BY <2>1, <2>2 DEF OnDisk
    <3>2. {i} \in SUBSET (1 .. Len(dirs)) /\ {i} # {}
      OBVIOUS
    <3> QED
      BY <3>1, <3>2
  <2>3. CASE ~MetadataOrdered
    BY <2>1, <2>3 DEF OnDisk
  <2> QED
    BY <2>2, <2>3
<1> DEFINE all == UNION {DOMAIN dirs[i] : i \in history}
           d == [n \in {x \in DOMAIN w : w[x] # Torn} |-> [content |-> w[n], safe |-> TRUE]]
<1>3. \A i \in history : dirs[i] \in Hist
  BY DEF Hist
<1>4. IsFiniteSet(all)
  <2>1. IsFiniteSet(history)
    <3>1. IsFiniteSet(1 .. Len(dirs))
      <4>1. 1 \in Int /\ Len(dirs) \in Int
        BY DEF DirsInv
      <4> QED
        BY <4>1, FS_Interval
    <3> QED
      BY <3>1, FS_Subset
  <2>2. IsFiniteSet({DOMAIN dirs[i] : i \in history})
    <3> DEFINE X == {DOMAIN dirs[i] : i \in history}
               doms == [i \in history |-> DOMAIN dirs[i]]
    <3>1. doms \in Surjection(history, X)
      BY DEF Surjection
    <3> HIDE DEF doms, X
    <3>2. IsFiniteSet(X)
      BY <2>1, <3>1, FS_Surjection
    <3> QED
      BY <3>2 DEF X
  <2>3. \A X \in {DOMAIN dirs[i] : i \in history} : IsFiniteSet(X)
    BY <1>3 DEF SoundDir
  <2> QED
    BY <2>2, <2>3, FS_UNION
<1>5. DOMAIN w = all /\ \A x \in DOMAIN w : w[x] \in Kept(x, history)
  BY <1>2, <1>4, DisksKeep
<1>6. ASSUME NEW n \in DOMAIN d
      PROVE  d[n].safe /\ d[n].content = w[n] /\ \E e \in Hist : Is(e, n, w[n])
  <2>1. n \in DOMAIN w /\ w[n] # Torn
    OBVIOUS
  <2>2. PICK i \in history : w[n] \in (IF n \notin DOMAIN dirs[i] THEN {Torn}
                                      ELSE {dirs[i][n].content} \cup (IF dirs[i][n].safe THEN {} ELSE {Torn}))
    BY ZenonT(60), <1>5, <2>1 DEF Kept
  <2>3. n \in DOMAIN dirs[i] /\ w[n] = dirs[i][n].content
    BY <2>1, <2>2
  <2> QED
    BY <1>3, <2>3 DEF Is
<1>7. ASSUME NEW n, \A e \in Hist : n \in DOMAIN e /\ e[n].safe
      PROVE  n \in DOMAIN d
  <2>1. n \in DOMAIN w
    BY <1>2, <1>3, <1>5, <1>7
  <2>2. PICK i \in history : w[n] \in (IF n \notin DOMAIN dirs[i] THEN {Torn}
                                      ELSE {dirs[i][n].content} \cup (IF dirs[i][n].safe THEN {} ELSE {Torn}))
    BY <1>5, <2>1 DEF Kept
  <2>3. w[n] = dirs[i][n].content /\ Proper(n, dirs[i][n].content)
    BY <1>3, <1>7, <2>2 DEF SoundDir
  <2> QED
    BY <2>1, <2>3, ProperIsNotTorn
<1>8. SoundDir(d)
  <2>1. IsFiniteSet(DOMAIN d)
    BY <1>4, <1>5, FS_Subset
  <2>2. \A n \in DOMAIN d : Proper(n, d[n].content)
    BY <1>6 DEF SoundDir, Is
  <2>3. IsFcn(d)
    BY DEF IsFcn
  <2> QED
    BY <2>1, <2>2, <2>3 DEF SoundDir
<1> HIDE DEF d
<1> QED
  BY <1>1, <1>6, <1>7, <1>8 DEF d

(* What a readable directory holds.                                        *)
LEMMA ReadableMeans ==
  ASSUME NEW d, SoundDir(d), Readable(d)
  PROVE  \E g \in Nat : \E S \in SUBSET (0 .. (g + 1)) :
            /\ g + 1 \in S
            /\ GenIs(d, g) /\ Is(d, Manifest(g), <<"segs", S>>) /\ There(d, S)
            /\ Generation(d) = <<"gen", g>> /\ Segments(d) = S
            /\ Documents(d) = Docs(d, S) /\ NextName(d) = g + 2
<1>1. Gen \in DOMAIN d /\ Generation(d) = d[Gen].content
  BY DEF Readable, Generation, Content
<1>2. PICK g \in Nat : d[Gen].content = <<"gen", g>>
  BY <1>1, ProperOf DEF SoundDir
<1>3. Generation(d)[2] = g
  BY <1>1, <1>2
<1>4. Manifest(g) \in DOMAIN d /\ Content(d, Manifest(g)) = d[Manifest(g)].content
  BY <1>3 DEF Readable, Content
<1>5. PICK S \in SUBSET (0 .. (g + 1)) : g + 1 \in S /\ d[Manifest(g)].content = <<"segs", S>>
  BY <1>4, ProperOf DEF SoundDir
<1>6. Segments(d) = S
  BY <1>3, <1>4, <1>5 DEF Segments
<1>7. \A k \in S : Cfs(k) \in DOMAIN d /\ Content(d, Cfs(k)) = d[Cfs(k)].content
  BY <1>6 DEF Readable, Content
<1>8. Documents(d) = Docs(d, S)
  BY <1>6, <1>7 DEF Documents, Docs
<1>9. NextName(d) = g + 2
  <2>1. \A x \in S : g + 1 >= x
    BY <1>5
  <2>2. Max(S) = g + 1
    <3> DEFINE P(x) == \A y \in S : x >= y
    <3>1. g + 1 \in S /\ P(g + 1)
      BY <1>5, <2>1
    <3>2. \A x \in S : P(x) => x = g + 1
      BY <1>5, <2>1
    <3>3. Max(S) = CHOOSE x \in S : P(x)
      BY DEF Max
    <3> HIDE DEF P
    <3>4. Max(S) \in S /\ P(Max(S))
      BY <3>1, <3>3
    <3> QED
      BY <3>2, <3>4
  <2> QED
    BY <1>6, <2>2 DEF NextName
<1> QED
  BY <1>1, <1>2, <1>4, <1>5, <1>6, <1>7, <1>8, <1>9 DEF GenIs, Is, There

(* When a sound directory is readable.                                     *)
LEMMA ReadableIf ==
  ASSUME NEW d, SoundDir(d), NEW g \in Nat, NEW S \in SUBSET Nat,
         GenIs(d, g), Is(d, Manifest(g), <<"segs", S>>), There(d, S)
  PROVE  Readable(d) /\ Documents(d) = Docs(d, S)
<1>1. Content(d, Gen) = <<"gen", g>> /\ Content(d, Manifest(g)) = <<"segs", S>>
  BY DEF GenIs, Is, Content
<1>2. \A k \in S : Cfs(k) \in DOMAIN d /\ Content(d, Cfs(k)) = d[Cfs(k)].content
  BY DEF There, Content
<1>3. Generation(d)[2] = g /\ Segments(d) = S
  BY <1>1 DEF Generation, Segments
<1>4. \A n \in DOMAIN d : d[n].content # Torn
  BY ProperIsNotTorn DEF SoundDir
<1>5. Readable(d)
  <2>1. Gen \in DOMAIN d /\ Manifest(g) \in DOMAIN d
    BY DEF GenIs, Is
  <2>2. Content(d, Gen) # Torn /\ Content(d, Manifest(g)) # Torn
    BY <1>4, <2>1 DEF Content
  <2> QED
    BY <1>2, <1>3, <1>4, <2>2 DEF Readable, Generation
<1>6. Documents(d) = Docs(d, S)
  BY <1>2, <1>3 DEF Documents, Docs
<1> QED
  BY <1>5, <1>6

(* The documents of segments whose files are the same.                     *)
LEMMA DocsSame ==
  ASSUME NEW d, NEW e, NEW S, \A k \in S : d[Cfs(k)].content = e[Cfs(k)].content
  PROVE  Docs(d, S) = Docs(e, S)
  BY DEF Docs

(* Dir is the last of the history.                                         *)
LEMMA DirIsLast ==
  ASSUME DirsInv
  PROVE  Dir \in Hist /\ Dir = dirs[Len(dirs)]
<1>1. Dir = dirs[Len(dirs)]
  BY DEF Dir, Last
<1>2. Len(dirs) \in 1 .. Len(dirs)
  BY DEF DirsInv
<1> QED
  BY <1>1, <1>2 DEF Hist

(* A history of one directory.                                             *)
LEMMA OneDir ==
  ASSUME NEW d, dirs' = <<d>>
  PROVE  DirsInv' /\ Hist' = {d} /\ Dir' = d
<1>1. Len(dirs') = 1 /\ dirs'[1] = d /\ dirs' = [i \in 1 .. Len(dirs') |-> dirs'[i]]
  OBVIOUS
<1>2. DirsInv'
  BY <1>1 DEF DirsInv
<1>3. Hist' = {d}
  BY <1>1 DEF Hist
<1>4. Dir' = d
  BY <1>1 DEF Dir, Last
<1> QED
  BY <1>2, <1>3, <1>4

(* A step works on the last directory, and a sync forgets the others.      *)
LEMMA StepDirs ==
  ASSUME DirsInv, Step
  PROVE  LET s == prog[at + 1]
         IN  /\ DirsInv' /\ Dir' = Apply(s, Dir)
             /\ Hist' \subseteq Hist \cup {Dir'}
             /\ s.op = "syncdir" => Hist' = {Dir'}
<1> DEFINE s == prog[at + 1]
           e == Apply(s, Dir)
<1>1. dirs' = IF s.op = "syncdir" THEN <<Dir>> ELSE IF e = Dir THEN dirs ELSE Append(dirs, e)
  BY DEF Step
<1>2. s.op = "syncdir" => e = Dir
  BY DEF Apply
<1>3. Dir \in Hist
  BY DirIsLast
<1> HIDE DEF s, e
<1>4. CASE s.op = "syncdir"
  <2>1. dirs' = <<Dir>>
    BY <1>1, <1>4
  <2> QED
    BY <1>2, <1>4, <2>1, OneDir DEF s, e
<1>5. CASE s.op # "syncdir" /\ e = Dir
  <2>1. dirs' = dirs
    BY <1>1, <1>5
  <2>2. DirsInv' /\ Dir' = Dir /\ Hist' = Hist
    BY <2>1 DEF DirsInv, Dir, Hist
  <2> QED
    BY <1>5, <2>2 DEF s, e
<1>6. CASE s.op # "syncdir" /\ e # Dir
  <2>1. dirs' = Append(dirs, e)
    BY <1>1, <1>6
  <2> DEFINE n == Len(dirs)
             X == Hist \cup {e}
  <2>2. dirs \in Seq(X) /\ n \in Nat
    <3>1. n \in Nat /\ dirs \in [1 .. n -> X]
      BY DEF DirsInv, Hist
    <3> QED
      BY <3>1, SeqDef
  <2>3. /\ Len(dirs') = n + 1 /\ dirs' \in Seq(X)
        /\ \A i \in 1 .. n : dirs'[i] = dirs[i]
        /\ dirs'[n + 1] = e
    BY <2>1, <2>2, AppendProperties
  <2>4. DirsInv'
    <3>1. dirs' \in [1 .. Len(dirs') -> X]
      BY <2>3, LenProperties
    <3> QED
      BY <2>2, <2>3, <3>1 DEF DirsInv
  <2>5. Dir' = e
    BY <2>3 DEF Dir, Last
  <2>6. Hist' \subseteq Hist \cup {e}
    <3> SUFFICES ASSUME NEW i \in 1 .. Len(dirs')
                 PROVE  dirs'[i] \in Hist \cup {e}
      BY DEF Hist
    <3>1. i \in 1 .. n \/ i = n + 1
      BY <2>2, <2>3
    <3> QED
      BY <2>3, <3>1 DEF Hist
  <2> QED
    BY <1>6, <2>4, <2>5, <2>6 DEF s, e
<1> QED
  BY <1>4, <1>5, <1>6

(* What the steps do to a directory.                                       *)
Created(s, d, e) ==
    /\ DOMAIN e = DOMAIN d \cup {s.name}
    /\ e[s.name].content = s.content /\ (s.op = "rename" => e[s.name].safe)
    /\ \A n \in DOMAIN d : n # s.name => e[n] = d[n]
    /\ IsFcn(e)

Removed(s, d, e) ==
    /\ DOMAIN e = DOMAIN d \ {s.name}
    /\ \A n \in DOMAIN e : e[n] = d[n]
    /\ IsFcn(e)

Creates(s) == s.op = "create" \/ (s.op = "rename" /\ DataOrdered)

(* A file created, or renamed along with its content, is under its name.   *)
LEMMA ApplyCreate ==
  ASSUME NEW s, NEW d, Creates(s)
  PROVE  Created(s, d, Apply(s, d))
<1> DEFINE e == Apply(s, d)
<1>0. s.op = "create" \/ (s.op = "rename" /\ DataOrdered)
  BY DEF Creates
<1>1. PICK file : file.content = s.content /\ (s.op = "rename" => file.safe) /\ e = Put(d, s.name, file)
  <2>1. CASE s.op = "create"
    BY <2>1 DEF Apply
  <2>2. CASE s.op = "rename" /\ DataOrdered
    <3> DEFINE file == [content |-> s.content, safe |-> synced \/ DataOrdered]
    <3>1. e = Put(d, s.name, file)
      BY <2>2 DEF Apply
    <3>2. file.content = s.content /\ file.safe
      BY <2>2
    <3> QED
      BY <3>1, <3>2
  <2> QED
    BY <1>0, <2>1, <2>2
<1>2. e = [n \in DOMAIN d \cup {s.name} |-> IF n = s.name THEN file ELSE d[n]]
  BY <1>1 DEF Put
<1>3. DOMAIN e = DOMAIN d \cup {s.name}
  BY <1>2
<1>4. e[s.name] = file /\ \A n \in DOMAIN d : n # s.name => e[n] = d[n]
  BY <1>2
<1>5. IsFcn(e)
  BY <1>2 DEF IsFcn
<1> HIDE DEF e
<1>6. Created(s, d, e)
  BY <1>1, <1>3, <1>4, <1>5 DEF Created
<1> QED
  BY <1>6 DEF e

(* A removal takes one name away.                                          *)
LEMMA ApplyRemove ==
  ASSUME NEW s, NEW d, s.op = "remove"
  PROVE  Removed(s, d, Apply(s, d))
<1> DEFINE e == Apply(s, d)
<1>1. e = Restrict(d, DOMAIN d \ {s.name})
  BY DEF Apply
<1>2. e = [n \in DOMAIN d \ {s.name} |-> d[n]]
  BY <1>1 DEF Restrict
<1>3. DOMAIN e = DOMAIN d \ {s.name}
  BY <1>2
<1>4. \A n \in DOMAIN e : e[n] = d[n]
  BY <1>2
<1>5. IsFcn(e)
  BY <1>2 DEF IsFcn
<1> HIDE DEF e
<1>6. Removed(s, d, e)
  BY <1>3, <1>4, <1>5 DEF Removed
<1> QED
  BY <1>6 DEF e

(* The other steps leave the directory as it is.                           *)
LEMMA ApplyOther ==
  ASSUME NEW s, NEW d, s.op \in {"tmp", "fsync", "syncdir"}
  PROVE  Apply(s, d) = d
  BY DEF Apply

(* A sound directory stays sound.                                          *)
LEMMA SoundCreate ==
  ASSUME NEW s, NEW d, NEW e, Created(s, d, e), SoundDir(d), Proper(s.name, s.content)
  PROVE  SoundDir(e)
<1>1. /\ DOMAIN e = DOMAIN d \cup {s.name}
      /\ e[s.name].content = s.content
      /\ \A n \in DOMAIN d : n # s.name => e[n] = d[n]
      /\ IsFcn(e)
  BY DEF Created
<1>2. IsFiniteSet(DOMAIN e)
  BY <1>1, FS_AddElement DEF SoundDir
<1>3. \A n \in DOMAIN e : Proper(n, e[n].content)
  BY <1>1 DEF SoundDir
<1> QED
  BY <1>1, <1>2, <1>3 DEF SoundDir

(* It does so without one of its files, too.                               *)
LEMMA SoundRemove ==
  ASSUME NEW s, NEW d, NEW e, Removed(s, d, e), SoundDir(d)
  PROVE  SoundDir(e)
<1>1. /\ DOMAIN e = DOMAIN d \ {s.name}
      /\ \A n \in DOMAIN e : e[n] = d[n]
      /\ IsFcn(e)
  BY DEF Removed
<1>2. IsFiniteSet(DOMAIN e)
  BY <1>1, FS_RemoveElement DEF SoundDir
<1>3. \A n \in DOMAIN e : Proper(n, e[n].content)
  BY <1>1 DEF SoundDir
<1> QED
  BY <1>1, <1>2, <1>3 DEF SoundDir

(* Lists stay below the newest segment while generation and list stay.     *)
LEMMA PendingKeeps ==
  ASSUME DirsInv, PendingInv, Hist' \subseteq Hist \cup {Dir'},
         \A n \in {Gen, Pending} : n \in DOMAIN Dir' => n \in DOMAIN Dir /\ Dir'[n].content = Dir[n].content
  PROVE  PendingInv'
<1> SUFFICES ASSUME NEW d \in Hist', NEW e \in Hist', NEW g \in Nat,
                    Pending \in DOMAIN d, GenIs(e, g)
             PROVE  ListBelow(d[Pending].content[2], g)
  BY DEF PendingInv
<1>1. Dir \in Hist
  BY DirIsLast
<1>2. PICK d0 \in Hist : Pending \in DOMAIN d0 /\ d0[Pending].content = d[Pending].content
  BY <1>1
<1>3. PICK e0 \in Hist : GenIs(e0, g)
  BY <1>1 DEF GenIs, Is
<1> QED
  BY <1>2, <1>3 DEF PendingInv

(* They do when the generation is flipped to the next.                     *)
LEMMA NextGeneration ==
  ASSUME DirsInv, PendingInv, Hist' \subseteq Hist \cup {Dir'}, NEW g \in Nat, GenIs(Dir, g),
         NEW s, Created(s, Dir, Dir'), s.name = Gen, s.content = <<"gen", g + 1>>
  PROVE  PendingInv'
<1> SUFFICES ASSUME NEW d \in Hist', NEW e \in Hist', NEW h \in Nat,
                    Pending \in DOMAIN d, GenIs(e, h)
             PROVE  ListBelow(d[Pending].content[2], h)
  BY DEF PendingInv
<1>1. Dir \in Hist
  BY DirIsLast
<1>2. PICK d0 \in Hist : Pending \in DOMAIN d0 /\ d0[Pending].content = d[Pending].content
  BY <1>1, NamesDiffer DEF Created
<1>3. CASE e \in Hist
  BY <1>2, <1>3 DEF PendingInv
<1>4. CASE e = Dir'
  <2>1. ListBelow(d[Pending].content[2], g)
    BY <1>1, <1>2 DEF PendingInv
  <2>2. h = g + 1
    BY <1>4 DEF Created, GenIs, Is
  <2> QED
    BY <2>1, <2>2 DEF ListBelow
<1> QED
  BY <1>3, <1>4

-----------------------------------------------------------------------------
(* The steps of a commit                                                   *)

(* Files of older segments stay the same when a name other than theirs is  *)
(* created.                                                                *)
LEMMA CreatedElsewhere ==
  ASSUME NEW s, NEW d, NEW e, Created(s, d, e), NEW S, \A k \in S : Cfs(k) # s.name
  PROVE  /\ There(d, S) <=> There(e, S)
         /\ There(d, S) => Docs(e, S) = Docs(d, S)
<1>1. /\ DOMAIN e = DOMAIN d \cup {s.name}
      /\ \A n \in DOMAIN d : n # s.name => e[n] = d[n]
  BY DEF Created
<1>2. There(d, S) <=> There(e, S)
  BY <1>1 DEF There
<1>3. ASSUME There(d, S)
      PROVE  Docs(e, S) = Docs(d, S)
  <2>1. \A k \in S : e[Cfs(k)].content = d[Cfs(k)].content
    BY <1>1, <1>3 DEF There
  <2> QED
    BY <2>1, DocsSame
<1> QED
  BY <1>2, <1>3

(* What a removal leaves is as it was.                                     *)
LEMMA RemovedElsewhere ==
  ASSUME NEW s, NEW d, NEW e, Removed(s, d, e), NEW S, There(e, S)
  PROVE  There(d, S) /\ Docs(e, S) = Docs(d, S)
<1>1. DOMAIN e \subseteq DOMAIN d /\ \A n \in DOMAIN e : e[n] = d[n]
  BY DEF Removed
<1>2. \A k \in S : e[Cfs(k)].content = d[Cfs(k)].content
  BY <1>1 DEF There
<1>3. There(d, S)
  BY <1>1 DEF There
<1> QED
  BY <1>2, <1>3, DocsSame

(* One step of a commit.                                                   *)
LEMMA CommitStep ==
  ASSUME PowerInv, Committing, Step, DataOrdered
  PROVE  Committing' /\ SoundDir(Dir') /\ PendingInv'
<1> DEFINE s == prog[at + 1]
           n == at
<1>1. /\ Dir' = Apply(s, Dir) /\ Hist' \subseteq Hist \cup {Dir'} /\ Dir \in Hist
      /\ DirsInv /\ SoundDir(Dir) /\ PendingInv
  BY StepDirs, DirIsLast DEF PowerInv
<1>0. PICK g \in Nat : \E S \in SUBSET (0 .. (g + 1)) :
        g + 1 \in S /\ CommitShape(prog, g, S) /\ CommitStage(g, S)
  BY DEF Committing
<1>2. PICK S \in SUBSET (0 .. (g + 1)) :
        g + 1 \in S /\ CommitShape(prog, g, S) /\ CommitStage(g, S)
  BY <1>0
<1>3. at' = n + 1 /\ prog' = prog /\ want' = want /\ n \in 0 .. (Len(prog) - 1) /\ Len(prog) \in Nat
  BY DEF Step, PowerInv
<1> DEFINE T == S \cup {g + 2}
           m == Manifest(g + 1)
<1>4. CommitShape(prog, g, S)'
  BY <1>2, <1>3 DEF CommitShape
<1>5. /\ \A k \in T : k \in Nat /\ Cfs(k) # Gen /\ Cfs(k) # m /\ Cfs(k) # Pending
      /\ \A k \in S : Cfs(k) # Cfs(g + 2)
      /\ m # Gen /\ m # Pending /\ Gen # Pending
      /\ \A k : Proper(Cfs(k), <<"docs", {k}>>)
  <2>1. \A k \in T : k \in Nat
    BY <1>2
  <2>2. g + 1 \in Nat /\ g + 2 \in Nat /\ \A k \in S : k # g + 2
    BY <1>2
  <2>3. \A k : Proper(Cfs(k), <<"docs", {k}>>)
    BY DEF Proper, Cfs
  <2> QED
    BY <2>1, <2>2, <2>3, NamesDiffer
<1>6. CASE n = 0
  <2>1. s = Create(Cfs(g + 2), <<"docs", {g + 2}>>)
    BY <1>2, <1>6 DEF CommitShape
  <2>2. s.op = "create" /\ s.name = Cfs(g + 2) /\ s.content = <<"docs", {g + 2}>>
    BY <2>1 DEF Create
  <2>3. Created(s, Dir, Dir')
    BY <1>1, <2>2, ApplyCreate DEF Creates
  <2>4. There(Dir, S) /\ want = Docs(Dir, S) \cup {g + 2} /\ GenIs(Dir, g)
    BY <1>2, <1>6 DEF CommitStage
  <2>5. Docs(Dir', S) = Docs(Dir, S)
    <3>1. \A k \in S : Cfs(k) # s.name
      BY <1>5, <2>2
    <3> QED
      BY <2>3, <2>4, <3>1, CreatedElsewhere
  <2>6. Dir'[Cfs(g + 2)].content[2] = {g + 2}
    BY <2>2, <2>3 DEF Created
  <2>7. Docs(Dir', T) = Docs(Dir', S) \cup {g + 2}
    BY <2>6 DEF Docs
  <2>8. GenIs(Dir', g)
    BY <1>5, <2>2, <2>3, <2>4 DEF Created, GenIs, Is
  <2>9. CommitStage(g, S)'
    BY <1>3, <1>6, <2>4, <2>5, <2>7, <2>8 DEF CommitStage
  <2>10. SoundDir(Dir')
    <3>1. Proper(s.name, s.content)
      BY <1>5, <2>2
    <3> QED
      BY <1>1, <2>3, <3>1, SoundCreate
  <2>11. PendingInv'
    <3>1. \A x \in {Gen, Pending} : x \in DOMAIN Dir' => x \in DOMAIN Dir /\ Dir'[x].content = Dir[x].content
      BY <1>5, <2>2, <2>3 DEF Created
    <3> QED
      BY <1>1, <3>1, PendingKeeps
  <2> QED
    BY <1>2, <1>4, <2>9, <2>10, <2>11 DEF Committing
<1>7. CASE n = 1
  <2>1. s = Create(m, <<"segs", T>>)
    BY <1>2, <1>7 DEF CommitShape
  <2>2. s.op = "create" /\ s.name = m /\ s.content = <<"segs", T>>
    BY <2>1 DEF Create
  <2>3. Created(s, Dir, Dir')
    BY <1>1, <2>2, ApplyCreate DEF Creates
  <2>4. GenIs(Dir, g) /\ (There(Dir, T) => want = Docs(Dir, T))
    BY <1>2, <1>7 DEF CommitStage
  <2>5. There(Dir', T) => want = Docs(Dir', T)
    <3>1. \A k \in T : Cfs(k) # s.name
      BY <1>5, <2>2
    <3> HIDE DEF T
    <3>2. (There(Dir, T) <=> There(Dir', T)) /\ (There(Dir, T) => Docs(Dir', T) = Docs(Dir, T))
      BY <2>3, <3>1, CreatedElsewhere
    <3> QED
      BY <2>4, <3>2
  <2>6. Is(Dir', m, <<"segs", T>>)
    BY <2>2, <2>3 DEF Created, Is
  <2>7. GenIs(Dir', g)
    BY <1>5, <2>2, <2>3, <2>4 DEF Created, GenIs, Is
  <2>8. CommitStage(g, S)'
    BY <1>3, <1>7, <2>5, <2>6, <2>7 DEF CommitStage
  <2>9. SoundDir(Dir')
    <3>1. T \in SUBSET (0 .. ((g + 1) + 1)) /\ (g + 1) + 1 \in T /\ g + 1 \in Nat
      BY <1>2
    <3>2. Proper(m, <<"segs", T>>)
      BY <3>1 DEF Proper
    <3> QED
      BY <1>1, <2>2, <2>3, <3>2, SoundCreate
  <2>10. PendingInv'
    <3>1. \A x \in {Gen, Pending} : x \in DOMAIN Dir' => x \in DOMAIN Dir /\ Dir'[x].content = Dir[x].content
      BY <1>5, <2>2, <2>3 DEF Created
    <3> QED
      BY <1>1, <3>1, PendingKeeps
  <2> QED
    BY <1>2, <1>4, <2>8, <2>9, <2>10 DEF Committing
<1>8. CASE n = 2
  <2>1. Dir' = Dir
    BY <1>1, <1>2, <1>8, ApplyOther DEF CommitShape
  <2>2. CommitStage(g, S)'
    BY <1>2, <1>3, <1>8, <2>1 DEF CommitStage
  <2>3. PendingInv'
    BY <1>1, <2>1, PendingKeeps
  <2> QED
    BY <1>1, <1>2, <1>4, <2>1, <2>2, <2>3 DEF Committing
<1>9. CASE n = 3
  <2>1. s = Rename(Gen, <<"gen", g + 1>>)
    BY <1>2, <1>9 DEF CommitShape
  <2>2. s.op = "rename" /\ s.name = Gen /\ s.content = <<"gen", g + 1>>
    BY <2>1 DEF Rename
  <2>3. Created(s, Dir, Dir')
    BY <1>1, <2>2, ApplyCreate DEF Creates
  <2>4. GenIs(Dir, g) /\ (There(Dir, T) => want = Docs(Dir, T)) /\ Is(Dir, m, <<"segs", T>>)
    BY <1>2, <1>9 DEF CommitStage
  <2>5. There(Dir', T) => want = Docs(Dir', T)
    <3>1. \A k \in T : Cfs(k) # s.name
      BY <1>5, <2>2
    <3> HIDE DEF T
    <3>2. (There(Dir, T) <=> There(Dir', T)) /\ (There(Dir, T) => Docs(Dir', T) = Docs(Dir, T))
      BY <2>3, <3>1, CreatedElsewhere
    <3> QED
      BY <2>4, <3>2
  <2>6. Is(Dir', m, <<"segs", T>>)
    BY <1>5, <2>2, <2>3, <2>4 DEF Created, Is
  <2>7. GenIs(Dir', g + 1)
    BY <2>2, <2>3 DEF Created, GenIs, Is
  <2>8. CommitStage(g, S)'
    BY <1>3, <1>9, <2>5, <2>6, <2>7 DEF CommitStage
  <2>9. SoundDir(Dir')
    <3>1. Proper(Gen, <<"gen", g + 1>>)
      BY DEF Proper
    <3> QED
      BY <1>1, <2>2, <2>3, <3>1, SoundCreate
  <2>10. PendingInv'
    BY <1>1, <2>2, <2>3, <2>4, NextGeneration
  <2> QED
    BY <1>2, <1>4, <2>8, <2>9, <2>10 DEF Committing
<1>10. CASE n >= 4
  <2>1. s.op = "remove" /\ s.name \notin {Gen, m}
    BY SMTT(30), <1>2, <1>3, <1>10 DEF CommitShape
  <2>2. Removed(s, Dir, Dir')
    BY <1>1, <2>1, ApplyRemove
  <2>3. GenIs(Dir, g + 1) /\ (There(Dir, T) => want = Docs(Dir, T)) /\ Is(Dir, m, <<"segs", T>>)
    BY <1>2, <1>3, <1>10 DEF CommitStage
  <2>4. There(Dir', T) => want = Docs(Dir', T)
    BY <2>2, <2>3, RemovedElsewhere
  <2>5. GenIs(Dir', g + 1) /\ Is(Dir', m, <<"segs", T>>)
    BY <2>1, <2>2, <2>3 DEF Removed, GenIs, Is
  <2>6. CommitStage(g, S)'
    BY <1>3, <1>10, <2>4, <2>5 DEF CommitStage
  <2>7. SoundDir(Dir')
    BY <1>1, <2>2, SoundRemove
  <2>8. PendingInv'
    <3>1. \A x \in {Gen, Pending} : x \in DOMAIN Dir' => x \in DOMAIN Dir /\ Dir'[x].content = Dir[x].content
      BY <2>2 DEF Removed
    <3> QED
      BY <1>1, <3>1, PendingKeeps
  <2> QED
    BY <1>2, <1>4, <2>6, <2>7, <2>8 DEF Committing
<1> QED
  BY <1>3, <1>6, <1>7, <1>8, <1>9, <1>10

-----------------------------------------------------------------------------
(* The steps of a merge                                                    *)

(* The old generation stays in every directory until the flip is synced.   *)
LEMMA OldKeeps ==
  ASSUME NEW g \in Nat, OldStays(g), at \in Nat, at <= 9, at' = at + 1,
         want' = want, before' = before,
         Dir \in Hist, Hist' \subseteq Hist \cup {Dir'},
         \A x \in DOMAIN Dir :
            x \notin {Gen, Manifest(g + 1), Cfs(g + 2)} => x \in DOMAIN Dir' /\ Dir'[x] = Dir[x],
         \/ Gen \in DOMAIN Dir => Gen \in DOMAIN Dir' /\ Dir'[Gen] = Dir[Gen]
         \/ at = 9 /\ Has(Dir', Gen, <<"gen", g + 1>>)
  PROVE  OldStays(g)'
<1>1. PICK S \in SUBSET (0 .. (g + 1)) :
        (\A d \in Hist : OldIsThere(d, Dir, at, g, S)) /\ before.docs = Docs(Dir, S)
  BY DEF OldStays
<1>2. /\ Manifest(g) \notin {Gen, Manifest(g + 1), Cfs(g + 2)}
      /\ \A k \in S : Cfs(k) \notin {Gen, Manifest(g + 1), Cfs(g + 2)}
  <2>1. g \in Nat /\ g + 1 \in Nat /\ g + 2 \in Nat /\ g # g + 1
    OBVIOUS
  <2>2. \A k \in S : k \in Nat /\ k # g + 2
    BY <1>1
  <2> QED
    BY <2>1, <2>2, NamesDiffer
<1>3. \A k \in S : /\ Cfs(k) \in DOMAIN Dir /\ Cfs(k) \in DOMAIN Dir'
                   /\ Dir'[Cfs(k)] = Dir[Cfs(k)]
  BY <1>1, <1>2 DEF OldIsThere
<1>4. \A d \in Hist : OldIsThere(d, Dir', at', g, S)
  <2> SUFFICES ASSUME NEW d \in Hist
               PROVE  OldIsThere(d, Dir', at', g, S)
    OBVIOUS
  <2>1. Has(d, Manifest(g), <<"segs", S>>) /\ Has(d, Gen, <<"gen", g>>)
    BY <1>1 DEF OldIsThere
  <2>2. \A k \in S : Cfs(k) \in DOMAIN Dir' /\ Has(d, Cfs(k), Dir'[Cfs(k)].content)
    BY <1>1, <1>3 DEF OldIsThere
  <2> QED
    BY <2>1, <2>2 DEF OldIsThere
<1>5. OldIsThere(Dir', Dir', at', g, S)
  <2>1. Has(Dir, Manifest(g), <<"segs", S>>) /\ Has(Dir, Gen, <<"gen", g>>)
    BY <1>1 DEF OldIsThere
  <2>2. Has(Dir', Manifest(g), <<"segs", S>>)
    BY <1>2, <2>1 DEF Has, Is
  <2>3. \A k \in S : Cfs(k) \in DOMAIN Dir' /\ Has(Dir', Cfs(k), Dir'[Cfs(k)].content)
    BY <1>1, <1>3 DEF OldIsThere, Has, Is
  <2>4. Has(Dir', Gen, <<"gen", g>>) \/ (at' = 10 /\ Has(Dir', Gen, <<"gen", g + 1>>))
    BY <2>1 DEF Has, Is
  <2> QED
    BY <2>2, <2>3, <2>4 DEF OldIsThere
<1>6. Docs(Dir', S) = Docs(Dir, S)
  BY <1>3, DocsSame
<1>7. \A d \in Hist' : OldIsThere(d, Dir', at', g, S)
  BY <1>4, <1>5
<1>8. want' = (before.docs)' /\ (before.docs)' = Docs(Dir', S)
  BY <1>1, <1>6 DEF OldStays
<1>9. (\A d \in Hist : OldIsThere(d, Dir, at, g, S))' /\ (before.docs = Docs(Dir, S))'
  BY <1>7, <1>8
<1> QED
  BY <1>1, <1>8, <1>9 DEF OldStays

(* A merge goes on: its shape stays, and what is left to show is where it  *)
(* has come.                                                               *)
LEMMA StillMerging ==
  ASSUME NEW g \in Nat, MergeShape(prog, g, want), MergeStage(g)', Step, PowerInv,
         call = "optimize" /\ before.durable => OldStays(g)'
  PROVE  Merging'
<1>1. prog' = prog /\ want' = want /\ call' = call /\ before' = before
  BY DEF Step
<1>2. MergeShape(prog, g, want)'
  BY <1>1 DEF MergeShape
<1> QED
  BY <1>1, <1>2 DEF Merging

(* One step of a merge.                                                    *)
LEMMA MergeStep ==
  ASSUME PowerInv, Merging, Step, DataOrdered
  PROVE  Merging' /\ SoundDir(Dir') /\ PendingInv'
<1> DEFINE s == prog[at + 1]
           n == at
<1>1. /\ Dir' = Apply(s, Dir) /\ Hist' \subseteq Hist \cup {Dir'} /\ Dir \in Hist
      /\ DirsInv /\ SoundDir(Dir) /\ PendingInv
      /\ s.op = "syncdir" => Hist' = {Dir'}
  BY StepDirs, DirIsLast DEF PowerInv
<1>2. PICK g \in Nat : /\ MergeShape(prog, g, want) /\ MergeStage(g)
                       /\ call = "optimize" /\ before.durable => OldStays(g)
  BY DEF Merging
<1>3. /\ at' = n + 1 /\ prog' = prog /\ want' = want /\ before' = before /\ call' = call
      /\ n \in 0 .. (Len(prog) - 1) /\ Len(prog) \in Nat
  BY DEF Step, PowerInv
<1> DEFINE seg == Cfs(g + 2)
           man == Manifest(g + 1)
<1>5. /\ seg # Gen /\ seg # man /\ seg # Pending
      /\ man # Gen /\ man # Pending /\ Gen # Pending
  <2>1. g + 1 \in Nat /\ g + 2 \in Nat
    OBVIOUS
  <2> QED
    BY <2>1, NamesDiffer
<1>6. CASE n \in {0, 1, 3, 4, 5, 7, 8}
  <2>1. /\ s.op \in {"tmp", "fsync", "syncdir"}
        /\ n = 3 => s.op = "syncdir"
        /\ n = 7 => s.op = "syncdir"
    BY SMTT(30), <1>2, <1>6 DEF MergeShape
  <2>2. Dir' = Dir
    BY <1>1, <2>1, ApplyOther
  <2>3. Hist' \subseteq Hist /\ (n \in {3, 7} => Hist' = {Dir})
    BY <1>1, <2>1, <2>2
  <2>4. MergeStage(g)'
    <3>1. n <= 9 /\ GenIs(Dir, g)
      BY <1>2, <1>6 DEF MergeStage
    <3>2. n + 1 >= 3 => Has(Dir, seg, <<"docs", want>>)
      BY <1>2, <1>6 DEF MergeStage
    <3>3. n + 1 >= 7 => NewManifest(Dir, g)
      BY <1>2, <1>6 DEF MergeStage
    <3>4. \A d \in Hist' : n + 1 >= 4 => Has(d, seg, <<"docs", want>>)
      <4>1. n = 3 \/ n >= 4 \/ n + 1 < 4
        BY <1>6
      <4> QED
        BY <1>2, <1>3, <2>3, <3>2, <4>1 DEF MergeStage
    <3>5. \A d \in Hist' : n + 1 >= 8 => NewManifest(d, g)
      <4>1. n = 7 \/ n >= 8 \/ n + 1 < 8
        BY <1>6
      <4> QED
        BY <1>2, <1>3, <2>3, <3>3, <4>1 DEF MergeStage
    <3>6. n + 1 \in Nat /\ n + 1 < 10 /\ n + 1 < 11 /\ n + 1 <= 9
      BY <1>6
    <3> QED
      BY <1>3, <2>2, <3>1, <3>2, <3>3, <3>4, <3>5, <3>6 DEF MergeStage
  <2>5. call = "optimize" /\ before.durable => OldStays(g)'
    <3>1. at \in Nat /\ at <= 9
      BY <1>6
    <3> QED
      BY <1>1, <1>2, <1>3, <2>2, <3>1, OldKeeps
  <2>6. Merging'
    BY <1>2, <2>4, <2>5, StillMerging
  <2>7. PendingInv'
    BY <1>1, <2>2, PendingKeeps
  <2> QED
    BY <1>1, <2>2, <2>6, <2>7
<1>7. CASE n = 2
  <2>1. s = Rename(seg, <<"docs", want>>)
    BY <1>2, <1>7 DEF MergeShape
  <2>2. s.op = "rename" /\ s.name = seg /\ s.content = <<"docs", want>>
    BY <2>1 DEF Rename
  <2>3. Created(s, Dir, Dir')
    BY <1>1, <2>2, ApplyCreate DEF Creates
  <2>4. MergeStage(g)'
    <3>1. GenIs(Dir', g)
      BY <1>2, <1>5, <1>7, <2>2, <2>3 DEF MergeStage, Created, GenIs, Is
    <3>2. Has(Dir', seg, <<"docs", want>>)
      BY <2>2, <2>3 DEF Created, Has, Is
    <3>3. at' = 3
      BY <1>3, <1>7
    <3> QED
      BY <1>3, <3>1, <3>2, <3>3 DEF MergeStage
  <2>5. call = "optimize" /\ before.durable => OldStays(g)'
    <3>1. at \in Nat /\ at <= 9
      BY <1>7
    <3>2. \A x \in DOMAIN Dir : x # seg => x \in DOMAIN Dir' /\ Dir'[x] = Dir[x]
      BY <2>2, <2>3 DEF Created
    <3> QED
      BY <1>1, <1>2, <1>3, <1>5, <3>1, <3>2, OldKeeps
  <2>6. Merging'
    BY <1>2, <2>4, <2>5, StillMerging
  <2>7. PendingInv'
    <3>1. \A x \in {Gen, Pending} : x \in DOMAIN Dir' => x \in DOMAIN Dir /\ Dir'[x].content = Dir[x].content
      BY <1>5, <2>2, <2>3 DEF Created
    <3> QED
      BY <1>1, <3>1, PendingKeeps
  <2>8. SoundDir(Dir')
    <3>1. Proper(s.name, s.content)
      BY <2>2 DEF Proper, Cfs
    <3> QED
      BY <1>1, <2>3, <3>1, SoundCreate
  <2> QED
    BY <2>6, <2>7, <2>8
<1>8. CASE n = 6
  <2>1. s = Rename(man, <<"segs", {g + 2}>>)
    BY <1>2, <1>8 DEF MergeShape
  <2>2. s.op = "rename" /\ s.name = man /\ s.content = <<"segs", {g + 2}>>
    BY <2>1 DEF Rename
  <2>3. Created(s, Dir, Dir')
    BY <1>1, <2>2, ApplyCreate DEF Creates
  <2>4. MergeStage(g)'
    <3>1. GenIs(Dir', g)
      BY <1>2, <1>5, <1>8, <2>2, <2>3 DEF MergeStage, Created, GenIs, Is
    <3>2. Has(Dir', seg, <<"docs", want>>)
      BY <1>2, <1>5, <1>8, <2>2, <2>3 DEF MergeStage, Created, Has, Is
    <3>3. NewManifest(Dir', g)
      BY <2>2, <2>3 DEF Created, NewManifest, Has, Is
    <3>4. \A d \in Hist' : Has(d, seg, <<"docs", want>>)
      BY <1>1, <1>2, <1>8, <3>2 DEF MergeStage
    <3>5. at' = 7
      BY <1>3, <1>8
    <3> QED
      BY <1>3, <3>1, <3>2, <3>3, <3>4, <3>5 DEF MergeStage
  <2>5. call = "optimize" /\ before.durable => OldStays(g)'
    <3>1. at \in Nat /\ at <= 9
      BY <1>8
    <3>2. \A x \in DOMAIN Dir : x # man => x \in DOMAIN Dir' /\ Dir'[x] = Dir[x]
      BY <2>2, <2>3 DEF Created
    <3> QED
      BY <1>1, <1>2, <1>3, <1>5, <3>1, <3>2, OldKeeps
  <2>6. Merging'
    BY <1>2, <2>4, <2>5, StillMerging
  <2>7. PendingInv'
    <3>1. \A x \in {Gen, Pending} : x \in DOMAIN Dir' => x \in DOMAIN Dir /\ Dir'[x].content = Dir[x].content
      BY <1>5, <2>2, <2>3 DEF Created
    <3> QED
      BY <1>1, <3>1, PendingKeeps
  <2>8. SoundDir(Dir')
    <3>1. Proper(s.name, s.content)
      <4>1. {g + 2} \in SUBSET (0 .. ((g + 1) + 1)) /\ (g + 1) + 1 \in {g + 2} /\ g + 1 \in Nat
        OBVIOUS
      <4> QED
        BY <2>2, <4>1 DEF Proper
    <3> QED
      BY <1>1, <2>3, <3>1, SoundCreate
  <2> QED
    BY <2>6, <2>7, <2>8
<1>9. CASE n = 9
  <2>1. s = Rename(Gen, <<"gen", g + 1>>)
    BY <1>2, <1>9 DEF MergeShape
  <2>2. s.op = "rename" /\ s.name = Gen /\ s.content = <<"gen", g + 1>>
    BY <2>1 DEF Rename
  <2>3. Created(s, Dir, Dir')
    BY <1>1, <2>2, ApplyCreate DEF Creates
  <2>0. Has(Dir', Gen, <<"gen", g + 1>>)
    BY <2>2, <2>3 DEF Created, Has, Is
  <2>4. MergeStage(g)'
    <3>2. Has(Dir', seg, <<"docs", want>>)
      BY <1>2, <1>5, <1>9, <2>2, <2>3 DEF MergeStage, Created, Has, Is
    <3>3. NewManifest(Dir', g)
      BY <1>2, <1>5, <1>9, <2>2, <2>3 DEF MergeStage, Created, NewManifest, Has, Is
    <3>4. \A d \in Hist' : Has(d, seg, <<"docs", want>>) /\ NewManifest(d, g)
      BY <1>1, <1>2, <1>3, <1>9, <3>2, <3>3 DEF MergeStage
    <3>5. at' = 10
      BY <1>3, <1>9
    <3> QED
      BY <1>3, <2>0, <3>2, <3>3, <3>4, <3>5 DEF MergeStage
  <2>5. call = "optimize" /\ before.durable => OldStays(g)'
    <3>1. at \in Nat /\ at <= 9 /\ at = 9
      BY <1>9
    <3>2. \A x \in DOMAIN Dir : x # Gen => x \in DOMAIN Dir' /\ Dir'[x] = Dir[x]
      BY <2>2, <2>3 DEF Created
    <3> QED
      BY <1>1, <1>2, <1>3, <2>0, <3>1, <3>2, OldKeeps
  <2>6. Merging'
    BY <1>2, <2>4, <2>5, StillMerging
  <2>7. PendingInv'
    <3>1. GenIs(Dir, g)
      BY <1>2, <1>9 DEF MergeStage
    <3> QED
      BY <1>1, <2>2, <2>3, <3>1, NextGeneration
  <2>8. SoundDir(Dir')
    <3>1. Proper(s.name, s.content)
      BY <2>2 DEF Proper
    <3> QED
      BY <1>1, <2>3, <3>1, SoundCreate
  <2> QED
    BY <2>6, <2>7, <2>8
<1>10. CASE n = 10
  <2>1. s.op = "syncdir"
    BY <1>2, <1>10 DEF MergeShape
  <2>2. Dir' = Dir /\ Hist' = {Dir}
    BY <1>1, <2>1, ApplyOther
  <2>3. at' = 11
    BY <1>3, <1>10
  <2>4. MergeStage(g)'
    BY <1>2, <1>3, <1>10, <2>2, <2>3 DEF MergeStage
  <2>5. call = "optimize" /\ before.durable => OldStays(g)'
    BY <1>2, <1>3, <2>3 DEF OldStays
  <2>6. Merging'
    BY <1>2, <2>4, <2>5, StillMerging
  <2>7. PendingInv'
    BY <1>1, <2>2, PendingKeeps
  <2> QED
    BY <1>1, <2>2, <2>6, <2>7
<1>11. CASE n >= 11
  <2>1. MergeTail(s, g)
    BY <1>2, <1>3, <1>11 DEF MergeShape
  <2>2. at' >= 12 /\ at' \in Nat
    BY <1>3, <1>11
  <2>3. \A d \in Hist \cup {Dir} : /\ Has(d, seg, <<"docs", want>>)
                                   /\ NewManifest(d, g)
                                   /\ Has(d, Gen, <<"gen", g + 1>>)
    BY <1>2, <1>3, <1>11 DEF MergeStage
  <2>4. \A x \in {Gen, man, seg} : x \in DOMAIN Dir => x \in DOMAIN Dir' /\ Dir'[x] = Dir[x]
    <3>1. CASE s.op = "remove" /\ s.name \notin {Gen, man, seg}
      <4>1. Removed(s, Dir, Dir')
        BY <1>1, <3>1, ApplyRemove
      <4> QED
        BY <3>1, <4>1 DEF Removed
    <3>2. CASE s.op = "create" /\ s.name = Pending
      <4>1. Created(s, Dir, Dir')
        BY <1>1, <3>2, ApplyCreate DEF Creates
      <4> QED
        BY <1>5, <3>2, <4>1 DEF Created
    <3> QED
      BY <2>1, <3>1, <3>2 DEF MergeTail
  <2>5. \A d \in Hist' \cup {Dir'} : /\ Has(d, seg, <<"docs", want>>)
                                     /\ NewManifest(d, g)
                                     /\ Has(d, Gen, <<"gen", g + 1>>)
    BY SMTT(30), <1>1, <2>3, <2>4 DEF NewManifest, Has, Is
  <2>6. MergeStage(g)'
    BY <1>3, <2>2, <2>5 DEF MergeStage
  <2>7. call = "optimize" /\ before.durable => OldStays(g)'
    BY <1>2, <1>3, <2>2 DEF OldStays
  <2>8. Merging'
    BY <1>2, <2>6, <2>7, StillMerging
  <2>9. SoundDir(Dir') /\ PendingInv'
    <3>1. CASE s.op = "remove"
      <4>1. Removed(s, Dir, Dir')
        BY <1>1, <3>1, ApplyRemove
      <4>2. \A x \in {Gen, Pending} : x \in DOMAIN Dir' => x \in DOMAIN Dir /\ Dir'[x].content = Dir[x].content
        BY <4>1 DEF Removed
      <4> QED
        BY <1>1, <4>1, <4>2, SoundRemove, PendingKeeps
    <3>2. CASE s.op = "create" /\ s.name = Pending /\ Proper(Pending, s.content) /\ ListBelow(s.content[2], g)
      <4>1. Created(s, Dir, Dir')
        BY <1>1, <3>2, ApplyCreate DEF Creates
      <4>2. SoundDir(Dir')
        BY <1>1, <3>2, <4>1, SoundCreate
      <4>3. PendingInv'
        <5> SUFFICES ASSUME NEW d \in Hist', NEW e \in Hist', NEW h \in Nat,
                            Pending \in DOMAIN d, GenIs(e, h)
                     PROVE  ListBelow(d[Pending].content[2], h)
          BY DEF PendingInv
        <5>1. h = g + 1
          BY <2>5 DEF GenIs, Has, Is
        <5>2. CASE d = Dir'
          <6>1. d[Pending].content = s.content
            BY <3>2, <4>1, <5>2 DEF Created
          <6> QED
            BY <3>2, <5>1, <6>1 DEF ListBelow
        <5>3. CASE d \in Hist
          <6>1. GenIs(Dir, h)
            BY <2>3, <5>1 DEF GenIs, Has
          <6> QED
            BY <1>1, <5>3, <6>1 DEF PendingInv
        <5> QED
          BY <1>1, <5>2, <5>3
      <4> QED
        BY <4>2, <4>3
    <3> QED
      BY <2>1, <3>1, <3>2 DEF MergeTail
  <2> QED
    BY <2>8, <2>9
<1> QED
  BY <1>3, <1>6, <1>7, <1>8, <1>9, <1>10, <1>11

-----------------------------------------------------------------------------
(* One step of whatever call goes on.                                      *)
LEMMA StepKeeps ==
  ASSUME PowerInv, ~lost, Step, DataOrdered
  PROVE  PowerInv'
<1>1. /\ DirsInv /\ at \in 0 .. Len(prog) /\ Len(prog) \in Nat
      /\ \A d \in Hist : SoundDir(d)
      /\ Stage
  BY DEF PowerInv
<1>2. /\ at < Len(prog) /\ at' = at + 1
      /\ prog' = prog /\ merging' = merging /\ call' = call /\ lost' = lost
  BY DEF Step
<1>3. prog # <<>>
  BY <1>1, <1>2
<1>4. \/ call = "commit" /\ ~merging /\ Committing
      \/ call = "add and optimize" /\ merging /\ Committing
      \/ call \in {"optimize", "add and optimize"} /\ ~merging /\ Merging
  BY <1>1, <1>3 DEF Stage
<1>5. SoundDir(Dir') /\ PendingInv'
  BY <1>4, CommitStep, MergeStep
<1>6. Stage'
  BY <1>2, <1>4, CommitStep, MergeStep DEF Stage
<1>7. DirsInv' /\ Hist' \subseteq Hist \cup {Dir'}
  BY <1>1, StepDirs
<1>8. \A d \in Hist' : SoundDir(d)
  BY <1>1, <1>5, <1>7
<1>9. at' \in 0 .. Len(prog') /\ Len(prog') \in Nat
  BY <1>1, <1>2
<1>10. OptimizeIsDurable'
  BY <1>2 DEF OptimizeIsDurable, OptimizedSurvives, OptimizeIsSafe
<1> QED
  BY <1>5, <1>6, <1>7, <1>8, <1>9, <1>10 DEF PowerInv

-----------------------------------------------------------------------------
(* The steps of the calls                                                  *)

Removals(names) == {Unlink(n) : n \in names}

(* A list of elements of a set is one of elements of a larger set.         *)
LEMMA SeqGrows ==
  ASSUME NEW A, NEW B, A \subseteq B, NEW s \in Seq(A)
  PROVE  s \in Seq(B)
  OBVIOUS

(* Two lists one after the other.                                          *)
LEMMA Joined ==
  ASSUME NEW U, NEW s \in Seq(U), NEW t \in Seq(U)
  PROVE  /\ s \o t \in Seq(U) /\ Len(s \o t) = Len(s) + Len(t)
         /\ \A i \in 1 .. Len(s) : (s \o t)[i] = s[i]
         /\ \A i \in 1 .. Len(t) : (s \o t)[Len(s) + i] = t[i]
<1>1. Len(s) \in Nat /\ Len(t) \in Nat
  OBVIOUS
<1>2. /\ s \o t \in Seq(U) /\ Len(s \o t) = Len(s) + Len(t)
      /\ \A i \in 1 .. Len(s) + Len(t) : (s \o t)[i] = IF i <= Len(s) THEN s[i] ELSE t[i - Len(s)]
  BY ConcatProperties
<1> QED
  BY <1>1, <1>2

(* The same, with a name of its own for the provers.                       *)
Joint(s, t) == s \o t

IsJoint(z, s, t, U) ==
    /\ z \in Seq(U) /\ Len(z) = Len(s) + Len(t)
    /\ \A i \in 1 .. Len(s) : z[i] = s[i]
    /\ \A i \in 1 .. Len(t) : z[Len(s) + i] = t[i]

(* The same, with names of its own.                                        *)
LEMMA JointIs ==
  ASSUME NEW U, NEW s \in Seq(U), NEW t \in Seq(U)
  PROVE  IsJoint(Joint(s, t), s, t, U)
  BY Joined DEF Joint, IsJoint

(* Unlinks removes names of the set it is given, and does nothing else.    *)
LEMMA UnlinksRemove ==
  ASSUME NEW names, IsFiniteSet(names)
  PROVE  Unlinks(names) \in Seq(Removals(names))
<1> DEFINE list == Listed(names)
<1>1. list \in Seq(names)
  BY ListedAll
<1>2. Len(list) \in Nat /\ \A i \in 1 .. Len(list) : list[i] \in names
  BY <1>1
<1> HIDE DEF list
<1>3. [i \in 1 .. Len(list) |-> Unlink(list[i])] \in [1 .. Len(list) -> Removals(names)]
  BY <1>2 DEF Removals
<1>4. [i \in 1 .. Len(list) |-> Unlink(list[i])] \in Seq(Removals(names))
  BY <1>2, <1>3, SeqDef
<1> QED
  BY <1>4 DEF Unlinks, list

(* What the cleaning up after the flip to g removes.                       *)
OldManifests(d, g) == {n \in DOMAIN d : n[1] = "segments" /\ n[2] < g - 1}

OldFiles(d) == IF Content(d, Pending) = Torn THEN {} ELSE Content(d, Pending)[2] \cap DOMAIN d

OldLists(d) == {Pending} \cap DOMAIN d

Gone(d, g) == OldManifests(d, g) \cup OldFiles(d) \cup OldLists(d)

NewList(superseded) ==
    IF superseded # {} THEN {Create(Pending, <<"list", superseded>>)} ELSE {}

(* The clean-up removes what is gone, and writes the new list.             *)
LEMMA CleanUpIs ==
  ASSUME NEW d, SoundDir(d), NEW g \in Nat, NEW superseded
  PROVE  CleanUp(d, g, superseded) \in Seq(Removals(Gone(d, g)) \cup NewList(superseded))
<1> DEFINE X == Removals(Gone(d, g)) \cup NewList(superseded)
           last == IF superseded # {} THEN <<Create(Pending, <<"list", superseded>>)>>
                   ELSE Unlinks(OldLists(d))
<1>1. IsFiniteSet(OldManifests(d, g)) /\ IsFiniteSet(OldFiles(d)) /\ IsFiniteSet(OldLists(d))
  <2>1. /\ OldManifests(d, g) \subseteq DOMAIN d /\ OldFiles(d) \subseteq DOMAIN d
        /\ OldLists(d) \subseteq DOMAIN d
    BY DEF OldManifests, OldFiles, OldLists
  <2> QED
    BY <2>1, FS_Subset DEF SoundDir
<1>2. /\ Removals(OldManifests(d, g)) \subseteq X
      /\ Removals(OldFiles(d)) \subseteq X
      /\ Removals(OldLists(d)) \subseteq X
  BY DEF Removals, Gone
<1>3. Unlinks(OldManifests(d, g)) \in Seq(X) /\ Unlinks(OldFiles(d)) \in Seq(X)
  BY <1>1, <1>2, UnlinksRemove
<1>4. last \in Seq(X)
  <2>1. CASE superseded # {}
    <3>1. Create(Pending, <<"list", superseded>>) \in X
      BY <2>1 DEF NewList
    <3> HIDE DEF X
    <3> QED
      BY <2>1, <3>1
  <2>2. CASE superseded = {}
    <3>1. Unlinks(OldLists(d)) \in Seq(Removals(OldLists(d)))
      BY <1>1, UnlinksRemove
    <3>2. last = Unlinks(OldLists(d))
      BY <2>2
    <3>3. Unlinks(OldLists(d)) \in Seq(X)
      BY <1>2, <3>1, SeqGrows
    <3> HIDE DEF X, last
    <3> QED
      BY <3>2, <3>3
  <2> QED
    BY <2>1, <2>2
<1>5. CleanUp(d, g, superseded) = Unlinks(OldManifests(d, g)) \o Unlinks(OldFiles(d)) \o last
  BY DEF CleanUp, OldManifests, OldFiles, OldLists
<1> HIDE DEF X, last
<1>6. Unlinks(OldManifests(d, g)) \o Unlinks(OldFiles(d)) \o last \in Seq(X)
  BY <1>3, <1>4, ConcatProperties
<1> QED
  BY <1>5, <1>6 DEF X

(* It never removes what is current.                                       *)
LEMMA GoneIsOld ==
  ASSUME NEW d, SoundDir(d), NEW g \in Nat, NEW x \in Gone(d, g + 1)
  PROVE  /\ x \notin {Gen, Manifest(g + 1)}
         /\ (Pending \in DOMAIN d => ListBelow(d[Pending].content[2], g)) => x # Cfs(g + 2)
<1>1. CASE x \in OldManifests(d, g + 1)
  <2>1. x[1] = "segments" /\ x[2] < (g + 1) - 1
    BY <1>1 DEF OldManifests
  <2>2. Manifest(g + 1)[2] = g + 1 /\ Gen[1] = "gen" /\ Cfs(g + 2)[1] = "cfs"
    BY DEF Manifest, Gen, Cfs
  <2> QED
    BY <2>1, <2>2
<1>2. CASE x \in OldFiles(d)
  <2>1. Pending \in DOMAIN d /\ x \in d[Pending].content[2]
    BY <1>2 DEF OldFiles, Content
  <2>2. Proper(Pending, d[Pending].content)
    BY <2>1 DEF SoundDir
  <2>3. \A y \in d[Pending].content[2] : \E k \in Nat : y = Cfs(k)
    BY <2>2, NamesDiffer DEF Proper, Pending, Gen, Manifest
  <2>4. PICK k \in Nat : x = Cfs(k)
    BY <2>1, <2>3
  <2>5. x \notin {Gen, Manifest(g + 1)}
    <3>1. g + 1 \in Nat
      OBVIOUS
    <3> QED
      BY <2>4, <3>1, NamesDiffer
  <2>6. ASSUME ListBelow(d[Pending].content[2], g)
        PROVE  x # Cfs(g + 2)
    <3>1. k <= g + 1
      BY <2>1, <2>4, <2>6 DEF ListBelow
    <3>2. g + 2 \in Nat /\ k # g + 2
      BY <3>1
    <3> QED
      BY <2>4, <3>2, NamesDiffer
  <2> QED
    BY <2>1, <2>5, <2>6
<1>3. CASE x \in OldLists(d)
  <2>1. g + 1 \in Nat /\ g + 2 \in Nat /\ x = Pending
    BY <1>3 DEF OldLists
  <2> QED
    BY <2>1, NamesDiffer
<1> QED
  BY <1>1, <1>2, <1>3 DEF Gone

(* The first four steps of a commit, and what follows.                     *)
LEMMA FourAndMore ==
  ASSUME NEW X, NEW c \in Seq(X), NEW a, NEW b, NEW t, NEW r,
         NEW p, p = <<a>> \o (<<b>> \o <<t, r>> \o c)
  PROVE  /\ Len(p) \in Nat /\ Len(p) >= 4
         /\ p[1] = a /\ p[2] = b /\ p[3] = t /\ p[4] = r
         /\ \A i \in 5 .. Len(p) : p[i] \in X
<1> DEFINE U == X \cup {a, b, t, r}
           front == <<b>> \o <<t, r>>
           rest == front \o c
<1>1. X \subseteq U /\ a \in U /\ b \in U /\ t \in U /\ r \in U
  OBVIOUS
<1> HIDE DEF U
<1>2. c \in Seq(U) /\ Len(c) \in Nat /\ \A i \in 1 .. Len(c) : c[i] \in X
  BY <1>1, SeqGrows
<1>3. /\ front \in Seq(U) /\ Len(front) = 3
      /\ front[1] = b /\ front[2] = t /\ front[3] = r
  <2>1. /\ <<b>> \in Seq(U) /\ Len(<<b>>) = 1 /\ <<b>>[1] = b
        /\ <<t, r>> \in Seq(U) /\ Len(<<t, r>>) = 2 /\ <<t, r>>[1] = t /\ <<t, r>>[2] = r
    BY <1>1
  <2>2. /\ front \in Seq(U) /\ Len(front) = 3
        /\ (\A i \in 1 .. 1 : front[i] = <<b>>[i])
        /\ \A i \in 1 .. 2 : front[1 + i] = <<t, r>>[i]
    BY <2>1, Joined
  <2>3. front[1] = b /\ front[1 + 1] = t /\ front[1 + 2] = r
    BY <2>1, <2>2
  <2> QED
    BY <2>2, <2>3
<1> HIDE DEF front
<1>4. /\ rest \in Seq(U) /\ Len(rest) = 3 + Len(c)
      /\ (\A i \in 1 .. 3 : rest[i] = front[i])
      /\ \A i \in 1 .. Len(c) : rest[3 + i] = c[i]
  <2>1. /\ rest \in Seq(U) /\ Len(rest) = Len(front) + Len(c)
        /\ (\A i \in 1 .. Len(front) : rest[i] = front[i])
        /\ \A i \in 1 .. Len(c) : rest[Len(front) + i] = c[i]
    <3>1. front \in Seq(U) /\ c \in Seq(U)
      BY <1>2, <1>3
    <3>2. /\ front \o c \in Seq(U) /\ Len(front \o c) = Len(front) + Len(c)
          /\ (\A i \in 1 .. Len(front) : (front \o c)[i] = front[i])
          /\ \A i \in 1 .. Len(c) : (front \o c)[Len(front) + i] = c[i]
      BY <3>1, Joined
    <3> QED
      BY <3>2
  <2> QED
    BY <1>3, <2>1
<1>5. p = <<a>> \o rest
  BY DEF rest, front
<1> HIDE DEF rest
<1>6. <<a>> \in Seq(U) /\ Len(<<a>>) = 1 /\ <<a>>[1] = a
  BY <1>1
<1>7. Len(p) = 1 + Len(rest) /\ p[1] = a /\ \A i \in 1 .. Len(rest) : p[1 + i] = rest[i]
  <2>1. /\ Len(p) = 1 + Len(rest)
        /\ (\A i \in 1 .. 1 : p[i] = <<a>>[i])
        /\ \A i \in 1 .. Len(rest) : p[1 + i] = rest[i]
    BY <1>4, <1>5, <1>6, Joined
  <2> QED
    BY <1>6, <2>1
<1>8. p[2] = b /\ p[3] = t /\ p[4] = r
  <2>1. 1 \in 1 .. Len(rest) /\ 2 \in 1 .. Len(rest) /\ 3 \in 1 .. Len(rest)
    BY <1>2, <1>4
  <2>2. p[1 + 1] = rest[1] /\ p[1 + 2] = rest[2] /\ p[1 + 3] = rest[3]
    BY <1>7, <2>1
  <2>3. rest[1] = b /\ rest[2] = t /\ rest[3] = r
    BY <1>3, <1>4
  <2> QED
    BY <2>2, <2>3
<1>9. \A i \in 5 .. Len(p) : p[i] \in X
  <2> SUFFICES ASSUME NEW i \in 5 .. Len(p)
               PROVE  p[i] \in X
    OBVIOUS
  <2>1. i - 1 \in 1 .. Len(rest) /\ i - 4 \in 1 .. Len(c) /\ 1 + (i - 1) = i /\ 3 + (i - 4) = i - 1
    BY <1>2, <1>4, <1>7
  <2>2. p[i] = rest[i - 1] /\ rest[i - 1] = c[i - 4]
    BY <1>4, <1>7, <2>1
  <2> QED
    BY <1>2, <2>1, <2>2
<1> QED
  BY <1>2, <1>4, <1>7, <1>8, <1>9

(* The steps of a commit have the shape the invariant says.              *)
LEMMA CommitStepsAre ==
  ASSUME NEW d, SoundDir(d), NEW g \in Nat, NEW S,
         Generation(d) = <<"gen", g>>, Segments(d) = S, NextName(d) = g + 2
  PROVE  CommitShape(CommitSteps(d), g, S)
<1> DEFINE a == Create(Cfs(g + 2), <<"docs", {g + 2}>>)
           b == Create(Manifest(g + 1), <<"segs", S \cup {g + 2}>>)
           t == Tmp(<<"gen", g + 1>>)
           r == Rename(Gen, <<"gen", g + 1>>)
           c == CleanUp(d, g + 1, {})
           X == Removals(Gone(d, g + 1))
<1>1. CommitSteps(d) = <<a>> \o (<<b>> \o <<t, r>> \o c)
  <2>1. Generation(d)[2] = g
    OBVIOUS
  <2> QED
    BY <2>1 DEF CommitSteps, FlipCommit, WriteAtomic
<1>2. c \in Seq(X)
  <2>1. c \in Seq(X \cup NewList({})) /\ g + 1 \in Nat
    <3>1. g + 1 \in Nat
      OBVIOUS
    <3> QED
      BY <3>1, CleanUpIs
  <2>2. NewList({}) = {}
    BY DEF NewList
  <2>3. X \cup NewList({}) = X
    BY <2>2
  <2> QED
    BY <2>1, <2>3
<1>3. t.op = "tmp"
  BY DEF Tmp
<1>4. \A x \in X : x.op = "remove" /\ x.name \notin {Gen, Manifest(g + 1)}
  BY GoneIsOld DEF Removals, Unlink
<1> DEFINE p == CommitSteps(d)
<1> HIDE DEF a, b, t, r, c, X, p
<1>5. /\ Len(p) \in Nat /\ Len(p) >= 4
      /\ p[1] = a /\ p[2] = b /\ p[3] = t /\ p[4] = r
      /\ \A i \in 5 .. Len(p) : p[i] \in X
  BY <1>1, <1>2, FourAndMore DEF p
<1>6. CommitShape(p, g, S)
  BY <1>3, <1>4, <1>5 DEF CommitShape, a, b, r
<1> QED
  BY <1>6 DEF p

(* Eleven steps, and more of X.                                            *)
Eleven(p, v, w, x, y, X) ==
    /\ Len(p) \in Nat /\ Len(p) >= 11
    /\ \A i \in 1 .. 4 : p[i] = v[i]
    /\ \A i \in 1 .. 4 : p[4 + i] = w[i]
    /\ p[9] = x[1] /\ p[10] = x[2] /\ p[11] = y[1]
    /\ \A i \in 12 .. Len(p) : p[i] \in X

(* The first eleven steps of a merge, and what follows.                    *)
LEMMA ElevenAndMore ==
  ASSUME NEW X, NEW c \in Seq(X), NEW U, X \subseteq U,
         NEW v \in Seq(U), Len(v) = 4, NEW w \in Seq(U), Len(w) = 4,
         NEW x \in Seq(U), Len(x) = 2, NEW y \in Seq(U), Len(y) = 1
  PROVE  Eleven(Joint(v, Joint(Joint(Joint(w, x), y), c)), v, w, x, y, X)
<1> DEFINE f == Joint(w, x)
           h == Joint(f, y)
           rest == Joint(h, c)
           p == Joint(v, rest)
<1>1. c \in Seq(U) /\ Len(c) \in Nat /\ \A i \in 1 .. Len(c) : c[i] \in X
  BY SeqGrows
<1> HIDE DEF f, h, rest, p
<1>3. /\ f \in Seq(U) /\ Len(f) = 6
      /\ (\A i \in 1 .. 4 : f[i] = w[i]) /\ f[5] = x[1] /\ f[6] = x[2]
  <2>1. IsJoint(f, w, x, U)
    BY JointIs DEF f
  <2>2. /\ f \in Seq(U) /\ Len(f) = 6
        /\ (\A i \in 1 .. 4 : f[i] = w[i])
        /\ \A i \in 1 .. 2 : f[4 + i] = x[i]
    BY <2>1 DEF IsJoint
  <2>3. f[4 + 1] = x[1] /\ f[4 + 2] = x[2]
    BY <2>2
  <2> QED
    BY <2>2, <2>3
<1>4. /\ h \in Seq(U) /\ Len(h) = 7
      /\ (\A i \in 1 .. 6 : h[i] = f[i]) /\ h[7] = y[1]
  <2>1. IsJoint(h, f, y, U)
    BY <1>3, JointIs DEF h
  <2>2. /\ h \in Seq(U) /\ Len(h) = 7
        /\ (\A i \in 1 .. 6 : h[i] = f[i])
        /\ \A i \in 1 .. 1 : h[6 + i] = y[i]
    BY <1>3, <2>1 DEF IsJoint
  <2>3. h[6 + 1] = y[1]
    BY <2>2
  <2> QED
    BY <2>2, <2>3
<1>5. /\ rest \in Seq(U) /\ Len(rest) = 7 + Len(c)
      /\ (\A i \in 1 .. 7 : rest[i] = h[i])
      /\ \A i \in 1 .. Len(c) : rest[7 + i] = c[i]
  <2>1. IsJoint(rest, h, c, U)
    BY <1>1, <1>4, JointIs DEF rest
  <2> QED
    BY <1>4, <2>1 DEF IsJoint
<1>6. /\ Len(p) = 4 + Len(rest)
      /\ (\A i \in 1 .. 4 : p[i] = v[i])
      /\ \A i \in 1 .. Len(rest) : p[4 + i] = rest[i]
  <2>1. IsJoint(Joint(v, rest), v, rest, U)
    BY <1>5, JointIs
  <2>2. IsJoint(p, v, rest, U)
    BY <2>1 DEF p
  <2> QED
    BY <2>2 DEF IsJoint
<1>7. \A i \in 1 .. 7 : p[4 + i] = h[i]
  <2> SUFFICES ASSUME NEW i \in 1 .. 7
               PROVE  p[4 + i] = h[i]
    OBVIOUS
  <2>1. i \in 1 .. Len(rest)
    BY <1>1, <1>5
  <2> QED
    BY <1>5, <1>6, <2>1
<1>8. \A i \in 1 .. 4 : p[4 + i] = w[i]
  BY SMTT(30), <1>3, <1>4, <1>7
<1>9. p[9] = x[1] /\ p[10] = x[2] /\ p[11] = y[1]
  <2>1. p[4 + 5] = h[5] /\ p[4 + 6] = h[6] /\ p[4 + 7] = h[7]
    BY <1>7
  <2>2. h[5] = f[5] /\ h[6] = f[6]
    BY <1>4
  <2> QED
    BY <1>3, <1>4, <2>1, <2>2
<1>10. \A i \in 12 .. Len(p) : p[i] \in X
  <2> SUFFICES ASSUME NEW i \in 12 .. Len(p)
               PROVE  p[i] \in X
    OBVIOUS
  <2>1. i - 4 \in 1 .. Len(rest) /\ i - 11 \in 1 .. Len(c) /\ 4 + (i - 4) = i /\ 7 + (i - 11) = i - 4
    BY <1>1, <1>5, <1>6
  <2>2. p[i] = rest[i - 4] /\ rest[i - 4] = c[i - 11]
    BY ZenonT(60), <1>5, <1>6, <2>1
  <2> QED
    BY <1>1, <2>1, <2>2
<1>11. Len(p) \in Nat /\ Len(p) >= 11
  BY <1>1, <1>5, <1>6
<1>12. Eleven(p, v, w, x, y, X)
  BY <1>6, <1>8, <1>9, <1>10, <1>11 DEF Eleven
<1> QED
  BY <1>12 DEF p, rest, h, f

(* A durable write as a list.                                              *)
LEMMA WriteDurableIs ==
  ASSUME NEW n, NEW c, NEW U, Tmp(c) \in U, Fsync \in U, Rename(n, c) \in U, SyncDir \in U
  PROVE  LET w == WriteDurable(n, c)
         IN  /\ w \in Seq(U) /\ Len(w) = 4
             /\ w[1].op = "tmp" /\ w[2].op = "fsync" /\ w[3] = Rename(n, c) /\ w[4].op = "syncdir"
<1>1. Tmp(c).op = "tmp" /\ Fsync.op = "fsync" /\ SyncDir.op = "syncdir"
  BY DEF Tmp, Fsync, SyncDir
<1> QED
  BY <1>1 DEF WriteDurable

(* The steps of a merge have the shape the invariant says.                 *)
LEMMA MergeStepsAre ==
  ASSUME NEW d, SoundDir(d), NEW g \in Nat, NEW S \in SUBSET (0 .. (g + 1)), g + 1 \in S,
         Generation(d) = <<"gen", g>>, Segments(d) = S, NextName(d) = g + 2,
         Pending \in DOMAIN d => ListBelow(d[Pending].content[2], g),
         ~(Cardinality(S) <= 1)
  PROVE  MergeShape(MergeSteps(d), g, Documents(d))
<1> DEFINE docs == <<"docs", Documents(d)>>
           segs == <<"segs", {g + 2}>>
           gen == <<"gen", g + 1>>
           old == {Cfs(k) : k \in S}
           v == WriteDurable(Cfs(g + 2), docs)
           w == WriteDurable(Manifest(g + 1), segs)
           x == <<Tmp(gen), Rename(Gen, gen)>>
           y == <<SyncDir>>
           c == CleanUp(d, g + 1, old)
           X == Removals(Gone(d, g + 1)) \cup NewList(old)
           U == X \cup {Tmp(docs), Tmp(segs), Tmp(gen), Fsync, SyncDir,
                        Rename(Cfs(g + 2), docs), Rename(Manifest(g + 1), segs), Rename(Gen, gen)}
           p == MergeSteps(d)
<1>1. p = Joint(v, Joint(Joint(Joint(w, x), y), c))
  <2>1. Generation(d)[2] = g
    OBVIOUS
  <2> QED
    BY <2>1 DEF MergeSteps, FlipOptimized, WriteAtomic, Joint
<1>2. c \in Seq(X)
  <2>1. g + 1 \in Nat
    OBVIOUS
  <2> QED
    BY <2>1, CleanUpIs
<1>3. \A z \in X : MergeTail(z, g)
  <2>1. \A z \in Removals(Gone(d, g + 1)) : z.op = "remove" /\ z.name \notin {Gen, Manifest(g + 1), Cfs(g + 2)}
    BY GoneIsOld DEF Removals, Unlink
  <2>2. \A z \in NewList(old) :
          z.op = "create" /\ z.name = Pending /\ z.content = <<"list", old>>
    BY DEF NewList, Create
  <2>3. \A n \in old : \E k \in Nat : n = Cfs(k)
    OBVIOUS
  <2>4. Proper(Pending, <<"list", old>>)
    <3> HIDE DEF old
    <3> QED
      BY <2>3 DEF Proper
  <2>5. ListBelow(old, g)
    <3> SUFFICES ASSUME NEW k \in Nat, Cfs(k) \in old
                 PROVE  k <= g + 1
      BY DEF ListBelow
    <3>1. PICK j \in S : Cfs(k) = Cfs(j)
      OBVIOUS
    <3>2. j \in Nat /\ j <= g + 1
      OBVIOUS
    <3> QED
      BY <3>1, <3>2, NamesDiffer
  <2> HIDE DEF old
  <2> QED
    BY <2>1, <2>2, <2>4, <2>5 DEF MergeTail
<1>4. /\ X \subseteq U /\ Fsync \in U /\ SyncDir \in U
      /\ Tmp(docs) \in U /\ Tmp(segs) \in U /\ Tmp(gen) \in U
      /\ Rename(Cfs(g + 2), docs) \in U /\ Rename(Manifest(g + 1), segs) \in U /\ Rename(Gen, gen) \in U
  OBVIOUS
<1>5. Tmp(gen).op = "tmp" /\ SyncDir.op = "syncdir"
  BY DEF Tmp, SyncDir
<1> HIDE DEF docs, segs, gen, c, X, U, p
<1>6. /\ v \in Seq(U) /\ Len(v) = 4
      /\ v[1].op = "tmp" /\ v[2].op = "fsync" /\ v[3] = Rename(Cfs(g + 2), docs) /\ v[4].op = "syncdir"
  BY <1>4, WriteDurableIs
<1>7. /\ w \in Seq(U) /\ Len(w) = 4
      /\ w[1].op = "tmp" /\ w[2].op = "fsync" /\ w[3] = Rename(Manifest(g + 1), segs) /\ w[4].op = "syncdir"
  BY <1>4, WriteDurableIs
<1>8. /\ x \in Seq(U) /\ Len(x) = 2 /\ x[1] = Tmp(gen) /\ x[2] = Rename(Gen, gen)
      /\ y \in Seq(U) /\ Len(y) = 1 /\ y[1] = SyncDir
  BY <1>4
<1> HIDE DEF v, w, x, y
<1>9. Eleven(p, v, w, x, y, X)
  <2>1. Eleven(Joint(v, Joint(Joint(Joint(w, x), y), c)), v, w, x, y, X)
    BY <1>2, <1>4, <1>6, <1>7, <1>8, ElevenAndMore
  <2> QED
    BY <1>1, <2>1
<1>10. /\ p[1] = v[1] /\ p[2] = v[2] /\ p[3] = v[3] /\ p[4] = v[4]
       /\ p[4 + 1] = w[1] /\ p[4 + 2] = w[2] /\ p[4 + 3] = w[3] /\ p[4 + 4] = w[4]
  BY <1>9 DEF Eleven
<1>11. p[9] = x[1] /\ p[10] = x[2] /\ p[11] = y[1]
  BY <1>9 DEF Eleven
<1>12. /\ \A i \in {1, 2, 5, 6, 9} : p[i].op \in {"tmp", "fsync"}
       /\ \A i \in {4, 8, 11} : p[i].op = "syncdir"
  <2>1. p[5] = w[1] /\ p[6] = w[2] /\ p[8] = w[4]
    BY <1>10
  <2>2. /\ p[1].op = "tmp" /\ p[2].op = "fsync" /\ p[5].op = "tmp" /\ p[6].op = "fsync" /\ p[9].op = "tmp"
        /\ p[4].op = "syncdir" /\ p[8].op = "syncdir" /\ p[11].op = "syncdir"
    BY <1>5, <1>6, <1>7, <1>8, <1>10, <1>11, <2>1
  <2> QED
    BY <2>2
<1>13. /\ p[3] = Rename(Cfs(g + 2), docs)
       /\ p[7] = Rename(Manifest(g + 1), segs)
       /\ p[10] = Rename(Gen, gen)
  <2>1. p[7] = w[3]
    BY <1>10
  <2> QED
    BY <1>6, <1>7, <1>8, <1>10, <1>11, <2>1
<1>14. /\ Len(p) \in Nat /\ Len(p) >= 11
       /\ \A i \in 12 .. Len(p) : MergeTail(p[i], g)
  BY <1>3, <1>9 DEF Eleven
<1>15. MergeShape(p, g, Documents(d))
  BY <1>12, <1>13, <1>14 DEF MergeShape, docs, segs, gen
<1> QED
  BY <1>15 DEF p

-----------------------------------------------------------------------------
(* The calls begin                                                         *)

(* A call that only begins leaves the directories as they are.             *)
LEMMA SameDirs ==
  ASSUME PowerInv, dirs' = dirs
  PROVE  /\ Dir' = Dir /\ Hist' = Hist /\ DirsInv' /\ PendingInv'
         /\ \A d \in Hist' : SoundDir(d)
         /\ Dir \in Hist /\ SoundDir(Dir)
<1>1. DirsInv /\ PendingInv /\ \A d \in Hist : SoundDir(d)
  BY DEF PowerInv
<1>2. Dir' = Dir /\ Hist' = Hist
  BY DEF Dir, Hist
<1>3. DirsInv'
  BY <1>1 DEF DirsInv
<1>4. PendingInv'
  BY <1>1, <1>2 DEF PendingInv
<1> QED
  BY <1>1, <1>2, <1>3, <1>4, DirIsLast

(* A call that is not cut short by a power loss has nothing to survive.    *)
LEMMA NotLost ==
  ASSUME ~lost'
  PROVE  OptimizeIsDurable'
  BY DEF OptimizeIsDurable, OptimizedSurvives, OptimizeIsSafe

(* A commit begins at its first stage.                                     *)
LEMMA CommitBegins ==
  ASSUME PowerInv, NEW name, NEW merges, Begin(name, CommitSteps(Dir), merges, WithOneMore(Dir))
  PROVE  Committing' /\ at' \in 0 .. Len(prog') /\ Len(prog') \in Nat
<1>1. /\ Readable(Dir) /\ prog' = CommitSteps(Dir) /\ at' = 0 /\ dirs' = dirs
      /\ want' = Documents(Dir) \cup {NextName(Dir)}
  BY DEF Begin, WithOneMore
<1>2. Dir' = Dir /\ SoundDir(Dir)
  BY <1>1, SameDirs
<1>3. PICK g \in Nat : \E S \in SUBSET (0 .. (g + 1)) :
        /\ g + 1 \in S
        /\ GenIs(Dir, g) /\ Is(Dir, Manifest(g), <<"segs", S>>) /\ There(Dir, S)
        /\ Generation(Dir) = <<"gen", g>> /\ Segments(Dir) = S
        /\ Documents(Dir) = Docs(Dir, S) /\ NextName(Dir) = g + 2
  BY <1>1, <1>2, ReadableMeans
<1>4. PICK S \in SUBSET (0 .. (g + 1)) :
        /\ g + 1 \in S
        /\ GenIs(Dir, g) /\ Is(Dir, Manifest(g), <<"segs", S>>) /\ There(Dir, S)
        /\ Generation(Dir) = <<"gen", g>> /\ Segments(Dir) = S
        /\ Documents(Dir) = Docs(Dir, S) /\ NextName(Dir) = g + 2
  BY <1>3
<1>5. CommitShape(prog', g, S)
  <2>1. CommitShape(CommitSteps(Dir), g, S)
    BY <1>2, <1>4, CommitStepsAre
  <2> QED
    BY <1>1, <2>1
<1>6. CommitStage(g, S)'
  <2>1. GenIs(Dir', g) /\ There(Dir', S) /\ want' = Docs(Dir', S) \cup {g + 2}
    BY <1>1, <1>2, <1>4
  <2> QED
    BY <1>1, <2>1 DEF CommitStage
<1>7. Len(prog') \in Nat /\ 0 \in 0 .. Len(prog')
  BY <1>5 DEF CommitShape
<1>8. Committing'
  BY <1>4, <1>5, <1>6 DEF Committing
<1> QED
  BY <1>1, <1>7, <1>8

(* Commit and the first half of optimize begin.                            *)
LEMMA CommitKeeps ==
  ASSUME PowerInv, Commit \/ AddAndOptimize
  PROVE  PowerInv'
<1>1. PICK name \in {"commit", "add and optimize"} :
        Begin(name, CommitSteps(Dir), name = "add and optimize", WithOneMore(Dir))
  BY DEF Commit, AddAndOptimize
<1>2. dirs' = dirs /\ call' = name /\ merging' = (name = "add and optimize") /\ ~lost'
  BY <1>1 DEF Begin
<1>3. Committing' /\ at' \in 0 .. Len(prog') /\ Len(prog') \in Nat
  BY <1>1, CommitBegins
<1>4. Stage'
  BY <1>2, <1>3 DEF Stage
<1>5. /\ DirsInv' /\ PendingInv' /\ \A d \in Hist' : SoundDir(d)
  BY <1>2, SameDirs
<1> QED
  BY <1>2, <1>3, <1>4, <1>5, NotLost DEF PowerInv

(* Optimize begins, with nothing to commit.                                *)
LEMMA OptimizeKeeps ==
  ASSUME PowerInv, Optimize
  PROVE  PowerInv'
<1>1. /\ dirs' = dirs /\ prog' = <<>> /\ at' = 0 /\ call' = "optimize" /\ ~lost'
      /\ Readable(Dir) /\ want' = Documents(Dir)
      /\ before' = [docs |-> Documents(Dir), durable |-> Durable]
  BY DEF Optimize, Begin
<1>2. /\ Dir' = Dir /\ Hist' = Hist /\ DirsInv' /\ PendingInv'
      /\ \A d \in Hist' : SoundDir(d)
  BY <1>1, SameDirs
<1>3. before'.docs = Documents(Dir) /\ before'.durable = Durable
  BY <1>1
<1>4. ASSUME before'.durable
      PROVE  Untouched'
  <2>1. Len(dirs) = 1 /\ \A n \in DOMAIN Dir : Dir[n].safe
    BY <1>3, <1>4 DEF Durable
  <2>2. Hist = {Dir}
    <3>1. Dir = dirs[1]
      BY <2>1 DEF Dir, Last
    <3> QED
      BY <2>1, <3>1 DEF Hist
  <2> QED
    BY <1>1, <1>2, <1>3, <2>1, <2>2 DEF Untouched
<1>5. Stage'
  BY <1>1, <1>2, <1>4 DEF Stage
<1>6. at' \in 0 .. Len(prog') /\ Len(prog') \in Nat
  BY <1>1
<1> QED
  BY <1>1, <1>2, <1>5, <1>6, NotLost DEF PowerInv

(* The merge that a readable directory asks for.                           *)
LEMMA MergeBegins ==
  ASSUME PowerInv, NEW g \in Nat, NEW S \in SUBSET (0 .. (g + 1)),
         g + 1 \in S, GenIs(Dir, g), Generation(Dir) = <<"gen", g>>, Segments(Dir) = S,
         NextName(Dir) = g + 2, ~(Cardinality(S) <= 1),
         prog' = MergeSteps(Dir), at' = 0, dirs' = dirs, want' = Documents(Dir),
         call' = "optimize" /\ before'.durable => OldStays(g)'
  PROVE  Merging' /\ at' \in 0 .. Len(prog') /\ Len(prog') \in Nat
<1>1. Dir' = Dir /\ Dir \in Hist /\ SoundDir(Dir)
  BY SameDirs
<1>2. Pending \in DOMAIN Dir => ListBelow(Dir[Pending].content[2], g)
  BY <1>1 DEF PowerInv, PendingInv
<1>3. MergeShape(prog', g, want')
  <2>1. MergeShape(MergeSteps(Dir), g, Documents(Dir))
    BY <1>1, <1>2, MergeStepsAre
  <2> QED
    BY <2>1
<1>4. MergeStage(g)'
  BY <1>1 DEF MergeStage
<1>5. Merging'
  BY <1>3, <1>4 DEF Merging
<1>6. Len(prog') \in Nat /\ 0 \in 0 .. Len(prog')
  BY <1>3 DEF MergeShape
<1> QED
  BY <1>5, <1>6

(* Its merge begins, on what its commit left or on what it found.          *)
LEMMA MergeKeeps ==
  ASSUME PowerInv, ~lost, Merge
  PROVE  PowerInv'
<1>1. /\ at = Len(prog) /\ merging /\ Readable(Dir)
      /\ prog' = MergeSteps(Dir) /\ at' = 0 /\ ~merging' /\ dirs' = dirs
      /\ call' = call /\ before' = before /\ want' = want /\ lost' = lost
  BY DEF Merge
<1>2. /\ Dir' = Dir /\ Hist' = Hist /\ DirsInv' /\ PendingInv' /\ Dir \in Hist /\ SoundDir(Dir)
      /\ \A d \in Hist' : SoundDir(d)
  BY <1>1, SameDirs
<1>3. PICK g \in Nat : \E S \in SUBSET (0 .. (g + 1)) :
        /\ g + 1 \in S
        /\ GenIs(Dir, g) /\ Is(Dir, Manifest(g), <<"segs", S>>) /\ There(Dir, S)
        /\ Generation(Dir) = <<"gen", g>> /\ Segments(Dir) = S
        /\ Documents(Dir) = Docs(Dir, S) /\ NextName(Dir) = g + 2
  BY <1>1, <1>2, ReadableMeans
<1>4. PICK S \in SUBSET (0 .. (g + 1)) :
        /\ g + 1 \in S
        /\ GenIs(Dir, g) /\ Is(Dir, Manifest(g), <<"segs", S>>) /\ There(Dir, S)
        /\ Generation(Dir) = <<"gen", g>> /\ Segments(Dir) = S
        /\ Documents(Dir) = Docs(Dir, S) /\ NextName(Dir) = g + 2
  BY <1>3
<1>5. /\ DirsInv /\ at \in 0 .. Len(prog) /\ Len(prog) \in Nat /\ Stage
  BY DEF PowerInv
<1>6. ASSUME Stage', at' \in 0 .. Len(prog'), Len(prog') \in Nat
      PROVE  PowerInv'
  BY <1>1, <1>2, <1>6, NotLost DEF PowerInv
<1>7. CASE call = "add and optimize" /\ Committing
  <2>1. PICK h \in Nat : \E T \in SUBSET (0 .. (h + 1)) :
          h + 1 \in T /\ CommitShape(prog, h, T) /\ CommitStage(h, T)
    BY <1>7 DEF Committing
  <2>2. PICK T \in SUBSET (0 .. (h + 1)) :
          h + 1 \in T /\ CommitShape(prog, h, T) /\ CommitStage(h, T)
    BY <2>1
  <2>3. at >= 4 /\ at \in Nat
    BY <1>1, <1>5, <2>2 DEF CommitShape
  <2>4. /\ GenIs(Dir, h + 1) /\ Is(Dir, Manifest(h + 1), <<"segs", T \cup {h + 2}>>)
        /\ There(Dir, T \cup {h + 2}) => want = Docs(Dir, T \cup {h + 2})
    BY <2>2, <2>3 DEF CommitStage
  <2>5. g = h + 1
    BY <1>4, <2>4 DEF GenIs, Is
  <2>6. S = T \cup {h + 2}
    BY <1>4, <2>4, <2>5 DEF Is
  <2>7. want = Documents(Dir)
    BY <1>4, <2>4, <2>6
  <2>8. ~(Cardinality(S) <= 1)
    <3>1. IsFiniteSet(S)
      <4>1. 0 \in Int /\ g + 1 \in Int
        OBVIOUS
      <4>2. IsFiniteSet(0 .. (g + 1)) /\ S \subseteq 0 .. (g + 1)
        BY <4>1, FS_Interval
      <4> QED
        BY <4>2, FS_Subset
    <3>2. h + 1 \in S /\ h + 2 \in S /\ h + 1 # h + 2
      BY <2>2, <2>6
    <3>3. {h + 1, h + 2} \subseteq S
      BY <3>2
    <3>4. Cardinality({h + 1, h + 2}) = 2
      <4>1. IsFiniteSet({h + 1}) /\ Cardinality({h + 1}) = 1
        BY FS_Singleton
      <4>2. {h + 1, h + 2} = {h + 1} \cup {h + 2} /\ h + 2 \notin {h + 1}
        BY <3>2
      <4>3. Cardinality({h + 1} \cup {h + 2}) = Cardinality({h + 1}) + 1
        BY <4>1, <4>2, FS_AddElement
      <4> QED
        BY <4>1, <4>2, <4>3
    <3> QED
      BY <3>1, <3>3, <3>4, FS_Subset, FS_CardinalityType
  <2>9. Merging' /\ at' \in 0 .. Len(prog') /\ Len(prog') \in Nat
    BY <1>1, <1>4, <1>7, <2>7, <2>8, MergeBegins
  <2>10. Stage'
    BY <1>1, <1>7, <2>9 DEF Stage
  <2> QED
    BY <1>6, <2>9, <2>10
<1>8. CASE /\ call = "optimize" /\ prog = <<>> /\ Documents(Dir) = want
           /\ before.durable => Untouched
  <2>1. CASE Cardinality(S) <= 1
    <3>1. prog' = <<>>
      BY <1>1, <1>4, <2>1 DEF MergeSteps
    <3>2. Untouched => Untouched'
      BY <1>1, <1>2 DEF Untouched
    <3>3. Stage'
      BY <1>1, <1>2, <1>8, <3>1, <3>2 DEF Stage
    <3>4. at' \in 0 .. Len(prog') /\ Len(prog') \in Nat
      BY <1>1, <3>1
    <3> QED
      BY <1>6, <3>3, <3>4
  <2>2. CASE ~(Cardinality(S) <= 1)
    <3>1. ASSUME before.durable
          PROVE  OldStays(g)'
      <4>1. Hist' = {Dir} /\ (\A n \in DOMAIN Dir : Dir[n].safe) /\ want' = before'.docs
        BY <1>1, <1>2, <1>8, <3>1 DEF Untouched
      <4>2. OldIsThere(Dir, Dir, 0, g, S)
        <5>1. Has(Dir, Manifest(g), <<"segs", S>>) /\ Has(Dir, Gen, <<"gen", g>>)
          BY <1>4, <4>1 DEF GenIs, Is, Has
        <5>2. \A k \in S : Cfs(k) \in DOMAIN Dir /\ Has(Dir, Cfs(k), Dir[Cfs(k)].content)
          BY <1>4, <4>1 DEF There, Is, Has
        <5> QED
          BY <5>1, <5>2 DEF OldIsThere
      <4>3. \A d \in Hist' : OldIsThere(d, Dir', at', g, S)
        BY <1>1, <1>2, <4>1, <4>2
      <4>4. before'.docs = Docs(Dir', S)
        BY <1>1, <1>2, <1>4, <1>8, <4>1
      <4>5. (\A d \in Hist : OldIsThere(d, Dir, at, g, S))' /\ (before.docs = Docs(Dir, S))'
        BY <4>3, <4>4
      <4> QED
        BY <1>4, <4>1, <4>5 DEF OldStays
    <3>2. Merging' /\ at' \in 0 .. Len(prog') /\ Len(prog') \in Nat
      <4>1. call' = "optimize" /\ before'.durable => OldStays(g)'
        BY <1>1, <3>1
      <4> QED
        BY <1>1, <1>4, <1>8, <2>2, <4>1, MergeBegins
    <3>3. Stage'
      BY <1>1, <1>8, <3>2 DEF Stage
    <3> QED
      BY <1>6, <3>2, <3>3
  <2> QED
    BY <2>1, <2>2
<1> QED
  BY <1>1, <1>5, <1>7, <1>8 DEF Stage

(* The next request starts from what is there.                             *)
LEMMA RestartKeeps ==
  ASSUME PowerInv, Restart
  PROVE  PowerInv'
<1>1. dirs' = dirs /\ prog' = <<>> /\ at' = 0 /\ ~merging' /\ ~lost' /\ call' = "none"
  BY DEF Restart
<1>2. Stage'
  BY <1>1 DEF Stage
<1>3. at' \in 0 .. Len(prog') /\ Len(prog') \in Nat
  BY <1>1
<1> QED
  BY <1>1, <1>2, <1>3, SameDirs, NotLost DEF PowerInv

-----------------------------------------------------------------------------
(* The power fails                                                         *)

(* What a power loss leaves of the directories in history.                 *)
Left(d) ==
    /\ SoundDir(d)
    /\ \A n \in DOMAIN d : d[n].safe /\ \E e \in Hist : Is(e, n, d[n].content)
    /\ \A n : (\A e \in Hist : n \in DOMAIN e /\ e[n].safe) => n \in DOMAIN d

(* What all directories hold, and hold safely, is left.                    *)
LEMMA AlwaysThere ==
  ASSUME NEW d, Left(d), NEW n, NEW c, \A e \in Hist : Has(e, n, c)
  PROVE  Is(d, n, c)
<1>1. n \in DOMAIN d
  BY DEF Left, Has, Is
<1>2. PICK e \in Hist : Is(e, n, d[n].content)
  BY <1>1 DEF Left
<1> QED
  BY <1>1, <1>2 DEF Has, Is

(* The merged index is found again,                                        *)
LEMMA NewSurvives ==
  ASSUME PowerInv, NEW d, Left(d), NEW g \in Nat, MergeStage(g), at >= 8, GenIs(d, g + 1)
  PROVE  Readable(d) /\ Documents(d) = want
<1>1. at \in Nat
  BY DEF PowerInv
<1>2. \A e \in Hist : Has(e, Cfs(g + 2), <<"docs", want>>) /\ NewManifest(e, g)
  BY <1>1 DEF MergeStage
<1>3. Is(d, Cfs(g + 2), <<"docs", want>>)
  BY <1>2, AlwaysThere
<1>4. Is(d, Manifest(g + 1), <<"segs", {g + 2}>>)
  BY <1>2, AlwaysThere DEF NewManifest
<1>5. There(d, {g + 2})
  BY <1>3 DEF Is, There
<1>6. Docs(d, {g + 2}) = want
  <2>1. d[Cfs(g + 2)].content[2] = want
    BY <1>3 DEF Is
  <2> QED
    BY <2>1 DEF Docs
<1>7. g + 1 \in Nat /\ {g + 2} \in SUBSET Nat
  OBVIOUS
<1> QED
  BY <1>4, <1>5, <1>6, <1>7, ReadableIf DEF Left

(* and so is the old one.                                                  *)
LEMMA OldSurvives ==
  ASSUME PowerInv, NEW d, Left(d), NEW g \in Nat, NEW S \in SUBSET (0 .. (g + 1)),
         \A e \in Hist : OldIsThere(e, Dir, at, g, S), GenIs(d, g)
  PROVE  Readable(d) /\ Documents(d) = Docs(Dir, S)
<1>1. Is(d, Manifest(g), <<"segs", S>>)
  BY AlwaysThere DEF OldIsThere
<1>2. \A k \in S : Is(d, Cfs(k), Dir[Cfs(k)].content)
  BY AlwaysThere DEF OldIsThere
<1>3. There(d, S)
  BY <1>2 DEF There, Is
<1>4. Docs(d, S) = Docs(Dir, S)
  BY <1>2, DocsSame DEF Is
<1>5. S \in SUBSET Nat
  OBVIOUS
<1> QED
  BY <1>1, <1>3, <1>4, <1>5, ReadableIf DEF Left

(* A power loss in or after a merge.                                       *)
LEMMA MergeSurvives ==
  ASSUME PowerInv, NEW d, Left(d), Merging
  PROVE  /\ at = Len(prog) => Readable(d) /\ Documents(d) = want
         /\ call = "optimize" /\ before.durable => Readable(d) /\ Documents(d) = before.docs
<1>1. PICK g \in Nat : /\ MergeShape(prog, g, want) /\ MergeStage(g)
                       /\ call = "optimize" /\ before.durable => OldStays(g)
  BY DEF Merging
<1>2. at \in Nat /\ Len(prog) \in Nat /\ Len(prog) >= 11
  BY <1>1 DEF PowerInv, MergeShape
<1>3. ASSUME at >= 11
      PROVE  Readable(d) /\ Documents(d) = want
  <2>1. \A e \in Hist : Has(e, Gen, <<"gen", g + 1>>)
    BY <1>1, <1>3 DEF MergeStage
  <2>2. GenIs(d, g + 1)
    BY <2>1, AlwaysThere DEF GenIs
  <2> QED
    BY <1>1, <1>2, <1>3, <2>2, NewSurvives
<1>4. ASSUME call = "optimize", before.durable
      PROVE  Readable(d) /\ Documents(d) = before.docs
  <2>1. OldStays(g)
    BY <1>1, <1>4
  <2>2. want = before.docs
    BY <2>1 DEF OldStays
  <2>3. CASE at >= 11
    BY <1>3, <2>2, <2>3
  <2>4. CASE at <= 10
    <3>1. PICK S \in SUBSET (0 .. (g + 1)) :
            (\A e \in Hist : OldIsThere(e, Dir, at, g, S)) /\ before.docs = Docs(Dir, S)
      BY <2>1, <2>4 DEF OldStays
    <3>2. Gen \in DOMAIN d
      <4>1. \A e \in Hist : Gen \in DOMAIN e /\ e[Gen].safe
        BY <3>1 DEF OldIsThere, Has, Is
      <4> QED
        BY <4>1 DEF Left
    <3>3. PICK e \in Hist : Is(e, Gen, d[Gen].content)
      BY <3>2 DEF Left
    <3>4. GenIs(d, g) \/ (at = 10 /\ GenIs(d, g + 1))
      BY <3>1, <3>2, <3>3 DEF OldIsThere, Has, Is, GenIs
    <3>5. CASE GenIs(d, g)
      BY <3>1, <3>5, OldSurvives
    <3>6. CASE at = 10 /\ GenIs(d, g + 1)
      BY <1>1, <2>2, <3>6, NewSurvives
    <3> QED
      BY <3>4, <3>5, <3>6
  <2> QED
    BY <1>2, <2>3, <2>4
<1> QED
  BY <1>2, <1>3, <1>4

(* A power loss when there is nothing to merge.                            *)
LEMMA UntouchedSurvives ==
  ASSUME PowerInv, NEW d, Left(d), Untouched, Readable(Dir)
  PROVE  Readable(d) /\ Documents(d) = Documents(Dir)
<1>1. Hist = {Dir} /\ (\A n \in DOMAIN Dir : Dir[n].safe) /\ SoundDir(Dir)
  BY DEF Untouched, PowerInv
<1>2. PICK g \in Nat : \E S \in SUBSET (0 .. (g + 1)) :
        /\ GenIs(Dir, g) /\ Is(Dir, Manifest(g), <<"segs", S>>) /\ There(Dir, S)
        /\ Documents(Dir) = Docs(Dir, S)
  BY <1>1, ReadableMeans
<1>3. PICK S \in SUBSET (0 .. (g + 1)) :
        /\ GenIs(Dir, g) /\ Is(Dir, Manifest(g), <<"segs", S>>) /\ There(Dir, S)
        /\ Documents(Dir) = Docs(Dir, S)
  BY <1>2
<1>4. OldIsThere(Dir, Dir, at, g, S)
  <2>1. Has(Dir, Manifest(g), <<"segs", S>>) /\ Has(Dir, Gen, <<"gen", g>>)
    BY <1>1, <1>3 DEF GenIs, Is, Has
  <2>2. \A k \in S : Cfs(k) \in DOMAIN Dir /\ Has(Dir, Cfs(k), Dir[Cfs(k)].content)
    BY <1>1, <1>3 DEF There, Is, Has
  <2> QED
    BY <2>1, <2>2 DEF OldIsThere
<1>5. \A e \in Hist : Has(e, Gen, <<"gen", g>>)
  BY <1>1, <1>3 DEF GenIs, Is, Has
<1>6. GenIs(d, g)
  BY <1>5, AlwaysThere DEF GenIs
<1>7. \A e \in Hist : OldIsThere(e, Dir, at, g, S)
  BY <1>1, <1>4
<1> QED
  BY <1>3, <1>6, <1>7, OldSurvives

(* A power loss at any time.                                               *)
LEMMA PowerLossKeeps ==
  ASSUME PowerInv, PowerLoss
  PROVE  PowerInv'
<1>1. /\ ~lost /\ lost' /\ prog' = prog /\ at' = at /\ merging' = merging
      /\ call' = call /\ before' = before /\ want' = want
  BY DEF PowerLoss
<1>2. DirsInv /\ (\A e \in Hist : SoundDir(e)) /\ PendingInv /\ Stage
  BY <1>1 DEF PowerInv
<1>3. PICK d : dirs' = <<d>> /\ Left(d)
  BY <1>2, AfterPowerLoss DEF Left
<1>4. DirsInv' /\ Hist' = {d} /\ Dir' = d
  BY <1>3, OneDir
<1>5. SoundDir(d)
  BY <1>3 DEF Left
<1>6. PendingInv'
  <2> SUFFICES ASSUME NEW g \in Nat, Pending \in DOMAIN d, GenIs(d, g)
               PROVE  ListBelow(d[Pending].content[2], g)
    BY <1>4 DEF PendingInv
  <2>1. PICK e \in Hist : Is(e, Pending, d[Pending].content)
    BY <1>3 DEF Left
  <2>2. PICK f \in Hist : Is(f, Gen, d[Gen].content)
    BY <1>3 DEF Left, GenIs, Is
  <2>3. GenIs(f, g)
    BY <2>2 DEF GenIs, Is
  <2>4. Pending \in DOMAIN e /\ e[Pending].content = d[Pending].content
    BY <2>1 DEF Is
  <2> QED
    BY <1>2, <2>3, <2>4 DEF PendingInv
<1>7. /\ (at = Len(prog) /\ ~merging /\ call \in {"optimize", "add and optimize"}
             /\ (call = "optimize" => before.durable)
          => Readable(d) /\ Documents(d) = want)
      /\ (call = "optimize" /\ before.durable => Readable(d) /\ Documents(d) = before.docs)
  <2>1. CASE call \in {"none", "commit"}
    BY <2>1
  <2>2. CASE call = "add and optimize" /\ merging
    BY <2>2
  <2>3. CASE Merging
    BY <1>3, <2>3, MergeSurvives
  <2>4. CASE /\ call = "optimize" /\ Readable(Dir) /\ Documents(Dir) = want
             /\ before.durable => Untouched
    <3>1. before.durable => Readable(d) /\ Documents(d) = want /\ want = before.docs
      BY <1>3, <2>4, UntouchedSurvives DEF Untouched
    <3> QED
      BY <2>4, <3>1
  <2> QED
    BY <1>2, <2>1, <2>2, <2>3, <2>4 DEF Stage
<1>8. OptimizeIsDurable'
  <2>1. OptimizedSurvives'
    BY <1>1, <1>4, <1>7 DEF OptimizedSurvives, Returned, Holds
  <2>2. OptimizeIsSafe'
    BY <1>1, <1>4, <1>7 DEF OptimizeIsSafe, Holds
  <2> QED
    BY <2>1, <2>2 DEF OptimizeIsDurable
<1>9. at' \in 0 .. Len(prog') /\ Len(prog') \in Nat
  BY <1>1 DEF PowerInv
<1> QED
  BY <1>1, <1>4, <1>5, <1>6, <1>8, <1>9 DEF PowerInv

-----------------------------------------------------------------------------
(* The index as it is found first.                                         *)
LEMMA InitKeeps ==
  ASSUME Init
  PROVE  PowerInv
<1>1. /\ dirs = <<Start>> /\ prog = <<>> /\ at = 0 /\ ~merging /\ call = "none" /\ ~lost
  BY DEF Init
<1>2. DirsInv /\ Hist = {Start}
  <2>1. Len(dirs) = 1 /\ dirs[1] = Start /\ dirs = [i \in 1 .. Len(dirs) |-> dirs[i]]
    BY <1>1
  <2> QED
    BY <2>1 DEF DirsInv, Hist
<1>3. /\ DOMAIN Start = {Gen, Manifest(1), Cfs(1), Cfs(2)}
      /\ Start[Gen].content = <<"gen", 1>>
      /\ Start[Manifest(1)].content = <<"segs", {1, 2}>>
      /\ Start[Cfs(1)].content = <<"docs", {1}>>
      /\ Start[Cfs(2)].content = <<"docs", {2}>>
  <2>1. Cfs(1)[2] = 1 /\ Cfs(2)[2] = 2
    BY DEF Cfs
  <2> QED
    BY <2>1, NamesDiffer DEF Start
<1>4. SoundDir(Start)
  <2>1. IsFiniteSet(DOMAIN Start)
    <3>1. IsFiniteSet({Gen} \cup {Manifest(1)} \cup {Cfs(1)} \cup {Cfs(2)})
      <4>1. IsFiniteSet({Gen})
        BY FS_Singleton
      <4>2. IsFiniteSet({Gen} \cup {Manifest(1)})
        BY <4>1, FS_AddElement
      <4>3. IsFiniteSet(({Gen} \cup {Manifest(1)}) \cup {Cfs(1)})
        BY <4>2, FS_AddElement
      <4> QED
        BY <4>3, FS_AddElement
    <3>2. DOMAIN Start = {Gen} \cup {Manifest(1)} \cup {Cfs(1)} \cup {Cfs(2)}
      BY <1>3
    <3> QED
      BY <3>1, <3>2
  <2>2. IsFcn(Start)
    BY DEF IsFcn, Start
  <2>3. Proper(Gen, <<"gen", 1>>)
    BY DEF Proper
  <2>4. Proper(Manifest(1), <<"segs", {1, 2}>>)
    <3>1. {1, 2} \in SUBSET (0 .. (1 + 1)) /\ 1 + 1 \in {1, 2} /\ 1 \in Nat
      OBVIOUS
    <3> QED
      BY <3>1 DEF Proper
  <2>5. \A k : \A docs : Proper(Cfs(k), <<"docs", docs>>)
    BY DEF Proper, Cfs
  <2> QED
    BY <1>3, <2>1, <2>2, <2>3, <2>4, <2>5 DEF SoundDir
<1>5. PendingInv
  <2>1. Pending \notin DOMAIN Start
    BY <1>3, NamesDiffer
  <2> QED
    BY <1>2, <2>1 DEF PendingInv
<1>6. Stage
  BY <1>1 DEF Stage
<1>7. OptimizeIsDurable
  BY <1>1 DEF OptimizeIsDurable, OptimizedSurvives, OptimizeIsSafe
<1> QED
  BY <1>1, <1>2, <1>4, <1>5, <1>6, <1>7 DEF PowerInv

(* Every step keeps the invariant.                                         *)
LEMMA NextKeeps ==
  ASSUME DataOrdered, PowerInv, [Next]_vars
  PROVE  PowerInv'
<1>1. CASE (Commit \/ AddAndOptimize) /\ ~lost
  BY <1>1, CommitKeeps
<1>2. CASE Optimize /\ ~lost
  BY <1>2, OptimizeKeeps
<1>3. CASE Merge /\ ~lost
  BY <1>3, MergeKeeps
<1>4. CASE Step /\ ~lost
  BY <1>4, StepKeeps
<1>5. CASE PowerLoss
  BY <1>5, PowerLossKeeps
<1>6. CASE Restart
  BY <1>6, RestartKeeps
<1>7. CASE UNCHANGED vars
  <2>1. /\ dirs' = dirs /\ prog' = prog /\ at' = at /\ merging' = merging /\ call' = call
        /\ before' = before /\ want' = want /\ lost' = lost
    BY <1>7 DEF vars
  <2>2. Dir' = Dir /\ Hist' = Hist
    BY <2>1 DEF Dir, Hist
  <2>3. DirsInv' /\ PendingInv' /\ \A d \in Hist' : SoundDir(d)
    BY <2>1, SameDirs
  <2>4. Stage => Stage'
    <3>1. Committing => Committing'
      <4> SUFFICES ASSUME NEW g \in Nat, NEW S \in SUBSET (0 .. (g + 1)),
                          g + 1 \in S, CommitShape(prog, g, S), CommitStage(g, S)
                   PROVE  Committing'
        BY DEF Committing
      <4>1. CommitShape(prog, g, S)' /\ CommitStage(g, S)'
        BY <2>1, <2>2 DEF CommitStage
      <4> QED
        BY <4>1 DEF Committing
    <3>2. \A g : OldStays(g) => OldStays(g)'
      BY <2>1, <2>2 DEF OldStays
    <3>3. Merging => Merging'
      BY <2>1, <2>2, <3>2 DEF Merging, MergeStage
    <3>4. Untouched => Untouched'
      BY <2>1, <2>2 DEF Untouched
    <3> QED
      BY <2>1, <2>2, <3>1, <3>3, <3>4 DEF Stage
  <2>5. OptimizeIsDurable => OptimizeIsDurable'
    BY <2>1, <2>2 DEF OptimizeIsDurable, OptimizedSurvives, OptimizeIsSafe, Returned, Holds
  <2> QED
    BY <2>1, <2>3, <2>4, <2>5 DEF PowerInv
<1> QED
  BY <1>1, <1>2, <1>3, <1>4, <1>5, <1>6, <1>7 DEF Next

(* On a file system whose renames take the content of the file along, and  *)
(* whether or not its directory entries reach the disk in order, no power  *)
(* loss takes away what an optimize has returned with, and one in the      *)
(* middle of an optimize leaves the documents as they were (segments.rs:333*)
(* and 380).                                                               *)
THEOREM OptimizeIsDurableHolds ==
  ASSUME DataOrdered
  PROVE  Spec => []OptimizeIsDurable
<1>1. Init => PowerInv
  BY InitKeeps
<1>2. PowerInv /\ [Next]_vars => PowerInv'
  BY NextKeeps
<1>3. PowerInv => OptimizeIsDurable
  BY DEF PowerInv
<1> QED
  BY <1>1, <1>2, <1>3, PTL DEF Spec
=============================================================================
