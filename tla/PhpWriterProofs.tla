-------------------------- MODULE PhpWriterProofs --------------------------
(***************************************************************************)
(* What hosts of SdSearch\Writer rely on, for any number of objects,       *)
(* indexes, keys and additions.  A session has its index for itself, so    *)
(* that what it read when it was opened is what it replaces; and it keeps, *)
(* between two calls of its host, one live document for each key.          *)
(***************************************************************************)
EXTENDS PhpWriter, OrderedLists

Row == [key : Keys, ver : Nat, dir : Dirs, dead : BOOLEAN]

Sessions ==
    [dir : Dirs, base : Seq(Row), buf : Seq(Row), flushed : Seq(Row), dels : SUBSET Nat]

Hosts ==
    [key : Keys \cup {"none"}, id : Int, done : SUBSET Keys, refused : SUBSET Keys,
     added : [Keys -> Nat]]

TypeInv ==
    /\ disk \in [Dirs -> Seq(Row)]
    /\ lock \in [Dirs -> Objects \cup {NoOne}]
    /\ inner \in [Objects -> Sessions \cup {Closed}]
    /\ reader \in [Objects -> Seq(Row)]
    /\ host \in [Objects -> Hosts]
    /\ adds \in Nat
    /\ promised \in [Dirs -> [Keys -> Nat]]

-----------------------------------------------------------------------------
(* An open session and the lock of its index go together, and the index is *)
(* still as the session and its cached reader found it.                    *)
LockInv == \A o \in Objects, d \in Dirs : lock[d] = o <=> inner[o].dir = d

BaseInv ==
    \A o \in Objects : Open(o) =>
        inner[o].base = disk[inner[o].dir] /\ reader[o] = disk[inner[o].dir]

(* Indexes hold their own documents, one live document of each key.        *)
OneLive(rows) == \A i, j \in LiveRows(rows) : rows[i].key = rows[j].key => i = j
AllOf(rows, d) == \A i \in DOMAIN rows : rows[i].dir = d

DiskInv == \A d \in Dirs : OneLive(disk[d]) /\ AllOf(disk[d], d)

(* No version is promised or noted that is not there yet.                  *)
VersionInv ==
    /\ \A d \in Dirs, k \in Keys : promised[d][k] <= adds
    /\ \A o \in Objects, k \in Keys : host[o].added[k] <= adds

(* The documents of a session that no commit has published.                *)
New(o) == inner[o].flushed \o inner[o].buf

(* The keys that the host has replaced.                                    *)
Replaced(o) == host[o].done \ {host[o].key}

(* New documents are live, belong to the index, one for each key replaced  *)
(* whose document was not refused, and newer than what is promised.        *)
NewInv(o) ==
    /\ AllOf(New(o), inner[o].dir)
    /\ \A i \in DOMAIN New(o) :
         /\ ~New(o)[i].dead
         /\ New(o)[i].key \in Replaced(o)
         /\ New(o)[i].ver >= promised[inner[o].dir][New(o)[i].key]
    /\ \A i, j \in DOMAIN New(o) : New(o)[i].key = New(o)[j].key => i = j
    /\ \A k \in Replaced(o) \ host[o].refused :
         \E i \in DOMAIN New(o) : New(o)[i].key = k /\ New(o)[i].ver >= host[o].added[k]

(* What the base has of a key that is replaced is deleted, and nothing of  *)
(* other keys but the one the host is about to replace.                    *)
Gone(o, k) == \A i \in LiveRows(inner[o].base) : inner[o].base[i].key = k => i - 1 \in inner[o].dels

DelsInv(o) ==
    /\ \A k \in Replaced(o) : Gone(o, k)
    /\ \A n \in inner[o].dels : n + 1 \in DOMAIN inner[o].base /\ inner[o].base[n + 1].key \in host[o].done
    /\ host[o].refused \subseteq Replaced(o)
    /\ \A k \in (Keys \ host[o].done) \cup host[o].refused : host[o].added[k] = 0

(* The key that the host is about to replace, and the document it found.   *)
TurnInv(o) ==
    IF host[o].key = "none" THEN host[o].id < 0
    ELSE /\ host[o].key \in host[o].done
         /\ host[o].added[host[o].key] = 0
         /\ IF host[o].id < 0 THEN Gone(o, host[o].key)
            ELSE /\ host[o].id + 1 \in LiveRows(inner[o].base)
                 /\ inner[o].base[host[o].id + 1].key = host[o].key

HostInv(o) ==
    IF Open(o) THEN NewInv(o) /\ DelsInv(o) /\ TurnInv(o) ELSE host[o] = Idle

(* A version of k that is v or newer.                                      *)
Kept(rows, k, v) == \E i \in LiveRows(rows) : rows[i].key = k /\ rows[i].ver >= v

WriterInv ==
    /\ TypeInv /\ LockInv /\ BaseInv /\ DiskInv /\ VersionInv /\ PromisesKept
    /\ \A o \in Objects : HostInv(o)

-----------------------------------------------------------------------------
(* Rows                                                                    *)

(* The live rows of a list, by their positions.                            *)
LEMMA LiveRowsOf ==
  ASSUME NEW rows \in Seq(Row)
  PROVE  /\ LiveRows(rows) = {i \in 1 .. Len(rows) : ~rows[i].dead}
         /\ DOMAIN rows = 1 .. Len(rows) /\ Len(rows) \in Nat
         /\ \A i \in 1 .. Len(rows) : rows[i] \in Row
  BY DEF LiveRows

(* Appending lists is associative.                                         *)
LEMMA Associative ==
  \A s, u, v \in Seq(Row) : (s \o u) \o v = s \o (u \o v)
<1> TAKE s, u, v \in Seq(Row)
<1> QED
  BY SMTT(30), ConcatAssociative

(* At most one live document, counted.                                     *)
LEMMA OneLiveCounted ==
  ASSUME NEW rows, OneLive(rows), NEW k
  PROVE  Cardinality({i \in LiveRows(rows) : rows[i].key = k}) <= 1
<1> DEFINE S == {i \in LiveRows(rows) : rows[i].key = k}
<1>1. CASE S = {}
  BY <1>1, FS_EmptySet
<1>2. CASE S # {}
  <2>1. PICK i \in S : TRUE
    BY <1>2
  <2>2. S = {i}
    BY <2>1 DEF OneLive
  <2>3. Cardinality(S) = 1
    BY <2>2, FS_Singleton
  <2> QED
    BY <2>3
<1> QED
  BY <1>1, <1>2

-----------------------------------------------------------------------------
(* Compaction: what the recursive function in Compacted computes.          *)
LiveStep(f, rows, n) ==
    IF n = 0 THEN <<>>
    ELSE IF rows[n].dead THEN f[n - 1] ELSE Append(f[n - 1], rows[n])

(* The lists of live rows up to each position exist.                       *)
LEMMA LiveStepsExist ==
  ASSUME NEW rows, NEW len \in Nat
  PROVE  \E f : f = [n \in 0 .. len |-> LiveStep(f, rows, n)]
<1> DEFINE Upto(m) == \E f : f = [n \in 0 .. m |-> LiveStep(f, rows, n)]
           T == {m \in Nat : Upto(m)}
<1>1. Upto(0)
  <2>1. [n \in 0 .. 0 |-> <<>>] = [n \in 0 .. 0 |-> LiveStep([i \in 0 .. 0 |-> <<>>], rows, n)]
    BY DEF LiveStep
  <2> QED
    BY <2>1
<1>2. ASSUME NEW m \in Nat, Upto(m)
      PROVE  Upto(m + 1)
  <2>1. PICK f : f = [n \in 0 .. m |-> LiveStep(f, rows, n)]
    BY <1>2
  <2> DEFINE g == [n \in 0 .. (m + 1) |-> IF n = m + 1 THEN LiveStep(f, rows, n) ELSE f[n]]
  <2>2. ASSUME NEW n \in 0 .. (m + 1)
        PROVE  g[n] = LiveStep(g, rows, n)
    <3>1. CASE n = m + 1
      BY <3>1 DEF LiveStep
    <3>2. CASE n # m + 1
      <4>1. n \in 0 .. m
        BY <3>2
      <4>2. g[n] = LiveStep(f, rows, n)
        BY <2>1, <4>1, <3>2
      <4> QED
        BY <4>1, <4>2 DEF LiveStep
    <3> QED
      BY <3>1, <3>2
  <2>3. g = [n \in 0 .. (m + 1) |-> LiveStep(g, rows, n)]
    BY <2>2
  <2> HIDE DEF g
  <2> QED
    BY <2>3
<1> HIDE DEF Upto
<1>3. Nat \subseteq T
  <2> HIDE DEF T
  <2>1. 0 \in T /\ \A m \in Nat : m \in T => m + 1 \in T
    BY <1>1, <1>2 DEF T
  <2> QED
    BY <2>1, NaturalInduction
<1> QED
  BY <1>3 DEF Upto

(* Compacted goes through the rows one by one.                             *)
LEMMA CompactedInSteps ==
  ASSUME NEW rows, Len(rows) \in Nat
  PROVE  \E f : /\ f = [n \in 0 .. Len(rows) |-> LiveStep(f, rows, n)]
                /\ Compacted(rows) = f[Len(rows)]
<1> DEFINE live[n \in 0 .. Len(rows)] ==
               IF n = 0 THEN <<>>
               ELSE IF rows[n].dead THEN live[n - 1] ELSE Append(live[n - 1], rows[n])
<1>1. Compacted(rows) = live[Len(rows)]
  BY DEF Compacted
<1>2. live = [n \in 0 .. Len(rows) |-> LiveStep(live, rows, n)]
  BY LiveStepsExist DEF LiveStep
<1> HIDE DEF live
<1> QED
  BY <1>1, <1>2

(* Of the first n documents: the live ones, each of them, in some place.   *)
LiveOnes(rows, n, s) ==
    /\ s \in Seq(Row)
    /\ \A j \in 1 .. Len(s) : ~s[j].dead /\ \E i \in 1 .. n : s[j] = rows[i]
    /\ \A i \in 1 .. n : ~rows[i].dead => \E j \in 1 .. Len(s) : s[j] = rows[i]
    /\ \A j1, j2 \in 1 .. Len(s) : s[j1].key = s[j2].key => j1 = j2

(* Compacted keeps the live rows, all of them and no other.                *)
LEMMA CompactedLive ==
  ASSUME NEW rows \in Seq(Row), OneLive(rows)
  PROVE  LiveOnes(rows, Len(rows), Compacted(rows))
<1>1. PICK f : /\ f = [n \in 0 .. Len(rows) |-> LiveStep(f, rows, n)]
               /\ Compacted(rows) = f[Len(rows)]
  BY LiveRowsOf, CompactedInSteps
<1> DEFINE T == {n \in 0 .. Len(rows) : LiveOnes(rows, n, f[n])}
<1>2. 0 \in T
  <2>1. f[0] = <<>>
    BY <1>1, LiveRowsOf DEF LiveStep
  <2>2. <<>> \in Seq(Row) /\ Len(<<>>) = 0
    BY EmptySeq
  <2>3. LiveOnes(rows, 0, <<>>)
    BY <2>2 DEF LiveOnes
  <2> QED
    BY <2>1, <2>3, LiveRowsOf
<1>3. ASSUME NEW n \in 0 .. (Len(rows) - 1), n \in T
      PROVE  n + 1 \in T
  <2> DEFINE s == f[n]
             r == rows[n + 1]
  <2>1. n + 1 \in 1 .. Len(rows) /\ n + 1 \in 0 .. Len(rows) /\ r \in Row
    BY LiveRowsOf
  <2>2. f[n + 1] = IF r.dead THEN s ELSE Append(s, r)
    <3>1. f[n + 1] = LiveStep(f, rows, n + 1)
      BY <1>1, <2>1
    <3>2. n + 1 # 0 /\ (n + 1) - 1 = n
      OBVIOUS
    <3> QED
      BY <3>1, <3>2 DEF LiveStep
  <2>3. LiveOnes(rows, n, s)
    BY <1>3
  <2>4. CASE r.dead
    <3>1. f[n + 1] = s
      BY <2>2, <2>4
    <3>2. \A i \in 1 .. (n + 1) : ~rows[i].dead => i \in 1 .. n
      BY <2>4
    <3> HIDE DEF s, r
    <3>3. \A j \in 1 .. Len(s) : ~s[j].dead /\ \E i \in 1 .. (n + 1) : s[j] = rows[i]
      <4> TAKE j \in 1 .. Len(s)
      <4>1. PICK i \in 1 .. n : s[j] = rows[i] /\ ~s[j].dead
        BY <2>3 DEF LiveOnes
      <4> QED
        BY <4>1
    <3>4. LiveOnes(rows, n + 1, s)
      BY <2>3, <3>2, <3>3 DEF LiveOnes
    <3> QED
      BY <2>1, <3>1, <3>4
  <2>5. CASE ~r.dead
    <3> DEFINE a == Append(s, r)
    <3>1. f[n + 1] = a
      BY <2>2, <2>5
    <3>2. s \in Seq(Row) /\ a \in Seq(Row) /\ Len(a) = Len(s) + 1 /\ Len(s) \in Nat
      BY <2>1, <2>3 DEF LiveOnes
    <3>3. \A j \in 1 .. Len(s) : a[j] = s[j]
      BY <3>2
    <3>4. a[Len(s) + 1] = r
      BY <3>2
    <3>5. \A j \in 1 .. Len(a) : j = Len(s) + 1 \/ j \in 1 .. Len(s)
      BY <3>2
    <3>6. \A i \in 1 .. (n + 1) : i = n + 1 \/ i \in 1 .. n
      OBVIOUS
    <3>7. \A j \in 1 .. Len(s) : s[j].key # r.key
      <4> SUFFICES ASSUME NEW j \in 1 .. Len(s), s[j].key = r.key
                   PROVE  FALSE
        OBVIOUS
      <4>1. PICK i \in 1 .. n : s[j] = rows[i]
        BY <2>3 DEF LiveOnes
      <4>2. ~s[j].dead
        BY <2>3 DEF LiveOnes
      <4>3. i \in LiveRows(rows) /\ n + 1 \in LiveRows(rows)
        BY <2>1, <2>5, <4>1, <4>2, LiveRowsOf
      <4>4. i = n + 1
        BY <4>1, <4>3 DEF OneLive
      <4> QED
        BY <4>4
    <3> HIDE DEF a, s, r
    <3>8. \A j \in 1 .. Len(a) : ~a[j].dead /\ \E i \in 1 .. (n + 1) : a[j] = rows[i]
      <4> TAKE j \in 1 .. Len(a)
      <4>1. CASE j = Len(s) + 1
        BY <2>5, <3>4, <4>1 DEF r
      <4>2. CASE j \in 1 .. Len(s)
        <5>1. PICK i \in 1 .. n : s[j] = rows[i] /\ ~s[j].dead
          BY <2>3, <4>2 DEF LiveOnes
        <5> QED
          BY <3>3, <4>2, <5>1
      <4> QED
        BY <3>5, <4>1, <4>2
    <3>9. \A i \in 1 .. (n + 1) : ~rows[i].dead => \E j \in 1 .. Len(a) : a[j] = rows[i]
      <4>1. Len(s) + 1 \in 1 .. Len(a) /\ \A j \in 1 .. Len(s) : j \in 1 .. Len(a)
        BY <3>2
      <4>2. ASSUME NEW i \in 1 .. n, ~rows[i].dead
            PROVE  \E j \in 1 .. Len(a) : a[j] = rows[i]
        <5>1. PICK j \in 1 .. Len(s) : s[j] = rows[i]
          BY <2>3, <4>2 DEF LiveOnes
        <5> QED
          BY <5>1, <3>3, <4>1
      <4>3. \E j \in 1 .. Len(a) : a[j] = rows[n + 1]
        BY <3>4, <4>1 DEF r
      <4> QED
        BY <3>6, <4>2, <4>3
    <3>10. \A j1, j2 \in 1 .. Len(a) : a[j1].key = a[j2].key => j1 = j2
      BY SMTT(30), <2>3, <3>3, <3>4, <3>5, <3>7 DEF LiveOnes
    <3> QED
      BY <2>1, <3>1, <3>2, <3>8, <3>9, <3>10 DEF LiveOnes
  <2> QED
    BY <2>4, <2>5
<1>4. Len(rows) \in T
  <2> HIDE DEF T
  <2>1. Len(rows) \in Nat
    BY LiveRowsOf
  <2>2. \A n \in 0 .. (Len(rows) - 1) : n \in T => n + 1 \in T
    BY <1>3
  <2>3. 0 .. Len(rows) \subseteq T
    BY <1>2, <2>1, <2>2, InductionUpTo
  <2> QED
    BY <2>1, <2>3
<1> QED
  BY <1>1, <1>4

(* Compaction leaves one live document per key, of the same index.         *)
LEMMA CompactedKeeps ==
  ASSUME NEW rows \in Seq(Row), OneLive(rows), NEW d, AllOf(rows, d)
  PROVE  /\ Compacted(rows) \in Seq(Row)
         /\ OneLive(Compacted(rows))
         /\ AllOf(Compacted(rows), d)
         /\ \A k, v : Kept(rows, k, v) => Kept(Compacted(rows), k, v)
<1> DEFINE s == Compacted(rows)
<1>1. LiveOnes(rows, Len(rows), s)
  BY CompactedLive
<1> HIDE DEF s
<1>2. s \in Seq(Row)
  BY <1>1 DEF LiveOnes
<1>3. OneLive(s)
  BY <1>1, <1>2, LiveRowsOf DEF LiveOnes, OneLive
<1>4. AllOf(s, d)
  BY <1>1, <1>2, LiveRowsOf DEF LiveOnes, AllOf
<1>5. ASSUME NEW k, NEW v, Kept(rows, k, v)
      PROVE  Kept(s, k, v)
  BY ZenonT(60), <1>1, <1>2, <1>5, LiveRowsOf DEF LiveOnes, Kept
<1> QED
  BY <1>2, <1>3, <1>4, <1>5 DEF s

-----------------------------------------------------------------------------
(* Sessions                                                                *)

(* An object with a session is on an index, any other is closed.           *)
LEMMA OpenType ==
  ASSUME TypeInv, NEW o \in Objects
  PROVE  /\ Open(o) => inner[o] \in Sessions /\ inner[o].dir \in Dirs
         /\ ~Open(o) => inner[o] = Closed /\ inner[o].dir \notin Dirs
  BY NamesAssumption DEF TypeInv, Open, Sessions, Closed

(* Two sessions are on two indexes.                                        *)
LEMMA Apart ==
  ASSUME TypeInv, LockInv, NEW o \in Objects, NEW p \in Objects, Open(o),
         inner[p].dir = inner[o].dir
  PROVE  p = o
<1>1. inner[o].dir \in Dirs
  BY OpenType
<1>2. lock[inner[o].dir] = o /\ lock[inner[o].dir] = p
  BY <1>1 DEF LockInv
<1> QED
  BY <1>2

(* What a session has added so far is a list of rows.                      *)
LEMMA NewType ==
  ASSUME TypeInv, NEW o \in Objects, Open(o)
  PROVE  /\ New(o) \in Seq(Row)
         /\ inner[o].base \in Seq(Row)
         /\ inner[o].flushed \in Seq(Row) /\ inner[o].buf \in Seq(Row)
         /\ inner[o].dels \in SUBSET Nat
  BY OpenType, ConcatProperties DEF New, Sessions

(* What no step of another object touches.                                 *)
LEMMA OthersKeep ==
  ASSUME NEW p \in Objects, HostInv(p),
         inner'[p] = inner[p], host'[p] = host[p],
         Open(p) => promised'[inner[p].dir] = promised[inner[p].dir]
  PROVE  HostInv(p)'
<1>1. Open(p)' <=> Open(p)
  BY DEF Open
<1>2. New(p)' = New(p) /\ Replaced(p)' = Replaced(p) /\ \A k : Gone(p, k)' <=> Gone(p, k)
  BY DEF New, Replaced, Gone
<1>3. CASE Open(p)
  <2>1. NewInv(p)'
    BY <1>2, <1>3 DEF HostInv, NewInv, AllOf
  <2>2. DelsInv(p)'
    BY <1>2, <1>3 DEF HostInv, DelsInv
  <2>3. TurnInv(p)'
    BY <1>2, <1>3 DEF HostInv, TurnInv
  <2> QED
    BY <1>1, <1>3, <2>1, <2>2, <2>3 DEF HostInv
<1>4. CASE ~Open(p)
  BY <1>1, <1>4 DEF HostInv, Idle
<1> QED
  BY <1>3, <1>4

-----------------------------------------------------------------------------
(* What a commit publishes.                                                *)

(* What a commit publishes: the base with its deletions, then the new.     *)
LEMMA CommittedType ==
  ASSUME WriterInv, NEW o \in Objects, Open(o)
  PROVE  LET del == Deletes(inner[o].base, inner[o].dels)
             rows == Committed(inner[o])
         IN  /\ rows = del \o New(o)
             /\ del \in Seq(Row) /\ Len(del) = Len(inner[o].base)
             /\ rows \in Seq(Row) /\ Len(rows) = Len(del) + Len(New(o))
             /\ Len(del) \in Nat /\ Len(New(o)) \in Nat
             /\ \A i \in 1 .. Len(rows) :
                  IF i <= Len(del) THEN rows[i] = del[i]
                  ELSE i - Len(del) \in 1 .. Len(New(o)) /\ rows[i] = New(o)[i - Len(del)]
             /\ \A i \in 1 .. Len(del) :
                  /\ del[i].key = inner[o].base[i].key /\ del[i].ver = inner[o].base[i].ver
                  /\ del[i].dir = inner[o].base[i].dir
                  /\ del[i].dead <=> inner[o].base[i].dead \/ i - 1 \in inner[o].dels
<1> DEFINE base == inner[o].base
           dels == inner[o].dels
           del == Deletes(base, dels)
<1>1. base \in Seq(Row) /\ New(o) \in Seq(Row) /\ inner[o].flushed \in Seq(Row)
      /\ inner[o].buf \in Seq(Row)
  BY NewType DEF WriterInv
<1>2. DOMAIN base = 1 .. Len(base) /\ Len(base) \in Nat /\ Len(New(o)) \in Nat
      /\ \A i \in 1 .. Len(base) : base[i] \in Row
  BY <1>1, LiveRowsOf
<1> HIDE DEF base, dels
<1>3. ASSUME NEW i \in 1 .. Len(base)
      PROVE  /\ del[i] \in Row
             /\ del[i].key = base[i].key /\ del[i].ver = base[i].ver /\ del[i].dir = base[i].dir
             /\ del[i].dead <=> base[i].dead \/ i - 1 \in dels
  <2>1. del[i] = [base[i] EXCEPT !.dead = @ \/ (i - 1) \in dels]
    BY <1>2 DEF Deletes
  <2>2. base[i] \in Row
    BY <1>2
  <2> QED
    BY <2>1, <2>2 DEF Row
<1>4. del \in Seq(Row) /\ Len(del) = Len(base)
  <2>1. DOMAIN del = 1 .. Len(base)
    BY <1>2 DEF Deletes
  <2>2. del = [i \in 1 .. Len(base) |-> del[i]]
    BY <1>2 DEF Deletes
  <2>3. del \in [1 .. Len(base) -> Row]
    BY <2>2, <1>3
  <2> HIDE DEF del
  <2> QED
    BY <1>2, <2>3
<1> HIDE DEF del
<1>5. Committed(inner[o]) = del \o New(o)
  <2>1. Committed(inner[o]) = (del \o inner[o].flushed) \o inner[o].buf
    BY DEF Committed, del, base, dels
  <2>2. (del \o inner[o].flushed) \o inner[o].buf = del \o (inner[o].flushed \o inner[o].buf)
    BY <1>1, <1>4, Associative, Zenon
  <2> QED
    BY <2>1, <2>2 DEF New
<1>6. /\ del \o New(o) \in Seq(Row)
      /\ Len(del \o New(o)) = Len(del) + Len(New(o))
      /\ \A i \in 1 .. Len(del) + Len(New(o)) :
           (del \o New(o))[i] = IF i <= Len(del) THEN del[i] ELSE New(o)[i - Len(del)]
  BY <1>1, <1>4, ConcatProperties
<1>7. \A i \in 1 .. Len(del) + Len(New(o)) : i > Len(del) => i - Len(del) \in 1 .. Len(New(o))
  BY <1>2, <1>4
<1> QED
  BY SMTT(30), <1>2, <1>3, <1>4, <1>5, <1>6, <1>7 DEF base, dels, del

(* Between two updates of its host, a session has one live document of     *)
(* each key, none of another index, and nothing older than promised but    *)
(* for the keys whose document was refused.                                *)
LEMMA CommittedSound ==
  ASSUME WriterInv, NEW o \in Objects, Open(o), host[o].key = "none"
  PROVE  LET rows == Committed(inner[o])
         IN  /\ rows \in Seq(Row)
             /\ OneLive(rows)
             /\ AllOf(rows, inner[o].dir)
             /\ \A k \in Keys :
                  /\ promised[inner[o].dir][k] > 0 /\ k \notin host[o].refused =>
                       Kept(rows, k, promised[inner[o].dir][k])
                  /\ host[o].added[k] > 0 => Kept(rows, k, host[o].added[k])
<1> DEFINE d == inner[o].dir
           base == inner[o].base
           dels == inner[o].dels
           del == Deletes(base, dels)
           new == New(o)
           rows == Committed(inner[o])
<1>1. /\ rows \in Seq(Row) /\ Len(rows) = Len(del) + Len(new)
      /\ Len(del) \in Nat /\ Len(new) \in Nat /\ Len(del) = Len(base)
      /\ \A i \in 1 .. Len(rows) :
           IF i <= Len(del) THEN rows[i] = del[i]
           ELSE i - Len(del) \in 1 .. Len(new) /\ rows[i] = new[i - Len(del)]
      /\ \A i \in 1 .. Len(del) :
           /\ del[i].key = base[i].key /\ del[i].ver = base[i].ver /\ del[i].dir = base[i].dir
           /\ del[i].dead <=> base[i].dead \/ i - 1 \in dels
  BY CommittedType
<1>2. /\ d \in Dirs /\ base \in Seq(Row) /\ new \in Seq(Row)
      /\ base = disk[d] /\ OneLive(base) /\ AllOf(base, d)
  BY OpenType, NewType DEF WriterInv, BaseInv, DiskInv
<1>3. Replaced(o) = host[o].done /\ host[o].done \subseteq Keys
  BY NamesAssumption DEF WriterInv, TypeInv, Hosts, Replaced
<1>4. NewInv(o) /\ DelsInv(o)
  BY DEF WriterInv, HostInv
<1>5. PromisesKept /\ promised[d] \in [Keys -> Nat] /\ host[o].added \in [Keys -> Nat]
  BY <1>2 DEF WriterInv, TypeInv, Hosts
<1> HIDE DEF rows, del
<1>6. ASSUME NEW i \in LiveRows(rows)
      PROVE  \/ /\ i \in 1 .. Len(del) /\ i \in LiveRows(base) /\ i - 1 \notin dels
                /\ rows[i].key = base[i].key /\ rows[i].key \notin host[o].done
             \/ /\ i - Len(del) \in 1 .. Len(new) /\ rows[i] = new[i - Len(del)]
                /\ rows[i].key \in host[o].done
  <2>1. i \in 1 .. Len(rows) /\ ~rows[i].dead
    BY <1>1, LiveRowsOf
  <2>2. CASE i <= Len(del)
    <3>1. i \in 1 .. Len(del) /\ rows[i] = del[i]
      BY <1>1, <2>1, <2>2
    <3>2. ~base[i].dead /\ i - 1 \notin dels /\ rows[i].key = base[i].key
      BY <1>1, <2>1, <3>1
    <3>3. i \in LiveRows(base)
      BY <1>1, <1>2, <3>1, <3>2, LiveRowsOf
    <3>4. rows[i].key \notin host[o].done
      BY <1>3, <1>4, <3>2, <3>3 DEF DelsInv, Gone
    <3> QED
      BY <3>1, <3>2, <3>3, <3>4
  <2>3. CASE ~ i <= Len(del)
    <3>1. i - Len(del) \in 1 .. Len(new) /\ rows[i] = new[i - Len(del)]
      BY <1>1, <2>1, <2>3
    <3>2. i - Len(del) \in DOMAIN New(o)
      BY <1>2, <3>1, LiveRowsOf
    <3> HIDE DEF new
    <3>3. rows[i].key \in host[o].done
      BY <1>3, <1>4, <3>1, <3>2 DEF NewInv, new
    <3> QED
      BY <3>1, <3>3
  <2> QED
    BY <2>2, <2>3
<1>7. OneLive(rows)
  <2> SUFFICES ASSUME NEW i \in LiveRows(rows), NEW j \in LiveRows(rows), rows[i].key = rows[j].key
               PROVE  i = j
    BY DEF OneLive
  <2>1. i \in Int /\ j \in Int
    BY <1>1, LiveRowsOf
  <2>2. CASE rows[i].key \notin host[o].done
    <3>1. i \in LiveRows(base) /\ j \in LiveRows(base) /\ base[i].key = base[j].key
      BY <1>6, <2>2
    <3> QED
      BY <1>2, <3>1 DEF OneLive
  <2>3. CASE rows[i].key \in host[o].done
    <3>1. /\ i - Len(del) \in 1 .. Len(new) /\ rows[i] = new[i - Len(del)]
          /\ j - Len(del) \in 1 .. Len(new) /\ rows[j] = new[j - Len(del)]
      BY <1>6, <2>3
    <3>2. i - Len(del) \in DOMAIN New(o) /\ j - Len(del) \in DOMAIN New(o)
      BY <1>2, <3>1, LiveRowsOf
    <3>3. New(o)[i - Len(del)].key = New(o)[j - Len(del)].key
      BY <3>1
    <3>4. i - Len(del) = j - Len(del)
      BY <1>4, <3>2, <3>3 DEF NewInv
    <3> QED
      BY <1>1, <2>1, <3>4
  <2> QED
    BY <2>2, <2>3
<1>8. AllOf(rows, d)
  <2> SUFFICES ASSUME NEW i \in 1 .. Len(rows)
               PROVE  rows[i].dir = d
    BY <1>1, LiveRowsOf DEF AllOf
  <2>1. CASE i <= Len(del)
    <3>1. i \in 1 .. Len(del)
      BY <1>1, <2>1
    <3>2. i \in DOMAIN base
      BY <1>1, <1>2, <3>1, LiveRowsOf
    <3> QED
      BY <1>1, <1>2, <2>1, <3>1, <3>2 DEF AllOf
  <2>2. CASE ~ i <= Len(del)
    <3>1. i - Len(del) \in 1 .. Len(new) /\ rows[i] = new[i - Len(del)]
      BY <1>1, <2>2
    <3>2. i - Len(del) \in DOMAIN New(o)
      BY <1>2, <3>1, LiveRowsOf
    <3> QED
      BY <1>4, <3>1, <3>2 DEF NewInv, AllOf
  <2> QED
    BY <2>1, <2>2
<1>9. ASSUME NEW k \in host[o].done \ host[o].refused
      PROVE  Kept(rows, k, promised[d][k]) /\ Kept(rows, k, host[o].added[k])
  <2>1. PICK i \in DOMAIN New(o) : New(o)[i].key = k /\ New(o)[i].ver >= host[o].added[k]
    BY <1>3, <1>4 DEF NewInv
  <2>2. New(o)[i].ver >= promised[d][k] /\ ~New(o)[i].dead
    BY <1>4, <2>1 DEF NewInv
  <2>3. i \in 1 .. Len(new)
    BY <1>2, <2>1, LiveRowsOf
  <2> DEFINE j == Len(del) + i
  <2>4. j \in 1 .. Len(rows) /\ ~ j <= Len(del) /\ j - Len(del) = i
    BY SMTT(30), <1>1, <2>3
  <2>5. rows[j] = New(o)[i]
    BY <1>1, <2>4
  <2>6. j \in LiveRows(rows)
    BY <1>1, <2>2, <2>4, <2>5, LiveRowsOf
  <2> HIDE DEF j
  <2> QED
    BY <2>1, <2>2, <2>5, <2>6 DEF Kept
<1>10. ASSUME NEW k \in Keys \ host[o].done, promised[d][k] > 0
       PROVE  Kept(rows, k, promised[d][k])
  <2>1. PICK i \in LiveRows(disk[d]) : disk[d][i].key = k /\ disk[d][i].ver >= promised[d][k]
    BY <1>2, <1>5, <1>10 DEF PromisesKept
  <2>2. i \in 1 .. Len(base) /\ ~base[i].dead /\ base[i].key = k /\ base[i].ver >= promised[d][k]
    BY <1>2, <2>1, LiveRowsOf
  <2>3. i - 1 \notin dels
    <3> SUFFICES ASSUME i - 1 \in dels
                 PROVE  FALSE
      OBVIOUS
    <3>1. base[(i - 1) + 1].key \in host[o].done
      BY <1>4 DEF DelsInv
    <3>2. (i - 1) + 1 = i
      BY <2>2
    <3> QED
      BY <2>2, <3>1, <3>2
  <2>4. i \in 1 .. Len(rows) /\ i <= Len(del) /\ i \in 1 .. Len(del)
    BY <1>1, <2>2
  <2>5. rows[i].key = k /\ rows[i].ver >= promised[d][k] /\ ~rows[i].dead
    BY <1>1, <2>2, <2>3, <2>4
  <2>6. i \in LiveRows(rows)
    BY <1>1, <2>4, <2>5, LiveRowsOf
  <2> QED
    BY <2>5, <2>6 DEF Kept
<1>11. \A k \in (Keys \ host[o].done) \cup host[o].refused : host[o].added[k] = 0
  BY <1>4 DEF DelsInv
<1> QED
  BY <1>1, <1>3, <1>7, <1>8, <1>9, <1>10, <1>11 DEF rows

-----------------------------------------------------------------------------
(* The steps                                                               *)

(* At first nothing is open, written or promised.                          *)
LEMMA InitWriterInv == Init => WriterInv
<1> SUFFICES ASSUME Init
             PROVE  WriterInv
  OBVIOUS
<1>1. \A o \in Objects : inner[o] = Closed /\ reader[o] = <<>> /\ host[o] = Idle
  BY DEF Init
<1>2. \A d \in Dirs : disk[d] = <<>> /\ lock[d] = NoOne /\ promised[d] = [k \in Keys |-> 0]
  BY DEF Init
<1>3. <<>> \in Seq(Row) /\ LiveRows(<<>>) = {} /\ DOMAIN <<>> = {}
  BY EmptySeq DEF LiveRows
<1>4. Idle \in Hosts
  BY DEF Idle, Hosts
<1>5. TypeInv
  BY <1>3, <1>4 DEF Init, TypeInv
<1>6. LockInv
  BY <1>1, <1>2, NamesAssumption DEF LockInv, Closed
<1>7. BaseInv
  BY <1>1 DEF BaseInv, Open
<1>8. DiskInv /\ PromisesKept
  BY <1>2, <1>3 DEF DiskInv, OneLive, AllOf, PromisesKept
<1>9. VersionInv
  BY <1>1, <1>2 DEF VersionInv, Idle, Init
<1>10. \A o \in Objects : HostInv(o)
  BY <1>1 DEF HostInv, Open
<1> QED
  BY <1>5, <1>6, <1>7, <1>8, <1>9, <1>10 DEF WriterInv

(* A session that begins.                                                  *)
LEMMA OpenWriterKeeps ==
  ASSUME WriterInv, NEW o \in Objects, NEW d \in Dirs, OpenWriter(o, d)
  PROVE  WriterInv'
<1> USE DEF OpenWriter
<1>1. TypeInv /\ lock[d] = NoOne
  BY DEF WriterInv, Locked
<1>2. /\ inner'[o] = Session(o, d) /\ reader'[o] = disk[d] /\ host'[o] = Idle
      /\ \A p \in Objects \ {o} : inner'[p] = inner[p] /\ reader'[p] = reader[p] /\ host'[p] = host[p]
  BY <1>1 DEF TypeInv
<1>3. Session(o, d) \in Sessions /\ Session(o, d).dir = d /\ Session(o, d).base = disk[d]
  BY <1>1, EmptySeq DEF TypeInv, Session, Sessions
<1>4. Session(o, d) # Closed
  BY <1>3, NamesAssumption DEF Closed
<1>5. Idle \in Hosts
  BY DEF Idle, Hosts
<1>6. TypeInv'
  <2>1. inner' \in [Objects -> Sessions \cup {Closed}]
    BY <1>1, <1>3 DEF TypeInv
  <2>2. lock' \in [Dirs -> Objects \cup {NoOne}]
    BY <1>1 DEF TypeInv
  <2>3. reader' \in [Objects -> Seq(Row)]
    BY <1>1 DEF TypeInv
  <2>4. host' \in [Objects -> Hosts]
    BY <1>1, <1>5 DEF TypeInv
  <2> QED
    BY <1>1, <2>1, <2>2, <2>3, <2>4 DEF TypeInv
<1>7. LockInv'
  <2> SUFFICES ASSUME NEW p \in Objects, NEW x \in Dirs
               PROVE  lock'[x] = p <=> inner'[p].dir = x
    BY DEF LockInv
  <2>1. lock'[x] = IF x = d THEN o ELSE IF lock[x] = o THEN NoOne ELSE lock[x]
    OBVIOUS
  <2>2. lock[x] = p <=> inner[p].dir = x
    BY DEF WriterInv, LockInv
  <2>3. p # NoOne
    BY NamesAssumption
  <2> QED
    BY <1>1, <1>2, <1>3, <2>1, <2>2, <2>3
<1>8. BaseInv'
  <2> SUFFICES ASSUME NEW p \in Objects, inner'[p] # Closed
               PROVE  inner'[p].base = disk[inner'[p].dir] /\ reader'[p] = disk[inner'[p].dir]
    BY DEF BaseInv, Open
  <2> QED
    BY <1>2, <1>3 DEF WriterInv, BaseInv, Open
<1>9. VersionInv'
  BY <1>1, <1>2 DEF WriterInv, VersionInv, Idle, TypeInv
<1>10. DiskInv' /\ PromisesKept'
  BY DEF WriterInv, DiskInv, PromisesKept
<1>11. HostInv(o)'
  <2>1. New(o)' = <<>> /\ DOMAIN <<>> = {}
    <3>1. Session(o, d).flushed = <<>> /\ Session(o, d).buf = <<>>
      BY DEF Session
    <3>2. <<>> \o <<>> = <<>>
      OBVIOUS
    <3> QED
      BY <1>2, <3>1, <3>2 DEF New
  <2>2. Replaced(o)' = {} /\ host'[o].done = {} /\ host'[o].refused = {} /\ host'[o].key = "none" /\ host'[o].id < 0
        /\ \A k \in Keys : host'[o].added[k] = 0
    BY <1>2 DEF Idle, Replaced
  <2>3. NewInv(o)'
    BY <2>1, <2>2 DEF NewInv, AllOf
  <2>4. DelsInv(o)'
    BY <1>2, <2>2 DEF DelsInv, Session
  <2>5. TurnInv(o)'
    BY <2>2 DEF TurnInv
  <2>6. Open(o)'
    BY <1>2, <1>4 DEF Open
  <2> QED
    BY <2>3, <2>4, <2>5, <2>6 DEF HostInv
<1>12. ASSUME NEW p \in Objects \ {o}
       PROVE  HostInv(p)'
  BY <1>2, OthersKeep DEF WriterInv
<1> QED
  BY <1>6, <1>7, <1>8, <1>9, <1>10, <1>11, <1>12 DEF WriterInv

(* What the steps of an update leave alone.                                *)
LEMMA UpdateKeeps ==
  ASSUME WriterInv, NEW o \in Objects, Open(o),
         inner' = [inner EXCEPT ![o] = inner'[o]], inner'[o] \in Sessions,
         inner'[o].dir = inner[o].dir, inner'[o].base = inner[o].base,
         host' = [host EXCEPT ![o] = host'[o]], host'[o] \in Hosts,
         adds' \in Nat, adds <= adds', \A k \in Keys : host'[o].added[k] <= adds',
         UNCHANGED <<disk, lock, reader, promised>>,
         NewInv(o)', DelsInv(o)', TurnInv(o)'
  PROVE  WriterInv'
<1>1. TypeInv
  BY DEF WriterInv
<1>2. \A p \in Objects \ {o} : inner'[p] = inner[p] /\ host'[p] = host[p]
  BY <1>1 DEF TypeInv
<1>3. inner[o].dir \in Dirs
  BY <1>1, OpenType
<1>4. inner'[o] # Closed
  BY <1>3, NamesAssumption DEF Closed
<1>5. TypeInv'
  <2>1. inner' \in [Objects -> Sessions \cup {Closed}]
    BY <1>1 DEF TypeInv
  <2>2. host' \in [Objects -> Hosts]
    BY <1>1 DEF TypeInv
  <2> QED
    BY <1>1, <2>1, <2>2 DEF TypeInv
<1>6. LockInv'
  BY <1>2 DEF WriterInv, LockInv
<1>7. BaseInv'
  <2> SUFFICES ASSUME NEW p \in Objects, inner'[p] # Closed
               PROVE  inner'[p].base = disk[inner'[p].dir] /\ reader[p] = disk[inner'[p].dir]
    BY DEF BaseInv, Open
  <2> QED
    BY <1>2 DEF WriterInv, BaseInv, Open
<1>8. VersionInv'
  <2>1. \A x \in Dirs, k \in Keys : promised'[x][k] <= adds'
    <3>1. \A x \in Dirs, k \in Keys : promised[x][k] \in Nat /\ adds \in Nat
      BY <1>1 DEF TypeInv
    <3> QED
      BY <3>1 DEF WriterInv, VersionInv
  <2>2. ASSUME NEW p \in Objects, NEW k \in Keys
        PROVE  host'[p].added[k] <= adds'
    <3>1. host[p].added[k] \in Nat /\ adds \in Nat /\ host[p].added[k] <= adds
      BY <1>1 DEF TypeInv, Hosts, WriterInv, VersionInv
    <3>2. CASE p = o
      BY <1>2, <3>2
    <3>3. CASE p # o
      BY <1>2, <3>1, <3>3
    <3> QED
      BY <3>2, <3>3
  <2> QED
    BY <2>1, <2>2 DEF VersionInv
<1>9. DiskInv' /\ PromisesKept'
  BY DEF WriterInv, DiskInv, PromisesKept
<1>10. HostInv(o)'
  BY <1>2, <1>4 DEF HostInv, Open
<1>11. ASSUME NEW p \in Objects \ {o}
       PROVE  HostInv(p)'
  BY <1>2, OthersKeep DEF WriterInv
<1> QED
  BY <1>5, <1>6, <1>7, <1>8, <1>9, <1>10, <1>11 DEF WriterInv

(* What a session knows of itself.                                         *)
LEMMA SessionFacts ==
  ASSUME WriterInv, NEW o \in Objects, Open(o)
  PROVE  /\ inner[o] \in Sessions
         /\ host[o] \in Hosts
         /\ inner[o].base \in Seq(Row) /\ OneLive(inner[o].base) /\ reader[o] = inner[o].base
         /\ NewInv(o) /\ DelsInv(o) /\ TurnInv(o)
         /\ adds \in Nat /\ \A k \in Keys : host[o].added[k] <= adds
         /\ \A k \in Keys : promised[inner[o].dir][k] \in Nat /\ promised[inner[o].dir][k] <= adds
<1>1. inner[o] \in Sessions /\ inner[o].dir \in Dirs
  BY OpenType DEF WriterInv
<1>2. OneLive(inner[o].base) /\ reader[o] = inner[o].base
  BY <1>1 DEF WriterInv, BaseInv, DiskInv
<1>3. inner[o].base \in Seq(Row)
  BY <1>1 DEF Sessions
<1> QED
  BY <1>1, <1>2, <1>3 DEF WriterInv, TypeInv, HostInv, VersionInv

(* A host that looks for the document it is about to replace.              *)
LEMMA FindDocIdKeeps ==
  ASSUME WriterInv, NEW o \in Objects, NEW k \in Keys, FindDocId(o, k)
  PROVE  WriterInv'
<1> DEFINE ids == {i - 1 : i \in {j \in LiveRows(reader[o]) : reader[o][j].key = k}}
           id == IF ids = {} THEN 0 - 1 ELSE Min(ids)
           h == [host[o] EXCEPT !.key = k, !.id = id, !.done = @ \cup {k}]
<1>1. /\ Open(o) /\ host[o].key = "none" /\ k \notin host[o].done
      /\ host' = [host EXCEPT ![o] = h]
      /\ UNCHANGED <<disk, lock, inner, reader, adds, promised>>
  BY DEF FindDocId
<1>2. /\ inner[o] \in Sessions /\ inner[o].base \in Seq(Row) /\ OneLive(inner[o].base)
      /\ reader[o] = inner[o].base /\ host[o] \in Hosts
      /\ NewInv(o) /\ DelsInv(o) /\ TurnInv(o)
      /\ adds \in Nat /\ \A x \in Keys : host[o].added[x] <= adds
  BY <1>1, SessionFacts
<1>3. id \in Int /\ IF id < 0 THEN Gone(o, k)
                   ELSE id + 1 \in LiveRows(inner[o].base) /\ inner[o].base[id + 1].key = k
  <2>1. \A i \in LiveRows(inner[o].base) : i \in Int /\ i >= 1
    BY <1>2, LiveRowsOf
  <2>2. CASE ids = {}
    BY <1>2, <2>2 DEF Gone
  <2>3. CASE ids # {}
    <3>1. PICK i \in LiveRows(inner[o].base) : inner[o].base[i].key = k
      BY <1>2, <2>3
    <3>2. ids = {i - 1}
      BY <1>2, <3>1 DEF OneLive
    <3>3. i - 1 \in Int /\ i \in Int /\ i >= 1
      BY <2>1
    <3>4. Min({i - 1}) = i - 1
      BY <3>3 DEF Min
    <3>5. id = i - 1
      BY <2>3, <3>2, <3>4
    <3>6. id \in Int /\ ~ id < 0 /\ id + 1 = i
      BY <3>3, <3>5
    <3> HIDE DEF id
    <3> QED
      BY <3>1, <3>6
  <2> QED
    BY <2>2, <2>3
<1> HIDE DEF id, ids
<1>4. /\ h \in Hosts /\ h.key = k /\ h.id = id /\ h.done = host[o].done \cup {k}
      /\ h.refused = host[o].refused /\ h.added = host[o].added
  BY <1>2, <1>3 DEF Hosts
<1> HIDE DEF h
<1>5. host'[o] = h /\ inner' = inner /\ promised' = promised
  BY <1>1 DEF WriterInv, TypeInv
<1>6. New(o)' = New(o) /\ Replaced(o)' = Replaced(o) /\ \A x : Gone(o, x)' <=> Gone(o, x)
  <2>1. "none" \notin host[o].done
    BY <1>2, NamesAssumption DEF Hosts
  <2> QED
    BY <1>1, <1>4, <1>5, <2>1 DEF New, Replaced, Gone
<1>7. NewInv(o)'
  BY <1>2, <1>4, <1>5, <1>6 DEF NewInv, AllOf
<1>8. DelsInv(o)'
  BY <1>2, <1>4, <1>5, <1>6 DEF DelsInv
<1>9. TurnInv(o)'
  <2>1. k # "none" /\ host[o].added[k] = 0
    BY <1>1, <1>2, NamesAssumption DEF DelsInv
  <2> QED
    BY <1>3, <1>4, <1>5, <1>6, <2>1 DEF TurnInv
<1>10. inner' = [inner EXCEPT ![o] = inner[o]]
  BY <1>5 DEF WriterInv, TypeInv
<1>11. adds' \in Nat /\ adds <= adds' /\ \A x \in Keys : host'[o].added[x] <= adds'
  BY <1>1, <1>2, <1>4, <1>5
<1>12. inner' = [inner EXCEPT ![o] = inner'[o]] /\ host' = [host EXCEPT ![o] = host'[o]]
  BY <1>1, <1>5, <1>10
<1> QED
  BY <1>1, <1>2, <1>4, <1>5, <1>7, <1>8, <1>9, <1>11, <1>12, UpdateKeeps

(* A host that deletes the document it found.                              *)
LEMMA DeleteDocumentKeeps ==
  ASSUME WriterInv, NEW o \in Objects, DeleteDocument(o)
  PROVE  WriterInv'
<1> DEFINE id == host[o].id
           s == [inner[o] EXCEPT !.dels = @ \cup {id}]
           h == [host[o] EXCEPT !.id = 0 - 1]
<1>1. Open(o) /\ id >= 0 /\ UNCHANGED <<disk, lock, reader, adds, promised>>
  BY DEF DeleteDocument
<1>2. /\ inner[o] \in Sessions /\ inner[o].base \in Seq(Row) /\ OneLive(inner[o].base)
      /\ host[o] \in Hosts
      /\ NewInv(o) /\ DelsInv(o) /\ TurnInv(o)
      /\ adds \in Nat /\ \A x \in Keys : host[o].added[x] <= adds
  BY <1>1, SessionFacts
<1>3. /\ host[o].key # "none" /\ host[o].key \in host[o].done
      /\ host[o].added[host[o].key] = 0
      /\ id + 1 \in LiveRows(inner[o].base) /\ inner[o].base[id + 1].key = host[o].key
  BY <1>1, <1>2 DEF TurnInv, Hosts
<1>4. id \in Nat /\ id + 1 \in DOMAIN inner[o].base /\ id < Len(inner[o].base)
  BY <1>1, <1>2, <1>3, LiveRowsOf DEF Hosts
<1>5. inner' = [inner EXCEPT ![o] = s]
  <2>1. inner' = [inner EXCEPT ![o].dels = @ \cup {id}]
    BY <1>4 DEF DeleteDocument
  <2> QED
    BY <2>1
<1>6. host' = [host EXCEPT ![o] = h]
  BY DEF DeleteDocument
<1>7. /\ s \in Sessions /\ s.dir = inner[o].dir /\ s.base = inner[o].base
      /\ s.flushed = inner[o].flushed /\ s.buf = inner[o].buf /\ s.dels = inner[o].dels \cup {id}
  BY <1>2, <1>4 DEF Sessions
<1>8. /\ h \in Hosts
      /\ h.key = host[o].key /\ h.id = 0 - 1 /\ h.done = host[o].done
      /\ h.refused = host[o].refused /\ h.added = host[o].added
  BY SMTT(30), <1>2 DEF Hosts
<1> HIDE DEF s, h
<1>9. inner'[o] = s /\ host'[o] = h
  BY <1>5, <1>6 DEF WriterInv, TypeInv
<1>10. New(o)' = New(o) /\ Replaced(o)' = Replaced(o) /\ \A x : Gone(o, x) => Gone(o, x)'
  BY <1>7, <1>8, <1>9 DEF New, Replaced, Gone
<1>11. NewInv(o)'
  BY <1>1, <1>2, <1>7, <1>8, <1>9, <1>10 DEF NewInv, AllOf
<1>12. DelsInv(o)'
  <2>1. \A n \in s.dels : n + 1 \in DOMAIN s.base /\ s.base[n + 1].key \in h.done
    BY <1>2, <1>3, <1>4, <1>7, <1>8 DEF DelsInv
  <2> QED
    BY <1>2, <1>8, <1>9, <1>10, <2>1 DEF DelsInv
<1>13. Gone(o, host[o].key)'
  <2> SUFFICES ASSUME NEW i \in LiveRows(inner[o].base), inner[o].base[i].key = host[o].key
               PROVE  i - 1 \in s.dels
    BY <1>7, <1>9, <1>8 DEF Gone
  <2>1. i = id + 1
    BY <1>2, <1>3 DEF OneLive
  <2>2. i - 1 = id
    BY <1>4, <2>1
  <2> QED
    BY <1>7, <2>2
<1>14. TurnInv(o)'
  BY <1>3, <1>8, <1>9, <1>13 DEF TurnInv
<1>15. adds' \in Nat /\ adds <= adds' /\ \A x \in Keys : host'[o].added[x] <= adds'
  BY <1>1, <1>2, <1>8, <1>9
<1>16. inner' = [inner EXCEPT ![o] = inner'[o]] /\ host' = [host EXCEPT ![o] = host'[o]]
  BY <1>5, <1>6, <1>9
<1> QED
  BY <1>1, <1>7, <1>8, <1>9, <1>11, <1>12, <1>14, <1>15, <1>16, UpdateKeeps

(* However a call that buffers ends, one more document is in the session.  *)
LEMMA AddDocumentAppends ==
  ASSUME WriterInv, NEW o \in Objects, AddDocument(o), Buffered(o)
  PROVE  LET row == [key |-> host[o].key, ver |-> adds + 1, dir |-> inner[o].dir, dead |-> FALSE]
         IN  /\ row \in Row
             /\ \E s \in Sessions :
                  /\ inner' = [inner EXCEPT ![o] = s]
                  /\ s.dir = inner[o].dir /\ s.base = inner[o].base /\ s.dels = inner[o].dels
                  /\ s.flushed \o s.buf = Append(New(o), row)
             /\ \E h \in Hosts :
                  /\ host' = [host EXCEPT ![o] = h]
                  /\ h.key = "none" /\ h.id = host[o].id /\ h.done = host[o].done /\ h.refused = host[o].refused
                  /\ \A k \in Keys : \/ h.added[k] = host[o].added[k]
                                     \/ k = host[o].key /\ h.added[k] = adds + 1
<1> DEFINE row == [key |-> host[o].key, ver |-> adds + 1, dir |-> inner[o].dir, dead |-> FALSE]
           buf == Append(inner[o].buf, row)
           kept == [inner[o] EXCEPT !.buf = buf]
           flushed == [inner[o] EXCEPT !.buf = <<>>, !.flushed = @ \o buf]
           ok == [host[o] EXCEPT !.key = "none", !.added[host[o].key] = adds + 1]
           err == [host[o] EXCEPT !.key = "none"]
<1>1. /\ Open(o) /\ inner[o] \in Sessions /\ inner[o].dir \in Dirs /\ adds \in Nat
      /\ host[o] \in Hosts
      /\ host[o].key \in Keys
      /\ inner[o].flushed \in Seq(Row) /\ inner[o].buf \in Seq(Row)
  BY SessionFacts, OpenType, NewType DEF WriterInv, AddDocument, Hosts
<1>2. row \in Row
  BY <1>1 DEF Row
<1>3. \/ inner' = [inner EXCEPT ![o] = kept]
      \/ inner' = [inner EXCEPT ![o] = flushed]
  BY DEF Buffered
<1>4. \/ host' = [host EXCEPT ![o] = ok]
      \/ host' = [host EXCEPT ![o] = err]
  BY DEF Buffered
<1> HIDE DEF row
<1>5. /\ inner[o].flushed \o buf = Append(New(o), row)
      /\ (inner[o].flushed \o buf) \o <<>> = inner[o].flushed \o buf
      /\ buf \in Seq(Row) /\ inner[o].flushed \o buf \in Seq(Row)
  <2>1. buf \in Seq(Row) /\ inner[o].flushed \o buf \in Seq(Row)
    BY <1>1, <1>2
  <2>2. buf = inner[o].buf \o <<row>>
    BY <1>1, <1>2, AppendIsConcat
  <2>7. <<row>> \in Seq(Row)
    BY <1>2
  <2>3. New(o) \in Seq(Row) /\ Append(New(o), row) = New(o) \o <<row>>
    BY <1>1, <1>2, NewType, AppendIsConcat DEF WriterInv
  <2>5. New(o) \o <<row>> = inner[o].flushed \o (inner[o].buf \o <<row>>)
    BY <1>1, <2>2, <2>7, Associative, Zenon DEF New
  <2> HIDE DEF buf
  <2>6. (inner[o].flushed \o buf) \o <<>> = inner[o].flushed \o buf
    BY <2>1, ConcatEmptySeq
  <2> QED
    BY <2>1, <2>2, <2>3, <2>5, <2>6, Zenon
<1> HIDE DEF buf
<1>6. /\ kept \in Sessions /\ kept.dir = inner[o].dir /\ kept.base = inner[o].base
      /\ kept.dels = inner[o].dels /\ kept.flushed = inner[o].flushed /\ kept.buf = buf
  BY <1>1, <1>5 DEF Sessions
<1>7. /\ flushed \in Sessions /\ flushed.dir = inner[o].dir /\ flushed.base = inner[o].base
      /\ flushed.dels = inner[o].dels /\ flushed.flushed = inner[o].flushed \o buf /\ flushed.buf = <<>>
  BY <1>1, <1>5, EmptySeq DEF Sessions
<1>8. /\ ok \in Hosts
      /\ ok.key = "none" /\ ok.id = host[o].id /\ ok.done = host[o].done
      /\ ok.refused = host[o].refused
      /\ \A k \in Keys : ok.added[k] = IF k = host[o].key THEN adds + 1 ELSE host[o].added[k]
  <2> DEFINE added == [host[o].added EXCEPT ![host[o].key] = adds + 1]
  <2>1. ok = [host[o] EXCEPT !.key = "none", !.added = added]
    BY <1>1 DEF Hosts
  <2>2. /\ added \in [Keys -> Nat]
        /\ \A k \in Keys : added[k] = IF k = host[o].key THEN adds + 1 ELSE host[o].added[k]
    BY <1>1 DEF Hosts
  <2> HIDE DEF ok, added
  <2>3. /\ ok \in Hosts /\ ok.key = "none" /\ ok.id = host[o].id /\ ok.done = host[o].done
        /\ ok.refused = host[o].refused /\ ok.added = added
    BY <1>1, <2>1, <2>2 DEF Hosts
  <2> QED
    BY <2>2, <2>3
<1>9. /\ err \in Hosts
      /\ err.key = "none" /\ err.id = host[o].id /\ err.done = host[o].done
      /\ err.refused = host[o].refused /\ err.added = host[o].added
  BY <1>1 DEF Hosts
<1> HIDE DEF kept, flushed, ok, err
<1>10. \E s \in Sessions :
         /\ inner' = [inner EXCEPT ![o] = s]
         /\ s.dir = inner[o].dir /\ s.base = inner[o].base /\ s.dels = inner[o].dels
         /\ s.flushed \o s.buf = Append(New(o), row)
  BY <1>3, <1>5, <1>6, <1>7
<1>11. \E h \in Hosts :
         /\ host' = [host EXCEPT ![o] = h]
         /\ h.key = "none" /\ h.id = host[o].id /\ h.done = host[o].done /\ h.refused = host[o].refused
         /\ \A k \in Keys : \/ h.added[k] = host[o].added[k]
                            \/ k = host[o].key /\ h.added[k] = adds + 1
  BY <1>4, <1>8, <1>9
<1> QED
  BY <1>2, <1>10, <1>11 DEF row

(* A document that is refused leaves its session as it was, without the    *)
(* document that the host deleted.                                         *)
LEMMA RefusedKeeps ==
  ASSUME WriterInv, NEW o \in Objects, AddDocument(o), Refused(o)
  PROVE  WriterInv'
<1> DEFINE k == host[o].key
           h == [host[o] EXCEPT !.key = "none", !.refused = @ \cup {k}]
<1>1. /\ Open(o) /\ k # "none" /\ host[o].id < 0
      /\ host' = [host EXCEPT ![o] = h]
      /\ UNCHANGED <<disk, lock, inner, reader, adds, promised>>
  BY DEF AddDocument, Refused
<1>2. /\ inner[o] \in Sessions /\ host[o] \in Hosts
      /\ NewInv(o) /\ DelsInv(o) /\ TurnInv(o)
      /\ adds \in Nat /\ \A x \in Keys : host[o].added[x] <= adds
  BY <1>1, SessionFacts
<1>3. k \in Keys /\ k \in host[o].done /\ host[o].added[k] = 0 /\ Gone(o, k)
  BY <1>1, <1>2 DEF TurnInv, Hosts
<1>4. /\ h \in Hosts /\ h.key = "none" /\ h.id = host[o].id /\ h.done = host[o].done
      /\ h.refused = host[o].refused \cup {k} /\ h.added = host[o].added
  BY <1>2, <1>3 DEF Hosts
<1> HIDE DEF h
<1>5. host'[o] = h /\ inner' = inner /\ promised' = promised
  BY <1>1 DEF WriterInv, TypeInv
<1>6. /\ New(o)' = New(o) /\ \A x : Gone(o, x)' <=> Gone(o, x)
      /\ Replaced(o)' = Replaced(o) \cup {k}
  <2>1. "none" \notin host[o].done
    BY <1>2, NamesAssumption DEF Hosts
  <2> QED
    BY <1>3, <1>4, <1>5, <2>1 DEF New, Replaced, Gone
<1>7. NewInv(o)'
  <2>1. Replaced(o)' \ host'[o].refused \subseteq Replaced(o) \ host[o].refused
    BY <1>4, <1>5, <1>6
  <2> QED
    BY <1>2, <1>4, <1>5, <1>6, <2>1 DEF NewInv, AllOf
<1>8. DelsInv(o)'
  <2>1. host'[o].refused \subseteq Replaced(o)'
    BY <1>2, <1>4, <1>5, <1>6 DEF DelsInv
  <2>2. \A x \in (Keys \ host'[o].done) \cup host'[o].refused : host'[o].added[x] = 0
    BY <1>2, <1>3, <1>4, <1>5 DEF DelsInv
  <2>3. \A x \in Replaced(o)' : Gone(o, x)'
    BY <1>2, <1>3, <1>6 DEF DelsInv
  <2>4. \A n \in inner'[o].dels : n + 1 \in DOMAIN inner'[o].base /\ inner'[o].base[n + 1].key \in host'[o].done
    BY <1>2, <1>4, <1>5 DEF DelsInv
  <2> QED
    BY <2>1, <2>2, <2>3, <2>4 DEF DelsInv
<1>9. TurnInv(o)'
  BY <1>1, <1>4, <1>5 DEF TurnInv
<1>10. inner' = [inner EXCEPT ![o] = inner'[o]] /\ host' = [host EXCEPT ![o] = host'[o]]
  BY <1>1, <1>5 DEF WriterInv, TypeInv
<1>11. adds' \in Nat /\ adds <= adds' /\ \A x \in Keys : host'[o].added[x] <= adds'
  BY <1>1, <1>2, <1>4, <1>5
<1> QED
  BY <1>1, <1>2, <1>4, <1>5, <1>7, <1>8, <1>9, <1>10, <1>11, UpdateKeeps

(* A document that is buffered, whichever way the call ends.               *)
LEMMA BufferedKeeps ==
  ASSUME WriterInv, NEW o \in Objects, AddDocument(o), Buffered(o)
  PROVE  WriterInv'
<1> DEFINE row == [key |-> host[o].key, ver |-> adds + 1, dir |-> inner[o].dir, dead |-> FALSE]
<1>1. /\ Open(o) /\ host[o].key # "none" /\ host[o].id < 0 /\ adds' = adds + 1
      /\ UNCHANGED <<disk, lock, reader, promised>>
  BY DEF AddDocument, Buffered
<1>2. /\ inner[o] \in Sessions /\ host[o] \in Hosts
      /\ NewInv(o) /\ DelsInv(o) /\ TurnInv(o)
      /\ adds \in Nat /\ \A x \in Keys : host[o].added[x] \in Nat /\ host[o].added[x] <= adds
      /\ \A k \in Keys : promised[inner[o].dir][k] \in Nat /\ promised[inner[o].dir][k] <= adds
  BY <1>1, SessionFacts DEF Hosts
<1>3. /\ row \in Row /\ row.key = host[o].key /\ row.ver = adds + 1 /\ row.dir = inner[o].dir
      /\ ~row.dead
  BY AddDocumentAppends
<1>4. PICK s \in Sessions :
        /\ inner' = [inner EXCEPT ![o] = s]
        /\ s.dir = inner[o].dir /\ s.base = inner[o].base /\ s.dels = inner[o].dels
        /\ s.flushed \o s.buf = Append(New(o), row)
  BY AddDocumentAppends
<1>5. PICK h \in Hosts :
        /\ host' = [host EXCEPT ![o] = h]
        /\ h.key = "none" /\ h.id = host[o].id /\ h.done = host[o].done /\ h.refused = host[o].refused
        /\ \A k \in Keys : \/ h.added[k] = host[o].added[k]
                           \/ k = host[o].key /\ h.added[k] = adds + 1
  BY AddDocumentAppends
<1> HIDE DEF row
<1>6. inner'[o] = s /\ host'[o] = h
  BY <1>4, <1>5 DEF WriterInv, TypeInv
<1>7. New(o)' = Append(New(o), row)
  BY <1>4, <1>6 DEF New
<1>8. New(o) \in Seq(Row) /\ Len(New(o)) \in Nat /\ DOMAIN New(o) = 1 .. Len(New(o))
  BY <1>1, NewType, LiveRowsOf DEF WriterInv
<1> DEFINE n == Len(New(o)) + 1
<1>9. /\ DOMAIN New(o)' = 1 .. n
      /\ New(o)'[n] = row
      /\ \A i \in 1 .. n : i # n => i \in DOMAIN New(o) /\ New(o)'[i] = New(o)[i]
      /\ n \in 1 .. n /\ \A i \in DOMAIN New(o) : i \in 1 .. n /\ New(o)'[i] = New(o)[i]
  BY <1>3, <1>7, <1>8
<1> HIDE DEF n
<1>10. /\ host[o].key \in host[o].done /\ host[o].key \in Keys
       /\ host[o].added[host[o].key] = 0 /\ Gone(o, host[o].key)
  BY <1>1, <1>2 DEF TurnInv, Hosts
<1>11. Replaced(o)' = Replaced(o) \cup {host[o].key} /\ host[o].key \notin Replaced(o)
  <2>1. "none" \notin host[o].done
    BY <1>2, NamesAssumption DEF Hosts
  <2> QED
    BY <1>5, <1>6, <1>10, <2>1 DEF Replaced
<1>12. NewInv(o)'
  <2>1. \A i \in DOMAIN New(o) : New(o)[i].key # host[o].key
    BY <1>2, <1>11 DEF NewInv
  <2>2. AllOf(New(o), inner[o].dir)'
    BY <1>2, <1>3, <1>4, <1>6, <1>9 DEF NewInv, AllOf
  <2>3. ASSUME NEW i \in DOMAIN New(o)'
        PROVE  /\ ~New(o)'[i].dead
               /\ New(o)'[i].key \in Replaced(o)'
               /\ New(o)'[i].ver >= promised'[inner'[o].dir][New(o)'[i].key]
    <3>1. CASE i = n
      BY <1>1, <1>2, <1>3, <1>4, <1>6, <1>9, <1>10, <1>11, <3>1
    <3>2. CASE i # n
      <4>1. i \in DOMAIN New(o) /\ New(o)'[i] = New(o)[i]
        BY <1>9, <3>2
      <4>2. /\ ~New(o)[i].dead /\ New(o)[i].key \in Replaced(o)
            /\ New(o)[i].ver >= promised[inner[o].dir][New(o)[i].key]
        BY <1>2, <4>1 DEF NewInv
      <4> QED
        BY <1>1, <1>4, <1>6, <1>11, <4>1, <4>2
    <3> QED
      BY <3>1, <3>2
  <2>4. ASSUME NEW i \in DOMAIN New(o)', NEW j \in DOMAIN New(o)', New(o)'[i].key = New(o)'[j].key
        PROVE  i = j
    <3>1. CASE i = n
      BY <1>3, <1>9, <2>1, <2>4, <3>1
    <3>2. CASE j = n
      BY <1>3, <1>9, <2>1, <2>4, <3>2
    <3>3. CASE i # n /\ j # n
      <4>1. /\ i \in DOMAIN New(o) /\ New(o)'[i] = New(o)[i]
            /\ j \in DOMAIN New(o) /\ New(o)'[j] = New(o)[j]
        BY <1>9, <3>3
      <4> QED
        BY <1>2, <2>4, <4>1 DEF NewInv
    <3> QED
      BY <3>1, <3>2, <3>3
  <2>5. ASSUME NEW k \in Replaced(o)' \ host'[o].refused
        PROVE  \E i \in DOMAIN New(o)' : New(o)'[i].key = k /\ New(o)'[i].ver >= host'[o].added[k]
    <3>1. CASE k = host[o].key
      <4>1. host'[o].added[k] = 0 \/ host'[o].added[k] = adds + 1
        BY <1>5, <1>6, <1>10, <3>1
      <4>2. adds + 1 >= host'[o].added[k]
        BY <1>2, <4>1
      <4> QED
        BY <1>3, <1>9, <3>1, <4>2
    <3>2. CASE k # host[o].key
      <4>1. k \in Replaced(o) \ host[o].refused /\ k \in Keys
        BY <1>2, <1>5, <1>6, <1>11, <3>2 DEF Replaced, Hosts
      <4>2. PICK i \in DOMAIN New(o) : New(o)[i].key = k /\ New(o)[i].ver >= host[o].added[k]
        BY <1>2, <4>1 DEF NewInv
      <4>3. host'[o].added[k] = host[o].added[k]
        BY <1>5, <1>6, <3>2, <4>1
      <4> QED
        BY <1>9, <4>2, <4>3
    <3> QED
      BY <3>1, <3>2
  <2> QED
    BY <2>2, <2>3, <2>4, <2>5 DEF NewInv
<1>13. \A k : Gone(o, k)' <=> Gone(o, k)
  BY <1>4, <1>6 DEF Gone
<1>14. DelsInv(o)'
  <2>1. \A k \in Replaced(o)' : Gone(o, k)'
    BY <1>2, <1>10, <1>11, <1>13 DEF DelsInv
  <2>2. \A x \in inner'[o].dels : x + 1 \in DOMAIN inner'[o].base /\ inner'[o].base[x + 1].key \in host'[o].done
    BY <1>2, <1>4, <1>5, <1>6 DEF DelsInv
  <2>3. host'[o].refused \subseteq Replaced(o)'
    BY <1>2, <1>5, <1>6, <1>11 DEF DelsInv
  <2>4. ASSUME NEW k \in (Keys \ host'[o].done) \cup host'[o].refused
        PROVE  host'[o].added[k] = 0
    <3>1. /\ k \in (Keys \ host[o].done) \cup host[o].refused
          /\ k \in Keys /\ k # host[o].key
      BY <1>2, <1>5, <1>6, <1>10, <1>11 DEF DelsInv, Hosts
    <3> QED
      BY <1>2, <1>5, <1>6, <3>1 DEF DelsInv
  <2> QED
    BY <2>1, <2>2, <2>3, <2>4 DEF DelsInv
<1>15. TurnInv(o)'
  BY <1>1, <1>5, <1>6 DEF TurnInv
<1>16. adds' \in Nat /\ adds <= adds' /\ \A x \in Keys : host'[o].added[x] <= adds'
  <2>1. adds' \in Nat /\ adds <= adds'
    BY <1>1, <1>2
  <2>2. ASSUME NEW x \in Keys
        PROVE  host'[o].added[x] <= adds'
    <3>1. host'[o].added[x] = host[o].added[x] \/ host'[o].added[x] = adds + 1
      BY <1>5, <1>6
    <3> QED
      BY <1>1, <1>2, <3>1
  <2> QED
    BY <2>1, <2>2
<1>17. inner' = [inner EXCEPT ![o] = inner'[o]] /\ host' = [host EXCEPT ![o] = host'[o]]
  BY <1>4, <1>5, <1>6
<1> QED
  BY <1>1, <1>4, <1>5, <1>6, <1>12, <1>14, <1>15, <1>16, <1>17, UpdateKeeps

(* The end of a session, which leaves rows behind and promises p of them.  *)
LEMMA EndKeeps ==
  ASSUME WriterInv, NEW o \in Objects, Open(o), Consume(o),
         NEW rows \in Seq(Row), OneLive(rows), AllOf(rows, inner[o].dir),
         disk' = [disk EXCEPT ![inner[o].dir] = rows],
         NEW p \in [Keys -> Nat], promised' = [promised EXCEPT ![inner[o].dir] = p],
         \A k \in Keys : p[k] <= adds /\ (p[k] > 0 => Kept(rows, k, p[k]))
  PROVE  WriterInv'
<1> DEFINE d == inner[o].dir
<1>1. TypeInv /\ LockInv
  BY DEF WriterInv
<1>2. d \in Dirs
  BY <1>1, OpenType
<1>3. /\ inner' = [inner EXCEPT ![o] = Closed] /\ reader' = [reader EXCEPT ![o] = <<>>]
      /\ host' = [host EXCEPT ![o] = Idle] /\ lock' = [lock EXCEPT ![d] = NoOne]
      /\ adds' = adds
  BY DEF Consume
<1>4. /\ inner'[o] = Closed /\ host'[o] = Idle /\ disk'[d] = rows /\ promised'[d] = p
      /\ \A q \in Objects \ {o} : inner'[q] = inner[q] /\ host'[q] = host[q] /\ reader'[q] = reader[q]
      /\ \A x \in Dirs \ {d} : disk'[x] = disk[x] /\ promised'[x] = promised[x] /\ lock'[x] = lock[x]
      /\ lock'[d] = NoOne
  BY <1>1, <1>2, <1>3 DEF TypeInv
<1> HIDE DEF d
<1>5. TypeInv'
  <2>1. Idle \in Hosts
    BY DEF Idle, Hosts
  <2>2. /\ inner' \in [Objects -> Sessions \cup {Closed}] /\ reader' \in [Objects -> Seq(Row)]
        /\ host' \in [Objects -> Hosts] /\ lock' \in [Dirs -> Objects \cup {NoOne}] /\ adds' \in Nat
    BY <1>1, <1>3, <2>1, EmptySeq DEF TypeInv
  <2>3. disk' \in [Dirs -> Seq(Row)]
    BY <1>1 DEF TypeInv
  <2>4. promised' \in [Dirs -> [Keys -> Nat]]
    BY <1>1 DEF TypeInv
  <2> QED
    BY <2>2, <2>3, <2>4 DEF TypeInv
<1>6. \A q \in Objects : inner[q].dir = d => q = o
  BY <1>1, Apart DEF d
<1>7. Closed.dir \notin Dirs
  BY NamesAssumption DEF Closed
<1>8. LockInv'
  <2> SUFFICES ASSUME NEW q \in Objects, NEW x \in Dirs
               PROVE  lock'[x] = q <=> inner'[q].dir = x
    BY DEF LockInv
  <2>1. lock[x] = q <=> inner[q].dir = x
    BY <1>1 DEF LockInv
  <2>2. q # NoOne
    BY NamesAssumption
  <2>3. inner[o].dir = d
    BY DEF d
  <2> QED
    BY <1>4, <1>6, <1>7, <2>1, <2>2, <2>3
<1>9. BaseInv'
  <2> SUFFICES ASSUME NEW q \in Objects, inner'[q] # Closed
               PROVE  inner'[q].base = disk'[inner'[q].dir] /\ reader'[q] = disk'[inner'[q].dir]
    BY DEF BaseInv, Open
  <2>1. q # o /\ inner'[q] = inner[q] /\ reader'[q] = reader[q] /\ Open(q)
    BY <1>4 DEF Open
  <2>2. inner[q].dir \in Dirs \ {d}
    BY <1>1, <1>6, <2>1, OpenType
  <2> QED
    BY <1>4, <2>1, <2>2 DEF WriterInv, BaseInv
<1>10. DiskInv'
  BY <1>4 DEF WriterInv, DiskInv, d
<1>11. VersionInv'
  <2>1. \A x \in Dirs, k \in Keys : promised'[x][k] <= adds
    BY <1>4 DEF WriterInv, VersionInv
  <2>2. \A q \in Objects, k \in Keys : host'[q].added[k] <= adds
    <3>1. \A k \in Keys : Idle.added[k] = 0
      BY DEF Idle
    <3>2. adds \in Nat
      BY <1>1 DEF TypeInv
    <3> QED
      BY <1>4, <3>1, <3>2 DEF WriterInv, VersionInv
  <2> QED
    BY <1>3, <2>1, <2>2 DEF VersionInv
<1>12. PromisesKept'
  <2> SUFFICES ASSUME NEW x \in Dirs, NEW k \in Keys, promised'[x][k] > 0
               PROVE  \E i \in LiveRows(disk'[x]) :
                        disk'[x][i].key = k /\ disk'[x][i].ver >= promised'[x][k]
    BY DEF PromisesKept, LiveRows
  <2>1. CASE x = d
    BY <1>4, <2>1 DEF Kept
  <2>2. CASE x # d
    BY <1>4, <2>2 DEF WriterInv, PromisesKept
  <2> QED
    BY <2>1, <2>2
<1>13. HostInv(o)'
  BY <1>4 DEF HostInv, Open, Idle
<1>14. ASSUME NEW q \in Objects \ {o}
       PROVE  HostInv(q)'
  <2>1. Open(q) => promised'[inner[q].dir] = promised[inner[q].dir]
    BY <1>1, <1>4, <1>6, OpenType
  <2> QED
    BY <1>4, <2>1, OthersKeep DEF WriterInv
<1> QED
  BY <1>5, <1>8, <1>9, <1>10, <1>11, <1>12, <1>13, <1>14 DEF WriterInv

(* A session that ends without a commit.                                   *)
LEMMA GiveUpKeeps ==
  ASSUME WriterInv, NEW o \in Objects, Open(o), Consume(o), UNCHANGED <<disk, promised>>
  PROVE  WriterInv'
<1> DEFINE d == inner[o].dir
<1>1. d \in Dirs
  BY OpenType DEF WriterInv
<1>2. /\ disk' = [disk EXCEPT ![d] = disk[d]] /\ disk[d] \in Seq(Row)
      /\ promised' = [promised EXCEPT ![d] = promised[d]] /\ promised[d] \in [Keys -> Nat]
  BY <1>1 DEF WriterInv, TypeInv
<1>3. OneLive(disk[d]) /\ AllOf(disk[d], d)
  BY <1>1 DEF WriterInv, DiskInv
<1>4. \A k \in Keys : promised[d][k] <= adds /\ (promised[d][k] > 0 => Kept(disk[d], k, promised[d][k]))
  BY <1>1 DEF WriterInv, VersionInv, PromisesKept, Kept
<1> QED
  BY <1>2, <1>3, <1>4, EndKeeps

(* A commit, or one that its optimize follows up, or only its merge fails. *)
LEMMA PublishKeeps ==
  ASSUME WriterInv, NEW o \in Objects, Open(o), Consume(o), host[o].key = "none",
         NEW rows, rows = Committed(inner[o]) \/ rows = Compacted(Committed(inner[o])),
         disk' = [disk EXCEPT ![inner[o].dir] = rows],
         Promise(o) \/ promised' = [promised EXCEPT ![inner[o].dir] = Withdrawn(o)]
  PROVE  WriterInv'
<1> DEFINE d == inner[o].dir
           all == Committed(inner[o])
           old == Withdrawn(o)
           p == [k \in Keys |-> IF host[o].added[k] > 0 THEN host[o].added[k] ELSE old[k]]
<1>1. d \in Dirs /\ promised[d] \in [Keys -> Nat] /\ host[o].added \in [Keys -> Nat]
  BY OpenType DEF WriterInv, TypeInv, Hosts
<1>2. /\ all \in Seq(Row) /\ OneLive(all) /\ AllOf(all, d)
      /\ \A k \in Keys : /\ promised[d][k] > 0 /\ k \notin host[o].refused => Kept(all, k, promised[d][k])
                         /\ host[o].added[k] > 0 => Kept(all, k, host[o].added[k])
  BY CommittedSound
<1> HIDE DEF all
<1>3. /\ rows \in Seq(Row) /\ OneLive(rows) /\ AllOf(rows, d)
      /\ \A k, v : Kept(all, k, v) => Kept(rows, k, v)
  BY <1>2, CompactedKeeps DEF all
<1>4. \A k \in Keys : promised[d][k] <= adds /\ host[o].added[k] <= adds
  BY <1>1 DEF WriterInv, VersionInv
<1>5. adds \in Nat
  BY DEF WriterInv, TypeInv
<1>6. old \in [Keys -> Nat] /\ \A k \in Keys : old[k] = IF k \in host[o].refused THEN 0 ELSE promised[d][k]
  BY <1>1 DEF Withdrawn
<1> HIDE DEF old
<1>7. \A k \in Keys : old[k] <= adds /\ (old[k] > 0 => Kept(rows, k, old[k]))
  BY <1>2, <1>3, <1>4, <1>5, <1>6
<1>8. CASE promised' = [promised EXCEPT ![d] = old]
  BY <1>3, <1>6, <1>7, <1>8, EndKeeps
<1>9. CASE Promise(o)
  <2>1. promised' = [promised EXCEPT ![d] = p]
    BY <1>9 DEF Promise, old
  <2>2. p \in [Keys -> Nat]
    BY <1>1, <1>6
  <2>3. \A k \in Keys : (p[k] = host[o].added[k] /\ p[k] > 0) \/ p[k] = old[k]
    OBVIOUS
  <2> HIDE DEF p
  <2>4. \A k \in Keys : p[k] <= adds /\ (p[k] > 0 => Kept(rows, k, p[k]))
    BY <1>2, <1>3, <1>4, <1>7, <2>3
  <2> QED
    BY <1>3, <2>1, <2>2, <2>4, EndKeeps
<1> QED
  BY <1>8, <1>9 DEF old

(* Every step keeps the invariant.                                         *)
LEMMA StepKeepsWriterInv == WriterInv /\ [Next]_vars => WriterInv'
<1> SUFFICES ASSUME WriterInv, [Next]_vars
             PROVE  WriterInv'
  OBVIOUS
<1>1. CASE UNCHANGED vars
  <2>1. TypeInv' /\ LockInv' /\ BaseInv' /\ DiskInv' /\ VersionInv' /\ PromisesKept'
    BY <1>1 DEF vars, WriterInv, TypeInv, LockInv, BaseInv, Open, DiskInv, VersionInv, PromisesKept
  <2>2. \A o \in Objects : HostInv(o)'
    BY <1>1, OthersKeep DEF vars, WriterInv
  <2> QED
    BY <2>1, <2>2 DEF WriterInv
<1>2. ASSUME NEW o \in Objects, NEW d \in Dirs, OpenWriter(o, d)
      PROVE  WriterInv'
  BY <1>2, OpenWriterKeeps
<1>3. ASSUME NEW o \in Objects, NEW k \in Keys, FindDocId(o, k)
      PROVE  WriterInv'
  BY <1>3, FindDocIdKeeps
<1>4. ASSUME NEW o \in Objects, DeleteDocument(o)
      PROVE  WriterInv'
  BY <1>4, DeleteDocumentKeeps
<1>5. ASSUME NEW o \in Objects, AddDocument(o)
      PROVE  WriterInv'
  BY <1>5, RefusedKeeps, BufferedKeeps DEF AddDocument
<1>6. ASSUME NEW o \in Objects, Commit(o)
      PROVE  WriterInv'
  BY <1>6, PublishKeeps DEF Commit
<1>7. ASSUME NEW o \in Objects, Optimize(o)
      PROVE  WriterInv'
  BY <1>7, PublishKeeps DEF Optimize
<1>8. ASSUME NEW o \in Objects, MergeFails(o)
      PROVE  WriterInv'
  BY <1>8, PublishKeeps DEF MergeFails
<1>9. ASSUME NEW o \in Objects, CommitFails(o) \/ Vanish(o)
      PROVE  WriterInv'
  BY <1>9, GiveUpKeeps DEF CommitFails, Vanish
<1> QED
  BY <1>1, <1>2, <1>3, <1>4, <1>5, <1>6, <1>7, <1>8, <1>9 DEF Next

-----------------------------------------------------------------------------
(* The invariant of sessions, locks and indexes holds.                     *)
THEOREM WriterInvHolds == Spec => []WriterInv
  BY InitWriterInv, StepKeepsWriterInv, PTL DEF Spec

(* Hosts that replace what they find have one live document of each key.   *)
THEOREM OneLivePerKeyHolds == Spec => []OneLivePerKey
<1>1. WriterInv => OneLivePerKey
  BY OneLiveCounted DEF WriterInv, DiskInv, OneLivePerKey
<1> QED
  BY <1>1, WriterInvHolds, PTL

(* What commit and optimize return Ok for is there, or newer.              *)
THEOREM PromisesKeptHolds == Spec => []PromisesKept
<1>1. WriterInv => PromisesKept
  BY DEF WriterInv
<1> QED
  BY <1>1, WriterInvHolds, PTL

(* Documents stay in the index they were added to, and locks with the      *)
(* session they were taken for.                                            *)
THEOREM StaysInItsIndexHolds == Spec => []StaysInItsIndex
<1>1. WriterInv => StaysInItsIndex
  BY DEF WriterInv, TypeInv, DiskInv, AllOf, LockInv, StaysInItsIndex
<1> QED
  BY <1>1, WriterInvHolds, PTL
=============================================================================
