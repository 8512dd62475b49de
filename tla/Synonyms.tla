------------------------------ MODULE Synonyms ------------------------------
(***************************************************************************)
(* The synonym dictionary: built pair by pair under normalized keys,       *)
(* written to a blob and read back.  A word is a sequence of letters, of   *)
(* which one takes two bytes; a length or a count is one item of the blob. *)
(***************************************************************************)
EXTENDS SequencesExt, FiniteSetsExt, Integers

CONSTANTS Pairs,    \* the (key, values) there are
          MaxPairs, \* bound on a build
          Cap       \* MAX_SYNONYMS_PER_TOKEN

VARIABLES pairs,    \* what from_pairs was given so far
          map       \* the dictionary it built

vars == <<pairs, map>>

(* "e", its accented and its upper-case form, and another letter.          *)
Letters == 1..4
Accented == 2
NormLetter(c) == IF c \in 1..3 THEN 1 ELSE c

NormKey(w) == [i \in DOMAIN w |-> NormLetter(w[i])]

Lookup(m, k) == IF k \in DOMAIN m THEN m[k] ELSE <<>>
Truncate(s) == SubSeq(s, 1, Min({Len(s), Cap}))

PushNew(s, v) == IF v \in Range(s) THEN s ELSE Append(s, v)

(* Mutant: the cap is taken for each pair, before it is merged.            *)
MergedByPair(entry, values) == entry \o Truncate(values)

(* One turn of from_pairs on its entry.                                    *)
Merged(entry, values) == Truncate(FoldLeft(PushNew, entry, values))

Add ==
    /\ Len(pairs) < MaxPairs
    /\ \E p \in Pairs :
          LET k == NormKey(p.key)
          IN  /\ map' = [x \in DOMAIN map \cup {k} |->
                           IF x = k THEN Merged(Lookup(map, k), p.values) ELSE map[x]]
              /\ pairs' = Append(pairs, p)

Expand(m, token) == Truncate(Lookup(m, NormKey(token)))

-----------------------------------------------------------------------------
Lead == 20
Trail == 21
Utf8(w) == FlattenSeq([i \in DOMAIN w |-> IF w[i] = Accented THEN <<Lead, Trail>> ELSE <<w[i]>>])

IsUtf8(b) ==
    /\ \A i \in DOMAIN b : b[i] = Lead => i < Len(b) /\ b[i + 1] = Trail
    /\ \A i \in DOMAIN b : b[i] = Trail => i > 1 /\ b[i - 1] = Lead

FromUtf8(b) ==
    LET heads == SelectSeq(b, LAMBDA x : x # Trail)
    IN  [i \in DOMAIN heads |-> IF heads[i] = Lead THEN Accented ELSE heads[i]]

(* Mutant: the length written counts letters.                              *)
StringU16Letters(w) == <<Len(w)>> \o Utf8(w)

StringU16(w) == <<Len(Utf8(w))>> \o Utf8(w)

Below(v, w) ==
    \/ IsStrictPrefix(v, w)
    \/ \E i \in DOMAIN v \cap DOMAIN w :
          v[i] < w[i] /\ \A j \in 1..(i - 1) : v[j] = w[j]

Encode(m) ==
    LET keys == SetToSortSeq(DOMAIN m, LAMBDA v, w : Below(Utf8(v), Utf8(w)))
        Entry(k) == LET vs == Truncate(m[k])
                    IN  StringU16(k) \o <<Len(vs)>>
                          \o FlattenSeq([i \in DOMAIN vs |-> StringU16(vs[i])])
    IN  <<Len(keys)>> \o FlattenSeq([i \in DOMAIN keys |-> Entry(keys[i])])

(* The cursor: where it is, what it took last, and no error so far.        *)
Take(c, n) ==
    IF c.ok /\ c.pos + n - 1 <= Len(c.bytes)
    THEN [c EXCEPT !.pos = @ + n, !.last = SubSeq(c.bytes, c.pos, c.pos + n - 1)]
    ELSE [c EXCEPT !.ok = FALSE, !.last = <<0>>]

TakeString(c) ==
    LET len == Take(c, 1)
        s   == Take(len, len.last[1])
    IN  IF ~s.ok THEN s
        ELSE IF IsUtf8(s.last) THEN [s EXCEPT !.last = FromUtf8(s.last)] ELSE [s EXCEPT !.ok = FALSE]

(* A set, empty for Err.  A later entry of a key replaces an earlier one.  *)
Decode(bytes) ==
    LET OneValue(s, i) == LET c == TakeString(s.c)
                          IN  [c |-> c, values |-> Append(s.values, c.last)]
        OneEntry(s, i) ==
          LET key   == TakeString(s.c)
              count == Take(key, 1)
              all   == FoldLeft(OneValue, [c |-> count, values |-> <<>>],
                                [j \in 1..(IF count.ok THEN count.last[1] ELSE 0) |-> j])
          IN  IF ~all.c.ok THEN [s EXCEPT !.c = all.c]
              ELSE [c |-> all.c,
                    map |-> [x \in DOMAIN s.map \cup {key.last} |->
                               IF x = key.last THEN all.values ELSE s.map[x]]]
        start   == Take([bytes |-> bytes, pos |-> 1, last |-> <<0>>, ok |-> TRUE], 1)
        entries == FoldLeft(OneEntry, [c |-> start, map |-> <<>>],
                            [i \in 1..(IF start.ok THEN start.last[1] ELSE 0) |-> i])
    IN  IF entries.c.ok THEN {entries.map} ELSE {}

-----------------------------------------------------------------------------
Init == pairs = <<>> /\ map = <<>>

Next == Add

Spec == Init /\ [][Next]_vars

-----------------------------------------------------------------------------
(* Merged one pair at a time, a token still expands to the first Cap       *)
(* distinct values given for any spelling of it, in the order given        *)
(* (synonyms.rs:40).                                                       *)
FirstDistinctKept ==
    \A w \in {p.key : p \in Pairs} :
       LET given == FlattenSeq([i \in DOMAIN pairs |->
                      IF NormKey(pairs[i].key) = NormKey(w) THEN pairs[i].values ELSE <<>>])
           first == SelectSeq([i \in DOMAIN given |-> i],
                              LAMBDA i : \A j \in 1..(i - 1) : given[j] # given[i])
       IN  Expand(map, w) = Truncate([i \in DOMAIN first |-> given[first[i]]])

(* The blob reads back as the dictionary it was made of, and no blob cut   *)
(* short is taken for a dictionary (synonyms.rs:142).                      *)
BlobComesBack ==
    LET b == Encode(map)
    IN  /\ \E m \in Decode(b) : DOMAIN m = DOMAIN map /\ \A k \in DOMAIN m : m[k] = Expand(map, k)
        /\ \A n \in 0..(Len(b) - 1) : Decode(SubSeq(b, 1, n)) = {}

(* What was registered is what a token expands to, also from the blob.     *)
SynonymsComeBack == FirstDistinctKept /\ BlobComesBack
=============================================================================
