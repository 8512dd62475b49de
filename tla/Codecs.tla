------------------------------- MODULE Codecs -------------------------------
(***************************************************************************)
(* The encodings under every file of an index: variable-length integers,   *)
(* modified UTF-8 strings and base-36 generation names.  Integers of       *)
(* WordBits bits are written PayloadBits to the byte (64 and 7 in the      *)
(* code).  A decoder returns a set, empty for Err, of the value and the    *)
(* position behind it.                                                     *)
(***************************************************************************)
EXTENDS SequencesExt, FiniteSetsExt, Integers

CONSTANTS PayloadBits, WordBits,
          Ints,      \* integers to write
          Chars,     \* code points to write
          Junk,      \* bytes to read as strings
          Numbers    \* generations

VARIABLE what    \* the value or the bytes at hand

-----------------------------------------------------------------------------
(* serialize.rs                                                            *)
Base == 2^PayloadBits

Groups(v) == Min({n \in 1..WordBits : v < Base^n})

(* Mutant: the continuation bit is set while the group is not full.        *)
WriteVintStopsAtZero(v) ==
    [i \in 1..Groups(v) |-> ((v \div Base^(i - 1)) % Base)
                            + IF i < Groups(v) /\ (v \div Base^i) % Base # 0 THEN Base ELSE 0]

WriteVint(v) ==
    [i \in 1..Groups(v) |-> ((v \div Base^(i - 1)) % Base) + IF i < Groups(v) THEN Base ELSE 0]

(* Bytes whose shift is below the width; bits above it are lost.           *)
MaxGroups == Cardinality({i \in 1..WordBits : (i - 1) * PayloadBits < WordBits})

(* Up to the first byte without a continuation bit.                        *)
Terminators(b) == {i \in DOMAIN b : b[i] < Base}

Payload(b, n) == MapThenSumSet(LAMBDA i : (b[i] % Base) * Base^(i - 1), 1..n)

ReadVint(b) ==
    IF Terminators(b) = {} \/ Min(Terminators(b)) > MaxGroups THEN {}
    ELSE LET n == Min(Terminators(b))
         IN  {<<Payload(b, n) % 2^WordBits, n + 1>>}

-----------------------------------------------------------------------------
(* bytes.rs: characters.                                                   *)
Utf8(c) ==
    CASE c = 0        -> <<192, 128>>
      [] c < 128      -> <<c>>
      [] c < 2048     -> <<192 + (c \div 64), 128 + (c % 64)>>
      [] c < 65536    -> <<224 + (c \div 4096), 128 + ((c \div 64) % 64), 128 + (c % 64)>>
      [] OTHER        -> <<240 + (c \div 262144), 128 + ((c \div 4096) % 64),
                           128 + ((c \div 64) % 64), 128 + (c % 64)>>

(* Mutant: the length counts bytes.                                        *)
WriteModifiedUtf8Bytes(s) ==
    LET b == FlattenSeq([i \in DOMAIN s |-> Utf8(s[i])]) IN <<Len(b)>> \o b

WriteModifiedUtf8(s) == <<Len(s)>> \o FlattenSeq([i \in DOMAIN s |-> Utf8(s[i])])

(* Mutant: four-byte characters are taken for three bytes when skipped.    *)
ContinuationBMP(b0) ==
    IF b0 < 128 THEN 0 ELSE IF b0 \in 192..223 THEN 1 ELSE 2

(* Continuation bytes, by the lead byte.                                   *)
Continuation(b0) ==
    IF b0 < 128 THEN 0
    ELSE IF b0 \in 192..223 THEN 1
    ELSE IF b0 \in 224..239 THEN 2
    ELSE 3

Replacement == 65533

FromU32(c) == IF c \in 55296..57343 \/ c > 1114111 THEN Replacement ELSE c

(* The character at pos, whatever its continuation bytes are.              *)
CharAt(b, pos) ==
    LET b0 == b[pos]
        Low(i) == b[pos + i] % 64
    IN  IF b0 < 128 THEN b0
        ELSE IF b0 \in 192..223 THEN FromU32((b0 % 32) * 64 + Low(1))
        ELSE IF b0 \in 224..239 THEN FromU32((b0 % 16) * 4096 + Low(1) * 64 + Low(2))
        ELSE FromU32((b0 % 8) * 262144 + Low(1) * 4096 + Low(2) * 64 + Low(3))

(* The width read_modified_utf8 takes, by its own branches.                *)
WidthRead(b0) ==
    CASE b0 < 128 -> 1 [] b0 \in 192..223 -> 2 [] b0 \in 224..239 -> 3 [] OTHER -> 4

(* Where each of the characters starts, and where the last one ends.       *)
Starts(b, Width(_)) ==
    FoldLeft(LAMBDA s, i : IF Last(s) \in DOMAIN b THEN Append(s, Last(s) + Width(b[Last(s)]))
                           ELSE Append(s, Len(b) + 2),
             <<2>>, [i \in 1..b[1] |-> i])

ReadModifiedUtf8(b) ==
    LET at == Starts(b, WidthRead)
    IN  IF Last(at) > Len(b) + 1 THEN {}
        ELSE {<<[i \in 1..b[1] |-> CharAt(b, at[i])], Last(at)>>}

SkipModifiedUtf8(b) ==
    LET at == Starts(b, LAMBDA b0 : 1 + Continuation(b0))
    IN  IF Last(at) > Len(b) + 1 THEN {} ELSE {Last(at)}

-----------------------------------------------------------------------------
(* segments.rs: base 36, most significant digit first.                     *)
ToBase36(n) ==
    LET digits == Min({k \in 1..5 : n < 36^k})
    IN  [i \in 1..digits |-> (n \div 36^(digits - i)) % 36]

FromBase36(s) ==
    IF s = <<>> \/ \E i \in DOMAIN s : s[i] \notin 0..35 THEN {}
    ELSE {FoldLeft(LAMBDA n, d : n * 36 + d, 0, s)}

(* Mutant: suffixes are compared as text.                                  *)
PrunedLexically(suffix, keep) ==
    LET k == ToBase36(keep)
    IN  \/ IsStrictPrefix(suffix, k)
        \/ \E i \in DOMAIN suffix \cap DOMAIN k :
              suffix[i] < k[i] /\ \A j \in 1..(i - 1) : suffix[j] = k[j]

(* prune_old_generations, of the name segments_<suffix>.                   *)
Pruned(suffix, keep) == \E n \in FromBase36(suffix) : n < keep

-----------------------------------------------------------------------------
Nothing == [kind |-> "none"]

Init == what = Nothing

Take ==
    /\ what = Nothing
    /\ what' \in [kind : {"int"}, int : Ints]
                \cup [kind : {"string"}, string : Chars] \cup [kind : {"junk"}, bytes : Junk]
                \cup [kind : {"name"}, gen : Numbers]

Next == Take

Spec == Init /\ [][Next]_what

-----------------------------------------------------------------------------
(* An integer comes back, all of its bytes are consumed, and a file that   *)
(* ends inside it is refused (serialize.rs:4, 25).                         *)
VintComesBack ==
    what.kind = "int" =>
        LET b == WriteVint(what.int)
        IN  /\ ReadVint(b) = {<<what.int, Len(b) + 1>>}
            /\ \A n \in 0..(Len(b) - 1) : ReadVint(SubSeq(b, 1, n)) = {}

(* A string comes back, NUL and characters beyond the BMP included, and a  *)
(* file that ends inside it is refused (bytes.rs:20, 81).                  *)
StringComesBack ==
    what.kind = "string" =>
        LET b == WriteModifiedUtf8(what.string)
        IN  /\ ReadModifiedUtf8(b) = {<<what.string, Len(b) + 1>>}
            /\ \A n \in 1..(Len(b) - 1) : ReadModifiedUtf8(SubSeq(b, 1, n)) = {}

(* "advancing `pos` exactly as read_modified_utf8 would", on any bytes     *)
(* (bytes.rs:120).                                                         *)
SkipIsRead ==
    what.kind = "junk" =>
        SkipModifiedUtf8(what.bytes) = {r[2] : r \in ReadModifiedUtf8(what.bytes)}

(* Of any two generations the older one is pruned, also where their names  *)
(* sort the other way round (segments.rs:78).                              *)
PruneIsNumeric ==
    what.kind = "name" =>
        /\ FromBase36(ToBase36(what.gen)) = {what.gen}
        /\ \A keep \in Numbers : Pruned(ToBase36(what.gen), keep) <=> what.gen < keep

(* What is written is read, to the last byte, and names order as numbers.  *)
CodecsInvert == VintComesBack /\ StringComesBack /\ SkipIsRead /\ PruneIsNumeric
=============================================================================
