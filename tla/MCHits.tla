------------------------------- MODULE MCHits -------------------------------
(* The indexes and the questions of SegmentedIndex, TopHits and             *)
(* TermExpansion, for TLC.                                                  *)
EXTENDS Integers, Sequences, TLC

-----------------------------------------------------------------------------
(* SegmentedIndex: up to three segments, some empty, some with deletions.   *)
Word(ts) == [terms |-> ts, values |-> ts]
Doc(a, b) == ("a" :> Word(a)) @@ ("b" :> Word(b))
Only(f, ts) == f :> Word(ts)
Segment(docs, dead) ==
    [docs |-> docs, dead |-> dead,
     infos |-> [f \in UNION {DOMAIN docs[i] : i \in DOMAIN docs} |-> f = "a"]]

Rows == {<<>>, <<Only("a", <<3, 1, 3>>)>>, <<Doc(<<1>>, <<2>>), Only("b", <<1>>)>>,
         <<Doc(<<2, 4>>, <<>>), Only("a", <<4, 1>>)>>}
Segments == {Segment(r, dead) : r \in Rows, dead \in {{}, {0}}} \cup
              {Segment(r, {Len(r) - 1}) : r \in Rows \ {<<>>}}
Segmentations ==
    UNION {[1..n -> {s \in Segments : s.dead \subseteq 0..(Len(s.docs) - 1)}] : n \in 0..2}
      \cup {<<a, b, a>> : a \in {s \in Segments : s.dead = {0} /\ s.docs # <<>>},
                        b \in {s \in Segments : s.dead = {}}}
ReaderPrefixes == {1..2, 3..4, 1..4}

-----------------------------------------------------------------------------
(* TopHits: values on both sides of Texts, from two segments.               *)
NoLimit == 7     \* MaxUsize of Search.cfg
None == -1
Relevance == "relevance"

(* v = 0 for a document without a value, 4 for one with two.               *)
Keyword(v) == CASE v = 0 -> "other" :> [terms |-> <<1>>, values |-> <<1>>]
                [] v = 4 -> "key" :> [terms |-> <<2, 1>>, values |-> <<2, 1>>]
                [] OTHER -> "key" :> [terms |-> <<v>>, values |-> <<v>>]
KeySegment(vs) == [docs |-> [i \in DOMAIN vs |-> Keyword(vs[i])], dead |-> {},
                infos |-> [f \in {"key"} |-> TRUE]]
Keywords == {<<KeySegment(<<a, b>>), KeySegment(<<c>>)>> : a \in 0..2, b \in {0, 2}, c \in 0..4}

Page(off, limit, cap, sort, up, ms) ==
    [offset |-> off, limit |-> limit, cap |-> cap, sort |-> sort, ascending |-> up, min_score |-> ms]

Sorted == {Page(off, limit, cap, "key", up, ms) :
              off \in 0..1, limit \in {0, 1, 2}, cap \in {None, 1}, up \in BOOLEAN, ms \in {0, 2}}
          \cup {Page(1, NoLimit, None, "key", TRUE, 0)}
Ranked == {Page(off, limit, cap, Relevance, FALSE, ms) :
              off \in 0..3, limit \in {0, 1, 2, NoLimit}, cap \in {None, 0, 2, 4}, ms \in {0, 2}}

HitRequests ==
    {[indexes |-> Keywords, scores |-> {0 :> 1 @@ 1 :> 2 @@ 2 :> 2, 2 :> 1, <<>>}, how |-> Sorted],
     [indexes |-> {<<KeySegment(<<1, 1, 1, 1>>)>>},
      scores |-> UNION {[0..(n - 1) -> 1..2] : n \in 0..4}, how |-> Ranked]}

-----------------------------------------------------------------------------
(* TermExpansion.                                                           *)
Space == 0
Star == 98
Question == 99

(* b = 1, u = 2 and its accented forms 3 and 4, of two bytes.              *)
Chars == {Space, 1, 2, 3, 4, Star, Question}
Forms == [c \in Chars |-> IF c = 2 THEN <<3, 4>> ELSE <<>>]
Bare == [c \in Chars |-> IF c \in {3, 4} THEN 2 ELSE c]
Bytes == [c \in Chars |-> IF c \in {3, 4} THEN <<100, c>> ELSE <<c>>]

Strings(S, m, n) == UNION {[1..k -> S] : k \in m..n}

(* All strings of n of the characters 1 to 3.                              *)
Strung(n) == [i \in 1..(3 ^ n) |-> [j \in 1..n |-> 1 + (((i - 1) \div 3 ^ (j - 1)) % 3)]]
Worded(n) == [i \in DOMAIN Strung(n) |-> [j \in 1..n |-> <<Strung(n)[i][j]>>]]

Corpora == {<<Strung(1) \o Strung(2) \o Strung(3)>>,
              <<(<<(<<2, 1>>), <<3, 1>>, <<4, 1>>>>), <<(<<2, 2>>), <<3, 3>>, <<2, 1>>>>>>,
              <<(<<(<<2>>), <<2, 3>>, <<3, 2, 1>>, <<1, 2, 3, 2>>>>), <<(<<1, 3>>), <<1, 2>>>>>>,
              Worded(1) \o Worded(2) \o Worded(3)}

Words == Strings({1, 2, 3}, 2, 2) \cup {<<2>>, <<3>>, <<1, 2, 3>>, <<1, 2, 2>>, <<2, 1, 1>>,
                                       <<3, 1, 1>>, <<4, 1, 1>>, <<1, 2, 1, 2>>, <<1, 2, 1, 3>>}
Patterns == {w \o <<Star>> : w \in Strings({2, 3, 4}, 1, 1) \cup {<<2, 1>>, <<3, 1>>, <<2, 2>>, <<3, 3>>, <<2, 3>>}}
              \cup {<<2, Question>>, <<3, Question>>, <<1, Star, 2>>, <<1, Star, 3>>, <<2, Question, Star>>,
                    <<3, Space, 2, Star>>, <<2, Space, 2, Star>>}
Phrases == Strings({<<1>>, <<2>>, <<3>>}, 0, 3)

Settings == [min_prefix : {0, 2}, restrict : {1..99, {1, 5, 20}}, min : {<<1, 2>>}, prefix_length : {1}]
              \cup [min_prefix : {1}, restrict : {1..99}, min : {<<0, 1>>, <<1, 3>>}, prefix_length : {0, 3}]
=============================================================================
