--------------------------- MODULE MCSegmentMerge ---------------------------
(* SegmentMerge on two segments of up to two documents and on three        *)
(* segments of one, with three terms over two fields.                      *)
EXTENDS SegmentMerge, TLC

MCFieldOf == <<"body", "body", "title">>
Fi(name, indexed) == [name |-> name, indexed |-> indexed]

FieldLists == {
  <<Fi("body", TRUE), Fi("title", TRUE)>>,
  <<Fi("title", TRUE), Fi("body", FALSE)>>,
  <<Fi("title", FALSE), Fi("body", TRUE)>>}

Indexed(fs) == {fi.name : fi \in {f \in Range(fs) : f.indexed}}

(* A segment with these fields, size and deletions, whose term t is in the *)
(* documents has[t].                                                       *)
Segment(fs, size, deleted, has, prx) ==
  LET there == {t \in DOMAIN has : has[t] # {} /\ MCFieldOf[t] \in Indexed(fs)}
  IN [fields |-> fs, maxDoc |-> size, deleted |-> deleted,
      stored |-> [d \in 0 .. (size - 1) |-> IF d = 0 THEN <<0, 1>> ELSE <<1>>],
      normed |-> Indexed(fs),
      dict   |-> SetToSortSeq(there, <),
      post   |-> [t \in there |-> has[t]],
      prx    |-> prx]

(* Two documents; term 2 is in both or in the second only.                 *)
Pairs ==
  {Segment(fs, 2, deleted, <<one, two, three>>, TRUE) :
     fs \in FieldLists, deleted \in SUBSET {0, 1},
     one \in {{}, {0}, {0, 1}}, two \in {{1}, {0, 1}}, three \in {{}, {0}, {1}}}

(* One document.                                                           *)
Singles(lists) ==
  {Segment(fs, 1, deleted, <<one, two, three>>, TRUE) :
     fs \in lists, deleted \in {{}, {0}},
     one \in {{}, {0}}, two \in {{}, {0}}, three \in {{}, {0}}}

Usual == Singles({<<Fi("body", TRUE), Fi("title", TRUE)>>})

(* One segment that must be refused.                                       *)
Plain == Segment(<<Fi("body", TRUE)>>, 1, {}, <<{0}>>, TRUE)
Odd ==
  {[Plain EXCEPT !.stored = [d \in {0} |-> <<Binary>>]],
   [Plain EXCEPT !.stored = [d \in {0} |-> <<1>>]],
   [Plain EXCEPT !.stored = [d \in {0} |-> <<Binary>>], !.deleted = {0}],
   [Plain EXCEPT !.prx = FALSE]}

MCInputs ==
  {<<a, b>> : a, b \in Pairs}
  \cup {<<a, b>> : a \in Pairs, b \in Singles(FieldLists)}
  \cup {<<a, b, c>> : a, b, c \in Singles({<<Fi("body", TRUE)>>})}
  \cup {<<b, a>> : a \in Odd, b \in Usual}
=============================================================================
