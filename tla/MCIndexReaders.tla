--------------------------- MODULE MCIndexReaders ---------------------------
(* IndexReaders on a small index.  New documents are interchangeable.      *)
EXTENDS IndexReaders, TLC

NewDocs == Permutations(Docs \ InitDocs)
=============================================================================
