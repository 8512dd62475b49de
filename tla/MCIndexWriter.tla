--------------------------- MODULE MCIndexWriter ---------------------------
(* IndexWriter and its inductive invariant on a small index.  Documents    *)
(* of the initial index are interchangeable, and so are the new ones.      *)
EXTENDS WriterInvariant, TLC

SameDocs == Permutations(InitDocs) \cup Permutations(Docs \ InitDocs)
============================================================================
