----------------------------- MODULE AtomicIndex -----------------------------
(***************************************************************************)
(* What the writer promises its callers: an index is a set of documents;   *)
(* a session stages documents and dooms others, which nobody sees; one     *)
(* step publishes all of it or, when the session ends first, for whatever  *)
(* reason, none of it.  Flushing, compacting, merging, pruning and         *)
(* reclaiming change nothing.                                              *)
(***************************************************************************)
CONSTANTS Docs, InitDocs

VARIABLES
  visible,  \* the documents a search finds
  open,     \* is there a session?
  staged,   \* the documents it added
  doomed    \* the documents it deleted

vars == <<visible, open, staged, doomed>>

Init ==
  /\ visible \in SUBSET InitDocs
  /\ open = FALSE /\ staged = {} /\ doomed = {}

Begin ==
  /\ ~open /\ open' = TRUE
  /\ UNCHANGED <<visible, staged, doomed>>

Stage(d) ==
  /\ open /\ d \notin visible \cup staged
  /\ staged' = staged \cup {d}
  /\ UNCHANGED <<visible, open, doomed>>

(* A session deletes what was in the index when it began, never its own.   *)
Doom(d) ==
  /\ open /\ d \notin staged
  /\ doomed' = doomed \cup {d}
  /\ UNCHANGED <<visible, open, staged>>

Publish ==
  /\ open /\ staged \cup doomed # {}
  /\ visible' = (visible \ doomed) \cup staged
  /\ staged' = {} /\ doomed' = {}
  /\ UNCHANGED open

End ==
  /\ open /\ open' = FALSE
  /\ staged' = {} /\ doomed' = {}
  /\ UNCHANGED visible

Next ==
  \/ Begin \/ Publish \/ End
  \/ \E d \in Docs : Stage(d) \/ Doom(d)

Spec == Init /\ [][Next]_vars
==============================================================================
