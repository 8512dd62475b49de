---------------------------- MODULE MCWriterRace ----------------------------
(* WriterRace with a few processes; writers are interchangeable, and so    *)
(* are appenders.                                                          *)
EXTENDS WriterRace, TLC

SameProcs == Permutations(Writers) \cup Permutations(Appenders)
=============================================================================
