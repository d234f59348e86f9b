----------------------------- MODULE MCViewers -----------------------------
(* Two sessions and two readers; each session and each reader is like any   *)
(* other until it acts.                                                     *)
EXTENDS Viewers, TLC

Alike == Permutations(Sessions) \cup Permutations(Readers)
=============================================================================
