------------------------ MODULE MCFollowUpSequences ------------------------
(* A small instance of FollowUpSequences for TLC. *)
EXTENDS FollowUpSequencesProperties, TLC

CONSTANTS s1, s2, r1, r2, x1

Symmetry == Permutations(Schedulers) \cup Permutations(Replies)
=============================================================================
