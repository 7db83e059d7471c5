---------------------------- MODULE MCReviewDesk ----------------------------
(* Instances of ReviewDesk for TLC. *)
EXTENDS ReviewDesk, TLC

DeskSymmetry == Permutations(Candidates) \cup Permutations(Targets) \cup Permutations(Requests)

=============================================================================
