---------------------------- MODULE MCPivotQueue ----------------------------
(* Instances of PivotQueue for TLC. *)
EXTENDS PivotQueue, TLC

WorkerSymmetry == Permutations(Workers)
RequestSymmetry == Permutations(Requests)

=============================================================================
