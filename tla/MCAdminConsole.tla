--------------------------- MODULE MCAdminConsole ---------------------------
(* Instances of AdminConsole for TLC. *)
EXTENDS AdminConsole, TLC

SlotSymmetry == Permutations(Slots)

=============================================================================
