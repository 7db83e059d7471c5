-------------------------- MODULE MCSchemaMigration --------------------------
(* Instances of SchemaMigration for TLC. *)
EXTENDS SchemaMigration, TLC

=============================================================================
