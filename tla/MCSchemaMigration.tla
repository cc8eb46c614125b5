--------------------------- MODULE MCSchemaMigration ---------------------------
(***************************************************************************)
(* Instances of SchemaMigration for TLC: a host h1, a tool c1 and audit    *)
(* rows a1 and a2.                                                         *)
(***************************************************************************)
EXTENDS SchemaMigration

CONSTANTS h1, c1, a1, a2
=============================================================================
