--------------------------- MODULE MCRigInstances ---------------------------
(* RigInstances for TLC. *)
EXTENDS RigInstances
=============================================================================
