---------------------------- MODULE MCAuditService ----------------------------
(***************************************************************************)
(* Values for checking AuditService with TLC.                              *)
(***************************************************************************)
EXTENDS AuditService, TLC

Symmetry == Permutations(Callers)
=============================================================================
