----------------------------- MODULE MCAuditLog -----------------------------
(***************************************************************************)
(* Instances of AuditLog for TLC.                                          *)
(***************************************************************************)
EXTENDS AuditLog, TLC

CONSTANTS r1, r2

RunSymmetry == Permutations(Runs)
=============================================================================
