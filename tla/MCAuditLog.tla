----------------------------- MODULE MCAuditLog -----------------------------
(* Instances of AuditLog for TLC. *)
EXTENDS AuditLog

CONSTANTS o1, o2, o3, o4, altered

NoLegacy == <<>>
OneLegacy == <<o1>>
=============================================================================
