----------------------------- MODULE MCAuditLog -----------------------------
(* Bounded instance of AuditLog for TLC: see the cfg files. *)
EXTENDS AuditLog

\* Events of the same time in one file and in two, and two emitted in
\* another order than that of their times.
MCCreatedAt == <<2, 2, 1, 3, 3, 3>>
=============================================================================
