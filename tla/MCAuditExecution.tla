---------------------------- MODULE MCAuditExecution ----------------------------
(* Small instances of the audited rounds of a session. *)
EXTENDS AuditExecution, TLC
=============================================================================
