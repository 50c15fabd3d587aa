----------------------------- MODULE MCAuditSink -----------------------------
(* AuditSink on small instances. *)
EXTENDS AuditSink
=============================================================================
