---------------------------- MODULE MCAuditFeed ----------------------------
(***************************************************************************)
(* AuditFeed for TLC.                                                      *)
(***************************************************************************)
EXTENDS AuditFeed
=============================================================================
