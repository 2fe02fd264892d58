---------------------------- MODULE MCAuditSink ----------------------------
(* Small instances of AuditSink.                                           *)
EXTENDS AuditSink

CONSTANTS u1, u2, u3, x1

TwoKinds == [e \in Item |-> IF e \in {u1, u2, u3} THEN "usage" ELSE "audit"]
=============================================================================
