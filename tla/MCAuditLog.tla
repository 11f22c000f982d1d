----------------------------- MODULE MCAuditLog -----------------------------
\* Instances of AuditLog for TLC.
EXTENDS AuditLog

CONSTANTS t1, t2
=============================================================================
