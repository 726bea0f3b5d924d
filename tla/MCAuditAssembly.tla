-------------------------- MODULE MCAuditAssembly --------------------------
EXTENDS AuditAssembly
=============================================================================
