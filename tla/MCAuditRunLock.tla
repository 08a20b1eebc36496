---------------------------- MODULE MCAuditRunLock ----------------------------
(* AuditRunLock with its processes interchangeable: no action and no          *)
(* property tells one process from another.                                   *)
EXTENDS AuditRunLock, TLC

Interchangeable == Permutations(Procs)
===============================================================================
