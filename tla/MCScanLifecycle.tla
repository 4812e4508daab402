-------------------------- MODULE MCScanLifecycle --------------------------
(* ScanLifecycle on small instances; the .cfg files give the constants. *)
EXTENDS ScanLifecycle
=============================================================================
