--------------------------- MODULE MCTaskApproval ---------------------------
(* TaskApproval on small instances; the .cfg files give the constants. *)
EXTENDS TaskApproval
=============================================================================
