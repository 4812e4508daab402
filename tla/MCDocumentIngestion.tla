------------------------ MODULE MCDocumentIngestion ------------------------
(* DocumentIngestion on small instances; the .cfg files give the constants. *)
EXTENDS DocumentIngestion
=============================================================================
