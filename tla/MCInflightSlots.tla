-------------------------- MODULE MCInflightSlots --------------------------
(* InflightSlots on small instances; the .cfg files give the constants. *)
EXTENDS InflightSlots
=============================================================================
