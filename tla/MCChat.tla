------------------------------- MODULE MCChat -------------------------------
(* Chat on a small instance; Chat.cfg gives the constants. *)
EXTENDS Chat
=============================================================================
