------------------------------ MODULE MCSessions ------------------------------
(* One user, who is granted reading only or everything, in one session at a time. *)
EXTENDS Sessions, TLC

MCGrants == {{"users.read"}, AllCodes}

MCSymmetry == Permutations(Requests)
=============================================================================
