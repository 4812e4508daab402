----------------------------- MODULE MCDirectory -----------------------------
(* An organization in use: a system role and one of its own, two departments *)
(* with one designation each, which have one name, and room for one more row *)
(* in every table.                                                           *)
EXTENDS Directory, TLC

CONSTANTS admin, eve, sysadmin, ops, dev, it, hr, lab, lead, head, aide,
          read, write, n1, n2, n3

MCSeed ==
    [v \in {admin, sysadmin, ops, it, hr, lead, head} |->
        [name |-> IF v \in {ops, hr} THEN n3 ELSE n1,
         home |-> CASE v \in {admin, lead} -> it [] v = head -> hr [] OTHER -> None,
         post |-> CASE v = admin -> lead [] OTHER -> None]]

MCSeedLinks == {<<admin, sysadmin>>, <<admin, ops>>, <<sysadmin, read>>, <<ops, write>>}

Blank == [name |-> None, active |-> None, home |-> None, post |-> None, items |-> Omitted]

MCPayloads ==
    {[name |-> n2, active |-> None, home |-> it, post |-> lead, items |-> {n3}],
     [Blank EXCEPT !.name = n3, !.items = {read}], [Blank EXCEPT !.name = n2],
     [Blank EXCEPT !.name = n2, !.home = hr], [Blank EXCEPT !.active = FALSE],
     [Blank EXCEPT !.home = it], [Blank EXCEPT !.post = head],
     [Blank EXCEPT !.home = it, !.post = lead]}
    \cup {[Blank EXCEPT !.items = I] : I \in {{sysadmin}, {read}, {n1}}}

MCBatches == {{admin, eve}}

MCSymmetry == Permutations(Requests)
=============================================================================
