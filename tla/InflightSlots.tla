---------------------------- MODULE InflightSlots ----------------------------
(***************************************************************************)
(* The Redis counter that caps how many devices of one organization are    *)
(* being collected at a time, and the Celery pool processes that share it. *)
(* Each Redis command is an action of its own: INCR, EXPIRE, DECR and      *)
(* DELETE of one process may be separated by commands of the others.       *)
(*                                                                         *)
(* Time appears once.  A collection task is killed 180 s after it began    *)
(* and the key lives for 300 s after its EXPIRE, so by the time the key    *)
(* expires every attempt that was under way at the EXPIRE is over.  The    *)
(* attempts that began later may still hold their slots.                   *)
(***************************************************************************)
EXTENDS Integers, FiniteSets

CONSTANTS
    Processes,  \* the worker processes of the discovery queue
    Cap,        \* settings.discovery_max_concurrent_inventory
    NoKey,      \* value of the key when it does not exist
    MaxFaults   \* bound on processes killed with a slot

ASSUME SlotsAssumption ==
    /\ IsFiniteSet(Processes)
    /\ Cap \in Nat /\ MaxFaults \in Nat
    /\ NoKey \notin Int

VARIABLES
    key,        \* the key discovery:inflight:<organization>
    expires,    \* whether it has a time to live
    older,      \* the attempts that were under way when that was set
    pc,         \* pc[p]: where a process is in its attempt, if it has one
    faults      \* processes killed so far

vars == <<key, expires, older, pc, faults>>

Init ==
    /\ key = NoKey
    /\ expires = FALSE
    /\ older = {}
    /\ pc = [p \in Processes |-> "off"]
    /\ faults = 0

\* Redis counts a key that does not exist as zero.
Count == IF key = NoKey THEN 0 ELSE key

\* The process goes on, at the end of an attempt out of the older ones too.
Goto(p, place) ==
    /\ pc' = [pc EXCEPT ![p] = place]
    /\ older' = IF place = "off" THEN older \ {p} ELSE older

DeleteKey == key' = NoKey /\ expires' = FALSE

----------------------------------------------------------------------------
(* try_acquire_slot and wait_for_slot *)

\* The task begins and asks for a slot.
Begin(p) ==
    /\ pc[p] = "off"
    /\ Goto(p, "trying")
    /\ UNCHANGED <<key, expires, faults>>

SetsExpiry_First(current) == current = 0

SetsExpiry_Always(current) == TRUE

SetsExpiry(current) == current = 1

Judged_Late(current) == IF current > Cap + 1 THEN "backing" ELSE "holding"

\* A slot is held, or the increment has to be taken back.
Judged(current) == IF current > Cap THEN "backing" ELSE "holding"

Incr(p) ==
    /\ pc[p] = "trying"
    /\ key' = Count + 1
    /\ Goto(p, IF SetsExpiry(Count + 1) THEN "counted" ELSE Judged(Count + 1))
    /\ UNCHANGED <<expires, faults>>

\* EXPIRE does nothing to a key that has been deleted since the INCR.
Expire(p) ==
    /\ pc[p] = "counted"
    /\ pc' = [pc EXCEPT ![p] = Judged(1)]
    /\ IF key = NoKey
       THEN UNCHANGED <<expires, older>>
       ELSE expires' = TRUE /\ older' = {q \in Processes : pc[q] # "off"}
    /\ UNCHANGED <<key, faults>>

BackOff_Forgotten(p) ==
    /\ pc[p] = "backing"
    /\ Goto(p, "trying")
    /\ UNCHANGED <<key, expires, faults>>

\* The organization is at its cap: the process sleeps and tries again.
BackOff(p) ==
    /\ pc[p] = "backing"
    /\ key' = Count - 1
    /\ Goto(p, "trying")
    /\ UNCHANGED <<expires, faults>>

\* A time limit ends the attempt while it sleeps.
TimesOut(p) ==
    /\ pc[p] = "trying"
    /\ Goto(p, "off")
    /\ UNCHANGED <<key, expires, faults>>

----------------------------------------------------------------------------
(* release_slot, in the finally of the collection *)

Release(p) ==
    /\ pc[p] = "holding"
    /\ key' = Count - 1
    /\ Goto(p, IF Count - 1 <= 0 THEN "clearing" ELSE "off")
    /\ UNCHANGED <<expires, faults>>

Clear(p) ==
    /\ pc[p] = "clearing"
    /\ DeleteKey
    /\ Goto(p, "off")
    /\ UNCHANGED faults

----------------------------------------------------------------------------
(* Redis and the worker *)

KeyExpires ==
    /\ expires /\ older = {}
    /\ DeleteKey
    /\ UNCHANGED <<older, pc, faults>>

\* The process is killed, or a time limit strikes between two commands, where
\* no finally stands: the increment stays.
Dies(p) ==
    /\ pc[p] \in {"counted", "backing", "holding", "clearing"}
    /\ faults < MaxFaults
    /\ Goto(p, "off")
    /\ faults' = faults + 1
    /\ UNCHANGED <<key, expires>>

Command(p) == Incr(p) \/ Expire(p) \/ BackOff(p) \/ Release(p) \/ Clear(p)

Next ==
    \/ KeyExpires
    \/ \E p \in Processes : Begin(p) \/ Command(p) \/ TimesOut(p) \/ Dies(p)

Spec == Init /\ [][Next]_vars

\* Redis answers, the time limits cut off a wait that goes on, and a key whose
\* time has come is removed.
FairSpec ==
    /\ Spec
    /\ \A p \in Processes : WF_vars(Command(p)) /\ SF_vars(TimesOut(p))
    /\ WF_vars(KeyExpires)

----------------------------------------------------------------------------
(* Properties *)

TypeOK ==
    /\ key \in Int \cup {NoKey}
    /\ expires \in BOOLEAN
    /\ older \in SUBSET Processes
    /\ pc \in [Processes -> {"off", "trying", "counted", "backing", "holding",
                             "clearing"}]
    /\ faults \in Nat

Holding == {p \in Processes : pc[p] = "holding"}

\* The processes whose INCR no DECR of theirs has undone.
Counted == {p \in Processes : pc[p] \in {"counted", "backing", "holding"}}

\* How many of those the key has lost, to an expiry or to the DELETE of a
\* process that saw zero just before.
Forgotten == Cardinality(Counted) + faults - Count

\* The key never blocks more slots than there are processes with an increment,
\* living or killed: whatever the order of INCR, DECR and DELETE, none is
\* counted twice (scan_concurrency.py:27-47).
KeyNeverOvercounts == Forgotten >= 0

\* More collections than the cap run only for as many increments as the key has
\* forgotten: the cap is lost to a reset of the key, never to the race of the
\* commands themselves (scan_concurrency.py:33-38).
ExcessIsForgotten == Cardinality(Holding) <= Cap + Forgotten

\* As long as no process has been killed, a count above zero will expire: its
\* key has a time to live, or the process that is to set it is about to
\* (scan_concurrency.py:34-35).
ExpiryArmed ==
    (Count > 0 /\ ~expires) => (faults > 0 \/ \E p \in Processes : pc[p] = "counted")

\* Slots leaked by a killed process come back when the key has a time to live
\* (the comment at scan_concurrency.py:15), although nothing renews or checks it.
LeakHeals ==
    (expires /\ Count > Cardinality(Counted)) ~> (Count <= Cardinality(Counted))

----------------------------------------------------------------------------
(* The inductive invariant *)

\* The processes that have a slot, or will have it with their EXPIRE.
Admitted == {p \in Processes : \/ pc[p] = "holding"
                               \/ pc[p] = "counted" /\ 1 <= Cap}

AdmittedWithinCap == Cardinality(Admitted) <= Cap + Forgotten

IInv ==
    /\ TypeOK
    /\ KeyNeverOvercounts
    /\ AdmittedWithinCap
    /\ ExpiryArmed
=============================================================================
