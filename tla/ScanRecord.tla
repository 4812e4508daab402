----------------------------- MODULE ScanRecord -----------------------------
(***************************************************************************)
(* What may become of a row of network_scans, with nothing of devices,     *)
(* messages or retries: a scan is asked for, swept by one task, perhaps    *)
(* judged by finalizers, and stopped at any time.  Whoever has a scan in   *)
(* hand writes over whatever the row says by then, CANCELLED included; a   *)
(* scan that nobody has in hand changes only when it is stopped, swept for *)
(* the first time, or judged after its sweep.                              *)
(***************************************************************************)
CONSTANTS
    Scans   \* the rows

VARIABLES
    status,     \* status[s], "none" before the insert
    started,    \* started[s]: it has been swept, or is being swept
    stopping,   \* scans somebody is about to stop
    sweeping,   \* scans a sweep has in hand
    judging     \* scans a finalizer has in hand

vars == <<status, started, stopping, sweeping, judging>>

Active == {"pending", "discovering", "identifying", "scanning"}

\* What a finalizer may close a scan with.
Verdicts == {"completed", "partial", "failed", "credentials_required"}

Init ==
    /\ status = [s \in Scans |-> "none"]
    /\ started = [s \in Scans |-> FALSE]
    /\ stopping = {} /\ sweeping = {} /\ judging = {}

Start(s) ==
    /\ status[s] = "none"
    /\ status' = [status EXCEPT ![s] = "pending"]
    /\ UNCHANGED <<started, stopping, sweeping, judging>>

\* Only an active scan can be stopped, but the stop may come late.
WantStop(s) ==
    /\ status[s] \in Active
    /\ stopping' = stopping \union {s}
    /\ UNCHANGED <<status, started, sweeping, judging>>

Stop(s) ==
    /\ s \in stopping
    /\ stopping' = stopping \ {s}
    /\ status' = [status EXCEPT ![s] = "cancelled"]
    /\ UNCHANGED <<started, sweeping, judging>>

\* A sweep takes up a scan that was never swept and that nobody judges.
Take(s) ==
    /\ status[s] = "pending" /\ ~started[s]
    /\ s \notin sweeping \union judging
    /\ sweeping' = sweeping \union {s}
    /\ UNCHANGED <<status, started, stopping, judging>>

Discover(s) ==
    /\ s \in sweeping /\ ~started[s]
    /\ status[s] \in {"pending", "cancelled"}
    /\ status' = [status EXCEPT ![s] = "discovering"]
    /\ started' = [started EXCEPT ![s] = TRUE]
    /\ UNCHANGED <<stopping, sweeping, judging>>

Identify(s) ==
    /\ s \in sweeping /\ started[s]
    /\ status[s] \in {"discovering", "cancelled"}
    /\ status' = [status EXCEPT ![s] = "identifying"]
    /\ UNCHANGED <<started, stopping, sweeping, judging>>

\* The sweep ends: nothing is left to do, collections follow, or it has failed.
EndSweep(s) ==
    /\ s \in sweeping /\ started[s]
    /\ status[s] \in {"discovering", "identifying", "cancelled"}
    /\ \E result \in {"completed", "scanning", "failed"} :
        status' = [status EXCEPT ![s] = result]
    /\ sweeping' = sweeping \ {s}
    /\ UNCHANGED <<started, stopping, judging>>

\* The sweep is given up, and the row stays as it is.
GiveUp(s) ==
    /\ s \in sweeping
    /\ sweeping' = sweeping \ {s}
    /\ UNCHANGED <<status, started, stopping, judging>>

\* A finalizer takes up a scan that waits for collections.
Judge(s) ==
    /\ status[s] = "scanning" /\ started[s]
    /\ s \notin sweeping
    /\ judging' = judging \union {s}
    /\ UNCHANGED <<status, started, stopping, sweeping>>

\* It closes the scan; another one may still have it in hand.
Close(s) ==
    /\ s \in judging
    /\ \E verdict \in Verdicts : status' = [status EXCEPT ![s] = verdict]
    /\ judging' \in {judging, judging \ {s}}
    /\ UNCHANGED <<started, stopping, sweeping>>

\* Or it leaves it to another one.
LeaveOpen(s) ==
    /\ s \in judging
    /\ judging' = judging \ {s}
    /\ UNCHANGED <<status, started, stopping, sweeping>>

Next ==
    \E s \in Scans :
        \/ Start(s) \/ WantStop(s) \/ Stop(s)
        \/ Take(s) \/ Discover(s) \/ Identify(s) \/ EndSweep(s) \/ GiveUp(s)
        \/ Judge(s) \/ Close(s) \/ LeaveOpen(s)

Spec == Init /\ [][Next]_vars
=============================================================================
