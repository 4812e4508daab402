---------------------------- MODULE TaskApproval ----------------------------
(***************************************************************************)
(* The human approval gate of one task: the request that creates it, the   *)
(* concurrent approve and reject requests for it, and the execution that   *)
(* an approval goes on to run inside the same API request.  Tasks do not   *)
(* interact, so one task says it all.                                      *)
(*                                                                         *)
(* A review reads the task without a lock and writes it in a later         *)
(* statement.  The flush of that write takes the row lock of the task      *)
(* until the transaction ends, so a write waits for a transaction that     *)
(* holds the row and then overwrites what it left.  Where flush and commit *)
(* have nothing but an audit entry between them they are one action.       *)
(***************************************************************************)
EXTENDS Naturals, Sequences

CONSTANTS
    Reviews,    \* the approve and reject requests made for the task
    NoReview,   \* author of the entry that reports the task's creation
    MaxFaults   \* bound on API crashes and escaping exceptions

ASSUME ReviewsAssumption == NoReview \notin Reviews /\ MaxFaults \in Nat

VARIABLES
    enabled,    \* settings.execution_enabled, read when the API starts
    status,     \* committed status of the tasks row, "none" before it exists
    log,        \* the audit_logs rows of the task, in the order of their commits
    pc,         \* pc[r]: how far a review has come
    decision,   \* decision[r]: what it was asked to do
    outcome,    \* outcome[r]: the status its execution has arrived at
    runs,       \* the reviews that have sent the script to the target server
    faults      \* crashes and escaping exceptions so far

vars == <<enabled, status, log, pc, decision, outcome, runs, faults>>

Settled == {"rejected", "execution_skipped_flagged_off", "completed", "failed"}

\* "running" is flushed but never committed: no other transaction sees it.
TaskStatus == {"pending_approval", "approved"} \cup Settled

Entry == [by : Reviews \cup {NoReview}, before : TaskStatus \cup {"none", "running"},
          after : TaskStatus]

Init ==
    /\ enabled \in BOOLEAN
    /\ status = "none"
    /\ log = <<>>
    /\ pc = [r \in Reviews |-> "idle"]
    /\ decision = [r \in Reviews |-> "none"]
    /\ outcome = [r \in Reviews |-> "none"]
    /\ runs = {}
    /\ faults = 0

\* The reviews whose open transaction has flushed status "running".
Executing == {r \in Reviews : pc[r] \in {"running", "ran"}}

\* An UPDATE of the row waits for the transaction that has updated it.
RowFree == Executing = {}

Commit_Unlogged(r, before, after) == status' = after /\ UNCHANGED log

Commit_Requested(r, before, after) ==
    /\ status' = after
    /\ log' = Append(log, [by |-> r, before |-> before, after |-> before])

\* What one transaction commits: a status, and the audit entry that goes
\* with it.  The status an entry reports as the earlier one is a constant of
\* the handler's code, not what the transaction has overwritten.
Commit(r, before, after) ==
    /\ status' = after
    /\ log' = Append(log, [by |-> r, before |-> before, after |-> after])

----------------------------------------------------------------------------
(* POST /scripts/{id}/execute *)

RequestExecution ==
    /\ status = "none"
    /\ Commit(NoReview, "none", "pending_approval")
    /\ UNCHANGED <<enabled, pc, decision, outcome, runs, faults>>

----------------------------------------------------------------------------
(* POST /tasks/{id}/approve and /tasks/{id}/reject *)

MayDecide_Unguarded == TRUE

MayDecide == status = "pending_approval"

\* The request reads the task, and goes on if its decision is still open; the
\* 409 response ends it otherwise.
ReadTask(r, d) ==
    /\ pc[r] = "idle" /\ status # "none"
    /\ decision' = [decision EXCEPT ![r] = d]
    /\ pc' = [pc EXCEPT ![r] = IF MayDecide THEN "read" ELSE "refused"]
    /\ UNCHANGED <<enabled, status, log, outcome, runs, faults>>

Approve(r) ==
    /\ pc[r] = "read" /\ decision[r] = "approve"
    /\ RowFree
    /\ Commit(r, "pending_approval", "approved")
    /\ pc' = [pc EXCEPT ![r] = "approved"]
    /\ UNCHANGED <<enabled, decision, outcome, runs, faults>>

Reject(r) ==
    /\ pc[r] = "read" /\ decision[r] = "reject"
    /\ RowFree
    /\ Commit(r, "pending_approval", "rejected")
    /\ pc' = [pc EXCEPT ![r] = "done"]
    /\ UNCHANGED <<enabled, decision, outcome, runs, faults>>

----------------------------------------------------------------------------
(* run_task, called by the approval after its commit.  Its own check of    *)
(* the status reads the object the approval holds, not the row, and never  *)
(* fails.                                                                  *)

SkippedStatus_Unset == "approved"

SkippedStatus == "execution_skipped_flagged_off"

SkipRun(r) ==
    /\ pc[r] = "approved" /\ ~enabled
    /\ RowFree
    /\ Commit(r, "approved", SkippedStatus)
    /\ pc' = [pc EXCEPT ![r] = "done"]
    /\ UNCHANGED <<enabled, decision, outcome, runs, faults>>

BeginRun_Unflushed(r) ==
    /\ pc[r] = "approved" /\ enabled
    /\ pc' = [pc EXCEPT ![r] = "running"]
    /\ UNCHANGED <<enabled, status, log, decision, outcome, runs, faults>>

\* status "running" is flushed; it will be overwritten before the commit.
BeginRun(r) ==
    /\ pc[r] = "approved" /\ enabled
    /\ RowFree
    /\ pc' = [pc EXCEPT ![r] = "running"]
    /\ UNCHANGED <<enabled, status, log, decision, outcome, runs, faults>>

\* The script goes out to the server and comes back with a return code, or the
\* connection breaks on the way.
RunScript(r, result) ==
    /\ pc[r] = "running"
    /\ runs' = runs \cup {r}
    /\ outcome' = [outcome EXCEPT ![r] = result]
    /\ pc' = [pc EXCEPT ![r] = "ran"]
    /\ UNCHANGED <<enabled, status, log, decision, faults>>

\* No secret for the credential, or no connection.
CannotRun(r) ==
    /\ pc[r] = "running"
    /\ outcome' = [outcome EXCEPT ![r] = "failed"]
    /\ pc' = [pc EXCEPT ![r] = "ran"]
    /\ UNCHANGED <<enabled, status, log, decision, runs, faults>>

FinishRun(r) ==
    /\ pc[r] = "ran"
    /\ Commit(r, "running", outcome[r])
    /\ pc' = [pc EXCEPT ![r] = "done"]
    /\ UNCHANGED <<enabled, decision, outcome, runs, faults>>

\* The API process dies, or an exception leaves the handler (a task whose
\* server row is missing): the open transaction is rolled back.
RequestDies(r) ==
    /\ pc[r] \in {"read", "approved", "running", "ran"}
    /\ faults < MaxFaults
    /\ pc' = [pc EXCEPT ![r] = "dead"]
    /\ faults' = faults + 1
    /\ UNCHANGED <<enabled, status, log, decision, outcome, runs>>

----------------------------------------------------------------------------

\* What a request does by itself once it has read the task.
Handle(r) ==
    \/ Approve(r)
    \/ Reject(r)
    \/ SkipRun(r)
    \/ BeginRun(r)
    \/ \E result \in {"completed", "failed"} : RunScript(r, result)
    \/ CannotRun(r)
    \/ FinishRun(r)

Next ==
    \/ RequestExecution
    \/ \E r \in Reviews :
        \/ \E d \in {"approve", "reject"} : ReadTask(r, d)
        \/ Handle(r)
        \/ RequestDies(r)

Spec == Init /\ [][Next]_vars

\* A request that has begun is run to its end by the API's event loop, and the
\* WinRM client times out.
FairSpec == Spec /\ \A r \in Reviews : WF_vars(Handle(r))

----------------------------------------------------------------------------
(* Properties *)

TypeOK ==
    /\ enabled \in BOOLEAN
    /\ status \in TaskStatus \cup {"none"}
    /\ log \in Seq(Entry)
    /\ pc \in [Reviews -> {"idle", "refused", "read", "approved", "running",
                           "ran", "done", "dead"}]
    /\ decision \in [Reviews -> {"none", "approve", "reject"}]
    /\ outcome \in [Reviews -> {"none", "completed", "failed"}]
    /\ runs \in SUBSET Reviews
    /\ faults \in Nat

\* The script of a task never runs twice at the same time, however many
\* approvals race for it: an execution holds the row lock from the flush of
\* "running" to its commit (execution/runner.py:44-46).
OneRunAtATime == \A r, q \in Executing : r = q

Approvals == {i \in DOMAIN log : log[i].after = "approved"}

\* Every run of the script follows an approval of its own, already committed
\* with its audit entry (runner.py:1-6 and FR-22, docs/01-SRS.md:106).  A task
\* can run several times, but never on the strength of somebody else's approval.
RunsAreApproved == \A r \in runs : \E i \in Approvals : log[i].by = r

\* Every run that got as far as the server leaves an entry of its own, unless it
\* is still under way or its request died before the commit (FR-23).
RunsAreRecorded ==
    \A r \in runs :
        \/ pc[r] \in {"ran", "dead"}
        \/ \E i \in DOMAIN log : log[i].by = r /\ log[i].before = "running"

\* Both sides of a run: the approval before it and the entry after it.
RunsAreAccountedFor == RunsAreApproved /\ RunsAreRecorded

\* The audit log never falls behind the task, nor ahead of it: the newest entry
\* reports the committed status, whatever dies on the way (FR-23).
StatusIsLogged ==
    IF log = <<>> THEN status = "none" ELSE status = log[Len(log)].after

\* Nobody is deciding or executing.
Quiet == \A r \in Reviews : pc[r] \notin {"read", "approved", "running", "ran"}

\* Once a task is settled and no request that found it open is under way, it
\* stays as it is and its script does not run (again): a late review is refused.
SettledStays ==
    [][(status \in Settled /\ Quiet) => (Quiet' /\ UNCHANGED <<status, log, runs>>)]_vars

\* An approved task gets a final status, unless a request died on the way.
ApprovedSettles ==
    status = "approved" ~> (status # "approved" \/ \E r \in Reviews : pc[r] = "dead")

----------------------------------------------------------------------------
(* The inductive invariant *)

\* A review that has got past its decision is an approval the log knows.
ExecutorsApproved ==
    \A r \in Reviews :
        pc[r] \in {"approved", "running", "ran"} => \E i \in Approvals : log[i].by = r

\* An execution that is about to be committed has an outcome.
OutcomeKnown == \A r \in Reviews : pc[r] = "ran" => outcome[r] # "none"

IInv ==
    /\ TypeOK
    /\ OneRunAtATime
    /\ RunsAreApproved
    /\ RunsAreRecorded
    /\ StatusIsLogged
    /\ ExecutorsApproved
    /\ OutcomeKnown
=============================================================================
