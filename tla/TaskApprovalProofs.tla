------------------------- MODULE TaskApprovalProofs -------------------------
(***************************************************************************)
(* What TaskApproval guarantees for every set of reviews and every bound   *)
(* on faults.  The inductive invariant ties three things together: the row *)
(* lock admits one execution, a review that is past its decision has its   *)
(* approval in the log, and the log ends with the committed status.        *)
(***************************************************************************)
EXTENDS TaskApproval, TLAPS

----------------------------------------------------------------------------
(* The audit log only grows, and what a transaction appends can be read     *)
(* back.                                                                   *)

\* A commit keeps every entry and adds one.
LEMMA CommitExtends ==
    ASSUME log \in Seq(Entry), NEW r \in Reviews \cup {NoReview},
           NEW before \in TaskStatus \cup {"none", "running"},
           NEW after \in TaskStatus,
           Commit(r, before, after)
    PROVE  /\ log' \in Seq(Entry)
           /\ status' = after
           /\ DOMAIN log \subseteq DOMAIN log'
           /\ \A i \in DOMAIN log : log'[i] = log[i]
           /\ Len(log') \in DOMAIN log'
           /\ log'[Len(log')] = [by |-> r, before |-> before, after |-> after]
           /\ log' # <<>>
  <1> DEFINE e == [by |-> r, before |-> before, after |-> after]
  <1>1. e \in Entry
    BY DEF Entry
  <1>2. log' = Append(log, e) /\ status' = after
    BY DEF Commit
  <1> HIDE DEF e
  <1>3. /\ log' \in Seq(Entry)
        /\ Len(log') = Len(log) + 1 /\ Len(log) \in Nat
        /\ DOMAIN log = 1..Len(log) /\ DOMAIN log' = 1..Len(log')
        /\ \A i \in 1..Len(log) : log'[i] = log[i]
        /\ log'[Len(log')] = e
    BY <1>1, <1>2
  <1>4. log' # <<>>
    BY <1>3
  <1>5. QED
    BY <1>2, <1>3, <1>4 DEF e

\* So whatever an entry of the log has shown, it still shows after a commit.
LEMMA CommitKeeps ==
    ASSUME log \in Seq(Entry), NEW r \in Reviews \cup {NoReview},
           NEW before \in TaskStatus \cup {"none", "running"},
           NEW after \in TaskStatus,
           Commit(r, before, after)
    PROVE  /\ StatusIsLogged'
           /\ \A q \in Reviews :
                (\E i \in Approvals : log[i].by = q)
                    => (\E i \in Approvals' : log'[i].by = q)
           /\ \A q \in Reviews :
                (\E i \in DOMAIN log : log[i].by = q /\ log[i].before = "running")
                    => (\E i \in DOMAIN log' : log'[i].by = q /\ log'[i].before = "running")
           /\ after = "approved" => \E i \in Approvals' : log'[i].by = r
           /\ before = "running"
                => \E i \in DOMAIN log' : log'[i].by = r /\ log'[i].before = "running"
  <1>1. /\ status' = after
        /\ DOMAIN log \subseteq DOMAIN log'
        /\ \A i \in DOMAIN log : log'[i] = log[i]
        /\ Len(log') \in DOMAIN log'
        /\ log'[Len(log')] = [by |-> r, before |-> before, after |-> after]
        /\ log' # <<>>
    BY CommitExtends
  <1>2. StatusIsLogged'
    BY <1>1 DEF StatusIsLogged
  <1>3. Approvals \subseteq Approvals'
    BY <1>1 DEF Approvals
  <1>4. after = "approved" => Len(log') \in Approvals'
    BY <1>1 DEF Approvals
  <1>5. \A q \in Reviews :
            (\E i \in Approvals : log[i].by = q) => (\E i \in Approvals' : log'[i].by = q)
    BY <1>1, <1>3 DEF Approvals
  <1>6. QED
    BY <1>1, <1>2, <1>4, <1>5

----------------------------------------------------------------------------
(* The initial states and the steps                                        *)

LEMMA InitIInv == Init => IInv
  <1> SUFFICES ASSUME Init PROVE IInv
    OBVIOUS
  <1>1. TypeOK
    <2>1. enabled \in BOOLEAN
      BY Zenon DEF Init
    <2>2. log \in Seq(Entry)
      BY DEF Init
    <2>3. QED
      BY <2>1, <2>2 DEF Init, TypeOK
  <1>2. OneRunAtATime
    BY DEF Init, OneRunAtATime, Executing
  <1>3. RunsAreApproved /\ RunsAreRecorded
    BY DEF Init, RunsAreApproved, RunsAreRecorded
  <1>4. StatusIsLogged
    BY DEF Init, StatusIsLogged
  <1>5. ExecutorsApproved /\ OutcomeKnown
    BY DEF Init, ExecutorsApproved, OutcomeKnown
  <1>6. QED
    BY <1>1, <1>2, <1>3, <1>4, <1>5 DEF IInv

LEMMA IInvStep == IInv /\ [Next]_vars => IInv'
  <1> SUFFICES ASSUME IInv, [Next]_vars PROVE IInv'
    OBVIOUS
  <1> USE DEF IInv
  <1>1. CASE RequestExecution
    <2>1. Commit(NoReview, "none", "pending_approval")
      BY <1>1 DEF RequestExecution
    <2>2. UNCHANGED <<enabled, pc, decision, outcome, runs, faults>>
      BY <1>1 DEF RequestExecution
    <2>3. /\ "none" \in TaskStatus \cup {"none", "running"}
          /\ "pending_approval" \in TaskStatus
          /\ NoReview \in Reviews \cup {NoReview}
      BY DEF TaskStatus
    <2>4. log' \in Seq(Entry) /\ status' = "pending_approval"
      BY <2>1, <2>3, CommitExtends DEF TypeOK
    <2>5. TypeOK'
      BY <2>2, <2>3, <2>4 DEF TypeOK
    <2>6. OneRunAtATime' /\ OutcomeKnown'
      BY <2>2 DEF OneRunAtATime, Executing, OutcomeKnown
    <2>7. /\ StatusIsLogged'
          /\ \A q \in Reviews :
                (\E i \in Approvals : log[i].by = q)
                    => (\E i \in Approvals' : log'[i].by = q)
          /\ \A q \in Reviews :
                (\E i \in DOMAIN log : log[i].by = q /\ log[i].before = "running")
                    => (\E i \in DOMAIN log' : log'[i].by = q /\ log'[i].before = "running")
      BY <2>1, <2>3, CommitKeeps DEF TypeOK
    <2>8. RunsAreApproved' /\ RunsAreRecorded' /\ ExecutorsApproved'
      BY <2>2, <2>7 DEF TypeOK, RunsAreApproved, RunsAreRecorded, ExecutorsApproved
    <2>9. QED
      BY <2>5, <2>6, <2>7, <2>8
  <1>2. ASSUME NEW r \in Reviews, NEW d \in {"approve", "reject"}, ReadTask(r, d)
        PROVE  IInv'
    <2>1. /\ pc[r] = "idle"
          /\ pc' = [pc EXCEPT ![r] = IF MayDecide THEN "read" ELSE "refused"]
          /\ decision' = [decision EXCEPT ![r] = d]
          /\ UNCHANGED <<enabled, status, log, outcome, runs, faults>>
      BY <1>2 DEF ReadTask
    <2>2. TypeOK'
      BY <2>1 DEF TypeOK
    <2>3. /\ pc'[r] \in {"read", "refused"}
          /\ \A q \in Reviews : q # r => pc'[q] = pc[q]
      BY <2>1 DEF TypeOK
    <2>4. QED
      BY <2>1, <2>2, <2>3
      DEF OneRunAtATime, Executing, RunsAreApproved, RunsAreRecorded,
          StatusIsLogged, ExecutorsApproved, OutcomeKnown, Approvals
  <1>3. ASSUME NEW r \in Reviews, Approve(r) \/ Reject(r) \/ SkipRun(r)
        PROVE  IInv'
    <2>1. PICK before \in TaskStatus, after \in TaskStatus :
            /\ Commit(r, before, after)
            /\ pc' = [pc EXCEPT ![r] = IF after = "approved" THEN "approved" ELSE "done"]
            /\ pc[r] \in {"read", "approved"}
            /\ UNCHANGED <<enabled, decision, outcome, runs, faults>>
      BY <1>3 DEF Approve, Reject, SkipRun, SkippedStatus, TaskStatus, Settled
    <2>2. log' \in Seq(Entry) /\ status' \in TaskStatus
      BY <2>1, CommitExtends DEF TypeOK
    <2>3. TypeOK'
      BY <2>1, <2>2 DEF TypeOK
    <2>4. /\ pc'[r] = IF after = "approved" THEN "approved" ELSE "done"
          /\ \A q \in Reviews : q # r => pc'[q] = pc[q]
      BY <2>1 DEF TypeOK
    <2>5. /\ StatusIsLogged'
          /\ \A q \in Reviews :
                (\E i \in Approvals : log[i].by = q)
                    => (\E i \in Approvals' : log'[i].by = q)
          /\ \A q \in Reviews :
                (\E i \in DOMAIN log : log[i].by = q /\ log[i].before = "running")
                    => (\E i \in DOMAIN log' : log'[i].by = q /\ log'[i].before = "running")
          /\ after = "approved" => \E i \in Approvals' : log'[i].by = r
      BY <2>1, CommitKeeps DEF TypeOK
    <2>6. OneRunAtATime' /\ OutcomeKnown'
      BY <2>1, <2>4 DEF OneRunAtATime, Executing, OutcomeKnown
    <2>7. RunsAreApproved' /\ RunsAreRecorded' /\ ExecutorsApproved'
      BY <2>1, <2>3, <2>4, <2>5
      DEF TypeOK, RunsAreApproved, RunsAreRecorded, ExecutorsApproved
    <2>8. QED
      BY <2>3, <2>5, <2>6, <2>7
  <1>4. ASSUME NEW r \in Reviews, BeginRun(r) PROVE IInv'
    <2>1. /\ pc[r] = "approved" /\ RowFree
          /\ pc' = [pc EXCEPT ![r] = "running"]
          /\ UNCHANGED <<enabled, status, log, decision, outcome, runs, faults>>
      BY <1>4 DEF BeginRun
    <2>2. TypeOK'
      BY <2>1 DEF TypeOK
    <2>3. pc'[r] = "running" /\ \A q \in Reviews : q # r => pc'[q] = pc[q]
      BY <2>1 DEF TypeOK
    <2>4. OneRunAtATime'
      BY <2>1, <2>3 DEF OneRunAtATime, Executing, RowFree
    <2>5. QED
      BY <2>1, <2>2, <2>3, <2>4
      DEF RunsAreApproved, RunsAreRecorded, StatusIsLogged, ExecutorsApproved,
          OutcomeKnown, Approvals
  <1>5. ASSUME NEW r \in Reviews,
               (\E result \in {"completed", "failed"} : RunScript(r, result)) \/ CannotRun(r)
        PROVE  IInv'
    <2>1. PICK result \in {"completed", "failed"} :
            /\ pc[r] = "running"
            /\ outcome' = [outcome EXCEPT ![r] = result]
            /\ pc' = [pc EXCEPT ![r] = "ran"]
            /\ runs' \in {runs, runs \cup {r}}
            /\ UNCHANGED <<enabled, status, log, decision, faults>>
      BY <1>5 DEF RunScript, CannotRun
    <2>2. TypeOK'
      BY <2>1 DEF TypeOK
    <2>3. /\ pc'[r] = "ran" /\ outcome'[r] = result
          /\ \A q \in Reviews : q # r => pc'[q] = pc[q] /\ outcome'[q] = outcome[q]
      BY <2>1 DEF TypeOK
    <2>4. OneRunAtATime' /\ OutcomeKnown'
      BY <2>1, <2>3 DEF OneRunAtATime, Executing, OutcomeKnown
    <2>5. QED
      BY <2>1, <2>2, <2>3, <2>4
      DEF RunsAreApproved, RunsAreRecorded, StatusIsLogged, ExecutorsApproved, Approvals
  <1>6. ASSUME NEW r \in Reviews, FinishRun(r) PROVE IInv'
    <2>1. /\ pc[r] = "ran"
          /\ Commit(r, "running", outcome[r])
          /\ pc' = [pc EXCEPT ![r] = "done"]
          /\ UNCHANGED <<enabled, decision, outcome, runs, faults>>
      BY <1>6 DEF FinishRun
    <2>2. /\ outcome[r] \in TaskStatus
          /\ "running" \in TaskStatus \cup {"none", "running"}
          /\ r \in Reviews \cup {NoReview}
      BY <2>1 DEF TypeOK, OutcomeKnown, TaskStatus, Settled
    <2>3. log' \in Seq(Entry) /\ status' \in TaskStatus
      BY <2>1, <2>2, CommitExtends DEF TypeOK
    <2>4. TypeOK'
      BY <2>1, <2>3 DEF TypeOK
    <2>5. pc'[r] = "done" /\ \A q \in Reviews : q # r => pc'[q] = pc[q]
      BY <2>1 DEF TypeOK
    <2>6. /\ StatusIsLogged'
          /\ \A q \in Reviews :
                (\E i \in Approvals : log[i].by = q)
                    => (\E i \in Approvals' : log'[i].by = q)
          /\ \A q \in Reviews :
                (\E i \in DOMAIN log : log[i].by = q /\ log[i].before = "running")
                    => (\E i \in DOMAIN log' : log'[i].by = q /\ log'[i].before = "running")
          /\ \E i \in DOMAIN log' : log'[i].by = r /\ log'[i].before = "running"
      BY <2>1, <2>2, CommitKeeps DEF TypeOK
    <2>7. OneRunAtATime' /\ OutcomeKnown'
      BY <2>1, <2>5 DEF OneRunAtATime, Executing, OutcomeKnown
    <2>8. RunsAreApproved' /\ RunsAreRecorded' /\ ExecutorsApproved'
      BY <2>1, <2>4, <2>5, <2>6
      DEF TypeOK, RunsAreApproved, RunsAreRecorded, ExecutorsApproved
    <2>9. QED
      BY <2>4, <2>6, <2>7, <2>8
  <1>7. ASSUME NEW r \in Reviews, RequestDies(r) PROVE IInv'
    <2>1. /\ pc' = [pc EXCEPT ![r] = "dead"]
          /\ faults' = faults + 1
          /\ UNCHANGED <<enabled, status, log, decision, outcome, runs>>
      BY <1>7 DEF RequestDies
    <2>2. TypeOK'
      BY <2>1 DEF TypeOK
    <2>3. pc'[r] = "dead" /\ \A q \in Reviews : q # r => pc'[q] = pc[q]
      BY <2>1 DEF TypeOK
    <2>4. OneRunAtATime' /\ OutcomeKnown'
      BY <2>1, <2>3 DEF OneRunAtATime, Executing, OutcomeKnown
    <2>5. StatusIsLogged' /\ RunsAreApproved' /\ ExecutorsApproved'
      BY <2>1, <2>3 DEF StatusIsLogged, RunsAreApproved, ExecutorsApproved, Approvals
    <2>6. RunsAreRecorded'
      BY <2>1, <2>2, <2>3 DEF TypeOK, RunsAreRecorded
    <2>7. QED
      BY <2>2, <2>4, <2>5, <2>6
  <1>8. CASE UNCHANGED vars
    BY <1>8
    DEF vars, TypeOK, OneRunAtATime, Executing, RunsAreApproved, RunsAreRecorded,
        StatusIsLogged, ExecutorsApproved, OutcomeKnown, Approvals
  <1>9. QED
    BY <1>1, <1>2, <1>3, <1>4, <1>5, <1>6, <1>7, <1>8 DEF Next, Handle

----------------------------------------------------------------------------
(* Theorems                                                                *)

\* The inductive invariant holds throughout, for any number of reviews that race
\* for the task and whatever dies on the way.
THEOREM GateInvariance == Spec => []IInv
  BY InitIInv, IInvStep, PTL DEF Spec

\* At most one execution of the task's script is under way at any time.
THEOREM RunsExclude == Spec => []OneRunAtATime
  <1>1. IInv => OneRunAtATime
    BY DEF IInv
  <1>2. QED
    BY <1>1, GateInvariance, PTL

\* FR-22 and FR-23: no script reaches the server without a recorded approval of
\* the very request that sends it there, and what ran is in the audit log, unless
\* its request died before the commit.
THEOREM RunsAccountedFor == Spec => []RunsAreAccountedFor
  <1>1. IInv => RunsAreAccountedFor
    BY DEF IInv, RunsAreAccountedFor
  <1>2. QED
    BY <1>1, GateInvariance, PTL

\* FR-23: the log always ends with the committed status.
THEOREM LogIsFaithful == Spec => []StatusIsLogged
  <1>1. IInv => StatusIsLogged
    BY DEF IInv
  <1>2. QED
    BY <1>1, GateInvariance, PTL

\* A settled task that nobody has read as open stays settled and does not run.
THEOREM SettledIsFinal == Spec => SettledStays
  <1>1. ASSUME IInv, [Next]_vars, status \in Settled, Quiet
        PROVE  Quiet' /\ UNCHANGED <<status, log, runs>>
    <2>1. status # "none" /\ ~MayDecide
      BY <1>1 DEF Settled, MayDecide
    <2>2. ~RequestExecution
      BY <2>1 DEF RequestExecution
    <2>3. ASSUME NEW r \in Reviews PROVE ~Handle(r) /\ ~RequestDies(r)
      BY <1>1 DEF Quiet, Handle, RequestDies, Approve, Reject, SkipRun, BeginRun,
                  RunScript, CannotRun, FinishRun
    <2>4. ASSUME NEW r \in Reviews, NEW d \in {"approve", "reject"}, ReadTask(r, d)
          PROVE  Quiet' /\ UNCHANGED <<status, log, runs>>
      BY <1>1, <2>1, <2>4 DEF ReadTask, Quiet, IInv, TypeOK
    <2>5. CASE UNCHANGED vars
      BY <1>1, <2>5 DEF vars, Quiet
    <2>6. QED
      BY <1>1, <2>2, <2>3, <2>4, <2>5 DEF Next
  <1>2. QED
    BY <1>1, GateInvariance, PTL DEF Spec, SettledStays
=============================================================================
