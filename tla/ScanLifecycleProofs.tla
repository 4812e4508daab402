------------------------ MODULE ScanLifecycleProofs ------------------------
(***************************************************************************)
(* Theorems of ScanLifecycle for every set of scans and devices and every  *)
(* bound on retries and faults.                                            *)
(***************************************************************************)
EXTENDS ScanLifecycle, FiniteSetTheorems, TLAPS

----------------------------------------------------------------------------
(* Type correctness *)

LEMMA JobIndex ==
  ASSUME NEW o \in Origins, NEW d \in Devices
  PROVE  <<o, d>> \in Jobs
BY DEF Jobs

LEMMA ScanOrigin ==
  ASSUME NEW s \in Scans
  PROVE  s \in Origins
BY DEF Origins

\* Counting one more retry.
LEMMA CountType ==
  ASSUME NEW S, NEW count \in [S -> Nat], NEW x \in S
  PROVE  [count EXCEPT ![x] = @ + 1] \in [S -> Nat]
OBVIOUS

\* One more fault.
LEMMA FaultType ==
  ASSUME TypeOK, Fault
  PROVE  faults' \in Nat
BY DEF TypeOK, Fault

\* The statuses of the devices lead to a status of the scan.
LEMMA VerdictType ==
  ASSUME NEW statuses
  PROVE  ScanVerdict(statuses) \in TerminalStatus
BY DEF ScanVerdict, TerminalStatus

\* Ending a transaction keeps the types of what it flushed.
LEMMA CloseTransactionType ==
  ASSUME TypeOK, NEW s \in Scans, CloseTransaction(s)
  PROVE  /\ wrote' \in [Scans -> [Devices -> DeviceWrite]]
         /\ history' \in [Scans -> SUBSET Devices]
         /\ row' \in [Scans -> Devices \cup {NoDevice}]
         /\ seen' \in [Scans -> DeviceScanStatus]
<1>1. NoWrites \in [Devices -> DeviceWrite]
  BY DEF NoWrites, DeviceWrite
<1>2. wrote' \in [Scans -> [Devices -> DeviceWrite]]
  BY <1>1 DEF TypeOK, CloseTransaction
<1> QED BY <1>2 DEF TypeOK, CloseTransaction, DeviceScanStatus

\* Closing a collection keeps the types of its variables.
LEMMA CloseJobType ==
  ASSUME TypeOK, NEW o \in Origins, NEW d \in Devices, NEW p \in JobPhase,
         CloseJob(o, d, p)
  PROVE  /\ jobPhase' \in [Jobs -> JobPhase]
         /\ own' \in [Jobs -> DeviceScanStatus]
         /\ target' \in [Jobs -> Scans \cup {NoScan}]
         /\ verdict' \in [Jobs -> ScanStatus \cup {"none"}]
BY JobIndex DEF TypeOK, CloseJob, DeviceScanStatus

\* Recording a host keeps the types of the transaction.
LEMMA RecordHostType ==
  ASSUME TypeOK, NEW s \in Scans, NEW d \in Devices, RecordHost(s, d)
  PROVE  /\ history' \in [Scans -> SUBSET Devices]
         /\ candidates' \in [Scans -> SUBSET Devices]
         /\ phase' \in [Scans -> TaskPhase]
         /\ row' \in [Scans -> Devices \cup {NoDevice}]
         /\ seen' \in [Scans -> DeviceScanStatus]
BY DEF TypeOK, RecordHost, TaskPhase, DeviceScanStatus

\* Every step of the system keeps the types.
LEMMA TypeStep ==
  ASSUME TypeOK, [Next]_vars
  PROVE  TypeOK'
<1> USE DEF scanVars, deviceVars, apiVars, txVars, taskVars, jobVars
<1>1. ASSUME NEW s \in Scans, ApiStep(s) PROVE TypeOK'
  <2>1. CASE StartScanCheck(s)
    BY <2>1 DEF StartScanCheck, TypeOK
  <2>2. CASE StartScanInsert(s)
    BY <2>2 DEF StartScanInsert, TypeOK, ScanStatus, ActiveStatus
  <2>3. CASE EnqueueScan(s)
    BY <2>3 DEF EnqueueScan, TypeOK, TaskPhase
  <2>4. CASE RequestDies(s)
    BY <2>4 DEF RequestDies, Fault, TypeOK
  <2>5. CASE StopScanRead(s)
    BY <2>5 DEF StopScanRead, TypeOK
  <2>6. CASE StopScanCommit(s)
    BY <2>6 DEF StopScanCommit, TypeOK, ScanStatus, TerminalStatus
  <2> QED BY <1>1, <2>1, <2>2, <2>3, <2>4, <2>5, <2>6 DEF ApiStep
<1>2. ASSUME NEW s \in Scans, ScanTaskStep(s) PROVE TypeOK'
  <2>1. CASE DiscoveryRead(s)
    BY <2>1 DEF DiscoveryRead, TypeOK, TaskPhase
  <2>2. CASE DiscoveryClaim(s)
    BY <2>2 DEF DiscoveryClaim, TypeOK, TaskPhase, ScanStatus, ActiveStatus
  <2>3. CASE DiscoverySwept(s)
    BY <2>3 DEF DiscoverySwept, TypeOK, TaskPhase, ScanStatus, ActiveStatus
  <2>4. ASSUME NEW d \in Devices, HostResolve(s, d) PROVE TypeOK'
    BY <2>4 DEF HostResolve, TypeOK, TaskPhase
  <2>5. ASSUME NEW d \in Devices, HostInsert(s, d) PROVE TypeOK'
    <3>1. wrote' \in [Scans -> [Devices -> DeviceWrite]]
      BY <2>5 DEF HostInsert, TypeOK, DeviceWrite
    <3> QED BY <2>5, <3>1, RecordHostType DEF HostInsert, TypeOK
  <2>6. ASSUME NEW d \in Devices, HostSupersede(s, d) PROVE TypeOK'
    <3>1. wrote' \in [Scans -> [Devices -> DeviceWrite]]
      BY <2>6 DEF HostSupersede, TypeOK, DeviceWrite
    <3> QED BY <2>6, <3>1, RecordHostType DEF HostSupersede, TypeOK
  <2>7. ASSUME NEW d \in Devices, DispatchCandidate(s, d) PROVE TypeOK'
    BY <2>7, ScanOrigin, JobIndex DEF DispatchCandidate, TypeOK, JobPhase
  <2>8. ASSUME NEW d \in Devices, HostUpdate(s, d) PROVE TypeOK'
    <3>1. wrote' \in [Scans -> [Devices -> DeviceWrite]]
      BY <2>8 DEF HostUpdate, TypeOK, DeviceWrite, RediscoveredStatus
    <3> QED BY <2>8, <3>1, RecordHostType DEF HostUpdate, TypeOK
  <2>9. CASE DiscoveryCommit(s)
    <3>1. device' \in [Devices -> DeviceScanStatus]
      BY <2>9 DEF DiscoveryCommit, TypeOK, DeviceWrite, DeviceScanStatus
    <3>2. latest' \in [Devices -> Scans \cup {NoScan}]
      BY <2>9 DEF DiscoveryCommit, TypeOK
    <3>3. touched' \in [Scans -> SUBSET Devices]
      BY <2>9 DEF DiscoveryCommit, TypeOK
    <3>4. status' \in [Scans -> ScanStatus \cup {"none"}]
      BY <2>9 DEF DiscoveryCommit, TypeOK, StatusAfterSweep, ScanStatus,
                  ActiveStatus, TerminalStatus
    <3> QED BY <2>9, <3>1, <3>2, <3>3, <3>4, CloseTransactionType
            DEF DiscoveryCommit, TypeOK, TaskPhase
  <2>10. CASE DiscoveryFails(s)
    BY <2>10, CloseTransactionType
    DEF DiscoveryFails, TypeOK, TaskPhase, ScanStatus, TerminalStatus
  <2>11. CASE ScanTaskEnds(s)
    BY <2>11 DEF ScanTaskEnds, TypeOK, TaskPhase
  <2> QED BY <1>2, <2>1, <2>2, <2>3, <2>4, <2>5, <2>6, <2>7, <2>8, <2>9,
             <2>10, <2>11 DEF ScanTaskStep
<1>3. ASSUME NEW d \in Devices, CollectDevice(d) PROVE TypeOK'
  <2>1. <<CollectTask, d>> \in Jobs /\ <<CollectLoop, d>> \in Jobs
    BY DEF Jobs, Origins
  <2>2. PICK sent \in JobPhase :
          jobPhase' = [jobPhase EXCEPT ![<<CollectTask, d>>] = sent,
                                       ![<<CollectLoop, d>>] = "queued"]
    BY <1>3 DEF CollectDevice, JobPhase
  <2>3. jobPhase' \in [Jobs -> JobPhase]
    BY <2>1, <2>2 DEF TypeOK, JobPhase
  <2> QED BY <1>3, <2>3 DEF CollectDevice, TypeOK
<1>4. ASSUME NEW o \in Origins, NEW d \in Devices, CollectStep(o, d)
      PROVE  TypeOK'
  <2>1. <<o, d>> \in Jobs
    BY JobIndex
  <2>2. CASE CollectBegin(o, d)
    BY <2>1, <2>2 DEF CollectBegin, TypeOK, JobPhase
  <2>3. CASE CollectSave(o, d)
    BY <2>1, <2>3 DEF CollectSave, CollectOutcome, TypeOK, JobPhase,
                      DeviceScanStatus
  <2>4. CASE FinalizeRead(o, d)
    BY <2>1, <2>4 DEF FinalizeRead, TypeOK, JobPhase
  <2>5. CASE FinalizeSkips(o, d)
    BY <2>5, CloseJobType DEF FinalizeSkips, TypeOK, JobPhase
  <2>6. CASE FinalizeJudge(o, d)
    <3>1. CASE StatusesRead(o, d) \subseteq FinalStatus
      <4>1. ScanVerdict(StatusesRead(o, d)) \in ScanStatus
        BY VerdictType DEF ScanStatus
      <4>2. /\ jobPhase' = [jobPhase EXCEPT ![<<o, d>>] = "judged"]
            /\ verdict' = [verdict EXCEPT
                 ![<<o, d>>] = ScanVerdict(StatusesRead(o, d))]
            /\ UNCHANGED <<own, target>>
        BY <2>6, <3>1 DEF FinalizeJudge
      <4>3. jobPhase' \in [Jobs -> JobPhase]
        BY <4>2 DEF TypeOK, JobPhase
      <4>4. verdict' \in [Jobs -> ScanStatus \cup {"none"}]
        BY <4>1, <4>2 DEF TypeOK
      <4> QED BY <2>6, <4>2, <4>3, <4>4 DEF FinalizeJudge, TypeOK
    <3>2. CASE ~(StatusesRead(o, d) \subseteq FinalStatus)
      BY <2>6, <3>2, CloseJobType DEF FinalizeJudge, TypeOK, JobPhase
    <3> QED BY <3>1, <3>2
  <2>7. CASE FinalizeCommit(o, d)
    <3>1. status' \in [Scans -> ScanStatus \cup {"none"}]
      BY <2>1, <2>7 DEF FinalizeCommit, TypeOK
    <3> QED BY <2>7, <3>1, CloseJobType DEF FinalizeCommit, TypeOK, JobPhase
  <2>8. CASE CollectEnds(o, d)
    BY <2>8, CloseJobType DEF CollectEnds, TypeOK, JobPhase
  <2> QED BY <1>4, <2>2, <2>3, <2>4, <2>5, <2>6, <2>7, <2>8 DEF CollectStep
<1>5. CASE FaultStep
  <2>1. ASSUME NEW s \in Scans, ScanTaskError(s) PROVE TypeOK'
    <3>1. phase' \in [Scans -> TaskPhase]
      BY <2>1 DEF ScanTaskError, TypeOK, TaskPhase
    <3>2. retries' \in [Scans -> Nat] /\ faults' \in Nat
      <4>1. \/ retries' = [retries EXCEPT ![s] = @ + 1]
            \/ retries' = retries
        BY <2>1 DEF ScanTaskError
      <4>2. Fault
        BY <2>1 DEF ScanTaskError
      <4>3. retries \in [Scans -> Nat]
        BY DEF TypeOK
      <4> QED BY <4>1, <4>2, <4>3, CountType, FaultType
    <3>3. candidates' \in [Scans -> SUBSET Devices] /\ CloseTransaction(s)
      BY <2>1 DEF ScanTaskError, TypeOK
    <3> QED BY <2>1, <3>1, <3>2, <3>3, CloseTransactionType
            DEF ScanTaskError, TypeOK
  <2>2. ASSUME NEW s \in Scans, ScanTaskCrash(s) PROVE TypeOK'
    BY <2>2, CloseTransactionType DEF ScanTaskCrash, Fault, TypeOK, TaskPhase
  <2>3. ASSUME NEW o \in Origins, NEW d \in Devices, CollectError(o, d)
        PROVE  TypeOK'
    <3>1. PICK p \in {"queued", "dropped"} : CloseJob(o, d, p)
      BY <2>3 DEF CollectError
    <3>2. attempts' \in [Jobs -> Nat] /\ faults' \in Nat
      <4>1. \/ attempts' = [attempts EXCEPT ![<<o, d>>] = @ + 1]
            \/ attempts' = attempts
        BY <2>3 DEF CollectError
      <4>2. Fault
        BY <2>3 DEF CollectError
      <4>3. attempts \in [Jobs -> Nat] /\ <<o, d>> \in Jobs
        BY JobIndex DEF TypeOK
      <4> QED BY <4>1, <4>2, <4>3, CountType, FaultType
    <3>3. /\ jobPhase' \in [Jobs -> JobPhase]
          /\ own' \in [Jobs -> DeviceScanStatus]
          /\ target' \in [Jobs -> Scans \cup {NoScan}]
          /\ verdict' \in [Jobs -> ScanStatus \cup {"none"}]
      BY <3>1, CloseJobType DEF JobPhase
    <3> QED BY <2>3, <3>2, <3>3 DEF CollectError, TypeOK
  <2>4. ASSUME NEW o \in Origins, NEW d \in Devices, CollectCrash(o, d)
        PROVE  TypeOK'
    BY <2>4, CloseJobType DEF CollectCrash, Fault, TypeOK, JobPhase
  <2> QED BY <1>5, <2>1, <2>2, <2>3, <2>4 DEF FaultStep
<1>6. CASE UNCHANGED vars
  BY <1>6 DEF vars, TypeOK
<1> QED BY <1>1, <1>2, <1>3, <1>4, <1>5, <1>6 DEF Next

----------------------------------------------------------------------------
(* The inductive invariant *)

\* A fresh system satisfies it.
LEMMA InitIInv == Init => IInv
<1> SUFFICES ASSUME Init PROVE IInv
  OBVIOUS
<1>1. TypeOK
  BY FirstStatusesAssumption
  DEF FirstStatusesAssumption, Init, TypeOK, ScanStatus, ScanMode,
      DeviceScanStatus, TaskPhase, JobPhase, DeviceWrite, NoWrites
<1>2. TaskMatchesStatus
  BY DEF Init, TaskMatchesStatus
<1>3. JudgedAfterSweep
  BY DEF Init, JudgedAfterSweep
<1>4. FlushedRows
  BY DEF Init, FlushedRows, Body
<1>5. CollectedAfterCommit
  BY ScanOrigin, JobIndex DEF Init, CollectedAfterCommit
<1>6. RowHeldOnce
  BY JobIndex DEF Init, RowHeldOnce
<1> QED BY <1>1, <1>2, <1>3, <1>4, <1>5, <1>6 DEF IInv

\* The status of a scan and the place of its task move together.
LEMMA TaskMatchesStatusStep ==
  ASSUME IInv, [Next]_vars
  PROVE  TaskMatchesStatus'
<1> USE DEF scanVars, deviceVars, apiVars, txVars, taskVars, jobVars
<1>0. TypeOK /\ TaskMatchesStatus /\ JudgedAfterSweep
  BY DEF IInv
<1>1. ASSUME NEW s \in Scans, ApiStep(s) PROVE TaskMatchesStatus'
  <2>1. CASE StartScanCheck(s)
    BY <1>0, <2>1 DEF StartScanCheck, TypeOK, TaskMatchesStatus
  <2>2. CASE StartScanInsert(s)
    BY <1>0, <2>2 DEF StartScanInsert, TypeOK, TaskMatchesStatus
  <2>3. CASE EnqueueScan(s)
    BY <1>0, <2>3 DEF EnqueueScan, TypeOK, TaskMatchesStatus
  <2>4. CASE RequestDies(s)
    BY <1>0, <2>4 DEF RequestDies, TypeOK, TaskMatchesStatus
  <2>5. CASE StopScanRead(s)
    BY <1>0, <2>5 DEF StopScanRead, ActiveStatus, TypeOK, TaskMatchesStatus
  <2>6. CASE StopScanCommit(s)
    BY <1>0, <2>6 DEF StopScanCommit, TypeOK, TaskMatchesStatus
  <2> QED BY <1>1, <2>1, <2>2, <2>3, <2>4, <2>5, <2>6 DEF ApiStep
<1>2. ASSUME NEW s \in Scans, ScanTaskStep(s) PROVE TaskMatchesStatus'
  <2>1. CASE DiscoveryRead(s)
    BY <1>0, <2>1 DEF DiscoveryRead, MayClaim, TypeOK, TaskMatchesStatus
  <2>2. CASE DiscoveryClaim(s)
    BY <1>0, <2>2 DEF DiscoveryClaim, TypeOK, TaskMatchesStatus
  <2>3. CASE DiscoverySwept(s)
    BY <1>0, <2>3 DEF DiscoverySwept, TypeOK, TaskMatchesStatus
  <2>4. ASSUME NEW d \in Devices,
               \/ HostResolve(s, d) \/ HostUpdate(s, d) \/ HostInsert(s, d)
               \/ HostSupersede(s, d) \/ DispatchCandidate(s, d)
        PROVE  TaskMatchesStatus'
    <3>1. /\ UNCHANGED <<status, started, request, stopping>>
          /\ \/ UNCHANGED phase
             \/ /\ phase[s] \in {"hosts", "resolved"}
                /\ \/ phase' = [phase EXCEPT ![s] = "hosts"]
                   \/ phase' = [phase EXCEPT ![s] = "resolved"]
      BY <2>4 DEF HostResolve, HostUpdate, HostInsert, HostSupersede,
                  DispatchCandidate, RecordHost
    <3> QED BY <1>0, <3>1 DEF TypeOK, TaskMatchesStatus
  <2>5. CASE DiscoveryCommit(s)
    <3>1. /\ UNCHANGED <<started, request, stopping>>
          /\ phase[s] = "hosts"
          /\ phase' = [phase EXCEPT ![s] = "dispatch"]
          /\ \/ status' = [status EXCEPT ![s] = "scanning"]
             \/ status' = [status EXCEPT ![s] = "completed"]
      BY <2>5 DEF DiscoveryCommit, StatusAfterSweep
    <3> QED BY <1>0, <3>1 DEF TypeOK, TaskMatchesStatus
  <2>6. CASE DiscoveryFails(s)
    BY <1>0, <2>6 DEF DiscoveryFails, Body, TypeOK, TaskMatchesStatus
  <2>7. CASE ScanTaskEnds(s)
    BY <1>0, <2>7 DEF ScanTaskEnds, TypeOK, TaskMatchesStatus
  <2> QED BY <1>2, <2>1, <2>2, <2>3, <2>4, <2>5, <2>6, <2>7 DEF ScanTaskStep
<1>3. ASSUME NEW d \in Devices, CollectDevice(d) PROVE TaskMatchesStatus'
  BY <1>0, <1>3 DEF CollectDevice, TaskMatchesStatus
<1>4. ASSUME NEW o \in Origins, NEW d \in Devices, CollectStep(o, d)
      PROVE  TaskMatchesStatus'
  <2>1. CASE FinalizeCommit(o, d)
    <3>1. /\ target[<<o, d>>] \in Scans
          /\ phase[target[<<o, d>>]] \notin Body
          /\ status[target[<<o, d>>]] \in TerminalStatus \cup {"scanning"}
          /\ verdict[<<o, d>>] \in TerminalStatus
      BY <1>0, <2>1, JobIndex
      DEF FinalizeCommit, TypeOK, JudgedAfterSweep
    <3>2. /\ status' = [status EXCEPT ![target[<<o, d>>]] = verdict[<<o, d>>]]
          /\ UNCHANGED <<started, request, stopping, phase>>
      BY <2>1 DEF FinalizeCommit
    <3> QED BY <1>0, <3>1, <3>2
            DEF TypeOK, TaskMatchesStatus, Body, TerminalStatus
  <2>2. CASE ~FinalizeCommit(o, d)
    <3>1. UNCHANGED <<status, started, request, stopping, phase>>
      BY <1>4, <2>2 DEF CollectStep, CollectBegin, CollectSave, FinalizeRead,
                        FinalizeSkips, FinalizeJudge, CollectEnds
    <3> QED BY <1>0, <3>1 DEF TaskMatchesStatus
  <2> QED BY <2>1, <2>2
<1>5. CASE FaultStep
  <2>1. ASSUME NEW s \in Scans, ScanTaskError(s) \/ ScanTaskCrash(s)
        PROVE  TaskMatchesStatus'
    <3>1. /\ UNCHANGED <<status, started, request, stopping>>
          /\ phase[s] \in Body \cup {"dispatch"}
          /\ \/ phase' = [phase EXCEPT ![s] = "queued"]
             \/ phase' = [phase EXCEPT ![s] = "lost"]
      BY <2>1 DEF ScanTaskError, ScanTaskCrash
    <3> QED BY <1>0, <3>1 DEF TypeOK, TaskMatchesStatus, Body
  <2>2. ASSUME NEW o \in Origins, NEW d \in Devices,
               CollectError(o, d) \/ CollectCrash(o, d)
        PROVE  TaskMatchesStatus'
    BY <1>0, <2>2 DEF CollectError, CollectCrash, TaskMatchesStatus
  <2> QED BY <1>5, <2>1, <2>2 DEF FaultStep
<1>6. CASE UNCHANGED vars
  BY <1>0, <1>6 DEF vars, TaskMatchesStatus
<1> QED BY <1>1, <1>2, <1>3, <1>4, <1>5, <1>6 DEF Next

\* A collection that closes leaves no judgement behind.
LEMMA CloseJobJudged ==
  ASSUME TypeOK, JudgedAfterSweep, UNCHANGED phase,
         NEW o \in Origins, NEW d \in Devices,
         NEW p \in JobPhase \ {"judging", "judged"}, CloseJob(o, d, p),
         \A s \in Scans : status'[s] = status[s] \/ status'[s] \in TerminalStatus
  PROVE  JudgedAfterSweep'
<1> SUFFICES ASSUME NEW k \in Jobs
             PROVE  /\ target'[k] # NoScan <=> jobPhase'[k] \in {"judging", "judged"}
                    /\ target'[k] # NoScan =>
                         /\ status'[target'[k]] \in TerminalStatus \cup {"scanning"}
                         /\ phase'[target'[k]] \notin Body
                    /\ jobPhase'[k] = "judged" => verdict'[k] \in TerminalStatus
  BY DEF JudgedAfterSweep
<1>1. CASE k = <<o, d>>
  BY <1>1 DEF CloseJob, TypeOK
<1>2. CASE k # <<o, d>>
  <2>1. /\ target'[k] = target[k] /\ jobPhase'[k] = jobPhase[k]
        /\ verdict'[k] = verdict[k]
    BY <1>2 DEF CloseJob, TypeOK
  <2>2. target[k] \in Scans \cup {NoScan}
    BY DEF TypeOK
  <2> QED BY <2>1, <2>2 DEF JudgedAfterSweep
<1> QED BY <1>1, <1>2

\* The finalizer judges scans that have left their task.
LEMMA JudgedAfterSweepStep ==
  ASSUME IInv, [Next]_vars
  PROVE  JudgedAfterSweep'
<1> USE DEF scanVars, deviceVars, apiVars, txVars, taskVars, jobVars
<1>0. TypeOK /\ TaskMatchesStatus /\ JudgedAfterSweep /\ CollectedAfterCommit
  BY DEF IInv
<1>1. ASSUME NEW s \in Scans, ApiStep(s) PROVE JudgedAfterSweep'
  <2>1. CASE StartScanInsert(s)
    <3>1. \A k \in Jobs : target[k] # s
      BY <1>0, <2>1, ConstantsAssumption
      DEF StartScanInsert, TaskMatchesStatus, JudgedAfterSweep, TerminalStatus,
          ConstantsAssumption
    <3> QED BY <1>0, <2>1, <3>1 DEF StartScanInsert, TypeOK, JudgedAfterSweep
  <2>2. CASE EnqueueScan(s)
    BY <1>0, <2>2 DEF EnqueueScan, TypeOK, JudgedAfterSweep, Body
  <2>3. CASE StopScanCommit(s)
    BY <1>0, <2>3 DEF StopScanCommit, TypeOK, JudgedAfterSweep, TerminalStatus
  <2>4. CASE StartScanCheck(s) \/ RequestDies(s) \/ StopScanRead(s)
    BY <1>0, <2>4 DEF StartScanCheck, RequestDies, StopScanRead,
                      JudgedAfterSweep
  <2> QED BY <1>1, <2>1, <2>2, <2>3, <2>4 DEF ApiStep
<1>2. ASSUME NEW s \in Scans, ScanTaskStep(s) PROVE JudgedAfterSweep'
  <2>1. CASE DiscoveryRead(s)
    <3>1. MayClaim(s) => \A k \in Jobs : target[k] # s
      BY <1>0, ConstantsAssumption
      DEF MayClaim, JudgedAfterSweep, TerminalStatus, ConstantsAssumption
    <3> QED BY <1>0, <2>1, <3>1
            DEF DiscoveryRead, TypeOK, JudgedAfterSweep, Body
  <2>2. CASE /\ phase[s] \in Body
             /\ UNCHANGED jobVars
             /\ \A r \in Scans \ {s} : UNCHANGED <<status[r], phase[r]>>
    <3>1. \A k \in Jobs : target[k] # s
      BY <1>0, <2>2, ConstantsAssumption DEF JudgedAfterSweep, ConstantsAssumption
    <3>2. \A k \in Jobs : target[k] \in Scans \cup {NoScan}
      BY <1>0 DEF TypeOK
    <3> QED BY <1>0, <2>2, <3>1, <3>2 DEF JudgedAfterSweep
  <2>3. CASE \E d \in Devices : DispatchCandidate(s, d)
    <3>1. PICK d \in Devices : DispatchCandidate(s, d)
      BY <2>3
    <3>2. <<s, d>> \in Jobs
      BY ScanOrigin, JobIndex
    <3>3. target[<<s, d>>] = NoScan
      BY <1>0, <3>1, <3>2
      DEF DispatchCandidate, JudgedAfterSweep, CollectedAfterCommit
    <3>4. \A k \in Jobs : jobPhase'[k] # jobPhase[k]
                           => k = <<s, d>> /\ jobPhase'[k] = "queued"
      BY <1>0, <3>1 DEF DispatchCandidate, TypeOK
    <3>5. UNCHANGED <<target, status, phase, verdict>>
      BY <3>1 DEF DispatchCandidate
    <3> QED BY <1>0, <3>3, <3>4, <3>5 DEF JudgedAfterSweep
  <2>4. CASE ScanTaskEnds(s)
    BY <1>0, <2>4 DEF ScanTaskEnds, TypeOK, JudgedAfterSweep, Body
  <2> QED
    <3>1. CASE DiscoveryClaim(s) \/ DiscoverySwept(s) \/ DiscoveryFails(s)
      BY <1>0, <2>2, <3>1
      DEF DiscoveryClaim, DiscoverySwept, DiscoveryFails, Body, TypeOK
    <3>2. CASE DiscoveryCommit(s)
      BY <1>0, <2>2, <3>2 DEF DiscoveryCommit, Body, TypeOK
    <3>3. CASE \E d \in Devices : \/ HostResolve(s, d) \/ HostUpdate(s, d)
                                  \/ HostInsert(s, d) \/ HostSupersede(s, d)
      BY <1>0, <2>2, <3>3 DEF HostResolve, HostUpdate, HostInsert,
                              HostSupersede, RecordHost, Body, TypeOK
    <3> QED BY <1>2, <2>1, <2>3, <2>4, <3>1, <3>2, <3>3 DEF ScanTaskStep
<1>3. ASSUME NEW d \in Devices, CollectDevice(d) PROVE JudgedAfterSweep'
  <2>1. <<CollectTask, d>> \in Jobs /\ <<CollectLoop, d>> \in Jobs
    BY DEF Jobs, Origins
  <2>2. target[<<CollectTask, d>>] = NoScan /\ target[<<CollectLoop, d>>] = NoScan
    BY <1>0, <1>3, <2>1 DEF CollectDevice, JudgedAfterSweep
  <2>3. \A k \in Jobs : jobPhase'[k] # jobPhase[k] =>
          /\ k \in {<<CollectTask, d>>, <<CollectLoop, d>>}
          /\ jobPhase'[k] \in {"queued", "dropped"}
    BY <1>0, <1>3 DEF CollectDevice, TypeOK
  <2>4. UNCHANGED <<target, status, phase, verdict>>
    BY <1>3 DEF CollectDevice
  <2> QED BY <1>0, <2>2, <2>3, <2>4 DEF JudgedAfterSweep
<1>4. ASSUME NEW o \in Origins, NEW d \in Devices, CollectStep(o, d)
      PROVE  JudgedAfterSweep'
  <2>1. <<o, d>> \in Jobs
    BY JobIndex
  <2>2. CASE CollectBegin(o, d)
    BY <1>0, <2>1, <2>2 DEF CollectBegin, TypeOK, JudgedAfterSweep
  <2>3. CASE CollectSave(o, d)
    BY <1>0, <2>1, <2>3 DEF CollectSave, TypeOK, JudgedAfterSweep
  <2>4. CASE FinalizeRead(o, d)
    <3>1. /\ latest[d] \in Scans
          /\ status[latest[d]] = "scanning"
          /\ phase[latest[d]] \notin Body
      BY <1>0, <2>4
      DEF FinalizeRead, MayFinalize, TypeOK, TaskMatchesStatus, Body
    <3> QED BY <1>0, <2>1, <2>4, <3>1, ConstantsAssumption
            DEF FinalizeRead, TypeOK, JudgedAfterSweep, ConstantsAssumption
  <2>5. CASE FinalizeSkips(o, d)
    BY <1>0, <2>5, CloseJobJudged DEF FinalizeSkips, JobPhase
  <2>6. CASE FinalizeJudge(o, d)
    <3>1. CASE StatusesRead(o, d) \subseteq FinalStatus
      <4>1. /\ jobPhase[<<o, d>>] = "judging"
            /\ jobPhase' = [jobPhase EXCEPT ![<<o, d>>] = "judged"]
            /\ verdict' = [verdict EXCEPT
                 ![<<o, d>>] = ScanVerdict(StatusesRead(o, d))]
            /\ UNCHANGED <<target, status, phase>>
        BY <2>6, <3>1 DEF FinalizeJudge
      <4>2. ScanVerdict(StatusesRead(o, d)) \in TerminalStatus
        BY VerdictType
      <4> QED BY <1>0, <2>1, <4>1, <4>2 DEF TypeOK, JudgedAfterSweep
    <3>2. CASE ~(StatusesRead(o, d) \subseteq FinalStatus)
      BY <1>0, <2>6, <3>2, CloseJobJudged DEF FinalizeJudge, JobPhase
    <3> QED BY <3>1, <3>2
  <2>7. CASE FinalizeCommit(o, d)
    <3>1. verdict[<<o, d>>] \in TerminalStatus
      BY <1>0, <2>1, <2>7 DEF FinalizeCommit, JudgedAfterSweep
    <3>2. \A s \in Scans : status'[s] = status[s] \/ status'[s] \in TerminalStatus
      BY <1>0, <2>7, <3>1 DEF FinalizeCommit, TypeOK
    <3> QED BY <1>0, <2>7, <3>2, CloseJobJudged DEF FinalizeCommit, JobPhase
  <2>8. CASE CollectEnds(o, d)
    BY <1>0, <2>8, CloseJobJudged DEF CollectEnds, JobPhase
  <2> QED BY <1>4, <2>2, <2>3, <2>4, <2>5, <2>6, <2>7, <2>8 DEF CollectStep
<1>5. CASE FaultStep
  <2>1. ASSUME NEW s \in Scans, ScanTaskError(s) \/ ScanTaskCrash(s)
        PROVE  JudgedAfterSweep'
    <3>1. /\ UNCHANGED <<status, jobVars>>
          /\ \/ phase' = [phase EXCEPT ![s] = "queued"]
             \/ phase' = [phase EXCEPT ![s] = "lost"]
      BY <2>1 DEF ScanTaskError, ScanTaskCrash
    <3> QED BY <1>0, <3>1 DEF TypeOK, JudgedAfterSweep, Body
  <2>2. ASSUME NEW o \in Origins, NEW d \in Devices,
               CollectError(o, d) \/ CollectCrash(o, d)
        PROVE  JudgedAfterSweep'
    <3>1. /\ UNCHANGED <<status, phase>>
          /\ CloseJob(o, d, "queued") \/ CloseJob(o, d, "dropped")
      BY <2>2 DEF CollectError, CollectCrash
    <3> QED BY <1>0, <3>1, CloseJobJudged DEF JobPhase
  <2> QED BY <1>5, <2>1, <2>2 DEF FaultStep
<1>6. CASE UNCHANGED vars
  BY <1>0, <1>6 DEF vars, JudgedAfterSweep
<1> QED BY <1>1, <1>2, <1>3, <1>4, <1>5, <1>6 DEF Next

\* A row that a collection holds is held by no other collection.
LEMMA RowHeldOnceStep ==
  ASSUME IInv, [Next]_vars
  PROVE  RowHeldOnce'
<1> USE DEF scanVars, deviceVars, apiVars, txVars, taskVars, jobVars
<1>0. TypeOK /\ RowHeldOnce
  BY DEF IInv
<1>1. ASSUME UNCHANGED jobPhase PROVE RowHeldOnce'
  BY <1>0, <1>1 DEF RowHeldOnce
<1>2. ASSUME \A k \in Jobs : jobPhase'[k] = "collecting"
                               => jobPhase[k] = "collecting"
      PROVE  RowHeldOnce'
  BY <1>0, <1>2, JobIndex DEF RowHeldOnce
<1>3. ASSUME NEW s \in Scans, ApiStep(s) PROVE RowHeldOnce'
  BY <1>1, <1>3 DEF ApiStep, StartScanCheck, StartScanInsert, EnqueueScan,
                    RequestDies, StopScanRead, StopScanCommit
<1>4. ASSUME NEW s \in Scans, ScanTaskStep(s) PROVE RowHeldOnce'
  <2>1. CASE \E d \in Devices : DispatchCandidate(s, d)
    BY <1>0, <1>2, <2>1 DEF DispatchCandidate, TypeOK
  <2>2. CASE ~ \E d \in Devices : DispatchCandidate(s, d)
    <3>1. UNCHANGED jobPhase
      BY <1>4, <2>2 DEF ScanTaskStep, DiscoveryRead, DiscoveryClaim,
           DiscoverySwept, HostResolve, HostUpdate, HostInsert, HostSupersede,
           DiscoveryCommit, DiscoveryFails, ScanTaskEnds
    <3> QED BY <1>1, <3>1
  <2> QED BY <2>1, <2>2
<1>5. ASSUME NEW d \in Devices, CollectDevice(d) PROVE RowHeldOnce'
  BY <1>0, <1>2, <1>5 DEF CollectDevice, TypeOK
<1>6. ASSUME NEW o \in Origins, NEW d \in Devices, CollectStep(o, d)
      PROVE  RowHeldOnce'
  <2>1. CASE CollectBegin(o, d)
    BY <1>0, <2>1 DEF CollectBegin, RowFree, TypeOK, RowHeldOnce
  <2>2. CASE ~CollectBegin(o, d)
    <3>1. \/ UNCHANGED jobPhase
          \/ \E p \in JobPhase \ {"collecting"} :
                jobPhase' = [jobPhase EXCEPT ![<<o, d>>] = p]
      BY <1>6, <2>2 DEF CollectStep, CollectSave, FinalizeRead, FinalizeSkips,
           FinalizeJudge, FinalizeCommit, CollectEnds, CloseJob, JobPhase
    <3> QED BY <1>0, <1>2, <3>1 DEF TypeOK
  <2> QED BY <2>1, <2>2
<1>7. CASE FaultStep
  <2>1. ASSUME NEW s \in Scans, ScanTaskError(s) \/ ScanTaskCrash(s)
        PROVE  RowHeldOnce'
    BY <1>1, <2>1 DEF ScanTaskError, ScanTaskCrash
  <2>2. ASSUME NEW o \in Origins, NEW d \in Devices,
               CollectError(o, d) \/ CollectCrash(o, d)
        PROVE  RowHeldOnce'
    <3>1. \/ jobPhase' = [jobPhase EXCEPT ![<<o, d>>] = "queued"]
          \/ jobPhase' = [jobPhase EXCEPT ![<<o, d>>] = "dropped"]
      BY <2>2 DEF CollectError, CollectCrash, CloseJob
    <3> QED BY <1>0, <1>2, <3>1 DEF TypeOK
  <2> QED BY <1>7, <2>1, <2>2 DEF FaultStep
<1>8. CASE UNCHANGED vars
  BY <1>1, <1>8 DEF vars
<1> QED BY <1>3, <1>4, <1>5, <1>6, <1>7, <1>8 DEF Next

\* Recording a host of row d whose write is good for the history.
LEMMA HostRecorded ==
  ASSUME TypeOK, FlushedRows, NEW s \in Scans, NEW d \in Devices,
         phase[s] \in {"hosts", "resolved"}, RecordHost(s, d),
         UNCHANGED <<device, touched>>,
         \/ wrote'[s][d] = "discovered"
         \/ wrote'[s][d] = "keep" /\ device[d] # "absent",
         \A r \in Scans \ {s} : wrote'[r] = wrote[r],
         \A e \in history[s] \ {d} : wrote'[s][e] = wrote[s][e]
  PROVE  FlushedRows'
<1>1. /\ history' = [history EXCEPT ![s] = @ \cup {d}]
      /\ phase' = [phase EXCEPT ![s] = "hosts"]
      /\ row' = [row EXCEPT ![s] = NoDevice]
  BY DEF RecordHost
<1>2. PICK c \in SUBSET Devices : /\ c \in {candidates[s], candidates[s] \cup {d}}
                                /\ candidates' = [candidates EXCEPT ![s] = c]
  BY DEF RecordHost, TypeOK
<1>3. \A e \in history'[s] : \/ wrote'[s][e] = "discovered"
                             \/ wrote'[s][e] = "keep" /\ device'[e] # "absent"
  BY <1>1 DEF TypeOK, FlushedRows
<1>4. candidates'[s] \subseteq history'[s]
  BY <1>1, <1>2 DEF TypeOK, FlushedRows, Body
<1>5. phase'[s] = "hosts"
  BY <1>1 DEF TypeOK
<1>6. \A r \in Scans \ {s} : /\ history'[r] = history[r] /\ phase'[r] = phase[r]
                             /\ row'[r] = row[r] /\ candidates'[r] = candidates[r]
  BY <1>1, <1>2 DEF TypeOK
<1> QED BY <1>3, <1>4, <1>5, <1>6 DEF FlushedRows, Body

\* What a scan's transaction has flushed, and its candidates, fit the rows.
LEMMA FlushedRowsStep ==
  ASSUME IInv, [Next]_vars
  PROVE  FlushedRows'
<1> USE DEF scanVars, deviceVars, apiVars, txVars, taskVars, jobVars
<1>0. TypeOK /\ TaskMatchesStatus /\ FlushedRows
  BY DEF IInv
<1>1. ASSUME UNCHANGED <<device, touched, taskVars>> PROVE FlushedRows'
  BY <1>0, <1>1 DEF FlushedRows, Body
<1>2. ASSUME NEW s \in Scans, ApiStep(s) PROVE FlushedRows'
  <2>1. CASE EnqueueScan(s)
    <3>1. candidates[s] = {}
      BY <1>0, <2>1 DEF EnqueueScan, TaskMatchesStatus, FlushedRows, Body
    <3> QED BY <1>0, <2>1, <3>1 DEF EnqueueScan, TypeOK, FlushedRows, Body
  <2>2. CASE ~EnqueueScan(s)
    BY <1>1, <1>2, <2>2 DEF ApiStep, StartScanCheck, StartScanInsert,
                            RequestDies, StopScanRead, StopScanCommit
  <2> QED BY <2>1, <2>2
<1>3. ASSUME NEW s \in Scans, ScanTaskStep(s) PROVE FlushedRows'
  <2>1. CASE DiscoveryRead(s)
    <3>1. candidates[s] = {}
      BY <1>0, <2>1 DEF DiscoveryRead, FlushedRows, Body
    <3> QED BY <1>0, <2>1, <3>1 DEF DiscoveryRead, TypeOK, FlushedRows, Body
  <2>2. CASE DiscoveryClaim(s)
    BY <1>0, <2>2 DEF DiscoveryClaim, TypeOK, FlushedRows, Body
  <2>3. CASE DiscoverySwept(s)
    BY <1>0, <2>3 DEF DiscoverySwept, TypeOK, FlushedRows, Body
  <2>4. ASSUME NEW d \in Devices, HostResolve(s, d) PROVE FlushedRows'
    BY <1>0, <2>4 DEF HostResolve, TypeOK, FlushedRows, Body
  <2>5. ASSUME NEW d \in Devices, HostUpdate(s, d) PROVE FlushedRows'
    <3>1. wrote'[s][d] \in {"discovered", "keep"} /\ device[d] # "absent"
      BY <1>0, <2>5 DEF HostUpdate, TypeOK, FlushedRows, RediscoveredStatus
    <3>2. /\ \A r \in Scans \ {s} : UNCHANGED wrote[r]
          /\ \A e \in Devices \ {d} : UNCHANGED wrote[s][e]
      BY <1>0, <2>5 DEF HostUpdate, TypeOK
    <3> QED BY <1>0, <2>5, <3>1, <3>2, HostRecorded DEF HostUpdate
  <2>6. ASSUME NEW d \in Devices, HostInsert(s, d) PROVE FlushedRows'
    <3>1. /\ wrote'[s][d] = "discovered"
          /\ \A r \in Scans \ {s} : UNCHANGED wrote[r]
          /\ \A e \in Devices \ {d} : UNCHANGED wrote[s][e]
      BY <1>0, <2>6 DEF HostInsert, TypeOK
    <3> QED BY <1>0, <2>6, <3>1, HostRecorded DEF HostInsert
  <2>7. ASSUME NEW d \in Devices, HostSupersede(s, d) PROVE FlushedRows'
    <3>1. row[s] \in Devices \ history[s] /\ row[s] # d
      BY <1>0, <2>7 DEF HostSupersede, FlushedRows
    <3>2. /\ wrote'[s][d] = "discovered"
          /\ \A r \in Scans \ {s} : UNCHANGED wrote[r]
          /\ \A e \in Devices \ {d, row[s]} : UNCHANGED wrote[s][e]
      BY <1>0, <2>7, <3>1 DEF HostSupersede, TypeOK
    <3>3. \A e \in history[s] \ {d} : wrote'[s][e] = wrote[s][e]
      BY <1>0, <3>1, <3>2 DEF TypeOK
    <3>4. /\ phase[s] = "resolved" /\ RecordHost(s, d)
          /\ UNCHANGED <<device, touched>>
      BY <2>7 DEF HostSupersede
    <3> QED BY <1>0, <3>2, <3>3, <3>4, HostRecorded
  <2>8. CASE DiscoveryCommit(s)
    <3>1. /\ touched'[s] \in SUBSET Devices /\ history[s] \subseteq touched'[s]
          /\ \A r \in Scans \ {s} : UNCHANGED touched[r]
      BY <1>0, <2>8 DEF DiscoveryCommit, TypeOK
    <3>2. \A d \in Devices : device[d] # "absent" => device'[d] # "absent"
      <4>1. PICK silent \in SUBSET Devices :
              device' = [d \in Devices |->
                IF d \in silent THEN "offline"
                ELSE IF wrote[s][d] \in {"none", "keep"} THEN device[d]
                ELSE wrote[s][d]]
        BY <2>8 DEF DiscoveryCommit
      <4>2. \A d \in Devices : wrote[s][d] # "absent"
        BY <1>0 DEF TypeOK, DeviceWrite
      <4> QED BY <4>1, <4>2
    <3>3. /\ phase' = [phase EXCEPT ![s] = "dispatch"] /\ phase[s] = "hosts"
          /\ UNCHANGED candidates /\ CloseTransaction(s)
      BY <2>8 DEF DiscoveryCommit
    <3> QED BY <1>0, <3>1, <3>2, <3>3
            DEF CloseTransaction, TypeOK, FlushedRows, Body
  <2>9. CASE DiscoveryFails(s)
    BY <1>0, <2>9 DEF DiscoveryFails, CloseTransaction, TypeOK, FlushedRows, Body
  <2>10. ASSUME NEW d \in Devices, DispatchCandidate(s, d) PROVE FlushedRows'
    BY <1>0, <2>10 DEF DispatchCandidate, TypeOK, FlushedRows, Body
  <2>11. CASE ScanTaskEnds(s)
    BY <1>0, <2>11 DEF ScanTaskEnds, TypeOK, FlushedRows, Body
  <2> QED BY <1>3, <2>1, <2>2, <2>3, <2>4, <2>5, <2>6, <2>7, <2>8, <2>9, <2>10,
             <2>11 DEF ScanTaskStep
<1>4. ASSUME NEW d \in Devices, CollectDevice(d) PROVE FlushedRows'
  BY <1>1, <1>4 DEF CollectDevice
<1>5. ASSUME NEW o \in Origins, NEW d \in Devices, CollectStep(o, d)
      PROVE  FlushedRows'
  <2>1. CASE CollectSave(o, d)
    <3>1. \A e \in Devices : device[e] # "absent" => device'[e] # "absent"
      BY <1>0, <2>1 DEF CollectSave, CollectOutcome, TypeOK
    <3>2. UNCHANGED <<touched, taskVars>>
      BY <2>1 DEF CollectSave
    <3> QED BY <1>0, <3>1, <3>2 DEF TypeOK, FlushedRows, Body
  <2>2. CASE ~CollectSave(o, d)
    BY <1>1, <1>5, <2>2 DEF CollectStep, CollectBegin, FinalizeRead,
         FinalizeSkips, FinalizeJudge, FinalizeCommit, CollectEnds
  <2> QED BY <2>1, <2>2
<1>6. CASE FaultStep
  <2>1. ASSUME NEW s \in Scans, ScanTaskError(s) \/ ScanTaskCrash(s)
        PROVE  FlushedRows'
    <3>1. /\ CloseTransaction(s) /\ UNCHANGED <<device, touched>>
          /\ candidates' = [candidates EXCEPT ![s] = {}]
          /\ \/ phase' = [phase EXCEPT ![s] = "queued"]
             \/ phase' = [phase EXCEPT ![s] = "lost"]
      BY <2>1 DEF ScanTaskError, ScanTaskCrash
    <3> QED BY <1>0, <3>1 DEF CloseTransaction, TypeOK, FlushedRows, Body
  <2>2. ASSUME NEW o \in Origins, NEW d \in Devices,
               CollectError(o, d) \/ CollectCrash(o, d)
        PROVE  FlushedRows'
    BY <1>1, <2>2 DEF CollectError, CollectCrash
  <2> QED BY <1>6, <2>1, <2>2 DEF FaultStep
<1>7. CASE UNCHANGED vars
  BY <1>1, <1>7 DEF vars
<1> QED BY <1>2, <1>3, <1>4, <1>5, <1>6, <1>7 DEF Next

\* Collections of a scan start after its commit, and nothing undoes it.
LEMMA CollectedAfterCommitStep ==
  ASSUME IInv, [Next]_vars
  PROVE  CollectedAfterCommit'
<1> USE DEF scanVars, deviceVars, apiVars, txVars, taskVars, jobVars
<1>0. /\ TypeOK /\ TaskMatchesStatus /\ JudgedAfterSweep /\ FlushedRows
      /\ CollectedAfterCommit
  BY DEF IInv
\* What must not happen to a scan with collections under way.
<1> DEFINE Kept(s) ==
      \A d \in Devices : jobPhase'[<<s, d>>] # "none" =>
        \/ /\ jobPhase[<<s, d>>] # "none"
           /\ phase'[s] \in {"dispatch", "queued", "done", "lost"}
           /\ status'[s] \notin {"none", "pending"}
           /\ touched[s] \subseteq touched'[s]
           /\ candidates'[s] \subseteq candidates[s]
        \/ /\ phase'[s] = "dispatch" /\ status'[s] \notin {"none", "pending"}
           /\ d \in touched'[s] \ candidates'[s]
<1> DEFINE RowsKept ==
      \A s \in Scans : \A d \in touched'[s] :
         device'[d] # "absent" /\ latest'[d] # NoScan
<1>1. ASSUME \A s \in Scans : Kept(s), RowsKept
      PROVE  CollectedAfterCommit'
  BY <1>0, <1>1 DEF CollectedAfterCommit
<1>2. ASSUME UNCHANGED <<touched, latest>>,
             \A d \in Devices : device[d] # "absent" => device'[d] # "absent"
      PROVE  RowsKept
  BY <1>0, <1>2 DEF CollectedAfterCommit, TypeOK
<1>3. ASSUME NEW s \in Scans,
             UNCHANGED <<phase[s], status[s], touched[s], candidates[s]>>,
             \A d \in Devices : jobPhase'[<<s, d>>] # "none"
                                => jobPhase[<<s, d>>] # "none"
      PROVE  Kept(s)
  BY <1>0, <1>3 DEF CollectedAfterCommit
<1> HIDE DEF Kept, RowsKept
<1>4. ASSUME NEW s \in Scans, ApiStep(s) PROVE CollectedAfterCommit'
  <2>1. RowsKept /\ UNCHANGED <<jobPhase, touched, candidates>>
    BY <1>2, <1>4 DEF ApiStep, StartScanCheck, StartScanInsert, EnqueueScan,
                      RequestDies, StopScanRead, StopScanCommit
  <2>2. \A r \in Scans \ {s} : UNCHANGED <<phase[r], status[r]>>
    BY <1>0, <1>4 DEF ApiStep, StartScanCheck, StartScanInsert, EnqueueScan,
                      RequestDies, StopScanRead, StopScanCommit, TypeOK
  <2>3. \A r \in Scans \ {s} : Kept(r)
    BY <1>3, <2>1, <2>2
  <2>4. Kept(s)
    <3>1. CASE StartScanInsert(s) \/ EnqueueScan(s)
      <4>1. \A d \in Devices : jobPhase[<<s, d>>] = "none"
        BY <1>0, <3>1 DEF StartScanInsert, EnqueueScan, TaskMatchesStatus,
                          CollectedAfterCommit
      <4> QED BY <2>1, <4>1 DEF Kept
    <3>2. CASE StopScanCommit(s)
      BY <1>0, <2>1, <3>2 DEF StopScanCommit, TypeOK, CollectedAfterCommit, Kept
    <3>3. CASE StartScanCheck(s) \/ RequestDies(s) \/ StopScanRead(s)
      BY <1>3, <2>1, <3>3 DEF StartScanCheck, RequestDies, StopScanRead
    <3> QED BY <1>4, <3>1, <3>2, <3>3 DEF ApiStep
  <2> QED BY <1>1, <2>1, <2>3, <2>4
<1>5. ASSUME NEW s \in Scans, ScanTaskStep(s) PROVE CollectedAfterCommit'
  <2>1. CASE DiscoveryCommit(s)
    <3>1. PICK silent \in SUBSET {d \in Devices : device[d] # "absent"
                                                /\ wrote[s][d] = "none"} :
            /\ device' = [d \in Devices |->
                 IF d \in silent THEN "offline"
                 ELSE IF wrote[s][d] \in {"none", "keep"} THEN device[d]
                 ELSE wrote[s][d]]
            /\ touched' = [touched EXCEPT ![s] = history[s] \cup silent]
            /\ latest' = [d \in Devices |->
                 IF d \in history[s] \cup silent THEN s ELSE latest[d]]
      BY <2>1 DEF DiscoveryCommit
    <3>2. \A d \in Devices : device[d] # "absent" => device'[d] # "absent"
      <4>1. \A d \in Devices : wrote[s][d] # "absent"
        BY <1>0 DEF TypeOK, DeviceWrite
      <4> QED BY <3>1, <4>1
    <3>3. \A d \in history[s] : device'[d] # "absent"
      BY <1>0, <3>1 DEF TypeOK, FlushedRows
    <3>4. \A d \in Devices : latest[d] # NoScan => latest'[d] # NoScan
      BY <3>1, ConstantsAssumption DEF ConstantsAssumption
    <3>5. RowsKept
      <4> SUFFICES ASSUME NEW r \in Scans, NEW d \in touched'[r]
                   PROVE  device'[d] # "absent" /\ latest'[d] # NoScan
        BY DEF RowsKept
      <4>1. CASE r = s
        <5>1. d \in history[s] \cup silent /\ d \in Devices
          BY <1>0, <3>1, <4>1 DEF TypeOK
        <5> QED BY <3>1, <3>3, <5>1, ConstantsAssumption DEF ConstantsAssumption
      <4>2. CASE r # s
        <5>1. d \in touched[r] /\ d \in Devices
          BY <1>0, <3>1, <4>2 DEF TypeOK
        <5> QED BY <1>0, <3>2, <3>4, <5>1 DEF CollectedAfterCommit
      <4> QED BY <4>1, <4>2
    <3>6. \A d \in Devices : jobPhase[<<s, d>>] = "none"
      BY <1>0, <2>1 DEF DiscoveryCommit, CollectedAfterCommit
    <3>7. /\ UNCHANGED <<jobPhase, candidates>>
          /\ \A r \in Scans \ {s} : UNCHANGED <<phase[r], status[r], touched[r]>>
      BY <1>0, <2>1, <3>1 DEF DiscoveryCommit, TypeOK
    <3>8. \A r \in Scans \ {s} : Kept(r)
      BY <1>3, <3>7
    <3>9. Kept(s)
      BY <3>6, <3>7 DEF Kept
    <3> QED BY <1>1, <3>5, <3>8, <3>9
  <2>2. CASE \E d \in Devices : DispatchCandidate(s, d)
    <3>1. PICK d \in Devices : DispatchCandidate(s, d)
      BY <2>2
    <3>2. RowsKept
      BY <1>2, <3>1 DEF DispatchCandidate
    <3>3. /\ UNCHANGED <<phase, status, touched>> /\ phase[s] = "dispatch"
          /\ d \in candidates[s]
          /\ candidates' = [candidates EXCEPT ![s] = @ \ {d}]
          /\ jobPhase' = [jobPhase EXCEPT ![<<s, d>>] = "queued"]
      BY <3>1 DEF DispatchCandidate, MayDispatch
    <3>4. \A r \in Scans \ {s} : Kept(r)
      <4>1. \A r \in Scans \ {s} :
              /\ UNCHANGED candidates[r]
              /\ \A e \in Devices : UNCHANGED jobPhase[<<r, e>>]
        BY <1>0, <3>3, ScanOrigin, JobIndex DEF TypeOK
      <4> QED BY <1>3, <3>3, <4>1
    <3>5. Kept(s)
      <4>1. candidates'[s] = candidates[s] \ {d} /\ candidates[s] \subseteq touched[s]
        BY <1>0, <3>3 DEF TypeOK, FlushedRows
      <4>2. status[s] \notin {"none", "pending"}
        BY <1>0, <3>3 DEF TaskMatchesStatus
      <4>3. \A e \in Devices \ {d} : UNCHANGED jobPhase[<<s, e>>]
        BY <1>0, <3>3, ScanOrigin, JobIndex DEF TypeOK
      <4> QED BY <3>3, <4>1, <4>2, <4>3 DEF Kept
    <3> QED BY <1>1, <3>2, <3>4, <3>5
  <2>3. CASE ~DiscoveryCommit(s) /\ ~ \E d \in Devices : DispatchCandidate(s, d)
    <3>1. UNCHANGED <<device, touched, latest, jobPhase>>
      BY <1>5, <2>3 DEF ScanTaskStep, DiscoveryRead, DiscoveryClaim,
           DiscoverySwept, HostResolve, HostUpdate, HostInsert, HostSupersede,
           DiscoveryFails, ScanTaskEnds
    <3>2. RowsKept
      BY <1>2, <3>1
    <3>3. \A r \in Scans \ {s} : UNCHANGED <<phase[r], status[r], candidates[r]>>
      BY <1>0, <1>5, <2>3 DEF ScanTaskStep, DiscoveryRead, DiscoveryClaim,
           DiscoverySwept, HostResolve, HostUpdate, HostInsert, HostSupersede,
           RecordHost, DiscoveryFails, ScanTaskEnds, TypeOK
    <3>4. \A r \in Scans \ {s} : Kept(r)
      BY <1>3, <3>1, <3>3
    <3>5. Kept(s)
      <4>1. CASE phase[s] \in Body
        <5>1. \A d \in Devices : jobPhase[<<s, d>>] = "none"
          BY <1>0, <4>1 DEF CollectedAfterCommit, Body
        <5> QED BY <3>1, <5>1 DEF Kept
      <4>2. CASE phase[s] \notin Body
        <5>1. DiscoveryRead(s) \/ ScanTaskEnds(s)
          BY <1>5, <2>3, <4>2 DEF ScanTaskStep, DiscoveryClaim, DiscoverySwept,
               HostResolve, HostUpdate, HostInsert, HostSupersede,
               DiscoveryFails, Body
        <5>2. /\ UNCHANGED <<status, candidates>>
              /\ status[s] = "pending" \/ phase' = [phase EXCEPT ![s] = "done"]
          BY <5>1 DEF DiscoveryRead, MayClaim, ScanTaskEnds
        <5> QED BY <1>0, <3>1, <5>2 DEF TypeOK, CollectedAfterCommit, Kept
      <4> QED BY <4>1, <4>2
    <3> QED BY <1>1, <3>2, <3>4, <3>5
  <2> QED BY <2>1, <2>2, <2>3
<1>6. ASSUME UNCHANGED <<phase, touched, latest, candidates>>,
             \A d \in Devices : device[d] # "absent" => device'[d] # "absent",
             \A s \in Scans : status'[s] = status[s] \/ status'[s] \in TerminalStatus,
             \A s \in Scans, d \in Devices :
                jobPhase'[<<s, d>>] # "none" => jobPhase[<<s, d>>] # "none"
      PROVE  CollectedAfterCommit'
  <2>1. RowsKept
    BY <1>2, <1>6
  <2>2. ASSUME NEW s \in Scans, NEW d \in Devices, jobPhase'[<<s, d>>] # "none"
        PROVE  /\ phase'[s] \in {"dispatch", "queued", "done", "lost"}
               /\ status'[s] \notin {"none", "pending"}
               /\ d \in touched'[s] \ candidates'[s]
    <3>1. /\ phase[s] \in {"dispatch", "queued", "done", "lost"}
          /\ status[s] \notin {"none", "pending"}
          /\ d \in touched[s] \ candidates[s]
      BY <1>0, <1>6, <2>2 DEF CollectedAfterCommit
    <3>2. status'[s] = status[s] \/ status'[s] \in TerminalStatus
      BY <1>6
    <3> QED BY <1>6, <3>1, <3>2 DEF TerminalStatus
  <2> QED BY <2>1, <2>2 DEF CollectedAfterCommit, RowsKept
<1>7. ASSUME NEW d \in Devices, CollectDevice(d) PROVE CollectedAfterCommit'
  <2>1. \A s \in Scans, e \in Devices : UNCHANGED jobPhase[<<s, e>>]
    BY <1>0, <1>7, ScanOrigin, JobIndex, ConstantsAssumption
    DEF CollectDevice, TypeOK, ConstantsAssumption
  <2> QED BY <1>6, <1>7, <2>1 DEF CollectDevice
<1>8. ASSUME NEW o \in Origins, NEW d \in Devices, CollectStep(o, d)
      PROVE  CollectedAfterCommit'
  <2>1. \A e \in Devices : device[e] # "absent" => device'[e] # "absent"
    BY <1>0, <1>8 DEF CollectStep, CollectBegin, CollectSave, CollectOutcome,
         FinalizeRead, FinalizeSkips, FinalizeJudge, FinalizeCommit,
         CollectEnds, TypeOK
  <2>2. \A s \in Scans : status'[s] = status[s] \/ status'[s] \in TerminalStatus
    <3>1. CASE FinalizeCommit(o, d)
      <4>1. verdict[<<o, d>>] \in TerminalStatus
        BY <1>0, <3>1, JobIndex DEF FinalizeCommit, JudgedAfterSweep
      <4> QED BY <1>0, <3>1, <4>1 DEF FinalizeCommit, TypeOK
    <3>2. CASE ~FinalizeCommit(o, d)
      BY <1>8, <3>2 DEF CollectStep, CollectBegin, CollectSave, FinalizeRead,
           FinalizeSkips, FinalizeJudge, CollectEnds
    <3> QED BY <3>1, <3>2
  <2>3. /\ UNCHANGED <<phase, touched, latest, candidates>>
        /\ jobPhase[<<o, d>>] # "none"
        /\ \E p \in JobPhase : jobPhase' = [jobPhase EXCEPT ![<<o, d>>] = p]
    BY <1>8 DEF CollectStep, CollectBegin, CollectSave, FinalizeRead,
         FinalizeSkips, FinalizeJudge, FinalizeCommit, CollectEnds, CloseJob,
         JobPhase
  <2>4. \A s \in Scans, e \in Devices :
           jobPhase'[<<s, e>>] # "none" => jobPhase[<<s, e>>] # "none"
    BY <1>0, <2>3, ScanOrigin, JobIndex DEF TypeOK
  <2> QED BY <1>6, <2>1, <2>2, <2>3, <2>4
<1>9. CASE FaultStep
  <2>1. ASSUME NEW s \in Scans, ScanTaskError(s) \/ ScanTaskCrash(s)
        PROVE  CollectedAfterCommit'
    <3>1. /\ UNCHANGED <<deviceVars, status, jobPhase>>
          /\ candidates' = [candidates EXCEPT ![s] = {}]
          /\ \/ phase' = [phase EXCEPT ![s] = "queued"]
             \/ phase' = [phase EXCEPT ![s] = "lost"]
      BY <2>1 DEF ScanTaskError, ScanTaskCrash
    <3> QED BY <1>0, <3>1 DEF TypeOK, CollectedAfterCommit
  <2>2. ASSUME NEW o \in Origins, NEW d \in Devices,
               CollectError(o, d) \/ CollectCrash(o, d)
        PROVE  CollectedAfterCommit'
    <3>1. /\ UNCHANGED <<phase, touched, latest, candidates, device, status>>
          /\ jobPhase[<<o, d>>] # "none"
          /\ \/ jobPhase' = [jobPhase EXCEPT ![<<o, d>>] = "queued"]
             \/ jobPhase' = [jobPhase EXCEPT ![<<o, d>>] = "dropped"]
      BY <2>2 DEF CollectError, CollectCrash, CloseJob, Running
    <3>2. \A s \in Scans, e \in Devices :
             jobPhase'[<<s, e>>] # "none" => jobPhase[<<s, e>>] # "none"
      BY <1>0, <3>1, ScanOrigin, JobIndex DEF TypeOK
    <3> QED BY <1>6, <3>1, <3>2
  <2> QED BY <1>9, <2>1, <2>2 DEF FaultStep
<1>10. CASE UNCHANGED vars
  BY <1>0, <1>10 DEF vars, CollectedAfterCommit
<1> QED BY <1>4, <1>5, <1>7, <1>8, <1>9, <1>10 DEF Next

\* Every step preserves the invariant.
LEMMA IInvStep ==
  ASSUME IInv, [Next]_vars
  PROVE  IInv'
<1>1. TypeOK'
  BY TypeStep DEF IInv
<1> QED BY <1>1, TaskMatchesStatusStep, JudgedAfterSweepStep, FlushedRowsStep,
           CollectedAfterCommitStep, RowHeldOnceStep DEF IInv

----------------------------------------------------------------------------
(* Theorems *)

\* The inductive invariant holds in every reachable state.
THEOREM Invariance == Spec => []IInv
BY InitIInv, IInvStep, PTL DEF Spec

\* The variables keep their types, whatever the order of the steps.
THEOREM TypeCorrect == Spec => []TypeOK
<1>1. IInv => TypeOK
  BY DEF IInv
<1> QED BY <1>1, Invariance, PTL

\* A worker that receives a collection finds the rows it needs
\* (run_network_scan_task queues them after the commit).
THEOREM RowsBeforeCollections == Spec => []DispatchedRowsExist
<1>1. IInv => DispatchedRowsExist
  BY DEF IInv, CollectedAfterCommit, DispatchedRowsExist
<1> QED BY <1>1, Invariance, PTL

\* No device is collected twice at a time (the flush at the head of
\* run_inventory_collection).
THEOREM CollectorsExclude == Spec => []OneCollectorPerDevice
<1>1. IInv => OneCollectorPerDevice
  <2> SUFFICES ASSUME IInv, NEW d \in Devices
               PROVE  Cardinality({o \in Origins :
                                     jobPhase[<<o, d>>] = "collecting"}) <= 1
    BY DEF OneCollectorPerDevice
  <2> DEFINE C == {o \in Origins : jobPhase[<<o, d>>] = "collecting"}
  <2>1. ASSUME C # {} PROVE \E o \in Origins : C = {o}
    BY <2>1 DEF IInv, RowHeldOnce
  <2> HIDE DEF C
  <2>2. Cardinality(C) \in {0, 1}
    BY <2>1, FS_EmptySet, FS_Singleton
  <2>3. Cardinality(C) <= 1
    BY <2>2
  <2> QED BY <2>3 DEF C
<1> QED BY <1>1, Invariance, PTL

\* A redelivered or retried message does not sweep the network again (the
\* pending guard of run_discovery_scan_task).
THEOREM SweepsOnce == Spec => SweptOnce
<1>1. IInv /\ [Next]_vars =>
        [\A s \in Scans : phase[s] # "sweeping" /\ phase'[s] = "sweeping"
            => ~started[s]]_vars
  <2> SUFFICES ASSUME IInv, Next, NEW s \in Scans,
                      phase[s] # "sweeping", phase'[s] = "sweeping"
               PROVE  ~started[s]
    OBVIOUS
  <2> USE DEF taskVars, txVars, vars
  <2>1. TypeOK /\ TaskMatchesStatus
    BY DEF IInv
  <2>2. \E r \in Scans : DiscoveryClaim(r) /\ phase'[s] # phase[s]
    <3>1. ASSUME NEW r \in Scans, ApiStep(r) PROVE FALSE
      BY <2>1, <3>1 DEF ApiStep, StartScanCheck, StartScanInsert, EnqueueScan,
           RequestDies, StopScanRead, StopScanCommit, TypeOK
    <3>2. ASSUME NEW r \in Scans, ScanTaskStep(r), ~DiscoveryClaim(r) PROVE FALSE
      <4>1. \/ UNCHANGED phase
            \/ \E p \in TaskPhase \ {"sweeping"} : phase' = [phase EXCEPT ![r] = p]
        BY <3>2 DEF ScanTaskStep, DiscoveryRead, DiscoverySwept, HostResolve,
             HostUpdate, HostInsert, HostSupersede, RecordHost,
             DispatchCandidate, DiscoveryCommit, DiscoveryFails, ScanTaskEnds,
             TaskPhase
      <4> QED BY <2>1, <4>1 DEF TypeOK
    <3>3. ASSUME NEW d \in Devices, CollectDevice(d) PROVE FALSE
      BY <3>3 DEF CollectDevice
    <3>4. ASSUME NEW o \in Origins, NEW d \in Devices, CollectStep(o, d)
          PROVE  FALSE
      BY <3>4 DEF CollectStep, CollectBegin, CollectSave, FinalizeRead,
           FinalizeSkips, FinalizeJudge, FinalizeCommit, CollectEnds
    <3>5. CASE FaultStep
      BY <2>1, <3>5 DEF FaultStep, ScanTaskError, ScanTaskCrash, CollectError,
           CollectCrash, TypeOK
    <3> QED BY <3>1, <3>2, <3>3, <3>4, <3>5 DEF Next
  <2>3. DiscoveryClaim(s)
    BY <2>1, <2>2 DEF DiscoveryClaim, TypeOK
  <2> QED BY <2>1, <2>3 DEF DiscoveryClaim, TaskMatchesStatus
<1> QED BY <1>1, Invariance, PTL DEF Spec, SweptOnce

\* A scan never goes back to an earlier phase, except out of CANCELLED (all
\* the status writes of the service).
THEOREM PhasesInOrder == Spec => PhaseOrder
<1>1. IInv /\ [Next]_vars =>
        [\A s \in Scans : status[s] # "cancelled"
            => Rank(status'[s]) >= Rank(status[s])]_vars
  <2> SUFFICES ASSUME IInv, Next, NEW s \in Scans, status[s] # "cancelled"
               PROVE  Rank(status'[s]) >= Rank(status[s])
    OBVIOUS
  <2>1. TypeOK /\ TaskMatchesStatus /\ JudgedAfterSweep
    BY DEF IInv
  <2> DEFINE Forward(a, b) ==
        \/ b = a \/ a = "none" \/ b \in TerminalStatus
        \/ a = "pending" /\ b \in ActiveStatus
        \/ a = "discovering" /\ b \in {"identifying", "scanning"}
        \/ a = "identifying" /\ b = "scanning"
  <2>2. ASSUME NEW a \in ScanStatus \cup {"none"}, NEW b \in ScanStatus \cup {"none"},
               Forward(a, b)
        PROVE  Rank(b) >= Rank(a)
    BY <2>2 DEF Rank, ScanStatus, ActiveStatus, TerminalStatus
  <2>3. status[s] \in ScanStatus \cup {"none"} /\ status'[s] \in ScanStatus \cup {"none"}
    BY <2>1, TypeStep DEF TypeOK
  <2>4. ASSUME UNCHANGED status PROVE Forward(status[s], status'[s])
    BY <2>4
  <2>5. ASSUME NEW r \in Scans, ApiStep(r) PROVE Forward(status[s], status'[s])
    <3>1. CASE StartScanInsert(r)
      BY <2>1, <3>1 DEF StartScanInsert, TaskMatchesStatus, TypeOK
    <3>2. CASE StopScanCommit(r)
      BY <2>1, <3>2 DEF StopScanCommit, TerminalStatus, TypeOK
    <3>3. CASE ~StartScanInsert(r) /\ ~StopScanCommit(r)
      BY <2>4, <2>5, <3>3 DEF ApiStep, StartScanCheck, EnqueueScan, RequestDies,
           StopScanRead, scanVars
    <3> QED BY <3>1, <3>2, <3>3
  <2>6. ASSUME NEW r \in Scans, ScanTaskStep(r)
        PROVE  Forward(status[s], status'[s])
    <3>1. CASE DiscoveryClaim(r)
      BY <2>1, <3>1 DEF DiscoveryClaim, TaskMatchesStatus, TypeOK, ActiveStatus
    <3>2. CASE DiscoverySwept(r)
      BY <2>1, <3>2 DEF DiscoverySwept, TaskMatchesStatus, TypeOK
    <3>3. CASE DiscoveryCommit(r)
      BY <2>1, <3>3 DEF DiscoveryCommit, StatusAfterSweep, TaskMatchesStatus,
           TypeOK, TerminalStatus
    <3>4. CASE DiscoveryFails(r)
      BY <2>1, <3>4 DEF DiscoveryFails, TypeOK, TerminalStatus
    <3>5. CASE /\ ~DiscoveryClaim(r) /\ ~DiscoverySwept(r)
               /\ ~DiscoveryCommit(r) /\ ~DiscoveryFails(r)
      BY <2>4, <2>6, <3>5 DEF ScanTaskStep, DiscoveryRead, HostResolve,
           HostUpdate, HostInsert, HostSupersede, DispatchCandidate,
           ScanTaskEnds, scanVars
    <3> QED BY <3>1, <3>2, <3>3, <3>4, <3>5
  <2>7. ASSUME NEW o \in Origins, NEW d \in Devices, CollectStep(o, d)
        PROVE  Forward(status[s], status'[s])
    <3>1. CASE FinalizeCommit(o, d)
      <4>1. verdict[<<o, d>>] \in TerminalStatus
        BY <2>1, <3>1, JobIndex DEF FinalizeCommit, JudgedAfterSweep
      <4> QED BY <2>1, <3>1, <4>1 DEF FinalizeCommit, TypeOK
    <3>2. CASE ~FinalizeCommit(o, d)
      BY <2>4, <2>7, <3>2 DEF CollectStep, CollectBegin, CollectSave,
           FinalizeRead, FinalizeSkips, FinalizeJudge, CollectEnds, scanVars
    <3> QED BY <3>1, <3>2
  <2> HIDE DEF Forward
  <2>8. ASSUME (\E d \in Devices : CollectDevice(d)) \/ FaultStep
        PROVE  Forward(status[s], status'[s])
    <3>1. UNCHANGED status
      BY <2>8 DEF CollectDevice, FaultStep, ScanTaskError, ScanTaskCrash,
           CollectError, CollectCrash, scanVars
    <3> QED BY <2>4, <3>1
  <2>9. Forward(status[s], status'[s])
    BY <2>5, <2>6, <2>7, <2>8 DEF Next
  <2> QED BY <2>2, <2>3, <2>9
<1> QED BY <1>1, Invariance, PTL DEF Spec, PhaseOrder

\* Once no worker is busy with a stopped scan, nothing revives it (the guards
\* of run_discovery_scan_task and finalize_scan_if_complete).
THEOREM QuietCancelIsFinal == Spec => QuietCancelStays
<1>1. IInv /\ [Next]_vars =>
        [\A s \in Scans : status[s] = "cancelled" /\ Quiet(s)
            => status'[s] = "cancelled" /\ Quiet(s)']_vars
  <2> SUFFICES ASSUME IInv, Next, NEW s \in Scans,
                      status[s] = "cancelled", Quiet(s)
               PROVE  status'[s] = "cancelled" /\ Quiet(s)'
    OBVIOUS
  <2>1. TypeOK /\ TaskMatchesStatus /\ JudgedAfterSweep
    BY DEF IInv
  <2> USE DEF scanVars, taskVars, jobVars
  <2>2. ASSUME NEW r \in Scans, ApiStep(r)
        PROVE  status'[s] = "cancelled" /\ Quiet(s)'
    BY <2>1, <2>2 DEF ApiStep, StartScanCheck, StartScanInsert, EnqueueScan,
         RequestDies, StopScanRead, StopScanCommit, TaskMatchesStatus, TypeOK,
         Quiet, Body
  <2>3. ASSUME NEW r \in Scans, ScanTaskStep(r)
        PROVE  status'[s] = "cancelled" /\ Quiet(s)'
    <3>1. UNCHANGED target
      BY <2>3 DEF ScanTaskStep, DiscoveryRead, DiscoveryClaim, DiscoverySwept,
           HostResolve, HostUpdate, HostInsert, HostSupersede,
           DispatchCandidate, DiscoveryCommit, DiscoveryFails, ScanTaskEnds
    <3>2. phase[s] \notin Body
      BY DEF Quiet
    <3>3. status'[s] = "cancelled" /\ phase'[s] \notin Body
      <4>1. CASE r # s
        BY <2>1, <2>3, <3>2, <4>1 DEF ScanTaskStep, DiscoveryRead,
             DiscoveryClaim, DiscoverySwept, HostResolve, HostUpdate,
             HostInsert, HostSupersede, RecordHost, DispatchCandidate,
             DiscoveryCommit, DiscoveryFails, ScanTaskEnds, TypeOK
      <4>2. CASE r = s
        BY <2>1, <2>3, <3>2, <4>2 DEF ScanTaskStep, DiscoveryRead, MayClaim,
             DiscoveryClaim, DiscoverySwept, HostResolve, HostUpdate,
             HostInsert, HostSupersede, DispatchCandidate, DiscoveryCommit,
             DiscoveryFails, ScanTaskEnds, TypeOK, Body
      <4> QED BY <4>1, <4>2
    <3> QED BY <3>1, <3>3 DEF Quiet
  <2>4. ASSUME NEW o \in Origins, NEW d \in Devices,
               \/ CollectStep(o, d) \/ CollectError(o, d) \/ CollectCrash(o, d)
        PROVE  status'[s] = "cancelled" /\ Quiet(s)'
    <3>1. UNCHANGED phase
      BY <2>4 DEF CollectStep, CollectBegin, CollectSave, FinalizeRead,
           FinalizeSkips, FinalizeJudge, FinalizeCommit, CollectEnds,
           CollectError, CollectCrash
    <3>2. status'[s] = "cancelled"
      <4>1. CASE FinalizeCommit(o, d)
        <5>1. target[<<o, d>>] # s
          BY JobIndex DEF Quiet
        <5> QED BY <2>1, <4>1, <5>1 DEF FinalizeCommit, TypeOK
      <4>2. CASE ~FinalizeCommit(o, d)
        BY <2>4, <4>2 DEF CollectStep, CollectBegin, CollectSave, FinalizeRead,
             FinalizeSkips, FinalizeJudge, CollectEnds, CollectError,
             CollectCrash
      <4> QED BY <4>1, <4>2
    <3>3. \A k \in Jobs : target'[k] # s
      <4>1. \/ UNCHANGED target
            \/ target' = [target EXCEPT ![<<o, d>>] = NoScan]
            \/ /\ status[latest[d]] = "scanning"
               /\ target' = [target EXCEPT ![<<o, d>>] = latest[d]]
        BY <2>4 DEF CollectStep, CollectBegin, CollectSave, FinalizeRead,
             MayFinalize, FinalizeSkips, FinalizeJudge, FinalizeCommit,
             CollectEnds, CollectError, CollectCrash, CloseJob
      <4> QED BY <2>1, <4>1, ConstantsAssumption
              DEF TypeOK, Quiet, ConstantsAssumption
    <3> QED BY <3>1, <3>2, <3>3 DEF Quiet
  <2>5. ASSUME NEW d \in Devices, CollectDevice(d)
        PROVE  status'[s] = "cancelled" /\ Quiet(s)'
    BY <2>5 DEF CollectDevice, Quiet
  <2>6. ASSUME NEW r \in Scans, ScanTaskError(r) \/ ScanTaskCrash(r)
        PROVE  status'[s] = "cancelled" /\ Quiet(s)'
    BY <2>1, <2>6 DEF ScanTaskError, ScanTaskCrash, Quiet, TypeOK, Body
  <2> QED BY <2>2, <2>3, <2>4, <2>5, <2>6 DEF Next, FaultStep
<1> QED BY <1>1, Invariance, PTL DEF Spec, QuietCancelStays
----------------------------------------------------------------------------
(* Who still looks at a scan that is SCANNING *)

\* A status that a collection leaves, or that a sweep writes, never keeps a scan
\* open: a row that the finalizer of a scan reads has one of these.
Judgeable ==
    /\ \A d \in Devices : device[d] \in FinalStatus \cup {"absent", "null"}
    /\ \A s \in Scans : \A d \in touched[s] : device[d] \in FinalStatus
    /\ \A s \in Scans : \A d \in history[s] :
        wrote[s][d] = "discovered" \/ device[d] \in FinalStatus
    /\ \A s \in Scans : phase[s] = "resolved" =>
        /\ seen[s] \in FinalStatus \cup {"null"}
        /\ seen[s] \in FinalStatus => device[row[s]] \in FinalStatus
    /\ \A k \in Jobs : jobPhase[k] \in {"saved", "judging", "judged"} =>
        own[k] \in FinalStatus

\* The collection of d for o has yet to look at scan s.
Serves(o, d, s) ==
    \/ jobPhase[<<o, d>>] \in {"queued", "collecting", "saved"}
    \/ jobPhase[<<o, d>>] \in {"judging", "judged"} /\ target[<<o, d>>] = s

\* ScanningIsServed, by a collection that judges no other scan.
Served ==
    \A s \in Scans : (status[s] = "scanning" /\ Undisturbed(s)) =>
        \/ phase[s] = "dispatch" /\ candidates[s] # {}
        \/ \E o \in Origins, d \in touched[s] : Serves(o, d, s)

\* The inductive invariant of the finalizers.
ServiceInv == IInv /\ Judgeable /\ Served

\* Only sweeps and collections write scan_status, and what they write is final.
LEMMA WrittenStatusIsFinal ==
  ASSUME IInv, [Next]_vars, NEW d \in Devices
  PROVE  device'[d] = device[d] \/ device'[d] \in FinalStatus
<1> USE DEF scanVars, deviceVars
<1>1. TypeOK
  BY DEF IInv
<1>2. ASSUME NEW s \in Scans, DiscoveryCommit(s)
      PROVE  device'[d] = device[d] \/ device'[d] \in FinalStatus
  <2>1. wrote[s][d] \in DeviceWrite
    BY <1>1 DEF TypeOK
  <2> QED BY <1>2, <2>1 DEF DiscoveryCommit, DeviceWrite, FinalStatus
<1>3. ASSUME NEW o \in Origins, NEW e \in Devices, CollectSave(o, e)
      PROVE  device'[d] = device[d] \/ device'[d] \in FinalStatus
  BY <1>1, <1>3 DEF CollectSave, CollectOutcome, TypeOK, FinalStatus
<1>4. CASE /\ \A s \in Scans : ~DiscoveryCommit(s)
           /\ \A o \in Origins, e \in Devices : ~CollectSave(o, e)
  <2>1. ASSUME NEW s \in Scans, ApiStep(s) \/ ScanTaskStep(s) PROVE UNCHANGED device
    BY <1>4, <2>1 DEF ApiStep, StartScanCheck, StartScanInsert, EnqueueScan,
         RequestDies, StopScanRead, StopScanCommit, ScanTaskStep, DiscoveryRead,
         DiscoveryClaim, DiscoverySwept, HostResolve, HostUpdate, HostInsert,
         HostSupersede, DispatchCandidate, DiscoveryFails, ScanTaskEnds
  <2>2. ASSUME NEW o \in Origins, NEW e \in Devices, CollectStep(o, e)
        PROVE  UNCHANGED device
    BY <1>4, <2>2 DEF CollectStep, CollectBegin, FinalizeRead, FinalizeSkips,
         FinalizeJudge, FinalizeCommit, CollectEnds
  <2>3. ASSUME FaultStep \/ (\E e \in Devices : CollectDevice(e)) \/ UNCHANGED vars
        PROVE  UNCHANGED device
    BY <2>3 DEF FaultStep, ScanTaskError, ScanTaskCrash, CollectError,
         CollectCrash, CollectDevice, vars
  <2> QED BY <2>1, <2>2, <2>3 DEF Next
<1> QED BY <1>2, <1>3, <1>4

\* Whoever is not the task of s leaves its rows and its transaction alone, or
\* ends it.
LEMMA OthersKeepTransaction ==
  ASSUME IInv, [Next]_vars, NEW s \in Scans, ~ScanTaskStep(s)
  PROVE  /\ touched'[s] = touched[s]
         /\ phase'[s] = "resolved" => phase[s] = "resolved"
         /\ \/ history'[s] = {} /\ phase'[s] # "resolved"
            \/ UNCHANGED <<history[s], wrote[s], row[s], seen[s]>>
<1> USE DEF scanVars, deviceVars, apiVars, txVars, taskVars, jobVars
<1>1. TypeOK
  BY DEF IInv
<1>2. ASSUME NEW r \in Scans, ApiStep(r)
      PROVE  /\ UNCHANGED <<touched, history, wrote, row, seen>>
             /\ phase'[s] = "resolved" => phase[s] = "resolved"
  BY <1>1, <1>2 DEF ApiStep, StartScanCheck, StartScanInsert, EnqueueScan,
       RequestDies, StopScanRead, StopScanCommit, TypeOK
<1>3. ASSUME NEW r \in Scans \ {s}, ScanTaskStep(r)
      PROVE  UNCHANGED <<touched[s], history[s], wrote[s], row[s], seen[s], phase[s]>>
  <2>1. CASE DiscoveryCommit(r) \/ DiscoveryFails(r)
    <3>1. /\ CloseTransaction(r)
          /\ touched'[s] = touched[s]
          /\ phase'[s] = phase[s]
      BY <1>1, <1>3, <2>1 DEF DiscoveryCommit, DiscoveryFails, TypeOK
    <3> QED BY <1>1, <1>3, <3>1 DEF CloseTransaction, TypeOK
  <2>2. ASSUME NEW d \in Devices,
               \/ HostResolve(r, d) \/ HostUpdate(r, d) \/ HostInsert(r, d)
               \/ HostSupersede(r, d) \/ DispatchCandidate(r, d)
        PROVE  UNCHANGED <<touched[s], history[s], wrote[s], row[s], seen[s], phase[s]>>
    <3>1. UNCHANGED touched /\ wrote'[s] = wrote[s]
      BY <1>1, <1>3, <2>2 DEF HostResolve, HostUpdate, HostInsert, HostSupersede,
           DispatchCandidate, TypeOK
    <3>2. UNCHANGED <<history[s], row[s], seen[s], phase[s]>>
      BY <1>1, <1>3, <2>2 DEF HostResolve, HostUpdate, HostInsert, HostSupersede,
           DispatchCandidate, RecordHost, TypeOK
    <3> QED BY <3>1, <3>2
  <2>3. CASE \/ DiscoveryRead(r) \/ DiscoveryClaim(r) \/ DiscoverySwept(r)
             \/ ScanTaskEnds(r)
    BY <1>1, <1>3, <2>3 DEF DiscoveryRead, DiscoveryClaim, DiscoverySwept,
         ScanTaskEnds, TypeOK
  <2> QED BY <1>3, <2>1, <2>2, <2>3 DEF ScanTaskStep
<1>4. ASSUME NEW r \in Scans, ScanTaskError(r) \/ ScanTaskCrash(r)
      PROVE  /\ touched'[s] = touched[s]
             /\ \/ history'[s] = {} /\ phase'[s] # "resolved"
                \/ UNCHANGED <<history[s], wrote[s], row[s], seen[s], phase[s]>>
  <2>1. /\ CloseTransaction(r) /\ UNCHANGED touched
        /\ \E p \in {"queued", "lost"} : phase' = [phase EXCEPT ![r] = p]
    BY <1>4 DEF ScanTaskError, ScanTaskCrash
  <2> QED BY <1>1, <2>1 DEF CloseTransaction, TypeOK
<1>5. ASSUME NEW o \in Origins, NEW d \in Devices,
             \/ CollectStep(o, d) \/ CollectError(o, d) \/ CollectCrash(o, d)
             \/ CollectDevice(d)
      PROVE  UNCHANGED <<touched, history, wrote, row, seen, phase>>
  BY <1>5 DEF CollectStep, CollectBegin, CollectSave, FinalizeRead,
       FinalizeSkips, FinalizeJudge, FinalizeCommit, CollectEnds, CollectError,
       CollectCrash, CollectDevice
<1>6. CASE UNCHANGED vars
  BY <1>6 DEF vars
<1>7. CollectLoop \in Origins
  BY DEF Origins
<1> QED BY <1>2, <1>3, <1>4, <1>5, <1>6, <1>7 DEF Next, FaultStep

\* The rows a sweep leaves behind can be judged.
LEMMA CommittedRowsAreJudgeable ==
  ASSUME IInv, Judgeable, NEW s \in Scans, DiscoveryCommit(s), NEW d \in touched'[s]
  PROVE  device'[d] \in FinalStatus
<1>1. PICK silent \in SUBSET Devices :
        /\ device' = [e \in Devices |->
             IF e \in silent THEN "offline"
             ELSE IF wrote[s][e] \in {"none", "keep"} THEN device[e]
             ELSE wrote[s][e]]
        /\ touched' = [touched EXCEPT ![s] = history[s] \cup silent]
  BY DEF DiscoveryCommit
<1>2. d \in Devices /\ d \in history[s] \cup silent
  BY <1>1 DEF IInv, TypeOK
<1>3. d \in history[s] => wrote[s][d] = "discovered" \/ device[d] \in FinalStatus
  BY DEF Judgeable
<1>4. wrote[s][d] \in DeviceWrite
  BY <1>2 DEF IInv, TypeOK
<1> QED BY <1>1, <1>2, <1>3, <1>4 DEF FinalStatus, DeviceWrite

\* Recording a host leaves what a sweep has flushed fit to be judged.
LEMMA FlushedStatuses ==
  ASSUME IInv, Judgeable, NEW s \in Scans, ScanTaskStep(s), NEW d \in history'[s]
  PROVE  wrote'[s][d] = "discovered" \/ device'[d] \in FinalStatus
<1> USE DEF scanVars, deviceVars, txVars, taskVars
<1>1. TypeOK /\ FlushedRows
  BY DEF IInv
<1>2. ASSUME NEW e \in Devices,
             HostUpdate(s, e) \/ HostInsert(s, e) \/ HostSupersede(s, e)
      PROVE  wrote'[s][d] = "discovered" \/ device'[d] \in FinalStatus
  <2>1. UNCHANGED device /\ history'[s] = history[s] \cup {e}
    BY <1>1, <1>2 DEF HostUpdate, HostInsert, HostSupersede, RecordHost, TypeOK
  <2>2. CASE d = e
    <3>1. CASE HostUpdate(s, e)
      <4>1. /\ phase[s] = "resolved" /\ row[s] = e
            /\ wrote'[s][e] = RediscoveredStatus(seen[s])
        BY <1>1, <3>1 DEF HostUpdate, TypeOK
      <4>2. seen[s] = "null" \/ (seen[s] \in FinalStatus /\ device[e] \in FinalStatus)
        BY <4>1 DEF Judgeable
      <4> QED BY <2>1, <2>2, <4>1, <4>2 DEF RediscoveredStatus
    <3>2. CASE HostInsert(s, e) \/ HostSupersede(s, e)
      BY <1>1, <2>2, <3>2 DEF HostInsert, HostSupersede, TypeOK
    <3> QED BY <1>2, <3>1, <3>2
  <2>3. CASE d # e
    <3>1. d \in history[s]
      BY <2>1, <2>3
    <3>2. d \in Devices /\ wrote[s][d] # "none"
      BY <1>1, <3>1 DEF FlushedRows, TypeOK
    <3>3. wrote'[s][d] = wrote[s][d]
      <4>1. CASE HostUpdate(s, e) \/ HostInsert(s, e)
        BY <1>1, <2>3, <3>2, <4>1 DEF HostUpdate, HostInsert, TypeOK
      <4>2. CASE HostSupersede(s, e)
        <5>1. row[s] # d
          BY <1>1, <3>2, <4>2 DEF HostSupersede, FlushedRows
        <5> QED BY <1>1, <2>3, <3>2, <4>2, <5>1 DEF HostSupersede, TypeOK
      <4> QED BY <1>2, <4>1, <4>2
    <3> QED BY <2>1, <3>1, <3>3 DEF Judgeable
  <2> QED BY <2>2, <2>3
<1>3. CASE DiscoveryCommit(s) \/ DiscoveryFails(s)
  BY <1>1, <1>3 DEF DiscoveryCommit, DiscoveryFails, CloseTransaction, TypeOK
<1>4. CASE \A e \in Devices : ~HostUpdate(s, e) /\ ~HostInsert(s, e) /\ ~HostSupersede(s, e)
  <2>1. CASE ~DiscoveryCommit(s) /\ ~DiscoveryFails(s)
    <3>1. UNCHANGED <<device, wrote, history>>
      BY <1>4, <2>1 DEF ScanTaskStep, DiscoveryRead, DiscoveryClaim, DiscoverySwept,
           HostResolve, DispatchCandidate, ScanTaskEnds
    <3> QED BY <3>1 DEF Judgeable
  <2> QED BY <1>3, <2>1
<1> QED BY <1>2, <1>4

\* The row a sweep has resolved, and the status it has read there.
LEMMA ResolvedStatuses ==
  ASSUME IInv, Judgeable, NEW s \in Scans, ScanTaskStep(s), phase'[s] = "resolved"
  PROVE  /\ seen'[s] \in FinalStatus \cup {"null"}
         /\ seen'[s] \in FinalStatus => device'[row'[s]] \in FinalStatus
<1> USE DEF scanVars, deviceVars, txVars, taskVars
<1>1. TypeOK
  BY DEF IInv
<1>2. ASSUME NEW d \in Devices, HostResolve(s, d)
      PROVE  /\ seen'[s] \in FinalStatus \cup {"null"}
             /\ seen'[s] \in FinalStatus => device'[row'[s]] \in FinalStatus
  <2>1. row'[s] = d /\ seen'[s] = device[d] /\ device' = device /\ device[d] # "absent"
    BY <1>1, <1>2 DEF HostResolve, TypeOK
  <2> QED BY <2>1 DEF Judgeable
<1>3. ASSUME NEW d \in Devices, DispatchCandidate(s, d)
      PROVE  FALSE
  BY <1>3 DEF DispatchCandidate, MayDispatch
<1>4. ASSUME NEW d \in Devices, HostUpdate(s, d) \/ HostInsert(s, d) \/ HostSupersede(s, d)
      PROVE  FALSE
  BY <1>1, <1>4 DEF HostUpdate, HostInsert, HostSupersede, RecordHost, TypeOK
<1>5. CASE \/ DiscoveryRead(s) \/ DiscoveryClaim(s) \/ DiscoverySwept(s)
           \/ DiscoveryCommit(s) \/ DiscoveryFails(s) \/ ScanTaskEnds(s)
  BY <1>1, <1>5 DEF DiscoveryRead, DiscoveryClaim, DiscoverySwept,
       DiscoveryCommit, DiscoveryFails, ScanTaskEnds, TypeOK
<1> QED BY <1>2, <1>3, <1>4, <1>5 DEF ScanTaskStep

\* A collection whose session is over remembers no status.
LEMMA ClosedRemembersNothing ==
  ASSUME TypeOK, Judgeable, NEW o \in Origins, NEW d \in Devices,
         NEW p \in JobPhase \ {"saved", "judging", "judged"}, CloseJob(o, d, p),
         NEW k \in Jobs, jobPhase'[k] \in {"saved", "judging", "judged"}
  PROVE  own'[k] \in FinalStatus
<1>1. <<o, d>> \in Jobs
  BY JobIndex
<1>2. k # <<o, d>>
  <2>1. jobPhase'[<<o, d>>] = p
    BY <1>1 DEF CloseJob, TypeOK
  <2> QED BY <2>1
<1>3. jobPhase'[k] = jobPhase[k] /\ own'[k] = own[k]
  BY <1>2 DEF CloseJob, TypeOK
<1> QED BY <1>3 DEF Judgeable

\* A collection that has saved remembers a status that can be judged.
LEMMA OwnStatusIsFinal ==
  ASSUME IInv, Judgeable, [Next]_vars, NEW k \in Jobs,
         jobPhase'[k] \in {"saved", "judging", "judged"}
  PROVE  own'[k] \in FinalStatus
<1> USE DEF scanVars, deviceVars, jobVars
<1>1. TypeOK
  BY DEF IInv
<1>2. ASSUME NEW o \in Origins, NEW d \in Devices, CollectStep(o, d)
      PROVE  own'[k] \in FinalStatus
  <2>1. <<o, d>> \in Jobs
    BY JobIndex
  <2>2. CASE CollectSave(o, d)
    BY <1>1, <2>1, <2>2 DEF CollectSave, CollectOutcome, FinalStatus, TypeOK, Judgeable
  <2>3. CASE FinalizeRead(o, d) \/ CollectBegin(o, d)
    BY <1>1, <2>1, <2>3 DEF FinalizeRead, CollectBegin, TypeOK, Judgeable
  <2>4. CASE CloseJob(o, d, "closing") \/ CloseJob(o, d, "done")
    BY <1>1, <2>4, ClosedRemembersNothing DEF JobPhase
  <2>5. CASE /\ jobPhase[<<o, d>>] = "judging" /\ UNCHANGED own
             /\ jobPhase' = [jobPhase EXCEPT ![<<o, d>>] = "judged"]
    BY <1>1, <2>1, <2>5 DEF TypeOK, Judgeable
  <2> QED BY <1>2, <2>2, <2>3, <2>4, <2>5
          DEF CollectStep, FinalizeSkips, FinalizeJudge, FinalizeCommit, CollectEnds
<1>3. ASSUME NEW o \in Origins, NEW d \in Devices, CollectError(o, d) \/ CollectCrash(o, d)
      PROVE  own'[k] \in FinalStatus
  <2>1. CloseJob(o, d, "queued") \/ CloseJob(o, d, "dropped")
    BY <1>3 DEF CollectError, CollectCrash
  <2> QED BY <1>1, <2>1, ClosedRemembersNothing DEF JobPhase
<1>4. ASSUME NEW d \in Devices, CollectDevice(d)
      PROVE  own'[k] \in FinalStatus
  BY <1>1, <1>4 DEF CollectDevice, TypeOK, Judgeable
<1>5. ASSUME NEW s \in Scans, ApiStep(s) \/ ScanTaskError(s) \/ ScanTaskCrash(s)
      PROVE  UNCHANGED <<jobPhase, own>>
  BY <1>5 DEF ApiStep, StartScanCheck, StartScanInsert, EnqueueScan, RequestDies,
       StopScanRead, StopScanCommit, ScanTaskError, ScanTaskCrash
<1>6. ASSUME NEW s \in Scans, ScanTaskStep(s)
      PROVE  own'[k] \in FinalStatus
  <2>1. CASE \E d \in Devices : DispatchCandidate(s, d)
    BY <1>1, <2>1 DEF DispatchCandidate, TypeOK, Judgeable
  <2>2. CASE ~ \E d \in Devices : DispatchCandidate(s, d)
    <3>1. UNCHANGED <<jobPhase, own>>
      BY <1>6, <2>2 DEF ScanTaskStep, DiscoveryRead, DiscoveryClaim,
           DiscoverySwept, HostResolve, HostUpdate, HostInsert, HostSupersede,
           DiscoveryCommit, DiscoveryFails, ScanTaskEnds
    <3> QED BY <3>1 DEF Judgeable
  <2> QED BY <2>1, <2>2
<1>7. CASE UNCHANGED vars
  BY <1>7 DEF vars, Judgeable
<1> QED BY <1>2, <1>3, <1>4, <1>5, <1>6, <1>7 DEF Next, FaultStep, Judgeable

\* Every step keeps what a finalizer may read fit to be judged.
LEMMA JudgeableStep ==
  ASSUME IInv, Judgeable, [Next]_vars
  PROVE  Judgeable'
<1> USE DEF scanVars, deviceVars, txVars, taskVars
<1>1. TypeOK
  BY DEF IInv
<1>2. \A d \in Devices : device'[d] \in FinalStatus \cup {"absent", "null"}
  BY WrittenStatusIsFinal DEF Judgeable
<1>3. ASSUME NEW s \in Scans, NEW d \in touched'[s]
      PROVE  device'[d] \in FinalStatus
  <2>1. CASE DiscoveryCommit(s)
    BY <2>1, CommittedRowsAreJudgeable
  <2>2. CASE ~DiscoveryCommit(s)
    <3>1. touched'[s] = touched[s]
      <4>1. CASE ScanTaskStep(s)
        BY <2>2, <4>1 DEF ScanTaskStep, DiscoveryRead, DiscoveryClaim,
             DiscoverySwept, HostResolve, HostUpdate, HostInsert, HostSupersede,
             DispatchCandidate, DiscoveryFails, ScanTaskEnds
      <4> QED BY <4>1, OthersKeepTransaction
    <3>2. d \in Devices /\ device[d] \in FinalStatus
      BY <1>1, <3>1 DEF TypeOK, Judgeable
    <3> QED BY <3>2, WrittenStatusIsFinal
  <2> QED BY <2>1, <2>2
<1>4. ASSUME NEW s \in Scans, NEW d \in history'[s]
      PROVE  wrote'[s][d] = "discovered" \/ device'[d] \in FinalStatus
  <2>1. CASE ScanTaskStep(s)
    BY <2>1, FlushedStatuses
  <2>2. CASE ~ScanTaskStep(s)
    <3>1. history'[s] = history[s] /\ wrote'[s] = wrote[s]
      BY <2>2, OthersKeepTransaction
    <3>2. d \in Devices /\ (wrote[s][d] = "discovered" \/ device[d] \in FinalStatus)
      BY <1>1, <3>1 DEF TypeOK, Judgeable
    <3> QED BY <3>1, <3>2, WrittenStatusIsFinal
  <2> QED BY <2>1, <2>2
<1>5. ASSUME NEW s \in Scans, phase'[s] = "resolved"
      PROVE  /\ seen'[s] \in FinalStatus \cup {"null"}
             /\ seen'[s] \in FinalStatus => device'[row'[s]] \in FinalStatus
  <2>1. CASE ScanTaskStep(s)
    BY <1>5, <2>1, ResolvedStatuses
  <2>2. CASE ~ScanTaskStep(s)
    <3>1. row'[s] = row[s] /\ seen'[s] = seen[s] /\ phase[s] = "resolved"
      BY <1>5, <2>2, OthersKeepTransaction
    <3>2. row[s] \in Devices
      BY <3>1 DEF IInv, FlushedRows
    <3> QED BY <3>1, <3>2, WrittenStatusIsFinal DEF Judgeable
  <2> QED BY <2>1, <2>2
<1> QED BY <1>2, <1>3, <1>4, <1>5, OwnStatusIsFinal DEF Judgeable

\* A fresh system satisfies it.
LEMMA InitServiceInv == Init => ServiceInv
<1> SUFFICES ASSUME Init PROVE ServiceInv
  OBVIOUS
<1>1. Judgeable
  BY FirstStatusesAssumption
  DEF FirstStatusesAssumption, Init, Judgeable, FinalStatus
<1>2. Served
  BY DEF Init, Served
<1> QED BY <1>1, <1>2, InitIInv DEF ServiceInv

\* Only its own commit makes a scan SCANNING, or makes it the newest scan of a
\* device; faults are not forgotten.
LEMMA ScanningSince ==
  ASSUME IInv, [Next]_vars, NEW s \in Scans, ~DiscoveryCommit(s),
         status'[s] = "scanning", Undisturbed(s)'
  PROVE  /\ status[s] = "scanning" /\ Undisturbed(s)
         /\ touched'[s] = touched[s]
         /\ ~FaultStep
<1> USE DEF scanVars, deviceVars, apiVars, txVars, taskVars, jobVars
<1>1. TypeOK /\ JudgedAfterSweep /\ faults \in Nat
  BY DEF IInv, TypeOK
<1>2. faults' = 0 /\ \A d \in touched'[s] : latest'[d] = s
  BY DEF Undisturbed
<1>3. ~FaultStep /\ faults' = faults
  <2>1. CASE FaultStep
    <3>1. Fault
      BY <2>1 DEF FaultStep, ScanTaskError, ScanTaskCrash, CollectError, CollectCrash
    <3> QED BY <1>1, <1>2, <3>1 DEF Fault
  <2>2. ASSUME NEW r \in Scans, ApiStep(r) PROVE faults' = faults
    <3>1. CASE RequestDies(r)
      BY <1>1, <1>2, <3>1 DEF RequestDies, Fault
    <3> QED BY <2>2, <3>1 DEF ApiStep, StartScanCheck, StartScanInsert, EnqueueScan,
               StopScanRead, StopScanCommit
  <2>3. ASSUME NEW r \in Scans, ScanTaskStep(r) PROVE faults' = faults
    BY <2>3 DEF ScanTaskStep, DiscoveryRead, DiscoveryClaim, DiscoverySwept,
         HostResolve, HostUpdate, HostInsert, HostSupersede, DispatchCandidate,
         DiscoveryCommit, DiscoveryFails, ScanTaskEnds
  <2>4. ASSUME NEW o \in Origins, NEW d \in Devices, CollectStep(o, d)
        PROVE  faults' = faults
    BY <2>4 DEF CollectStep, CollectBegin, CollectSave, FinalizeRead,
         FinalizeSkips, FinalizeJudge, FinalizeCommit, CollectEnds
  <2>5. ASSUME (\E d \in Devices : CollectDevice(d)) \/ UNCHANGED vars
        PROVE  faults' = faults
    BY <2>5 DEF CollectDevice, vars
  <2> QED BY <2>1, <2>2, <2>3, <2>4, <2>5 DEF Next
<1> DEFINE Since == /\ status[s] = "scanning" /\ touched'[s] = touched[s]
                    /\ \A d \in touched[s] : latest'[d] = s => latest[d] = s
<1>4. ASSUME NEW r \in Scans, ApiStep(r) PROVE Since
  BY <1>1, <1>4 DEF ApiStep, StartScanCheck, StartScanInsert, EnqueueScan,
       RequestDies, StopScanRead, StopScanCommit, TypeOK
<1>5. ASSUME NEW r \in Scans, ScanTaskStep(r) PROVE Since
  <2>1. CASE DiscoveryCommit(r)
    <3>1. r # s
      BY <2>1
    <3>2. /\ status' = [status EXCEPT ![r] = StatusAfterSweep(r)]
          /\ \A d \in Devices : latest'[d] = r \/ latest'[d] = latest[d]
          /\ touched'[s] = touched[s]
      BY <1>1, <2>1, <3>1 DEF DiscoveryCommit, TypeOK
    <3>3. status[s] = "scanning"
      BY <1>1, <3>1, <3>2 DEF TypeOK
    <3>4. touched[s] \subseteq Devices
      BY <1>1 DEF TypeOK
    <3> QED BY <3>1, <3>2, <3>3, <3>4
  <2>2. CASE ~DiscoveryCommit(r)
    <3>1. UNCHANGED <<touched, latest>>
      BY <1>5, <2>2 DEF ScanTaskStep, DiscoveryRead, DiscoveryClaim,
           DiscoverySwept, HostResolve, HostUpdate, HostInsert, HostSupersede,
           DispatchCandidate, DiscoveryFails, ScanTaskEnds
    <3>2. status[s] = "scanning"
      BY <1>1, <1>5, <2>2 DEF ScanTaskStep, DiscoveryRead, DiscoveryClaim,
           DiscoverySwept, HostResolve, HostUpdate, HostInsert, HostSupersede,
           DispatchCandidate, DiscoveryFails, ScanTaskEnds, TypeOK
    <3> QED BY <3>1, <3>2
  <2> QED BY <2>1, <2>2
<1>6. ASSUME NEW o \in Origins, NEW d \in Devices, CollectStep(o, d) PROVE Since
  <2>1. UNCHANGED <<touched, latest>>
    BY <1>6 DEF CollectStep, CollectBegin, CollectSave, FinalizeRead,
         FinalizeSkips, FinalizeJudge, FinalizeCommit, CollectEnds
  <2>2. status[s] = "scanning"
    <3>1. CASE FinalizeCommit(o, d)
      <4>1. verdict[<<o, d>>] \in TerminalStatus
        BY <1>1, <3>1, JobIndex DEF FinalizeCommit, JudgedAfterSweep
      <4> QED BY <1>1, <3>1, <4>1 DEF FinalizeCommit, TypeOK, TerminalStatus
    <3> QED BY <1>6, <3>1 DEF CollectStep, CollectBegin, CollectSave, FinalizeRead,
               FinalizeSkips, FinalizeJudge, CollectEnds
  <2> QED BY <2>1, <2>2
<1>7. ASSUME (\E d \in Devices : CollectDevice(d)) \/ UNCHANGED vars PROVE Since
  BY <1>7 DEF CollectDevice, vars
<1>8. Since
  BY <1>3, <1>4, <1>5, <1>6, <1>7 DEF Next
<1> QED BY <1>2, <1>3, <1>8 DEF Undisturbed

\* A collection that is to look at a scan does not end before it has closed it.
LEMMA ServingGoesOn ==
  ASSUME ServiceInv, [Next]_vars, ~FaultStep,
         NEW s \in Scans, status[s] = "scanning", status'[s] = "scanning",
         Undisturbed(s), NEW o \in Origins, NEW d \in touched[s], Serves(o, d, s)
  PROVE  Serves(o, d, s)'
<1> USE DEF jobVars
<1>1. TypeOK /\ JudgedAfterSweep /\ d \in Devices /\ <<o, d>> \in Jobs /\ latest[d] = s
  BY JobIndex DEF ServiceInv, IInv, TypeOK, Undisturbed
<1>2. ASSUME UNCHANGED <<jobPhase[<<o, d>>], target[<<o, d>>]>>
      PROVE  Serves(o, d, s)'
  BY <1>2 DEF Serves
<1>3. CASE CollectStep(o, d)
  <2>1. CASE CollectBegin(o, d)
    BY <1>1, <2>1 DEF CollectBegin, TypeOK, Serves
  <2>2. CASE CollectSave(o, d)
    BY <1>1, <2>2 DEF CollectSave, TypeOK, Serves
  <2>3. CASE FinalizeRead(o, d)
    BY <1>1, <2>3 DEF FinalizeRead, TypeOK, Serves
  <2>4. CASE FinalizeSkips(o, d)
    BY <1>1, <2>4, ConstantsAssumption DEF FinalizeSkips, MayFinalize, ConstantsAssumption
  <2>5. CASE FinalizeJudge(o, d)
    <3>1. jobPhase[<<o, d>>] = "judging" /\ target[<<o, d>>] = s
      BY <2>5 DEF FinalizeJudge, Serves
    <3>2. StatusesRead(o, d) \subseteq FinalStatus
      BY <1>1, <3>1 DEF StatusesRead, ServiceInv, Judgeable
    <3> QED BY <1>1, <2>5, <3>1, <3>2 DEF FinalizeJudge, TypeOK, Serves
  <2>6. CASE FinalizeCommit(o, d)
    <3>1. jobPhase[<<o, d>>] = "judged" /\ target[<<o, d>>] = s
      BY <2>6 DEF FinalizeCommit, Serves
    <3>2. verdict[<<o, d>>] \in TerminalStatus
      BY <1>1, <3>1 DEF JudgedAfterSweep
    <3> QED BY <1>1, <2>6, <3>1, <3>2 DEF FinalizeCommit, TypeOK, TerminalStatus
  <2>7. CASE CollectEnds(o, d)
    BY <2>7 DEF CollectEnds, Serves
  <2> QED BY <1>3, <2>1, <2>2, <2>3, <2>4, <2>5, <2>6, <2>7 DEF CollectStep
<1>4. ASSUME NEW p \in Origins, NEW e \in Devices, <<p, e>> # <<o, d>>, CollectStep(p, e)
      PROVE  UNCHANGED <<jobPhase[<<o, d>>], target[<<o, d>>]>>
  <2>1. \/ UNCHANGED jobPhase
        \/ \E f \in JobPhase : jobPhase' = [jobPhase EXCEPT ![<<p, e>>] = f]
    BY <1>4 DEF CollectStep, CollectBegin, CollectSave, FinalizeRead, FinalizeSkips,
         FinalizeJudge, FinalizeCommit, CollectEnds, CloseJob, JobPhase
  <2>2. \/ UNCHANGED target
        \/ \E r \in Scans \cup {NoScan} : target' = [target EXCEPT ![<<p, e>>] = r]
    BY <1>1, <1>4 DEF CollectStep, CollectBegin, CollectSave, FinalizeRead, FinalizeSkips,
         FinalizeJudge, FinalizeCommit, CollectEnds, CloseJob, TypeOK
  <2> QED BY <1>1, <1>4, <2>1, <2>2 DEF TypeOK
<1>5. ASSUME NEW r \in Scans, NEW e \in Devices, DispatchCandidate(r, e)
      PROVE  Serves(o, d, s)'
  <2>1. UNCHANGED target /\ jobPhase' = [jobPhase EXCEPT ![<<r, e>>] = "queued"]
    BY <1>5 DEF DispatchCandidate
  <2>2. jobPhase'[<<o, d>>] \in {jobPhase[<<o, d>>], "queued"}
    BY <1>1, <2>1 DEF TypeOK
  <2> QED BY <2>1, <2>2 DEF Serves
<1>6. ASSUME NEW e \in Devices, CollectDevice(e)
      PROVE  UNCHANGED <<jobPhase[<<o, d>>], target[<<o, d>>]>>
  <2>1. /\ UNCHANGED target
        /\ jobPhase[<<CollectTask, e>>] = "none" /\ jobPhase[<<CollectLoop, e>>] = "none"
        /\ \E sent \in {"queued", "dropped"} :
             jobPhase' = [jobPhase EXCEPT ![<<CollectTask, e>>] = sent,
                                          ![<<CollectLoop, e>>] = "queued"]
    BY <1>6 DEF CollectDevice
  <2>2. <<o, d>> # <<CollectTask, e>> /\ <<o, d>> # <<CollectLoop, e>>
    BY <2>1 DEF Serves
  <2> QED BY <1>1, <2>1, <2>2 DEF TypeOK
<1>7. ASSUME NEW r \in Scans, ScanTaskStep(r), \A e \in Devices : ~DispatchCandidate(r, e)
      PROVE  UNCHANGED <<jobPhase, target>>
  BY <1>7 DEF ScanTaskStep, DiscoveryRead, DiscoveryClaim, DiscoverySwept, HostResolve,
       HostUpdate, HostInsert, HostSupersede, DiscoveryCommit, DiscoveryFails, ScanTaskEnds
<1>8. ASSUME (\E r \in Scans : ApiStep(r)) \/ UNCHANGED vars
      PROVE  UNCHANGED <<jobPhase, target>>
  BY <1>8 DEF ApiStep, StartScanCheck, StartScanInsert, EnqueueScan, RequestDies,
       StopScanRead, StopScanCommit, vars
<1> QED BY <1>2, <1>3, <1>4, <1>5, <1>6, <1>7, <1>8 DEF Next

\* An undisturbed scan is never left without a collection that looks at it.
LEMMA ServedStep ==
  ASSUME ServiceInv, [Next]_vars
  PROVE  Served'
<1> USE DEF scanVars, deviceVars, apiVars, txVars, taskVars, jobVars
<1> SUFFICES ASSUME NEW s \in Scans, status'[s] = "scanning", Undisturbed(s)'
             PROVE  \/ phase'[s] = "dispatch" /\ candidates'[s] # {}
                    \/ \E o \in Origins, d \in touched'[s] : Serves(o, d, s)'
  BY DEF Served
<1>1. TypeOK /\ FlushedRows /\ TaskMatchesStatus
  BY DEF ServiceInv, IInv
<1>2. CASE DiscoveryCommit(s)
  <2>1. StatusAfterSweep(s) = "scanning" /\ phase'[s] = "dispatch" /\ UNCHANGED candidates
    BY <1>1, <1>2 DEF DiscoveryCommit, TypeOK
  <2> QED BY <2>1 DEF StatusAfterSweep
<1>3. CASE ~DiscoveryCommit(s)
  <2>1. /\ status[s] = "scanning" /\ Undisturbed(s) /\ touched'[s] = touched[s]
        /\ ~FaultStep
    BY <1>3, ScanningSince DEF ServiceInv
  <2>2. ASSUME NEW o \in Origins, NEW d \in touched[s], Serves(o, d, s)
        PROVE  \E p \in Origins, e \in touched'[s] : Serves(p, e, s)'
    BY <2>1, <2>2, ServingGoesOn
  <2>3. CASE phase[s] = "dispatch" /\ candidates[s] # {}
    <3>1. ASSUME NEW d \in Devices, DispatchCandidate(s, d)
          PROVE  \E p \in Origins, e \in touched'[s] : Serves(p, e, s)'
      <4>1. d \in touched[s]
        BY <1>1, <2>3, <3>1 DEF DispatchCandidate, FlushedRows
      <4>2. jobPhase'[<<s, d>>] = "queued" /\ s \in Origins
        BY <1>1, <3>1, ScanOrigin, JobIndex DEF DispatchCandidate, TypeOK
      <4>3. Serves(s, d, s)'
        BY <4>2 DEF Serves
      <4> QED BY <2>1, <4>1, <4>2, <4>3
    <3>2. ASSUME \A d \in Devices : ~DispatchCandidate(s, d)
          PROVE  UNCHANGED <<phase[s], candidates[s]>>
      <4>1. ASSUME NEW r \in Scans, ApiStep(r) PROVE UNCHANGED <<phase[s], candidates[s]>>
        <5>1. ~EnqueueScan(s)
          BY <1>1, <2>3 DEF EnqueueScan, TaskMatchesStatus
        <5> QED BY <1>1, <4>1, <5>1 DEF ApiStep, StartScanCheck, StartScanInsert,
                 EnqueueScan, RequestDies, StopScanRead, StopScanCommit, TypeOK
      <4>2. ASSUME NEW r \in Scans \ {s}, ScanTaskStep(r)
            PROVE  UNCHANGED <<phase[s], candidates[s]>>
        <5>1. ASSUME NEW e \in Devices,
                     HostUpdate(r, e) \/ HostInsert(r, e) \/ HostSupersede(r, e)
              PROVE  UNCHANGED <<phase[s], candidates[s]>>
          <6>1. RecordHost(r, e)
            BY <5>1 DEF HostUpdate, HostInsert, HostSupersede
          <6> QED BY <1>1, <4>2, <6>1 DEF RecordHost, TypeOK
        <5>2. ASSUME NEW e \in Devices, HostResolve(r, e) \/ DispatchCandidate(r, e)
              PROVE  UNCHANGED <<phase[s], candidates[s]>>
          BY <1>1, <4>2, <5>2 DEF HostResolve, DispatchCandidate, TypeOK
        <5>3. CASE \/ DiscoveryRead(r) \/ DiscoveryClaim(r) \/ DiscoverySwept(r)
                   \/ DiscoveryCommit(r) \/ DiscoveryFails(r) \/ ScanTaskEnds(r)
          BY <1>1, <4>2, <5>3 DEF DiscoveryRead, DiscoveryClaim, DiscoverySwept,
               DiscoveryCommit, DiscoveryFails, ScanTaskEnds, TypeOK
        <5> QED BY <4>2, <5>1, <5>2, <5>3 DEF ScanTaskStep
      <4>3. ~ScanTaskStep(s)
        BY <2>3, <3>2 DEF ScanTaskStep, DiscoveryRead, DiscoveryClaim, DiscoverySwept,
             HostResolve, HostUpdate, HostInsert, HostSupersede, DiscoveryCommit,
             DiscoveryFails, ScanTaskEnds, Body
      <4>4. ASSUME \/ \E d \in Devices : CollectDevice(d)
                   \/ \E o \in Origins, d \in Devices : CollectStep(o, d)
                   \/ UNCHANGED vars
            PROVE  UNCHANGED <<phase, candidates>>
        BY <4>4 DEF CollectDevice, CollectStep, CollectBegin, CollectSave, FinalizeRead,
             FinalizeSkips, FinalizeJudge, FinalizeCommit, CollectEnds, vars
      <4> QED BY <2>1, <4>1, <4>2, <4>3, <4>4 DEF Next
    <3> QED BY <2>3, <3>1, <3>2
  <2>4. \/ phase[s] = "dispatch" /\ candidates[s] # {}
        \/ \E o \in Origins, d \in touched[s] : Serves(o, d, s)
    BY <2>1 DEF ServiceInv, Served
  <2> QED BY <2>2, <2>3, <2>4
<1> QED BY <1>2, <1>3

\* The invariant of the finalizers holds in every reachable state.
THEOREM ServiceInvariance == Spec => []ServiceInv
<1>1. ServiceInv /\ [Next]_vars => ServiceInv'
  BY IInvStep, JudgeableStep, ServedStep DEF ServiceInv
<1> QED BY <1>1, InitServiceInv, PTL DEF Spec

\* Without faults and later scans over its devices, a scan that is SCANNING has
\* a collection to come that will look at it (_finalize_device_scan).
THEOREM ScansAreServed == Spec => []ScanningIsServed
<1>1. ServiceInv => ScanningIsServed
  BY DEF ServiceInv, Served, Serves, ScanningIsServed, Running
<1> QED BY <1>1, ServiceInvariance, PTL

----------------------------------------------------------------------------
(* The row of a scan, and who has it in hand *)

\* A scan that is being swept or waits for collections was started, and no
\* finalizer closes one as cancelled.
SweepsAreStarted ==
    \A s \in Scans :
        (\/ phase[s] \in {"sweeping", "hosts", "resolved"}
         \/ status[s] \in {"discovering", "identifying", "scanning"})
            => started[s]

VerdictsClose ==
    \A k \in Jobs : jobPhase[k] = "judged" => verdict[k] \in Record!Verdicts

RecordInv == IInv /\ SweepsAreStarted /\ VerdictsClose

\* Two sets of scans, seen through the variables they are made of.
LEMMA SameSweeping ==
  ASSUME \A s \in Scans : phase'[s] \in Body <=> phase[s] \in Body
  PROVE  Sweeping' = Sweeping
BY DEF Sweeping

LEMMA SweepingMoves ==
  ASSUME TypeOK, NEW s \in Scans, NEW p, phase' = [phase EXCEPT ![s] = p]
  PROVE  Sweeping' = IF p \in Body THEN Sweeping \union {s} ELSE Sweeping \ {s}
BY DEF Sweeping, TypeOK

LEMMA SweepingStays ==
  ASSUME TypeOK, NEW s \in Scans, NEW p, phase' = [phase EXCEPT ![s] = p],
         p \in Body <=> phase[s] \in Body
  PROVE  Sweeping' = Sweeping
BY SameSweeping DEF TypeOK

LEMMA SameJudging == ASSUME UNCHANGED target PROVE Judging' = Judging
BY DEF Judging

\* The end of a collection's session takes at most the scan it judged out.
LEMMA JudgingCloses ==
  ASSUME TypeOK, NEW o \in Origins, NEW d \in Devices, NEW p, CloseJob(o, d, p)
  PROVE  \/ Judging' = Judging
         \/ /\ target[<<o, d>>] \in Judging
            /\ Judging' = Judging \ {target[<<o, d>>]}
<1> DEFINE t == target[<<o, d>>]
<1>1. /\ <<o, d>> \in Jobs
      /\ target' = [target EXCEPT ![<<o, d>>] = NoScan]
  BY JobIndex DEF CloseJob
<1>2. target'[<<o, d>>] = NoScan /\ \A k \in Jobs \ {<<o, d>>} : target'[k] = target[k]
  BY <1>1 DEF TypeOK
<1>3. \A s \in Scans \ {t} : s \in Judging' <=> s \in Judging
  BY <1>1, <1>2, ConstantsAssumption DEF Judging, ConstantsAssumption
<1>4. t \in Scans => t \in Judging
  BY <1>1 DEF Judging
<1>5. Judging \subseteq Scans /\ Judging' \subseteq Scans
  BY DEF Judging
<1> HIDE DEF t
<1>6. CASE t \in Scans /\ t \notin Judging'
  <2>1. Judging' = Judging \ {t}
    BY <1>3, <1>5, <1>6
  <2> QED BY <1>4, <1>6, <2>1 DEF t
<1>7. CASE t \notin Scans \/ t \in Judging'
  BY <1>3, <1>4, <1>5, <1>7
<1> QED BY <1>6, <1>7

\* Nothing is in hand before the first request.
LEMMA InitRecordInv == Init => RecordInv /\ Record!Init
<1> SUFFICES ASSUME Init PROVE RecordInv /\ Record!Init
  OBVIOUS
<1>1. RecordInv
  BY InitIInv DEF Init, RecordInv, SweepsAreStarted, VerdictsClose
<1>2. Sweeping = {}
  BY DEF Init, Sweeping, Body
<1>3. Judging = {}
  BY ConstantsAssumption DEF Init, Judging, ConstantsAssumption
<1> QED BY <1>1, <1>2, <1>3 DEF Init, Record!Init

\* A scan is started before anything else happens to it.
LEMMA SweepsAreStartedStep ==
  ASSUME RecordInv, [Next]_vars
  PROVE  SweepsAreStarted'
<1> USE DEF scanVars, taskVars
<1>1. TypeOK /\ JudgedAfterSweep /\ TaskMatchesStatus /\ SweepsAreStarted
  BY DEF RecordInv, IInv
<1>2. ASSUME NEW s \in Scans, ApiStep(s) PROVE SweepsAreStarted'
  BY <1>1, <1>2 DEF ApiStep, StartScanCheck, StartScanInsert, EnqueueScan,
       RequestDies, StopScanRead, StopScanCommit, TypeOK, SweepsAreStarted,
       TaskMatchesStatus
<1>3. ASSUME NEW s \in Scans, ScanTaskStep(s) PROVE SweepsAreStarted'
  <2>1. ASSUME NEW d \in Devices, HostUpdate(s, d) \/ HostInsert(s, d) \/ HostSupersede(s, d)
        PROVE  SweepsAreStarted'
    <3>1. /\ phase' = [phase EXCEPT ![s] = "hosts"] /\ UNCHANGED <<status, started>>
          /\ phase[s] \in {"hosts", "resolved"}
      BY <2>1 DEF HostUpdate, HostInsert, HostSupersede, RecordHost
    <3> QED BY <1>1, <3>1 DEF TypeOK, SweepsAreStarted
  <2>2. ASSUME NEW d \in Devices, HostResolve(s, d) \/ DispatchCandidate(s, d)
        PROVE  SweepsAreStarted'
    BY <1>1, <2>2 DEF HostResolve, DispatchCandidate, TypeOK, SweepsAreStarted
  <2>3. CASE DiscoveryCommit(s)
    <3>1. /\ phase[s] = "hosts" /\ phase' = [phase EXCEPT ![s] = "dispatch"]
          /\ \E st \in {"scanning", "completed"} : status' = [status EXCEPT ![s] = st]
          /\ UNCHANGED started
      BY <2>3 DEF DiscoveryCommit, StatusAfterSweep
    <3> QED BY <1>1, <3>1 DEF TypeOK, SweepsAreStarted
  <2>4. CASE DiscoveryRead(s) \/ DiscoveryClaim(s) \/ DiscoverySwept(s)
    BY <1>1, <2>4 DEF DiscoveryRead, DiscoveryClaim, DiscoverySwept, TypeOK, SweepsAreStarted
  <2>5. CASE DiscoveryFails(s) \/ ScanTaskEnds(s)
    BY <1>1, <2>5 DEF DiscoveryFails, ScanTaskEnds, TypeOK, SweepsAreStarted
  <2> QED BY <1>3, <2>1, <2>2, <2>3, <2>4, <2>5 DEF ScanTaskStep
<1>4. ASSUME NEW o \in Origins, NEW d \in Devices,
             CollectStep(o, d) \/ CollectError(o, d) \/ CollectCrash(o, d)
      PROVE  SweepsAreStarted'
  <2>1. CASE FinalizeCommit(o, d)
    <3>1. verdict[<<o, d>>] \in TerminalStatus
      BY <1>1, <2>1, JobIndex DEF FinalizeCommit, JudgedAfterSweep
    <3>2. /\ UNCHANGED <<started, phase>>
          /\ status' = [status EXCEPT ![target[<<o, d>>]] = verdict[<<o, d>>]]
      BY <2>1 DEF FinalizeCommit
    <3> QED BY <1>1, <3>1, <3>2 DEF TypeOK, SweepsAreStarted, TerminalStatus
  <2>2. CASE ~FinalizeCommit(o, d)
    <3>1. UNCHANGED <<status, started, phase>>
      BY <1>4, <2>2 DEF CollectStep, CollectBegin, CollectSave, FinalizeRead,
           FinalizeSkips, FinalizeJudge, CollectEnds, CollectError, CollectCrash
    <3> QED BY <1>1, <3>1 DEF SweepsAreStarted
  <2> QED BY <2>1, <2>2
<1>5. ASSUME NEW s \in Scans, ScanTaskError(s) \/ ScanTaskCrash(s)
      PROVE  SweepsAreStarted'
  <2>1. /\ UNCHANGED <<status, started>>
        /\ \E p \in {"queued", "lost"} : phase' = [phase EXCEPT ![s] = p]
    BY <1>5 DEF ScanTaskError, ScanTaskCrash
  <2> QED BY <1>1, <2>1 DEF TypeOK, SweepsAreStarted
<1>6. ASSUME (\E d \in Devices : CollectDevice(d)) \/ UNCHANGED vars
      PROVE  SweepsAreStarted'
  BY <1>1, <1>6 DEF CollectDevice, vars, SweepsAreStarted
<1> QED BY <1>2, <1>3, <1>4, <1>5, <1>6 DEF Next, FaultStep

\* Only a finalizer's judgement makes a verdict.
LEMMA VerdictsCloseStep ==
  ASSUME RecordInv, [Next]_vars
  PROVE  VerdictsClose'
<1> USE DEF jobVars
<1>1. TypeOK /\ VerdictsClose
  BY DEF RecordInv, IInv
<1>2. ASSUME NEW o \in Origins, NEW d \in Devices, NEW p \in JobPhase \ {"judged"},
             CloseJob(o, d, p)
      PROVE  VerdictsClose'
  <2>1. \A k \in Jobs : jobPhase'[k] = "judged" =>
            jobPhase[k] = "judged" /\ verdict'[k] = verdict[k]
    <3> SUFFICES ASSUME NEW k \in Jobs, jobPhase'[k] = "judged"
                 PROVE  jobPhase[k] = "judged" /\ verdict'[k] = verdict[k]
      OBVIOUS
    <3>1. k # <<o, d>>
      <4>1. jobPhase'[<<o, d>>] = p
        BY <1>1, <1>2, JobIndex DEF CloseJob, TypeOK
      <4> QED BY <4>1
    <3> QED BY <1>1, <1>2, <3>1 DEF CloseJob, TypeOK
  <2> QED BY <1>1, <2>1 DEF VerdictsClose
<1>3. ASSUME UNCHANGED verdict,
             \A k \in Jobs : jobPhase'[k] = "judged" => jobPhase[k] = "judged"
      PROVE  VerdictsClose'
  BY <1>1, <1>3 DEF VerdictsClose
<1>4. ASSUME NEW o \in Origins, NEW d \in Devices, CollectStep(o, d)
      PROVE  VerdictsClose'
  <2>1. CASE CollectBegin(o, d) \/ CollectSave(o, d) \/ FinalizeRead(o, d)
    BY <1>1, <1>3, <2>1, JobIndex DEF CollectBegin, CollectSave, FinalizeRead, TypeOK
  <2>2. CASE CloseJob(o, d, "closing") \/ CloseJob(o, d, "done")
    BY <1>2, <2>2 DEF JobPhase
  <2>3. CASE /\ jobPhase' = [jobPhase EXCEPT ![<<o, d>>] = "judged"]
             /\ verdict' = [verdict EXCEPT ![<<o, d>>] = ScanVerdict(StatusesRead(o, d))]
    <3>1. ScanVerdict(StatusesRead(o, d)) \in Record!Verdicts
      BY DEF ScanVerdict, Record!Verdicts
    <3> QED BY <1>1, <2>3, <3>1, JobIndex DEF TypeOK, VerdictsClose
  <2> QED BY <1>4, <2>1, <2>2, <2>3
          DEF CollectStep, FinalizeSkips, FinalizeJudge, FinalizeCommit, CollectEnds
<1>5. ASSUME NEW o \in Origins, NEW d \in Devices, CollectError(o, d) \/ CollectCrash(o, d)
      PROVE  VerdictsClose'
  <2>1. CloseJob(o, d, "queued") \/ CloseJob(o, d, "dropped")
    BY <1>5 DEF CollectError, CollectCrash
  <2> QED BY <1>2, <2>1 DEF JobPhase
<1>6. ASSUME NEW d \in Devices, CollectDevice(d)
      PROVE  VerdictsClose'
  BY <1>1, <1>3, <1>6 DEF CollectDevice, TypeOK
<1>7. ASSUME NEW s \in Scans, ApiStep(s) \/ ScanTaskError(s) \/ ScanTaskCrash(s)
      PROVE  VerdictsClose'
  BY <1>3, <1>7 DEF ApiStep, StartScanCheck, StartScanInsert, EnqueueScan, RequestDies,
       StopScanRead, StopScanCommit, ScanTaskError, ScanTaskCrash
<1>8. ASSUME NEW s \in Scans, ScanTaskStep(s)
      PROVE  VerdictsClose'
  BY <1>1, <1>3, <1>8 DEF ScanTaskStep, DiscoveryRead, DiscoveryClaim, DiscoverySwept,
       HostResolve, HostUpdate, HostInsert, HostSupersede, DispatchCandidate,
       DiscoveryCommit, DiscoveryFails, ScanTaskEnds, TypeOK
<1>9. CASE UNCHANGED vars
  BY <1>3, <1>9 DEF vars
<1> QED BY <1>4, <1>5, <1>6, <1>7, <1>8, <1>9 DEF Next, FaultStep


\* Nothing of the row changes, nor who has it in hand.
LEMMA RecordStutters ==
  ASSUME UNCHANGED <<status, started, stopping>>, Sweeping' = Sweeping, Judging' = Judging
  PROVE  [Record!Next]_(Record!vars)
BY DEF Record!vars

\* A request to the API starts the scan, stops it, or changes nothing of it.
LEMMA ApiKeepsRecord ==
  ASSUME RecordInv, NEW s \in Scans, ApiStep(s)
  PROVE  [Record!Next]_(Record!vars)
<1>1. TypeOK /\ TaskMatchesStatus
  BY DEF RecordInv, IInv
<1>2. Judging' = Judging
  BY SameJudging DEF ApiStep, StartScanCheck, StartScanInsert, EnqueueScan,
       RequestDies, StopScanRead, StopScanCommit, jobVars
<1>3. CASE EnqueueScan(s)
  <2>1. phase[s] = "none"
    BY <1>1, <1>3 DEF EnqueueScan, TaskMatchesStatus
  <2>2. Sweeping' = Sweeping
    BY <1>1, <1>3, <2>1, SweepingStays DEF EnqueueScan, Body
  <2> QED BY <1>2, <1>3, <2>2, RecordStutters DEF EnqueueScan, scanVars
<1>4. CASE ~EnqueueScan(s)
  <2>1. Sweeping' = Sweeping
    BY <1>4, SameSweeping DEF ApiStep, StartScanCheck, StartScanInsert,
         RequestDies, StopScanRead, StopScanCommit, taskVars
  <2>2. CASE StartScanCheck(s) \/ RequestDies(s)
    BY <1>2, <2>1, <2>2, RecordStutters
       DEF StartScanCheck, RequestDies, scanVars, apiVars
  <2>3. CASE StartScanInsert(s)
    <3>1. status[s] = "none"
      BY <1>1, <2>3 DEF StartScanInsert, TaskMatchesStatus
    <3>2. Record!Start(s)
      BY <1>2, <2>1, <2>3, <3>1 DEF StartScanInsert, Record!Start
    <3> QED BY <3>2 DEF Record!Next
  <2>4. CASE StopScanRead(s)
    <3>1. Record!WantStop(s)
      BY <1>2, <2>1, <2>4
         DEF StopScanRead, scanVars, ActiveStatus, Record!WantStop, Record!Active
    <3> QED BY <3>1 DEF Record!Next
  <2>5. CASE StopScanCommit(s)
    <3>1. Record!Stop(s)
      BY <1>2, <2>1, <2>5 DEF StopScanCommit, Record!Stop
    <3> QED BY <3>1 DEF Record!Next
  <2> QED BY <1>4, <2>2, <2>3, <2>4, <2>5 DEF ApiStep
<1> QED BY <1>3, <1>4

\* The task takes the scan up, moves it on, or ends the sweep.
LEMMA TaskKeepsRecord ==
  ASSUME RecordInv, NEW s \in Scans, ScanTaskStep(s)
  PROVE  [Record!Next]_(Record!vars)
<1>1. TypeOK /\ TaskMatchesStatus /\ JudgedAfterSweep /\ SweepsAreStarted
  BY DEF RecordInv, IInv
<1>2. Judging' = Judging
  BY SameJudging DEF ScanTaskStep, DiscoveryRead, DiscoveryClaim, DiscoverySwept,
       HostResolve, HostUpdate, HostInsert, HostSupersede, DispatchCandidate,
       DiscoveryCommit, DiscoveryFails, ScanTaskEnds, jobVars
<1>3. CASE DiscoveryRead(s)
  <2>1. phase[s] = "queued" /\ s \notin Sweeping
    BY <1>3 DEF DiscoveryRead, Sweeping, Body
  <2>2. UNCHANGED <<status, started, stopping>>
    BY <1>3 DEF DiscoveryRead, scanVars, apiVars
  <2>3. CASE MayClaim(s)
    <3>1. phase' = [phase EXCEPT ![s] = "read"]
      BY <1>3, <2>3 DEF DiscoveryRead
    <3>2. Sweeping' = Sweeping \union {s}
      BY <1>1, <3>1, SweepingMoves DEF Body
    <3>3. status[s] = "pending" /\ ~started[s]
      BY <1>1, <2>3 DEF MayClaim, TaskMatchesStatus
    <3>4. s \notin Judging
      <4> SUFFICES ASSUME NEW k \in Jobs, target[k] = s PROVE FALSE
        BY DEF Judging
      <4>1. s # NoScan
        BY ConstantsAssumption DEF ConstantsAssumption
      <4>2. status[s] \in TerminalStatus \cup {"scanning"}
        BY <1>1, <4>1 DEF JudgedAfterSweep
      <4> QED BY <3>3, <4>2 DEF TerminalStatus
    <3>5. Record!Take(s)
      BY <1>2, <2>1, <2>2, <3>2, <3>3, <3>4 DEF Record!Take
    <3> QED BY <3>5 DEF Record!Next
  <2>4. CASE ~MayClaim(s)
    <3>1. phase' = [phase EXCEPT ![s] = "done"]
      BY <1>3, <2>4 DEF DiscoveryRead
    <3>2. Sweeping' = Sweeping
      BY <1>1, <2>1, <3>1, SweepingStays DEF Body
    <3> QED BY <1>2, <2>2, <3>2, RecordStutters
  <2> QED BY <2>3, <2>4
<1>4. CASE DiscoveryClaim(s)
  <2>1. /\ s \in Sweeping /\ ~started[s]
        /\ status[s] \in {"pending", "cancelled"}
    BY <1>1, <1>4 DEF DiscoveryClaim, TaskMatchesStatus, Sweeping, Body
  <2>2. Sweeping' = Sweeping
    BY <1>1, <1>4, SweepingStays DEF DiscoveryClaim, Body
  <2>3. Record!Discover(s)
    BY <1>2, <1>4, <2>1, <2>2 DEF DiscoveryClaim, apiVars, Record!Discover
  <2> QED BY <2>3 DEF Record!Next
<1>5. CASE DiscoverySwept(s)
  <2>1. /\ s \in Sweeping /\ started[s]
        /\ status[s] \in {"discovering", "cancelled"}
    BY <1>1, <1>5
       DEF DiscoverySwept, TaskMatchesStatus, SweepsAreStarted, Sweeping, Body
  <2>2. Sweeping' = Sweeping
    BY <1>1, <1>5, SweepingStays DEF DiscoverySwept, Body
  <2>3. UNCHANGED <<started, stopping>>
    BY <1>5 DEF DiscoverySwept, apiVars
  <2>4. CASE mode[s] = "quick"
    BY <1>2, <1>5, <2>2, <2>3, <2>4, RecordStutters DEF DiscoverySwept
  <2>5. CASE mode[s] # "quick"
    <3>1. Record!Identify(s)
      BY <1>2, <1>5, <2>1, <2>2, <2>3, <2>5 DEF DiscoverySwept, Record!Identify
    <3> QED BY <3>1 DEF Record!Next
  <2> QED BY <2>4, <2>5
<1>6. ASSUME NEW d \in Devices,
             \/ HostResolve(s, d) \/ HostUpdate(s, d) \/ HostInsert(s, d)
             \/ HostSupersede(s, d)
      PROVE  [Record!Next]_(Record!vars)
  <2>1. /\ phase[s] \in {"hosts", "resolved"}
        /\ \E p \in {"hosts", "resolved"} : phase' = [phase EXCEPT ![s] = p]
        /\ UNCHANGED <<scanVars, apiVars>>
    BY <1>6 DEF HostResolve, HostUpdate, HostInsert, HostSupersede, RecordHost
  <2>2. Sweeping' = Sweeping
    BY <1>1, <2>1, SweepingStays DEF Body
  <2> QED BY <1>2, <2>1, <2>2, RecordStutters DEF scanVars, apiVars
<1>7. ASSUME NEW d \in Devices, DispatchCandidate(s, d)
      PROVE  [Record!Next]_(Record!vars)
  BY <1>2, <1>7, SameSweeping, RecordStutters DEF DispatchCandidate, scanVars, apiVars
<1>8. CASE DiscoveryCommit(s) \/ DiscoveryFails(s)
  <2>1. /\ phase[s] \in {"sweeping", "hosts", "resolved"}
        /\ \E p \in {"dispatch", "done"} : phase' = [phase EXCEPT ![s] = p]
        /\ \E result \in {"completed", "scanning", "failed"} :
              status' = [status EXCEPT ![s] = result]
        /\ UNCHANGED <<started, stopping>>
    BY <1>8 DEF DiscoveryCommit, DiscoveryFails, StatusAfterSweep, apiVars, Body
  <2>2. /\ s \in Sweeping /\ started[s]
        /\ status[s] \in {"discovering", "identifying", "cancelled"}
    BY <1>1, <2>1 DEF TaskMatchesStatus, SweepsAreStarted, Sweeping, Body
  <2>3. Sweeping' = Sweeping \ {s}
    BY <1>1, <2>1, SweepingMoves DEF Body
  <2>4. Record!EndSweep(s)
    BY <1>2, <2>1, <2>2, <2>3 DEF Record!EndSweep
  <2> QED BY <2>4 DEF Record!Next
<1>9. CASE ScanTaskEnds(s)
  <2>1. Sweeping' = Sweeping
    BY <1>1, <1>9, SweepingStays DEF ScanTaskEnds, Body
  <2> QED BY <1>2, <1>9, <2>1, RecordStutters DEF ScanTaskEnds, scanVars, apiVars
<1> QED BY <1>3, <1>4, <1>5, <1>6, <1>7, <1>8, <1>9 DEF ScanTaskStep

\* A collection takes the scan up, closes it, or leaves it to another one.
LEMMA CollectionKeepsRecord ==
  ASSUME RecordInv, NEW o \in Origins, NEW d \in Devices,
         CollectStep(o, d) \/ CollectError(o, d) \/ CollectCrash(o, d)
  PROVE  [Record!Next]_(Record!vars)
<1>1. TypeOK /\ TaskMatchesStatus /\ JudgedAfterSweep /\ SweepsAreStarted /\ VerdictsClose
  BY DEF RecordInv, IInv
<1>2. Sweeping' = Sweeping /\ UNCHANGED <<started, stopping>>
  BY SameSweeping DEF CollectStep, CollectBegin, CollectSave, FinalizeRead,
       FinalizeSkips, FinalizeJudge, FinalizeCommit, CollectEnds, CollectError,
       CollectCrash, scanVars, taskVars, apiVars
<1>3. CASE UNCHANGED <<status, target>>
  BY <1>2, <1>3, SameJudging, RecordStutters
<1>4. CASE UNCHANGED status /\ \E p \in JobPhase : CloseJob(o, d, p)
  <2>1. CASE Judging' = Judging
    BY <1>2, <1>4, <2>1, RecordStutters
  <2>2. CASE /\ target[<<o, d>>] \in Judging
             /\ Judging' = Judging \ {target[<<o, d>>]}
    <3>1. target[<<o, d>>] \in Scans
      BY <2>2 DEF Judging
    <3>2. Record!LeaveOpen(target[<<o, d>>])
      BY <1>2, <1>4, <2>2 DEF Record!LeaveOpen
    <3> QED BY <3>1, <3>2 DEF Record!Next
  <2> QED BY <1>1, <1>4, <2>1, <2>2, JudgingCloses
<1>5. CASE FinalizeRead(o, d)
  <2> DEFINE s == latest[d]
  <2>1. s \in Scans /\ status[s] = "scanning"
    BY <1>1, <1>5 DEF FinalizeRead, MayFinalize, TypeOK
  <2>2. /\ target' = [target EXCEPT ![<<o, d>>] = s]
        /\ UNCHANGED status
        /\ jobPhase[<<o, d>>] = "saved"
    BY <1>5 DEF FinalizeRead, scanVars
  <2> HIDE DEF s
  <2>3. started[s] /\ s \notin Sweeping
    BY <1>1, <2>1 DEF SweepsAreStarted, TaskMatchesStatus, Sweeping, Body
  <2>4. target[<<o, d>>] = NoScan
    BY <1>1, <2>2, JobIndex DEF JudgedAfterSweep
  <2>5. Judging' = Judging \union {s}
    <3>1. target'[<<o, d>>] = s /\ \A k \in Jobs \ {<<o, d>>} : target'[k] = target[k]
      BY <1>1, <2>2, JobIndex DEF TypeOK
    <3>2. \A r \in Scans \ {s} : r \in Judging' <=> r \in Judging
      BY <2>4, <3>1, JobIndex, ConstantsAssumption DEF Judging, ConstantsAssumption
    <3>3. s \in Judging'
      BY <2>1, <3>1, JobIndex DEF Judging
    <3>4. Judging \subseteq Scans /\ Judging' \subseteq Scans
      BY DEF Judging
    <3> QED BY <2>1, <3>2, <3>3, <3>4
  <2>6. Record!Judge(s)
    BY <1>2, <2>1, <2>2, <2>3, <2>5 DEF Record!Judge
  <2> QED BY <2>1, <2>6 DEF Record!Next
<1>6. CASE FinalizeCommit(o, d)
  <2> DEFINE s == target[<<o, d>>]
  <2>1. /\ jobPhase[<<o, d>>] = "judged"
        /\ status' = [status EXCEPT ![s] = verdict[<<o, d>>]]
        /\ CloseJob(o, d, "closing")
    BY <1>6 DEF FinalizeCommit
  <2>2. verdict[<<o, d>>] \in Record!Verdicts
    BY <1>1, <2>1, JobIndex DEF VerdictsClose
  <2>3. s \in Judging
    BY <1>1, <2>1, JobIndex DEF JudgedAfterSweep, TypeOK, Judging
  <2>4. Judging' \in {Judging, Judging \ {s}}
    BY <1>1, <2>1, JudgingCloses
  <2> HIDE DEF s
  <2>5. Record!Close(s)
    BY <1>2, <2>1, <2>2, <2>3, <2>4 DEF Record!Close
  <2>6. s \in Scans
    BY <2>3 DEF Judging
  <2> QED BY <2>5, <2>6 DEF Record!Next
<1>7. CASE CollectBegin(o, d) \/ CollectSave(o, d)
  BY <1>3, <1>7 DEF CollectBegin, CollectSave, scanVars
<1>8. CASE FinalizeSkips(o, d) \/ CollectEnds(o, d)
  <2>1. UNCHANGED status
    BY <1>8 DEF FinalizeSkips, CollectEnds, scanVars
  <2>2. \E p \in JobPhase : CloseJob(o, d, p)
    BY <1>8 DEF FinalizeSkips, CollectEnds, JobPhase
  <2> QED BY <1>4, <2>1, <2>2
<1>9. CASE FinalizeJudge(o, d)
  <2>1. UNCHANGED status
    BY <1>9 DEF FinalizeJudge, scanVars
  <2>2. UNCHANGED target \/ CloseJob(o, d, "closing")
    BY <1>9 DEF FinalizeJudge
  <2> QED BY <1>3, <1>4, <2>1, <2>2 DEF JobPhase
<1>10. CASE CollectError(o, d) \/ CollectCrash(o, d)
  <2>1. UNCHANGED status
    BY <1>10 DEF CollectError, CollectCrash, scanVars
  <2>2. \E p \in JobPhase : CloseJob(o, d, p)
    BY <1>10 DEF CollectError, CollectCrash, JobPhase
  <2> QED BY <1>4, <2>1, <2>2
<1> QED BY <1>5, <1>6, <1>7, <1>8, <1>9, <1>10 DEF CollectStep

\* Every step is one of ScanRecord's or a stutter: a task that fails or dies
\* gives the sweep up, and what is left was shown above.
LEMMA RecordStep ==
  ASSUME RecordInv, [Next]_vars
  PROVE  [Record!Next]_(Record!vars)
<1>1. TypeOK
  BY DEF RecordInv, IInv
<1>2. ASSUME NEW s \in Scans, ScanTaskError(s) \/ ScanTaskCrash(s)
      PROVE  [Record!Next]_(Record!vars)
  <2>1. /\ UNCHANGED <<status, started, stopping, target>>
        /\ \E p \in {"queued", "lost"} : phase' = [phase EXCEPT ![s] = p]
    BY <1>2 DEF ScanTaskError, ScanTaskCrash, scanVars, apiVars, jobVars
  <2>2. Sweeping' = Sweeping \ {s}
    BY <1>1, <2>1, SweepingMoves DEF Body
  <2>3. Judging' = Judging
    BY <2>1, SameJudging
  <2>4. CASE s \in Sweeping
    <3>1. Record!GiveUp(s)
      BY <2>1, <2>2, <2>3, <2>4 DEF Record!GiveUp
    <3> QED BY <3>1 DEF Record!Next
  <2>5. CASE s \notin Sweeping
    BY <2>1, <2>2, <2>3, <2>5, RecordStutters
  <2> QED BY <2>4, <2>5
<1>3. ASSUME (\E d \in Devices : CollectDevice(d)) \/ UNCHANGED vars
      PROVE  [Record!Next]_(Record!vars)
  <2>1. UNCHANGED <<status, started, stopping, phase, target>>
    BY <1>3 DEF CollectDevice, vars, scanVars, apiVars, taskVars, jobVars
  <2> QED BY <2>1, SameSweeping, SameJudging, RecordStutters
<1> QED BY <1>2, <1>3, ApiKeepsRecord, TaskKeepsRecord, CollectionKeepsRecord
        DEF Next, FaultStep

\* The invariant of the refinement is inductive.
LEMMA RecordInvStep == RecordInv /\ [Next]_vars => RecordInv'
<1> SUFFICES ASSUME RecordInv, [Next]_vars PROVE RecordInv'
  OBVIOUS
<1>1. IInv'
  BY IInvStep DEF RecordInv
<1> QED BY <1>1, SweepsAreStartedStep, VerdictsCloseStep DEF RecordInv

\* The row of a scan does only what ScanRecord allows (every write of the
\* status by run_discovery_scan_task, stop_scan and finalize_scan_if_complete,
\* whatever is redelivered, retried or interleaved).
THEOREM ImplementsRecord == Spec => KeepsRecord
<1>1. RecordInv /\ [Next]_vars => [Record!Next]_(Record!vars)
  BY RecordStep
<1> QED BY <1>1, InitRecordInv, RecordInvStep, PTL DEF Spec, KeepsRecord, Record!Spec

=============================================================================
