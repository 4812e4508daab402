--------------------------- MODULE ScanLifecycle ---------------------------
(***************************************************************************)
(* The life of a network scan of one organization: the API requests that   *)
(* start and stop it, the Celery task that sweeps the network and commits  *)
(* the devices it met, the credentialed collections that the task (or the  *)
(* API) starts for single devices, and the finalizer that each collection  *)
(* runs at its end to close the scan.                                      *)
(*                                                                         *)
(* The database is PostgreSQL at READ COMMITTED behind an ORM session that *)
(* neither versions nor locks what it reads: a handler that reads a row    *)
(* and later writes it is two actions here, with everything else free to   *)
(* happen between them.  The one thing the database does order is two      *)
(* open transactions that update the same row: the second one waits.       *)
(***************************************************************************)
EXTENDS Naturals, FiniteSets

CONSTANTS
    Scans,              \* the network_scans rows, one per start request
    Devices,            \* the devices rows
    NoScan, NoDevice,   \* no row
    CollectTask,        \* origin of a collection requested over the API ...
    CollectLoop,        \* ... and of its twin in the API's own event loop
    OnRequest,          \* the devices users ask to collect (bounds the API's jobs)
    FirstStatuses,      \* what earlier scans have left in the devices rows
    MaxScanRetries,     \* max_retries of run_network_scan_task
    MaxCollectRetries,  \* max_retries of run_device_inventory_task
    MaxFaults           \* bound on crashes and escaping exceptions

ASSUME ConstantsAssumption ==
    /\ NoScan \notin Scans
    /\ NoDevice \notin Devices
    /\ CollectTask \notin Scans /\ CollectLoop \notin Scans
    /\ CollectTask # CollectLoop
    /\ OnRequest \subseteq Devices
    /\ MaxScanRetries \in Nat /\ MaxCollectRetries \in Nat /\ MaxFaults \in Nat

ASSUME FirstStatusesAssumption ==
    FirstStatuses \subseteq {"absent", "null", "discovered", "offline",
                             "completed", "failed"}

VARIABLES
    \* Committed rows.
    status,      \* status[s] of a network_scans row, "none" before the insert
    mode,        \* scan_type[s], the depth of the scan
    started,     \* whether started_at of s is set
    device,      \* device[d]: scan_status of a devices row
    touched,     \* touched[s]: the devices with a device_scan_history row of s
    latest,      \* latest[d]: the scan of d's newest device_scan_history row
    \* Requests under way in the API.
    request,     \* request[s]: how far the POST that starts s has come
    stopping,    \* the scans some stop_scan has read as active
    \* The Celery task of a scan and its open transaction.
    phase,       \* phase[s]: where the task is
    retries,     \* how often Celery has retried it
    candidates,  \* the devices it will queue a collection for
    wrote,       \* wrote[s][d]: what it has flushed to the row of d
    history,     \* the devices it has added a history row for
    row, seen,   \* the row it has resolved for a host, and the status it read
    \* The collection of d that o asked for, at index <<o, d>>.
    jobPhase,
    attempts,    \* how often Celery has retried it
    own,         \* the status it wrote, and its session remembers
    target,      \* the scan its finalizer judges
    verdict,     \* and the status the finalizer will write
    faults       \* crashes and escaping exceptions so far

scanVars == <<status, mode, started>>
deviceVars == <<device, touched, latest>>
apiVars == <<request, stopping>>
txVars == <<wrote, history, row, seen>>
taskVars == <<phase, retries, candidates, txVars>>
jobVars == <<jobPhase, attempts, own, target, verdict>>

vars == <<scanVars, deviceVars, apiVars, taskVars, jobVars, faults>>

----------------------------------------------------------------------------
(* Status values and rows *)

ScanMode == {"quick", "standard", "full"}

ActiveStatus == {"pending", "discovering", "identifying", "scanning"}

TerminalStatus ==
    {"completed", "partial", "failed", "credentials_required", "cancelled"}

ScanStatus == ActiveStatus \cup TerminalStatus

\* "absent": the row is not there yet; "null": the row is older than the
\* column.
DeviceScanStatus ==
    {"absent", "null", "discovered", "identifying", "scanning", "completed",
     "partial", "failed", "credentials_required", "offline"}

\* What an open scan transaction has flushed to a device row: nothing, an
\* update that leaves scan_status alone, or a new scan_status.
DeviceWrite == {"none", "keep", "discovered", "offline"}

Origins == Scans \cup {CollectTask, CollectLoop}
Jobs == Origins \X Devices

TaskPhase ==
    {"none", "queued", "read", "sweeping", "hosts", "resolved", "dispatch",
     "done", "lost"}
JobPhase ==
    {"none", "queued", "collecting", "saved", "judging", "judged", "closing",
     "done", "dropped"}

TypeOK ==
    /\ status \in [Scans -> ScanStatus \cup {"none"}]
    /\ mode \in [Scans -> ScanMode]
    /\ started \in [Scans -> BOOLEAN]
    /\ device \in [Devices -> DeviceScanStatus]
    /\ touched \in [Scans -> SUBSET Devices]
    /\ latest \in [Devices -> Scans \cup {NoScan}]
    /\ request \in [Scans -> {"idle", "checked", "inserted", "sent", "dead"}]
    /\ stopping \in SUBSET Scans
    /\ phase \in [Scans -> TaskPhase]
    /\ retries \in [Scans -> Nat]
    /\ candidates \in [Scans -> SUBSET Devices]
    /\ wrote \in [Scans -> [Devices -> DeviceWrite]]
    /\ history \in [Scans -> SUBSET Devices]
    /\ row \in [Scans -> Devices \cup {NoDevice}]
    /\ seen \in [Scans -> DeviceScanStatus]
    /\ jobPhase \in [Jobs -> JobPhase]
    /\ attempts \in [Jobs -> Nat]
    /\ own \in [Jobs -> DeviceScanStatus]
    /\ target \in [Jobs -> Scans \cup {NoScan}]
    /\ verdict \in [Jobs -> ScanStatus \cup {"none"}]
    /\ faults \in Nat

NoWrites == [d \in Devices |-> "none"]

Init ==
    /\ status = [s \in Scans |-> "none"]
    /\ mode = [s \in Scans |-> "standard"]
    /\ started = [s \in Scans |-> FALSE]
    /\ device \in [Devices -> FirstStatuses]
    /\ touched = [s \in Scans |-> {}]
    /\ latest = [d \in Devices |-> NoScan]
    /\ request = [s \in Scans |-> "idle"]
    /\ stopping = {}
    /\ phase = [s \in Scans |-> "none"]
    /\ retries = [s \in Scans |-> 0]
    /\ candidates = [s \in Scans |-> {}]
    /\ wrote = [s \in Scans |-> NoWrites]
    /\ history = [s \in Scans |-> {}]
    /\ row = [s \in Scans |-> NoDevice]
    /\ seen = [s \in Scans |-> "absent"]
    /\ jobPhase = [k \in Jobs |-> "none"]
    /\ attempts = [k \in Jobs |-> 0]
    /\ own = [k \in Jobs |-> "absent"]
    /\ target = [k \in Jobs |-> NoScan]
    /\ verdict = [k \in Jobs |-> "none"]
    /\ faults = 0

----------------------------------------------------------------------------
(* Helpers *)

ActiveScans == {s \in Scans : status[s] \in ActiveStatus}

\* No open transaction has updated (or inserted) the row of d.
RowFree(d) ==
    /\ \A s \in Scans : wrote[s][d] = "none"
    /\ \A o \in Origins : jobPhase[<<o, d>>] # "collecting"

\* The task's transaction is over, by commit, rollback or death.
CloseTransaction(s) ==
    /\ wrote' = [wrote EXCEPT ![s] = NoWrites]
    /\ history' = [history EXCEPT ![s] = {}]
    /\ row' = [row EXCEPT ![s] = NoDevice]
    /\ seen' = [seen EXCEPT ![s] = "absent"]

\* A collection's session is over and its next phase is p.
CloseJob(o, d, p) ==
    /\ jobPhase' = [jobPhase EXCEPT ![<<o, d>>] = p]
    /\ own' = [own EXCEPT ![<<o, d>>] = "absent"]
    /\ target' = [target EXCEPT ![<<o, d>>] = NoScan]
    /\ verdict' = [verdict EXCEPT ![<<o, d>>] = "none"]

Fault == faults < MaxFaults /\ faults' = faults + 1

\* Variant: the task trusts the message and does not look at the status.
MayClaim_Unguarded(s) == TRUE

\* The guard with which a delivered task decides to do the work.
MayClaim(s) == status[s] = "pending"

\* Variant: the finalizer does not look at the status.
MayFinalize_Unguarded(s) == TRUE

\* The guard with which a finalizer decides to judge the scan.
MayFinalize(s) == status[s] = "scanning"

\* scan_status of an existing device that a sweep met again.
RediscoveredStatus(st) ==
    IF st \in {"null", "offline"} THEN "discovered" ELSE "keep"

\* Variant: every scan that met a device waits for collections.
StatusAfterSweep_AnyHost(s) == IF history[s] # {} THEN "scanning" ELSE "completed"

\* The status a sweep ends with.
StatusAfterSweep(s) == IF candidates[s] # {} THEN "scanning" ELSE "completed"

\* Variant: collections are queued while the rows are still being written.
MayDispatch_Early(s) == phase[s] \in {"hosts", "dispatch"}

\* Collections are queued after the commit.
MayDispatch(s) == phase[s] = "dispatch"

----------------------------------------------------------------------------
(* The requests of the API *)

\* start_scan: the query for an active scan finds none.  With one it answers
\* 400 and with several the query itself raises; neither changes anything.
StartScanCheck(s) ==
    /\ request[s] = "idle"
    /\ ActiveScans = {}
    /\ request' = [request EXCEPT ![s] = "checked"]
    /\ UNCHANGED <<scanVars, deviceVars, stopping, taskVars, jobVars, faults>>

\* start_scan: the row is inserted and committed.
StartScanInsert(s) ==
    /\ request[s] = "checked"
    /\ status' = [status EXCEPT ![s] = "pending"]
    /\ \E m \in ScanMode : mode' = [mode EXCEPT ![s] = m]
    /\ request' = [request EXCEPT ![s] = "inserted"]
    /\ UNCHANGED <<started, deviceVars, stopping, taskVars, jobVars, faults>>

\* _enqueue_scan: after the commit, in a second system.
EnqueueScan(s) ==
    /\ request[s] = "inserted"
    /\ request' = [request EXCEPT ![s] = "sent"]
    /\ phase' = [phase EXCEPT ![s] = "queued"]
    /\ UNCHANGED <<scanVars, deviceVars, stopping, retries, candidates, txVars,
                   jobVars, faults>>

\* The API process dies, or the broker refuses the message.
RequestDies(s) ==
    /\ request[s] \in {"checked", "inserted"}
    /\ Fault
    /\ request' = [request EXCEPT ![s] = "dead"]
    /\ UNCHANGED <<scanVars, deviceVars, stopping, taskVars, jobVars>>

\* stop_scan: the row is read; a scan that is not active is left alone.
StopScanRead(s) ==
    /\ s \notin stopping
    /\ status[s] \in ActiveStatus
    /\ stopping' = stopping \cup {s}
    /\ UNCHANGED <<scanVars, deviceVars, request, taskVars, jobVars, faults>>

\* stop_scan: CANCELLED is committed over whatever the row holds by now.
StopScanCommit(s) ==
    /\ s \in stopping
    /\ stopping' = stopping \ {s}
    /\ status' = [status EXCEPT ![s] = "cancelled"]
    /\ UNCHANGED <<mode, started, deviceVars, request, taskVars, jobVars, faults>>

\* _enqueue_device_inventory: one message for the worker (a failing broker is
\* ignored) and, always, a second collection in the API's event loop.
CollectDevice(d) ==
    /\ d \in OnRequest /\ device[d] # "absent"
    /\ jobPhase[<<CollectTask, d>>] = "none" /\ jobPhase[<<CollectLoop, d>>] = "none"
    /\ \E sent \in {"queued", "dropped"} :
         jobPhase' = [jobPhase EXCEPT ![<<CollectTask, d>>] = sent,
                                      ![<<CollectLoop, d>>] = "queued"]
    /\ UNCHANGED <<scanVars, deviceVars, apiVars, taskVars, attempts, own,
                   target, verdict, faults>>

----------------------------------------------------------------------------
(* run_network_scan_task / run_discovery_scan_task *)

\* The message is delivered and the row read; a scan that is no longer
\* pending is left alone and the message is acknowledged.
DiscoveryRead(s) ==
    /\ phase[s] = "queued"
    /\ phase' = [phase EXCEPT ![s] = IF MayClaim(s) THEN "read" ELSE "done"]
    /\ UNCHANGED <<scanVars, deviceVars, apiVars, retries, candidates, txVars,
                   jobVars, faults>>

\* DISCOVERING and started_at are committed.
DiscoveryClaim(s) ==
    /\ phase[s] = "read"
    /\ phase' = [phase EXCEPT ![s] = "sweeping"]
    /\ status' = [status EXCEPT ![s] = "discovering"]
    /\ started' = [started EXCEPT ![s] = TRUE]
    /\ UNCHANGED <<mode, deviceVars, apiVars, retries, candidates, txVars,
                   jobVars, faults>>

\* The sweep is over; unless the mode is quick, IDENTIFYING is committed.
DiscoverySwept(s) ==
    /\ phase[s] = "sweeping"
    /\ phase' = [phase EXCEPT ![s] = "hosts"]
    /\ status' = IF mode[s] = "quick" THEN status
                 ELSE [status EXCEPT ![s] = "identifying"]
    /\ UNCHANGED <<mode, started, deviceVars, apiVars, retries, candidates,
                   txVars, jobVars, faults>>

\* A host answered that resolve_device_identity maps to the existing row d.
\* (A second host of the same row finds it written and changes no more; that
\* it also queues a second collection is left out.)
HostResolve(s, d) ==
    /\ phase[s] = "hosts"
    /\ device[d] # "absent" /\ wrote[s][d] = "none"
    /\ phase' = [phase EXCEPT ![s] = "resolved"]
    /\ row' = [row EXCEPT ![s] = d]
    /\ seen' = [seen EXCEPT ![s] = device[d]]
    /\ UNCHANGED <<scanVars, deviceVars, apiVars, retries, candidates, wrote,
                   history, jobVars, faults>>

\* The host of row d is in the sweep's result; in full mode it may be of a
\* type that can be logged into, and so a candidate for collection.
RecordHost(s, d) ==
    /\ history' = [history EXCEPT ![s] = @ \cup {d}]
    /\ \E collectable \in BOOLEAN :
         candidates' = [candidates EXCEPT
           ![s] = IF collectable /\ mode[s] = "full" THEN @ \cup {d} ELSE @]
    /\ phase' = [phase EXCEPT ![s] = "hosts"]
    /\ row' = [row EXCEPT ![s] = NoDevice]
    /\ seen' = [seen EXCEPT ![s] = "absent"]

\* The row is updated: the flush waits until no other transaction holds it.
HostUpdate(s, d) ==
    /\ phase[s] = "resolved" /\ row[s] = d
    /\ RowFree(d)
    /\ wrote' = [wrote EXCEPT ![s][d] = RediscoveredStatus(seen[s])]
    /\ RecordHost(s, d)
    /\ UNCHANGED <<scanVars, deviceVars, apiVars, retries, jobVars, faults>>

\* A host no row stands for: a row is inserted.
HostInsert(s, d) ==
    /\ phase[s] = "hosts"
    /\ device[d] = "absent" /\ RowFree(d)
    /\ wrote' = [wrote EXCEPT ![s][d] = "discovered"]
    /\ RecordHost(s, d)
    /\ UNCHANGED <<scanVars, deviceVars, apiVars, retries, jobVars, faults>>

\* The row resolved has another MAC address: it is retired (without a
\* device_scan_history row) and the host gets a row of its own.
HostSupersede(s, d) ==
    /\ phase[s] = "resolved"
    /\ RowFree(row[s])
    /\ device[d] = "absent" /\ RowFree(d)
    /\ wrote' = [wrote EXCEPT ![s][row[s]] = "offline", ![s][d] = "discovered"]
    /\ RecordHost(s, d)
    /\ UNCHANGED <<scanVars, deviceVars, apiVars, retries, jobVars, faults>>

\* The silent devices of the range are marked offline (no UPDATE is sent for
\* a row that says so already) and everything is committed: device rows,
\* history rows and the scan's own status.
DiscoveryCommit(s) ==
    /\ phase[s] = "hosts"
    /\ \E silent \in SUBSET {d \in Devices : device[d] # "absent"
                                             /\ wrote[s][d] = "none"} :
         /\ \A d \in silent : device[d] = "offline" \/ RowFree(d)
         /\ device' = [d \in Devices |->
              IF d \in silent THEN "offline"
              ELSE IF wrote[s][d] \in {"none", "keep"} THEN device[d]
              ELSE wrote[s][d]]
         /\ touched' = [touched EXCEPT ![s] = history[s] \cup silent]
         /\ latest' = [d \in Devices |->
              IF d \in history[s] \cup silent THEN s ELSE latest[d]]
    /\ status' = [status EXCEPT ![s] = StatusAfterSweep(s)]
    /\ phase' = [phase EXCEPT ![s] = "dispatch"]
    /\ CloseTransaction(s)
    /\ UNCHANGED <<mode, started, apiVars, retries, candidates, jobVars, faults>>

\* The phases in which the task works on the scan.
Body == {"read", "sweeping", "hosts", "resolved"}

\* An exception inside the try block: rollback, and FAILED from another
\* session.
DiscoveryFails(s) ==
    /\ phase[s] \in Body \ {"read"}
    /\ phase' = [phase EXCEPT ![s] = "done"]
    /\ status' = [status EXCEPT ![s] = "failed"]
    /\ candidates' = [candidates EXCEPT ![s] = {}]
    /\ CloseTransaction(s)
    /\ UNCHANGED <<mode, started, deviceVars, apiVars, retries, jobVars, faults>>

\* One collection is queued for each candidate, then the task ends.
DispatchCandidate(s, d) ==
    /\ MayDispatch(s)
    /\ d \in candidates[s]
    /\ candidates' = [candidates EXCEPT ![s] = @ \ {d}]
    /\ jobPhase' = [jobPhase EXCEPT ![<<s, d>>] = "queued"]
    /\ UNCHANGED <<scanVars, deviceVars, apiVars, phase, retries, txVars,
                   attempts, own, target, verdict, faults>>

ScanTaskEnds(s) ==
    /\ phase[s] = "dispatch" /\ candidates[s] = {}
    /\ phase' = [phase EXCEPT ![s] = "done"]
    /\ UNCHANGED <<scanVars, deviceVars, apiVars, retries, candidates, txVars,
                   jobVars, faults>>

\* An exception that escapes the body (the first read, the session that should
\* record FAILED, the event after the commit): Celery retries.  One between two
\* collections it does not.
ScanTaskError(s) ==
    /\ phase[s] \in Body \cup {"dispatch"}
    /\ Fault
    /\ \/ /\ \A d \in Devices : jobPhase[<<s, d>>] = "none"
          /\ retries[s] < MaxScanRetries
          /\ phase' = [phase EXCEPT ![s] = "queued"]
          /\ retries' = [retries EXCEPT ![s] = @ + 1]
       \/ /\ phase[s] = "dispatch" \/ retries[s] >= MaxScanRetries
          /\ phase' = [phase EXCEPT ![s] = "lost"]
          /\ UNCHANGED retries
    /\ candidates' = [candidates EXCEPT ![s] = {}]
    /\ CloseTransaction(s)
    /\ UNCHANGED <<scanVars, deviceVars, apiVars, jobVars>>

\* The worker dies.  acks_late: the message is delivered again when the whole
\* worker is gone, and acknowledged when only the pool process was killed.
ScanTaskCrash(s) ==
    /\ phase[s] \in Body \cup {"dispatch"}
    /\ Fault
    /\ \E next \in {"queued", "lost"} : phase' = [phase EXCEPT ![s] = next]
    /\ candidates' = [candidates EXCEPT ![s] = {}]
    /\ CloseTransaction(s)
    /\ UNCHANGED <<scanVars, deviceVars, apiVars, retries, jobVars>>

----------------------------------------------------------------------------
(* run_device_inventory_task / run_inventory_collection and the finalizer *)

\* Variant: SCANNING is not flushed, and the row not held.
CollectBegin_Unflushed(o, d) ==
    /\ jobPhase[<<o, d>>] = "queued"
    /\ device[d] # "absent"
    /\ jobPhase' = [jobPhase EXCEPT ![<<o, d>>] = "collecting"]
    /\ UNCHANGED <<scanVars, deviceVars, apiVars, taskVars, attempts, own,
                   target, verdict, faults>>

\* SCANNING is flushed, not committed: the row is held, and nobody else ever
\* sees the value.
CollectBegin(o, d) ==
    /\ jobPhase[<<o, d>>] = "queued"
    /\ device[d] # "absent"
    /\ RowFree(d)
    /\ jobPhase' = [jobPhase EXCEPT ![<<o, d>>] = "collecting"]
    /\ UNCHANGED <<scanVars, deviceVars, apiVars, taskVars, attempts, own,
                   target, verdict, faults>>

\* Some credential worked and the inventory is replaced, or none did.
CollectOutcome == {"completed", "failed"}

CollectSave(o, d) ==
    /\ jobPhase[<<o, d>>] = "collecting"
    /\ \E outcome \in CollectOutcome :
         /\ device' = [device EXCEPT ![d] = outcome]
         /\ own' = [own EXCEPT ![<<o, d>>] = outcome]
    /\ jobPhase' = [jobPhase EXCEPT ![<<o, d>>] = "saved"]
    /\ UNCHANGED <<scanVars, touched, latest, apiVars, taskVars, attempts,
                   target, verdict, faults>>

\* _finalize_device_scan: the newest scan that met the device is looked up,
\* and its status read; only a scan that is SCANNING goes on.
FinalizeRead(o, d) ==
    /\ jobPhase[<<o, d>>] = "saved"
    /\ latest[d] # NoScan /\ MayFinalize(latest[d])
    /\ jobPhase' = [jobPhase EXCEPT ![<<o, d>>] = "judging"]
    /\ target' = [target EXCEPT ![<<o, d>>] = latest[d]]
    /\ UNCHANGED <<scanVars, deviceVars, apiVars, taskVars, attempts, own,
                   verdict, faults>>

FinalizeSkips(o, d) ==
    /\ jobPhase[<<o, d>>] = "saved"
    /\ latest[d] # NoScan => ~MayFinalize(latest[d])
    /\ CloseJob(o, d, "closing")
    /\ UNCHANGED <<scanVars, deviceVars, apiVars, taskVars, attempts, faults>>

\* Variant: the statuses named by the finalizer's docstring.
FinalStatus_Documented ==
    {"completed", "partial", "failed", "credentials_required", "offline"}

\* The statuses that let a scan be closed.
FinalStatus == {"completed", "partial", "failed", "credentials_required",
                "offline", "discovered"}

\* The status of a scan whose devices have these statuses.
ScanVerdict(statuses) ==
    IF statuses \subseteq {"completed", "offline", "discovered"}
    THEN "completed"
    ELSE IF statuses \subseteq {"credentials_required", "failed"}
    THEN IF "credentials_required" \in statuses THEN "credentials_required"
         ELSE "failed"
    ELSE "partial"

\* The device statuses the finalizer of <<o, d>> reads.  Its session holds d
\* as the collection wrote it, and does not read that row again.
StatusesRead(o, d) ==
    {IF e = d THEN own[<<o, d>>] ELSE device[e] : e \in touched[target[<<o, d>>]]}

\* finalize_scan_if_complete: the devices are read and the scan judged, or
\* left for a later collection to close.  (No run gets to the second branch:
\* SCANNING is never committed to a device row, see CollectBegin.)
FinalizeJudge(o, d) ==
    /\ jobPhase[<<o, d>>] = "judging"
    /\ IF StatusesRead(o, d) \subseteq FinalStatus
       THEN /\ jobPhase' = [jobPhase EXCEPT ![<<o, d>>] = "judged"]
            /\ verdict' = [verdict EXCEPT
                 ![<<o, d>>] = ScanVerdict(StatusesRead(o, d))]
            /\ UNCHANGED <<own, target>>
       ELSE CloseJob(o, d, "closing")
    /\ UNCHANGED <<scanVars, deviceVars, apiVars, taskVars, attempts, faults>>

\* finalize_scan_if_complete: the verdict is committed over whatever the scan
\* row holds by now.
FinalizeCommit(o, d) ==
    /\ jobPhase[<<o, d>>] = "judged"
    /\ status' = [status EXCEPT ![target[<<o, d>>]] = verdict[<<o, d>>]]
    /\ CloseJob(o, d, "closing")
    /\ UNCHANGED <<mode, started, deviceVars, apiVars, taskVars, attempts, faults>>

\* The worker gives its slot back, reads the device for an event and
\* acknowledges the message: all that is committed already.
CollectEnds(o, d) ==
    /\ jobPhase[<<o, d>>] = "closing"
    /\ CloseJob(o, d, "done")
    /\ UNCHANGED <<scanVars, deviceVars, apiVars, taskVars, attempts, faults>>

Running == {"queued", "collecting", "saved", "judging", "judged", "closing"}

\* An exception, of the wait for a slot and of the last event too: the worker
\* retries, the event loop logs and forgets.
CollectError(o, d) ==
    /\ jobPhase[<<o, d>>] \in Running
    /\ Fault
    /\ \/ /\ o # CollectLoop /\ attempts[<<o, d>>] < MaxCollectRetries
          /\ CloseJob(o, d, "queued")
          /\ attempts' = [attempts EXCEPT ![<<o, d>>] = @ + 1]
       \/ /\ o = CollectLoop \/ attempts[<<o, d>>] >= MaxCollectRetries
          /\ CloseJob(o, d, "dropped")
          /\ UNCHANGED attempts
    /\ UNCHANGED <<scanVars, deviceVars, apiVars, taskVars>>

\* The worker (or the API process) dies, as for the scan task.
CollectCrash(o, d) ==
    /\ jobPhase[<<o, d>>] \in Running
    /\ Fault
    /\ \E next \in {"queued", "dropped"} :
         /\ o = CollectLoop => next = "dropped"
         /\ CloseJob(o, d, next)
    /\ UNCHANGED <<scanVars, deviceVars, apiVars, taskVars, attempts>>

----------------------------------------------------------------------------
(* The specification *)

ApiStep(s) ==
    \/ StartScanCheck(s) \/ StartScanInsert(s) \/ EnqueueScan(s)
    \/ RequestDies(s) \/ StopScanRead(s) \/ StopScanCommit(s)

\* What a live worker does for scan s.
ScanTaskStep(s) ==
    \/ DiscoveryRead(s) \/ DiscoveryClaim(s) \/ DiscoverySwept(s)
    \/ \E d \in Devices :
         \/ HostResolve(s, d) \/ HostUpdate(s, d) \/ HostInsert(s, d)
         \/ HostSupersede(s, d) \/ DispatchCandidate(s, d)
    \/ DiscoveryCommit(s) \/ DiscoveryFails(s) \/ ScanTaskEnds(s)

\* What a live worker, or the API's event loop, does for a collection.
CollectStep(o, d) ==
    \/ CollectBegin(o, d) \/ CollectSave(o, d)
    \/ FinalizeRead(o, d) \/ FinalizeSkips(o, d)
    \/ FinalizeJudge(o, d) \/ FinalizeCommit(o, d) \/ CollectEnds(o, d)

FaultStep ==
    \/ \E s \in Scans : ScanTaskError(s) \/ ScanTaskCrash(s)
    \/ \E o \in Origins, d \in Devices : CollectError(o, d) \/ CollectCrash(o, d)

Next ==
    \/ \E s \in Scans : ApiStep(s) \/ ScanTaskStep(s)
    \/ \E d \in Devices : CollectDevice(d)
    \/ \E o \in Origins, d \in Devices : CollectStep(o, d)
    \/ FaultStep

Spec == Init /\ [][Next]_vars

\* Workers keep working and a request under way is carried through; users
\* and faults are not bound to do anything.
Fairness ==
    /\ \A s \in Scans : WF_vars(EnqueueScan(s)) /\ WF_vars(ScanTaskStep(s))
    /\ \A o \in Origins, d \in Devices : WF_vars(CollectStep(o, d))

FairSpec == Spec /\ Fairness

----------------------------------------------------------------------------
(* Properties *)

\* Which phase of its life a status stands for; the terminal ones are last.
Rank(st) ==
    CASE st = "none" -> 0
      [] st = "pending" -> 1
      [] st = "discovering" -> 2
      [] st = "identifying" -> 3
      [] st = "scanning" -> 4
      [] OTHER -> 5

\* Whatever is redelivered, retried, stopped or finalized late, a scan never
\* goes back to an earlier phase (the unconditional status writes of
\* run_discovery_scan_task, stop_scan and finalize_scan_if_complete), except
\* out of CANCELLED.
PhaseOrder ==
    [][\A s \in Scans : status[s] # "cancelled"
          => Rank(status'[s]) >= Rank(status[s])]_vars

\* What the task and the finalizers do to the row of a scan, with everything
\* else left out: the task has it in hand from its read to its commit, a
\* finalizer from the read of the status to the write of the verdict.
Sweeping == {s \in Scans : phase[s] \in Body}
Judging == {s \in Scans : \E k \in Jobs : target[k] = s}

Record == INSTANCE ScanRecord WITH sweeping <- Sweeping, judging <- Judging

\* Whatever is redelivered, retried or interleaved, the row of a scan does only
\* what ScanRecord allows: each status is written by whoever has taken the scan
\* up at the status before, no sweep and finalizer have it in hand together, and
\* it is taken up for a sweep once (run_discovery_scan_task, stop_scan,
\* finalize_scan_if_complete).
KeepsRecord == Record!Spec

\* The network of a scan is swept at most once: a message delivered again
\* after a crash, or retried by Celery, does not start the body a second time
\* (the pending guard of run_discovery_scan_task).
SweptOnce ==
    [][\A s \in Scans : phase[s] # "sweeping" /\ phase'[s] = "sweeping"
          => ~started[s]]_vars

\* No worker is inside the scan's body, and no finalizer is judging it.
Quiet(s) ==
    /\ phase[s] \notin Body
    /\ \A k \in Jobs : target[k] # s

\* Once the workers that were busy with a stopped scan are out of it, nothing
\* revives it: not a redelivered message, not a retry, not a collection that
\* ends late (the guards of run_discovery_scan_task and
\* finalize_scan_if_complete).
QuietCancelStays ==
    [][\A s \in Scans : status[s] = "cancelled" /\ Quiet(s)
          => status'[s] = "cancelled" /\ Quiet(s)']_vars

\* A worker that receives a scan's collection finds the device row and the
\* history row that leads its finalizer back to a scan: both were committed
\* before the message was sent (run_network_scan_task).
DispatchedRowsExist ==
    \A s \in Scans, d \in Devices : jobPhase[<<s, d>>] # "none"
        => device[d] # "absent" /\ d \in touched[s] /\ latest[d] # NoScan

\* No two collections log into one device at a time, although every request
\* starts two (_enqueue_device_inventory) and neither knows of the other:
\* the flush at the head of run_inventory_collection holds the row.
OneCollectorPerDevice ==
    \A d \in Devices :
        Cardinality({o \in Origins : jobPhase[<<o, d>>] = "collecting"}) <= 1

\* No crash or exception has struck, and no later scan has met a device of s.
Undisturbed(s) == faults = 0 /\ \A d \in touched[s] : latest[d] = s

\* An undisturbed scan that says SCANNING has a collection under way that will
\* look at it again: the finalizer is the only exit from SCANNING, and nothing
\* polls.  (A disturbed one may have none: its devices lead their finalizers to
\* the later scan, or its last collection has crashed.)
ScanningIsServed ==
    \A s \in Scans : status[s] = "scanning" /\ Undisturbed(s) =>
        \/ phase[s] = "dispatch" /\ candidates[s] # {}
        \/ \E o \in Origins, d \in touched[s] :
              jobPhase[<<o, d>>] \in Running \ {"closing"}

\* A scan that was started ends, and so stops refusing other scans.
ScanEnds ==
    \A s \in Scans : status[s] = "pending" ~> status[s] \in TerminalStatus

----------------------------------------------------------------------------
(* Why the safety properties hold: an inductive invariant *)

\* How far a scan's row has come, given where its request and its task are.
TaskMatchesStatus ==
    \A s \in Scans :
        /\ request[s] \in {"idle", "checked"} => status[s] = "none"
        /\ request[s] = "inserted" => status[s] # "none" /\ phase[s] = "none"
        /\ status[s] = "none" => phase[s] = "none" /\ s \notin stopping
        /\ status[s] \in {"none", "pending"} => ~started[s]
        /\ phase[s] = "read" => ~started[s] /\ status[s] \in {"pending", "cancelled"}
        /\ phase[s] = "sweeping" => status[s] \in {"discovering", "cancelled"}
        /\ phase[s] \in {"hosts", "resolved"} =>
             status[s] \in {"discovering", "identifying", "cancelled"}
        /\ phase[s] = "dispatch" => status[s] \notin {"none", "pending"}

\* A scan is judged only after its task is done with it.
JudgedAfterSweep ==
    \A k \in Jobs :
        /\ target[k] # NoScan <=> jobPhase[k] \in {"judging", "judged"}
        /\ target[k] # NoScan =>
             /\ status[target[k]] \in TerminalStatus \cup {"scanning"}
             /\ phase[target[k]] \notin Body
        /\ jobPhase[k] = "judged" => verdict[k] \in TerminalStatus

\* What the open transaction of a scan has flushed.
FlushedRows ==
    \A s \in Scans :
        /\ \A d \in history[s] : \/ wrote[s][d] = "discovered"
                                 \/ wrote[s][d] = "keep" /\ device[d] # "absent"
        /\ phase[s] = "resolved" => /\ row[s] \in Devices
                                   /\ device[row[s]] # "absent"
                                   /\ wrote[s][row[s]] = "none"
        /\ candidates[s] \subseteq IF phase[s] = "dispatch" THEN touched[s]
                                   ELSE IF phase[s] \in Body THEN history[s]
                                   ELSE {}

\* A scan's collections follow its commit, and no sweep follows them.
CollectedAfterCommit ==
    /\ \A s \in Scans, d \in Devices : jobPhase[<<s, d>>] # "none" =>
         /\ phase[s] \in {"dispatch", "queued", "done", "lost"}
         /\ status[s] \notin {"none", "pending"}
         /\ d \in touched[s] \ candidates[s]
    /\ \A s \in Scans : \A d \in touched[s] :
         device[d] # "absent" /\ latest[d] # NoScan

\* Two collections that hold the row of one device are the same.
RowHeldOnce ==
    \A o1, o2 \in Origins, d \in Devices :
        jobPhase[<<o1, d>>] = "collecting" /\ jobPhase[<<o2, d>>] = "collecting"
            => o1 = o2

\* Every reachable state satisfies it, and it is preserved by every step
\* (ScanLifecycleProofs): a message delivered late, or twice, to
\* run_discovery_scan_task finds a row that tells it how far the scan is.
IInv ==
    /\ TypeOK
    /\ TaskMatchesStatus
    /\ JudgedAfterSweep
    /\ FlushedRows
    /\ CollectedAfterCommit
    /\ RowHeldOnce

----------------------------------------------------------------------------
(* A claim of the code that does not hold *)

\* finalize_scan_if_complete flips the scan "once every device it touched has
\* reached a terminal scan_status (completed/partial/failed/
\* credentials_required/offline)".
FinalizedWhenAllCollected ==
    [][\A k \in Jobs : jobPhase[k] = "judged" /\ jobPhase'[k] = "closing" =>
          \A d \in touched[target[k]] :
             device[d] \in FinalStatus_Documented]_vars
=============================================================================
