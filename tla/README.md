# A formal model of the AI Infrastructure Copilot

TLA+ modules for the parts of the Copilot in which several actors share state:
API requests in FastAPI's event loop, Celery workers, the AI orchestrator,
PostgreSQL and Redis. Small instances are checked with TLC; the safety
properties of all ten state machines are proved with TLAPS for every value of
the constants. Paths below are relative to `src/`, and `api` stands for
`apps/api/app`.

## 1. The system

| Component | State it keeps | Operations that change it | Modelled in |
|---|---|---|---|
| Network scans: `api/modules/discovery`, `api/workers/tasks/discovery_tasks.py` | `network_scans.status`, `devices.scan_status`, `device_scan_history`, Celery messages | start, stop, sweep task, collection (worker or API loop), finalizer | `ScanLifecycle`, which implements `ScanRecord` |
| Device identity: `resolve_device_identity` and the row updates of a sweep | `devices`, `device_ip_history` | match by MAC, name, address; update, insert, supersede, take offline | `Devices` |
| Identification and inventory: `identify_device`, `run_inventory_collection` | type, confidence, ports, software and its history | sweep, collection with each protocol | `Inventory` |
| In-flight slots: `api/core/scan_concurrency.py` | one Redis counter per organization, with a time to live | acquire, wait, release | `InflightSlots` |
| Tasks and execution: `api/modules/tasks`, `api/modules/scripts`, `api/execution` | `tasks.status`, `audit_logs` | request, approve, reject, run | `TaskApproval` |
| AI chat and orchestrator: `api/modules/ai_chat`, `apps/ai-orchestrator` | messages, scripts, tasks; the stream between the two services | ask, plan, retrieve, diagnose, draft, store | `Chat`, which implements `Conversation` |
| Servers: `api/modules/infrastructure_inventory` | `servers`, `deleted_at` | register, detach | `Chat` |
| Knowledge base: `api/modules/knowledge`, `api/workers/tasks/document_tasks.py` | `documents.status`, `deleted_at`, `document_chunks`, the stored file | upload, process, re-index, delete | `DocumentIngestion` |
| RAG library: `api/rag`, `packages/py-shared` | none | chunk | `Chunking`; `ChunkRecord` says what is promised |
| Users, roles, departments, designations | rows with `deleted_at`, their links, audit entries | create, update, delete, assign, bulk | `Directory` |
| Authentication: `api/modules/authentication`, `api/core/security.py` | refresh tokens and their families, MFA secret, access tokens | log in, refresh, log out, enrol, confirm | `Sessions` |
| Credentials, vault, event logs | single rows, encrypted secrets | create, delete, sync | not modelled: nothing interacts |
| Script generation | one row | generate | `create_script` in `Chat`; the rest is one call |
| Socket events, web client, shared types | nothing the server reads back | | not modelled |

How they interact. An API request commits rows and *then* queues a Celery
message, in a second system, so either can happen without the other. The scan
task commits its rows and then queues one collection per device; each
collection waits for a slot in Redis, holds a row lock for as long as the remote
session lasts, commits, and looks whether the scan can be closed. A prompt is
run by the orchestrator, whose proposals the API turns into scripts and tasks; an
approval runs the script inside its own request. Search reads whatever chunks
are committed for documents that are not deleted. `write_audit_log` flushes its
entry into the caller's transaction. An access token carries the permission
codes of the moment it was issued.

What is hard about it.

- *Interleaving.* The database is READ COMMITTED, the ORM keeps no row versions
  and no query says FOR UPDATE, so each handler that reads a row and writes it
  later can be overtaken in between. The only ordering is that an UPDATE waits
  for another open transaction that updated the same row. The ORM writes only
  the columns that differ from what it read, so two writers mix their columns.
- *Crashes and redelivery.* `acks_late` delivers a message again when its
  worker is gone; a killed pool process acknowledges it. Celery retries
  exceptions. Nothing is idempotent by construction.
- *Dual writes.* Database and broker, database and file system, Redis INCR and
  EXPIRE, script and task and answer: a crash can always fall in between.
- *Liveness.* No process polls for abandoned work. A scan, a document or a task
  whose last event is missed stays as it is.
- *Soft deletes.* Rows stay, filters on `deleted_at` are written by hand in each
  query, and references to deleted rows are everywhere.

The repository has no tests of this behaviour. `PROJECT.json` has the hazards,
each at its line, with the properties that cover it.

## 2. Modelling decisions

- **Steps.** An action reaches from one point where others can interfere to the
  next: from a read to the write that depends on it, from a flush to the commit,
  from one Redis command to the next. Everything between two such points is one
  action.
- **Row locks.** A flushed UPDATE holds its row until the transaction ends.
  Where that matters, a `RowFree` guard makes the other UPDATE wait. Reads never
  wait and see committed values only.
- **Faults.** A crash, and an exception that leaves the handler, is an action
  that can strike at every step that is not atomic; where behaviours would not
  end otherwise, `MaxFaults` bounds how many. What the open transaction had
  written is gone, what was committed stays.
- **History variables.** Some properties hold up to an overlap of two requests.
  The module then records the overlap in a variable marked as history
  (`crossed`, `beside`, `doubled`, `late`, ...), which no guard reads, and the
  property names it. So a property says exactly which interference it survives.
- **Variants.** An operator named `X_Something` just before `X` is a plausible
  wrong version of `X`. No action uses it. Each property is known to fail when
  one of them takes the place of its original, so no property holds whatever
  the code does.
- **The marker.** `api/modules/discovery/service.py:1936` is the tail of a
  merge conflict, which keeps the module from being imported. The function is
  read as if that line were not there.

## 3. The modules

### ScanLifecycle

The scans of one organization. Actions, in the order a scan meets them:

| Code | Actions |
|---|---|
| `start_scan`, `_enqueue_scan` | `StartScanCheck`, `StartScanInsert`, `EnqueueScan`, `RequestDies` |
| `stop_scan` | `StopScanRead`, `StopScanCommit` |
| `run_discovery_scan_task` | `DiscoveryRead`, `DiscoveryClaim`, `DiscoverySwept`; per host `HostResolve`, `HostUpdate`, `HostInsert`, `HostSupersede`; `DiscoveryCommit`, `DiscoveryFails` |
| `run_network_scan_task` | `DispatchCandidate`, `ScanTaskEnds`, `ScanTaskError`, `ScanTaskCrash` |
| `_enqueue_device_inventory` | `CollectDevice` |
| `run_device_inventory_task`, `run_inventory_collection` | `CollectBegin`, `CollectSave`, `CollectEnds`, `CollectError`, `CollectCrash` |
| `_finalize_device_scan`, `finalize_scan_if_complete` | `FinalizeRead`, `FinalizeSkips`, `FinalizeJudge`, `FinalizeCommit` |

`status`, `mode`, `started`, `device`, `touched` and `latest` are committed
rows; `wrote` and `history` what the open transaction of a sweep has flushed;
`seen` and `own` what an ORM session remembers of a row and does not read
again. A collection is named by who asked for it and by its device: a scan, a
user through the worker (`CollectTask`), or the same request's second collection
in the API's loop (`CollectLoop`). SCANNING is flushed to a device row but always
overwritten before the commit, so nobody ever sees it: it only holds the row.
A collection that has committed everything still has its slot to give back and an
event to send (`closing`); a failure there repeats the whole collection.
Which hosts answer, how identity is resolved and whether a collection succeeds
are free choices here and the subject of `Devices` and `Inventory`.
`CREDENTIALS_REQUIRED` is no outcome of a collection, as the list of credentials
is never empty at `service.py:1845`. A collection requested over the API happens at
most once per device; two hosts of one sweep that resolve to one row count once.

What the model shows beside its properties: two overlapping starts insert two
scans, after which the query for an active scan itself raises; a worker never
looks at the scan row again, so its next commit overwrites CANCELLED
(`QuietCancelStays` says how far a stop holds); a redelivered scan that was
already claimed stays active for ever; dropping DISCOVERED from the terminal
statuses would be no repair of the early finalizer, as devices that are never
collected would then keep the scan open.

### ScanRecord

The abstract specification of a scan's row, with nothing of devices, messages or
retries: who may write which status from which. A sweep takes the scan up once
(`Take`) and moves it on (`Discover`, `Identify`, `EndSweep`) or is given up; a
finalizer takes it up when it waits for collections (`Judge`) and closes it or
leaves it open; a stop may come late. Whoever has the scan in hand writes without
looking again, over CANCELLED too; nobody else writes at all. `KeepsRecord` is the
refinement by `ScanLifecycle`: `sweeping` are the scans whose task is in the body
of `run_discovery_scan_task`, `judging` those some collection has as its `target`.
It implies `PhaseOrder` (a scan never goes back to an earlier phase, except
out of CANCELLED), which is proved as well.

### Devices

Which row of `devices` a sweep takes a host for. A sweep is one transaction:
`Begin`, then per address `Resolve` (or silence), then `Update`, `Insert` or
`Supersede`, then `SelectMissing` and `TakeOffline`, then `Commit` or `Fail`.
`stored` is the committed version of a row and `open` the flushed one of the
sweep that is its `holder`; `seen` is the version the session has read. `Match`
is `resolve_device_identity` with its order of hardware address, name, address.
`logged` is the newest entry of the address history.

What the code does and the model keeps: a device found by name under another
address and another hardware address is superseded too (the comment at
`service.py:917` speaks of the same address only); the superseded row keeps its
name and its hardware address, so that a later lookup by name can find two rows
and raise, which fails that scan and every later one that meets the host; of two
hosts of one sweep with one name the first is superseded by the second. The
manual sweep looks at 256 addresses at most (`service.py:250`) while the offline
pass covers the whole range.

### Inventory

One device and what the Copilot believes about it. `DeviceRecord` holds the row,
the software table and what is promised about them, `Inventory` the sweeps and
collections that write them. `SweepLook` identifies a
host and reads the row, `SweepWrite` waits for the row and writes what differs.
`Identify` and `Classify` are the cascade of `identify_device` and
`classify_device`; the key words of the heuristics are a set of hints of the
host. A collection is `CollectLook`, `CollectBegin`, one `Attempt` per
credential in `CredentialOrder`, then `CollectSave`, `CollectFails` or
`CollectAborts`: an error rolls back and records nothing, in the worker and in the
API's loop (the wrapper that would record it, service.py:2070, is not called). What each protocol can report is a set of
readings; `Entries` is the comparison of two software lists as dictionaries.

What the code does and the model keeps: a quick sweep by nmap erases the port
list (`{"ports": []}` is true in Python); software in two versions may add an
entry to the history at each collection; a device that answers nothing to SNMP
gives a reading that is not empty and is stored as a login with no software
(`service.py:1746-1764`, `:1879`). The "openssh" branch of `identify_device` cannot be
reached, since an open port 22 already hints at Linux.

### InflightSlots

One organization's counter; `Incr`, `Expire`, `BackOff` (DECR), `Release` (DECR)
and `Clear` (DELETE) are the Redis commands, `Begin` and `TimesOut` the ends of
an attempt, `KeyExpires` and `Dies` the environment. Time is abstracted to one
fact: an attempt lasts at most 180 s (`time_limit`) and the key 300 s, so an
attempt under way at the EXPIRE is over when the key goes (`older`), and a later
one need not be. `BackOff` and `Release` do what Redis does to a missing key, so
the count can become negative. The cap itself does not hold: the time to live is
set once, so the key forgets slots taken later; `ExcessIsForgotten` says by how
much it can be exceeded.

### TaskApproval

One task and the reviews that race for it. `ReadTask` is the read and the 409
guard of `approve_task` and `reject_task`; `Approve` and `Reject` their commits;
`SkipRun`, `BeginRun`, `RunScript`, `CannotRun` and `FinishRun` the stages of
`run_task`. `log` is the list of audit entries in commit order. `execution_enabled`
is chosen once, in `Init`. The status an entry reports as the earlier one is a
constant of the handler (`TaskApproval!Commit`), so two reviews that both read a
pending task leave two entries that start from the same status.

### Conversation and Chat

`Conversation` is the abstract specification of the chat: a prompt is kept from
the moment it is asked, may leave one script and then one task, is answered at
most once, by an answer that refers to the task if there is one and speaks of a
drafted script only then, and comes to an end. With a task the answer speaks of
the draft or, if the run failed, of nothing. It knows nothing of services,
streams or time limits.

`Chat` is how two services do it. `Ask`, `Connect`, `Forward`, `CreateScript`,
`RequestExecution` and `StoreAnswer` are the statements of `stream_message`, each
with its own commit; `Plan`, `Retrieve`, `Diagnose`, `DraftScript`,
`SayDrafted`, `AnswerFromKnowledge` and `RunFails` the nodes of the orchestrator's graph, which
reads the database and sends events; `stream` is what has been sent and not yet
read. A request can break off at each of these points (`Disconnect`), and does
when the orchestrator is silent for 120 s (`TimeOut`). `RegisterServer` and
`DetachServer` run at the same time. `KeepsPromise` is the refinement: with
`open` read as "the request is neither answered nor lost", `Chat!FairSpec`
implements `Conversation!FairSpec`.

What the code does and the model keeps: after an error event the stored answer
is empty although tokens were shown; a run can fail after its proposal, as the
final message is put together later and raises when the recommended action is not
a string (graph.py:121), which leaves an empty answer that refers to a task; a
request that breaks off leaves a script
without a task, or a task that no answer refers to; neither `request_execution`
nor `run_task` looks at `servers.deleted_at`, so a task can be created for, and
run on, a server detached since its prompt. Left out: `last_message_at`, which is
written with the answer only (`docs/04-database-design.md:1099` says with every
message) and which overlapping answers may set back; the history that the planner
reads and does not use; `requires_approval`, which the server never reads.

### DocumentIngestion

One document, its upload, re-index and delete requests, and the task each
upload or re-index queues. `chunks` is the set of committed batches, each named
by its task, the attempt and whether it is complete; `snapshot` is what an open
transaction has deleted. Without a broker the request processes the document
itself and nobody retries, which `Enqueue` models as a task that has used up its
retries. `delete_document_task` and `reindex_document_task` exist but nothing
queues them, so they are left out.

### Chunking

The loop of `SemanticChunker.chunk`, one paragraph a step: `ReadBlock`,
`ReadParagraph`, `ReadLong` (which splits by sentences), `EndSection`, `EndText`.
Texts are lengths; tokens are characters divided by four, rounded down, as in
`estimate_tokens`, so the rounding is in the model. What the chunks are, and
what is promised about them, is in `ChunkRecord`. A chunk is a list of parts, and
a part is a paragraph as a whole or one of its sentences. `ChunksTileText` is
said with the positions of the parts in the text: each paragraph that was read is
told as a whole or by all of its sentences, in a chunk or in the one being built;
the parts of a chunk ascend; those of a later chunk come after, but for the
last part of a chunk, which may be the first of the next, and is no larger than
the overlap if it is a paragraph; and no chunk reaches into another section.
`LargeChunksAreWhole` bounds a chunk, the rounding included. The loops of the
code over numbers and sentences are recursive functions (`Total`,
`AddedSentences`), not RECURSIVE operators, so that the module can be proved about.

What the code does and the model keeps: what is carried over before a paragraph
that must be split becomes a chunk that only repeats; a carried paragraph and
the next one may exceed the size by the overlap; one long sentence is one chunk
whatever its length. Left out with the regular expressions: headings without a
body are lost, a comment line in a code block counts as a heading.

### Directory

The administration of one organization. Every handler is a `...Check` action,
which reads, validates and fixes what will be written, and `Commit`, which looks
up roles and permissions again, writes and logs; `Abort` ends a request without
effect. No unique index is left on these tables (migration `db5b184a8231` drops
them), so only the handlers keep names apart. Rows are `absent`, `live` or
`deleted`; `links` are role assignments and permissions.

What the code does and the model keeps: a name that both a deleted and a live role
carry makes `create_user` and `update_user` raise; two overlapping assignments
leave the union of both lists; a designation that is moved is not checked against
the names of its new department (`designations/service.py:231-237`).
`import_users_csv` is left out: each of its rows fails. `renamed` holds the open
requests one of whose roles has lost its name, by a commit (`NamesLost`): only the
users of those may be inserted without a role (`NewUsersHaveRoles`). The listings
are reads, and left out.

### Sessions

Refresh tokens and their families, logins with and without a second factor, and
access tokens with the permission codes they carry. A refresh is `RefreshRead`,
`RefreshFlush` and `IssueCommit`; `CloseFamily` is the reuse branch, whose
UPDATE revokes the rows that were committed when it began. `MayServe` compares a
token with the codes the routers ask for (`UserCodes`, `RoleCodes`,
`DepartmentCodes`, `DesignationCodes`). `ChangeGrant` and `ChangeUser` are the
administration; deleted roles keep granting, as in the code's join.
Enrolment replaces the secret at once, also of a user whose factor is in use.

## 4. The runs

| Run | Instance | Shows |
|---|---|---|
| `ScanPair` | 2 scans, 1 device with any earlier status, 1 retry each, 1 fault | `DispatchedRowsExist`, `SweptOnce`, `OneCollectorPerDevice`, `KeepsRecord`, `QuietCancelStays` |
| `ScanLive` | 1 scan, 2 devices, new or known, one requested over the API, no faults, fairness | `ScanningIsServed`, `ScanEnds` |
| `ScanEarlyFinalize` | 1 scan, 2 devices | `FinalizedWhenAllCollected` fails |
| `Devices` | 3 sweeps of which 2 may overlap, 4 rows, 2 addresses, 2 hardware addresses, 1 name | `MacNamesOneDevice`, `OnlineAddressesDiffer`, `IpHistoryIsCurrent` |
| `Inventory` | 1 sweep at a time beside 1 collection at a time, 4 hosts, 1 name in 2 versions, all credentials | `ConfirmedIsProven`, `HistoryReplays` |
| `SlotsShared` | 3 processes, cap 1, 1 fault, fairness | `KeyNeverOvercounts`, `ExcessIsForgotten`, `ExpiryArmed`, `LeakHeals`; no deadlock |
| `TaskGate` | 3 reviews, 1 fault, fairness | `OneRunAtATime`, `RunsAreAccountedFor`, `StatusIsLogged`, `SettledStays`, `ApprovedSettles` |
| `Chat` | 2 overlapping prompts, 2 servers, fairness | `KeepsPromise` (refinement of `Conversation`, liveness included), `TargetWasRegistered` |
| `Documents` | upload, 1 re-index, 1 delete, 1 retry, 1 fault, fairness | `IndexedIsSearchable`, `FileIsKept`, `RetriesStoreOnce`, `DeletedGainsNothing`, `IngestionEnds` |
| `Chunks` | texts of up to 4 paragraphs of 8 kinds, chunks of 4 tokens, overlap 1 | `ChunksTileText`, `LargeChunksAreWhole` |
| `Directory` | 2 administrators at a time, 3 requests, 2 to 3 rows a table, 11 payloads | `CheckedNamesDiffer`, `PlacesAgree`, `LinksAreReplaced`, `DeletedRowsRest`, `NewUsersHaveRoles` |
| `Sessions` | 1 user, 2 requests at a time, 1 family of 3 tokens, 1 change | `OneLiveToken`, `ReuseClosesFamily`, `DeadFamilyStaysDead`, `ReadersNeverWrite` |

Why the bounds are enough. Two scans over one device give every conflict
between scans (two sweeps, a sweep and a collection, a finalizer of one scan run
by a collection of the other). Two devices in one scan give the finalizer a device
that is not collected yet. One retry already separates the first attempt from a
later one, and one fault a crash from everything else. Three reviews allow a
rejection and two approvals; three processes allow one to hold, one to back off
and one to interfere with either. Three sweeps are two that overlap and one that
finds what they left; two machines at two addresses can swap them. Two prompts
and two servers are the least with which an answer can refer to the wrong task
and a prompt be resolved to the wrong server; what a run does depends on no other
prompt. Four paragraphs put a repeated one between two chunks, before a block,
before a long one and at the end of a section. Two administrators with three
requests give every overlap of two handlers after any one that prepares it. Three
tokens are a token, the one that replaced it and the one a second use makes.
The proofs remove the bounds for every safety property of the passing runs. The
inventory run has one sweep at a time: with overlapping ones type and confidence
may come from different sweeps, which `ConfirmedIsProven` excepts (`crossed`).
Deadlock is checked where the system runs for ever (`SlotsShared`); elsewhere the
work ends (a finite number of scans, reviews, prompts or requests) and the
configuration says `CHECK_DEADLOCK FALSE`. Symmetry is used only where no
liveness is checked.

Fairness. Weak fairness on the steps of a live worker or of a running request:
Celery runs the tasks it has taken, the event loop runs its coroutines, WinRM,
SSH and SNMP calls have time limits. None on the arrival of requests, on stop
requests, on disconnections or on faults. In `InflightSlots` the
time limit of an attempt that waits is strongly fair, as polling leaves and
re-enters the waiting state while the clock goes on; that the key expires is
Redis's doing. In `Chat` only the API is fair; nothing is assumed of the
orchestrator, as the client's 120 s limit ends a request it leaves alone.

`ScanEarlyFinalize` states a sentence of the repository, quoted under `findings`
in `PROJECT.json`, and shows a behaviour against it: DISCOVERED counts as terminal,
so the first collection to end closes the scan while others wait.

## 5. The proofs

Assumptions: only the named ASSUMEs of the modules (disjoint names, NULL apart from
every row, bounds that are natural numbers, finite sets of processes and
versions; for `Directory` tables that are apart and seeded rows that have names
of their own, sit with their designations and are the ends of the seeded links,
as the seed migrations leave them). For each component there is an inductive invariant, mostly called
`IInv`, which TLC finds true in the reachable states, with a lemma that it holds
initially and lemmas that each action preserves it.

- *ScanLifecycle.* The status of a scan and the place of its task are tied
  together by `TaskMatchesStatus`: a task that got past the pending guard has a
  scan that was started, and nobody sets a scan back to PENDING, so a second
  delivery is refused (`SweepsOnce`). `JudgedAfterSweep` keeps finalizers away
  from a scan that is still being swept (`PhasesInOrder`, `QuietCancelIsFinal`).
  `FlushedRows` and `CollectedAfterCommit` carry a host from the open transaction to the
  committed row before its collection is queued (`RowsBeforeCollections`), and
  `RowHeldOnce` is the row lock (`CollectorsExclude`). Type correctness is part
  of the same invariant (`TypeCorrect`). A second invariant on top of it,
  `ServiceInv`, follows the finalizers: `Served` names a collection of a SCANNING
  scan that has not looked yet and, if it is judging, judges this scan;
  `Judgeable` says that every status it can read lets the scan be closed, which
  needs what the open transactions have flushed and what the sessions remember
  (`ScansAreServed`). The condition `Undisturbed` cannot be dropped:
  a crash can take the last collection, and a later scan that has met the device
  draws its finalizer away. A third, `RecordInv`, adds that whatever is swept or
  waits for collections was started and that no verdict is CANCELLED; with it each
  action maps to one step of `ScanRecord` or to a stutter (`ImplementsRecord`).
- *TaskApproval.* `ExecutorsApproved`: whoever is past the decision has its own
  approval in the log. With the lock it gives `RunsExclude` and
  `RunsAccountedFor`; `LogIsFaithful` and `SettledIsFinal` follow.
- *InflightSlots.* The count is compared with two cardinalities, `Counted` and
  `Admitted`. `AdmittedWithinCap` is the strengthening: it counts a process that
  has been admitted but has yet to send EXPIRE. The work is in lemmas on how the
  cardinality of such a set changes when one process moves. `CapUpToForgotten` is the
  consequence that replaces the cap.
- *DocumentIngestion.* `StoredLast` (without a fault a whole batch belongs to
  the task's last attempt, which is over) gives `RetriesAreSafe`;
  `DeletedHasNoFile` gives `DeletedStaysClean`: a task that begins after the
  delete cannot read; `IndexedStaysSearchable` and `FileKept` are parts of
  the invariant.
- *Chunking* (in `KnowledgeProofs`, through an instance). `ChunksInv` says what
  holds between two paragraphs: the paragraphs being built are the last of the
  text, all of the section and each within the size (`IsTail`); the chunks come
  before them, but for one that was carried over (`AreBehind`); their lengths are
  what `tokens` says but for the rounding (`AreCounted`); the chunks so far tile
  and are bounded (`Listed`); and chunks and paragraphs being built tell the text
  (`IsTold`). `CanTake` is what a paragraph needs before it is added, with a lemma
  for either branch of `ReadParagraph`. A long paragraph needs a second invariant,
  of the loop over its sentences (`SplitInv`), with the same parts.
  `ChunksInvariance` gives `AnyTextIsTiled` and `LargeChunksAreExceptions`, for any
  paragraphs, size, overlap and length of the text. See below for the induction.
- *Devices.* `Fresh` says of a host that is about to be inserted that whatever
  carries its hardware address by then was inserted by a sweep beside this one;
  `FreshRows` says it of the row until its commit, and `Neighbours` makes the
  relation symmetric, which gives `MacsAreKept`. `AloneSeparates` is about a sweep
  nobody overlaps: the rows it has processed are online at addresses it has been
  answered from, each at another, and the rows it has not are as they were or
  missing (`AddressesAreApart`). `HistoryKept` covers flushed versions too
  (`HistoryFollows`).
- *Inventory* (in `DevicesProofs`, through an instance). Two independent invariants: `Identities` says what may have become
  of the row since the only sweep that has it in hand has read it
  (`ConfirmedTypesAreProven`), `Software` that history and table are replaced in
  one step (`SoftwareHistoryReplays`).
- *Sessions.* Rows only fade: `RowsFade` shows that every step but the commit of
  new tokens leaves no token live that was not. What remains is which rotations
  are under way: `RotatesAlone` (`OneTokenGoesOn`), `ClosedIsLifeless`
  (`ReuseEndsFamily`, `EndedSessionsStayEnded`). `PowerWasGranted` follows a power
  from the grant through requests into tokens (`ReadersChangeNothing`).
- *Chat.* `OnlyMet` bounds which servers a request can have in hand
  (`TargetsWereRegistered`). The rest of the invariant ties the events still to be
  read to the script, task and final message the API already holds: a run that is
  not over has said nothing final and has proposed exactly when it is about to
  speak of its draft (`Unfinished`), and one that fails there leaves a proposal
  without words (`FinalRead`). With it every
  step is a step of `Conversation` or a stutter, so `ImplementsConversation`
  proves the safety half of the refinement.

- *Directory.* `Justified` sums up what the reads of a handler have established
  when a request opens: one lemma for each group of handlers shows that whatever
  they ask for is justified (`HandlersOpenWell`). Only `Commit` touches the
  tables, so the rest is about how findings age. `NamesFree`, `PlacesFit` and
  `LinksSeen` say of every open request which of its findings no commit of
  another request has taken away: the name it is to give is free among the rows
  it has seen (`NamesAreApart`), the place it gives a user is consistent unless
  the row was `crossed` (`UsersSitWithDesignations`), and the links it will delete
  are all there are (`LastAssignmentHolds`). `RolesStand` keeps the roles of a
  new user until its commit looks them up again (`NewUsersGetRoles`);
  `DeletionsAreLogged` and the rule that only inserts touch rows that are not
  live give `DeletedStaysDeleted`.

Induction over data. The induction theorems of the library take an operator as
a parameter, which the provers cannot instantiate. That `<` is well-founded on the
numbers, though, is a fact about a set of pairs, and sets can be instantiated:
`LeastNumber` follows from it, `Induction` (over a set of numbers) from that, and
`Recursion`, that a function given step by step exists, from that. A recursive
function of a module is what CHOOSE finds for its equation; `Recursion` shows that
there is such a function, so the one chosen has the equation (`TotalSums`,
`SplitLoop`). What a RECURSIVE operator computes stays out of reach; there is none.

Only model-checked: liveness (`ScanEnds`, `ApprovedSettles`, `LeakHeals`,
`IngestionEnds`, and the liveness half of `KeepsPromise`), which is out of the
prover's reach.

## 6. Not modelled

- Credentials and the vault, event log reads, script generation: single calls
  and single rows; the other models see their outcome.
- Remote commands and the parsing of their output (WinRM, SSH, SNMP, nmap): I/O
  and regular expressions; what they can bring is a set in the models.
- CSV import and export, statistics and dashboards: they read, or fail.
- Ranking, keyword search and prompt building: formulas over texts.
- Socket events and the web client: nothing the server reads back.
- More than one organization: each query filters by the one in the token.

## 7. Plan

1. `ScanSlots`: collections of `ScanLifecycle` in the worker pool with the slots
   of `InflightSlots`, and those of the API's loop without one.
2. The reranker and the context builder as functions with a reference definition.
