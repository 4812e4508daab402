-------------------------- MODULE DocumentIngestion --------------------------
(***************************************************************************)
(* One document of the knowledge base: its upload, the requests that       *)
(* re-index and delete it, and the Celery tasks that parse, chunk and      *)
(* embed it.  Documents do not interact, so one says it all.               *)
(*                                                                         *)
(* No status guards anything: a task begins whatever the status is, and    *)
(* every UPDATE takes the row as it finds it.  What a DELETE of chunks     *)
(* removes is what was committed when it began.  An UPDATE waits for the   *)
(* transaction that has updated the row, which matters only for a delete   *)
(* request: it updates the row, removes the file and then commits.  Where  *)
(* the update and the commit have nothing between them they are one action *)
(* here, together with the deletes or inserts nobody else can see earlier. *)
(***************************************************************************)
EXTENDS Naturals, FiniteSets

CONSTANTS
    Upload,      \* the upload request
    Reindexes,   \* the re-index requests
    Deletes,     \* the delete requests
    MaxRetries,  \* max_retries of process_document_task
    MaxFaults    \* bound on crashes and database errors

ASSUME DocumentAssumption ==
    /\ Upload \notin Reindexes \cup Deletes
    /\ Reindexes \cap Deletes = {}
    /\ MaxRetries \in Nat /\ MaxFaults \in Nat

\* The upload and every re-index queue a task; it bears the request's name.
Jobs == {Upload} \cup Reindexes
Requests == Jobs \cup Deletes

VARIABLES
    status,     \* status of the documents row, "none" before the insert
    deleted,    \* whether deleted_at is set
    chunks,     \* the batches of document_chunks rows that are committed
    file,       \* whether the stored file exists
    pc,         \* pc[r]: where a request is, and then the task it has queued
    snapshot,   \* snapshot[r]: the chunks an open transaction has deleted
    retries,    \* retries[j]: how often Celery has retried the task
    attempt,    \* attempt[j]: how often the task has begun
    partly,     \* the tasks that have inserted some chunks and then failed
    faults      \* crashes and database errors so far

rowVars == <<status, deleted>>
vars == <<rowVars, chunks, file, pc, snapshot, retries, attempt, partly, faults>>

DocumentStatus ==
    {"none", "pending", "processing", "indexed", "failed", "deleting"}

\* Where a request, and then its task, can be.
Place ==
    {"idle", "stored", "committed", "refused", "read", "dropped", "removed", "dead",
     "queued", "begun", "embedded", "failing", "indexed", "done", "lost"}

\* The chunks one attempt has stored, all of them or those before the failure.
Batch == Jobs \X Nat \X {"whole", "part"}

Init ==
    /\ status = "none" /\ deleted = FALSE
    /\ chunks = {}
    /\ file = FALSE
    /\ pc = [r \in Requests |-> "idle"]
    /\ snapshot = [r \in Requests |-> {}]
    /\ retries = [j \in Jobs |-> 0]
    /\ attempt = [j \in Jobs |-> 0]
    /\ partly = {}
    /\ faults = 0

Goto(r, place) == pc' = [pc EXCEPT ![r] = place]

\* An UPDATE of the row waits for the delete request that has updated it.
RowFree == \A d \in Deletes : pc[d] # "removed"

----------------------------------------------------------------------------
(* Upload                                                                  *)

StoreFile ==
    /\ pc[Upload] = "idle"
    /\ file' = TRUE
    /\ Goto(Upload, "stored")
    /\ UNCHANGED <<rowVars, chunks, snapshot, retries, attempt, partly, faults>>

CreateDocument ==
    /\ pc[Upload] = "stored"
    /\ status' = "pending"
    /\ Goto(Upload, "committed")
    /\ UNCHANGED <<deleted, chunks, file, snapshot, retries, attempt, partly, faults>>

\* The task is queued; without a broker the request processes the document
\* itself, and nobody retries that.
Enqueue(j) ==
    /\ pc[j] = "committed"
    /\ Goto(j, "queued")
    /\ \E n \in {0, MaxRetries} : retries' = [retries EXCEPT ![j] = n]
    /\ UNCHANGED <<rowVars, chunks, file, snapshot, attempt, partly, faults>>

----------------------------------------------------------------------------
(* Re-index and delete                                                     *)

\* get_document finds the row unless it is deleted; 404 otherwise.
ReadDocument(r) ==
    /\ pc[r] = "idle" /\ r # Upload /\ status # "none"
    /\ Goto(r, IF deleted THEN "refused" ELSE "read")
    /\ UNCHANGED <<rowVars, chunks, file, snapshot, retries, attempt, partly, faults>>

DropChunks(r) ==
    /\ pc[r] = "read"
    /\ snapshot' = [snapshot EXCEPT ![r] = chunks]
    /\ Goto(r, "dropped")
    /\ UNCHANGED <<rowVars, chunks, file, retries, attempt, partly, faults>>

ReindexCommit_Quiet(j) ==
    /\ j \in Reindexes /\ pc[j] = "dropped" /\ RowFree
    /\ chunks' = chunks \ snapshot[j]
    /\ Goto(j, "committed")
    /\ UNCHANGED <<rowVars, file, snapshot, retries, attempt, partly, faults>>

ReindexCommit(j) ==
    /\ j \in Reindexes /\ pc[j] = "dropped" /\ RowFree
    /\ chunks' = chunks \ snapshot[j]
    /\ status' = "pending"
    /\ Goto(j, "committed")
    /\ UNCHANGED <<deleted, file, snapshot, retries, attempt, partly, faults>>

\* The row is updated and the file removed, before the commit.
DeleteFile(d) ==
    /\ d \in Deletes /\ pc[d] = "dropped" /\ RowFree
    /\ file' = FALSE
    /\ Goto(d, "removed")
    /\ UNCHANGED <<rowVars, chunks, snapshot, retries, attempt, partly, faults>>

DeleteCommit_RowKept(d) ==
    /\ d \in Deletes /\ pc[d] = "removed"
    /\ chunks' = chunks \ snapshot[d]
    /\ status' = "deleting"
    /\ Goto(d, "done")
    /\ UNCHANGED <<deleted, file, snapshot, retries, attempt, partly, faults>>

DeleteCommit(d) ==
    /\ d \in Deletes /\ pc[d] = "removed"
    /\ chunks' = chunks \ snapshot[d]
    /\ status' = "deleting" /\ deleted' = TRUE
    /\ Goto(d, "done")
    /\ UNCHANGED <<file, snapshot, retries, attempt, partly, faults>>

----------------------------------------------------------------------------
(* process_document, in its Celery task                                    *)

\* The exception leaves the task: Celery queues it again, a limited number of
\* times.
Retry(j) ==
    /\ Goto(j, IF retries[j] < MaxRetries THEN "queued" ELSE "done")
    /\ retries' = [retries EXCEPT ![j] = IF @ < MaxRetries THEN @ + 1 ELSE @]

BeginProcessing(j) ==
    /\ pc[j] = "queued" /\ RowFree
    /\ status' = "processing"
    /\ attempt' = [attempt EXCEPT ![j] = @ + 1]
    /\ Goto(j, "begun")
    /\ UNCHANGED <<deleted, chunks, file, snapshot, retries, partly, faults>>

Readable_Cached == TRUE

Readable == ~deleted /\ file

\* Parsed, chunked and embedded, all in memory.
Parse(j) ==
    /\ pc[j] = "begun" /\ Readable
    /\ Goto(j, "embedded")
    /\ UNCHANGED <<rowVars, chunks, file, snapshot, retries, attempt, partly, faults>>

\* No document, no file, no text, no chunks or no embeddings.
ParseFails(j) ==
    /\ pc[j] = "begun"
    /\ Goto(j, "failing")
    /\ UNCHANGED <<rowVars, chunks, file, snapshot, retries, attempt, partly, faults>>

\* A row that cannot be sent breaks store_chunks off; those before it stay in
\* the open transaction.
StoreBreaks(j) ==
    /\ pc[j] = "embedded"
    /\ partly' = partly \cup {j}
    /\ Goto(j, "failing")
    /\ UNCHANGED <<rowVars, chunks, file, snapshot, retries, attempt, faults>>

Store(j, kind) == chunks' = chunks \cup {<<j, attempt[j], kind>>}

IndexDocument(j) ==
    /\ pc[j] = "embedded" /\ RowFree
    /\ Store(j, "whole")
    /\ status' = "indexed"
    /\ Goto(j, "indexed")
    /\ UNCHANGED <<deleted, file, snapshot, retries, attempt, partly, faults>>

MarkFailed_StatusLeft(j) ==
    /\ pc[j] = "failing" /\ RowFree
    /\ IF j \in partly THEN Store(j, "part") ELSE UNCHANGED chunks
    /\ partly' = partly \ {j}
    /\ Retry(j)
    /\ UNCHANGED <<rowVars, file, snapshot, attempt, faults>>

\* The handler of the exception commits "failed", and with it the chunks that
\* are still in the transaction, and raises again.
MarkFailed(j) ==
    /\ pc[j] = "failing" /\ RowFree
    /\ IF j \in partly THEN Store(j, "part") ELSE UNCHANGED chunks
    /\ partly' = partly \ {j}
    /\ status' = "failed"
    /\ Retry(j)
    /\ UNCHANGED <<deleted, file, snapshot, attempt, faults>>

Acked_Retried(j) == Retry(j)

Acked(j) == Goto(j, "done") /\ UNCHANGED retries

\* acks_late: the message leaves the queue only now.
Acknowledge(j) ==
    /\ pc[j] = "indexed"
    /\ Acked(j)
    /\ UNCHANGED <<rowVars, chunks, file, snapshot, attempt, partly, faults>>

----------------------------------------------------------------------------
(* Faults                                                                  *)

Fault == faults < MaxFaults /\ faults' = faults + 1

\* The server has aborted the transaction: the UPDATE to "failed" raises as
\* well, and nothing is written.
DatabaseError(j) ==
    /\ pc[j] \in {"begun", "embedded", "failing"}
    /\ Fault
    /\ partly' = partly \ {j}
    /\ Retry(j)
    /\ UNCHANGED <<rowVars, chunks, file, snapshot, attempt>>

\* The worker dies: the message is delivered again, or lost with it.
TaskCrashes(j) ==
    /\ pc[j] \in {"begun", "embedded", "failing", "indexed"}
    /\ Fault
    /\ partly' = partly \ {j}
    /\ \E place \in {"queued", "lost"} : Goto(j, place)
    /\ UNCHANGED <<rowVars, chunks, file, snapshot, retries, attempt>>

RequestDies(r) ==
    /\ pc[r] \in {"stored", "committed", "read", "dropped", "removed"}
    /\ Fault
    /\ Goto(r, "dead")
    /\ UNCHANGED <<rowVars, chunks, file, snapshot, retries, attempt, partly>>

----------------------------------------------------------------------------

RequestStep(r) ==
    \/ r = Upload /\ CreateDocument
    \/ r \in Jobs /\ Enqueue(r)
    \/ DropChunks(r)
    \/ ReindexCommit(r)
    \/ DeleteFile(r)
    \/ DeleteCommit(r)

TaskStep(j) ==
    \/ BeginProcessing(j)
    \/ Parse(j)
    \/ ParseFails(j)
    \/ StoreBreaks(j)
    \/ IndexDocument(j)
    \/ MarkFailed(j)
    \/ Acknowledge(j)

Next ==
    \/ StoreFile
    \/ \E r \in Requests : ReadDocument(r) \/ RequestStep(r) \/ RequestDies(r)
    \/ \E j \in Jobs : TaskStep(j) \/ DatabaseError(j) \/ TaskCrashes(j)

Spec == Init /\ [][Next]_vars

\* The API finishes what it has begun and the workers serve their queue.
FairSpec ==
    /\ Spec
    /\ \A r \in Requests : WF_vars(RequestStep(r))
    /\ \A j \in Jobs : WF_vars(TaskStep(j))

----------------------------------------------------------------------------
(* Properties *)

TypeOK ==
    /\ status \in DocumentStatus
    /\ deleted \in BOOLEAN
    /\ chunks \in SUBSET Batch
    /\ file \in BOOLEAN
    /\ pc \in [Requests -> Place]
    /\ snapshot \in [Requests -> SUBSET Batch]
    /\ retries \in [Jobs -> Nat]
    /\ attempt \in [Jobs -> Nat]
    /\ partly \in SUBSET Jobs
    /\ faults \in Nat

WholeBatches(j) == {b \in chunks : b[1] = j /\ b[3] = "whole"}

\* A document that says it is indexed can be found: a complete set of its chunks
\* is there, however its tasks, re-indexes and deletes have overlapped, since
\* every transaction that removes chunks also takes the status back
\* (knowledge/service.py:215-226, 261-269, 282-284).
IndexedIsSearchable == status = "indexed" => \E j \in Jobs : WholeBatches(j) # {}

\* The file of a live document is there as long as no delete request has got as
\* far as removing it (service.py:264-269); a request that dies between the
\* removal and the commit is the one way to lose it.
FileIsKept ==
    (status # "none" /\ ~file)
        => (deleted \/ \E d \in Deletes : pc[d] \in {"removed", "dead"})

\* Celery's retries never store a document twice: a task repeats only what has
\* not been committed (service.py:215-226, document_tasks.py:50-57).  It takes a
\* crash between commit and acknowledgement to do that.
RetriesStoreOnce ==
    \A j \in Jobs : \A a, b \in WholeBatches(j) : a # b => faults > 0

\* Nobody has the content of the document in memory.
NoContent == \A j \in Jobs : pc[j] # "embedded" /\ j \notin partly

\* A deleted document gains no chunks any more, once the tasks that read it
\* before the delete are through: those that begin later find neither row nor
\* file (service.py:164-171).
DeletedGainsNothing ==
    [][(deleted /\ NoContent) => (deleted' /\ NoContent' /\ chunks' \subseteq chunks)]_vars

\* A document leaves "pending" and "processing", unless something broke.
IngestionEnds ==
    status \in {"pending", "processing"}
        ~> (status \notin {"pending", "processing"} \/ faults > 0)

----------------------------------------------------------------------------
(* The inductive invariant *)

\* Until something breaks, a task has stored nothing whole before its last attempt,
\* and that one has ended with it.
StoredLast ==
    faults = 0 => \A j \in Jobs : \A b \in WholeBatches(j) :
                    pc[j] \in {"indexed", "done"} /\ b[2] = attempt[j]

\* Nothing can happen to the document before it has been uploaded.
UploadFirst ==
    pc[Upload] = "idle"
        => status = "none" /\ ~deleted /\ \A r \in Requests : pc[r] = "idle"

\* The file is there from the upload to the delete.
FileSinceUpload ==
    (pc[Upload] # "idle" /\ ~file)
        => (deleted \/ \E d \in Deletes : pc[d] \in {"removed", "dead"})

\* A delete request that gets to its commit has removed the file.
DeletedHasNoFile ==
    (deleted \/ \E d \in Deletes : pc[d] = "removed") => ~file

IInv ==
    /\ TypeOK
    /\ IndexedIsSearchable
    /\ StoredLast
    /\ UploadFirst
    /\ FileSinceUpload
    /\ DeletedHasNoFile
=============================================================================
