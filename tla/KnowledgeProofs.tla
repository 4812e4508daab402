--------------------------- MODULE KnowledgeProofs ---------------------------
(***************************************************************************)
(* Proofs about the knowledge base.                                        *)
(*                                                                         *)
(* What DocumentIngestion guarantees for any number of re-index and delete *)
(* requests, retries and faults.  Every step moves one request or task and *)
(* writes little else, so each lemma about a step first says what it does  *)
(* and then checks the parts of the invariant it can disturb.              *)
(*                                                                         *)
(* What Chunking makes of any text, for any sizes: what has been read is   *)
(* told by the chunks so far and by the last paragraphs, which are being   *)
(* built.  The loop over the sentences of a long paragraph has an          *)
(* invariant of the same form, and is proved by induction.                 *)
(***************************************************************************)
EXTENDS DocumentIngestion, ChunkRecord, SequenceTheorems, WellFoundedInduction, TLAPS

CONSTANT MaxParagraphs

VARIABLES section, tokens, ended

Chunker == INSTANCE Chunking

----------------------------------------------------------------------------
(* Moves                                                                   *)

LEMMA JobsAreRequests == Jobs \subseteq Requests /\ Upload \in Jobs /\ Deletes \subseteq Requests
  BY DEF Jobs, Requests

\* A delete request is neither a task nor the upload.
LEMMA DeletesAreNotJobs == \A d \in Deletes : d \notin Jobs
  BY DocumentAssumption DEF Jobs

LEMMA Moves ==
    ASSUME TypeOK, NEW r \in Requests, NEW place \in Place, Goto(r, place)
    PROVE  /\ pc' \in [Requests -> Place]
           /\ pc'[r] = place
           /\ \A q \in Requests : q # r => pc'[q] = pc[q]
  BY DEF TypeOK, Goto

\* A step that keeps the chunks, or adds some, and does not set "indexed".
LEMMA SearchableKept ==
    ASSUME IndexedIsSearchable, chunks \subseteq chunks',
           status' = status \/ status' # "indexed"
    PROVE  IndexedIsSearchable'
  BY DEF IndexedIsSearchable, WholeBatches

\* A step that moves one request or task r and stores nothing whole.
LEMMA StoredLastKept ==
    ASSUME StoredLast, TypeOK, NEW r \in Requests,
           \A q \in Requests : q # r => pc'[q] = pc[q],
           \A b \in chunks' : b[3] = "whole" => b \in chunks,
           \/ r \notin Jobs
           \/ pc[r] \notin {"indexed", "done"}
           \/ pc'[r] \in {"indexed", "done"} /\ attempt'[r] = attempt[r],
           \A j \in Jobs : j # r => attempt'[j] = attempt[j],
           faults' = faults
    PROVE  StoredLast'
  <1> SUFFICES ASSUME faults' = 0, NEW j \in Jobs, NEW b \in WholeBatches(j)'
               PROVE  pc'[j] \in {"indexed", "done"} /\ b[2] = attempt'[j]
    BY DEF StoredLast
  <1>1. b \in WholeBatches(j)
    BY DEF WholeBatches
  <1>2. pc[j] \in {"indexed", "done"} /\ b[2] = attempt[j]
    BY <1>1 DEF StoredLast
  <1>3. QED
    BY <1>2, JobsAreRequests

\* A step that leaves row, file and upload as they are.
LEMMA FileUntouched ==
    ASSUME UploadFirst, FileSinceUpload, DeletedHasNoFile, TypeOK,
           NEW r \in Requests, r = Upload => pc[r] # "idle",
           pc[r] = "idle" => pc[Upload] # "idle",
           \A q \in Requests : q # r => pc'[q] = pc[q],
           pc[r] # "removed", pc[r] # "dead", pc'[r] # "removed", pc'[r] # "idle",
           UNCHANGED <<deleted, file>>,
           status' = status \/ pc[r] # "idle"
    PROVE  UploadFirst' /\ FileSinceUpload' /\ DeletedHasNoFile'
  <1>1. pc[Upload] # "idle" /\ pc'[Upload] # "idle"
    BY JobsAreRequests DEF UploadFirst
  <1>2. \A d \in Deletes :
            /\ pc[d] \in {"removed", "dead"} => pc'[d] = pc[d]
            /\ pc'[d] = "removed" => pc[d] = "removed"
    BY JobsAreRequests
  <1>3. (deleted' <=> deleted) /\ (file' <=> file)
    OBVIOUS
  <1>4. QED
    BY <1>1, <1>2, <1>3 DEF UploadFirst, FileSinceUpload, DeletedHasNoFile

----------------------------------------------------------------------------
(* The initial state                                                       *)

LEMMA InitIInv == Init => IInv
  <1> SUFFICES ASSUME Init PROVE IInv
    OBVIOUS
  <1>1. TypeOK
    BY DEF Init, TypeOK, DocumentStatus, Place
  <1>2. IndexedIsSearchable
    BY DEF Init, IndexedIsSearchable
  <1>3. StoredLast
    BY DEF Init, StoredLast, WholeBatches
  <1>4. UploadFirst /\ FileSinceUpload /\ DeletedHasNoFile
    BY JobsAreRequests DEF Init, UploadFirst, FileSinceUpload, DeletedHasNoFile
  <1>5. QED
    BY <1>1, <1>2, <1>3, <1>4 DEF IInv

----------------------------------------------------------------------------
(* The requests                                                            *)

LEMMA StoreFileStep ==
    ASSUME IInv, StoreFile
    PROVE  IInv'
  <1> USE JobsAreRequests
  <1>1. /\ pc[Upload] = "idle" /\ file' = TRUE /\ Goto(Upload, "stored")
        /\ UNCHANGED <<status, deleted, chunks, snapshot, retries, attempt, partly, faults>>
    BY DEF StoreFile, rowVars
  <1>2. /\ pc' \in [Requests -> Place] /\ pc'[Upload] = "stored"
        /\ \A q \in Requests : q # Upload => pc'[q] = pc[q]
    BY <1>1, Moves DEF IInv, Place
  <1>3. TypeOK'
    BY <1>1, <1>2 DEF IInv, TypeOK
  <1>4. IndexedIsSearchable' /\ StoredLast'
    BY <1>1, <1>2, SearchableKept, StoredLastKept DEF IInv
  <1>5. status = "none" /\ ~deleted /\ \A r \in Requests : pc[r] = "idle"
    BY <1>1 DEF IInv, UploadFirst
  <1>6. UploadFirst' /\ FileSinceUpload' /\ DeletedHasNoFile'
    BY <1>1, <1>2, <1>5, DeletesAreNotJobs DEF UploadFirst, FileSinceUpload, DeletedHasNoFile
  <1>7. QED
    BY <1>3, <1>4, <1>6 DEF IInv

\* Steps of a request or task that write no more than the status, or nothing.
LEMMA LightStep ==
    ASSUME IInv, NEW r \in Requests, NEW place \in Place,
           Goto(r, place),
           pc[r] # "idle" \/ (pc[Upload] # "idle" /\ status' = status),
           pc[r] \notin {"removed", "dead", "indexed", "done"},
           place \notin {"removed", "idle"},
           status' \in DocumentStatus, status' = status \/ status' # "indexed",
           snapshot' \in [Requests -> SUBSET Batch],
           retries' \in [Jobs -> Nat], attempt' \in [Jobs -> Nat],
           \A j \in Jobs : j # r => attempt'[j] = attempt[j],
           partly' \in SUBSET Jobs,
           chunks' \in SUBSET Batch, chunks \subseteq chunks',
           \A b \in chunks' : b[3] = "whole" => b \in chunks,
           UNCHANGED <<deleted, file, faults>>
    PROVE  IInv'
  <1>1. /\ pc' \in [Requests -> Place] /\ pc'[r] = place
        /\ \A q \in Requests : q # r => pc'[q] = pc[q]
    BY Moves DEF IInv
  <1>2. TypeOK'
    BY <1>1 DEF IInv, TypeOK
  <1>3. IndexedIsSearchable'
    BY SearchableKept DEF IInv
  <1>4. StoredLast'
    BY <1>1, StoredLastKept DEF IInv
  <1>5. UploadFirst' /\ FileSinceUpload' /\ DeletedHasNoFile'
    BY <1>1, FileUntouched DEF IInv
  <1>6. QED
    BY <1>2, <1>3, <1>4, <1>5 DEF IInv

LEMMA ReadOrDropStep ==
    ASSUME IInv, NEW r \in Requests, ReadDocument(r) \/ DropChunks(r)
    PROVE  IInv'
  <1>1. PICK place \in {"refused", "read", "dropped"} :
            /\ Goto(r, place)
            /\ pc[r] = "read" \/ (pc[r] = "idle" /\ status # "none")
            /\ snapshot' \in {snapshot, [snapshot EXCEPT ![r] = chunks]}
            /\ UNCHANGED <<status, deleted, chunks, file, retries, attempt, partly, faults>>
    BY DEF ReadDocument, DropChunks, rowVars
  <1>2. pc[r] # "idle" \/ pc[Upload] # "idle"
    BY <1>1 DEF IInv, UploadFirst
  <1>3. snapshot' \in [Requests -> SUBSET Batch]
    BY <1>1 DEF IInv, TypeOK
  <1>4. place \in Place /\ place \notin {"removed", "idle"}
    BY DEF Place
  <1>5. QED
    BY <1>1, <1>2, <1>3, <1>4, LightStep DEF IInv, TypeOK

LEMMA CreateOrEnqueueStep ==
    ASSUME IInv, NEW r \in Jobs, (r = Upload /\ CreateDocument) \/ Enqueue(r)
    PROVE  IInv'
  <1>1. PICK place \in {"committed", "queued"} :
            /\ Goto(r, place)
            /\ pc[r] \in {"stored", "committed"}
            /\ status' \in {status, "pending"}
            /\ retries' = retries \/ \E n \in {0, MaxRetries} : retries' = [retries EXCEPT ![r] = n]
            /\ UNCHANGED <<deleted, chunks, file, snapshot, attempt, partly, faults>>
    BY DEF CreateDocument, Enqueue, rowVars
  <1>2. retries' \in [Jobs -> Nat]
    BY <1>1, DocumentAssumption DEF IInv, TypeOK
  <1>3. place \in Place /\ r \in Requests
    BY JobsAreRequests DEF Place
  <1>4. status' \in DocumentStatus
    BY <1>1 DEF IInv, TypeOK, DocumentStatus
  <1>5. QED
    BY <1>1, <1>2, <1>3, <1>4, LightStep DEF IInv, TypeOK

\* Chunks go, and with them the status that promised them.
LEMMA ReindexCommitStep ==
    ASSUME IInv, NEW r \in Requests, ReindexCommit(r)
    PROVE  IInv'
  <1>1. /\ pc[r] = "dropped" /\ Goto(r, "committed") /\ r \in Reindexes
        /\ chunks' = chunks \ snapshot[r] /\ status' = "pending"
        /\ UNCHANGED <<deleted, file, snapshot, retries, attempt, partly, faults>>
    BY DEF ReindexCommit
  <1>2. /\ pc' \in [Requests -> Place] /\ pc'[r] = "committed"
        /\ \A q \in Requests : q # r => pc'[q] = pc[q]
    BY <1>1, Moves DEF IInv, Place
  <1>3. TypeOK'
    BY <1>1, <1>2 DEF IInv, TypeOK, DocumentStatus
  <1>4. IndexedIsSearchable'
    BY <1>1 DEF IndexedIsSearchable
  <1>5. StoredLast'
    BY <1>1, <1>2, StoredLastKept DEF IInv
  <1>6. UploadFirst' /\ FileSinceUpload' /\ DeletedHasNoFile'
    BY <1>1, <1>2, FileUntouched DEF IInv
  <1>7. QED
    BY <1>3, <1>4, <1>5, <1>6 DEF IInv

LEMMA DeleteFileStep ==
    ASSUME IInv, NEW d \in Requests, DeleteFile(d)
    PROVE  IInv'
  <1>1. /\ d \in Deletes /\ pc[d] = "dropped" /\ Goto(d, "removed") /\ file' = FALSE
        /\ UNCHANGED <<status, deleted, chunks, snapshot, retries, attempt, partly, faults>>
    BY DEF DeleteFile, rowVars
  <1>2. /\ pc' \in [Requests -> Place] /\ pc'[d] = "removed"
        /\ \A q \in Requests : q # d => pc'[q] = pc[q]
    BY <1>1, Moves DEF IInv, Place
  <1>3. TypeOK'
    BY <1>1, <1>2 DEF IInv, TypeOK
  <1>4. IndexedIsSearchable' /\ StoredLast'
    BY <1>1, <1>2, DeletesAreNotJobs, SearchableKept, StoredLastKept DEF IInv
  <1>5. UploadFirst' /\ FileSinceUpload' /\ DeletedHasNoFile'
    BY <1>1, <1>2, JobsAreRequests, DeletesAreNotJobs
    DEF IInv, UploadFirst, FileSinceUpload, DeletedHasNoFile
  <1>6. QED
    BY <1>3, <1>4, <1>5 DEF IInv

LEMMA DeleteCommitStep ==
    ASSUME IInv, NEW d \in Requests, DeleteCommit(d)
    PROVE  IInv'
  <1>1. /\ d \in Deletes /\ pc[d] = "removed" /\ Goto(d, "done")
        /\ chunks' = chunks \ snapshot[d] /\ status' = "deleting" /\ deleted' = TRUE
        /\ UNCHANGED <<file, snapshot, retries, attempt, partly, faults>>
    BY DEF DeleteCommit
  <1>2. /\ pc' \in [Requests -> Place] /\ pc'[d] = "done"
        /\ \A q \in Requests : q # d => pc'[q] = pc[q]
    BY <1>1, Moves DEF IInv, Place
  <1>3. TypeOK'
    BY <1>1, <1>2 DEF IInv, TypeOK, DocumentStatus
  <1>4. IndexedIsSearchable'
    BY <1>1 DEF IndexedIsSearchable
  <1>5. StoredLast'
    BY <1>1, <1>2, StoredLastKept DEF IInv
  <1>6. QED
    BY <1>1, <1>2, <1>3, <1>4, <1>5, JobsAreRequests
    DEF IInv, UploadFirst, FileSinceUpload, DeletedHasNoFile

----------------------------------------------------------------------------
(* The tasks                                                               *)

LEMMA ReadAndFailStep ==
    ASSUME IInv, NEW j \in Jobs,
           BeginProcessing(j) \/ Parse(j) \/ ParseFails(j) \/ StoreBreaks(j) \/ MarkFailed(j)
    PROVE  IInv'
  <1>1. PICK place \in {"begun", "embedded", "failing", "queued", "done"} :
            /\ Goto(j, place)
            /\ pc[j] \in {"queued", "begun", "embedded", "failing"}
            /\ status' \in {status, "processing", "failed"}
            /\ attempt' \in {attempt, [attempt EXCEPT ![j] = attempt[j] + 1]}
            /\ \/ retries' = retries
               \/ retries' = [retries EXCEPT ![j] = IF retries[j] < MaxRetries
                                                    THEN retries[j] + 1 ELSE retries[j]]
            /\ chunks' \in {chunks, chunks \cup {<<j, attempt[j], "part">>}}
            /\ partly' \in {partly, partly \cup {j}, partly \ {j}}
            /\ UNCHANGED <<deleted, file, snapshot, faults>>
    BY DEF BeginProcessing, Parse, ParseFails, StoreBreaks, MarkFailed, Retry, Store, rowVars
  <1>2. retries' \in [Jobs -> Nat] /\ attempt' \in [Jobs -> Nat]
    BY <1>1 DEF IInv, TypeOK
  <1>3. \A k \in Jobs : k # j => attempt'[k] = attempt[k]
    BY <1>1 DEF IInv, TypeOK
  <1>4. /\ chunks' \in SUBSET Batch /\ chunks \subseteq chunks'
        /\ \A b \in chunks' : b[3] = "whole" => b \in chunks
    <2>1. <<j, attempt[j], "part">> \in Batch /\ <<j, attempt[j], "part">>[3] # "whole"
      BY DEF IInv, TypeOK, Batch
    <2>2. QED
      BY <1>1, <2>1 DEF IInv, TypeOK
  <1>5. place \in Place /\ j \in Requests /\ status' \in DocumentStatus
    BY <1>1, JobsAreRequests DEF IInv, TypeOK, Place, DocumentStatus
  <1>6. partly' \in SUBSET Jobs /\ snapshot' \in [Requests -> SUBSET Batch]
    BY <1>1 DEF IInv, TypeOK
  <1>7. QED
    BY <1>1, <1>2, <1>3, <1>4, <1>5, <1>6, LightStep

\* The one step that stores a whole batch: until something breaks it is the
\* task's first.
LEMMA IndexStep ==
    ASSUME IInv, NEW j \in Jobs, IndexDocument(j)
    PROVE  IInv'
  <1> DEFINE b == <<j, attempt[j], "whole">>
  <1>1. /\ pc[j] = "embedded" /\ Goto(j, "indexed") /\ status' = "indexed"
        /\ chunks' = chunks \cup {b}
        /\ UNCHANGED <<deleted, file, snapshot, retries, attempt, partly, faults>>
    BY DEF IndexDocument, Store
  <1>2. /\ pc' \in [Requests -> Place] /\ pc'[j] = "indexed" /\ j \in Requests
        /\ \A q \in Requests : q # j => pc'[q] = pc[q]
    BY <1>1, Moves, JobsAreRequests DEF IInv, Place
  <1>3. b \in Batch /\ b[1] = j /\ b[2] = attempt[j] /\ b[3] = "whole"
    BY DEF IInv, TypeOK, Batch
  <1>4. TypeOK'
    BY <1>1, <1>2, <1>3 DEF IInv, TypeOK, DocumentStatus
  <1>5. IndexedIsSearchable'
    <2>1. b \in WholeBatches(j)'
      BY <1>1, <1>3 DEF WholeBatches
    <2>2. QED
      BY <2>1 DEF IndexedIsSearchable
  <1>6. StoredLast'
    <2> SUFFICES ASSUME faults' = 0, NEW k \in Jobs, NEW c \in WholeBatches(k)'
                 PROVE  pc'[k] \in {"indexed", "done"} /\ c[2] = attempt'[k]
      BY DEF StoredLast
    <2>1. CASE c \in WholeBatches(k)
      <3>1. pc[k] \in {"indexed", "done"} /\ c[2] = attempt[k]
        BY <1>1, <2>1 DEF IInv, StoredLast
      <3>2. k # j
        BY <1>1, <3>1
      <3>3. QED
        BY <1>1, <1>2, <3>1, <3>2, JobsAreRequests
    <2>2. CASE c \notin WholeBatches(k)
      <3>1. c = b /\ k = j
        BY <1>1, <1>3, <2>2 DEF WholeBatches
      <3>2. QED
        BY <1>1, <1>2, <1>3, <3>1
    <2>3. QED
      BY <2>1, <2>2
  <1>7. UploadFirst' /\ FileSinceUpload' /\ DeletedHasNoFile'
    BY <1>1, <1>2, FileUntouched DEF IInv
  <1>8. QED
    BY <1>4, <1>5, <1>6, <1>7 DEF IInv

LEMMA AcknowledgeStep ==
    ASSUME IInv, NEW j \in Jobs, Acknowledge(j)
    PROVE  IInv'
  <1>1. /\ pc[j] = "indexed" /\ Goto(j, "done")
        /\ UNCHANGED <<status, deleted, chunks, file, snapshot, retries, attempt, partly, faults>>
    BY DEF Acknowledge, Acked, rowVars
  <1>2. /\ pc' \in [Requests -> Place] /\ pc'[j] = "done" /\ j \in Requests
        /\ \A q \in Requests : q # j => pc'[q] = pc[q]
    BY <1>1, Moves, JobsAreRequests DEF IInv, Place
  <1>3. TypeOK'
    BY <1>1, <1>2 DEF IInv, TypeOK
  <1>4. IndexedIsSearchable' /\ StoredLast'
    BY <1>1, <1>2, SearchableKept, StoredLastKept DEF IInv
  <1>5. UploadFirst' /\ FileSinceUpload' /\ DeletedHasNoFile'
    BY <1>1, <1>2, FileUntouched DEF IInv
  <1>6. QED
    BY <1>3, <1>4, <1>5 DEF IInv

\* A fault writes nothing, and the claim about retries is given up.
LEMMA FaultStep ==
    ASSUME IInv, NEW r \in Requests,
           (r \in Jobs /\ (DatabaseError(r) \/ TaskCrashes(r))) \/ RequestDies(r)
    PROVE  IInv'
  <1>1. PICK place \in {"queued", "done", "lost", "dead"} :
            /\ Goto(r, place)
            /\ pc[r] \notin {"idle", "dead"} /\ (pc[r] = "removed" => place = "dead")
            /\ faults' = faults + 1
            /\ \/ retries' = retries
               \/ r \in Jobs /\ retries' = [retries EXCEPT ![r] = IF retries[r] < MaxRetries
                                                      THEN retries[r] + 1 ELSE retries[r]]
            /\ partly' \in {partly, partly \ {r}}
            /\ UNCHANGED <<status, deleted, chunks, file, snapshot, attempt>>
    BY DEF DatabaseError, TaskCrashes, RequestDies, Retry, Fault, rowVars
  <1>2. /\ pc' \in [Requests -> Place] /\ pc'[r] = place
        /\ \A q \in Requests : q # r => pc'[q] = pc[q]
    BY <1>1, Moves DEF IInv, Place
  <1>3. retries' \in [Jobs -> Nat] /\ partly' \in SUBSET Jobs /\ faults' \in Nat /\ faults' # 0
    BY <1>1 DEF IInv, TypeOK
  <1>4. TypeOK'
    BY <1>1, <1>2, <1>3 DEF IInv, TypeOK
  <1>5. IndexedIsSearchable' /\ StoredLast'
    BY <1>1, <1>3, SearchableKept DEF IInv, StoredLast
  <1>6. UploadFirst' /\ FileSinceUpload' /\ DeletedHasNoFile'
    <2>1. pc[Upload] # "idle" /\ pc'[Upload] # "idle"
      BY <1>1, <1>2, JobsAreRequests DEF IInv, UploadFirst
    <2>2. \A d \in Deletes :
            /\ pc[d] \in {"removed", "dead"} => pc'[d] \in {"removed", "dead"}
            /\ pc'[d] = "removed" => pc[d] = "removed"
      BY <1>1, <1>2, JobsAreRequests
    <2>3. QED
      BY <1>1, <2>1, <2>2 DEF IInv, UploadFirst, FileSinceUpload, DeletedHasNoFile
  <1>7. QED
    BY <1>4, <1>5, <1>6 DEF IInv

LEMMA IInvStep == IInv /\ [Next]_vars => IInv'
  <1> SUFFICES ASSUME IInv, [Next]_vars PROVE IInv'
    OBVIOUS
  <1>1. CASE StoreFile
    BY <1>1, StoreFileStep
  <1>2. ASSUME NEW r \in Requests, ReadDocument(r) \/ RequestStep(r) PROVE IInv'
    <2>1. CASE ReadDocument(r) \/ DropChunks(r)
      BY <2>1, ReadOrDropStep
    <2>2. CASE (r = Upload /\ CreateDocument) \/ (r \in Jobs /\ Enqueue(r))
      BY <2>2, CreateOrEnqueueStep, JobsAreRequests
    <2>3. CASE ReindexCommit(r)
      BY <2>3, ReindexCommitStep
    <2>4. CASE DeleteFile(r)
      BY <2>4, DeleteFileStep
    <2>5. CASE DeleteCommit(r)
      BY <2>5, DeleteCommitStep
    <2>6. QED
      BY <1>2, <2>1, <2>2, <2>3, <2>4, <2>5 DEF RequestStep
  <1>3. ASSUME NEW j \in Jobs, TaskStep(j) PROVE IInv'
    <2>1. CASE IndexDocument(j)
      BY <2>1, IndexStep
    <2>2. CASE Acknowledge(j)
      BY <2>2, AcknowledgeStep
    <2>3. QED
      BY <1>3, <2>1, <2>2, ReadAndFailStep DEF TaskStep
  <1>4. ASSUME NEW r \in Requests,
               (r \in Jobs /\ (DatabaseError(r) \/ TaskCrashes(r))) \/ RequestDies(r)
        PROVE  IInv'
    BY <1>4, FaultStep
  <1>5. CASE UNCHANGED vars
    BY <1>5
    DEF vars, rowVars, IInv, TypeOK, IndexedIsSearchable, StoredLast, WholeBatches, UploadFirst,
        FileSinceUpload, DeletedHasNoFile
  <1>6. QED
    BY <1>1, <1>2, <1>3, <1>4, <1>5, JobsAreRequests DEF Next

----------------------------------------------------------------------------
(* Theorems                                                                *)

\* The inductive invariant holds for any number of requests, retries and faults.
THEOREM DocumentInvariance == Spec => []IInv
  BY InitIInv, IInvStep, PTL DEF Spec

\* An indexed document always has a complete set of its chunks.
THEOREM IndexedStaysSearchable == Spec => []IndexedIsSearchable
  <1>1. IInv => IndexedIsSearchable
    BY DEF IInv
  <1>2. QED
    BY <1>1, DocumentInvariance, PTL

\* The file of a live document is lost only to a delete request that dies.
THEOREM FileKept == Spec => []FileIsKept
  <1>1. IInv => FileIsKept
    BY DEF IInv, UploadFirst, FileSinceUpload, FileIsKept
  <1>2. QED
    BY <1>1, DocumentInvariance, PTL

\* Without a crash or database error no task stores a document twice, whatever
\* its retries.
THEOREM RetriesAreSafe == Spec => []RetriesStoreOnce
  <1>1. ASSUME IInv PROVE RetriesStoreOnce
    <2> SUFFICES ASSUME NEW j \in Jobs, faults = 0,
                        NEW a \in WholeBatches(j), NEW b \in WholeBatches(j)
                 PROVE  a = b
      BY <1>1 DEF RetriesStoreOnce, IInv, TypeOK
    <2>1. a[2] = b[2]
      BY <1>1 DEF IInv, StoredLast
    <2>2. /\ a \in Batch /\ b \in Batch
          /\ a[1] = b[1] /\ a[3] = b[3]
      BY <1>1 DEF WholeBatches, IInv, TypeOK
    <2>3. QED
      BY <2>1, <2>2 DEF Batch
  <1>2. QED
    BY <1>1, DocumentInvariance, PTL

\* A deleted document whose content nobody has in memory gains no chunks.
THEOREM DeletedStaysClean == Spec => DeletedGainsNothing
  <1>1. ASSUME IInv, [Next]_vars, deleted, NoContent
        PROVE  deleted' /\ NoContent' /\ chunks' \subseteq chunks
    <2>1. ~file
      BY <1>1 DEF IInv, DeletedHasNoFile
    <2>2. CASE StoreFile
      BY <1>1, <2>2, JobsAreRequests DEF IInv, TypeOK, StoreFile, rowVars, Goto, NoContent
    <2>3. ASSUME NEW r \in Requests, ReadDocument(r) \/ RequestStep(r) \/ RequestDies(r)
          PROVE  deleted' /\ NoContent' /\ chunks' \subseteq chunks
      <3>1. deleted' /\ partly' = partly /\ chunks' \subseteq chunks
        BY <1>1, <2>3
        DEF ReadDocument, RequestStep, RequestDies, CreateDocument, Enqueue, DropChunks,
            ReindexCommit, DeleteFile, DeleteCommit, rowVars
      <3>2. \E place \in Place \ {"embedded"} : Goto(r, place)
        BY <2>3
        DEF ReadDocument, RequestStep, RequestDies, CreateDocument, Enqueue, DropChunks,
            ReindexCommit, DeleteFile, DeleteCommit, Place
      <3>3. \A j \in Jobs : pc'[j] # "embedded"
        BY <1>1, <3>2, JobsAreRequests DEF IInv, TypeOK, Goto, NoContent
      <3>4. QED
        BY <1>1, <3>1, <3>3 DEF NoContent
    <2>4. ASSUME NEW j \in Jobs, TaskStep(j) \/ DatabaseError(j) \/ TaskCrashes(j)
          PROVE  deleted' /\ NoContent' /\ chunks' \subseteq chunks
      <3>1. ~Parse(j) /\ ~StoreBreaks(j) /\ ~IndexDocument(j)
        BY <1>1, <2>1 DEF Parse, Readable, StoreBreaks, IndexDocument, NoContent
      <3>2. deleted' /\ partly' \subseteq partly /\ chunks' = chunks
        BY <1>1, <2>4, <3>1
        DEF TaskStep, BeginProcessing, ParseFails, MarkFailed, Acknowledge, DatabaseError,
            TaskCrashes, rowVars, NoContent
      <3>3. \E place \in Place \ {"embedded"} : Goto(j, place)
        BY <2>4, <3>1
        DEF TaskStep, BeginProcessing, ParseFails, MarkFailed, Acknowledge, Acked,
            DatabaseError, TaskCrashes, Retry, Place
      <3>4. \A k \in Jobs : pc'[k] # "embedded"
        BY <1>1, <3>3, JobsAreRequests DEF IInv, TypeOK, Goto, NoContent
      <3>5. QED
        BY <1>1, <3>2, <3>4 DEF NoContent
    <2>5. CASE UNCHANGED vars
      BY <1>1, <2>5 DEF vars, rowVars, NoContent
    <2>6. QED
      BY <1>1, <2>2, <2>3, <2>4, <2>5 DEF Next
  <1>2. QED
    BY <1>1, DocumentInvariance, PTL DEF Spec, DeletedGainsNothing

----------------------------------------------------------------------------
(* Chunks: the record, as the instance sees it *)

\* What is measured is the same in the instance.
LEMMA SameSizes ==
  /\ \A x : Chunker!Tokens(x) = Tokens(x)
  /\ \A s : Chunker!Last(s) = Last(s)
  /\ \A s : Chunker!Total(s) = Total(s)
BY DEF Chunker!Tokens, Tokens, Chunker!Last, Last, Chunker!Total, Total

\* So is what is measured by it.
LEMMA SameJoined ==
  /\ \A s, gap : Chunker!Joined(s, gap) = Joined(s, gap)
  /\ \A p : Chunker!Size(p) = Size(p) /\ Chunker!IsAtomic(p) = IsAtomic(p)
<1>1. \A s, gap : Chunker!Joined(s, gap) = Joined(s, gap)
  BY SameSizes DEF Chunker!Joined, Joined
<1>2. \A p : Chunker!Size(p) = Size(p)
  BY <1>1, SameSizes DEF Chunker!Size, Size
<1> QED BY <1>1, <1>2 DEF Chunker!IsAtomic, IsAtomic

----------------------------------------------------------------------------
(* Induction: the theorems of the library take an operator as a parameter, *)
(* but well-foundedness of < on the numbers, a fact about a set of pairs,  *)
(* serves as well.                                                         *)

\* A non-empty set of numbers has a least one.
LEMMA LeastNumber ==
  ASSUME NEW S \in SUBSET Nat, S # {}
  PROVE  \E m \in S : \A k \in S : m <= k
<1> DEFINE R == OpToRel(<, Nat)
<1>1. IsWellFoundedOn(R, Nat)
  BY NatLessThanWellFounded
<1>2. \A x, y \in Nat : x < y => <<x, y>> \in R
  BY DEF OpToRel
<1> HIDE DEF R
<1>3. PICK m \in S : \A k \in S : ~(<<k, m>> \in R)
  BY <1>1, WFMin, Zenon
<1>4. \A k \in S : ~(k < m)
  BY <1>2, <1>3
<1> QED BY <1>4

\* A set of numbers with 0, and with each number the next one, has them all.
LEMMA Induction ==
  ASSUME NEW S, 0 \in S, \A n \in Nat : n \in S => n + 1 \in S
  PROVE  Nat \subseteq S
<1> SUFFICES ASSUME ~(Nat \subseteq S) PROVE FALSE
  OBVIOUS
<1> DEFINE T == Nat \ S
<1>1. T \in SUBSET Nat /\ T # {}
  OBVIOUS
<1>2. PICK m \in T : \A k \in T : m <= k
  <2> HIDE DEF T
  <2> QED BY <1>1, LeastNumber
<1>3. m # 0 /\ m - 1 \in Nat
  OBVIOUS
<1>4. m - 1 \in S
  BY <1>2, <1>3
<1> QED BY <1>3, <1>4

\* The functions that tell, step by step, what becomes of a value, and the values
\* it passes through when it starts with a.
Steps(S, n) == [1 .. n -> [S -> S]]

Runs(S, a, n, step) ==
    {f \in [0 .. n -> S] : f[0] = a /\ \A k \in 1 .. n : f[k] = step[k][f[k - 1]]}

\* A function can be defined step by step.
LEMMA Recursion ==
  ASSUME NEW S, NEW a \in S, NEW n \in Nat, NEW step \in Steps(S, n)
  PROVE  Runs(S, a, n, step) # {}
<1> USE DEF Steps
<1> DEFINE T == {m \in Nat : m <= n =>
                   \E f \in [0 .. m -> S] :
                      f[0] = a /\ \A k \in 1 .. m : f[k] = step[k][f[k - 1]]}
<1>1. 0 \in T
  <2> DEFINE f == [k \in 0 .. 0 |-> a]
  <2>1. f \in [0 .. 0 -> S] /\ f[0] = a /\ \A k \in 1 .. 0 : f[k] = step[k][f[k - 1]]
    OBVIOUS
  <2> QED BY <2>1
<1>2. ASSUME NEW m \in Nat, m \in T PROVE m + 1 \in T
  <2> SUFFICES ASSUME m + 1 <= n
               PROVE  \E f \in [0 .. m + 1 -> S] :
                         f[0] = a /\ \A k \in 1 .. m + 1 : f[k] = step[k][f[k - 1]]
    OBVIOUS
  <2>1. PICK g \in [0 .. m -> S] :
           g[0] = a /\ \A k \in 1 .. m : g[k] = step[k][g[k - 1]]
    BY <1>2
  <2> DEFINE f == [k \in 0 .. m + 1 |-> IF k <= m THEN g[k] ELSE step[k][g[m]]]
  <2>2. f \in [0 .. m + 1 -> S]
    <3> SUFFICES ASSUME NEW k \in 0 .. m + 1
                 PROVE  (IF k <= m THEN g[k] ELSE step[k][g[m]]) \in S
      OBVIOUS
    <3>1. CASE k <= m
      BY <3>1
    <3>2. CASE k = m + 1
      BY <3>2
    <3> QED BY <3>1, <3>2
  <2>3. f[0] = a
    BY <2>1
  <2>4. ASSUME NEW k \in 1 .. m + 1 PROVE f[k] = step[k][f[k - 1]]
    <3>1. f[k - 1] = g[k - 1]
      OBVIOUS
    <3>2. CASE k <= m
      BY <2>1, <3>1, <3>2
    <3>3. CASE k = m + 1
      BY <3>1, <3>3
    <3> QED BY <3>2, <3>3
  <2> HIDE DEF f
  <2> QED BY <2>2, <2>3, <2>4
<1> HIDE DEF T
<1>3. n \in T
  BY <1>1, <1>2, Induction
<1> QED BY <1>3 DEF T, Runs

----------------------------------------------------------------------------
(* Chunks: sums *)

\* Total adds up the numbers from left to right.
LEMMA TotalSums ==
  ASSUME NEW s \in Seq(Int)
  PROVE  \E f \in [0 .. Len(s) -> Int] :
            /\ f[0] = 0 /\ \A k \in 1 .. Len(s) : f[k] = f[k - 1] + s[k]
            /\ Total(s) = f[Len(s)]
<1> DEFINE n == Len(s)
           step == [k \in 1 .. n |-> [v \in Int |-> v + s[k]]]
           IsSum(f) == f = [k \in 0 .. n |-> IF k = 0 THEN 0 ELSE f[k - 1] + s[k]]
<1>1. n \in Nat /\ \A k \in 1 .. n : s[k] \in Int
  OBVIOUS
<1>2. step \in [1 .. n -> [Int -> Int]]
  BY <1>1
<1>3. PICK g \in [0 .. n -> Int] :
         g[0] = 0 /\ \A k \in 1 .. n : g[k] = step[k][g[k - 1]]
  <2>1. step \in Steps(Int, n) /\ 0 \in Int /\ n \in Nat
    BY <1>1, <1>2 DEF Steps
  <2>2. Runs(Int, 0, n, step) # {}
    <3> HIDE DEF step, n
    <3> QED BY <2>1, Recursion
  <2> HIDE DEF step, n
  <2> QED BY <2>2 DEF Runs
<1>4. IsSum(g)
  <2>1. ASSUME NEW k \in 0 .. n PROVE g[k] = IF k = 0 THEN 0 ELSE g[k - 1] + s[k]
    <3>1. CASE k = 0
      BY <1>3, <3>1
    <3>2. CASE k # 0
      <4>1. k \in 1 .. n /\ g[k - 1] \in Int
        BY <1>1, <3>2
      <4>2. g[k] = step[k][g[k - 1]]
        BY <1>3, <4>1
      <4> QED BY <3>2, <4>1, <4>2
    <3> QED BY <3>1, <3>2
  <2> HIDE DEF n
  <2> QED BY <2>1
<1> DEFINE f == CHOOSE h : IsSum(h)
<1>5. IsSum(f)
  <2> HIDE DEF IsSum
  <2> QED BY <1>4
<1>6. Total(s) = f[n]
  BY DEF Total
<1> HIDE DEF f
<1>7. f[0] = 0 /\ \A k \in 1 .. n : f[k] = f[k - 1] + s[k]
  BY <1>1, <1>5, SMTT(40)
<1>8. f \in [0 .. n -> Int]
  <2> DEFINE T == {k \in Nat : k <= n => f[k] \in Int}
  <2>1. 0 \in T
    BY <1>7
  <2>2. ASSUME NEW k \in Nat, k \in T PROVE k + 1 \in T
    BY <1>1, <1>7, <2>2, SMTT(40)
  <2> HIDE DEF T
  <2>3. Nat \subseteq T
    BY <2>1, <2>2, Induction
  <2>4. \A k \in 0 .. n : f[k] \in Int
    BY <1>1, <2>3 DEF T
  <2> QED BY <1>5, <2>4
<1> QED BY <1>6, <1>7, <1>8

\* The sum of no numbers.
LEMMA TotalEmpty == Total(<<>>) = 0
<1>1. <<>> \in Seq(Int) /\ Len(<<>>) = 0
  OBVIOUS
<1> QED BY <1>1, TotalSums

\* The sum of one number more.
LEMMA TotalAppend ==
  ASSUME NEW s \in Seq(Int), NEW x \in Int
  PROVE  Total(Append(s, x)) = Total(s) + x
<1> DEFINE a == Append(s, x)
<1>1. /\ a \in Seq(Int) /\ Len(a) = Len(s) + 1 /\ a[Len(s) + 1] = x
      /\ \A k \in 1 .. Len(s) : a[k] = s[k]
      /\ Len(s) \in Nat
  OBVIOUS
<1> HIDE DEF a
<1>2. PICK f \in [0 .. Len(s) -> Int] :
         /\ f[0] = 0 /\ \A k \in 1 .. Len(s) : f[k] = f[k - 1] + s[k]
         /\ Total(s) = f[Len(s)]
  BY TotalSums
<1>3. PICK g \in [0 .. Len(a) -> Int] :
         /\ g[0] = 0 /\ \A k \in 1 .. Len(a) : g[k] = g[k - 1] + a[k]
         /\ Total(a) = g[Len(a)]
  BY <1>1, TotalSums
<1> DEFINE T == {k \in Nat : k <= Len(s) => g[k] = f[k]}
<1>4. 0 \in T
  BY <1>2, <1>3
<1>5. ASSUME NEW k \in Nat, k \in T PROVE k + 1 \in T
  BY <1>1, <1>2, <1>3, <1>5
<1> HIDE DEF T
<1>6. Len(s) \in T
  BY <1>1, <1>4, <1>5, Induction
<1>7. g[Len(s)] = f[Len(s)]
  BY <1>1, <1>6 DEF T
<1> QED BY <1>1, <1>2, <1>3, <1>7, SMTT(40) DEF a

\* It is a natural number for sequences of those.
LEMMA TotalNat ==
  ASSUME NEW s \in Seq(Nat)
  PROVE  Total(s) \in Nat
<1>1. s \in Seq(Int) /\ Len(s) \in Nat /\ \A k \in 1 .. Len(s) : s[k] \in Nat
  OBVIOUS
<1>2. PICK f \in [0 .. Len(s) -> Int] :
         /\ f[0] = 0 /\ \A k \in 1 .. Len(s) : f[k] = f[k - 1] + s[k]
         /\ Total(s) = f[Len(s)]
  BY <1>1, TotalSums
<1> DEFINE T == {k \in Nat : k <= Len(s) => f[k] \in Nat}
<1>3. 0 \in T
  BY <1>2
<1>4. ASSUME NEW k \in Nat, k \in T PROVE k + 1 \in T
  <2>1. ASSUME k + 1 <= Len(s) PROVE f[k + 1] \in Nat
    <3>1. k + 1 \in 1 .. Len(s) /\ (k + 1) - 1 = k
      BY <1>1, <2>1
    <3>2. f[k + 1] = f[k] + s[k + 1]
      BY <1>2, <3>1
    <3> QED BY <1>1, <1>4, <3>1, <3>2
  <2> QED BY <2>1
<1> HIDE DEF T
<1>5. Len(s) \in T
  BY <1>1, <1>3, <1>4, Induction
<1> QED BY <1>1, <1>2, <1>5 DEF T

----------------------------------------------------------------------------
(* Chunks: sizes *)

\* An estimate is a positive number, and says how large a text is, but for what is
\* lost in rounding.
LEMMA TokensBound ==
  ASSUME NEW length \in Nat
  PROVE  Tokens(length) \in Nat /\ Tokens(length) >= 1 /\ length <= 4 * Tokens(length) + 3
BY DEF Tokens

\* What an estimate of the parts says of the whole, separators included.
LEMMA EstimateBound ==
  ASSUME NEW x \in Nat, NEW c \in Nat, NEW n \in Nat,
         x <= 4 * c + 5 * n - 2, n >= 1, c >= 1 \/ n >= 2
  PROVE  Tokens(x) <= Estimate(c, n)
<1>1. Tokens(x) = IF x < 4 THEN 1 ELSE x \div 4
  BY DEF Tokens
<1>2. Estimate(c, n) = c + (5 * n - 2) \div 4
  BY DEF Estimate
<1> QED BY <1>1, <1>2

\* What is joined has a length, and a paragraph has a size.
LEMMA JoinedNat ==
  ASSUME NEW s \in Seq(Nat), s # <<>>, NEW gap \in {1, 2}
  PROVE  Joined(s, gap) \in Nat /\ Joined(s, gap) = Total(s) + gap * (Len(s) - 1)
<1>1. Total(s) \in Nat /\ Len(s) \in Nat \ {0}
  BY TotalNat
<1>2. gap * (Len(s) - 1) \in Nat
  BY <1>1
<1> QED BY <1>1, <1>2 DEF Joined

\* A paragraph that may be read has sentences, and its size is a positive number that
\* says how long it is.
LEMMA SizeNat ==
  ASSUME NEW p \in Paragraphs
  PROVE  /\ p \in Paragraph /\ p.sentences \in Seq(Nat \ {0}) /\ p.sentences # <<>>
         /\ p.sentences \in Seq(Nat)
         /\ Joined(p.sentences, 1) \in Nat
         /\ Size(p) \in Nat /\ Size(p) >= 1
         /\ Joined(p.sentences, 1) <= 4 * Size(p) + 3
<1>1. p \in Paragraph /\ p.sentences # <<>>
  BY ParagraphsAreParagraphs
<1>2. p.sentences \in Seq(Nat \ {0})
  BY <1>1 DEF Paragraph
<1>3. p.sentences \in Seq(Nat)
  BY <1>2
<1>4. Joined(p.sentences, 1) \in Nat
  BY <1>1, <1>3, JoinedNat
<1> QED BY <1>1, <1>2, <1>3, <1>4, TokensBound DEF Size

\* The sum of one number.
LEMMA TotalOne ==
  ASSUME NEW s \in Seq(Int), Len(s) = 1
  PROVE  Total(s) = s[1]
<1>1. <<>> \in Seq(Int) /\ s[1] \in Int /\ s = Append(<<>>, s[1])
  OBVIOUS
<1>2. Total(s) = Total(<<>>) + s[1]
  BY <1>1, TotalAppend
<1> QED BY <1>1, <1>2, TotalEmpty

----------------------------------------------------------------------------
(* Lists of chunks *)

\* Chunks, none empty, that tile a part of text t as they should.
Listed(t, list) ==
    /\ list \in Seq(Chunk)
    /\ \A k \in DOMAIN list :
          /\ list[k].parts # <<>>
          /\ \A part \in ToSet(list[k].parts) : part[1] \in DOMAIN t
          /\ InOneSection(t, list[k])
          /\ BoundedSize(t, list[k])
    /\ Tiling(t, list)

\* The parts of a chunk, and of a list.
LEMMA PartsOf ==
  ASSUME NEW c \in Chunk
  PROVE  /\ c.parts \in Seq(Nat \X Nat)
         /\ ToSet(c.parts) = {c.parts[k] : k \in 1 .. Len(c.parts)}
         /\ ToSet(c.parts) \subseteq Nat \X Nat
         /\ c.parts # <<>> => c.parts[1] \in ToSet(c.parts)
<1>1. c.parts \in Seq(Nat \X Nat)
  BY DEF Chunk
<1> QED BY <1>1 DEF ToSet

\* The parts of two lists are those of the one and those of the other.
LEMMA PartsInConcat ==
  ASSUME NEW a \in Seq(Chunk), NEW b \in Seq(Chunk)
  PROVE  PartsIn(a \o b) = PartsIn(a) \union PartsIn(b)
<1>1. /\ DOMAIN a = 1 .. Len(a) /\ DOMAIN b = 1 .. Len(b)
      /\ Len(a) \in Nat /\ Len(b) \in Nat
      /\ DOMAIN (a \o b) = 1 .. Len(a) + Len(b)
      /\ \A k \in 1 .. Len(a) : (a \o b)[k] = a[k]
      /\ \A k \in 1 .. Len(b) : (a \o b)[Len(a) + k] = b[k]
  BY ConcatProperties
<1> DEFINE c == a \o b
<1> HIDE DEF c
<1>2. ASSUME NEW x \in PartsIn(c) PROVE x \in PartsIn(a) \union PartsIn(b)
  <2>1. PICK k \in DOMAIN c : x \in ToSet(c[k].parts)
    BY <1>2 DEF PartsIn
  <2>2. CASE k <= Len(a)
    BY <1>1, <2>1, <2>2 DEF PartsIn, c
  <2>3. CASE k > Len(a)
    <3>1. k - Len(a) \in 1 .. Len(b) /\ c[k] = b[k - Len(a)]
      <4>1. k - Len(a) \in 1 .. Len(b) /\ Len(a) + (k - Len(a)) = k
        BY <1>1, <2>1, <2>3 DEF c
      <4> QED BY <1>1, <4>1 DEF c
    <3> QED BY <1>1, <2>1, <3>1 DEF PartsIn
  <2> QED BY <1>1, <2>1, <2>2, <2>3 DEF c
<1>3. ASSUME NEW x \in PartsIn(a) PROVE x \in PartsIn(c)
  <2>1. PICK k \in DOMAIN a : x \in ToSet(a[k].parts)
    BY <1>3 DEF PartsIn
  <2>2. k \in DOMAIN c /\ c[k] = a[k]
    BY <1>1, <2>1 DEF c
  <2> QED BY <2>1, <2>2 DEF PartsIn
<1>4. ASSUME NEW x \in PartsIn(b) PROVE x \in PartsIn(c)
  <2>1. PICK k \in DOMAIN b : x \in ToSet(b[k].parts)
    BY <1>4 DEF PartsIn
  <2>2. Len(a) + k \in DOMAIN c /\ c[Len(a) + k] = b[k]
    BY <1>1, <2>1 DEF c
  <2> QED BY <2>1, <2>2 DEF PartsIn
<1> QED BY <1>2, <1>3, <1>4 DEF c

\* The parts of no chunk and of one.
LEMMA PartsInFew ==
  /\ PartsIn(<<>>) = {}
  /\ \A c : PartsIn(<<c>>) = ToSet(c.parts)
<1>1. PartsIn(<<>>) = {}
  BY DEF PartsIn
<1>2. ASSUME NEW c PROVE PartsIn(<<c>>) = ToSet(c.parts)
  <2>1. DOMAIN <<c>> = {1} /\ <<c>>[1] = c
    OBVIOUS
  <2> QED BY <2>1 DEF PartsIn
<1> QED BY <1>1, <1>2

\* A longer text has the same chunks.
LEMMA ListedLonger ==
  ASSUME NEW t, NEW u, NEW list, Listed(t, list),
         DOMAIN t \subseteq DOMAIN u, \A i \in DOMAIN t : u[i] = t[i]
  PROVE  Listed(u, list)
<1>1. list \in Seq(Chunk) /\ DOMAIN list = 1 .. Len(list)
  BY DEF Listed
<1>2. ASSUME NEW k \in DOMAIN list
      PROVE  /\ list[k].parts # <<>>
             /\ \A part \in ToSet(list[k].parts) :
                   part[1] \in DOMAIN t /\ part[1] \in DOMAIN u /\ u[part[1]] = t[part[1]]
             /\ InOneSection(u, list[k])
             /\ BoundedSize(u, list[k])
  <2>1. /\ list[k] \in Chunk /\ list[k].parts # <<>>
        /\ \A part \in ToSet(list[k].parts) : part[1] \in DOMAIN t
        /\ InOneSection(t, list[k]) /\ BoundedSize(t, list[k])
    BY <1>1 DEF Listed
  <2>2. InOneSection(u, list[k])
    BY <2>1 DEF InOneSection
  <2>3. list[k].parts[1] \in ToSet(list[k].parts)
    BY <2>1, PartsOf
  <2>4. u[list[k].parts[1][1]] = t[list[k].parts[1][1]]
    BY <2>1, <2>3
  <2>5. BoundedSize(u, list[k])
    BY <2>1, <2>4 DEF BoundedSize
  <2> QED BY <2>1, <2>2, <2>5
<1>3. Tiling(u, list)
  <2>1. \A k \in DOMAIN list : Ascending(list[k].parts)
    BY DEF Listed, Tiling
  <2>2. ASSUME NEW k \in DOMAIN list, NEW l \in DOMAIN list, k < l
        PROVE  Follows(u, list[k].parts, list[l].parts, l = k + 1)
    <3>1. Follows(t, list[k].parts, list[l].parts, l = k + 1)
      BY <2>2 DEF Listed, Tiling
    <3> QED BY <1>2, <3>1 DEF Follows
  <2> QED BY <2>1, <2>2 DEF Tiling
<1> QED BY <1>1, <1>2, <1>3 DEF Listed

\* One chunk more, which follows those before it.
LEMMA ListedOneMore ==
  ASSUME NEW t, NEW list, Listed(t, list), NEW c \in Chunk,
         c.parts # <<>>, Ascending(c.parts), InOneSection(t, c), BoundedSize(t, c),
         \A part \in ToSet(c.parts) : part[1] \in DOMAIN t,
         \A k \in DOMAIN list : Follows(t, list[k].parts, c.parts, k = Len(list))
  PROVE  Listed(t, list \o <<c>>)
<1> DEFINE more == list \o <<c>>
<1>1. /\ list \in Seq(Chunk) /\ DOMAIN list = 1 .. Len(list) /\ Len(list) \in Nat
      /\ more \in Seq(Chunk) /\ DOMAIN more = 1 .. Len(list) + 1
      /\ more[Len(list) + 1] = c
      /\ \A k \in DOMAIN list : more[k] = list[k]
  BY DEF Listed
<1> HIDE DEF more
<1>2. ASSUME NEW k \in DOMAIN more
      PROVE  /\ more[k].parts # <<>> /\ Ascending(more[k].parts)
             /\ \A part \in ToSet(more[k].parts) : part[1] \in DOMAIN t
             /\ InOneSection(t, more[k])
             /\ BoundedSize(t, more[k])
  <2>1. CASE k = Len(list) + 1
    BY <1>1, <2>1
  <2>2. CASE k \in DOMAIN list
    BY <1>1, <2>2 DEF Listed, Tiling
  <2> QED BY <1>1, <2>1, <2>2
<1>3. ASSUME NEW k \in DOMAIN more, NEW l \in DOMAIN more, k < l
      PROVE  Follows(t, more[k].parts, more[l].parts, l = k + 1)
  <2>1. k \in DOMAIN list
    BY <1>1, <1>3
  <2>2. CASE l \in DOMAIN list
    BY <1>1, <1>3, <2>1, <2>2 DEF Listed, Tiling
  <2>3. CASE l = Len(list) + 1
    <3>1. Follows(t, list[k].parts, c.parts, k = Len(list))
      BY <2>1
    <3>2. (k = Len(list)) <=> (l = k + 1)
      BY <1>1, <2>1, <2>3
    <3> QED BY <1>1, <2>1, <2>3, <3>1, <3>2 DEF Follows
  <2> QED BY <1>1, <2>2, <2>3
<1>4. Listed(t, more)
  BY <1>1, <1>2, <1>3 DEF Listed, Tiling
<1> QED BY <1>4 DEF more

\* Two lists, all of the first before the second.
LEMMA ListedConcat ==
  ASSUME NEW t, NEW a, NEW b, Listed(t, a), Listed(t, b),
         \A x \in PartsIn(a), y \in PartsIn(b) : Before(x, y)
  PROVE  Listed(t, a \o b)
<1> DEFINE c == a \o b
<1>1. /\ a \in Seq(Chunk) /\ b \in Seq(Chunk) /\ c \in Seq(Chunk)
      /\ DOMAIN a = 1 .. Len(a) /\ Len(a) \in Nat
      /\ DOMAIN b = 1 .. Len(b) /\ Len(b) \in Nat
      /\ DOMAIN c = 1 .. Len(a) + Len(b)
      /\ \A k \in DOMAIN a : c[k] = a[k]
  BY ConcatProperties DEF Listed
<1>2. \A k \in DOMAIN c : k \notin DOMAIN a =>
         k - Len(a) \in DOMAIN b /\ c[k] = b[k - Len(a)]
  <2> SUFFICES ASSUME NEW k \in DOMAIN c, k \notin DOMAIN a
               PROVE  k - Len(a) \in DOMAIN b /\ c[k] = b[k - Len(a)]
    OBVIOUS
  <2>1. k - Len(a) \in 1 .. Len(b) /\ Len(a) + (k - Len(a)) = k
    BY <1>1
  <2> QED BY <1>1, <2>1
<1> HIDE DEF c
<1>3. ASSUME NEW k \in DOMAIN c
      PROVE  /\ c[k].parts # <<>> /\ Ascending(c[k].parts)
             /\ \A part \in ToSet(c[k].parts) : part[1] \in DOMAIN t
             /\ InOneSection(t, c[k])
             /\ BoundedSize(t, c[k])
  <2>1. CASE k \in DOMAIN a
    BY <1>1, <2>1 DEF Listed, Tiling
  <2>2. CASE k \notin DOMAIN a
    BY <1>2, <2>2 DEF Listed, Tiling
  <2> QED BY <2>1, <2>2
<1>4. ASSUME NEW k \in DOMAIN c, NEW l \in DOMAIN c, k < l
      PROVE  Follows(t, c[k].parts, c[l].parts, l = k + 1)
  <2>1. CASE k \in DOMAIN a /\ l \in DOMAIN a
    BY <1>1, <1>4, <2>1 DEF Listed, Tiling
  <2>2. CASE k \in DOMAIN a /\ l \notin DOMAIN a
    <3>1. ToSet(c[k].parts) \subseteq PartsIn(a)
      BY <1>1, <2>2 DEF PartsIn
    <3>2. ToSet(c[l].parts) \subseteq PartsIn(b)
      BY <1>2, <2>2 DEF PartsIn
    <3> QED BY <3>1, <3>2 DEF Follows
  <2>3. CASE k \notin DOMAIN a
    <3>1. l \notin DOMAIN a
      BY <1>1, <1>4, <2>3
    <3>2. /\ k - Len(a) \in DOMAIN b /\ l - Len(a) \in DOMAIN b
          /\ c[k] = b[k - Len(a)] /\ c[l] = b[l - Len(a)]
      BY <1>2, <2>3, <3>1
    <3>3. k - Len(a) < l - Len(a)
          /\ ((l - Len(a) = k - Len(a) + 1) <=> (l = k + 1))
      BY <1>1, <1>4
    <3>4. Follows(t, b[k - Len(a)].parts, b[l - Len(a)].parts, l - Len(a) = k - Len(a) + 1)
      BY <3>2, <3>3 DEF Listed, Tiling
    <3> QED BY <3>2, <3>3, <3>4 DEF Follows
  <2> QED BY <2>1, <2>2, <2>3
<1>5. Listed(t, c)
  BY <1>1, <1>3, <1>4 DEF Listed, Tiling
<1> QED BY <1>5 DEF c

----------------------------------------------------------------------------
(* Chunks: sentences *)

\* The lengths of parts of a text.
LengthsOf(t, parts) == [k \in DOMAIN parts |-> Chunker!Length(t, parts[k])]

\* Some sentences make a chunk that is not too large.
FewTokens(t, parts) ==
    \E c \in Nat :
        /\ Total(LengthsOf(t, parts)) <= 4 * c + 3 * Len(parts)
        /\ c <= ChunkSize \/ Len(parts) <= 2

\* What the loop over the sentences builds.
Splits == [done : Seq(Seq(Nat \X Nat)), current : Seq(Nat \X Nat), tokens : Nat]

\* Consecutive sentences of paragraph i, up to the j-th.
IsRun(i, parts, j) ==
    /\ Len(parts) <= j
    /\ \A k \in 1 .. Len(parts) : parts[k] = <<i, j - Len(parts) + k>>

\* Sentences of paragraph i that were put out, when j are read: they come before
\* the current ones, the last of which may be the first of those.
IsPutOut(i, parts, j, current, isLast) ==
    \A part \in ToSet(parts) :
        /\ part[1] = i /\ part[2] \in 1 .. j
        /\ \/ part[2] <= j - Len(current)
           \/ isLast /\ Len(current) >= 2 /\ part = Last(parts) /\ part = current[1]

\* When j sentences of paragraph i are read, the last ones are the current ones,
\* and those before are put out.
SplitInv(t, i, acc, j) ==
    /\ acc \in Splits
    /\ j >= 1 => acc.current # <<>>
    /\ IsRun(i, acc.current, j)
    /\ Total(LengthsOf(t, acc.current)) <= 4 * acc.tokens + 3 * Len(acc.current)
    /\ acc.tokens <= ChunkSize \/ Len(acc.current) <= 2
    /\ \A k \in DOMAIN acc.done :
          /\ acc.done[k] # <<>> /\ Ascending(acc.done[k]) /\ FewTokens(t, acc.done[k])
          /\ IsPutOut(i, acc.done[k], j, acc.current, k = Len(acc.done))
    /\ \A k, l \in DOMAIN acc.done :
          k < l => Follows(t, acc.done[k], acc.done[l], l = k + 1)
    /\ \A m \in 1 .. j :
          \/ <<i, m>> \in ToSet(acc.current)
          \/ \E k \in DOMAIN acc.done : <<i, m>> \in ToSet(acc.done[k])

\* The sentences of a paragraph of a text.
Sentences(t, i) == t[i].paragraph.sentences

\* What is known of consecutive sentences.
LEMMA RunParts ==
  ASSUME NEW i \in Nat, NEW parts \in Seq(Nat \X Nat), NEW j \in Nat, IsRun(i, parts, j)
  PROVE  /\ Len(parts) \in Nat /\ Len(parts) <= j
         /\ \A k \in 1 .. Len(parts) : parts[k][1] = i /\ parts[k][2] \in 1 .. j
         /\ Ascending(parts)
<1> DEFINE n == Len(parts)
<1>1. n \in Nat /\ n <= j /\ DOMAIN parts = 1 .. n
  BY DEF IsRun
<1>2. \A k \in 1 .. n : parts[k] = <<i, j - n + k>>
  BY DEF IsRun
<1> HIDE DEF n
<1>3. ASSUME NEW k \in 1 .. n
      PROVE  parts[k][1] = i /\ parts[k][2] = j - n + k /\ parts[k][2] \in 1 .. j
  BY <1>1, <1>2
<1>4. Ascending(parts)
  <2> SUFFICES ASSUME NEW m \in 1 .. n, NEW k \in 1 .. n, m < k
               PROVE  Before(parts[m], parts[k])
    BY <1>1 DEF Ascending
  <2> QED BY <1>1, <1>3, SMTT(40) DEF Before
<1> QED BY <1>1, <1>3, <1>4 DEF n

\* What is known of one of some consecutive sentences.
LEMMA RunSet ==
  ASSUME NEW i \in Nat, NEW parts \in Seq(Nat \X Nat), NEW j \in Nat, IsRun(i, parts, j),
         NEW x \in ToSet(parts)
  PROVE  /\ x[1] = i /\ x[2] \in 1 .. j /\ x[2] > j - Len(parts)
         /\ x = Head(parts) \/ x[2] > j - Len(parts) + 1
         /\ x = Last(parts) \/ x[2] <= j - 1
<1> DEFINE n == Len(parts)
<1>1. n \in Nat /\ n <= j /\ DOMAIN parts = 1 .. n
  BY DEF IsRun
<1>2. PICK k \in 1 .. n : x = parts[k]
  BY <1>1 DEF ToSet
<1>3. x = <<i, j - n + k>>
  BY <1>2 DEF IsRun
<1>4. parts # <<>> /\ Head(parts) = parts[1] /\ Last(parts) = parts[n]
  BY <1>1, <1>2 DEF Last
<1> HIDE DEF n
<1>5. x = Head(parts) \/ k > 1
  BY <1>1, <1>2, <1>4
<1>6. x = Last(parts) \/ k < n
  BY <1>1, <1>2, <1>4
<1>7. x[1] = i /\ x[2] = j - n + k /\ x[2] \in 1 .. j /\ x[2] > j - n
  BY <1>1, <1>3
<1>8. k > 1 => x[2] > j - n + 1
  BY <1>1, <1>7
<1>9. k < n => x[2] <= j - 1
  BY <1>1, <1>7
<1> QED BY <1>5, <1>6, <1>7, <1>8, <1>9 DEF n

\* The first and the last of some consecutive sentences.
LEMMA RunEnds ==
  ASSUME NEW i \in Nat, NEW parts \in Seq(Nat \X Nat), NEW j \in Nat, IsRun(i, parts, j),
         parts # <<>>
  PROVE  /\ Len(parts) \in Nat /\ Len(parts) >= 1 /\ Len(parts) <= j
         /\ Last(parts) = <<i, j>> /\ <<i, j>> \in ToSet(parts)
         /\ Head(parts) = parts[1] /\ parts[1] = <<i, j - Len(parts) + 1>>
<1> DEFINE n == Len(parts)
<1>1. n \in Nat /\ n <= j /\ n >= 1 /\ DOMAIN parts = 1 .. n
      /\ Head(parts) = parts[1] /\ Last(parts) = parts[n]
  BY DEF IsRun, Last
<1>2. \A k \in 1 .. n : parts[k] = <<i, j - n + k>> /\ parts[k] \in ToSet(parts)
  BY <1>1 DEF IsRun, ToSet
<1> HIDE DEF n
<1>3. n \in 1 .. n /\ 1 \in 1 .. n /\ j - n + n = j
  BY <1>1
<1>4. parts[n] = <<i, j - n + n>> /\ parts[1] = <<i, j - n + 1>> /\ parts[n] \in ToSet(parts)
  BY <1>2, <1>3
<1> QED BY <1>1, <1>3, <1>4 DEF n

\* One sentence more.
LEMMA RunAppend ==
  ASSUME NEW i \in Nat, NEW parts \in Seq(Nat \X Nat), NEW j \in Nat, j >= 1,
         IsRun(i, parts, j - 1)
  PROVE  /\ Append(parts, <<i, j>>) \in Seq(Nat \X Nat)
         /\ Len(Append(parts, <<i, j>>)) = Len(parts) + 1
         /\ IsRun(i, Append(parts, <<i, j>>), j)
         /\ ToSet(Append(parts, <<i, j>>)) = ToSet(parts) \union {<<i, j>>}
         /\ parts # <<>> => Append(parts, <<i, j>>)[1] = parts[1]
<1> DEFINE n == Len(parts)
           x == <<i, j>>
           more == Append(parts, x)
<1>1. x \in Nat \X Nat
  OBVIOUS
<1> HIDE DEF x
<1>2. /\ n \in Nat /\ DOMAIN parts = 1 .. n /\ more \in Seq(Nat \X Nat)
      /\ Len(more) = n + 1 /\ DOMAIN more = 1 .. n + 1 /\ more[n + 1] = x
      /\ \A k \in 1 .. n : more[k] = parts[k]
      /\ parts # <<>> => n >= 1
  BY <1>1
<1>3. n <= j - 1 /\ \A k \in 1 .. n : parts[k] = <<i, j - 1 - n + k>>
  BY DEF IsRun
<1> HIDE DEF n, more
<1>4. ASSUME NEW k \in 1 .. n + 1 PROVE more[k] = <<i, j - (n + 1) + k>>
  <2>1. CASE k \in 1 .. n
    <3>1. j - 1 - n + k = j - (n + 1) + k
      BY <1>2
    <3>2. more[k] = parts[k] /\ parts[k] = <<i, j - 1 - n + k>>
      BY <1>2, <1>3, <2>1
    <3> QED BY <3>1, <3>2
  <2>2. CASE k = n + 1
    <3>1. j - (n + 1) + k = j
      BY <1>2, <2>2
    <3> QED BY <1>2, <2>2, <3>1 DEF x
  <2> QED BY <1>2, <2>1, <2>2, SMTT(40)
<1>5. IsRun(i, more, j)
  BY <1>2, <1>3, <1>4 DEF IsRun
<1>6. ToSet(more) = ToSet(parts) \union {x}
  <2>1. \A y : y \in ToSet(more) <=> \E k \in 1 .. n + 1 : y = more[k]
    BY <1>2 DEF ToSet
  <2>2. \A y : y \in ToSet(parts) <=> \E k \in 1 .. n : y = parts[k]
    BY <1>2 DEF ToSet
  <2>3. ASSUME NEW y \in ToSet(more) PROVE y \in ToSet(parts) \union {x}
    <3>1. PICK k \in 1 .. n + 1 : y = more[k]
      BY <2>1, <2>3
    <3>2. k = n + 1 \/ k \in 1 .. n
      BY <1>2
    <3> QED BY <1>2, <2>2, <3>1, <3>2
  <2>4. ASSUME NEW y \in ToSet(parts) PROVE y \in ToSet(more)
    <3>1. PICK k \in 1 .. n : y = parts[k]
      BY <2>2, <2>4
    <3>2. k \in 1 .. n + 1 /\ y = more[k]
      BY <1>2, <3>1
    <3> QED BY <2>1, <3>2
  <2>5. x \in ToSet(more)
    <3>1. n + 1 \in 1 .. n + 1
      BY <1>2
    <3> QED BY <1>2, <2>1, <3>1
  <2> QED BY <2>3, <2>4, <2>5
<1>7. parts # <<>> => more[1] = parts[1]
  BY <1>2
<1> QED BY <1>2, <1>5, <1>6, <1>7 DEF n, x, more

\* Before the loop, nothing is put out.
LEMMA NoSplit ==
  ASSUME NEW t, NEW i
  PROVE  SplitInv(t, i, Chunker!NoSentence, 0)
<1> DEFINE acc == Chunker!NoSentence
<1>1. acc \in Splits /\ acc.done = <<>> /\ acc.current = <<>> /\ acc.tokens = 0
  BY DEF Chunker!NoSentence, Splits
<1>2. LengthsOf(t, acc.current) = <<>> /\ Len(acc.current) = 0
  BY <1>1 DEF LengthsOf
<1>3. Total(LengthsOf(t, acc.current)) = 0
  BY <1>2, TotalEmpty
<1> HIDE DEF acc
<1>4. acc.tokens <= ChunkSize
  BY <1>1, SizesAreSizes
<1>5. \A k : k \notin 1 .. 0 /\ k \notin DOMAIN acc.done
  BY <1>1
<1>6. Len(acc.current) <= 0 /\ Total(LengthsOf(t, acc.current)) <= 4 * acc.tokens + 3 * 0
  BY <1>1, <1>2, <1>3
<1>7. IsRun(i, acc.current, 0)
  BY <1>2, <1>5 DEF IsRun
<1>8. SplitInv(t, i, acc, 0)
  BY <1>1, <1>2, <1>4, <1>5, <1>6, <1>7 DEF SplitInv
<1> QED BY <1>8 DEF acc

\* The lengths of some sentences, and of one more.
LEMMA SentenceLengths ==
  ASSUME NEW t, NEW i \in Nat, Sentences(t, i) \in Seq(Nat),
         NEW parts \in Seq(Nat \X Nat),
         \A k \in 1 .. Len(parts) : parts[k][1] = i /\ parts[k][2] \in 1 .. Len(Sentences(t, i)),
         NEW m \in 1 .. Len(Sentences(t, i))
  PROVE  /\ LengthsOf(t, parts) \in Seq(Nat)
         /\ Len(LengthsOf(t, parts)) = Len(parts)
         /\ LengthsOf(t, Append(parts, <<i, m>>))
              = Append(LengthsOf(t, parts), Sentences(t, i)[m])
         /\ Total(LengthsOf(t, Append(parts, <<i, m>>)))
              = Total(LengthsOf(t, parts)) + Sentences(t, i)[m]
<1> DEFINE s == Sentences(t, i)
<1>1. ASSUME NEW n \in 1 .. Len(s) PROVE s[n] \in Nat /\ Chunker!Length(t, <<i, n>>) = s[n]
  <2>1. n # 0 /\ s[n] \in Nat
    OBVIOUS
  <2> QED BY <2>1 DEF Chunker!Length, Sentences
<1>2. ASSUME NEW k \in 1 .. Len(parts) PROVE Chunker!Length(t, parts[k]) \in Nat
  <2>1. parts[k] = <<i, parts[k][2]>> /\ parts[k][2] \in 1 .. Len(s)
    <3>1. parts[k] \in Nat \X Nat
      OBVIOUS
    <3> QED BY <3>1, SMTT(40)
  <2> HIDE DEF s
  <2> QED BY <1>1, <2>1
<1>3. DOMAIN parts = 1 .. Len(parts) /\ Len(parts) \in Nat
  OBVIOUS
<1>4. LengthsOf(t, parts) \in Seq(Nat) /\ Len(LengthsOf(t, parts)) = Len(parts)
  BY <1>2, <1>3 DEF LengthsOf
<1>5. Chunker!Length(t, <<i, m>>) = Sentences(t, i)[m] /\ Sentences(t, i)[m] \in Nat
  BY <1>1
<1> DEFINE more == Append(parts, <<i, m>>)
<1>6. /\ DOMAIN more = 1 .. Len(parts) + 1 /\ more[Len(parts) + 1] = <<i, m>>
      /\ \A k \in 1 .. Len(parts) : more[k] = parts[k]
  OBVIOUS
<1> DEFINE longer == Append(LengthsOf(t, parts), Sentences(t, i)[m])
<1>7. /\ DOMAIN longer = 1 .. Len(parts) + 1 /\ longer[Len(parts) + 1] = Sentences(t, i)[m]
      /\ \A k \in 1 .. Len(parts) : longer[k] = LengthsOf(t, parts)[k]
      /\ longer \in Seq(Nat)
  BY <1>3, <1>4, <1>5
<1>8. LengthsOf(t, more) = longer
  <2>1. DOMAIN LengthsOf(t, more) = 1 .. Len(parts) + 1
    BY <1>6 DEF LengthsOf
  <2>2. ASSUME NEW k \in 1 .. Len(parts) + 1 PROVE LengthsOf(t, more)[k] = longer[k]
    <3>1. LengthsOf(t, more)[k] = Chunker!Length(t, more[k])
      BY <1>6 DEF LengthsOf
    <3> HIDE DEF more, longer
    <3>2. CASE k = Len(parts) + 1
      BY <1>5, <1>6, <1>7, <3>1, <3>2
    <3>3. CASE k \in 1 .. Len(parts)
      BY <1>3, <1>6, <1>7, <3>1, <3>3 DEF LengthsOf
    <3> QED BY <1>3, <3>2, <3>3
  <2>3. longer = [k \in 1 .. Len(parts) + 1 |-> longer[k]]
    BY <1>7
  <2>4. LengthsOf(t, more) = [k \in 1 .. Len(parts) + 1 |-> LengthsOf(t, more)[k]]
    BY <2>1 DEF LengthsOf
  <2> HIDE DEF more, longer
  <2> QED BY <2>2, <2>3, <2>4
<1>9. Total(longer) = Total(LengthsOf(t, parts)) + Sentences(t, i)[m]
  BY <1>4, <1>5, TotalAppend, SMTT(40)
<1> QED BY <1>4, <1>8, <1>9

\* What the estimates say of a sum says as much of a longer one.
LEMMA SumBound ==
  ASSUME NEW a \in Nat, NEW x \in Nat, NEW c \in Nat, NEW z \in Nat, NEW n \in Nat,
         a <= 4 * c + 3 * n, x <= 4 * z + 3
  PROVE  a + x <= 4 * (c + z) + 3 * (n + 1)
OBVIOUS

\* The next sentence fits.
HasRoom(t, i, acc, j) ==
    acc.tokens + Tokens(Sentences(t, i)[j]) <= ChunkSize \/ acc.current = <<>>

\* A sentence is added that fits.
LEMMA SplitFits ==
  ASSUME NEW t, NEW i \in Nat, Sentences(t, i) \in Seq(Nat),
         NEW j \in 1 .. Len(Sentences(t, i)), NEW acc, SplitInv(t, i, acc, j - 1),
         HasRoom(t, i, acc, j)
  PROVE  SplitInv(t, i, [done |-> acc.done, current |-> Append(acc.current, <<i, j>>),
                         tokens |-> acc.tokens + Tokens(Sentences(t, i)[j])], j)
<1> DEFINE new == [done |-> acc.done, current |-> Append(acc.current, <<i, j>>),
                   tokens |-> acc.tokens + Tokens(Sentences(t, i)[j])]
           n == Len(acc.current)
           size == Tokens(Sentences(t, i)[j])
<1>range. j \in Nat /\ j >= 1 /\ j - 1 \in Nat
  OBVIOUS
<1>0. /\ Len(Sentences(t, i)) \in Nat /\ j <= Len(Sentences(t, i))
      /\ Sentences(t, i)[j] \in Nat
  OBVIOUS
<1>1. /\ acc.done \in Seq(Seq(Nat \X Nat)) /\ acc.current \in Seq(Nat \X Nat)
      /\ acc.tokens \in Nat /\ IsRun(i, acc.current, j - 1)
  BY DEF SplitInv, Splits
<1>2. size \in Nat /\ Sentences(t, i)[j] <= 4 * size + 3
  BY <1>0, TokensBound
<1>tokens. acc.tokens \in Nat /\ new.tokens = acc.tokens + size
  BY <1>1
<1>3. /\ n \in Nat /\ n <= j - 1
      /\ \A k \in 1 .. n :
            acc.current[k][1] = i /\ acc.current[k][2] \in 1 .. Len(Sentences(t, i))
  <2>1. n \in Nat /\ n <= j - 1 /\ \A k \in 1 .. n :
           acc.current[k][1] = i /\ acc.current[k][2] \in 1 .. j - 1
    BY <1>range, <1>1, RunParts
  <2>2. 1 .. j - 1 \subseteq 1 .. Len(Sentences(t, i))
    BY <1>range, <1>0
  <2> QED BY <2>1, <2>2
<1>4. /\ new.done = acc.done /\ new.current = Append(acc.current, <<i, j>>)
      /\ new.tokens = acc.tokens + size
      /\ new.current \in Seq(Nat \X Nat) /\ Len(new.current) = n + 1
      /\ IsRun(i, new.current, j)
      /\ ToSet(new.current) = ToSet(acc.current) \union {<<i, j>>}
      /\ acc.current # <<>> => new.current[1] = acc.current[1]
  <2> DEFINE more == Append(acc.current, <<i, j>>)
  <2>1. /\ more \in Seq(Nat \X Nat) /\ Len(more) = n + 1 /\ IsRun(i, more, j)
        /\ ToSet(more) = ToSet(acc.current) \union {<<i, j>>}
        /\ acc.current # <<>> => more[1] = acc.current[1]
    <3> HIDE DEF new, size
    <3> QED BY <1>range, <1>1, RunAppend, ZenonT(40)
  <2>2. new = [done |-> acc.done, current |-> more, tokens |-> acc.tokens + size]
    OBVIOUS
  <2> HIDE DEF new, more, n, size
  <2>3. new.done = acc.done /\ new.current = more /\ new.tokens = acc.tokens + size
    BY <2>2
  <2> QED BY <2>1, <2>3 DEF more
<1>5. /\ LengthsOf(t, acc.current) \in Seq(Nat)
      /\ Total(LengthsOf(t, new.current))
           = Total(LengthsOf(t, acc.current)) + Sentences(t, i)[j]
  BY <1>1, <1>3, SentenceLengths
<1>6. new = [done |-> new.done, current |-> new.current, tokens |-> new.tokens]
  OBVIOUS
<1> HIDE DEF new
<1>7. Total(LengthsOf(t, new.current)) <= 4 * new.tokens + 3 * Len(new.current)
  <2>1. Total(LengthsOf(t, acc.current)) <= 4 * acc.tokens + 3 * n
    BY DEF SplitInv
  <2>2. Total(LengthsOf(t, acc.current)) \in Nat
    BY <1>5, TotalNat
  <2> HIDE DEF n, size
  <2>4. Total(LengthsOf(t, acc.current)) + Sentences(t, i)[j]
          <= 4 * (acc.tokens + size) + 3 * (n + 1)
    BY <1>0, <1>2, <1>3, <1>tokens, <2>1, <2>2, SumBound
  <2> QED BY <1>4, <1>5, <1>tokens, <2>4
<1>8. new.tokens <= ChunkSize \/ Len(new.current) <= 2
  <2>1. acc.tokens + size <= ChunkSize \/ acc.current = <<>>
    BY DEF HasRoom
  <2>2. acc.current = <<>> => n = 0
    OBVIOUS
  <2> HIDE DEF n, size
  <2> QED BY <1>3, <1>4, <2>1, <2>2
<1>9. new \in Splits
  <2>1. new.tokens \in Nat
    <3> HIDE DEF n, size
    <3> QED BY <1>2, <1>tokens
  <2> QED BY <1>1, <1>4, <1>6, <2>1 DEF Splits
<1>10. ASSUME NEW k \in DOMAIN new.done
       PROVE  /\ new.done[k] # <<>> /\ Ascending(new.done[k]) /\ FewTokens(t, new.done[k])
              /\ IsPutOut(i, new.done[k], j, new.current, k = Len(new.done))
  <2>1. /\ acc.done[k] # <<>> /\ Ascending(acc.done[k]) /\ FewTokens(t, acc.done[k])
        /\ IsPutOut(i, acc.done[k], j - 1, acc.current, k = Len(acc.done))
    BY <1>4, <1>10 DEF SplitInv
  <2>2. ASSUME NEW part \in ToSet(acc.done[k])
        PROVE  /\ part[1] = i /\ part[2] \in 1 .. j
               /\ \/ part[2] <= j - (n + 1)
                  \/ /\ k = Len(acc.done) /\ n + 1 >= 2
                     /\ part = Last(acc.done[k]) /\ part = new.current[1]
    <3>1. /\ part[1] = i /\ part[2] \in 1 .. j - 1
          /\ \/ part[2] <= j - 1 - n
             \/ /\ k = Len(acc.done) /\ n >= 2
                /\ part = Last(acc.done[k]) /\ part = acc.current[1]
      BY <2>1, <2>2 DEF IsPutOut
    <3>2. n >= 2 => new.current[1] = acc.current[1] /\ n + 1 >= 2
      BY <1>4, SMTT(40)
    <3>3. part[2] \in 1 .. j /\ (part[2] <= j - 1 - n => part[2] <= j - (n + 1))
      <4>1. n \in Nat
        BY <1>3
      <4>2. part[2] \in 1 .. j - 1
        BY <3>1
      <4> HIDE DEF n
      <4> QED BY <1>range, <4>1, <4>2
    <3> QED BY <3>1, <3>2, <3>3, Zenon
  <2> QED BY <1>4, <2>1, <2>2 DEF IsPutOut
<1>11. \A k, l \in DOMAIN new.done :
          k < l => Follows(t, new.done[k], new.done[l], l = k + 1)
  BY <1>4 DEF SplitInv
<1>12. ASSUME NEW m \in 1 .. j
       PROVE  \/ <<i, m>> \in ToSet(new.current)
              \/ \E k \in DOMAIN new.done : <<i, m>> \in ToSet(new.done[k])
  <2>1. CASE m = j
    BY <1>4, <2>1
  <2>2. CASE m \in 1 .. j - 1
    BY <1>4, <2>2 DEF SplitInv
  <2>3. m = j \/ m \in 1 .. j - 1
    BY <1>range
  <2> QED BY <2>1, <2>2, <2>3, Zenon
<1>13. new.current # <<>>
  <2>1. Len(new.current) = n + 1 /\ n \in Nat
    BY <1>3, <1>4
  <2> HIDE DEF n, size
  <2>2. Len(new.current) # 0
    BY <2>1
  <2> QED BY <2>2
<1>14. SplitInv(t, i, new, j)
  BY <1>4, <1>7, <1>8, <1>9, <1>10, <1>11, <1>12, <1>13 DEF SplitInv
<1> QED BY <1>14 DEF new

\* A sequence of two.
LEMMA PairAppend ==
  ASSUME NEW S, NEW x \in S, NEW y \in S
  PROVE  Append(<<x>>, y) = <<x, y>>
<1> DEFINE a == Append(<<x>>, y)
           b == <<x, y>>
<1>1. a \in Seq(S) /\ b \in Seq(S) /\ Len(a) = 2 /\ Len(b) = 2
  OBVIOUS
<1>2. a[1] = x /\ a[2] = y /\ b[1] = x /\ b[2] = y
  OBVIOUS
<1>3. /\ DOMAIN a = 1 .. 2 /\ a = [k \in 1 .. 2 |-> a[k]]
      /\ DOMAIN b = 1 .. 2 /\ b = [k \in 1 .. 2 |-> b[k]]
  BY <1>1
<1> HIDE DEF a, b
<1>4. \A k \in 1 .. 2 : a[k] = b[k]
  BY <1>2
<1>5. a = b
  BY <1>3, <1>4
<1> QED BY <1>5 DEF a, b

\* The lengths of two sentences.
LEMMA TwoLengths ==
  ASSUME NEW t, NEW i \in Nat, Sentences(t, i) \in Seq(Nat),
         NEW a \in 1 .. Len(Sentences(t, i)), NEW b \in 1 .. Len(Sentences(t, i))
  PROVE  Total(LengthsOf(t, <<<<i, a>>, <<i, b>>>>)) = Sentences(t, i)[a] + Sentences(t, i)[b]
<1> DEFINE none == <<>>
           one == <<<<i, a>>>>
           two == <<<<i, a>>, <<i, b>>>>
           x == <<i, a>>
           y == <<i, b>>
<1>1. x \in Nat \X Nat /\ x[1] = i /\ x[2] = a
  OBVIOUS
<1>2. none \in Seq(Nat \X Nat) /\ Len(none) = 0 /\ Append(none, x) = one
  OBVIOUS
<1>3. one \in Seq(Nat \X Nat) /\ Len(one) = 1 /\ one[1] = x
  <2> HIDE DEF x
  <2> QED BY <1>1 DEF x
<1>4. Append(one, y) = two
  <2>1. y \in Nat \X Nat
    OBVIOUS
  <2> HIDE DEF x, y
  <2>2. one = <<x>> /\ two = <<x, y>>
    BY DEF x, y
  <2> HIDE DEF one, two
  <2> QED BY <1>1, <2>1, <2>2, PairAppend
<1>5. Total(LengthsOf(t, none)) = 0
  BY TotalEmpty DEF LengthsOf
<1>6. Sentences(t, i)[a] \in Nat /\ Sentences(t, i)[b] \in Nat
  OBVIOUS
<1> HIDE DEF none, one, two
<1>7. Total(LengthsOf(t, Append(none, x))) = Total(LengthsOf(t, none)) + Sentences(t, i)[a]
  <2>1. \A k \in 1 .. Len(none) : none[k][1] = i /\ none[k][2] \in 1 .. Len(Sentences(t, i))
    BY <1>2
  <2> QED BY <1>2, <2>1, SentenceLengths, ZenonT(40)
<1>8. Total(LengthsOf(t, Append(one, y))) = Total(LengthsOf(t, one)) + Sentences(t, i)[b]
  <2>1. \A k \in 1 .. Len(one) : one[k][1] = i /\ one[k][2] \in 1 .. Len(Sentences(t, i))
    <3> HIDE DEF x
    <3> QED BY <1>1, <1>3
  <2> QED BY <1>3, <2>1, SentenceLengths
<1> HIDE DEF x, y
<1>9. Total(LengthsOf(t, one)) = Sentences(t, i)[a]
  BY <1>2, <1>5, <1>6, <1>7
<1>10. Total(LengthsOf(t, two)) = Sentences(t, i)[a] + Sentences(t, i)[b]
  BY <1>4, <1>8, <1>9
<1> QED BY <1>10 DEF two

\* What is put out is followed by the current sentences.
LEMMA PutOutFollows ==
  ASSUME NEW t, NEW i \in Nat, NEW j \in Nat, NEW parts, NEW current \in Seq(Nat \X Nat),
         NEW isLast \in BOOLEAN, current # <<>>,
         IsRun(i, current, j), IsPutOut(i, parts, j, current, isLast)
  PROVE  Follows(t, parts, current, isLast)
<1>1. /\ Len(current) \in Nat
      /\ \A x \in ToSet(current) : x[1] = i /\ x[2] \in 1 .. j /\ x[2] > j - Len(current)
      /\ \A x \in ToSet(current) : x = Head(current) \/ x[2] > j - Len(current) + 1
      /\ Head(current) = current[1] /\ current[1] = <<i, j - Len(current) + 1>>
      /\ current[1][2] = j - Len(current) + 1
  <2>1. /\ Len(current) \in Nat /\ Head(current) = current[1]
        /\ current[1] = <<i, j - Len(current) + 1>>
    BY RunEnds
  <2> QED BY <2>1, RunSet
<1>2. ASSUME NEW a \in ToSet(parts), NEW b \in ToSet(current)
      PROVE  \/ Before(a, b)
             \/ /\ a = b /\ isLast
                /\ a = Last(parts) /\ b = Head(current)
                /\ b[2] = 0 => Size(t[b[1]].paragraph) <= ChunkOverlap
  <2>1. /\ a[1] = i /\ a[2] \in 1 .. j
        /\ \/ a[2] <= j - Len(current)
           \/ isLast /\ Len(current) >= 2 /\ a = Last(parts) /\ a = current[1]
    BY <1>2 DEF IsPutOut
  <2>2. /\ b[1] = i /\ b[2] \in 1 .. j /\ b[2] > j - Len(current)
        /\ b = Head(current) \/ b[2] > j - Len(current) + 1
    BY <1>1, <1>2
  <2>3. CASE a[2] <= j - Len(current)
    <3>1. a[2] < b[2]
      BY <1>1, <2>1, <2>2, <2>3
    <3> QED BY <2>1, <2>2, <3>1 DEF Before
  <2>4. CASE isLast /\ a = Last(parts) /\ a = current[1] /\ b = Head(current)
    <3>1. b[2] # 0
      BY <2>2
    <3> QED BY <1>1, <2>4, <3>1
  <2>5. CASE isLast /\ a = current[1] /\ b[2] > j - Len(current) + 1
    <3>1. a[2] = j - Len(current) + 1
      BY <1>1, <2>5
    <3>2. a[2] < b[2]
      BY <1>1, <2>1, <2>2, <2>5, <3>1
    <3> QED BY <2>1, <2>2, <3>2 DEF Before
  <2> QED BY <2>1, <2>2, <2>3, <2>4, <2>5
<1> QED BY <1>2 DEF Follows

\* When the current sentences are put out too, and the last of them is the first of
\* the next ones.
LEMMA PutOutMore ==
  ASSUME NEW i \in Nat, NEW j \in Nat, NEW parts, NEW current \in Seq(Nat \X Nat),
         NEW isLast \in BOOLEAN, current # <<>>, NEW new, Len(new) = 2,
         IsRun(i, current, j), IsPutOut(i, parts, j, current, isLast)
  PROVE  IsPutOut(i, parts, j + 1, new, FALSE)
<1>1. /\ Len(current) \in Nat /\ Len(current) >= 1
      /\ current[1][2] = j - Len(current) + 1
  <2>1. Len(current) \in Nat /\ Len(current) >= 1 /\ current[1] = <<i, j - Len(current) + 1>>
    BY RunEnds, ZenonT(40)
  <2> QED BY <2>1
<1>2. ASSUME NEW part \in ToSet(parts)
      PROVE  part[1] = i /\ part[2] \in 1 .. j + 1 /\ part[2] <= j + 1 - Len(new)
  <2>1. /\ part[1] = i /\ part[2] \in 1 .. j
        /\ \/ part[2] <= j - Len(current)
           \/ Len(current) >= 2 /\ part = current[1]
    BY <1>2 DEF IsPutOut
  <2>2. part[2] <= j - Len(current) \/ (Len(current) >= 2 /\ part[2] = j - Len(current) + 1)
    BY <1>1, <2>1
  <2> QED BY <1>1, <2>1, <2>2, SMTT(40)
<1> QED BY <1>2 DEF IsPutOut

\* The current sentences are put out, and the last of them is the first of the new ones.
LEMMA PutOutCurrent ==
  ASSUME NEW i \in Nat, NEW j \in Nat, NEW current \in Seq(Nat \X Nat), IsRun(i, current, j),
         NEW new, Len(new) = 2, new[1] = Last(current)
  PROVE  IsPutOut(i, current, j + 1, new, TRUE)
<1>1. ASSUME NEW part \in ToSet(current)
      PROVE  /\ part[1] = i /\ part[2] \in 1 .. j + 1
             /\ \/ part[2] <= j + 1 - Len(new)
                \/ TRUE /\ Len(new) >= 2 /\ part = Last(current) /\ part = new[1]
  <2>1. /\ part[1] = i /\ part[2] \in 1 .. j
        /\ part = Last(current) \/ part[2] <= j - 1
    BY <1>1, RunSet
  <2> QED BY <2>1
<1> QED BY <1>1 DEF IsPutOut

\* What the estimates of two numbers say of their sum.
LEMMA SumOfTwo ==
  ASSUME NEW a \in Nat, NEW b \in Nat, NEW c \in Nat, NEW z \in Nat,
         a <= 4 * c + 3, b <= 4 * z + 3
  PROVE  c + z \in Nat /\ a + b <= 4 * (c + z) + 6
OBVIOUS

\* A sentence is added that does not fit.
LEMMA SplitFull ==
  ASSUME NEW t, NEW i \in Nat, Sentences(t, i) \in Seq(Nat),
         NEW j \in 1 .. Len(Sentences(t, i)), NEW acc, SplitInv(t, i, acc, j - 1),
         acc.current # <<>>
  PROVE  SplitInv(t, i, [done |-> Append(acc.done, acc.current),
                         current |-> <<Last(acc.current), <<i, j>>>>,
                         tokens |-> Tokens(Sentences(t, i)[Last(acc.current)[2]])
                                      + Tokens(Sentences(t, i)[j])], j)
<1> DEFINE current == acc.current
           new == [done |-> Append(acc.done, acc.current),
                   current |-> <<Last(acc.current), <<i, j>>>>,
                   tokens |-> Tokens(Sentences(t, i)[Last(acc.current)[2]])
                                + Tokens(Sentences(t, i)[j])]
           d == Len(acc.done)
           g == j - 1
<1>1. /\ acc.done \in Seq(Seq(Nat \X Nat)) /\ current \in Seq(Nat \X Nat)
      /\ acc.tokens \in Nat /\ IsRun(i, current, g)
  BY DEF SplitInv, Splits
<1>2. j \in Nat /\ g \in Nat /\ g = j - 1 /\ g + 1 = j
  OBVIOUS
<1>3. /\ Len(current) \in Nat /\ Len(current) >= 1 /\ Len(current) <= g
      /\ Last(current) = <<i, g>>
  <2> HIDE DEF current, g
  <2> QED BY <1>1, <1>2, RunEnds, ZenonT(40) DEF current
<1>4. g \in 1 .. Len(Sentences(t, i))
  <2>1. g >= 1
    <3> HIDE DEF g, current
    <3> QED BY <1>2, <1>3
  <2> QED BY <2>1
<1>5. /\ Sentences(t, i)[g] \in Nat /\ Sentences(t, i)[j] \in Nat
      /\ Last(acc.current)[2] = g
  BY <1>2, <1>3, <1>4
<1> DEFINE size == Tokens(Sentences(t, i)[g]) + Tokens(Sentences(t, i)[j])
<1>6. /\ size \in Nat
      /\ Sentences(t, i)[g] + Sentences(t, i)[j] <= 4 * size + 6
  <2> DEFINE a == Sentences(t, i)[g]
             b == Sentences(t, i)[j]
  <2>1. Tokens(a) \in Nat /\ a <= 4 * Tokens(a) + 3
    BY <1>5, TokensBound
  <2>2. Tokens(b) \in Nat /\ b <= 4 * Tokens(b) + 3
    BY <1>5, TokensBound
  <2>3. a \in Nat /\ b \in Nat /\ size = Tokens(a) + Tokens(b)
    BY <1>5
  <2> HIDE DEF a, b, size
  <2>4. size \in Nat /\ a + b <= 4 * size + 6
    BY <2>1, <2>2, <2>3, SumOfTwo
  <2> QED BY <2>4 DEF a, b
<1>7. /\ new.done = Append(acc.done, current) /\ new.current = <<<<i, g>>, <<i, j>>>>
      /\ new.tokens = size
      /\ new = [done |-> new.done, current |-> new.current, tokens |-> new.tokens]
  BY <1>3, <1>5
<1>8. /\ new.done \in Seq(Seq(Nat \X Nat)) /\ DOMAIN new.done = 1 .. d + 1 /\ d \in Nat
      /\ Len(new.done) = d + 1 /\ DOMAIN acc.done = 1 .. d
      /\ new.done[d + 1] = current
      /\ \A k \in 1 .. d : new.done[k] = acc.done[k]
  <2> HIDE DEF new, current
  <2> QED BY <1>1, <1>7, SMTT(40)
<1> HIDE DEF new, size
<1>9. /\ new.current \in Seq(Nat \X Nat) /\ Len(new.current) = 2
      /\ new.current[1] = Last(current) /\ new.current[1] = <<i, g>>
      /\ new.current[2] = <<i, j>>
  <2> DEFINE x == <<i, g>>
             y == <<i, j>>
  <2>1. x \in Nat \X Nat /\ y \in Nat \X Nat
    BY <1>2
  <2>2. new.current = <<x, y>> /\ x = Last(current)
    BY <1>3, <1>7
  <2>3. x = <<i, g>> /\ y = <<i, j>>
    OBVIOUS
  <2> HIDE DEF x, y, g, current
  <2> QED BY <2>1, <2>2, <2>3
<1> HIDE DEF current, g
<1>10. IsRun(i, new.current, j)
  <2>1. j >= 2
    BY <1>2, <1>3
  <2>2. 1 .. 2 = {1, 2} /\ j - 2 + 1 = g /\ j - 2 + 2 = j
    BY <1>2
  <2> QED BY <1>9, <2>1, <2>2 DEF IsRun
<1>11. Total(LengthsOf(t, new.current)) <= 4 * new.tokens + 3 * Len(new.current)
  <2>1. Total(LengthsOf(t, new.current)) = Sentences(t, i)[g] + Sentences(t, i)[j]
    BY <1>4, <1>7, TwoLengths
  <2> QED BY <1>6, <1>7, <1>9, <2>1
<1>12. new \in Splits
  BY <1>6, <1>7, <1>8, <1>9 DEF Splits
<1>13. ASSUME NEW k \in 1 .. d
       PROVE  /\ acc.done[k] # <<>> /\ Ascending(acc.done[k]) /\ FewTokens(t, acc.done[k])
              /\ IsPutOut(i, acc.done[k], g, current, k = d)
              /\ (k = d) \in BOOLEAN
  BY <1>8 DEF SplitInv, current, g
<1>14. Ascending(current) /\ FewTokens(t, current)
  <2>1. Ascending(current)
    BY <1>1, <1>2, RunParts
  <2>2. /\ Total(LengthsOf(t, current)) <= 4 * acc.tokens + 3 * Len(current)
        /\ acc.tokens <= ChunkSize \/ Len(current) <= 2
    BY DEF SplitInv, current
  <2> QED BY <1>1, <2>1, <2>2 DEF FewTokens
<1>15. current # <<>>
  BY DEF current
<1>16. ASSUME NEW k \in DOMAIN new.done
       PROVE  /\ new.done[k] # <<>> /\ Ascending(new.done[k]) /\ FewTokens(t, new.done[k])
              /\ IsPutOut(i, new.done[k], j, new.current, k = Len(new.done))
  <2>1. CASE k \in 1 .. d
    <3>1. IsPutOut(i, acc.done[k], g + 1, new.current, FALSE)
      BY <1>1, <1>2, <1>9, <1>13, <1>15, <2>1, PutOutMore
    <3>2. (k = Len(new.done)) = FALSE
      BY <1>8, <2>1
    <3> QED BY <1>2, <1>8, <1>13, <2>1, <3>1, <3>2
  <2>2. CASE k = d + 1
    <3>1. IsPutOut(i, current, g + 1, new.current, TRUE)
      BY <1>1, <1>2, <1>9, PutOutCurrent
    <3>2. (k = Len(new.done)) = TRUE
      BY <1>8, <2>2
    <3> QED BY <1>2, <1>8, <1>14, <1>15, <2>2, <3>1, <3>2
  <2> QED BY <1>8, <2>1, <2>2, SMTT(40)
<1>17. ASSUME NEW k \in DOMAIN new.done, NEW l \in DOMAIN new.done, k < l
       PROVE  Follows(t, new.done[k], new.done[l], l = k + 1)
  <2>1. k \in 1 .. d
    BY <1>8, <1>17
  <2>2. CASE l \in 1 .. d
    <3>1. Follows(t, acc.done[k], acc.done[l], l = k + 1)
      BY <1>8, <1>17, <2>1, <2>2 DEF SplitInv
    <3> QED BY <1>8, <2>1, <2>2, <3>1
  <2>3. CASE l = d + 1
    <3>1. Follows(t, acc.done[k], current, k = d)
      BY <1>1, <1>2, <1>13, <1>15, <2>1, PutOutFollows
    <3>2. (l = k + 1) = (k = d)
      BY <1>8, <2>1, <2>3, SMTT(40)
    <3> QED BY <1>8, <2>1, <2>3, <3>1, <3>2
  <2>4. l \in 1 .. d \/ l = d + 1
    <3> HIDE DEF d
    <3> QED BY <1>8
  <2> QED BY <2>2, <2>3, <2>4, Zenon
<1>18. ASSUME NEW m \in 1 .. j
       PROVE  \/ <<i, m>> \in ToSet(new.current)
              \/ \E k \in DOMAIN new.done : <<i, m>> \in ToSet(new.done[k])
  <2>1. CASE m = j
    <3>1. 2 \in DOMAIN new.current
      BY <1>9
    <3> QED BY <1>9, <2>1, <3>1 DEF ToSet
  <2>2. CASE m \in 1 .. g
    <3>1. \/ <<i, m>> \in ToSet(current)
          \/ \E k \in DOMAIN acc.done : <<i, m>> \in ToSet(acc.done[k])
      BY <2>2 DEF SplitInv, current, g
    <3>2. d + 1 \in DOMAIN new.done /\ \A k \in DOMAIN acc.done : k \in DOMAIN new.done
      BY <1>8, SMTT(40)
    <3> QED BY <1>8, <3>1, <3>2
  <2>3. m = j \/ m \in 1 .. g
    BY <1>2
  <2> QED BY <2>1, <2>2, <2>3
<1>19. new.current # <<>> /\ (new.tokens <= ChunkSize \/ Len(new.current) <= 2)
  BY <1>9
<1>20. SplitInv(t, i, new, j)
  BY <1>10, <1>11, <1>12, <1>16, <1>17, <1>18, <1>19 DEF SplitInv
<1> QED BY <1>20 DEF new

\* What a step of the loop over the sentences is.
LEMMA AddSentenceIs ==
  ASSUME NEW t, NEW i, NEW acc, NEW j
  PROVE  Chunker!AddSentence(t, i, acc, j) =
            IF HasRoom(t, i, acc, j)
            THEN [acc EXCEPT !.current = Append(@, <<i, j>>),
                             !.tokens = @ + Tokens(Sentences(t, i)[j])]
            ELSE [done |-> Append(acc.done, acc.current),
                  current |-> <<Last(acc.current), <<i, j>>>>,
                  tokens |-> Tokens(Sentences(t, i)[Last(acc.current)[2]])
                               + Tokens(Sentences(t, i)[j])]
<1> DEFINE fits == acc.tokens + Tokens(Sentences(t, i)[j]) <= ChunkSize \/ acc.current = <<>>
           more == [acc EXCEPT !.current = Append(@, <<i, j>>),
                               !.tokens = @ + Tokens(Sentences(t, i)[j])]
           next == [done |-> Append(acc.done, acc.current),
                    current |-> <<Last(acc.current), <<i, j>>>>,
                    tokens |-> Tokens(Sentences(t, i)[Last(acc.current)[2]])
                                 + Tokens(Sentences(t, i)[j])]
<1>1. Chunker!AddSentence(t, i, acc, j) = IF fits THEN more ELSE next
  BY SameSizes DEF Sentences, Chunker!AddSentence
<1>2. HasRoom(t, i, acc, j) = fits
  BY Zenon DEF HasRoom
<1> HIDE DEF fits, more, next
<1>3. Chunker!AddSentence(t, i, acc, j) = IF HasRoom(t, i, acc, j) THEN more ELSE next
  BY <1>1, <1>2
<1> QED BY <1>3 DEF more, next

\* The loop over the sentences, a step and all of it.
LEMMA SplitStep ==
  ASSUME NEW t, NEW i \in Nat, Sentences(t, i) \in Seq(Nat),
         NEW j \in 1 .. Len(Sentences(t, i)), NEW acc, SplitInv(t, i, acc, j - 1)
  PROVE  SplitInv(t, i, Chunker!AddSentence(t, i, acc, j), j)
<1> DEFINE added == Chunker!AddSentence(t, i, acc, j)
<1>1. acc = [done |-> acc.done, current |-> acc.current, tokens |-> acc.tokens]
  BY DEF SplitInv, Splits
<1>2. CASE HasRoom(t, i, acc, j)
  <2>1. added = [acc EXCEPT !.current = Append(@, <<i, j>>),
                            !.tokens = @ + Tokens(Sentences(t, i)[j])]
    BY <1>2, AddSentenceIs
  <2> HIDE DEF added
  <2>2. added = [done |-> acc.done, current |-> Append(acc.current, <<i, j>>),
                 tokens |-> acc.tokens + Tokens(Sentences(t, i)[j])]
    BY <1>1, <2>1
  <2>3. SplitInv(t, i, added, j)
    BY <1>2, <2>2, SplitFits
  <2> QED BY <2>3 DEF added
<1>3. CASE ~HasRoom(t, i, acc, j)
  <2>1. acc.current # <<>>
    BY <1>3 DEF HasRoom
  <2>2. added = [done |-> Append(acc.done, acc.current),
                 current |-> <<Last(acc.current), <<i, j>>>>,
                 tokens |-> Tokens(Sentences(t, i)[Last(acc.current)[2]])
                              + Tokens(Sentences(t, i)[j])]
    BY <1>3, AddSentenceIs
  <2> HIDE DEF added
  <2>3. SplitInv(t, i, added, j)
    BY <2>1, <2>2, SplitFull
  <2> QED BY <2>3 DEF added
<1> QED BY <1>2, <1>3

\* The loop over the sentences, by induction: the step-wise function exists, so it is
\* the one AddedSentences is defined by, and each of its values has the invariant.
LEMMA SplitLoop ==
  ASSUME NEW t, NEW i \in Nat, Sentences(t, i) \in Seq(Nat)
  PROVE  SplitInv(t, i, Chunker!AddedSentences(t, i), Len(Sentences(t, i)))
<1> DEFINE n == Len(Sentences(t, i))
           Add(acc, j) == Chunker!AddSentence(t, i, acc, j)
           step == [j \in 1 .. n |-> [acc \in Splits |->
                       IF Add(acc, j) \in Splits THEN Add(acc, j) ELSE acc]]
           Adds(f) == f = [j \in 0 .. n |-> IF j = 0 THEN Chunker!NoSentence ELSE Add(f[j - 1], j)]
<1>1. n \in Nat
  OBVIOUS
<1>2. SplitInv(t, i, Chunker!NoSentence, 0) /\ Chunker!NoSentence \in Splits
  BY NoSplit DEF SplitInv
<1>3. ASSUME NEW j \in 1 .. n, NEW acc, SplitInv(t, i, acc, j - 1)
      PROVE  SplitInv(t, i, Add(acc, j), j) /\ Add(acc, j) \in Splits /\ acc \in Splits
  BY <1>3, SplitStep, SMTT(40) DEF SplitInv
<1> HIDE DEF n, Add
<1>4. step \in Steps(Splits, n)
  BY DEF Steps
<1>5. PICK g : g \in Runs(Splits, Chunker!NoSentence, n, step)
  <2> HIDE DEF step
  <2> QED BY <1>1, <1>2, <1>4, Recursion
<1>6. /\ DOMAIN g = 0 .. n /\ g = [j \in 0 .. n |-> g[j]]
      /\ g[0] = Chunker!NoSentence /\ \A j \in 1 .. n : g[j] = step[j][g[j - 1]]
  BY <1>5 DEF Runs
<1>7. ASSUME NEW j \in 1 .. n, SplitInv(t, i, g[j - 1], j - 1)
      PROVE  g[j] = Add(g[j - 1], j) /\ SplitInv(t, i, g[j], j)
  <2>1. Add(g[j - 1], j) \in Splits /\ g[j - 1] \in Splits /\ SplitInv(t, i, Add(g[j - 1], j), j)
    BY <1>3, <1>7
  <2>2. g[j] = Add(g[j - 1], j)
    BY <1>6, <2>1
  <2> QED BY <2>1, <2>2
<1> HIDE DEF step
<1>8. \A j \in 0 .. n : SplitInv(t, i, g[j], j)
  <2> DEFINE T == {j \in Nat : j <= n => SplitInv(t, i, g[j], j)}
  <2>1. 0 \in T
    BY <1>2, <1>6
  <2>2. ASSUME NEW j \in Nat, j \in T PROVE j + 1 \in T
    <3>1. ASSUME j + 1 <= n PROVE SplitInv(t, i, g[j + 1], j + 1)
      <4>1. j + 1 \in 1 .. n /\ (j + 1) - 1 = j /\ SplitInv(t, i, g[j], j)
        BY <1>1, <2>2, <3>1
      <4> QED BY <1>7, <4>1
    <3> QED BY <3>1
  <2> HIDE DEF T
  <2>3. Nat \subseteq T
    BY <2>1, <2>2, Induction
  <2> QED BY <1>1, <2>3 DEF T
<1>9. Adds(g)
  <2>1. ASSUME NEW j \in 0 .. n
        PROVE  g[j] = IF j = 0 THEN Chunker!NoSentence ELSE Add(g[j - 1], j)
    <3>1. CASE j = 0
      BY <1>6, <3>1
    <3>2. CASE j # 0
      <4>1. j \in 1 .. n /\ j - 1 \in 0 .. n
        BY <1>1, <3>2
      <4>2. g[j] = Add(g[j - 1], j)
        BY <1>7, <1>8, <4>1
      <4> QED BY <3>2, <4>2
    <3> QED BY <3>1, <3>2
  <2> QED BY <1>6, <2>1
<1> DEFINE f == CHOOSE h : Adds(h)
<1>10. Adds(f)
  <2> HIDE DEF Adds
  <2> QED BY <1>9
<1>11. Chunker!AddedSentences(t, i) = f[n]
  BY DEF Chunker!AddedSentences, n, Add, Sentences
<1> HIDE DEF f
<1>12. /\ f[0] = Chunker!NoSentence
       /\ \A j \in 1 .. n : f[j] = Add(f[j - 1], j)
  BY <1>1, <1>10
<1>13. SplitInv(t, i, f[n], n)
  <2> DEFINE T == {j \in Nat : j <= n => SplitInv(t, i, f[j], j)}
  <2>1. 0 \in T
    BY <1>2, <1>12
  <2>2. ASSUME NEW j \in Nat, j \in T PROVE j + 1 \in T
    <3>1. ASSUME j + 1 <= n PROVE SplitInv(t, i, f[j + 1], j + 1)
      <4>1. j + 1 \in 1 .. n /\ (j + 1) - 1 = j /\ SplitInv(t, i, f[j], j)
        BY <1>1, <2>2, <3>1
      <4>2. f[j + 1] = Add(f[j], j + 1) /\ SplitInv(t, i, Add(f[j], j + 1), j + 1)
        BY <1>3, <1>12, <4>1
      <4> QED BY <4>2
    <3> QED BY <3>1
  <2> HIDE DEF T
  <2>3. n \in T
    BY <1>1, <2>1, <2>2, Induction
  <2> QED BY <1>1, <2>3 DEF T
<1> QED BY <1>11, <1>13 DEF n

\* The pieces of a paragraph: they follow one another and have all its sentences.
LEMMA Pieces ==
  ASSUME NEW t, NEW i \in Nat, Sentences(t, i) \in Seq(Nat), Sentences(t, i) # <<>>
  PROVE  LET pieces == Chunker!SplitSentences(t, i)
             n == Len(Sentences(t, i))
         IN /\ pieces \in Seq(Seq(Nat \X Nat))
            /\ \A k \in DOMAIN pieces :
                  /\ pieces[k] # <<>> /\ Ascending(pieces[k]) /\ FewTokens(t, pieces[k])
                  /\ \A x \in ToSet(pieces[k]) : x[1] = i /\ x[2] \in 1 .. n
            /\ \A k, l \in DOMAIN pieces :
                  k < l => Follows(t, pieces[k], pieces[l], l = k + 1)
            /\ \A m \in 1 .. n : \E k \in DOMAIN pieces : <<i, m>> \in ToSet(pieces[k])
<1> DEFINE n == Len(Sentences(t, i))
           acc == Chunker!AddedSentences(t, i)
           done == acc.done
           current == acc.current
           d == Len(done)
           pieces == Append(done, current)
<1>1. n \in Nat /\ n >= 1
  OBVIOUS
<1>2. SplitInv(t, i, acc, n)
  BY SplitLoop
<1>3. Chunker!SplitSentences(t, i) = pieces
  BY DEF Chunker!SplitSentences
<1> HIDE DEF n, acc
<1>4. /\ done \in Seq(Seq(Nat \X Nat)) /\ current \in Seq(Nat \X Nat)
      /\ acc.tokens \in Nat /\ IsRun(i, current, n) /\ current # <<>>
  BY <1>1, <1>2 DEF SplitInv, Splits
<1>5. \A k \in DOMAIN done :
         /\ done[k] # <<>> /\ Ascending(done[k]) /\ FewTokens(t, done[k])
         /\ IsPutOut(i, done[k], n, current, k = d)
  BY <1>2 DEF SplitInv
<1>6. \A k, l \in DOMAIN done : k < l => Follows(t, done[k], done[l], l = k + 1)
  BY <1>2 DEF SplitInv
<1>7. \A m \in 1 .. n :
         <<i, m>> \in ToSet(current) \/ \E k \in DOMAIN done : <<i, m>> \in ToSet(done[k])
  BY <1>2 DEF SplitInv
<1>8. /\ Total(LengthsOf(t, current)) <= 4 * acc.tokens + 3 * Len(current)
      /\ acc.tokens <= ChunkSize \/ Len(current) <= 2
  BY <1>2 DEF SplitInv
<1> HIDE DEF done, current
<1>9. /\ pieces \in Seq(Seq(Nat \X Nat)) /\ DOMAIN pieces = 1 .. d + 1 /\ d \in Nat
      /\ DOMAIN done = 1 .. d /\ pieces[d + 1] = current
      /\ \A k \in 1 .. d : pieces[k] = done[k]
  BY <1>4
<1> HIDE DEF pieces, d
<1>10. \A k \in DOMAIN pieces : k \in 1 .. d \/ k = d + 1
  BY <1>9
<1>11. ASSUME NEW k \in DOMAIN pieces
       PROVE  /\ pieces[k] # <<>> /\ Ascending(pieces[k]) /\ FewTokens(t, pieces[k])
              /\ \A x \in ToSet(pieces[k]) : x[1] = i /\ x[2] \in 1 .. n
  <2>1. CASE k \in 1 .. d
    <3>1. /\ done[k] # <<>> /\ Ascending(done[k]) /\ FewTokens(t, done[k])
          /\ IsPutOut(i, done[k], n, current, k = d)
      BY <1>5, <1>9, <2>1
    <3>2. \A x \in ToSet(done[k]) : x[1] = i /\ x[2] \in 1 .. n
      BY <3>1 DEF IsPutOut
    <3> QED BY <1>9, <2>1, <3>1, <3>2
  <2>2. CASE k = d + 1
    <3>1. Ascending(current)
      BY <1>1, <1>4, RunParts
    <3>2. FewTokens(t, current)
      BY <1>4, <1>8 DEF FewTokens
    <3>3. \A x \in ToSet(current) : x[1] = i /\ x[2] \in 1 .. n
      BY <1>1, <1>4, RunSet
    <3> QED BY <1>4, <1>9, <2>2, <3>1, <3>2, <3>3
  <2> QED BY <1>10, <2>1, <2>2
<1>12. ASSUME NEW k \in DOMAIN pieces, NEW l \in DOMAIN pieces, k < l
       PROVE  Follows(t, pieces[k], pieces[l], l = k + 1)
  <2>1. k \in 1 .. d
    BY <1>9, <1>12
  <2>2. CASE l \in 1 .. d
    BY <1>6, <1>9, <1>12, <2>1, <2>2
  <2>3. CASE l = d + 1
    <3>1. IsPutOut(i, done[k], n, current, k = d) /\ (k = d) \in BOOLEAN
      BY <1>5, <1>9, <2>1
    <3>2. Follows(t, done[k], current, k = d)
      BY <1>1, <1>4, <3>1, PutOutFollows
    <3>3. (l = k + 1) = (k = d)
      BY <1>9, <2>1, <2>3
    <3> QED BY <1>9, <2>1, <2>3, <3>2, <3>3
  <2> QED BY <1>10, <2>2, <2>3
<1>13. ASSUME NEW m \in 1 .. n PROVE \E k \in DOMAIN pieces : <<i, m>> \in ToSet(pieces[k])
  <2>1. CASE <<i, m>> \in ToSet(current)
    <3>1. d + 1 \in DOMAIN pieces
      BY <1>9
    <3> QED BY <1>9, <2>1, <3>1
  <2>2. CASE \E k \in DOMAIN done : <<i, m>> \in ToSet(done[k])
    <3>1. PICK k \in DOMAIN done : <<i, m>> \in ToSet(done[k])
      BY <2>2
    <3>2. k \in DOMAIN pieces /\ pieces[k] = done[k]
      BY <1>9, <3>1
    <3> QED BY <3>1, <3>2
  <2> QED BY <1>7, <2>1, <2>2
<1> QED BY <1>3, <1>9, <1>11, <1>12, <1>13 DEF n

\* A chunk that is made.
LEMMA MadeChunk ==
  ASSUME NEW t, NEW parts \in Seq(Nat \X Nat), parts # <<>>, NEW gap \in {1, 2},
         LengthsOf(t, parts) \in Seq(Nat), section \in Nat,
         NEW c, c = Chunker!MakeChunk(t, parts, gap)
  PROVE  /\ c \in Chunk /\ c.section = section /\ c.parts = parts
         /\ c.count = Tokens(Joined(LengthsOf(t, parts), gap))
         /\ \A k \in Nat :
               /\ Total(LengthsOf(t, parts)) <= 4 * k + 3 * Len(parts)
               /\ k >= 1 \/ Len(parts) >= 2
               => c.count <= Estimate(k, Len(parts))
<1> DEFINE lengths == LengthsOf(t, parts)
           x == Joined(lengths, gap)
           n == Len(parts)
<1>1. n \in Nat /\ n >= 1 /\ Len(lengths) = n
  BY DEF LengthsOf
<1>2. lengths \in Seq(Nat) /\ lengths # <<>>
  BY <1>1
<1> HIDE DEF lengths
<1>3. x \in Nat /\ x = Total(lengths) + gap * (n - 1) /\ Total(lengths) \in Nat
  BY <1>1, <1>2, JoinedNat, TotalNat
<1>4. c = [section |-> section, parts |-> parts, count |-> Tokens(x)]
  BY SameSizes, SameJoined DEF Chunker!MakeChunk, LengthsOf, lengths
<1> HIDE DEF x
<1>5. Tokens(x) \in Nat
  BY <1>3, TokensBound
<1>6. c \in Chunk /\ c.section = section /\ c.parts = parts /\ c.count = Tokens(x)
  BY <1>4, <1>5 DEF Chunk
<1> HIDE DEF n
<1>7. ASSUME NEW k \in Nat, Total(lengths) <= 4 * k + 3 * n, k >= 1 \/ n >= 2
      PROVE  c.count <= Estimate(k, n)
  <2>1. x <= Total(lengths) + 2 * (n - 1)
    BY <1>1, <1>3
  <2>2. x <= 4 * k + 5 * n - 2
    BY <1>1, <1>3, <1>7, <2>1
  <2> QED BY <1>1, <1>3, <1>6, <1>7, <2>2, EstimateBound
<1> QED BY <1>6, <1>7 DEF x, n, lengths

\* The chunks of a long paragraph.
LEMMA SentenceChunksListed ==
  ASSUME NEW t, NEW i \in Nat, i \in DOMAIN t, t[i].section = section, section \in Nat,
         Sentences(t, i) \in Seq(Nat), Sentences(t, i) # <<>>
  PROVE  /\ Listed(t, Chunker!SentenceChunks(t, i))
         /\ PartsIn(Chunker!SentenceChunks(t, i)) = SentencesOf(t, i)
<1> DEFINE pieces == Chunker!SplitSentences(t, i)
           n == Len(Sentences(t, i))
           list == Chunker!SentenceChunks(t, i)
<1>1. n \in Nat /\ SentencesOf(t, i) = {i} \X (1 .. n)
  BY DEF SentencesOf, Sentences
<1>2. /\ pieces \in Seq(Seq(Nat \X Nat))
      /\ \A k \in DOMAIN pieces :
            /\ pieces[k] # <<>> /\ Ascending(pieces[k]) /\ FewTokens(t, pieces[k])
            /\ \A x \in ToSet(pieces[k]) : x[1] = i /\ x[2] \in 1 .. n
      /\ \A k, l \in DOMAIN pieces :
            k < l => Follows(t, pieces[k], pieces[l], l = k + 1)
      /\ \A m \in 1 .. n : \E k \in DOMAIN pieces : <<i, m>> \in ToSet(pieces[k])
  BY Pieces
<1>3. list = [k \in DOMAIN pieces |-> Chunker!MakeChunk(t, pieces[k], 1)]
  BY DEF Chunker!SentenceChunks
<1> HIDE DEF pieces, n, list
<1>4. ASSUME NEW k \in DOMAIN pieces
      PROVE  /\ list[k] \in Chunk /\ list[k].parts = pieces[k]
             /\ \A part \in ToSet(list[k].parts) : part[1] \in DOMAIN t
             /\ InOneSection(t, list[k])
             /\ BoundedSize(t, list[k])
  <2> DEFINE parts == pieces[k]
             c == list[k]
  <2>1. /\ parts \in Seq(Nat \X Nat) /\ parts # <<>> /\ FewTokens(t, parts)
        /\ \A x \in ToSet(parts) : x[1] = i /\ x[2] \in 1 .. n
        /\ c = Chunker!MakeChunk(t, parts, 1)
    BY <1>2, <1>3
  <2> HIDE DEF parts, c
  <2>2. \A m \in 1 .. Len(parts) : parts[m] \in ToSet(parts)
    BY <2>1 DEF ToSet
  <2>3. /\ LengthsOf(t, parts) \in Seq(Nat)
        /\ 1 \in 1 .. n
    <3>1. \A m \in 1 .. Len(parts) : parts[m][1] = i /\ parts[m][2] \in 1 .. n
      BY <2>1, <2>2
    <3>2. 1 \in 1 .. Len(parts)
      BY <2>1
    <3>3. 1 \in 1 .. n
      BY <1>1, <3>1, <3>2
    <3> QED BY <2>1, <3>1, <3>3, SentenceLengths DEF n
  <2>4. /\ c \in Chunk /\ c.section = section /\ c.parts = parts
        /\ \A m \in Nat :
              /\ Total(LengthsOf(t, parts)) <= 4 * m + 3 * Len(parts)
              /\ m >= 1 \/ Len(parts) >= 2
              => c.count <= Estimate(m, Len(parts))
    BY <2>1, <2>3, MadeChunk
  <2>5. \A x \in ToSet(parts) : x[1] \in DOMAIN t /\ t[x[1]].section = section
    BY <2>1
  <2>6. BoundedSize(t, c)
    <3>1. PICK m \in Nat : /\ Total(LengthsOf(t, parts)) <= 4 * m + 3 * Len(parts)
                           /\ m <= ChunkSize \/ Len(parts) <= 2
      BY <2>1 DEF FewTokens
    <3>2. parts[1][2] # 0
      <4>1. parts[1] \in ToSet(parts)
        BY <2>1, <2>2
      <4>2. parts[1][2] \in 1 .. n
        BY <2>1, <4>1
      <4> QED BY <1>1, <4>2
    <3>3. CASE Len(parts) <= 2
      BY <2>4, <3>2, <3>3 DEF BoundedSize
    <3>4. CASE ~(Len(parts) <= 2)
      <4>1. Len(parts) \in Nat /\ Len(parts) >= 2 /\ m <= ChunkSize
        BY <2>1, <3>1, <3>4
      <4>2. c.count <= Estimate(m, Len(parts))
        BY <2>4, <3>1, <4>1
      <4>3. Estimate(m, Len(parts)) <= Estimate(ChunkSize, Len(parts))
        BY <4>1, SizesAreSizes DEF Estimate
      <4>4. /\ c.count \in Nat /\ Estimate(m, Len(parts)) \in Int
            /\ Estimate(ChunkSize, Len(parts)) \in Int
        BY <2>4, <4>1, SizesAreSizes, SMTT(40) DEF Chunk, Estimate
      <4>5. c.count <= Estimate(ChunkSize, Len(parts))
        BY <4>2, <4>3, <4>4
      <4> QED BY <2>4, <3>2, <4>5 DEF BoundedSize
    <3> QED BY <3>3, <3>4
  <2>7. InOneSection(t, c)
    BY <2>4, <2>5 DEF InOneSection
  <2> QED BY <2>4, <2>5, <2>6, <2>7 DEF parts, c
<1>5. list \in Seq(Chunk) /\ DOMAIN list = DOMAIN pieces
  <2>1. DOMAIN pieces = 1 .. Len(pieces) /\ Len(pieces) \in Nat
    BY <1>2
  <2> QED BY <1>3, <1>4, <2>1
<1>6. Listed(t, list)
  <2>1. Tiling(t, list)
    <3>1. \A k \in DOMAIN list : Ascending(list[k].parts)
      BY <1>2, <1>4, <1>5
    <3>2. ASSUME NEW k \in DOMAIN list, NEW l \in DOMAIN list, k < l
          PROVE  Follows(t, list[k].parts, list[l].parts, l = k + 1)
      <4>1. Follows(t, pieces[k], pieces[l], l = k + 1)
        BY <1>2, <1>5, <3>2
      <4>2. list[k].parts = pieces[k] /\ list[l].parts = pieces[l]
        BY <1>4, <1>5
      <4> QED BY <4>1, <4>2
    <3> QED BY <3>1, <3>2 DEF Tiling
  <2>2. \A k \in DOMAIN list :
           /\ list[k].parts # <<>>
           /\ \A part \in ToSet(list[k].parts) : part[1] \in DOMAIN t
           /\ InOneSection(t, list[k])
           /\ BoundedSize(t, list[k])
    BY <1>2, <1>4, <1>5
  <2> QED BY <1>5, <2>1, <2>2 DEF Listed
<1>7. PartsIn(list) = {i} \X (1 .. n)
  <2>1. ASSUME NEW x \in PartsIn(list) PROVE x \in {i} \X (1 .. n)
    <3>1. PICK k \in DOMAIN pieces : x \in ToSet(pieces[k])
      BY <1>4, <1>5, <2>1 DEF PartsIn
    <3>2. x[1] = i /\ x[2] \in 1 .. n
      BY <1>2, <3>1
    <3>3. x \in Nat \X Nat
      <4>1. pieces[k] \in Seq(Nat \X Nat)
        BY <1>2
      <4> QED BY <3>1, <4>1 DEF ToSet
    <3> QED BY <3>2, <3>3
  <2>2. ASSUME NEW m \in 1 .. n PROVE <<i, m>> \in PartsIn(list)
    <3>1. PICK k \in DOMAIN pieces : <<i, m>> \in ToSet(pieces[k])
      BY <1>2
    <3>2. k \in DOMAIN list /\ <<i, m>> \in ToSet(list[k].parts)
      BY <1>4, <1>5, <3>1
    <3> QED BY <3>2 DEF PartsIn
  <2> QED BY <2>1, <2>2
<1> QED BY <1>1, <1>6, <1>7 DEF list

----------------------------------------------------------------------------
(* Chunks: paragraphs *)

\* What a text may be.
Texts == Seq([section : Nat, paragraph : Paragraphs])

\* A paragraph of a text.
LEMMA TextPlace ==
  ASSUME NEW t \in Texts, NEW i \in DOMAIN t
  PROVE  /\ t[i].paragraph \in Paragraphs /\ t[i].section \in Nat
         /\ Len(t) \in Nat /\ DOMAIN t = 1 .. Len(t) /\ i \in Nat
<1>1. DOMAIN t = 1 .. Len(t) /\ Len(t) \in Nat
  BY DEF Texts
<1> DEFINE Entry == [section : Nat, paragraph : Paragraphs]
<1>2. t[i] \in Entry
  <2>1. t \in Seq(Entry)
    BY DEF Texts
  <2> HIDE DEF Entry
  <2> QED BY <1>1, <2>1, ElementOfSeq
<1> QED BY <1>1, <1>2

\* Paragraphs as the parts of a chunk.
Wholes(places) == [k \in DOMAIN places |-> Whole(places[k])]

\* Some paragraphs of a text, as parts of a chunk.
LEMMA WholesParts ==
  ASSUME NEW places \in Seq(Nat)
  PROVE  /\ Wholes(places) \in Seq(Nat \X Nat) /\ Len(Wholes(places)) = Len(places)
         /\ \A k \in 1 .. Len(places) : Wholes(places)[k] = <<places[k], 0>>
         /\ ToSet(Wholes(places)) = {Whole(i) : i \in ToSet(places)}
         /\ places # <<>> => /\ Wholes(places) # <<>>
                             /\ Head(Wholes(places)) = Whole(places[1])
                             /\ Last(Wholes(places)) = Whole(Last(places))
<1>1. DOMAIN places = 1 .. Len(places) /\ Len(places) \in Nat
  OBVIOUS
<1>2. \A k \in 1 .. Len(places) : places[k] \in Nat /\ Whole(places[k]) \in Nat \X Nat
  BY DEF Whole
<1>3. /\ Wholes(places) \in Seq(Nat \X Nat) /\ Len(Wholes(places)) = Len(places)
      /\ \A k \in 1 .. Len(places) : Wholes(places)[k] = Whole(places[k])
  BY <1>1, <1>2 DEF Wholes
<1>4. ToSet(Wholes(places)) = {Whole(i) : i \in ToSet(places)}
  BY <1>1 DEF Wholes, ToSet
<1>5. ASSUME places # <<>>
      PROVE  /\ Wholes(places) # <<>>
             /\ Head(Wholes(places)) = Whole(places[1])
             /\ Last(Wholes(places)) = Whole(Last(places))
  <2>1. 1 \in 1 .. Len(places) /\ Len(places) \in 1 .. Len(places)
    BY <1>5
  <2>2. Head(Wholes(places)) = Wholes(places)[1]
    BY <1>3, <2>1
  <2>3. Wholes(places) # <<>>
    BY <1>3, <2>1
  <2> QED BY <1>3, <2>1, <2>2, <2>3 DEF Last
<1> QED BY <1>3, <1>4, <1>5 DEF Whole

\* Their lengths.
LEMMA WholeLengths ==
  ASSUME NEW t \in Texts, NEW places \in Seq(Nat),
         \A k \in 1 .. Len(places) : places[k] \in DOMAIN t
  PROVE  /\ LengthsOf(t, Wholes(places)) \in Seq(Nat)
         /\ Len(LengthsOf(t, Wholes(places))) = Len(places)
         /\ \A k \in 1 .. Len(places) :
               LengthsOf(t, Wholes(places))[k] = Joined(t[places[k]].paragraph.sentences, 1)
<1>1. /\ DOMAIN Wholes(places) = 1 .. Len(places) /\ Len(places) \in Nat
      /\ \A k \in 1 .. Len(places) : Wholes(places)[k] = <<places[k], 0>>
  BY WholesParts
<1>2. ASSUME NEW k \in 1 .. Len(places)
      PROVE  /\ Chunker!Length(t, Wholes(places)[k])
                  = Joined(t[places[k]].paragraph.sentences, 1)
             /\ Joined(t[places[k]].paragraph.sentences, 1) \in Nat
  <2>1. t[places[k]].paragraph \in Paragraphs
    BY TextPlace
  <2>2. Joined(t[places[k]].paragraph.sentences, 1) \in Nat
    BY <2>1, SizeNat
  <2>3. Chunker!Length(t, <<places[k], 0>>) = Joined(t[places[k]].paragraph.sentences, 1)
    BY SameJoined DEF Chunker!Length
  <2> QED BY <1>1, <2>2, <2>3
<1>3. LengthsOf(t, Wholes(places)) =
         [k \in 1 .. Len(places) |-> Chunker!Length(t, Wholes(places)[k])]
  BY <1>1 DEF LengthsOf
<1> QED BY <1>1, <1>2, <1>3

\* One paragraph more.
LEMMA WholeAppend ==
  ASSUME NEW t \in Texts, NEW places \in Seq(Nat), NEW n \in Nat, n \in DOMAIN t,
         \A k \in 1 .. Len(places) : places[k] \in DOMAIN t
  PROVE  Total(LengthsOf(t, Wholes(Append(places, n))))
           = Total(LengthsOf(t, Wholes(places))) + Joined(t[n].paragraph.sentences, 1)
<1> DEFINE more == Append(places, n)
           a == LengthsOf(t, Wholes(places))
           b == LengthsOf(t, Wholes(more))
           x == Joined(t[n].paragraph.sentences, 1)
<1>1. /\ more \in Seq(Nat) /\ Len(more) = Len(places) + 1 /\ more[Len(places) + 1] = n
      /\ \A k \in 1 .. Len(places) : more[k] = places[k]
      /\ Len(places) \in Nat
  <2> HIDE DEF a, b, x
  <2> QED BY AppendProperties DEF more
<1> HIDE DEF more
<1>2. \A k \in 1 .. Len(more) : more[k] \in DOMAIN t
  BY <1>1, SMTT(40)
<1>3. /\ a \in Seq(Nat) /\ Len(a) = Len(places)
      /\ \A k \in 1 .. Len(places) : a[k] = Joined(t[places[k]].paragraph.sentences, 1)
  BY WholeLengths
<1>4. /\ b \in Seq(Nat) /\ Len(b) = Len(more)
      /\ \A k \in 1 .. Len(more) : b[k] = Joined(t[more[k]].paragraph.sentences, 1)
  BY <1>1, <1>2, WholeLengths
<1>5. x \in Nat
  <2>1. t[n].paragraph \in Paragraphs
    BY TextPlace
  <2> QED BY <2>1, SizeNat
<1>6. b[Len(places) + 1] = x /\ \A k \in 1 .. Len(places) : b[k] = a[k]
  <2> HIDE DEF a, b, x
  <2>1. Len(places) + 1 \in 1 .. Len(more) /\ \A k \in 1 .. Len(places) : k \in 1 .. Len(more)
    BY <1>1
  <2>2. b[Len(places) + 1] = Joined(t[n].paragraph.sentences, 1)
    BY <1>1, <1>4, <2>1
  <2>3. \A k \in 1 .. Len(places) : b[k] = a[k]
    BY <1>1, <1>3, <1>4, <2>1
  <2> QED BY <2>2, <2>3 DEF x
<1> HIDE DEF a, b, x
<1>7. b = Append(a, x)
  <2>1. /\ Append(a, x) \in Seq(Nat) /\ Len(Append(a, x)) = Len(places) + 1
        /\ Append(a, x)[Len(places) + 1] = x
        /\ \A k \in 1 .. Len(places) : Append(a, x)[k] = a[k]
    BY <1>1, <1>3, <1>5
  <2> QED BY <1>1, <1>4, <1>6, <2>1
<1>8. Total(b) = Total(a) + x
  BY <1>3, <1>5, <1>7, TotalAppend
<1> QED BY <1>8 DEF a, b, x, more

\* A longer text has the same lengths.
LEMMA WholeLonger ==
  ASSUME NEW t \in Texts, NEW u \in Texts, NEW places \in Seq(Nat),
         \A k \in 1 .. Len(places) : places[k] \in DOMAIN t,
         DOMAIN t \subseteq DOMAIN u, \A i \in DOMAIN t : u[i] = t[i]
  PROVE  LengthsOf(u, Wholes(places)) = LengthsOf(t, Wholes(places))
<1> DEFINE a == LengthsOf(t, Wholes(places))
           b == LengthsOf(u, Wholes(places))
<1>1. /\ a \in Seq(Nat) /\ Len(a) = Len(places)
      /\ \A k \in 1 .. Len(places) : a[k] = Joined(t[places[k]].paragraph.sentences, 1)
  BY WholeLengths
<1>2. /\ b \in Seq(Nat) /\ Len(b) = Len(places)
      /\ \A k \in 1 .. Len(places) : b[k] = Joined(u[places[k]].paragraph.sentences, 1)
  BY WholeLengths
<1> HIDE DEF a, b
<1>3. \A k \in 1 .. Len(places) : b[k] = a[k]
  BY <1>1, <1>2
<1>4. a = b
  BY <1>1, <1>2, <1>3, SeqEqual
<1> QED BY <1>4 DEF a, b

----------------------------------------------------------------------------
(* Chunks: the invariant *)

\* What is being built are the last paragraphs of text t, all of section s, none
\* of them large.
IsTail(t, s, places) ==
    /\ places \in Seq(Nat) /\ Len(places) <= Len(t)
    /\ \A k \in 1 .. Len(places) :
          /\ places[k] = Len(t) - Len(places) + k
          /\ t[places[k]].section = s
          /\ Size(t[places[k]].paragraph) <= ChunkSize

\* What the chunks tell comes before, but for a paragraph that is repeated.
AreBehind(t, places, list) ==
    \A k \in DOMAIN list : \A part \in ToSet(list[k].parts) :
        \/ part[1] <= Len(t) - Len(places)
        \/ /\ k = Len(list) /\ part = Last(list[k].parts)
           /\ Len(places) >= 2 /\ part = Whole(places[1])
           /\ Size(t[places[1]].paragraph) <= ChunkOverlap

\* What tokens says of the paragraphs it counts.
AreCounted(t, places, size) ==
    /\ size <= ChunkSize + ChunkOverlap
    /\ size = 0 <=> places = <<>>
    /\ Total(LengthsOf(t, Wholes(places))) <= 4 * size + 3 * Len(places)

\* Each paragraph of text t is told as a whole or by its sentences.
IsTold(t, told) ==
    /\ \A part \in told : part[1] \in DOMAIN t
    /\ \A i \in DOMAIN t :
          {part \in told : part[1] = i} \in {{Whole(i)}, SentencesOf(t, i)}

\* The inductive invariant.
ChunksInv ==
    /\ Chunker!TypeOK
    /\ IsTail(text, section, content)
    /\ AreBehind(text, content, allChunks)
    /\ AreCounted(text, content, tokens)
    /\ Listed(text, allChunks)
    /\ IsTold(text, Told)

\* It has all that is promised.
LEMMA InvPromises ==
  ASSUME ChunksInv
  PROVE  ChunksTileText /\ LargeChunksAreWhole
<1>1. NothingLost
  BY DEF ChunksInv, IsTold, NothingLost
<1>2. Tiling(text, allChunks) /\ \A k \in DOMAIN allChunks :
         InOneSection(text, allChunks[k]) /\ BoundedSize(text, allChunks[k])
  BY DEF ChunksInv, Listed
<1> QED BY <1>1, <1>2 DEF ChunksTileText, LargeChunksAreWhole

\* The types, without the instance.
LEMMA Types ==
  /\ Chunker!Chunk = Chunk
  /\ Chunker!TypeOK <=> /\ text \in Texts /\ section \in Nat /\ content \in Seq(Nat)
                        /\ tokens \in Nat /\ allChunks \in Seq(Chunk) /\ ended \in BOOLEAN
<1>1. Chunker!Chunk = Chunk
  BY DEF Chunker!Chunk, Chunk
<1> QED BY <1>1 DEF Chunker!TypeOK, Texts

\* One paragraph more is told.
LEMMA OneMoreTold ==
  ASSUME NEW t \in Texts, NEW u \in Texts, NEW n \in Nat, DOMAIN u = DOMAIN t \union {n},
         n \notin DOMAIN t, \A i \in DOMAIN t : u[i] = t[i],
         NEW told, IsTold(t, told), NEW x \in {{Whole(n)}, SentencesOf(u, n)}
  PROVE  IsTold(u, told \union x)
<1>1. \A part \in x : part[1] = n
  BY DEF Whole, SentencesOf
<1>2. \A part \in told : part[1] \in DOMAIN t /\ part[1] # n
  BY DEF IsTold
<1>3. ASSUME NEW i \in DOMAIN t
      PROVE  {part \in told \union x : part[1] = i} \in {{Whole(i)}, SentencesOf(u, i)}
  <2>1. {part \in told \union x : part[1] = i} = {part \in told : part[1] = i}
    BY <1>1
  <2>2. SentencesOf(u, i) = SentencesOf(t, i)
    BY DEF SentencesOf
  <2>3. {part \in told : part[1] = i} \in {{Whole(i)}, SentencesOf(t, i)}
    BY DEF IsTold
  <2> QED BY <2>1, <2>2, <2>3
<1>4. {part \in told \union x : part[1] = n} = x
  BY <1>1, <1>2
<1> QED BY <1>1, <1>2, <1>3, <1>4 DEF IsTold

\* When nothing is being built.
LEMMA NothingBuilt ==
  ASSUME NEW t \in Texts, NEW s, NEW list, Listed(t, list)
  PROVE  IsTail(t, s, <<>>) /\ AreBehind(t, <<>>, list) /\ AreCounted(t, <<>>, 0)
<1>1. <<>> \in Seq(Nat) /\ Len(<<>>) = 0 /\ Len(t) \in Nat /\ DOMAIN t = 1 .. Len(t)
  BY DEF Texts
<1>2. IsTail(t, s, <<>>)
  BY <1>1 DEF IsTail
<1>3. AreBehind(t, <<>>, list)
  <2>1. \A k \in DOMAIN list : \A part \in ToSet(list[k].parts) : part[1] \in DOMAIN t
    BY DEF Listed
  <2> QED BY <1>1, <2>1 DEF AreBehind
<1>4. AreCounted(t, <<>>, 0)
  <2>1. LengthsOf(t, Wholes(<<>>)) = <<>>
    BY <1>1 DEF LengthsOf, Wholes
  <2>2. Total(LengthsOf(t, Wholes(<<>>))) = 0
    BY <2>1, TotalEmpty
  <2>3. 0 <= ChunkSize + ChunkOverlap
    BY SizesAreSizes
  <2> QED BY <1>1, <2>2, <2>3 DEF AreCounted
<1> QED BY <1>2, <1>3, <1>4

----------------------------------------------------------------------------
(* Chunks: the steps *)

\* What is known of the chunk being built.
LEMMA ContentFacts ==
  ASSUME ChunksInv
  PROVE  /\ text \in Texts /\ Len(text) \in Nat /\ DOMAIN text = 1 .. Len(text)
         /\ content \in Seq(Nat) /\ Len(content) \in Nat /\ Len(content) <= Len(text)
         /\ \A k \in 1 .. Len(content) :
               /\ content[k] \in DOMAIN text
               /\ content[k] = Len(text) - Len(content) + k
               /\ text[content[k]].section = section
               /\ Size(text[content[k]].paragraph) <= ChunkSize
         /\ content # <<>> => /\ Len(content) >= 1 /\ Len(text) >= 1
                              /\ Last(content) = Len(text)
                              /\ text[Len(text)].section = section
                              /\ Size(text[Len(text)].paragraph) <= ChunkSize
         /\ section \in Nat /\ tokens \in Nat
         /\ allChunks \in Seq(Chunk) /\ ended \in BOOLEAN
<1>1. /\ text \in Texts /\ content \in Seq(Nat) /\ section \in Nat /\ tokens \in Nat
      /\ allChunks \in Seq(Chunk) /\ ended \in BOOLEAN
  BY Types DEF ChunksInv
<1>2. Len(text) \in Nat /\ DOMAIN text = 1 .. Len(text) /\ Len(content) \in Nat
  BY <1>1 DEF Texts
<1>3. /\ Len(content) <= Len(text)
      /\ \A k \in 1 .. Len(content) :
            /\ content[k] = Len(text) - Len(content) + k
            /\ text[content[k]].section = section
            /\ Size(text[content[k]].paragraph) <= ChunkSize
  BY DEF ChunksInv, IsTail
<1>4. \A k \in 1 .. Len(content) : content[k] \in DOMAIN text
  BY <1>2, <1>3
<1>5. ASSUME content # <<>>
      PROVE  /\ Len(content) >= 1 /\ Len(text) >= 1 /\ Last(content) = Len(text)
             /\ text[Len(text)].section = section
             /\ Size(text[Len(text)].paragraph) <= ChunkSize
  <2>1. Len(content) >= 1
    BY <1>1, <1>5
  <2>2. /\ Len(content) \in 1 .. Len(content)
        /\ Len(text) - Len(content) + Len(content) = Len(text)
    BY <1>2, <2>1
  <2>3. content[Len(content)] = Len(text)
    BY <1>3, <2>2
  <2> QED BY <1>2, <1>3, <2>1, <2>2, <2>3 DEF Last
<1> QED BY <1>1, <1>2, <1>3, <1>4, <1>5

\* The chunk that is put out.
LEMMA ContentChunk ==
  ASSUME ChunksInv, content # <<>>, NEW c, c = Chunker!MakeChunk(text, Wholes(content), 2)
  PROVE  /\ Chunker!Flush(content) = <<c>>
         /\ c \in Chunk /\ c.parts = Wholes(content) /\ c.parts # <<>>
         /\ Ascending(c.parts) /\ InOneSection(text, c) /\ BoundedSize(text, c)
         /\ \A part \in ToSet(c.parts) : part[1] \in DOMAIN text
<1>1. /\ text \in Texts /\ content \in Seq(Nat) /\ Len(content) \in Nat /\ Len(content) >= 1
      /\ \A k \in 1 .. Len(content) :
            /\ content[k] \in DOMAIN text
            /\ content[k] = Len(text) - Len(content) + k
            /\ text[content[k]].section = section
      /\ section \in Nat /\ tokens \in Nat /\ Len(text) \in Nat
  BY ContentFacts
<1>2. /\ Wholes(content) \in Seq(Nat \X Nat) /\ Len(Wholes(content)) = Len(content)
      /\ \A k \in 1 .. Len(content) : Wholes(content)[k] = <<content[k], 0>>
      /\ Wholes(content) # <<>>
      /\ DOMAIN Wholes(content) = 1 .. Len(content)
  <2>1. content \in Seq(Nat)
    BY <1>1
  <2>2. /\ Wholes(content) \in Seq(Nat \X Nat) /\ Len(Wholes(content)) = Len(content)
        /\ \A k \in 1 .. Len(content) : Wholes(content)[k] = <<content[k], 0>>
        /\ Wholes(content) # <<>>
    BY <2>1, WholesParts
  <2>3. DOMAIN Wholes(content) = 1 .. Len(content)
    BY <2>2
  <2> QED BY <2>2, <2>3
<1>3. LengthsOf(text, Wholes(content)) \in Seq(Nat)
  BY <1>1, WholeLengths
<1>4. /\ c \in Chunk /\ c.section = section /\ c.parts = Wholes(content)
      /\ \A k \in Nat :
            /\ Total(LengthsOf(text, Wholes(content))) <= 4 * k + 3 * Len(content)
            /\ k >= 1 \/ Len(content) >= 2
            => c.count <= Estimate(k, Len(content))
  <2> DEFINE parts == Wholes(content)
  <2>1. /\ parts \in Seq(Nat \X Nat) /\ parts # <<>> /\ Len(parts) = Len(content)
        /\ LengthsOf(text, parts) \in Seq(Nat) /\ c = Chunker!MakeChunk(text, parts, 2)
    BY <1>2, <1>3
  <2>2. section \in Nat /\ 2 \in {1, 2}
    BY <1>1
  <2> HIDE DEF parts
  <2>3. c \in Chunk /\ c.section = section /\ c.parts = parts
    BY <2>1, <2>2, MadeChunk
  <2>4. ASSUME NEW k \in Nat, Total(LengthsOf(text, parts)) <= 4 * k + 3 * Len(parts),
               k >= 1 \/ Len(parts) >= 2
        PROVE  c.count <= Estimate(k, Len(parts))
    BY <2>1, <2>2, <2>4, MadeChunk
  <2> QED BY <2>1, <2>3, <2>4 DEF parts
<1>5. Chunker!Flush(content) = <<c>>
  BY <1>1 DEF Chunker!Flush, Wholes, Whole, Chunker!Whole
<1>6. Ascending(c.parts)
  <2> SUFFICES ASSUME NEW m \in 1 .. Len(content), NEW k \in 1 .. Len(content), m < k
               PROVE  Before(Wholes(content)[m], Wholes(content)[k])
    BY <1>2, <1>4 DEF Ascending
  <2>1. content[m] < content[k]
    BY <1>1
  <2> QED BY <1>2, <2>1 DEF Before
<1>7. \A part \in ToSet(c.parts) : \E k \in 1 .. Len(content) : part = <<content[k], 0>>
  BY <1>2, <1>4 DEF ToSet
<1>8. \A part \in ToSet(c.parts) : part[1] \in DOMAIN text /\ text[part[1]].section = section
  <2> SUFFICES ASSUME NEW part \in ToSet(c.parts)
               PROVE  part[1] \in DOMAIN text /\ text[part[1]].section = section
    OBVIOUS
  <2>1. PICK k \in 1 .. Len(content) : part = <<content[k], 0>>
    BY <1>7
  <2>2. part[1] = content[k]
    BY <2>1
  <2> QED BY <1>1, <2>2
<1>9. BoundedSize(text, c)
  <2>1. /\ tokens <= ChunkSize + ChunkOverlap /\ tokens # 0
        /\ Total(LengthsOf(text, Wholes(content))) <= 4 * tokens + 3 * Len(content)
    BY DEF ChunksInv, AreCounted
  <2>2. c.count <= Estimate(tokens, Len(content))
    BY <1>1, <1>4, <2>1
  <2>3. Estimate(tokens, Len(content)) <= Estimate(ChunkSize + ChunkOverlap, Len(content))
    BY <1>1, <2>1, SizesAreSizes DEF Estimate
  <2>4. /\ c.count \in Nat /\ Estimate(tokens, Len(content)) \in Int
        /\ Estimate(ChunkSize + ChunkOverlap, Len(content)) \in Int
    BY <1>1, <1>4, SizesAreSizes DEF Chunk, Estimate
  <2>5. c.count <= Estimate(ChunkSize + ChunkOverlap, Len(content))
    BY <2>2, <2>3, <2>4
  <2>6. c.parts[1][2] = 0 /\ Len(c.parts) = Len(content)
    BY <1>1, <1>2, <1>4
  <2> QED BY <2>5, <2>6 DEF BoundedSize
<1> QED BY <1>2, <1>4, <1>5, <1>6, <1>8, <1>9 DEF InOneSection

\* Of the last paragraph of a text, a list tells at most the end of its last chunk.
EndsWith(t, list) ==
    \A k \in DOMAIN list : \A part \in ToSet(list[k].parts) :
        \/ part[1] < Len(t)
        \/ k = Len(list) /\ part = Last(list[k].parts) /\ part = Whole(Len(t))

\* What the chunks are when the one being built is put out.
LEMMA Flushed ==
  ASSUME ChunksInv, NEW list, list = allChunks \o Chunker!Flush(content)
  PROVE  /\ Listed(text, list) /\ PartsIn(list) = Told
         /\ content = <<>> => list = allChunks
         /\ content # <<>> => EndsWith(text, list)
<1>1. /\ text \in Texts /\ content \in Seq(Nat) /\ Len(content) \in Nat
      /\ Len(text) \in Nat /\ Len(content) <= Len(text)
      /\ \A k \in 1 .. Len(content) :
            content[k] \in DOMAIN text /\ content[k] = Len(text) - Len(content) + k
      /\ allChunks \in Seq(Chunk)
  BY ContentFacts
<1>2. Listed(text, allChunks) /\ AreBehind(text, content, allChunks)
  BY DEF ChunksInv
<1>3. CASE content = <<>>
  <2>1. list = allChunks
    BY <1>1, <1>3, ConcatEmptySeq DEF Chunker!Flush
  <2>2. {Whole(i) : i \in ToSet(content)} = {}
    BY <1>3 DEF ToSet
  <2> QED BY <1>2, <1>3, <2>1, <2>2 DEF Told
<1>4. CASE content # <<>>
  <2> DEFINE c == Chunker!MakeChunk(text, Wholes(content), 2)
  <2>1. /\ Chunker!Flush(content) = <<c>>
        /\ c \in Chunk /\ c.parts = Wholes(content) /\ c.parts # <<>>
        /\ Ascending(c.parts) /\ InOneSection(text, c) /\ BoundedSize(text, c)
        /\ \A part \in ToSet(c.parts) : part[1] \in DOMAIN text
    BY <1>4, ContentChunk
  <2> HIDE DEF c
  <2>2. /\ \A k \in 1 .. Len(content) : Wholes(content)[k] = <<content[k], 0>>
        /\ ToSet(Wholes(content)) = {Whole(i) : i \in ToSet(content)}
        /\ Head(Wholes(content)) = Whole(content[1])
        /\ Last(Wholes(content)) = Whole(Last(content))
        /\ DOMAIN Wholes(content) = 1 .. Len(content)
    BY <1>1, <1>4, WholesParts, SMTT(40)
  <2>3. Last(content) = Len(text) /\ Len(content) >= 1
    BY <1>4, ContentFacts
  <2>4. ASSUME NEW k \in DOMAIN allChunks
        PROVE  Follows(text, allChunks[k].parts, c.parts, k = Len(allChunks))
    <3> SUFFICES ASSUME NEW a \in ToSet(allChunks[k].parts), NEW b \in ToSet(Wholes(content))
                 PROVE  \/ Before(a, b)
                        \/ /\ a = b /\ k = Len(allChunks)
                           /\ a = Last(allChunks[k].parts) /\ b = Head(Wholes(content))
                           /\ b[2] = 0 => Size(text[b[1]].paragraph) <= ChunkOverlap
      BY <2>1 DEF Follows
    <3>1. PICK m \in 1 .. Len(content) : b = <<content[m], 0>>
      BY <2>2 DEF ToSet
    <3>2. a \in Nat \X Nat
      <4>1. allChunks[k] \in Chunk
        BY <1>1
      <4> QED BY <4>1, PartsOf
    <3>3. CASE a[1] <= Len(text) - Len(content)
      <4>1. a[1] < b[1]
        BY <1>1, <3>1, <3>2, <3>3
      <4> QED BY <4>1 DEF Before
    <3>4. CASE /\ k = Len(allChunks) /\ a = Last(allChunks[k].parts)
               /\ Len(content) >= 2 /\ a = Whole(content[1])
               /\ Size(text[content[1]].paragraph) <= ChunkOverlap
      <4>1. CASE m = 1
        BY <2>2, <3>1, <3>4, <4>1 DEF Whole
      <4>2. CASE m # 1
        <5>1. content[1] < content[m]
          BY <1>1, <2>3, <4>2
        <5> QED BY <3>1, <3>4, <5>1 DEF Before, Whole
      <4> QED BY <4>1, <4>2
    <3> QED BY <1>2, <3>3, <3>4 DEF AreBehind
  <2>5. Listed(text, list)
    BY <1>2, <2>1, <2>4, ListedOneMore
  <2>6. PartsIn(list) = Told
    <3>1. PartsIn(list) = PartsIn(allChunks) \union PartsIn(<<c>>)
      <4>1. <<c>> \in Seq(Chunk)
        BY <2>1
      <4> QED BY <1>1, <2>1, <4>1, PartsInConcat
    <3> QED BY <2>1, <2>2, <3>1, PartsInFew DEF Told
  <2>7. EndsWith(text, list)
    <3>1. /\ DOMAIN list = 1 .. Len(allChunks) + 1 /\ list[Len(allChunks) + 1] = c
          /\ Len(list) = Len(allChunks) + 1 /\ Len(allChunks) \in Nat
          /\ DOMAIN allChunks = 1 .. Len(allChunks)
          /\ \A k \in DOMAIN allChunks : list[k] = allChunks[k]
      BY <1>1, <2>1
    <3>2. ASSUME NEW k \in DOMAIN allChunks, NEW part \in ToSet(allChunks[k].parts)
          PROVE  part[1] < Len(text)
      <4>1. allChunks[k] \in Chunk
        BY <1>1
      <4>2. part \in Nat \X Nat
        BY <4>1, PartsOf
      <4>3. part[1] <= Len(text) - Len(content) \/ (Len(content) >= 2 /\ part[1] = content[1])
        BY <1>2 DEF AreBehind, Whole
      <4> QED BY <1>1, <2>3, <4>2, <4>3
    <3>3. ASSUME NEW part \in ToSet(Wholes(content))
          PROVE  part[1] < Len(text) \/ (part = Last(Wholes(content)) /\ part = Whole(Len(text)))
      <4>1. PICK m \in 1 .. Len(content) : part = <<content[m], 0>>
        BY <2>2 DEF ToSet
      <4>2. content[m] < Len(text) \/ content[m] = Len(text)
        BY <1>1
      <4> QED BY <2>2, <2>3, <4>1, <4>2 DEF Whole
    <3> SUFFICES ASSUME NEW k \in DOMAIN list, NEW part \in ToSet(list[k].parts)
                 PROVE  \/ part[1] < Len(text)
                        \/ k = Len(list) /\ part = Last(list[k].parts) /\ part = Whole(Len(text))
      BY DEF EndsWith
    <3>4. CASE k \in DOMAIN allChunks
      BY <3>1, <3>2, <3>4
    <3>5. CASE k = Len(allChunks) + 1
      BY <2>1, <3>1, <3>3, <3>5
    <3> QED BY <3>1, <3>4, <3>5
  <2> QED BY <1>4, <2>5, <2>6, <2>7
<1> QED BY <1>3, <1>4

\* A chunk of one paragraph.
LEMMA OneWhole ==
  ASSUME NEW n \in Nat
  PROVE  /\ Wholes(<<n>>) = <<Whole(n)>> /\ Whole(n) \in Nat \X Nat /\ Whole(n)[1] = n
         /\ ToSet(<<Whole(n)>>) = {Whole(n)} /\ Chunker!Whole(n) = Whole(n)
<1>1. <<n>> \in Seq(Nat) /\ Len(<<n>>) = 1
  OBVIOUS
<1>2. Whole(n) = <<n, 0>> /\ Whole(n) \in Nat \X Nat /\ Whole(n)[1] = n
  BY DEF Whole
<1>3. /\ Wholes(<<n>>) \in Seq(Nat \X Nat) /\ Len(Wholes(<<n>>)) = 1
      /\ Wholes(<<n>>)[1] = Whole(n)
  BY <1>1, <1>2, WholesParts
<1> DEFINE x == Whole(n)
           a == Wholes(<<n>>)
           b == <<x>>
<1> HIDE DEF x, a
<1>4. b \in Seq(Nat \X Nat) /\ Len(b) = 1 /\ b[1] = x /\ ToSet(b) = {x}
  BY <1>2 DEF x, ToSet
<1> HIDE DEF b
<1>5. a = b
  BY <1>3, <1>4, SeqEqual DEF a, x
<1> QED BY <1>2, <1>4, <1>5 DEF a, b, x, Whole, Chunker!Whole

\* The chunk of one paragraph that is a block or was carried over.
LEMMA WholeChunk ==
  ASSUME NEW t \in Texts, NEW n \in Nat, n \in DOMAIN t, t[n].section = section,
         IsAtomic(t[n].paragraph) \/ Size(t[n].paragraph) <= ChunkOverlap,
         NEW c, c = Chunker!MakeChunk(t, <<Whole(n)>>, 2)
  PROVE  /\ c \in Chunk /\ c.parts = <<Whole(n)>> /\ c.parts # <<>>
         /\ Ascending(c.parts) /\ InOneSection(t, c) /\ BoundedSize(t, c)
         /\ ToSet(c.parts) = {Whole(n)}
<1> DEFINE p == t[n].paragraph
           parts == <<Whole(n)>>
           places == <<n>>
<1>1. p \in Paragraphs /\ section \in Nat
  BY TextPlace
<1>2. Size(p) \in Nat /\ Size(p) >= 1 /\ Joined(p.sentences, 1) \in Nat
      /\ Joined(p.sentences, 1) <= 4 * Size(p) + 3
  BY <1>1, SizeNat
<1>3. places \in Seq(Nat) /\ Len(places) = 1 /\ places[1] = n
  OBVIOUS
<1>4. parts = Wholes(places) /\ ToSet(parts) = {Whole(n)} /\ Whole(n) \in Nat \X Nat
      /\ Whole(n)[1] = n
  BY OneWhole
<1>5. parts \in Seq(Nat \X Nat) /\ Len(parts) = 1 /\ parts # <<>> /\ parts[1] = Whole(n)
  BY <1>4
<1> HIDE DEF parts, places
<1>6. /\ LengthsOf(t, parts) \in Seq(Nat) /\ Len(LengthsOf(t, parts)) = 1
      /\ LengthsOf(t, parts)[1] = Joined(p.sentences, 1)
  <2>1. \A k \in 1 .. Len(places) : places[k] \in DOMAIN t
    BY <1>3
  <2> QED BY <1>3, <1>4, <2>1, WholeLengths
<1> HIDE DEF p
<1>7. Total(LengthsOf(t, parts)) = Joined(p.sentences, 1)
  BY <1>6, TotalOne
<1>8. c = Chunker!MakeChunk(t, parts, 2) /\ 2 \in {1, 2}
  BY DEF parts
<1>9. c \in Chunk /\ c.parts = parts /\ c.section = section
  BY <1>1, <1>5, <1>6, <1>8, MadeChunk
<1>10. c.count <= Estimate(Size(p), 1)
  <2>1. Total(LengthsOf(t, parts)) <= 4 * Size(p) + 3 * Len(parts)
    BY <1>2, <1>5, <1>7
  <2> QED BY <1>1, <1>2, <1>5, <1>6, <1>8, <2>1, MadeChunk, ZenonT(40)
<1>11. Ascending(parts)
  BY <1>5 DEF Ascending
<1>12. InOneSection(t, c)
  BY <1>4, <1>9 DEF InOneSection
<1>13. BoundedSize(t, c)
  <2>1. c.parts[1][1] = n /\ c.parts[1][2] = 0 /\ Len(c.parts) = 1
    BY <1>5, <1>9 DEF Whole
  <2>2. CASE IsAtomic(p)
    BY <2>1, <2>2 DEF BoundedSize, p
  <2>3. CASE Size(p) <= ChunkOverlap
    <3>1. c.count <= Estimate(ChunkSize + ChunkOverlap, 1)
      <4>1. Estimate(Size(p), 1) <= Estimate(ChunkSize + ChunkOverlap, 1)
        BY <1>2, <2>3, SizesAreSizes DEF Estimate
      <4>2. /\ c.count \in Nat /\ Estimate(Size(p), 1) \in Int
            /\ Estimate(ChunkSize + ChunkOverlap, 1) \in Int
        BY <1>2, <1>9, SizesAreSizes DEF Chunk, Estimate
      <4> QED BY <1>10, <4>1, <4>2
    <3> QED BY <2>1, <3>1 DEF BoundedSize
  <2> QED BY <2>2, <2>3 DEF p
<1> QED BY <1>4, <1>5, <1>9, <1>11, <1>12, <1>13 DEF parts

\* What is carried over.
LEMMA CarriedIs ==
  ASSUME ChunksInv
  PROVE  \/ Chunker!Carried = <<>> /\ Chunker!CarriedTokens = 0
         \/ /\ content # <<>> /\ Chunker!Carried = <<Len(text)>>
            /\ Size(text[Len(text)].paragraph) <= ChunkOverlap
            /\ Chunker!CarriedTokens = Size(text[Len(text)].paragraph)
<1>1. content # <<>> => Last(content) = Len(text)
  BY ContentFacts
<1>2. CASE content # <<>> /\ Size(text[Last(content)].paragraph) <= ChunkOverlap
  <2>1. Chunker!Carried = <<Len(text)>>
    BY <1>1, <1>2, SameSizes, SameJoined DEF Chunker!Carried
  <2>2. Chunker!Carried # <<>>
    BY <2>1
  <2>3. Chunker!CarriedTokens = Size(text[Len(text)].paragraph)
    BY <1>1, <1>2, <2>2, SameSizes, SameJoined DEF Chunker!CarriedTokens
  <2> QED BY <1>1, <1>2, <2>1, <2>3
<1>3. CASE ~(content # <<>> /\ Size(text[Last(content)].paragraph) <= ChunkOverlap)
  <2>1. Chunker!Carried = <<>>
    BY <1>3, SameSizes, SameJoined DEF Chunker!Carried
  <2> QED BY <2>1 DEF Chunker!CarriedTokens
<1> QED BY <1>2, <1>3

\* When what was carried over is put out.
LEMMA CarriedFlushed ==
  ASSUME ChunksInv, NEW list, Listed(text, list), PartsIn(list) = Told,
         content # <<>> => EndsWith(text, list),
         NEW more, more = list \o Chunker!Flush(Chunker!Carried)
  PROVE  Listed(text, more) /\ PartsIn(more) = Told
<1> DEFINE n == Len(text)
<1>1. text \in Texts /\ n \in Nat /\ section \in Nat /\ list \in Seq(Chunk)
      /\ DOMAIN text = 1 .. n
  BY ContentFacts DEF Listed
<1>2. CASE Chunker!Carried = <<>>
  <2>1. more = list
    BY <1>1, <1>2, ConcatEmptySeq DEF Chunker!Flush
  <2> QED BY <2>1
<1>3. CASE /\ content # <<>> /\ Chunker!Carried = <<n>>
           /\ Size(text[n].paragraph) <= ChunkOverlap
  <2> DEFINE c == Chunker!MakeChunk(text, <<Whole(n)>>, 2)
  <2>1. n \in DOMAIN text /\ text[n].section = section
    BY <1>1, <1>3, ContentFacts
  <2>2. /\ c \in Chunk /\ c.parts = <<Whole(n)>> /\ c.parts # <<>>
        /\ Ascending(c.parts) /\ InOneSection(text, c) /\ BoundedSize(text, c)
        /\ ToSet(c.parts) = {Whole(n)}
    BY <1>1, <1>3, <2>1, WholeChunk
  <2>3. Chunker!Flush(<<n>>) = <<c>>
    <3>1. Chunker!Flush(<<n>>) = <<Chunker!MakeChunk(text, Wholes(<<n>>), 2)>>
      <4>1. <<n>> # <<>>
        OBVIOUS
      <4> QED BY <4>1 DEF Chunker!Flush, Wholes, Whole, Chunker!Whole
    <3> QED BY <1>1, <3>1, OneWhole
  <2> HIDE DEF c, n
  <2>4. more = list \o <<c>>
    BY <1>3, <2>3
  <2>5. Whole(n)[1] = n /\ Head(<<Whole(n)>>) = Whole(n)
    <3>1. Whole(n)[1] = n
      BY <1>1, OneWhole
    <3>2. Head(<<Whole(n)>>) = Whole(n)
      OBVIOUS
    <3> QED BY <3>1, <3>2
  <2>6. ASSUME NEW k \in DOMAIN list
        PROVE  Follows(text, list[k].parts, c.parts, k = Len(list))
    <3> SUFFICES ASSUME NEW a \in ToSet(list[k].parts)
                 PROVE  \/ Before(a, Whole(n))
                        \/ /\ a = Whole(n) /\ k = Len(list)
                           /\ a = Last(list[k].parts) /\ Whole(n) = Head(c.parts)
                           /\ Size(text[Whole(n)[1]].paragraph) <= ChunkOverlap
      BY <2>2 DEF Follows
    <3>1. a[1] < n \/ (k = Len(list) /\ a = Last(list[k].parts) /\ a = Whole(n))
      BY <1>3 DEF EndsWith, n
    <3>2. CASE a[1] < n
      BY <2>5, <3>2 DEF Before
    <3>3. CASE k = Len(list) /\ a = Last(list[k].parts) /\ a = Whole(n)
      BY <1>3, <2>2, <2>5, <3>3
    <3> QED BY <3>1, <3>2, <3>3
  <2>7. \A part \in ToSet(c.parts) : part[1] \in DOMAIN text
    BY <2>1, <2>2, <2>5
  <2>8. Listed(text, more)
    BY <2>2, <2>4, <2>6, <2>7, ListedOneMore
  <2>9. PartsIn(more) = Told
    <3>1. <<c>> \in Seq(Chunk)
      BY <2>2
    <3>2. PartsIn(more) = Told \union {Whole(n)}
      BY <1>1, <2>2, <2>4, <3>1, PartsInConcat, PartsInFew, ZenonT(40)
    <3>3. Whole(n) \in Told
      <4>1. n \in ToSet(content)
        <5>1. Last(content) = n /\ Len(content) \in DOMAIN content
          BY <1>3, ContentFacts DEF n
        <5> QED BY <5>1 DEF ToSet, Last
      <4> QED BY <4>1 DEF Told
    <3> QED BY <3>2, <3>3
  <2> QED BY <2>8, <2>9
<1> QED BY <1>2, <1>3, CarriedIs

\* The invariant of the next state, by its parts.
LEMMA InvNext ==
  ASSUME text' \in Texts, section' \in Nat, tokens' \in Nat, ended' \in BOOLEAN,
         IsTail(text', section', content'), AreBehind(text', content', allChunks'),
         AreCounted(text', content', tokens'), Listed(text', allChunks'),
         IsTold(text', Told')
  PROVE  ChunksInv'
<1>1. content' \in Seq(Nat) /\ allChunks' \in Seq(Chunk)
  BY DEF IsTail, Listed
<1>2. Chunker!Chunk = Chunk
  BY Types
<1>3. Chunker!TypeOK'
  BY <1>1, <1>2 DEF Chunker!TypeOK, Texts
<1> QED BY <1>3 DEF ChunksInv

\* The paragraph that is read.
LEMMA FollowingFacts ==
  ASSUME ChunksInv, NEW p \in Paragraphs, Chunker!Following(p)
  PROVE  /\ text' \in Texts /\ Len(text') = Len(text) + 1 /\ Len(text) \in Nat
         /\ DOMAIN text' = DOMAIN text \union {Len(text')} /\ Len(text') \notin DOMAIN text
         /\ DOMAIN text = 1 .. Len(text) /\ DOMAIN text' = 1 .. Len(text')
         /\ \A i \in DOMAIN text : text'[i] = text[i]
         /\ text'[Len(text')].section = section /\ text'[Len(text')].paragraph = p
         /\ section' = section /\ section \in Nat /\ ended' \in BOOLEAN
         /\ Len(text') \in Nat
<1> DEFINE Entry == [section : Nat, paragraph : Paragraphs]
           entry == [section |-> section, paragraph |-> p]
<1>1. /\ text \in Texts /\ section \in Nat /\ ended \in BOOLEAN /\ Len(text) \in Nat
      /\ DOMAIN text = 1 .. Len(text)
  BY ContentFacts
<1>2. /\ text' = Append(text, entry) /\ section' = section /\ ended' = ended
  BY DEF Chunker!Following
<1>3. entry \in Entry /\ text \in Seq(Entry) /\ entry.section = section /\ entry.paragraph = p
  BY <1>1 DEF Texts
<1> HIDE DEF Entry, entry
<1>4. /\ text' \in Seq(Entry) /\ Len(text') = Len(text) + 1
      /\ DOMAIN text' = 1 .. Len(text) + 1
      /\ text'[Len(text) + 1] = entry /\ \A i \in 1 .. Len(text) : text'[i] = text[i]
  BY <1>1, <1>2, <1>3
<1>5. text' \in Texts
  BY <1>4 DEF Texts, Entry
<1>6. 1 .. Len(text) + 1 = (1 .. Len(text)) \union {Len(text) + 1}
  BY <1>1
<1>7. Len(text) + 1 \in Nat /\ Len(text) + 1 \notin 1 .. Len(text)
  BY <1>1
<1> QED BY <1>1, <1>2, <1>3, <1>4, <1>5, <1>6, <1>7

\* The chunks so far, in the longer text: they come before what is read.
LEMMA BeforeIt ==
  ASSUME ChunksInv, NEW p \in Paragraphs, Chunker!Following(p), NEW list, Listed(text, list)
  PROVE  /\ Listed(text', list)
         /\ \A k \in DOMAIN list : \A part \in ToSet(list[k].parts) :
               part[1] \in 1 .. Len(text') - 1
         /\ \A part \in PartsIn(list) : part[1] \in 1 .. Len(text') - 1
<1>1. /\ Len(text') = Len(text) + 1 /\ Len(text) \in Nat
      /\ DOMAIN text = 1 .. Len(text) /\ DOMAIN text \subseteq DOMAIN text'
      /\ \A i \in DOMAIN text : text'[i] = text[i]
  BY FollowingFacts
<1>2. Listed(text', list)
  BY <1>1, ListedLonger
<1>3. \A k \in DOMAIN list : \A part \in ToSet(list[k].parts) : part[1] \in DOMAIN text
  BY DEF Listed
<1>4. DOMAIN text = 1 .. Len(text') - 1
  BY <1>1
<1> QED BY <1>2, <1>3, <1>4 DEF PartsIn

\* A block is read.
LEMMA ReadBlockKeeps ==
  ASSUME ChunksInv, NEW p \in Paragraphs, Chunker!ReadBlock(p)
  PROVE  ChunksInv'
<1> DEFINE n == Len(text')
           list == allChunks \o Chunker!Flush(content)
           c == Chunker!MakeChunk(text', <<Whole(n)>>, 2)
<1>1. /\ Chunker!Following(p) /\ IsAtomic(p)
      /\ allChunks' = list \o <<Chunker!MakeChunk(text', <<Chunker!Whole(n)>>, 2)>>
      /\ content' = <<>> /\ tokens' = 0
  BY SameJoined DEF Chunker!ReadBlock
<1>2. /\ text' \in Texts /\ n = Len(text) + 1 /\ Len(text) \in Nat /\ n \in Nat
      /\ DOMAIN text' = DOMAIN text \union {n} /\ n \notin DOMAIN text
      /\ \A i \in DOMAIN text : text'[i] = text[i]
      /\ text'[n].section = section /\ text'[n].paragraph = p
      /\ section' = section /\ section \in Nat /\ ended' \in BOOLEAN
  <2> HIDE DEF c, list
  <2> QED BY <1>1, FollowingFacts
<1>3. Whole(n) = Chunker!Whole(n) /\ Whole(n)[1] = n /\ Whole(n) \in Nat \X Nat
  BY <1>2, OneWhole
<1>4. Listed(text, list) /\ PartsIn(list) = Told
  BY Flushed
<1> HIDE DEF n, list
<1>5. /\ Listed(text', list)
      /\ \A k \in DOMAIN list : \A part \in ToSet(list[k].parts) : part[1] \in 1 .. n - 1
  BY <1>1, <1>4, BeforeIt DEF n
<1>6. /\ c \in Chunk /\ c.parts = <<Whole(n)>> /\ c.parts # <<>>
      /\ Ascending(c.parts) /\ InOneSection(text', c) /\ BoundedSize(text', c)
      /\ ToSet(c.parts) = {Whole(n)}
  BY <1>1, <1>2, WholeChunk, SMTT(40)
<1> HIDE DEF c
<1>7. allChunks' = list \o <<c>>
  BY <1>1, <1>3 DEF c
<1>8. \A k \in DOMAIN list : Follows(text', list[k].parts, c.parts, k = Len(list))
  BY <1>2, <1>3, <1>5, <1>6 DEF Follows, Before
<1>9. Listed(text', allChunks')
  <2>1. \A part \in ToSet(c.parts) : part[1] \in DOMAIN text'
    BY <1>2, <1>3, <1>6
  <2> QED BY <1>5, <1>6, <1>7, <1>8, <2>1, ListedOneMore
<1>10. Told' = Told \union {Whole(n)}
  <2>1. list \in Seq(Chunk) /\ <<c>> \in Seq(Chunk)
    BY <1>4, <1>6 DEF Listed
  <2>2. PartsIn(allChunks') = Told \union {Whole(n)}
    BY <1>4, <1>6, <1>7, <2>1, PartsInConcat, PartsInFew, ZenonT(40)
  <2>3. {Whole(i) : i \in ToSet(content')} = {}
    BY <1>1 DEF ToSet
  <2> QED BY <2>2, <2>3 DEF Told
<1>11. IsTold(text', Told')
  <2>1. IsTold(text, Told) /\ text \in Texts
    BY Types DEF ChunksInv
  <2> QED BY <1>2, <1>10, <2>1, OneMoreTold
<1>12. /\ IsTail(text', section', content') /\ AreBehind(text', content', allChunks')
       /\ AreCounted(text', content', tokens')
  BY <1>1, <1>2, <1>9, NothingBuilt
<1> QED BY <1>1, <1>2, <1>9, <1>11, <1>12, InvNext

\* A long paragraph is read.
LEMMA ReadLongKeeps ==
  ASSUME ChunksInv, NEW p \in Paragraphs, Chunker!ReadLong(p)
  PROVE  ChunksInv'
<1> DEFINE n == Len(text')
           flushed == allChunks \o Chunker!Flush(content)
           list == flushed \o Chunker!Flush(Chunker!Carried)
           pieces == Chunker!SentenceChunks(text', n)
<1>1. /\ Chunker!Following(p) /\ content' = <<>> /\ tokens' = 0
      /\ allChunks' = list \o pieces
  BY DEF Chunker!ReadLong
<1>2. /\ text' \in Texts /\ n = Len(text) + 1 /\ Len(text) \in Nat /\ n \in Nat
      /\ DOMAIN text' = DOMAIN text \union {n} /\ n \notin DOMAIN text
      /\ \A i \in DOMAIN text : text'[i] = text[i]
      /\ text'[n].section = section /\ text'[n].paragraph = p
      /\ section' = section /\ section \in Nat /\ ended' \in BOOLEAN
  <2> HIDE DEF list, flushed, pieces
  <2> QED BY <1>1, FollowingFacts
<1>3. Listed(text, list) /\ PartsIn(list) = Told
  <2>1. /\ Listed(text, flushed) /\ PartsIn(flushed) = Told
        /\ content # <<>> => EndsWith(text, flushed)
    BY Flushed
  <2> HIDE DEF flushed
  <2> QED BY <2>1, CarriedFlushed
<1>4. Listed(text', pieces) /\ PartsIn(pieces) = SentencesOf(text', n)
  <2>1. Sentences(text', n) \in Seq(Nat) /\ Sentences(text', n) # <<>>
    BY <1>2, SizeNat DEF Sentences
  <2> HIDE DEF n
  <2>2. n \in DOMAIN text'
    BY <1>2
  <2> QED BY <1>2, <2>1, <2>2, SentenceChunksListed
<1> HIDE DEF n, list, pieces
<1>5. Listed(text', list) /\ \A part \in PartsIn(list) : part[1] \in 1 .. n - 1
  BY <1>1, <1>3, BeforeIt DEF n
<1>6. Listed(text', allChunks')
  <2>1. ASSUME NEW x \in PartsIn(list), NEW y \in PartsIn(pieces) PROVE Before(x, y)
    <3>1. x[1] \in 1 .. n - 1 /\ y[1] = n
      BY <1>4, <1>5 DEF SentencesOf
    <3> QED BY <1>2, <3>1 DEF Before
  <2> QED BY <1>1, <1>4, <1>5, <2>1, ListedConcat
<1>7. Told' = Told \union SentencesOf(text', n)
  <2>1. list \in Seq(Chunk) /\ pieces \in Seq(Chunk)
    BY <1>3, <1>4 DEF Listed
  <2>2. PartsIn(allChunks') = Told \union SentencesOf(text', n)
    BY <1>1, <1>3, <1>4, <2>1, PartsInConcat
  <2>3. {Whole(i) : i \in ToSet(content')} = {}
    BY <1>1 DEF ToSet
  <2> QED BY <2>2, <2>3 DEF Told
<1>8. IsTold(text', Told')
  <2>1. IsTold(text, Told) /\ text \in Texts
    BY Types DEF ChunksInv
  <2> QED BY <1>2, <1>7, <2>1, OneMoreTold
<1>9. /\ IsTail(text', section', content') /\ AreBehind(text', content', allChunks')
      /\ AreCounted(text', content', tokens')
  BY <1>1, <1>2, <1>6, NothingBuilt
<1> QED BY <1>1, <1>2, <1>6, <1>8, <1>9, InvNext

\* A section ends.
LEMMA EndSectionKeeps ==
  ASSUME ChunksInv, Chunker!EndSection
  PROVE  ChunksInv'
<1> DEFINE list == allChunks \o Chunker!Flush(content)
<1>1. /\ allChunks' = list /\ content' = <<>> /\ tokens' = 0
      /\ section' = section + 1 /\ text' = text /\ ended' = ended
  BY DEF Chunker!EndSection
<1>2. text \in Texts /\ section \in Nat /\ ended \in BOOLEAN
  BY ContentFacts
<1>3. Listed(text, list) /\ PartsIn(list) = Told
  BY Flushed
<1> HIDE DEF list
<1>4. Told' = Told
  <2>1. {Whole(i) : i \in ToSet(content')} = {}
    BY <1>1 DEF ToSet
  <2> QED BY <1>1, <1>3, <2>1 DEF Told
<1>5. IsTold(text', Told') /\ Listed(text', allChunks')
  BY <1>1, <1>3, <1>4 DEF ChunksInv
<1>6. /\ IsTail(text', section', content') /\ AreBehind(text', content', allChunks')
      /\ AreCounted(text', content', tokens')
  BY <1>1, <1>2, <1>5, NothingBuilt
<1> QED BY <1>1, <1>2, <1>5, <1>6, InvNext

\* What a paragraph p, the last one of text u, can be added to.
CanTake(u, p, before, count, list) ==
    /\ Listed(text, list)
    /\ PartsIn(list) \union {Whole(i) : i \in ToSet(before)} = Told
    /\ IsTail(text, section, before)
    /\ AreBehind(u, Append(before, Len(u)), list)
    /\ count \in Nat /\ count + Size(p) <= ChunkSize + ChunkOverlap
    /\ Total(LengthsOf(text, Wholes(before))) <= 4 * count + 3 * Len(before)

\* The paragraphs that are being built.
LEMMA ContentTakes ==
  ASSUME ChunksInv, NEW p \in Paragraphs, Chunker!Following(p), Size(p) <= ChunkSize,
         content = <<>> \/ tokens + Size(p) <= ChunkSize
  PROVE  CanTake(text', p, content, tokens, allChunks)
<1> DEFINE n == Len(text')
           more == Append(content, n)
<1>1. /\ n = Len(text) + 1 /\ n \in Nat /\ Len(text) \in Nat
      /\ \A i \in DOMAIN text : text'[i] = text[i]
  BY FollowingFacts
<1>2. /\ content \in Seq(Nat) /\ Len(content) \in Nat /\ tokens \in Nat
      /\ Len(content) <= Len(text)
      /\ \A k \in 1 .. Len(content) : content[k] \in DOMAIN text
  BY ContentFacts
<1>3. /\ Listed(text, allChunks) /\ IsTail(text, section, content)
      /\ AreBehind(text, content, allChunks) /\ AreCounted(text, content, tokens)
  BY DEF ChunksInv
<1>4. PartsIn(allChunks) \union {Whole(i) : i \in ToSet(content)} = Told
  BY DEF Told
<1>5. tokens + Size(p) <= ChunkSize + ChunkOverlap
  <2>1. Size(p) \in Nat
    BY SizeNat
  <2>2. content = <<>> => tokens = 0
    BY <1>3 DEF AreCounted
  <2> QED BY <1>2, <2>1, <2>2, SizesAreSizes
<1> HIDE DEF n
<1>6. /\ Len(more) = Len(content) + 1
      /\ Len(content) >= 1 => more[1] = content[1]
  BY <1>1, <1>2
<1> HIDE DEF more
<1>7. AreBehind(text', more, allChunks)
  <2> SUFFICES ASSUME NEW k \in DOMAIN allChunks, NEW part \in ToSet(allChunks[k].parts)
               PROVE  \/ part[1] <= n - Len(more)
                      \/ /\ k = Len(allChunks) /\ part = Last(allChunks[k].parts)
                         /\ Len(more) >= 2 /\ part = Whole(more[1])
                         /\ Size(text'[more[1]].paragraph) <= ChunkOverlap
    BY DEF AreBehind, n
  <2>1. n - Len(more) = Len(text) - Len(content)
    BY <1>1, <1>2, <1>6
  <2>2. CASE part[1] <= Len(text) - Len(content)
    BY <2>1, <2>2
  <2>3. CASE /\ k = Len(allChunks) /\ part = Last(allChunks[k].parts)
             /\ Len(content) >= 2 /\ part = Whole(content[1])
             /\ Size(text[content[1]].paragraph) <= ChunkOverlap
    <3>1. Len(more) >= 2 /\ more[1] = content[1] /\ 1 \in 1 .. Len(content)
      BY <1>2, <1>6, <2>3
    <3>2. text'[content[1]] = text[content[1]]
      BY <1>1, <1>2, <3>1
    <3> QED BY <2>3, <3>1, <3>2
  <2> QED BY <1>3, <2>2, <2>3 DEF AreBehind
<1>8. Total(LengthsOf(text, Wholes(content))) <= 4 * tokens + 3 * Len(content)
  BY <1>3 DEF AreCounted
<1> QED BY <1>2, <1>3, <1>4, <1>5, <1>7, <1>8 DEF CanTake, more, n

\* The paragraph that is carried over, or none.
LEMMA CarriedTakes ==
  ASSUME ChunksInv, NEW p \in Paragraphs, Chunker!Following(p), Size(p) <= ChunkSize,
         content # <<>>
  PROVE  CanTake(text', p, Chunker!Carried, Chunker!CarriedTokens,
                 allChunks \o Chunker!Flush(content))
<1> DEFINE n == Len(text')
           m == Len(text)
           list == allChunks \o Chunker!Flush(content)
<1>1. /\ n = m + 1 /\ n \in Nat /\ m \in Nat /\ text \in Texts
      /\ DOMAIN text = 1 .. m /\ m \in DOMAIN text
      /\ \A i \in DOMAIN text : text'[i] = text[i]
      /\ text[m].section = section /\ Size(text[m].paragraph) <= ChunkSize
  BY FollowingFacts, ContentFacts
<1>2. Listed(text, list) /\ PartsIn(list) = Told /\ EndsWith(text, list)
  BY Flushed
<1>3. Size(p) \in Nat
  BY SizeNat
<1> HIDE DEF n, list
<1>4. CASE Chunker!Carried = <<>> /\ Chunker!CarriedTokens = 0
  <2>1. Append(<<>>, n) = <<n>> /\ Len(<<n>>) = 1
    OBVIOUS
  <2>2. AreBehind(text', <<n>>, list)
    <3> SUFFICES ASSUME NEW k \in DOMAIN list, NEW part \in ToSet(list[k].parts)
                 PROVE  part[1] <= n - 1
      BY <2>1 DEF AreBehind, n
    <3>1. part[1] \in 1 .. n - 1
      BY <1>2, BeforeIt DEF n
    <3> QED BY <1>1, <3>1
  <2>3. IsTail(text, section, <<>>)
    BY <1>1, <1>2, NothingBuilt
  <2>4. {Whole(i) : i \in ToSet(<<>>)} = {}
    BY DEF ToSet
  <2>5. Total(LengthsOf(text, Wholes(<<>>))) <= 4 * 0 + 3 * Len(<<>>)
    <3>1. AreCounted(text, <<>>, 0)
      BY <1>1, <1>2, NothingBuilt
    <3> QED BY <3>1 DEF AreCounted
  <2>6. 0 + Size(p) <= ChunkSize + ChunkOverlap
    BY <1>3, SizesAreSizes
  <2>7. PartsIn(list) \union {Whole(i) : i \in ToSet(<<>>)} = Told
    BY <1>2, <2>4
  <2>8. CanTake(text', p, <<>>, 0, list)
    BY <1>2, <2>1, <2>2, <2>3, <2>5, <2>6, <2>7 DEF CanTake, n
  <2> QED BY <1>4, <2>8 DEF list
<1>5. CASE /\ Chunker!Carried = <<m>> /\ Size(text[m].paragraph) <= ChunkOverlap
           /\ Chunker!CarriedTokens = Size(text[m].paragraph)
  <2> DEFINE q == text[m].paragraph
             one == <<m>>
             more == Append(one, n)
  <2>1. q \in Paragraphs
    BY <1>1, TextPlace
  <2>2. Size(q) \in Nat /\ Joined(q.sentences, 1) \in Nat
        /\ Joined(q.sentences, 1) <= 4 * Size(q) + 3
    BY <2>1, SizeNat
  <2>3. one \in Seq(Nat) /\ Len(one) = 1 /\ one[1] = m /\ ToSet(one) = {m}
    BY <1>1 DEF ToSet
  <2>4. Len(more) = 2 /\ more[1] = m
    BY <1>1
  <2> HIDE DEF q, one, more, m
  <2>5. AreBehind(text', more, list)
    <3> SUFFICES ASSUME NEW k \in DOMAIN list, NEW part \in ToSet(list[k].parts)
                 PROVE  \/ part[1] <= n - 2
                        \/ /\ k = Len(list) /\ part = Last(list[k].parts)
                           /\ part = Whole(m)
                           /\ Size(text'[m].paragraph) <= ChunkOverlap
      BY <2>4 DEF AreBehind, n
    <3>1. CASE part[1] < m
      <4>1. part[1] \in 1 .. n - 1
        BY <1>2, BeforeIt DEF n
      <4> QED BY <1>1, <3>1, <4>1
    <3>2. CASE k = Len(list) /\ part = Last(list[k].parts) /\ part = Whole(m)
      BY <1>1, <1>5, <3>2
    <3> QED BY <1>2, <3>1, <3>2 DEF EndsWith, m
  <2>6. IsTail(text, section, one)
    <3>1. 1 <= Len(text) /\ m = Len(text) - 1 + 1
      BY <1>1 DEF m
    <3>2. \A k \in 1 .. Len(one) : k = 1
      BY <2>3
    <3> QED BY <1>1, <2>3, <3>1, <3>2 DEF IsTail
  <2>7. PartsIn(list) \union {Whole(i) : i \in ToSet(one)} = Told
    <3>1. Whole(m) \in Told
      <4>1. m \in ToSet(content)
        <5>1. Last(content) = m /\ Len(content) \in DOMAIN content
          BY ContentFacts DEF m
        <5> QED BY <5>1 DEF ToSet, Last
      <4> QED BY <4>1 DEF Told
    <3> QED BY <1>2, <2>3, <3>1
  <2>8. Total(LengthsOf(text, Wholes(one))) <= 4 * Size(q) + 3 * Len(one)
    <3>1. /\ LengthsOf(text, Wholes(one)) \in Seq(Nat)
          /\ Len(LengthsOf(text, Wholes(one))) = 1
          /\ LengthsOf(text, Wholes(one))[1] = Joined(q.sentences, 1)
      <4>1. \A k \in 1 .. Len(one) : one[k] \in DOMAIN text
        BY <1>1, <2>3
      <4> QED BY <1>1, <2>3, <4>1, WholeLengths DEF q
    <3>2. Total(LengthsOf(text, Wholes(one))) = Joined(q.sentences, 1)
      BY <3>1, TotalOne
    <3> QED BY <2>2, <2>3, <3>2
  <2>9. Size(q) + Size(p) <= ChunkSize + ChunkOverlap
    BY <1>3, <1>5, <2>2, SizesAreSizes DEF q
  <2>10. CanTake(text', p, one, Size(q), list)
    BY <1>2, <2>2, <2>5, <2>6, <2>7, <2>8, <2>9 DEF CanTake, more, n
  <2> QED BY <1>5, <2>10 DEF one, q, list
<1> QED BY <1>4, <1>5, CarriedIs DEF m

\* A paragraph is added to the ones that are being built, which are none, or those
\* so far, or the one that is carried over.
LEMMA ReadParagraphKeeps ==
  ASSUME ChunksInv, NEW p \in Paragraphs, Chunker!ReadParagraph(p)
  PROVE  ChunksInv'
<1> DEFINE n == Len(text')
           m == Len(text)
           flushes == tokens + Size(p) > ChunkSize /\ content # <<>>
           before == IF flushes THEN Chunker!Carried ELSE content
           count == IF flushes THEN Chunker!CarriedTokens ELSE tokens
           list == IF flushes THEN allChunks \o Chunker!Flush(content) ELSE allChunks
<1>1. /\ Chunker!Following(p) /\ Size(p) <= ChunkSize
      /\ content' = Append(before, n) /\ tokens' = count + Size(p)
      /\ allChunks' = list
  BY SameJoined DEF Chunker!ReadParagraph
<1>2. /\ text' \in Texts /\ n = m + 1 /\ m \in Nat /\ n \in Nat
      /\ DOMAIN text' = DOMAIN text \union {n} /\ n \notin DOMAIN text
      /\ DOMAIN text = 1 .. m
      /\ \A i \in DOMAIN text : text'[i] = text[i]
      /\ text'[n].section = section /\ text'[n].paragraph = p
      /\ section' = section /\ section \in Nat /\ ended' \in BOOLEAN
  <2> HIDE DEF list, before, count, flushes
  <2> QED BY <1>1, FollowingFacts
<1>3. Size(p) \in Nat /\ Size(p) >= 1 /\ Joined(p.sentences, 1) \in Nat
      /\ Joined(p.sentences, 1) <= 4 * Size(p) + 3
  BY SizeNat
<1> HIDE DEF n, m
<1>4. /\ Listed(text, list)
      /\ PartsIn(list) \union {Whole(i) : i \in ToSet(before)} = Told
      /\ IsTail(text, section, before)
      /\ AreBehind(text', Append(before, n), list)
      /\ count \in Nat /\ count + Size(p) <= ChunkSize + ChunkOverlap
      /\ Total(LengthsOf(text, Wholes(before))) <= 4 * count + 3 * Len(before)
  <2>1. CASE flushes
    <3>1. CanTake(text', p, Chunker!Carried, Chunker!CarriedTokens,
                  allChunks \o Chunker!Flush(content))
      BY <1>1, <2>1, CarriedTakes
    <3> QED BY <2>1, <3>1 DEF CanTake, n
  <2>2. CASE ~flushes
    <3>1. CanTake(text', p, content, tokens, allChunks)
      <4>1. content = <<>> \/ tokens + Size(p) <= ChunkSize
        <5>1. tokens \in Nat
          BY ContentFacts
        <5> QED BY <1>3, <2>2, <5>1, SizesAreSizes
      <4> QED BY <1>1, <4>1, ContentTakes
    <3> QED BY <2>2, <3>1 DEF CanTake, n
  <2> QED BY <2>1, <2>2
<1> HIDE DEF before, count, list
<1>5. /\ before \in Seq(Nat) /\ Len(before) \in Nat /\ Len(before) <= m
      /\ \A k \in 1 .. Len(before) :
            /\ before[k] = m - Len(before) + k /\ before[k] \in DOMAIN text
            /\ text[before[k]].section = section
            /\ Size(text[before[k]].paragraph) <= ChunkSize
  BY <1>2, <1>4 DEF IsTail, m
<1>6. /\ content' \in Seq(Nat) /\ Len(content') = Len(before) + 1
      /\ content'[Len(before) + 1] = n
      /\ \A k \in 1 .. Len(before) : content'[k] = before[k]
      /\ ToSet(content') = ToSet(before) \union {n}
  <2>1. /\ content' \in Seq(Nat) /\ Len(content') = Len(before) + 1
        /\ content'[Len(before) + 1] = n
        /\ \A k \in 1 .. Len(before) : content'[k] = before[k]
        /\ DOMAIN content' = 1 .. Len(before) + 1 /\ DOMAIN before = 1 .. Len(before)
    BY <1>1, <1>2, <1>5
  <2>2. \A y : y \in ToSet(content') <=> \E k \in 1 .. Len(before) + 1 : y = content'[k]
    BY <2>1 DEF ToSet
  <2>3. \A y : y \in ToSet(before) <=> \E k \in 1 .. Len(before) : y = before[k]
    BY <2>1 DEF ToSet
  <2>4. ASSUME NEW y \in ToSet(content') PROVE y \in ToSet(before) \union {n}
    <3>1. PICK k \in 1 .. Len(before) + 1 : y = content'[k]
      BY <2>2, <2>4
    <3>2. k = Len(before) + 1 \/ k \in 1 .. Len(before)
      BY <1>5
    <3> QED BY <2>1, <2>3, <3>1, <3>2
  <2>5. ASSUME NEW y \in ToSet(before) PROVE y \in ToSet(content')
    <3>1. PICK k \in 1 .. Len(before) : y = before[k]
      BY <2>3, <2>5
    <3>2. k \in 1 .. Len(before) + 1 /\ y = content'[k]
      BY <1>5, <2>1, <3>1
    <3> QED BY <2>2, <3>2
  <2>6. n \in ToSet(content')
    <3>1. Len(before) + 1 \in 1 .. Len(before) + 1
      BY <1>5
    <3> QED BY <2>1, <2>2, <3>1
  <2> QED BY <2>1, <2>4, <2>5, <2>6
<1>7. IsTail(text', section', content')
  <2> SUFFICES ASSUME NEW k \in 1 .. Len(before) + 1
               PROVE  /\ content'[k] = n - (Len(before) + 1) + k
                      /\ text'[content'[k]].section = section
                      /\ Size(text'[content'[k]].paragraph) <= ChunkSize
    BY <1>2, <1>5, <1>6 DEF IsTail, n
  <2>1. CASE k \in 1 .. Len(before)
    <3>1. m - Len(before) + k = n - (Len(before) + 1) + k
      BY <1>2, <1>5
    <3> QED BY <1>2, <1>5, <1>6, <2>1, <3>1, SMTT(40)
  <2>2. CASE k = Len(before) + 1
    <3>1. n - (Len(before) + 1) + k = n
      BY <1>2, <1>5, <2>2
    <3> QED BY <1>1, <1>2, <1>6, <2>2, <3>1
  <2> QED BY <1>5, <2>1, <2>2
<1>8. AreCounted(text', content', tokens')
  <2>1. \A k \in 1 .. Len(before) : before[k] \in DOMAIN text'
    BY <1>2, <1>5
  <2>2. Total(LengthsOf(text', Wholes(Append(before, n))))
          = Total(LengthsOf(text', Wholes(before))) + Joined(text'[n].paragraph.sentences, 1)
    BY <1>2, <1>5, <2>1, WholeAppend
  <2>3. LengthsOf(text', Wholes(before)) = LengthsOf(text, Wholes(before))
    <3>1. text \in Texts
      BY ContentFacts
    <3> QED BY <1>2, <1>5, <3>1, WholeLonger
  <2>4. Total(LengthsOf(text, Wholes(before))) \in Nat
    <3>1. LengthsOf(text', Wholes(before)) \in Seq(Nat)
      BY <1>2, <1>5, <2>1, WholeLengths
    <3> QED BY <2>3, <3>1, TotalNat
  <2>5. Total(LengthsOf(text', Wholes(content'))) <= 4 * tokens' + 3 * Len(content')
    <3>1. Total(LengthsOf(text, Wholes(before))) + Joined(p.sentences, 1)
            <= 4 * (count + Size(p)) + 3 * (Len(before) + 1)
      BY <1>3, <1>4, <1>5, <2>4, SumBound
    <3> QED BY <1>1, <1>2, <1>6, <2>2, <2>3, <3>1
  <2>6. tokens' # 0
    BY <1>1, <1>3, <1>4
  <2>7. content' # <<>>
    <3>1. Len(content') # 0
      BY <1>5, <1>6
    <3> QED BY <3>1
  <2> QED BY <1>1, <1>4, <2>5, <2>6, <2>7 DEF AreCounted
<1>9. Listed(text', allChunks')
  BY <1>1, <1>4, BeforeIt
<1>10. IsTold(text', Told')
  <2>1. IsTold(text, Told) /\ text \in Texts
    BY Types DEF ChunksInv
  <2>2. Told' = Told \union {Whole(n)}
    <3>1. {Whole(i) : i \in ToSet(content')} = {Whole(i) : i \in ToSet(before)} \union {Whole(n)}
      BY <1>6
    <3> QED BY <1>1, <1>4, <3>1 DEF Told
  <2> QED BY <1>2, <2>1, <2>2, OneMoreTold
<1>11. AreBehind(text', content', allChunks')
  BY <1>1, <1>4
<1> QED BY <1>1, <1>2, <1>3, <1>4, <1>7, <1>8, <1>9, <1>10, <1>11, InvNext, SMTT(40)

\* No paragraph has been read.
LEMMA InitInv ==
  ASSUME Chunker!Init
  PROVE  ChunksInv
<1>1. /\ text = <<>> /\ section = 1 /\ content = <<>> /\ tokens = 0
      /\ allChunks = <<>> /\ ended = FALSE
  BY DEF Chunker!Init
<1>2. text \in Texts /\ DOMAIN text = {}
  BY <1>1 DEF Texts
<1>3. Listed(text, allChunks)
  <2>1. allChunks \in Seq(Chunk) /\ DOMAIN allChunks = {}
    BY <1>1
  <2> QED BY <2>1 DEF Listed, Tiling
<1>4. /\ IsTail(text, section, content) /\ AreBehind(text, content, allChunks)
      /\ AreCounted(text, content, tokens)
  BY <1>1, <1>2, <1>3, NothingBuilt
<1>5. Told = {}
  <2>1. PartsIn(allChunks) = {}
    BY <1>1 DEF PartsIn
  <2>2. {Whole(i) : i \in ToSet(content)} = {}
    BY <1>1 DEF ToSet
  <2> QED BY <2>1, <2>2 DEF Told
<1>6. IsTold(text, Told)
  BY <1>2, <1>5 DEF IsTold
<1>7. Chunker!TypeOK
  <2>1. content \in Seq(Nat) /\ allChunks \in Seq(Chunk)
    BY <1>1
  <2> QED BY <1>1, <1>2, <2>1, Types
<1> QED BY <1>3, <1>4, <1>6, <1>7 DEF ChunksInv

\* Nothing of the invariant is about what EndText changes.
LEMMA SameKeeps ==
  ASSUME ChunksInv, text' = text, section' = section, content' = content, tokens' = tokens,
         allChunks' = allChunks, ended' \in BOOLEAN
  PROVE  ChunksInv'
<1>1. /\ text \in Texts /\ section \in Nat /\ content \in Seq(Nat) /\ tokens \in Nat
      /\ allChunks \in Seq(Chunk)
  BY ContentFacts
<1>2. Told' = Told
  BY DEF Told, PartsIn
<1>3. /\ IsTail(text', section', content') /\ AreBehind(text', content', allChunks')
      /\ AreCounted(text', content', tokens') /\ Listed(text', allChunks')
      /\ IsTold(text', Told')
  BY <1>2 DEF ChunksInv
<1> QED BY <1>1, <1>3, InvNext

\* Every step keeps the invariant.
LEMMA NextKeeps ==
  ASSUME ChunksInv, [Chunker!Next]_(Chunker!vars)
  PROVE  ChunksInv'
<1>1. CASE \E p \in Paragraphs :
             Chunker!ReadBlock(p) \/ Chunker!ReadParagraph(p) \/ Chunker!ReadLong(p)
  BY <1>1, ReadBlockKeeps, ReadParagraphKeeps, ReadLongKeeps
<1>2. CASE Chunker!EndSection
  BY <1>2, EndSectionKeeps
<1>3. CASE Chunker!EndText
  BY <1>3, SameKeeps DEF Chunker!EndText
<1>4. CASE UNCHANGED Chunker!vars
  <2>1. ended \in BOOLEAN
    BY ContentFacts
  <2> QED BY <1>4, <2>1, SameKeeps DEF Chunker!vars
<1> QED BY <1>1, <1>2, <1>3, <1>4 DEF Chunker!Next

\* The chunks so far tell what was read so far, and what is being built are the last
\* paragraphs of it.
THEOREM ChunksInvariance == Chunker!Spec => []ChunksInv
<1>1. Chunker!Init => ChunksInv
  BY InitInv
<1>2. ChunksInv /\ [Chunker!Next]_(Chunker!vars) => ChunksInv'
  BY NextKeeps
<1> QED BY <1>1, <1>2, PTL DEF Chunker!Spec

\* The chunks of a text tell all of it, once and in order but for what the overlap
\* allows, and each under the heading it stands under.
THEOREM AnyTextIsTiled == Chunker!Spec => []ChunksTileText
<1>1. ChunksInv => ChunksTileText
  BY InvPromises
<1> QED BY <1>1, ChunksInvariance, PTL

\* A chunk that is larger than size and overlap allow is a block, or has a sentence
\* that does not fit with the one before it.
THEOREM LargeChunksAreExceptions == Chunker!Spec => []LargeChunksAreWhole
<1>1. ChunksInv => LargeChunksAreWhole
  BY InvPromises
<1> QED BY <1>1, ChunksInvariance, PTL
=============================================================================
