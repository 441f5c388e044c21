--------------------------- MODULE DocumentIndex ---------------------------
(***************************************************************************)
(* Indexing one document: its row, its chunk rows, its Qdrant points, the  *)
(* Redis lock, the Celery messages that name it, the      *)
(* worker deliveries that index it and the requests that upload, reindex,  *)
(* recheck and delete it.                                                  *)
(*                                                                         *)
(* Documents share no rows, keys or points, so one document is modelled.   *)
(* The rows one chunking writes get new ids and are told apart as a batch. *)
(* The progress key is left out: its TTL may pass at any time, so it never  *)
(* keeps a reindex request away for certain.                               *)
(***************************************************************************)
EXTENDS Naturals

CONSTANTS Worker,       \* Celery worker processes
          Request,      \* API requests that enqueue: the upload, reindexes
          Task,         \* Celery task ids, reused when nothing names them
          Batch,        \* identities of the rows one chunking writes; a bound on
                        \* how many the row, Qdrant and deliveries hold at a time
          NoTask,       \* the lock key does not exist
          NoBatch,      \* no chunk rows
          MaxRetries,   \* DOC_INDEX_MAX_RETRIES
          Requesters,   \* who may reindex: {TRUE} the uploader, FALSE an editor
          MaxDeletes,   \* bound: delete requests
          MaxFaults     \* bound: lapses and faults together

ASSUME IndexAssumption ==
    /\ NoTask \notin Task
    /\ NoBatch \notin Batch
    /\ Requesters \subseteq BOOLEAN
    /\ {MaxRetries, MaxDeletes, MaxFaults} \subseteq Nat

VARIABLES
    status,     \* the documents row; "deleted" when it is gone
    reported,   \* the document has rows in document_quality_reports
    chunks,     \* the batch of its documents_chunks rows
    points,     \* the batches with points in Qdrant
    lock,       \* lock:doc_index:<id>
    queue,      \* the ready Celery messages
    request,    \* what each enqueueing request is doing
    del,        \* the delete request in progress, with the chunk rows it locked
    deletes,
    \* one delivery per busy worker
    pc, msg, lockLost,
    batch,      \* the chunk rows it read to embed
    stale,      \* the points it listed as stale
    lapses,     \* failed calls to Redis about a held lock
    faults      \* lost processes and lost status writes

document == <<status, reported, chunks, points>>
api == <<request, del, deletes>>
delivery == <<pc, msg, lockLost, batch, stale>>
vars == <<document, lock, queue, api, delivery, lapses, faults>>
-----------------------------------------------------------------------------
DocumentStatus == {"uploaded", "indexing", "indexed", "failed", "deleted"}

\* byUploader: the enqueueing user is the document's user_id.
Message == [task: Task, attempt: 0..MaxRetries, byUploader: BOOLEAN]

\* Where a delivery stands in run_document_index, once it has marked the row ...
Indexing == {"parsing", "chunked", "embedding", "encoded", "upserted", "listed",
             "recording", "embedded"}

\* ... or only holds the lock ...
Holding == Indexing \cup {"locked", "saved", "broken", "missing"}

\* ... and, outside it, in index_document_task.
Phase == Holding \cup {"idle", "busy", "failing", "retrying", "notFound"}

NoMessage == [task |-> NoTask, attempt |-> 0, byUploader |-> TRUE]
NoRequest == [phase |-> "idle", changes |-> FALSE, byUploader |-> TRUE]
RequestState == [phase: {"idle", "checked", "committed"}, changes: BOOLEAN, byUploader: BOOLEAN]
NoDelete == [phase |-> "idle", rows |-> NoBatch]
DeleteState == [phase: {"idle", "begun", "purged"}, rows: Batch \cup {NoBatch}]

\* A delivery at work has its message, its next attempt, its chunk rows.
DeliveryOK ==
    /\ pc \in [Worker -> Phase]
    /\ msg \in [Worker -> Message \cup {NoMessage}]
    /\ lockLost \in [Worker -> BOOLEAN]
    /\ batch \in [Worker -> Batch \cup {NoBatch}]
    /\ stale \in [Worker -> SUBSET Batch]
    /\ \A w \in Worker : /\ pc[w] # "idle" => msg[w] \in Message
                         /\ pc[w] = "retrying" => msg[w].attempt < MaxRetries
                         /\ pc[w] = "encoded" => batch[w] \in Batch

TypeOK ==
    /\ status \in DocumentStatus
    /\ reported \in BOOLEAN
    /\ chunks \in Batch \cup {NoBatch}
    /\ points \subseteq Batch
    /\ lock \in Task \cup {NoTask}
    /\ queue \subseteq Message
    /\ request \in [Request -> RequestState]
    /\ del \in DeleteState
    /\ deletes \in 0..MaxDeletes
    /\ DeliveryOK
    /\ lapses \in Nat
    /\ faults \in Nat

\* The upload has saved the file and committed the row.
Init ==
    /\ status = "uploaded"
    /\ reported = FALSE
    /\ chunks = NoBatch
    /\ points = {}
    /\ lock = NoTask
    /\ queue = {}
    /\ \E r \in Request : request = [q \in Request |->
            IF q = r THEN [NoRequest EXCEPT !.phase = "committed"] ELSE NoRequest]
    /\ del = NoDelete
    /\ deletes = 0
    /\ pc = [w \in Worker |-> "idle"]
    /\ msg = [w \in Worker |-> NoMessage]
    /\ lockLost = [w \in Worker |-> FALSE]
    /\ batch = [w \in Worker |-> NoBatch]
    /\ stale = [w \in Worker |-> {}]
    /\ lapses = 0
    /\ faults = 0
-----------------------------------------------------------------------------
(* reindex_document, and the end of upload_document, which is the same from *)
(* its commit on.                                                           *)

CheckReindex(r) ==
    /\ request[r].phase = "idle"
    /\ status \notin {"indexing", "deleted"}
    /\ \E byUploader \in Requesters :
           request' = [request EXCEPT ![r] = [phase |-> "checked", changes |-> status # "uploaded",
                                              byUploader |-> byUploader]]
    /\ UNCHANGED <<document, lock, queue, del, deletes, delivery, lapses, faults>>

\* The ORM writes "uploaded" only if it differs from the status it had loaded.
CommitReindex(r) ==
    /\ request[r].phase = "checked"
    /\ IF status = "deleted"
       THEN request' = [request EXCEPT ![r] = NoRequest] /\ UNCHANGED status
       ELSE /\ request' = [request EXCEPT ![r] = [@ EXCEPT !.phase = "committed", !.changes = FALSE]]
            /\ status' = IF request[r].changes THEN "uploaded" ELSE status
    /\ UNCHANGED <<reported, chunks, points, lock, queue, del, deletes, delivery, lapses, faults>>

\* Task ids are uuids: a new one is named by no message, delivery or lock.
Fresh(t) == /\ lock # t
            /\ \A m \in queue : m.task # t
            /\ \A w \in Worker : msg[w].task # t

SendTask(r) ==
    /\ request[r].phase = "committed"
    /\ \E t \in Task : /\ Fresh(t)
                       /\ queue' = queue \cup {[task |-> t, attempt |-> 0,
                                                byUploader |-> request[r].byUploader]}
    /\ request' = [request EXCEPT ![r] = NoRequest]
    /\ UNCHANGED <<document, lock, del, deletes, delivery, lapses, faults>>

WriteStatus(new) == status' = IF status = "deleted" THEN status ELSE new

SendFails(r) ==
    /\ request[r].phase = "committed"
    /\ WriteStatus("failed")
    /\ request' = [request EXCEPT ![r] = NoRequest]
    /\ UNCHANGED <<reported, chunks, points, lock, queue, del, deletes, delivery, lapses, faults>>

\* The API process dies between the commit and the send.
RequestLost(r) ==
    /\ request[r].phase = "committed"
    /\ lapses + faults < MaxFaults
    /\ faults' = faults + 1
    /\ request' = [request EXCEPT ![r] = NoRequest]
    /\ UNCHANGED <<document, lock, queue, del, deletes, delivery, lapses>>
-----------------------------------------------------------------------------
(* delete_document and recheck_document_quality.                           *)

\* The chunk rows are deleted in a transaction that stays open.
BeginDelete ==
    /\ del.phase = "idle"
    /\ status # "deleted"
    /\ deletes < MaxDeletes
    /\ deletes' = deletes + 1
    /\ del' = [phase |-> "begun", rows |-> chunks]
    /\ UNCHANGED <<document, lock, queue, request, delivery, lapses, faults>>

DeleteVectors ==
    /\ del.phase = "begun"
    /\ points' = {}
    /\ del' = [del EXCEPT !.phase = "purged"]
    /\ UNCHANGED <<status, reported, chunks, lock, queue, request, deletes, delivery, lapses, faults>>

\* Mutation: the quality reports are deleted with the document.
CommitDeleteWithReports ==
    /\ del.phase = "purged"
    /\ del' = NoDelete
    /\ IF chunks = del.rows
       THEN status' = "deleted" /\ chunks' = NoBatch /\ reported' = FALSE
       ELSE UNCHANGED <<status, chunks, reported>>
    /\ UNCHANGED <<points, lock, queue, request, deletes, delivery, lapses, faults>>

\* A foreign key of a quality report, or of chunk rows written since, refuses
\* the commit; the rollback brings the chunk rows back, the points it does not.
CommitDelete ==
    /\ del.phase = "purged"
    /\ del' = NoDelete
    /\ IF ~reported /\ chunks = del.rows
       THEN status' = "deleted" /\ chunks' = NoBatch
       ELSE UNCHANGED <<status, chunks>>
    /\ UNCHANGED <<reported, points, lock, queue, request, deletes, delivery, lapses, faults>>

\* Qdrant refuses, or the API process dies: the transaction is rolled back.
DeleteFails ==
    /\ del.phase # "idle"
    /\ del' = NoDelete
    /\ UNCHANGED <<document, lock, queue, request, deletes, delivery, lapses, faults>>

RecheckQuality ==
    /\ status # "deleted"
    /\ reported' = TRUE
    /\ UNCHANGED <<status, chunks, points, lock, queue, api, delivery, lapses, faults>>
-----------------------------------------------------------------------------
(* A delivery starts: acquire_doc_index_lock.                              *)

Take(w, m, next) ==
    /\ pc[w] = "idle"
    /\ m \in queue
    /\ queue' = queue \ {m}
    /\ msg' = [msg EXCEPT ![w] = m]
    /\ pc' = [pc EXCEPT ![w] = next]
    /\ UNCHANGED <<document, api, lockLost, batch, stale, lapses, faults>>

\* Mutation: SET without NX.
AcquireHeld(w, m) == Take(w, m, "locked") /\ lock' = m.task

Acquire(w, m) == lock = NoTask /\ Take(w, m, "locked") /\ lock' = m.task

\* A lock under the message's own task id is busy too.
LockBusy(w, m) == lock # NoTask /\ Take(w, m, "busy") /\ UNCHANGED lock

RedisUnavailable(w, m) == Take(w, m, "failing") /\ UNCHANGED lock
-----------------------------------------------------------------------------
(* run_document_index, holding the lock.                                   *)

Goto(w, next) == pc' = [pc EXCEPT ![w] = next]
Elsewhere == <<queue, api, msg, lockLost, lapses, faults>>

MarkIndexing(w) ==
    /\ pc[w] = "locked"
    /\ IF status # "deleted" /\ msg[w].byUploader
       THEN status' = "indexing" /\ Goto(w, "parsing")
       ELSE UNCHANGED status /\ Goto(w, "missing")
    /\ UNCHANGED <<reported, chunks, points, lock, batch, stale, Elsewhere>>

\* Rows the open delete transaction has locked.
RowsLocked == del.phase # "idle" /\ del.rows # NoBatch

\* New ids: a batch that no row, point or delivery has.
NewBatch(b) == /\ b # chunks
               /\ b \notin points
               /\ \A v \in Worker : b # batch[v] /\ b \notin stale[v]

\* chunk_document_async: the old rows go and the new ones come in one commit.
WriteChunks(w) ==
    /\ pc[w] = "parsing"
    /\ status # "deleted"
    /\ ~RowsLocked
    /\ \E b \in Batch : NewBatch(b) /\ chunks' = b
    /\ Goto(w, "chunked")
    /\ UNCHANGED <<status, reported, points, lock, batch, stale, Elsewhere>>

SaveReport(w) ==
    /\ pc[w] = "chunked"
    /\ ~lockLost[w]
    /\ status # "deleted"
    /\ reported' = TRUE
    /\ Goto(w, "embedding")
    /\ UNCHANGED <<status, chunks, points, lock, batch, stale, Elsewhere>>

\* generate_for_chunks: without chunk rows there is nothing to embed.
ReadChunks(w) ==
    /\ pc[w] = "embedding"
    /\ batch' = [batch EXCEPT ![w] = chunks]
    /\ Goto(w, IF chunks = NoBatch THEN "embedded" ELSE "encoded")
    /\ UNCHANGED <<document, lock, stale, Elsewhere>>

UpsertPoints(w) ==
    /\ pc[w] = "encoded"
    /\ points' = points \cup {batch[w]}
    /\ Goto(w, "upserted")
    /\ UNCHANGED <<status, reported, chunks, lock, batch, stale, Elsewhere>>

\* Some of the 128-point requests went through.
UpsertFails(w) ==
    /\ pc[w] = "encoded"
    /\ points' = points \cup {batch[w]}
    /\ Goto(w, "broken")
    /\ UNCHANGED <<status, reported, chunks, lock, batch, stale, Elsewhere>>

\* Mutation: the points of earlier chunk rows are kept.
ListNothing(w) ==
    /\ pc[w] = "upserted"
    /\ stale' = [stale EXCEPT ![w] = {}]
    /\ Goto(w, "listed")
    /\ UNCHANGED <<document, lock, batch, Elsewhere>>

ListStale(w) ==
    /\ pc[w] = "upserted"
    /\ stale' = [stale EXCEPT ![w] = points \ {batch[w]}]
    /\ Goto(w, "listed")
    /\ UNCHANGED <<document, lock, batch, Elsewhere>>

DeleteStale(w) ==
    /\ pc[w] = "listed"
    /\ points' = points \ stale[w]
    /\ stale' = [stale EXCEPT ![w] = {}]
    /\ Goto(w, "recording")
    /\ UNCHANGED <<status, reported, chunks, lock, batch, Elsewhere>>

\* chunk_embeddings rows refer to the chunk rows that were read.
RecordEmbeddings(w) ==
    /\ pc[w] = "recording"
    /\ chunks = batch[w]
    /\ ~RowsLocked
    /\ batch' = [batch EXCEPT ![w] = NoBatch]
    /\ Goto(w, "embedded")
    /\ UNCHANGED <<document, lock, stale, Elsewhere>>

SaveIndexed(w) ==
    /\ pc[w] = "embedded"
    /\ ~lockLost[w]
    /\ status # "deleted"
    /\ status' = "indexed"
    /\ Goto(w, "saved")
    /\ UNCHANGED <<reported, chunks, points, lock, batch, stale, Elsewhere>>

\* Any exception of the try block: a missing file, a parser, a timeout, the
\* database, Qdrant, a foreign key, ensure_lock.
RunFails(w) ==
    /\ pc[w] \in Holding \ {"saved", "broken", "missing"}
    /\ Goto(w, "broken")
    /\ UNCHANGED <<document, lock, batch, stale, Elsewhere>>
-----------------------------------------------------------------------------
(* The finally clause, and what index_document_task makes of the outcome.  *)

\* The locals of run_document_index end with the attempt ...
EndAttempt(w) ==
    /\ lockLost' = [lockLost EXCEPT ![w] = FALSE]
    /\ batch' = [batch EXCEPT ![w] = NoBatch]
    /\ stale' = [stale EXCEPT ![w] = {}]

\* ... and those of the task with its message.
Forget(w) ==
    /\ pc' = [pc EXCEPT ![w] = "idle"]
    /\ msg' = [msg EXCEPT ![w] = NoMessage]
    /\ EndAttempt(w)

\* The attempt returns, or its exception reaches the task's except clauses.
Leave(w) ==
    \/ pc[w] = "saved" /\ Forget(w)
    \/ /\ pc[w] \in {"broken", "missing"}
       /\ Goto(w, IF pc[w] = "broken" THEN "failing" ELSE "notFound")
       /\ EndAttempt(w)
       /\ UNCHANGED msg

\* Mutation: the lock is released on success only.
ReleaseSaved(w) ==
    /\ Leave(w)
    /\ lock' = IF lock = msg[w].task /\ pc[w] = "saved" THEN NoTask ELSE lock
    /\ UNCHANGED <<document, queue, api, lapses, faults>>

Release(w) ==
    /\ Leave(w)
    /\ lock' = IF lock = msg[w].task THEN NoTask ELSE lock
    /\ UNCHANGED <<document, queue, api, lapses, faults>>

\* The call to Redis fails and is ignored: the lock stays until its TTL.
ReleaseFails(w) ==
    /\ Leave(w)
    /\ lapses + faults < MaxFaults
    /\ lapses' = lapses + 1
    /\ UNCHANGED <<document, lock, queue, api, faults>>

NextAttempt(m) == [m EXCEPT !.attempt = @ + 1]

\* Mutation: a busy lock ends the task.
GiveUpBusy(w) ==
    /\ pc[w] = "busy"
    /\ Forget(w)
    /\ UNCHANGED <<document, lock, queue, api, lapses, faults>>

\* The document's status is left alone; the last attempt raises out of the
\* handler and its message is acknowledged.
RetryBusy(w) ==
    /\ pc[w] = "busy"
    /\ queue' = IF msg[w].attempt < MaxRetries THEN queue \cup {NextAttempt(msg[w])} ELSE queue
    /\ Forget(w)
    /\ UNCHANGED <<document, lock, api, lapses, faults>>

FailNotFound(w) ==
    /\ pc[w] = "notFound"
    /\ WriteStatus("failed")
    /\ Forget(w)
    /\ UNCHANGED <<reported, chunks, points, lock, queue, api, lapses, faults>>

LastAttempt(w) == msg[w].attempt = MaxRetries

\* Mutation: the attempt is compared with one too many.
AlwaysRetry(w) == Goto(w, "retrying") /\ UNCHANGED <<msg, lockLost, batch, stale>>

RetryOrEnd(w) == IF LastAttempt(w)
                 THEN Forget(w)
                 ELSE Goto(w, "retrying") /\ UNCHANGED <<msg, lockLost, batch, stale>>

\* Mutation: the last attempt leaves the status alone.
FailSilently(w) ==
    /\ pc[w] = "failing"
    /\ RetryOrEnd(w)
    /\ IF LastAttempt(w) THEN UNCHANGED status ELSE WriteStatus("uploaded")
    /\ UNCHANGED <<reported, chunks, points, lock, queue, api, lapses, faults>>

\* The status is written without the lock.
UpdateFailedDocument(w) ==
    /\ pc[w] = "failing"
    /\ RetryOrEnd(w)
    /\ WriteStatus(IF LastAttempt(w) THEN "failed" ELSE "uploaded")
    /\ UNCHANGED <<reported, chunks, points, lock, queue, api, lapses, faults>>

\* The database refuses and the exception is dropped.
UpdateFails(w) ==
    /\ pc[w] = "failing"
    /\ lapses + faults < MaxFaults
    /\ faults' = faults + 1
    /\ RetryOrEnd(w)
    /\ UNCHANGED <<document, lock, queue, api, lapses>>

Retry(w) ==
    /\ pc[w] = "retrying"
    /\ queue' = queue \cup {NextAttempt(msg[w])}
    /\ Forget(w)
    /\ UNCHANGED <<document, lock, api, lapses, faults>>
-----------------------------------------------------------------------------
(* Faults and time.                                                        *)

\* acks_late with reject_on_worker_lost: the message is delivered again.
WorkerLost(w) ==
    /\ pc[w] # "idle"
    /\ lapses + faults < MaxFaults
    /\ faults' = faults + 1
    /\ queue' = queue \cup {msg[w]}
    /\ Forget(w)
    /\ UNCHANGED <<document, lock, api, lapses>>

\* The heartbeat's call fails, or finds another task's lock: it ends, and
\* ensure_lock will tell the run.
RefreshFails(w) ==
    /\ pc[w] \in Holding
    /\ ~lockLost[w]
    /\ lapses + faults < MaxFaults
    /\ lapses' = lapses + 1
    /\ lockLost' = [lockLost EXCEPT ![w] = TRUE]
    /\ UNCHANGED <<document, lock, queue, api, pc, msg, batch, stale, faults>>

\* A delivery whose heartbeat renews the lock.
Renewing(w) == pc[w] \in Holding /\ ~lockLost[w] /\ msg[w].task = lock

\* Mutation: the lock has no heartbeat.
LockExpiresAnyway ==
    /\ lock # NoTask
    /\ lock' = NoTask
    /\ UNCHANGED <<document, queue, api, delivery, lapses, faults>>

\* The TTL of the lock passes.
LockExpires ==
    /\ lock # NoTask
    /\ \A w \in Worker : ~Renewing(w)
    /\ lock' = NoTask
    /\ UNCHANGED <<document, queue, api, delivery, lapses, faults>>
-----------------------------------------------------------------------------
DeliveryStep(w) ==
    \/ \E m \in queue : Acquire(w, m) \/ LockBusy(w, m) \/ RedisUnavailable(w, m)
    \/ MarkIndexing(w) \/ WriteChunks(w) \/ SaveReport(w)
    \/ ReadChunks(w) \/ UpsertPoints(w) \/ UpsertFails(w) \/ ListStale(w) \/ DeleteStale(w)
    \/ RecordEmbeddings(w) \/ SaveIndexed(w) \/ RunFails(w)
    \/ Release(w) \/ ReleaseFails(w)
    \/ RetryBusy(w) \/ FailNotFound(w) \/ UpdateFailedDocument(w) \/ UpdateFails(w) \/ Retry(w)

Next ==
    \/ \E r \in Request : \/ CheckReindex(r) \/ CommitReindex(r) \/ SendTask(r)
                          \/ SendFails(r) \/ RequestLost(r)
    \/ BeginDelete \/ DeleteVectors \/ CommitDelete \/ DeleteFails \/ RecheckQuality
    \/ \E w \in Worker : DeliveryStep(w) \/ WorkerLost(w) \/ RefreshFails(w)
    \/ LockExpires

Spec == Init /\ [][Next]_vars
-----------------------------------------------------------------------------
\* The lock lets one delivery at a time write the document's chunk rows and
\* points, as long as no call to Redis about a held lock fails.
OneIndexer ==
    lapses = 0 => \A v, w \in Worker : pc[v] \in Holding /\ pc[w] \in Holding => v = w

\* The finally clause releases the lock on every path: a lock is held by a
\* delivery at work, or by one whose worker or release was lost.
LockIsHeld ==
    lapses = 0 /\ faults = 0 /\ lock # NoTask =>
        \E w \in Worker : pc[w] \in Holding /\ msg[w].task = lock

\* "indexed" means what search relies on: the points in Qdrant are those of the
\* present chunk rows, none missing and none left from an earlier chunking,
\* through retries, crashes, duplicate tasks and reindexing.
IndexedIsSearchable ==
    lapses = 0 /\ deletes = 0 /\ status = "indexed" => chunks # NoBatch /\ points = {chunks}

\* A deleted document leaves no chunk rows and no points behind, whatever
\* delivery was indexing it.
DeletedLeavesNothing == status = "deleted" => chunks = NoBatch /\ points = {}

\* A document shown as being indexed is: a delivery that marked it, or whose
\* status write is still to come, is at work, unless a worker or that write is
\* lost.
IndexingIsDriven ==
    faults = 0 /\ status = "indexing" =>
        \E w \in Worker : pc[w] \in Indexing \cup {"broken", "failing"}
-----------------------------------------------------------------------------
(* The inductive strengthenings that the proofs use.                       *)

\* A task id names one message at a time, in the queue or in one delivery.
OneCarrier ==
    /\ \A w \in Worker : pc[w] = "idle" => msg[w] = NoMessage
    /\ \A m, n \in queue : m.task = n.task => m = n
    /\ \A m \in queue, w \in Worker : m.task # msg[w].task
    /\ \A v, w \in Worker : v # w /\ pc[v] # "idle" => msg[v].task # msg[w].task

\* While no call to Redis fails, no heartbeat gives up and a delivery in the try
\* block owns the lock.
HolderOwnsLock ==
    lapses = 0 => \A w \in Worker : ~lockLost[w] /\ (pc[w] \in Holding => lock = msg[w].task)

\* Points are written only after the quality report, whose foreign key keeps
\* the document's row.
ReportBeforePoints ==
    /\ points # {} => reported
    /\ \A w \in Worker : pc[w] \in {"embedding", "encoded"} => reported
    /\ status = "deleted" => chunks = NoBatch /\ ~reported

\* What each step of an attempt may rely on, when no call to Redis has failed
\* and no deletion has begun.
AttemptProgress ==
    lapses = 0 /\ deletes = 0 =>
        /\ del.phase = "idle"
        /\ status = "indexed" =>
            chunks # NoBatch /\ points = {chunks} /\ \A w \in Worker : pc[w] \notin Indexing
        /\ \A w \in Worker :
            /\ pc[w] \in Indexing \ {"parsing"} => chunks # NoBatch
            /\ pc[w] \in {"encoded", "upserted", "listed"} => batch[w] = chunks
            /\ pc[w] \in {"upserted", "listed"} => chunks \in points
            /\ pc[w] = "listed" => stale[w] = points \ {chunks}
            /\ pc[w] \in {"recording", "embedded"} => points = {chunks}
-----------------------------------------------------------------------------
(* What the documentation says and the code does not keep.                 *)

\* delete_document "deletes the document and all its data" (document.py:325),
\* in a transaction it rolls back when the points cannot be deleted (359): a
\* document that survives its deletion is still searchable.
SurvivorIsSearchable ==
    lapses = 0 /\ del.phase = "idle" /\ status = "indexed" => points = {chunks}
=============================================================================
