------------------------ MODULE DocumentIndexProofs ------------------------
(***************************************************************************)
(* Proofs about DocumentIndex: type correctness, the exclusion its lock    *)
(* gives, and that a deleted document leaves nothing behind.               *)
(***************************************************************************)
EXTENDS DocumentIndex, TLAPS

\* An idle worker holds no message.
LEMMA NoMessageNew == NoMessage \notin Message
BY IndexAssumption DEF NoMessage, Message

\* A retried message is a message with the same task id.
LEMMA NextAttemptTypes ==
    ASSUME NEW m \in Message, m.attempt < MaxRetries
    PROVE  NextAttempt(m) \in Message /\ NextAttempt(m).task = m.task
BY IndexAssumption DEF NextAttempt, Message

\* The API's requests preserve the types.
LEMMA RequestTypes ==
    ASSUME TypeOK, NEW r \in Request,
           CheckReindex(r) \/ CommitReindex(r) \/ SendTask(r) \/ SendFails(r) \/ RequestLost(r)
    PROVE  TypeOK'
<1> USE IndexAssumption DEF TypeOK, DeliveryOK, DocumentStatus, RequestState, NoRequest, document, api, delivery
<1>1. CASE CheckReindex(r)  BY <1>1 DEF CheckReindex
<1>2. CASE CommitReindex(r)
  <2>1. request[r] \in RequestState  OBVIOUS
  <2>2. /\ NoRequest \in RequestState
        /\ [request[r] EXCEPT !.phase = "committed", !.changes = FALSE] \in RequestState
    BY <2>1
  <2>3. request' \in [Request -> RequestState]  BY <1>2, <2>2 DEF CommitReindex
  <2>4. QED  BY <1>2, <2>3 DEF CommitReindex
<1>3. CASE SendTask(r)
  <2>1. request[r].byUploader \in BOOLEAN  OBVIOUS
  <2>2. \A t \in Task : [task |-> t, attempt |-> 0, byUploader |-> request[r].byUploader] \in Message
    BY <2>1 DEF Message
  <2>3. queue' \subseteq Message  BY <1>3, <2>2 DEF SendTask
  <2>4. QED  BY <1>3, <2>3 DEF SendTask
<1>4. CASE SendFails(r)  BY <1>4 DEF SendFails, WriteStatus
<1>5. CASE RequestLost(r)  BY <1>5 DEF RequestLost
<1>6. QED  BY <1>1, <1>2, <1>3, <1>4, <1>5

\* Deleting and rechecking preserve the types.
LEMMA DeleteTypes ==
    ASSUME TypeOK,
           BeginDelete \/ DeleteVectors \/ CommitDelete \/ DeleteFails \/ RecheckQuality
    PROVE  TypeOK'
<1> USE IndexAssumption DEF TypeOK, DeliveryOK, DocumentStatus, DeleteState, NoDelete, document, api, delivery
<1>1. CASE BeginDelete  BY <1>1 DEF BeginDelete
<1>2. CASE DeleteVectors  BY <1>2 DEF DeleteVectors
<1>3. CASE CommitDelete  BY <1>3 DEF CommitDelete
<1>4. CASE DeleteFails  BY <1>4 DEF DeleteFails
<1>5. CASE RecheckQuality  BY <1>5 DEF RecheckQuality
<1>6. QED  BY <1>1, <1>2, <1>3, <1>4, <1>5

\* The steps of a delivery under the lock preserve the types.
LEMMA RunTypes ==
    ASSUME TypeOK, NEW w \in Worker,
           \/ MarkIndexing(w) \/ WriteChunks(w) \/ SaveReport(w) \/ ReadChunks(w)
           \/ UpsertPoints(w) \/ UpsertFails(w) \/ ListStale(w) \/ DeleteStale(w)
           \/ RecordEmbeddings(w) \/ SaveIndexed(w) \/ RunFails(w)
    PROVE  TypeOK'
<1> USE IndexAssumption
    DEF TypeOK, DeliveryOK, DocumentStatus, Holding, Indexing, Phase, Goto, Elsewhere, document, api, delivery
<1>1. CASE MarkIndexing(w)  BY <1>1 DEF MarkIndexing
<1>2. CASE WriteChunks(w)  BY <1>2 DEF WriteChunks
<1>3. CASE SaveReport(w)  BY <1>3 DEF SaveReport
<1>4. CASE ReadChunks(w)  BY <1>4 DEF ReadChunks
<1>5. CASE UpsertPoints(w)  BY <1>5 DEF UpsertPoints
<1>6. CASE UpsertFails(w)  BY <1>6 DEF UpsertFails
<1>7. CASE ListStale(w)  BY <1>7 DEF ListStale
<1>8. CASE DeleteStale(w)  BY <1>8 DEF DeleteStale
<1>9. CASE RecordEmbeddings(w)  BY <1>9 DEF RecordEmbeddings
<1>10. CASE SaveIndexed(w)  BY <1>10 DEF SaveIndexed
<1>11. CASE RunFails(w)  BY <1>11 DEF RunFails
<1>12. QED  BY <1>1, <1>2, <1>3, <1>4, <1>5, <1>6, <1>7, <1>8, <1>9, <1>10, <1>11

\* A delivery starts with a message of the queue.
LEMMA TakeTypes ==
    ASSUME TypeOK, NEW w \in Worker, NEW m \in queue,
           Acquire(w, m) \/ LockBusy(w, m) \/ RedisUnavailable(w, m)
    PROVE  TypeOK'
<1>1. PICK next \in {"locked", "busy", "failing"} : Take(w, m, next)
  BY DEF Acquire, LockBusy, RedisUnavailable
<1>2. m \in Message /\ m.task \in Task  BY DEF TypeOK, DeliveryOK, Message
<1>3. lock' \in Task \cup {NoTask}
  BY <1>2 DEF TypeOK, DeliveryOK, Acquire, LockBusy, RedisUnavailable
<1>4. QED
  BY <1>1, <1>2, <1>3 DEF TypeOK, DeliveryOK, Take, Phase, Holding, Indexing, document, api

\* What remains of an attempt that ends, and of a task that ends.
LEMMA ForgetTypes ==
    ASSUME TypeOK, NEW w \in Worker, Forget(w)
    PROVE  DeliveryOK'
BY DEF TypeOK, DeliveryOK, Forget, EndAttempt, Phase

\* Leaving the try block and its finally clause.
LEMMA LeaveTypes ==
    ASSUME TypeOK, NEW w \in Worker, Leave(w)
    PROVE  DeliveryOK'
<1>1. CASE pc[w] = "saved" /\ Forget(w)  BY <1>1, ForgetTypes
<1>2. CASE /\ pc[w] \in {"broken", "missing"}
           /\ Goto(w, IF pc[w] = "broken" THEN "failing" ELSE "notFound")
           /\ EndAttempt(w)
           /\ UNCHANGED msg
  BY <1>2 DEF TypeOK, DeliveryOK, Goto, EndAttempt, Phase
<1>3. QED  BY <1>1, <1>2 DEF Leave

\* A retry below the bound, or the end of the task.
LEMMA RetryOrEndTypes ==
    ASSUME TypeOK, NEW w \in Worker, pc[w] = "failing", RetryOrEnd(w)
    PROVE  DeliveryOK'
<1>1. CASE LastAttempt(w)  BY <1>1, ForgetTypes DEF RetryOrEnd
<1>2. CASE ~LastAttempt(w)
  <2>1. msg[w] \in Message  BY DEF TypeOK, DeliveryOK
  <2>2. msg[w].attempt < MaxRetries  BY <1>2, <2>1, IndexAssumption DEF LastAttempt, Message
  <2>3. QED  BY <1>2, <2>2 DEF RetryOrEnd, Goto, TypeOK, DeliveryOK, Phase
<1>3. QED  BY <1>1, <1>2

\* The finally clause and the task's handlers preserve the types.
LEMMA EndTypes ==
    ASSUME TypeOK, NEW w \in Worker,
           \/ Release(w) \/ ReleaseFails(w) \/ RetryBusy(w) \/ FailNotFound(w)
           \/ UpdateFailedDocument(w) \/ UpdateFails(w) \/ Retry(w) \/ WorkerLost(w)
    PROVE  TypeOK'
<1> USE DEF document, api
<1>1. CASE Release(w)  BY <1>1, LeaveTypes DEF Release, TypeOK, DeliveryOK
<1>2. CASE ReleaseFails(w)  BY <1>2, LeaveTypes DEF ReleaseFails, TypeOK, DeliveryOK
<1>3. CASE RetryBusy(w)
  <2>1. msg[w] \in Message  BY <1>3 DEF TypeOK, DeliveryOK, RetryBusy
  <2>2. queue' \subseteq Message  BY <1>3, <2>1, NextAttemptTypes DEF TypeOK, DeliveryOK, RetryBusy
  <2>3. QED  BY <1>3, <2>2, ForgetTypes DEF RetryBusy, TypeOK, DeliveryOK
<1>4. CASE FailNotFound(w)
  BY <1>4, ForgetTypes DEF FailNotFound, WriteStatus, DocumentStatus, TypeOK, DeliveryOK
<1>5. CASE UpdateFailedDocument(w)
  BY <1>5, RetryOrEndTypes DEF UpdateFailedDocument, WriteStatus, DocumentStatus, TypeOK, DeliveryOK
<1>6. CASE UpdateFails(w)  BY <1>6, RetryOrEndTypes DEF UpdateFails, TypeOK, DeliveryOK
<1>7. CASE Retry(w)
  <2>1. msg[w] \in Message /\ msg[w].attempt < MaxRetries  BY <1>7 DEF TypeOK, DeliveryOK, Retry
  <2>2. queue' \subseteq Message  BY <1>7, <2>1, NextAttemptTypes DEF TypeOK, DeliveryOK, Retry
  <2>3. QED  BY <1>7, <2>2, ForgetTypes DEF Retry, TypeOK, DeliveryOK
<1>8. CASE WorkerLost(w)
  <2>1. msg[w] \in Message  BY <1>8 DEF TypeOK, DeliveryOK, WorkerLost
  <2>2. queue' \subseteq Message  BY <1>8, <2>1 DEF TypeOK, DeliveryOK, WorkerLost
  <2>3. QED  BY <1>8, <2>2, ForgetTypes DEF WorkerLost, TypeOK, DeliveryOK
<1>9. QED  BY <1>1, <1>2, <1>3, <1>4, <1>5, <1>6, <1>7, <1>8

\* Every state of every document has its type: in particular a worker that is
\* at work holds a message, and one that retries is below the bound.
THEOREM TypeCorrect == Spec => []TypeOK
<1>1. Init => TypeOK
  <2> SUFFICES ASSUME Init PROVE TypeOK  OBVIOUS
  <2>1. request \in [Request -> RequestState]
    <3>1. NoRequest \in RequestState /\ [NoRequest EXCEPT !.phase = "committed"] \in RequestState
      BY DEF NoRequest, RequestState
    <3>2. PICK r \in Request : request = [q \in Request |->
                IF q = r THEN [NoRequest EXCEPT !.phase = "committed"] ELSE NoRequest]
      BY DEF Init
    <3>3. QED  BY <3>1, <3>2
  <2>2. 0 \in 0..MaxDeletes  BY IndexAssumption
  <2>3. QED
    BY <2>1, <2>2 DEF Init, TypeOK, DeliveryOK, DocumentStatus, DeleteState, NoDelete, Phase
<1>2. TypeOK /\ [Next]_vars => TypeOK'
  <2> SUFFICES ASSUME TypeOK, [Next]_vars PROVE TypeOK'  OBVIOUS
  <2>1. CASE UNCHANGED vars  BY <2>1 DEF vars, document, api, delivery, TypeOK, DeliveryOK
  <2>2. ASSUME NEW r \in Request,
               \/ CheckReindex(r) \/ CommitReindex(r) \/ SendTask(r)
               \/ SendFails(r) \/ RequestLost(r)
        PROVE  TypeOK'
    BY <2>2, RequestTypes
  <2>3. CASE BeginDelete \/ DeleteVectors \/ CommitDelete \/ DeleteFails \/ RecheckQuality
    BY <2>3, DeleteTypes
  <2>4. ASSUME NEW w \in Worker, DeliveryStep(w)  PROVE TypeOK'
    BY <2>4, TakeTypes, RunTypes, EndTypes DEF DeliveryStep
  <2>5. ASSUME NEW w \in Worker, WorkerLost(w)  PROVE TypeOK'
    BY <2>5, EndTypes
  <2>6. ASSUME NEW w \in Worker, RefreshFails(w)  PROVE TypeOK'
    BY <2>6 DEF RefreshFails, document, api, TypeOK, DeliveryOK
  <2>7. CASE LockExpires
    BY <2>7 DEF LockExpires, document, api, delivery, TypeOK, DeliveryOK
  <2>8. QED  BY <2>1, <2>2, <2>3, <2>4, <2>5, <2>6, <2>7 DEF Next
<1>3. QED  BY <1>1, <1>2, PTL DEF Spec

-----------------------------------------------------------------------------
\* The report comes before the points, and its foreign key keeps the row: no
\* step writes points, or chunk rows, for a document that is gone.
LEMMA ReportBeforePointsStep ==
    ASSUME TypeOK, ReportBeforePoints, [Next]_vars
    PROVE  ReportBeforePoints'
<1> USE DEF ReportBeforePoints, document, api, delivery
<1>1. CASE UNCHANGED vars  BY <1>1 DEF vars
<1>2. ASSUME NEW r \in Request,
             \/ CheckReindex(r) \/ CommitReindex(r) \/ SendTask(r)
             \/ SendFails(r) \/ RequestLost(r)
      PROVE  ReportBeforePoints'
  BY <1>2 DEF CheckReindex, CommitReindex, SendTask, SendFails, RequestLost, WriteStatus
<1>3. CASE BeginDelete \/ DeleteVectors \/ CommitDelete \/ DeleteFails \/ RecheckQuality
  BY <1>3 DEF BeginDelete, DeleteVectors, CommitDelete, DeleteFails, RecheckQuality
<1>4. ASSUME NEW w \in Worker, NEW m \in queue,
             Acquire(w, m) \/ LockBusy(w, m) \/ RedisUnavailable(w, m)
      PROVE  ReportBeforePoints'
  BY <1>4 DEF Acquire, LockBusy, RedisUnavailable, Take, TypeOK, DeliveryOK
<1>5. ASSUME NEW w \in Worker,
             \/ MarkIndexing(w) \/ WriteChunks(w) \/ SaveReport(w) \/ ReadChunks(w)
             \/ UpsertPoints(w) \/ UpsertFails(w) \/ ListStale(w) \/ DeleteStale(w)
             \/ RecordEmbeddings(w) \/ SaveIndexed(w) \/ RunFails(w)
      PROVE  ReportBeforePoints'
  <2> USE DEF Goto, Elsewhere, TypeOK, DeliveryOK
  <2>1. CASE MarkIndexing(w)  BY <2>1 DEF MarkIndexing
  <2>2. CASE WriteChunks(w)  BY <2>2 DEF WriteChunks
  <2>3. CASE SaveReport(w)  BY <2>3 DEF SaveReport
  <2>4. CASE ReadChunks(w)  BY <2>4 DEF ReadChunks
  <2>5. CASE UpsertPoints(w)  BY <2>5 DEF UpsertPoints
  <2>6. CASE UpsertFails(w)  BY <2>6 DEF UpsertFails
  <2>7. CASE ListStale(w)  BY <2>7 DEF ListStale
  <2>8. CASE DeleteStale(w)  BY <2>8 DEF DeleteStale
  <2>9. CASE RecordEmbeddings(w)  BY <2>9 DEF RecordEmbeddings
  <2>10. CASE SaveIndexed(w)  BY <2>10 DEF SaveIndexed
  <2>11. CASE RunFails(w)  BY <2>11 DEF RunFails
  <2>12. QED
    BY <1>5, <2>1, <2>2, <2>3, <2>4, <2>5, <2>6, <2>7, <2>8, <2>9, <2>10, <2>11
<1>6. ASSUME NEW w \in Worker,
             \/ Release(w) \/ ReleaseFails(w) \/ RetryBusy(w) \/ FailNotFound(w)
             \/ UpdateFailedDocument(w) \/ UpdateFails(w) \/ Retry(w) \/ WorkerLost(w)
      PROVE  ReportBeforePoints'
  <2> USE DEF Leave, RetryOrEnd, Forget, Goto, TypeOK, DeliveryOK
  <2>1. CASE Release(w)  BY <2>1 DEF Release
  <2>2. CASE ReleaseFails(w)  BY <2>2 DEF ReleaseFails
  <2>3. CASE RetryBusy(w)  BY <2>3 DEF RetryBusy
  <2>4. CASE FailNotFound(w)  BY <2>4 DEF FailNotFound, WriteStatus
  <2>5. CASE UpdateFailedDocument(w)  BY <2>5 DEF UpdateFailedDocument, WriteStatus
  <2>6. CASE UpdateFails(w)  BY <2>6 DEF UpdateFails
  <2>7. CASE Retry(w)  BY <2>7 DEF Retry
  <2>8. CASE WorkerLost(w)  BY <2>8 DEF WorkerLost
  <2>9. QED  BY <1>6, <2>1, <2>2, <2>3, <2>4, <2>5, <2>6, <2>7, <2>8
<1>7. CASE LockExpires \/ \E w \in Worker : RefreshFails(w)
  BY <1>7 DEF LockExpires, RefreshFails
<1>8. QED
  BY <1>1, <1>2, <1>3, <1>4, <1>5, <1>6, <1>7 DEF Next, DeliveryStep

\* Deleting a document leaves no chunk rows and no points, and nothing that was
\* indexing it when it was deleted brings any back, for every number of
\* workers, requests, deletions, retries and faults.
THEOREM DeletionIsComplete == Spec => []DeletedLeavesNothing
<1>1. Init => ReportBeforePoints  BY DEF Init, ReportBeforePoints
<1>2. TypeOK /\ ReportBeforePoints /\ [Next]_vars => ReportBeforePoints'
  BY ReportBeforePointsStep
<1>3. ReportBeforePoints => DeletedLeavesNothing
  BY DEF ReportBeforePoints, DeletedLeavesNothing
<1>4. QED  BY <1>1, <1>2, <1>3, TypeCorrect, PTL DEF Spec

-----------------------------------------------------------------------------
\* The steps that neither move a message nor touch the lock: while no call to
\* Redis fails, a delivery stays in the try block or leaves it.
LEMMA QuietStep ==
    ASSUME TypeOK, OneCarrier, HolderOwnsLock,
           queue' = queue, msg' = msg, lock' = lock, lockLost' = lockLost, lapses' = lapses,
           pc' \in [Worker -> Phase],
           \A w \in Worker : /\ pc'[w] \in Holding => pc[w] \in Holding
                             /\ pc'[w] = "idle" <=> pc[w] = "idle"
    PROVE  OneCarrier' /\ HolderOwnsLock'
<1>1. OneCarrier'  BY DEF OneCarrier, NoMessage
<1>2. HolderOwnsLock'  BY DEF HolderOwnsLock, Holding, Indexing
<1>3. QED  BY <1>1, <1>2

\* A message is taken: it leaves the queue for one delivery, and the lock is
\* taken with it only if it was free.
LEMMA TakeStep ==
    ASSUME TypeOK, OneCarrier, HolderOwnsLock, NEW w \in Worker, NEW m \in queue,
           Acquire(w, m) \/ LockBusy(w, m) \/ RedisUnavailable(w, m)
    PROVE  OneCarrier' /\ HolderOwnsLock'
<1>1. PICK next \in {"locked", "busy", "failing"} : Take(w, m, next)
  BY DEF Acquire, LockBusy, RedisUnavailable
<1>2. m \in Message /\ m.task \in Task  BY DEF TypeOK, DeliveryOK, Message
<1>3. OneCarrier'
  <2>1. \A v \in Worker : pc'[v] = IF v = w THEN next ELSE pc[v]  BY <1>1 DEF Take, TypeOK, DeliveryOK
  <2>2. \A v \in Worker : msg'[v] = IF v = w THEN m ELSE msg[v]  BY <1>1 DEF Take, TypeOK, DeliveryOK
  <2>3. queue' = queue \ {m}  BY <1>1 DEF Take
  <2>4. QED  BY <2>1, <2>2, <2>3 DEF OneCarrier
<1>4. HolderOwnsLock'
  <2>1. CASE Acquire(w, m)
    <3>1. lapses = 0 => \A v \in Worker : pc[v] \notin Holding
      <4>1. \A v \in Worker : pc[v] \in Holding => msg[v].task # NoTask
        BY IndexAssumption DEF TypeOK, DeliveryOK, Message, Holding, Indexing
      <4>2. QED  BY <2>1, <4>1 DEF HolderOwnsLock, Acquire
    <3>2. QED  BY <2>1, <3>1 DEF Acquire, Take, HolderOwnsLock, TypeOK, DeliveryOK
  <2>2. CASE LockBusy(w, m) \/ RedisUnavailable(w, m)
    BY <2>2 DEF LockBusy, RedisUnavailable, Take, HolderOwnsLock, TypeOK, DeliveryOK, Holding, Indexing
  <2>3. QED  BY <2>1, <2>2
<1>5. QED  BY <1>3, <1>4

\* A fresh task id enters the queue; the other requests touch no message.
LEMMA RequestStep ==
    ASSUME TypeOK, OneCarrier, HolderOwnsLock, NEW r \in Request,
           CheckReindex(r) \/ CommitReindex(r) \/ SendTask(r) \/ SendFails(r) \/ RequestLost(r)
    PROVE  OneCarrier' /\ HolderOwnsLock'
<1>1. CASE SendTask(r)
  <2>1. OneCarrier'
    <3>1. PICK t \in Task : /\ Fresh(t)
                            /\ queue' = queue \cup {[task |-> t, attempt |-> 0,
                                                     byUploader |-> request[r].byUploader]}
      BY <1>1 DEF SendTask
    <3>2. PICK n : n.task = t /\ queue' = queue \cup {n}  BY <3>1
    <3>3. /\ \A m \in queue : m.task # n.task
          /\ \A w \in Worker : msg[w].task # n.task
      BY <3>1, <3>2 DEF Fresh
    <3>4. pc' = pc /\ msg' = msg  BY <1>1 DEF SendTask, delivery
    <3>5. QED  BY <3>2, <3>3, <3>4 DEF OneCarrier, NoMessage
  <2>2. HolderOwnsLock'  BY <1>1 DEF SendTask, HolderOwnsLock, Holding, Indexing, delivery
  <2>3. QED  BY <2>1, <2>2
<1>2. CASE CheckReindex(r) \/ CommitReindex(r) \/ SendFails(r) \/ RequestLost(r)
  <2>1. UNCHANGED <<pc, queue, msg, lock, lockLost, lapses>>
    BY <1>2 DEF CheckReindex, CommitReindex, SendFails, RequestLost, delivery
  <2>2. QED  BY <2>1, QuietStep DEF TypeOK, DeliveryOK
<1>3. QED  BY <1>1, <1>2

\* A task that ends gives up its id, or hands it to its next message.
LEMMA ForgetCarrier ==
    ASSUME TypeOK, OneCarrier, NEW w \in Worker, pc[w] # "idle", Forget(w),
           NEW n, n.task = msg[w].task, queue' = queue \/ queue' = queue \cup {n}
    PROVE  OneCarrier'
<1>1. \A v \in Worker : pc'[v] = IF v = w THEN "idle" ELSE pc[v]
  BY DEF Forget, TypeOK, DeliveryOK
<1>2. \A v \in Worker : msg'[v] = IF v = w THEN NoMessage ELSE msg[v]
  BY DEF Forget, TypeOK, DeliveryOK
<1>3. NoMessage.task = NoTask  BY DEF NoMessage
<1>4. \A m \in queue : m.task # NoTask  BY IndexAssumption DEF TypeOK, Message
<1>5. \A v \in Worker : pc[v] # "idle" => msg[v].task # NoTask
  BY IndexAssumption DEF TypeOK, DeliveryOK, Message
<1>6. queue' \subseteq queue \cup {n}  OBVIOUS
<1>7. /\ \A v \in Worker : pc'[v] = "idle" => msg'[v] = NoMessage
      /\ \A v, u \in Worker : v # u /\ pc'[v] # "idle" => msg'[v].task # msg'[u].task
  BY <1>1, <1>2, <1>3, <1>5 DEF OneCarrier
<1>8. \A m \in queue', v \in Worker : m.task # msg'[v].task
  BY <1>2, <1>3, <1>4, <1>5, <1>6 DEF OneCarrier
<1>9. \A l, m \in queue' : l.task = m.task => l = m
  BY <1>6 DEF OneCarrier
<1>10. QED  BY <1>7, <1>8, <1>9 DEF OneCarrier, NoMessage

\* A task that ends outside the try block leaves the lock to its owner.
LEMMA ForgetHolder ==
    ASSUME TypeOK, HolderOwnsLock, NEW w \in Worker, Forget(w), lock' = lock, lapses' = lapses
    PROVE  HolderOwnsLock'
BY DEF HolderOwnsLock, Forget, EndAttempt, TypeOK, DeliveryOK, Holding, Indexing

\* Leaving the try block takes the lock away from no other delivery.
LEMMA ReleaseStep ==
    ASSUME TypeOK, OneCarrier, HolderOwnsLock, NEW w \in Worker, Release(w) \/ ReleaseFails(w)
    PROVE  OneCarrier' /\ HolderOwnsLock'
<1>1. pc[w] \in Holding /\ pc[w] # "idle" /\ Leave(w) /\ queue' = queue
  BY DEF Release, ReleaseFails, Leave, Holding, Indexing
<1>2. /\ \A v \in Worker \ {w} : pc'[v] = pc[v] /\ msg'[v] = msg[v] /\ lockLost'[v] = lockLost[v]
      /\ pc'[w] \notin Holding /\ ~lockLost'[w]
  BY <1>1 DEF Leave, Forget, Goto, EndAttempt, TypeOK, DeliveryOK, Holding, Indexing
<1>3. OneCarrier'
  <2>1. CASE Forget(w)
    <3>1. queue' = queue \/ queue' = queue \cup {msg[w]}  BY <1>1
    <3>2. QED  BY <1>1, <2>1, <3>1, ForgetCarrier
  <2>2. CASE UNCHANGED msg /\ pc'[w] # "idle"
    <3>1. \A v \in Worker : pc'[v] = "idle" <=> pc[v] = "idle"  BY <1>1, <1>2, <2>2
    <3>2. QED  BY <1>1, <2>2, <3>1 DEF OneCarrier, NoMessage
  <2>3. QED  BY <1>1, <2>1, <2>2 DEF Leave, Goto, TypeOK, DeliveryOK
<1>4. HolderOwnsLock'
  <2>1. CASE ReleaseFails(w)
    <3>1. lapses' # 0  BY <2>1 DEF ReleaseFails, TypeOK
    <3>2. QED  BY <3>1 DEF HolderOwnsLock
  <2>2. CASE Release(w)
    <3>1. lapses' = lapses  BY <2>2 DEF Release
    <3>2. \A v \in Worker \ {w} : lapses = 0 /\ pc[v] \in Holding => lock # msg[w].task
      BY <1>1 DEF OneCarrier, HolderOwnsLock, Holding, Indexing
    <3>3. \A v \in Worker \ {w} : lapses = 0 /\ pc[v] \in Holding => lock' = lock
      BY <2>2, <3>2 DEF Release
    <3>4. QED  BY <1>2, <3>1, <3>3 DEF HolderOwnsLock, Holding, Indexing
  <2>3. QED  BY <2>1, <2>2
<1>5. QED  BY <1>3, <1>4

\* Outside the try block nothing touches the lock.
LEMMA HandlerStep ==
    ASSUME TypeOK, OneCarrier, HolderOwnsLock, NEW w \in Worker,
           \/ RetryBusy(w) \/ FailNotFound(w) \/ UpdateFailedDocument(w)
           \/ UpdateFails(w) \/ Retry(w) \/ WorkerLost(w)
    PROVE  OneCarrier' /\ HolderOwnsLock'
<1>1. CASE /\ pc[w] = "failing" /\ ~LastAttempt(w)
           /\ UpdateFailedDocument(w) \/ UpdateFails(w)
  <2>1. UNCHANGED <<queue, msg, lock, lockLost, lapses>> /\ pc' = [pc EXCEPT ![w] = "retrying"]
    BY <1>1 DEF UpdateFailedDocument, UpdateFails, RetryOrEnd, Goto
  <2>2. QED  BY <1>1, <2>1, QuietStep DEF TypeOK, DeliveryOK, Phase, Holding, Indexing
<1>2. CASE /\ LastAttempt(w)
           /\ UpdateFailedDocument(w) \/ UpdateFails(w)
  <2>1. pc[w] # "idle" /\ Forget(w) /\ UNCHANGED <<queue, lock, lapses>>
    BY <1>2 DEF UpdateFailedDocument, UpdateFails, RetryOrEnd
  <2>2. QED  BY <2>1, ForgetCarrier, ForgetHolder
<1>3. CASE FailNotFound(w)
  <2>1. pc[w] # "idle" /\ Forget(w) /\ UNCHANGED <<queue, lock, lapses>>
    BY <1>3 DEF FailNotFound
  <2>2. QED  BY <2>1, ForgetCarrier, ForgetHolder
<1>4. CASE WorkerLost(w)
  <2>1. /\ pc[w] # "idle" /\ Forget(w) /\ UNCHANGED <<lock, lapses>>
        /\ queue' = queue \cup {msg[w]}
    BY <1>4 DEF WorkerLost
  <2>2. QED  BY <2>1, ForgetCarrier, ForgetHolder
<1>5. CASE RetryBusy(w) \/ Retry(w)
  <2>1. pc[w] # "idle" /\ Forget(w) /\ UNCHANGED <<lock, lapses>>
    BY <1>5 DEF RetryBusy, Retry
  <2>2. PICK n : n.task = msg[w].task /\ (queue' = queue \/ queue' = queue \cup {n})
    <3>1. queue' # queue => msg[w] \in Message /\ msg[w].attempt < MaxRetries
      BY <1>5 DEF RetryBusy, Retry, TypeOK, DeliveryOK
    <3>2. CASE queue' = queue  BY <3>2
    <3>3. CASE queue' # queue
      <4>1. queue' = queue \cup {NextAttempt(msg[w])}
        BY <1>5, <3>3 DEF RetryBusy, Retry
      <4>2. NextAttempt(msg[w]).task = msg[w].task  BY <3>1, <3>3, NextAttemptTypes
      <4>3. QED  BY <4>1, <4>2
    <3>4. QED  BY <3>2, <3>3
  <2>3. QED  BY <2>1, <2>2, ForgetCarrier, ForgetHolder
<1>6. QED
  BY <1>1, <1>2, <1>3, <1>4, <1>5 DEF UpdateFailedDocument, UpdateFails

\* No step breaks either part while no call to Redis fails.
LEMMA LockDiscipline ==
    ASSUME TypeOK, OneCarrier, HolderOwnsLock, [Next]_vars
    PROVE  OneCarrier' /\ HolderOwnsLock'
<1>1. CASE UNCHANGED vars
  BY <1>1, QuietStep DEF vars, delivery, TypeOK, DeliveryOK
<1>2. ASSUME NEW r \in Request,
             \/ CheckReindex(r) \/ CommitReindex(r) \/ SendTask(r)
             \/ SendFails(r) \/ RequestLost(r)
      PROVE  OneCarrier' /\ HolderOwnsLock'
  BY <1>2, RequestStep
<1>3. CASE BeginDelete \/ DeleteVectors \/ CommitDelete \/ DeleteFails \/ RecheckQuality
  <2>1. UNCHANGED <<pc, queue, msg, lock, lockLost, lapses>>
    BY <1>3 DEF BeginDelete, DeleteVectors, CommitDelete, DeleteFails, RecheckQuality, delivery
  <2>2. QED  BY <2>1, QuietStep DEF TypeOK, DeliveryOK
<1>4. ASSUME NEW w \in Worker, NEW m \in queue,
             Acquire(w, m) \/ LockBusy(w, m) \/ RedisUnavailable(w, m)
      PROVE  OneCarrier' /\ HolderOwnsLock'
  BY <1>4, TakeStep
<1>5. ASSUME NEW w \in Worker,
             \/ MarkIndexing(w) \/ WriteChunks(w) \/ SaveReport(w) \/ ReadChunks(w)
             \/ UpsertPoints(w) \/ UpsertFails(w) \/ ListStale(w) \/ DeleteStale(w)
             \/ RecordEmbeddings(w) \/ SaveIndexed(w) \/ RunFails(w)
      PROVE  OneCarrier' /\ HolderOwnsLock'
  <2>1. /\ UNCHANGED <<queue, msg, lock, lockLost, lapses>> /\ pc[w] \in Holding
        /\ \E next \in Holding : Goto(w, next)
    BY <1>5 DEF MarkIndexing, WriteChunks, SaveReport, ReadChunks, UpsertPoints, UpsertFails,
                ListStale, DeleteStale, RecordEmbeddings, SaveIndexed, RunFails, Elsewhere, Holding, Indexing
  <2>2. pc' \in [Worker -> Phase]  BY <2>1 DEF Goto, TypeOK, DeliveryOK, Phase
  <2>3. \A v \in Worker : /\ pc'[v] \in Holding => pc[v] \in Holding
                          /\ pc'[v] = "idle" <=> pc[v] = "idle"
    BY <2>1 DEF Goto, TypeOK, DeliveryOK, Holding, Indexing
  <2>4. QED  BY <2>1, <2>2, <2>3, QuietStep
<1>6. ASSUME NEW w \in Worker,
             \/ Release(w) \/ ReleaseFails(w) \/ RetryBusy(w) \/ FailNotFound(w)
             \/ UpdateFailedDocument(w) \/ UpdateFails(w) \/ Retry(w) \/ WorkerLost(w)
      PROVE  OneCarrier' /\ HolderOwnsLock'
  BY <1>6, ReleaseStep, HandlerStep
<1>7. ASSUME NEW w \in Worker, RefreshFails(w)
      PROVE  OneCarrier' /\ HolderOwnsLock'
  <2>1. lapses' # 0  BY <1>7 DEF RefreshFails, TypeOK
  <2>2. UNCHANGED <<pc, queue, msg>>  BY <1>7 DEF RefreshFails
  <2>3. QED  BY <2>1, <2>2 DEF OneCarrier, NoMessage, HolderOwnsLock
<1>8. CASE LockExpires
  <2>1. UNCHANGED <<pc, queue, msg, lockLost, lapses>>  BY <1>8 DEF LockExpires, delivery
  <2>2. lapses = 0 => \A w \in Worker : pc[w] \notin Holding
    BY <1>8 DEF LockExpires, Renewing, HolderOwnsLock
  <2>3. QED  BY <2>1, <2>2 DEF OneCarrier, NoMessage, HolderOwnsLock, Holding, Indexing
<1>9. QED
  BY <1>1, <1>2, <1>3, <1>4, <1>5, <1>6, <1>7, <1>8 DEF Next, DeliveryStep

\* The Redis lock lets one delivery at a time index the document, for every
\* number of workers, requests, retries, crashes and redelivered messages, as
\* long as no call to Redis about a held lock fails.
THEOREM OneIndexerAtATime == Spec => []OneIndexer
<1>1. Init => OneCarrier /\ HolderOwnsLock
  BY DEF Init, OneCarrier, HolderOwnsLock, Holding, Indexing
<1>2. TypeOK /\ OneCarrier /\ HolderOwnsLock /\ [Next]_vars => OneCarrier' /\ HolderOwnsLock'
  BY LockDiscipline
<1>3. TypeOK /\ OneCarrier /\ HolderOwnsLock => OneIndexer
  BY DEF OneCarrier, HolderOwnsLock, OneIndexer, Holding, Indexing
<1>4. QED  BY <1>1, <1>2, <1>3, TypeCorrect, PTL DEF Spec

-----------------------------------------------------------------------------
\* Neither the failed calls, nor the faults, nor the deletions are forgotten.
LEMMA CountersGrow ==
    ASSUME TypeOK, [Next]_vars
    PROVE  /\ lapses' = 0 => lapses = 0
           /\ faults' = 0 => faults = 0
           /\ deletes' = 0 => deletes = 0
<1> USE DEF TypeOK, api, delivery, Elsewhere
<1>1. CASE UNCHANGED vars  BY <1>1 DEF vars
<1>2. ASSUME NEW r \in Request,
             \/ CheckReindex(r) \/ CommitReindex(r) \/ SendTask(r)
             \/ SendFails(r) \/ RequestLost(r)
      PROVE  lapses' = lapses /\ deletes' = deletes /\ (faults' = faults \/ faults' = faults + 1)
  BY <1>2 DEF CheckReindex, CommitReindex, SendTask, SendFails, RequestLost
<1>3. CASE BeginDelete \/ DeleteVectors \/ CommitDelete \/ DeleteFails \/ RecheckQuality
  <2>1. deletes' = deletes \/ deletes' = deletes + 1
    BY <1>3 DEF BeginDelete, DeleteVectors, CommitDelete, DeleteFails, RecheckQuality
  <2>2. lapses' = lapses /\ faults' = faults
    BY <1>3 DEF BeginDelete, DeleteVectors, CommitDelete, DeleteFails, RecheckQuality
  <2>3. QED  BY <2>1, <2>2
<1>4. ASSUME NEW w \in Worker, DeliveryStep(w) \/ WorkerLost(w) \/ RefreshFails(w)
      PROVE  /\ deletes' = deletes
             /\ lapses' = lapses \/ lapses' = lapses + 1
             /\ faults' = faults \/ faults' = faults + 1
  <2>1. ASSUME NEW m \in queue, Acquire(w, m) \/ LockBusy(w, m) \/ RedisUnavailable(w, m)
        PROVE  deletes' = deletes /\ lapses' = lapses /\ faults' = faults
    BY <2>1 DEF Acquire, LockBusy, RedisUnavailable, Take
  <2>2. CASE \/ MarkIndexing(w) \/ WriteChunks(w) \/ SaveReport(w) \/ ReadChunks(w)
             \/ UpsertPoints(w) \/ UpsertFails(w) \/ ListStale(w) \/ DeleteStale(w)
             \/ RecordEmbeddings(w) \/ SaveIndexed(w) \/ RunFails(w)
    BY <2>2 DEF MarkIndexing, WriteChunks, SaveReport, ReadChunks, UpsertPoints, UpsertFails,
                ListStale, DeleteStale, RecordEmbeddings, SaveIndexed, RunFails
  <2>3. CASE \/ Release(w) \/ ReleaseFails(w) \/ RetryBusy(w) \/ FailNotFound(w)
             \/ UpdateFailedDocument(w) \/ UpdateFails(w) \/ Retry(w)
    BY <2>3 DEF Release, ReleaseFails, RetryBusy, FailNotFound, UpdateFailedDocument, UpdateFails,
                Retry
  <2>4. CASE WorkerLost(w) \/ RefreshFails(w)  BY <2>4 DEF WorkerLost, RefreshFails
  <2>5. QED  BY <1>4, <2>1, <2>2, <2>3, <2>4 DEF DeliveryStep
<1>5. CASE LockExpires  BY <1>5 DEF LockExpires
<1>6. QED  BY <1>1, <1>2, <1>3, <1>4, <1>5 DEF Next

\* The steps that touch neither the rows, nor the points, nor an attempt under
\* way: deliveries may still leave the attempt or start one.
LEMMA ProgressKept ==
    ASSUME TypeOK, AttemptProgress, lapses = 0, deletes = 0, del' = del,
           status' = status \/ status' # "indexed",
           chunks' = chunks, points' = points,
           \A w \in Worker : pc'[w] \in Indexing =>
               pc'[w] = pc[w] /\ batch'[w] = batch[w] /\ stale'[w] = stale[w]
    PROVE  AttemptProgress'
BY DEF AttemptProgress, Indexing

\* A step of the attempt under the lock: it is the only one, and it relies on
\* what its earlier steps wrote.
LEMMA AttemptStep ==
    ASSUME TypeOK, OneIndexer, AttemptProgress, lapses = 0, deletes = 0, NEW w \in Worker,
           \/ MarkIndexing(w) \/ WriteChunks(w) \/ SaveReport(w) \/ ReadChunks(w)
           \/ UpsertPoints(w) \/ UpsertFails(w) \/ ListStale(w) \/ DeleteStale(w)
           \/ RecordEmbeddings(w) \/ SaveIndexed(w) \/ RunFails(w)
    PROVE  AttemptProgress'
<1> USE DEF AttemptProgress, Goto, Elsewhere, api
<1>1. /\ pc[w] \in Holding
      /\ \E next \in Holding : pc' = [pc EXCEPT ![w] = next]
  BY DEF MarkIndexing, WriteChunks, SaveReport, ReadChunks, UpsertPoints, UpsertFails,
         ListStale, DeleteStale, RecordEmbeddings, SaveIndexed, RunFails, Holding, Indexing
<1>2. \A v \in Worker \ {w} : pc'[v] \notin Holding
  BY <1>1 DEF OneIndexer, TypeOK, DeliveryOK
<1>3. \A v \in Worker \ {w} : pc'[v] \notin Indexing
  BY <1>2 DEF Holding
<1>4. pc \in [Worker -> Phase] /\ batch \in [Worker -> Batch \cup {NoBatch}]
      /\ stale \in [Worker -> SUBSET Batch]
  BY DEF TypeOK, DeliveryOK
<1>5. CASE MarkIndexing(w)
  BY <1>3, <1>4, <1>5 DEF MarkIndexing, Indexing
<1>6. CASE WriteChunks(w)
  <2>1. chunks' # NoBatch  BY <1>6, IndexAssumption DEF WriteChunks
  <2>2. QED  BY <1>3, <1>4, <1>6, <2>1 DEF WriteChunks, Indexing
<1>7. CASE SaveReport(w)  BY <1>3, <1>4, <1>7 DEF SaveReport, Indexing
<1>8. CASE ReadChunks(w)  BY <1>3, <1>4, <1>8 DEF ReadChunks, Indexing, document
<1>9. CASE UpsertPoints(w)  BY <1>3, <1>4, <1>9 DEF UpsertPoints, Indexing
<1>10. CASE UpsertFails(w)  BY <1>3, <1>4, <1>10 DEF UpsertFails, Indexing
<1>11. CASE ListStale(w)  BY <1>3, <1>4, <1>11 DEF ListStale, Indexing, document
<1>12. CASE DeleteStale(w)  BY <1>3, <1>4, <1>12 DEF DeleteStale, Indexing
<1>13. CASE RecordEmbeddings(w)  BY <1>3, <1>4, <1>13 DEF RecordEmbeddings, Indexing, document
<1>14. CASE SaveIndexed(w)  BY <1>3, <1>4, <1>14 DEF SaveIndexed, Indexing
<1>15. CASE RunFails(w)  BY <1>3, <1>4, <1>15 DEF RunFails, Indexing, document
<1>16. QED
  BY <1>5, <1>6, <1>7, <1>8, <1>9, <1>10, <1>11, <1>12, <1>13, <1>14, <1>15

\* What the other steps leave to an attempt under way.
LEMMA ProgressStep ==
    ASSUME TypeOK, OneIndexer, AttemptProgress, [Next]_vars
    PROVE  AttemptProgress'
<1> SUFFICES ASSUME lapses' = 0, deletes' = 0  PROVE AttemptProgress'
  BY DEF AttemptProgress
<1>1. lapses = 0 /\ deletes = 0  BY CountersGrow
<1>2. del.phase = "idle"  BY <1>1 DEF AttemptProgress
<1> USE DEF document, api, delivery
<1>3. CASE UNCHANGED vars  BY <1>1, <1>3, ProgressKept DEF vars
<1>4. ASSUME NEW r \in Request,
             \/ CheckReindex(r) \/ CommitReindex(r) \/ SendTask(r)
             \/ SendFails(r) \/ RequestLost(r)
      PROVE  AttemptProgress'
  <2>1. UNCHANGED <<del, chunks, points, pc, batch, stale>>
    BY <1>4 DEF CheckReindex, CommitReindex, SendTask, SendFails, RequestLost
  <2>2. status' = status \/ status' # "indexed"
    BY <1>4 DEF CheckReindex, CommitReindex, SendTask, SendFails, RequestLost, WriteStatus
  <2>3. QED  BY <1>1, <2>1, <2>2, ProgressKept
<1>5. CASE BeginDelete \/ DeleteVectors \/ CommitDelete \/ DeleteFails \/ RecheckQuality
  <2>1. ~BeginDelete
    BY DEF BeginDelete, TypeOK
  <2>2. RecheckQuality
    BY <1>2, <1>5, <2>1 DEF DeleteVectors, CommitDelete, DeleteFails
  <2>3. QED  BY <1>1, <2>2, ProgressKept DEF RecheckQuality
<1>6. ASSUME NEW w \in Worker, NEW m \in queue,
             Acquire(w, m) \/ LockBusy(w, m) \/ RedisUnavailable(w, m)
      PROVE  AttemptProgress'
  <2>1. PICK next \in {"locked", "busy", "failing"} : Take(w, m, next)
    BY <1>6 DEF Acquire, LockBusy, RedisUnavailable
  <2>2. \A v \in Worker : pc'[v] \in Indexing => pc'[v] = pc[v]
    BY <2>1 DEF Take, Indexing, TypeOK, DeliveryOK
  <2>3. UNCHANGED <<del, status, chunks, points, batch, stale>>  BY <2>1 DEF Take
  <2>4. QED  BY <1>1, <2>2, <2>3, ProgressKept
<1>7. ASSUME NEW w \in Worker,
             \/ MarkIndexing(w) \/ WriteChunks(w) \/ SaveReport(w) \/ ReadChunks(w)
             \/ UpsertPoints(w) \/ UpsertFails(w) \/ ListStale(w) \/ DeleteStale(w)
             \/ RecordEmbeddings(w) \/ SaveIndexed(w) \/ RunFails(w)
      PROVE  AttemptProgress'
  BY <1>1, <1>7, AttemptStep
<1>8. ASSUME NEW w \in Worker,
             \/ Release(w) \/ ReleaseFails(w) \/ RetryBusy(w) \/ FailNotFound(w)
             \/ UpdateFailedDocument(w) \/ UpdateFails(w) \/ Retry(w) \/ WorkerLost(w)
      PROVE  AttemptProgress'
  <2>1. UNCHANGED <<del, chunks, points>> /\ (status' = status \/ status' # "indexed")
    BY <1>8 DEF Release, ReleaseFails, RetryBusy, FailNotFound, UpdateFailedDocument,
                UpdateFails, Retry, WorkerLost, WriteStatus
  <2>2. Leave(w) \/ RetryOrEnd(w) \/ Forget(w)
    BY <1>8 DEF Release, ReleaseFails, RetryBusy, FailNotFound, UpdateFailedDocument,
                UpdateFails, Retry, WorkerLost
  <2>3. \A v \in Worker : pc'[v] \in Indexing =>
            pc'[v] = pc[v] /\ batch'[v] = batch[v] /\ stale'[v] = stale[v]
    BY <2>2 DEF Leave, RetryOrEnd, Forget, Goto, EndAttempt, Indexing, TypeOK, DeliveryOK
  <2>4. QED  BY <1>1, <2>1, <2>3, ProgressKept
<1>9. CASE LockExpires \/ \E w \in Worker : RefreshFails(w)
  <2>1. UNCHANGED <<del, status, chunks, points, pc, batch, stale>>
    BY <1>9 DEF LockExpires, RefreshFails
  <2>2. QED  BY <1>1, <2>1, ProgressKept
<1>10. QED
  BY <1>3, <1>4, <1>5, <1>6, <1>7, <1>8, <1>9 DEF Next, DeliveryStep

\* A document shown as indexed has chunk rows, and Qdrant holds their points
\* and no others, for every number of workers, requests, retries, crashes,
\* redelivered messages and failed steps of an attempt, while no call to Redis
\* about a held lock fails and nobody has asked to delete it.
THEOREM IndexedMeansSearchable == Spec => []IndexedIsSearchable
<1>1. Init => AttemptProgress
  BY DEF Init, AttemptProgress, NoDelete, Indexing
<1>2. TypeOK /\ OneIndexer /\ AttemptProgress /\ [Next]_vars => AttemptProgress'
  BY ProgressStep
<1>3. AttemptProgress => IndexedIsSearchable
  BY DEF AttemptProgress, IndexedIsSearchable
<1>4. QED  BY <1>1, <1>2, <1>3, TypeCorrect, OneIndexerAtATime, PTL DEF Spec

-----------------------------------------------------------------------------
\* Without a failed call and without a lost worker, the lock goes from the
\* delivery that took it only when that delivery leaves the try block.
LEMMA LockIsHeldStep ==
    ASSUME TypeOK, OneCarrier, HolderOwnsLock, LockIsHeld, [Next]_vars
    PROVE  LockIsHeld'
<1> SUFFICES ASSUME lapses' = 0, faults' = 0, lock' # NoTask  PROVE LockIsHeld'
  BY DEF LockIsHeld
<1>1. lapses = 0 /\ faults = 0  BY CountersGrow
<1> DEFINE Holds(w) == pc[w] \in Holding /\ msg[w].task = lock
           HoldsNext(w) == pc'[w] \in Holding /\ msg'[w].task = lock'
<1>2. \A w \in Worker : HoldsNext(w) => LockIsHeld'  BY DEF LockIsHeld, Holding, Indexing
<1>3. lock # NoTask => \E w \in Worker : Holds(w)  BY <1>1 DEF LockIsHeld
<1>4. lock' = lock /\ (\A w \in Worker : Holds(w) => HoldsNext(w)) => LockIsHeld'
  BY <1>2, <1>3
<1> HIDE DEF Holds, HoldsNext
<1>5. CASE UNCHANGED vars
  BY <1>5, <1>4 DEF vars, delivery, Holds, HoldsNext
<1>6. ASSUME NEW r \in Request,
             \/ CheckReindex(r) \/ CommitReindex(r) \/ SendTask(r)
             \/ SendFails(r) \/ RequestLost(r)
      PROVE  LockIsHeld'
  <2>1. UNCHANGED <<lock, pc, msg>>
    BY <1>6 DEF CheckReindex, CommitReindex, SendTask, SendFails, RequestLost, delivery
  <2>2. QED  BY <2>1, <1>4 DEF Holds, HoldsNext
<1>7. CASE BeginDelete \/ DeleteVectors \/ CommitDelete \/ DeleteFails \/ RecheckQuality
  <2>1. UNCHANGED <<lock, pc, msg>>
    BY <1>7 DEF BeginDelete, DeleteVectors, CommitDelete, DeleteFails, RecheckQuality, delivery
  <2>2. QED  BY <2>1, <1>4 DEF Holds, HoldsNext
<1>8. ASSUME NEW w \in Worker, NEW m \in queue, Acquire(w, m)
      PROVE  LockIsHeld'
  <2>1. pc'[w] = "locked" /\ msg'[w] = m /\ lock' = m.task
    BY <1>8 DEF Acquire, Take, TypeOK, DeliveryOK
  <2>2. QED  BY <2>1, <1>2 DEF HoldsNext, Holding
<1>9. ASSUME NEW w \in Worker, NEW m \in queue, LockBusy(w, m) \/ RedisUnavailable(w, m)
      PROVE  LockIsHeld'
  <2>1. lock' = lock /\ pc[w] = "idle"
    BY <1>9 DEF LockBusy, RedisUnavailable, Take
  <2>2. \A v \in Worker \ {w} : pc'[v] = pc[v] /\ msg'[v] = msg[v]
    BY <1>9 DEF LockBusy, RedisUnavailable, Take, TypeOK, DeliveryOK
  <2>3. QED  BY <2>1, <2>2, <1>4 DEF Holds, HoldsNext, Holding, Indexing
<1>10. ASSUME NEW w \in Worker,
              \/ MarkIndexing(w) \/ WriteChunks(w) \/ SaveReport(w) \/ ReadChunks(w)
              \/ UpsertPoints(w) \/ UpsertFails(w) \/ ListStale(w) \/ DeleteStale(w)
              \/ RecordEmbeddings(w) \/ SaveIndexed(w) \/ RunFails(w)
       PROVE  LockIsHeld'
  <2>1. lock' = lock /\ msg' = msg /\ \E next \in Holding : pc' = [pc EXCEPT ![w] = next]
    BY <1>10 DEF MarkIndexing, WriteChunks, SaveReport, ReadChunks, UpsertPoints, UpsertFails,
                 ListStale, DeleteStale, RecordEmbeddings, SaveIndexed, RunFails, Elsewhere, Goto,
                 Holding, Indexing
  <2>2. QED  BY <2>1, <1>4 DEF Holds, HoldsNext, TypeOK, DeliveryOK
<1>11. ASSUME NEW w \in Worker, Release(w)
       PROVE  LockIsHeld'
  <2>1. lock # msg[w].task /\ lock' = lock
    BY <1>11 DEF Release
  <2>2. \A v \in Worker \ {w} : pc'[v] = pc[v] /\ msg'[v] = msg[v]
    BY <1>11 DEF Release, Leave, Forget, Goto, TypeOK, DeliveryOK
  <2>3. QED  BY <2>1, <2>2, <1>4 DEF Holds, HoldsNext
<1>12. ASSUME NEW w \in Worker,
              RetryBusy(w) \/ FailNotFound(w) \/ UpdateFailedDocument(w) \/ Retry(w)
       PROVE  LockIsHeld'
  <2>1. lock' = lock /\ pc[w] \notin Holding
    BY <1>12 DEF RetryBusy, FailNotFound, UpdateFailedDocument, Retry, Holding, Indexing
  <2>2. \A v \in Worker \ {w} : pc'[v] = pc[v] /\ msg'[v] = msg[v]
    BY <1>12 DEF RetryBusy, FailNotFound, UpdateFailedDocument, Retry, RetryOrEnd, Forget, Goto,
                 TypeOK, DeliveryOK
  <2>3. QED  BY <2>1, <2>2, <1>4 DEF Holds, HoldsNext
<1>13. \A w \in Worker : ~(ReleaseFails(w) \/ UpdateFails(w) \/ WorkerLost(w) \/ RefreshFails(w))
  BY <1>1 DEF ReleaseFails, UpdateFails, WorkerLost, RefreshFails
<1>14. ~LockExpires  BY DEF LockExpires
<1>15. QED
  BY <1>5, <1>6, <1>7, <1>8, <1>9, <1>10, <1>11, <1>12, <1>13, <1>14 DEF Next, DeliveryStep

\* The finally clause leaves no lock behind: without a failed call and without
\* a lost worker, a lock that exists is owned by a delivery in the try block.
THEOREM LocksAreHeld == Spec => []LockIsHeld
<1>1. Init => OneCarrier /\ HolderOwnsLock /\ LockIsHeld
  BY DEF Init, OneCarrier, HolderOwnsLock, LockIsHeld, Holding, Indexing
<1>2. TypeOK /\ OneCarrier /\ HolderOwnsLock /\ LockIsHeld /\ [Next]_vars
      => OneCarrier' /\ HolderOwnsLock' /\ LockIsHeld'
  BY LockDiscipline, LockIsHeldStep
<1>3. QED  BY <1>1, <1>2, TypeCorrect, PTL DEF Spec

-----------------------------------------------------------------------------
\* Every end of an attempt that marked the document replaces the status.
LEMMA IndexingIsDrivenStep ==
    ASSUME TypeOK, IndexingIsDriven, [Next]_vars
    PROVE  IndexingIsDriven'
<1> SUFFICES ASSUME faults' = 0, status' = "indexing"  PROVE IndexingIsDriven'
  BY DEF IndexingIsDriven
<1>1. faults = 0  BY CountersGrow
<1> DEFINE Drives(w) == pc[w] \in Indexing \cup {"broken", "failing"}
           DrivesNext(w) == pc'[w] \in Indexing \cup {"broken", "failing"}
<1>2. \A w \in Worker : DrivesNext(w) => IndexingIsDriven'  BY DEF IndexingIsDriven, Indexing
<1>3. status' = status /\ (\A w \in Worker : Drives(w) => DrivesNext(w)) => IndexingIsDriven'
  BY <1>1, <1>2 DEF IndexingIsDriven
<1> HIDE DEF Drives, DrivesNext
<1>4. CASE UNCHANGED vars
  BY <1>4, <1>3 DEF vars, document, delivery, Drives, DrivesNext
<1>5. ASSUME NEW r \in Request,
             \/ CheckReindex(r) \/ CommitReindex(r) \/ SendTask(r)
             \/ SendFails(r) \/ RequestLost(r)
      PROVE  IndexingIsDriven'
  <2>1. pc' = pc /\ status' = status
    BY <1>5 DEF CheckReindex, CommitReindex, SendTask, SendFails, RequestLost, WriteStatus,
                document, delivery
  <2>2. QED  BY <2>1, <1>3 DEF Drives, DrivesNext
<1>6. CASE BeginDelete \/ DeleteVectors \/ CommitDelete \/ DeleteFails \/ RecheckQuality
  <2>1. pc' = pc /\ status' = status
    BY <1>6 DEF BeginDelete, DeleteVectors, CommitDelete, DeleteFails, RecheckQuality, document,
                delivery
  <2>2. QED  BY <2>1, <1>3 DEF Drives, DrivesNext
<1>7. ASSUME NEW w \in Worker, NEW m \in queue,
             Acquire(w, m) \/ LockBusy(w, m) \/ RedisUnavailable(w, m)
      PROVE  IndexingIsDriven'
  <2>1. PICK next \in {"locked", "busy", "failing"} : Take(w, m, next)
    BY <1>7 DEF Acquire, LockBusy, RedisUnavailable
  <2>2. status' = status /\ pc[w] = "idle" /\ \A v \in Worker \ {w} : pc'[v] = pc[v]
    BY <2>1 DEF Take, document, TypeOK, DeliveryOK
  <2>3. QED  BY <2>2, <1>3 DEF Drives, DrivesNext, Indexing
<1>8. ASSUME NEW w \in Worker, MarkIndexing(w)
      PROVE  IndexingIsDriven'
  <2>1. CASE pc'[w] = "parsing"  BY <2>1, <1>2 DEF DrivesNext, Indexing
  <2>2. CASE UNCHANGED status /\ Goto(w, "missing")
    <3>1. pc[w] = "locked" /\ \A v \in Worker \ {w} : pc'[v] = pc[v]
      BY <1>8, <2>2 DEF MarkIndexing, Goto, TypeOK, DeliveryOK
    <3>2. QED  BY <2>2, <3>1, <1>3 DEF Drives, DrivesNext, Indexing
  <2>3. QED  BY <1>8, <2>1, <2>2 DEF MarkIndexing, Goto, TypeOK, DeliveryOK
<1>9. ASSUME NEW w \in Worker,
             \/ WriteChunks(w) \/ SaveReport(w) \/ ReadChunks(w) \/ UpsertPoints(w)
             \/ UpsertFails(w) \/ ListStale(w) \/ DeleteStale(w) \/ RecordEmbeddings(w)
             \/ RunFails(w)
      PROVE  IndexingIsDriven'
  <2>1. \E next \in Indexing \cup {"broken"} : pc' = [pc EXCEPT ![w] = next]
    BY <1>9 DEF WriteChunks, SaveReport, ReadChunks, UpsertPoints, UpsertFails, ListStale,
                DeleteStale, RecordEmbeddings, RunFails, Goto, Indexing
  <2>2. DrivesNext(w)  BY <2>1 DEF DrivesNext, TypeOK, DeliveryOK
  <2>3. QED  BY <2>2, <1>2
<1>10. \A w \in Worker : ~SaveIndexed(w)  BY DEF SaveIndexed
<1>11. ASSUME NEW w \in Worker, Release(w) \/ ReleaseFails(w)
       PROVE  IndexingIsDriven'
  <2>1. status' = status /\ Leave(w)  BY <1>11 DEF Release, ReleaseFails, document
  <2>2. \A v \in Worker : Drives(v) => DrivesNext(v)
    BY <2>1 DEF Leave, Forget, Goto, Drives, DrivesNext, Indexing, TypeOK, DeliveryOK
  <2>3. QED  BY <2>1, <2>2, <1>3
<1>12. ASSUME NEW w \in Worker, RetryBusy(w) \/ Retry(w)
       PROVE  IndexingIsDriven'
  <2>1. status' = status /\ pc[w] \in {"busy", "retrying"} /\ Forget(w)
    BY <1>12 DEF RetryBusy, Retry, document
  <2>2. \A v \in Worker : Drives(v) => DrivesNext(v)
    BY <2>1 DEF Forget, Drives, DrivesNext, Indexing, TypeOK, DeliveryOK
  <2>3. QED  BY <2>1, <2>2, <1>3
<1>13. \A w \in Worker : ~(FailNotFound(w) \/ UpdateFailedDocument(w))
  BY DEF FailNotFound, UpdateFailedDocument, WriteStatus
<1>14. \A w \in Worker : ~(UpdateFails(w) \/ WorkerLost(w))
  BY <1>1 DEF UpdateFails, WorkerLost
<1>15. CASE LockExpires \/ \E w \in Worker : RefreshFails(w)
  <2>1. pc' = pc /\ status' = status
    BY <1>15 DEF LockExpires, RefreshFails, document, delivery
  <2>2. QED  BY <2>1, <1>3 DEF Drives, DrivesNext
<1>16. QED
  BY <1>4, <1>5, <1>6, <1>7, <1>8, <1>9, <1>10, <1>11, <1>12, <1>13, <1>14, <1>15
  DEF Next, DeliveryStep

\* A document shown as being indexed is being indexed, or its status write is
\* still to come: no path of the task leaves "indexing" behind, whatever the
\* lock does, unless a worker or that write is lost.
THEOREM NoStrandedIndexing == Spec => []IndexingIsDriven
<1>1. Init => IndexingIsDriven  BY DEF Init, IndexingIsDriven
<1>2. TypeOK /\ IndexingIsDriven /\ [Next]_vars => IndexingIsDriven'
  BY IndexingIsDrivenStep
<1>3. QED  BY <1>1, <1>2, TypeCorrect, PTL DEF Spec
=============================================================================
