----------------------------- MODULE AgentTask -----------------------------
(***************************************************************************)
(* The life of one agent task: its row in agent_tasks, its outbox rows,    *)
(* the Celery messages that name it, the dispatchers that publish outbox   *)
(* rows, the worker deliveries that lease the row and drive the LangGraph  *)
(* thread, and the user who cancels it or answers its approval gates.      *)
(*                                                                         *)
(* Tasks do not share rows, messages or threads, so one task is modelled.  *)
(***************************************************************************)
EXTENDS AgentRoutes, Integers

CONSTANTS Worker,            \* Celery worker processes
          Dispatcher,        \* outbox loops that may overlap: beat runs and API requests
          NoOwner,           \* lease_owner IS NULL
          Gone,              \* the uuid of a delivery whose worker was lost
          MaxRetries,        \* AGENT_TASK_MAX_RETRIES
          LeaseOutlivesRun,  \* TRUE: AGENT_TASK_LEASE_SECONDS exceeds every run
          MaxTurns,          \* bound: human answers
          MaxGates,          \* bound: times the graph reaches the approval gate
          MaxMessages,       \* bound: copies of one message in the broker
          MaxCrashes         \* bound: lost workers and dispatchers

ASSUME TaskAssumption ==
    /\ NoOwner \notin Worker
    /\ Gone \notin Worker
    /\ NoOwner # Gone
    /\ LeaseOutlivesRun \in BOOLEAN
    /\ {MaxRetries, MaxTurns, MaxGates, MaxMessages, MaxCrashes} \subseteq Nat

VARIABLES
    \* the agent_tasks row
    status, cancelRequested, resumePayload, leaseOwner,
    leaseLive,        \* lease_until > now
    started,          \* budget.started_at is set
    shownGate,        \* the gate of the state the row shows to the user
    \* the agent_outbox rows: 0..turns exist, pendingRows are not dispatched
    turns, pendingRows,
    queue,            \* [attempt -> number of ready Celery messages]
    dispatch,         \* what each dispatcher is doing with which row
    ckpt,             \* the latest LangGraph checkpoint of the thread
    \* one delivery per busy worker
    pc, attempt, payload,
    graph,            \* the channel values the running graph holds in memory
    final,            \* the final_state read back from the checkpointer
    crashes

row == <<status, cancelRequested, resumePayload, leaseOwner, leaseLive, started, shownGate>>
outbox == <<turns, pendingRows>>
delivery == <<pc, attempt, payload, graph, final>>
vars == <<row, outbox, queue, dispatch, ckpt, delivery, crashes>>
-----------------------------------------------------------------------------
Attempt == 0..MaxRetries
Turn == 0..MaxTurns
Gate == 0..MaxGates
Owner == Worker \cup {NoOwner, Gone}
Checkpoint == [next: Position, status: Status, gate: Gate]
NoPayload == [action |-> "none", gate |-> 0]
Payload == [action: Decision, gate: Gate] \cup {NoPayload}
NoGraph == [next |-> "none", status |-> "pending", gate |-> 0]

\* Where a delivery stands in run_agent_task_task; "streaming" and
\* "researching" are inside graph.stream.
Phase == {"idle", "leased", "streaming", "researching", "saving", "clearing",
          "releasing", "acking", "cancelling", "overBudget", "failing",
          "retrying", "givingUp"}

\* The phases in which a delivery runs the graph or writes its result.
Executing == {"leased", "streaming", "researching", "saving", "clearing",
              "cancelling", "overBudget"}

Idle == [phase |-> "idle", row |-> 0]
DispatchState == [phase: {"idle", "read", "sent"}, row: Turn]

TypeOK ==
    /\ status \in Status
    /\ cancelRequested \in BOOLEAN
    /\ resumePayload \in Payload
    /\ leaseOwner \in Owner
    /\ leaseLive \in BOOLEAN
    /\ started \in BOOLEAN
    /\ shownGate \in Gate
    /\ turns \in Turn
    /\ pendingRows \subseteq 0..turns
    /\ queue \in [Attempt -> Nat]
    /\ dispatch \in [Dispatcher -> DispatchState]
    /\ ckpt \in Checkpoint
    /\ pc \in [Worker -> Phase]
    /\ attempt \in [Worker -> Attempt]
    /\ payload \in [Worker -> Payload]
    /\ graph \in [Worker -> Checkpoint]
    /\ final \in [Worker -> Checkpoint]
    /\ crashes \in 0..MaxCrashes
    /\ \A w \in Worker : /\ pc[w] = "retrying" => attempt[w] < MaxRetries
                         /\ pc[w] = "researching" => graph[w].next = "research"

\* create_task commits the task with its first outbox row.
Init ==
    /\ status = "pending"
    /\ cancelRequested = FALSE
    /\ resumePayload = NoPayload
    /\ leaseOwner = NoOwner
    /\ leaseLive = FALSE
    /\ started = FALSE
    /\ shownGate = 0
    /\ turns = 0
    /\ pendingRows = {0}
    /\ queue = [a \in Attempt |-> 0]
    /\ dispatch = [d \in Dispatcher |-> Idle]
    /\ ckpt = NoGraph
    /\ pc = [w \in Worker |-> "idle"]
    /\ attempt = [w \in Worker |-> 0]
    /\ payload = [w \in Worker |-> NoPayload]
    /\ graph = [w \in Worker |-> NoGraph]
    /\ final = [w \in Worker |-> NoGraph]
    /\ crashes = 0
-----------------------------------------------------------------------------
(* The API: cancel and resume.                                             *)

RequestCancel ==
    /\ status \notin Terminal
    /\ ~cancelRequested
    /\ cancelRequested' = TRUE
    /\ UNCHANGED <<status, resumePayload, leaseOwner, leaseLive, started, shownGate,
                   outbox, queue, dispatch, ckpt, delivery, crashes>>

\* The answer is about the gate the row shows.
RequestResume(action) ==
    /\ status = "waiting_user"
    /\ turns < MaxTurns
    /\ resumePayload' = [action |-> action, gate |-> shownGate]
    /\ status' = "pending"
    /\ turns' = turns + 1
    /\ pendingRows' = pendingRows \cup {turns + 1}
    /\ UNCHANGED <<cancelRequested, leaseOwner, leaseLive, started, shownGate,
                   queue, dispatch, ckpt, delivery, crashes>>
-----------------------------------------------------------------------------
(* Dispatch: pending_outbox, delay, mark_outbox_dispatched, one row at a   *)
(* time, in the beat task and in the two API handlers.                     *)

\* Mutation: the row is marked as it is read, before its message is sent.
MarkOnRead(d) ==
    /\ dispatch[d].phase = "idle"
    /\ \E r \in pendingRows : /\ dispatch' = [dispatch EXCEPT ![d] = [phase |-> "read", row |-> r]]
                              /\ pendingRows' = pendingRows \ {r}
    /\ UNCHANGED <<row, turns, queue, ckpt, delivery, crashes>>

ReadRow(d) ==
    /\ dispatch[d].phase = "idle"
    /\ \E r \in pendingRows : dispatch' = [dispatch EXCEPT ![d] = [phase |-> "read", row |-> r]]
    /\ UNCHANGED <<row, outbox, queue, ckpt, delivery, crashes>>

SendMessage(d) ==
    /\ dispatch[d].phase = "read"
    /\ queue[0] < MaxMessages
    /\ queue' = [queue EXCEPT ![0] = @ + 1]
    /\ dispatch' = [dispatch EXCEPT ![d].phase = "sent"]
    /\ UNCHANGED <<row, outbox, ckpt, delivery, crashes>>

\* Mutation: a row whose message could not be sent is given up.
SendFailsForGood(d) ==
    /\ dispatch[d].phase = "read"
    /\ dispatch' = [dispatch EXCEPT ![d] = Idle]
    /\ pendingRows' = pendingRows \ {dispatch[d].row}
    /\ UNCHANGED <<row, turns, queue, ckpt, delivery, crashes>>

\* delay raises; mark_outbox_failed leaves the row pending for a later loop.
SendFails(d) ==
    /\ dispatch[d].phase = "read"
    /\ dispatch' = [dispatch EXCEPT ![d] = Idle]
    /\ UNCHANGED <<row, outbox, queue, ckpt, delivery, crashes>>

\* Mutation: the row stays pending after its message was sent.
ForgetToMark(d) ==
    /\ dispatch[d].phase = "sent"
    /\ dispatch' = [dispatch EXCEPT ![d] = Idle]
    /\ UNCHANGED <<row, outbox, queue, ckpt, delivery, crashes>>

MarkDispatched(d) ==
    /\ dispatch[d].phase = "sent"
    /\ pendingRows' = pendingRows \ {dispatch[d].row}
    /\ dispatch' = [dispatch EXCEPT ![d] = Idle]
    /\ UNCHANGED <<row, turns, queue, ckpt, delivery, crashes>>

\* The loop dies between its calls, or the marking after the send raises: the
\* row stays pending either way.
DispatcherLost(d) ==
    /\ dispatch[d].phase # "idle"
    /\ crashes < MaxCrashes
    /\ crashes' = crashes + 1
    /\ dispatch' = [dispatch EXCEPT ![d] = Idle]
    /\ UNCHANGED <<row, outbox, queue, ckpt, delivery>>
-----------------------------------------------------------------------------
(* A delivery starts: acquire_task_lease.                                  *)

LeaseFree == leaseOwner = NoOwner \/ ~leaseLive

\* Mutation: the lease of another delivery is not looked at.
AcquirableLeased == status \notin Terminal /\ ~cancelRequested

Acquirable == status \notin Terminal /\ ~cancelRequested /\ LeaseFree

Acquire(w, a) ==
    /\ pc[w] = "idle"
    /\ queue[a] > 0
    /\ Acquirable
    /\ queue' = [queue EXCEPT ![a] = @ - 1]
    /\ status' = "running"
    /\ leaseOwner' = w
    /\ leaseLive' = TRUE
    /\ started' = TRUE
    /\ pc' = [pc EXCEPT ![w] = "leased"]
    /\ attempt' = [attempt EXCEPT ![w] = a]
    /\ payload' = [payload EXCEPT ![w] = resumePayload]
    /\ UNCHANGED <<cancelRequested, resumePayload, shownGate, outbox, dispatch, ckpt,
                   graph, final, crashes>>

\* "skipped": the task returns and its message is acknowledged.
Skip(w, a) ==
    /\ pc[w] = "idle"
    /\ queue[a] > 0
    /\ ~Acquirable
    /\ queue' = [queue EXCEPT ![a] = @ - 1]
    /\ UNCHANGED <<row, outbox, dispatch, ckpt, delivery, crashes>>
-----------------------------------------------------------------------------
(* The graph run: _invoke_graph and graph.stream.                          *)

\* Each super-step of the graph writes a checkpoint.
Advance(w, g) ==
    /\ graph' = [graph EXCEPT ![w] = g]
    /\ ckpt' = g
    /\ UNCHANGED <<row, outbox, queue, dispatch, attempt, payload, final, crashes>>

\* Mutation: a delivery without an answer lets the gate take its default.
StartThroughGate(w) ==
    /\ pc[w] = "leased"
    /\ payload[w] = NoPayload
    /\ pc' = [pc EXCEPT ![w] = "streaming"]
    /\ Advance(w, IF ckpt.next = "gate"
                  THEN [ckpt EXCEPT !.next = "fallback", !.status = "running"]
                  ELSE IF ckpt.next \in Node
                       THEN ckpt
                       ELSE [next |-> "supervisor", status |-> "pending", gate |-> ckpt.gate])

\* Mutation: a delivery without an answer always starts from the top.
StartAfresh(w) ==
    /\ pc[w] = "leased"
    /\ payload[w] = NoPayload
    /\ pc' = [pc EXCEPT ![w] = "streaming"]
    /\ Advance(w, [next |-> "supervisor", status |-> "pending", gate |-> ckpt.gate])

\* Without an answer: continue an unfinished thread, or start from the top.
StartGraph(w) ==
    /\ pc[w] = "leased"
    /\ payload[w] = NoPayload
    /\ pc' = [pc EXCEPT ![w] = "streaming"]
    /\ Advance(w, IF ckpt.next \in Node
                  THEN ckpt
                  ELSE [next |-> "supervisor", status |-> "pending", gate |-> ckpt.gate])

\* Command(resume=...): the interrupted gate takes the answer; a thread that is
\* not at the gate runs on without it.
ResumeGraph(w) ==
    /\ pc[w] = "leased"
    /\ payload[w] # NoPayload
    /\ pc' = [pc EXCEPT ![w] = "streaming"]
    /\ Advance(w, IF ckpt.next = "gate"
                  THEN [ckpt EXCEPT !.next = GateGoto[payload[w].action], !.status = "running"]
                  ELSE ckpt)

\* A node's return value; each arrival at the gate is a new interrupt.
NodeDone(w, node) ==
    \E o \in Outcomes[node] :
        /\ o.next = "gate" => graph[w].gate < MaxGates
        /\ Advance(w, [next |-> o.next, status |-> o.status,
                       gate |-> graph[w].gate + (IF o.next = "gate" THEN 1 ELSE 0)])

RunNode(w) ==
    /\ pc[w] = "streaming"
    /\ graph[w].next \in Node \ {"gate", "research"}
    /\ NodeDone(w, graph[w].next)
    /\ UNCHANGED pc

\* _enforce_policy at the entry of the research node finds no cancel request.
EnterResearch(w) ==
    /\ pc[w] = "streaming"
    /\ graph[w].next = "research"
    /\ ~cancelRequested
    /\ pc' = [pc EXCEPT ![w] = "researching"]
    /\ UNCHANGED <<row, outbox, queue, dispatch, ckpt, attempt, payload, graph, final, crashes>>

FinishResearch(w) ==
    /\ pc[w] = "researching"
    /\ NodeDone(w, "research")
    /\ pc' = [pc EXCEPT ![w] = "streaming"]

\* The stream ends at an interrupt or at END; the state saved is then read
\* from the checkpointer, not from this run's memory.
EndStream(w) ==
    /\ pc[w] = "streaming"
    /\ graph[w].next \in {"gate", "end"}
    /\ final' = [final EXCEPT ![w] = ckpt]
    /\ pc' = [pc EXCEPT ![w] = "saving"]
    /\ UNCHANGED <<row, outbox, queue, dispatch, ckpt, attempt, payload, graph, crashes>>
-----------------------------------------------------------------------------
(* A delivery ends: save_task_state, clear_resume_payload,                 *)
(* release_task_lease, and the three except clauses.                       *)

\* save_task_state checks neither the lease nor the status it overwrites.
SaveTaskState(w, newStatus, gate, next) ==
    /\ status' = newStatus
    /\ shownGate' = gate
    /\ pc' = [pc EXCEPT ![w] = next]
    /\ UNCHANGED <<cancelRequested, resumePayload, leaseOwner, leaseLive, started, outbox,
                   queue, dispatch, ckpt, attempt, payload, graph, final, crashes>>

\* Mutation: the status is saved, the state it belongs to is not.
SaveStatusOnly(w) ==
    /\ pc[w] = "saving"
    /\ SaveTaskState(w, final[w].status, shownGate,
                     IF payload[w] = NoPayload THEN "releasing" ELSE "clearing")

SaveResult(w) ==
    /\ pc[w] = "saving"
    /\ SaveTaskState(w, final[w].status, final[w].gate,
                     IF payload[w] = NoPayload THEN "releasing" ELSE "clearing")

ClearResumePayload(w) ==
    /\ pc[w] = "clearing"
    /\ resumePayload' = NoPayload
    /\ pc' = [pc EXCEPT ![w] = "releasing"]
    /\ UNCHANGED <<status, cancelRequested, leaseOwner, leaseLive, started, shownGate, outbox,
                   queue, dispatch, ckpt, attempt, payload, graph, final, crashes>>

ReleaseTaskLease(w, next) ==
    /\ IF leaseOwner = w
       THEN leaseOwner' = NoOwner /\ leaseLive' = FALSE
       ELSE UNCHANGED <<leaseOwner, leaseLive>>
    /\ pc' = [pc EXCEPT ![w] = next]
    /\ UNCHANGED <<status, cancelRequested, resumePayload, started, shownGate, outbox, queue,
                   dispatch, ckpt, attempt, payload, graph, final, crashes>>

Release(w) ==
    /\ pc[w] = "releasing"
    /\ ReleaseTaskLease(w, "acking")

\* The delivery's local variables end with it.
Forget(w) ==
    /\ pc' = [pc EXCEPT ![w] = "idle"]
    /\ attempt' = [attempt EXCEPT ![w] = 0]
    /\ payload' = [payload EXCEPT ![w] = NoPayload]
    /\ graph' = [graph EXCEPT ![w] = NoGraph]
    /\ final' = [final EXCEPT ![w] = NoGraph]

Ack(w) ==
    /\ pc[w] = "acking"
    /\ Forget(w)
    /\ UNCHANGED <<row, outbox, queue, dispatch, ckpt, crashes>>

Raise(w, next) ==
    /\ pc' = [pc EXCEPT ![w] = next]
    /\ UNCHANGED <<row, outbox, queue, dispatch, ckpt, attempt, payload, graph, final, crashes>>

\* AgentTaskCancelled, at the entry of the research node or before a tool call.
CancelSeen(w) ==
    /\ cancelRequested
    /\ \/ pc[w] = "researching"
       \/ pc[w] = "streaming" /\ graph[w].next = "research"
    /\ Raise(w, "cancelling")

SaveCancelled(w) ==
    /\ pc[w] = "cancelling"
    /\ SaveTaskState(w, "cancelled", shownGate, "releasing")

\* AgentBudgetExceeded, from the planner's step limit or before a tool call.
BudgetExceeded(w) ==
    /\ \/ pc[w] = "researching"
       \/ pc[w] = "streaming" /\ graph[w].next = "planner"
    /\ Raise(w, "overBudget")

\* Mutation: this except clause forgets to release.
SaveOverBudgetOnly(w) ==
    /\ pc[w] = "overBudget"
    /\ SaveTaskState(w, "failed", shownGate, "acking")

SaveOverBudget(w) ==
    /\ pc[w] = "overBudget"
    /\ SaveTaskState(w, "failed", shownGate, "releasing")

\* Any other exception of the try block.
RunFails(w) ==
    /\ pc[w] \in {"leased", "streaming", "researching", "saving", "clearing"}
    /\ Raise(w, "failing")

\* The lease goes first; the retry or the failed status comes after it.
ReleaseFailed(w) ==
    /\ pc[w] = "failing"
    /\ ReleaseTaskLease(w, IF attempt[w] < MaxRetries THEN "retrying" ELSE "givingUp")

\* Mutation: the exception is swallowed instead of retried.
DropRetry(w) ==
    /\ pc[w] = "retrying"
    /\ Forget(w)
    /\ UNCHANGED <<row, outbox, queue, dispatch, ckpt, crashes>>

Retry(w) ==
    /\ pc[w] = "retrying"
    /\ queue' = [queue EXCEPT ![attempt[w] + 1] = @ + 1]
    /\ Forget(w)
    /\ UNCHANGED <<row, outbox, dispatch, ckpt, crashes>>

SaveFailed(w) ==
    /\ pc[w] = "givingUp"
    /\ SaveTaskState(w, "failed", shownGate, "acking")
-----------------------------------------------------------------------------
(* Faults and time.                                                        *)

\* acks_late with reject_on_worker_lost: the message is delivered again.
WorkerLost(w) ==
    /\ pc[w] # "idle"
    /\ crashes < MaxCrashes
    /\ crashes' = crashes + 1
    /\ queue' = [queue EXCEPT ![attempt[w]] = @ + 1]
    /\ leaseOwner' = IF leaseOwner = w THEN Gone ELSE leaseOwner
    /\ Forget(w)
    /\ UNCHANGED <<status, cancelRequested, resumePayload, leaseLive, started, shownGate,
                   outbox, dispatch, ckpt>>

\* lease_until passes; nothing renews it.
LeaseExpires ==
    /\ leaseOwner # NoOwner
    /\ leaseLive
    /\ LeaseOutlivesRun => leaseOwner = Gone
    /\ leaseLive' = FALSE
    /\ UNCHANGED <<status, cancelRequested, resumePayload, leaseOwner, started, shownGate,
                   outbox, queue, dispatch, ckpt, delivery, crashes>>
-----------------------------------------------------------------------------
DeliveryStep(w) ==
    \/ \E a \in Attempt : Acquire(w, a) \/ Skip(w, a)
    \/ StartGraph(w) \/ ResumeGraph(w) \/ RunNode(w)
    \/ EnterResearch(w) \/ FinishResearch(w) \/ EndStream(w)
    \/ SaveResult(w) \/ ClearResumePayload(w) \/ Release(w) \/ Ack(w)
    \/ CancelSeen(w) \/ SaveCancelled(w)
    \/ BudgetExceeded(w) \/ SaveOverBudget(w)
    \/ RunFails(w) \/ ReleaseFailed(w) \/ Retry(w) \/ SaveFailed(w)

Next ==
    \/ RequestCancel
    \/ \E action \in Decision : RequestResume(action)
    \/ \E d \in Dispatcher : \/ ReadRow(d) \/ SendMessage(d) \/ SendFails(d)
                             \/ MarkDispatched(d) \/ DispatcherLost(d)
    \/ \E w \in Worker : DeliveryStep(w) \/ WorkerLost(w)
    \/ LeaseExpires

Spec == Init /\ [][Next]_vars
-----------------------------------------------------------------------------
\* Something will still act for the task: an undispatched row, a message, a
\* delivery in progress.
Driven ==
    \/ pendingRows # {}
    \/ \E a \in Attempt : queue[a] > 0
    \/ \E w \in Worker : pc[w] # "idle"

\* No finished or skipped delivery leaves the row leased to it: each path of
\* run_agent_task_task, the three except clauses included, releases.
NoLeakedLease ==
    \A w \in Worker : leaseOwner = w => pc[w] \notin {"idle", "acking", "retrying", "givingUp"}

\* The transactional outbox loses no new task: until its first delivery leases
\* it, or the user cancels it, a row to dispatch or a message to deliver
\* exists, whatever dispatchers crash, fail to send or send twice.
NewTaskIsDriven ==
    ~started /\ ~cancelRequested =>
        0 \in pendingRows \/ \E a \in Attempt : queue[a] > 0

\* "Task leases keep concurrent workers from executing the task twice"
\* (docs/project-experience.md): two deliveries never run one task's graph, or
\* write its result, at the same time.
MutualExclusion ==
    \A v, w \in Worker : pc[v] \in Executing /\ pc[w] \in Executing => v = w

\* The row's verdict is true of the thread: a row that waits for its user shows the gate
\* the thread is stopped at, so the answer is about what will consume it, and a row that
\* says "completed" has a thread that ran to END.
PausedAtShownGate ==
    status = "waiting_user" => ckpt.next = "gate" /\ shownGate = ckpt.gate
CompletedMeansFinished == status = "completed" => ckpt.next = "end"
RowShowsThread == PausedAtShownGate /\ CompletedMeansFinished

\* Approval gates the graph has left behind.
GatesPassed == IF ckpt.next = "gate" THEN ckpt.gate - 1 ELSE ckpt.gate

\* Nobody passes the first gate for the user: however often its message is
\* delivered, retried or redelivered, a task nobody has answered stays there.
FirstGateNeedsAnswer == turns = 0 => GatesPassed <= 0

\* Leases, retries, lost workers and repeated messages notwithstanding, the thread takes
\* only steps of AgentRun, which AgentGraph implements in detail: no delivery repeats a
\* node that is done, starts an answered thread again, or passes a gate its user has not
\* seen before the first answer.
Thread == INSTANCE AgentRun WITH node <- ckpt.next, status <- ckpt.status,
                                 answered <- GatesPassed > 0
ThreadSpec == Thread!Spec

\* A running task nobody cancelled has something that will go on with it, as
\* long as no worker is lost: no path through retries, skips and duplicate
\* deliveries acknowledges the last message of an unfinished run.
RunningIsDriven ==
    crashes = 0 /\ status = "running" /\ ~cancelRequested /\ ckpt.next # "gate" => Driven
-----------------------------------------------------------------------------
(* The strengthenings that make the invariants above inductive; the proofs *)
(* are in AgentTaskProofs.                                                 *)

\* A delivery that executes holds a live lease, if leases outlive runs.
ExecutingHoldsLease ==
    \A w \in Worker : pc[w] \in Executing => leaseOwner = w /\ leaseLive

\* Nothing but dispatch has touched a task that was never leased.
UntouchedUntilLeased ==
    ~started => /\ status = "pending" /\ turns = 0 /\ leaseOwner = NoOwner
                /\ \A w \in Worker : pc[w] = "idle"

\* A dispatcher marks a row only after its message is in the broker.
SentBeforeMarked ==
    ~started /\ ~cancelRequested =>
        /\ 0 \in pendingRows \/ queue[0] > 0
        /\ \A d \in Dispatcher : dispatch[d].phase = "sent" => queue[0] > 0

\* Until the user answers, no graph is past its first gate and no delivery
\* has an answer to pass it with.
BeforeFirstAnswer(c) == c.gate = 0 \/ (c.gate = 1 /\ c.next = "gate")
NothingAnswered ==
    turns = 0 => /\ resumePayload = NoPayload
                 /\ BeforeFirstAnswer(ckpt)
                 /\ \A w \in Worker : payload[w] = NoPayload /\ BeforeFirstAnswer(graph[w])

\* The status in a checkpoint fits its position.
CheckpointStatus ==
    /\ ckpt.status = "completed" <=> ckpt.next = "end"
    /\ ckpt.status = "waiting_user" => ckpt.next = "gate"

\* The running graph's memory is the thread's latest checkpoint, and so is the
\* state about to be saved.
GraphIsThread ==
    \A w \in Worker :
        /\ pc[w] \in {"streaming", "researching"} => graph[w] = ckpt
        /\ pc[w] = "saving" => final[w] = ckpt /\ ckpt.next \in {"gate", "end"}

\* A row that says paused or completed is not executed any more.
QuietRow ==
    status \in {"waiting_user", "completed"} =>
        \A w \in Worker : pc[w] \in Executing => pc[w] = "clearing"

ThreadInv == CheckpointStatus /\ GraphIsThread /\ QuietRow
             /\ PausedAtShownGate /\ CompletedMeansFinished

\* A delivery that saved "running" and still holds the lease paused at a gate.
SavedRunningIsPaused ==
    \A w \in Worker : pc[w] \in {"clearing", "releasing"} /\ leaseOwner = w /\ status = "running"
                         => ckpt.next = "gate"

\* Without lost workers a running task has a message, or a delivery that will
\* save it, retry it or give it up.
HandsOver ==
    crashes = 0 =>
        /\ leaseOwner # Gone
        /\ status = "running" /\ ~cancelRequested /\ ckpt.next # "gate" =>
              \/ \E a \in Attempt : queue[a] > 0
              \/ \E w \in Worker : \/ pc[w] \in Executing \ {"clearing"}
                                   \/ pc[w] \in {"failing", "retrying", "givingUp"}
\* An answer, in the row or with a delivery, is about a gate its user has seen.
PastGate == GatesPassed > 0 /\ ckpt.next # "gate"
AnswerFits == GatesPassed > 0 \/ (ckpt.next = "gate" /\ ckpt.status = "waiting_user")
AnswersFit ==
    /\ ckpt.next = "gate" => ckpt.gate > 0
    /\ status = "waiting_user" => ckpt.status = "waiting_user"
    /\ resumePayload # NoPayload => AnswerFits
    /\ \A w \in Worker : payload[w] # NoPayload => AnswerFits

Carrying == {"leased", "streaming", "researching", "saving"}

\* The row keeps an answer until its run is over, so no delivery without it finds a
\* thread that is past its gate.
AnswersKept ==
    /\ PastGate => status \in Terminal \/ resumePayload # NoPayload
    /\ \A w \in Worker :
          /\ pc[w] \in Carrying /\ payload[w] # NoPayload => resumePayload # NoPayload
          /\ pc[w] = "leased" /\ PastGate => payload[w] # NoPayload
          /\ pc[w] = "clearing" => ckpt.next = "gate" \/ status \in Terminal
-----------------------------------------------------------------------------
(* What the documentation says and the code does not keep.                 *)

\* "Each human turn is independently dispatchable" (store.py:293): an answer
\* that made the row pending again is still on its way to a worker.
HumanTurnIsDriven == status = "pending" /\ ~cancelRequested => Driven

\* "Replayable execution ... in worker recovery" (docs/project-experience.md:5)
\* and reject_on_worker_lost: losing a worker loses no running task.
LostWorkerIsRecovered ==
    status = "running" /\ ~cancelRequested /\ ckpt.next # "gate" => Driven

-----------------------------------------------------------------------------
(* Liveness.  Beat runs every 15 seconds, so a pending row is read again    *)
(* and, once the broker and the database accept it, sent and marked; a      *)
(* worker that is up takes the next message and takes the steps of its      *)
(* delivery.  The user and the faults have no fairness.                     *)

Fairness ==
    /\ \A d \in Dispatcher : /\ WF_vars(ReadRow(d))
                             /\ SF_vars(SendMessage(d))
                             /\ WF_vars(MarkDispatched(d))
    /\ \A w \in Worker : WF_vars(DeliveryStep(w))

FairSpec == Spec /\ Fairness

\* Every committed task is picked up by a worker, unless cancelled first,
\* through any number of failed sends.
TaskIsPickedUp == <>(started \/ cancelRequested)

\* "Celery Beat periodically dispatches pending durable outbox rows"
\* (docs/architecture.md:69): no row stays pending for ever.
OutboxDrains == \A r \in Turn : r \in pendingRows ~> r \notin pendingRows

\* A run leaves "running": it finishes, fails, pauses or is cancelled.
RunEnds == status = "running" ~> (status # "running" \/ cancelRequested \/ ckpt.next = "gate")
=============================================================================
