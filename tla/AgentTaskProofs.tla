-------------------------- MODULE AgentTaskProofs --------------------------
(***************************************************************************)
(* Theorems about AgentTask for every set of workers and dispatchers and   *)
(* every bound: the type invariant, the lease discipline, the outbox and   *)
(* the exclusion that a lease longer than every run gives.                 *)
(***************************************************************************)
EXTENDS AgentTask, TLAPS

\* Every outcome of a node that does not wait names a position and a status.
LEMMA OutcomeTypes ==
    ASSUME NEW node \in Node \ {"gate"}, NEW o \in Outcomes[node]
    PROVE  o.next \in Position /\ o.status \in Status
<1> USE DEF Outcomes, Outcome, Position, Node, Status
<1> DEFINE Routed == [next: Position, status: Status]
<1>1. Outcomes[node] \subseteq Routed
  <2>1. CASE node = "supervisor"  BY <2>1 DEF SupervisorOutcomes
  <2>2. CASE node = "answer"      BY <2>2 DEF AnswerOutcomes
  <2>3. CASE node = "planner"     BY <2>3 DEF PlannerOutcomes
  <2>4. CASE node = "research"    BY <2>4 DEF ResearchOutcomes
  <2>5. CASE node = "review"      BY <2>5 DEF ReviewOutcomes
  <2>6. CASE node = "final"       BY <2>6 DEF FinalOutcomes
  <2>7. CASE node = "fallback"    BY <2>7 DEF FallbackOutcomes
  <2>8. QED  BY <2>1, <2>2, <2>3, <2>4, <2>5, <2>6, <2>7 DEF Node
<1>2. QED  BY <1>1

\* The gate sends the graph to one of its nodes, whatever the answer.
LEMMA GateGotoTypes == \A action \in Decision : GateGoto[action] \in Node
BY DEF GateGoto, Decision, Node

\* A node's outcome is a checkpoint: the arrival at a gate is counted within
\* its bound.
LEMMA NodeDoneTypes ==
    ASSUME TypeOK, NEW w \in Worker, NEW node \in Node \ {"gate"}, NodeDone(w, node)
    PROVE  graph' \in [Worker -> Checkpoint] /\ ckpt' \in Checkpoint
<1>1. PICK o \in Outcomes[node] :
        /\ o.next = "gate" => graph[w].gate < MaxGates
        /\ Advance(w, [next |-> o.next, status |-> o.status,
                       gate |-> graph[w].gate + (IF o.next = "gate" THEN 1 ELSE 0)])
  BY DEF NodeDone
<1>2. o.next \in Position /\ o.status \in Status  BY OutcomeTypes
<1>3. graph[w] \in Checkpoint  BY DEF TypeOK
<1> DEFINE g == [next |-> o.next, status |-> o.status,
                 gate |-> graph[w].gate + (IF o.next = "gate" THEN 1 ELSE 0)]
<1>4. g.gate \in Gate  BY <1>1, <1>3, TaskAssumption DEF Checkpoint, Gate
<1>5. g \in Checkpoint  BY <1>2, <1>4 DEF Checkpoint
<1>6. graph' = [graph EXCEPT ![w] = g] /\ ckpt' = g  BY <1>1 DEF Advance
<1>7. QED  BY <1>5, <1>6 DEF TypeOK

-----------------------------------------------------------------------------
\* The first attempt, turn and gate, and the empty values of a delivery.
LEMMA BaseTypes ==
    /\ MaxRetries \in Nat /\ MaxTurns \in Nat /\ MaxGates \in Nat /\ MaxCrashes \in Nat
    /\ 0 \in Attempt /\ 0 \in Turn /\ 0 \in Gate
    /\ NoPayload \in Payload /\ NoGraph \in Checkpoint /\ Idle \in DispatchState
<1>1. /\ MaxRetries \in Nat /\ MaxTurns \in Nat /\ MaxGates \in Nat /\ MaxCrashes \in Nat
  BY TaskAssumption
<1>2. 0 \in Attempt /\ 0 \in Turn /\ 0 \in Gate  BY <1>1 DEF Attempt, Turn, Gate
<1>3. NoPayload \in Payload  BY DEF Payload
<1>4. NoGraph \in Checkpoint  BY <1>2 DEF NoGraph, Checkpoint, Position, Status
<1>5. Idle \in DispatchState  BY <1>2 DEF Idle, DispatchState
<1>6. QED  BY <1>1, <1>2, <1>3, <1>4, <1>5

\* A broker's queue stays a count of messages when one is added or taken.
LEMMA QueueTypes ==
    ASSUME TypeOK, NEW a \in Attempt
    PROVE  /\ [queue EXCEPT ![a] = @ + 1] \in [Attempt -> Nat]
           /\ queue[a] > 0 => [queue EXCEPT ![a] = @ - 1] \in [Attempt -> Nat]
<1>1. queue \in [Attempt -> Nat] /\ queue[a] \in Nat  BY DEF TypeOK
<1>2. queue[a] + 1 \in Nat /\ (queue[a] > 0 => queue[a] - 1 \in Nat)  BY <1>1
<1>3. QED  BY <1>1, <1>2

\* Every action of the specification preserves the types.
LEMMA TypeStep == TypeOK /\ [Next]_vars => TypeOK'
<1> SUFFICES ASSUME TypeOK, [Next]_vars PROVE TypeOK'
  OBVIOUS
<1>1. CASE RequestCancel
  BY <1>1 DEF TypeOK, RequestCancel, row, outbox, delivery
<1>2. ASSUME NEW action \in Decision, RequestResume(action) PROVE TypeOK'
  BY <1>2, BaseTypes
  DEF TypeOK, RequestResume, row, outbox, delivery, Turn, Payload, Status
<1>3. ASSUME NEW d \in Dispatcher, ReadRow(d) PROVE TypeOK'
  BY <1>3, BaseTypes DEF TypeOK, ReadRow, row, outbox, delivery, Turn, DispatchState
<1>4. ASSUME NEW d \in Dispatcher, SendMessage(d) PROVE TypeOK'
  BY <1>4, BaseTypes, QueueTypes
  DEF TypeOK, SendMessage, row, outbox, delivery, DispatchState
<1>5. ASSUME NEW d \in Dispatcher, SendFails(d) PROVE TypeOK'
  BY <1>5, BaseTypes DEF TypeOK, SendFails, row, outbox, delivery
<1>6. ASSUME NEW d \in Dispatcher, MarkDispatched(d) PROVE TypeOK'
  BY <1>6, BaseTypes DEF TypeOK, MarkDispatched, row, outbox, delivery
<1>7. ASSUME NEW d \in Dispatcher, DispatcherLost(d) PROVE TypeOK'
  BY <1>7, BaseTypes DEF TypeOK, DispatcherLost, row, outbox, delivery
<1>8. ASSUME NEW w \in Worker, NEW a \in Attempt, Acquire(w, a) PROVE TypeOK'
  BY <1>8, BaseTypes, QueueTypes
  DEF TypeOK, Acquire, row, outbox, delivery, Owner, Phase, Status
<1>9. ASSUME NEW w \in Worker, NEW a \in Attempt, Skip(w, a) PROVE TypeOK'
  BY <1>9, QueueTypes DEF TypeOK, Skip, row, outbox, delivery
<1>10. ASSUME NEW w \in Worker, StartGraph(w) PROVE TypeOK'
  BY <1>10
  DEF TypeOK, StartGraph, row, outbox, delivery, Advance, Checkpoint, Position, Node, Status, Phase
<1>11. ASSUME NEW w \in Worker, ResumeGraph(w) PROVE TypeOK'
  <2>1. payload[w].action \in Decision  BY <1>11 DEF TypeOK, ResumeGraph, Payload
  <2>2. GateGoto[payload[w].action] \in Position /\ "running" \in Status
    BY <2>1, GateGotoTypes DEF Position, Status
  <2> DEFINE g == IF ckpt.next = "gate"
                  THEN [ckpt EXCEPT !.next = GateGoto[payload[w].action], !.status = "running"]
                  ELSE ckpt
  <2>3. g \in Checkpoint  BY <2>2 DEF TypeOK, Checkpoint
  <2>4. pc' = [pc EXCEPT ![w] = "streaming"] /\ Advance(w, g)  BY <1>11 DEF ResumeGraph
  <2>5. \A v \in Worker : pc'[v] = "researching" => graph'[v].next = "research"
    BY <2>4 DEF TypeOK, Advance
  <2>6. QED  BY <2>3, <2>4, <2>5 DEF TypeOK, Advance, Phase, row, outbox
<1>12. ASSUME NEW w \in Worker, RunNode(w) PROVE TypeOK'
  <2>1. graph[w].next \in Node \ {"gate"} /\ NodeDone(w, graph[w].next) /\ UNCHANGED pc
    BY <1>12 DEF RunNode
  <2>2. graph' \in [Worker -> Checkpoint] /\ ckpt' \in Checkpoint  BY <2>1, NodeDoneTypes
  <2>3. UNCHANGED <<row, outbox, queue, dispatch, attempt, payload, final, crashes>>
    BY <2>1 DEF NodeDone, Advance
  <2>4. \A v \in Worker : pc[v] = "researching" => graph'[v].next = "research"
    BY <1>12 DEF TypeOK, RunNode, NodeDone, Advance
  <2>5. QED  BY <2>1, <2>2, <2>3, <2>4 DEF TypeOK, row, outbox
<1>13. ASSUME NEW w \in Worker, EnterResearch(w) PROVE TypeOK'
  BY <1>13 DEF TypeOK, EnterResearch, row, outbox, delivery, Phase
<1>14. ASSUME NEW w \in Worker, FinishResearch(w) PROVE TypeOK'
  <2>1. NodeDone(w, "research") /\ pc' = [pc EXCEPT ![w] = "streaming"]
    BY <1>14 DEF FinishResearch
  <2>2. graph' \in [Worker -> Checkpoint] /\ ckpt' \in Checkpoint
    BY <2>1, NodeDoneTypes DEF Node
  <2>3. UNCHANGED <<row, outbox, queue, dispatch, attempt, payload, final, crashes>>
    BY <2>1 DEF NodeDone, Advance
  <2>4. \A v \in Worker : pc'[v] = "researching" => graph'[v].next = "research"
    BY <1>14 DEF TypeOK, FinishResearch, NodeDone, Advance
  <2>5. QED  BY <2>1, <2>2, <2>3, <2>4 DEF TypeOK, Phase, row, outbox
<1>15. ASSUME NEW w \in Worker, EndStream(w) PROVE TypeOK'
  BY <1>15 DEF TypeOK, EndStream, row, outbox, delivery, Phase
<1>16. ASSUME NEW w \in Worker, SaveResult(w) PROVE TypeOK'
  BY <1>16
  DEF TypeOK, SaveResult, row, outbox, delivery, SaveTaskState, Checkpoint, Phase
<1>17. ASSUME NEW w \in Worker, ClearResumePayload(w) PROVE TypeOK'
  BY <1>17, BaseTypes DEF TypeOK, ClearResumePayload, row, outbox, delivery, Phase
<1>18. ASSUME NEW w \in Worker, Release(w) PROVE TypeOK'
  BY <1>18 DEF TypeOK, Release, row, outbox, delivery, ReleaseTaskLease, Owner, Phase
<1>19. ASSUME NEW w \in Worker, Ack(w) PROVE TypeOK'
  BY <1>19, BaseTypes DEF TypeOK, Ack, row, outbox, delivery, Forget, Phase
<1>20. ASSUME NEW w \in Worker, CancelSeen(w) PROVE TypeOK'
  BY <1>20 DEF TypeOK, CancelSeen, row, outbox, delivery, Raise, Phase
<1>21. ASSUME NEW w \in Worker, SaveCancelled(w) PROVE TypeOK'
  BY <1>21
  DEF TypeOK, SaveCancelled, row, outbox, delivery, SaveTaskState, Status, Phase
<1>22. ASSUME NEW w \in Worker, BudgetExceeded(w) PROVE TypeOK'
  BY <1>22 DEF TypeOK, BudgetExceeded, row, outbox, delivery, Raise, Phase
<1>23. ASSUME NEW w \in Worker, SaveOverBudget(w) PROVE TypeOK'
  BY <1>23
  DEF TypeOK, SaveOverBudget, row, outbox, delivery, SaveTaskState, Status, Phase
<1>24. ASSUME NEW w \in Worker, RunFails(w) PROVE TypeOK'
  BY <1>24 DEF TypeOK, RunFails, row, outbox, delivery, Raise, Phase
<1>25. ASSUME NEW w \in Worker, ReleaseFailed(w) PROVE TypeOK'
  BY <1>25
  DEF TypeOK, ReleaseFailed, row, outbox, delivery, ReleaseTaskLease, Owner, Phase
<1>26. ASSUME NEW w \in Worker, Retry(w) PROVE TypeOK'
  <2>1. attempt[w] + 1 \in Attempt  BY <1>26, BaseTypes DEF TypeOK, Retry, Attempt
  <2>2. queue' \in [Attempt -> Nat]  BY <1>26, <2>1, QueueTypes DEF Retry
  <2>3. QED  BY <1>26, <2>2, BaseTypes DEF TypeOK, Retry, Forget, Phase, row, outbox
<1>27. ASSUME NEW w \in Worker, SaveFailed(w) PROVE TypeOK'
  BY <1>27 DEF TypeOK, SaveFailed, row, outbox, delivery, SaveTaskState, Status, Phase
<1>28. ASSUME NEW w \in Worker, WorkerLost(w) PROVE TypeOK'
  <2>1. attempt[w] \in Attempt  BY DEF TypeOK
  <2>2. queue' \in [Attempt -> Nat]  BY <1>28, <2>1, QueueTypes DEF WorkerLost
  <2>3. leaseOwner' \in Owner /\ crashes' \in 0..MaxCrashes
    BY <1>28, BaseTypes DEF TypeOK, WorkerLost, Owner
  <2>4. /\ pc' \in [Worker -> Phase] /\ attempt' \in [Worker -> Attempt]
        /\ payload' \in [Worker -> Payload]
        /\ graph' \in [Worker -> Checkpoint] /\ final' \in [Worker -> Checkpoint]
    BY <1>28, BaseTypes DEF TypeOK, WorkerLost, Forget, Phase
  <2>5. \A v \in Worker : /\ pc'[v] = "retrying" => attempt'[v] < MaxRetries
                          /\ pc'[v] = "researching" => graph'[v].next = "research"
    BY <1>28 DEF TypeOK, WorkerLost, Forget
  <2>6. QED  BY <1>28, <2>2, <2>3, <2>4, <2>5 DEF TypeOK, WorkerLost, outbox
<1>29. CASE LeaseExpires
  BY <1>29 DEF TypeOK, LeaseExpires, row, outbox, delivery
<1>30. CASE UNCHANGED vars
  BY <1>30 DEF TypeOK, vars, row, outbox, delivery
<1>31. QED
  BY <1>1, <1>2, <1>3, <1>4, <1>5, <1>6, <1>7, <1>8, <1>9, <1>10, <1>11,
     <1>12, <1>13, <1>14, <1>15, <1>16, <1>17, <1>18, <1>19, <1>20, <1>21,
     <1>22, <1>23, <1>24, <1>25, <1>26, <1>27, <1>28, <1>29, <1>30
  DEF Next, DeliveryStep

\* Spec keeps every variable in its type, for any workers, dispatchers, bounds.
THEOREM TypeCorrect == Spec => []TypeOK
<1>1. Init => TypeOK
  <2>1. SUFFICES ASSUME Init PROVE TypeOK
    OBVIOUS
  <2>2. pendingRows \subseteq 0..turns  BY <2>1 DEF Init
  <2>3. queue \in [Attempt -> Nat]  BY <2>1 DEF Init
  <2>4. /\ pc \in [Worker -> Phase] /\ attempt \in [Worker -> Attempt]
        /\ \A w \in Worker : pc[w] = "idle"
    BY <2>1, BaseTypes DEF Init, Phase
  <2>5. /\ dispatch \in [Dispatcher -> DispatchState] /\ ckpt \in Checkpoint
        /\ payload \in [Worker -> Payload]
        /\ graph \in [Worker -> Checkpoint] /\ final \in [Worker -> Checkpoint]
    BY <2>1, BaseTypes DEF Init
  <2>6. /\ status \in Status /\ resumePayload \in Payload /\ leaseOwner \in Owner
        /\ shownGate \in Gate /\ turns \in Turn /\ crashes \in 0..MaxCrashes
    BY <2>1, BaseTypes DEF Init, Owner, Status
  <2>7. cancelRequested \in BOOLEAN /\ leaseLive \in BOOLEAN /\ started \in BOOLEAN
    BY <2>1, Zenon DEF Init
  <2>8. QED
    BY <2>2, <2>3, <2>4, <2>5, <2>6, <2>7 DEF TypeOK
<1>2. TypeOK /\ [Next]_vars => TypeOK'  BY TypeStep
<1>3. QED  BY <1>1, <1>2, PTL DEF Spec
-----------------------------------------------------------------------------
(* The lease: every path releases, and a lease that outlives every run      *)
(* excludes a second one.                                                   *)

\* A delivery that leased the row gives it up before it leaves its last phase,
\* whichever action comes next.
LEMMA LeaseStep == TypeOK /\ NoLeakedLease /\ [Next]_vars => NoLeakedLease'
<1> SUFFICES ASSUME TypeOK, NoLeakedLease, [Next]_vars PROVE NoLeakedLease'
  OBVIOUS
<1> USE DEF NoLeakedLease
<1>1. ASSUME UNCHANGED <<leaseOwner, pc>> PROVE NoLeakedLease'
  BY <1>1
<1>2. ASSUME NEW w \in Worker, NEW a \in Attempt, Acquire(w, a) PROVE NoLeakedLease'
  BY <1>2 DEF TypeOK, Acquire
<1>3. ASSUME NEW w \in Worker,
             StartGraph(w) \/ ResumeGraph(w) \/ RunNode(w) \/ EnterResearch(w)
               \/ FinishResearch(w) \/ EndStream(w)
      PROVE  NoLeakedLease'
  BY <1>3 DEF TypeOK, StartGraph, ResumeGraph, RunNode, NodeDone, EnterResearch,
              FinishResearch, EndStream, Advance, row
<1>4. ASSUME NEW w \in Worker, CancelSeen(w) \/ BudgetExceeded(w) \/ RunFails(w)
      PROVE  NoLeakedLease'
  BY <1>4 DEF TypeOK, CancelSeen, BudgetExceeded, RunFails, Raise, row
<1>5. ASSUME NEW w \in Worker,
             SaveResult(w) \/ SaveCancelled(w) \/ SaveOverBudget(w) \/ ClearResumePayload(w)
      PROVE  NoLeakedLease'
  BY <1>5 DEF TypeOK, SaveResult, SaveCancelled, SaveOverBudget, ClearResumePayload,
              SaveTaskState
<1>6. ASSUME NEW w \in Worker, SaveFailed(w) PROVE NoLeakedLease'
  BY <1>6 DEF TypeOK, SaveFailed, SaveTaskState
<1>7. ASSUME NEW w \in Worker, Release(w) \/ ReleaseFailed(w) PROVE NoLeakedLease'
  BY <1>7, TaskAssumption DEF TypeOK, Release, ReleaseFailed, ReleaseTaskLease
<1>8. ASSUME NEW w \in Worker, Ack(w) \/ Retry(w) PROVE NoLeakedLease'
  BY <1>8 DEF TypeOK, Ack, Retry, Forget, row
<1>9. ASSUME NEW w \in Worker, WorkerLost(w) PROVE NoLeakedLease'
  BY <1>9, TaskAssumption DEF TypeOK, WorkerLost, Forget
<1>10. QED
  <2>1. CASE RequestCancel \/ \E action \in Decision : RequestResume(action)
    BY <2>1, <1>1 DEF RequestCancel, RequestResume, delivery
  <2>2. ASSUME NEW d \in Dispatcher,
               ReadRow(d) \/ SendMessage(d) \/ SendFails(d) \/ MarkDispatched(d)
                 \/ DispatcherLost(d)
        PROVE  NoLeakedLease'
    BY <2>2, <1>1 DEF ReadRow, SendMessage, SendFails, MarkDispatched, DispatcherLost,
                      row, delivery
  <2>3. ASSUME NEW w \in Worker, NEW a \in Attempt, Skip(w, a) PROVE NoLeakedLease'
    BY <2>3, <1>1 DEF Skip, row, delivery
  <2>4. CASE LeaseExpires \/ UNCHANGED vars
    BY <2>4, <1>1 DEF LeaseExpires, vars, row, delivery
  <2>5. QED
    BY <1>2, <1>3, <1>4, <1>5, <1>6, <1>7, <1>8, <1>9, <2>1, <2>2, <2>3, <2>4
    DEF Next, DeliveryStep

\* No path through a delivery leaves the row leased to a delivery that is over
\* (the release in the try block and in each except clause).
THEOREM LeaseIsReleased == Spec => []NoLeakedLease
<1>1. Init => NoLeakedLease  BY TaskAssumption DEF Init, NoLeakedLease
<1>2. QED  BY <1>1, LeaseStep, TypeCorrect, PTL DEF Spec

\* When leases outlive runs, no action takes the lease from an executing
\* delivery, and none but the holder begins to execute.
LEMMA ExclusionStep ==
    ASSUME LeaseOutlivesRun
    PROVE  TypeOK /\ ExecutingHoldsLease /\ [Next]_vars => ExecutingHoldsLease'
<1> SUFFICES ASSUME TypeOK, ExecutingHoldsLease, [Next]_vars
             PROVE  ExecutingHoldsLease'
  OBVIOUS
<1> USE DEF ExecutingHoldsLease, Executing
<1>1. ASSUME UNCHANGED <<leaseOwner, leaseLive, pc>> PROVE ExecutingHoldsLease'
  BY <1>1
<1>2. ASSUME NEW w \in Worker, NEW a \in Attempt, Acquire(w, a) PROVE ExecutingHoldsLease'
  <2>1. \A v \in Worker : pc[v] \notin Executing
    BY <1>2, TaskAssumption DEF Acquire, Acquirable, LeaseFree
  <2>2. QED  BY <1>2, <2>1 DEF TypeOK, Acquire
<1>3. ASSUME NEW w \in Worker,
             StartGraph(w) \/ ResumeGraph(w) \/ RunNode(w) \/ EnterResearch(w)
               \/ FinishResearch(w) \/ EndStream(w)
      PROVE  ExecutingHoldsLease'
  BY <1>3 DEF TypeOK, StartGraph, ResumeGraph, RunNode, NodeDone, EnterResearch,
              FinishResearch, EndStream, Advance, row
<1>4. ASSUME NEW w \in Worker, CancelSeen(w) \/ BudgetExceeded(w) \/ RunFails(w)
      PROVE  ExecutingHoldsLease'
  BY <1>4 DEF TypeOK, CancelSeen, BudgetExceeded, RunFails, Raise, row
<1>5. ASSUME NEW w \in Worker,
             SaveResult(w) \/ SaveCancelled(w) \/ SaveOverBudget(w) \/ ClearResumePayload(w)
      PROVE  ExecutingHoldsLease'
  BY <1>5 DEF TypeOK, SaveResult, SaveCancelled, SaveOverBudget, ClearResumePayload,
              SaveTaskState
<1>6. ASSUME NEW w \in Worker, SaveFailed(w) PROVE ExecutingHoldsLease'
  BY <1>6 DEF TypeOK, SaveFailed, SaveTaskState
<1>7. ASSUME NEW w \in Worker, Release(w) \/ ReleaseFailed(w) PROVE ExecutingHoldsLease'
  BY <1>7, TaskAssumption DEF TypeOK, Release, ReleaseFailed, ReleaseTaskLease
<1>8. ASSUME NEW w \in Worker, Ack(w) \/ Retry(w) PROVE ExecutingHoldsLease'
  BY <1>8 DEF TypeOK, Ack, Retry, Forget, row
<1>9. ASSUME NEW w \in Worker, WorkerLost(w) PROVE ExecutingHoldsLease'
  BY <1>9, TaskAssumption DEF TypeOK, WorkerLost, Forget
<1>10. CASE LeaseExpires
  <2>1. leaseOwner \notin Worker  BY <1>10, TaskAssumption DEF LeaseExpires
  <2>2. QED  BY <1>10, <2>1 DEF LeaseExpires, delivery
<1>11. QED
  <2>1. CASE RequestCancel \/ \E action \in Decision : RequestResume(action)
    BY <2>1, <1>1 DEF RequestCancel, RequestResume, delivery
  <2>2. ASSUME NEW d \in Dispatcher,
               ReadRow(d) \/ SendMessage(d) \/ SendFails(d) \/ MarkDispatched(d)
                 \/ DispatcherLost(d)
        PROVE  ExecutingHoldsLease'
    BY <2>2, <1>1 DEF ReadRow, SendMessage, SendFails, MarkDispatched, DispatcherLost,
                      row, delivery
  <2>3. ASSUME NEW w \in Worker, NEW a \in Attempt, Skip(w, a) PROVE ExecutingHoldsLease'
    BY <2>3, <1>1 DEF Skip, row, delivery
  <2>4. CASE UNCHANGED vars
    BY <2>4, <1>1 DEF vars, row, delivery
  <2>5. QED
    BY <1>2, <1>3, <1>4, <1>5, <1>6, <1>7, <1>8, <1>9, <1>10, <2>1, <2>2, <2>3, <2>4
    DEF Next, DeliveryStep

\* With a lease longer than every run, each executing delivery holds it.
LEMMA LeaseProtects == ASSUME LeaseOutlivesRun PROVE Spec => []ExecutingHoldsLease
<1>1. Init => ExecutingHoldsLease  BY DEF Init, ExecutingHoldsLease, Executing
<1>2. TypeOK /\ ExecutingHoldsLease /\ [Next]_vars => ExecutingHoldsLease'
  BY ExclusionStep
<1>3. QED  BY <1>1, <1>2, TypeCorrect, PTL DEF Spec

\* Two deliveries never execute one task together when the lease outlives every
\* run: what the lease promises, and the condition it promises it under.
THEOREM Exclusion == ASSUME LeaseOutlivesRun PROVE Spec => []MutualExclusion
<1>1. ExecutingHoldsLease => MutualExclusion
  BY DEF ExecutingHoldsLease, MutualExclusion
<1>2. Spec => []ExecutingHoldsLease  BY LeaseProtects
<1>3. QED  BY <1>1, <1>2, PTL

-----------------------------------------------------------------------------
(* The transactional outbox: a new task is never lost.                     *)

\* What no delivery changes: the outbox, its dispatchers and the user's
\* requests; and a started task stays started.
LEMMA DeliveryFrame ==
    ASSUME NEW w \in Worker, DeliveryStep(w) \/ WorkerLost(w)
    PROVE  UNCHANGED <<cancelRequested, outbox, dispatch>> /\ (started => started')
<1>1. ASSUME NEW a \in Attempt, Acquire(w, a) \/ Skip(w, a)
      PROVE  UNCHANGED <<cancelRequested, outbox, dispatch>> /\ (started => started')
  BY <1>1 DEF Acquire, Skip, row
<1>2. CASE StartGraph(w) \/ ResumeGraph(w) \/ RunNode(w) \/ EnterResearch(w)
             \/ FinishResearch(w) \/ EndStream(w)
  BY <1>2 DEF StartGraph, ResumeGraph, RunNode, NodeDone, EnterResearch, FinishResearch,
              EndStream, Advance, row
<1>3. CASE CancelSeen(w) \/ BudgetExceeded(w) \/ RunFails(w)
  BY <1>3 DEF CancelSeen, BudgetExceeded, RunFails, Raise, row
<1>4. CASE SaveResult(w) \/ SaveCancelled(w) \/ SaveOverBudget(w) \/ SaveFailed(w)
             \/ ClearResumePayload(w)
  BY <1>4 DEF SaveResult, SaveCancelled, SaveOverBudget, SaveFailed, ClearResumePayload,
              SaveTaskState
<1>5. CASE Release(w) \/ ReleaseFailed(w)
  BY <1>5 DEF Release, ReleaseFailed, ReleaseTaskLease
<1>6. CASE Ack(w) \/ Retry(w) \/ WorkerLost(w)
  BY <1>6 DEF Ack, Retry, WorkerLost, row
<1>7. QED  BY <1>1, <1>2, <1>3, <1>4, <1>5, <1>6 DEF DeliveryStep

\* Only Acquire and Skip can be taken by an idle worker.
LEMMA IdleDelivery ==
    ASSUME NEW w \in Worker, pc[w] = "idle", DeliveryStep(w) \/ WorkerLost(w)
    PROVE  \E a \in Attempt : Acquire(w, a) \/ Skip(w, a)
BY DEF DeliveryStep, WorkerLost, StartGraph, ResumeGraph, RunNode, EnterResearch,
       FinishResearch, EndStream, SaveResult, ClearResumePayload, Release, Ack,
       CancelSeen, SaveCancelled, BudgetExceeded, SaveOverBudget, RunFails,
       ReleaseFailed, Retry, SaveFailed

\* A task that was leased once stays started.
LEMMA StartedStays == started /\ [Next]_vars => started'
<1> SUFFICES ASSUME started, [Next]_vars PROVE started'
  OBVIOUS
<1>1. CASE RequestCancel \/ (\E action \in Decision : RequestResume(action))
             \/ LeaseExpires \/ UNCHANGED vars
  BY <1>1 DEF RequestCancel, RequestResume, LeaseExpires, vars, row
<1>2. ASSUME NEW d \in Dispatcher,
             ReadRow(d) \/ SendMessage(d) \/ SendFails(d) \/ MarkDispatched(d)
               \/ DispatcherLost(d)
      PROVE  started'
  BY <1>2 DEF ReadRow, SendMessage, SendFails, MarkDispatched, DispatcherLost, row
<1>3. ASSUME NEW w \in Worker, DeliveryStep(w) \/ WorkerLost(w) PROVE started'
  BY <1>3, DeliveryFrame
<1>4. QED  BY <1>1, <1>2, <1>3 DEF Next

\* Every action keeps a new task's row pending until its message is queued.
LEMMA OutboxStep ==
    TypeOK /\ UntouchedUntilLeased /\ SentBeforeMarked /\ [Next]_vars
        => UntouchedUntilLeased' /\ SentBeforeMarked'
<1> SUFFICES ASSUME TypeOK, UntouchedUntilLeased, SentBeforeMarked, [Next]_vars
             PROVE  UntouchedUntilLeased' /\ SentBeforeMarked'
  OBVIOUS
<1> USE DEF UntouchedUntilLeased, SentBeforeMarked
<1>1. CASE started
  BY <1>1, StartedStays
<1>2. CASE ~started
  <2>1. /\ status = "pending" /\ turns = 0 /\ leaseOwner = NoOwner
        /\ \A w \in Worker : pc[w] = "idle"
    BY <1>2
  <2>2. 0 \in Attempt /\ queue[0] \in Nat  BY BaseTypes DEF TypeOK
  <2>3. CASE RequestCancel
    BY <2>1, <2>3 DEF RequestCancel, delivery, outbox
  <2>4. ASSUME NEW action \in Decision, RequestResume(action) PROVE FALSE
    BY <2>1, <2>4 DEF RequestResume
  <2>5. ASSUME NEW d \in Dispatcher, ReadRow(d)
        PROVE  UntouchedUntilLeased' /\ SentBeforeMarked'
    BY <2>1, <2>5 DEF TypeOK, ReadRow, row, delivery, outbox, DispatchState
  <2>6. ASSUME NEW d \in Dispatcher, SendMessage(d)
        PROVE  UntouchedUntilLeased' /\ SentBeforeMarked'
    BY <2>1, <2>2, <2>6 DEF TypeOK, SendMessage, row, delivery, outbox, DispatchState
  <2>7. ASSUME NEW d \in Dispatcher, SendFails(d) \/ DispatcherLost(d)
        PROVE  UntouchedUntilLeased' /\ SentBeforeMarked'
    BY <2>1, <2>7 DEF TypeOK, SendFails, DispatcherLost, row, delivery, outbox, Idle
  <2>8. ASSUME NEW d \in Dispatcher, MarkDispatched(d)
        PROVE  UntouchedUntilLeased' /\ SentBeforeMarked'
    BY <2>1, <2>8 DEF TypeOK, MarkDispatched, row, delivery, Idle
  <2>9. ASSUME NEW w \in Worker, NEW a \in Attempt, Acquire(w, a)
        PROVE  UntouchedUntilLeased' /\ SentBeforeMarked'
    BY <2>9 DEF Acquire
  <2>10. ASSUME NEW w \in Worker, NEW a \in Attempt, Skip(w, a)
         PROVE  UntouchedUntilLeased' /\ SentBeforeMarked'
    <3>1. cancelRequested
      BY <2>1, <2>10 DEF Skip, Acquirable, LeaseFree, Terminal
    <3>2. QED  BY <2>1, <2>10, <3>1 DEF Skip, row, delivery, outbox
  <2>11. ASSUME NEW w \in Worker, DeliveryStep(w) \/ WorkerLost(w)
         PROVE  UntouchedUntilLeased' /\ SentBeforeMarked'
    BY <2>1, <2>9, <2>10, <2>11, IdleDelivery
  <2>12. CASE LeaseExpires
    BY <2>1, <2>12 DEF LeaseExpires
  <2>13. CASE UNCHANGED vars
    BY <2>1, <2>13 DEF vars, row, delivery, outbox
  <2>14. QED
    BY <2>3, <2>4, <2>5, <2>6, <2>7, <2>8, <2>11, <2>12, <2>13 DEF Next
<1>3. QED  BY <1>1, <1>2

\* The outbox loses no new task, whatever dispatchers crash, fail to send or
\* send twice: its row is marked only when its message is in the broker, and
\* the broker's message goes only to a delivery that leases the task.
THEOREM OutboxIsDurable == Spec => []NewTaskIsDriven
<1>1. Init => UntouchedUntilLeased /\ SentBeforeMarked
  BY DEF Init, UntouchedUntilLeased, SentBeforeMarked, Idle
<1>2. SentBeforeMarked => NewTaskIsDriven
  BY BaseTypes DEF SentBeforeMarked, NewTaskIsDriven
<1>3. QED  BY <1>1, <1>2, OutboxStep, TypeCorrect, PTL DEF Spec

-----------------------------------------------------------------------------
(* The first approval gate: nobody passes it for the user.                 *)

\* A node that runs before the first answer reaches at most the first gate.
LEMMA NodeBeforeFirstAnswer ==
    ASSUME TypeOK, NEW w \in Worker, BeforeFirstAnswer(graph[w]),
           graph[w].next \in Node \ {"gate"}, NEW node \in Node \ {"gate"}, NodeDone(w, node)
    PROVE  BeforeFirstAnswer(graph'[w]) /\ BeforeFirstAnswer(ckpt')
<1>1. graph[w].gate = 0  BY DEF BeforeFirstAnswer
<1>2. PICK o \in Outcomes[node] :
        Advance(w, [next |-> o.next, status |-> o.status,
                    gate |-> graph[w].gate + (IF o.next = "gate" THEN 1 ELSE 0)])
  BY DEF NodeDone
<1> DEFINE g == [next |-> o.next, status |-> o.status,
                 gate |-> graph[w].gate + (IF o.next = "gate" THEN 1 ELSE 0)]
<1>3. BeforeFirstAnswer(g)  BY <1>1 DEF BeforeFirstAnswer
<1>4. graph'[w] = g /\ ckpt' = g  BY <1>2 DEF Advance, TypeOK
<1>5. QED  BY <1>3, <1>4

\* Before the first answer, no action gives a delivery an answer or moves the
\* thread past its first gate.
LEMMA FirstGateStep == TypeOK /\ NothingAnswered /\ [Next]_vars => NothingAnswered'
<1> SUFFICES ASSUME TypeOK, NothingAnswered, [Next]_vars PROVE NothingAnswered'
  OBVIOUS
<1> USE DEF NothingAnswered
<1>1. ASSUME UNCHANGED <<turns, resumePayload, ckpt, payload, graph>> PROVE NothingAnswered'
  BY <1>1
<1>2. ASSUME NEW action \in Decision, RequestResume(action) PROVE NothingAnswered'
  BY <1>2 DEF RequestResume, TypeOK, Turn
<1>3. ASSUME NEW w \in Worker, NEW a \in Attempt, Acquire(w, a) PROVE NothingAnswered'
  BY <1>3 DEF TypeOK, Acquire, outbox
<1>4. ASSUME NEW w \in Worker, StartGraph(w) PROVE NothingAnswered'
  <2> DEFINE g == IF ckpt.next \in Node
                  THEN ckpt
                  ELSE [next |-> "supervisor", status |-> "pending", gate |-> ckpt.gate]
  <2>1. BeforeFirstAnswer(ckpt) => BeforeFirstAnswer(g)
    BY DEF BeforeFirstAnswer, Node
  <2>2. Advance(w, g)  BY <1>4 DEF StartGraph
  <2>3. /\ graph' = [graph EXCEPT ![w] = g] /\ ckpt' = g
        /\ UNCHANGED <<turns, resumePayload, payload>>
    BY <2>2 DEF Advance, row, outbox
  <2>4. QED  BY <2>1, <2>3 DEF TypeOK
<1>5. ASSUME NEW w \in Worker, ResumeGraph(w) PROVE NothingAnswered'
  BY <1>5 DEF ResumeGraph, Advance, outbox
<1>6. ASSUME NEW w \in Worker, NEW node \in Node \ {"gate"},
             graph[w].next = node, NodeDone(w, node)
      PROVE  NothingAnswered'
  <2>1. UNCHANGED <<turns, resumePayload, payload>>
    BY <1>6 DEF NodeDone, Advance, row, outbox
  <2>2. \A v \in Worker \ {w} : graph'[v] = graph[v]
    BY <1>6 DEF NodeDone, Advance, TypeOK
  <2>3. CASE turns = 0
    <3>1. BeforeFirstAnswer(graph'[w]) /\ BeforeFirstAnswer(ckpt')
      BY <1>6, <2>3, NodeBeforeFirstAnswer
    <3>2. QED  BY <2>1, <2>2, <2>3, <3>1
  <2>4. QED  BY <2>1, <2>3
<1>7. ASSUME NEW w \in Worker, RunNode(w) PROVE NothingAnswered'
  BY <1>6, <1>7 DEF RunNode
<1>8. ASSUME NEW w \in Worker, FinishResearch(w) PROVE NothingAnswered'
  BY <1>6, <1>8 DEF TypeOK, FinishResearch, Node
<1>9. ASSUME NEW w \in Worker, ClearResumePayload(w) PROVE NothingAnswered'
  BY <1>9 DEF ClearResumePayload, outbox
<1>10. ASSUME NEW w \in Worker, Ack(w) \/ Retry(w) \/ WorkerLost(w) PROVE NothingAnswered'
  <2>1. BeforeFirstAnswer(NoGraph)  BY DEF BeforeFirstAnswer, NoGraph
  <2>2. UNCHANGED <<turns, resumePayload, ckpt>> /\ Forget(w)
    BY <1>10 DEF Ack, Retry, WorkerLost, row, outbox
  <2>3. QED  BY <2>1, <2>2 DEF Forget, TypeOK
<1>11. QED
  <2>1. CASE RequestCancel \/ LeaseExpires \/ UNCHANGED vars
    BY <2>1, <1>1 DEF RequestCancel, LeaseExpires, vars, row, outbox, delivery
  <2>2. ASSUME NEW d \in Dispatcher,
               ReadRow(d) \/ SendMessage(d) \/ SendFails(d) \/ MarkDispatched(d)
                 \/ DispatcherLost(d)
        PROVE  NothingAnswered'
    BY <2>2, <1>1 DEF ReadRow, SendMessage, SendFails, MarkDispatched, DispatcherLost,
                      row, outbox, delivery
  <2>3. ASSUME NEW w \in Worker, NEW a \in Attempt, Skip(w, a) PROVE NothingAnswered'
    BY <2>3, <1>1 DEF Skip, row, outbox, delivery
  <2>4. ASSUME NEW w \in Worker,
               EnterResearch(w) \/ EndStream(w) \/ CancelSeen(w) \/ BudgetExceeded(w)
                 \/ RunFails(w)
        PROVE  NothingAnswered'
    BY <2>4, <1>1 DEF EnterResearch, EndStream, CancelSeen, BudgetExceeded, RunFails, Raise,
                      row, outbox
  <2>5. ASSUME NEW w \in Worker,
               SaveResult(w) \/ SaveCancelled(w) \/ SaveOverBudget(w) \/ SaveFailed(w)
        PROVE  NothingAnswered'
    BY <2>5, <1>1 DEF SaveResult, SaveCancelled, SaveOverBudget, SaveFailed, SaveTaskState,
                      outbox
  <2>6. ASSUME NEW w \in Worker, Release(w) \/ ReleaseFailed(w) PROVE NothingAnswered'
    BY <2>6, <1>1 DEF Release, ReleaseFailed, ReleaseTaskLease, outbox
  <2>7. QED
    BY <1>2, <1>3, <1>4, <1>5, <1>7, <1>8, <1>9, <1>10, <2>1, <2>2, <2>3, <2>4, <2>5, <2>6
    DEF Next, DeliveryStep

\* Retries, redeliveries, duplicate messages and expired leases notwithstanding,
\* the graph never leaves its first approval gate before the user has answered.
THEOREM FirstGateIsKept == Spec => []FirstGateNeedsAnswer
<1>1. Init => NothingAnswered
  BY DEF Init, NothingAnswered, BeforeFirstAnswer, NoGraph
<1>2. TypeOK /\ NothingAnswered => FirstGateNeedsAnswer
  BY DEF TypeOK, NothingAnswered, BeforeFirstAnswer, FirstGateNeedsAnswer, GatesPassed,
         Checkpoint, Gate
<1>3. QED  BY <1>1, <1>2, FirstGateStep, TypeCorrect, PTL DEF Spec

-----------------------------------------------------------------------------
(* The row and the thread, when the lease outlives every run: a paused row  *)
(* shows the gate the thread is stopped at, a completed row has a finished  *)
(* thread.                                                                  *)

\* A node reaches END exactly when it writes "completed", and asks its user
\* only at the gate.
LEMMA OutcomeStatus ==
    ASSUME NEW node \in Node \ {"gate"}, NEW o \in Outcomes[node]
    PROVE  /\ o.status = "completed" <=> o.next = "end"
           /\ o.status = "waiting_user" => o.next = "gate"
<1>1. CASE node = "supervisor"  BY <1>1 DEF Outcomes, SupervisorOutcomes, Outcome
<1>2. CASE node = "answer"      BY <1>2 DEF Outcomes, AnswerOutcomes, Outcome
<1>3. CASE node = "planner"     BY <1>3 DEF Outcomes, PlannerOutcomes, Outcome
<1>4. CASE node = "research"    BY <1>4 DEF Outcomes, ResearchOutcomes, Outcome
<1>5. CASE node = "review"      BY <1>5 DEF Outcomes, ReviewOutcomes, Outcome
<1>6. CASE node = "final"       BY <1>6 DEF Outcomes, FinalOutcomes, Outcome
<1>7. CASE node = "fallback"    BY <1>7 DEF Outcomes, FallbackOutcomes, Outcome
<1>8. QED  BY <1>1, <1>2, <1>3, <1>4, <1>5, <1>6, <1>7 DEF Node

\* No node follows itself.
LEMMA NextIsAnother == \A node \in Node \ {"gate"} : \A o \in Outcomes[node] : o.next # node
<1> SUFFICES ASSUME NEW node \in Node \ {"gate"}, NEW o \in Outcomes[node] PROVE o.next # node
  OBVIOUS
<1>1. CASE node = "supervisor"  BY <1>1 DEF Outcomes, SupervisorOutcomes, Outcome
<1>2. CASE node = "answer"      BY <1>2 DEF Outcomes, AnswerOutcomes, Outcome
<1>3. CASE node = "planner"     BY <1>3 DEF Outcomes, PlannerOutcomes, Outcome
<1>4. CASE node = "research"    BY <1>4 DEF Outcomes, ResearchOutcomes, Outcome
<1>5. CASE node = "review"      BY <1>5 DEF Outcomes, ReviewOutcomes, Outcome
<1>6. CASE node = "final"       BY <1>6 DEF Outcomes, FinalOutcomes, Outcome
<1>7. CASE node = "fallback"    BY <1>7 DEF Outcomes, FallbackOutcomes, Outcome
<1>8. QED  BY <1>1, <1>2, <1>3, <1>4, <1>5, <1>6, <1>7 DEF Node

\* A delivery that executes is the only one.
LEMMA Alone ==
    ASSUME ExecutingHoldsLease, NEW w \in Worker, pc[w] \in Executing
    PROVE  \A v \in Worker : pc[v] \in Executing => v = w
BY DEF ExecutingHoldsLease

\* A super-step of the graph, seen from the row.
LEMMA AdvanceKeepsThread ==
    ASSUME TypeOK, ExecutingHoldsLease, ThreadInv, NEW w \in Worker,
           pc[w] \in {"leased", "streaming", "researching"},
           graph' = [graph EXCEPT ![w] = ckpt'], UNCHANGED <<status, final>>,
           pc' = [pc EXCEPT ![w] = "streaming"],
           CheckpointStatus'
    PROVE  ThreadInv'
<1>1. pc[w] \in Executing /\ pc[w] # "clearing"  BY DEF Executing
<1>2. status \notin {"waiting_user", "completed"}  BY <1>1 DEF ThreadInv, QuietRow
<1>3. \A v \in Worker \ {w} : pc'[v] \notin Executing  BY <1>1, Alone DEF TypeOK
<1>4. graph'[w] = ckpt' /\ status' = status /\ pc'[w] = "streaming"
  BY DEF TypeOK
<1>5. GraphIsThread'  BY <1>3, <1>4 DEF GraphIsThread, Executing
<1>6. QED
  BY <1>2, <1>4, <1>5
  DEF ThreadInv, QuietRow, PausedAtShownGate, CompletedMeansFinished

\* A node run by the only executing delivery keeps row and thread in agreement.
LEMMA NodeKeepsThread ==
    ASSUME TypeOK, ExecutingHoldsLease, ThreadInv, NEW w \in Worker,
           NEW node \in Node \ {"gate"}, pc[w] \in {"streaming", "researching"},
           NodeDone(w, node), pc' = [pc EXCEPT ![w] = "streaming"]
    PROVE  ThreadInv'
<1>1. PICK o \in Outcomes[node] :
        Advance(w, [next |-> o.next, status |-> o.status,
                    gate |-> graph[w].gate + (IF o.next = "gate" THEN 1 ELSE 0)])
  BY DEF NodeDone
<1>2. /\ o.status = "completed" <=> o.next = "end"
      /\ o.status = "waiting_user" => o.next = "gate"
  BY OutcomeStatus
<1>3. /\ graph' = [graph EXCEPT ![w] = ckpt'] /\ UNCHANGED <<status, final>>
      /\ ckpt'.status = o.status /\ ckpt'.next = o.next
  BY <1>1 DEF Advance, row
<1>4. CheckpointStatus'  BY <1>2, <1>3 DEF CheckpointStatus
<1>5. QED  BY <1>3, <1>4, AdvanceKeepsThread

\* Every action keeps row and thread in agreement, when leases outlive runs.
LEMMA ThreadStep ==
    TypeOK /\ ExecutingHoldsLease /\ ThreadInv /\ [Next]_vars => ThreadInv'
<1> SUFFICES ASSUME TypeOK, ExecutingHoldsLease, ThreadInv, [Next]_vars
             PROVE  ThreadInv'
  OBVIOUS
<1>1. ASSUME UNCHANGED <<status, shownGate, ckpt, pc, graph, final>> PROVE ThreadInv'
  BY <1>1 DEF ThreadInv, CheckpointStatus, GraphIsThread, QuietRow, PausedAtShownGate,
              CompletedMeansFinished, Executing
<1>2. ASSUME status' \notin {"waiting_user", "completed"},
             UNCHANGED <<ckpt, graph, final>>,
             \A v \in Worker : pc'[v] \in {"streaming", "researching", "saving"}
                                 => pc'[v] = pc[v]
      PROVE  ThreadInv'
  BY <1>2 DEF ThreadInv, CheckpointStatus, GraphIsThread, QuietRow, PausedAtShownGate,
              CompletedMeansFinished
<1>3. ASSUME NEW action \in Decision, RequestResume(action) PROVE ThreadInv'
  BY <1>3, <1>2 DEF RequestResume, delivery
<1>4. ASSUME NEW w \in Worker, NEW a \in Attempt, Acquire(w, a) PROVE ThreadInv'
  BY <1>4, <1>2 DEF Acquire, TypeOK
<1>5. ASSUME NEW w \in Worker, StartGraph(w) PROVE ThreadInv'
  <2> DEFINE g == IF ckpt.next \in Node
                  THEN ckpt
                  ELSE [next |-> "supervisor", status |-> "pending", gate |-> ckpt.gate]
  <2>1. /\ g.status = "completed" <=> g.next = "end"
        /\ g.status = "waiting_user" => g.next = "gate"
    BY DEF ThreadInv, CheckpointStatus
  <2>2. /\ graph' = [graph EXCEPT ![w] = ckpt'] /\ ckpt' = g /\ UNCHANGED <<status, final>>
        /\ pc[w] \in {"leased", "streaming", "researching"}
        /\ pc' = [pc EXCEPT ![w] = "streaming"]
    BY <1>5 DEF StartGraph, Advance, row
  <2>3. CheckpointStatus'  BY <2>1, <2>2 DEF CheckpointStatus
  <2>4. QED  BY <2>2, <2>3, AdvanceKeepsThread
<1>6. ASSUME NEW w \in Worker, ResumeGraph(w) PROVE ThreadInv'
  <2> DEFINE g == IF ckpt.next = "gate"
                  THEN [ckpt EXCEPT !.next = GateGoto[payload[w].action], !.status = "running"]
                  ELSE ckpt
  <2>1. payload[w].action \in Decision  BY <1>6 DEF TypeOK, ResumeGraph, Payload
  <2>2. GateGoto[payload[w].action] # "end"  BY <2>1, GateGotoTypes DEF Node
  <2>3. /\ g.status = "completed" <=> g.next = "end"
        /\ g.status = "waiting_user" => g.next = "gate"
    BY <2>2 DEF ThreadInv, CheckpointStatus, TypeOK, Checkpoint
  <2>4. /\ graph' = [graph EXCEPT ![w] = ckpt'] /\ ckpt' = g /\ UNCHANGED <<status, final>>
        /\ pc[w] \in {"leased", "streaming", "researching"}
        /\ pc' = [pc EXCEPT ![w] = "streaming"]
    BY <1>6 DEF ResumeGraph, Advance, row
  <2>5. CheckpointStatus'  BY <2>3, <2>4 DEF CheckpointStatus
  <2>6. QED  BY <2>4, <2>5, AdvanceKeepsThread
<1>7. ASSUME NEW w \in Worker, RunNode(w) PROVE ThreadInv'
  <2>1. /\ graph[w].next \in Node \ {"gate"} /\ NodeDone(w, graph[w].next)
        /\ pc[w] = "streaming" /\ pc' = [pc EXCEPT ![w] = "streaming"]
    BY <1>7 DEF RunNode, TypeOK
  <2>2. QED  BY <2>1, NodeKeepsThread
<1>8. ASSUME NEW w \in Worker, FinishResearch(w) PROVE ThreadInv'
  BY <1>8, NodeKeepsThread DEF FinishResearch, Node
<1>9. ASSUME NEW w \in Worker, EnterResearch(w) \/ EndStream(w) PROVE ThreadInv'
  <2>1. pc[w] = "streaming" /\ pc[w] \in Executing  BY <1>9 DEF EnterResearch, EndStream, Executing
  <2>2. status \notin {"waiting_user", "completed"}  BY <2>1 DEF ThreadInv, QuietRow
  <2>3. UNCHANGED <<status, ckpt, graph>>  BY <1>9 DEF EnterResearch, EndStream, row
  <2>4. graph[w] = ckpt  BY <2>1 DEF ThreadInv, GraphIsThread
  <2>5. GraphIsThread'
    BY <1>9, <2>3, <2>4 DEF TypeOK, ThreadInv, GraphIsThread, EnterResearch, EndStream
  <2>6. QED
    BY <2>2, <2>3, <2>5
    DEF ThreadInv, CheckpointStatus, QuietRow, PausedAtShownGate, CompletedMeansFinished
<1>10. ASSUME NEW w \in Worker, CancelSeen(w) \/ BudgetExceeded(w) PROVE ThreadInv'
  <2>1. pc[w] \in Executing /\ pc[w] # "clearing"
    BY <1>10 DEF CancelSeen, BudgetExceeded, Executing
  <2>2. status \notin {"waiting_user", "completed"}  BY <2>1 DEF ThreadInv, QuietRow
  <2>3. QED
    BY <1>10, <1>2, <2>2 DEF TypeOK, CancelSeen, BudgetExceeded, Raise, row
<1>11. ASSUME NEW w \in Worker,
              RunFails(w) \/ ClearResumePayload(w) \/ Release(w) \/ ReleaseFailed(w)
       PROVE  ThreadInv'
  <2>1. UNCHANGED <<status, shownGate, ckpt, graph, final>>
    BY <1>11 DEF RunFails, Raise, ClearResumePayload, Release, ReleaseFailed,
                 ReleaseTaskLease, row
  <2>2. /\ \A v \in Worker \ {w} : pc'[v] = pc[v]
        /\ pc'[w] \in {"failing", "releasing", "acking", "retrying", "givingUp"}
    BY <1>11 DEF TypeOK, RunFails, Raise, ClearResumePayload, Release, ReleaseFailed,
                 ReleaseTaskLease
  <2>3. QED
    BY <2>1, <2>2 DEF ThreadInv, CheckpointStatus, GraphIsThread, QuietRow,
                      PausedAtShownGate, CompletedMeansFinished, Executing
<1>12. ASSUME NEW w \in Worker, SaveResult(w) PROVE ThreadInv'
  <2>1. pc[w] = "saving" /\ pc[w] \in Executing  BY <1>12 DEF SaveResult, Executing
  <2>2. final[w] = ckpt  BY <2>1 DEF ThreadInv, GraphIsThread
  <2>3. /\ status' = ckpt.status /\ shownGate' = ckpt.gate
        /\ UNCHANGED <<ckpt, graph, final>>
        /\ pc'[w] \in {"clearing", "releasing"} /\ \A v \in Worker \ {w} : pc'[v] = pc[v]
    BY <1>12, <2>2 DEF SaveResult, SaveTaskState, TypeOK
  <2>4. \A v \in Worker \ {w} : pc[v] \notin Executing  BY <2>1, Alone
  <2>5. QED
    BY <2>3, <2>4 DEF ThreadInv, CheckpointStatus, GraphIsThread, QuietRow,
                      PausedAtShownGate, CompletedMeansFinished, Executing
<1>13. ASSUME NEW w \in Worker, SaveCancelled(w) \/ SaveOverBudget(w) \/ SaveFailed(w)
       PROVE  ThreadInv'
  BY <1>13, <1>2 DEF SaveCancelled, SaveOverBudget, SaveFailed, SaveTaskState, TypeOK
<1>14. ASSUME NEW w \in Worker, Ack(w) \/ Retry(w) \/ WorkerLost(w) PROVE ThreadInv'
  <2>1. UNCHANGED <<status, shownGate, ckpt>> /\ Forget(w)
    BY <1>14 DEF Ack, Retry, WorkerLost, row
  <2>2. /\ pc'[w] = "idle"
        /\ \A v \in Worker \ {w} : /\ pc'[v] = pc[v] /\ graph'[v] = graph[v]
                                   /\ final'[v] = final[v]
    BY <2>1 DEF Forget, TypeOK
  <2>3. QED
    BY <2>1, <2>2 DEF ThreadInv, CheckpointStatus, GraphIsThread, QuietRow,
                      PausedAtShownGate, CompletedMeansFinished, Executing
<1>15. QED
  <2>1. CASE RequestCancel \/ LeaseExpires \/ UNCHANGED vars
    BY <2>1, <1>1 DEF RequestCancel, LeaseExpires, vars, row, delivery
  <2>2. ASSUME NEW d \in Dispatcher,
               ReadRow(d) \/ SendMessage(d) \/ SendFails(d) \/ MarkDispatched(d)
                 \/ DispatcherLost(d)
        PROVE  ThreadInv'
    BY <2>2, <1>1 DEF ReadRow, SendMessage, SendFails, MarkDispatched, DispatcherLost,
                      row, delivery
  <2>3. ASSUME NEW w \in Worker, NEW a \in Attempt, Skip(w, a) PROVE ThreadInv'
    BY <2>3, <1>1 DEF Skip, row, delivery
  <2>4. QED
    BY <1>3, <1>4, <1>5, <1>6, <1>7, <1>8, <1>9, <1>10, <1>11, <1>12, <1>13, <1>14,
       <2>1, <2>2, <2>3
    DEF Next, DeliveryStep

\* The thread invariant, with the lease it rests on.
LEMMA ThreadCorrect == ASSUME LeaseOutlivesRun PROVE Spec => []ThreadInv
<1>1. Init => ThreadInv
  BY DEF Init, ThreadInv, CheckpointStatus, GraphIsThread, QuietRow, PausedAtShownGate,
         CompletedMeansFinished, NoGraph, Executing
<1>2. Spec => []ExecutingHoldsLease  BY LeaseProtects
<1>3. QED  BY <1>1, <1>2, ThreadStep, TypeCorrect, PTL DEF Spec

\* What the row tells its user is true of the thread, through retries, duplicate
\* deliveries and lost workers: the gate it shows is the one the answer will go to, and
\* "completed" is said only of a thread that ran to its END.
THEOREM RowIsTrue == ASSUME LeaseOutlivesRun PROVE Spec => []RowShowsThread
<1>1. Spec => []ThreadInv  BY ThreadCorrect
<1>2. ThreadInv => RowShowsThread  BY DEF ThreadInv, RowShowsThread
<1>3. QED  BY <1>1, <1>2, PTL

-----------------------------------------------------------------------------
(* The thread that leases, retries and answers drive is a run of the graph. *)

AnswersInv == AnswersFit /\ AnswersKept

\* Steps that touch neither row, answer nor thread, and no delivery begins with them.
LEMMA AnswersStay ==
    ASSUME AnswersInv, UNCHANGED <<status, resumePayload, ckpt>>,
           \A v \in Worker :
              /\ payload'[v] \in {payload[v], NoPayload}
              /\ pc'[v] = "leased" => pc[v] = "leased" /\ payload'[v] = payload[v]
              /\ pc'[v] = "clearing" => pc[v] = "clearing"
              /\ pc'[v] \in Carrying /\ payload'[v] # NoPayload => pc[v] \in Carrying
    PROVE  AnswersInv'
<1>1. UNCHANGED <<GatesPassed, AnswerFits, PastGate>>
  BY DEF GatesPassed, AnswerFits, PastGate
<1>2. AnswersFit'  BY <1>1 DEF AnswersInv, AnswersFit
<1>3. AnswersKept'  BY <1>1 DEF AnswersInv, AnswersKept
<1>4. QED  BY <1>2, <1>3 DEF AnswersInv

\* The gates a thread has passed, before and after it leaves a gate or comes to one.
LEMMA GatesAreCounted ==
    ASSUME TypeOK
    PROVE  /\ GatesPassed \in Int /\ ckpt.gate \in Nat
           /\ ckpt.next # "gate" => GatesPassed = ckpt.gate
<1>1. ckpt.gate \in Nat  BY BaseTypes DEF TypeOK, Checkpoint, Gate
<1>2. QED  BY <1>1 DEF GatesPassed

\* A node leaves the number of gates passed as it is: what it comes to is not passed.
LEMMA NodePassesNoGate ==
    ASSUME TypeOK, ThreadInv, NEW w \in Worker, NEW node \in Node \ {"gate"},
           pc[w] \in {"streaming", "researching"}, graph[w].next = node, NodeDone(w, node)
    PROVE  /\ UNCHANGED <<GatesPassed, status, resumePayload, payload>>
           /\ ckpt.next = node
           /\ \E o \in Outcomes[node] : ckpt'.next = o.next /\ ckpt'.status = o.status
           /\ ckpt'.next = "gate" => ckpt'.gate > 0
<1>1. graph[w] = ckpt  BY DEF ThreadInv, GraphIsThread
<1>2. PICK o \in Outcomes[node] :
        Advance(w, [next |-> o.next, status |-> o.status,
                    gate |-> graph[w].gate + (IF o.next = "gate" THEN 1 ELSE 0)])
  BY DEF NodeDone
<1>3. /\ ckpt'.next = o.next /\ ckpt'.status = o.status
      /\ ckpt'.gate = ckpt.gate + (IF o.next = "gate" THEN 1 ELSE 0)
      /\ UNCHANGED <<status, resumePayload, payload>>
  BY <1>1, <1>2 DEF Advance, row
<1>4. ckpt.gate \in Nat /\ ckpt.next = node  BY <1>1, GatesAreCounted
<1>5. UNCHANGED GatesPassed  BY <1>3, <1>4 DEF GatesPassed
<1>6. QED  BY <1>3, <1>4, <1>5

\* The user answers the gate the row shows.
LEMMA AnswersResume ==
    ASSUME TypeOK, ThreadInv, AnswersInv, NEW action \in Decision, RequestResume(action)
    PROVE  AnswersInv'
<1>1. /\ status = "waiting_user" /\ status' = "pending"
      /\ resumePayload' = [action |-> action, gate |-> shownGate]
      /\ UNCHANGED <<ckpt, pc, payload>>
  BY DEF RequestResume, delivery
<1>2. ckpt.next = "gate" /\ ckpt.status = "waiting_user"
  BY <1>1 DEF ThreadInv, PausedAtShownGate, AnswersInv, AnswersFit
<1>3. resumePayload' # NoPayload  BY <1>1 DEF NoPayload, Decision
<1>4. UNCHANGED GatesPassed  BY <1>1 DEF GatesPassed
<1>5. AnswerFits' /\ ~PastGate'  BY <1>1, <1>2 DEF AnswerFits, PastGate
<1>6. QED  BY <1>1, <1>2, <1>3, <1>5 DEF AnswersInv, AnswersFit, AnswersKept

\* A delivery takes the row's answer with the lease.
LEMMA AnswersAcquire ==
    ASSUME TypeOK, ExecutingHoldsLease, AnswersInv, NEW w \in Worker, NEW a \in Attempt,
           Acquire(w, a)
    PROVE  AnswersInv'
<1>1. /\ status \notin Terminal /\ status' = "running" /\ UNCHANGED <<resumePayload, ckpt>>
      /\ pc' = [pc EXCEPT ![w] = "leased"] /\ payload' = [payload EXCEPT ![w] = resumePayload]
      /\ LeaseFree
  BY DEF Acquire, Acquirable
<1>2. UNCHANGED <<GatesPassed, AnswerFits, PastGate>>
  BY <1>1 DEF GatesPassed, AnswerFits, PastGate
<1>3. \A v \in Worker : pc[v] # "clearing"
  BY <1>1, TaskAssumption DEF ExecutingHoldsLease, Executing, LeaseFree
<1>4. /\ pc'[w] = "leased" /\ payload'[w] = resumePayload
      /\ \A v \in Worker \ {w} : pc'[v] = pc[v] /\ payload'[v] = payload[v]
  BY <1>1 DEF TypeOK
<1>5. AnswersFit'  BY <1>1, <1>2, <1>4 DEF AnswersInv, AnswersFit
<1>6. AnswersKept'  BY <1>1, <1>2, <1>3, <1>4 DEF AnswersInv, AnswersKept
<1>7. QED  BY <1>5, <1>6 DEF AnswersInv

\* The only executing delivery streams on, and the thread's answers fit what it did.
LEMMA AnswersAdvance ==
    ASSUME TypeOK, ExecutingHoldsLease, AnswersInv, NEW w \in Worker,
           pc[w] \in {"leased", "streaming", "researching"},
           pc' = [pc EXCEPT ![w] = "streaming"],
           UNCHANGED <<status, resumePayload, payload>>,
           PastGate' => PastGate \/ resumePayload # NoPayload,
           AnswersFit'
    PROVE  AnswersInv'
<1>1. pc[w] \in Executing /\ pc[w] \in Carrying  BY DEF Executing, Carrying
<1>2. \A v \in Worker \ {w} : pc[v] \notin Executing  BY <1>1, Alone
<1>3. pc'[w] = "streaming" /\ \A v \in Worker \ {w} : pc'[v] = pc[v]  BY DEF TypeOK
<1>4. AnswersKept'
  BY <1>1, <1>2, <1>3 DEF AnswersInv, AnswersKept, Executing, Carrying
<1>5. QED  BY <1>4 DEF AnswersInv

\* A thread is started, or started again, only where nothing was answered.
LEMMA StartFits ==
    ASSUME TypeOK, AnswersInv, NEW w \in Worker, StartGraph(w)
    PROVE  \/ UNCHANGED ckpt
           \/ /\ ckpt.next \in {"none", "end"} /\ ckpt'.next = "supervisor"
              /\ ckpt'.status = "pending" /\ GatesPassed <= 0 /\ UNCHANGED GatesPassed
<1>1. /\ pc[w] = "leased" /\ payload[w] = NoPayload
      /\ ckpt' = IF ckpt.next \in Node
                 THEN ckpt
                 ELSE [next |-> "supervisor", status |-> "pending", gate |-> ckpt.gate]
  BY DEF StartGraph, Advance
<1>2. ~PastGate  BY <1>1 DEF AnswersInv, AnswersKept
<1>3. CASE ckpt.next \notin Node
  <2>1. ckpt.next \in {"none", "end"} /\ ckpt.next # "gate"
    BY <1>3 DEF TypeOK, Checkpoint, Position, Node
  <2>2. GatesPassed \in Int /\ GatesPassed = ckpt.gate  BY <2>1, GatesAreCounted
  <2>3. /\ ckpt'.next = "supervisor" /\ ckpt'.status = "pending" /\ ckpt'.gate = ckpt.gate
    BY <1>1, <1>3
  <2>4. GatesPassed' = GatesPassed  BY <2>2, <2>3 DEF GatesPassed
  <2>5. GatesPassed <= 0  BY <1>2, <2>1, <2>2 DEF PastGate
  <2>6. QED  BY <2>1, <2>3, <2>4, <2>5
<1>4. QED  BY <1>1, <1>3

\* The answer a delivery holds takes its thread past a gate, or finds it past one.
LEMMA ResumeFits ==
    ASSUME TypeOK, AnswersInv, NEW w \in Worker, ResumeGraph(w)
    PROVE  /\ AnswerFits
           /\ \/ UNCHANGED ckpt
              \/ /\ ckpt.next = "gate" /\ \E d \in Decision : ckpt'.next = GateGoto[d]
                 /\ ckpt'.next # "gate" /\ ckpt'.status = "running" /\ GatesPassed' > 0
<1>1. /\ payload[w] # NoPayload
      /\ ckpt' = IF ckpt.next = "gate"
                 THEN [ckpt EXCEPT !.next = GateGoto[payload[w].action], !.status = "running"]
                 ELSE ckpt
  BY DEF ResumeGraph, Advance
<1>2. AnswerFits  BY <1>1 DEF AnswersInv, AnswersFit
<1>3. CASE ckpt.next = "gate"
  <2>1. payload[w].action \in Decision  BY <1>1 DEF TypeOK, Payload
  <2>2. /\ ckpt'.next = GateGoto[payload[w].action] /\ ckpt'.status = "running"
        /\ ckpt'.gate = ckpt.gate
    BY <1>1, <1>3 DEF TypeOK, Checkpoint
  <2>3. ckpt'.next # "gate"  BY <2>1, <2>2 DEF Decision, GateGoto
  <2>4. GatesPassed' = ckpt.gate  BY <2>2, <2>3 DEF GatesPassed
  <2>5. ckpt.gate > 0  BY <1>3 DEF AnswersInv, AnswersFit
  <2>6. QED  BY <1>2, <1>3, <2>1, <2>2, <2>3, <2>4, <2>5
<1>4. QED  BY <1>1, <1>2, <1>3

\* A delivery moves the thread: it starts it, resumes it or runs a node of it.
LEMMA AnswersThread ==
    ASSUME TypeOK, ExecutingHoldsLease, ThreadInv, AnswersInv, NEW w \in Worker,
           StartGraph(w) \/ ResumeGraph(w) \/ RunNode(w) \/ FinishResearch(w)
    PROVE  AnswersInv'
<1>1. /\ pc[w] \in {"leased", "streaming", "researching"}
      /\ pc' = [pc EXCEPT ![w] = "streaming"] /\ UNCHANGED <<status, resumePayload, payload>>
  <2>1. CASE StartGraph(w) \/ ResumeGraph(w)
    BY <2>1 DEF StartGraph, ResumeGraph, Advance, row
  <2>2. CASE RunNode(w) \/ FinishResearch(w)
    <3>1. /\ pc[w] \in {"streaming", "researching"} /\ pc' = [pc EXCEPT ![w] = "streaming"]
      BY <2>2 DEF RunNode, FinishResearch, TypeOK
    <3>2. \E node : NodeDone(w, node)  BY <2>2 DEF RunNode, FinishResearch
    <3>3. UNCHANGED <<status, resumePayload, payload>>  BY <3>2 DEF NodeDone, Advance, row
    <3>4. QED  BY <3>1, <3>3
  <2>3. QED  BY <2>1, <2>2
<1>2. status # "waiting_user"
  <2>1. pc[w] \in Executing /\ pc[w] # "clearing"  BY <1>1 DEF Executing
  <2>2. QED  BY <2>1 DEF ThreadInv, QuietRow
<1>3. CASE UNCHANGED ckpt
  <2>1. UNCHANGED <<GatesPassed, AnswerFits, PastGate>>
    BY <1>3 DEF GatesPassed, AnswerFits, PastGate
  <2>2. AnswersFit'  BY <1>1, <1>3, <2>1 DEF AnswersInv, AnswersFit
  <2>3. QED  BY <1>1, <2>1, <2>2, AnswersAdvance
<1>4. CASE StartGraph(w) /\ ~UNCHANGED ckpt
  <2>1. /\ ckpt.next \in {"none", "end"} /\ ckpt'.next = "supervisor"
        /\ GatesPassed <= 0 /\ UNCHANGED GatesPassed
    BY <1>4, StartFits
  <2>2. ~AnswerFits /\ ~PastGate'
    BY <2>1, GatesAreCounted DEF AnswerFits, PastGate
  <2>3. AnswersFit'  BY <1>1, <1>2, <2>1, <2>2 DEF AnswersInv, AnswersFit
  <2>4. QED  BY <1>1, <2>2, <2>3, AnswersAdvance
<1>5. CASE ResumeGraph(w) /\ ~UNCHANGED ckpt
  <2>1. ckpt'.next # "gate" /\ GatesPassed' > 0  BY <1>5, ResumeFits
  <2>2. AnswersFit'  BY <1>1, <1>2, <2>1 DEF AnswersFit, AnswerFits
  <2>3. payload[w] # NoPayload /\ pc[w] = "leased"  BY <1>5 DEF ResumeGraph
  <2>4. resumePayload # NoPayload  BY <2>3 DEF AnswersInv, AnswersKept, Carrying
  <2>5. QED  BY <1>1, <2>2, <2>4, AnswersAdvance
<1>6. CASE RunNode(w) \/ FinishResearch(w)
  <2>1. PICK node \in Node \ {"gate"} :
          /\ pc[w] \in {"streaming", "researching"} /\ graph[w].next = node /\ NodeDone(w, node)
    BY <1>6 DEF RunNode, FinishResearch, TypeOK, Node
  <2>2. /\ UNCHANGED GatesPassed /\ ckpt.next # "gate"
        /\ ckpt'.next = "gate" => ckpt'.gate > 0
    BY <2>1, NodePassesNoGate
  <2>3. (AnswerFits => AnswerFits') /\ (PastGate' => PastGate)
    BY <2>2 DEF AnswerFits, PastGate
  <2>4. AnswersFit'  BY <1>1, <1>2, <2>2, <2>3 DEF AnswersInv, AnswersFit
  <2>5. QED  BY <1>1, <2>3, <2>4, AnswersAdvance
<1>7. QED  BY <1>3, <1>4, <1>5, <1>6

\* A delivery writes its result, or clears the answer its run has used.
LEMMA AnswersSave ==
    ASSUME TypeOK, ExecutingHoldsLease, ThreadInv, AnswersInv, NEW w \in Worker,
           \/ SaveResult(w) \/ ClearResumePayload(w)
           \/ SaveCancelled(w) \/ SaveOverBudget(w) \/ SaveFailed(w)
    PROVE  AnswersInv'
<1>1. UNCHANGED <<ckpt, payload>>
  BY DEF SaveResult, ClearResumePayload, SaveCancelled, SaveOverBudget, SaveFailed,
         SaveTaskState
<1>2. UNCHANGED <<GatesPassed, AnswerFits, PastGate>>
  BY <1>1 DEF GatesPassed, AnswerFits, PastGate
<1>3. CASE SaveResult(w)
  <2>1. pc[w] = "saving" /\ final[w] = ckpt /\ ckpt.next \in {"gate", "end"}
    BY <1>3 DEF SaveResult, ThreadInv, GraphIsThread
  <2>2. /\ status' = ckpt.status /\ UNCHANGED resumePayload
        /\ pc'[w] \in {"clearing", "releasing"} /\ \A v \in Worker \ {w} : pc'[v] = pc[v]
    BY <1>3, <2>1 DEF SaveResult, SaveTaskState, TypeOK
  <2>3. ckpt.next = "gate" \/ status' \in Terminal
    BY <2>1, <2>2 DEF ThreadInv, CheckpointStatus, Terminal
  <2>4. AnswersFit'  BY <1>1, <1>2, <2>2 DEF AnswersInv, AnswersFit
  <2>5. AnswersKept'
    BY <1>1, <1>2, <2>2, <2>3 DEF AnswersInv, AnswersKept, PastGate, Carrying
  <2>6. QED  BY <2>4, <2>5 DEF AnswersInv
<1>4. CASE ClearResumePayload(w)
  <2>1. /\ pc[w] = "clearing" /\ resumePayload' = NoPayload /\ UNCHANGED status
        /\ pc'[w] = "releasing" /\ \A v \in Worker \ {w} : pc'[v] = pc[v]
    BY <1>4 DEF ClearResumePayload, TypeOK
  <2>2. \A v \in Worker \ {w} : pc[v] \notin Executing  BY <2>1, Alone DEF Executing
  <2>3. AnswersFit'  BY <1>1, <1>2, <2>1 DEF AnswersInv, AnswersFit
  <2>4. AnswersKept'
    BY <1>1, <1>2, <2>1, <2>2 DEF AnswersInv, AnswersKept, PastGate, Carrying, Executing
  <2>5. QED  BY <2>3, <2>4 DEF AnswersInv
<1>5. CASE SaveCancelled(w) \/ SaveOverBudget(w) \/ SaveFailed(w)
  <2>1. /\ status' \in Terminal /\ UNCHANGED resumePayload
        /\ pc'[w] \in {"releasing", "acking"} /\ \A v \in Worker \ {w} : pc'[v] = pc[v]
    BY <1>5 DEF SaveCancelled, SaveOverBudget, SaveFailed, SaveTaskState, TypeOK, Terminal
  <2>2. AnswersFit'  BY <1>1, <1>2, <2>1 DEF AnswersInv, AnswersFit, Terminal
  <2>3. AnswersKept'  BY <1>1, <1>2, <2>1 DEF AnswersInv, AnswersKept, Carrying
  <2>4. QED  BY <2>2, <2>3 DEF AnswersInv
<1>6. QED  BY <1>3, <1>4, <1>5

\* Every other step of a delivery leaves row, answer and thread alone.
LEMMA AnswersElsewhere ==
    ASSUME TypeOK, AnswersInv, NEW w \in Worker,
           \/ EnterResearch(w) \/ EndStream(w) \/ CancelSeen(w) \/ BudgetExceeded(w)
           \/ RunFails(w) \/ Release(w) \/ ReleaseFailed(w)
           \/ Ack(w) \/ Retry(w) \/ WorkerLost(w)
    PROVE  AnswersInv' /\ UNCHANGED ckpt
<1>1. CASE EnterResearch(w) \/ EndStream(w)
  <2>1. /\ UNCHANGED <<status, resumePayload, ckpt, payload>> /\ pc[w] = "streaming"
        /\ pc'[w] \in {"researching", "saving"} /\ \A v \in Worker \ {w} : pc'[v] = pc[v]
    BY <1>1 DEF EnterResearch, EndStream, TypeOK, row
  <2>2. QED  BY <2>1, AnswersStay DEF Carrying
<1>2. CASE CancelSeen(w) \/ BudgetExceeded(w) \/ RunFails(w) \/ Release(w) \/ ReleaseFailed(w)
  <2>1. /\ UNCHANGED <<status, resumePayload, ckpt, payload>>
        /\ pc'[w] \in {"cancelling", "overBudget", "failing", "acking", "retrying", "givingUp"}
        /\ \A v \in Worker \ {w} : pc'[v] = pc[v]
    BY <1>2 DEF CancelSeen, BudgetExceeded, RunFails, Raise, Release, ReleaseFailed,
                ReleaseTaskLease, TypeOK, row
  <2>2. QED  BY <2>1, AnswersStay DEF Carrying
<1>3. CASE Ack(w) \/ Retry(w) \/ WorkerLost(w)
  <2>1. UNCHANGED <<status, resumePayload, ckpt>> /\ Forget(w)
    BY <1>3 DEF Ack, Retry, WorkerLost, row
  <2>2. /\ pc'[w] = "idle" /\ payload'[w] = NoPayload
        /\ \A v \in Worker \ {w} : pc'[v] = pc[v] /\ payload'[v] = payload[v]
    BY <2>1 DEF Forget, TypeOK
  <2>3. QED  BY <2>1, <2>2, AnswersStay DEF Carrying
<1>4. QED  BY <1>1, <1>2, <1>3

\* What is neither a delivery's work nor the user's answer touches no answer.
LEMMA AnswersOutside ==
    ASSUME AnswersInv,
           \/ RequestCancel \/ LeaseExpires \/ UNCHANGED vars
           \/ \E d \in Dispatcher : \/ ReadRow(d) \/ SendMessage(d) \/ SendFails(d)
                                    \/ MarkDispatched(d) \/ DispatcherLost(d)
           \/ \E w \in Worker, a \in Attempt : Skip(w, a)
    PROVE  AnswersInv' /\ UNCHANGED ckpt
<1>1. UNCHANGED <<status, resumePayload, ckpt, pc, payload>>
  BY DEF RequestCancel, LeaseExpires, vars, ReadRow, SendMessage, SendFails, MarkDispatched,
         DispatcherLost, Skip, row, delivery
<1>2. QED  BY <1>1, AnswersStay

LEMMA AnswersStep ==
    TypeOK /\ ExecutingHoldsLease /\ ThreadInv /\ AnswersInv /\ [Next]_vars => AnswersInv'
BY AnswersOutside, AnswersElsewhere, AnswersSave, AnswersThread, AnswersAcquire, AnswersResume
DEF Next, DeliveryStep

\* The thread's steps are the graph's.
LEMMA ThreadNext ==
    TypeOK /\ ThreadInv /\ AnswersInv /\ [Next]_vars
        => [Thread!Next]_<<ckpt.next, ckpt.status, GatesPassed > 0>>
<1> SUFFICES ASSUME TypeOK, ThreadInv, AnswersInv, [Next]_vars
             PROVE  Thread!Next \/ UNCHANGED <<ckpt.next, ckpt.status, GatesPassed>>
  OBVIOUS
<1>1. CASE UNCHANGED ckpt  BY <1>1 DEF GatesPassed
<1>2. ASSUME NEW w \in Worker, StartGraph(w), ~UNCHANGED ckpt PROVE Thread!Next
  <2>1. /\ ckpt.next \in {"none", "end"} /\ ckpt'.next = "supervisor"
        /\ ckpt'.status = "pending" /\ GatesPassed <= 0 /\ UNCHANGED GatesPassed
    BY <1>2, StartFits
  <2>2. ~(GatesPassed > 0)  BY <2>1, GatesAreCounted
  <2>3. Thread!Start  BY <2>1, <2>2 DEF Thread!Start
  <2>4. QED  BY <2>3 DEF Thread!Next
<1>3. ASSUME NEW w \in Worker, ResumeGraph(w), ~UNCHANGED ckpt PROVE Thread!Next
  <2>1. /\ AnswerFits /\ ckpt.next = "gate" /\ \E d \in Decision : ckpt'.next = GateGoto[d]
        /\ ckpt'.status = "running" /\ GatesPassed' > 0
    BY <1>3, ResumeFits
  <2>2. Thread!Answered
    BY <2>1 DEF Thread!Answered, AnswerFits, Thread!Decision, Decision, Thread!GateGoto,
                GateGoto
  <2>3. QED  BY <2>2 DEF Thread!Next
<1>4. ASSUME NEW w \in Worker, RunNode(w) \/ FinishResearch(w)
      PROVE  Thread!Next
  <2>1. PICK node \in Node \ {"gate"} :
          /\ pc[w] \in {"streaming", "researching"} /\ graph[w].next = node /\ NodeDone(w, node)
    BY <1>4 DEF RunNode, FinishResearch, TypeOK, Node
  <2>2. /\ UNCHANGED GatesPassed /\ ckpt.next = node
        /\ \E o \in Outcomes[node] : ckpt'.next = o.next /\ ckpt'.status = o.status
    BY <2>1, NodePassesNoGate
  <2>3. ckpt'.next # node  BY <2>2, NextIsAnother
  <2>4. node \in DOMAIN Outcomes  BY DEF Outcomes, Node
  <2>5. Thread!Outcomes = Outcomes
    BY DEF Thread!Outcomes, Outcomes, Thread!SupervisorOutcomes, SupervisorOutcomes,
           Thread!AnswerOutcomes, AnswerOutcomes, Thread!PlannerOutcomes, PlannerOutcomes,
           Thread!ResearchOutcomes, ResearchOutcomes, Thread!ReviewOutcomes, ReviewOutcomes,
           Thread!FinalOutcomes, FinalOutcomes, Thread!FallbackOutcomes, FallbackOutcomes,
           Thread!Outcome, Outcome
  <2>6. Thread!Step
    BY <2>2, <2>3, <2>4, <2>5 DEF Thread!Step
  <2>7. QED  BY <2>6 DEF Thread!Next
<1>5. QED
  <2>1. ASSUME NEW w \in Worker,
               \/ SaveResult(w) \/ ClearResumePayload(w)
               \/ SaveCancelled(w) \/ SaveOverBudget(w) \/ SaveFailed(w)
        PROVE  UNCHANGED ckpt
    BY <2>1 DEF SaveResult, ClearResumePayload, SaveCancelled, SaveOverBudget, SaveFailed,
                SaveTaskState
  <2>2. ASSUME NEW w \in Worker, NEW a \in Attempt, Acquire(w, a) PROVE UNCHANGED ckpt
    BY <2>2 DEF Acquire
  <2>3. ASSUME NEW action \in Decision, RequestResume(action) PROVE UNCHANGED ckpt
    BY <2>3 DEF RequestResume
  <2>4. QED
    BY <1>1, <1>2, <1>3, <1>4, <2>1, <2>2, <2>3, AnswersOutside, AnswersElsewhere
    DEF Next, DeliveryStep

\* Through retries, redeliveries, duplicates, lost workers and used answers, the thread
\* does nothing the graph does not: what is shown of every run of AgentRun is shown of
\* it, and AgentGraph implements the same AgentRun.
THEOREM ThreadImplementsRun == ASSUME LeaseOutlivesRun PROVE Spec => ThreadSpec
<1>1. Init => AnswersInv /\ Thread!Init
  BY DEF Init, AnswersInv, AnswersFit, AnswersKept, PastGate, GatesPassed, Carrying, NoGraph,
         Thread!Init
<1>2. Spec => []ExecutingHoldsLease  BY LeaseProtects
<1>3. Spec => []ThreadInv  BY ThreadCorrect
<1>4. QED
  BY <1>1, <1>2, <1>3, AnswersStep, ThreadNext, TypeCorrect, PTL
  DEF Spec, ThreadSpec, Thread!Spec
-----------------------------------------------------------------------------
(* A running task is handed over, not dropped, while no worker is lost.    *)

\* A delivery that saved "running" and holds the lease keeps its thread at the
\* gate until it has released.
LEMMA SavedRunningStep ==
    TypeOK /\ ExecutingHoldsLease /\ ThreadInv /\ SavedRunningIsPaused /\ [Next]_vars
        => SavedRunningIsPaused'
<1> SUFFICES ASSUME TypeOK, ExecutingHoldsLease, ThreadInv, SavedRunningIsPaused, [Next]_vars
             PROVE  SavedRunningIsPaused'
  OBVIOUS
<1> USE DEF SavedRunningIsPaused
<1>1. ASSUME UNCHANGED <<status, leaseOwner, ckpt>>,
             \A v \in Worker : pc'[v] \in {"clearing", "releasing"}
                                 => pc[v] \in {"clearing", "releasing"}
      PROVE  SavedRunningIsPaused'
  BY <1>1
<1>2. ASSUME status' # "running" PROVE SavedRunningIsPaused'
  BY <1>2
<1>3. ASSUME NEW w \in Worker, leaseOwner' = w, pc'[w] \notin {"clearing", "releasing"}
      PROVE  SavedRunningIsPaused'
  BY <1>3
<1>4. ASSUME NEW w \in Worker, NEW a \in Attempt, Acquire(w, a) PROVE SavedRunningIsPaused'
  BY <1>4, <1>3 DEF Acquire, TypeOK
<1>5. ASSUME NEW w \in Worker,
             StartGraph(w) \/ ResumeGraph(w) \/ RunNode(w) \/ EnterResearch(w)
               \/ FinishResearch(w) \/ EndStream(w) \/ CancelSeen(w) \/ BudgetExceeded(w)
      PROVE  SavedRunningIsPaused'
  <2>1. pc[w] \in Executing
    BY <1>5 DEF StartGraph, ResumeGraph, RunNode, EnterResearch, FinishResearch, EndStream,
                CancelSeen, BudgetExceeded, Executing
  <2>2. leaseOwner' = leaseOwner
    BY <1>5 DEF StartGraph, ResumeGraph, RunNode, NodeDone, EnterResearch, FinishResearch,
                EndStream, CancelSeen, BudgetExceeded, Advance, Raise, row
  <2>3. pc'[w] \in {"streaming", "researching", "saving", "cancelling", "overBudget"}
    BY <1>5 DEF TypeOK, StartGraph, ResumeGraph, RunNode, EnterResearch, FinishResearch,
                EndStream, CancelSeen, BudgetExceeded, Raise
  <2>4. QED  BY <1>3, <2>1, <2>2, <2>3 DEF ExecutingHoldsLease
<1>6. ASSUME NEW w \in Worker, SaveResult(w) PROVE SavedRunningIsPaused'
  <2>1. final[w] = ckpt /\ ckpt.next \in {"gate", "end"} /\ leaseOwner = w
    BY <1>6 DEF SaveResult, ThreadInv, GraphIsThread, ExecutingHoldsLease, Executing
  <2>2. status' = ckpt.status /\ leaseOwner' = leaseOwner /\ ckpt' = ckpt
    BY <1>6, <2>1 DEF SaveResult, SaveTaskState
  <2>3. ckpt.status = "running" => ckpt.next = "gate"
    BY <2>1 DEF ThreadInv, CheckpointStatus
  <2>4. QED  BY <2>2, <2>3
<1>7. ASSUME NEW w \in Worker, SaveCancelled(w) \/ SaveOverBudget(w) \/ SaveFailed(w)
      PROVE  SavedRunningIsPaused'
  BY <1>7, <1>2 DEF SaveCancelled, SaveOverBudget, SaveFailed, SaveTaskState
<1>8. ASSUME NEW w \in Worker, RunFails(w) \/ ClearResumePayload(w) \/ Ack(w) \/ Retry(w)
      PROVE  SavedRunningIsPaused'
  BY <1>8, <1>1 DEF TypeOK, RunFails, Raise, ClearResumePayload, Ack, Retry, Forget, row
<1>9. ASSUME NEW w \in Worker, Release(w) \/ ReleaseFailed(w) PROVE SavedRunningIsPaused'
  BY <1>9, TaskAssumption DEF TypeOK, Release, ReleaseFailed, ReleaseTaskLease
<1>10. ASSUME NEW w \in Worker, WorkerLost(w) PROVE SavedRunningIsPaused'
  BY <1>10, TaskAssumption DEF TypeOK, WorkerLost, Forget
<1>11. QED
  <2>1. CASE RequestCancel \/ LeaseExpires \/ UNCHANGED vars
    BY <2>1, <1>1 DEF RequestCancel, LeaseExpires, vars, row, delivery
  <2>2. ASSUME NEW action \in Decision, RequestResume(action) PROVE SavedRunningIsPaused'
    BY <2>2, <1>2 DEF RequestResume
  <2>3. ASSUME NEW d \in Dispatcher,
               ReadRow(d) \/ SendMessage(d) \/ SendFails(d) \/ MarkDispatched(d)
                 \/ DispatcherLost(d)
        PROVE  SavedRunningIsPaused'
    BY <2>3, <1>1 DEF ReadRow, SendMessage, SendFails, MarkDispatched, DispatcherLost,
                      row, delivery
  <2>4. ASSUME NEW w \in Worker, NEW a \in Attempt, Skip(w, a) PROVE SavedRunningIsPaused'
    BY <2>4, <1>1 DEF Skip, row, delivery
  <2>5. QED
    BY <1>4, <1>5, <1>6, <1>7, <1>8, <1>9, <1>10, <2>1, <2>2, <2>3, <2>4
    DEF Next, DeliveryStep

\* The delivery that a skipped message would have duplicated goes on.
LEMMA SkipLeavesDriver ==
    ASSUME TypeOK, NoLeakedLease, SavedRunningIsPaused, leaseOwner # Gone, ~Acquirable,
           status = "running", ~cancelRequested, ckpt.next # "gate"
    PROVE  \E v \in Worker : \/ pc[v] \in Executing \ {"clearing"}
                             \/ pc[v] \in {"failing", "retrying", "givingUp"}
<1>1. leaseOwner \in Worker
  BY DEF TypeOK, Owner, Acquirable, LeaseFree, Terminal
<1>2. pc[leaseOwner] \in Phase \ {"idle", "acking", "retrying", "givingUp"}
  BY <1>1 DEF TypeOK, NoLeakedLease
<1>3. pc[leaseOwner] \notin {"clearing", "releasing"}
  BY <1>1 DEF SavedRunningIsPaused
<1>4. QED  BY <1>1, <1>2, <1>3 DEF Phase, Executing

\* Every action hands an unfinished run to a message or to a delivery.
LEMMA HandsOverStep ==
    TypeOK /\ NoLeakedLease /\ ExecutingHoldsLease /\ ThreadInv /\ SavedRunningIsPaused
      /\ HandsOver /\ [Next]_vars => HandsOver'
<1> SUFFICES ASSUME TypeOK, NoLeakedLease, ExecutingHoldsLease, ThreadInv,
                    SavedRunningIsPaused, HandsOver, [Next]_vars
             PROVE  HandsOver'
  OBVIOUS
<1> DEFINE Going(p) == p \in Executing \ {"clearing"} \/ p \in {"failing", "retrying", "givingUp"}
<1> USE DEF HandsOver
<1>1. ASSUME UNCHANGED <<status, leaseOwner, ckpt, crashes, queue, pc, cancelRequested>>
      PROVE  HandsOver'
  BY <1>1
<1>2. ASSUME crashes' = crashes, leaseOwner' # Gone \/ leaseOwner' = leaseOwner,
             \/ status' # "running"
             \/ cancelRequested'
             \/ ckpt'.next = "gate"
             \/ \E a \in Attempt : queue'[a] > 0
             \/ \E v \in Worker : Going(pc'[v])
      PROVE  HandsOver'
  BY <1>2
<1>3. ASSUME NEW w \in Worker, UNCHANGED <<status, cancelRequested, ckpt, crashes, queue>>,
             leaseOwner' # Gone \/ leaseOwner' = leaseOwner,
             ~Going(pc[w]), \A v \in Worker \ {w} : pc'[v] = pc[v]
      PROVE  HandsOver'
  BY <1>3
<1>4. ASSUME NEW d \in Dispatcher, SendMessage(d) PROVE HandsOver'
  <2>1. queue'[0] > 0  BY <1>4, BaseTypes DEF SendMessage, TypeOK
  <2>2. QED  BY <1>4, <1>2, <2>1, BaseTypes DEF SendMessage, row
<1>5. ASSUME NEW d \in Dispatcher, DispatcherLost(d) PROVE HandsOver'
  BY <1>5 DEF DispatcherLost, TypeOK
<1>6. ASSUME NEW w \in Worker, NEW a \in Attempt, Acquire(w, a) PROVE HandsOver'
  <2>1. Going(pc'[w]) /\ leaseOwner' = w /\ crashes' = crashes
    BY <1>6 DEF Acquire, TypeOK, Executing
  <2>2. QED  BY <1>2, <2>1, TaskAssumption
<1>7. ASSUME NEW w \in Worker, NEW a \in Attempt, Skip(w, a) PROVE HandsOver'
  <2>1. UNCHANGED <<status, cancelRequested, leaseOwner, ckpt, crashes, pc>> /\ ~Acquirable
    BY <1>7 DEF Skip, row, delivery
  <2>2. QED  BY <2>1, SkipLeavesDriver
<1>8. ASSUME NEW w \in Worker,
             StartGraph(w) \/ ResumeGraph(w) \/ RunNode(w) \/ EnterResearch(w)
               \/ FinishResearch(w) \/ EndStream(w) \/ CancelSeen(w) \/ BudgetExceeded(w)
      PROVE  HandsOver'
  <2>1. leaseOwner' = leaseOwner /\ crashes' = crashes
    BY <1>8 DEF StartGraph, ResumeGraph, RunNode, NodeDone, EnterResearch, FinishResearch,
                EndStream, CancelSeen, BudgetExceeded, Advance, Raise, row
  <2>2. Going(pc'[w])
    BY <1>8 DEF TypeOK, StartGraph, ResumeGraph, RunNode, EnterResearch, FinishResearch,
                EndStream, CancelSeen, BudgetExceeded, Raise, Executing
  <2>3. QED  BY <1>2, <2>1, <2>2
<1>9. ASSUME NEW w \in Worker, RunFails(w) \/ ReleaseFailed(w) PROVE HandsOver'
  <2>1. crashes' = crashes /\ (leaseOwner' # Gone \/ leaseOwner' = leaseOwner)
    BY <1>9, TaskAssumption DEF RunFails, Raise, ReleaseFailed, ReleaseTaskLease, row
  <2>2. Going(pc'[w])
    BY <1>9 DEF TypeOK, RunFails, Raise, ReleaseFailed, ReleaseTaskLease
  <2>3. QED  BY <1>2, <2>1, <2>2
<1>10. ASSUME NEW w \in Worker, SaveResult(w) PROVE HandsOver'
  <2>1. final[w] = ckpt /\ ckpt.next \in {"gate", "end"}
    BY <1>10 DEF SaveResult, ThreadInv, GraphIsThread
  <2>2. UNCHANGED <<leaseOwner, ckpt, crashes>> /\ status' = ckpt.status
    BY <1>10, <2>1 DEF SaveResult, SaveTaskState
  <2>3. status' # "running" \/ ckpt'.next = "gate"
    BY <2>1, <2>2 DEF ThreadInv, CheckpointStatus
  <2>4. QED  BY <1>2, <2>2, <2>3
<1>11. ASSUME NEW w \in Worker, SaveCancelled(w) \/ SaveOverBudget(w) \/ SaveFailed(w)
       PROVE  HandsOver'
  BY <1>11, <1>2 DEF SaveCancelled, SaveOverBudget, SaveFailed, SaveTaskState
<1>12. ASSUME NEW w \in Worker, ClearResumePayload(w) \/ Release(w) \/ Ack(w) PROVE HandsOver'
  <2>1. ~Going(pc[w])  BY <1>12 DEF ClearResumePayload, Release, Ack, Executing
  <2>2. /\ UNCHANGED <<status, cancelRequested, ckpt, crashes, queue>>
        /\ leaseOwner' # Gone \/ leaseOwner' = leaseOwner
        /\ \A v \in Worker \ {w} : pc'[v] = pc[v]
    BY <1>12, TaskAssumption
    DEF TypeOK, ClearResumePayload, Release, ReleaseTaskLease, Ack, Forget, row
  <2>3. QED  BY <1>3, <2>1, <2>2
<1>13. ASSUME NEW w \in Worker, Retry(w) PROVE HandsOver'
  <2>1. attempt[w] + 1 \in Attempt  BY <1>13, BaseTypes DEF TypeOK, Retry, Attempt
  <2>2. queue'[attempt[w] + 1] > 0  BY <1>13, <2>1 DEF TypeOK, Retry
  <2>3. UNCHANGED <<leaseOwner, crashes>>  BY <1>13 DEF Retry, row
  <2>4. QED  BY <1>2, <2>1, <2>2, <2>3
<1>14. ASSUME NEW w \in Worker, WorkerLost(w) PROVE HandsOver'
  BY <1>14 DEF WorkerLost, TypeOK
<1>15. QED
  <2>1. CASE LeaseExpires \/ UNCHANGED vars
    BY <2>1, <1>1 DEF LeaseExpires, vars, row, delivery
  <2>2. CASE RequestCancel
    BY <2>2, <1>2 DEF RequestCancel
  <2>3. ASSUME NEW action \in Decision, RequestResume(action) PROVE HandsOver'
    BY <2>3, <1>2 DEF RequestResume
  <2>4. ASSUME NEW d \in Dispatcher, ReadRow(d) \/ SendFails(d) \/ MarkDispatched(d)
        PROVE  HandsOver'
    BY <2>4, <1>1 DEF ReadRow, SendFails, MarkDispatched, row, delivery
  <2>5. QED
    BY <1>4, <1>5, <1>6, <1>7, <1>8, <1>9, <1>10, <1>11, <1>12, <1>13, <1>14,
       <2>1, <2>2, <2>3, <2>4
    DEF Next, DeliveryStep

\* While no worker is lost, no path through retries, skips and duplicate
\* deliveries drops the last message of a run that is not over.
THEOREM RunIsHandedOver == ASSUME LeaseOutlivesRun PROVE Spec => []RunningIsDriven
<1>1. Init => SavedRunningIsPaused /\ HandsOver
  BY TaskAssumption DEF Init, SavedRunningIsPaused, HandsOver
<1>2. HandsOver => RunningIsDriven
  BY DEF HandsOver, RunningIsDriven, Driven, Executing
<1>3. Spec => []ThreadInv /\ []ExecutingHoldsLease  BY ThreadCorrect, LeaseProtects
<1>4. QED
  BY <1>1, <1>2, <1>3, SavedRunningStep, HandsOverStep, TypeCorrect, LeaseIsReleased,
     PTL DEF Spec
=============================================================================
