------------------------------ MODULE AgentRun ------------------------------
(***************************************************************************)
(* The agent graph as its callers see it: a thread that stands at a node   *)
(* with a status and moves along the routes of AgentRoutes.  AgentTask     *)
(* runs this graph under leases and retries; AgentGraph implements it with *)
(* the plan, the tools, the evidence and the verdict each route depends on.*)
(***************************************************************************)
EXTENDS AgentRoutes

VARIABLES node, status,
          answered   \* the user has answered a gate of the thread

Init ==
    /\ node = "none"
    /\ status = "pending"
    /\ ~answered

\* A thread starts, also a second time when its end was not saved; with an answer it is
\* resumed instead.
Start ==
    /\ node \in {"none", "end"}
    /\ ~answered
    /\ node' = "supervisor"
    /\ status' = "pending"
    /\ UNCHANGED answered

\* No node follows itself.
Step ==
    /\ node' # node
    /\ node \in DOMAIN Outcomes
    /\ \E o \in Outcomes[node] : node' = o.next /\ status' = o.status
    /\ UNCHANGED answered

\* A gate is answered when its user has seen it, or by an answer that was used before
\* and is given again after a failure.
Answered ==
    /\ node = "gate"
    /\ status = "waiting_user" \/ answered
    /\ \E d \in Decision : node' = GateGoto[d]
    /\ status' = "running"
    /\ answered'

Next == Start \/ Step \/ Answered

Spec == Init /\ [][Next]_<<node, status, answered>>
=============================================================================
