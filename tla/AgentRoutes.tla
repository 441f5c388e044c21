---------------------------- MODULE AgentRoutes ----------------------------
(***************************************************************************)
(* The routes of the LangGraph agent graph (deerflow/runtime.py): its      *)
(* nodes, what each node may write to "status" and which node the route    *)
(* function then selects.  AgentTask runs this graph under leases, crashes *)
(* and human turns.                                                        *)
(***************************************************************************)

\* The nodes added by build_agent_graph.
Node == {"supervisor", "answer", "planner", "gate", "research", "review",
         "final", "fallback"}

\* What the checkpoint may name as next: "none" before the first checkpoint
\* of the thread exists, "end" after END.
Position == Node \cup {"none", "end"}

\* schemas.TaskStatus.
Status == {"pending", "running", "waiting_user", "completed", "failed", "cancelled"}

Terminal == {"completed", "failed", "cancelled"}

\* The answers ResumeAgentTaskRequest allows.
Decision == {"approve", "edit", "reject"}

Outcome(next, status) == [next |-> next, status |-> status]

\* For each node that does not wait for a human: the next node its route
\* function may choose, with the status the node wrote.
SupervisorOutcomes == {Outcome("answer", "running"), Outcome("planner", "running")}
AnswerOutcomes == {Outcome("final", "running"), Outcome("fallback", "running")}
PlannerOutcomes == {Outcome("gate", "waiting_user"), Outcome("research", "running")}

\* The loop ends with a deliverable, a question, or nothing; budget spent at
\* entry is the one that writes "failed".
ResearchOutcomes == {Outcome("review", "running"), Outcome("gate", "running"),
                     Outcome("fallback", "running"), Outcome("fallback", "failed")}
ReviewOutcomes == {Outcome("final", "running"), Outcome("gate", "running"),
                   Outcome("fallback", "running")}
FinalOutcomes == {Outcome("end", "completed")}
FallbackOutcomes == {Outcome("end", "completed")}

Outcomes == [ supervisor |-> SupervisorOutcomes,
              answer     |-> AnswerOutcomes,
              planner    |-> PlannerOutcomes,
              research   |-> ResearchOutcomes,
              review     |-> ReviewOutcomes,
              final      |-> FinalOutcomes,
              fallback   |-> FallbackOutcomes ]

\* Mutation: an edited plan goes to a node that does not exist.
GotoUnknownNode == [approve |-> "research", edit |-> "plan", reject |-> "fallback"]

\* Where _approval_gate sends the graph after each human decision.
GateGoto == [approve |-> "research", edit |-> "planner", reject |-> "fallback"]
=============================================================================
