-------------------------- MODULE AgentGraphProofs --------------------------
(***************************************************************************)
(* For any budget, any plans and any number of repairs, edits and crashes: *)
(* the detailed graph takes only the routes of AgentRun, the graph that    *)
(* AgentTask runs under leases and retries; its research stays within the  *)
(* tool-call budget; a stored call is final and answers the round it is    *)
(* replayed in; and a proposal is published with evidence that passed.     *)
(***************************************************************************)
EXTENDS AgentGraph, FiniteSetTheorems, TLAPS

-----------------------------------------------------------------------------
(* The routes.                                                             *)

\* Work on research is under way only at the research node.
AtResearch == phase # Idle => node = "research"

LEMMA AtResearchNext == AtResearch /\ [Next]_vars => AtResearch'
  <1> SUFFICES ASSUME AtResearch, [Next]_vars
               PROVE  AtResearch'
    OBVIOUS
  <1>1. CASE NodeStep \/ ApprovalGate \/ AnswerAgain \/ Restart
    BY <1>1 DEF NodeStep, Start, Supervisor, AnswerAgent, PlannerAgent, ReviewAgent,
                FinalResponse, FallbackResponse, ApprovalGate, AnswerAgain, Restart, Running, local,
                AtResearch
  <1>2. CASE EnterResearch
    <2>1. node = "research" /\ phase = Idle
      BY <1>2 DEF EnterResearch, Running
    <2>2. UNCHANGED node \/ UNCHANGED phase
      BY <1>2 DEF EnterResearch, local
    <2> QED
      BY <2>1, <2>2 DEF AtResearch
  <1>3. CASE ChooseSources \/ CallTool \/ SaveCall \/ PlanLocalRepair \/ Propose \/ Verify
    BY <1>3 DEF ChooseSources, CallTool, SaveCall, PlanLocalRepair, Propose, Verify, Unwind,
                Managing, AtResearch, Idle
  <1>4. CASE Decide
    BY <1>4 DEF Decide, FinishResearch, LeaveLocal, ScheduleRepair, Unwind, AtResearch, Idle
  <1>5. CASE Stop \/ Crash
    BY <1>5 DEF Stop, Crash, LeaveLocal, AtResearch
  <1>6. ASSUME NEW k \in DOMAIN web, WebCall(k) \/ WebSave(k) \/ JoinWeb(k)
        PROVE  AtResearch'
    BY <1>6 DEF WebCall, WebSave, JoinWeb, Unwind, AtResearch, Idle
  <1>7. CASE RequestCancel \/ DeadlinePasses
    BY <1>7 DEF RequestCancel, DeadlinePasses, local, AtResearch
  <1>8. CASE UNCHANGED vars
    BY <1>8 DEF vars, local, AtResearch
  <1> QED
    BY <1>1, <1>2, <1>3, <1>4, <1>5, <1>6, <1>7, <1>8 DEF Next, ResearchStep

\* The end of the research node is one of its three routes.
\* What the gate was answered last is an answer.
LEMMA ApprovalNext ==
    approval \in Decision \cup {"none"} /\ [Next]_vars => approval' \in Decision \cup {"none"}
  <1> SUFFICES ASSUME [Next]_vars
               PROVE  UNCHANGED approval \/ approval' \in Decision
    OBVIOUS
  <1>1. CASE ApprovalGate
    BY <1>1 DEF ApprovalGate
  <1>2. CASE NodeStep \/ AnswerAgain \/ Restart \/ EnterResearch
    BY <1>2 DEF NodeStep, Start, Supervisor, AnswerAgent, PlannerAgent, ReviewAgent,
                FinalResponse, FallbackResponse, AnswerAgain, Restart, EnterResearch, channels
  <1>3. CASE ChooseSources \/ CallTool \/ SaveCall \/ PlanLocalRepair \/ Propose \/ Verify
                \/ Decide \/ Stop \/ Crash
    BY <1>3 DEF ChooseSources, CallTool, SaveCall, PlanLocalRepair, Propose, Verify, Decide,
                Stop, Crash, channels
  <1>4. ASSUME NEW k \in DOMAIN web, WebCall(k) \/ WebSave(k) \/ JoinWeb(k)
        PROVE  UNCHANGED approval
    BY <1>4 DEF WebCall, WebSave, JoinWeb, channels
  <1>5. CASE RequestCancel \/ DeadlinePasses \/ UNCHANGED vars
    BY <1>5 DEF RequestCancel, DeadlinePasses, vars, channels
  <1> QED
    BY <1>1, <1>2, <1>3, <1>4, <1>5 DEF Next, ResearchStep

Routed ==
    /\ AtResearch
    /\ approval \in Decision \cup {"none"}
    /\ node = "none" => approval = "none"

LEMMA ResearchRoutes ==
    ASSUME NEW action \in {"complete", "ask_user", "fallback"}, NEW count,
           node = "research", FinishResearch(action, count), UNCHANGED approval
    PROVE  Run!Step
  <1>1. /\ status' = "running"
        /\ node' \in {"review", "gate", "fallback"}
    BY DEF FinishResearch, StatusAfterResearch
  <1> QED
    BY <1>1 DEF Run!Step, Run!Outcomes, Run!ResearchOutcomes, Run!Outcome

LEMMA RunNext == Routed /\ [Next]_vars => [Run!Next]_<<node, status, approval # "none">>
  <1> SUFFICES ASSUME Routed, [Next]_vars
               PROVE  Run!Next \/ UNCHANGED <<node, status, approval>>
    OBVIOUS
  <1> USE DEF Run!Next
  <1>1. CASE Start \/ Restart
    <2>1. /\ node = "none" \/ (node = "end" /\ approval = "none")
          /\ node' = "supervisor" /\ status' = "pending" /\ UNCHANGED approval
      BY <1>1 DEF Start, Restart, channels
    <2>2. approval = "none"
      BY <2>1 DEF Routed
    <2> QED
      BY <2>1, <2>2 DEF Run!Start
  <1>2. CASE Supervisor
    <2>1. /\ node = "supervisor" /\ status' = "running" /\ node' \in {"answer", "planner"}
          /\ UNCHANGED approval
      BY <1>2 DEF Supervisor, SupervisorRoutes, channels
    <2> QED
      BY <2>1 DEF Run!Step, Run!Outcomes, Run!SupervisorOutcomes, Run!Outcome
  <1>3. CASE AnswerAgent
    <2>1. /\ node = "answer" /\ status' = "running" /\ node' \in {"final", "fallback"}
          /\ UNCHANGED approval
      BY <1>3 DEF AnswerAgent
    <2> QED
      BY <2>1 DEF Run!Step, Run!Outcomes, Run!AnswerOutcomes, Run!Outcome
  <1>4. CASE PlannerAgent
    <2>1. CASE UNCHANGED <<node, status, approval>>
      BY <2>1
    <2>2. CASE /\ node = "planner" /\ UNCHANGED approval
               /\ \/ node' = "gate" /\ status' = "waiting_user"
                  \/ node' = "research" /\ status' = "running"
      <3>1. Run!Step
        BY <2>2 DEF Run!Step, Run!Outcomes, Run!PlannerOutcomes, Run!Outcome
      <3> QED
        BY <3>1
    <2> QED
      BY <1>4, <2>1, <2>2 DEF PlannerAgent
  <1>5. CASE ApprovalGate
    <2>1. PICK action \in Decision : approval' = action /\ node' = GateGoto[action]
      BY <1>5 DEF ApprovalGate
    <2>2. node = "gate" /\ status = "waiting_user" /\ status' = "running"
      BY <1>5 DEF ApprovalGate
    <2>3. approval' # "none"
      BY <2>1 DEF Decision
    <2> QED
      BY <2>1, <2>2, <2>3 DEF Run!Answered, GateGoto, Run!GateGoto, Decision, Run!Decision
  <1>5a. CASE AnswerAgain
    <2>1. /\ node = "gate" /\ approval # "none" /\ node' = GateGoto[approval]
          /\ status' = "running" /\ UNCHANGED approval
      BY <1>5a DEF AnswerAgain, channels
    <2>2. approval \in Decision
      BY <2>1 DEF Routed
    <2> QED
      BY <2>1, <2>2 DEF Run!Answered, GateGoto, Run!GateGoto, Decision, Run!Decision
  <1>6. CASE ReviewAgent
    <2>1. /\ node = "review" /\ status' = "running" /\ node' \in {"gate", "final", "fallback"}
          /\ UNCHANGED approval
      BY <1>6 DEF ReviewAgent
    <2> QED
      BY <2>1 DEF Run!Step, Run!Outcomes, Run!ReviewOutcomes, Run!Outcome
  <1>7. CASE FinalResponse
    BY <1>7 DEF FinalResponse, Run!Step, Run!Outcomes, Run!FinalOutcomes, Run!Outcome
  <1>8. CASE FallbackResponse
    BY <1>8 DEF FallbackResponse, Run!Step, Run!Outcomes, Run!FallbackOutcomes, Run!Outcome
  <1>9. CASE EnterResearch
    <2>1. CASE UNCHANGED <<node, status, approval>>
      BY <2>1
    <2>2. CASE /\ node = "research" /\ node' = "fallback" /\ status' = "failed"
               /\ UNCHANGED approval
      <3>1. Run!Step
        BY <2>2 DEF Run!Step, Run!Outcomes, Run!ResearchOutcomes, Run!Outcome
      <3> QED
        BY <3>1
    <2> QED
      BY <1>9, <2>1, <2>2 DEF EnterResearch
  <1>10. CASE Decide
    <2>1. node = "research" /\ UNCHANGED approval
      BY <1>10 DEF Decide, Routed, AtResearch, Idle
    <2>2. \/ UNCHANGED <<node, status, approval>>
          \/ \E action \in {"complete", "ask_user", "fallback"},
                count \in {work.count, work.count + 1} : FinishResearch(action, count)
      BY <1>10 DEF Decide, ScheduleRepair, Unwind
    <2> QED
      BY <2>1, <2>2, ResearchRoutes
  <1>11. CASE ChooseSources \/ CallTool \/ SaveCall \/ PlanLocalRepair \/ Propose \/ Verify
                \/ Stop \/ Crash
    BY <1>11 DEF ChooseSources, CallTool, SaveCall, PlanLocalRepair, Propose, Verify, Stop, Crash,
                 channels
  <1>12. ASSUME NEW k \in DOMAIN web, WebCall(k) \/ WebSave(k) \/ JoinWeb(k)
         PROVE  UNCHANGED <<node, status, approval>>
    BY <1>12 DEF WebCall, WebSave, JoinWeb, channels
  <1>13. CASE RequestCancel \/ DeadlinePasses \/ UNCHANGED vars
    BY <1>13 DEF RequestCancel, DeadlinePasses, vars, channels
  <1> QED
    BY <1>1, <1>2, <1>3, <1>4, <1>5, <1>5a, <1>6, <1>7, <1>8, <1>9, <1>10, <1>11, <1>12, <1>13
       DEF Next, NodeStep, ResearchStep

\* No route leads back to before the start.
LEMMA RunGoesOn ==
    Routed /\ [Run!Next]_<<node, status, approval # "none">> => (node' = "none" => approval' = "none")
  <1> SUFFICES ASSUME Routed, [Run!Next]_<<node, status, approval # "none">>, node' = "none"
               PROVE  approval' = "none"
    OBVIOUS
  <1>1. ~Run!Start
    BY DEF Run!Start
  <1>2. ~Run!Step
    BY DEF Run!Step, Run!Outcomes, Run!Outcome, Run!SupervisorOutcomes, Run!AnswerOutcomes,
           Run!PlannerOutcomes, Run!ResearchOutcomes, Run!ReviewOutcomes, Run!FinalOutcomes,
           Run!FallbackOutcomes
  <1>3. ~Run!Answered
    BY DEF Run!Answered, Run!GateGoto, Run!Decision
  <1>4. UNCHANGED <<node, approval # "none">>
    BY <1>1, <1>2, <1>3 DEF Run!Next
  <1> QED
    BY <1>4 DEF Routed

\* Every step of the detailed graph, whatever the models answer and wherever a delivery
\* dies, is one that AgentRoutes allows: what is shown of AgentTask's graph is shown of
\* this one (the route functions of build_agent_graph).
THEOREM GraphImplementsRun == Spec => RunSpec
  <1>1. Init => Routed /\ Run!Init
    BY DEF Init, Routed, AtResearch, Run!Init
  <1>2. Routed /\ [Next]_vars => Routed'
    BY AtResearchNext, ApprovalNext, RunNext, RunGoesOn DEF Routed
  <1> QED
    BY <1>1, <1>2, RunNext, PTL DEF Spec, RunSpec, Run!Spec
-----------------------------------------------------------------------------
(* The budget.                                                             *)

LEMMA BudgetInit == Init => BudgetByPhase
  BY DEF Init, BudgetByPhase, BudgetIsKept, NoWork, Idle

LEMMA SourcesAreFinite ==
    ASSUME NEW chosen \in SUBSET Source
    PROVE  IsFiniteSet(chosen)
  <1>1. IsFiniteSet({"rag"})
    BY FS_Singleton
  <1>2. IsFiniteSet({"rag"} \cup {"web"})
    BY <1>1, FS_AddElement
  <1>3. IsFiniteSet(({"rag"} \cup {"web"}) \cup {"github"})
    BY <1>2, FS_AddElement
  <1>4. IsFiniteSet((({"rag"} \cup {"web"}) \cup {"github"}) \cup {"repair"})
    BY <1>3, FS_AddElement
  <1>5. chosen \subseteq (({"rag"} \cup {"web"}) \cup {"github"}) \cup {"repair"}
    BY DEF Source
  <1> QED
    BY <1>4, <1>5, FS_Subset

LEMMA BudgetIdle ==
    ASSUME BudgetByPhase, phase' = Idle, artifacts' \in Nat, work' \in {work, NoWork}
    PROVE  BudgetByPhase'
  BY DEF BudgetByPhase, BudgetIsKept, NoWork, Idle

\* Calls that are made while the total stays the same.
LEMMA BudgetStays ==
    ASSUME BudgetByPhase, UNCHANGED artifacts, "count" \in DOMAIN work', work'.count = work.count,
           \/ phase' = phase
           \/ phase' = "unwinding" /\ phase # Idle
           \/ phase' \in {"gather", "repairing"} /\ phase \in {"choose", "gather"}
    PROVE  BudgetByPhase'
  BY GraphAssumption DEF BudgetByPhase, BudgetIsKept, Total, Idle

LEMMA BudgetNode ==
    ASSUME BudgetByPhase, NodeStep \/ ApprovalGate \/ AnswerAgain \/ Restart
    PROVE  BudgetByPhase'
  <1>1. phase' = Idle /\ UNCHANGED work
    BY DEF NodeStep, Start, Supervisor, AnswerAgent, PlannerAgent, ReviewAgent,
           FinalResponse, FallbackResponse, ApprovalGate, AnswerAgain, Restart, Running, local
  <1>2. artifacts \in Nat
    BY DEF BudgetByPhase
  <1>3. CASE AnswerAgent
    <2>1. PICK chosen \in AnswerTools : artifacts' = artifacts + Cardinality(chosen)
      BY <1>3 DEF AnswerAgent
    <2>2. chosen \subseteq Source
      BY DEF AnswerTools, Source
    <2>3. IsFiniteSet(chosen)
      BY <2>2, SourcesAreFinite
    <2> QED
      BY <1>1, <1>2, <2>1, <2>3, FS_CardinalityType, BudgetIdle
  <1>4. CASE PlannerAgent
    BY <1>1, <1>2, <1>4, BudgetIdle DEF PlannerAgent
  <1>5. CASE ~(AnswerAgent \/ PlannerAgent)
    <2>1. UNCHANGED artifacts
      BY <1>5 DEF NodeStep, Start, Supervisor, ReviewAgent, FinalResponse, FallbackResponse,
                  ApprovalGate, AnswerAgain, Restart, channels
    <2> QED
      BY <1>1, <1>2, <2>1, BudgetIdle
  <1> QED
    BY <1>3, <1>4, <1>5

\* Research begins below the budget, with nothing counted.
LEMMA BudgetEnter ==
    ASSUME BudgetByPhase, EnterResearch
    PROVE  BudgetByPhase'
  <1>1. UNCHANGED artifacts
    BY DEF EnterResearch
  <1>2. CASE UNCHANGED local
    BY <1>1, <1>2, BudgetIdle DEF EnterResearch, Running, local, BudgetByPhase
  <1>3. CASE /\ ~Over /\ phase = Idle /\ phase' = "choose"
             /\ work' = [NoWork EXCEPT !.ids = plan.ids, !.query = plan.query, !.repairs = repairs]
    <2>1. "count" \in DOMAIN work' /\ work'.count = 0
      BY <1>3 DEF NoWork
    <2>2. artifacts <= MaxToolCalls
      BY <1>3, GraphAssumption DEF Over, Total, BudgetByPhase
    <2> QED
      BY <1>1, <1>3, <2>1, <2>2, GraphAssumption DEF BudgetByPhase, BudgetIsKept, Total, Idle
  <1> QED
    BY <1>2, <1>3 DEF EnterResearch, Running

\* A call that is recorded was made, or found, below the budget.
LEMMA BudgetRecord ==
    ASSUME BudgetByPhase, NEW k, NEW call, Record(k, call), UNCHANGED artifacts,
           Total < MaxToolCalls, phase' \notin {Idle, "gatherSave", "repairSave"}
    PROVE  BudgetByPhase'
  <1>1. "count" \in DOMAIN work' /\ work'.count = work.count + 1
    BY DEF Record, BudgetByPhase
  <1> QED
    BY <1>1, GraphAssumption DEF BudgetByPhase, BudgetIsKept, Total

LEMMA BudgetCall ==
    ASSUME BudgetByPhase, CallTool
    PROVE  BudgetByPhase'
  <1>1. UNCHANGED artifacts /\ phase \in {"gather", "repairing"}
    BY DEF CallTool, channels, Managing
  <1>2. CASE Raises
    BY <1>1, <1>2, BudgetStays DEF CallTool, Unwind, Idle, BudgetByPhase
  <1>3. ASSUME ~Raises
        PROVE  Total < MaxToolCalls
    BY <1>3, GraphAssumption DEF Raises, Over, Total, BudgetByPhase
  <1>4. CASE ~Raises /\ \E k : Record(k, calls[k]) /\ UNCHANGED phase
    BY <1>1, <1>3, <1>4, BudgetRecord DEF Idle
  <1>5. CASE /\ ~Raises /\ phase' \in {"gatherSave", "repairSave"}
             /\ \E pending : work' = [work EXCEPT !.pending = pending]
    <2>1. "count" \in DOMAIN work' /\ work'.count = work.count
      BY <1>5 DEF BudgetByPhase
    <2> QED
      BY <1>1, <1>3, <1>5, <2>1, GraphAssumption DEF BudgetByPhase, BudgetIsKept, Total, Idle
  <1> QED
    BY <1>1, <1>2, <1>4, <1>5 DEF CallTool

LEMMA BudgetSave ==
    ASSUME BudgetByPhase, SaveCall
    PROVE  BudgetByPhase'
  <1>1. PICK call \in work.pending :
            Record(call.key, [result |-> call.result, query |-> work.query])
    BY DEF SaveCall
  <1>2. /\ UNCHANGED artifacts /\ phase' \in {"gather", "repairing"}
        /\ phase \in {"gatherSave", "repairSave"}
    BY DEF SaveCall, channels
  <1> QED
    BY <1>1, <1>2, BudgetRecord DEF BudgetByPhase, Idle

LEMMA BudgetWeb ==
    ASSUME BudgetByPhase, NEW k \in DOMAIN web, WebCall(k) \/ WebSave(k) \/ JoinWeb(k)
    PROVE  BudgetByPhase'
  <1>1. UNCHANGED artifacts
    BY DEF WebCall, WebSave, JoinWeb, channels
  <1>2. CASE WebCall(k) \/ WebSave(k)
    BY <1>1, <1>2, BudgetStays DEF WebCall, WebSave, BudgetByPhase
  <1>3. CASE JoinWeb(k) /\ Raises
    BY <1>1, <1>3, BudgetStays DEF JoinWeb, Unwind, Idle, BudgetByPhase
  <1>4. CASE JoinWeb(k) /\ ~Raises
    <2>1. Record(k, calls[k]) /\ UNCHANGED phase /\ phase = "gather"
      BY <1>4 DEF JoinWeb
    <2>2. Total < MaxToolCalls
      BY <1>4, GraphAssumption DEF Raises, Over, Total, BudgetByPhase
    <2> QED
      BY <1>1, <2>1, <2>2, BudgetRecord DEF Idle
  <1> QED
    BY <1>2, <1>3, <1>4

LEMMA BudgetPropose ==
    ASSUME BudgetByPhase, Propose
    PROVE  BudgetByPhase'
  <1>1. UNCHANGED artifacts /\ phase = "repairing"
    BY DEF Propose, channels
  <1>2. CASE Raises
    BY <1>1, <1>2, BudgetStays DEF Propose, Unwind, Idle, BudgetByPhase
  <1>3. CASE ~Raises
    <2>1. phase' = "verify" /\ "count" \in DOMAIN work' /\ work'.count = work.count + 1
      BY <1>3 DEF Propose, BudgetByPhase
    <2>2. Total < MaxToolCalls
      BY <1>3, GraphAssumption DEF Raises, Over, Total, BudgetByPhase
    <2> QED
      BY <1>1, <2>1, <2>2, GraphAssumption DEF BudgetByPhase, BudgetIsKept, Total, Idle
  <1> QED
    BY <1>2, <1>3

\* The exempt call: it is the last before the node ends or plans a repair.
LEMMA BudgetVerify ==
    ASSUME BudgetByPhase, Verify
    PROVE  BudgetByPhase'
  <1>1. UNCHANGED artifacts /\ phase = "verify"
    BY DEF Verify, channels
  <1>2. CASE Unwind
    BY <1>1, <1>2, BudgetStays DEF Unwind, Idle, BudgetByPhase
  <1>3. CASE /\ \E v \in Verdicts : work' = [work EXCEPT !.verdict = v, !.count = @ + 1]
             /\ phase' = "decide"
    <2>1. "count" \in DOMAIN work' /\ work'.count = work.count + 1
      BY <1>3 DEF BudgetByPhase
    <2> QED
      BY <1>1, <1>3, <2>1, GraphAssumption DEF BudgetByPhase, BudgetIsKept, Total, Idle
  <1> QED
    BY <1>2, <1>3 DEF Verify

LEMMA BudgetDecide ==
    ASSUME BudgetByPhase, Decide
    PROVE  BudgetByPhase'
  <1>1. phase = "decide" /\ artifacts \in Nat /\ work.count \in Nat
    BY DEF Decide, BudgetByPhase
  <1>2. ASSUME NEW action, NEW count \in Nat, FinishResearch(action, count)
        PROVE  BudgetByPhase'
    BY <1>1, <1>2, BudgetIdle DEF FinishResearch, LeaveLocal
  <1>3. CASE UNCHANGED artifacts /\ Unwind
    BY <1>1, <1>3, BudgetStays DEF Unwind, Idle, BudgetByPhase
  <1>4. CASE ~Raises /\ ScheduleRepair
    <2>1. PICK n \in 0..Cardinality(TaskId) :
              IF n = 0
              THEN FinishResearch("fallback", work.count + 1)
              ELSE /\ work' = [work EXCEPT !.ids = [i \in 1..n |-> fresh + i],
                                           !.query = MaxEdits + 1 + fresh,
                                           !.repairs = @ + 1, !.count = @ + 1]
                   /\ phase' = "choose" /\ UNCHANGED artifacts
      BY <1>4 DEF ScheduleRepair
    <2>2. CASE n = 0
      BY <1>1, <1>2, <2>1, <2>2
    <2>3. CASE n # 0
      <3>1. "count" \in DOMAIN work' /\ work'.count = work.count + 1
        BY <2>1, <2>3 DEF BudgetByPhase
      <3>2. Total < MaxToolCalls
        BY <1>1, <1>4, GraphAssumption DEF Raises, Over, Total
      <3> QED
        BY <1>1, <2>1, <2>3, <3>1, <3>2, GraphAssumption
           DEF BudgetByPhase, BudgetIsKept, Total, Idle
    <2> QED
      BY <2>2, <2>3
  <1> QED
    BY <1>1, <1>2, <1>3, <1>4 DEF Decide

LEMMA BudgetNext == BudgetByPhase /\ [Next]_vars => BudgetByPhase'
  <1> SUFFICES ASSUME BudgetByPhase, [Next]_vars
               PROVE  BudgetByPhase'
    OBVIOUS
  <1>1. CASE ChooseSources
    <2>1. UNCHANGED artifacts /\ phase = "choose" /\ phase' = "gather"
      BY <1>1 DEF ChooseSources, channels
    <2>2. work' = [work EXCEPT !.results = Empty]
      BY <1>1 DEF ChooseSources
    <2> QED
      BY <2>1, <2>2, BudgetStays DEF BudgetByPhase
  <1>2. CASE PlanLocalRepair
    <2>1. UNCHANGED <<artifacts, work>> /\ phase = "gather" /\ phase' = "repairing"
      BY <1>2 DEF PlanLocalRepair, channels
    <2> QED
      BY <2>1, BudgetStays DEF BudgetByPhase
  <1>3. CASE Stop \/ Crash
    BY <1>3, BudgetIdle DEF Stop, Crash, LeaveLocal, channels, BudgetByPhase
  <1>4. CASE RequestCancel \/ DeadlinePasses \/ UNCHANGED vars
    BY <1>4, BudgetStays DEF RequestCancel, DeadlinePasses, vars, local, channels, BudgetByPhase
  <1> QED
    BY <1>1, <1>2, <1>3, <1>4, BudgetNode, BudgetEnter, BudgetCall, BudgetSave, BudgetWeb,
       BudgetPropose, BudgetVerify, BudgetDecide DEF Next, ResearchStep

\* Research exceeds the tool-call budget by the one verification that is exempt, over any
\* number of rounds, repairs and repeated nodes (_enforce_policy).
THEOREM BudgetKept == Spec => []BudgetIsKept
  <1>1. BudgetByPhase => BudgetIsKept
    BY DEF BudgetByPhase
  <1> QED
    BY <1>1, BudgetInit, BudgetNext, PTL DEF Spec
-----------------------------------------------------------------------------
(* Types.                                                                  *)

\* The round, and what its calls found and stored.
RoundTyped == ResearchTyped /\ RequestsAreTyped

Typed == PositionTyped /\ ChannelsTyped /\ RoundTyped

LEMMA TypedInit == Init => TypeOK /\ RequestsAreTyped
  <1> SUFFICES ASSUME Init PROVE TypeOK /\ RequestsAreTyped
    OBVIOUS
  <1> USE GraphAssumption DEF Init
  <1>1. plan.ids = <<>> /\ work.ids = <<>> /\ DOMAIN plan.ids = {} /\ DOMAIN work.ids = {}
    BY DEF NoWork
  <1>2. Range(plan.ids) = {} /\ Range(work.ids) = {}
    BY <1>1 DEF Range
  <1>3. PositionTyped
    BY DEF PositionTyped, Position, Node, Status, Idle
  <1>4. ChannelsTyped
    <2>1. requested \in BOOLEAN /\ localOnly \in BOOLEAN /\ draft \in BOOLEAN
      BY DEF KeepsPolicy
    <2>2. /\ edits \in 0..MaxEdits /\ repairs \in 0..MaxRepairs /\ artifacts \in Nat
          /\ plan.query \in Nat /\ verdict = "none" /\ nextAction = "none" /\ published = "none"
      OBVIOUS
    <2> QED
      BY <1>2, <2>1, <2>2 DEF ChannelsTyped
  <1>5. ResearchTyped
    BY DEF ResearchTyped, NoWork, Empty
  <1>6. RequestsAreTyped
    BY <1>2 DEF RequestsAreTyped, NoWork, Empty
  <1>7. FlagsTyped
    <2>1. crashes \in 0..MaxCrashes
      OBVIOUS
    <2> QED
      BY <2>1 DEF FlagsTyped
  <1> QED
    BY <1>3, <1>4, <1>5, <1>6, <1>7 DEF TypeOK

LEMMA PlansAreOfTasks ==
    ASSUME NEW ids \in Plans
    PROVE  Range(ids) \subseteq TaskId
  BY DEF Plans, Range

LEMMA FlagsTypedNext == FlagsTyped /\ [Next]_vars => FlagsTyped'
  <1> SUFFICES ASSUME FlagsTyped, [Next]_vars
               PROVE  FlagsTyped'
    OBVIOUS
  <1> USE DEF FlagsTyped
  <1>1. CASE NodeStep \/ ApprovalGate
    BY <1>1 DEF NodeStep, Start, Supervisor, AnswerAgent, PlannerAgent, ReviewAgent,
                FinalResponse, FallbackResponse, ApprovalGate, outside
  <1>2. CASE AnswerAgain \/ Restart \/ RequestCancel \/ DeadlinePasses \/ Crash
    <2>1. CASE AnswerAgain \/ Restart \/ Crash
      <3>1. crashes' \in 0..MaxCrashes
        BY <1>2, <2>1, GraphAssumption DEF AnswerAgain, Restart, Crash
      <3> QED
        BY <2>1, <3>1 DEF AnswerAgain, Restart, Crash
    <2>2. CASE RequestCancel \/ DeadlinePasses
      BY <2>2 DEF RequestCancel, DeadlinePasses
    <2> QED
      BY <1>2, <2>1, <2>2
  <1>3. CASE EnterResearch \/ Stop
    BY <1>3 DEF EnterResearch, Stop
  <1>4. CASE ChooseSources \/ CallTool \/ SaveCall \/ PlanLocalRepair \/ Propose \/ Verify
                \/ Decide
    BY <1>4 DEF ChooseSources, CallTool, SaveCall, PlanLocalRepair, Propose, Verify, Decide,
                outside
  <1>5. ASSUME NEW k \in DOMAIN web, WebCall(k) \/ WebSave(k) \/ JoinWeb(k)
        PROVE  FlagsTyped'
    BY <1>5 DEF WebCall, WebSave, JoinWeb, outside
  <1>6. CASE UNCHANGED vars
    BY <1>6 DEF vars, outside
  <1> QED
    BY <1>1, <1>2, <1>3, <1>4, <1>5, <1>6 DEF Next, ResearchStep

LEMMA PositionTypedNext ==
    PositionTyped /\ ChannelsTyped /\ FlagsTyped /\ [Next]_vars => PositionTyped'
  <1> SUFFICES ASSUME PositionTyped, ChannelsTyped, FlagsTyped, [Next]_vars
               PROVE  PositionTyped'
    OBVIOUS
  <1> USE DEF PositionTyped, Position, Node, Status, Idle
  <1>1. CASE Start \/ Supervisor \/ AnswerAgent \/ ReviewAgent \/ FinalResponse
                \/ FallbackResponse \/ Restart
    <2>1. UNCHANGED <<phase, stopped>> /\ phase = Idle
      BY <1>1 DEF Start, Supervisor, AnswerAgent, ReviewAgent, FinalResponse, FallbackResponse,
                  Restart, Running, local, outside
    <2>2. node' \in Position /\ status' \in Status
      BY <1>1 DEF Start, Supervisor, SupervisorRoutes, AnswerAgent, ReviewAgent, FinalResponse,
                  FallbackResponse, Restart
    <2> QED
      BY <2>1, <2>2
  <1>2. CASE PlannerAgent
    <2>1. phase' = Idle /\ phase = Idle
      BY <1>2 DEF PlannerAgent, Running, local
    <2>2. \/ UNCHANGED <<node, status>>
          \/ status' \in {"waiting_user", "running"} /\ node' \in {"gate", "research"}
      BY <1>2 DEF PlannerAgent
    <2> QED
      BY <2>1, <2>2
  <1>3. CASE ApprovalGate \/ AnswerAgain
    <2>1. CASE ApprovalGate
      BY <2>1 DEF ApprovalGate, Running, local, GateGoto, Decision
    <2>2. CASE AnswerAgain
      BY <2>2 DEF AnswerAgain, ChannelsTyped, Running, local, GateGoto, Decision
    <2> QED
      BY <1>3, <2>1, <2>2
  <1>4. CASE EnterResearch
    <2>1. node = "research" /\ phase = Idle /\ ~stopped
      BY <1>4 DEF EnterResearch, Running
    <2>2. \/ UNCHANGED <<node, status, phase>>
          \/ node' = "fallback" /\ status' = "failed" /\ UNCHANGED phase
          \/ phase' = "choose" /\ UNCHANGED <<node, status, stopped>>
      BY <1>4 DEF EnterResearch, local
    <2> QED
      BY <2>1, <2>2
  <1>5. CASE ChooseSources \/ CallTool \/ SaveCall \/ PlanLocalRepair \/ Propose \/ Verify
    <2>1. UNCHANGED <<node, status, stopped>> /\ phase # Idle
      BY <1>5 DEF ChooseSources, CallTool, SaveCall, PlanLocalRepair, Propose, Verify, Managing,
                  outside
    <2>2. phase' \in {"gather", "gatherSave", "repairing", "repairSave", "verify", "decide",
                      "unwinding"}
      BY <1>5 DEF ChooseSources, CallTool, SaveCall, PlanLocalRepair, Propose, Verify, Managing,
                  Unwind
    <2> QED
      BY <2>1, <2>2
  <1>6. CASE Decide
    BY <1>6 DEF Decide, FinishResearch, StatusAfterResearch, LeaveLocal, ScheduleRepair, Unwind,
                outside
  <1>7. CASE Stop \/ Crash
    BY <1>7 DEF Stop, Crash, LeaveLocal
  <1>8. ASSUME NEW k \in DOMAIN web, WebCall(k) \/ WebSave(k) \/ JoinWeb(k)
        PROVE  PositionTyped'
    BY <1>8 DEF WebCall, WebSave, JoinWeb, Unwind, outside
  <1>9. CASE RequestCancel \/ DeadlinePasses \/ UNCHANGED vars
    BY <1>9 DEF RequestCancel, DeadlinePasses, vars, local, outside
  <1> QED
    BY <1>1, <1>2, <1>3, <1>4, <1>5, <1>6, <1>7, <1>8, <1>9 DEF Next, NodeStep, ResearchStep

\* What a node but research reads and writes of the channels.
LEMMA ChannelsTypedNode ==
    ASSUME ChannelsTyped, fresh \in Nat, NodeStep \/ ApprovalGate \/ AnswerAgain \/ Restart
    PROVE  ChannelsTyped'
  <1> USE DEF ChannelsTyped
  <1>1. CASE Start \/ Supervisor \/ AnswerAgain \/ Restart
    BY <1>1 DEF Start, Supervisor, AnswerAgain, Restart, channels
  <1>2. CASE AnswerAgent
    <2>1. PICK chosen \in AnswerTools : artifacts' = artifacts + Cardinality(chosen)
      BY <1>2 DEF AnswerAgent
    <2>2. chosen \subseteq Source
      BY DEF AnswerTools, Source
    <2>3. artifacts' \in Nat
      BY <2>1, <2>2, SourcesAreFinite, FS_CardinalityType
    <2>4. draft' \in BOOLEAN
      BY <1>2 DEF AnswerAgent
    <2>5. UNCHANGED <<requested, localOnly, edits, approval, plan, verdict, repairs, nextAction, published,
                      fresh>>
      BY <1>2 DEF AnswerAgent
    <2> QED
      BY <2>3, <2>4, <2>5
  <1>3. CASE PlannerAgent
    <2>1. \/ UNCHANGED <<plan, artifacts>>
          \/ /\ \E ids \in Plans : plan' = [ids |-> ids, query |-> edits]
             /\ artifacts' = artifacts + 1
      BY <1>3 DEF PlannerAgent
    <2>2. UNCHANGED <<requested, localOnly, edits, approval, verdict, repairs, nextAction, draft, published,
                      fresh>>
      BY <1>3 DEF PlannerAgent
    <2>3. Range(plan'.ids) \subseteq TaskId \cup 1..fresh /\ plan'.query \in Nat
      BY <2>1, PlansAreOfTasks, GraphAssumption
    <2> QED
      BY <2>1, <2>2, <2>3
  <1>4. CASE ApprovalGate
    <2>1. edits' \in 0..MaxEdits /\ localOnly' \in BOOLEAN /\ approval' \in Decision
      <3>1. PICK action \in Decision :
                /\ approval' = action
                /\ action = "edit" => edits < MaxEdits
                /\ edits' = IF action = "edit" THEN edits + 1 ELSE edits
                /\ localOnly' \in IF action = "edit" THEN {localOnly, TRUE} ELSE {localOnly}
        BY <1>4 DEF ApprovalGate
      <3>2. edits' \in 0..MaxEdits
        BY <3>1, GraphAssumption
      <3>3. localOnly' \in {localOnly, TRUE}
        BY <3>1
      <3>4. localOnly' \in BOOLEAN
        BY <3>3
      <3> QED
        BY <3>1, <3>2, <3>4
    <2>2. UNCHANGED <<requested, plan, artifacts, verdict, repairs, nextAction, draft, published,
                      fresh>>
      BY <1>4 DEF ApprovalGate
    <2> QED
      BY <2>1, <2>2
  <1>5. CASE ReviewAgent \/ FinalResponse \/ FallbackResponse
    <2>1. /\ nextAction' \in {"none", "complete", "ask_user", "fallback"}
          /\ published' \in {"none", "draft", "proposal", "fallback"}
      BY <1>5 DEF ReviewAgent, FinalResponse, FallbackResponse
    <2>2. UNCHANGED <<requested, localOnly, edits, approval, plan, artifacts, verdict, repairs, draft, fresh>>
      BY <1>5 DEF ReviewAgent, FinalResponse, FallbackResponse
    <2> QED
      BY <2>1, <2>2
  <1> QED
    BY <1>1, <1>2, <1>3, <1>4, <1>5 DEF NodeStep

\* The round's channels are written when research ends.
LEMMA ChannelsTypedFinish ==
    ASSUME ChannelsTyped, RoundTyped, UNCHANGED <<requested, localOnly, edits, approval, draft, published>>,
           NEW action \in {"complete", "ask_user", "fallback"}, NEW count \in Nat,
           FinishResearch(action, count)
    PROVE  ChannelsTyped'
  <1>1. /\ nextAction' = action /\ artifacts' = artifacts + count /\ verdict' = work.verdict
        /\ repairs' = work.repairs /\ UNCHANGED fresh
        /\ plan'.ids = work.ids /\ plan'.query = work.query
    BY DEF FinishResearch
  <1>2. /\ Range(work.ids) \subseteq TaskId \cup 1..fresh /\ work.query \in Nat
        /\ work.verdict \in {"none", "passed", "repair", "fallback", "needs_approval"}
        /\ work.repairs \in 0..MaxRepairs
    BY DEF RoundTyped, ResearchTyped, RequestsAreTyped
  <1> QED
    BY <1>1, <1>2 DEF ChannelsTyped

LEMMA ChannelsTypedDecide ==
    ASSUME ChannelsTyped, RoundTyped, BudgetByPhase, Decide
    PROVE  ChannelsTyped'
  <1>1. UNCHANGED <<requested, localOnly, edits, approval, draft, published>>
    BY DEF Decide
  <1>2. work.count \in Nat /\ work.count + 1 \in Nat /\ fresh \in Nat
    BY DEF BudgetByPhase, RoundTyped, RequestsAreTyped
  <1>3. CASE \E action \in {"complete", "ask_user", "fallback"}, count \in {work.count, work.count + 1} :
                FinishResearch(action, count)
    BY <1>1, <1>2, <1>3, ChannelsTypedFinish
  <1>4. CASE /\ UNCHANGED <<plan, artifacts, verdict, repairs, nextAction>>
             /\ UNCHANGED fresh \/ \E n \in 0..Cardinality(TaskId) : NewIds(n)
    <2>1. fresh' \in Nat /\ fresh' >= fresh
      BY <1>2, <1>4 DEF NewIds
    <2> QED
      BY <1>1, <1>2, <1>4, <2>1 DEF ChannelsTyped
  <1> QED
    BY <1>3, <1>4 DEF Decide, ScheduleRepair

LEMMA ChannelsTypedNext ==
    ChannelsTyped /\ RoundTyped /\ BudgetByPhase /\ [Next]_vars => ChannelsTyped'
  <1> SUFFICES ASSUME ChannelsTyped, RoundTyped, BudgetByPhase, [Next]_vars
               PROVE  ChannelsTyped'
    OBVIOUS
  <1>1. CASE NodeStep \/ ApprovalGate \/ AnswerAgain \/ Restart
    BY <1>1, ChannelsTypedNode DEF RoundTyped, RequestsAreTyped
  <1>2. CASE EnterResearch
    <2>1. nextAction' \in {nextAction, "fallback"}
      BY <1>2 DEF EnterResearch
    <2>2. UNCHANGED <<requested, localOnly, edits, approval, plan, artifacts, verdict, repairs, draft,
                      published, fresh>>
      BY <1>2 DEF EnterResearch
    <2> QED
      BY <2>1, <2>2 DEF ChannelsTyped
  <1>3. CASE Decide
    BY <1>3, ChannelsTypedDecide
  <1>4. CASE UNCHANGED <<channels, fresh>>
    BY <1>4 DEF channels, ChannelsTyped
  <1>5. ASSUME NEW k \in DOMAIN web, WebCall(k) \/ WebSave(k) \/ JoinWeb(k)
        PROVE  UNCHANGED <<channels, fresh>>
    BY <1>5 DEF WebCall, WebSave, JoinWeb
  <1>6. CASE ChooseSources \/ CallTool \/ SaveCall \/ PlanLocalRepair \/ Propose \/ Verify
                \/ Stop \/ Crash \/ RequestCancel \/ DeadlinePasses \/ UNCHANGED vars
    BY <1>4, <1>6 DEF ChooseSources, CallTool, SaveCall, PlanLocalRepair, Propose, Verify, Stop,
                      Crash, RequestCancel, DeadlinePasses, vars
  <1> QED
    BY <1>1, <1>2, <1>3, <1>4, <1>5, <1>6 DEF Next, ResearchStep

\* Nothing of the running round, and nothing stored, changes.
LEMMA RoundTypedOutside ==
    ASSUME RoundTyped, UNCHANGED <<calls, fresh, work, todo, web, found>>,
           evidence' \subseteq [source : Source, current : BOOLEAN]
    PROVE  RoundTyped'
  BY DEF RoundTyped, ResearchTyped, RequestsAreTyped, IsStored

\* The round is over: what it held is gone.
LEMMA RoundTypedLeave ==
    ASSUME RoundTyped, LeaveLocal, UNCHANGED <<calls, fresh>>,
           evidence' \in {evidence, evidence \cup found}
    PROVE  RoundTyped'
  <1>1. DOMAIN NoWork.ids = {} /\ Range(NoWork.ids) = {}
    BY DEF NoWork, Range
  <1>2. ResearchTyped'
    BY GraphAssumption DEF LeaveLocal, RoundTyped, ResearchTyped, NoWork
  <1>3. RequestsAreTyped'
    BY <1>1 DEF LeaveLocal, RoundTyped, RequestsAreTyped, NoWork, Empty
  <1> QED
    BY <1>2, <1>3 DEF RoundTyped

\* A round of new tasks: what is stored and joined stays.
LEMMA RoundTypedBegin ==
    ASSUME RoundTyped, UNCHANGED <<evidence, calls, todo, web, found>>,
           fresh' \in Nat, fresh' >= fresh, DOMAIN work' = DOMAIN NoWork,
           work'.repairs \in 0..MaxRepairs,
           Range(work'.ids) \subseteq TaskId \cup 1..fresh', work'.query \in Nat,
           work'.verdict \in {"none", "passed", "repair", "fallback", "needs_approval"},
           work'.pending \in {{}, work.pending}
    PROVE  RoundTyped'
  <1>1. TaskId \cup 1..fresh \subseteq TaskId \cup 1..fresh'
    BY DEF RoundTyped, RequestsAreTyped
  <1>2. ResearchTyped'
    BY DEF RoundTyped, ResearchTyped
  <1>3. RequestsAreTyped'
    BY <1>1 DEF RoundTyped, RequestsAreTyped, IsStored
  <1> QED
    BY <1>2, <1>3 DEF RoundTyped

LEMMA RoundTypedEnter ==
    ASSUME RoundTyped, ChannelsTyped, EnterResearch
    PROVE  RoundTyped'
  <1>1. UNCHANGED <<evidence, calls, fresh>>
    BY DEF EnterResearch
  <1>2. CASE UNCHANGED local
    BY <1>1, <1>2, RoundTypedOutside DEF local, RoundTyped, ResearchTyped
  <1>3. CASE /\ work' = [NoWork EXCEPT !.ids = plan.ids, !.query = plan.query, !.repairs = repairs]
             /\ UNCHANGED <<todo, web, found>>
    <2>1. /\ DOMAIN work' = DOMAIN NoWork /\ work'.ids = plan.ids /\ work'.query = plan.query
          /\ work'.repairs = repairs /\ work'.verdict = "none" /\ work'.pending = {}
      BY <1>3 DEF NoWork
    <2> QED
      BY <1>1, <1>3, <2>1, RoundTypedBegin DEF ChannelsTyped, RoundTyped, RequestsAreTyped
  <1> QED
    BY <1>2, <1>3 DEF EnterResearch

\* Requests are for the tasks of the round.
LEMMA RequestsOfRound ==
    ASSUME NEW ids, NEW chosen \in [DOMAIN ids -> SourceChoices], NEW sources
    PROVE  \A k \in Requests(ids, chosen, sources) :
              k \in Range(ids) \X Source /\ k[1] \in Range(ids) /\ k[2] \in sources /\ k[2] \in Allowed
  <1> SUFFICES ASSUME NEW i \in DOMAIN ids, NEW source \in chosen[i] \cap sources
               PROVE  LET k == <<ids[i], source>>
                      IN  k \in Range(ids) \X Source /\ k[1] \in Range(ids) /\ k[2] \in sources
                          /\ k[2] \in Allowed
    BY DEF Requests, Key
  <1>1. source \in Allowed
    BY DEF SourceChoices
  <1> QED
    BY <1>1 DEF Allowed, Source, Range

LEMMA RoundTypedChoose ==
    ASSUME RoundTyped, ChooseSources
    PROVE  RoundTyped'
  <1>1. PICK chosen \in [DOMAIN work.ids -> SourceChoices] :
            /\ work' = [work EXCEPT !.results = Empty]
            /\ todo' = Requests(work.ids, chosen, {"rag", "github"})
            /\ web' = [k \in Requests(work.ids, chosen, {"web"}) |-> "submitted"]
    BY DEF ChooseSources
  <1>2. UNCHANGED <<evidence, calls, found, fresh>>
    BY DEF ChooseSources, channels
  <1>3. /\ DOMAIN work' = DOMAIN work /\ work'.ids = work.ids /\ work'.query = work.query
        /\ work'.repairs = work.repairs /\ work'.verdict = work.verdict
        /\ work'.pending = work.pending
    BY <1>1 DEF RoundTyped, RequestsAreTyped, NoWork
  <1>4. todo' \subseteq Range(work.ids) \X Source /\ DOMAIN web' \subseteq Range(work.ids) \X Source
    BY <1>1, RequestsOfRound
  <1>5. \A k \in DOMAIN web' : web'[k] = "submitted"
    BY <1>1
  <1>6. ResearchTyped'
    BY <1>2, <1>3 DEF RoundTyped, ResearchTyped
  <1>7. RequestsAreTyped'
    BY <1>2, <1>3, <1>4, <1>5 DEF RoundTyped, RequestsAreTyped
  <1> QED
    BY <1>6, <1>7 DEF RoundTyped

\* A call that is recorded changes the round's results and what was found.
LEMMA RecordTyped ==
    ASSUME RoundTyped, NEW k, NEW call, Record(k, call), k[2] \in Source, UNCHANGED evidence
    PROVE  /\ evidence' \cup found' \subseteq [source : Source, current : BOOLEAN]
           /\ DOMAIN work' = DOMAIN NoWork /\ work'.pending = {}
           /\ work'.ids = work.ids /\ work'.query = work.query
           /\ work'.repairs = work.repairs /\ work'.verdict = work.verdict
  <1>1. DOMAIN work = DOMAIN NoWork
    BY DEF RoundTyped, RequestsAreTyped
  <1>2. /\ DOMAIN work' = DOMAIN NoWork /\ work'.pending = {}
        /\ work'.ids = work.ids /\ work'.query = work.query
        /\ work'.repairs = work.repairs /\ work'.verdict = work.verdict
    BY <1>1 DEF Record, NoWork
  <1>3. [source |-> k[2], current |-> call.query = work.query] \in [source : Source, current : BOOLEAN]
    OBVIOUS
  <1>4. found' \subseteq [source : Source, current : BOOLEAN]
    BY <1>3 DEF Record, RoundTyped, ResearchTyped
  <1> QED
    BY <1>2, <1>4 DEF RoundTyped, ResearchTyped

\* What a call may answer, by its tool.
LEMMA CallResultsTyped ==
    ASSUME NEW source \in Source
    PROVE  CallResults(source) \subseteq AnyResult
  BY DEF AnyResult

LEMMA RoundTypedCall ==
    ASSUME RoundTyped, CallTool
    PROVE  RoundTyped'
  <1>1. PICK k \in todo :
            CASE Raises -> Unwind
              [] ~Raises /\ IsStored(k) -> Record(k, calls[k]) /\ todo' = todo \ {k}
              [] OTHER ->
                   /\ \E r \in CallResults(k[2]) :
                         work' = [work EXCEPT !.pending = {[key |-> k, result |-> r]}]
                   /\ todo' = todo \ {k} /\ UNCHANGED found
    BY DEF CallTool
  <1>2. UNCHANGED <<evidence, calls, web, fresh>>
    BY DEF CallTool, channels
  <1>3. k \in (TaskId \cup 1..fresh) \X Source /\ k[2] \in Source
    BY DEF RoundTyped, RequestsAreTyped
  <1>4. CASE Raises
    BY <1>1, <1>2, <1>4, RoundTypedOutside DEF Unwind, RoundTyped, ResearchTyped
  <1>5. CASE ~Raises /\ IsStored(k)
    <2>1. Record(k, calls[k]) /\ todo' = todo \ {k}
      BY <1>1, <1>5
    <2>2. /\ evidence' \cup found' \subseteq [source : Source, current : BOOLEAN]
          /\ DOMAIN work' = DOMAIN NoWork /\ work'.pending = {}
          /\ work'.ids = work.ids /\ work'.query = work.query
          /\ work'.repairs = work.repairs /\ work'.verdict = work.verdict
      BY <1>2, <1>3, <2>1, RecordTyped
    <2>3. ResearchTyped'
      BY <1>2, <2>2 DEF RoundTyped, ResearchTyped
    <2>4. RequestsAreTyped'
      BY <1>2, <2>1, <2>2 DEF RoundTyped, RequestsAreTyped, IsStored
    <2> QED
      BY <2>3, <2>4 DEF RoundTyped
  <1>6. CASE ~Raises /\ ~IsStored(k)
    <2>1. PICK r \in CallResults(k[2]) : work' = [work EXCEPT !.pending = {[key |-> k, result |-> r]}]
      BY <1>1, <1>6
    <2>2. todo' = todo \ {k} /\ UNCHANGED found
      BY <1>1, <1>6
    <2>3. r \in AnyResult
      BY <1>3, <2>1, CallResultsTyped
    <2>4. /\ DOMAIN work' = DOMAIN NoWork /\ work'.pending = {[key |-> k, result |-> r]}
          /\ work'.ids = work.ids /\ work'.query = work.query
          /\ work'.repairs = work.repairs /\ work'.verdict = work.verdict
      BY <2>1 DEF RoundTyped, RequestsAreTyped, NoWork
    <2>5. ResearchTyped'
      BY <1>2, <2>2, <2>4 DEF RoundTyped, ResearchTyped
    <2>6. RequestsAreTyped'
      BY <1>2, <1>3, <2>2, <2>3, <2>4 DEF RoundTyped, RequestsAreTyped, IsStored
    <2> QED
      BY <2>5, <2>6 DEF RoundTyped
  <1> QED
    BY <1>4, <1>5, <1>6

\* What is stored is stored under a request's key.
LEMMA StoreTyped ==
    ASSUME RoundTyped, NEW k \in (TaskId \cup 1..fresh) \X Source, NEW result \in AnyResult,
           Store(k, result)
    PROVE  /\ \A l \in DOMAIN calls' : calls'[l].result \in AnyResult /\ calls'[l].query \in Nat
           /\ DOMAIN calls' = DOMAIN calls \cup {k}
           /\ DOMAIN calls' \subseteq (TaskId \cup 1..fresh) \X Source
  BY DEF Store, With, RoundTyped, ResearchTyped, RequestsAreTyped

LEMMA RoundTypedSave ==
    ASSUME RoundTyped, SaveCall
    PROVE  RoundTyped'
  <1>1. PICK call \in work.pending :
            /\ Store(call.key, call.result)
            /\ Record(call.key, [result |-> call.result, query |-> work.query])
    BY DEF SaveCall
  <1>2. UNCHANGED <<evidence, web, todo, fresh>>
    BY DEF SaveCall, channels
  <1>3. call.key \in (TaskId \cup 1..fresh) \X Source /\ call.key[2] \in Source
        /\ call.result \in AnyResult
    BY DEF RoundTyped, RequestsAreTyped
  <1>4. /\ \A l \in DOMAIN calls' : calls'[l].result \in AnyResult /\ calls'[l].query \in Nat
        /\ DOMAIN calls' = DOMAIN calls \cup {call.key}
        /\ DOMAIN calls' \subseteq (TaskId \cup 1..fresh) \X Source
    BY <1>1, <1>3, StoreTyped
  <1>5. /\ evidence' \cup found' \subseteq [source : Source, current : BOOLEAN]
        /\ DOMAIN work' = DOMAIN NoWork /\ work'.pending = {}
        /\ work'.ids = work.ids /\ work'.query = work.query
        /\ work'.repairs = work.repairs /\ work'.verdict = work.verdict
    BY <1>1, <1>2, <1>3, RecordTyped
  <1>6. ResearchTyped'
    BY <1>4, <1>5 DEF RoundTyped, ResearchTyped
  <1>7. RequestsAreTyped'
    BY <1>2, <1>4, <1>5 DEF RoundTyped, RequestsAreTyped, IsStored
  <1> QED
    BY <1>6, <1>7 DEF RoundTyped

LEMMA RoundTypedWeb ==
    ASSUME RoundTyped, NEW k \in DOMAIN web, WebCall(k) \/ WebSave(k) \/ JoinWeb(k)
    PROVE  RoundTyped'
  <1>1. k \in (TaskId \cup 1..fresh) \X Source /\ k[2] \in Source
    BY DEF RoundTyped, RequestsAreTyped
  <1>2. UNCHANGED <<evidence, fresh>>
    BY DEF WebCall, WebSave, JoinWeb, channels
  <1>3. CASE WebCall(k)
    <2>1. PICK r \in IF IsStored(k) THEN {"saved"} ELSE CallResults("web") :
              web' = [web EXCEPT ![k] = r]
      BY <1>3 DEF WebCall
    <2>2. CallResults("web") \subseteq AnyResult
      BY CallResultsTyped DEF Source
    <2>3. "saved" \notin AnyResult
      <3>1. \A s \in Source : "saved" \notin CallResults(s)
        BY DEF CallResults, Source, KnowledgeAnswer, WebSearch, GithubSearch, RepairRetrieval
      <3> QED
        BY <3>1 DEF AnyResult
    <2>4. UNCHANGED <<calls, work, todo, found>>
      BY <1>3 DEF WebCall
    <2>5. /\ DOMAIN web' = DOMAIN web
          /\ \A l \in DOMAIN web : web'[l] = IF l = k THEN r ELSE web[l]
      BY <2>1
    <2>6. r \in {"submitted", "saved"} \cup AnyResult /\ (r = "saved" => IsStored(k))
      BY <2>1, <2>2, <2>3
    <2>7. RequestsAreTyped'
      BY <1>2, <2>4, <2>5, <2>6 DEF RoundTyped, RequestsAreTyped, IsStored
    <2> QED
      BY <1>2, <2>4, <2>7 DEF RoundTyped, ResearchTyped
  <1>4. CASE WebSave(k)
    <2>1. /\ web[k] \in AnyResult /\ Store(k, web[k]) /\ web' = [web EXCEPT ![k] = "saved"]
          /\ UNCHANGED <<work, todo, found>>
      BY <1>4 DEF WebSave, RoundTyped, RequestsAreTyped
    <2>2. /\ \A l \in DOMAIN calls' : calls'[l].result \in AnyResult /\ calls'[l].query \in Nat
          /\ DOMAIN calls' = DOMAIN calls \cup {k}
          /\ DOMAIN calls' \subseteq (TaskId \cup 1..fresh) \X Source
      BY <1>1, <2>1, StoreTyped
    <2>3. RequestsAreTyped'
      BY <1>2, <2>1, <2>2 DEF RoundTyped, RequestsAreTyped, IsStored
    <2> QED
      BY <1>2, <2>1, <2>2, <2>3 DEF RoundTyped, ResearchTyped
  <1>5. CASE JoinWeb(k) /\ Raises
    BY <1>2, <1>5, RoundTypedOutside DEF JoinWeb, Unwind, RoundTyped, ResearchTyped
  <1>6. CASE JoinWeb(k) /\ ~Raises
    <2>1. /\ Record(k, calls[k]) /\ web' = [x \in DOMAIN web \ {k} |-> web[x]]
          /\ UNCHANGED <<calls, todo>>
      BY <1>6 DEF JoinWeb
    <2>2. /\ evidence' \cup found' \subseteq [source : Source, current : BOOLEAN]
          /\ DOMAIN work' = DOMAIN NoWork /\ work'.pending = {}
          /\ work'.ids = work.ids /\ work'.query = work.query
          /\ work'.repairs = work.repairs /\ work'.verdict = work.verdict
      BY <1>1, <1>2, <2>1, RecordTyped
    <2>3. RequestsAreTyped'
      BY <1>2, <2>1, <2>2 DEF RoundTyped, RequestsAreTyped, IsStored
    <2> QED
      BY <2>1, <2>2, <2>3 DEF RoundTyped, ResearchTyped
  <1> QED
    BY <1>3, <1>4, <1>5, <1>6

LEMMA RoundTypedDecide ==
    ASSUME RoundTyped, BudgetByPhase, Decide
    PROVE  RoundTyped'
  <1>1. UNCHANGED calls
    BY DEF Decide
  <1>2. ASSUME NEW action, NEW count, FinishResearch(action, count)
        PROVE  RoundTyped'
    BY <1>1, <1>2, RoundTypedLeave DEF FinishResearch
  <1>3. CASE Unwind /\ UNCHANGED <<evidence, web, fresh>>
    BY <1>1, <1>3, RoundTypedOutside DEF Unwind, RoundTyped, ResearchTyped
  <1>4. CASE MayRepair /\ ScheduleRepair
    <2>1. PICK n \in 0..Cardinality(TaskId) :
              IF n = 0
              THEN FinishResearch("fallback", work.count + 1)
              ELSE /\ work' = [work EXCEPT !.ids = [i \in 1..n |-> fresh + i],
                                           !.query = MaxEdits + 1 + fresh,
                                           !.repairs = @ + 1, !.count = @ + 1]
                   /\ NewIds(n)
                   /\ UNCHANGED <<evidence, todo, web, found>>
      BY <1>4 DEF ScheduleRepair
    <2>2. CASE n = 0
      BY <1>2, <2>1, <2>2
    <2>3. CASE n # 0
      <3>1. fresh \in Nat /\ n \in Nat /\ fresh' = fresh + n
        BY <2>1, <2>3 DEF NewIds, RoundTyped, RequestsAreTyped
      <3>2. /\ DOMAIN work' = DOMAIN NoWork /\ work'.ids = [i \in 1..n |-> fresh + i]
            /\ work'.query = MaxEdits + 1 + fresh /\ work'.repairs = work.repairs + 1
            /\ work'.verdict = work.verdict /\ work'.pending = work.pending
        BY <2>1, <2>3 DEF RoundTyped, RequestsAreTyped, NoWork
      <3>3. Range(work'.ids) \subseteq 1..fresh'
        BY <3>1, <3>2 DEF Range
      <3>4. work'.repairs \in 0..MaxRepairs /\ work'.query \in Nat
        <4>1. MaxRepairs \in Nat /\ MaxEdits \in Nat
          BY GraphAssumption
        <4>2. work.repairs \in 0..MaxRepairs /\ work.repairs < MaxRepairs
          BY <1>4 DEF MayRepair, RoundTyped, ResearchTyped
        <4> QED
          BY <3>1, <3>2, <4>1, <4>2
      <3>5. work'.verdict \in {"none", "passed", "repair", "fallback", "needs_approval"}
        BY <3>2 DEF RoundTyped, RequestsAreTyped
      <3> QED
        BY <1>1, <2>1, <2>3, <3>1, <3>2, <3>3, <3>4, <3>5, RoundTypedBegin
    <2> QED
      BY <2>2, <2>3
  <1> QED
    BY <1>2, <1>3, <1>4 DEF Decide

\* Steps that only change the round's counts, its verdict or its phase.
LEMMA RoundTypedCount ==
    ASSUME RoundTyped, Propose \/ Verify
    PROVE  RoundTyped'
  <1>1. UNCHANGED <<evidence, calls, web, fresh, todo, found>>
    BY DEF Propose, Verify, Unwind, channels
  <1>2. \/ UNCHANGED work
        \/ work' = [work EXCEPT !.count = @ + 1]
        \/ \E v \in Verdicts : work' = [work EXCEPT !.verdict = v, !.count = @ + 1]
    BY DEF Propose, Verify, Unwind
  <1>3. Verdicts \subseteq {"passed", "repair", "fallback", "needs_approval"}
    BY DEF Verdicts
  <1>4. /\ DOMAIN work' = DOMAIN NoWork /\ work'.ids = work.ids /\ work'.query = work.query
        /\ work'.repairs = work.repairs /\ work'.pending = work.pending
        /\ work'.verdict \in {"none", "passed", "repair", "fallback", "needs_approval"}
    BY <1>2, <1>3 DEF RoundTyped, RequestsAreTyped, NoWork
  <1> QED
    BY <1>1, <1>4, RoundTypedBegin DEF RoundTyped, ResearchTyped, RequestsAreTyped

LEMMA RoundTypedNext ==
    ChannelsTyped /\ RoundTyped /\ BudgetByPhase /\ [Next]_vars => RoundTyped'
  <1> SUFFICES ASSUME ChannelsTyped, RoundTyped, BudgetByPhase, [Next]_vars
               PROVE  RoundTyped'
    OBVIOUS
  <1>1. CASE AnswerAgent
    <2>1. PICK chosen \in AnswerTools : \E cited \in SUBSET chosen :
              evidence' = evidence \cup [source : cited, current : {TRUE}]
      BY <1>1 DEF AnswerAgent
    <2>2. chosen \subseteq Source
      BY DEF AnswerTools, Source
    <2>3. evidence' \subseteq [source : Source, current : BOOLEAN]
      BY <2>1, <2>2 DEF RoundTyped, ResearchTyped
    <2> QED
      BY <1>1, <2>3, RoundTypedOutside DEF AnswerAgent, local
  <1>2. CASE UNCHANGED <<evidence, calls, local, fresh>>
    BY <1>2, RoundTypedOutside DEF local, RoundTyped, ResearchTyped
  <1>3. CASE Start \/ Supervisor \/ PlannerAgent \/ ReviewAgent \/ FinalResponse
                \/ FallbackResponse \/ ApprovalGate \/ AnswerAgain \/ Restart \/ RequestCancel \/ DeadlinePasses
                \/ UNCHANGED vars
    BY <1>2, <1>3 DEF Start, Supervisor, PlannerAgent, ReviewAgent, FinalResponse,
                      FallbackResponse, ApprovalGate, AnswerAgain, Restart, RequestCancel, DeadlinePasses,
                      channels, vars
  <1>4. CASE PlanLocalRepair
    <2>1. PICK ids \in SUBSET Range(work.ids) : todo' = {Key(id, "repair") : id \in ids}
      BY <1>4 DEF PlanLocalRepair
    <2>2. todo' \subseteq (TaskId \cup 1..fresh) \X Source
      BY <2>1 DEF Key, Source, RoundTyped, RequestsAreTyped
    <2> QED
      BY <1>4, <2>2 DEF PlanLocalRepair, channels, RoundTyped, ResearchTyped, RequestsAreTyped,
                        IsStored
  <1>5. CASE Stop \/ Crash
    BY <1>5, RoundTypedLeave DEF Stop, Crash, channels
  <1> QED
    BY <1>1, <1>3, <1>4, <1>5, RoundTypedEnter, RoundTypedChoose, RoundTypedCall, RoundTypedSave,
       RoundTypedWeb, RoundTypedCount, RoundTypedDecide DEF Next, NodeStep, ResearchStep

\* What every later invariant rests on.
GraphTyped == TypeOK /\ RequestsAreTyped /\ BudgetByPhase

LEMMA GraphTypedNext == GraphTyped /\ [Next]_vars => GraphTyped'
  BY FlagsTypedNext, PositionTypedNext, ChannelsTypedNext, RoundTypedNext, BudgetNext
     DEF GraphTyped, TypeOK, RoundTyped

\* The graph's channels, the calls it stored and the round that runs are of their types:
\* in particular at most MAX_REPAIR_COUNT repair rounds, and a request only for a task
\* that exists and a source that has a tool.
THEOREM GraphTypeCorrect == Spec => [](TypeOK /\ RequestsAreTyped)
  <1>1. Init => GraphTyped
    BY TypedInit, BudgetInit DEF GraphTyped
  <1>2. GraphTyped => TypeOK /\ RequestsAreTyped
    BY DEF GraphTyped
  <1> QED
    BY <1>1, <1>2, GraphTypedNext, PTL DEF Spec
-----------------------------------------------------------------------------
(* Stored calls.                                                           *)

LEMMA StoredOnceInit == Init => StoredOnce
  BY DEF Init, StoredOnce, NoWork, Empty

\* The round's calls change nothing that is looked up or about to be stored.
LEMMA StoredOnceStays ==
    ASSUME StoredOnce, UNCHANGED <<calls, web>>, todo' \subseteq todo,
           work'.pending \in {{}, work.pending}
    PROVE  StoredOnce'
  BY DEF StoredOnce, IsStored

LEMMA StoredOnceLeave ==
    ASSUME StoredOnce, LeaveLocal
    PROVE  StoredOnce'
  BY DEF StoredOnce, LeaveLocal, NoWork, Empty

\* A result is stored under a key that no other call is about to use.
LEMMA StoredOnceSave ==
    ASSUME StoredOnce, NEW k, NEW result, Store(k, result), UNCHANGED todo,
           \/ k[2] # "web" /\ UNCHANGED web /\ work'.pending = {}
           \/ k \in DOMAIN web /\ web' = [web EXCEPT ![k] = "saved"] /\ UNCHANGED work
    PROVE  StoredOnce'
  <1>1. \A l : IsStored(l)' => IsStored(l) \/ l = k
    BY DEF Store, With, IsStored
  <1>2. CASE k[2] # "web" /\ UNCHANGED web /\ work'.pending = {}
    BY <1>1, <1>2 DEF StoredOnce
  <1>3. CASE k \in DOMAIN web /\ web' = [web EXCEPT ![k] = "saved"] /\ UNCHANGED work
    <2>1. k[2] = "web"
      BY <1>3 DEF StoredOnce
    <2> QED
      BY <1>1, <1>3, <2>1 DEF StoredOnce
  <1> QED
    BY <1>2, <1>3

LEMMA StoredOnceCall ==
    ASSUME StoredOnce, RequestsAreTyped, CallTool
    PROVE  StoredOnce'
  <1>1. PICK k \in todo :
            CASE Raises -> Unwind
              [] ~Raises /\ IsStored(k) -> Record(k, calls[k]) /\ todo' = todo \ {k}
              [] OTHER ->
                   /\ \E r \in CallResults(k[2]) :
                         work' = [work EXCEPT !.pending = {[key |-> k, result |-> r]}]
                   /\ todo' = todo \ {k}
    BY DEF CallTool
  <1>2. UNCHANGED <<calls, web>>
    BY DEF CallTool
  <1>3. CASE Raises
    BY <1>1, <1>2, <1>3, StoredOnceStays DEF Unwind
  <1>4. CASE ~Raises /\ IsStored(k)
    <2>1. work'.pending = {} /\ todo' = todo \ {k}
      BY <1>1, <1>4 DEF Record, RequestsAreTyped, NoWork
    <2> QED
      BY <1>2, <2>1, StoredOnceStays
  <1>5. CASE ~Raises /\ ~IsStored(k)
    <2>1. /\ todo' = todo \ {k}
          /\ \E r : work'.pending = {[key |-> k, result |-> r]}
      BY <1>1, <1>5 DEF RequestsAreTyped, NoWork
    <2> QED
      BY <1>2, <1>5, <2>1 DEF StoredOnce, IsStored
  <1> QED
    BY <1>3, <1>4, <1>5

LEMMA StoredOnceNext ==
    StoredOnce /\ RequestsAreTyped /\ [Next]_vars => StoredOnce'
  <1> SUFFICES ASSUME StoredOnce, RequestsAreTyped, [Next]_vars
               PROVE  StoredOnce'
    OBVIOUS
  <1> DEFINE same == UNCHANGED <<calls, local>>
  <1>1. CASE same
    BY <1>1, StoredOnceStays DEF local
  <1>2. CASE NodeStep \/ ApprovalGate \/ AnswerAgain \/ Restart \/ RequestCancel \/ DeadlinePasses
                \/ UNCHANGED vars
    BY <1>1, <1>2 DEF NodeStep, Start, Supervisor, AnswerAgent, PlannerAgent, ReviewAgent,
                      FinalResponse, FallbackResponse, ApprovalGate, AnswerAgain, Restart, RequestCancel,
                      DeadlinePasses, vars
  <1>3. CASE EnterResearch
    <2>1. CASE UNCHANGED local
      BY <1>1, <1>3, <2>1 DEF EnterResearch
    <2>2. CASE /\ UNCHANGED <<calls, todo, web>>
               /\ work' = [NoWork EXCEPT !.ids = plan.ids, !.query = plan.query,
                                         !.repairs = repairs]
      <3>1. work'.pending = {}
        BY <2>2 DEF NoWork
      <3> QED
        BY <2>2, <3>1, StoredOnceStays
    <2> QED
      BY <1>3, <2>1, <2>2 DEF EnterResearch
  <1>4. CASE ChooseSources
    <2>1. PICK chosen \in [DOMAIN work.ids -> SourceChoices] :
              /\ work' = [work EXCEPT !.results = Empty]
              /\ todo' = Requests(work.ids, chosen, {"rag", "github"})
              /\ web' = [k \in Requests(work.ids, chosen, {"web"}) |-> "submitted"]
      BY <1>4 DEF ChooseSources
    <2>2. UNCHANGED calls /\ work'.pending = work.pending
      BY <1>4, <2>1 DEF ChooseSources, RequestsAreTyped, NoWork
    <2>3. \A k \in todo' : k[2] # "web"
      BY <2>1, RequestsOfRound
    <2>4. \A k \in DOMAIN web' : k[2] = "web" /\ web'[k] = "submitted"
      BY <2>1, RequestsOfRound
    <2> QED
      BY <2>2, <2>3, <2>4 DEF StoredOnce, IsStored
  <1>5. CASE CallTool
    BY <1>5, StoredOnceCall
  <1>6. CASE SaveCall
    <2>1. PICK call \in work.pending :
              /\ Store(call.key, call.result)
              /\ Record(call.key, [result |-> call.result, query |-> work.query])
      BY <1>6 DEF SaveCall
    <2>2. call.key[2] # "web"
      BY DEF StoredOnce
    <2>3. UNCHANGED <<web, todo>> /\ work'.pending = {}
      BY <1>6, <2>1 DEF SaveCall, Record, RequestsAreTyped, NoWork
    <2> QED
      BY <2>1, <2>2, <2>3, StoredOnceSave
  <1>7. CASE PlanLocalRepair
    <2>1. \A k \in todo' : k[2] = "repair"
      BY <1>7 DEF PlanLocalRepair, Key
    <2> QED
      BY <1>7, <2>1 DEF PlanLocalRepair, StoredOnce, IsStored
  <1>8. CASE Propose \/ Verify
    <2>1. UNCHANGED <<calls, web, todo>> /\ work'.pending = work.pending
      BY <1>8 DEF Propose, Verify, Unwind, RequestsAreTyped, NoWork
    <2> QED
      BY <2>1, StoredOnceStays
  <1>9. CASE Decide
    <2>1. CASE LeaveLocal
      BY <2>1, StoredOnceLeave
    <2>2. CASE UNCHANGED <<web, todo>> /\ work'.pending = work.pending
      BY <1>9, <2>2, StoredOnceStays DEF Decide
    <2> QED
      BY <1>9, <2>1, <2>2 DEF Decide, FinishResearch, ScheduleRepair, Unwind, RequestsAreTyped,
                              NoWork
  <1>10. CASE Stop \/ Crash
    BY <1>10, StoredOnceLeave DEF Stop, Crash
  <1>11. ASSUME NEW k \in DOMAIN web, WebCall(k)
         PROVE  StoredOnce'
    <2>1. PICK r \in IF IsStored(k) THEN {"saved"} ELSE CallResults("web") :
              web' = [web EXCEPT ![k] = r]
      BY <1>11 DEF WebCall
    <2> QED
      BY <1>11, <2>1 DEF WebCall, StoredOnce, IsStored
  <1>12. ASSUME NEW k \in DOMAIN web, WebSave(k)
         PROVE  StoredOnce'
    BY <1>12, StoredOnceSave DEF WebSave
  <1>13. ASSUME NEW k \in DOMAIN web, JoinWeb(k)
         PROVE  StoredOnce'
    <2>1. /\ UNCHANGED <<calls, todo>> /\ work'.pending \in {{}, work.pending}
          /\ web' = web \/ web' = [x \in DOMAIN web \ {k} |-> web[x]]
      BY <1>13 DEF JoinWeb, Unwind, Record, RequestsAreTyped, NoWork
    <2> QED
      BY <2>1 DEF StoredOnce, IsStored
  <1> QED
    BY <1>2, <1>3, <1>4, <1>5, <1>6, <1>7, <1>8, <1>9, <1>10, <1>11, <1>12, <1>13
       DEF Next, ResearchStep

LEMMA StoredStay ==
    StoredOnce /\ [Next]_vars =>
        [\A k \in DOMAIN calls : k \in DOMAIN calls' /\ calls'[k] = calls[k]]_calls
  <1> SUFFICES ASSUME StoredOnce, [Next]_vars, ~UNCHANGED calls
               PROVE  \A k \in DOMAIN calls : k \in DOMAIN calls' /\ calls'[k] = calls[k]
    OBVIOUS
  <1>1. SaveCall \/ \E k \in DOMAIN web : WebSave(k)
    BY DEF Next, NodeStep, Start, Supervisor, AnswerAgent, PlannerAgent, ReviewAgent,
           FinalResponse, FallbackResponse, ApprovalGate, AnswerAgain, Restart, RequestCancel, DeadlinePasses,
           vars, ResearchStep, EnterResearch, ChooseSources, CallTool, PlanLocalRepair, Propose,
           Verify, Decide, Stop, Crash, WebCall, JoinWeb
  <1>2. PICK k, result : Store(k, result) /\ ~IsStored(k)
    BY <1>1 DEF SaveCall, WebSave, StoredOnce
  <1> QED
    BY <1>2 DEF Store, With, IsStored

\* Whatever crashes and repeats, a stored result is neither overwritten nor lost: a key is
\* executed until its result is stored, and never after (execute_managed_tool).
THEOREM StoredCallsFinal == Spec => StoredCallsAreFinal
  <1>1. Init => GraphTyped /\ StoredOnce
    BY TypedInit, BudgetInit, StoredOnceInit DEF GraphTyped
  <1>2. GraphTyped /\ StoredOnce /\ [Next]_vars => GraphTyped' /\ StoredOnce'
    BY GraphTypedNext, StoredOnceNext DEF GraphTyped
  <1> QED
    BY <1>1, <1>2, StoredStay, PTL DEF Spec, StoredCallsAreFinal
-----------------------------------------------------------------------------
(* The phases of a round.                                                  *)

LEMMA PhaseHoldsNext == PhaseHolds /\ GraphTyped /\ [Next]_vars => PhaseHolds'
  <1> SUFFICES ASSUME PhaseHolds, GraphTyped, [Next]_vars
               PROVE  PhaseHolds'
    OBVIOUS
  <1> USE DEF PhaseHolds, Idle
  <1>0. DOMAIN work = DOMAIN NoWork
    BY DEF GraphTyped, RequestsAreTyped
  <1>1. CASE UNCHANGED local
    BY <1>1 DEF local
  <1>2. CASE LeaveLocal
    BY <1>2 DEF LeaveLocal, NoWork, Empty
  <1>3. CASE NodeStep \/ ApprovalGate \/ AnswerAgain \/ Restart \/ RequestCancel \/ DeadlinePasses
                \/ UNCHANGED vars
    BY <1>1, <1>3 DEF NodeStep, Start, Supervisor, AnswerAgent, PlannerAgent, ReviewAgent,
                      FinalResponse, FallbackResponse, ApprovalGate, AnswerAgain, Restart, RequestCancel,
                      DeadlinePasses, vars
  <1>4. CASE Stop \/ Crash
    BY <1>2, <1>4 DEF Stop, Crash
  <1>5. CASE EnterResearch
    <2>1. CASE /\ phase = Idle /\ phase' = "choose" /\ UNCHANGED <<todo, web, found>>
               /\ work' = [NoWork EXCEPT !.ids = plan.ids, !.query = plan.query,
                                         !.repairs = repairs]
      <3>1. work'.pending = {}
        BY <2>1 DEF NoWork
      <3> QED
        BY <2>1, <3>1
    <2> QED
      BY <1>1, <1>5, <2>1 DEF EnterResearch, Running
  <1>6. CASE ChooseSources
    <2>1. /\ phase = "choose" /\ phase' = "gather" /\ UNCHANGED found
          /\ work'.pending = work.pending
      BY <1>0, <1>6 DEF ChooseSources, NoWork
    <2> QED
      BY <2>1
  <1>7. CASE CallTool
    <2>1. phase \in {"gather", "repairing"} /\ UNCHANGED web /\ work.pending = {}
      BY <1>7 DEF CallTool, Managing
    <2>2. \/ phase' = "unwinding" /\ UNCHANGED found
          \/ UNCHANGED phase /\ work'.pending = {}
          \/ phase = "gather" /\ phase' = "gatherSave" /\ UNCHANGED found
          \/ phase = "repairing" /\ phase' = "repairSave" /\ UNCHANGED found
      BY <1>0, <1>7, <2>1 DEF CallTool, Unwind, Record, NoWork
    <2> QED
      BY <2>1, <2>2
  <1>8. CASE SaveCall
    <2>1. \/ phase = "gatherSave" /\ phase' = "gather"
          \/ phase = "repairSave" /\ phase' = "repairing"
      BY <1>8 DEF SaveCall
    <2>2. UNCHANGED web /\ work'.pending = {}
      BY <1>0, <1>8 DEF SaveCall, Record, NoWork
    <2> QED
      BY <2>1, <2>2
  <1>9. CASE PlanLocalRepair
    BY <1>9 DEF PlanLocalRepair
  <1>10. CASE Propose \/ Verify
    <2>1. \/ phase = "repairing" /\ todo = {} /\ phase' \in {"verify", "unwinding"}
          \/ phase = "verify" /\ phase' \in {"decide", "unwinding"}
      BY <1>10 DEF Propose, Verify, Unwind
    <2>2. UNCHANGED <<web, todo>> /\ work'.pending = work.pending
      BY <1>0, <1>10 DEF Propose, Verify, Unwind, NoWork
    <2> QED
      BY <2>1, <2>2
  <1>11. CASE Decide
    <2>1. CASE /\ phase = "decide" /\ phase' \in {"choose", "unwinding"}
               /\ UNCHANGED <<todo, web>> /\ work'.pending = work.pending
      BY <2>1
    <2> QED
      BY <1>0, <1>2, <1>11, <2>1 DEF Decide, FinishResearch, ScheduleRepair, Unwind, NoWork
  <1>12. ASSUME NEW k \in DOMAIN web, WebCall(k) \/ WebSave(k) \/ JoinWeb(k)
         PROVE  PhaseHolds'
    <2>1. phase \in {"gather", "gatherSave", "unwinding"} \/ UNCHANGED phase
      BY <1>12 DEF WebCall, WebSave, JoinWeb
    <2>2. UNCHANGED <<phase, work, todo, found>> \/ JoinWeb(k)
      BY <1>12 DEF WebCall, WebSave
    <2>3. phase \in {"gather", "gatherSave", "unwinding"}
      OBVIOUS
    <2>4. JoinWeb(k) => /\ UNCHANGED todo /\ phase = "gather"
                        /\ phase' = "unwinding" \/ (phase' = "gather" /\ work'.pending = {})
      BY <1>0 DEF JoinWeb, Unwind, Record, NoWork
    <2> QED
      BY <2>2, <2>3, <2>4
  <1> QED
    BY <1>3, <1>4, <1>5, <1>6, <1>7, <1>8, <1>9, <1>10, <1>11, <1>12 DEF Next, ResearchStep
-----------------------------------------------------------------------------
(* What is published.                                                      *)

\* A thread that was started again stays one.
LEMMA RestartedStays == restarted /\ [Next]_vars => restarted'
  <1> SUFFICES ASSUME restarted, [Next]_vars
               PROVE  restarted'
    OBVIOUS
  <1>1. CASE NodeStep \/ ApprovalGate \/ RequestCancel \/ DeadlinePasses \/ UNCHANGED vars
    BY <1>1 DEF NodeStep, Start, Supervisor, AnswerAgent, PlannerAgent, ReviewAgent,
                FinalResponse, FallbackResponse, ApprovalGate, RequestCancel, DeadlinePasses,
                vars, outside
  <1>2. CASE AnswerAgain \/ Restart \/ Crash \/ Stop
    BY <1>2 DEF AnswerAgain, Restart, Crash, Stop
  <1>3. CASE EnterResearch \/ ChooseSources \/ CallTool \/ SaveCall \/ PlanLocalRepair \/ Propose
                \/ Verify \/ Decide
    BY <1>3 DEF EnterResearch, ChooseSources, CallTool, SaveCall, PlanLocalRepair, Propose,
                Verify, Decide, outside
  <1>4. ASSUME NEW k \in DOMAIN web, WebCall(k) \/ WebSave(k) \/ JoinWeb(k)
        PROVE  restarted'
    BY <1>4 DEF WebCall, WebSave, JoinWeb, outside
  <1> QED
    BY <1>1, <1>2, <1>3, <1>4 DEF Next, ResearchStep

\* The nodes but research.
LEMMA VerdictNode ==
    ASSUME VerdictHasEvidence, GraphTyped, ~restarted, NodeStep \/ ApprovalGate
    PROVE  VerdictHasEvidence'
  <1> USE DEF VerdictHasEvidence, Untried, Before, Verified
  <1>0. phase' = Idle /\ Idle # "decide"
    BY DEF NodeStep, Start, Supervisor, AnswerAgent, PlannerAgent, ReviewAgent,
           FinalResponse, FallbackResponse, ApprovalGate, Running, local, Idle
  <1>1. CASE Start \/ Supervisor
    BY <1>0, <1>1 DEF Start, Supervisor, SupervisorRoutes, channels
  <1>2. CASE AnswerAgent
    <2>1. /\ node = "answer" /\ UNCHANGED published
          /\ \/ node' = "final" /\ draft'
             \/ node' = "fallback"
      BY <1>2 DEF AnswerAgent
    <2> QED
      BY <1>0, <2>1
  <1>3. CASE PlannerAgent
    <2>1. /\ node = "planner" /\ UNCHANGED <<evidence, draft, published, verdict>>
          /\ \/ UNCHANGED <<node, status>>
             \/ node' = "gate" /\ status' = "waiting_user"
             \/ node' = "research"
      BY <1>3 DEF PlannerAgent
    <2> QED
      BY <1>0, <2>1
  <1>4. CASE ApprovalGate
    <2>1. /\ node = "gate" /\ status = "waiting_user"
          /\ node' \in {"research", "planner", "fallback"}
          /\ UNCHANGED <<evidence, draft, published, verdict>>
      BY <1>4 DEF ApprovalGate, GateGoto, Decision
    <2> QED
      BY <1>0, <2>1
  <1>5. CASE ReviewAgent
    <2>1. /\ node = "review" /\ UNCHANGED <<evidence, draft, published, verdict>>
          /\ \/ node' = "gate" /\ status' = "running"
             \/ node' = "final" /\ verdict = "passed"
             \/ node' = "fallback"
      BY <1>5 DEF ReviewAgent
    <2> QED
      BY <1>0, <2>1
  <1>6. CASE FinalResponse
    <2>1. /\ node = "final" /\ node' = "end" /\ UNCHANGED <<evidence, draft, verdict>>
          /\ published' = "proposal" => ~draft
      BY <1>6 DEF FinalResponse
    <2> QED
      BY <1>0, <2>1
  <1>7. CASE FallbackResponse
    <2>1. node' = "end" /\ UNCHANGED <<evidence, draft, verdict>> /\ published' = "fallback"
      BY <1>7 DEF FallbackResponse
    <2> QED
      BY <1>0, <2>1
  <1> QED
    BY <1>1, <1>2, <1>3, <1>4, <1>5, <1>6, <1>7 DEF NodeStep

\* Research that goes on, or is given up, leaves the channels as they are.
LEMMA VerdictStays ==
    ASSUME VerdictHasEvidence, ~restarted,
           UNCHANGED <<node, status, evidence, draft, published, verdict>>,
           phase' = "decide" => phase = "decide" /\ UNCHANGED <<work, found>>
    PROVE  VerdictHasEvidence'
  BY DEF VerdictHasEvidence, Untried, Before, Verified, HasEvidence

LEMMA VerdictFinish ==
    ASSUME VerdictHasEvidence, ~restarted, node = "research", phase = "decide",
           NEW action \in {"complete", "ask_user", "fallback"}, NEW count,
           action = "complete" => work.verdict = "passed",
           FinishResearch(action, count), UNCHANGED <<draft, published>>
    PROVE  VerdictHasEvidence'
  <1>1. /\ node' \in {"review", "gate", "fallback"} /\ status' = "running"
        /\ evidence' = evidence \cup found /\ verdict' = work.verdict /\ phase' = Idle
    BY DEF FinishResearch, StatusAfterResearch, LeaveLocal
  <1> QED
    BY <1>1 DEF VerdictHasEvidence, Untried, Before, Verified, HasEvidence, Idle

LEMMA VerdictNext ==
    VerdictHasEvidence /\ GraphTyped /\ [Next]_vars => VerdictHasEvidence'
  <1> SUFFICES ASSUME VerdictHasEvidence, GraphTyped, [Next]_vars, ~restarted, ~restarted'
               PROVE  VerdictHasEvidence'
    BY RestartedStays DEF VerdictHasEvidence
  <1>1. CASE NodeStep \/ ApprovalGate
    BY <1>1, VerdictNode
  <1>2. CASE AnswerAgain \/ Restart
    BY <1>2 DEF AnswerAgain, Restart
  <1>3. CASE RequestCancel \/ DeadlinePasses \/ UNCHANGED vars
    BY <1>3, VerdictStays DEF RequestCancel, DeadlinePasses, vars, channels, local
  <1>4. CASE EnterResearch
    <2>1. CASE UNCHANGED local /\ UNCHANGED <<node, status>>
      BY <1>4, <2>1, VerdictStays DEF EnterResearch, local
    <2>2. CASE UNCHANGED local /\ node' = "fallback"
      BY <1>4, <2>2 DEF EnterResearch, Running, local, VerdictHasEvidence, Untried, Before, Verified,
                        HasEvidence, Idle
    <2>3. CASE phase' = "choose" /\ UNCHANGED <<node, status>>
      BY <1>4, <2>3, VerdictStays DEF EnterResearch
    <2> QED
      BY <1>4, <2>1, <2>2, <2>3 DEF EnterResearch
  <1>5. CASE ChooseSources \/ CallTool \/ SaveCall \/ PlanLocalRepair \/ Propose
    <2>1. phase' # "decide"
      BY <1>5 DEF ChooseSources, CallTool, SaveCall, PlanLocalRepair, Propose, Unwind, Managing
    <2> QED
      BY <1>5, <2>1, VerdictStays DEF ChooseSources, CallTool, SaveCall, PlanLocalRepair, Propose,
                                      channels
  <1>6. CASE Verify
    <2>1. UNCHANGED <<node, status, evidence, draft, published, verdict, found>>
      BY <1>6 DEF Verify, Unwind, channels
    <2>2. CASE phase' = "unwinding"
      BY <2>1, <2>2, VerdictStays
    <2>3. ASSUME NEW v \in Verdicts, work' = [work EXCEPT !.verdict = v, !.count = @ + 1]
          PROVE  VerdictHasEvidence'
      <3>1. work'.verdict = v
        BY <2>3 DEF GraphTyped, RequestsAreTyped, NoWork
      <3>2. work'.verdict = "passed" => HasEvidence'
        BY <2>1, <3>1 DEF Verdicts, HasEvidence
      <3> QED
        BY <2>1, <3>2 DEF VerdictHasEvidence, Untried, Before, Verified
    <2> QED
      BY <1>6, <2>2, <2>3 DEF Verify, Unwind
  <1>7. CASE Decide
    <2>1. node = "research" /\ phase = "decide" /\ UNCHANGED <<draft, published>>
      BY <1>7 DEF Decide, GraphTyped, TypeOK, PositionTyped, Idle
    <2>2. CASE \E action \in {"complete", "ask_user", "fallback"}, count \in {work.count, work.count + 1} :
                  FinishResearch(action, count) /\ (action = "complete" => work.verdict = "passed")
      BY <2>1, <2>2, VerdictFinish
    <2>3. CASE /\ UNCHANGED <<node, status, evidence, verdict>>
               /\ phase' \in {"choose", "unwinding"}
      BY <2>1, <2>3, VerdictStays
    <2> QED
      BY <1>7, <2>2, <2>3 DEF Decide, ScheduleRepair, Unwind
  <1>8. CASE Stop \/ Crash
    BY <1>8, VerdictStays DEF Stop, Crash, LeaveLocal, channels, Idle
  <1>9. ASSUME NEW k \in DOMAIN web, WebCall(k) \/ WebSave(k) \/ JoinWeb(k)
        PROVE  VerdictHasEvidence'
    <2>1. UNCHANGED <<node, status, evidence, draft, published, verdict>>
      BY <1>9 DEF WebCall, WebSave, JoinWeb, channels
    <2>2. UNCHANGED <<phase, work, found>> \/ phase' # "decide"
      BY <1>9 DEF WebCall, WebSave, JoinWeb, Unwind
    <2> QED
      BY <2>1, <2>2, VerdictStays
  <1> QED
    BY <1>1, <1>2, <1>3, <1>4, <1>5, <1>6, <1>7, <1>8, <1>9 DEF Next, ResearchStep

\* Only an edit changes the policy.
LocalPolicy == KeepsPolicy(requested)' => localOnly'

LEMMA PolicyStays ==
    ASSUME [Next]_vars
    PROVE  UNCHANGED requested /\ (UNCHANGED localOnly \/ ApprovalGate)
  <1>1. CASE NodeStep \/ ApprovalGate \/ AnswerAgain \/ Restart \/ RequestCancel \/ DeadlinePasses
                \/ UNCHANGED vars
    BY <1>1 DEF NodeStep, Start, Supervisor, AnswerAgent, PlannerAgent, ReviewAgent,
                FinalResponse, FallbackResponse, ApprovalGate, AnswerAgain, Restart, RequestCancel,
                DeadlinePasses, vars, channels
  <1>2. CASE EnterResearch \/ ChooseSources \/ CallTool \/ SaveCall \/ PlanLocalRepair \/ Propose
                \/ Verify \/ Decide \/ Stop \/ Crash
    BY <1>2 DEF EnterResearch, ChooseSources, CallTool, SaveCall, PlanLocalRepair, Propose,
                Verify, Decide, Stop, Crash, channels
  <1>3. ASSUME NEW k \in DOMAIN web, WebCall(k) \/ WebSave(k) \/ JoinWeb(k)
        PROVE  UNCHANGED <<requested, localOnly>>
    BY <1>3 DEF WebCall, WebSave, JoinWeb, channels
  <1> QED
    BY <1>1, <1>2, <1>3 DEF Next, ResearchStep

\* Requests and results of a task that is restricted to local sources.
LEMMA LocalStays ==
    ASSUME LocalSoFar, IsLocal, LocalPolicy, UNCHANGED web,
           todo' \subseteq todo, work'.pending \in {{}, work.pending},
           evidence' \cup found' \subseteq evidence \cup found
    PROVE  LocalSoFar'
  BY DEF LocalSoFar, LocalPolicy

LEMMA LocalLeave ==
    ASSUME LocalSoFar, IsLocal, LocalPolicy, LeaveLocal,
           evidence' \in {evidence, evidence \cup found}
    PROVE  LocalSoFar'
  BY DEF LocalSoFar, LocalPolicy, LeaveLocal, NoWork, Empty

\* What a local request finds is local.
LEMMA LocalRecord ==
    ASSUME LocalSoFar, GraphTyped, IsLocal, LocalPolicy, NEW k, NEW call, Record(k, call),
           k[2] \in {"rag", "repair"}, UNCHANGED evidence,
           todo' \subseteq todo, DOMAIN web' \subseteq DOMAIN web
    PROVE  LocalSoFar'
  <1>1. work'.pending = {}
    BY DEF Record, GraphTyped, RequestsAreTyped, NoWork
  <1>2. \A e \in found' : e \in found \/ e.source = k[2]
    BY DEF Record
  <1> QED
    BY <1>1, <1>2 DEF LocalSoFar, LocalPolicy

LEMMA LocalCall ==
    ASSUME LocalSoFar, GraphTyped, IsLocal, LocalPolicy, CallTool
    PROVE  LocalSoFar'
  <1>1. PICK k \in todo :
            CASE Raises -> Unwind
              [] ~Raises /\ IsStored(k) -> Record(k, calls[k]) /\ todo' = todo \ {k}
              [] OTHER ->
                   /\ \E r \in CallResults(k[2]) :
                         work' = [work EXCEPT !.pending = {[key |-> k, result |-> r]}]
                   /\ todo' = todo \ {k} /\ UNCHANGED found
    BY DEF CallTool
  <1>2. UNCHANGED <<evidence, web>>
    BY DEF CallTool, channels
  <1>3. k[2] \in {"rag", "repair"}
    BY DEF LocalSoFar
  <1>4. CASE Raises
    BY <1>1, <1>2, <1>4, LocalStays DEF Unwind
  <1>5. CASE ~Raises /\ IsStored(k)
    <2>1. Record(k, calls[k]) /\ todo' \subseteq todo
      BY <1>1, <1>5
    <2> QED
      BY <1>2, <1>3, <2>1, LocalRecord
  <1>6. CASE ~Raises /\ ~IsStored(k)
    <2>1. /\ todo' \subseteq todo /\ UNCHANGED found
          /\ \E r : work'.pending = {[key |-> k, result |-> r]}
      BY <1>1, <1>6 DEF GraphTyped, RequestsAreTyped, NoWork
    <2> QED
      BY <1>2, <1>3, <2>1 DEF LocalSoFar, LocalPolicy
  <1> QED
    BY <1>4, <1>5, <1>6

LEMMA LocalNode ==
    ASSUME LocalSoFar, IsLocal, LocalPolicy, NodeStep
    PROVE  LocalSoFar'
  <1>1. UNCHANGED <<work, todo, web, found>>
    BY DEF NodeStep, Start, Supervisor, AnswerAgent, PlannerAgent, ReviewAgent,
           FinalResponse, FallbackResponse, local
  <1>2. CASE AnswerAgent
    <2>1. PICK chosen \in AnswerTools : \E cited \in SUBSET chosen :
              evidence' = evidence \cup [source : cited, current : {TRUE}]
      BY <1>2 DEF AnswerAgent
    <2>2. \A e \in evidence' : e \in evidence \/ e.source \in chosen
      BY <2>1
    <2>3. chosen \subseteq {"rag", "repair"}
      BY DEF AnswerTools, IsLocal
    <2> QED
      BY <1>1, <2>2, <2>3 DEF LocalSoFar, LocalPolicy
  <1>3. CASE ~AnswerAgent
    <2>1. UNCHANGED evidence
      BY <1>3 DEF NodeStep, Start, Supervisor, PlannerAgent, ReviewAgent, FinalResponse,
                  FallbackResponse, channels
    <2> QED
      BY <1>1, <2>1, LocalStays
  <1> QED
    BY <1>2, <1>3

\* A task that becomes restricted by an edit has looked for nothing yet.
LEMMA LocalGate ==
    ASSUME LocalSoFar, VerdictHasEvidence, PhaseHolds, LocalPolicy, IsLocal', UNCHANGED requested,
           ApprovalGate
    PROVE  LocalSoFar'
  <1>1. UNCHANGED <<evidence, work, todo, web, found, restarted>> /\ phase = Idle
    BY DEF ApprovalGate, Running, local, outside
  <1>2. CASE IsLocal
    BY <1>1, <1>2, LocalStays
  <1>3. CASE ~IsLocal
    <2>1. ~restarted
      BY <1>1, <1>3 DEF IsLocal, LocalSoFar, KeepsPolicy
    <2>2. evidence' = {} /\ found' = {} /\ todo' = {} /\ DOMAIN web' = {} /\ work'.pending = {}
      BY <1>1, <2>1 DEF ApprovalGate, VerdictHasEvidence, Untried, PhaseHolds, Idle
    <2> QED
      BY <2>2 DEF LocalSoFar, LocalPolicy
  <1> QED
    BY <1>2, <1>3

LEMMA LocalNext ==
    LocalSoFar /\ VerdictHasEvidence /\ PhaseHolds /\ GraphTyped /\ [Next]_vars => LocalSoFar'
  <1> SUFFICES ASSUME LocalSoFar, VerdictHasEvidence, PhaseHolds, GraphTyped, [Next]_vars
               PROVE  LocalSoFar'
    OBVIOUS
  <1>0. LocalPolicy
    <2>1. ApprovalGate => UNCHANGED localOnly \/ localOnly'
      BY DEF ApprovalGate
    <2> QED
      BY <2>1, PolicyStays DEF LocalSoFar, LocalPolicy, KeepsPolicy
  <1>1. CASE ~IsLocal'
    BY <1>0, <1>1 DEF LocalSoFar, LocalPolicy
  <1>2. CASE IsLocal' /\ ApprovalGate
    BY <1>0, <1>2, LocalGate, PolicyStays
  <1> SUFFICES ASSUME IsLocal
               PROVE  LocalSoFar'
    <2>1. UNCHANGED <<requested, localOnly>> => (IsLocal' => IsLocal)
      BY RestartedStays DEF IsLocal, KeepsPolicy
    <2> QED
      BY <1>1, <1>2, <2>1, PolicyStays
  <1> USE <1>0
  <1>3. CASE NodeStep
    BY <1>3, LocalNode
  <1>13. CASE AnswerAgain \/ Restart \/ RequestCancel \/ DeadlinePasses \/ UNCHANGED vars
    BY <1>13, LocalStays DEF AnswerAgain, Restart, RequestCancel, DeadlinePasses, vars, channels, local
  <1>4. CASE EnterResearch
    <2>1. UNCHANGED <<evidence, todo, web, found>>
      BY <1>4 DEF EnterResearch, local
    <2>2. work'.pending \in {{}, work.pending}
      BY <1>4 DEF EnterResearch, local, NoWork
    <2> QED
      BY <2>1, <2>2, LocalStays
  <1>5. CASE ChooseSources
    <2>1. PICK chosen \in [DOMAIN work.ids -> SourceChoices] :
              /\ work' = [work EXCEPT !.results = Empty]
              /\ todo' = Requests(work.ids, chosen, {"rag", "github"})
              /\ web' = [k \in Requests(work.ids, chosen, {"web"}) |-> "submitted"]
      BY <1>5 DEF ChooseSources
    <2>2. UNCHANGED <<evidence, found>> /\ work'.pending = work.pending
      BY <1>5, <2>1 DEF ChooseSources, channels, GraphTyped, RequestsAreTyped, NoWork
    <2>3. Allowed = {"rag"}
      BY DEF Allowed, IsLocal
    <2>4. \A k \in todo' : k[2] \in Allowed
      BY <2>1, RequestsOfRound
    <2>5. \A k \in DOMAIN web' : k[2] \in {"web"} /\ k[2] \in Allowed
      BY <2>1, RequestsOfRound
    <2> QED
      BY <2>2, <2>3, <2>4, <2>5 DEF LocalSoFar, LocalPolicy
  <1>6. CASE CallTool
    BY <1>6, LocalCall
  <1>7. CASE SaveCall
    <2>1. PICK call \in work.pending :
              Record(call.key, [result |-> call.result, query |-> work.query])
      BY <1>7 DEF SaveCall
    <2>2. call.key[2] \in {"rag", "repair"}
      BY DEF LocalSoFar
    <2> QED
      BY <1>7, <2>1, <2>2, LocalRecord DEF SaveCall, channels
  <1>8. CASE PlanLocalRepair
    <2>1. \A k \in todo' : k[2] = "repair"
      BY <1>8 DEF PlanLocalRepair, Key
    <2> QED
      BY <1>8, <2>1 DEF PlanLocalRepair, channels, LocalSoFar, LocalPolicy
  <1>9. CASE Propose \/ Verify
    <2>1. /\ UNCHANGED <<evidence, todo, web, found>>
          /\ work'.pending = work.pending
      BY <1>9 DEF Propose, Verify, Unwind, channels, GraphTyped, RequestsAreTyped, NoWork
    <2> QED
      BY <2>1, LocalStays
  <1>10. CASE Decide
    <2>1. CASE LeaveLocal /\ evidence' = evidence \cup found
      BY <1>10, <2>1, LocalLeave DEF Decide
    <2>2. CASE UNCHANGED <<evidence, todo, web, found>> /\ work'.pending = work.pending
      BY <1>10, <2>2, LocalStays DEF Decide
    <2> QED
      BY <1>10, <2>1, <2>2 DEF Decide, FinishResearch, ScheduleRepair, Unwind, GraphTyped,
                               RequestsAreTyped, NoWork
  <1>11. CASE Stop \/ Crash
    BY <1>11, LocalLeave DEF Stop, Crash, channels
  <1>12. ASSUME NEW k \in DOMAIN web, WebCall(k) \/ WebSave(k) \/ JoinWeb(k)
         PROVE  LocalSoFar'
    BY <1>12 DEF LocalSoFar
  <1> QED
    BY <1>1, <1>2, <1>3, <1>4, <1>5, <1>6, <1>7, <1>8, <1>9, <1>10, <1>11, <1>12,
       <1>13 DEF Next, ResearchStep

PublishInv == GraphTyped /\ PhaseHolds /\ VerdictHasEvidence /\ LocalSoFar

LEMMA PublishInvariant == Spec => []PublishInv
  <1>1. Init => PublishInv
    <2> SUFFICES ASSUME Init PROVE PublishInv
      OBVIOUS
    <2>1. GraphTyped
      BY TypedInit, BudgetInit DEF GraphTyped
    <2>2. PhaseHolds
      BY DEF Init, PhaseHolds, NoWork, Empty
    <2>3. VerdictHasEvidence
      BY DEF Init, VerdictHasEvidence, NoWork, Idle
    <2>4. LocalSoFar
      BY DEF Init, LocalSoFar, NoWork, Empty, KeepsPolicy
    <2> QED
      BY <2>1, <2>2, <2>3, <2>4 DEF PublishInv
  <1>2. PublishInv /\ [Next]_vars => PublishInv'
    BY GraphTypedNext, PhaseHoldsNext, VerdictNext, LocalNext DEF PublishInv
  <1> QED
    BY <1>1, <1>2, PTL DEF Spec

\* A proposal that is published was passed with evidence that cites a source, a local one
\* if the task is restricted to local sources (verify_research_task, _research_agent).
THEOREM PublishedVerified == Spec => []PublishedIsVerified
  <1>1. PublishInv => PublishedIsVerified
    BY DEF PublishInv, VerdictHasEvidence, LocalSoFar, PublishedIsVerified, Verified, IsLocal
  <1> QED
    BY <1>1, PublishInvariant, PTL

\* A task that keeps its policy, because no scenario replaces its initial state, finds
\* evidence in local sources only, whatever is edited, dies or starts again
\* (resolve_source_policy).
THEOREM LocalOnlyKept == ~HasScenario => (Spec => []LocalOnlyIsKept)
  <1> SUFFICES ASSUME ~HasScenario
               PROVE  Spec => []LocalOnlyIsKept
    OBVIOUS
  <1>1. PublishInv => LocalOnlyIsKept
    BY DEF PublishInv, LocalSoFar, LocalOnlyIsKept, IsLocal, KeepsPolicy
  <1> QED
    BY <1>1, PublishInvariant, PTL
-----------------------------------------------------------------------------
(* Rounds and their answers.                                               *)

\* What the round holds and asks stays, or is a part of it.
LEMMA AsksStays ==
    ASSUME RoundAsksItsOwn, ~restarted, UNCHANGED <<node, status, plan, calls>>,
           work'.ids = work.ids, work'.query = work.query,
           phase' # Idle => phase # Idle,
           todo' \subseteq todo, DOMAIN web' \subseteq DOMAIN web,
           work'.pending \in {{}, work.pending},
           UNCHANGED fresh, \A e \in evidence' \cup found' : e.current
    PROVE  RoundAsksItsOwn'
  BY DEF RoundAsksItsOwn, EvidenceAnswersItsQuery, Untried, Before

\* A round that ends leaves what it found.
LEMMA AsksLeave ==
    ASSUME RoundAsksItsOwn, ~restarted, LeaveLocal, UNCHANGED calls,
           evidence' \in {evidence, evidence \cup found},
           \/ UNCHANGED <<node, status, plan>>
           \/ node' \in {"review", "gate", "fallback"} /\ status' = "running"
    PROVE  RoundAsksItsOwn'
  <1>1. phase' = Idle /\ todo' = {} /\ DOMAIN web' = {} /\ found' = {} /\ work'.pending = {}
    BY DEF LeaveLocal, NoWork, Empty
  <1> QED
    BY <1>1 DEF RoundAsksItsOwn, EvidenceAnswersItsQuery, Untried, Before

LEMMA AsksNode ==
    ASSUME RoundAsksItsOwn, GraphTyped, PhaseHolds, ~restarted, NodeStep \/ ApprovalGate
    PROVE  RoundAsksItsOwn'
  <1>1. UNCHANGED <<calls, work, todo, web, found, phase, fresh>> /\ phase = Idle
    BY DEF NodeStep, Start, Supervisor, AnswerAgent, PlannerAgent, ReviewAgent,
           FinalResponse, FallbackResponse, ApprovalGate, Running, local
  <1>2. todo = {} /\ DOMAIN web = {} /\ work.pending = {}
    BY <1>1 DEF PhaseHolds, Idle
  <1>3. \A e \in evidence' \cup found' : e.current
    <2>1. \A e \in evidence' : e \in evidence \/ e.current
      BY DEF NodeStep, Start, Supervisor, AnswerAgent, PlannerAgent, ReviewAgent,
             FinalResponse, FallbackResponse, ApprovalGate, channels
    <2> QED
      BY <1>1, <2>1 DEF RoundAsksItsOwn, EvidenceAnswersItsQuery
  <1>4. /\ Untried' => DOMAIN calls = {} /\ Range(plan'.ids) \subseteq TaskId
        /\ node' = "research" => DOMAIN calls = {} /\ Range(plan'.ids) \subseteq TaskId
    <2>1. CASE PlannerAgent
      <3>1. \/ UNCHANGED <<node, status, plan>>
            \/ \E ids \in Plans : plan' = [ids |-> ids, query |-> edits]
        BY <2>1 DEF PlannerAgent
      <3>2. node = "planner"
        BY <2>1 DEF PlannerAgent
      <3> QED
        BY <3>1, <3>2, PlansAreOfTasks DEF RoundAsksItsOwn, Untried, Before
    <2>2. CASE ~PlannerAgent
      <3>1. UNCHANGED plan
        BY <2>2 DEF NodeStep, Start, Supervisor, AnswerAgent, ReviewAgent, FinalResponse,
                    FallbackResponse, ApprovalGate, channels
      <3>2. Untried' \/ node' = "research" => Untried
        BY <2>2 DEF NodeStep, Start, Supervisor, SupervisorRoutes, AnswerAgent, ReviewAgent,
                    FinalResponse, FallbackResponse, ApprovalGate, Untried, Before
      <3> QED
        BY <3>1, <3>2 DEF RoundAsksItsOwn
    <2> QED
      BY <2>1, <2>2
  <1> QED
    BY <1>1, <1>2, <1>3, <1>4 DEF RoundAsksItsOwn, EvidenceAnswersItsQuery

\* What is stored was asked for by a task of the round.
LEMMA AsksStore ==
    ASSUME RoundAsksItsOwn, GraphTyped, ~restarted, phase # Idle, phase' # Idle,
           NEW k, NEW result, k[1] \in Range(work.ids), Store(k, result),
           UNCHANGED <<node, status, plan, fresh>>, work'.ids = work.ids, work'.query = work.query,
           todo' \subseteq todo, DOMAIN web' \subseteq DOMAIN web,
           work'.pending \in {{}, work.pending}, \A e \in evidence' \cup found' : e.current
    PROVE  RoundAsksItsOwn'
  <1>1. /\ DOMAIN calls' = DOMAIN calls \cup {k}
        /\ \A l \in DOMAIN calls' :
              calls'[l] = IF l = k THEN [result |-> result, query |-> work.query] ELSE calls[l]
    BY DEF Store, With
  <1>2. node = "research"
    BY DEF GraphTyped, TypeOK, PositionTyped
  <1>3. ~Untried'
    BY <1>2 DEF Untried, Before
  <1>4. \A l \in DOMAIN calls' : l[1] \in Range(work.ids) => calls'[l].query = work.query
    BY <1>1 DEF RoundAsksItsOwn
  <1>5. \A l \in DOMAIN calls' : l[1] \in TaskId => calls'[l].query = plan.query
    <2>1. k[1] \in TaskId => work.query = plan.query
      <3>1. Range(work.ids) \subseteq 1..fresh => k[1] \notin TaskId
        BY GraphAssumption DEF GraphTyped, RequestsAreTyped
      <3> QED
        BY <3>1 DEF RoundAsksItsOwn
    <2> QED
      BY <1>1, <1>2, <2>1 DEF RoundAsksItsOwn
  <1> QED
    BY <1>2, <1>3, <1>4, <1>5 DEF RoundAsksItsOwn, EvidenceAnswersItsQuery

LEMMA AsksRecord ==
    ASSUME RoundAsksItsOwn, GraphTyped, ~restarted, NEW k, NEW call, Record(k, call),
           call.query = work.query, UNCHANGED evidence
    PROVE  /\ work'.ids = work.ids /\ work'.query = work.query /\ work'.pending = {}
           /\ \A e \in evidence' \cup found' : e.current
  <1>1. work'.ids = work.ids /\ work'.query = work.query /\ work'.pending = {}
    BY DEF Record, GraphTyped, RequestsAreTyped, NoWork
  <1>2. \A e \in found' : e \in found \/ e.current
    <2> DEFINE new == [source |-> k[2], current |-> call.query = work.query]
    <2>1. new.current
      OBVIOUS
    <2>2. \A e \in found' : e \in found \/ e = new
      BY DEF Record
    <2> HIDE DEF new
    <2> QED
      BY <2>1, <2>2
  <1> QED
    BY <1>1, <1>2 DEF RoundAsksItsOwn, EvidenceAnswersItsQuery

LEMMA AsksCall ==
    ASSUME RoundAsksItsOwn, GraphTyped, ~restarted, CallTool
    PROVE  RoundAsksItsOwn'
  <1>1. PICK k \in todo :
            CASE Raises -> Unwind
              [] ~Raises /\ IsStored(k) -> Record(k, calls[k]) /\ todo' = todo \ {k}
              [] OTHER ->
                   /\ \E r \in CallResults(k[2]) :
                         work' = [work EXCEPT !.pending = {[key |-> k, result |-> r]}]
                   /\ todo' = todo \ {k} /\ UNCHANGED found
    BY DEF CallTool
  <1>2. UNCHANGED <<node, status, plan, evidence, calls, web, fresh>> /\ phase # Idle
    BY DEF CallTool, channels, Managing, Idle
  <1>3. k[1] \in Range(work.ids)
    BY DEF RoundAsksItsOwn
  <1>4. CASE Raises
    BY <1>1, <1>2, <1>4, AsksStays DEF Unwind, RoundAsksItsOwn, EvidenceAnswersItsQuery
  <1>5. CASE ~Raises /\ IsStored(k)
    <2>1. Record(k, calls[k]) /\ todo' \subseteq todo
      BY <1>1, <1>5
    <2>2. calls[k].query = work.query
      BY <1>2, <1>3, <1>5 DEF RoundAsksItsOwn, IsStored
    <2>3. /\ work'.ids = work.ids /\ work'.query = work.query /\ work'.pending = {}
          /\ \A e \in evidence' \cup found' : e.current
      BY <1>2, <2>1, <2>2, AsksRecord
    <2> QED
      BY <1>2, <2>1, <2>3, AsksStays
  <1>6. CASE ~Raises /\ ~IsStored(k)
    <2>1. PICK r : work' = [work EXCEPT !.pending = {[key |-> k, result |-> r]}]
      BY <1>1, <1>6
    <2>2. /\ work'.ids = work.ids /\ work'.query = work.query
          /\ work'.pending = {[key |-> k, result |-> r]}
      BY <2>1 DEF GraphTyped, RequestsAreTyped, NoWork
    <2>3. todo' \subseteq todo /\ UNCHANGED found
      BY <1>1, <1>6
    <2> QED
      BY <1>2, <1>3, <2>2, <2>3 DEF RoundAsksItsOwn, EvidenceAnswersItsQuery, Untried, Before
  <1> QED
    BY <1>4, <1>5, <1>6

LEMMA AsksSave ==
    ASSUME RoundAsksItsOwn, GraphTyped, ~restarted, SaveCall
    PROVE  RoundAsksItsOwn'
  <1>1. PICK call \in work.pending :
            /\ Store(call.key, call.result)
            /\ Record(call.key, [result |-> call.result, query |-> work.query])
    BY DEF SaveCall
  <1>2. /\ UNCHANGED <<node, status, plan, evidence, web, todo, fresh>>
        /\ phase # Idle /\ phase' # Idle
    BY DEF SaveCall, channels, Idle
  <1>3. /\ work'.ids = work.ids /\ work'.query = work.query /\ work'.pending = {}
        /\ \A e \in evidence' \cup found' : e.current
    BY <1>1, <1>2, AsksRecord
  <1>4. call.key[1] \in Range(work.ids)
    BY DEF RoundAsksItsOwn
  <1> QED
    BY <1>1, <1>2, <1>3, <1>4, AsksStore

LEMMA AsksWeb ==
    ASSUME RoundAsksItsOwn, GraphTyped, PhaseHolds, ~restarted,
           NEW k \in DOMAIN web, WebCall(k) \/ WebSave(k) \/ JoinWeb(k)
    PROVE  RoundAsksItsOwn'
  <1>1. phase # Idle /\ k[1] \in Range(work.ids)
    BY DEF PhaseHolds, RoundAsksItsOwn, Idle
  <1>2. UNCHANGED <<node, status, plan, evidence, fresh>>
    BY DEF WebCall, WebSave, JoinWeb, channels
  <1>3. CASE WebCall(k)
    BY <1>2, <1>3, AsksStays DEF WebCall, RoundAsksItsOwn, EvidenceAnswersItsQuery
  <1>4. CASE WebSave(k)
    <2>1. /\ Store(k, web[k]) /\ DOMAIN web' = DOMAIN web
          /\ UNCHANGED <<phase, work, todo, found>>
      BY <1>4 DEF WebSave
    <2>2. \A e \in evidence' \cup found' : e.current
      BY <1>2, <2>1 DEF RoundAsksItsOwn, EvidenceAnswersItsQuery
    <2> QED
      BY <1>1, <1>2, <2>1, <2>2, AsksStore
  <1>5. CASE JoinWeb(k) /\ Raises
    BY <1>1, <1>2, <1>5, AsksStays DEF JoinWeb, Unwind, RoundAsksItsOwn, EvidenceAnswersItsQuery
  <1>6. CASE JoinWeb(k) /\ ~Raises
    <2>1. /\ Record(k, calls[k]) /\ DOMAIN web' \subseteq DOMAIN web
          /\ UNCHANGED <<calls, phase, todo>>
      BY <1>6 DEF JoinWeb
    <2>2. IsStored(k)
      BY <1>6 DEF JoinWeb, GraphTyped, RequestsAreTyped
    <2>3. calls[k].query = work.query
      BY <1>1, <2>2 DEF RoundAsksItsOwn, IsStored
    <2>4. /\ work'.ids = work.ids /\ work'.query = work.query /\ work'.pending = {}
          /\ \A e \in evidence' \cup found' : e.current
      BY <1>2, <2>1, <2>3, AsksRecord
    <2> QED
      BY <1>2, <2>1, <2>4, AsksStays
  <1> QED
    BY <1>3, <1>4, <1>5, <1>6

\* A repair round asks for tasks that nothing was stored for.
LEMMA AsksRepair ==
    ASSUME RoundAsksItsOwn, GraphTyped, PhaseHolds, ~restarted, node = "research",
           phase = "decide", phase' = "choose", NEW n \in Nat, NewIds(n),
           work'.ids = [i \in 1..n |-> fresh + i], work'.pending = work.pending,
           UNCHANGED <<node, status, plan, evidence, calls, todo, web, found>>
    PROVE  RoundAsksItsOwn'
  <1>1. fresh \in Nat /\ fresh' = fresh + n
    BY DEF GraphTyped, RequestsAreTyped, NewIds
  <1>2. \A id \in Range(work'.ids) : id \in 1..fresh' /\ id \in Nat /\ id > fresh
    BY <1>1 DEF Range
  <1>3. \A k \in DOMAIN calls : k[1] \notin Range(work'.ids)
    BY <1>1, <1>2, GraphAssumption DEF GraphTyped, RequestsAreTyped
  <1>4. todo = {} /\ DOMAIN web = {} /\ work.pending = {}
    BY DEF PhaseHolds, Idle
  <1> QED
    BY <1>2, <1>3, <1>4 DEF RoundAsksItsOwn, EvidenceAnswersItsQuery, Untried, Before

LEMMA AsksDecide ==
    ASSUME RoundAsksItsOwn, GraphTyped, PhaseHolds, ~restarted, Decide
    PROVE  RoundAsksItsOwn'
  <1>1. phase = "decide" /\ node = "research" /\ UNCHANGED calls
    BY DEF Decide, GraphTyped, TypeOK, PositionTyped, Idle
  <1>2. ASSUME NEW action, NEW count, FinishResearch(action, count)
        PROVE  RoundAsksItsOwn'
    <2>1. /\ node' \in {"review", "gate", "fallback"} /\ status' = "running"
          /\ evidence' = evidence \cup found /\ LeaveLocal
      BY <1>2 DEF FinishResearch, StatusAfterResearch
    <2> QED
      BY <1>1, <2>1, AsksLeave
  <1>3. CASE Unwind /\ UNCHANGED <<node, status, plan, evidence, web, fresh>>
    <2>1. \A e \in evidence' \cup found' : e.current
      BY <1>3 DEF Unwind, RoundAsksItsOwn, EvidenceAnswersItsQuery
    <2> QED
      BY <1>1, <1>3, <2>1, AsksStays DEF Unwind, Idle
  <1>4. CASE ScheduleRepair
    <2>1. PICK n \in 0..Cardinality(TaskId) :
              IF n = 0
              THEN FinishResearch("fallback", work.count + 1)
              ELSE /\ work' = [work EXCEPT !.ids = [i \in 1..n |-> fresh + i],
                                           !.query = MaxEdits + 1 + fresh,
                                           !.repairs = @ + 1, !.count = @ + 1]
                   /\ NewIds(n) /\ phase' = "choose"
                   /\ UNCHANGED <<node, status, plan, evidence, todo, web, found>>
      BY <1>4 DEF ScheduleRepair
    <2>2. CASE n = 0
      BY <1>2, <2>1, <2>2
    <2>3. CASE n # 0
      <3>1. work'.ids = [i \in 1..n |-> fresh + i] /\ work'.pending = work.pending
        BY <2>1, <2>3 DEF GraphTyped, RequestsAreTyped, NoWork
      <3> QED
        BY <1>1, <2>1, <2>3, <3>1, AsksRepair
    <2> QED
      BY <2>2, <2>3
  <1> QED
    BY <1>2, <1>3, <1>4 DEF Decide

LEMMA AsksEnter ==
    ASSUME RoundAsksItsOwn, PhaseHolds, ~restarted, EnterResearch
    PROVE  RoundAsksItsOwn'
  <1>1. node = "research" /\ phase = Idle /\ UNCHANGED <<plan, evidence, calls, fresh>>
    BY DEF EnterResearch, Running
  <1>2. todo = {} /\ DOMAIN web = {} /\ work.pending = {}
    BY <1>1 DEF PhaseHolds, Idle
  <1>3. CASE UNCHANGED local /\ UNCHANGED <<node, status>>
    BY <1>1, <1>3, AsksStays DEF local, RoundAsksItsOwn, EvidenceAnswersItsQuery
  <1>4. CASE UNCHANGED local /\ node' = "fallback"
    BY <1>1, <1>2, <1>4 DEF local, RoundAsksItsOwn, EvidenceAnswersItsQuery, Untried, Before
  <1>5. CASE /\ work' = [NoWork EXCEPT !.ids = plan.ids, !.query = plan.query, !.repairs = repairs]
             /\ UNCHANGED <<node, status, todo, web, found>>
    <2>1. work'.ids = plan.ids /\ work'.query = plan.query /\ work'.pending = {}
      BY <1>5 DEF NoWork
    <2>2. /\ Range(plan.ids) \subseteq TaskId
          /\ \A k \in DOMAIN calls : k[1] \in Range(plan.ids) => calls[k].query = plan.query
      BY <1>1 DEF RoundAsksItsOwn
    <2> QED
      BY <1>1, <1>2, <1>5, <2>1, <2>2 DEF RoundAsksItsOwn, EvidenceAnswersItsQuery, Untried, Before
  <1> QED
    BY <1>3, <1>4, <1>5 DEF EnterResearch

LEMMA AsksNext ==
    RoundAsksItsOwn /\ PhaseHolds /\ GraphTyped /\ [Next]_vars => RoundAsksItsOwn'
  <1> SUFFICES ASSUME RoundAsksItsOwn, PhaseHolds, GraphTyped, [Next]_vars,
                      ~restarted, ~restarted'
               PROVE  RoundAsksItsOwn'
    BY RestartedStays DEF RoundAsksItsOwn, EvidenceAnswersItsQuery
  <1>0. \A e \in evidence \cup found : e.current
    BY DEF RoundAsksItsOwn, EvidenceAnswersItsQuery
  <1>1. CASE NodeStep \/ ApprovalGate
    BY <1>1, AsksNode
  <1>2. CASE AnswerAgain \/ Restart
    BY <1>2 DEF AnswerAgain, Restart
  <1>3. CASE RequestCancel \/ DeadlinePasses \/ UNCHANGED vars
    BY <1>0, <1>3, AsksStays DEF RequestCancel, DeadlinePasses, vars, channels, local
  <1>4. CASE ChooseSources
    <2>1. PICK chosen \in [DOMAIN work.ids -> SourceChoices] :
              /\ work' = [work EXCEPT !.results = Empty]
              /\ todo' = Requests(work.ids, chosen, {"rag", "github"})
              /\ web' = [k \in Requests(work.ids, chosen, {"web"}) |-> "submitted"]
      BY <1>4 DEF ChooseSources
    <2>2. /\ UNCHANGED <<node, status, plan, calls, evidence, found, fresh>>
          /\ phase # Idle
          /\ work'.ids = work.ids /\ work'.query = work.query /\ work'.pending = work.pending
      BY <1>4, <2>1 DEF ChooseSources, channels, Idle, GraphTyped, RequestsAreTyped, NoWork
    <2>3. \A k \in todo' \cup DOMAIN web' : k[1] \in Range(work.ids)
      BY <2>1, RequestsOfRound
    <2> QED
      BY <2>2, <2>3 DEF RoundAsksItsOwn, EvidenceAnswersItsQuery, Untried, Before
  <1>5. CASE PlanLocalRepair
    <2>1. \A k \in todo' : k[1] \in Range(work.ids)
      BY <1>5 DEF PlanLocalRepair, Key
    <2>2. /\ UNCHANGED <<node, status, plan, calls, evidence, found, fresh, work, web>>
          /\ phase # Idle
      BY <1>5 DEF PlanLocalRepair, channels, Idle
    <2> QED
      BY <2>1, <2>2 DEF RoundAsksItsOwn, EvidenceAnswersItsQuery, Untried, Before
  <1>6. CASE Propose \/ Verify
    <2>1. /\ UNCHANGED <<node, status, plan, calls, evidence, found, fresh, todo, web>>
          /\ phase # Idle
          /\ work'.ids = work.ids /\ work'.query = work.query /\ work'.pending = work.pending
      BY <1>6 DEF Propose, Verify, Unwind, channels, Idle, GraphTyped, RequestsAreTyped, NoWork
    <2> QED
      BY <1>0, <2>1, AsksStays
  <1>7. CASE Stop \/ Crash
    BY <1>7, AsksLeave DEF Stop, Crash, channels
  <1> QED
    BY <1>1, <1>2, <1>3, <1>4, <1>5, <1>6, <1>7, AsksEnter, AsksCall, AsksSave, AsksWeb, AsksDecide
       DEF Next, ResearchStep

\* A call is stored under its task and step, not under its arguments; still a round is
\* never served the answer to another query, neither after a crash, nor after an edit, nor
\* in a repair round (execute_managed_tool, planning_repair_research_tasks).
THEOREM RoundsAnswered == Spec => []EvidenceAnswersItsQuery
  <1> DEFINE IInv == GraphTyped /\ PhaseHolds /\ RoundAsksItsOwn
  <1>1. Init => IInv
    <2> SUFFICES ASSUME Init PROVE IInv
      OBVIOUS
    <2>1. GraphTyped
      BY TypedInit, BudgetInit DEF GraphTyped
    <2>2. PhaseHolds
      BY DEF Init, PhaseHolds, NoWork, Empty
    <2>3. Range(plan.ids) = {}
      <3>1. plan.ids = <<>> /\ DOMAIN plan.ids = {}
        BY DEF Init
      <3> QED
        BY <3>1 DEF Range
    <2>4. RoundAsksItsOwn
      BY <2>3 DEF Init, RoundAsksItsOwn, EvidenceAnswersItsQuery, NoWork, Empty, Idle
    <2> QED
      BY <2>1, <2>2, <2>4
  <1>2. IInv /\ [Next]_vars => IInv'
    BY GraphTypedNext, PhaseHoldsNext, AsksNext
  <1>3. IInv => EvidenceAnswersItsQuery
    BY DEF RoundAsksItsOwn, EvidenceAnswersItsQuery
  <1> QED
    BY <1>1, <1>2, <1>3, PTL DEF Spec
=============================================================================
