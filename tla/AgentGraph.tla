----------------------------- MODULE AgentGraph -----------------------------
(***************************************************************************)
(* One thread of the agent graph in detail: what the nodes of              *)
(* deerflow/runtime.py read and write, the planner's and the research      *)
(* agent's decisions (planner.py), the tools and their retries (tools.py), *)
(* the managed calls that are replayed by key (tool_manager.py) and the    *)
(* repair loop.  One delivery drives the thread at a time; it may die at   *)
(* any point, and the next one starts the node again.  What a language     *)
(* model answers is nondeterministic within the schema that is validated.  *)
(***************************************************************************)
EXTENDS AgentRoutes, Integers, Sequences, FiniteSets, Functions

CONSTANTS TaskId,        \* ids of research tasks that plans use again and again
          HasScenario,   \* the task's type or key names a scenario
          MaxRepairs,    \* MAX_REPAIR_COUNT
          MaxToolCalls,  \* budget.max_tool_calls
          MaxSteps,      \* budget.max_steps
          MaxEdits,      \* bound: plans the user edits
          MaxCrashes,    \* bound: deliveries that die
          MaxChosen,     \* bound: sources the model chooses for a research task
          MaxHeld        \* bound: artifacts of a thread that starts again

ASSUME GraphAssumption ==
    /\ TaskId # {} /\ HasScenario \in BOOLEAN
    /\ \A id \in TaskId : id \notin Nat    \* ids of repair tasks are new
    /\ {MaxRepairs, MaxEdits, MaxCrashes, MaxChosen, MaxHeld} \subseteq Nat
    /\ {MaxToolCalls, MaxSteps} \subseteq Nat \ {0}

VARIABLES
    \* the channels of the thread and its position, as checkpointed
    node, status,
    requested,   \* history: the task was created with source_policy "local_only"
    localOnly,   \* resolve_source_policy(state) = "local_only"
    edits,       \* the user's input is the one after so many edits
    approval,    \* the last answer a gate was given
    plan,        \* [ids, query]: research task ids and what they ask: the input after so
                 \* many edits, or the queries of a repair round, numbered after those
    artifacts,   \* how many artifacts
    evidence,    \* those with citations: [source, current], current: for the query asked
    verdict, repairs, nextAction,
    draft,       \* the answer agent's draft is set
    published,   \* what final_answer holds
    \* agent_tool_calls
    calls,       \* idempotency key -> [result, query]
    \* the research node of the delivery that runs it; lost with the delivery
    phase, work, todo, web, found,
    \* the row, the user and the clock
    stopped,     \* the delivery raised AgentTaskCancelled or AgentBudgetExceeded
    cancelled,   \* cancel_requested
    late,        \* the deadline has passed
    fresh,       \* ids of repair tasks handed out
    crashes,
    restarted    \* history: a thread was started after its end, or an answer given twice

channels == <<requested, localOnly, edits, approval, plan, artifacts, evidence, verdict, repairs,
              nextAction, draft, published>>
local == <<phase, work, todo, web, found>>
outside == <<stopped, cancelled, late, crashes, restarted>>
vars == <<node, status, channels, calls, local, outside, fresh>>
-----------------------------------------------------------------------------
(* Tools. *)

Source == {"rag", "web", "github", "repair"}

\* _artifact_kind: what counts as research.
ResearchKind == {"rag", "web", "repair"}

\* What the handlers answer: citations; text without citations, which only the reader
\* of knowledge.answer tells from an error; or an error.
KnowledgeAnswer == {"cited", "uncited", "error"}
RepairRetrieval == {"cited", "error"}
WebSearch == {"cited", "error"}
GithubSearch == {"cited", "error"}

\* ToolRegistry.call: an error it returns is final, because the handler says so, the
\* agent may not use the tool, or the one retry failed.
CallResults(source) ==
    LET answers == CASE source = "rag" -> KnowledgeAnswer [] source = "web" -> WebSearch
                     [] source = "github" -> GithubSearch [] source = "repair" -> RepairRetrieval
    IN  (answers \ {"error"}) \cup {"final error"}

\* Key of a managed call: task_id is the thread's, so the step id alone.
Key(id, source) == <<id, source>>
Empty == [x \in {} |-> x]
With(f, k, v) == [x \in DOMAIN f \cup {k} |-> IF x = k THEN v ELSE f[x]]
-----------------------------------------------------------------------------
Idle == "idle"
NoWork == [ids |-> <<>>, query |-> 0, results |-> Empty,
           count |-> 0, repairs |-> 0, verdict |-> "none", pending |-> {}]

\* create_task gives the thread the request's source_policy unless a scenario
\* applies, which replaces the initial state it was written to.
KeepsPolicy(r) == r /\ ~HasScenario

\* No channel but the policy is set, the row is new.
Init ==
    /\ node = "none" /\ status = "pending"
    /\ requested \in BOOLEAN
    /\ localOnly = KeepsPolicy(requested)
    /\ edits = 0 /\ approval = "none"
    /\ plan = [ids |-> <<>>, query |-> 0]
    /\ artifacts = 0 /\ evidence = {}
    /\ verdict = "none" /\ repairs = 0 /\ nextAction = "none" /\ draft = FALSE
    /\ published = "none"
    /\ calls = Empty
    /\ phase = Idle /\ work = NoWork /\ todo = {} /\ web = Empty /\ found = {}
    /\ stopped = FALSE /\ cancelled = FALSE /\ late = FALSE /\ fresh = 0
    /\ crashes = 0 /\ restarted = FALSE

Running == ~stopped /\ phase = Idle

Start ==
    /\ Running
    /\ node = "none"
    /\ node' = "supervisor"
    /\ status' = "pending"
    /\ UNCHANGED <<channels, calls, local, outside, fresh>>

\* A delivery that dies after END and before its save: the next one starts the
\* old thread again, unless it has an answer to resume it with.
Restart ==
    /\ Running
    /\ node = "end" /\ approval = "none"
    /\ crashes < MaxCrashes /\ artifacts <= MaxHeld
    /\ crashes' = crashes + 1
    /\ restarted' = TRUE
    /\ node' = "supervisor"
    /\ status' = "pending"
    /\ UNCHANGED <<channels, calls, local, stopped, cancelled, late, fresh>>

\* The row's cancel flag and the clock; only research looks at them.
RequestCancel ==
    /\ node = "research" /\ ~stopped
    /\ cancelled' = TRUE
    /\ UNCHANGED <<node, status, channels, calls, local, stopped, late, crashes, restarted, fresh>>

DeadlinePasses ==
    /\ node = "research" /\ ~stopped /\ ~cancelled
    /\ late' = TRUE
    /\ UNCHANGED <<node, status, channels, calls, local, stopped, cancelled, crashes, restarted,
                   fresh>>
-----------------------------------------------------------------------------
(* The nodes but research. *)

\* The model's route, or the default for the task's type and words.
SupervisorRoutes == {"answer", "planner"}

Supervisor ==
    /\ Running
    /\ node = "supervisor"
    /\ node' \in SupervisorRoutes
    /\ status' = "running"
    /\ UNCHANGED <<channels, calls, local, outside, fresh>>

\* The tools the model or the default chooses; local-only tasks keep the local ones.
AnswerTools == SUBSET (IF localOnly THEN {"rag", "repair"} ELSE Source)

\* The answer agent calls the tools it chose, of those the policy allows; keys
\* are new in each attempt.  Tools it may not use, or that do not exist, fail.
\* Without calls it drafts an answer; a local-only task always calls one.
AnswerAgent ==
    /\ Running
    /\ node = "answer"
    /\ \E chosen \in AnswerTools :
       \E cited \in SUBSET chosen, complete \in BOOLEAN :
        /\ localOnly => chosen # {}
        /\ artifacts' = artifacts + Cardinality(chosen)
        /\ evidence' = evidence \cup
               [source : cited, current : {TRUE}]
        /\ \E ok \in IF cited # {} THEN {TRUE} ELSE IF chosen = {} THEN {TRUE} ELSE BOOLEAN :
            LET publish == chosen = {} \/ (ok /\ complete) IN
            /\ draft' = (draft \/ publish)
            /\ node' = IF publish THEN "final" ELSE "fallback"
    /\ status' = "running"
    /\ UNCHANGED <<requested, localOnly, edits, approval, plan, verdict, repairs,
                   nextAction, published, calls, local, outside, fresh>>

\* AgentPlan: validated, or the default or scenario plan without approval; too
\* many tasks for max_steps raise.  The memory context is an artifact.
Plans == {ids \in UNION {[1..n -> TaskId] : n \in 1..Cardinality(TaskId)} : IsInjective(ids)}

PlannerAgent ==
    /\ Running
    /\ node = "planner"
    /\ \E ids \in Plans, ask \in BOOLEAN :
        IF Len(ids) > MaxSteps
        THEN /\ stopped' = TRUE
             /\ UNCHANGED <<node, status, plan, artifacts>>
        ELSE /\ plan' = [ids |-> ids, query |-> edits]
                  /\ artifacts' = artifacts + 1
             /\ status' = IF ask THEN "waiting_user" ELSE "running"
             /\ node' = IF ask THEN "gate" ELSE "research"
             /\ UNCHANGED stopped
    /\ UNCHANGED <<requested, localOnly, edits, approval, evidence, verdict, repairs,
                   nextAction, draft, published, calls, local, cancelled, late, crashes,
                   restarted, fresh>>

\* request_resume takes an answer only while the row shows waiting_user.  The
\* phrase that restricts a task to local sources may come with the edit.
ApprovalGate ==
    /\ Running
    /\ node = "gate"
    /\ status = "waiting_user"
    /\ \E action \in Decision :
        /\ action = "edit" => edits < MaxEdits
        /\ edits' = IF action = "edit" THEN edits + 1 ELSE edits
        /\ localOnly' \in IF action = "edit" THEN {localOnly, TRUE} ELSE {localOnly}
        /\ approval' = action
        /\ node' = GateGoto[action]
    /\ status' = "running"
    /\ UNCHANGED <<requested, plan, artifacts, evidence, verdict, repairs, nextAction,
                   draft, published, calls, local, outside, fresh>>

\* The row keeps an answer until the delivery that used it succeeds: after a failure the
\* next one answers the gate the thread has come to, whatever its status.
AnswerAgain ==
    /\ Running
    /\ node = "gate" /\ approval # "none"
    /\ crashes < MaxCrashes
    /\ crashes' = crashes + 1
    /\ restarted' = TRUE
    /\ node' = GateGoto[approval]
    /\ status' = "running"
    /\ UNCHANGED <<channels, calls, local, stopped, cancelled, late, fresh>>

\* A proposal has a summary and sections by its schema.
ReviewAgent ==
    /\ Running
    /\ node = "review"
    /\ nextAction' = CASE verdict = "needs_approval" -> "ask_user"
                       [] verdict = "passed" -> "complete"
                       [] OTHER -> "fallback"
    /\ node' = CASE nextAction' = "ask_user" -> "gate"
                 [] nextAction' = "complete" -> "final"
                 [] OTHER -> "fallback"
    /\ status' = "running"
    /\ UNCHANGED <<requested, localOnly, edits, approval, plan, artifacts, evidence,
                   verdict, repairs, draft, published, calls, local, outside, fresh>>

\* What final_answer holds.
FinalResponse ==
    /\ Running
    /\ node = "final"
    /\ node' = "end"
    /\ status' = "completed"
    /\ published' = IF draft THEN "draft" ELSE "proposal"
    /\ UNCHANGED <<requested, localOnly, edits, approval, plan, artifacts, evidence,
                   verdict, repairs, nextAction, draft, calls, local, outside, fresh>>

\* Mutation: the fallback fails the task.
FallbackFails ==
    /\ Running
    /\ node = "fallback"
    /\ node' = "end"
    /\ status' = "failed"
    /\ published' = "fallback"
    /\ UNCHANGED <<requested, localOnly, edits, approval, plan, artifacts, evidence,
                   verdict, repairs, nextAction, draft, calls, local, outside, fresh>>

FallbackResponse ==
    /\ Running
    /\ node = "fallback"
    /\ node' = "end"
    /\ status' = "completed"
    /\ published' = "fallback"
    /\ UNCHANGED <<requested, localOnly, edits, approval, plan, artifacts, evidence,
                   verdict, repairs, nextAction, draft, calls, local, outside, fresh>>
-----------------------------------------------------------------------------
(* The research node: research_agent's loop, one step per call.            *)

Total == artifacts + work.count

\* Mutation: off by one.
OverByOne == Total > MaxToolCalls \/ late

\* _enforce_policy raises for a cancel, else for the budget or the deadline.
Over == Total >= MaxToolCalls \/ late
Raises == cancelled \/ Over

Unwind ==
    /\ phase' = "unwinding"
    /\ UNCHANGED <<work, todo, found>>

LeaveLocal ==
    /\ phase' = Idle /\ work' = NoWork /\ todo' = {} /\ web' = Empty /\ found' = {}

\* The budget checked at entry is the one that falls back; a cancel raises.
EnterResearch ==
    /\ Running
    /\ node = "research"
    /\ CASE cancelled ->
              stopped' = TRUE /\ UNCHANGED <<node, status, nextAction, local>>
         [] ~cancelled /\ Over ->
              /\ node' = "fallback" /\ status' = "failed" /\ nextAction' = "fallback"
              /\ UNCHANGED <<stopped, local>>
         [] OTHER ->
              /\ phase' = "choose"
              /\ work' = [NoWork EXCEPT !.ids = plan.ids, !.query = plan.query, !.repairs = repairs]
              /\ UNCHANGED <<node, status, nextAction, stopped, todo, web, found>>
    /\ UNCHANGED <<requested, localOnly, edits, approval, plan, artifacts, evidence,
                   verdict, repairs, draft, published, calls, cancelled, late, crashes,
                   restarted, fresh>>

\* generate_research_source_decision for each task: what the model chose of
\* the allowed tools, or the default.  Web searches are submitted at once.
Allowed == IF localOnly THEN {"rag"} ELSE {"rag", "web", "github"}
Requests(ids, chosen, sources) ==
    UNION {{Key(ids[i], source) : source \in chosen[i] \cap sources} : i \in DOMAIN ids}

SourceChoices == {chosen \in SUBSET Allowed \ {{}} : Cardinality(chosen) <= MaxChosen}

ChooseSources ==
    /\ phase = "choose"
    /\ \E chosen \in [DOMAIN work.ids -> SourceChoices] :
        /\ work' = [work EXCEPT !.results = Empty]
        /\ todo' = Requests(work.ids, chosen, {"rag", "github"})
        /\ web' = [k \in Requests(work.ids, chosen, {"web"}) |-> "submitted"]
    /\ phase' = "gather"
    /\ UNCHANGED <<node, status, channels, calls, found, outside, fresh>>

\* Mutation: the stored result is not looked up.
NotStored(k) == FALSE

\* get_completed_tool_call: any stored result, also a failure, is replayed.
IsStored(k) == k \in DOMAIN calls

\* An executed call's result is stored under its key, query and all.
Store(k, result) == calls' = With(calls, k, [result |-> result, query |-> work.query])

\* A pool thread: execute_managed_tool before any policy check.
WebCall(k) ==
    /\ k \in DOMAIN web
    /\ web[k] = "submitted"
    /\ \E r \in IF IsStored(k) THEN {"saved"} ELSE CallResults("web") : web' = [web EXCEPT ![k] = r]
    /\ UNCHANGED <<node, status, channels, calls, phase, work, todo, found, outside, fresh>>

WebSave(k) ==
    /\ k \in DOMAIN web
    /\ web[k] \notin {"submitted", "saved"}
    /\ Store(k, web[k])
    /\ web' = [web EXCEPT ![k] = "saved"]
    /\ UNCHANGED <<node, status, channels, phase, work, todo, found, outside, fresh>>

\* The call's artifact, with its citations as evidence.
Record(k, call) ==
    /\ work' = [work EXCEPT !.results = With(@, k, call.result), !.count = @ + 1,
                            !.pending = {}]
    /\ found' = IF call.result = "cited"
                THEN found \cup {[source |-> k[2], current |-> call.query = work.query]}
                ELSE found

Managing == {"gather", "repairing"}

\* Requests are made task by task, retrieval first.
Earlier(k, l) ==
    \E i, j \in DOMAIN work.ids :
        /\ work.ids[i] = k[1] /\ work.ids[j] = l[1]
        /\ i < j \/ (i = j /\ k[2] = "rag")
IsNext(k) == \A l \in todo \ {k} : Earlier(k, l)

\* call_research_tool for the next request that is not a web search: policy,
\* replay or execution.
CallTool ==
    /\ phase \in Managing
    /\ \E k \in todo :
       /\ IsNext(k)
       /\ CASE Raises -> Unwind
            [] ~Raises /\ IsStored(k) ->
                 /\ Record(k, calls[k])
                 /\ todo' = todo \ {k}
                 /\ UNCHANGED phase
            [] OTHER ->
                 /\ \E r \in CallResults(k[2]) :
                       work' = [work EXCEPT !.pending = {[key |-> k, result |-> r]}]
                 /\ todo' = todo \ {k}
                 /\ phase' = IF phase = "gather" THEN "gatherSave" ELSE "repairSave"
                 /\ UNCHANGED found
    /\ UNCHANGED <<node, status, channels, calls, web, outside, fresh>>

SaveCall ==
    /\ phase \in {"gatherSave", "repairSave"}
    /\ \E call \in work.pending :
       /\ Store(call.key, call.result)
       /\ Record(call.key, [result |-> call.result, query |-> work.query])
    /\ phase' = IF phase = "gatherSave" THEN "gather" ELSE "repairing"
    /\ UNCHANGED <<node, status, channels, web, todo, outside, fresh>>

\* The web results, after all others.
JoinWeb(k) ==
    /\ phase = "gather" /\ todo = {}
    /\ k \in DOMAIN web
    /\ web[k] = "saved"
    /\ IF Raises THEN Unwind /\ UNCHANGED web
                 ELSE /\ Record(k, calls[k])
                      /\ web' = [x \in DOMAIN web \ {k} |-> web[x]]
                      /\ UNCHANGED <<phase, todo>>
    /\ UNCHANGED <<node, status, channels, calls, outside, fresh>>

\* knowledge.repair_retrieval after retrieval without a citation, where local
\* evidence is required or no other source of the task has any.  An exhausted
\* call is not retryable, so an empty retrieval is not repaired.
Result(id, s) == IF Key(id, s) \in DOMAIN work.results THEN work.results[Key(id, s)] ELSE "not chosen"
RepairWanted(id) ==
    /\ Result(id, "rag") = "uncited"
    /\ localOnly \/ \A s \in {"web", "github"} : Result(id, s) # "cited"

PlanLocalRepair ==
    /\ phase = "gather" /\ todo = {} /\ DOMAIN web = {}
    /\ todo' = {Key(id, "repair") : id \in {id \in Range(work.ids) : RepairWanted(id)}}
    /\ phase' = "repairing"
    /\ UNCHANGED <<node, status, channels, calls, work, web, found, outside, fresh>>

Propose ==
    /\ phase = "repairing" /\ todo = {}
    /\ IF Raises THEN Unwind
                 ELSE phase' = "verify" /\ work' = [work EXCEPT !.count = @ + 1] /\ UNCHANGED <<todo, found>>
    /\ UNCHANGED <<node, status, channels, calls, web, outside, fresh>>

\* Mutation: any citation is evidence.
AnyCited == evidence \cup found # {}

\* The deterministic gate before the judge.
HasEvidence == \E e \in evidence \cup found : e.source \in ResearchKind

\* The judge is free, and passes when it is away; the gate is not.
Verdicts == IF HasEvidence THEN {"passed", "repair", "fallback", "needs_approval"} ELSE {"repair"}

\* Only the tool-call budget is waived, and with it the look at the clock.
Verify ==
    /\ phase = "verify"
    /\ IF cancelled \/ (late /\ Total < MaxToolCalls)
       THEN Unwind
       ELSE /\ \E v \in Verdicts : work' = [work EXCEPT !.verdict = v, !.count = @ + 1]
            /\ phase' = "decide"
            /\ UNCHANGED <<todo, found>>
    /\ UNCHANGED <<node, status, channels, calls, web, outside, fresh>>

\* Mutation: a result to be confirmed is shown to its user.
StatusAtGate(action) == IF action = "ask_user" THEN "waiting_user" ELSE "running"

StatusAfterResearch(action) == "running"

\* The node ends: its update is merged into the channels.
FinishResearch(action, count) ==
    /\ node' = CASE action = "complete" -> "review"
                 [] action = "ask_user" -> "gate"
                 [] OTHER -> "fallback"
    /\ status' = StatusAfterResearch(action)
    /\ nextAction' = action
    /\ plan' = [ids |-> work.ids, query |-> work.query]
    /\ artifacts' = artifacts + count
    /\ evidence' = evidence \cup found
    /\ verdict' = work.verdict
    /\ repairs' = work.repairs
    /\ LeaveLocal
    /\ UNCHANGED fresh

\* Mutation: repair tasks are numbered per round.
SameIds(n) == fresh' = fresh

\* uuid4 in planning_repair_research_tasks.
NewIds(n) == fresh' = fresh + n

\* Up to three repair queries become tasks with new ids; none ends the loop.
ScheduleRepair ==
    \E n \in 0..Cardinality(TaskId) :
        IF n = 0
        THEN FinishResearch("fallback", work.count + 1)
        ELSE /\ work' = [work EXCEPT !.ids = [i \in 1..n |-> fresh + i], !.query = MaxEdits + 1 + fresh,
                                     !.repairs = @ + 1, !.count = @ + 1]
             /\ NewIds(n)
             /\ phase' = "choose"
             /\ UNCHANGED <<node, status, nextAction, plan, artifacts, evidence, verdict, repairs,
                            todo, web, found>>

MayRepair == work.verdict = "repair" /\ work.repairs < MaxRepairs

Decide ==
    /\ phase = "decide"
    /\ CASE work.verdict = "passed" -> FinishResearch("complete", work.count)
         [] work.verdict = "needs_approval" -> FinishResearch("ask_user", work.count)
         [] MayRepair /\ cancelled ->
              Unwind /\ UNCHANGED <<node, status, nextAction, plan, artifacts, evidence, verdict,
                                    repairs, web, fresh>>
         [] MayRepair /\ ~Raises -> ScheduleRepair
         [] OTHER -> FinishResearch("fallback", work.count)
    /\ UNCHANGED <<requested, localOnly, edits, approval, draft, published, calls,
                   outside>>

\* The pool waits for its threads, then the exception ends the delivery for good.
Stop ==
    /\ phase = "unwinding"
    /\ \A k \in DOMAIN web : web[k] = "saved"
    /\ stopped' = TRUE
    /\ LeaveLocal
    /\ UNCHANGED <<node, status, channels, calls, cancelled, late, crashes, restarted, fresh>>

\* The delivery dies; what is in the database stays.
Crash ==
    /\ phase # Idle
    /\ crashes < MaxCrashes
    /\ crashes' = crashes + 1
    /\ LeaveLocal
    /\ UNCHANGED <<node, status, channels, calls, stopped, cancelled, late, restarted, fresh>>
-----------------------------------------------------------------------------
NodeStep == Start \/ Supervisor \/ AnswerAgent \/ PlannerAgent \/ ReviewAgent \/ FinalResponse
         \/ FallbackResponse
ResearchStep == EnterResearch \/ ChooseSources \/ CallTool \/ SaveCall \/ PlanLocalRepair \/ Propose
            \/ Verify \/ Decide \/ Stop
            \/ \E k \in DOMAIN web : WebCall(k) \/ WebSave(k) \/ JoinWeb(k)

Next ==
    \/ NodeStep \/ ResearchStep \/ ApprovalGate \/ AnswerAgain
    \/ RequestCancel \/ DeadlinePasses \/ Crash \/ Restart

Spec == Init /\ [][Next]_vars
-----------------------------------------------------------------------------
AnyResult == UNION {CallResults(s) : s \in Source}

PositionTyped ==
    /\ node \in Position /\ status \in Status
    /\ phase \in {Idle, "choose", "gather", "gatherSave", "repairing", "repairSave", "verify",
                  "decide", "unwinding"}
    /\ phase # Idle => node = "research" /\ ~stopped

ChannelsTyped ==
    /\ requested \in BOOLEAN /\ localOnly \in BOOLEAN /\ draft \in BOOLEAN
    /\ edits \in 0..MaxEdits /\ repairs \in 0..MaxRepairs /\ artifacts \in Nat
    /\ approval \in Decision \cup {"none"}
    /\ Range(plan.ids) \subseteq TaskId \cup 1..fresh /\ plan.query \in Nat
    /\ verdict \in {"none", "passed", "repair", "fallback", "needs_approval"}
    /\ nextAction \in {"none", "complete", "ask_user", "fallback"}
    /\ published \in {"none", "draft", "proposal", "fallback"}

ResearchTyped ==
    /\ evidence \cup found \subseteq [source : Source, current : BOOLEAN]
    /\ \A k \in DOMAIN calls : calls[k].result \in AnyResult /\ calls[k].query \in Nat
    /\ work.repairs \in 0..MaxRepairs

FlagsTyped ==
    /\ stopped \in BOOLEAN /\ cancelled \in BOOLEAN /\ late \in BOOLEAN
    /\ crashes \in 0..MaxCrashes /\ restarted \in BOOLEAN

TypeOK == PositionTyped /\ ChannelsTyped /\ ResearchTyped /\ FlagsTyped

\* Why: requests are for tasks that exist, and what is joined was stored.
RequestsAreTyped ==
    LET ids == TaskId \cup 1..fresh
        keys == ids \X Source
    IN  /\ fresh \in Nat
        /\ DOMAIN work = DOMAIN NoWork
        /\ Range(work.ids) \subseteq ids /\ work.query \in Nat
        /\ work.verdict \in {"none", "passed", "repair", "fallback", "needs_approval"}
        /\ todo \cup DOMAIN web \cup DOMAIN calls \subseteq keys
        /\ work.pending \subseteq [key : keys, result : AnyResult]
        /\ \A k \in DOMAIN web : web[k] \in {"submitted", "saved"} \cup AnyResult
        /\ \A k \in DOMAIN web : web[k] = "saved" => IsStored(k)

\* A proposal that is published was passed with evidence that cites a source,
\* a local one if the task is restricted to local sources; of a thread that was not
\* started twice and given no answer twice.
PublishedIsVerified ==
    published = "proposal" /\ ~restarted =>
        /\ verdict = "passed"
        /\ \E e \in evidence : e.source \in ResearchKind
        /\ localOnly => \A e \in evidence : e.source \in {"rag", "repair"}

Before == {"none", "supervisor", "planner"}

\* Neither research nor an answer has been tried: unless an answer is given twice, the
\* only gate that is answered is the one before research.
Untried == node \in Before \/ (node = "gate" /\ status = "waiting_user")

Verified == verdict = "passed" /\ \E e \in evidence : e.source \in ResearchKind

\* Why: the verdict and its evidence come from the same round.
VerdictHasEvidence ==
    ~restarted =>
        /\ Untried => evidence = {}
        /\ Untried \/ node = "research" => ~draft
        /\ published # "none" => node = "end"
        /\ phase = "decide" /\ work.verdict = "passed" => HasEvidence
        /\ node = "review" /\ verdict = "passed" => Verified
        /\ node = "final" /\ ~draft => Verified
        /\ published = "proposal" => Verified

\* The task is restricted to local sources, and was before it looked for any.
IsLocal == localOnly /\ (~restarted \/ KeepsPolicy(requested))

\* Why: what is asked for is chosen, made and stored under the same policy.
LocalSoFar ==
    /\ KeepsPolicy(requested) => localOnly
    /\ IsLocal =>
          /\ \A e \in evidence \cup found : e.source \in {"rag", "repair"}
          /\ DOMAIN web = {}
          /\ \A k \in todo : k[2] \in {"rag", "repair"}
          /\ \A call \in work.pending : call.key[2] \in {"rag", "repair"}

\* Why: the phases of a round come in order.
PhaseHolds ==
    /\ phase = Idle => found = {}
    /\ phase \notin {"gather", "gatherSave", "unwinding"} => DOMAIN web = {}
    /\ phase \in {Idle, "choose", "verify", "decide"} => todo = {}
    /\ phase \notin {"gatherSave", "repairSave", "unwinding"} => work.pending = {}

\* "`local_only` is available through the Agent task API and disables external
\* web and GitHub retrieval" (docs/architecture.md).
LocalOnlyIsKept == requested => \A e \in evidence : e.source \in {"rag", "repair"}

\* A call is stored under its task and step, not under its arguments; still a
\* round is never served the answer to another query, neither after a crash,
\* nor after an edit, nor in a repair round. That edits come before research is so
\* unless a used answer is given again, hence the condition.
EvidenceAnswersItsQuery ==
    ~restarted => \A e \in evidence \cup found : e.current

\* Why: whatever is stored for a task id of the current round was asked in this round, or
\* in one with the same plan that a crash undid; a repair round's ids are new.
RoundAsksItsOwn ==
    ~restarted =>
        /\ EvidenceAnswersItsQuery
        /\ Untried => DOMAIN calls = {} /\ Range(plan.ids) \subseteq TaskId
        /\ node = "research" =>
              /\ Range(plan.ids) \subseteq TaskId
              /\ \A k \in DOMAIN calls : k[1] \in TaskId => calls[k].query = plan.query
        /\ phase # Idle =>
              /\ \/ Range(work.ids) \subseteq TaskId /\ work.query = plan.query
                 \/ Range(work.ids) \subseteq 1..fresh
              /\ \A k \in DOMAIN calls :
                    k[1] \in Range(work.ids) => calls[k].query = work.query
        /\ \A k \in todo \cup DOMAIN web : k[1] \in Range(work.ids)
        /\ \A call \in work.pending : call.key[1] \in Range(work.ids)

\* Whatever crashes and repeats, a stored result is neither overwritten nor
\* lost: a key is executed until its result is stored, and never after.
StoredCallsAreFinal ==
    [][\A k \in DOMAIN calls : k \in DOMAIN calls' /\ calls'[k] = calls[k]]_calls

\* Why: what is about to be stored was not when it was looked up, and the pool and the
\* node itself store under different keys.
StoredOnce ==
    /\ \A k \in todo : k[2] # "web"
    /\ \A call \in work.pending : call.key[2] # "web" /\ ~IsStored(call.key)
    /\ \A k \in DOMAIN web :
          k[2] = "web" /\ (web[k] \notin {"submitted", "saved"} => ~IsStored(k))

\* Research exceeds the tool-call budget by the one verification that is
\* exempt, over any number of rounds, repairs and repeated nodes.
BudgetIsKept == phase # Idle => Total <= MaxToolCalls + 1

\* Why: one call fits below the budget, and all but the exempt one are made below it.
BudgetByPhase ==
    /\ artifacts \in Nat /\ "count" \in DOMAIN work /\ work.count \in Nat
    /\ phase \in {"gatherSave", "repairSave"} => Total < MaxToolCalls
    /\ phase \notin {Idle, "decide", "unwinding"} => Total <= MaxToolCalls
    /\ BudgetIsKept

\* Each step is one the routes of AgentRoutes allow, so AgentTask's graph is
\* this graph.
Run == INSTANCE AgentRun WITH answered <- approval # "none"
RunSpec == Run!Spec
=============================================================================
