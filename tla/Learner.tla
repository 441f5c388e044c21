------------------------------ MODULE Learner ------------------------------
(***************************************************************************)
(* What the system keeps about one learner.  When a proposal task is       *)
(* finished, the last node of the graph (runtime._final_response) credits  *)
(* the task's goal in the long-term memory, extends the summary of the     *)
(* session, and records profile, weaknesses, practices, reviews and        *)
(* assets; a diagnostic question to the RAG service (record_rag_interview_ *)
(* diagnostic) records the last of these too.  Each step commits by        *)
(* itself, nothing is locked between a read and the write that relies on   *)
(* it, and a task whose worker dies runs the node again from its start.    *)
(*                                                                         *)
(* A commit that inserts a row which exists by then raises, and the code   *)
(* swallows the exception: what was still to be recorded is skipped.       *)
(***************************************************************************)
EXTENDS Integers, Sequences, FiniteSets, FiniteSetsExt, Functions

CONSTANTS Task,          \* the learner's proposal tasks, all of one session
          Question,      \* the learner's diagnostic RAG questions
          Goal,          \* memory keys of the goals: slugs of what the user asked
          GoalOf(_),     \* the goal of a task
          Topics(_),     \* what a writer finds weak: topics in order, without repetition
          Severity(_, _),\* the severity it gives its i-th topic
          Score(_),      \* total_score of its scorecard
          Assets(_),     \* the keys of the assets it upserts, in order
          EventLimit,    \* events one summary takes in: 120 in the code
          MaxEvents,     \* bound: events of the session
          MaxRuns(_)     \* bound: executions of a task's last node

Writer == Task \cup Question
Topic == UNION {Range(Topics(w)) : w \in Writer}
Asset == UNION {Range(Assets(w)) : w \in Writer}

User == "user"           \* who makes the profile with GET or PUT /learning/profile
NoOne == "no one"
IsList(s) == s \in Seq(Range(s)) /\ Len(s) > 0

ASSUME LearnerAssumption ==
    /\ IsFiniteSet(Task) /\ Task \cap Question = {}
    /\ \A t \in Task : GoalOf(t) \in Goal
    /\ {User, NoOne} \cap Writer = {}
    /\ \A w \in Writer : /\ IsInjective(Topics(w)) /\ IsList(Topics(w))
                         /\ \A i \in DOMAIN Topics(w) : Severity(w, i) \in Nat \ {0}
                         /\ Score(w) \in Nat /\ IsList(Assets(w))
    /\ EventLimit \in Nat \ {0} /\ MaxEvents \in Nat
    /\ \A t \in Task : MaxRuns(t) \in Nat \ {0}

VARIABLES
    events,    \* agent_events of the session: the id is the position, kept: whose it is
    summaries, \* session_summaries of the session: whose, until, and the ids it tells of
    goals,     \* [Task -> user_goal_set rows in memory_events]
    memory,    \* [Goal -> user_memories row: is it there, weight]
    profile,   \* learning_profiles row: is it there, readiness; by (history): who made it
    weakness,  \* [Topic -> learning_weaknesses row: is it there, severity, last_seen by]
    practiced, \* [Writer -> topics it has practices for]
    scheduled, \* [Writer -> topics it has reviews for]
    assets,    \* [Asset -> learning_long_term_assets row: version (0: no row); by (history)]
    pc,
    at,        \* [Writer -> position in its topics or assets]
    read,      \* [Writer -> what it read of the row it will write: is it there, value]
    runs,      \* [Task -> executions of the last node so far (attempts)]
    raised     \* [Writer -> why its recording stopped short, if it did]

mind == <<goals, memory>>
record == <<profile, weakness, practiced, scheduled, assets, raised>>
vars == <<events, summaries, mind, record, pc, at, read, runs>>
-----------------------------------------------------------------------------
Nothing == [is |-> FALSE, value |-> 0]
Found(n) == [is |-> TRUE, value |-> n]
NoMemory == [is |-> FALSE, weight |-> 0]

Step == {"plan", "work", "weigh", "credit", "recall", "summarise", "profile", "create", "score",
         "find", "note", "practice", "review", "fetch", "save", "finish", "crashed", "done"}

HistoryTyped ==
    /\ events \in Seq(Task) /\ Len(events) <= MaxEvents + Cardinality(Task)
    /\ summaries \in Seq([by : Task, until : DOMAIN events, told : SUBSET DOMAIN events])

MindTyped ==
    /\ goals \in [Task -> Nat] /\ runs \in [Task -> Nat]
    /\ \A t \in Task : goals[t] <= MaxRuns(t) /\ runs[t] <= MaxRuns(t)
    /\ memory \in [Goal -> [is : BOOLEAN, weight : Nat]]

RecordTyped ==
    /\ profile \in [is : BOOLEAN, by : Writer \cup {User, NoOne},
                    readiness : {0} \cup {Score(w) : w \in Writer}]
    /\ weakness \in [Topic -> [is : BOOLEAN, severity : Nat, seen : Writer \cup {NoOne}]]
    /\ practiced \in [Writer -> SUBSET Topic] /\ scheduled \in [Writer -> SUBSET Topic]
    /\ assets \in [Asset -> [version : Nat, by : Writer \cup {NoOne}]]

StepsTyped ==
    /\ pc \in [Writer -> Step] /\ at \in [Writer -> Nat]
    /\ \A w \in Writer : at[w] \in 1..(Len(Topics(w)) + Len(Assets(w)))
    /\ read \in [Writer -> [is : BOOLEAN, value : Nat]]
    /\ raised \in [Writer -> {"no", "rival", "database"}]

TypeOK == HistoryTyped /\ MindTyped /\ RecordTyped /\ StepsTyped

Init ==
    /\ events = <<>> /\ summaries = <<>> /\ goals = [t \in Task |-> 0]
    /\ memory = [g \in Goal |-> NoMemory]
    /\ profile = [is |-> FALSE, by |-> NoOne, readiness |-> 0]
    /\ weakness = [k \in Topic |-> [is |-> FALSE, severity |-> 0, seen |-> NoOne]]
    /\ practiced = [w \in Writer |-> {}] /\ scheduled = [w \in Writer |-> {}]
    /\ assets = [a \in Asset |-> [version |-> 0, by |-> NoOne]]
    /\ pc = [w \in Writer |-> IF w \in Task THEN "plan" ELSE "profile"]
    /\ at = [w \in Writer |-> 1] /\ read = [w \in Writer |-> Nothing]
    /\ runs = [t \in Task |-> 0] /\ raised = [w \in Writer |-> "no"]

Move(w, from, to) == pc[w] = from /\ pc' = [pc EXCEPT ![w] = to]
Reads(w, row) == read' = [read EXCEPT ![w] = row]
Forgets(w) == Reads(w, Nothing)
-----------------------------------------------------------------------------
(* The task before its last node.                                          *)

\* The planner writes the goal as an approved memory event, once per execution.
Plan(t) ==
    /\ Move(t, "plan", "work") /\ goals' = [goals EXCEPT ![t] = @ + 1]
    /\ UNCHANGED <<events, summaries, memory, record, at, read, runs>>

\* An agent of the task, or a request about it, appends an event.
Emit(t) ==
    /\ pc[t] # "done" /\ Len(events) < MaxEvents
    /\ events' = Append(events, t)
    /\ UNCHANGED <<summaries, mind, record, pc, at, read, runs>>

\* _final_response begins.  The task_completed event it writes is not approved, so the
\* consolidation below passes over it.
Finish(t) ==
    /\ Move(t, "work", "weigh") /\ runs' = [runs EXCEPT ![t] = @ + 1]
    /\ raised' = [raised EXCEPT ![t] = "no"]
    /\ UNCHANGED <<events, summaries, mind, profile, weakness, practiced, scheduled, assets,
                   at, read>>
-----------------------------------------------------------------------------
(* The long-term memory: consolidate_memory_events.                        *)

\* apply_memory_decay: as stored, or halved if the half-life has passed since the update.
Decayed(m) == {m.weight, m.weight \div 2}

ReadWeight(t) ==
    /\ Move(t, "weigh", "credit")
    /\ \E weight \in Decayed(memory[GoalOf(t)]) : Reads(t, Found(weight))
    /\ UNCHANGED <<events, summaries, mind, record, at, runs>>

\* ON CONFLICT DO UPDATE takes the weight computed from the read.  The rows of a task share
\* the key, and the later ones read what the first has written.
CreditedTwice(t) == memory[GoalOf(t)].weight + read[t].value + goals[t]  \* added to the row
Credited(t) == read[t].value + goals[t]

Credit(t) ==
    /\ Move(t, "credit", "recall") /\ Forgets(t)
    /\ memory' = [memory EXCEPT ![GoalOf(t)] =
                     [is |-> TRUE, weight |-> Credited(t)]]
    /\ UNCHANGED <<events, summaries, goals, record, at, runs>>

\* The user deletes memories: all, or one.
Forget(gone) ==
    /\ \E g \in gone : memory[g].is
    /\ memory' = [g \in Goal |-> IF g \in gone THEN NoMemory ELSE memory[g]]
    /\ UNCHANGED <<events, summaries, goals, record, pc, at, read, runs>>
DeleteMemory == \E g \in Goal : Forget({g})
ClearMemories == Forget(Goal)

-----------------------------------------------------------------------------
(* The session's summary: summarize_session.                               *)

Until(n) == IF n = 0 THEN 0 ELSE summaries[n].until
Told(n) == IF n = 0 THEN {} ELSE summaries[n].told

\* The latest row of the session, whichever task wrote it.
ReadSummary(t) ==
    /\ Move(t, "recall", "summarise") /\ Reads(t, Found(Len(summaries)))
    /\ UNCHANGED <<events, summaries, mind, record, at, runs>>

\* The oldest events of this task after that row, up to the limit.
Untold(t) ==
    LET later == {e \in DOMAIN events : e > Until(read[t].value) /\ events[e] = t}
    IN  {e \in later : Cardinality({d \in later : d < e}) < EventLimit}

ReachedEnd(t) == Len(events)          \* the last event of the session, told or not
ReachedNext(t) == Max(Untold(t)) + 1  \* the first event left for the next summary
Reached(t) == Max(Untold(t))

WriteSummary(t) ==
    /\ Move(t, "summarise", "profile") /\ Forgets(t)
    /\ summaries' = IF Untold(t) = {} THEN summaries
                    ELSE Append(summaries, [by |-> t, until |-> Reached(t),
                                            told |-> Told(read[t].value) \cup Untold(t)])
    /\ UNCHANGED <<events, mind, record, at, runs>>
-----------------------------------------------------------------------------
(* The learning outputs: record_agent_learning_outputs.                    *)

\* The insert finds the row there: the exception ends the recording.
Raise(w, why) ==
    /\ pc' = [pc EXCEPT ![w] = "finish"] /\ raised' = [raised EXCEPT ![w] = why]
    /\ at' = [at EXCEPT ![w] = 1] /\ Forgets(w)

\* get_or_create_profile.
FindProfile(w) ==
    /\ Move(w, "profile", IF profile.is THEN "score" ELSE "create")
    /\ Reads(w, IF profile.is THEN Found(profile.readiness) ELSE Nothing)
    /\ UNCHANGED <<events, summaries, mind, record, at, runs>>

CreateProfile(w) ==
    /\ Move(w, "create", "score") /\ ~profile.is /\ Reads(w, Found(0))
    /\ profile' = [is |-> TRUE, by |-> w, readiness |-> 0]
    /\ UNCHANGED <<events, summaries, mind, weakness, practiced, scheduled, assets, raised,
                   at, runs>>

LateProfile(w) ==
    /\ pc[w] = "create" /\ profile.is /\ Raise(w, "rival")
    /\ UNCHANGED <<events, summaries, mind, profile, weakness, practiced, scheduled, assets,
                   runs>>

\* max of the readiness read and the score; a column that does not change is not written.
ScoreProfile(w) ==
    /\ Move(w, "score", "find") /\ Forgets(w)
    /\ profile' = [profile EXCEPT !.readiness = IF Score(w) > read[w].value THEN Score(w)
                                                ELSE @]
    /\ UNCHANGED <<events, summaries, mind, weakness, practiced, scheduled, assets, raised,
                   at, runs>>

\* The dimension of the scorecard it is at, with the severity its score stands for.
TopicOf(w) == Topics(w)[at[w]]
Given(w) == Severity(w, at[w])

\* upsert_weakness: the query, then the commit of the insert or of the update.
FindWeakness(w) ==
    /\ Move(w, "find", "note")
    /\ LET row == weakness[TopicOf(w)]
       IN  Reads(w, IF row.is THEN Found(row.severity) ELSE Nothing)
    /\ UNCHANGED <<events, summaries, mind, record, at, runs>>

NoteWeakness(w) ==
    /\ Move(w, "note", "practice") /\ read[w].is = weakness[TopicOf(w)].is
    /\ weakness' = [weakness EXCEPT ![TopicOf(w)] =
           [is |-> TRUE, seen |-> w,
            severity |-> IF Given(w) > read[w].value THEN Given(w) ELSE @.severity]]
    /\ Forgets(w)
    /\ UNCHANGED <<events, summaries, mind, profile, practiced, scheduled, assets, raised,
                   at, runs>>

LateWeakness(w) ==
    /\ pc[w] = "note" /\ ~read[w].is /\ weakness[TopicOf(w)].is /\ Raise(w, "rival")
    /\ UNCHANGED <<events, summaries, mind, profile, weakness, practiced, scheduled, assets,
                   runs>>

CreatePractice(w) ==
    /\ Move(w, "practice", "review")
    /\ practiced' = [practiced EXCEPT ![w] = @ \cup {TopicOf(w)}]
    /\ UNCHANGED <<events, summaries, mind, profile, weakness, scheduled, assets, raised,
                   at, read, runs>>

\* The last topic a writer looks at.
OneShort(w) == Len(Topics(w)) - 1
LastTopic(w) == Len(Topics(w))

ScheduleReview(w) ==
    /\ LET more == at[w] < LastTopic(w)
       IN  /\ Move(w, "review", IF more THEN "find" ELSE "fetch")
           /\ at' = [at EXCEPT ![w] = IF more THEN @ + 1 ELSE 1]
    /\ scheduled' = [scheduled EXCEPT ![w] = @ \cup {TopicOf(w)}]
    /\ UNCHANGED <<events, summaries, mind, profile, weakness, practiced, assets, raised,
                   read, runs>>
-----------------------------------------------------------------------------
(* The long-term assets: _persist_learning_long_term_assets.               *)

AssetOf(w) == Assets(w)[at[w]]

FindAsset(w) ==
    /\ Move(w, "fetch", "save") /\ Reads(w, Found(assets[AssetOf(w)].version))
    /\ UNCHANGED <<events, summaries, mind, record, at, runs>>

\* upsert_long_term_asset: the version read, plus one.
SaveAsset(w) ==
    /\ LET more == at[w] < Len(Assets(w))
       IN  /\ Move(w, "save", IF more THEN "fetch" ELSE "finish")
           /\ at' = [at EXCEPT ![w] = IF more THEN @ + 1 ELSE 1]
    /\ read[w].value = 0 => assets[AssetOf(w)].version = 0
    /\ assets' = [assets EXCEPT ![AssetOf(w)] = [version |-> read[w].value + 1, by |-> w]]
    /\ Forgets(w)
    /\ UNCHANGED <<events, summaries, mind, profile, weakness, practiced, scheduled, raised,
                   runs>>

LateAsset(w) ==
    /\ pc[w] = "save" /\ read[w].value = 0 /\ assets[AssetOf(w)].version > 0 /\ Raise(w, "rival")
    /\ UNCHANGED <<events, summaries, mind, profile, weakness, practiced, scheduled, assets,
                   runs>>

\* The learning event, then for a task its task.completed event and its status.
Complete(w) ==
    /\ Move(w, "finish", "done")
    /\ events' = IF w \in Task THEN Append(events, w) ELSE events
    /\ UNCHANGED <<summaries, mind, record, at, read, runs>>
-----------------------------------------------------------------------------
(* Failures, and the user's own requests.                                  *)

\* The database refuses: consolidation and summary are one try, the outputs another.
MemoryFails(t) ==
    /\ pc[t] \in {"weigh", "credit", "recall", "summarise"}
    /\ pc' = [pc EXCEPT ![t] = "profile"] /\ Forgets(t)
    /\ UNCHANGED <<events, summaries, mind, record, at, runs>>

OutputsFail(w) ==
    /\ pc[w] \in {"profile", "create", "score", "find", "note", "practice", "review",
                  "fetch", "save"}
    /\ Raise(w, "database")
    /\ UNCHANGED <<events, summaries, mind, profile, weakness, practiced, scheduled, assets,
                   runs>>

\* The process dies.  A question is not repeated.
Crash(w) ==
    /\ pc[w] \notin {"plan", "work", "crashed", "done"}
    /\ pc' = [pc EXCEPT ![w] = "crashed"]
    /\ at' = [at EXCEPT ![w] = 1] /\ Forgets(w)
    /\ UNCHANGED <<events, summaries, mind, record, runs>>

\* The next attempt: from the checkpoint before the node, or from the beginning.
Retry(t) ==
    /\ pc[t] = "crashed" /\ runs[t] < MaxRuns(t)
    /\ \E to \in {"plan", "work"} : pc' = [pc EXCEPT ![t] = to]
    /\ UNCHANGED <<events, summaries, mind, record, at, read, runs>>

\* GET or PUT /learning/profile.
UserProfile ==
    /\ ~profile.is /\ profile' = [profile EXCEPT !.is = TRUE, !.by = User]
    /\ UNCHANGED <<events, summaries, mind, weakness, practiced, scheduled, assets, raised,
                   pc, at, read, runs>>
-----------------------------------------------------------------------------
TaskStep(t) == \/ Plan(t) \/ Emit(t) \/ Finish(t) \/ ReadWeight(t) \/ Credit(t)
               \/ ReadSummary(t) \/ WriteSummary(t) \/ MemoryFails(t) \/ Retry(t)

WriterStep(w) == \/ FindProfile(w) \/ CreateProfile(w) \/ LateProfile(w) \/ ScoreProfile(w)
                 \/ FindWeakness(w) \/ NoteWeakness(w) \/ LateWeakness(w)
                 \/ CreatePractice(w) \/ ScheduleReview(w)
                 \/ FindAsset(w) \/ SaveAsset(w) \/ LateAsset(w)
                 \/ Complete(w) \/ OutputsFail(w) \/ Crash(w)

Next == \/ \E t \in Task : TaskStep(t)
        \/ \E w \in Writer : WriterStep(w)
        \/ DeleteMemory \/ ClearMemories \/ UserProfile

Spec == Init /\ [][Next]_vars
-----------------------------------------------------------------------------
\* A task's units: one for each goal the planner wrote, in each of so many executions.
Units(t, executions) == {t} \X (1..executions) \X (1..goals[t])
TasksOf(g) == {t \in Task : GoalOf(t) = g}

\* A memory weighs no more than what its tasks have contributed: one unit for each goal the
\* planner wrote, in each execution of the last node.  Retries may credit a goal again and
\* concurrent tasks may lose a credit, but nothing is credited twice by one execution,
\* nor by the retries of the planner (consolidator._upsert_memory).
WeightIsEarned ==
    \A g \in Goal :
        memory[g].weight <= Cardinality(UNION {Units(t, runs[t]) : t \in TasksOf(g)})

\* Why: an execution has not credited its goals before it consolidates, and what it read
\* was earned by then.
Ended(t) == IF pc[t] \in {"weigh", "credit"} THEN runs[t] - 1 ELSE runs[t]
Earned(g) == Cardinality(UNION {Units(t, Ended(t)) : t \in TasksOf(g)})
EarnedBy(t) == /\ pc[t] \in {"weigh", "credit"} => runs[t] > 0
               /\ pc[t] = "credit" => read[t].value <= Earned(GoalOf(t))
Weights == /\ \A g \in Goal : memory[g].weight <= Earned(g)
           /\ \A t \in Task : EarnedBy(t)

\* The session's summary tells of every event up to its checkpoint, except events another
\* task's summary has passed: the checkpoint is the session's, but a task tells only of its
\* own events (summarizer.summarize_session).  Neither the limit on events nor a retry
\* after a crash opens a gap.
Overtaken(e) == \E n \in DOMAIN summaries : summaries[n].by # events[e] /\ summaries[n].until >= e
GapsOf(r) == \A e \in (1..Until(r)) \ Told(r) : Overtaken(e)
GapsAreOvertaken == GapsOf(Len(summaries))

\* Why: it is so for each summary, also for those a later one does not build on.
Gaps == \A r \in DOMAIN summaries : GapsOf(r)

\* A row the writer wanted to insert is another's.
ByRival(w) ==
    \/ profile.by \notin {w, NoOne}
    \/ \E k \in Range(Topics(w)) : weakness[k].seen \notin {w, NoOne}
    \/ \E a \in Range(Assets(w)) : assets[a].by \notin {w, NoOne}

\* When a recording has ended, each of its topics has a weakness, a practice and a review,
\* unless the database failed, or a row it wanted to insert was inserted meanwhile by
\* another writer (learning_service: the unique keys of profile, weakness and asset).
OutputsAreWhole ==
    \A w \in Writer :
        pc[w] \in {"finish", "done"} /\ raised[w] # "database" =>
            \/ /\ raised[w] = "no"
               /\ Range(Topics(w)) \subseteq practiced[w] \cap scheduled[w]
               /\ \A k \in Range(Topics(w)) : weakness[k].is
            \/ raised[w] = "rival" /\ ByRival(w)

\* Why: the topics are passed in order, and a recording that stops says why.
Recording == {"weigh", "credit", "recall", "summarise", "profile", "create", "score"}
OfTopic == {"find", "note", "practice", "review"}
OfAsset == {"fetch", "save"}
Passed(w, i) == \/ pc[w] \in OfTopic /\ i < at[w]
                \/ pc[w] \in OfAsset
                \/ pc[w] \in {"finish", "done"} /\ raised[w] = "no"
AtStep(w) == at[w] \in IF pc[w] \in OfTopic THEN DOMAIN Topics(w)
                       ELSE IF pc[w] \in OfAsset THEN DOMAIN Assets(w) ELSE {1}
OutputsOf(w) ==
    /\ pc[w] \in Recording \cup OfTopic \cup OfAsset => raised[w] = "no"
    /\ \A i \in DOMAIN Topics(w) :
          /\ Passed(w, i) => /\ Topics(w)[i] \in practiced[w] \cap scheduled[w]
                             /\ weakness[Topics(w)[i]].is
          /\ i = at[w] /\ pc[w] \in {"practice", "review"} => weakness[Topics(w)[i]].is
          /\ i = at[w] /\ pc[w] = "review" => Topics(w)[i] \in practiced[w]

\* Why: a row that a writer did not find, and finds when it inserts, is another's.
RowsOwned ==
    /\ profile.is <=> profile.by # NoOne
    /\ \A k \in Topic : weakness[k].is => weakness[k].seen # NoOne
    /\ \A a \in Asset : assets[a].version > 0 => assets[a].by # NoOne
OthersOf(w) ==
    /\ pc[w] = "create" => profile.by # w
    /\ pc[w] = "note" /\ ~read[w].is /\ weakness[TopicOf(w)].is => weakness[TopicOf(w)].seen # w
    /\ pc[w] = "save" /\ read[w].value = 0 /\ assets[AssetOf(w)].version > 0 =>
          assets[AssetOf(w)].by # w
    /\ pc[w] \in {"finish", "done"} /\ raised[w] = "rival" => ByRival(w)

\* Why: the planner writes a goal at most once for each execution of the last node.
GoalsOf(t) ==
    /\ runs[t] <= MaxRuns(t)
    /\ goals[t] <= IF pc[t] = "work" THEN runs[t] + 1 ELSE runs[t]
    /\ pc[t] \in {"plan", "work"} => runs[t] < MaxRuns(t)

\* Why: a task that is done emits one event more, and the row a task read stays there.
Completed == {t \in Task : pc[t] = "done"}
EventsBounded == Len(events) <= MaxEvents + Cardinality(Completed)
SummaryRead(t) == pc[t] = "summarise" => read[t].value \in 0..Len(summaries)

\* Together: what every step preserves.
LearnerByStep ==
    /\ TypeOK /\ Weights /\ Gaps /\ RowsOwned /\ EventsBounded
    /\ \A w \in Writer : AtStep(w) /\ OutputsOf(w) /\ OthersOf(w)
    /\ \A t \in Task : GoalsOf(t) /\ SummaryRead(t)
=============================================================================
