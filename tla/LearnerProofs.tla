---------------------------- MODULE LearnerProofs ----------------------------
(***************************************************************************)
(* For any tasks and questions of a learner, any goals, topics and assets, *)
(* and any crashes, retries and failures of the database: a memory weighs  *)
(* no more than its tasks earned, the summary of a session has no gap that *)
(* no other task's summary has passed, and a recording that ended without  *)
(* a refusal of the database recorded everything or met a rival.           *)
(***************************************************************************)
EXTENDS Learner, SequenceTheorems, FiniteSetTheorems, WellFoundedInduction, TLAPS

-----------------------------------------------------------------------------
(* Steps.                                                                  *)

LEMMA ListsAreLists ==
    ASSUME NEW w \in Writer
    PROVE  /\ Len(Topics(w)) \in Nat /\ Len(Topics(w)) > 0 /\ DOMAIN Topics(w) = 1..Len(Topics(w))
           /\ Len(Assets(w)) \in Nat /\ Len(Assets(w)) > 0 /\ DOMAIN Assets(w) = 1..Len(Assets(w))
           /\ \A i \in DOMAIN Topics(w) : Topics(w)[i] \in Topic
           /\ \A i \in DOMAIN Assets(w) : Assets(w)[i] \in Asset
  <1>1. Topics(w) \in Seq(Range(Topics(w))) /\ Assets(w) \in Seq(Range(Assets(w)))
    BY LearnerAssumption DEF IsList
  <1>2. Len(Topics(w)) > 0 /\ Len(Assets(w)) > 0
    BY LearnerAssumption DEF IsList
  <1> QED
    BY <1>1, <1>2, LenProperties DEF Topic, Asset, Range

\* Where each writer is: in a list while it passes the list, else at its start.
AtByStep == /\ pc \in [Writer -> Step] /\ at \in [Writer -> Nat]
            /\ \A w \in Writer : AtStep(w)

\* A step of one writer moves no other.
LEMMA AtMoves ==
    ASSUME AtByStep, NEW w \in Writer, NEW to \in Step, NEW n \in Nat,
           pc' = [pc EXCEPT ![w] = to], at' \in {at, [at EXCEPT ![w] = n]},
           AtStep(w)'
    PROVE  AtByStep'
  BY DEF AtByStep, AtStep

LEMMA AtKept ==
    ASSUME AtByStep, NEW w \in Writer, NEW to \in Step, pc' = [pc EXCEPT ![w] = to], UNCHANGED at,
           \/ pc[w] \notin OfTopic \cup OfAsset /\ to \notin OfAsset
           \/ pc[w] \in OfTopic /\ to \in OfTopic
           \/ pc[w] \in OfAsset /\ to \in OfAsset
    PROVE  AtByStep'
  <1>1. AtStep(w)'
    BY ListsAreLists DEF AtByStep, AtStep, OfTopic, OfAsset
  <1> QED
    BY <1>1, AtMoves DEF AtByStep

LEMMA AtStart ==
    ASSUME AtByStep, NEW w \in Writer, NEW to \in Step \ (OfTopic \cup OfAsset),
           pc' = [pc EXCEPT ![w] = to], at' = [at EXCEPT ![w] = 1]
    PROVE  AtByStep'
  BY AtMoves DEF AtByStep, AtStep

LEMMA AtNext == AtByStep /\ [Next]_vars => AtByStep'
  <1> SUFFICES ASSUME AtByStep, [Next]_vars
               PROVE  AtByStep'
    OBVIOUS
  <1> USE DEF OfTopic, OfAsset, Step
  <1>1. ASSUME NEW t \in Task, TaskStep(t)
        PROVE  AtByStep'
    <2>1. t \in Writer
      BY DEF Writer
    <2>2. CASE Emit(t)
      BY <2>2 DEF Emit, AtByStep, AtStep
    <2>3. CASE Plan(t) \/ Finish(t) \/ ReadWeight(t) \/ Credit(t) \/ ReadSummary(t) \/ WriteSummary(t)
      BY <2>1, <2>3, AtKept DEF Plan, Finish, ReadWeight, Credit, ReadSummary, WriteSummary, Move
    <2>4. CASE MemoryFails(t) \/ Retry(t)
      BY <2>1, <2>4, AtKept DEF MemoryFails, Retry
    <2> QED
      BY <1>1, <2>2, <2>3, <2>4 DEF TaskStep
  <1>2. ASSUME NEW w \in Writer, WriterStep(w)
        PROVE  AtByStep'
    <2>1. CASE FindProfile(w) \/ CreateProfile(w) \/ ScoreProfile(w) \/ FindWeakness(w)
                  \/ NoteWeakness(w) \/ CreatePractice(w) \/ FindAsset(w) \/ Complete(w)
      BY <2>1, AtKept DEF FindProfile, CreateProfile, ScoreProfile, FindWeakness, NoteWeakness,
                          CreatePractice, FindAsset, Complete, Move
    <2>2. CASE LateProfile(w) \/ LateWeakness(w) \/ LateAsset(w) \/ OutputsFail(w)
      BY <2>2, AtStart DEF LateProfile, LateWeakness, LateAsset, OutputsFail, Raise
    <2>3. CASE Crash(w)
      BY <2>3, AtStart DEF Crash
    <2>4. CASE ScheduleReview(w)
      <3>1. PICK more \in BOOLEAN : /\ more <=> at[w] < Len(Topics(w))
                                    /\ pc[w] = "review"
                                    /\ pc' = [pc EXCEPT ![w] = IF more THEN "find" ELSE "fetch"]
                                    /\ at' = [at EXCEPT ![w] = IF more THEN @ + 1 ELSE 1]
        BY <2>4 DEF ScheduleReview, Move, LastTopic
      <3>2. at[w] \in 1..Len(Topics(w))
        BY <3>1, ListsAreLists DEF AtByStep, AtStep
      <3>3. pc'[w] = (IF more THEN "find" ELSE "fetch") /\ at'[w] = IF more THEN at[w] + 1 ELSE 1
        BY <3>1 DEF AtByStep
      <3>4. AtStep(w)'
        BY <3>1, <3>2, <3>3, ListsAreLists DEF AtStep
      <3> DEFINE to == IF more THEN "find" ELSE "fetch"
                 n == IF more THEN at[w] + 1 ELSE 1
      <3>5. to \in Step /\ n \in Nat
        BY <3>2
      <3>6. pc' = [pc EXCEPT ![w] = to] /\ at' = [at EXCEPT ![w] = n]
        BY <3>1
      <3> HIDE DEF to, n
      <3> QED
        BY <3>4, <3>5, <3>6, AtMoves
    <2>5. CASE SaveAsset(w)
      <3>1. PICK more \in BOOLEAN : /\ more <=> at[w] < Len(Assets(w))
                                    /\ pc[w] = "save"
                                    /\ pc' = [pc EXCEPT ![w] = IF more THEN "fetch" ELSE "finish"]
                                    /\ at' = [at EXCEPT ![w] = IF more THEN @ + 1 ELSE 1]
        BY <2>5 DEF SaveAsset, Move
      <3>2. at[w] \in 1..Len(Assets(w))
        BY <3>1, ListsAreLists DEF AtByStep, AtStep
      <3>3. pc'[w] = (IF more THEN "fetch" ELSE "finish") /\ at'[w] = IF more THEN at[w] + 1 ELSE 1
        BY <3>1 DEF AtByStep
      <3>4. AtStep(w)'
        BY <3>1, <3>2, <3>3, ListsAreLists DEF AtStep
      <3> DEFINE to == IF more THEN "fetch" ELSE "finish"
                 n == IF more THEN at[w] + 1 ELSE 1
      <3>5. to \in Step /\ n \in Nat
        BY <3>2
      <3>6. pc' = [pc EXCEPT ![w] = to] /\ at' = [at EXCEPT ![w] = n]
        BY <3>1
      <3> HIDE DEF to, n
      <3> QED
        BY <3>4, <3>5, <3>6, AtMoves
    <2> QED
      BY <1>2, <2>1, <2>2, <2>3, <2>4, <2>5 DEF WriterStep
  <1>3. CASE DeleteMemory \/ ClearMemories \/ UserProfile \/ UNCHANGED vars
    BY <1>3 DEF DeleteMemory, ClearMemories, Forget, UserProfile, vars, AtByStep, AtStep
  <1> QED
    BY <1>1, <1>2, <1>3 DEF Next
-----------------------------------------------------------------------------
(* Types.                                                                  *)

Rows == [is : BOOLEAN, value : Nat]
ReadTyped == read \in [Writer -> Rows]

LEMMA ReadsTyped ==
    ASSUME ReadTyped, NEW w \in Writer, NEW row \in Rows, Reads(w, row)
    PROVE  ReadTyped'
  BY DEF ReadTyped, Reads

LEMMA RowsTyped == Nothing \in Rows /\ \A n \in Nat : Found(n) \in Rows
  BY DEF Nothing, Found, Rows

LEMMA ForgetsTyped ==
    ASSUME ReadTyped, NEW w \in Writer, Forgets(w)
    PROVE  ReadTyped'
  BY ReadsTyped, RowsTyped DEF Forgets

\* What is read is a number of the row it is read from.
LEMMA ReadNext ==
    ReadTyped /\ AtByStep /\ HistoryTyped /\ MindTyped /\ RecordTyped /\ [Next]_vars => ReadTyped'
  <1> SUFFICES ASSUME ReadTyped, AtByStep, HistoryTyped, MindTyped, RecordTyped, [Next]_vars
               PROVE  ReadTyped'
    OBVIOUS
  <1>1. ASSUME NEW t \in Task, TaskStep(t)
        PROVE  ReadTyped'
    <2>1. t \in Writer /\ GoalOf(t) \in Goal
      BY LearnerAssumption DEF Writer
    <2>2. CASE Plan(t) \/ Emit(t) \/ Finish(t) \/ Retry(t)
      BY <2>2 DEF Plan, Emit, Finish, Retry, ReadTyped
    <2>3. CASE ReadWeight(t)
      <3>1. memory[GoalOf(t)].weight \in Nat
        BY <2>1 DEF MindTyped
      <3>2. PICK weight \in Decayed(memory[GoalOf(t)]) : Reads(t, Found(weight))
        BY <2>3 DEF ReadWeight
      <3>3. weight \in Nat
        BY <3>1, <3>2 DEF Decayed
      <3> QED
        BY <2>1, <3>2, <3>3, ReadsTyped, RowsTyped
    <2>4. CASE ReadSummary(t)
      <3>1. Len(summaries) \in Nat
        BY LenProperties DEF HistoryTyped
      <3> QED
        BY <2>1, <2>4, <3>1, ReadsTyped, RowsTyped DEF ReadSummary
    <2>5. CASE Credit(t) \/ WriteSummary(t) \/ MemoryFails(t)
      BY <2>1, <2>5, ForgetsTyped DEF Credit, WriteSummary, MemoryFails
    <2> QED
      BY <1>1, <2>2, <2>3, <2>4, <2>5 DEF TaskStep
  <1>2. ASSUME NEW w \in Writer, WriterStep(w)
        PROVE  ReadTyped'
    <2>1. CASE FindProfile(w)
      <3>1. profile.readiness \in Nat
        BY LearnerAssumption DEF RecordTyped
      <3> QED
        BY <2>1, <3>1, ReadsTyped, RowsTyped DEF FindProfile
    <2>2. CASE CreateProfile(w)
      BY <2>2, ReadsTyped, RowsTyped DEF CreateProfile
    <2>3. CASE FindWeakness(w)
      <3>1. TopicOf(w) \in Topic
        BY <2>3, ListsAreLists DEF FindWeakness, Move, TopicOf, AtByStep, AtStep, OfTopic
      <3>2. weakness[TopicOf(w)].severity \in Nat
        BY <3>1 DEF RecordTyped
      <3> QED
        BY <2>3, <3>2, ReadsTyped, RowsTyped DEF FindWeakness
    <2>4. CASE FindAsset(w)
      <3>1. AssetOf(w) \in Asset
        BY <2>4, ListsAreLists DEF FindAsset, Move, AssetOf, AtByStep, AtStep, OfAsset, OfTopic
      <3>2. assets[AssetOf(w)].version \in Nat
        BY <3>1 DEF RecordTyped
      <3> QED
        BY <2>4, <3>2, ReadsTyped, RowsTyped DEF FindAsset
    <2>5. CASE LateProfile(w) \/ LateWeakness(w) \/ LateAsset(w) \/ OutputsFail(w) \/ ScoreProfile(w)
                  \/ NoteWeakness(w) \/ SaveAsset(w) \/ Crash(w)
      BY <2>5, ForgetsTyped DEF LateProfile, LateWeakness, LateAsset, OutputsFail, Raise,
                                ScoreProfile, NoteWeakness, SaveAsset, Crash
    <2>6. CASE CreatePractice(w) \/ ScheduleReview(w) \/ Complete(w)
      BY <2>6 DEF CreatePractice, ScheduleReview, Complete, ReadTyped
    <2> QED
      BY <1>2, <2>1, <2>2, <2>3, <2>4, <2>5, <2>6 DEF WriterStep
  <1>3. CASE DeleteMemory \/ ClearMemories \/ UserProfile \/ UNCHANGED vars
    BY <1>3 DEF DeleteMemory, ClearMemories, Forget, UserProfile, vars, ReadTyped
  <1> QED
    BY <1>1, <1>2, <1>3 DEF Next

RaisedTyped == raised \in [Writer -> {"no", "rival", "database"}]

LEMMA RaisedNext == RaisedTyped /\ [Next]_vars => RaisedTyped'
  <1> SUFFICES ASSUME RaisedTyped, [Next]_vars
               PROVE  RaisedTyped'
    OBVIOUS
  <1>1. ASSUME NEW t \in Task, TaskStep(t)
        PROVE  RaisedTyped'
    BY <1>1 DEF TaskStep, Plan, Emit, Finish, ReadWeight, Credit, ReadSummary, WriteSummary,
                MemoryFails, Retry, record, RaisedTyped
  <1>2. ASSUME NEW w \in Writer, WriterStep(w)
        PROVE  RaisedTyped'
    <2>1. CASE LateProfile(w) \/ LateWeakness(w) \/ LateAsset(w) \/ OutputsFail(w)
      BY <2>1 DEF LateProfile, LateWeakness, LateAsset, OutputsFail, Raise, RaisedTyped
    <2>2. CASE ~(LateProfile(w) \/ LateWeakness(w) \/ LateAsset(w) \/ OutputsFail(w))
      BY <1>2, <2>2 DEF WriterStep, FindProfile, CreateProfile, ScoreProfile, FindWeakness,
                        NoteWeakness, CreatePractice, ScheduleReview, FindAsset, SaveAsset,
                        Complete, Crash, record, RaisedTyped
    <2> QED
      BY <2>1, <2>2
  <1>3. CASE DeleteMemory \/ ClearMemories \/ UserProfile \/ UNCHANGED vars
    BY <1>3 DEF DeleteMemory, ClearMemories, Forget, UserProfile, vars, record, RaisedTyped
  <1> QED
    BY <1>1, <1>2, <1>3 DEF Next

\* What is recorded is about topics and assets of the writer.
LEMMA RecordNext ==
    RecordTyped /\ AtByStep /\ ReadTyped /\ [Next]_vars => RecordTyped'
  <1> SUFFICES ASSUME RecordTyped, AtByStep, ReadTyped, [Next]_vars
               PROVE  RecordTyped'
    OBVIOUS
  <1>1. CASE UNCHANGED <<profile, weakness, practiced, scheduled, assets>>
    BY <1>1 DEF RecordTyped
  <1>2. ASSUME NEW t \in Task, TaskStep(t)
        PROVE  RecordTyped'
    BY <1>1, <1>2 DEF TaskStep, Plan, Emit, Finish, ReadWeight, Credit, ReadSummary, WriteSummary,
                      MemoryFails, Retry, record
  <1>3. ASSUME NEW w \in Writer, WriterStep(w)
        PROVE  RecordTyped'
    <2>1. CASE FindProfile(w) \/ LateProfile(w) \/ FindWeakness(w) \/ LateWeakness(w) \/ FindAsset(w)
                  \/ LateAsset(w) \/ Complete(w) \/ OutputsFail(w) \/ Crash(w)
      BY <1>1, <2>1 DEF FindProfile, LateProfile, FindWeakness, LateWeakness, FindAsset, LateAsset,
                        Complete, OutputsFail, Crash, record
    <2>2. CASE CreateProfile(w)
      BY <2>2 DEF CreateProfile, RecordTyped
    <2>3. CASE ScoreProfile(w)
      <3>1. /\ profile' = [profile EXCEPT !.readiness = IF Score(w) > read[w].value THEN Score(w)
                                                        ELSE @]
            /\ UNCHANGED <<weakness, practiced, scheduled, assets>>
        BY <2>3 DEF ScoreProfile
      <3> QED
        BY <3>1 DEF RecordTyped
    <2>4. CASE NoteWeakness(w)
      <3>1. at[w] \in DOMAIN Topics(w) /\ TopicOf(w) \in Topic
        BY <2>4, ListsAreLists DEF NoteWeakness, Move, TopicOf, AtByStep, AtStep, OfTopic
      <3>2. Given(w) \in Nat
        BY <3>1, LearnerAssumption DEF Given
      <3>3. weakness' = [weakness EXCEPT ![TopicOf(w)] =
                [is |-> TRUE, seen |-> w,
                 severity |-> IF Given(w) > read[w].value THEN Given(w) ELSE @.severity]]
        BY <2>4 DEF NoteWeakness
      <3> DEFINE new == [is |-> TRUE, seen |-> w,
                         severity |-> IF Given(w) > read[w].value THEN Given(w)
                                      ELSE weakness[TopicOf(w)].severity]
      <3>4. new \in [is : BOOLEAN, severity : Nat, seen : Writer \cup {NoOne}]
        BY <3>1, <3>2 DEF RecordTyped
      <3>5. weakness' = [weakness EXCEPT ![TopicOf(w)] = new]
        BY <3>3
      <3> HIDE DEF new
      <3> QED
        BY <2>4, <3>1, <3>4, <3>5 DEF NoteWeakness, RecordTyped
    <2>5. CASE CreatePractice(w) \/ ScheduleReview(w)
      <3>1. TopicOf(w) \in Topic
        BY <2>5, ListsAreLists DEF CreatePractice, ScheduleReview, Move, TopicOf, AtByStep, AtStep,
                                   OfTopic
      <3>2. /\ UNCHANGED <<profile, weakness, assets>>
            /\ practiced' \in {practiced, [practiced EXCEPT ![w] = @ \cup {TopicOf(w)}]}
            /\ scheduled' \in {scheduled, [scheduled EXCEPT ![w] = @ \cup {TopicOf(w)}]}
        BY <2>5 DEF CreatePractice, ScheduleReview
      <3>3. \A s \in [Writer -> SUBSET Topic] :
                [s EXCEPT ![w] = @ \cup {TopicOf(w)}] \in [Writer -> SUBSET Topic]
        BY <3>1
      <3>4. practiced' \in [Writer -> SUBSET Topic] /\ scheduled' \in [Writer -> SUBSET Topic]
        BY <3>2, <3>3 DEF RecordTyped
      <3> QED
        BY <3>2, <3>4 DEF RecordTyped
    <2>6. CASE SaveAsset(w)
      <3>1. AssetOf(w) \in Asset
        BY <2>6, ListsAreLists DEF SaveAsset, Move, AssetOf, AtByStep, AtStep, OfAsset, OfTopic
      <3>2. read[w].value + 1 \in Nat
        BY DEF ReadTyped, Rows
      <3> QED
        BY <2>6, <3>1, <3>2 DEF SaveAsset, RecordTyped
    <2> QED
      BY <1>3, <2>1, <2>2, <2>3, <2>4, <2>5, <2>6 DEF WriterStep
  <1>4. CASE UserProfile
    BY <1>4 DEF UserProfile, RecordTyped
  <1>5. CASE DeleteMemory \/ ClearMemories \/ UNCHANGED vars
    BY <1>1, <1>5 DEF DeleteMemory, ClearMemories, Forget, vars, record
  <1> QED
    BY <1>2, <1>3, <1>4, <1>5 DEF Next

\* The planner writes a goal at most once for each execution of the last node.
GoalsByStep ==
    /\ goals \in [Task -> Nat] /\ runs \in [Task -> Nat]
    /\ \A t \in Task : GoalsOf(t)

LEMMA GoalsBounded ==
    ASSUME GoalsByStep
    PROVE  \A t \in Task : goals[t] <= MaxRuns(t)
  <1> SUFFICES ASSUME NEW t \in Task
               PROVE  goals[t] <= MaxRuns(t)
    OBVIOUS
  <1>1. MaxRuns(t) \in Nat /\ goals[t] \in Nat /\ runs[t] \in Nat
    BY LearnerAssumption DEF GoalsByStep
  <1> QED
    BY <1>1 DEF GoalsByStep, GoalsOf

LEMMA GoalsNext == GoalsByStep /\ AtByStep /\ [Next]_vars => GoalsByStep'
  <1> SUFFICES ASSUME GoalsByStep, AtByStep, [Next]_vars
               PROVE  GoalsByStep'
    OBVIOUS
  <1>0. Task \subseteq Writer /\ \A t \in Task : MaxRuns(t) \in Nat
    BY LearnerAssumption DEF Writer
  <1>1. ASSUME UNCHANGED <<goals, runs>>,
               \A t \in Task : pc'[t] \in {"plan", "work"} => pc'[t] = pc[t],
               \A t \in Task : pc[t] = "work" => pc'[t] = "work"
        PROVE  GoalsByStep'
    BY <1>1 DEF GoalsByStep, GoalsOf
  <1>2. ASSUME NEW t \in Task, TaskStep(t)
        PROVE  GoalsByStep'
    <2>1. CASE Plan(t)
      BY <1>0, <2>1 DEF Plan, Move, GoalsByStep, GoalsOf, AtByStep
    <2>2. CASE Finish(t)
      BY <1>0, <2>2 DEF Finish, Move, mind, GoalsByStep, GoalsOf, AtByStep
    <2>3. CASE Retry(t)
      BY <1>0, <2>3 DEF Retry, mind, GoalsByStep, GoalsOf, AtByStep
    <2>4. CASE Emit(t)
      BY <1>1, <2>4 DEF Emit, mind
    <2>5. CASE ReadWeight(t) \/ Credit(t) \/ ReadSummary(t) \/ WriteSummary(t) \/ MemoryFails(t)
      <3>1. UNCHANGED <<goals, runs>>
        BY <2>5 DEF ReadWeight, Credit, ReadSummary, WriteSummary, MemoryFails, mind
      <3>2. PICK to \in {"credit", "recall", "summarise", "profile"} :
                pc' = [pc EXCEPT ![t] = to] /\ pc[t] # "work"
        BY <2>5 DEF ReadWeight, Credit, ReadSummary, WriteSummary, MemoryFails, Move
      <3> QED
        BY <1>0, <1>1, <3>1, <3>2 DEF AtByStep
    <2> QED
      BY <1>2, <2>1, <2>2, <2>3, <2>4, <2>5 DEF TaskStep
  <1>3. ASSUME NEW w \in Writer, WriterStep(w)
        PROVE  GoalsByStep'
    <2>1. UNCHANGED <<goals, runs>>
      BY <1>3 DEF WriterStep, FindProfile, CreateProfile, LateProfile, ScoreProfile, FindWeakness,
                  NoteWeakness, LateWeakness, CreatePractice, ScheduleReview, FindAsset, SaveAsset,
                  LateAsset, Complete, OutputsFail, Crash, mind
    <2>2. \E to \in Step \ {"plan", "work"} : pc' = [pc EXCEPT ![w] = to] /\ pc[w] # "work"
      BY <1>3 DEF WriterStep, FindProfile, CreateProfile, LateProfile, ScoreProfile, FindWeakness,
                  NoteWeakness, LateWeakness, CreatePractice, ScheduleReview, FindAsset, SaveAsset,
                  LateAsset, Complete, OutputsFail, Crash, Move, Raise, Step
    <2> QED
      BY <1>0, <1>1, <2>1, <2>2 DEF AtByStep
  <1>4. CASE DeleteMemory \/ ClearMemories \/ UserProfile \/ UNCHANGED vars
    BY <1>1, <1>4 DEF DeleteMemory, ClearMemories, Forget, UserProfile, vars, mind
  <1> QED
    BY <1>2, <1>3, <1>4 DEF Next

MemoryTyped == memory \in [Goal -> [is : BOOLEAN, weight : Nat]]

LEMMA MemoryNext == MemoryTyped /\ GoalsByStep /\ ReadTyped /\ [Next]_vars => MemoryTyped'
  <1> SUFFICES ASSUME MemoryTyped, GoalsByStep, ReadTyped, [Next]_vars
               PROVE  MemoryTyped'
    OBVIOUS
  <1>1. ASSUME NEW t \in Task, TaskStep(t)
        PROVE  MemoryTyped'
    <2>1. CASE Credit(t)
      <3>1. Credited(t) \in Nat
        <4>1. read[t] \in Rows /\ goals[t] \in Nat
          BY DEF Writer, ReadTyped, GoalsByStep
        <4> QED
          BY <4>1 DEF Credited, Rows
      <3>2. memory' = [memory EXCEPT ![GoalOf(t)] = [is |-> TRUE, weight |-> Credited(t)]]
        BY <2>1 DEF Credit
      <3> QED
        BY <3>1, <3>2 DEF MemoryTyped
    <2>2. CASE ~Credit(t)
      BY <1>1, <2>2 DEF TaskStep, Plan, Emit, Finish, ReadWeight, ReadSummary, WriteSummary,
                        MemoryFails, Retry, mind, MemoryTyped
    <2> QED
      BY <2>1, <2>2
  <1>2. ASSUME NEW w \in Writer, WriterStep(w)
        PROVE  MemoryTyped'
    BY <1>2 DEF WriterStep, FindProfile, CreateProfile, LateProfile, ScoreProfile, FindWeakness,
                NoteWeakness, LateWeakness, CreatePractice, ScheduleReview, FindAsset, SaveAsset,
                LateAsset, Complete, OutputsFail, Crash, mind, MemoryTyped
  <1>3. ASSUME NEW gone, Forget(gone)
        PROVE  MemoryTyped'
    BY <1>3 DEF Forget, NoMemory, MemoryTyped
  <1>4. CASE UserProfile \/ UNCHANGED vars
    BY <1>4 DEF UserProfile, vars, mind, MemoryTyped
  <1> QED
    BY <1>1, <1>2, <1>3, <1>4 DEF Next, DeleteMemory, ClearMemories
-----------------------------------------------------------------------------
(* The history of the session.                                             *)

\* A step is one writer's: the others stay where they are, with what they have read.
Stays(v) == pc'[v] = pc[v] /\ at'[v] = at[v] /\ read'[v] = read[v]

LEMMA TaskMoves ==
    ASSUME AtByStep, ReadTyped, NEW t \in Task, TaskStep(t)
    PROVE  \A v \in Writer \ {t} : Stays(v)
  <1>1. CASE Plan(t) \/ Emit(t) \/ Finish(t) \/ ReadWeight(t) \/ Credit(t)
    BY <1>1 DEF Plan, Emit, Finish, ReadWeight, Credit, Move, Reads, Forgets, Writer, AtByStep,
                ReadTyped, Stays
  <1>2. CASE ReadSummary(t) \/ WriteSummary(t) \/ MemoryFails(t) \/ Retry(t)
    BY <1>2 DEF ReadSummary, WriteSummary, MemoryFails, Retry, Move, Reads, Forgets, Writer,
                AtByStep, ReadTyped, Stays
  <1> QED
    BY <1>1, <1>2 DEF TaskStep

LEMMA WriterMoves ==
    ASSUME AtByStep, ReadTyped, NEW w \in Writer, WriterStep(w)
    PROVE  \A v \in Writer \ {w} : Stays(v)
  <1> USE DEF Move, Reads, Forgets, AtByStep, ReadTyped, Stays
  <1>1. CASE FindProfile(w) \/ CreateProfile(w) \/ LateProfile(w) \/ ScoreProfile(w)
                \/ FindWeakness(w) \/ NoteWeakness(w) \/ LateWeakness(w) \/ CreatePractice(w)
    BY <1>1 DEF FindProfile, CreateProfile, LateProfile, ScoreProfile, FindWeakness, NoteWeakness,
                LateWeakness, CreatePractice, Raise
  <1>2. CASE ScheduleReview(w) \/ FindAsset(w) \/ SaveAsset(w) \/ LateAsset(w) \/ Complete(w)
                \/ OutputsFail(w) \/ Crash(w)
    BY <1>2 DEF ScheduleReview, FindAsset, SaveAsset, LateAsset, Complete, OutputsFail, Crash, Raise
  <1> QED
    BY <1>1, <1>2 DEF WriterStep

LEMMA MoreEvents ==
    ASSUME events \in Seq(Task), NEW t \in Task
    PROVE  /\ Append(events, t) \in Seq(Task)
           /\ Len(Append(events, t)) = Len(events) + 1 /\ Len(events) \in Nat
           /\ DOMAIN events = 1..Len(events)
           /\ DOMAIN Append(events, t) = 1..(Len(events) + 1)
           /\ \A e \in DOMAIN events : Append(events, t)[e] = events[e]
  BY AppendProperties, LenProperties

\* The greatest of a set of events, which is the last one told.
LEMMA LastIsGreatest ==
    ASSUME NEW n \in Nat, NEW I, I \subseteq 1..n, I # {}
    PROVE  Max(I) \in I /\ \A j \in I : j <= Max(I)
  <1> DEFINE T == {n - i : i \in I}
  <1>1. T \subseteq Nat /\ T # {}
    <2>1. \A i \in I : i \in Int /\ n - i \in Nat
      OBVIOUS
    <2>2. PICK i \in I : TRUE
      OBVIOUS
    <2> QED
      BY <2>1, <2>2
  <1>2. PICK x \in T : \A y \in T : ~(<<y, x>> \in OpToRel(<, Nat))
    <2> HIDE DEF T
    <2> QED
      BY <1>1, NatLessThanWellFounded, WFMin
  <1>3. \A y \in T : x <= y
    <2> HIDE DEF T
    <2> SUFFICES ASSUME NEW y \in T
                 PROVE  ~(y < x)
      BY <1>1
    <2> QED
      BY <1>1, <1>2 DEF OpToRel
  <1>4. \E i \in I : \A j \in I : i >= j
    <2>1. PICK i \in I : x = n - i
      OBVIOUS
    <2>2. ASSUME NEW j \in I PROVE i >= j
      <3>1. n - i <= n - j
        BY <1>3, <2>1
      <3>2. i \in Int /\ j \in Int
        OBVIOUS
      <3> QED
        BY <3>1, <3>2
    <2> QED
      BY <2>2
  <1>5. Max(I) \in I /\ \A j \in I : Max(I) >= j
    BY <1>4 DEF Max
  <1> QED
    BY <1>5

Summary(D) == [by : Task, until : D, told : SUBSET D]
HistoryByStep ==
    /\ events \in Seq(Task) /\ EventsBounded
    /\ summaries \in Seq(Summary(DOMAIN events))
    /\ \A t \in Task : SummaryRead(t)

LEMMA HistoryIsTyped == HistoryByStep => HistoryTyped
  <1> SUFFICES ASSUME HistoryByStep
               PROVE  HistoryTyped
    OBVIOUS
  <1>1. Cardinality(Completed) \in Nat /\ Cardinality(Completed) <= Cardinality(Task)
    BY LearnerAssumption, FS_Subset, FS_CardinalityType DEF Completed
  <1>2. Cardinality(Task) \in Nat /\ MaxEvents \in Nat /\ Len(events) \in Nat
    BY LearnerAssumption, FS_CardinalityType, LenProperties DEF HistoryByStep
  <1>3. Len(events) <= MaxEvents + Cardinality(Task)
    BY <1>1, <1>2 DEF HistoryByStep, EventsBounded
  <1> QED
    BY <1>3 DEF HistoryByStep, HistoryTyped, Summary

\* What a task has not told of is its own, lies after the row it read, and is there.
LEMMA UntoldIsNew ==
    ASSUME HistoryByStep, NEW t \in Task
    PROVE  /\ Untold(t) \subseteq DOMAIN events
           /\ \A e \in Untold(t) : e > Until(read[t].value) /\ events[e] = t
           /\ Untold(t) # {} =>
                 Max(Untold(t)) \in Untold(t) /\ \A e \in Untold(t) : e <= Max(Untold(t))
  <1>1. Len(events) \in Nat /\ DOMAIN events = 1..Len(events)
    BY LenProperties DEF HistoryByStep
  <1>2. /\ Untold(t) \subseteq DOMAIN events
        /\ \A e \in Untold(t) : e > Until(read[t].value) /\ events[e] = t
    BY DEF Untold
  <1>3. Untold(t) # {} =>
            Max(Untold(t)) \in Untold(t) /\ \A e \in Untold(t) : e <= Max(Untold(t))
    BY <1>1, <1>2, LastIsGreatest
  <1> QED
    BY <1>2, <1>3

\* A row that is there, or none, tells of events that are there.
LEMMA ToldIsThere ==
    ASSUME HistoryByStep, NEW n \in 0..Len(summaries)
    PROVE  /\ Told(n) \subseteq DOMAIN events
           /\ Until(n) \in {0} \cup DOMAIN events
  <1>1. Len(summaries) \in Nat /\ summaries \in [1..Len(summaries) -> Summary(DOMAIN events)]
    BY LenProperties DEF HistoryByStep
  <1> QED
    BY <1>1 DEF Told, Until, Summary

LEMMA HistoryKept ==
    ASSUME HistoryByStep, UNCHANGED <<events, summaries>>, Completed' = Completed,
           \A t \in Task : SummaryRead(t)'
    PROVE  HistoryByStep'
  BY DEF HistoryByStep, EventsBounded

LEMMA SummaryReadStays ==
    ASSUME HistoryByStep, NEW t \in Task, Stays(t), Len(summaries') \in Nat,
           Len(summaries') >= Len(summaries)
    PROVE  SummaryRead(t)'
  <1>1. Len(summaries) \in Nat
    BY LenProperties DEF HistoryByStep
  <1>2. ASSUME pc'[t] = "summarise"
        PROVE  read'[t].value \in 0..Len(summaries')
    <2>1. read[t].value \in 0..Len(summaries) /\ read'[t] = read[t]
      BY <1>2 DEF HistoryByStep, SummaryRead, Stays
    <2> QED
      BY <1>1, <2>1
  <1> QED
    BY <1>2 DEF SummaryRead

\* An event is appended: what the summaries tell of is still there.
LEMMA HistoryGrows ==
    ASSUME HistoryByStep, NEW t \in Task, events' = Append(events, t), UNCHANGED summaries,
           Len(events) + 1 <= MaxEvents + Cardinality(Completed'),
           \A u \in Task : SummaryRead(u)'
    PROVE  HistoryByStep'
  <1>1. /\ events' \in Seq(Task) /\ Len(events') = Len(events) + 1
        /\ DOMAIN events \subseteq DOMAIN events'
    BY MoreEvents DEF HistoryByStep
  <1>2. Summary(DOMAIN events) \subseteq Summary(DOMAIN events')
    BY <1>1 DEF Summary
  <1>3. summaries \in Seq(Summary(DOMAIN events'))
    BY <1>2, SeqMonotonic DEF HistoryByStep
  <1> QED
    BY <1>1, <1>3 DEF HistoryByStep, EventsBounded, Summary

LEMMA HistoryNext == HistoryByStep /\ AtByStep /\ ReadTyped /\ [Next]_vars => HistoryByStep'
  <1> SUFFICES ASSUME HistoryByStep, AtByStep, ReadTyped, [Next]_vars
               PROVE  HistoryByStep'
    OBVIOUS
  <1>0. /\ Task \subseteq Writer /\ Len(summaries) \in Nat /\ Len(events) \in Nat
        /\ IsFiniteSet(Completed) /\ Cardinality(Completed) \in Nat /\ MaxEvents \in Nat
    BY LearnerAssumption, LenProperties, FS_Subset, FS_CardinalityType
       DEF HistoryByStep, Writer, Completed
  <1>1. ASSUME NEW t \in Task, TaskStep(t)
        PROVE  HistoryByStep'
    <2>0. \A v \in Writer \ {t} : Stays(v)
      BY <1>1, TaskMoves
    <2>1. ASSUME Len(summaries') \in Nat, Len(summaries') >= Len(summaries), SummaryRead(t)'
          PROVE  \A u \in Task : SummaryRead(u)'
      BY <1>0, <2>0, <2>1, SummaryReadStays
    <2>2. pc[t] # "done" /\ pc'[t] # "done"
      BY <1>0, <1>1 DEF TaskStep, Plan, Emit, Finish, ReadWeight, Credit, ReadSummary, WriteSummary,
                        MemoryFails, Retry, Move, AtByStep
    <2>3. Completed' = Completed
      BY <1>0, <2>0, <2>2 DEF Completed, Stays
    <2>4. CASE Emit(t)
      <3>1. SummaryRead(t)'
        BY <2>4 DEF Emit, HistoryByStep, SummaryRead
      <3> QED
        BY <1>0, <2>1, <2>3, <2>4, <3>1, HistoryGrows DEF Emit
    <2>5. CASE WriteSummary(t)
      <3>1. pc'[t] = "profile" /\ read[t].value \in 0..Len(summaries) /\ UNCHANGED events
        BY <1>0, <2>5 DEF WriteSummary, Move, AtByStep, HistoryByStep, SummaryRead
      <3>2. CASE Untold(t) = {}
        <4>1. UNCHANGED summaries
          BY <2>5, <3>2 DEF WriteSummary
        <4> QED
          BY <1>0, <2>1, <2>3, <3>1, <4>1, HistoryKept DEF SummaryRead
      <3>3. CASE Untold(t) # {}
        <4> DEFINE new == [by |-> t, until |-> Reached(t), told |-> Told(read[t].value) \cup Untold(t)]
        <4>1. Reached(t) \in DOMAIN events
          BY <3>3, UntoldIsNew DEF Reached
        <4>2. new \in Summary(DOMAIN events)
          BY <3>1, <4>1, UntoldIsNew, ToldIsThere DEF Summary
        <4>3. summaries' = Append(summaries, new)
          BY <2>5, <3>3 DEF WriteSummary
        <4> HIDE DEF new
        <4>4. summaries' \in Seq(Summary(DOMAIN events)) /\ Len(summaries') = Len(summaries) + 1
          BY <4>2, <4>3, AppendProperties DEF HistoryByStep
        <4>5. \A u \in Task : SummaryRead(u)'
          BY <1>0, <2>1, <3>1, <4>4 DEF SummaryRead
        <4> QED
          BY <2>3, <3>1, <4>4, <4>5 DEF HistoryByStep, EventsBounded, Summary
      <3> QED
        BY <3>2, <3>3
    <2>6. CASE ReadSummary(t)
      <3>1. read'[t].value = Len(summaries) /\ UNCHANGED <<events, summaries>>
        BY <1>0, <2>6 DEF ReadSummary, Reads, Found, ReadTyped
      <3> QED
        BY <1>0, <2>1, <2>3, <3>1, HistoryKept DEF SummaryRead
    <2>7. CASE ~(Emit(t) \/ WriteSummary(t) \/ ReadSummary(t))
      <3>1. UNCHANGED <<events, summaries>> /\ pc'[t] # "summarise"
        BY <1>0, <1>1, <2>7 DEF TaskStep, Plan, Finish, ReadWeight, Credit, MemoryFails, Retry, Move,
                                AtByStep
      <3> QED
        BY <1>0, <2>1, <2>3, <3>1, HistoryKept DEF SummaryRead
    <2> QED
      BY <2>4, <2>5, <2>6, <2>7
  <1>2. ASSUME NEW w \in Writer, WriterStep(w)
        PROVE  HistoryByStep'
    <2>0. \A v \in Writer \ {w} : Stays(v)
      BY <1>2, WriterMoves
    <2>1. pc'[w] # "summarise" /\ pc[w] # "done" /\ UNCHANGED summaries
      BY <1>2 DEF WriterStep, FindProfile, CreateProfile, LateProfile, ScoreProfile, FindWeakness,
                  NoteWeakness, LateWeakness, CreatePractice, ScheduleReview, FindAsset, SaveAsset,
                  LateAsset, Complete, OutputsFail, Crash, Move, Raise, AtByStep
    <2>2. \A u \in Task : SummaryRead(u)'
      <3> SUFFICES ASSUME NEW u \in Task
                   PROVE  SummaryRead(u)'
        OBVIOUS
      <3>1. CASE u = w
        BY <2>1, <3>1 DEF SummaryRead
      <3>2. CASE u # w
        BY <1>0, <2>0, <2>1, <3>2, SummaryReadStays
      <3> QED
        BY <3>1, <3>2
    <2>3. CASE Complete(w) /\ w \in Task
      <3>1. pc'[w] = "done" /\ events' = Append(events, w)
        BY <1>0, <2>3 DEF Complete, Move, AtByStep
      <3>2. Completed' = Completed \cup {w} /\ w \notin Completed
        BY <1>0, <2>0, <2>1, <2>3, <3>1 DEF Completed, Stays
      <3>3. Cardinality(Completed') = Cardinality(Completed) + 1
        BY <1>0, <3>2, FS_AddElement
      <3> QED
        BY <1>0, <2>1, <2>2, <2>3, <3>1, <3>3, HistoryGrows DEF HistoryByStep, EventsBounded
    <2>4. CASE ~(Complete(w) /\ w \in Task)
      <3>1. UNCHANGED events /\ (w \in Task => pc'[w] # "done")
        BY <1>2, <2>4 DEF WriterStep, FindProfile, CreateProfile, LateProfile, ScoreProfile,
                  FindWeakness, NoteWeakness, LateWeakness, CreatePractice, ScheduleReview, FindAsset,
                  SaveAsset, LateAsset, Complete, OutputsFail, Crash, Move, Raise, AtByStep
      <3>2. Completed' = Completed
        BY <1>0, <2>0, <2>1, <3>1 DEF Completed, Stays
      <3> QED
        BY <2>1, <2>2, <3>1, <3>2, HistoryKept
    <2> QED
      BY <2>3, <2>4
  <1>3. CASE DeleteMemory \/ ClearMemories \/ UserProfile \/ UNCHANGED vars
    <2>1. UNCHANGED <<events, summaries, pc, read>>
      BY <1>3 DEF DeleteMemory, ClearMemories, Forget, UserProfile, vars
    <2> QED
      BY <2>1 DEF HistoryByStep, EventsBounded, SummaryRead, Completed
  <1> QED
    BY <1>1, <1>2, <1>3 DEF Next

-----------------------------------------------------------------------------
(* The learning outputs.                                                   *)

\* Nothing that was recorded is taken back.
RecordGrows ==
    /\ \A w \in Writer : practiced[w] \subseteq practiced'[w] /\ scheduled[w] \subseteq scheduled'[w]
    /\ \A k \in Topic : weakness[k].is => weakness'[k].is

LEMMA RecordKept ==
    ASSUME UNCHANGED <<weakness, practiced, scheduled>>
    PROVE  RecordGrows
  BY DEF RecordGrows

LEMMA RecordOnlyGrows ==
    ASSUME RecordTyped, [Next]_vars
    PROVE  RecordGrows
  <1>1. ASSUME NEW t \in Task, TaskStep(t)
        PROVE  RecordGrows
    BY <1>1, RecordKept DEF TaskStep, Plan, Emit, Finish, ReadWeight, Credit, ReadSummary,
                            WriteSummary, MemoryFails, Retry, record
  <1>2. ASSUME NEW w \in Writer, WriterStep(w)
        PROVE  RecordGrows
    <2>1. CASE NoteWeakness(w)
      BY <2>1 DEF NoteWeakness, RecordGrows, RecordTyped
    <2>2. CASE CreatePractice(w)
      BY <2>2 DEF CreatePractice, RecordGrows, RecordTyped
    <2>3. CASE ScheduleReview(w)
      BY <2>3 DEF ScheduleReview, RecordGrows, RecordTyped
    <2>4. CASE ~(NoteWeakness(w) \/ CreatePractice(w) \/ ScheduleReview(w))
      BY <1>2, <2>4, RecordKept
         DEF WriterStep, FindProfile, CreateProfile, LateProfile, ScoreProfile, FindWeakness,
             LateWeakness, FindAsset, SaveAsset, LateAsset, Complete, OutputsFail, Crash, record
    <2> QED
      BY <2>1, <2>2, <2>3, <2>4
  <1>3. CASE DeleteMemory \/ ClearMemories \/ UserProfile \/ UNCHANGED vars
    BY <1>3, RecordKept DEF DeleteMemory, ClearMemories, Forget, UserProfile, vars, record
  <1> QED
    BY <1>1, <1>2, <1>3 DEF Next

\* A recording stops for its own reasons only.
LEMMA RaisedStays ==
    ASSUME RaisedTyped, NEW w \in Writer, (w \in Task /\ TaskStep(w)) \/ WriterStep(w)
    PROVE  \A v \in Writer \ {w} : raised'[v] = raised[v]
  <1> USE DEF RaisedTyped
  <1>1. CASE w \in Task /\ TaskStep(w)
    BY <1>1 DEF TaskStep, Plan, Emit, Finish, ReadWeight, Credit, ReadSummary, WriteSummary,
                MemoryFails, Retry, record
  <1>2. CASE LateProfile(w) \/ LateWeakness(w) \/ LateAsset(w) \/ OutputsFail(w)
    BY <1>2 DEF LateProfile, LateWeakness, LateAsset, OutputsFail, Raise
  <1>3. CASE WriterStep(w) /\ ~(LateProfile(w) \/ LateWeakness(w) \/ LateAsset(w) \/ OutputsFail(w))
    BY <1>3 DEF WriterStep, FindProfile, CreateProfile, ScoreProfile, FindWeakness,
                NoteWeakness, CreatePractice, ScheduleReview, FindAsset, SaveAsset,
                Complete, Crash, record
  <1> QED
    BY <1>1, <1>2, <1>3

LEMMA OutputsStay ==
    ASSUME NEW v \in Writer, OutputsOf(v), Stays(v), raised'[v] = raised[v], RecordGrows
    PROVE  OutputsOf(v)'
  <1>1. \A i \in DOMAIN Topics(v) : Topics(v)[i] \in Topic
    BY ListsAreLists
  <1> QED
    BY <1>1 DEF OutputsOf, Stays, Passed, RecordGrows

\* The steps of a task before it records, and those that stop a recording.
LEMMA OutputsElsewhere ==
    ASSUME NEW w \in Writer, pc'[w] \notin OfTopic \cup OfAsset,
           pc'[w] \in Recording => raised'[w] = "no",
           pc'[w] \in {"finish", "done"} => raised'[w] # "no"
    PROVE  OutputsOf(w)'
  BY DEF OutputsOf, Passed, OfTopic, OfAsset, Recording

LEMMA OutputsNext ==
    ASSUME RecordTyped, RaisedTyped, AtByStep, ReadTyped, \A w \in Writer : OutputsOf(w), [Next]_vars
    PROVE  \A w \in Writer : OutputsOf(w)'
  <1>0. RecordGrows
    BY RecordOnlyGrows
  <1>1. ASSUME NEW t \in Task, TaskStep(t)
        PROVE  \A w \in Writer : OutputsOf(w)'
    <2>1. \A v \in Writer \ {t} : Stays(v) /\ raised'[v] = raised[v]
      BY <1>1, TaskMoves, RaisedStays DEF Writer
    <2>2. t \in Writer
      BY DEF Writer
    <2>3. CASE Emit(t)
      BY <1>0, <2>2, <2>1, <2>3, OutputsStay DEF Emit, Stays, record
    <2>4. CASE ~Emit(t)
      <3>1. /\ pc'[t] \in {"plan", "work", "weigh", "credit", "recall", "summarise", "profile"}
            /\ \/ pc'[t] \in {"plan", "work"}
               \/ raised'[t] = "no"
               \/ raised' = raised /\ pc[t] \in Recording
        BY <1>1, <2>2, <2>4 DEF TaskStep, Plan, Finish, ReadWeight, Credit, ReadSummary, WriteSummary,
                                MemoryFails, Retry, Move, record, AtByStep, RaisedTyped, Recording
      <3>2. pc'[t] \in Recording => raised'[t] = "no"
        BY <2>2, <3>1 DEF OutputsOf, Recording
      <3>3. OutputsOf(t)'
        BY <2>2, <3>1, <3>2, OutputsElsewhere DEF OfTopic, OfAsset
      <3> QED
        BY <1>0, <2>1, <3>3, OutputsStay
    <2> QED
      BY <2>3, <2>4
  <1>2. ASSUME NEW w \in Writer, WriterStep(w)
        PROVE  \A v \in Writer : OutputsOf(v)'
    <2>1. \A v \in Writer \ {w} : Stays(v) /\ raised'[v] = raised[v]
      BY <1>2, WriterMoves, RaisedStays
    <2> SUFFICES OutputsOf(w)'
      BY <1>0, <2>1, OutputsStay
    <2>2. OutputsOf(w) /\ AtStep(w) /\ DOMAIN Topics(w) = 1..Len(Topics(w))
          /\ Len(Topics(w)) \in Nat /\ \A i \in DOMAIN Topics(w) : Topics(w)[i] \in Topic
      BY ListsAreLists DEF AtByStep
    <2>3. CASE FindProfile(w) \/ CreateProfile(w)
      <3>1. pc'[w] \in {"create", "score"} /\ raised' = raised /\ pc[w] \in Recording
        BY <2>3 DEF FindProfile, CreateProfile, Move, record, AtByStep, Recording
      <3> QED
        BY <2>2, <3>1, OutputsElsewhere DEF OutputsOf, OfTopic, OfAsset
    <2>4. CASE LateProfile(w) \/ LateWeakness(w) \/ LateAsset(w) \/ OutputsFail(w)
      <3>1. pc'[w] = "finish" /\ raised'[w] # "no"
        BY <2>4 DEF LateProfile, LateWeakness, LateAsset, OutputsFail, Raise, AtByStep, RaisedTyped
      <3> QED
        BY <3>1, OutputsElsewhere DEF OfTopic, OfAsset, Recording
    <2>5. CASE Crash(w)
      <3>1. pc'[w] = "crashed"
        BY <2>5 DEF Crash, AtByStep
      <3> QED
        BY <3>1, OutputsElsewhere DEF OfTopic, OfAsset, Recording
    <2>6. CASE ScoreProfile(w)
      <3>1. pc[w] = "score" /\ pc'[w] = "find" /\ at' = at /\ raised' = raised
        BY <2>6 DEF ScoreProfile, Move, AtByStep
      <3>2. at[w] = 1 /\ raised[w] = "no"
        BY <2>2, <3>1 DEF AtStep, OutputsOf, Recording, OfTopic, OfAsset
      <3> QED
        BY <2>2, <3>1, <3>2 DEF OutputsOf, Passed, OfAsset
    <2>7. CASE FindWeakness(w)
      <3>1. /\ pc[w] = "find" /\ pc'[w] = "note"
            /\ UNCHANGED <<at, raised, practiced, scheduled, weakness>>
        BY <2>7 DEF FindWeakness, Move, AtByStep, record
      <3> QED
        BY <2>2, <3>1 DEF OutputsOf, Passed, OfTopic, OfAsset, Recording
    <2>8. CASE NoteWeakness(w)
      <3>1. /\ pc[w] = "note" /\ pc'[w] = "practice" /\ UNCHANGED <<at, raised>>
            /\ at[w] \in DOMAIN Topics(w)
        BY <2>2, <2>8 DEF NoteWeakness, Move, AtByStep, AtStep, OfTopic
      <3>2. weakness'[TopicOf(w)].is
        BY <2>2, <2>8, <3>1 DEF NoteWeakness, RecordTyped, TopicOf
      <3> QED
        BY <1>0, <2>2, <3>1, <3>2 DEF OutputsOf, Passed, OfTopic, OfAsset, Recording, RecordGrows,
                                      TopicOf
    <2>9. CASE CreatePractice(w)
      <3>1. /\ pc[w] = "practice" /\ pc'[w] = "review" /\ UNCHANGED <<at, raised>>
            /\ TopicOf(w) \in practiced'[w]
        BY <2>9 DEF CreatePractice, Move, AtByStep, RecordTyped
      <3> QED
        BY <1>0, <2>2, <3>1 DEF OutputsOf, Passed, OfTopic, OfAsset, Recording, RecordGrows, TopicOf
    <2>10. CASE ScheduleReview(w)
      <3>1. /\ pc[w] = "review" /\ UNCHANGED raised /\ TopicOf(w) \in scheduled'[w]
            /\ at[w] \in 1..Len(Topics(w))
        BY <2>2, <2>10 DEF ScheduleReview, Move, AtByStep, RecordTyped, AtStep, OfTopic
      <3>2. \/ at[w] < Len(Topics(w)) /\ pc'[w] = "find" /\ at'[w] = at[w] + 1
            \/ at[w] >= Len(Topics(w)) /\ pc'[w] = "fetch"
        BY <2>2, <2>10, <3>1 DEF ScheduleReview, Move, AtByStep, LastTopic
      <3>3. \A i \in DOMAIN Topics(w) : Passed(w, i)' => i = at[w] \/ Passed(w, i)
        BY <2>2, <3>1, <3>2 DEF Passed, OfTopic, OfAsset
      <3>4. \A i \in DOMAIN Topics(w) : Passed(w, i)' =>
                Topics(w)[i] \in practiced'[w] \cap scheduled'[w] /\ weakness'[Topics(w)[i]].is
        BY <1>0, <2>2, <3>1, <3>3 DEF OutputsOf, RecordGrows, TopicOf
      <3> QED
        BY <2>2, <3>1, <3>2, <3>4 DEF OutputsOf, OfTopic
    <2>11. CASE FindAsset(w) \/ SaveAsset(w)
      <3>1. /\ pc[w] \in OfAsset /\ pc'[w] \in OfAsset \cup {"finish"}
            /\ UNCHANGED <<raised, practiced, scheduled, weakness>>
        BY <2>11 DEF FindAsset, SaveAsset, Move, AtByStep, record, OfAsset
      <3> QED
        BY <2>2, <3>1 DEF OutputsOf, Passed, OfAsset, OfTopic, Recording
    <2>12. CASE Complete(w)
      <3>1. /\ pc[w] = "finish" /\ pc'[w] = "done"
            /\ UNCHANGED <<raised, practiced, scheduled, weakness>>
        BY <2>12 DEF Complete, Move, AtByStep, record
      <3> QED
        BY <2>2, <3>1 DEF OutputsOf, Passed, OfAsset, OfTopic, Recording
    <2> QED
      BY <1>2, <2>3, <2>4, <2>5, <2>6, <2>7, <2>8, <2>9, <2>10, <2>11, <2>12 DEF WriterStep
  <1>3. CASE DeleteMemory \/ ClearMemories \/ UserProfile \/ UNCHANGED vars
    BY <1>3 DEF DeleteMemory, ClearMemories, Forget, UserProfile, vars, record, OutputsOf, Passed
  <1> QED
    BY <1>1, <1>2, <1>3 DEF Next

\* A step changes rows only to the writer's, or the user's.
ChangedBy(w) ==
    /\ profile'.by \in {profile.by, w} /\ (profile'.by = profile.by \/ ~profile.is)
    /\ \A k \in Topic : weakness'[k] = weakness[k] \/ weakness'[k].seen = w
    /\ \A a \in Asset : assets'[a] = assets[a] \/ assets'[a].by = w

LEMMA OthersStay ==
    ASSUME RecordTyped, AtByStep, RowsOwned, NEW v \in Writer, OthersOf(v), Stays(v),
           raised'[v] = raised[v], NEW w \in Writer \cup {User}, w # v, ChangedBy(w)
    PROVE  OthersOf(v)'
  <1>1. User \notin Writer /\ NoOne \notin Writer /\ User # NoOne
    BY LearnerAssumption DEF User, NoOne
  <1>2. CASE pc[v] = "create"
    BY <1>1, <1>2 DEF OthersOf, Stays, ChangedBy
  <1>3. CASE pc[v] = "note"
    <2>1. TopicOf(v) \in Topic /\ TopicOf(v)' = TopicOf(v)
      BY <1>3, ListsAreLists DEF TopicOf, AtByStep, AtStep, OfTopic, Stays
    <2> QED
      BY <1>3, <2>1 DEF OthersOf, Stays, ChangedBy
  <1>4. CASE pc[v] = "save"
    <2>1. AssetOf(v) \in Asset /\ AssetOf(v)' = AssetOf(v)
      BY <1>4, ListsAreLists DEF AssetOf, AtByStep, AtStep, OfTopic, OfAsset, Stays
    <2> QED
      BY <1>4, <2>1 DEF OthersOf, Stays, ChangedBy
  <1>5. CASE pc[v] \in {"finish", "done"}
    <2>1. ASSUME ByRival(v) PROVE ByRival(v)'
      BY <1>1, <2>1 DEF ByRival, ChangedBy, RowsOwned, Topic, Asset
    <2> QED
      BY <1>5, <2>1 DEF OthersOf, Stays
  <1> QED
    BY <1>2, <1>3, <1>4, <1>5 DEF OthersOf, Stays

\* What is not said to be the writer's rows is not changed.
LEMMA RowsKept ==
    ASSUME UNCHANGED <<profile, weakness, assets>>, NEW w
    PROVE  ChangedBy(w) /\ (RowsOwned => RowsOwned')
  BY DEF ChangedBy, RowsOwned

LEMMA RowsNext ==
    ASSUME RecordTyped, RaisedTyped, AtByStep, ReadTyped, RowsOwned, \A w \in Writer : OutputsOf(w),
           \A w \in Writer : OthersOf(w), [Next]_vars
    PROVE  RowsOwned' /\ \A w \in Writer : OthersOf(w)'
  <1>0. User \notin Writer /\ NoOne \notin Writer /\ User # NoOne
    BY LearnerAssumption DEF User, NoOne
  <1>1. ASSUME NEW t \in Task, TaskStep(t)
        PROVE  RowsOwned' /\ \A w \in Writer : OthersOf(w)'
    <2>1. \A v \in Writer \ {t} : Stays(v) /\ raised'[v] = raised[v]
      BY <1>1, TaskMoves, RaisedStays DEF Writer
    <2>2. t \in Writer
      BY DEF Writer
    <2>3. UNCHANGED <<profile, weakness, assets>>
      BY <1>1 DEF TaskStep, Plan, Emit, Finish, ReadWeight, Credit, ReadSummary, WriteSummary,
                  MemoryFails, Retry, record
    <2>4. CASE Emit(t)
      BY <1>0, <2>1, <2>2, <2>3, <2>4, RowsKept, OthersStay DEF Emit, record, OthersOf, TopicOf, AssetOf,
                                                            ByRival
    <2>5. CASE ~Emit(t)
      <3>1. pc'[t] \in {"plan", "work", "weigh", "credit", "recall", "summarise", "profile"}
        BY <1>1, <2>2, <2>5 DEF TaskStep, Plan, Finish, ReadWeight, Credit, ReadSummary, WriteSummary,
                                MemoryFails, Retry, Move, AtByStep
      <3>2. OthersOf(t)'
        BY <3>1 DEF OthersOf
      <3> QED
        BY <1>0, <2>1, <2>2, <2>3, <3>2, RowsKept, OthersStay
    <2> QED
      BY <2>4, <2>5
  <1>2. ASSUME NEW w \in Writer, WriterStep(w)
        PROVE  RowsOwned' /\ \A v \in Writer : OthersOf(v)'
    <2>1. \A v \in Writer \ {w} : Stays(v) /\ raised'[v] = raised[v]
      BY <1>2, WriterMoves, RaisedStays
    <2> SUFFICES RowsOwned' /\ ChangedBy(w) /\ OthersOf(w)'
      BY <2>1, OthersStay
    <2>2. OthersOf(w) /\ OutputsOf(w) /\ AtStep(w)
      BY DEF AtByStep
    <2>3. CASE FindProfile(w)
      <3>1. /\ UNCHANGED <<profile, weakness, assets>> /\ pc'[w] \in {"score", "create"}
            /\ pc'[w] = "create" => ~profile.is
        BY <2>3 DEF FindProfile, record, Move, AtByStep
      <3> QED
        BY <1>0, <3>1, RowsKept DEF OthersOf, RowsOwned
    <2>4. CASE CreateProfile(w)
      <3>1. /\ UNCHANGED <<weakness, assets>> /\ pc'[w] = "score" /\ ~profile.is
            /\ profile'.is /\ profile'.by = w
        BY <2>4 DEF CreateProfile, Move, AtByStep
      <3> QED
        BY <1>0, <3>1 DEF OthersOf, RowsOwned, ChangedBy
    <2>5. CASE ScoreProfile(w)
      <3>1. /\ UNCHANGED <<weakness, assets>> /\ pc'[w] = "find"
            /\ profile'.is = profile.is /\ profile'.by = profile.by
        BY <2>5 DEF ScoreProfile, Move, AtByStep, RecordTyped
      <3> QED
        BY <1>0, <3>1 DEF OthersOf, RowsOwned, ChangedBy
    <2>6. CASE FindWeakness(w)
      <3>1. /\ UNCHANGED <<profile, weakness, assets, at>> /\ pc'[w] = "note"
            /\ ~read'[w].is => ~weakness[TopicOf(w)].is
        BY <2>6 DEF FindWeakness, record, Move, Reads, Found, AtByStep, ReadTyped
      <3> QED
        BY <3>1, RowsKept DEF OthersOf, TopicOf
    <2>7. CASE NoteWeakness(w)
      <3>1. /\ UNCHANGED <<profile, assets>> /\ pc'[w] = "practice"
            /\ \A k \in Topic : weakness'[k] = weakness[k] \/ weakness'[k].seen = w
        BY <2>7 DEF NoteWeakness, Move, AtByStep, RecordTyped
      <3> QED
        BY <1>0, <3>1 DEF OthersOf, RowsOwned, ChangedBy
    <2>8. CASE CreatePractice(w) \/ ScheduleReview(w) \/ Crash(w)
      <3>1. /\ UNCHANGED <<profile, weakness, assets>>
            /\ pc'[w] \in {"review", "find", "fetch", "crashed"}
        BY <2>8 DEF CreatePractice, ScheduleReview, Crash, record, Move, AtByStep
      <3> QED
        BY <3>1, RowsKept DEF OthersOf
    <2>9. CASE FindAsset(w)
      <3>1. /\ UNCHANGED <<profile, weakness, assets, at>> /\ pc'[w] = "save"
            /\ read'[w].value = assets[AssetOf(w)].version /\ AssetOf(w) \in Asset
        BY <2>2, <2>9, ListsAreLists
           DEF FindAsset, record, Move, Reads, Found, AtByStep, ReadTyped, AtStep, AssetOf, OfTopic,
               OfAsset
      <3>2. assets[AssetOf(w)].version \in Nat
        BY <3>1 DEF RecordTyped
      <3> QED
        BY <3>1, <3>2, RowsKept DEF OthersOf, AssetOf
    <2>10. CASE SaveAsset(w)
      <3>1. /\ UNCHANGED <<profile, weakness, raised>> /\ pc[w] = "save"
            /\ pc'[w] \in {"fetch", "finish"}
            /\ \A a \in Asset : assets'[a] = assets[a] \/ assets'[a].by = w
        BY <2>10 DEF SaveAsset, Move, AtByStep, RecordTyped
      <3>2. raised[w] = "no"
        BY <2>2, <3>1 DEF OutputsOf, OfAsset
      <3> QED
        BY <1>0, <3>1, <3>2 DEF OthersOf, RowsOwned, ChangedBy
    <2>11. CASE LateProfile(w) \/ LateWeakness(w) \/ LateAsset(w)
      <3>1. UNCHANGED <<profile, weakness, assets>> /\ pc'[w] = "finish"
        BY <2>11 DEF LateProfile, LateWeakness, LateAsset, Raise, AtByStep
      <3>2. ByRival(w)
        <4>1. CASE LateProfile(w)
          BY <2>2, <4>1 DEF LateProfile, OthersOf, RowsOwned, ByRival
        <4>2. CASE LateWeakness(w)
          <5>1. at[w] \in DOMAIN Topics(w) /\ TopicOf(w) \in Topic
            BY <2>2, <4>2, ListsAreLists DEF LateWeakness, AtStep, OfTopic, TopicOf
          <5>2. TopicOf(w) \in Range(Topics(w))
            BY <5>1 DEF Range, TopicOf
          <5> QED
            BY <2>2, <4>2, <5>1, <5>2 DEF LateWeakness, OthersOf, RowsOwned, ByRival
        <4>3. CASE LateAsset(w)
          <5>1. at[w] \in DOMAIN Assets(w) /\ AssetOf(w) \in Asset
            BY <2>2, <4>3, ListsAreLists DEF LateAsset, AtStep, OfTopic, OfAsset, AssetOf
          <5>2. AssetOf(w) \in Range(Assets(w))
            BY <5>1 DEF Range, AssetOf
          <5> QED
            BY <2>2, <4>3, <5>1, <5>2 DEF LateAsset, OthersOf, RowsOwned, ByRival
        <4> QED
          BY <2>11, <4>1, <4>2, <4>3
      <3>3. ByRival(w)'
        BY <3>1, <3>2 DEF ByRival
      <3> QED
        BY <3>1, <3>3, RowsKept DEF OthersOf
    <2>12. CASE OutputsFail(w)
      <3>1. /\ UNCHANGED <<profile, weakness, assets>> /\ pc'[w] = "finish"
            /\ raised'[w] = "database"
        BY <2>12 DEF OutputsFail, Raise, AtByStep, RaisedTyped
      <3> QED
        BY <3>1, RowsKept DEF OthersOf
    <2>13. CASE Complete(w)
      <3>1. /\ UNCHANGED <<profile, weakness, assets, raised>>
            /\ pc[w] = "finish" /\ pc'[w] = "done"
        BY <2>13 DEF Complete, Move, record, AtByStep
      <3> QED
        BY <2>2, <3>1, RowsKept DEF OthersOf, ByRival
    <2> QED
      BY <1>2, <2>3, <2>4, <2>5, <2>6, <2>7, <2>8, <2>9, <2>10, <2>11, <2>12, <2>13 DEF WriterStep
  <1>3. CASE UserProfile
    <2>1. /\ ~profile.is /\ profile'.is /\ profile'.by = User
          /\ UNCHANGED <<weakness, assets, pc, at, read, raised>>
      BY <1>3 DEF UserProfile, RecordTyped
    <2> QED
      BY <1>0, <2>1, OthersStay DEF RowsOwned, ChangedBy, Stays
  <1>4. CASE DeleteMemory \/ ClearMemories \/ UNCHANGED vars
    <2>1. UNCHANGED <<profile, weakness, assets, pc, at, read, raised>>
      BY <1>4 DEF DeleteMemory, ClearMemories, Forget, vars, record
    <2> QED
      BY <1>0, <2>1, RowsKept, OthersStay DEF Stays
  <1> QED
    BY <1>1, <1>2, <1>3, <1>4 DEF Next

-----------------------------------------------------------------------------
(* The gaps of a summary.                                                  *)

\* The limit takes the oldest first: no event of the task before one it tells of is left out.
LEMMA UntoldHasNoGap ==
    ASSUME HistoryByStep, NEW t \in Task, NEW m \in Untold(t), NEW e \in DOMAIN events,
           e > Until(read[t].value), events[e] = t, e <= m
    PROVE  e \in Untold(t)
  <1> DEFINE later == {d \in DOMAIN events : d > Until(read[t].value) /\ events[d] = t}
             before(x) == {d \in later : d < x}
  <1>1. Len(events) \in Nat /\ DOMAIN events = 1..Len(events)
    BY LenProperties DEF HistoryByStep
  <1>2. m \in later /\ Cardinality(before(m)) < EventLimit
    BY DEF Untold
  <1>3. IsFiniteSet(later)
    <2>1. IsFiniteSet(1..Len(events)) /\ later \subseteq 1..Len(events)
      BY <1>1, FS_Interval
    <2> QED
      BY <2>1, FS_Subset
  <1>4. IsFiniteSet(before(m))
    BY <1>3, FS_Subset
  <1>5. before(e) \subseteq before(m)
    BY <1>1, <1>2
  <1>6. /\ Cardinality(before(e)) \in Nat /\ Cardinality(before(m)) \in Nat
        /\ Cardinality(before(e)) <= Cardinality(before(m))
    BY <1>4, <1>5, FS_Subset, FS_CardinalityType
  <1>7. Cardinality(before(e)) < EventLimit
    BY <1>2, <1>6, LearnerAssumption
  <1> QED
    BY <1>7 DEF Untold

LEMMA GapsNext == Gaps /\ HistoryByStep /\ AtByStep /\ ReadTyped /\ [Next]_vars => Gaps'
  <1> SUFFICES ASSUME Gaps, HistoryByStep, AtByStep, ReadTyped, [Next]_vars
               PROVE  Gaps'
    OBVIOUS
  <1>0. Len(events) \in Nat /\ DOMAIN events = 1..Len(events)
    BY LenProperties DEF HistoryByStep
  <1>1. ASSUME NEW t \in Task, events' = Append(events, t), UNCHANGED summaries
        PROVE  Gaps'
    <2>1. \A e \in DOMAIN events : events'[e] = events[e]
      BY <1>1, MoreEvents DEF HistoryByStep
    <2>2. \A r \in DOMAIN summaries : Until(r) \in DOMAIN events
      <3>1. summaries \in [1..Len(summaries) -> Summary(DOMAIN events)] /\ Len(summaries) \in Nat
        BY LenProperties DEF HistoryByStep
      <3> QED
        BY <3>1 DEF Until, Summary
    <2>3. ASSUME NEW r \in DOMAIN summaries
          PROVE  GapsOf(r)'
      <3>1. Until(r)' = Until(r) /\ Told(r)' = Told(r)
        BY <1>1 DEF Until, Told
      <3>2. \A e \in 1..Until(r) : e \in DOMAIN events
        BY <1>0, <2>2
      <3>3. \A e \in DOMAIN events : Overtaken(e) => Overtaken(e)'
        BY <1>1, <2>1 DEF Overtaken
      <3> QED
        BY <3>1, <3>2, <3>3 DEF Gaps, GapsOf
    <2> QED
      BY <1>1, <2>3 DEF Gaps
  <1>2. CASE UNCHANGED <<events, summaries>>
    BY <1>2 DEF Gaps, GapsOf, Overtaken, Until, Told
  <1>3. ASSUME NEW t \in Task, WriteSummary(t), Untold(t) # {}
        PROVE  Gaps'
    <2> DEFINE new == [by |-> t, until |-> Reached(t), told |-> Told(read[t].value) \cup Untold(t)]
               b == read[t].value
    <2>1. /\ b \in 0..Len(summaries) /\ Len(summaries) \in Nat /\ UNCHANGED events
          /\ DOMAIN summaries = 1..Len(summaries)
      BY <1>3, LenProperties DEF WriteSummary, Move, HistoryByStep, SummaryRead
    <2> PICK k \in Nat : k = Len(summaries) + 1
      BY <2>1
    <2>2. Reached(t) \in Untold(t) /\ Untold(t) \subseteq DOMAIN events
      BY <1>3, UntoldIsNew DEF Reached
    <2>3. new \in Summary(DOMAIN events)
      BY <2>1, <2>2, ToldIsThere DEF Summary
    <2>4. summaries' = Append(summaries, new)
      BY <1>3 DEF WriteSummary
    <2>5. /\ DOMAIN summaries' = 1..k /\ summaries'[k] = new
          /\ \A n \in DOMAIN summaries : summaries'[n] = summaries[n]
      <3> HIDE DEF new
      <3>1. /\ Append(summaries, new) \in Seq(Summary(DOMAIN events))
            /\ Len(Append(summaries, new)) = k /\ Append(summaries, new)[k] = new
            /\ \A n \in 1..Len(summaries) : Append(summaries, new)[n] = summaries[n]
        BY <2>3, AppendProperties DEF HistoryByStep
      <3> QED
        BY <2>1, <2>4, <3>1, LenProperties
    <2>6. \A e \in DOMAIN events : Overtaken(e) => Overtaken(e)'
      BY <2>1, <2>5 DEF Overtaken
    <2>7. ASSUME NEW r \in DOMAIN summaries
          PROVE  GapsOf(r)'
      <3>1. Until(r)' = Until(r) /\ Told(r)' = Told(r)
        BY <2>5 DEF Until, Told
      <3>2. Until(r) \in {0} \cup DOMAIN events
        BY <2>1, ToldIsThere
      <3> QED
        BY <1>0, <2>6, <2>7, <3>1, <3>2 DEF Gaps, GapsOf
    <2>8. GapsOf(k)'
      <3>1. Until(k)' = Reached(t) /\ Told(k)' = Told(b) \cup Untold(t) /\ k # 0
        BY <2>1, <2>5 DEF Until, Told
      <3> SUFFICES ASSUME NEW e \in (1..Reached(t)) \ (Told(b) \cup Untold(t))
                   PROVE  Overtaken(e)'
        BY <3>1 DEF GapsOf
      <3>2. e \in DOMAIN events /\ e <= Reached(t) /\ e >= 1 /\ Reached(t) \in Nat
        BY <1>0, <2>2
      <3>3. CASE e <= Until(b)
        <4>1. b \in DOMAIN summaries
          BY <2>1, <3>2, <3>3 DEF Until
        <4> QED
          BY <2>6, <3>2, <3>3, <4>1 DEF Gaps, GapsOf
      <3>4. CASE e > Until(b) /\ events[e] # t
        <4>1. summaries'[k].by # events'[e] /\ summaries'[k].until >= e
          BY <2>1, <2>5, <3>2, <3>4
        <4> QED
          BY <2>1, <2>5, <4>1 DEF Overtaken
      <3>5. CASE e > Until(b) /\ events[e] = t
        BY <2>2, <3>2, <3>5, UntoldHasNoGap
      <3>6. Until(b) \in Nat
        BY <1>0, <2>1, ToldIsThere
      <3> QED
        BY <3>2, <3>3, <3>4, <3>5, <3>6
    <2> QED
      BY <2>1, <2>5, <2>7, <2>8 DEF Gaps
  <1>4. ASSUME NEW t \in Task, TaskStep(t)
        PROVE  Gaps'
    <2>1. CASE Emit(t)
      BY <1>1, <2>1 DEF Emit
    <2>2. CASE WriteSummary(t)
      BY <1>2, <1>3, <2>2 DEF WriteSummary
    <2>3. CASE ~(Emit(t) \/ WriteSummary(t))
      BY <1>2, <1>4, <2>3 DEF TaskStep, Plan, Finish, ReadWeight, Credit, ReadSummary, MemoryFails,
                              Retry
    <2> QED
      BY <2>1, <2>2, <2>3
  <1>5. ASSUME NEW w \in Writer, WriterStep(w)
        PROVE  Gaps'
    <2>1. CASE Complete(w) /\ w \in Task
      BY <1>1, <2>1 DEF Complete
    <2>2. CASE ~(Complete(w) /\ w \in Task)
      BY <1>2, <1>5, <2>2
         DEF WriterStep, FindProfile, CreateProfile, LateProfile, ScoreProfile, FindWeakness,
             NoteWeakness, LateWeakness, CreatePractice, ScheduleReview, FindAsset, SaveAsset,
             LateAsset, Complete, OutputsFail, Crash
    <2> QED
      BY <2>1, <2>2
  <1>6. CASE DeleteMemory \/ ClearMemories \/ UserProfile \/ UNCHANGED vars
    BY <1>2, <1>6 DEF DeleteMemory, ClearMemories, Forget, UserProfile, vars
  <1> QED
    BY <1>4, <1>5, <1>6 DEF Next

-----------------------------------------------------------------------------
(* The weight of a memory.                                                 *)

\* The units of a goal's tasks, for so many executions and so many goals of each.
UnitsOf(t, n, m) == {t} \X (1..n) \X (1..m)
Contribution(g, e, q) == UNION {UnitsOf(t, e[t], q[t]) : t \in TasksOf(g)}

LEMMA UnitsAreFinite ==
    ASSUME NEW t, NEW n \in Nat, NEW m \in Nat
    PROVE  IsFiniteSet(UnitsOf(t, n, m))
  <1> DEFINE P == (1..n) \X (1..m)
             f == [p \in P |-> <<t, p[1], p[2]>>]
  <1>1. IsFiniteSet(1..n) /\ IsFiniteSet(1..m)
    BY FS_Interval
  <1>2. IsFiniteSet(P)
    BY <1>1, FS_Product
  <1>3. f \in Surjection(P, UnitsOf(t, n, m))
    <2>1. \A p \in P : f[p] \in UnitsOf(t, n, m)
      BY DEF UnitsOf
    <2>2. ASSUME NEW u \in UnitsOf(t, n, m)
          PROVE  \E p \in P : f[p] = u
      <3>1. PICK i \in 1..n, j \in 1..m : u = <<t, i, j>>
        BY DEF UnitsOf
      <3>2. <<i, j>> \in P /\ f[<<i, j>>] = u
        BY <3>1
      <3> QED
        BY <3>2
    <2>3. f \in [P -> UnitsOf(t, n, m)]
      BY <2>1
    <2> HIDE DEF f, P
    <2> QED
      BY <2>2, <2>3 DEF Surjection
  <1> HIDE DEF f, P
  <1> QED
    BY <1>2, <1>3, FS_Surjection

LEMMA ContributionIsFinite ==
    ASSUME NEW g, NEW e \in [Task -> Nat], NEW q \in [Task -> Nat]
    PROVE  IsFiniteSet(Contribution(g, e, q)) /\ Cardinality(Contribution(g, e, q)) \in Nat
  <1> DEFINE all == {UnitsOf(t, e[t], q[t]) : t \in TasksOf(g)}
             f == [t \in TasksOf(g) |-> UnitsOf(t, e[t], q[t])]
  <1>1. IsFiniteSet(TasksOf(g))
    BY LearnerAssumption, FS_Subset DEF TasksOf
  <1>2. f \in Surjection(TasksOf(g), all)
    BY DEF Surjection
  <1>3. \A u \in all : IsFiniteSet(u)
    BY UnitsAreFinite DEF TasksOf
  <1>4. IsFiniteSet(all)
    <2> HIDE DEF f, all
    <2> QED
      BY <1>1, <1>2, FS_Surjection
  <1>5. IsFiniteSet(UNION all)
    <2> HIDE DEF all
    <2> QED
      BY <1>3, <1>4, FS_UNION
  <1> QED
    BY <1>5, FS_CardinalityType DEF Contribution

\* More executions, or more goals, contribute more.
LEMMA ContributionGrows ==
    ASSUME NEW g, NEW e \in [Task -> Nat], NEW q \in [Task -> Nat],
           NEW f \in [Task -> Nat], NEW r \in [Task -> Nat],
           \A t \in Task : e[t] <= f[t] /\ q[t] <= r[t]
    PROVE  /\ Contribution(g, e, q) \subseteq Contribution(g, f, r)
           /\ Cardinality(Contribution(g, e, q)) <= Cardinality(Contribution(g, f, r))
  <1>1. \A t \in TasksOf(g) : UnitsOf(t, e[t], q[t]) \subseteq UnitsOf(t, f[t], r[t])
    <2> SUFFICES ASSUME NEW t \in TasksOf(g)
                 PROVE  1..e[t] \subseteq 1..f[t] /\ 1..q[t] \subseteq 1..r[t]
      BY DEF UnitsOf
    <2>1. t \in Task
      BY DEF TasksOf
    <2> QED
      BY <2>1
  <1>2. Contribution(g, e, q) \subseteq Contribution(g, f, r)
    BY <1>1 DEF Contribution
  <1> QED
    BY <1>2, ContributionIsFinite, FS_Subset

\* One more execution of a task contributes as many units as it has goals.
LEMMA ExecutionContributes ==
    ASSUME NEW t \in Task, NEW e \in [Task -> Nat], NEW q \in [Task -> Nat],
           NEW f \in [Task -> Nat], \A u \in Task : e[u] <= f[u], e[t] < f[t]
    PROVE  Cardinality(Contribution(GoalOf(t), e, q)) + q[t] <=
              Cardinality(Contribution(GoalOf(t), f, q))
  <1> DEFINE old == Contribution(GoalOf(t), e, q)
             all == Contribution(GoalOf(t), f, q)
             fresh == {t} \X {f[t]} \X (1..q[t])
             h == [j \in 1..q[t] |-> <<t, f[t], j>>]
  <1>1. q[t] \in Nat /\ f[t] \in Nat /\ e[t] \in Nat
    OBVIOUS
  <1>2. IsFiniteSet(fresh) /\ Cardinality(fresh) = q[t]
    <2>1. IsFiniteSet(1..q[t]) /\ Cardinality(1..q[t]) = q[t]
      BY <1>1, FS_Interval
    <2>2. h \in Bijection(1..q[t], fresh)
      <3>1. h \in [1..q[t] -> fresh]
        OBVIOUS
      <3>2. \A i, j \in 1..q[t] : h[i] = h[j] => i = j
        OBVIOUS
      <3>3. \A u \in fresh : \E j \in 1..q[t] : h[j] = u
        OBVIOUS
      <3> HIDE DEF h, fresh
      <3> QED
        BY <3>1, <3>2, <3>3 DEF Bijection, Injection, IsInjective, Surjection
    <2> HIDE DEF h, fresh
    <2>3. ExistsBijection(1..q[t], fresh)
      BY <2>2 DEF ExistsBijection
    <2> QED
      BY <2>1, <2>3, FS_Bijection
  <1>3. fresh \cap old = {}
    BY <1>1 DEF Contribution, UnitsOf
  <1>4. fresh \subseteq UnitsOf(t, f[t], q[t])
    <2>1. f[t] \in 1..f[t]
      BY <1>1
    <2> QED
      BY <2>1 DEF UnitsOf
  <1>5. old \cup fresh \subseteq all
    <2>1. t \in TasksOf(GoalOf(t))
      BY DEF TasksOf
    <2>2. fresh \subseteq all
      BY <1>4, <2>1 DEF Contribution
    <2>3. old \subseteq all
      BY ContributionGrows
    <2> QED
      BY <2>2, <2>3
  <1>6. /\ IsFiniteSet(old) /\ Cardinality(old) \in Nat
        /\ IsFiniteSet(all) /\ Cardinality(all) \in Nat
    BY ContributionIsFinite
  <1> HIDE DEF fresh, old, all
  <1>7. Cardinality(old \cup fresh) = Cardinality(old) + q[t]
    <2>1. old \cap fresh = {} /\ Cardinality({}) = 0
      BY <1>3, FS_EmptySet
    <2>2. Cardinality(old \cup fresh) =
              Cardinality(old) + Cardinality(fresh) - Cardinality(old \cap fresh)
      BY <1>2, <1>6, FS_Union
    <2> QED
      BY <1>1, <1>2, <1>6, <2>1, <2>2
  <1>8. Cardinality(old \cup fresh) <= Cardinality(all)
    BY <1>5, <1>6, FS_Subset
  <1> QED
    BY <1>7, <1>8 DEF old, all

EndedRuns == [t \in Task |-> Ended(t)]

LEMMA EarnedIsCount ==
    ASSUME GoalsByStep, \A t \in Task : pc[t] \in {"weigh", "credit"} => runs[t] > 0
    PROVE  /\ EndedRuns \in [Task -> Nat]
           /\ \A g : Earned(g) = Cardinality(Contribution(g, EndedRuns, goals)) /\ Earned(g) \in Nat
  <1>1. EndedRuns \in [Task -> Nat] /\ goals \in [Task -> Nat]
    <2>1. \A t \in Task : runs[t] \in Nat
      BY DEF GoalsByStep
    <2> QED
      BY <2>1 DEF EndedRuns, Ended, GoalsByStep
  <1>2. ASSUME NEW g
        PROVE  Earned(g) = Cardinality(Contribution(g, EndedRuns, goals))
    <2>1. {Units(t, Ended(t)) : t \in TasksOf(g)} = {UnitsOf(t, EndedRuns[t], goals[t]) : t \in TasksOf(g)}
      BY DEF Units, UnitsOf, EndedRuns, TasksOf
    <2> QED
      BY <2>1 DEF Earned, Contribution
  <1>3. \A g : Cardinality(Contribution(g, EndedRuns, goals)) \in Nat
    BY <1>1, ContributionIsFinite
  <1> QED
    BY <1>1, <1>2, <1>3

LEMMA EarnedIsCountNext ==
    ASSUME GoalsByStep', \A t \in Task : pc'[t] \in {"weigh", "credit"} => runs'[t] > 0
    PROVE  /\ EndedRuns' \in [Task -> Nat]
           /\ \A g : Earned(g)' = Cardinality(Contribution(g, EndedRuns', goals')) /\ Earned(g)' \in Nat
  <1>1. EndedRuns' \in [Task -> Nat] /\ goals' \in [Task -> Nat]
    <2>1. \A t \in Task : runs'[t] \in Nat
      BY DEF GoalsByStep
    <2> QED
      BY <2>1 DEF EndedRuns, Ended, GoalsByStep
  <1>2. ASSUME NEW g
        PROVE  Earned(g)' = Cardinality(Contribution(g, EndedRuns', goals'))
    <2>1. {Units(t, Ended(t))' : t \in TasksOf(g)} =
          {UnitsOf(t, EndedRuns'[t], goals'[t]) : t \in TasksOf(g)}
      BY DEF Units, UnitsOf, EndedRuns, TasksOf
    <2> QED
      BY <2>1 DEF Earned, Contribution
  <1>3. \A g : Cardinality(Contribution(g, EndedRuns', goals')) \in Nat
    BY <1>1, ContributionIsFinite
  <1> QED
    BY <1>1, <1>2, <1>3

\* What was earned stays earned.
LEMMA EarnedGrows ==
    ASSUME GoalsByStep, GoalsByStep', Weights,
           \A t \in Task : pc'[t] \in {"weigh", "credit"} => runs'[t] > 0,
           \A t \in Task : Ended(t) <= Ended(t)' /\ goals[t] <= goals'[t]
    PROVE  \A g : Earned(g) \in Nat /\ Earned(g)' \in Nat /\ Earned(g) <= Earned(g)'
  <1>1. EndedRuns \in [Task -> Nat] /\ EndedRuns' \in [Task -> Nat]
    BY EarnedIsCount, EarnedIsCountNext DEF Weights, EarnedBy
  <1>2. goals \in [Task -> Nat] /\ goals' \in [Task -> Nat]
    BY DEF GoalsByStep
  <1>3. \A t \in Task : EndedRuns[t] <= EndedRuns'[t]
    BY DEF EndedRuns
  <1>4. \A g : Cardinality(Contribution(g, EndedRuns, goals)) <=
               Cardinality(Contribution(g, EndedRuns', goals'))
    BY <1>1, <1>2, <1>3, ContributionGrows
  <1> QED
    BY <1>4, EarnedIsCount, EarnedIsCountNext DEF Weights, EarnedBy

LEMMA WeightsNext ==
    ASSUME Weights, GoalsByStep, GoalsByStep', MemoryTyped, AtByStep, ReadTyped, [Next]_vars
    PROVE  Weights'
  <1> DEFINE Kept == \A g \in Goal : memory'[g].weight <= memory[g].weight
             Going == /\ \A t \in Task : pc'[t] \in {"weigh", "credit"} => runs'[t] > 0
                      /\ \A t \in Task : Ended(t) <= Ended(t)' /\ goals[t] <= goals'[t]
  <1>0. /\ Task \subseteq Writer
        /\ \A t \in Task : runs[t] \in Nat /\ goals[t] \in Nat /\ read[t] \in Rows /\ GoalOf(t) \in Goal
        /\ \A g \in Goal : memory[g].weight \in Nat
    BY LearnerAssumption DEF Writer, GoalsByStep, ReadTyped, MemoryTyped
  <1>1. ASSUME Going
        PROVE  \A g : Earned(g) \in Nat /\ Earned(g)' \in Nat /\ Earned(g) <= Earned(g)'
    BY <1>1, EarnedGrows
  \* What another task read is earned still.
  <1>2. ASSUME Going, NEW u \in Task, Stays(u)
        PROVE  EarnedBy(u)'
    <2>1. Earned(GoalOf(u)) \in Nat /\ Earned(GoalOf(u))' \in Nat
          /\ Earned(GoalOf(u)) <= Earned(GoalOf(u))' /\ read[u].value \in Nat
      BY <1>0, <1>1, <1>2 DEF Rows
    <2>2. pc'[u] = "credit" => read'[u].value <= Earned(GoalOf(u))
      BY <1>2 DEF Weights, EarnedBy, Stays
    <2>3. read'[u].value \in Nat
      BY <1>2, <2>1 DEF Stays
    <2>4. pc'[u] = "credit" => read'[u].value <= Earned(GoalOf(u))'
      BY <2>1, <2>2, <2>3
    <2> QED
      BY <1>2, <2>4 DEF EarnedBy
  <1>3. ASSUME Going, MemoryTyped', Kept
        PROVE  \A g \in Goal : memory'[g].weight <= Earned(g)'
    <2> SUFFICES ASSUME NEW g \in Goal
                 PROVE  memory'[g].weight <= Earned(g)'
      OBVIOUS
    <2>1. memory'[g].weight \in Nat /\ memory[g].weight \in Nat
      BY <1>3 DEF MemoryTyped
    <2>2. Earned(g) \in Nat /\ Earned(g)' \in Nat /\ Earned(g) <= Earned(g)'
      BY <1>1, <1>3
    <2>3. memory'[g].weight <= memory[g].weight /\ memory[g].weight <= Earned(g)
      BY <1>3 DEF Weights
    <2> QED
      BY <2>1, <2>2, <2>3
  <1>4. MemoryTyped'
    BY MemoryNext
  <1>5. ASSUME NEW t \in Task, TaskStep(t)
        PROVE  Weights'
    <2>1. \A u \in Task \ {t} : Stays(u)
      BY <1>0, <1>5, TaskMoves
    <2>2. /\ \A u \in Task \ {t} : runs'[u] = runs[u]
          /\ \A u \in Task : goals[u] <= goals'[u]
      <3>1. CASE Plan(t)
        BY <1>0, <3>1 DEF Plan, GoalsByStep
      <3>2. CASE Finish(t)
        BY <1>0, <3>2 DEF Finish, GoalsByStep, mind
      <3>3. CASE ~(Plan(t) \/ Finish(t))
        BY <1>0, <1>5, <3>3 DEF TaskStep, Emit, ReadWeight, Credit, ReadSummary, WriteSummary,
                                MemoryFails, Retry, mind
      <3> QED
        BY <3>1, <3>2, <3>3
    <2>3. /\ pc'[t] \in {"weigh", "credit"} => runs'[t] > 0
          /\ Ended(t) <= Ended(t)'
      <3>1. CASE Finish(t)
        BY <1>0, <3>1 DEF Finish, Move, AtByStep, GoalsByStep, Ended
      <3>2. CASE Emit(t)
        BY <1>0, <3>2 DEF Emit, Weights, EarnedBy, Ended
      <3>3. CASE Plan(t) \/ ReadSummary(t) \/ WriteSummary(t) \/ MemoryFails(t) \/ Retry(t) \/ Credit(t)
        <4>1. pc'[t] \notin {"weigh", "credit"} /\ runs' = runs
          BY <1>0, <3>3 DEF Plan, ReadSummary, WriteSummary, MemoryFails, Retry, Credit, Move, AtByStep
        <4> QED
          BY <1>0, <4>1 DEF Ended
      <3>4. CASE ReadWeight(t)
        <4>1. pc[t] = "weigh" /\ pc'[t] = "credit" /\ runs' = runs
          BY <1>0, <3>4 DEF ReadWeight, Move, AtByStep
        <4> QED
          BY <1>0, <4>1 DEF Ended, Weights, EarnedBy
      <3> QED
        BY <1>5, <3>1, <3>2, <3>3, <3>4 DEF TaskStep
    <2>4. Going
      <3>1. ASSUME NEW u \in Task, u # t
            PROVE  (pc'[u] \in {"weigh", "credit"} => runs'[u] > 0) /\ Ended(u) <= Ended(u)'
        BY <1>0, <2>1, <2>2, <3>1 DEF Stays, Ended, Weights, EarnedBy
      <3> QED
        BY <2>2, <2>3, <3>1
    <2>5. CASE Credit(t)
      <3>1. /\ pc[t] = "credit" /\ pc'[t] = "recall" /\ UNCHANGED <<goals, runs>>
            /\ memory'[GoalOf(t)].weight = read[t].value + goals[t]
            /\ \A g \in Goal \ {GoalOf(t)} : memory'[g] = memory[g]
        BY <1>0, <2>5 DEF Credit, Move, AtByStep, MemoryTyped, Credited
      <3>2. /\ EndedRuns \in [Task -> Nat] /\ EndedRuns' \in [Task -> Nat]
            /\ goals \in [Task -> Nat]
        BY <2>4, EarnedIsCount, EarnedIsCountNext DEF Weights, EarnedBy, GoalsByStep
      <3>3. EndedRuns[t] < EndedRuns'[t] /\ \A u \in Task : EndedRuns[u] <= EndedRuns'[u]
        BY <1>0, <2>4, <3>1 DEF EndedRuns, Ended
      <3>4. Earned(GoalOf(t)) + goals[t] <= Earned(GoalOf(t))'
        <4>1. Cardinality(Contribution(GoalOf(t), EndedRuns, goals)) + goals[t] <=
                 Cardinality(Contribution(GoalOf(t), EndedRuns', goals))
          BY <3>2, <3>3, ExecutionContributes
        <4> QED
          BY <2>4, <3>1, <4>1, EarnedIsCount, EarnedIsCountNext DEF Weights, EarnedBy
      <3>5. read[t].value <= Earned(GoalOf(t)) /\ read[t].value \in Nat
        BY <1>0, <3>1 DEF Weights, EarnedBy, Rows
      <3>6. Earned(GoalOf(t)) \in Nat /\ Earned(GoalOf(t))' \in Nat
        BY <1>1, <2>4
      <3>7. memory'[GoalOf(t)].weight <= Earned(GoalOf(t))'
        BY <1>0, <3>1, <3>4, <3>5, <3>6
      <3>8. ASSUME NEW g \in Goal, g # GoalOf(t)
            PROVE  memory'[g].weight <= Earned(g)'
        <4>1. Earned(g) \in Nat /\ Earned(g)' \in Nat /\ Earned(g) <= Earned(g)'
          BY <1>1, <2>4
        <4>2. memory'[g] = memory[g] /\ memory[g].weight <= Earned(g)
          BY <3>1, <3>8 DEF Weights
        <4> QED
          BY <1>0, <4>1, <4>2
      <3>9. EarnedBy(t)'
        BY <3>1 DEF EarnedBy
      <3> QED
        BY <1>2, <2>1, <2>4, <3>7, <3>8, <3>9 DEF Weights
    <2>6. CASE ~Credit(t)
      <3>1. memory' = memory
        BY <1>5, <2>6 DEF TaskStep, Plan, Emit, Finish, ReadWeight, ReadSummary, WriteSummary,
                          MemoryFails, Retry, mind
      <3>2. Kept
        BY <1>0, <3>1
      <3>3. EarnedBy(t)'
        <4>1. CASE ReadWeight(t)
          <5> DEFINE g == GoalOf(t)
          <5>1. read'[t].value \in {memory[g].weight, memory[g].weight \div 2}
            BY <1>0, <4>1 DEF ReadWeight, Reads, Found, Decayed, ReadTyped
          <5>2. memory[g].weight \in Nat /\ memory[g].weight <= Earned(g)
            BY <1>0 DEF Weights
          <5>3. Earned(g) \in Nat /\ Earned(g)' \in Nat /\ Earned(g) <= Earned(g)'
            BY <1>1, <2>4
          <5>4. memory[g].weight \div 2 \in Nat /\ memory[g].weight \div 2 <= memory[g].weight
            BY <5>2
          <5> HIDE DEF g
          <5>5. read'[t].value <= Earned(g)'
            BY <5>1, <5>2, <5>3, <5>4
          <5> QED
            BY <2>4, <5>5 DEF EarnedBy, g
        <4>2. CASE Emit(t)
          BY <1>0, <1>2, <2>4, <4>2 DEF Emit, Stays
        <4>3. CASE ~(ReadWeight(t) \/ Emit(t))
          <5>1. pc'[t] # "credit"
            BY <1>0, <1>5, <2>6, <4>3 DEF TaskStep, Plan, Finish, ReadSummary, WriteSummary,
                                          MemoryFails, Retry, Move, AtByStep
          <5> QED
            BY <2>4, <5>1 DEF EarnedBy
        <4> QED
          BY <4>1, <4>2, <4>3
      <3> QED
        BY <1>2, <1>3, <1>4, <2>1, <2>4, <3>2, <3>3 DEF Weights
    <2> QED
      BY <2>5, <2>6
  <1>6. ASSUME NEW w \in Writer, WriterStep(w)
        PROVE  Weights'
    <2>1. \A v \in Writer \ {w} : Stays(v)
      BY <1>6, WriterMoves
    <2>2. pc'[w] \notin {"weigh", "credit"} /\ UNCHANGED <<goals, runs, memory>>
      BY <1>6 DEF WriterStep, FindProfile, CreateProfile, LateProfile, ScoreProfile, FindWeakness,
                  NoteWeakness, LateWeakness, CreatePractice, ScheduleReview, FindAsset, SaveAsset,
                  LateAsset, Complete, OutputsFail, Crash, Move, Raise, mind, AtByStep
    <2>3. Going
      <3>1. ASSUME NEW u \in Task
            PROVE  (pc'[u] \in {"weigh", "credit"} => runs'[u] > 0) /\ Ended(u) <= Ended(u)'
        <4>1. CASE u = w
          BY <1>0, <2>2, <4>1 DEF Ended
        <4>2. CASE u # w
          BY <1>0, <2>1, <2>2, <4>2 DEF Stays, Ended, Weights, EarnedBy
        <4> QED
          BY <4>1, <4>2
      <3> QED
        BY <1>0, <2>2, <3>1
    <2>4. Kept
      BY <1>0, <2>2
    <2>5. \A u \in Task : EarnedBy(u)'
      BY <1>0, <1>2, <2>1, <2>2, <2>3 DEF EarnedBy
    <2> QED
      BY <1>3, <1>4, <2>3, <2>4, <2>5 DEF Weights
  <1>7. CASE DeleteMemory \/ ClearMemories \/ UserProfile \/ UNCHANGED vars
    <2>1. UNCHANGED <<goals, runs, pc, at, read>>
      BY <1>7 DEF DeleteMemory, ClearMemories, Forget, UserProfile, vars, mind
    <2>2. Kept
      <3>1. ASSUME NEW gone, Forget(gone)
            PROVE  Kept
        BY <1>0, <3>1 DEF Forget, NoMemory
      <3>2. CASE UserProfile \/ UNCHANGED vars
        BY <1>0, <3>2 DEF UserProfile, vars, mind
      <3> QED
        BY <1>7, <3>1, <3>2 DEF DeleteMemory, ClearMemories
    <2>3. Going
      BY <1>0, <2>1 DEF Weights, EarnedBy, Ended
    <2>4. \A u \in Task : EarnedBy(u)'
      BY <1>2, <2>1, <2>3 DEF Stays
    <2> QED
      BY <1>3, <1>4, <2>2, <2>3, <2>4 DEF Weights
  <1> QED
    BY <1>5, <1>6, <1>7 DEF Next

-----------------------------------------------------------------------------
(* The invariant, and what follows from it.                                *)

\* The invariant LearnerByStep, by its parts.
Parts == /\ HistoryByStep /\ GoalsByStep /\ MemoryTyped /\ RecordTyped /\ ReadTyped
         /\ RaisedTyped /\ AtByStep /\ Weights /\ Gaps /\ RowsOwned
         /\ \A w \in Writer : OutputsOf(w) /\ OthersOf(w)

LEMMA PartsAreTheInvariant == Parts <=> LearnerByStep
  <1>1. ASSUME LearnerByStep
        PROVE  /\ HistoryByStep /\ GoalsByStep /\ MemoryTyped /\ RecordTyped /\ ReadTyped
               /\ RaisedTyped /\ AtByStep
    BY <1>1 DEF LearnerByStep, TypeOK, HistoryTyped, MindTyped, StepsTyped, HistoryByStep, GoalsByStep,
                MemoryTyped, ReadTyped, RaisedTyped, AtByStep, Summary, Rows
  <1>2. ASSUME HistoryByStep, GoalsByStep, MemoryTyped, RecordTyped, ReadTyped, RaisedTyped, AtByStep
        PROVE  /\ TypeOK /\ EventsBounded
               /\ \A w \in Writer : AtStep(w)
               /\ \A t \in Task : GoalsOf(t) /\ SummaryRead(t)
    <2>1. HistoryTyped
      BY <1>2, HistoryIsTyped
    <2>2. MindTyped
      BY <1>2, GoalsBounded DEF MindTyped, GoalsByStep, GoalsOf, MemoryTyped
    <2>3. StepsTyped
      <3>1. ASSUME NEW w \in Writer
            PROVE  at[w] \in 1..(Len(Topics(w)) + Len(Assets(w)))
        <4>1. AtStep(w)
          BY <1>2 DEF AtByStep
        <4> QED
          BY <4>1, ListsAreLists DEF AtStep
      <3> QED
        BY <1>2, <3>1 DEF StepsTyped, ReadTyped, RaisedTyped, AtByStep, Rows
    <2> QED
      BY <1>2, <2>1, <2>2, <2>3 DEF TypeOK, HistoryByStep, GoalsByStep, AtByStep
  <1> QED
    BY <1>1, <1>2 DEF LearnerByStep, Parts

LEMMA PartsInit == Init => Parts
  <1> SUFFICES ASSUME Init
               PROVE  Parts
    OBVIOUS
  <1> USE DEF Init
  <1>0. User \notin Writer /\ NoOne \notin Writer
    BY LearnerAssumption
  <1>1. \A w \in Writer : pc[w] \in {"plan", "profile"} /\ at[w] = 1 /\ raised[w] = "no"
    OBVIOUS
  <1>2. HistoryByStep
    <2>1. Cardinality(Completed) \in Nat /\ MaxEvents \in Nat
      BY LearnerAssumption, FS_Subset, FS_CardinalityType DEF Completed
    <2>2. \A t \in Task : SummaryRead(t)
      BY <1>1 DEF SummaryRead, Writer
    <2> QED
      BY <2>1, <2>2, EmptySeq DEF HistoryByStep, EventsBounded
  <1>3. GoalsByStep
    BY LearnerAssumption DEF GoalsByStep, GoalsOf
  <1>4. MemoryTyped /\ RecordTyped /\ ReadTyped /\ RaisedTyped
    BY <1>0, LearnerAssumption DEF MemoryTyped, NoMemory, RecordTyped, ReadTyped, Nothing, Rows, RaisedTyped
  <1>5. AtByStep
    BY <1>1 DEF AtByStep, AtStep, Step, OfTopic, OfAsset
  <1>6. Weights
    <2>1. \A t \in Task : pc[t] \notin {"weigh", "credit"}
      BY <1>1 DEF Writer
    <2>2. \A g : Earned(g) \in Nat
      BY <1>3, <2>1, EarnedIsCount
    <2>3. \A g \in Goal : memory[g].weight = 0
      BY DEF NoMemory
    <2> QED
      BY <2>1, <2>2, <2>3 DEF Weights, EarnedBy
  <1>7. Gaps
    BY DEF Gaps
  <1>8. RowsOwned
    BY DEF RowsOwned
  <1>9. \A w \in Writer : OutputsOf(w) /\ OthersOf(w)
    BY <1>1 DEF OutputsOf, OthersOf, Passed, OfTopic, OfAsset
  <1> QED
    BY <1>2, <1>3, <1>4, <1>5, <1>6, <1>7, <1>8, <1>9 DEF Parts

LEMMA PartsNext == Parts /\ [Next]_vars => Parts'
  <1> SUFFICES ASSUME Parts, [Next]_vars
               PROVE  Parts'
    OBVIOUS
  <1>1. HistoryTyped /\ MindTyped
    BY PartsAreTheInvariant DEF LearnerByStep, TypeOK
  <1> USE DEF Parts
  <1>2. HistoryByStep' /\ GoalsByStep' /\ AtByStep'
    BY HistoryNext, GoalsNext, AtNext
  <1>3. MemoryTyped' /\ RecordTyped' /\ ReadTyped' /\ RaisedTyped'
    BY <1>1, MemoryNext, RecordNext, ReadNext, RaisedNext
  <1>4. Weights' /\ Gaps'
    BY <1>2, WeightsNext, GapsNext
  <1>5. RowsOwned' /\ \A w \in Writer : OutputsOf(w)' /\ OthersOf(w)'
    BY OutputsNext, RowsNext
  <1> QED
    BY <1>2, <1>3, <1>4, <1>5

LEMMA PartsAlways == Spec => []Parts
  BY PartsInit, PartsNext, PTL DEF Spec

\* The invariant is inductive: types, what each task has earned and read, whose rows there
\* are, and how far each recording has come (all of Learner's actions).
THEOREM LearnerInvariant == Spec => []LearnerByStep
  BY PartsAlways, PartsAreTheInvariant, PTL

\* Every variable keeps its type, the events and the goals their bounds, and no writer leaves
\* its lists of topics and assets.
THEOREM LearnerTypeCorrect == Spec => []TypeOK
  <1>1. LearnerByStep => TypeOK
    BY DEF LearnerByStep
  <1> QED
    BY <1>1, LearnerInvariant, PTL

\* A memory never weighs more than one unit for each goal the planner wrote in each execution
\* of its tasks' last node (consolidator._upsert_memory), in any order of reads and writes.
THEOREM WeightEarned == Spec => []WeightIsEarned
  <1>1. Parts => WeightIsEarned
    <2> SUFFICES ASSUME Parts, NEW g \in Goal
                 PROVE  memory[g].weight <=
                            Cardinality(UNION {Units(t, runs[t]) : t \in TasksOf(g)})
      BY DEF WeightIsEarned
    <2>1. goals \in [Task -> Nat] /\ runs \in [Task -> Nat] /\ memory[g].weight \in Nat
      BY DEF Parts, GoalsByStep, MemoryTyped
    <2>2. /\ EndedRuns \in [Task -> Nat]
          /\ Earned(g) = Cardinality(Contribution(g, EndedRuns, goals))
      BY EarnedIsCount DEF Parts, Weights, EarnedBy
    <2>3. \A t \in Task : EndedRuns[t] <= runs[t]
      BY <2>1 DEF EndedRuns, Ended
    <2>4. Cardinality(Contribution(g, EndedRuns, goals)) <= Cardinality(Contribution(g, runs, goals))
      BY <2>1, <2>2, <2>3, ContributionGrows
    <2>5. UNION {Units(t, runs[t]) : t \in TasksOf(g)} = Contribution(g, runs, goals)
      BY DEF Contribution, Units, UnitsOf
    <2>6. /\ Cardinality(Contribution(g, EndedRuns, goals)) \in Nat
          /\ Cardinality(Contribution(g, runs, goals)) \in Nat
      BY <2>1, <2>2, ContributionIsFinite
    <2>7. memory[g].weight <= Cardinality(Contribution(g, EndedRuns, goals))
      BY <2>2 DEF Parts, Weights
    <2>8. memory[g].weight <= Cardinality(Contribution(g, runs, goals))
      BY <2>1, <2>4, <2>6, <2>7
    <2> QED
      BY <2>5, <2>8
  <1> QED
    BY <1>1, PartsAlways, PTL

\* The latest summary tells of every event up to its checkpoint, except events that a summary
\* of another task has passed (summarizer.summarize_session).
THEOREM GapsOvertaken == Spec => []GapsAreOvertaken
  <1>1. Parts => GapsAreOvertaken
    <2> SUFFICES ASSUME Parts
                 PROVE  GapsOf(Len(summaries))
      BY DEF GapsAreOvertaken
    <2>1. Len(summaries) \in Nat /\ DOMAIN summaries = 1..Len(summaries)
      BY LenProperties DEF Parts, HistoryByStep
    <2>2. CASE Len(summaries) = 0
      BY <2>2 DEF GapsOf, Until
    <2>3. CASE Len(summaries) # 0
      BY <2>1, <2>3 DEF Parts, Gaps
    <2> QED
      BY <2>2, <2>3
  <1> QED
    BY <1>1, PartsAlways, PTL

\* A recording that has ended recorded a weakness, a practice and a review of each topic, or
\* the database failed, or another writer had inserted a row of it (learning_service).
THEOREM OutputsWhole == Spec => []OutputsAreWhole
  <1>1. Parts => OutputsAreWhole
    <2> SUFFICES ASSUME Parts, NEW w \in Writer, pc[w] \in {"finish", "done"}, raised[w] # "database"
                 PROVE  \/ /\ raised[w] = "no"
                           /\ Range(Topics(w)) \subseteq practiced[w] \cap scheduled[w]
                           /\ \A k \in Range(Topics(w)) : weakness[k].is
                        \/ raised[w] = "rival" /\ ByRival(w)
      BY DEF OutputsAreWhole
    <2>1. raised[w] \in {"no", "rival"} /\ OutputsOf(w) /\ OthersOf(w)
      BY DEF Parts, RaisedTyped
    <2>2. CASE raised[w] = "no"
      BY <2>1, <2>2 DEF OutputsOf, Passed, Range
    <2>3. CASE raised[w] = "rival"
      BY <2>1, <2>3 DEF OthersOf
    <2> QED
      BY <2>1, <2>2, <2>3
  <1> QED
    BY <1>1, PartsAlways, PTL
=============================================================================
