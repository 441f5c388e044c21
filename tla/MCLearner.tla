----------------------------- MODULE MCLearner -----------------------------
(* Instances of Learner for TLC: two tasks with one goal, a topic and an    *)
(* asset in common, one of which may be executed twice.  A question takes   *)
(* the steps of a task from "profile" on, and none of its own.              *)
EXTENDS Learner

CONSTANTS t, u, goal, rag, cache, map

SameGoal(task) == goal
TopicsOf(w) == IF w = u THEN <<cache, rag>> ELSE <<rag>>
SeverityOf(w, i) == 1
ScoreOf(w) == 1
RunsOf(task) == IF task = t THEN 2 ELSE 1
OneAsset(w) == <<map>>
=============================================================================
