---------------------------- MODULE MCAgentTask ----------------------------
(* Instances of AgentTask for TLC. *)
EXTENDS AgentTask, TLC

\* Workers and dispatchers are interchangeable.
Interchangeable == Permutations(Worker) \cup Permutations(Dispatcher)
=============================================================================
