---------------------------- MODULE MCModelCalls ----------------------------
(* Instances of ModelCalls for TLC: two threads of one process, which after a *)
(* restart stands for any other process that finds the answer in Redis.       *)
EXTENDS ModelCalls, TLC

CONSTANTS process, one, other, deepseek, openai, anthropic

HomeOf(thread) == process
MakesOf(thread) == {"judge", "structured"}
ChainOf == <<deepseek, anthropic, openai>>
Symmetry == Permutations(Thread)
=============================================================================
