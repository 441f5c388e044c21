----------------------------- MODULE MCAnswering -----------------------------
(* Instances of Answering for TLC: a streamed and a plain request. *)
EXTENDS Answering

CONSTANTS stream, plain

IsStreamed(r) == r = stream
=============================================================================
