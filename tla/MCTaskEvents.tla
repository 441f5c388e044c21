---------------------------- MODULE MCTaskEvents ----------------------------
(* Instances of TaskEvents for TLC. *)
EXTENDS TaskEvents
=============================================================================
