-------------------------- MODULE MCDocumentIndex --------------------------
(* Instances of DocumentIndex for TLC. *)
EXTENDS DocumentIndex, TLC

\* Workers, requests, task ids and batches are interchangeable.
Interchangeable == Permutations(Worker) \cup Permutations(Request)
                   \cup Permutations(Task) \cup Permutations(Batch)
=============================================================================
