--------------------------- MODULE MCTaskRuntime ---------------------------
(* Instances of TaskRuntime for TLC. *)
EXTENDS TaskRuntime, TLC

\* Tasks, workers and handlers are interchangeable in the safety runs.
Symmetry == Permutations(Tasks) \cup Permutations(Workers) \cup Permutations(Users)
=============================================================================
