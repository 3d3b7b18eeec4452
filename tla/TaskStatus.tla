----------------------------- MODULE TaskStatus -----------------------------
(***************************************************************************)
(* The statuses of a task and of its runs (internal/domain/models.go).     *)
(***************************************************************************)

\* Statuses an execution writes on its way.
Active == {"INDEX_CHECK", "PLANNING", "RETRIEVING_CONTEXT", "GENERATING_PATCH",
           "RUNNING_TESTS", "REVIEWING", "EXPLAINING", "REPLAN_REQUIRED"}

\* Statuses in which nothing runs for the task.
Settled == {"COMPLETED", "FAILED", "CANCELLED", "HUMAN_REVIEW_REQUIRED"}

Status == {"CREATED"} \cup Active \cup Settled
=============================================================================
