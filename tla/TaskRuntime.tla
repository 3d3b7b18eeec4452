---------------------------- MODULE TaskRuntime ----------------------------
(***************************************************************************)
(* The single-process task runtime (internal/runtime/service.go without a  *)
(* leaser): the bounded in-process queue with its deduplication map, the   *)
(* worker goroutines that execute tasks, the HTTP handlers that create,    *)
(* cancel and review tasks, the map of cancellation functions, and the     *)
(* recovery a restarted process performs before it serves requests.        *)
(*                                                                         *)
(* Every call on the store, every critical section of a mutex and every    *)
(* channel operation is a step of its own, so that the handlers and the    *)
(* workers interleave between a status they read and the write they        *)
(* decide on.  A read whose result only selects the very next write is     *)
(* part of that write.  An error of the store is modelled where the code   *)
(* returns on it and where it ignores one that leaves a status or a run    *)
(* unwritten; what an unreadable or lost artifact does to a review is the  *)
(* subject of Evaluation.  The content of a run (which agent follows       *)
(* which) is abstracted to a bounded sequence of status writes.            *)
(***************************************************************************)
EXTENDS Naturals, Sequences, FiniteSets, TaskStatus

CONSTANTS
  Tasks,          \* task identifiers
  Workers,        \* worker goroutines (CODECODRIVER_WORKERS)
  Users,          \* concurrent HTTP handler goroutines
  Boot,           \* the goroutine that runs Service.Start
  None,           \* no worker, no task
  EvalTasks,      \* tasks created for an evaluation case
  ExplainTasks,   \* tasks routed to the explanation workflow
  WorkStatus,     \* statuses the workflow after planning writes
  QueueCap,       \* capacity of the queue channel (128 in the code)
  FaultyTasks,    \* tasks for which a call on the store may return an error
  MaxSteps,       \* status writes of one run, a bound on the workflow
  MaxFeedbackTurns, \* maxEvaluationFeedbackTurns
  MaxRequests,    \* HTTP requests in a behaviour, a bound on the environment
  MaxCrashes      \* process crashes in a behaviour, a bound on the environment

Actors == Workers \cup Users \cup {Boot}

ASSUME ActorsAssumption ==
  /\ Workers \cap Users = {}
  /\ Boot \notin Workers \cup Users
  /\ None \notin Tasks \cup Workers
ASSUME TasksAssumption ==
  EvalTasks \subseteq Tasks /\ ExplainTasks \subseteq Tasks /\ FaultyTasks \subseteq Tasks
ASSUME StatusAssumption == WorkStatus \subseteq Active \ {"INDEX_CHECK", "PLANNING"}
ASSUME BoundsAssumption ==
  /\ QueueCap \in Nat \ {0}
  /\ MaxSteps \in Nat /\ MaxFeedbackTurns \in Nat
  /\ MaxRequests \in Nat /\ MaxCrashes \in Nat

VARIABLES
  \* in the store, surviving a crash
  status,        \* Task.Status, "ABSENT" before AddTask
  runs,          \* the task's runs, oldest first
  feedback,      \* human_feedback artifacts: the run each is attached to
  skipProposed,  \* tasks with a planner_skip artifact SKIP_SUGGESTED
  skipContinued, \* tasks with a planner_skip artifact "continue"
  \* in the memory of the process
  queue,         \* Service.queue
  queued,        \* Service.queued
  cancelTasks,   \* Service.cancelTasks: the execution each function cancels
  ctxDone,       \* workers whose task context is cancelled
  \* goroutine-local
  pc, task,      \* what the goroutine does next, and for which task
  run,           \* the worker's run, 0 before AddRun
  last, steps,   \* last status the worker wrote, number of writes
  seen,          \* contextData["human_feedback"] is set
  outcome,       \* finalStatus of the run being finished
  toVisit,       \* recoverTasks: the part of its snapshot still to visit
  \* environment and history
  requests, crashes,
  stranded,      \* tasks an enqueue timeout or a store error left behind
  lost           \* runs that a failed FinishRun or a crash left open

store == <<status, runs, feedback, skipProposed, skipContinued>>
shared == <<queue, queued, cancelTasks, ctxDone>>
local == <<run, last, steps, seen, outcome>>
env == <<toVisit, requests, crashes, stranded, lost>>
vars == <<store, shared, pc, task, local, env>>

RunRec == [status : Status, ended : BOOLEAN]

WorkerPC == {"idle", "received", "load", "register", "addRun", "ready", "agent",
             "skip", "close", "post", "auto", "failing", "failWrite",
             "failClose", "cleanup"}
ReviewPC == {"approve", "reject", "record", "feedback", "reopen", "enq", "send", "unmark"}
HandlerPC == {"idle", "evalRun", "cancelWrite", "cancelCtx"} \cup ReviewPC
BootPC == {"idle", "snapshot", "recover", "closeRuns", "reset", "enq", "send", "unmark"}

StoreOK ==
  /\ status \in [Tasks -> Status \cup {"ABSENT"}]
  /\ runs \in [Tasks -> Seq(RunRec)]
  /\ feedback \in [Tasks -> Seq(Nat)]
  /\ skipProposed \subseteq Tasks /\ skipContinued \subseteq Tasks

SharedOK ==
  /\ queue \in Seq(Tasks)
  /\ queued \subseteq Tasks
  /\ cancelTasks \in [Tasks -> Workers \cup {None}]
  /\ ctxDone \subseteq Workers

\* The program points of each kind of goroutine, which works for a task
\* exactly when it is in the middle of something.
ControlOK ==
  /\ pc \in [Actors -> WorkerPC \cup HandlerPC \cup BootPC]
  /\ \A w \in Workers : pc[w] \in WorkerPC \cup ReviewPC
  /\ \A u \in Users : pc[u] \in HandlerPC
  /\ pc[Boot] \in BootPC
  /\ task \in [Actors -> Tasks \cup {None}]
  /\ \A a \in Actors : task[a] = None <=> pc[a] \in {"idle", "snapshot", "recover"}

LocalOK ==
  /\ run \in [Workers -> Nat]
  /\ last \in [Workers -> Active \cup {"none"}]
  /\ steps \in [Workers -> Nat]
  /\ seen \in [Workers -> BOOLEAN]
  /\ outcome \in [Workers -> Settled]

EnvOK ==
  /\ toVisit \subseteq Tasks \X Status
  /\ requests \in Nat /\ crashes \in Nat
  /\ stranded \subseteq Tasks
  /\ lost \in [Tasks -> SUBSET Nat]

TypeOK == StoreOK /\ SharedOK /\ ControlOK /\ LocalOK /\ EnvOK

Init ==
  /\ status = [t \in Tasks |-> "ABSENT"]
  /\ runs = [t \in Tasks |-> <<>>]
  /\ feedback = [t \in Tasks |-> <<>>]
  /\ skipProposed = {} /\ skipContinued = {}
  /\ queue = <<>> /\ queued = {}
  /\ cancelTasks = [t \in Tasks |-> None]
  /\ ctxDone = {}
  /\ pc = [a \in Actors |-> "idle"]
  /\ task = [a \in Actors |-> None]
  /\ run = [w \in Workers |-> 0]
  /\ last = [w \in Workers |-> "none"]
  /\ steps = [w \in Workers |-> 0]
  /\ seen = [w \in Workers |-> FALSE]
  /\ outcome = [w \in Workers |-> "FAILED"]
  /\ toVisit = {}
  /\ requests = 0 /\ crashes = 0
  /\ stranded = {}
  /\ lost = [t \in Tasks |-> {}]

-----------------------------------------------------------------------------
(* Helpers *)

Goto(a, p) == pc' = [pc EXCEPT ![a] = p]
SetStatus(t, s) == status' = [status EXCEPT ![t] = s]

\* Where a goroutine goes when the call it made has returned: a handler has
\* answered its request, recoverTasks visits the next task of its snapshot,
\* and a worker that called the handler's code itself returns from executeTask.
Returned(a) == IF a \in Workers THEN "cleanup" ELSE IF a = Boot THEN "recover" ELSE "idle"
Return(a) ==
  /\ Goto(a, Returned(a))
  /\ task' = IF a \in Workers THEN task ELSE [task EXCEPT ![a] = None]

\* Mutant: the server listens while recoverTasks still runs.
ServingEarly == TRUE

\* The HTTP server listens only once Start has returned.
Serving == pc[Boot] = "idle"

\* A new request for task t arrives at handler u.
Request(u, t) ==
  /\ Serving
  /\ pc[u] = "idle"
  /\ requests < MaxRequests
  /\ requests' = requests + 1
  /\ task' = [task EXCEPT ![u] = t]

FinishRun(t, r, s) ==
  runs' = [runs EXCEPT ![t] = [i \in 1..Len(@) |->
             IF i = r THEN [status |-> s, ended |-> TRUE] ELSE @[i]]]

OpenRun(t, i) == ~runs[t][i].ended
OpenRuns(t) == {i \in 1..Len(runs[t]) : OpenRun(t, i)}

\* failForRun ends the worker's run; the error of this FinishRun is ignored,
\* so the run may stay open behind an execution that is over.
EndRun(w, s) ==
  \/ FinishRun(task[w], run[w], s) /\ UNCHANGED lost
  \/ /\ task[w] \in FaultyTasks
     /\ lost' = [lost EXCEPT ![task[w]] = @ \cup (OpenRuns(task[w]) \cap {run[w]})]
     /\ UNCHANGED runs

Queued(t) == \E i \in 1..Len(queue) : queue[i] = t
\* loadHumanFeedbackContext: only artifacts of the newest run other than the
\* current one count, all of them when there is no other run.
LatestOther(t, r) == IF Len(runs[t]) # r THEN Len(runs[t]) ELSE r - 1
FeedbackVisible(t, r) ==
  \E i \in 1..Len(feedback[t]) :
     LatestOther(t, r) = 0 \/ feedback[t][i] = LatestOther(t, r)

-----------------------------------------------------------------------------
(* enqueue and markDequeued *)

\* Mutant: without the check of the map.
EnqueueMarkUnchecked(a) ==
  /\ pc[a] = "enq"
  /\ Goto(a, "send")
  /\ queued' = queued \cup {task[a]}
  /\ UNCHANGED <<store, queue, cancelTasks, ctxDone, task, local, env>>

\* The critical section of enqueue: a task already queued is dropped.
EnqueueMark(a) ==
  /\ pc[a] = "enq"
  /\ IF task[a] \in queued
     THEN Return(a) /\ UNCHANGED queued
     ELSE Goto(a, "send") /\ queued' = queued \cup {task[a]} /\ UNCHANGED task
  /\ UNCHANGED <<store, queue, cancelTasks, ctxDone, local, env>>

EnqueueSend(a) ==
  /\ pc[a] = "send"
  /\ Len(queue) < QueueCap
  /\ queue' = Append(queue, task[a])
  /\ Return(a)
  /\ UNCHANGED <<store, queued, cancelTasks, ctxDone, local, env>>

\* Five seconds on a full channel: the item is given up.
EnqueueTimeout(a) ==
  /\ pc[a] = "send"
  /\ Len(queue) = QueueCap
  /\ stranded' = stranded \cup {task[a]}
  /\ Goto(a, "unmark")
  /\ UNCHANGED <<store, shared, task, local, toVisit, requests, crashes, lost>>

EnqueueUnmark(a) ==
  /\ pc[a] = "unmark"
  /\ queued' = queued \ {task[a]}
  /\ Return(a)
  /\ UNCHANGED <<store, queue, cancelTasks, ctxDone, local, env>>

-----------------------------------------------------------------------------
(* HTTP handlers: create, rerun, cancel *)

CreateTask(u, t) ==
  /\ status[t] = "ABSENT"
  /\ Request(u, t)
  /\ SetStatus(t, "CREATED")
  /\ Goto(u, IF t \in EvalTasks THEN "evalRun" ELSE "enq")
  /\ UNCHANGED <<runs, feedback, skipProposed, skipContinued, shared, local,
                 toVisit, crashes, stranded, lost>>

\* CreateEvaluationTask adds the evaluation run between the task and its
\* enqueue; when that write fails the created task is left behind.
AddEvaluationRun(u) ==
  /\ pc[u] = "evalRun"
  /\ \/ Goto(u, "enq") /\ UNCHANGED <<task, stranded>>
     \/ task[u] \in FaultyTasks /\ Return(u) /\ stranded' = stranded \cup {task[u]}
  /\ UNCHANGED <<store, shared, local, toVisit, requests, crashes, lost>>

\* RerunTask creates a fresh copy of a task that is no longer running.
RerunTask(u, original, t) ==
  /\ status[original] \in Settled
  /\ t \notin EvalTasks
  /\ CreateTask(u, t)

CancelCheck(u, t) ==
  /\ status[t] \notin Settled \cup {"ABSENT"}
  /\ Request(u, t)
  /\ Goto(u, "cancelWrite")
  /\ UNCHANGED <<store, shared, local, toVisit, crashes, stranded, lost>>

CancelWrite(u) ==
  /\ pc[u] = "cancelWrite"
  /\ SetStatus(task[u], "CANCELLED")
  /\ Goto(u, "cancelCtx")
  /\ UNCHANGED <<runs, feedback, skipProposed, skipContinued, shared, task, local, env>>

\* Mutant: without the nil check of the function found in the map.
CancelContextUnchecked(u) ==
  /\ pc[u] = "cancelCtx"
  /\ ctxDone' = ctxDone \cup {cancelTasks[task[u]]}
  /\ Return(u)
  /\ UNCHANGED <<store, queue, queued, cancelTasks, local, env>>

CancelContext(u) ==
  /\ pc[u] = "cancelCtx"
  /\ ctxDone' = ctxDone \cup ({cancelTasks[task[u]]} \ {None})
  /\ Return(u)
  /\ UNCHANGED <<store, queue, queued, cancelTasks, local, env>>

-----------------------------------------------------------------------------
(* Human review: ResolveHumanReview and ContinueTaskWithFeedback, called by  *)
(* a handler or, for an evaluation task, by the worker that just finished it *)

\* The statuses the three calls accept.
AwaitsReview(t) == status[t] = "HUMAN_REVIEW_REQUIRED"
AcceptsFeedback(t) == AwaitsReview(t) \/ (status[t] = "COMPLETED" /\ t \in ExplainTasks)

\* A handler reads the task and goes on to write what the reviewer decided.
ReviewCheck(u, t) ==
  /\ Request(u, t)
  /\ \/ AwaitsReview(t) /\ \E d \in {"approve", "reject"} : Goto(u, d)
     \/ AcceptsFeedback(t) /\ Goto(u, "feedback")
  /\ UNCHANGED <<store, shared, local, toVisit, crashes, stranded, lost>>

\* maybeAutoHandleEvaluationHumanReview on an evaluation task that ended in
\* review: feedback while the budget lasts, else a verdict.  A proposed skip
\* always gets the feedback and then the approval; otherwise the review's
\* text and the test reports decide.  The call it makes checks the status;
\* an evaluation run that is already final is left alone.
AutoDecision(t) ==
  LET budget == Len(feedback[t]) < MaxFeedbackTurns
  IN  IF t \in skipProposed
      THEN {IF budget THEN "feedback" ELSE "approve"}
      ELSE {"approve", "reject"} \cup (IF budget THEN {"feedback"} ELSE {})

AutoReview(w) ==
  /\ pc[w] = "auto"
  /\ LET t == task[w] IN
       IF t \in EvalTasks /\ outcome[w] = "HUMAN_REVIEW_REQUIRED"
       THEN \/ Goto(w, "cleanup")
            \/ \E d \in AutoDecision(t) :
                 /\ AwaitsReview(t) \/ (d = "feedback" /\ AcceptsFeedback(t))
                 /\ Goto(w, d)
       ELSE Goto(w, "cleanup")
  /\ UNCHANGED <<store, shared, task, local, env>>

Approve(a) ==
  /\ pc[a] = "approve"
  /\ SetStatus(task[a], "COMPLETED")
  /\ Return(a)
  /\ UNCHANGED <<runs, feedback, skipProposed, skipContinued, shared, local, env>>

\* Rejecting a proposed skip sends the task back to the queue.
Reject(a) ==
  /\ pc[a] = "reject"
  /\ IF task[a] \in skipProposed
     THEN SetStatus(task[a], "CREATED") /\ Goto(a, "record") /\ UNCHANGED task
     ELSE SetStatus(task[a], "FAILED") /\ Return(a)
  /\ UNCHANGED <<runs, feedback, skipProposed, skipContinued, shared, local, env>>

\* The "continue" artifact that keeps the planner from proposing a skip again.
RecordContinue(a) ==
  /\ pc[a] = "record"
  /\ skipContinued' = skipContinued \cup {task[a]}
  /\ Goto(a, "enq")
  /\ UNCHANGED <<status, runs, feedback, skipProposed, shared, task, local, env>>

\* The feedback is stored with the newest run before the task is reopened.
FeedbackWrite(a) ==
  /\ pc[a] = "feedback"
  /\ feedback' = [feedback EXCEPT ![task[a]] = Append(@, Len(runs[task[a]]))]
  /\ Goto(a, "reopen")
  /\ UNCHANGED <<status, runs, skipProposed, skipContinued, shared, task, local, env>>

Reopen(a) ==
  /\ pc[a] = "reopen"
  /\ SetStatus(task[a], "CREATED")
  /\ Goto(a, "enq")
  /\ UNCHANGED <<runs, feedback, skipProposed, skipContinued, shared, task, local, env>>

\* The status write of a call fails: the call returns and nothing changes.
CallFail(a) ==
  /\ task[a] \in FaultyTasks
  /\ pc[a] \in {"cancelWrite", "approve", "reject", "reopen"}
  /\ Return(a)
  /\ UNCHANGED <<store, shared, local, env>>

-----------------------------------------------------------------------------
(* A worker: worker, execute, executeTask *)

Receive(w) ==
  /\ pc[w] = "idle"
  /\ queue # <<>>
  /\ task' = [task EXCEPT ![w] = Head(queue)]
  /\ queue' = Tail(queue)
  /\ Goto(w, "received")
  /\ UNCHANGED <<store, queued, cancelTasks, ctxDone, local, env>>

\* Mutant: the worker forgets markDequeued.
MarkDequeuedNever(w) ==
  /\ pc[w] = "received"
  /\ Goto(w, "load")
  /\ UNCHANGED <<store, shared, task, local, env>>

MarkDequeued(w) ==
  /\ pc[w] = "received"
  /\ queued' = queued \ {task[w]}
  /\ Goto(w, "load")
  /\ UNCHANGED <<store, queue, cancelTasks, ctxDone, task, local, env>>

\* Mutant: a cancelled task is executed.
LoadTaskCancelled(w) ==
  /\ pc[w] = "load"
  /\ Goto(w, "register")
  /\ UNCHANGED <<store, shared, task, local, env>>

\* A task that cannot be read is dropped, a cancelled one is not executed.
LoadTask(w) ==
  /\ pc[w] = "load"
  /\ \/ /\ status[task[w]] # "CANCELLED"
        /\ Goto(w, "register")
        /\ UNCHANGED <<task, stranded>>
     \/ /\ status[task[w]] = "CANCELLED" \/ task[w] \in FaultyTasks
        /\ Goto(w, "idle")
        /\ task' = [task EXCEPT ![w] = None]
        /\ stranded' = IF status[task[w]] = "CANCELLED" THEN stranded
                       ELSE stranded \cup {task[w]}
  /\ UNCHANGED <<store, shared, local, toVisit, requests, crashes, lost>>

RegisterCancel(w) ==
  /\ pc[w] = "register"
  /\ cancelTasks' = [cancelTasks EXCEPT ![task[w]] = w]
  /\ Goto(w, "addRun")
  /\ UNCHANGED <<store, queue, queued, ctxDone, task, local, env>>

\* AddRun, or an error of the store before the run exists.
AddRun(w) ==
  /\ pc[w] = "addRun"
  /\ \/ /\ runs' = [runs EXCEPT ![task[w]] = Append(@, [status |-> "INDEX_CHECK", ended |-> FALSE])]
        /\ run' = [run EXCEPT ![w] = Len(runs[task[w]]) + 1]
        /\ Goto(w, "ready")
     \/ task[w] \in FaultyTasks /\ Goto(w, "failing") /\ UNCHANGED <<runs, run>>
  /\ UNCHANGED <<status, feedback, skipProposed, skipContinued, shared, task,
                 last, steps, seen, outcome, env>>

\* The statuses that may follow the last one: indexing happens once, before
\* planning, and the workflow's nodes come after planning.
NextStatus(prev) ==
  CASE prev = "none" -> {"INDEX_CHECK", "PLANNING"}
    [] prev = "INDEX_CHECK" -> {"PLANNING"}
    [] OTHER -> WorkStatus

\* The unconditional status write at the head of runAgentStep (or before
\* IndexRepository); the human feedback is loaded just before planning.
StepBegin(w, s) ==
  /\ pc[w] = "ready"
  /\ steps[w] < MaxSteps
  /\ s \in NextStatus(last[w])
  /\ SetStatus(task[w], s)
  /\ last' = [last EXCEPT ![w] = s]
  /\ steps' = [steps EXCEPT ![w] = @ + 1]
  /\ seen' = [seen EXCEPT ![w] = IF s = "PLANNING" THEN FeedbackVisible(task[w], run[w]) ELSE @]
  /\ Goto(w, "agent")
  /\ UNCHANGED <<runs, feedback, skipProposed, skipContinued, shared, task, run, outcome, env>>

StepEnd(w) ==
  /\ pc[w] = "agent"
  /\ Goto(w, "ready")
  /\ UNCHANGED <<store, shared, task, local, env>>

\* An agent, the indexer or a write of the run's result returned an error.
StepFail(w) ==
  /\ pc[w] \in {"ready", "agent"} \/ (task[w] \in FaultyTasks /\ pc[w] \in {"skip", "close"})
  /\ Goto(w, "failing")
  /\ UNCHANGED <<store, shared, task, local, env>>

\* suggestPlannerSkip: not with human feedback in the context, not once a
\* reviewer chose to continue; the memory evidence is left open.  The planner
\* of a replan may propose it too, but its proposal is ignored.
PlannerSkip(w) ==
  /\ pc[w] = "agent"
  /\ last[w] \in {"PLANNING", "REPLAN_REQUIRED"}
  /\ ~seen[w]
  /\ task[w] \notin skipContinued
  /\ skipProposed' = skipProposed \cup {task[w]}
  /\ Goto(w, IF last[w] = "PLANNING" THEN "skip" ELSE "ready")
  /\ UNCHANGED <<status, runs, feedback, skipContinued, shared, task, local, env>>

\* The final status write: finishWorkflow, or the skip branch of executeTask.
FinishTask(w, s) ==
  /\ \/ pc[w] = "ready" /\ last[w] \in WorkStatus /\ s \in {"COMPLETED", "HUMAN_REVIEW_REQUIRED"}
     \/ pc[w] = "skip" /\ s = "HUMAN_REVIEW_REQUIRED"
  /\ SetStatus(task[w], s)
  /\ outcome' = [outcome EXCEPT ![w] = s]
  /\ Goto(w, "close")
  /\ UNCHANGED <<runs, feedback, skipProposed, skipContinued, shared, task,
                 run, last, steps, seen, env>>

CloseRun(w) ==
  /\ pc[w] = "close"
  /\ FinishRun(task[w], run[w], outcome[w])
  /\ Goto(w, IF last[w] = "PLANNING" THEN "auto" ELSE "post")
  /\ UNCHANGED <<status, feedback, skipProposed, skipContinued, shared, task, local, env>>

\* persistExecutionMemories after the run is finished: its error fails the
\* task although the outcome is already stored (and finds the evaluation
\* final, so that nothing is left to handle).
PersistMemories(w) ==
  /\ pc[w] = "post"
  /\ Goto(w, "auto") \/ (task[w] \in FaultyTasks /\ Goto(w, "failing"))
  /\ UNCHANGED <<store, shared, task, local, env>>

\* Mutant: the run of a cancelled task is left open.
FailCheckOpen(w) ==
  /\ pc[w] = "failing"
  /\ Goto(w, IF status[task[w]] = "CANCELLED" THEN "cleanup" ELSE "failWrite")
  /\ UNCHANGED <<store, shared, task, local, env>>

\* Mutant: the failed run is closed and the task keeps its status.
FailCheckUnwritten(w) ==
  /\ pc[w] = "failing"
  /\ Goto(w, "failClose")
  /\ UNCHANGED <<store, shared, task, local, env>>

\* failForRun reads the task first: a cancelled task keeps its status, unless
\* it cannot be read.
FailCheck(w) ==
  /\ pc[w] = "failing"
  /\ \/ /\ status[task[w]] = "CANCELLED"
        /\ EndRun(w, "CANCELLED")
        /\ Goto(w, "cleanup")
     \/ /\ status[task[w]] # "CANCELLED" \/ task[w] \in FaultyTasks
        /\ Goto(w, "failWrite")
        /\ UNCHANGED <<runs, lost>>
  /\ UNCHANGED <<status, feedback, skipProposed, skipContinued, shared, task, local,
                 toVisit, requests, crashes, stranded>>

\* The error of this UpdateTask is ignored.
FailWrite(w) ==
  /\ pc[w] = "failWrite"
  /\ \/ SetStatus(task[w], "FAILED") /\ UNCHANGED stranded
     \/ task[w] \in FaultyTasks /\ stranded' = stranded \cup {task[w]} /\ UNCHANGED status
  /\ Goto(w, "failClose")
  /\ UNCHANGED <<runs, feedback, skipProposed, skipContinued, shared, task, local,
                 toVisit, requests, crashes, lost>>

FailClose(w) ==
  /\ pc[w] = "failClose"
  /\ EndRun(w, "FAILED")
  /\ Goto(w, "cleanup")
  /\ UNCHANGED <<status, feedback, skipProposed, skipContinued, shared, task, local,
                 toVisit, requests, crashes, stranded>>

\* Mutant: the entry stays in the map.
CleanupKeepingEntry(w) ==
  /\ pc[w] = "cleanup"
  /\ ctxDone' = ctxDone \ {w}
  /\ run' = [run EXCEPT ![w] = 0]
  /\ last' = [last EXCEPT ![w] = "none"]
  /\ steps' = [steps EXCEPT ![w] = 0]
  /\ seen' = [seen EXCEPT ![w] = FALSE]
  /\ outcome' = [outcome EXCEPT ![w] = "FAILED"]
  /\ task' = [task EXCEPT ![w] = None]
  /\ Goto(w, "idle")
  /\ UNCHANGED <<store, queue, queued, cancelTasks, env>>

\* The deferred function of executeTask: the entry of the task is deleted,
\* whichever execution registered it.
Cleanup(w) ==
  /\ pc[w] = "cleanup"
  /\ cancelTasks' = [cancelTasks EXCEPT ![task[w]] = None]
  /\ ctxDone' = ctxDone \ {w}
  /\ run' = [run EXCEPT ![w] = 0]
  /\ last' = [last EXCEPT ![w] = "none"]
  /\ steps' = [steps EXCEPT ![w] = 0]
  /\ seen' = [seen EXCEPT ![w] = FALSE]
  /\ outcome' = [outcome EXCEPT ![w] = "FAILED"]
  /\ task' = [task EXCEPT ![w] = None]
  /\ Goto(w, "idle")
  /\ UNCHANGED <<store, queue, queued, env>>

-----------------------------------------------------------------------------
(* Crash, restart and recoverTasks *)

Crash ==
  /\ crashes < MaxCrashes
  /\ crashes' = crashes + 1
  /\ queue' = <<>> /\ queued' = {} /\ ctxDone' = {}
  /\ cancelTasks' = [t \in Tasks |-> None]
  /\ pc' = [a \in Actors |-> IF a = Boot THEN "snapshot" ELSE "idle"]
  /\ task' = [a \in Actors |-> None]
  /\ run' = [w \in Workers |-> 0]
  /\ last' = [w \in Workers |-> "none"]
  /\ steps' = [w \in Workers |-> 0]
  /\ seen' = [w \in Workers |-> FALSE]
  /\ outcome' = [w \in Workers |-> "FAILED"]
  /\ toVisit' = {}
  /\ stranded' = {}
  /\ lost' = [t \in Tasks |-> OpenRuns(t)]
  /\ UNCHANGED <<store, requests>>

\* Mutant: recovery forgets one of the active statuses.
UnfinishedNotPlanning ==
  {t \in Tasks : status[t] \in {"CREATED"} \cup (Active \ {"PLANNING"})}

Unfinished == {t \in Tasks : status[t] \in {"CREATED"} \cup Active}

\* Without the list of tasks there is no recovery.
RecoverSnapshot ==
  /\ pc[Boot] = "snapshot"
  /\ \/ /\ toVisit' = {<<t, status[t]>> : t \in Unfinished}
        /\ Goto(Boot, "recover")
        /\ UNCHANGED stranded
     \/ /\ FaultyTasks # {}
        /\ Goto(Boot, "idle")
        /\ stranded' = stranded \cup Unfinished
        /\ UNCHANGED toVisit
  /\ UNCHANGED <<store, shared, task, local, requests, crashes, lost>>

RecoverVisit(t, s) ==
  /\ pc[Boot] = "recover"
  /\ <<t, s>> \in toVisit
  /\ toVisit' = toVisit \ {<<t, s>>}
  /\ task' = [task EXCEPT ![Boot] = t]
  /\ Goto(Boot, IF s = "CREATED" THEN "enq" ELSE "closeRuns")
  /\ UNCHANGED <<store, shared, local, requests, crashes, stranded, lost>>

\* The errors of FinishRun are ignored here too: a run may be kept open.
RecoverCloseRuns ==
  /\ pc[Boot] = "closeRuns"
  /\ \E kept \in SUBSET OpenRuns(task[Boot]) :
       /\ kept = {} \/ task[Boot] \in FaultyTasks
       /\ lost' = [lost EXCEPT ![task[Boot]] = kept]
       /\ runs' = [runs EXCEPT ![task[Boot]] = [i \in 1..Len(@) |->
                     IF @[i].ended \/ i \in kept THEN @[i]
                     ELSE [status |-> "FAILED", ended |-> TRUE]]]
  /\ Goto(Boot, "reset")
  /\ UNCHANGED <<status, feedback, skipProposed, skipContinued, shared, task, local,
                 toVisit, requests, crashes, stranded>>

\* Mutant: the task is reset and not enqueued.
RecoverResetUnqueued ==
  /\ pc[Boot] = "reset"
  /\ SetStatus(task[Boot], "CREATED")
  /\ Return(Boot)
  /\ UNCHANGED <<runs, feedback, skipProposed, skipContinued, shared, local, env>>

RecoverReset ==
  /\ pc[Boot] = "reset"
  /\ SetStatus(task[Boot], "CREATED")
  /\ Goto(Boot, "enq")
  /\ UNCHANGED <<runs, feedback, skipProposed, skipContinued, shared, task, local, env>>

\* The runs cannot be read or the status cannot be written: the next task.
RecoverFail ==
  /\ task[Boot] \in FaultyTasks
  /\ pc[Boot] \in {"closeRuns", "reset"}
  /\ stranded' = stranded \cup {task[Boot]}
  /\ Return(Boot)
  /\ UNCHANGED <<store, shared, local, toVisit, requests, crashes, lost>>

RecoverDone ==
  /\ pc[Boot] = "recover"
  /\ toVisit = {}
  /\ Goto(Boot, "idle")
  /\ UNCHANGED <<store, shared, task, local, env>>

-----------------------------------------------------------------------------
WorkerStep(w) ==
  \/ Receive(w) \/ MarkDequeued(w) \/ LoadTask(w) \/ RegisterCancel(w) \/ AddRun(w)
  \/ \E s \in Active : StepBegin(w, s)
  \/ StepEnd(w) \/ StepFail(w) \/ PlannerSkip(w)
  \/ \E s \in Settled : FinishTask(w, s)
  \/ CloseRun(w) \/ PersistMemories(w) \/ AutoReview(w)
  \/ FailCheck(w) \/ FailWrite(w) \/ FailClose(w) \/ Cleanup(w)

\* Steps of a call in progress, in a handler or inside a worker.
CallStep(a) ==
  \/ EnqueueMark(a) \/ EnqueueSend(a) \/ EnqueueTimeout(a) \/ EnqueueUnmark(a)
  \/ Approve(a) \/ Reject(a) \/ RecordContinue(a)
  \/ FeedbackWrite(a) \/ Reopen(a) \/ CallFail(a)

UserStep(u) == AddEvaluationRun(u) \/ CancelWrite(u) \/ CancelContext(u)

NewRequest(u) ==
  \E t \in Tasks :
    \/ CreateTask(u, t) \/ CancelCheck(u, t) \/ ReviewCheck(u, t)
    \/ \E original \in Tasks : RerunTask(u, original, t)

BootStep ==
  \/ RecoverSnapshot \/ RecoverCloseRuns \/ RecoverReset \/ RecoverFail \/ RecoverDone
  \/ \E t \in Tasks, s \in Status : RecoverVisit(t, s)

\* The system may rest when no request arrives and no work is left.
Rest ==
  /\ \A a \in Actors : pc[a] = "idle"
  /\ queue = <<>>
  /\ UNCHANGED vars

Next ==
  \/ \E w \in Workers : WorkerStep(w)
  \/ \E a \in Actors : CallStep(a)
  \/ \E u \in Users : UserStep(u) \/ NewRequest(u)
  \/ BootStep
  \/ Crash
  \/ Rest

Spec == Init /\ [][Next]_vars

\* The Go scheduler runs every goroutine that can run; requests and crashes
\* are up to the environment.
Fairness ==
  /\ \A w \in Workers : WF_vars(WorkerStep(w) \/ CallStep(w))
  /\ \A u \in Users : WF_vars(UserStep(u) \/ CallStep(u))
  /\ WF_vars(BootStep \/ CallStep(Boot))

FairSpec == Spec /\ Fairness
-----------------------------------------------------------------------------
(* Properties *)

\* Goroutines between the two halves of an enqueue or a dequeue: they hold
\* the queue entry of their task while it is not in the channel.
Holding(a) == pc[a] \in {"send", "unmark", "received"}

\* Queue deduplication (enqueue, markDequeued): the map holds exactly the
\* tasks that are in the channel, on their way in, or on their way out, and
\* no task is there twice, whatever the handlers and workers interleave.
QueueDedup ==
  /\ \A i, j \in 1..Len(queue) : queue[i] = queue[j] => i = j
  /\ \A i \in 1..Len(queue) : queue[i] \in queued
  /\ \A a \in Actors : Holding(a) => task[a] \in queued /\ ~Queued(task[a])
  /\ \A a, b \in Actors : Holding(a) /\ Holding(b) /\ task[a] = task[b] => a = b
  /\ \A t \in queued : Queued(t) \/ \E a \in Actors : Holding(a) /\ task[a] = t

\* A worker that took the task from the queue and has not yet overwritten
\* the status it was queued with.
Starting(w) ==
  \/ pc[w] \in {"received", "load", "register", "addRun"}
  \/ pc[w] \in {"ready", "failing", "failWrite"} /\ last[w] = "none"

\* recoverTasks has still to deal with the task.
InRecovery(t) ==
  \/ pc[Boot] = "snapshot"
  \/ \E s \in Status : <<t, s>> \in toVisit
  \/ pc[Boot] \in {"closeRuns", "reset"} /\ task[Boot] = t

\* No created task is forgotten: although an enqueue may be dropped because
\* the task is already marked as queued, someone is then always going to
\* execute it, unless an enqueue timed out or failed (stranded).
CreatedIsPending ==
  \A t \in Tasks : status[t] = "CREATED" =>
    \/ t \in stranded
    \/ Queued(t)
    \/ \E a \in Actors : task[a] = t /\ pc[a] \in {"evalRun", "record", "enq", "send"}
    \/ \E w \in Workers : task[w] = t /\ Starting(w)
    \/ InRecovery(t)

\* A task never stays in an active status with nobody working on it: a worker
\* that will write a settled status is running it, or recovery will reset it.
ActiveIsExecuted ==
  \A t \in Tasks : status[t] \in Active =>
    \/ t \in stranded
    \/ \E w \in Workers :
         task[w] = t /\ pc[w] \in {"ready", "agent", "skip", "failing", "failWrite"}
    \/ InRecovery(t)

Executing(w) ==
  pc[w] \in (WorkerPC \ {"idle", "received", "load", "register"}) \cup ReviewPC

\* A cancellation function in the map belongs to a running execution of that
\* very task, so CancelTask never cancels the context of another task.
CancelMapOwned ==
  \A t \in Tasks : cancelTasks[t] # None =>
    Executing(cancelTasks[t]) /\ task[cancelTasks[t]] = t

\* While recovery runs, no goroutine touches the tasks it has still to visit
\* (the workers are started before it, the HTTP server after it): the status
\* in its snapshot is still the stored one when the task's turn comes.
RecoveryIsolated ==
  \A t \in Tasks, s \in Status : <<t, s>> \in toVisit =>
    /\ status[t] = s
    /\ ~Queued(t)
    /\ \A a \in Actors : task[a] # t

\* A run is open only while its execution is under way: every exit of
\* executeTask ends the run it added, and every restart the runs it finds
\* open.  The only runs left open besides are those for which the FinishRun
\* that should have ended them failed, and those a crash cut off until
\* recovery comes to their task (lost).
OpenRunOwned ==
  \A t \in Tasks : \A i \in OpenRuns(t) :
    i \in lost[t] \/ \E w \in Workers : Executing(w) /\ task[w] = t /\ run[w] = i

\* Nobody is past the check that leads to a write on the task.
Undisturbed(t) ==
  \A a \in Actors : task[a] = t =>
    pc[a] \in {"received", "load", "enq", "send", "unmark", "cancelCtx", "cleanup"}

\* A task cancelled while it was queued stays cancelled for good and gets no
\* run: neither the stale queue item, nor a handler, nor a restart leads back
\* to a write on it (docs/05, Cancellation Semantics).
QueuedCancelHolds ==
  [][\A t \in Tasks : status[t] = "CANCELLED" /\ Undisturbed(t) =>
       status'[t] = "CANCELLED" /\ runs'[t] = runs[t] /\ Undisturbed(t)']_vars

\* Every task that is created, or found unfinished by a restarted process,
\* reaches a result, unless its enqueue or its failure write was given up.
TasksSettle ==
  \A t \in Tasks :
    status[t] \in {"CREATED"} \cup Active ~> status[t] \in Settled \/ t \in stranded

-----------------------------------------------------------------------------
(* What the documentation says and the code does not keep *)

\* docs/05: "Explicit terminal CANCELLED state", "context cancellation cannot
\* overwrite CANCELLED with FAILED".
CancelledIsFinal ==
  [][\A t \in Tasks : status[t] = "CANCELLED" => status'[t] = "CANCELLED"]_vars

\* README: "For normal patch review, approval completes the task and rejection
\* marks it failed"; once the reviewer has chosen to continue past a proposed
\* skip, the planner proposes none and every further review is a normal one.
RejectionFails ==
  [][\A a \in Actors :
       Reject(a) /\ task[a] \in skipContinued => status'[task[a]] = "FAILED"]_vars

\* docs/05: "Crash recovery leaves open runs: they must be closed before a
\* replacement run starts".
RunsClosedBeforeReplacement ==
  [][\A t \in Tasks : Len(runs'[t]) > Len(runs[t]) =>
       \A i \in 1..Len(runs[t]) : runs[t][i].ended]_vars

\* docs/05: "Running cancellation invokes the task-specific context cancel
\* function": after it no agent keeps running for the task with a live context.
CancelReachesExecution ==
  [][\A u \in Users, w \in Workers :
       CancelContext(u) /\ task[w] = task[u] /\ pc[w] = "agent" => w \in ctxDone']_vars

\* README: "The task re-enters the Agent loop with your feedback": planning
\* sees the feedback unless a run has answered it in the meantime.
FeedbackReachesPlanner ==
  [][\A w \in Workers :
       LET t == task[w]
           given == Len(feedback[t])
       IN  StepBegin(w, "PLANNING") /\ given > 0
             /\ (\A i \in (feedback[t][given] + 1)..(run[w] - 1) :
                   runs[t][i].status \notin {"COMPLETED", "HUMAN_REVIEW_REQUIRED"})
           => seen'[w]]_vars
=============================================================================
