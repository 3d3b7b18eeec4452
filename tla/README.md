# CodeCoDriver in TLA+

CodeCoDriver is a Go service that executes coding tasks with a team of language
model agents: a task is queued, planned, patched, tested in a sandbox, reviewed
and, when no agent is confident, handed to a human reviewer. This directory holds
TLA+ models of the parts of the service that are hard to test, TLC configurations
that check them on small instances, and TLAPS proofs of their main invariants for
every instance. Paths below are relative to `src/`; `service.go` stands for
`internal/runtime/service.go`.

## 1. Inventory

| Component | State it keeps | Operations | What makes it correct |
|---|---|---|---|
| Task runtime, one process (`service.go`) | channel `queue`, map `queued`, map `cancelTasks`; tasks, runs and artifacts in the store | create, rerun, cancel, approve, reject, continue, feedback; `executeTask`; `recoverTasks` | no task lost or duplicated, a cancellation reaches its execution and lasts, every task settles |
| Distributed runtime (`service.go` with a leaser, `internal/lease`) | lease key and fencing counter in Redis, tasks and runs in the store | `claimNextTask`, `renewLease`, release, recovery of a restarted process | leases exclude, tokens name executions, stale workers are fenced |
| Workflow (`internal/runtime/workflow.go`, `planner_skip.go`, `orchestrator.go`) | context data of one run, isolated workspace | orchestrator decisions, patch loop, finish | the tests run on the patch that is proposed, completion is earned, every run ends |
| Agents and tool loops (`agents.go`, `agent_tools.go`, `compaction.go`) | message history of one agent call | rounds of tool calls, compaction | loops end, the history stays within its budget |
| Evaluation (`service.go`, `internal/server/evaluation.go`) | evaluation runs and batches | create a suite, `finalizeEvaluation`, `recordEvalNote`, `refreshEvaluationBatch`, automatic review | a batch completes only with its runs, a pass has evidence, a result stays |
| Memory refinement (`service.go`, `internal/memory`) | refinement channel, pending map, memories and links | enqueue, refine with retry, deduplicate, detect conflicts, recover | one place at a time, marks name what is stored, no cycle of duplicates |
| Store (`internal/store`) | every persistent row | one transaction per call | the guarded writes |
| HTTP server (`internal/server`) | rate limiter | translates requests into runtime calls | at most the configured rate |
| Tool gateway (`internal/tools/gateway.go`) | registered tools and policies | `Call` with timeout and retries | bounded retries, policy before effect |
| Sandbox and workspaces (`internal/sandbox`) | copies of a repository, containers | prepare, run, reset, clean up | resources are released |
| Language model client, skills, indexer, retrieval, embeddings, reports | files, external services, text | called by the agents | mostly pure functions of text |

The components interact by calls of the runtime on the store, through the two
channels and the mutex-protected maps of `Service`, through context cancellation
and, with several processes, through Redis. What is hard: handlers and workers
interleave between a status they read and the write they decide on; a task may be
executed twice; processes die between two writes; leases expire under their
holder; enqueues time out; whole rows are written back from stale copies; a container
outlives the client that was killed at a time limit. `PROJECT.json` lists each hazard at its line.

## 2. Modules

| Module | What it is |
|---|---|
| `TaskStatus` | the statuses of `internal/domain/models.go` |
| `TaskRuntime` | one process: queue, workers, handlers, cancellation, review, crash and recovery |
| `FencedLock` | what the leases promise: per task a lock with at most one owner, granted under fresh tokens |
| `Lease` | the Redis commands of `internal/lease/redis.go` |
| `DistRuntime` | several processes on one store and one Redis; `ImplementsLock` is its refinement of `FencedLock` |
| `Evaluation` | suites, evaluation runs, batch counters, automatic review |
| `MemoryRefinement` | the refinement queue, its workers, duplicates, conflicts, the scan at start-up |
| `Workspace` | the Docker workspace of one task: volume, git index, orphan containers |
| `Execution` | one run: workflow, patch loop, tool loops, model client, on a `Workspace` |
| `PatchLoop` | what a run promises of its patch, attempt by attempt; `ImplementsLoop` is the refinement of it by `Execution` |
| `MC...` | the instances of each for TLC |
| `TaskRuntimeProofs`, `RunOwnershipProofs`, `CancellationProofs` | theorems about `TaskRuntime` |
| `DistRuntimeProofs`, `EvaluationProofs`, `EvaluationResultProofs`, `MemoryRefinementProofs`, `ExecutionProofs` | theorems about the others |

The modules meet at the interfaces of the code. `TaskRuntime` sees an execution as a
bounded sequence of status writes (`StepBegin`, `StepEnd`); `Execution` is what
happens between them. `Evaluation` sees it as one choice of an outcome (`Finish`,
`Fail`) and adds what `finishWorkflow` and `failForRun` do to the evaluation.
`MemoryRefinement` begins where `PersistMemories` of `TaskRuntime` hands over. Only
`Execution` and `Workspace`, and `DistRuntime` and `Lease`, share a state space:
joining the others would multiply states without a new interaction, since they
write disjoint rows.

### TaskRuntime

A goroutine is an actor with a program counter `pc`: the workers (`worker`), the
HTTP handlers in progress (`Users`) and the goroutine that runs `Start` (`Boot`).
`status`, `runs`, `feedback`, `skipProposed`, `skipContinued` are the store and
survive `Crash`; `queue`, `queued`, `cancelTasks`, `ctxDone` are the memory of the
process. Each store call, each critical section and each channel operation is one
action, so everything between them interleaves.

| Code | Actions |
|---|---|
| `enqueue` (mark under the mutex, send with a timeout of five seconds, unmark) | `EnqueueMark`, `EnqueueSend`, `EnqueueTimeout`, `EnqueueUnmark` |
| `worker`, `markDequeued` | `Receive`, `MarkDequeued` |
| `executeTask` | `LoadTask`, `RegisterCancel`, `AddRun`, the agents' steps `StepBegin`/`StepEnd`/`StepFail`, `Cleanup` for the deferred function |
| `finishWorkflow` | `FinishTask`, `CloseRun`, `PersistMemories` |
| `failForRun` | `FailCheck`, `FailWrite`, `FailClose` |
| `maybeAutoHandleEvaluationHumanReview` | `AutoReview`, followed by the same review actions a handler takes |
| `CancelTask` | `CancelCheck`, `CancelWrite`, `CancelContext` |
| `ResolveHumanReview`, `ContinueTaskWithFeedback` | `ReviewCheck`, `Approve`, `Reject`, `RecordContinue`, `FeedbackWrite`, `Reopen` |
| `recoverTasks` | `RecoverSnapshot`, `RecoverVisit`, `RecoverCloseRuns`, `RecoverReset`, `RecoverFail`, `RecoverDone` |

What an execution does between its status writes is a sequence of at most
`MaxSteps` writes chosen freely; `seen` keeps whether the planner saw the feedback.
A graceful shutdown (`cmd/api/main.go`) cancels every context and then ends the
process: it is the behaviour of `StepFail` followed by `Crash`.

The store may fail for a task of `FaultyTasks` in every call, also where the code
ignores the error: a `FinishRun` of the failure path (`service.go:1846`, `:1863`) or of
recovery (`:354`) that fails leaves the run open and the goroutine goes on (`EndRun`,
`RecoverCloseRuns`). Two history variables say what the code gives up: `stranded` holds
the tasks an enqueue timeout or a failed store call left behind until the next restart,
`lost` the runs of each task that a failed `FinishRun` or a crash left open.

### DistRuntime

Workers of all processes poll the store (`Scan`), try the claimable tasks of their
snapshot (`Draw` = `INCR`, `Set` = `SET NX PX`), read the task again under the
lease (`Check`), and execute it as above, with the guarded writes
`UpdateTaskForRun` and `FinishRunWithToken`; `FailCheck` and `FailClose` go on, the run
still open, when that last call fails. `Release` is the compare-and-delete
script. `Expire` deletes a key nobody renews, `ExpireRenewed` one whose holder is
too late. `RenewStop` is the renewal goroutine returning on its first error, after
which the execution goes on. `Restart` kills a process at any step and starts its
recovery while the others keep working. A failed `Set` has three outcomes: the
key is taken, the call failed, or the key was set and the reply lost.

`granted` and `expired` are history variables: the pairs of task and token that
ever held, or lost by expiry, a key.

### Evaluation

Each evaluation run and the batch are rows that the code reads in one call and writes
back whole in a later one, so a goroutine has its own copies (`mine`, `sheet`) and
the read and the write are two actions.

| Code | Actions |
|---|---|
| `createEvaluationSuite`, `CreateEvaluationTask` | `SuiteBegin`, `SuiteTask`, `SuiteRun` per case, `SuiteFail` |
| `executeTask`, end of `finishWorkflow` (also with `persistExecutionMemories` failing, when both statuses are finalized), `failForRun` | `Begin`, `Finish`, `Fail` |
| `finalizeEvaluation` with `hasRealSandboxPass` | `FinalizeRead`, `FinalizeWrite` (`Passes`) |
| `refreshEvaluationBatch` | `Refresh`, `Count` (`Tally`), `BatchWrite` |
| `maybeAutoHandleEvaluationHumanReview`, `evaluationFeedbackFromReview`, `recordEvalNote` | `AutoReview` (`AutoDecision`, `Verdicts`), `Note`, `Rejected`, `RejectNote` |
| `ResolveHumanReview`, `ContinueTaskWithFeedback`, `CancelTask` | `Request`, `Review`, `Cancel` |

A failing call of the store for a case of `FaultyCases` is an action of its own, next to
the one it replaces:

| Failing call | Action | What the code does then |
|---|---|---|
| read of the task taken from the queue | `BeginUnread` | drops it |
| read or write of the task in `failForRun` | `FailUnseen` | goes on, so that a cancelled task fails, or a failed one stays active |
| `AllEvaluationRuns` in `finalizeEvaluation` (1062-1065) | `FinalizeUnread` | returns |
| `UpdateEvaluationRun` in `finalizeEvaluation` (1086) | `FinalizeUnwritten` | goes on to the batch |
| reads of `hasRealSandboxPass` | `FinalizeUnproven` | the run has not passed |
| any call of `refreshEvaluationBatch` but the snapshot's | `RefreshFail` | leaves the batch as it is |
| `AddEvaluationMetricSnapshot` | `SnapshotLost` | goes on |
| the runs, for the automatic review | `AutoUnread` | no review |
| the artifacts, for the automatic review (`countHumanFeedback` returns 0, no proposal, no evidence) | `AutoMisread` (`MisreadDecision`) | decides on what it has |
| `recordEvalNote` | `NoteLost`, `RejectNoteLost` | no note |
| task, feedback or proposal in a review | `ReviewUnwritten`, `FeedbackLost`, `ProposalUnread` | no review; re-queued without the feedback; failed instead of re-queued |

`ended`, `touched` and `stranded` are history variables: the runs that ever became final;
the cases a person, a crash or a failing suite intervened in, or that were rejected
although a proposal to skip had not been read; and the cases whose start, finalization or
review a failing call cut off.

### MemoryRefinement

| Code | Actions |
|---|---|
| `persistExecutionMemories`, `persistFailureMemory` | `Store`, one memory after the other |
| `enqueueMemoryRefinement` (lock, send or drop, lock) | `Enqueue`, `Push` |
| `recoverMemoryRefinement` | `Scan`, then the same two |
| `memoryWorker`, `runMemoryRefinementWithRetry` | `Take`, `Decide` |
| `refineAll`, `persistRefinedMemory` | `Refine`, `Mark` |
| `dedupeAll`, `pickPrimary` | `Dedupe`, `Merge` |
| `resolveConflicts`, `resolveConflict` | `Conflict`, `Resolve`, `GroupSuccess`, `GroupFailure` |

Every store call of a visit is one action and may fail. `mine` and `found` are the
copies a visit works on; they are written back whole. Which texts are alike is the
constant `Similar`; which of two is the primary depends on counters the model does
not have and is free. `excused` holds the memories that are given up until the next
start: a full queue, a batch whose attempts are used up, an execution that could not
store all its memories, a scan over its limit.

### Workspace and Execution

`Workspace` is a record per task (does the volume exist, which edits do its files and
its git index hold, which containers outlived their client, what did those write)
with one operator per operation of `docker_workspace.go`. A killed docker client
leaves a container that may still write (`Orphan`, `Land`) and that makes
`docker volume rm` fail (`Close`).

`Execution` is `executeWorkflow`. `run.at` is its place, `loop` the counters of the
tool loop in progress, `work` the patch, the test report and the review in
`contextData`.

| Code | Actions |
|---|---|
| creation and deferred close of the workspace | `Create`, `CloseWorkspace` |
| the workflow loop, its nodes, the orchestrator | `Visit`, `Decide`, `Codebase`, `Explain`, `Finish` |
| `runPatchLoop` | `AfterTest`, `AfterReview`, `Replan`, `Reset` |
| `runPatchEditLoop`, `runNativePatchEditLoop` | `Answer`, `FinalAnswer`, `Read`, `Edit`, `Generate`, `Refuse`, `GiveUp`; `DescribePatch` without a model |
| `TestAgent.Run`, `RunTest` | `Test` |
| `ReviewerAgent.Run`, `runNativeAgentToolLoop` | `ReviewRound`, `Review` |
| `Gateway.Call` at its time limit | `Interrupted` |
| `CompleteWithTools` with its retries | `Retry`, `AgentFails` |

`PatchLoop` has three variables: the attempt, its patch and the phase of the run. The
mapping reads them off `run.attempt`, `work.proposal` and (`Phase`) the place of the run,
its test report and its outcome; the tool loops, retries, resets and late writes are
stuttering steps.

The answers of the model are free: any tool calls in any order, any decision. Whether
an edit applies, whether tests pass and where docker fails are free too. The text
client and the native client share the actions; they differ in `Rounds` (one call or
several) and in what a reviewer may ask for.

## 3. What the runs check

Every run finishes within about four minutes on two cores.

| Run | Instance | Shows |
|---|---|---|
| `task_core` | 2 tasks, 2 workers, 2 clients, queue of 1, 3 requests, store errors | `QueueDedup`, `CreatedIsPending`, `ActiveIsExecuted`, `CancelMapOwned`, `OpenRunOwned`, `QueuedCancelHolds` through every interleaving of enqueues, reviews, cancellations and failures, those whose errors `failForRun` ignores included |
| `task_recover` | an evaluation task and an ordinary one, a worker, a client, 2 crashes, store errors for the evaluation task and for recovery's snapshot, fairness | `CreatedIsPending`, `ActiveIsExecuted`, `RecoveryIsolated` where a worker reviews and re-enqueues its own task and recovery itself crashes, and `TasksSettle`: every task reaches a result or was given up |
| `dist_core` | 2 processes, 1 task, 2 requests, a failed call anywhere | `LeaseExclusive`, `RunTokensDiffer`, `ImplementsLock`, and `ResultsHold`: a worker with an old snapshot does not execute a settled task again |
| `dist_crash` | 2 workers, a crash of either process, fairness | `LeaseExclusive` and `ImplementsLock` over the crash, and `TasksSettle`: the survivor takes the task over |
| `dist_live` | 1 worker next to a recovering process, a crash, a failed call, a late renewal, 2 requests, fairness | `TasksSettle`, `ResultsHold` |
| `eval_batch` | 2 cases, one a possible duplicate, 2 workers, a client, one approval, cancellation, failing suite, crash or failing call of the store, fairness | `CompletionIsEarned`, `PassIsProven`, `SnapshotsAgree`, `ResultsAreFinal`, `TurnsBounded` (the automatic review ends) under overlapping whole-row writes, and `RunsSettle`: only a person, a crash, a failing suite or one of the failures in `stranded` keeps a run from a result |
| `memory_batch` | a success and two failures, all similar, from 2 executions, a recovery, queue of 1, 2 attempts, 2 faults, fairness | `QueuedOnce`, `DuplicatesAcyclic`, `MarksHaveSource`, `MarksAreKept`, and `MemoriesSettle` |
| `execution` | every workflow and model client, 3 edits of which one goes to an ignored path, 2 attempts, 2 faults, fairness | `PatchIsTested`, `CompletedIsEarned`, `VolumeReleased`, `ImplementsLoop` (every step is one of `PatchLoop`), and `ExecutionEnds`: the limits of the loops end a run whatever the model answers |

The modules with a type invariant check it in `task_core`, `dist_core`, `eval_batch`,
`memory_batch` and `execution`; in the last it says that no counter of a loop passes
its limit.

Four runs show where the code does less than its documents say:

- `task_cancel_final`: the next status write of the execution, or the end of the
  run, overwrites `CANCELLED` (docs/05).
- `task_reject`: once a planner has proposed to skip a task, every later rejection of
  that task by a reviewer re-queues it, since the artifacts of all its runs are
  searched for the proposal (README: a rejected patch review fails the task).
- `dist_fenced`: `UpdateTaskForRun` asks for the caller's own run row, which exists
  for ever; a worker without a lease overwrites the status of a newer run (docs/05).
- `execution_baseline`: `git clean -fdq` keeps what an attempt wrote to ignored
  paths, so the next attempt does not start from the baseline (docs/11).

### Further disagreements, without a run

Stated as formulas in the modules, each false of the model:

- `RunsClosedBeforeReplacement` (`TaskRuntime`): a crash between the final status and
  `FinishRun` leaves the run open for ever, since recovery looks at active tasks only.
- `CancelReachesExecution` (`TaskRuntime`): the deferred cleanup of one execution
  deletes the cancel function of the other execution of the task.
- `FeedbackReachesPlanner` (`TaskRuntime`): feedback is not seen after a crashed run.
- `OnlyInterruptedRunsClosed` (`DistRuntime`): recovery of one process ends the runs
  another one executes.
- `TerminalRunsComplete` (`Evaluation`): two workers finalize the last two runs; both
  count, the one that counted first writes last, and the batch stays `running` with
  all its runs final (docs/09-eval-token-bloat-incident.md:122 and :274).
- `ResultsStayFinal` (`Evaluation`): an approval that arrives while the worker is
  between reading and writing the evaluation run finalizes it, and the worker then
  writes `human_review_required` over the result. `ResultsAreFinal`, which leaves out
  cases a person touched, holds.
- `MarksStay` (`MemoryRefinement`): a memory marked as a duplicate, or put in a
  conflict group, while it waits in the queue loses the mark when its own batch is
  refined, because `persistRefinedMemory` writes the copy from the queue.

Visible in the actions:

- `failForRun` ignores the errors of `FinishRun` (`service.go:1846`, `:1863`) and so does
  recovery (`:354`): the run stays open without any crash, though docs/05:39 asks that
  such runs "must be closed before a replacement run starts". `OpenRunOwned` shows that
  nothing else leaves a run open;
- after a failed read or write in `finalizeEvaluation` (1062-1065, 1086) an evaluation run
  never becomes final and its batch never completes, and after a failed read in
  the automatic review it waits for ever (`stranded`). The run of a cancelled evaluation
  task never becomes final either (`Fail`, 1841-1850);
- when the memories of a completed execution cannot be stored the task is `FAILED` and its
  evaluation is finalized twice, as failed first; if that first finalization is lost, the
  second one counts the run as passed although its task failed (`Finish`, `FinalizeUnread`);
- the automatic review asks for a proposal to skip (1108), and `ResolveHumanReview` asks
  again (660). If only the first of these reads fails, the task is rejected and re-queued,
  and the note of the rejection, read before and written after, may overwrite the result
  of the next execution (`AutoMisread`; such cases are in `touched`). If the second fails
  too, or fails for a person's rejection, the task fails instead of being re-queued
  (`ProposalUnread`);
- a `CREATED` task found at start-up is given up when its enqueue times out
  (`EnqueueTimeout` of `Boot`);
- `recoverTasks` resets a task another process has settled since the snapshot
  (`RecoverReset`), which is why `ResultsHold` asks that no recovery visits the task;
- `INCR` and `SET NX` are two commands, so the worker that claims last may hold the
  older token;
- an edit that failed is reported as "already applied" when it is tried again
  (`Refused` counts calls, not successes; `agent_tools.go:521`, `:641`);
- the review of a last attempt whose tests failed may approve it and completes the
  task (`AfterReview`), while the reviewer's prompt forbids that approval
  (`agents.go:436`): nothing but the prompt does. `CompletedIsEarned` therefore says
  "passed, or the last attempt";
- a container that outlives its client keeps the volume, whose removal fails
  silently (docs/11:94 says the volume is cleaned up), which is why `VolumeReleased`
  asks for a run without faults.

### Bounds

`MaxRequests`, `MaxCrashes`, `MaxPolls`, `MaxDelays`, `MaxFailures`, `MaxFaults`,
`MaxDisturbances`, `MaxBusy` and `MaxRound` bound the environment; `MaxSteps` of
`TaskRuntime` and `DistRuntime` bounds the workflow they abstract. The other limits
(`QueueCap`, `QueueCapacity`, `MaxFeedbackTurns`, `MaxTurns`, and the `Max...` of
`Execution` and `MemoryRefinement`) exist in the code and are smaller in the runs, so
that each is reached.

- Tasks: queues of capacity one and two tasks suffice for an enqueue to wait, time out
  or be dropped; two workers and two clients for every pairwise race, including two
  executions of one task; two crashes for a crash during recovery.
- Leases: one task suffices, since keys and tokens of different tasks are independent.
  `Skip` replaces `Draw` for a key that is held once `MaxPolls` is used up, since a
  worker polls for ever.
- Store errors: `task_core` has them for both tasks. `task_recover` has them for the
  evaluation task only, the one with the longer path (it also reviews and re-queues
  itself): failures of both under two crashes are too many states, and those of an ordinary
  task are in `task_core`.
  There is no crash in `task_core`; that `OpenRunOwned` also holds across crashes and a
  failing recovery is what the theorem adds.
- Evaluation: with two cases and two workers both finalizations, notes and refreshes
  overlap pairwise; one disturbance lets a person, a crash, a failing suite or a failing
  call meet any of them; one feedback turn exercises both sides of the turn limit. The
  calls fail for `c1`, which can do all that `c2` can and may also be proposed as a
  duplicate; `c2` is the run whose counts and snapshots such a failure could spoil.
- Memories: three similar memories of both kinds are the least that can form a chain of
  duplicates next to a conflict; two executions and the recovery compete for a queue of
  one; two faults reach a retry that fails as well, or a crash after a failure. One
  memory worker is what `Start` runs by default; `DuplicatesAcyclic` and `MarksAreKept`
  are claimed, and proved, for it only.
- Execution: two tracked edits and an ignored one tell "in the diff" from "on disk"; two
  attempts give one reset; each tool limit is one or two; two faults let an interrupted
  edit land after a reset that is itself followed by a fault.

The theorems depend on none of these bounds: they hold for any `FaultyTasks` and
`FaultyCases` and any number of crashes and disturbances.

### Fairness

`WF` of each goroutine's next step (the Go scheduler runs what can run) and of
`Expire` (Redis removes a key whose time to live has passed). In `Execution` one
goroutine does everything, and each of its calls comes back: the model client and the
gateway have time limits, and docker answers. In `Evaluation` a worker takes tasks and
goes on with them; the handlers, of the suite too, may stall for ever. In `MemoryRefinement` the
memory workers, the recovery and an execution that has begun to store its memories go
on. Requests, crashes, failures, delays, restarts and late writes are never fair:
nothing forces them, and their number is bounded by the constants above.

## 4. What is proved

For any number of tasks, workers, clients, processes, cases, memories and edits, any
capacity and any values of the limits and bounds. The assumptions are those of the
modules: the kinds of actors are disjoint, `None` is not a task, the workflow writes
active statuses, the suite is finite, limits the code sets are positive, executions produce
different memories (each gets a new identifier) and `None` is neither a memory nor a
pattern.

`TaskRuntimeProofs`:

- `TypeCorrect`: types, and that each goroutine is at a point of its kind.
- `QueueDeduplicated`: `QueueDedup`, inductive with the type invariant alone.
- `RecoveryIsIsolated`: needs `RecoveryInv`, which adds that no request is being
  handled until `Start` has returned, that nothing is queued and nobody holds a task
  when the snapshot is taken, and that no task is left to visit outside recovery.
- `CancelMapIsOwned`, `ActiveTasksExecuted` (with `RecoveryInv`), and
- `CreatedTasksPending`: needs `QueueDedup` (a task that is marked is really on its
  way, so a dropped enqueue loses nothing), `RecoveryInv`, and `FreshInv` (an enqueue
  that gives up has left its task stranded, and a worker that has not added its run
  has written no status yet).

Most actions are shown once to be *local steps* (they touch the actor's own task
and nothing of another actor); a lemma per invariant then handles local steps, and
only the actions an invariant is about are treated one by one.

`DistRuntimeProofs`:

- `TypeCorrect`.
- `ResultsAreKept` (`ResultsHold`), an action property that needs no invariant but the
  types: no step of a worker, a handler or a recovery that is not at work on the task
  (`Quiet`) touches its rows, and the ways to become so (`Check`, a decision, a visit) ask
  for a status that a settled task does not have.
- `LeasesExclude` (`LeaseExclusive`), `RunTokensUnique` (`RunTokensDiffer`) and
  `LeasesImplementLock` (`ImplementsLock`, the refinement of `FencedLock`).

They follow from `LeaseInv`: tokens in use are distinct and drawn from the counter
(`TokensDrawn`); a key holds a granted token that has not expired, and a token
whose `SET` is still to come was never granted (`KeysGranted`); whoever was told it
has the lease has it or lost it to expiry (`ClaimsKept`); a token labels no run
before its worker stores one (`TokensLabel`). `LeaseExclusive` is not inductive
alone: it says nothing of a worker between `INCR` and `SET`, nor why a late release
cannot match a successor's key. Every action is reduced to one of five kinds of
step: nothing moves (`QuietStep`), a token is drawn, a key is granted, a key goes
(`KeyGone`), a run is stored.

`RunOwnershipProofs`: `OpenRunsOwned` (`OpenRunOwned`): an open run is the run of a worker
that executes its task, or its own `FinishRun` failed, or a crash interrupted it and
recovery has not closed it (`lost`), whatever else fails. `RunInv` adds that
a worker has no run before `AddRun`, that its run exists from then on, and that at the
points after the end of the run it has been ended or is recorded in `lost`; `LostKept` says
that a step drops from `lost` only runs it has closed.

`CancellationProofs`: `QueuedCancellationsHold` (`QueuedCancelHolds`). It needs that
recovery never has a cancelled task to visit (`SnapshotInv`). At the points a goroutine
may be at for an undisturbed task (`HarmlessPoints`) it writes neither status nor runs,
and it leaves them only by dropping the task.

`EvaluationProofs`:

- `CompletionsEarned` (`CompletionIsEarned`). `EarnedInv` adds what the stale copies hold: a
  run that is final has been recorded as ended, and no copy of the batch in any goroutine
  says `completed` before all cases have ended. The step that matters is `Count`, where the
  number of final runs reaching the number of cases means that all of them are final (a
  finite set has no proper subset of its size).
- `Types` (`TypeOK`). `Shape` says what a goroutine holds where it matters; `SuiteInv` says
  that the suite runs once and that nobody works on a case before its task is queued.
- `TurnsAreBounded` (`TurnsBounded`). `TurnsInv` counts goroutines: a case is queued or worked
  on once, and once more per disturbance (`Live`; a failing call is one), and the feedbacks given together with
  those owed (`Owes`) stay within the limit and the disturbances. The bound on the turns
  alone says nothing of a worker that has decided and not yet written.

`EvaluationResultProofs`: `PassesAreProven` (`PassIsProven`), `ResultsKept`
(`ResultsAreFinal`) and `SnapshotsAgreeAlways` (`SnapshotsAgree`). The code takes no lock
between reading and writing an evaluation run; what protects it is that one worker at a time
owns a case nobody intervened in. `OwnInv` says so, with what the owner's copy holds at each
point: a row it is about to finalize is not final, one it is about to annotate waits for a
review and equals the copy. A worker whose `FAILED` could not be written counts as an owner
of an active task (`Unsettled`), so a failing store call takes a case from nobody. `MetricInv` adds that a recorded metric is the number of passed
runs, all of which are final and so never change.

`MemoryRefinementProofs`: `RefinementTypes`; `MarksHaveSources` (`MarksHaveSource`), where
every copy a worker holds, and not only every stored row, names sources that are stored
(`CopyInv`, `PointInv`), since any copy may be written at any time; and
`MemoriesQueuedOnce` (`QueuedOnce`), where `QueueInv` says of each memory that it is in the
queue, with a worker or being pushed, in one of these only and once, and pending exactly
then.

With one memory worker (`OneWorker`, the default of `CODECODRIVER_MEMORY_WORKERS`) also
`NoDuplicateCircle` (`DuplicatesAcyclic`) and `MarksKept` (`MarksAreKept`). `MarksInv` says
that an execution stores memories that are new (`FreshInv`), and that the copies of the worker
are what is stored, up to the marks it has written itself; while it merges, the memories it
is still to compare are no duplicates and the one it visits duplicates a visible one only
(`VisitedInv`). A new link then leads to a memory that is not a duplicate, and can close no
circle. `DuplicatesAcyclic` speaks of sets of memories and not of chains, which would need
induction over data. With two workers TLC finds both properties violated: each copies what
the other is about to mark.

`ExecutionProofs`: `ExecutionTypes`, `PatchesAreTested`, `CompletionsAreEarned`,
`VolumesAreReleased`. `PlaceInv` says what holds at each place of a run (an attempt starts
without the last one's patch and report; only a passing report is reviewed while
attempts are left). `TreeInv` says what the volume holds (what is staged is in the files,
and at the tests the files are the proposal but for ignored files and late writes).
`RunsImplementLoop` (`ImplementsLoop`) maps every step to a step of `PatchLoop` or a stutter,
from the same invariant and `FirstAttempt`: no attempt is counted before the patch loop, so a
run that ends there made none.

Only model-checked: liveness (`TasksSettle` of both modules, `RunsSettle`,
`MemoriesSettle`, `ExecutionEnds`), which is out of the prover's reach. Every invariant and
every other action property of a passing run is stated by a theorem, as are both refinements.

## 5. Not modelled, and the plan

Left out of the modelled components:

- what the test command itself writes to the volume (`Test` of `Execution` reads it only);
- which run an artifact belongs to, in `Evaluation`: the evidence of a task is one boolean.
  `hasReviewerApproval` (`service.go:1196`) takes the newest review of any run and
  `hasRealSandboxPass` the test report of the latest one, so that a review of an earlier
  run may vouch for a later one; that is below this abstraction and no property shows it;
- the retries of the tool gateway: no registered policy asks for any (`gateway.go`);
- the host path of `internal/sandbox/runner.go` and `PreflightDiff`: the codebase agent
  fails without a Docker workspace, so no run of the service reaches them;
- the planner's text, prompts, compaction of the history (it rewrites old messages and
  changes no counter of a loop), token accounting, audit records;
- index requests, repositories and the skill registry, whose state no property sees;
- the rate limiter: one critical section over a window of times, without interleaving;
- reports and dashboard (read-only aggregation into JSON), the repository indexer,
  retrieval, embeddings, MCP and sidecar clients: pure functions of text and numbers, or
  one request and its answer.

Next, in this order:

1. `Execution` as a refinement of the status writes of `TaskRuntime`.
2. The rate limiter and the report aggregation as functions against reference definitions.

Not planned: prompt texts, language model answers, embeddings and text ranking
(free choices wherever a model needs them), JSON formatting, the dashboard.
