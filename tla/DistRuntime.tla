---------------------------- MODULE DistRuntime ----------------------------
(***************************************************************************)
(* The distributed runtime (internal/runtime/service.go with a leaser):    *)
(* several processes share the store and Redis.  Their workers poll the    *)
(* store for claimable tasks, claim a lease, execute the task under the    *)
(* lease's fencing token and release it.  A process may die at any step    *)
(* and a restarted one runs recoverTasks while the others keep working.    *)
(* Every store call and every Redis command is a step of its own.          *)
(*                                                                         *)
(* There is no queue: enqueue returns at once when there is a leaser.  A   *)
(* lease may expire at any time, also while it is being renewed (the       *)
(* process is paused, Redis is unreachable, the renewal is late); that it  *)
(* does expire is only assumed when nobody renews it.  The tasks are not   *)
(* explanation tasks, whose completed result accepts feedback.             *)
(***************************************************************************)
EXTENDS Naturals, Sequences, FiniteSets, TaskStatus, Lease

CONSTANTS
  Workers,      \* distributedWorker goroutines of all processes
  Users,        \* HTTP handler goroutines of all processes
  Procs,        \* API processes
  Home,         \* the process of each worker and handler
  None,         \* no task
  WorkStatus,   \* statuses an execution writes on its way
  MaxSteps,     \* status writes of one run, a bound on the workflow
  MaxRequests,  \* HTTP requests in a behaviour
  MaxCrashes,   \* crashes of processes in a behaviour
  MaxPolls,     \* claims attempted while another worker holds the lease
  MaxDelays,    \* leases that expire under a worker that still renews them
  MaxFailures   \* failed calls on the store or on Redis

ASSUME DistAssumption ==
  /\ \A x \in Workers \cup Users : Home[x] \in Procs
  /\ None \notin Tasks
  /\ WorkStatus \subseteq Active
ASSUME DistBounds ==
  /\ MaxSteps \in Nat /\ MaxRequests \in Nat /\ MaxCrashes \in Nat
  /\ MaxPolls \in Nat /\ MaxDelays \in Nat /\ MaxFailures \in Nat

VARIABLES
  \* in the store
  status,     \* Task.Status, "ABSENT" before AddTask
  runs,       \* the task's runs, oldest first
  \* worker goroutines
  pc,         \* what the worker does next
  toTry,      \* claimNextTask: tasks of the snapshot still to try
  task,       \* the task being claimed or executed
  token,      \* the token drawn for it
  run,        \* the worker's run, 0 before AddRun
  steps,      \* status writes of this run
  outcome,    \* finalStatus of the run being finished
  renewing,   \* the renewal goroutine of the execution is alive
  \* recovery goroutine of each process
  boot,       \* what it does next
  toVisit,    \* active tasks of its snapshot still to visit
  visiting,   \* the task it recovers
  toClose,    \* the runs it found open
  \* HTTP handlers
  decision,   \* the write a handler has decided on
  \* bounds
  requests, crashes, polls, delays, failures

stored == <<status, runs>>
claim == <<toTry, task, token>>
execution == <<run, steps, outcome, renewing>>
recovery == <<boot, toVisit, visiting, toClose>>
bounds == <<requests, crashes, polls, delays, failures>>
vars == <<stored, leaseVars, pc, claim, execution, recovery, decision, bounds>>

RunRec == [token : Nat, status : Status, ended : BOOLEAN]
WorkerPC == {"idle", "scan", "set", "check", "giveUp", "load", "addRun", "work",
             "close", "post", "failing", "failWrite", "failClose", "release"}
Decisions == [task : Tasks, status : Status]

StoreOK ==
  /\ status \in [Tasks -> Status \cup {"ABSENT"}]
  /\ runs \in [Tasks -> Seq(RunRec)]

ClaimOK ==
  /\ pc \in [Workers -> WorkerPC]
  /\ toTry \in [Workers -> SUBSET Tasks]
  /\ task \in [Workers -> Tasks \cup {None}]
  /\ token \in [Workers -> Nat]
  /\ \A w \in Workers : task[w] = None <=> pc[w] \in {"idle", "scan"}

ExecutionOK ==
  /\ run \in [Workers -> Nat]
  /\ steps \in [Workers -> Nat]
  /\ outcome \in [Workers -> Settled]
  /\ renewing \in [Workers -> BOOLEAN]

RecoveryOK ==
  /\ boot \in [Procs -> {"idle", "snapshot", "recover", "closeRuns"}]
  /\ toVisit \in [Procs -> SUBSET Tasks]
  /\ visiting \in [Procs -> Tasks \cup {None}]
  /\ toClose \in [Procs -> SUBSET Nat]
  /\ \A p \in Procs : visiting[p] = None <=> boot[p] # "closeRuns"

HandlersOK == decision \in [Users -> {<<>>} \cup Decisions]

BoundsOK ==
  /\ requests \in Nat /\ crashes \in Nat /\ polls \in Nat
  /\ delays \in Nat /\ failures \in Nat

\* Every variable has its type; a worker has a task exactly while it claims or
\* executes one, a recovery exactly while it closes the runs of one.
TypeOK ==
  LeaseTypeOK /\ StoreOK /\ ClaimOK /\ ExecutionOK /\ RecoveryOK /\ HandlersOK /\ BoundsOK

Init ==
  /\ LeaseInit
  /\ status = [t \in Tasks |-> "ABSENT"]
  /\ runs = [t \in Tasks |-> <<>>]
  /\ pc = [w \in Workers |-> "idle"]
  /\ toTry = [w \in Workers |-> {}]
  /\ task = [w \in Workers |-> None]
  /\ token = [w \in Workers |-> 0]
  /\ run = [w \in Workers |-> 0]
  /\ steps = [w \in Workers |-> 0]
  /\ outcome = [w \in Workers |-> "FAILED"]
  /\ renewing = [w \in Workers |-> FALSE]
  /\ boot = [p \in Procs |-> "idle"]
  /\ toVisit = [p \in Procs |-> {}]
  /\ visiting = [p \in Procs |-> None]
  /\ toClose = [p \in Procs |-> {}]
  /\ decision = [u \in Users |-> <<>>]
  /\ requests = 0 /\ crashes = 0 /\ polls = 0 /\ delays = 0 /\ failures = 0

-----------------------------------------------------------------------------
(* Helpers *)

Goto(w, p) == pc' = [pc EXCEPT ![w] = p]
SetStatus(t, s) == status' = [status EXCEPT ![t] = s]

\* A call on the store or on Redis fails.
Failure == failures < MaxFailures /\ failures' = failures + 1

\* The row of the execution's own run: UpdateTaskForRun and FinishRunWithToken
\* look for it and for nothing else.
OwnRow(w) ==
  run[w] \in 1..Len(runs[task[w]]) /\ runs[task[w]][run[w]].token = token[w]

FinishRun(t, i, s) ==
  runs' = [runs EXCEPT ![t][i] = [@ EXCEPT !.status = s, !.ended = TRUE]]

OpenRuns(t) == {i \in 1..Len(runs[t]) : ~runs[t][i].ended}

\* Mutant: the tasks a dead process left in a working status are not polled.
ClaimableCreated(s) == s = "CREATED"

Claimable(s) == s \in {"CREATED"} \cup Active

-----------------------------------------------------------------------------
(* claimNextTask *)

Scan(w) ==
  /\ pc[w] = "idle"
  /\ \E t \in Tasks : Claimable(status[t])
  /\ toTry' = [toTry EXCEPT ![w] = {t \in Tasks : Claimable(status[t])}]
  /\ Goto(w, "scan")
  /\ UNCHANGED <<stored, leaseVars, task, token, execution, recovery, decision, bounds>>

\* First half of TryClaim.  Workers poll for ever: how often one tries while
\* the lease is held is bounded, beyond the bound the task is skipped.
Draw(w, t) ==
  /\ pc[w] = "scan"
  /\ t \in toTry[w]
  /\ lease[t] # 0 => polls < MaxPolls
  /\ polls' = IF lease[t] = 0 THEN polls ELSE polls + 1
  /\ toTry' = [toTry EXCEPT ![w] = @ \ {t}]
  /\ \/ /\ DrawToken(t)
        /\ task' = [task EXCEPT ![w] = t]
        /\ token' = [token EXCEPT ![w] = fencing[t] + 1]
        /\ Goto(w, "set")
        /\ UNCHANGED failures
     \/ Failure /\ UNCHANGED <<fencing, task, token, pc>>
  /\ UNCHANGED <<stored, lease, granted, expired, execution, recovery, decision,
                 requests, crashes, delays>>

Skip(w, t) ==
  /\ pc[w] = "scan"
  /\ t \in toTry[w]
  /\ lease[t] # 0 /\ polls = MaxPolls
  /\ toTry' = [toTry EXCEPT ![w] = @ \ {t}]
  /\ UNCHANGED <<stored, leaseVars, pc, task, token, execution, recovery, decision, bounds>>

\* The claim is given up and the next task of the snapshot is tried.
NextTry(w) ==
  /\ Goto(w, "scan")
  /\ task' = [task EXCEPT ![w] = None]
  /\ token' = [token EXCEPT ![w] = 0]

\* Second half of TryClaim.  When the reply is lost the key may have been set
\* all the same, and the worker leaves it to its time to live.
Set(w) ==
  /\ pc[w] = "set"
  /\ \/ SetIfAbsent(task[w], token[w]) /\ UNCHANGED failures
     \/ UNCHANGED <<lease, granted>> /\ Failure
     \/ SetIfAbsent(task[w], token[w]) /\ lease[task[w]] = 0 /\ Failure
  /\ IF lease'[task[w]] = token[w] /\ failures' = failures
     THEN Goto(w, "check") /\ UNCHANGED <<task, token>>
     ELSE NextTry(w)
  /\ UNCHANGED <<stored, fencing, expired, toTry, execution, recovery, decision,
                 requests, crashes, polls, delays>>

\* Mutant: the snapshot's status is trusted.
CheckSkipped(w) ==
  /\ pc[w] = "check"
  /\ Goto(w, "load")
  /\ renewing' = [renewing EXCEPT ![w] = TRUE]
  /\ UNCHANGED <<stored, leaseVars, claim, run, steps, outcome, recovery, decision, bounds>>

\* Mutant: the loop goes on to the next task with the lease in hand.
CheckUnreleased(w) ==
  /\ pc[w] = "check"
  /\ IF Claimable(status[task[w]])
     THEN Goto(w, "load") /\ renewing' = [renewing EXCEPT ![w] = TRUE]
     ELSE Goto(w, "scan") /\ UNCHANGED renewing
  /\ UNCHANGED <<stored, leaseVars, claim, run, steps, outcome, recovery, decision, bounds>>

\* The task is read again under the lease; executeClaimed starts the renewal.
Check(w) ==
  /\ pc[w] = "check"
  /\ \/ /\ Claimable(status[task[w]])
        /\ Goto(w, "load")
        /\ renewing' = [renewing EXCEPT ![w] = TRUE]
        /\ UNCHANGED failures
     \/ /\ ~Claimable(status[task[w]])
        /\ Goto(w, "giveUp")
        /\ UNCHANGED <<renewing, failures>>
     \/ Failure /\ Goto(w, "giveUp") /\ UNCHANGED renewing
  /\ UNCHANGED <<stored, leaseVars, claim, run, steps, outcome, recovery, decision,
                 requests, crashes, polls, delays>>

\* The lease is released; an error of Redis is ignored.
Delete(w) ==
  \/ DeleteIfEqual(task[w], token[w]) /\ UNCHANGED failures
  \/ UNCHANGED lease /\ Failure

GiveUp(w) ==
  /\ pc[w] = "giveUp"
  /\ Delete(w)
  /\ NextTry(w)
  /\ UNCHANGED <<stored, fencing, granted, expired, toTry, execution, recovery, decision,
                 requests, crashes, polls, delays>>

ScanEnd(w) ==
  /\ pc[w] = "scan"
  /\ toTry[w] = {}
  /\ Goto(w, "idle")
  /\ UNCHANGED <<stored, leaseVars, claim, execution, recovery, decision, bounds>>

-----------------------------------------------------------------------------
(* executeClaimed and executeTask *)

\* UpdateTaskForRun: ErrStaleRun when the execution's own row is not there.
UpdateTaskForRun(w, s) == OwnRow(w) /\ SetStatus(task[w], s)

\* FinishRunWithToken.
FinishOwnRun(w, s) == OwnRow(w) /\ FinishRun(task[w], run[w], s)

\* A task that is cancelled or cannot be read is not executed.
Load(w) ==
  /\ pc[w] = "load"
  /\ \/ status[task[w]] # "CANCELLED" /\ Goto(w, "addRun") /\ UNCHANGED failures
     \/ status[task[w]] = "CANCELLED" /\ Goto(w, "release") /\ UNCHANGED failures
     \/ Failure /\ Goto(w, "release")
  /\ UNCHANGED <<stored, leaseVars, claim, execution, recovery, decision,
                 requests, crashes, polls, delays>>

AddRun(w) ==
  /\ pc[w] = "addRun"
  /\ \/ LET row == [token |-> token[w], status |-> "INDEX_CHECK", ended |-> FALSE]
        IN  /\ runs' = [runs EXCEPT ![task[w]] = Append(@, row)]
            /\ run' = [run EXCEPT ![w] = Len(runs[task[w]]) + 1]
            /\ Goto(w, "work")
            /\ UNCHANGED failures
     \/ Failure /\ Goto(w, "failing") /\ UNCHANGED <<runs, run>>
  /\ UNCHANGED <<status, leaseVars, claim, steps, outcome, renewing, recovery, decision,
                 requests, crashes, polls, delays>>

\* The status write at the head of each agent step.
StepBegin(w, s) ==
  /\ pc[w] = "work"
  /\ steps[w] < MaxSteps
  /\ UpdateTaskForRun(w, s)
  /\ steps' = [steps EXCEPT ![w] = @ + 1]
  /\ UNCHANGED <<runs, leaseVars, pc, claim, run, outcome, renewing, recovery, decision, bounds>>

\* An agent returns an error or the store fails on a write of the execution.
StepFail(w) ==
  /\ \/ pc[w] = "work" /\ UNCHANGED failures
     \/ pc[w] \in {"close", "post"} /\ Failure
  /\ Goto(w, "failing")
  /\ UNCHANGED <<stored, leaseVars, claim, execution, recovery, decision,
                 requests, crashes, polls, delays>>

Finish(w, s) ==
  /\ pc[w] = "work"
  /\ steps[w] > 0
  /\ UpdateTaskForRun(w, s)
  /\ outcome' = [outcome EXCEPT ![w] = s]
  /\ Goto(w, "close")
  /\ UNCHANGED <<runs, leaseVars, claim, run, steps, renewing, recovery, decision, bounds>>

CloseRun(w) ==
  /\ pc[w] = "close"
  /\ FinishOwnRun(w, outcome[w])
  /\ Goto(w, "post")
  /\ UNCHANGED <<status, leaseVars, claim, execution, recovery, decision, bounds>>

\* The memories and the evaluation are written; then executeTask returns.
PersistMemories(w) ==
  /\ pc[w] = "post"
  /\ Goto(w, "release")
  /\ UNCHANGED <<stored, leaseVars, claim, execution, recovery, decision, bounds>>

\* failForRun: a cancelled task keeps its status, unless it cannot be read.
\* The errors of FinishRunWithToken are ignored: the run may stay open.
FailCheck(w) ==
  /\ pc[w] = "failing"
  /\ \/ /\ status[task[w]] = "CANCELLED"
        /\ Goto(w, "release")
        /\ \/ /\ IF OwnRow(w) THEN FinishOwnRun(w, "CANCELLED") ELSE UNCHANGED runs
              /\ UNCHANGED failures
           \/ Failure /\ UNCHANGED runs
     \/ /\ status[task[w]] # "CANCELLED"
        /\ Goto(w, "failWrite")
        /\ UNCHANGED <<runs, failures>>
     \/ Failure /\ Goto(w, "failWrite") /\ UNCHANGED runs
  /\ UNCHANGED <<status, leaseVars, claim, execution, recovery, decision,
                 requests, crashes, polls, delays>>

\* Before the run exists the write has no token and is not guarded.
FailWrite(w) ==
  /\ pc[w] = "failWrite"
  /\ \/ /\ IF run[w] = 0 THEN SetStatus(task[w], "FAILED") ELSE UpdateTaskForRun(w, "FAILED")
        /\ UNCHANGED failures
     \/ Failure /\ UNCHANGED status
  /\ Goto(w, IF run[w] = 0 THEN "release" ELSE "failClose")
  /\ UNCHANGED <<runs, leaseVars, claim, execution, recovery, decision,
                 requests, crashes, polls, delays>>

FailClose(w) ==
  /\ pc[w] = "failClose"
  /\ \/ FinishOwnRun(w, "FAILED") /\ UNCHANGED failures
     \/ Failure /\ UNCHANGED runs
  /\ Goto(w, "release")
  /\ UNCHANGED <<status, leaseVars, claim, execution, recovery, decision,
                 requests, crashes, polls, delays>>

\* The renewal is stopped and the lease released.
Release(w) ==
  /\ pc[w] = "release"
  /\ Delete(w)
  /\ Goto(w, "idle")
  /\ task' = [task EXCEPT ![w] = None]
  /\ token' = [token EXCEPT ![w] = 0]
  /\ toTry' = [toTry EXCEPT ![w] = {}]
  /\ run' = [run EXCEPT ![w] = 0]
  /\ steps' = [steps EXCEPT ![w] = 0]
  /\ outcome' = [outcome EXCEPT ![w] = "FAILED"]
  /\ renewing' = [renewing EXCEPT ![w] = FALSE]
  /\ UNCHANGED <<stored, fencing, granted, expired, recovery, decision,
                 requests, crashes, polls, delays>>

\* renewLease returns on the first error; the execution goes on.
RenewStop(w) ==
  /\ renewing[w]
  /\ \/ lease[task[w]] # token[w] /\ UNCHANGED failures
     \/ Failure
  /\ renewing' = [renewing EXCEPT ![w] = FALSE]
  /\ UNCHANGED <<stored, leaseVars, pc, claim, run, steps, outcome, recovery, decision,
                 requests, crashes, polls, delays>>

\* The lease is renewed, or was claimed just before and the renewal will start.
Renewed(t) ==
  \E w \in Workers :
    /\ task[w] = t /\ token[w] = lease[t]
    /\ renewing[w] \/ pc[w] \in {"check", "giveUp"}

Expire(t) ==
  /\ ~Renewed(t)
  /\ ExpireKey(t)
  /\ UNCHANGED <<stored, fencing, granted, pc, claim, execution, recovery, decision, bounds>>

\* The holder is too late.
ExpireRenewed(t) ==
  /\ Renewed(t)
  /\ delays < MaxDelays
  /\ delays' = delays + 1
  /\ ExpireKey(t)
  /\ UNCHANGED <<stored, fencing, granted, pc, claim, execution, recovery, decision,
                 requests, crashes, polls, failures>>

-----------------------------------------------------------------------------
(* A process dies, starts again and runs recoverTasks *)

Restart(p) ==
  /\ crashes < MaxCrashes
  /\ crashes' = crashes + 1
  /\ pc' = [w \in Workers |-> IF Home[w] = p THEN "idle" ELSE pc[w]]
  /\ toTry' = [w \in Workers |-> IF Home[w] = p THEN {} ELSE toTry[w]]
  /\ task' = [w \in Workers |-> IF Home[w] = p THEN None ELSE task[w]]
  /\ token' = [w \in Workers |-> IF Home[w] = p THEN 0 ELSE token[w]]
  /\ run' = [w \in Workers |-> IF Home[w] = p THEN 0 ELSE run[w]]
  /\ steps' = [w \in Workers |-> IF Home[w] = p THEN 0 ELSE steps[w]]
  /\ outcome' = [w \in Workers |-> IF Home[w] = p THEN "FAILED" ELSE outcome[w]]
  /\ renewing' = [w \in Workers |-> renewing[w] /\ Home[w] # p]
  /\ decision' = [u \in Users |-> IF Home[u] = p THEN <<>> ELSE decision[u]]
  /\ boot' = [boot EXCEPT ![p] = "snapshot"]
  /\ toVisit' = [toVisit EXCEPT ![p] = {}]
  /\ visiting' = [visiting EXCEPT ![p] = None]
  /\ toClose' = [toClose EXCEPT ![p] = {}]
  /\ UNCHANGED <<stored, leaseVars, requests, polls, delays, failures>>

GotoBoot(p, s) == boot' = [boot EXCEPT ![p] = s]

RecoverSnapshot(p) ==
  /\ boot[p] = "snapshot"
  /\ \/ /\ toVisit' = [toVisit EXCEPT ![p] = {t \in Tasks : status[t] \in Active}]
        /\ GotoBoot(p, "recover")
        /\ UNCHANGED failures
     \/ Failure /\ GotoBoot(p, "idle") /\ UNCHANGED toVisit
  /\ UNCHANGED <<stored, leaseVars, pc, claim, execution, visiting, toClose, decision,
                 requests, crashes, polls, delays>>

\* The runs of the next task are read; created tasks need nothing here.
RecoverVisit(p, t) ==
  /\ boot[p] = "recover"
  /\ t \in toVisit[p]
  /\ toVisit' = [toVisit EXCEPT ![p] = @ \ {t}]
  /\ \/ /\ visiting' = [visiting EXCEPT ![p] = t]
        /\ toClose' = [toClose EXCEPT ![p] = OpenRuns(t)]
        /\ GotoBoot(p, "closeRuns")
        /\ UNCHANGED failures
     \/ Failure /\ UNCHANGED <<boot, visiting, toClose>>
  /\ UNCHANGED <<stored, leaseVars, pc, claim, execution, decision,
                 requests, crashes, polls, delays>>

RecoverCloseRun(p, i) ==
  /\ boot[p] = "closeRuns"
  /\ i \in toClose[p]
  /\ toClose' = [toClose EXCEPT ![p] = @ \ {i}]
  /\ \/ FinishRun(visiting[p], i, "FAILED") /\ UNCHANGED failures
     \/ Failure /\ UNCHANGED runs
  /\ UNCHANGED <<status, leaseVars, pc, claim, execution, boot, toVisit, visiting, decision,
                 requests, crashes, polls, delays>>

RecoverReset(p) ==
  /\ boot[p] = "closeRuns"
  /\ toClose[p] = {}
  /\ \/ SetStatus(visiting[p], "CREATED") /\ UNCHANGED failures
     \/ Failure /\ UNCHANGED status
  /\ visiting' = [visiting EXCEPT ![p] = None]
  /\ GotoBoot(p, "recover")
  /\ UNCHANGED <<runs, leaseVars, pc, claim, execution, toVisit, toClose, decision,
                 requests, crashes, polls, delays>>

RecoverDone(p) ==
  /\ boot[p] = "recover"
  /\ toVisit[p] = {}
  /\ GotoBoot(p, "idle")
  /\ UNCHANGED <<stored, leaseVars, pc, claim, execution, toVisit, visiting, toClose,
                 decision, bounds>>

-----------------------------------------------------------------------------
(* HTTP handlers: a check of the status, then the write decided on *)

Request(u) ==
  /\ boot[Home[u]] = "idle"
  /\ decision[u] = <<>>
  /\ requests < MaxRequests
  /\ requests' = requests + 1

CreateTask(u, t) ==
  /\ Request(u)
  /\ status[t] = "ABSENT"
  /\ SetStatus(t, "CREATED")
  /\ UNCHANGED <<runs, leaseVars, pc, claim, execution, recovery, decision,
                 crashes, polls, delays, failures>>

\* CancelTask and the review calls have read a status they accept.
CanDecide(t, s) ==
  \/ s = "CANCELLED" /\ status[t] \in {"CREATED"} \cup Active
  \/ s \in {"COMPLETED", "FAILED", "CREATED"} /\ status[t] = "HUMAN_REVIEW_REQUIRED"

Decide(u, t, s) ==
  /\ Request(u)
  /\ CanDecide(t, s)
  /\ decision' = [decision EXCEPT ![u] = [task |-> t, status |-> s]]
  /\ UNCHANGED <<stored, leaseVars, pc, claim, execution, recovery,
                 crashes, polls, delays, failures>>

WriteDecision(u) ==
  /\ decision[u] # <<>>
  /\ \/ SetStatus(decision[u].task, decision[u].status) /\ UNCHANGED failures
     \/ Failure /\ UNCHANGED status
  /\ decision' = [decision EXCEPT ![u] = <<>>]
  /\ UNCHANGED <<runs, leaseVars, pc, claim, execution, recovery,
                 requests, crashes, polls, delays>>

-----------------------------------------------------------------------------
WorkerStep(w) ==
  \/ Scan(w) \/ Set(w) \/ Check(w) \/ GiveUp(w) \/ ScanEnd(w)
  \/ \E t \in Tasks : Draw(w, t) \/ Skip(w, t)
  \/ Load(w) \/ AddRun(w)
  \/ \E s \in WorkStatus : StepBegin(w, s)
  \/ \E s \in {"COMPLETED", "HUMAN_REVIEW_REQUIRED"} : Finish(w, s)
  \/ StepFail(w) \/ CloseRun(w) \/ PersistMemories(w)
  \/ FailCheck(w) \/ FailWrite(w) \/ FailClose(w) \/ Release(w)

RecoverStep(p) ==
  \/ RecoverSnapshot(p) \/ RecoverReset(p) \/ RecoverDone(p)
  \/ \E t \in Tasks : RecoverVisit(p, t)
  \/ \E i \in toClose[p] : RecoverCloseRun(p, i)

NewRequest(u) ==
  \E t \in Tasks : CreateTask(u, t) \/ \E s \in Status : Decide(u, t, s)

\* The system may rest when there is nothing to claim and nobody is at work.
Rest ==
  /\ \A w \in Workers : pc[w] = "idle"
  /\ \A t \in Tasks : ~Claimable(status[t])
  /\ UNCHANGED vars

Next ==
  \/ \E w \in Workers : WorkerStep(w) \/ RenewStop(w)
  \/ \E t \in Tasks : Expire(t) \/ ExpireRenewed(t)
  \/ \E p \in Procs : Restart(p) \/ RecoverStep(p)
  \/ \E u \in Users : NewRequest(u) \/ WriteDecision(u)
  \/ Rest

Spec == Init /\ [][Next]_vars

\* Goroutines that can run do, and a key that nobody renews expires.
Fairness ==
  /\ \A w \in Workers : WF_vars(WorkerStep(w)) /\ WF_vars(RenewStop(w))
  /\ \A t \in Tasks : WF_vars(Expire(t))
  /\ \A p \in Procs : WF_vars(RecoverStep(p))
  /\ \A u \in Users : WF_vars(WriteDecision(u))

FairSpec == Spec /\ Fairness

-----------------------------------------------------------------------------
(* Properties *)

\* The worker has been told that it holds the lease of its task.
Claimed(w) == pc[w] \notin {"idle", "scan", "set"}

\* Redis leases prevent duplicate execution: of two workers that both work on
\* the same task, one has lost its lease to the clock.  A release, a restart
\* or a lost reply never frees the lease of somebody else.
LeaseExclusive ==
  \A w, v \in Workers :
    w # v /\ Claimed(w) /\ Claimed(v) /\ task[w] = task[v] =>
      \E x \in {w, v} : <<task[x], token[x]>> \in expired

\* Two runs of a task never carry the same fencing token, so a token names
\* one execution.
RunTokensDiffer ==
  \A t \in Tasks : \A i, j \in 1..Len(runs[t]) :
    runs[t][i].token = runs[t][j].token => i = j

\* The leases behave as a lock with tokens.
Lock == INSTANCE FencedLock WITH owner <- lease
ImplementsLock == Lock!Spec

\* Nobody is past the check that leads to a write on the task.
Quiet(t) ==
  /\ \A w \in Workers : task[w] = t => pc[w] \in {"set", "check", "giveUp", "release"}
  /\ \A u \in Users : decision[u] = <<>> \/ decision[u].task # t
  /\ \A p \in Procs : t \notin toVisit[p] /\ visiting[p] # t

\* The result of a task is final once the executions and decisions that were
\* under way are over: a worker that still finds the task in an old snapshot
\* reads it again under the lease and does not execute it a second time.
ResultsHold ==
  [][\A t \in Tasks :
       status[t] \in {"COMPLETED", "FAILED", "CANCELLED"} /\ Quiet(t) =>
         UNCHANGED <<status[t], runs[t]>> /\ Quiet(t)']_vars

\* Every task reaches a result although processes die, leases expire, replies
\* are lost and a write of FAILED may fail: the task is then polled again.
TasksSettle ==
  \A t \in Tasks : status[t] \in {"CREATED"} \cup Active ~> status[t] \in Settled

-----------------------------------------------------------------------------
(* What the documentation says and the code does not keep *)

\* docs/05: "a worker whose lease expired cannot overwrite a newer run".
StaleWorkersAreFenced ==
  [][\A w \in Workers, s \in Status :
       StepBegin(w, s) \/ Finish(w, s) => run[w] = Len(runs[task[w]])]_vars

\* docs/11: recovery marks interrupted runs as failed.
OnlyInterruptedRunsClosed ==
  [][\A p \in Procs : \A i \in toClose[p] :
       RecoverCloseRun(p, i) =>
         ~\E w \in Workers : Claimed(w) /\ task[w] = visiting[p] /\ run[w] = i]_vars
=============================================================================
