----------------------------- MODULE Evaluation -----------------------------
(***************************************************************************)
(* Evaluation batches: a suite creates one task and one evaluation run per *)
(* benchmark case, the workers that execute the tasks finalize the runs    *)
(* and refresh the counters of the batch, and a task that ends in human    *)
(* review is reviewed automatically by the worker that executed it.        *)
(*                                                                         *)
(* A row of the store is read in one step and written back whole in a      *)
(* later one, as the code does, so that finalizations, notes and refreshes *)
(* of several goroutines overwrite each other.  A call of the store may    *)
(* fail wherever one of them makes it: an unread row ends the work of the  *)
(* goroutine without a trace, an unwritten one goes unnoticed.             *)
(*                                                                         *)
(* An execution is a single choice of its outcome; how it is queued, and   *)
(* how it fails, is the subject of TaskRuntime.                            *)
(***************************************************************************)
EXTENDS Naturals, FiniteSets

CONSTANTS
  Cases,        \* benchmark cases of the suite; also names their task and run
  Workers,      \* worker goroutines
  Users,        \* handlers that review, cancel or rerun tasks
  Suite,        \* the handler that creates the suite
  None,         \* no case
  SkipCases,    \* cases the planner may propose to skip as duplicates
  FaultyCases,  \* cases for which a call of the store may fail
  Requests,     \* the kinds of requests the users make
  MaxTurns,     \* maxEvaluationFeedbackTurns
  MaxBusy,      \* goroutines working on tasks at a time, a bound on interleaving
  MaxDisturbances \* requests of users, failing suites or calls of the store, crashes: a bound

Actors == Workers \cup Users \cup {Suite}

ASSUME ActorsAssumption ==
  /\ Workers \cap Users = {} /\ Suite \notin Workers \cup Users
  /\ None \notin Cases
ASSUME SuiteAssumption == IsFiniteSet(Cases) /\ Cases # {} /\ SkipCases \subseteq Cases
                          /\ FaultyCases \subseteq Cases
ASSUME RequestAssumption ==
  Requests \subseteq {"approve", "reject", "feedback", "cancel"}
ASSUME BoundsAssumption == MaxTurns \in Nat /\ MaxBusy \in Nat \ {0} /\ MaxDisturbances \in Nat

VARIABLES
  \* in the store
  task,      \* Task.Status, an active status abstracted to "RUNNING"
  row,       \* the evaluation run of each case: Status and Passed
  evidence,  \* hasRealSandboxPass of the task
  skip,      \* hasPlannerSkipProposal of the task
  turns,     \* countHumanFeedback of the task
  batch,     \* Status, Completed and Passed of the batch
  metrics,   \* the passed counts of the metric snapshots of the batch
  \* in the memory of the process
  queued,    \* tasks in the queue
  pc, job,   \* what each goroutine does next, and for which case
  decision,  \* the status it finalizes, or what it decided in a review
  again,     \* a second status it finalizes afterwards, or a note it owes
  mine,      \* its copy of the run
  sheet,     \* its copy of the batch
  \* environment and history
  disturbances,
  ended,     \* cases whose run has reached a final status at some time
  touched,   \* cases a person reviewed or cancelled, that a crash or a failing suite
             \* cut off, or that were rejected without their proposal being read
  stranded   \* cases whose start, finalization or review a failing call cut off

store == <<task, row, evidence, skip, turns, batch, metrics>>
control == <<pc, job, decision, again, mine, sheet>>
vars == <<store, queued, control, disturbances, ended, touched, stranded>>

Final == {"completed", "failed"}
RowStatus == {"absent", "queued", "human_review_required"} \cup Final
Row == [status : RowStatus, passed : BOOLEAN]
Batch == [status : {"absent", "running", "completed", "failed"},
          completed : 0..Cardinality(Cases), passed : 0..Cardinality(Cases)]
Decision == {"none", "COMPLETED", "FAILED", "HUMAN_REVIEW_REQUIRED", "continue"}
TaskStatus == {"ABSENT", "CREATED", "RUNNING", "COMPLETED", "FAILED", "CANCELLED",
               "HUMAN_REVIEW_REQUIRED"}
Points == {"idle", "addRun", "execute", "finalize", "finalWrite", "refresh", "count",
           "batchWrite", "auto", "note", "review", "rejected",
           "rejectNote"}

TypeOK ==
  /\ task \in [Cases -> TaskStatus]
  /\ row \in [Cases -> Row]
  /\ evidence \in [Cases -> BOOLEAN] /\ skip \in [Cases -> BOOLEAN]
  /\ turns \in [Cases -> Nat]
  /\ batch \in Batch /\ metrics \subseteq 0..Cardinality(Cases)
  /\ queued \subseteq Cases
  /\ pc \in [Actors -> Points] /\ job \in [Actors -> Cases \cup {None}]
  /\ decision \in [Actors -> Decision] /\ again \in [Actors -> Decision \cup {"note"}]
  /\ mine \in [Actors -> Row] /\ sheet \in [Actors -> Batch]
  /\ disturbances \in 0..MaxDisturbances
  /\ ended \subseteq Cases /\ touched \subseteq Cases /\ stranded \subseteq Cases

NoRow == [status |-> "absent", passed |-> FALSE]
NoBatch == [status |-> "absent", completed |-> 0, passed |-> 0]

Init ==
  /\ task = [c \in Cases |-> "ABSENT"] /\ row = [c \in Cases |-> NoRow]
  /\ evidence = [c \in Cases |-> FALSE] /\ skip = [c \in Cases |-> FALSE]
  /\ turns = [c \in Cases |-> 0]
  /\ batch = NoBatch /\ metrics = {} /\ queued = {}
  /\ pc = [a \in Actors |-> "idle"] /\ job = [a \in Actors |-> None]
  /\ decision = [a \in Actors |-> "none"] /\ again = [a \in Actors |-> "none"]
  /\ mine = [a \in Actors |-> NoRow] /\ sheet = [a \in Actors |-> NoBatch]
  /\ disturbances = 0
  /\ ended = {} /\ touched = {} /\ stranded = {}

Goto(a, p) == pc' = [pc EXCEPT ![a] = p]

\* Go on with the same case, the copies of its run and batch dropped.
Proceed(a, p, d, more) ==
  /\ Goto(a, p) /\ UNCHANGED job
  /\ decision' = [decision EXCEPT ![a] = d] /\ again' = [again EXCEPT ![a] = more]
  /\ mine' = [mine EXCEPT ![a] = NoRow] /\ sheet' = [sheet EXCEPT ![a] = NoBatch]

\* Return to idle, dropping the copies: a goroutine that has nothing to do.
Done(a) ==
  /\ Goto(a, "idle") /\ job' = [job EXCEPT ![a] = None]
  /\ decision' = [decision EXCEPT ![a] = "none"] /\ again' = [again EXCEPT ![a] = "none"]
  /\ mine' = [mine EXCEPT ![a] = NoRow] /\ sheet' = [sheet EXCEPT ![a] = NoBatch]

WriteRow(c, r) ==
  /\ row' = [row EXCEPT ![c] = r]
  /\ ended' = IF r.status \in Final THEN ended \cup {c} ELSE ended

\* The next case of the suite, in the order in which the store lists them.
NextCase == CHOOSE c \in Cases : task[c] = "ABSENT"

\* createEvaluationSuite: the batch is stored before its first task.
SuiteBegin ==
  /\ pc[Suite] = "idle" /\ batch.status = "absent"
  /\ batch' = [NoBatch EXCEPT !.status = "running"]
  /\ job' = [job EXCEPT ![Suite] = NextCase]
  /\ Goto(Suite, "execute")
  /\ UNCHANGED <<task, row, evidence, skip, turns, metrics, queued, decision, again, mine, sheet,
                 disturbances, ended, touched, stranded>>

\* CreateEvaluationTask: the task is stored, not enqueued yet.
SuiteTask ==
  /\ pc[Suite] = "execute"
  /\ task' = [task EXCEPT ![job[Suite]] = "CREATED"]
  /\ Goto(Suite, "addRun")
  /\ UNCHANGED <<row, evidence, skip, turns, batch, metrics, queued, job, decision, again, mine,
                 sheet, disturbances, ended, touched, stranded>>

\* The run is stored and its task enqueued; then comes the next case.
SuiteRun ==
  /\ pc[Suite] = "addRun"
  /\ WriteRow(job[Suite], [status |-> "queued", passed |-> FALSE])
  /\ queued' = queued \cup {job[Suite]}
  /\ IF \A c \in Cases : task[c] # "ABSENT" THEN Done(Suite)
     ELSE /\ job' = [job EXCEPT ![Suite] = NextCase]
          /\ Goto(Suite, "execute")
          /\ UNCHANGED <<decision, again, mine, sheet>>
  /\ UNCHANGED <<task, evidence, skip, turns, batch, metrics, disturbances, touched, stranded>>

\* A case that cannot be created ends the suite.  The batch is written back
\* from the copy the handler made it from, whatever was counted meanwhile.
SuiteFail ==
  /\ pc[Suite] \in {"execute", "addRun"}
  /\ disturbances < MaxDisturbances /\ disturbances' = disturbances + 1
  /\ batch' = [NoBatch EXCEPT !.status = "failed"]
  /\ touched' = touched \cup {c \in Cases : row[c] = NoRow}
  /\ Done(Suite)
  /\ UNCHANGED <<task, row, evidence, skip, turns, metrics, queued, ended, stranded>>

Keep == UNCHANGED <<disturbances, touched, stranded>>

\* A call of the store fails; what it spares, and whom it leaves behind.
StoreError(c) ==
  c \in FaultyCases /\ disturbances < MaxDisturbances /\ disturbances' = disturbances + 1
Spared(c) == StoreError(c) /\ UNCHANGED <<touched, stranded>>
Strands(c) == StoreError(c) /\ stranded' = stranded \cup {c} /\ UNCHANGED touched

\* One more goroutine starts working on a task.
Starts(a) ==
  pc[a] = "idle" /\ Cardinality({b \in Workers \cup Users : pc[b] # "idle"}) < MaxBusy

\* executeTask takes a task from the queue; a cancelled one is dropped.  The
\* new run of the task has no artifacts, so nothing is evidence any more.
Begin(w) ==
  /\ Starts(w)
  /\ \E c \in queued :
       /\ queued' = queued \ {c}
       /\ IF task[c] = "CANCELLED" THEN UNCHANGED <<task, evidence, pc, job>>
          ELSE /\ task' = [task EXCEPT ![c] = "RUNNING"]
               /\ evidence' = [evidence EXCEPT ![c] = FALSE]
               /\ job' = [job EXCEPT ![w] = c] /\ Goto(w, "execute")
  /\ UNCHANGED <<row, skip, turns, batch, metrics, decision, again, mine, sheet,
                 ended>> /\ Keep

\* A task that cannot be read is dropped, and nobody queues it again.
BeginUnread(w) ==
  /\ Starts(w)
  /\ \E c \in queued : queued' = queued \ {c} /\ Strands(c)
  /\ UNCHANGED <<store, control, ended>>

\* The execution ends with a status, which is stored before anything is
\* finalized, and leaves its evidence.  When the memories of a finished
\* execution cannot be stored the task fails after all, and both statuses
\* are finalized, the failure first.
Finish(w) ==
  LET c == job[w] IN
  /\ w \in Workers /\ pc[w] = "execute"
  /\ \E o \in {"COMPLETED", "HUMAN_REVIEW_REQUIRED"}, e \in BOOLEAN, k \in BOOLEAN,
        memoriesFail \in BOOLEAN :
       /\ k => o = "HUMAN_REVIEW_REQUIRED" /\ c \in SkipCases
       /\ task' = [task EXCEPT ![c] = IF memoriesFail THEN "FAILED" ELSE o]
       /\ evidence' = [evidence EXCEPT ![c] = e]
       /\ skip' = [skip EXCEPT ![c] = @ \/ k]
       /\ decision' = [decision EXCEPT ![w] = IF memoriesFail THEN "FAILED" ELSE o]
       /\ again' = [again EXCEPT ![w] = IF memoriesFail THEN o ELSE "none"]
  /\ Goto(w, "finalize")
  /\ UNCHANGED <<row, turns, batch, metrics, queued, job, mine, sheet, ended>> /\ Keep

\* failForRun: a cancelled task ends without being finalized.
Fail(w) ==
  LET c == job[w] IN
  /\ w \in Workers /\ pc[w] = "execute"
  /\ IF task[c] = "CANCELLED" THEN Done(w) /\ UNCHANGED task
     ELSE /\ task' = [task EXCEPT ![c] = "FAILED"]
          /\ decision' = [decision EXCEPT ![w] = "FAILED"]
          /\ Goto(w, "finalize") /\ UNCHANGED <<job, again, mine, sheet>>
  /\ UNCHANGED <<row, evidence, skip, turns, batch, metrics, queued, ended>> /\ Keep

\* It goes on when it cannot read the task, so that a cancelled one fails after
\* all, and when it cannot write the task, which then never settles.
FailUnseen(w) ==
  LET c == job[w] IN
  /\ w \in Workers /\ pc[w] = "execute" /\ Spared(job[w])
  /\ \/ task' = [task EXCEPT ![c] = "FAILED"]
     \/ task[c] # "CANCELLED" /\ UNCHANGED task
  /\ decision' = [decision EXCEPT ![w] = "FAILED"]
  /\ Goto(w, "finalize")
  /\ UNCHANGED <<row, evidence, skip, turns, batch, metrics, queued, job, again, mine, sheet, ended>>

\* finalizeEvaluation skips a run that is absent or already final.
FinalizesAgain(r) == r.status # "absent"
Finalizes(r) == r.status \notin {"absent"} \cup Final

\* What follows a finalization: a second one, the note of an automatic
\* rejection, the automatic review of a task that waits for one, or nothing.
Continue(a) ==
  \/ /\ again[a] = "note"
     /\ Proceed(a, "rejected", decision[a], "note")
  \/ /\ again[a] \notin {"none", "note"}
     /\ Proceed(a, "finalize", again[a], "none")
  \/ /\ again[a] = "none" /\ decision[a] = "HUMAN_REVIEW_REQUIRED"
     /\ Proceed(a, "auto", "none", "none")
  \/ /\ again[a] = "none" /\ decision[a] # "HUMAN_REVIEW_REQUIRED"
     /\ Done(a)

FinalizeRead(a) ==
  LET r == row[job[a]] IN
  /\ pc[a] = "finalize"
  /\ IF Finalizes(r)
     THEN Goto(a, "finalWrite") /\ UNCHANGED <<job, decision, again, mine, sheet>>
     ELSE Continue(a)
  /\ UNCHANGED <<store, queued, ended>> /\ Keep

\* It returns silently when it cannot read the runs.
FinalizeUnread(a) ==
  /\ pc[a] = "finalize" /\ Strands(job[a])
  /\ Continue(a)
  /\ UNCHANGED <<store, queued, ended>>

RowStatusOf(status) ==
  CASE status = "COMPLETED" -> "completed"
    [] status = "FAILED" -> "failed"
    [] OTHER -> "human_review_required"

PassesUnproven(a, c) == decision[a] = "COMPLETED"
Passes(a, c) == decision[a] = "COMPLETED" /\ evidence[c]

FinalizeWrite(a) ==
  /\ pc[a] = "finalWrite"
  /\ WriteRow(job[a], [status |-> RowStatusOf(decision[a]), passed |-> Passes(a, job[a])])
  /\ Goto(a, "refresh")
  /\ UNCHANGED <<task, evidence, skip, turns, batch, metrics, queued, job, decision, again,
                 mine, sheet>> /\ Keep

\* It refreshes the batch also when the run could not be written; evidence that
\* cannot be read is no evidence.
FinalizeUnwritten(a) ==
  /\ pc[a] = "finalWrite" /\ Strands(job[a])
  /\ Goto(a, "refresh")
  /\ UNCHANGED <<store, queued, job, decision, again, mine, sheet, ended>>

FinalizeUnproven(a) ==
  /\ pc[a] = "finalWrite" /\ Spared(job[a])
  /\ WriteRow(job[a], [status |-> RowStatusOf(decision[a]), passed |-> FALSE])
  /\ Goto(a, "refresh")
  /\ UNCHANGED <<task, evidence, skip, turns, batch, metrics, queued, job, decision, again,
                 mine, sheet>>

\* refreshEvaluationBatch reads the batch, then all runs, counts them,
\* adds a snapshot of the metrics when all are final, and writes the batch.
Refresh(a) ==
  /\ pc[a] = "refresh"
  /\ sheet' = [sheet EXCEPT ![a] = batch]
  /\ Goto(a, "count")
  /\ UNCHANGED <<store, queued, job, decision, again, mine, ended>> /\ Keep

CountsWaiting(r) == r.status \in Final \cup {"human_review_required"}
Counts(r) == r.status \in Final

\* Mutant: the counters are not reset before the runs are counted.
TallyOn(b) ==
  LET counted == {c \in Cases : Counts(row[c])} IN
  [status |-> IF Cardinality(counted) >= Cardinality(Cases) THEN "completed" ELSE b.status,
   completed |-> b.completed + Cardinality(counted),
   passed |-> b.passed + Cardinality({c \in counted : row[c].passed})]

Tally(b) ==
  LET counted == {c \in Cases : Counts(row[c])} IN
  [status |-> IF Cardinality(counted) >= Cardinality(Cases) THEN "completed" ELSE b.status,
   completed |-> Cardinality(counted),
   passed |-> Cardinality({c \in counted : row[c].passed})]

AllCount == Cardinality({c \in Cases : Counts(row[c])}) >= Cardinality(Cases)

Count(a) ==
  /\ pc[a] = "count"
  /\ sheet' = [sheet EXCEPT ![a] = Tally(@)]
  /\ metrics' = IF AllCount THEN metrics \cup {sheet'[a].passed} ELSE metrics
  /\ Goto(a, "batchWrite")
  /\ UNCHANGED <<task, row, evidence, skip, turns, batch, queued, job, decision, again, mine, ended>>
  /\ Keep

BatchWrite(a) ==
  /\ pc[a] = "batchWrite"
  /\ batch' = sheet[a]
  /\ Continue(a)
  /\ UNCHANGED <<task, row, evidence, skip, turns, metrics, queued, ended>> /\ Keep

\* A refresh ends where it cannot read the batch or the runs, and goes unnoticed
\* when it cannot write the batch; a snapshot that cannot be stored is left out.
RefreshFail(a) ==
  /\ pc[a] \in {"refresh", "count", "batchWrite"} /\ Spared(job[a])
  /\ Continue(a)
  /\ UNCHANGED <<store, queued, ended>>

SnapshotLost(a) ==
  /\ pc[a] = "count" /\ AllCount /\ Spared(job[a])
  /\ sheet' = [sheet EXCEPT ![a] = Tally(@)]
  /\ Goto(a, "batchWrite")
  /\ UNCHANGED <<store, queued, job, decision, again, mine, ended>>

\* The decision of maybeAutoHandleEvaluationHumanReview: skips, if the planner
\* proposed that; more, if another turn is left; proven, if there is evidence.
\* A review that names a requirement gives a feedback, which is a choice here.
Verdicts(skips, more, proven) ==
  IF skips THEN {IF more THEN "continue" ELSE "COMPLETED"}
  ELSE (IF more THEN {"continue"} ELSE {}) \cup {IF proven THEN "COMPLETED" ELSE "FAILED"}

AutoAlways(c) == IF skip[c] THEN {"continue"} ELSE {"continue", "COMPLETED", "FAILED"}
AutoLeaves(c) ==
  IF turns[c] < MaxTurns THEN {"continue"} ELSE IF evidence[c] THEN {"COMPLETED"} ELSE {}
AutoDecision(c) == Verdicts(skip[c], turns[c] < MaxTurns, evidence[c])

\* When the artifacts cannot be read there is no proposal to skip, no feedback
\* has been given, or there is no evidence, whichever was asked for.
MisreadDecision(c) ==
  Verdicts(FALSE, turns[c] < MaxTurns, evidence[c])
    \cup Verdicts(skip[c], TRUE, evidence[c])
    \cup Verdicts(skip[c], turns[c] < MaxTurns, FALSE)

\* All decisions but the rejection note themselves in the run first.
Decide(w, verdicts) ==
  \E d \in verdicts :
    /\ decision' = [decision EXCEPT ![w] = d]
    /\ mine' = [mine EXCEPT ![w] = row[job[w]]]
    /\ Goto(w, IF d = "FAILED" THEN "review" ELSE "note")
    /\ again' = [again EXCEPT ![w] = IF d = "FAILED" THEN "note" ELSE "none"]
    /\ UNCHANGED <<job, sheet>>

AutoReview(w) ==
  LET c == job[w] IN
  /\ pc[w] = "auto"
  /\ IF row[c].status # "human_review_required" THEN Done(w) ELSE Decide(w, AutoDecision(c))
  /\ UNCHANGED <<store, queued, ended>> /\ Keep

\* Without the runs there is no automatic review.
AutoUnread(w) ==
  /\ pc[w] = "auto" /\ Strands(job[w])
  /\ Done(w)
  /\ UNCHANGED <<store, queued, ended>>

\* A rejection of a proposal to skip that was not read sends the task back to
\* the queue, and the note that follows it may meet the next execution.
AutoMisread(w) ==
  LET c == job[w] IN
  /\ pc[w] = "auto" /\ row[c].status = "human_review_required" /\ StoreError(c)
  /\ Decide(w, MisreadDecision(c))
  /\ touched' = IF skip[c] /\ decision'[w] = "FAILED" THEN touched \cup {c} ELSE touched
  /\ UNCHANGED <<store, queued, ended, stranded>>

\* recordEvalNote writes back the run as it was read, with one note more.
Note(w) ==
  /\ pc[w] = "note"
  /\ WriteRow(job[w], mine[w])
  /\ Proceed(w, "review", decision[w], again[w])
  /\ UNCHANGED <<task, evidence, skip, turns, batch, metrics, queued>> /\ Keep

\* A note that cannot be written is left out.
NoteLost(w) ==
  /\ pc[w] = "note" /\ Spared(job[w])
  /\ Proceed(w, "review", decision[w], again[w])
  /\ UNCHANGED <<store, queued, ended>>

\* ResolveHumanReview and ContinueTaskWithFeedback.  (That two of them may both
\* find the task waiting is the subject of TaskRuntime; here they exclude.)  A
\* feedback, or the rejection of a proposal to skip, sends the task back to the
\* queue; any other decision settles it and finalizes its run.
Review(a) ==
  LET c == job[a]
      reopens == decision[a] = "continue" \/ (decision[a] = "FAILED" /\ skip[c])
  IN /\ pc[a] = "review"
     /\ CASE task[c] # "HUMAN_REVIEW_REQUIRED" ->
               Continue(a) /\ UNCHANGED <<task, turns, queued>>
          [] task[c] = "HUMAN_REVIEW_REQUIRED" /\ reopens ->
               /\ task' = [task EXCEPT ![c] = "CREATED"]
               /\ turns' = [turns EXCEPT ![c] = IF decision[a] = "continue" THEN @ + 1 ELSE @]
               /\ queued' = queued \cup {c}
               /\ Continue(a)
          [] OTHER ->
               /\ task' = [task EXCEPT ![c] = decision[a]]
               /\ Goto(a, "finalize")
               /\ UNCHANGED <<turns, queued, job, decision, again, mine, sheet>>
     /\ UNCHANGED <<row, evidence, skip, batch, metrics, ended>> /\ Keep

\* A task that cannot be read or written stays as it is, also when the feedback
\* that preceded the write has been stored.
ReviewUnwritten(a) ==
  LET c == job[a] IN
  /\ pc[a] = "review" /\ Strands(c)
  /\ \/ UNCHANGED turns
     \/ /\ task[c] = "HUMAN_REVIEW_REQUIRED" /\ decision[a] = "continue"
        /\ turns' = [turns EXCEPT ![c] = @ + 1]
  /\ Continue(a)
  /\ UNCHANGED <<task, row, evidence, skip, batch, metrics, queued, ended>>

\* Feedback that cannot be stored still sends the task back to the queue.
FeedbackLost(a) ==
  LET c == job[a] IN
  /\ pc[a] = "review" /\ Spared(job[a])
  /\ task[c] = "HUMAN_REVIEW_REQUIRED" /\ decision[a] = "continue"
  /\ task' = [task EXCEPT ![c] = "CREATED"]
  /\ queued' = queued \cup {c}
  /\ Continue(a)
  /\ UNCHANGED <<row, evidence, skip, turns, batch, metrics, ended>>

\* A proposal to skip that cannot be read when it is rejected fails the task.  A
\* rejection of one takes a request or a failing call, which bounds this one too.
ProposalUnread(a) ==
  LET c == job[a] IN
  /\ pc[a] = "review" /\ c \in FaultyCases /\ Keep
  /\ task[c] = "HUMAN_REVIEW_REQUIRED" /\ decision[a] = "FAILED" /\ skip[c]
  /\ task' = [task EXCEPT ![c] = "FAILED"]
  /\ Goto(a, "finalize")
  /\ UNCHANGED <<row, evidence, skip, turns, batch, metrics, queued, job, decision, again, mine,
                 sheet, ended>>

\* After an automatic rejection the run is read again for its note.
Rejected(w) ==
  /\ pc[w] = "rejected"
  /\ mine' = [mine EXCEPT ![w] = row[job[w]]]
  /\ Goto(w, "rejectNote")
  /\ UNCHANGED <<store, queued, job, decision, again, sheet, ended>> /\ Keep

RejectNote(w) ==
  /\ pc[w] = "rejectNote"
  /\ WriteRow(job[w], mine[w])
  /\ Done(w)
  /\ UNCHANGED <<task, evidence, skip, turns, batch, metrics, queued>> /\ Keep

\* The run of a rejection that cannot be read or written gets no note.
RejectNoteLost(w) ==
  /\ pc[w] \in {"rejected", "rejectNote"} /\ Spared(job[w])
  /\ Done(w)
  /\ UNCHANGED <<store, queued, ended>>

\* A user reviews a task that waits for it.
Request(u) ==
  /\ Starts(u) /\ disturbances < MaxDisturbances
  /\ disturbances' = disturbances + 1
  /\ \E k \in Requests \ {"cancel"}, c \in Cases :
       /\ task[c] = "HUMAN_REVIEW_REQUIRED" /\ Goto(u, "review")
       /\ job' = [job EXCEPT ![u] = c]
       /\ decision' = [decision EXCEPT ![u] =
            CASE k = "approve" -> "COMPLETED" [] k = "reject" -> "FAILED"
              [] OTHER -> "continue"]
       /\ touched' = touched \cup {c}
  /\ UNCHANGED <<store, queued, again, mine, sheet, ended, stranded>>

\* A user cancels a task that has not settled.
Cancel(c) ==
  /\ "cancel" \in Requests /\ disturbances < MaxDisturbances
  /\ task[c] \in {"CREATED", "RUNNING"}
  /\ disturbances' = disturbances + 1
  /\ task' = [task EXCEPT ![c] = "CANCELLED"]
  /\ touched' = touched \cup {c}
  /\ UNCHANGED <<row, evidence, skip, turns, batch, metrics, queued, control, ended, stranded>>

\* The process ends and is started again: what was executing or waiting to be
\* executed is queued anew, what was being finalized or reviewed is not.
Crash ==
  LET open == {c \in Cases : task[c] \in {"CREATED", "RUNNING"}} IN
  /\ disturbances < MaxDisturbances /\ disturbances' = disturbances + 1
  /\ task' = [c \in Cases |-> IF c \in open THEN "CREATED" ELSE task[c]]
  /\ queued' = open
  /\ pc' = [a \in Actors |-> "idle"] /\ job' = [a \in Actors |-> None]
  /\ decision' = [a \in Actors |-> "none"] /\ again' = [a \in Actors |-> "none"]
  /\ mine' = [a \in Actors |-> NoRow] /\ sheet' = [a \in Actors |-> NoBatch]
  /\ touched' = touched \cup {c \in Cases \ open : row[c].status \notin Final}
                  \cup {c \in open : row[c] = NoRow}
  /\ UNCHANGED <<row, evidence, skip, turns, batch, metrics, ended, stranded>>

SuiteStep == SuiteBegin \/ SuiteTask \/ SuiteRun

Step(a) ==
  \/ Finish(a) \/ Fail(a)
  \/ FinalizeRead(a) \/ FinalizeWrite(a)
  \/ Refresh(a) \/ Count(a) \/ BatchWrite(a)
  \/ AutoReview(a) \/ Note(a) \/ Review(a) \/ Rejected(a) \/ RejectNote(a)

\* The calls of the store that may fail.
StoreFail(a) ==
  \/ FailUnseen(a)
  \/ FinalizeUnread(a) \/ FinalizeUnwritten(a) \/ FinalizeUnproven(a)
  \/ RefreshFail(a) \/ SnapshotLost(a)
  \/ AutoUnread(a) \/ AutoMisread(a) \/ NoteLost(a)
  \/ ReviewUnwritten(a) \/ FeedbackLost(a) \/ ProposalUnread(a) \/ RejectNoteLost(a)

Next ==
  \/ SuiteStep \/ SuiteFail
  \/ \E w \in Workers : Begin(w)
  \/ \E w \in Workers : BeginUnread(w)
  \/ \E a \in Workers \cup Users : Step(a) \/ StoreFail(a)
  \/ \E u \in Users : Request(u)
  \/ \E c \in Cases : Cancel(c)
  \/ Crash

\* Workers that can run do run.  Nothing is asked of the handlers, which may stall
\* for ever, and failures, requests and crashes need not occur.
Fairness == \A w \in Workers : WF_vars(Begin(w) \/ Step(w))

Spec == Init /\ [][Next]_vars
FairSpec == Spec /\ Fairness

-----------------------------------------------------------------------------
\* A batch is marked completed only after each of its runs has reached a final
\* status: a run that waits for a review does not count (the accounting of
\* refreshEvaluationBatch), however the counts of several workers overlap.
CompletionIsEarned == batch.status = "completed" => Cases \subseteq ended

\* The automatic review ends: each feedback beyond MaxTurns is owed to a person
\* or to a decision that a person's review or a crash has made stale, or to a
\* count of the feedback that could not be read (countHumanFeedback returns 0).
TurnsBounded == \A c \in Cases : turns[c] <= MaxTurns + disturbances

\* A run counts as passed only when it was finalized as completed and the latest
\* execution left real evidence: a sandbox pass that was reviewed, an explanation
\* or a proposal to skip (hasRealSandboxPass), whichever calls of the store fail.
PassIsProven ==
  \A c \in Cases \ touched : row[c].passed => row[c].status = "completed" /\ evidence[c]

\* Two workers that both see the batch complete record the same result, also
\* when some of the calls that bring it there fail.
SnapshotsAgree == touched = {} => Cardinality(metrics) <= 1

\* A final run keeps its status and its result: neither a second finalization
\* of the same execution nor a note of the automatic review changes them.
ResultsAreFinal ==
  [][\A c \in Cases \ touched' : row[c].status \in Final => row'[c] = row[c]]_vars

\* Every evaluation settles: a run that exists reaches a final status, the
\* automatic review ending after the turns it may take, unless a person or a
\* crash intervened (touched) or a failing call of the store cut it off: the task
\* could not be read when it was taken from the queue or reviewed, or written by
\* the review, or the runs could not be read or written by finalizeEvaluation or
\* the automatic review (stranded).  The other failures, of refreshes, notes,
\* feedback, snapshots, evidence and proposals, do not keep a run from settling.
RunsSettle ==
  \A c \in Cases :
    row[c].status # "absent" ~> row[c].status \in Final \/ c \in touched \cup stranded

\* The result of an evaluation is final also when a person reviews its task
\* while its worker finalizes it (finalizeEvaluation skips final runs).
ResultsStayFinal ==
  [][\A c \in Cases : row[c].status \in Final => row'[c].status = row[c].status]_vars

\* The batch accounting of docs/09-eval-token-bloat-incident.md: once every run
\* of a batch has its terminal status and nobody works on it, it is completed.
TerminalRunsComplete ==
  ((\A c \in Cases : row[c].status \in Final) /\ \A a \in Actors : pc[a] = "idle")
    => batch.status = "completed"
=============================================================================
