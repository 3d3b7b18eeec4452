------------------------- MODULE TaskRuntimeProofs -------------------------
(* Proofs about TaskRuntime for every number of tasks, workers, handlers   *)
(* and requests, and every capacity of the queue.                          *)
EXTENDS TaskRuntime, TLAPS

USE ActorsAssumption

-----------------------------------------------------------------------------
(* Type correctness *)

\* Appending to a sequence and taking its tail keep it a sequence.
LEMMA SequenceFacts ==
  ASSUME NEW S, NEW seq \in Seq(S), NEW x \in S
  PROVE  /\ Append(seq, x) \in Seq(S)
         /\ seq # <<>> => Head(seq) \in S /\ Tail(seq) \in Seq(S)
  OBVIOUS

\* Rewriting the elements of a sequence of runs keeps it one.
LEMMA RewriteRuns ==
  ASSUME NEW rs \in Seq(RunRec), NEW f, f = [i \in 1..Len(rs) |-> f[i]],
         \A i \in 1..Len(rs) : f[i] \in RunRec
  PROVE  f \in Seq(RunRec)
  OBVIOUS

LEMMA TypeInit == Init => TypeOK
  BY DEF Init, TypeOK, StoreOK, SharedOK, ControlOK, LocalOK, EnvOK,
         Actors, WorkerPC, HandlerPC, BootPC, ReviewPC, Settled

\* A goroutine moves to a program point of its kind and keeps its task.
LEMMA GotoControl ==
  ASSUME ControlOK, NEW a \in Actors, NEW p, Goto(a, p), UNCHANGED task,
         a \in Workers => p \in WorkerPC \cup ReviewPC,
         a \in Users => p \in HandlerPC,
         a = Boot => p \in BootPC,
         task[a] = None <=> p \in {"idle", "snapshot", "recover"}
  PROVE  ControlOK'
  <1> USE DEF Actors
  <1>1. pc' = [pc EXCEPT ![a] = p] /\ pc \in [Actors -> WorkerPC \cup HandlerPC \cup BootPC]
    BY DEF Goto, ControlOK
  <1>2. p \in WorkerPC \cup HandlerPC \cup BootPC
    BY DEF HandlerPC
  <1>3. pc' \in [Actors -> WorkerPC \cup HandlerPC \cup BootPC]
    BY <1>1, <1>2
  <1>4. \A b \in Actors : pc'[b] = IF b = a THEN p ELSE pc[b]
    BY <1>1
  <1>5. /\ \A w \in Workers : pc'[w] \in WorkerPC \cup ReviewPC
        /\ \A u \in Users : pc'[u] \in HandlerPC
        /\ pc'[Boot] \in BootPC
    BY <1>4 DEF ControlOK
  <1>6. task' \in [Actors -> Tasks \cup {None}]
    BY DEF ControlOK
  <1>7. \A b \in Actors : task'[b] = None <=> pc'[b] \in {"idle", "snapshot", "recover"}
    BY <1>4 DEF ControlOK
  <1> QED BY <1>3, <1>5, <1>6, <1>7 DEF ControlOK

\* The same when it takes up a task or drops the one it has.
LEMMA GotoTaskControl ==
  ASSUME ControlOK, NEW a \in Actors, NEW p, Goto(a, p),
         NEW t \in Tasks \cup {None}, task' = [task EXCEPT ![a] = t],
         a \in Workers => p \in WorkerPC \cup ReviewPC,
         a \in Users => p \in HandlerPC,
         a = Boot => p \in BootPC,
         t = None <=> p \in {"idle", "snapshot", "recover"}
  PROVE  ControlOK'
  <1> USE DEF Actors
  <1>1. pc' = [pc EXCEPT ![a] = p] /\ pc \in [Actors -> WorkerPC \cup HandlerPC \cup BootPC]
    BY DEF Goto, ControlOK
  <1>2. p \in WorkerPC \cup HandlerPC \cup BootPC
    BY DEF HandlerPC
  <1>3. pc' \in [Actors -> WorkerPC \cup HandlerPC \cup BootPC]
    BY <1>1, <1>2
  <1>4. \A b \in Actors : pc'[b] = IF b = a THEN p ELSE pc[b]
    BY <1>1
  <1>5. /\ \A w \in Workers : pc'[w] \in WorkerPC \cup ReviewPC
        /\ \A u \in Users : pc'[u] \in HandlerPC
        /\ pc'[Boot] \in BootPC
    BY <1>4 DEF ControlOK
  <1>6. task' \in [Actors -> Tasks \cup {None}]
    BY DEF ControlOK
  <1>7. \A b \in Actors : task'[b] = None <=> pc'[b] \in {"idle", "snapshot", "recover"}
    BY <1>4 DEF ControlOK
  <1> QED BY <1>3, <1>5, <1>6, <1>7 DEF ControlOK

\* A call that returns in any goroutine that made one.
LEMMA ReturnControl ==
  ASSUME ControlOK, NEW a \in Actors, task[a] # None, Return(a)
  PROVE  ControlOK'
  <1>1. CASE a \in Workers
    BY <1>1, GotoControl DEF Return, Returned, WorkerPC, HandlerPC, BootPC
  <1>2. CASE a \notin Workers
    BY <1>2, GotoTaskControl, a \in Users \/ a = Boot
       DEF Return, Returned, WorkerPC, HandlerPC, BootPC, Actors
  <1> QED BY <1>1, <1>2

\* The program points of a call may be those of any goroutine.
LEMMA CallPoints ==
  ASSUME ControlOK, NEW a \in Actors,
         pc[a] \in {"approve", "reject", "record", "feedback", "reopen", "enq", "send", "unmark"}
  PROVE  /\ task[a] \in Tasks
         /\ a = Boot => pc[a] \in {"enq", "send", "unmark"}
  BY DEF ControlOK, Actors, BootPC

LEMMA TypeCall ==
  ASSUME TypeOK, NEW a \in Actors, CallStep(a)
  PROVE  TypeOK'
  <1> USE DEF TypeOK, store, shared, local, env
  <1>1. CASE EnqueueMark(a)
    <2>0. pc[a] = "enq"
      BY <1>1 DEF EnqueueMark
    <2>1. task[a] # None /\ task[a] \in Tasks /\ (a = Boot => pc[a] \in {"enq", "send", "unmark"})
      BY <2>0, CallPoints
    <2>2. ControlOK'
      <3>1. CASE Return(a)
        BY <2>1, <3>1, ReturnControl
      <3>2. CASE Goto(a, "send") /\ UNCHANGED task
        BY <2>0, <2>1, <3>2, GotoControl DEF WorkerPC, HandlerPC, BootPC, ReviewPC
      <3> QED BY <1>1, <3>1, <3>2 DEF EnqueueMark
    <2>3. StoreOK' /\ SharedOK' /\ LocalOK' /\ EnvOK'
      BY <2>1, <1>1 DEF EnqueueMark, StoreOK, SharedOK, LocalOK, EnvOK, SetStatus, Status, Settled
    <2> QED BY <2>2, <2>3
  <1>2. CASE EnqueueSend(a)
    <2>0. pc[a] = "send"
      BY <1>2 DEF EnqueueSend
    <2>1. task[a] # None /\ task[a] \in Tasks /\ (a = Boot => pc[a] \in {"enq", "send", "unmark"})
      BY <2>0, CallPoints
    <2>2. ControlOK'
      BY <2>1, <1>2, ReturnControl DEF EnqueueSend
    <2>3. StoreOK' /\ SharedOK' /\ LocalOK' /\ EnvOK'
      BY <2>1, <1>2, SequenceFacts DEF EnqueueSend, StoreOK, SharedOK, LocalOK, EnvOK, SetStatus, Status, Settled
    <2> QED BY <2>2, <2>3
  <1>3. CASE EnqueueTimeout(a)
    <2>0. pc[a] = "send"
      BY <1>3 DEF EnqueueTimeout
    <2>1. task[a] # None /\ task[a] \in Tasks /\ (a = Boot => pc[a] \in {"enq", "send", "unmark"})
      BY <2>0, CallPoints
    <2>2. ControlOK'
      BY <2>0, <2>1, <1>3, GotoControl DEF EnqueueTimeout, WorkerPC, HandlerPC, BootPC, ReviewPC
    <2>3. StoreOK' /\ SharedOK' /\ LocalOK' /\ EnvOK'
      BY <2>1, <1>3 DEF EnqueueTimeout, StoreOK, SharedOK, LocalOK, EnvOK, SetStatus, Status, Settled
    <2> QED BY <2>2, <2>3
  <1>4. CASE EnqueueUnmark(a)
    <2>0. pc[a] = "unmark"
      BY <1>4 DEF EnqueueUnmark
    <2>1. task[a] # None /\ task[a] \in Tasks /\ (a = Boot => pc[a] \in {"enq", "send", "unmark"})
      BY <2>0, CallPoints
    <2>2. ControlOK'
      BY <2>1, <1>4, ReturnControl DEF EnqueueUnmark
    <2>3. StoreOK' /\ SharedOK' /\ LocalOK' /\ EnvOK'
      BY <2>1, <1>4 DEF EnqueueUnmark, StoreOK, SharedOK, LocalOK, EnvOK, SetStatus, Status, Settled
    <2> QED BY <2>2, <2>3
  <1>5. CASE Approve(a)
    <2>0. pc[a] = "approve"
      BY <1>5 DEF Approve
    <2>1. task[a] # None /\ task[a] \in Tasks /\ (a = Boot => pc[a] \in {"enq", "send", "unmark"})
      BY <2>0, CallPoints
    <2>2. ControlOK'
      BY <2>1, <1>5, ReturnControl DEF Approve
    <2>3. StoreOK' /\ SharedOK' /\ LocalOK' /\ EnvOK'
      BY <2>1, <1>5 DEF Approve, StoreOK, SharedOK, LocalOK, EnvOK, SetStatus, Status, Settled
    <2> QED BY <2>2, <2>3
  <1>6. CASE Reject(a)
    <2>0. pc[a] = "reject"
      BY <1>6 DEF Reject
    <2>1. task[a] # None /\ task[a] \in Tasks /\ (a = Boot => pc[a] \in {"enq", "send", "unmark"})
      BY <2>0, CallPoints
    <2>2. ControlOK'
      <3>1. CASE Return(a)
        BY <2>1, <3>1, ReturnControl
      <3>2. CASE Goto(a, "record") /\ UNCHANGED task
        BY <2>0, <2>1, <3>2, GotoControl DEF WorkerPC, HandlerPC, BootPC, ReviewPC
      <3> QED BY <1>6, <3>1, <3>2 DEF Reject
    <2>3. StoreOK' /\ SharedOK' /\ LocalOK' /\ EnvOK'
      BY <2>1, <1>6 DEF Reject, StoreOK, SharedOK, LocalOK, EnvOK, SetStatus, Status, Settled
    <2> QED BY <2>2, <2>3
  <1>7. CASE RecordContinue(a)
    <2>0. pc[a] = "record"
      BY <1>7 DEF RecordContinue
    <2>1. task[a] # None /\ task[a] \in Tasks /\ (a = Boot => pc[a] \in {"enq", "send", "unmark"})
      BY <2>0, CallPoints
    <2>2. ControlOK'
      BY <2>0, <2>1, <1>7, GotoControl DEF RecordContinue, WorkerPC, HandlerPC, BootPC, ReviewPC
    <2>3. StoreOK' /\ SharedOK' /\ LocalOK' /\ EnvOK'
      BY <2>1, <1>7 DEF RecordContinue, StoreOK, SharedOK, LocalOK, EnvOK, SetStatus, Status, Settled
    <2> QED BY <2>2, <2>3
  <1>8. CASE FeedbackWrite(a)
    <2>0. pc[a] = "feedback"
      BY <1>8 DEF FeedbackWrite
    <2>1. task[a] # None /\ task[a] \in Tasks /\ (a = Boot => pc[a] \in {"enq", "send", "unmark"})
      BY <2>0, CallPoints
    <2>2. ControlOK'
      BY <2>0, <2>1, <1>8, GotoControl DEF FeedbackWrite, WorkerPC, HandlerPC, BootPC, ReviewPC
    <2>3. StoreOK' /\ SharedOK' /\ LocalOK' /\ EnvOK'
      BY <2>1, <1>8 DEF FeedbackWrite, StoreOK, SharedOK, LocalOK, EnvOK, SetStatus, Status, Settled
    <2> QED BY <2>2, <2>3
  <1>9. CASE Reopen(a)
    <2>0. pc[a] = "reopen"
      BY <1>9 DEF Reopen
    <2>1. task[a] # None /\ task[a] \in Tasks /\ (a = Boot => pc[a] \in {"enq", "send", "unmark"})
      BY <2>0, CallPoints
    <2>2. ControlOK'
      BY <2>0, <2>1, <1>9, GotoControl DEF Reopen, WorkerPC, HandlerPC, BootPC, ReviewPC
    <2>3. StoreOK' /\ SharedOK' /\ LocalOK' /\ EnvOK'
      BY <2>1, <1>9 DEF Reopen, StoreOK, SharedOK, LocalOK, EnvOK, SetStatus, Status, Settled
    <2> QED BY <2>2, <2>3
  <1>10. CASE CallFail(a)
    <2>1. task[a] # None /\ task[a] \in Tasks
      BY <1>10 DEF CallFail, ControlOK
    <2>2. ControlOK'
      BY <2>1, <1>10, ReturnControl DEF CallFail
    <2>3. StoreOK' /\ SharedOK' /\ LocalOK' /\ EnvOK'
      BY <2>1, <1>10 DEF CallFail, StoreOK, SharedOK, LocalOK, EnvOK, SetStatus, Status, Settled
    <2> QED BY <2>2, <2>3
  <1> QED BY <1>1, <1>2, <1>3, <1>4, <1>5, <1>6, <1>7, <1>8, <1>9, <1>10 DEF CallStep

\* Closing a run keeps the runs typed.
LEMMA FinishRunType ==
  ASSUME runs \in [Tasks -> Seq(RunRec)], NEW t \in Tasks, NEW r, NEW s \in Status,
         FinishRun(t, r, s)
  PROVE  runs' \in [Tasks -> Seq(RunRec)]
  <1> DEFINE closed == [i \in 1..Len(runs[t]) |->
                IF i = r THEN [status |-> s, ended |-> TRUE] ELSE runs[t][i]]
  <1>1. /\ runs[t] \in Seq(RunRec) /\ Len(runs[t]) \in Nat
        /\ \A i \in 1..Len(runs[t]) : runs[t][i] \in RunRec
    OBVIOUS
  <1>2. [status |-> s, ended |-> TRUE] \in RunRec
    BY DEF RunRec
  <1>3. closed \in [1..Len(runs[t]) -> RunRec]
    BY <1>1, <1>2
  <1>4. closed \in Seq(RunRec)
    <2> HIDE DEF closed
    <2> QED BY <1>1, <1>3
  <1>5. runs' = [runs EXCEPT ![t] = closed]
    BY DEF FinishRun
  <1> HIDE DEF closed
  <1> QED BY <1>4, <1>5

\* The open runs of a task are some of its runs.
LEMMA OpenRunsType ==
  ASSUME NEW t
  PROVE  OpenRuns(t) \subseteq Nat
  BY DEF OpenRuns

\* EndRun ends the run or records it as left open.
LEMMA EndRunType ==
  ASSUME StoreOK, EnvOK, NEW w \in Workers, task[w] \in Tasks, NEW s \in Status, EndRun(w, s)
  PROVE  runs' \in [Tasks -> Seq(RunRec)] /\ lost' \in [Tasks -> SUBSET Nat]
  <1>1. runs \in [Tasks -> Seq(RunRec)] /\ lost \in [Tasks -> SUBSET Nat]
    BY DEF StoreOK, EnvOK
  <1>2. CASE FinishRun(task[w], run[w], s) /\ UNCHANGED lost
    BY <1>1, <1>2, FinishRunType
  <1>3. CASE /\ lost' = [lost EXCEPT ![task[w]] = @ \cup (OpenRuns(task[w]) \cap {run[w]})]
             /\ UNCHANGED runs
    BY <1>1, <1>3, OpenRunsType
  <1> QED BY <1>2, <1>3 DEF EndRun

\* A worker in the middle of a task is neither a handler nor Start.
LEMMA WorkerPoints ==
  ASSUME ControlOK, NEW w \in Workers, pc[w] # "idle"
  PROVE  w \in Actors /\ w \notin Users /\ w # Boot /\ task[w] \in Tasks /\ task[w] # None
  BY DEF ControlOK, Actors, WorkerPC, ReviewPC

LEMMA TypeWorker ==
  ASSUME TypeOK, NEW w \in Workers, WorkerStep(w)
  PROVE  TypeOK'
  <1> USE DEF TypeOK, store, shared, local, env
  <1>1. CASE Receive(w)
    <2>1. w \in Actors /\ w \notin Users /\ w # Boot /\ Head(queue) \in Tasks
      BY <1>1 DEF Receive, Actors, SharedOK
    <2>2. ControlOK'
      BY <2>1, <1>1, GotoTaskControl DEF Receive, WorkerPC, HandlerPC, BootPC, ReviewPC
    <2>3. StoreOK' /\ SharedOK' /\ LocalOK' /\ EnvOK'
      BY <2>1, <1>1, SequenceFacts DEF Receive, StoreOK, SharedOK, LocalOK, EnvOK
    <2> QED BY <2>2, <2>3
  <1>2. CASE MarkDequeued(w)
    <2>0. pc[w] = "received"
      BY <1>2 DEF MarkDequeued
    <2>1. w \in Actors /\ w \notin Users /\ w # Boot /\ task[w] \in Tasks /\ task[w] # None
      BY <2>0, WorkerPoints
    <2>2. ControlOK'
      BY <2>0, <2>1, <1>2, GotoControl DEF MarkDequeued, WorkerPC, HandlerPC, BootPC, ReviewPC
    <2>3. StoreOK' /\ SharedOK' /\ LocalOK' /\ EnvOK'
      BY <2>1, <1>2 DEF MarkDequeued, StoreOK, SharedOK, LocalOK, EnvOK
    <2> QED BY <2>2, <2>3
  <1>3. CASE LoadTask(w)
    <2>0. pc[w] = "load"
      BY <1>3 DEF LoadTask
    <2>1. w \in Actors /\ w \notin Users /\ w # Boot /\ task[w] \in Tasks /\ task[w] # None
      BY <2>0, WorkerPoints
    <2>2. ControlOK'
      <3>1. CASE Goto(w, "register") /\ UNCHANGED task
        BY <2>1, <3>1, GotoControl DEF WorkerPC, HandlerPC, BootPC, ReviewPC
      <3>2. CASE Goto(w, "idle") /\ task' = [task EXCEPT ![w] = None]
        BY <2>1, <3>2, GotoTaskControl DEF WorkerPC, HandlerPC, BootPC, ReviewPC
      <3> QED BY <1>3, <3>1, <3>2 DEF LoadTask
    <2>3. StoreOK' /\ SharedOK' /\ LocalOK' /\ EnvOK'
      BY <2>1, <1>3 DEF LoadTask, StoreOK, SharedOK, LocalOK, EnvOK
    <2> QED BY <2>2, <2>3
  <1>4. CASE RegisterCancel(w)
    <2>0. pc[w] = "register"
      BY <1>4 DEF RegisterCancel
    <2>1. w \in Actors /\ w \notin Users /\ w # Boot /\ task[w] \in Tasks /\ task[w] # None
      BY <2>0, WorkerPoints
    <2>2. ControlOK'
      BY <2>0, <2>1, <1>4, GotoControl DEF RegisterCancel, WorkerPC, HandlerPC, BootPC, ReviewPC
    <2>3. StoreOK' /\ SharedOK' /\ LocalOK' /\ EnvOK'
      BY <2>1, <1>4 DEF RegisterCancel, StoreOK, SharedOK, LocalOK, EnvOK
    <2> QED BY <2>2, <2>3
  <1>5. CASE AddRun(w)
    <2>0. pc[w] = "addRun"
      BY <1>5 DEF AddRun
    <2>1. w \in Actors /\ w \notin Users /\ w # Boot /\ task[w] \in Tasks /\ task[w] # None
      BY <2>0, WorkerPoints
    <2>2. ControlOK'
      BY <2>0, <2>1, <1>5, GotoControl DEF AddRun, WorkerPC, HandlerPC, BootPC, ReviewPC
    <2>3. [status |-> "INDEX_CHECK", ended |-> FALSE] \in RunRec
      BY DEF RunRec, Status, Active
    <2>4. runs' \in [Tasks -> Seq(RunRec)] /\ run' \in [Workers -> Nat]
      <3>1. runs[task[w]] \in Seq(RunRec) /\ Len(runs[task[w]]) \in Nat
        BY <2>1 DEF StoreOK
      <3>2. Append(runs[task[w]], [status |-> "INDEX_CHECK", ended |-> FALSE]) \in Seq(RunRec)
        BY <2>3, <3>1, SequenceFacts
      <3>3. \/ /\ runs' = [runs EXCEPT ![task[w]] =
                    Append(runs[task[w]], [status |-> "INDEX_CHECK", ended |-> FALSE])]
               /\ run' = [run EXCEPT ![w] = Len(runs[task[w]]) + 1]
            \/ UNCHANGED <<runs, run>>
        BY <1>5 DEF AddRun
      <3> DEFINE longer == Append(runs[task[w]], [status |-> "INDEX_CHECK", ended |-> FALSE])
      <3> HIDE DEF longer
      <3>4. CASE UNCHANGED <<runs, run>>
        BY <3>4 DEF StoreOK, LocalOK
      <3>5. CASE runs' = [runs EXCEPT ![task[w]] = longer] /\ run' = [run EXCEPT ![w] = Len(runs[task[w]]) + 1]
        <4>1. longer \in Seq(RunRec)
          BY <3>2 DEF longer
        <4> QED BY <2>1, <3>1, <3>5, <4>1 DEF StoreOK, LocalOK
      <3> QED BY <3>3, <3>4, <3>5 DEF longer
    <2>5. StoreOK' /\ SharedOK' /\ LocalOK' /\ EnvOK'
      BY <2>4, <1>5 DEF AddRun, StoreOK, SharedOK, LocalOK, EnvOK
    <2> QED BY <2>2, <2>5
  <1>6. ASSUME NEW s \in Active, StepBegin(w, s)  PROVE TypeOK'
    <2>0. pc[w] = "ready"
      BY <1>6 DEF StepBegin
    <2>1. w \in Actors /\ w \notin Users /\ w # Boot /\ task[w] \in Tasks /\ task[w] # None
      BY <2>0, WorkerPoints
    <2>2. ControlOK'
      BY <2>0, <2>1, <1>6, GotoControl DEF StepBegin, WorkerPC, HandlerPC, BootPC, ReviewPC
    <2>3. seen' \in [Workers -> BOOLEAN]
      <3>1. FeedbackVisible(task[w], run[w]) \in BOOLEAN
        BY DEF FeedbackVisible
      <3> QED BY <3>1, <1>6 DEF StepBegin, LocalOK
    <2>4. StoreOK' /\ SharedOK' /\ LocalOK' /\ EnvOK'
      BY <2>1, <2>3, <1>6 DEF StepBegin, StoreOK, SharedOK, LocalOK, EnvOK, SetStatus, Status
    <2> QED BY <2>2, <2>4
  <1>7. CASE StepEnd(w)
    <2>0. pc[w] = "agent"
      BY <1>7 DEF StepEnd
    <2>1. w \in Actors /\ w \notin Users /\ w # Boot /\ task[w] \in Tasks /\ task[w] # None
      BY <2>0, WorkerPoints
    <2>2. ControlOK'
      BY <2>0, <2>1, <1>7, GotoControl DEF StepEnd, WorkerPC, HandlerPC, BootPC, ReviewPC
    <2>3. StoreOK' /\ SharedOK' /\ LocalOK' /\ EnvOK'
      BY <2>1, <1>7 DEF StepEnd, StoreOK, SharedOK, LocalOK, EnvOK
    <2> QED BY <2>2, <2>3
  <1>8. CASE StepFail(w)
    <2>0. pc[w] \in {"ready", "agent", "skip", "close"}
      BY <1>8 DEF StepFail
    <2>1. w \in Actors /\ w \notin Users /\ w # Boot /\ task[w] \in Tasks /\ task[w] # None
      BY <2>0, WorkerPoints
    <2>2. ControlOK'
      BY <2>0, <2>1, <1>8, GotoControl DEF StepFail, WorkerPC, HandlerPC, BootPC, ReviewPC
    <2>3. StoreOK' /\ SharedOK' /\ LocalOK' /\ EnvOK'
      BY <2>1, <1>8 DEF StepFail, StoreOK, SharedOK, LocalOK, EnvOK
    <2> QED BY <2>2, <2>3
  <1>9. CASE PlannerSkip(w)
    <2>0. pc[w] = "agent"
      BY <1>9 DEF PlannerSkip
    <2>1. w \in Actors /\ w \notin Users /\ w # Boot /\ task[w] \in Tasks /\ task[w] # None
      BY <2>0, WorkerPoints
    <2>2. ControlOK'
      BY <2>0, <2>1, <1>9, GotoControl DEF PlannerSkip, WorkerPC, HandlerPC, BootPC, ReviewPC
    <2>3. StoreOK' /\ SharedOK' /\ LocalOK' /\ EnvOK'
      BY <2>1, <1>9 DEF PlannerSkip, StoreOK, SharedOK, LocalOK, EnvOK
    <2> QED BY <2>2, <2>3
  <1>10. ASSUME NEW s \in Settled, FinishTask(w, s)  PROVE TypeOK'
    <2>0. pc[w] \in {"ready", "skip"}
      BY <1>10 DEF FinishTask
    <2>1. w \in Actors /\ w \notin Users /\ w # Boot /\ task[w] \in Tasks /\ task[w] # None
      BY <2>0, WorkerPoints
    <2>2. ControlOK'
      BY <2>0, <2>1, <1>10, GotoControl DEF FinishTask, WorkerPC, HandlerPC, BootPC, ReviewPC
    <2>3. StoreOK' /\ SharedOK' /\ LocalOK' /\ EnvOK'
      BY <2>1, <1>10 DEF FinishTask, StoreOK, SharedOK, LocalOK, EnvOK, SetStatus, Status
    <2> QED BY <2>2, <2>3
  <1>11. CASE CloseRun(w)
    <2>0. pc[w] = "close"
      BY <1>11 DEF CloseRun
    <2>1. w \in Actors /\ w \notin Users /\ w # Boot /\ task[w] \in Tasks /\ task[w] # None
      BY <2>0, WorkerPoints
    <2>2. ControlOK'
      BY <2>0, <2>1, <1>11, GotoControl DEF CloseRun, WorkerPC, HandlerPC, BootPC, ReviewPC
    <2>3. runs' \in [Tasks -> Seq(RunRec)]
      BY <2>1, <1>11, FinishRunType DEF CloseRun, StoreOK, LocalOK, Status, Settled
    <2>4. StoreOK' /\ SharedOK' /\ LocalOK' /\ EnvOK'
      BY <2>1, <2>3, <1>11 DEF CloseRun, StoreOK, SharedOK, LocalOK, EnvOK
    <2> QED BY <2>2, <2>4
  <1>12. CASE PersistMemories(w)
    <2>0. pc[w] = "post"
      BY <1>12 DEF PersistMemories
    <2>1. w \in Actors /\ w \notin Users /\ w # Boot /\ task[w] \in Tasks /\ task[w] # None
      BY <2>0, WorkerPoints
    <2>2. ControlOK'
      BY <2>0, <2>1, <1>12, GotoControl DEF PersistMemories, WorkerPC, HandlerPC, BootPC, ReviewPC
    <2>3. StoreOK' /\ SharedOK' /\ LocalOK' /\ EnvOK'
      BY <2>1, <1>12 DEF PersistMemories, StoreOK, SharedOK, LocalOK, EnvOK
    <2> QED BY <2>2, <2>3
  <1>13. CASE AutoReview(w)
    <2>0. pc[w] = "auto"
      BY <1>13 DEF AutoReview
    <2>1. w \in Actors /\ w \notin Users /\ w # Boot /\ task[w] \in Tasks /\ task[w] # None
      BY <2>0, WorkerPoints
    <2>2. ControlOK'
      <3>1. PICK p \in {"cleanup", "approve", "reject", "feedback"} : Goto(w, p) /\ UNCHANGED task
        BY <1>13 DEF AutoReview, AutoDecision
      <3> QED BY <2>1, <3>1, GotoControl DEF WorkerPC, HandlerPC, BootPC, ReviewPC
    <2>3. StoreOK' /\ SharedOK' /\ LocalOK' /\ EnvOK'
      BY <2>1, <1>13 DEF AutoReview, StoreOK, SharedOK, LocalOK, EnvOK
    <2> QED BY <2>2, <2>3
  <1>14. CASE FailCheck(w)
    <2>0. pc[w] = "failing"
      BY <1>14 DEF FailCheck
    <2>1. w \in Actors /\ w \notin Users /\ w # Boot /\ task[w] \in Tasks /\ task[w] # None
      BY <2>0, WorkerPoints
    <2>2. ControlOK'
      BY <2>0, <2>1, <1>14, GotoControl DEF FailCheck, WorkerPC, HandlerPC, BootPC, ReviewPC
    <2>3. runs' \in [Tasks -> Seq(RunRec)] /\ lost' \in [Tasks -> SUBSET Nat]
      BY <2>1, <1>14, EndRunType DEF FailCheck, StoreOK, EnvOK, Status, Settled
    <2>4. StoreOK' /\ SharedOK' /\ LocalOK' /\ EnvOK'
      BY <2>1, <2>3, <1>14 DEF FailCheck, StoreOK, SharedOK, LocalOK, EnvOK
    <2> QED BY <2>2, <2>4
  <1>15. CASE FailWrite(w)
    <2>0. pc[w] = "failWrite"
      BY <1>15 DEF FailWrite
    <2>1. w \in Actors /\ w \notin Users /\ w # Boot /\ task[w] \in Tasks /\ task[w] # None
      BY <2>0, WorkerPoints
    <2>2. ControlOK'
      BY <2>0, <2>1, <1>15, GotoControl DEF FailWrite, WorkerPC, HandlerPC, BootPC, ReviewPC
    <2>3. StoreOK' /\ SharedOK' /\ LocalOK' /\ EnvOK'
      BY <2>1, <1>15 DEF FailWrite, StoreOK, SharedOK, LocalOK, EnvOK, SetStatus, Status, Settled
    <2> QED BY <2>2, <2>3
  <1>16. CASE FailClose(w)
    <2>0. pc[w] = "failClose"
      BY <1>16 DEF FailClose
    <2>1. w \in Actors /\ w \notin Users /\ w # Boot /\ task[w] \in Tasks /\ task[w] # None
      BY <2>0, WorkerPoints
    <2>2. ControlOK'
      BY <2>0, <2>1, <1>16, GotoControl DEF FailClose, WorkerPC, HandlerPC, BootPC, ReviewPC
    <2>3. runs' \in [Tasks -> Seq(RunRec)] /\ lost' \in [Tasks -> SUBSET Nat]
      BY <2>1, <1>16, EndRunType DEF FailClose, StoreOK, EnvOK, Status, Settled
    <2>4. StoreOK' /\ SharedOK' /\ LocalOK' /\ EnvOK'
      BY <2>1, <2>3, <1>16 DEF FailClose, StoreOK, SharedOK, LocalOK, EnvOK
    <2> QED BY <2>2, <2>4
  <1>17. CASE Cleanup(w)
    <2>0. pc[w] = "cleanup"
      BY <1>17 DEF Cleanup
    <2>1. w \in Actors /\ w \notin Users /\ w # Boot /\ task[w] \in Tasks /\ task[w] # None
      BY <2>0, WorkerPoints
    <2>2. ControlOK'
      BY <2>1, <1>17, GotoTaskControl DEF Cleanup, WorkerPC, HandlerPC, BootPC, ReviewPC
    <2>3. StoreOK' /\ SharedOK' /\ LocalOK' /\ EnvOK'
      BY <2>1, <1>17 DEF Cleanup, StoreOK, SharedOK, LocalOK, EnvOK, Settled
    <2> QED BY <2>2, <2>3
  <1> QED BY <1>1, <1>2, <1>3, <1>4, <1>5, <1>6, <1>7, <1>8, <1>9, <1>10, <1>11, <1>12, <1>13, <1>14, <1>15, <1>16, <1>17 DEF WorkerStep

\* A handler is neither a worker nor Start.
LEMMA HandlerActors ==
  ASSUME NEW u \in Users
  PROVE  u \in Actors /\ u \notin Workers /\ u # Boot
  BY DEF Actors

LEMMA TypeUser ==
  ASSUME TypeOK, NEW u \in Users, UserStep(u)
  PROVE  TypeOK'
  <1> USE DEF TypeOK, store, shared, local, env
  <1>0. u \in Actors /\ u \notin Workers /\ u # Boot
    BY HandlerActors
  <1>1. pc[u] \in {"evalRun", "cancelWrite", "cancelCtx"}
    BY DEF UserStep, AddEvaluationRun, CancelWrite, CancelContext
  <1>2. task[u] \in Tasks /\ task[u] # None
    BY <1>0, <1>1 DEF ControlOK
  <1>3. CASE AddEvaluationRun(u)
    <2>1. ControlOK'
      <3>1. CASE Return(u)
        BY <1>0, <1>2, <3>1, ReturnControl
      <3>2. CASE Goto(u, "enq") /\ UNCHANGED task
        BY <1>0, <1>2, <3>2, GotoControl DEF WorkerPC, HandlerPC, BootPC, ReviewPC
      <3> QED BY <1>3, <3>1, <3>2 DEF AddEvaluationRun
    <2>2. StoreOK' /\ SharedOK' /\ LocalOK' /\ EnvOK'
      BY <1>2, <1>3 DEF AddEvaluationRun, StoreOK, SharedOK, LocalOK, EnvOK
    <2> QED BY <2>1, <2>2
  <1>4. CASE CancelWrite(u)
    <2>1. ControlOK'
      BY <1>0, <1>2, <1>4, GotoControl DEF CancelWrite, WorkerPC, HandlerPC, BootPC, ReviewPC
    <2>2. StoreOK' /\ SharedOK' /\ LocalOK' /\ EnvOK'
      BY <1>2, <1>4 DEF CancelWrite, StoreOK, SharedOK, LocalOK, EnvOK, SetStatus, Status, Settled
    <2> QED BY <2>1, <2>2
  <1>5. CASE CancelContext(u)
    <2>1. ControlOK'
      BY <1>0, <1>2, <1>5, ReturnControl DEF CancelContext
    <2>2. StoreOK' /\ SharedOK' /\ LocalOK' /\ EnvOK'
      BY <1>2, <1>5 DEF CancelContext, StoreOK, SharedOK, LocalOK, EnvOK
    <2> QED BY <2>1, <2>2
  <1> QED BY <1>3, <1>4, <1>5 DEF UserStep

LEMMA TypeRequest ==
  ASSUME TypeOK, NEW u \in Users, NewRequest(u)
  PROVE  TypeOK'
  <1> USE DEF TypeOK, store, shared, local, env
  <1>0. u \in Actors /\ u \notin Workers /\ u # Boot
    BY HandlerActors
  <1>1. PICK t \in Tasks : \/ CreateTask(u, t) \/ CancelCheck(u, t) \/ ReviewCheck(u, t)
    BY DEF NewRequest, RerunTask
  <1>2. t # None
    OBVIOUS
  <1>3. CASE CreateTask(u, t)
    <2>1. PICK p \in {"evalRun", "enq"} : Goto(u, p) /\ task' = [task EXCEPT ![u] = t]
      BY <1>3 DEF CreateTask, Request
    <2>2. ControlOK'
      <3>1. p \in HandlerPC /\ p \notin {"idle", "snapshot", "recover"}
        BY <2>1 DEF HandlerPC, ReviewPC
      <3> QED BY <1>0, <1>2, <2>1, <3>1, GotoTaskControl
    <2>3. StoreOK' /\ SharedOK' /\ LocalOK' /\ EnvOK'
      BY <1>3 DEF CreateTask, Request, StoreOK, SharedOK, LocalOK, EnvOK, SetStatus, Status
    <2> QED BY <2>2, <2>3
  <1>4. CASE CancelCheck(u, t)
    <2>1. ControlOK'
      BY <1>0, <1>2, <1>4, GotoTaskControl DEF CancelCheck, Request, WorkerPC, HandlerPC, BootPC, ReviewPC
    <2>2. StoreOK' /\ SharedOK' /\ LocalOK' /\ EnvOK'
      BY <1>4 DEF CancelCheck, Request, StoreOK, SharedOK, LocalOK, EnvOK
    <2> QED BY <2>1, <2>2
  <1>5. CASE ReviewCheck(u, t)
    <2>1. PICK p \in {"approve", "reject", "feedback"} : Goto(u, p) /\ task' = [task EXCEPT ![u] = t]
      BY <1>5 DEF ReviewCheck, Request
    <2>2. ControlOK'
      <3>1. p \in HandlerPC /\ p \notin {"idle", "snapshot", "recover"}
        BY <2>1 DEF HandlerPC, ReviewPC
      <3> QED BY <1>0, <1>2, <2>1, <3>1, GotoTaskControl
    <2>3. StoreOK' /\ SharedOK' /\ LocalOK' /\ EnvOK'
      BY <1>5 DEF ReviewCheck, Request, StoreOK, SharedOK, LocalOK, EnvOK
    <2> QED BY <2>2, <2>3
  <1> QED BY <1>1, <1>3, <1>4, <1>5

LEMMA TypeBoot ==
  ASSUME TypeOK, BootStep
  PROVE  TypeOK'
  <1> USE DEF TypeOK, store, shared, local, env
  <1>0. Boot \in Actors /\ Boot \notin Workers /\ Boot \notin Users
    BY DEF Actors
  <1>1. CASE RecoverSnapshot
    <2>1. PICK p \in {"recover", "idle"} : Goto(Boot, p)
      BY <1>1 DEF RecoverSnapshot
    <2>2. task[Boot] = None /\ UNCHANGED task
      BY <1>0, <1>1 DEF RecoverSnapshot, ControlOK
    <2>3. ControlOK'
      BY <1>0, <2>1, <2>2, GotoControl DEF WorkerPC, HandlerPC, BootPC, ReviewPC
    <2>4. \A t \in Unfinished : t \in Tasks /\ status[t] \in Status
      BY DEF Unfinished, Status
    <2>5. toVisit' \subseteq Tasks \X Status /\ stranded' \subseteq Tasks
      <3>1. {<<t, status[t]>> : t \in Unfinished} \subseteq Tasks \X Status
        BY <2>4
      <3>2. Unfinished \subseteq Tasks
        BY <2>4
      <3>3. \/ toVisit' = {<<t, status[t]>> : t \in Unfinished} /\ UNCHANGED stranded
            \/ UNCHANGED toVisit /\ stranded' = stranded \cup Unfinished
        BY <1>1 DEF RecoverSnapshot
      <3> QED BY <3>1, <3>2, <3>3 DEF EnvOK
    <2>6. StoreOK' /\ SharedOK' /\ LocalOK' /\ EnvOK'
      BY <1>1, <2>5 DEF RecoverSnapshot, StoreOK, SharedOK, LocalOK, EnvOK
    <2> QED BY <2>3, <2>6
  <1>2. ASSUME NEW t \in Tasks, NEW s \in Status, RecoverVisit(t, s)
        PROVE  TypeOK'
    <2>1. PICK p \in {"enq", "closeRuns"} : Goto(Boot, p) /\ task' = [task EXCEPT ![Boot] = t]
      BY <1>2 DEF RecoverVisit
    <2>2. ControlOK'
      BY <1>0, <2>1, GotoTaskControl DEF WorkerPC, HandlerPC, BootPC, ReviewPC
    <2>3. toVisit' \subseteq Tasks \X Status
      BY <1>2 DEF RecoverVisit, EnvOK
    <2>4. StoreOK' /\ SharedOK' /\ LocalOK' /\ EnvOK'
      BY <1>2, <2>3 DEF RecoverVisit, StoreOK, SharedOK, LocalOK, EnvOK
    <2> QED BY <2>2, <2>4
  <1>3. CASE RecoverCloseRuns
    <2>1. task[Boot] \in Tasks /\ task[Boot] # None
      BY <1>0, <1>3 DEF RecoverCloseRuns, ControlOK
    <2>2. ControlOK'
      BY <1>0, <1>3, <2>1, GotoControl DEF RecoverCloseRuns, WorkerPC, HandlerPC, BootPC, ReviewPC
    <2>0. PICK kept \in SUBSET OpenRuns(task[Boot]) :
            /\ lost' = [lost EXCEPT ![task[Boot]] = kept]
            /\ runs' = [runs EXCEPT ![task[Boot]] = [i \in 1..Len(@) |->
                          IF @[i].ended \/ i \in kept THEN @[i]
                          ELSE [status |-> "FAILED", ended |-> TRUE]]]
      BY <1>3 DEF RecoverCloseRuns
    <2> DEFINE rs == runs[task[Boot]]
               closed == [i \in 1..Len(rs) |->
                  IF rs[i].ended \/ i \in kept THEN rs[i] ELSE [status |-> "FAILED", ended |-> TRUE]]
    <2>3. rs \in Seq(RunRec) /\ Len(rs) \in Nat /\ \A i \in 1..Len(rs) : rs[i] \in RunRec
      BY <2>1 DEF StoreOK
    <2>4. [status |-> "FAILED", ended |-> TRUE] \in RunRec
      BY DEF RunRec, Status, Settled
    <2>5. closed \in [1..Len(rs) -> RunRec]
      BY <2>3, <2>4
    <2>6. closed \in Seq(RunRec)
      <3> HIDE DEF closed
      <3> QED BY <2>3, <2>5
    <2>7. runs' = [runs EXCEPT ![task[Boot]] = closed]
      BY <2>0
    <2>8. runs' \in [Tasks -> Seq(RunRec)]
      <3> HIDE DEF closed
      <3> QED BY <2>6, <2>7 DEF StoreOK
    <2>9. lost' \in [Tasks -> SUBSET Nat]
      BY <2>0, OpenRunsType DEF EnvOK
    <2>10. StoreOK' /\ SharedOK' /\ LocalOK' /\ EnvOK'
      BY <1>3, <2>8, <2>9 DEF RecoverCloseRuns, StoreOK, SharedOK, LocalOK, EnvOK
    <2> QED BY <2>2, <2>10
  <1>4. CASE RecoverReset
    <2>1. task[Boot] \in Tasks /\ task[Boot] # None
      BY <1>0, <1>4 DEF RecoverReset, ControlOK
    <2>2. ControlOK'
      BY <1>0, <1>4, <2>1, GotoControl DEF RecoverReset, WorkerPC, HandlerPC, BootPC, ReviewPC
    <2>3. StoreOK' /\ SharedOK' /\ LocalOK' /\ EnvOK'
      BY <1>4 DEF RecoverReset, StoreOK, SharedOK, LocalOK, EnvOK, SetStatus, Status
    <2> QED BY <2>2, <2>3
  <1>5. CASE RecoverFail
    <2>1. task[Boot] \in Tasks /\ task[Boot] # None
      BY <1>0, <1>5 DEF RecoverFail, ControlOK
    <2>2. ControlOK'
      BY <1>0, <1>5, <2>1, ReturnControl DEF RecoverFail
    <2>3. StoreOK' /\ SharedOK' /\ LocalOK' /\ EnvOK'
      BY <1>5, <2>1 DEF RecoverFail, StoreOK, SharedOK, LocalOK, EnvOK
    <2> QED BY <2>2, <2>3
  <1>6. CASE RecoverDone
    <2>1. task[Boot] = None
      BY <1>0, <1>6 DEF RecoverDone, ControlOK
    <2>2. ControlOK'
      BY <1>0, <1>6, <2>1, GotoControl DEF RecoverDone, WorkerPC, HandlerPC, BootPC, ReviewPC
    <2>3. StoreOK' /\ SharedOK' /\ LocalOK' /\ EnvOK'
      BY <1>6 DEF RecoverDone, StoreOK, SharedOK, LocalOK, EnvOK
    <2> QED BY <2>2, <2>3
  <1> QED BY <1>1, <1>2, <1>3, <1>4, <1>5, <1>6 DEF BootStep

LEMMA TypeCrash ==
  ASSUME TypeOK, Crash
  PROVE  TypeOK'
  <1> USE DEF TypeOK, store
  <1>1. ControlOK'
    BY DEF Crash, ControlOK, Actors, WorkerPC, HandlerPC, BootPC, ReviewPC
  <1>2. lost' \in [Tasks -> SUBSET Nat]
    BY OpenRunsType DEF Crash
  <1>3. StoreOK' /\ SharedOK' /\ LocalOK' /\ EnvOK'
    BY <1>2 DEF Crash, StoreOK, SharedOK, LocalOK, EnvOK, Settled
  <1> QED BY <1>1, <1>3

LEMMA TypeStutter ==
  ASSUME TypeOK, UNCHANGED vars
  PROVE  TypeOK'
  BY DEF TypeOK, StoreOK, SharedOK, ControlOK, LocalOK, EnvOK, vars, store, shared, local, env

\* Every variable keeps its type in every behaviour: no nil cancellation
\* function is called (CancelTask), no run index leaves the runs of a task,
\* and a goroutine holds a task exactly while it is working for one.
THEOREM TypeCorrect == Spec => []TypeOK
  <1>1. TypeOK /\ [Next]_vars => TypeOK'
    BY TypeCall, TypeWorker, TypeUser, TypeRequest, TypeBoot, TypeCrash, TypeStutter
       DEF Next, Rest
  <1> QED BY <1>1, TypeInit, PTL DEF Spec

-----------------------------------------------------------------------------
(* Queue deduplication *)

Held == {"send", "unmark", "received"}

\* A step of one goroutine that neither holds a queue entry before it nor
\* after it, and leaves the queue and the map alone.
QuietStep(a) ==
  /\ \E p : Goto(a, p) /\ p \notin Held
  /\ pc[a] \notin Held
  /\ \A b \in Actors : b # a => task'[b] = task[b]
  /\ UNCHANGED <<queue, queued>>

LEMMA QuietPoints ==
  ASSUME TypeOK, NEW a \in Actors, QuietStep(a)
  PROVE  \A b \in Actors : /\ Holding(b)' <=> Holding(b)
                           /\ Holding(b) => task'[b] = task[b]
  BY DEF QuietStep, Holding, Held, Goto, TypeOK, ControlOK

LEMMA QuietDedup ==
  ASSUME TypeOK, QueueDedup, UNCHANGED <<queue, queued>>,
         \A b \in Actors : /\ Holding(b)' <=> Holding(b)
                           /\ Holding(b) => task'[b] = task[b]
  PROVE  QueueDedup'
  <1>1. \A t : Queued(t)' <=> Queued(t)
    BY DEF Queued
  <1>2. \A t \in queued : Queued(t) \/ \E b \in Actors : Holding(b)' /\ task'[b] = t
    BY DEF QueueDedup
  <1>3. \A a, b \in Actors : Holding(a)' /\ Holding(b)' /\ task'[a] = task'[b] => a = b
    BY DEF QueueDedup
  <1>4. \A b \in Actors : Holding(b)' => task'[b] \in queued /\ ~Queued(task'[b])
    BY DEF QueueDedup
  <1>5. /\ \A i, j \in 1..Len(queue') : queue'[i] = queue'[j] => i = j
        /\ \A i \in 1..Len(queue') : queue'[i] \in queued'
    BY DEF QueueDedup
  <1> HIDE DEF Holding, Queued
  <1> QED BY <1>1, <1>2, <1>3, <1>4, <1>5 DEF QueueDedup

LEMMA ReturnQuiet ==
  ASSUME TypeOK, NEW a \in Actors, Return(a), pc[a] \notin Held, UNCHANGED <<queue, queued>>
  PROVE  QuietStep(a)
  <1>1. Goto(a, Returned(a)) /\ Returned(a) \notin Held
    BY DEF Return, Returned, Held
  <1>2. \A b \in Actors : b # a => task'[b] = task[b]
    BY DEF Return, TypeOK, ControlOK
  <1> QED BY <1>1, <1>2 DEF QuietStep

LEMMA GotoQuiet ==
  ASSUME TypeOK, NEW a \in Actors, NEW p, Goto(a, p), p \notin Held, pc[a] \notin Held,
         task' = task \/ \E t : task' = [task EXCEPT ![a] = t],
         UNCHANGED <<queue, queued>>
  PROVE  QuietStep(a)
  <1>1. \A b \in Actors : b # a => task'[b] = task[b]
    BY DEF TypeOK, ControlOK
  <1> QED BY <1>1 DEF QuietStep

LEMMA CallQuiet ==
  ASSUME TypeOK, NEW a \in Actors,
         Approve(a) \/ Reject(a) \/ RecordContinue(a) \/ FeedbackWrite(a) \/ Reopen(a) \/ CallFail(a)
  PROVE  QuietStep(a)
  <1> USE DEF shared, Held
  <1>1. CASE Approve(a)
    BY <1>1, ReturnQuiet DEF Approve
  <1>2. CASE Reject(a)
    <2>1. CASE Return(a)
      BY <1>2, <2>1, ReturnQuiet DEF Reject
    <2>2. CASE Goto(a, "record") /\ UNCHANGED task
      BY <1>2, <2>2, GotoQuiet DEF Reject
    <2> QED BY <1>2, <2>1, <2>2 DEF Reject
  <1>3. CASE RecordContinue(a)
    BY <1>3, GotoQuiet DEF RecordContinue
  <1>4. CASE FeedbackWrite(a)
    BY <1>4, GotoQuiet DEF FeedbackWrite
  <1>5. CASE Reopen(a)
    BY <1>5, GotoQuiet DEF Reopen
  <1>6. CASE CallFail(a)
    BY <1>6, ReturnQuiet DEF CallFail
  <1> QED BY <1>1, <1>2, <1>3, <1>4, <1>5, <1>6

LEMMA WorkerQuiet ==
  ASSUME TypeOK, NEW w \in Workers, WorkerStep(w)
  PROVE  Receive(w) \/ MarkDequeued(w) \/ QuietStep(w)
  <1> USE DEF shared, Held, Actors
  <1>1. CASE LoadTask(w)
    BY <1>1, GotoQuiet DEF LoadTask
  <1>2. CASE RegisterCancel(w)
    BY <1>2, GotoQuiet DEF RegisterCancel
  <1>3. CASE AddRun(w)
    BY <1>3, GotoQuiet DEF AddRun
  <1>4. ASSUME NEW s \in Active, StepBegin(w, s)  PROVE QuietStep(w)
    BY <1>4, GotoQuiet DEF StepBegin
  <1>5. CASE StepEnd(w)
    BY <1>5, GotoQuiet DEF StepEnd
  <1>6. CASE StepFail(w)
    BY <1>6, GotoQuiet DEF StepFail
  <1>7. CASE PlannerSkip(w)
    BY <1>7, GotoQuiet DEF PlannerSkip
  <1>8. ASSUME NEW s \in Settled, FinishTask(w, s)  PROVE QuietStep(w)
    BY <1>8, GotoQuiet DEF FinishTask
  <1>9. CASE CloseRun(w)
    BY <1>9, GotoQuiet DEF CloseRun
  <1>10. CASE PersistMemories(w)
    BY <1>10, GotoQuiet DEF PersistMemories
  <1>11. CASE AutoReview(w)
    <2>1. PICK p \in {"cleanup", "approve", "reject", "feedback"} : Goto(w, p) /\ UNCHANGED task
      BY <1>11 DEF AutoReview, AutoDecision
    <2> QED BY <1>11, <2>1, GotoQuiet DEF AutoReview
  <1>12. CASE FailCheck(w)
    BY <1>12, GotoQuiet DEF FailCheck
  <1>13. CASE FailWrite(w)
    BY <1>13, GotoQuiet DEF FailWrite
  <1>14. CASE FailClose(w)
    BY <1>14, GotoQuiet DEF FailClose
  <1>15. CASE Cleanup(w)
    BY <1>15, GotoQuiet DEF Cleanup
  <1> QED BY <1>1, <1>2, <1>3, <1>4, <1>5, <1>6, <1>7, <1>8, <1>9, <1>10, <1>11, <1>12, <1>13, <1>14, <1>15 DEF WorkerStep

LEMMA HandlerQuiet ==
  ASSUME TypeOK, NEW u \in Users, UserStep(u) \/ NewRequest(u)
  PROVE  QuietStep(u)
  <1> USE DEF shared, Held, Actors
  <1>1. CASE AddEvaluationRun(u)
    <2>1. CASE Return(u)
      BY <1>1, <2>1, ReturnQuiet DEF AddEvaluationRun
    <2>2. CASE Goto(u, "enq") /\ UNCHANGED task
      BY <1>1, <2>2, GotoQuiet DEF AddEvaluationRun
    <2> QED BY <1>1, <2>1, <2>2 DEF AddEvaluationRun
  <1>2. CASE CancelWrite(u)
    BY <1>2, GotoQuiet DEF CancelWrite
  <1>3. CASE CancelContext(u)
    BY <1>3, ReturnQuiet DEF CancelContext
  <1>4. ASSUME NEW t \in Tasks, CreateTask(u, t)  PROVE QuietStep(u)
    <2>1. PICK p \in {"evalRun", "enq"} : Goto(u, p)
      BY <1>4 DEF CreateTask
    <2> QED BY <1>4, <2>1, GotoQuiet DEF CreateTask, Request
  <1>5. ASSUME NEW t \in Tasks, CancelCheck(u, t)  PROVE QuietStep(u)
    BY <1>5, GotoQuiet DEF CancelCheck, Request
  <1>6. ASSUME NEW t \in Tasks, ReviewCheck(u, t)  PROVE QuietStep(u)
    <2>1. PICK p \in {"approve", "reject", "feedback"} : Goto(u, p)
      BY <1>6 DEF ReviewCheck
    <2> QED BY <1>6, <2>1, GotoQuiet DEF ReviewCheck, Request
  <1> QED BY <1>1, <1>2, <1>3, <1>4, <1>5, <1>6 DEF UserStep, NewRequest, RerunTask

LEMMA BootQuiet ==
  ASSUME TypeOK, BootStep
  PROVE  QuietStep(Boot)
  <1> USE DEF shared, Held, Actors
  <1>1. CASE RecoverSnapshot
    <2>1. PICK p \in {"recover", "idle"} : Goto(Boot, p)
      BY <1>1 DEF RecoverSnapshot
    <2> QED BY <1>1, <2>1, GotoQuiet DEF RecoverSnapshot
  <1>2. ASSUME NEW t \in Tasks, NEW s \in Status, RecoverVisit(t, s)
        PROVE  QuietStep(Boot)
    <2>1. PICK p \in {"enq", "closeRuns"} : Goto(Boot, p)
      BY <1>2 DEF RecoverVisit
    <2> QED BY <1>2, <2>1, GotoQuiet DEF RecoverVisit
  <1>3. CASE RecoverCloseRuns
    BY <1>3, GotoQuiet DEF RecoverCloseRuns
  <1>4. CASE RecoverReset
    BY <1>4, GotoQuiet DEF RecoverReset
  <1>5. CASE RecoverFail
    BY <1>5, ReturnQuiet DEF RecoverFail
  <1>6. CASE RecoverDone
    BY <1>6, GotoQuiet DEF RecoverDone
  <1> QED BY <1>1, <1>2, <1>3, <1>4, <1>5, <1>6 DEF BootStep

LEMMA DedupMark ==
  ASSUME TypeOK, QueueDedup, NEW a \in Actors, EnqueueMark(a)
  PROVE  QueueDedup'
  <1>1. CASE task[a] \in queued
    BY <1>1, ReturnQuiet, QuietPoints, QuietDedup DEF EnqueueMark, Held
  <1>2. CASE task[a] \notin queued
    <2>1. /\ pc[a] = "enq" /\ pc' = [pc EXCEPT ![a] = "send"]
          /\ queued' = queued \cup {task[a]} /\ UNCHANGED <<queue, task>>
      BY <1>2 DEF EnqueueMark, Goto
    <2>2. \A b \in Actors : Holding(b)' <=> Holding(b) \/ b = a
      BY <2>1 DEF Holding, TypeOK, ControlOK
    <2>3. ~Queued(task[a]) /\ \A b \in Actors : Holding(b) => task[b] # task[a]
      BY <1>2 DEF QueueDedup, Queued
    <2>4. \A t : Queued(t)' <=> Queued(t)
      BY <2>1 DEF Queued
    <2> HIDE DEF Holding, Queued
    <2> QED BY <2>1, <2>2, <2>3, <2>4 DEF QueueDedup
  <1> QED BY <1>1, <1>2

LEMMA DedupSend ==
  ASSUME TypeOK, QueueDedup, NEW a \in Actors, EnqueueSend(a)
  PROVE  QueueDedup'
  <1>1. /\ pc[a] = "send" /\ Goto(a, Returned(a)) /\ Returned(a) \notin Held
        /\ queue' = Append(queue, task[a]) /\ UNCHANGED queued
    BY DEF EnqueueSend, Return, Returned, Held
  <1>2. \A b \in Actors : b # a => task'[b] = task[b]
    BY DEF EnqueueSend, Return, TypeOK, ControlOK
  <1>3. \A b \in Actors : Holding(b)' <=> Holding(b) /\ b # a
    BY <1>1 DEF Holding, Held, Goto, TypeOK, ControlOK
  <1>4. Holding(a) /\ task[a] \in Tasks /\ task[a] \in queued /\ ~Queued(task[a])
    BY <1>1 DEF Holding, QueueDedup, TypeOK, ControlOK
  <1>5. queue \in Seq(Tasks) /\ Len(queue) \in Nat
    BY DEF TypeOK, SharedOK
  <1>6. /\ Len(queue') = Len(queue) + 1
        /\ \A i \in 1..Len(queue) : queue'[i] = queue[i]
        /\ queue'[Len(queue) + 1] = task[a]
    BY <1>1, <1>4, <1>5
  <1>7. \A t : Queued(t)' <=> Queued(t) \/ t = task[a]
    BY <1>5, <1>6 DEF Queued
  <1>8. \A i \in 1..Len(queue) : queue[i] # task[a]
    BY <1>4 DEF Queued
  <1>9. \A i, j \in 1..Len(queue') : queue'[i] = queue'[j] => i = j
    BY <1>5, <1>6, <1>8 DEF QueueDedup
  <1>10. \A i \in 1..Len(queue') : queue'[i] \in queued'
    BY <1>1, <1>4, <1>5, <1>6 DEF QueueDedup
  <1>11. \A b \in Actors : (Holding(b) => task[b] \in queued /\ ~Queued(task[b]))'
    BY <1>1, <1>2, <1>3, <1>4, <1>7 DEF QueueDedup
  <1>12. \A b, c \in Actors : Holding(b)' /\ Holding(c)' /\ task'[b] = task'[c] => b = c
    BY <1>2, <1>3 DEF QueueDedup
  <1>13. \A t \in queued' : Queued(t)' \/ \E b \in Actors : Holding(b)' /\ task'[b] = t
    BY <1>1, <1>2, <1>3, <1>7 DEF QueueDedup
  <1> HIDE DEF Holding, Queued
  <1> QED BY <1>9, <1>10, <1>11, <1>12, <1>13 DEF QueueDedup

LEMMA DedupTimeout ==
  ASSUME TypeOK, QueueDedup, NEW a \in Actors, EnqueueTimeout(a)
  PROVE  QueueDedup'
  <1>1. /\ pc[a] = "send" /\ pc' = [pc EXCEPT ![a] = "unmark"]
        /\ UNCHANGED <<queue, queued, task>>
    BY DEF EnqueueTimeout, Goto, shared
  <1>2. \A b \in Actors : Holding(b)' <=> Holding(b)
    BY <1>1 DEF Holding, TypeOK, ControlOK
  <1> QED BY <1>1, <1>2, QuietDedup

\* The entry a goroutine holds leaves the map with it: no other goroutine
\* holds it and it is not in the queue.
LEMMA DedupUnmark ==
  ASSUME TypeOK, QueueDedup, NEW a \in Actors, Holding(a),
         NEW p, Goto(a, p), p \notin Held,
         \A b \in Actors : b # a => task'[b] = task[b],
         queued' = queued \ {task[a]}, UNCHANGED queue
  PROVE  QueueDedup'
  <1>1. \A b \in Actors : Holding(b)' <=> Holding(b) /\ b # a
    BY DEF Holding, Held, Goto, TypeOK, ControlOK
  <1>2. \A t : Queued(t)' <=> Queued(t)
    BY DEF Queued
  <1>3. \A i \in 1..Len(queue) : queue[i] # task[a]
    BY DEF QueueDedup, Queued
  <1>4. \A b \in Actors : Holding(b) /\ b # a => task[b] # task[a]
    BY DEF QueueDedup
  <1>5. \A i \in 1..Len(queue') : queue'[i] \in queued'
    BY <1>3 DEF QueueDedup
  <1>6. \A b \in Actors : (Holding(b) => task[b] \in queued /\ ~Queued(task[b]))'
    BY <1>1, <1>2, <1>4 DEF QueueDedup
  <1>7. \A b, c \in Actors : Holding(b)' /\ Holding(c)' /\ task'[b] = task'[c] => b = c
    BY <1>1 DEF QueueDedup
  <1>8. \A t \in queued' : Queued(t)' \/ \E b \in Actors : Holding(b)' /\ task'[b] = t
    BY <1>1, <1>2 DEF QueueDedup
  <1>9. \A i, j \in 1..Len(queue') : queue'[i] = queue'[j] => i = j
    BY DEF QueueDedup
  <1> HIDE DEF Holding, Queued
  <1> QED BY <1>5, <1>6, <1>7, <1>8, <1>9 DEF QueueDedup

LEMMA DedupReceive ==
  ASSUME TypeOK, QueueDedup, NEW w \in Workers, Receive(w)
  PROVE  QueueDedup'
  <1>0. w \in Actors
    BY DEF Actors
  <1>1. /\ pc[w] = "idle" /\ pc' = [pc EXCEPT ![w] = "received"]
        /\ task' = [task EXCEPT ![w] = Head(queue)]
        /\ queue # <<>> /\ queue' = Tail(queue) /\ UNCHANGED queued
    BY DEF Receive, Goto
  <1>2. queue \in Seq(Tasks) /\ Len(queue) \in Nat \ {0}
    BY <1>1 DEF TypeOK, SharedOK
  <1>3. /\ Len(queue') = Len(queue) - 1
        /\ \A i \in 1..Len(queue') : queue'[i] = queue[i + 1]
        /\ Head(queue) = queue[1]
    BY <1>1, <1>2
  <1>4. \A b \in Actors : task'[b] = IF b = w THEN queue[1] ELSE task[b]
    BY <1>1, <1>3 DEF TypeOK, ControlOK
  <1>5. \A b \in Actors : Holding(b)' <=> Holding(b) \/ b = w
    BY <1>0, <1>1 DEF Holding, TypeOK, ControlOK
  <1>6. ~Holding(w)
    BY <1>1 DEF Holding
  <1>7. \A i \in 1..Len(queue') : i + 1 \in 1..Len(queue)
    BY <1>2, <1>3
  <1>8. \A i \in 2..Len(queue) : i - 1 \in 1..Len(queue') /\ queue'[i - 1] = queue[i]
    BY <1>2, <1>3
  <1>9. queue[1] \in queued /\ Queued(queue[1])
    BY <1>2 DEF QueueDedup, Queued
  <1>10. \A t : t = queue[1] => ~Queued(t)'
    BY <1>2, <1>3, <1>7 DEF QueueDedup, Queued
  <1>11. \A t : Queued(t)' => Queued(t)
    BY <1>3, <1>7 DEF Queued
  <1>12. \A t : Queued(t) => Queued(t)' \/ t = queue[1]
    BY <1>2, <1>8 DEF Queued
  <1>13. \A i, j \in 1..Len(queue') : queue'[i] = queue'[j] => i = j
    BY <1>2, <1>3, <1>7 DEF QueueDedup
  <1>14. \A i \in 1..Len(queue') : queue'[i] \in queued'
    BY <1>1, <1>3, <1>7 DEF QueueDedup
  <1>15. \A b \in Actors : (Holding(b) => task[b] \in queued /\ ~Queued(task[b]))'
    BY <1>1, <1>4, <1>5, <1>9, <1>10, <1>11 DEF QueueDedup
  <1>16. \A b, c \in Actors : Holding(b)' /\ Holding(c)' /\ task'[b] = task'[c] => b = c
    BY <1>4, <1>5, <1>6, <1>9 DEF QueueDedup
  <1>17. \A t \in queued' : Queued(t)' \/ \E b \in Actors : Holding(b)' /\ task'[b] = t
    BY <1>0, <1>1, <1>4, <1>5, <1>6, <1>12 DEF QueueDedup
  <1> HIDE DEF Holding, Queued
  <1> QED BY <1>13, <1>14, <1>15, <1>16, <1>17 DEF QueueDedup

LEMMA DedupCrash ==
  ASSUME TypeOK, QueueDedup, Crash
  PROVE  QueueDedup'
  <1>1. queue' = <<>> /\ queued' = {} /\ Len(queue') = 0
    BY DEF Crash
  <1>2. \A b \in Actors : ~Holding(b)'
    BY DEF Crash, Holding
  <1> QED BY <1>1, <1>2 DEF QueueDedup

LEMMA DedupNext == TypeOK /\ QueueDedup /\ [Next]_vars => QueueDedup'
  <1> SUFFICES ASSUME TypeOK, QueueDedup, [Next]_vars  PROVE QueueDedup'
    OBVIOUS
  <1>1. ASSUME NEW a \in Actors, CallStep(a)  PROVE QueueDedup'
    <2>1. CASE EnqueueUnmark(a)
      <3>1. /\ Holding(a) /\ Goto(a, Returned(a)) /\ Returned(a) \notin Held
            /\ queued' = queued \ {task[a]} /\ UNCHANGED queue
        BY <2>1 DEF EnqueueUnmark, Holding, Return, Returned, Held
      <3>2. \A b \in Actors : b # a => task'[b] = task[b]
        BY <2>1 DEF EnqueueUnmark, Return, TypeOK, ControlOK
      <3> QED BY <3>1, <3>2, DedupUnmark
    <2>2. CASE EnqueueMark(a) \/ EnqueueSend(a) \/ EnqueueTimeout(a)
      BY <2>2, DedupMark, DedupSend, DedupTimeout
    <2>3. CASE Approve(a) \/ Reject(a) \/ RecordContinue(a) \/ FeedbackWrite(a) \/ Reopen(a) \/ CallFail(a)
      <3>1. QuietStep(a)
        BY <2>3, CallQuiet
      <3> QED BY <3>1, QuietPoints, QuietDedup DEF QuietStep
    <2> QED BY <1>1, <2>1, <2>2, <2>3 DEF CallStep
  <1>2. ASSUME NEW a \in Actors, QuietStep(a)  PROVE QueueDedup'
    BY <1>2, QuietPoints, QuietDedup DEF QuietStep
  <1>3. ASSUME NEW w \in Workers, WorkerStep(w)  PROVE QueueDedup'
    <2>1. w \in Actors
      BY DEF Actors
    <2>2. CASE MarkDequeued(w)
      <3>1. Holding(w) /\ Goto(w, "load") /\ "load" \notin Held
            /\ queued' = queued \ {task[w]} /\ UNCHANGED <<queue, task>>
        BY <2>2 DEF MarkDequeued, Holding, Held
      <3> QED BY <2>1, <3>1, DedupUnmark
    <2> QED BY <1>2, <1>3, <2>1, <2>2, WorkerQuiet, DedupReceive
  <1>4. ASSUME NEW u \in Users, UserStep(u) \/ NewRequest(u)  PROVE QueueDedup'
    BY <1>2, <1>4, HandlerQuiet DEF Actors
  <1>5. CASE BootStep
    BY <1>2, <1>5, BootQuiet DEF Actors
  <1>6. CASE Crash
    BY <1>6, DedupCrash
  <1>7. CASE UNCHANGED vars
    <2>1. \A b \in Actors : (Holding(b)' <=> Holding(b)) /\ (Holding(b) => task'[b] = task[b])
      BY <1>7 DEF vars, Holding
    <2> QED BY <1>7, <2>1, QuietDedup DEF vars, shared
  <1> QED BY <1>1, <1>3, <1>4, <1>5, <1>6, <1>7 DEF Next, Rest

\* enqueue and markDequeued keep the map and the channel in step: a task is
\* in the channel at most once and marked exactly while it is there or on its
\* way, whatever the number of handlers and workers.
THEOREM QueueDeduplicated == Spec => []QueueDedup
  <1>1. Init => QueueDedup
    BY DEF Init, QueueDedup, Holding
  <1>2. TypeOK /\ TypeOK' /\ QueueDedup /\ [Next]_vars => QueueDedup'
    BY DedupNext
  <1> QED BY <1>1, <1>2, TypeCorrect, PTL DEF Spec

-----------------------------------------------------------------------------
(* Locality: a goroutine changes nothing of the tasks of others *)

\* What a goroutine in the middle of a task does to the control of the others
\* and to the store, the queue and the maps.
LocalControl(a) ==
  /\ \A b \in Actors : b # a => pc'[b] = pc[b] /\ task'[b] = task[b]
  /\ task'[a] \in {task[a], None}

LocalData(a) ==
  /\ \A t \in Tasks : t # task[a] => /\ status'[t] = status[t]
                                     /\ runs'[t] = runs[t]
                                     /\ cancelTasks'[t] = cancelTasks[t]
  /\ queue' = queue \/ queue' = Append(queue, task[a])
  /\ stranded \subseteq stranded'
  /\ UNCHANGED <<toVisit, crashes>>

LocalStep(a) == task[a] \in Tasks /\ LocalControl(a) /\ LocalData(a)

LEMMA GotoLocal ==
  ASSUME TypeOK, NEW a \in Actors, NEW p, Goto(a, p),
         task' = task \/ task' = [task EXCEPT ![a] = None]
  PROVE  LocalControl(a)
  BY DEF LocalControl, Goto, TypeOK, ControlOK

LEMMA ReturnLocal ==
  ASSUME TypeOK, NEW a \in Actors, Return(a)
  PROVE  LocalControl(a)
  BY DEF LocalControl, Return, Goto, TypeOK, ControlOK

LEMMA BusyTask ==
  ASSUME TypeOK, NEW a \in Actors, pc[a] \notin {"idle", "snapshot", "recover"}
  PROVE  task[a] \in Tasks
  BY DEF TypeOK, ControlOK

LEMMA CallLocal ==
  ASSUME TypeOK, NEW a \in Actors, CallStep(a)
  PROVE  LocalStep(a)
  <1> USE DEF store, shared, local, env
  <1>1. CASE EnqueueMark(a)
    <2>1. task[a] \in Tasks
      BY <1>1, BusyTask DEF EnqueueMark
    <2>2. LocalControl(a)
      <3>1. Return(a) \/ ((\E p : Goto(a, p)) /\ UNCHANGED task)
        BY <1>1 DEF EnqueueMark
      <3> QED BY <3>1, ReturnLocal, GotoLocal
    <2>3. LocalData(a)
      BY <2>1, <1>1 DEF EnqueueMark, LocalData, TypeOK, StoreOK, SharedOK, SetStatus, FinishRun
    <2> QED BY <2>1, <2>2, <2>3 DEF LocalStep
  <1>2. CASE EnqueueSend(a)
    <2>1. task[a] \in Tasks
      BY <1>2, BusyTask DEF EnqueueSend
    <2>2. LocalControl(a)
      BY <1>2, ReturnLocal DEF EnqueueSend
    <2>3. LocalData(a)
      BY <2>1, <1>2 DEF EnqueueSend, LocalData, TypeOK, StoreOK, SharedOK, SetStatus, FinishRun
    <2> QED BY <2>1, <2>2, <2>3 DEF LocalStep
  <1>3. CASE EnqueueTimeout(a)
    <2>1. task[a] \in Tasks
      BY <1>3, BusyTask DEF EnqueueTimeout
    <2>2. LocalControl(a)
      BY <1>3, GotoLocal DEF EnqueueTimeout
    <2>3. LocalData(a)
      BY <2>1, <1>3 DEF EnqueueTimeout, LocalData, TypeOK, StoreOK, SharedOK, SetStatus, FinishRun
    <2> QED BY <2>1, <2>2, <2>3 DEF LocalStep
  <1>4. CASE EnqueueUnmark(a)
    <2>1. task[a] \in Tasks
      BY <1>4, BusyTask DEF EnqueueUnmark
    <2>2. LocalControl(a)
      BY <1>4, ReturnLocal DEF EnqueueUnmark
    <2>3. LocalData(a)
      BY <2>1, <1>4 DEF EnqueueUnmark, LocalData, TypeOK, StoreOK, SharedOK, SetStatus, FinishRun
    <2> QED BY <2>1, <2>2, <2>3 DEF LocalStep
  <1>5. CASE Approve(a)
    <2>1. task[a] \in Tasks
      BY <1>5, BusyTask DEF Approve
    <2>2. LocalControl(a)
      BY <1>5, ReturnLocal DEF Approve
    <2>3. LocalData(a)
      BY <2>1, <1>5 DEF Approve, LocalData, TypeOK, StoreOK, SharedOK, SetStatus, FinishRun
    <2> QED BY <2>1, <2>2, <2>3 DEF LocalStep
  <1>6. CASE Reject(a)
    <2>1. task[a] \in Tasks
      BY <1>6, BusyTask DEF Reject
    <2>2. LocalControl(a)
      <3>1. Return(a) \/ ((\E p : Goto(a, p)) /\ UNCHANGED task)
        BY <1>6 DEF Reject
      <3> QED BY <3>1, ReturnLocal, GotoLocal
    <2>3. LocalData(a)
      BY <2>1, <1>6 DEF Reject, LocalData, TypeOK, StoreOK, SharedOK, SetStatus, FinishRun
    <2> QED BY <2>1, <2>2, <2>3 DEF LocalStep
  <1>7. CASE RecordContinue(a)
    <2>1. task[a] \in Tasks
      BY <1>7, BusyTask DEF RecordContinue
    <2>2. LocalControl(a)
      BY <1>7, GotoLocal DEF RecordContinue
    <2>3. LocalData(a)
      BY <2>1, <1>7 DEF RecordContinue, LocalData, TypeOK, StoreOK, SharedOK, SetStatus, FinishRun
    <2> QED BY <2>1, <2>2, <2>3 DEF LocalStep
  <1>8. CASE FeedbackWrite(a)
    <2>1. task[a] \in Tasks
      BY <1>8, BusyTask DEF FeedbackWrite
    <2>2. LocalControl(a)
      BY <1>8, GotoLocal DEF FeedbackWrite
    <2>3. LocalData(a)
      BY <2>1, <1>8 DEF FeedbackWrite, LocalData, TypeOK, StoreOK, SharedOK, SetStatus, FinishRun
    <2> QED BY <2>1, <2>2, <2>3 DEF LocalStep
  <1>9. CASE Reopen(a)
    <2>1. task[a] \in Tasks
      BY <1>9, BusyTask DEF Reopen
    <2>2. LocalControl(a)
      BY <1>9, GotoLocal DEF Reopen
    <2>3. LocalData(a)
      BY <2>1, <1>9 DEF Reopen, LocalData, TypeOK, StoreOK, SharedOK, SetStatus, FinishRun
    <2> QED BY <2>1, <2>2, <2>3 DEF LocalStep
  <1>10. CASE CallFail(a)
    <2>1. task[a] \in Tasks
      BY <1>10, BusyTask DEF CallFail
    <2>2. LocalControl(a)
      BY <1>10, ReturnLocal DEF CallFail
    <2>3. LocalData(a)
      BY <2>1, <1>10 DEF CallFail, LocalData, TypeOK, StoreOK, SharedOK, SetStatus, FinishRun
    <2> QED BY <2>1, <2>2, <2>3 DEF LocalStep
  <1> QED BY <1>1, <1>2, <1>3, <1>4, <1>5, <1>6, <1>7, <1>8, <1>9, <1>10 DEF CallStep

LEMMA WorkerLocal ==
  ASSUME TypeOK, NEW w \in Workers, WorkerStep(w)
  PROVE  Receive(w) \/ LocalStep(w)
  <1> USE DEF store, shared, local, env, Actors
  <1>1. CASE MarkDequeued(w)
    <2>1. task[w] \in Tasks
      BY <1>1, BusyTask DEF MarkDequeued
    <2>2. LocalControl(w)
      BY <1>1, GotoLocal DEF MarkDequeued
    <2>3. LocalData(w)
      BY <2>1, <1>1 DEF MarkDequeued, LocalData, TypeOK, StoreOK, SharedOK, SetStatus, FinishRun
    <2> QED BY <2>1, <2>2, <2>3 DEF LocalStep
  <1>2. CASE LoadTask(w)
    <2>1. task[w] \in Tasks
      BY <1>2, BusyTask DEF LoadTask
    <2>2. LocalControl(w)
      BY <1>2, GotoLocal DEF LoadTask
    <2>3. LocalData(w)
      BY <2>1, <1>2 DEF LoadTask, LocalData, TypeOK, StoreOK, SharedOK, SetStatus, FinishRun
    <2> QED BY <2>1, <2>2, <2>3 DEF LocalStep
  <1>3. CASE RegisterCancel(w)
    <2>1. task[w] \in Tasks
      BY <1>3, BusyTask DEF RegisterCancel
    <2>2. LocalControl(w)
      BY <1>3, GotoLocal DEF RegisterCancel
    <2>3. LocalData(w)
      BY <2>1, <1>3 DEF RegisterCancel, LocalData, TypeOK, StoreOK, SharedOK, SetStatus, FinishRun
    <2> QED BY <2>1, <2>2, <2>3 DEF LocalStep
  <1>4. CASE AddRun(w)
    <2>1. task[w] \in Tasks
      BY <1>4, BusyTask DEF AddRun
    <2>2. LocalControl(w)
      BY <1>4, GotoLocal DEF AddRun
    <2>3. LocalData(w)
      BY <2>1, <1>4 DEF AddRun, LocalData, TypeOK, StoreOK, SharedOK, SetStatus, FinishRun
    <2> QED BY <2>1, <2>2, <2>3 DEF LocalStep
  <1>5. ASSUME NEW s \in Active, StepBegin(w, s)  PROVE LocalStep(w)
    <2>1. task[w] \in Tasks
      BY <1>5, BusyTask DEF StepBegin
    <2>2. LocalControl(w)
      BY <1>5, GotoLocal DEF StepBegin
    <2>3. LocalData(w)
      BY <2>1, <1>5 DEF StepBegin, LocalData, TypeOK, StoreOK, SharedOK, SetStatus, FinishRun
    <2> QED BY <2>1, <2>2, <2>3 DEF LocalStep
  <1>6. CASE StepEnd(w)
    <2>1. task[w] \in Tasks
      BY <1>6, BusyTask DEF StepEnd
    <2>2. LocalControl(w)
      BY <1>6, GotoLocal DEF StepEnd
    <2>3. LocalData(w)
      BY <2>1, <1>6 DEF StepEnd, LocalData, TypeOK, StoreOK, SharedOK, SetStatus, FinishRun
    <2> QED BY <2>1, <2>2, <2>3 DEF LocalStep
  <1>7. CASE StepFail(w)
    <2>1. task[w] \in Tasks
      BY <1>7, BusyTask DEF StepFail
    <2>2. LocalControl(w)
      BY <1>7, GotoLocal DEF StepFail
    <2>3. LocalData(w)
      BY <2>1, <1>7 DEF StepFail, LocalData, TypeOK, StoreOK, SharedOK, SetStatus, FinishRun
    <2> QED BY <2>1, <2>2, <2>3 DEF LocalStep
  <1>8. CASE PlannerSkip(w)
    <2>1. task[w] \in Tasks
      BY <1>8, BusyTask DEF PlannerSkip
    <2>2. LocalControl(w)
      BY <1>8, GotoLocal DEF PlannerSkip
    <2>3. LocalData(w)
      BY <2>1, <1>8 DEF PlannerSkip, LocalData, TypeOK, StoreOK, SharedOK, SetStatus, FinishRun
    <2> QED BY <2>1, <2>2, <2>3 DEF LocalStep
  <1>9. ASSUME NEW s \in Settled, FinishTask(w, s)  PROVE LocalStep(w)
    <2>1. task[w] \in Tasks
      BY <1>9, BusyTask DEF FinishTask
    <2>2. LocalControl(w)
      BY <1>9, GotoLocal DEF FinishTask
    <2>3. LocalData(w)
      BY <2>1, <1>9 DEF FinishTask, LocalData, TypeOK, StoreOK, SharedOK, SetStatus, FinishRun
    <2> QED BY <2>1, <2>2, <2>3 DEF LocalStep
  <1>10. CASE CloseRun(w)
    <2>1. task[w] \in Tasks
      BY <1>10, BusyTask DEF CloseRun
    <2>2. LocalControl(w)
      BY <1>10, GotoLocal DEF CloseRun
    <2>3. LocalData(w)
      BY <2>1, <1>10 DEF CloseRun, LocalData, TypeOK, StoreOK, SharedOK, SetStatus, FinishRun
    <2> QED BY <2>1, <2>2, <2>3 DEF LocalStep
  <1>11. CASE PersistMemories(w)
    <2>1. task[w] \in Tasks
      BY <1>11, BusyTask DEF PersistMemories
    <2>2. LocalControl(w)
      BY <1>11, GotoLocal DEF PersistMemories
    <2>3. LocalData(w)
      BY <2>1, <1>11 DEF PersistMemories, LocalData, TypeOK, StoreOK, SharedOK, SetStatus, FinishRun
    <2> QED BY <2>1, <2>2, <2>3 DEF LocalStep
  <1>12. CASE AutoReview(w)
    <2>1. task[w] \in Tasks
      BY <1>12, BusyTask DEF AutoReview
    <2>2. LocalControl(w)
      <3>1. PICK p : Goto(w, p) /\ UNCHANGED task
        BY <1>12 DEF AutoReview
      <3> QED BY <3>1, GotoLocal
    <2>3. LocalData(w)
      BY <2>1, <1>12 DEF AutoReview, LocalData, TypeOK, StoreOK, SharedOK, SetStatus, FinishRun
    <2> QED BY <2>1, <2>2, <2>3 DEF LocalStep
  <1>13. CASE FailCheck(w)
    <2>1. task[w] \in Tasks
      BY <1>13, BusyTask DEF FailCheck
    <2>2. LocalControl(w)
      BY <1>13, GotoLocal DEF FailCheck
    <2>3. LocalData(w)
      BY <2>1, <1>13 DEF FailCheck, EndRun, LocalData, TypeOK, StoreOK, SharedOK, SetStatus, FinishRun
    <2> QED BY <2>1, <2>2, <2>3 DEF LocalStep
  <1>14. CASE FailWrite(w)
    <2>1. task[w] \in Tasks
      BY <1>14, BusyTask DEF FailWrite
    <2>2. LocalControl(w)
      BY <1>14, GotoLocal DEF FailWrite
    <2>3. LocalData(w)
      BY <2>1, <1>14 DEF FailWrite, LocalData, TypeOK, StoreOK, SharedOK, SetStatus, FinishRun
    <2> QED BY <2>1, <2>2, <2>3 DEF LocalStep
  <1>15. CASE FailClose(w)
    <2>1. task[w] \in Tasks
      BY <1>15, BusyTask DEF FailClose
    <2>2. LocalControl(w)
      BY <1>15, GotoLocal DEF FailClose
    <2>3. LocalData(w)
      BY <2>1, <1>15 DEF FailClose, EndRun, LocalData, TypeOK, StoreOK, SharedOK, SetStatus, FinishRun
    <2> QED BY <2>1, <2>2, <2>3 DEF LocalStep
  <1>16. CASE Cleanup(w)
    <2>1. task[w] \in Tasks
      BY <1>16, BusyTask DEF Cleanup
    <2>2. LocalControl(w)
      BY <1>16, GotoLocal DEF Cleanup
    <2>3. LocalData(w)
      BY <2>1, <1>16 DEF Cleanup, LocalData, TypeOK, StoreOK, SharedOK, SetStatus, FinishRun
    <2> QED BY <2>1, <2>2, <2>3 DEF LocalStep
  <1> QED BY <1>1, <1>2, <1>3, <1>4, <1>5, <1>6, <1>7, <1>8, <1>9, <1>10, <1>11, <1>12, <1>13, <1>14, <1>15, <1>16 DEF WorkerStep

LEMMA UserLocal ==
  ASSUME TypeOK, NEW u \in Users, UserStep(u)
  PROVE  LocalStep(u)
  <1> USE DEF store, shared, local, env, Actors
  <1>1. CASE AddEvaluationRun(u)
    <2>1. task[u] \in Tasks
      BY <1>1, BusyTask DEF AddEvaluationRun
    <2>2. LocalControl(u)
      <3>1. Return(u) \/ ((\E p : Goto(u, p)) /\ UNCHANGED task)
        BY <1>1 DEF AddEvaluationRun
      <3> QED BY <3>1, ReturnLocal, GotoLocal
    <2>3. LocalData(u)
      BY <2>1, <1>1 DEF AddEvaluationRun, LocalData, TypeOK, StoreOK, SharedOK, SetStatus, FinishRun
    <2> QED BY <2>1, <2>2, <2>3 DEF LocalStep
  <1>2. CASE CancelWrite(u)
    <2>1. task[u] \in Tasks
      BY <1>2, BusyTask DEF CancelWrite
    <2>2. LocalControl(u)
      BY <1>2, GotoLocal DEF CancelWrite
    <2>3. LocalData(u)
      BY <2>1, <1>2 DEF CancelWrite, LocalData, TypeOK, StoreOK, SharedOK, SetStatus, FinishRun
    <2> QED BY <2>1, <2>2, <2>3 DEF LocalStep
  <1>3. CASE CancelContext(u)
    <2>1. task[u] \in Tasks
      BY <1>3, BusyTask DEF CancelContext
    <2>2. LocalControl(u)
      BY <1>3, ReturnLocal DEF CancelContext
    <2>3. LocalData(u)
      BY <2>1, <1>3 DEF CancelContext, LocalData, TypeOK, StoreOK, SharedOK, SetStatus, FinishRun
    <2> QED BY <2>1, <2>2, <2>3 DEF LocalStep
  <1> QED BY <1>1, <1>2, <1>3 DEF UserStep

LEMMA BootLocal ==
  ASSUME TypeOK, RecoverCloseRuns \/ RecoverReset \/ RecoverFail
  PROVE  LocalStep(Boot)
  <1> USE DEF store, shared, local, env, Actors
  <1>1. CASE RecoverCloseRuns
    <2>1. task[Boot] \in Tasks
      BY <1>1, BusyTask DEF RecoverCloseRuns
    <2>2. LocalControl(Boot)
      BY <1>1, GotoLocal DEF RecoverCloseRuns
    <2>3. LocalData(Boot)
      BY <2>1, <1>1 DEF RecoverCloseRuns, LocalData, TypeOK, StoreOK, SharedOK, SetStatus, FinishRun
    <2> QED BY <2>1, <2>2, <2>3 DEF LocalStep
  <1>2. CASE RecoverReset
    <2>1. task[Boot] \in Tasks
      BY <1>2, BusyTask DEF RecoverReset
    <2>2. LocalControl(Boot)
      BY <1>2, GotoLocal DEF RecoverReset
    <2>3. LocalData(Boot)
      BY <2>1, <1>2 DEF RecoverReset, LocalData, TypeOK, StoreOK, SharedOK, SetStatus, FinishRun
    <2> QED BY <2>1, <2>2, <2>3 DEF LocalStep
  <1>3. CASE RecoverFail
    <2>1. task[Boot] \in Tasks
      BY <1>3, BusyTask DEF RecoverFail
    <2>2. LocalControl(Boot)
      BY <1>3, ReturnLocal DEF RecoverFail
    <2>3. LocalData(Boot)
      BY <2>1, <1>3 DEF RecoverFail, LocalData, TypeOK, StoreOK, SharedOK, SetStatus, FinishRun
    <2> QED BY <2>1, <2>2, <2>3 DEF LocalStep
  <1> QED BY <1>1, <1>2, <1>3

-----------------------------------------------------------------------------
(* Isolation of recovery *)

\* RecoveryIsolated with what makes it inductive: nothing is left to visit
\* outside recovery, the handlers wait for Start to return, and the snapshot
\* is taken before any task is enqueued.
RecoveryInv ==
  /\ pc[Boot] \in {"idle", "snapshot"} => toVisit = {}
  /\ pc[Boot] # "idle" => \A u \in Users : pc[u] = "idle"
  /\ pc[Boot] = "snapshot" => queue = <<>> /\ \A a \in Actors : task[a] = None
  /\ RecoveryIsolated

\* A step on the task a goroutine works for keeps the tasks of the snapshot
\* as they are, since no goroutine works for them.
LEMMA RecoveryLocal ==
  ASSUME TypeOK, RecoveryInv, NEW a \in Actors, LocalStep(a),
         a = Boot => pc[Boot] \notin {"idle", "snapshot"} /\ pc'[Boot] \notin {"idle", "snapshot"}
  PROVE  RecoveryInv'
  <1>0. Boot \in Actors /\ Users \subseteq Actors
    BY DEF Actors
  <1>1. task[a] \in Tasks /\ task[a] # None
    BY DEF LocalStep
  <1>2. \A u \in Users : pc[u] = "idle" => u # a
    BY <1>0, <1>1 DEF TypeOK, ControlOK
  <1>3. (pc[Boot] # "idle" => \A u \in Users : pc[u] = "idle")'
    BY <1>0, <1>2 DEF RecoveryInv, LocalStep, LocalControl
  <1>4. (pc[Boot] \in {"idle", "snapshot"} => toVisit = {})'
    BY <1>0 DEF RecoveryInv, LocalStep, LocalControl, LocalData
  <1>5. pc'[Boot] # "snapshot"
    BY <1>0, <1>1 DEF RecoveryInv, LocalStep, LocalControl
  <1>6. ASSUME NEW t \in Tasks, NEW s \in Status, <<t, s>> \in toVisit
        PROVE  status'[t] = s /\ (\A b \in Actors : task'[b] # t) /\ ~Queued(t)'
    <2>1. status[t] = s /\ ~Queued(t) /\ \A b \in Actors : task[b] # t
      BY <1>6 DEF RecoveryInv, RecoveryIsolated
    <2>2. status'[t] = s
      BY <2>1 DEF LocalStep, LocalData
    <2>3. \A b \in Actors : task'[b] # t
      BY <2>1 DEF LocalStep, LocalControl
    <2>4. ~Queued(t)'
      <3>1. CASE queue' = queue
        BY <2>1, <3>1 DEF Queued
      <3>2. CASE queue' = Append(queue, task[a])
        <4>1. queue \in Seq(Tasks) /\ Len(queue) \in Nat
          BY DEF TypeOK, SharedOK
        <4>2. Len(queue') = Len(queue) + 1 /\ queue'[Len(queue) + 1] = task[a]
              /\ \A i \in 1..Len(queue) : queue'[i] = queue[i]
          BY <1>1, <3>2, <4>1
        <4> QED BY <2>1, <4>1, <4>2 DEF Queued
      <3> QED BY <3>1, <3>2 DEF LocalStep, LocalData
    <2> QED BY <2>2, <2>3, <2>4
  <1>7. RecoveryIsolated'
    BY <1>6 DEF RecoveryIsolated, LocalStep, LocalData
  <1> QED BY <1>3, <1>4, <1>5, <1>7 DEF RecoveryInv

\* A call that recovery makes returns to recovery.
LEMMA BootCall ==
  ASSUME TypeOK, CallStep(Boot)
  PROVE  pc[Boot] \notin {"idle", "snapshot"} /\ pc'[Boot] \notin {"idle", "snapshot"}
  <1>1. Boot \in Actors /\ Boot \notin Workers
    BY DEF Actors
  <1>2. pc[Boot] \in BootPC
    BY DEF TypeOK, ControlOK
  <1>3. ASSUME NEW p, Goto(Boot, p)  PROVE pc'[Boot] = p
    BY <1>1, <1>3 DEF Goto, TypeOK, ControlOK
  <1>4. Return(Boot) => pc'[Boot] = "recover"
    BY <1>1, <1>3 DEF Return, Returned
  <1>5. CASE EnqueueMark(Boot)
    BY <1>3, <1>4, <1>5 DEF EnqueueMark
  <1>6. CASE EnqueueSend(Boot)
    BY <1>4, <1>6 DEF EnqueueSend
  <1>7. CASE EnqueueTimeout(Boot)
    BY <1>3, <1>7 DEF EnqueueTimeout
  <1>8. CASE EnqueueUnmark(Boot)
    BY <1>4, <1>8 DEF EnqueueUnmark
  <1>9. ~(Approve(Boot) \/ Reject(Boot) \/ RecordContinue(Boot))
    BY <1>2 DEF BootPC, Approve, Reject, RecordContinue
  <1>10. ~(FeedbackWrite(Boot) \/ Reopen(Boot) \/ CallFail(Boot))
    BY <1>2 DEF BootPC, FeedbackWrite, Reopen, CallFail
  <1> QED BY <1>5, <1>6, <1>7, <1>8, <1>9, <1>10 DEF CallStep

LEMMA RecoveryReceive ==
  ASSUME TypeOK, RecoveryInv, NEW w \in Workers, Receive(w)
  PROVE  RecoveryInv'
  <1>1. /\ w \in Actors /\ w # Boot /\ w \notin Users /\ Boot \in Actors /\ Users \subseteq Actors
        /\ pc' = [pc EXCEPT ![w] = "received"] /\ task' = [task EXCEPT ![w] = Head(queue)]
        /\ queue # <<>> /\ queue' = Tail(queue) /\ UNCHANGED <<status, toVisit>>
    BY DEF Receive, Actors, Goto, store, env
  <1>2. \A b \in Actors : (b # w => pc'[b] = pc[b] /\ task'[b] = task[b])
    BY <1>1 DEF TypeOK, ControlOK
  <1>3. queue \in Seq(Tasks) /\ Len(queue) \in Nat \ {0}
    BY <1>1 DEF TypeOK, SharedOK
  <1>4. /\ Len(queue') = Len(queue) - 1
        /\ \A i \in 1..Len(queue') : queue'[i] = queue[i + 1] /\ i + 1 \in 1..Len(queue)
        /\ task'[w] = queue[1] /\ 1 \in 1..Len(queue)
    BY <1>1, <1>3 DEF TypeOK, ControlOK
  <1>5. \A t : Queued(t)' => Queued(t)
    BY <1>4 DEF Queued
  <1>6. Queued(task'[w])
    BY <1>4 DEF Queued
  <1>7. RecoveryIsolated'
    BY <1>1, <1>2, <1>5, <1>6 DEF RecoveryInv, RecoveryIsolated
  <1> QED BY <1>1, <1>2, <1>7 DEF RecoveryInv

LEMMA RecoveryRequest ==
  ASSUME TypeOK, RecoveryInv, NEW u \in Users, NewRequest(u)
  PROVE  RecoveryInv'
  <1>1. u \in Actors /\ u # Boot /\ Boot \in Actors
    BY DEF Actors
  <1>2. pc[Boot] = "idle" /\ UNCHANGED toVisit
    BY DEF NewRequest, RerunTask, CreateTask, CancelCheck, ReviewCheck, Request, Serving
  <1>3. \E p : Goto(u, p)
    BY DEF NewRequest, RerunTask, CreateTask, CancelCheck, ReviewCheck
  <1>4. pc'[Boot] = "idle"
    BY <1>1, <1>2, <1>3 DEF Goto, TypeOK, ControlOK
  <1>5. toVisit' = {}
    BY <1>2 DEF RecoveryInv
  <1> QED BY <1>4, <1>5 DEF RecoveryInv, RecoveryIsolated

LEMMA RecoverySnapshot ==
  ASSUME TypeOK, RecoveryInv, RecoverSnapshot
  PROVE  RecoveryInv'
  <1>1. Boot \in Actors /\ Users \subseteq Actors /\ Boot \notin Users /\ pc[Boot] = "snapshot"
        /\ UNCHANGED <<status, task, queue>>
    BY DEF Actors, RecoverSnapshot, store, shared
  <1>2. /\ queue = <<>> /\ \A a \in Actors : task[a] = None
        /\ \A u \in Users : pc[u] = "idle"
        /\ toVisit = {}
    BY <1>1 DEF RecoveryInv
  <1>3. \A t : ~Queued(t)
    BY <1>2 DEF Queued
  <1>4. PICK p \in {"recover", "idle"} : Goto(Boot, p) /\ (p = "idle" => UNCHANGED toVisit)
        /\ (p = "recover" => toVisit' = {<<t, status[t]>> : t \in Unfinished})
    BY DEF RecoverSnapshot
  <1>5. pc'[Boot] = p /\ \A u \in Users : pc'[u] = pc[u]
    BY <1>1, <1>4 DEF Goto, TypeOK, ControlOK
  <1>6. \A t \in Tasks, s \in Status : <<t, s>> \in toVisit' => status[t] = s
    BY <1>2, <1>4
  <1>7. \A t \in Tasks, a \in Actors : task'[a] # t
    BY <1>1, <1>2
  <1>8. \A t : ~Queued(t)'
    BY <1>1, <1>3 DEF Queued
  <1>9. RecoveryIsolated'
    BY <1>1, <1>6, <1>7, <1>8 DEF RecoveryIsolated
  <1> QED BY <1>2, <1>4, <1>5, <1>9 DEF RecoveryInv

LEMMA RecoveryVisit ==
  ASSUME TypeOK, RecoveryInv, NEW t \in Tasks, NEW s \in Status, RecoverVisit(t, s)
  PROVE  RecoveryInv'
  <1>1. Boot \in Actors /\ Users \subseteq Actors /\ Boot \notin Users /\ pc[Boot] = "recover"
        /\ <<t, s>> \in toVisit /\ toVisit' = toVisit \ {<<t, s>>}
        /\ task' = [task EXCEPT ![Boot] = t]
        /\ UNCHANGED <<status, queue>>
    BY DEF Actors, RecoverVisit, store, shared
  <1>2. PICK p \in {"enq", "closeRuns"} : Goto(Boot, p)
    BY DEF RecoverVisit
  <1>3. pc'[Boot] = p /\ \A u \in Users : pc'[u] = pc[u]
    BY <1>1, <1>2 DEF Goto, TypeOK, ControlOK
  <1>4. status[t] = s
    BY <1>1 DEF RecoveryInv, RecoveryIsolated
  <1>5. \A x \in Tasks, y \in Status : <<x, y>> \in toVisit' =>
          status[x] = y /\ ~Queued(x) /\ x # t /\ \A a \in Actors : task[a] # x
    BY <1>1, <1>4 DEF RecoveryInv, RecoveryIsolated
  <1>6. \A a \in Actors : task'[a] = IF a = Boot THEN t ELSE task[a]
    BY <1>1 DEF TypeOK, ControlOK
  <1>7. \A x : Queued(x)' <=> Queued(x)
    BY <1>1 DEF Queued
  <1>8. RecoveryIsolated'
    BY <1>1, <1>5, <1>6, <1>7 DEF RecoveryIsolated
  <1> QED BY <1>1, <1>2, <1>3, <1>8 DEF RecoveryInv

LEMMA RecoveryNext == TypeOK /\ RecoveryInv /\ [Next]_vars => RecoveryInv'
  <1> SUFFICES ASSUME TypeOK, RecoveryInv, [Next]_vars  PROVE RecoveryInv'
    OBVIOUS
  <1>0. Boot \in Actors /\ Workers \subseteq Actors /\ Users \subseteq Actors
        /\ Boot \notin Workers /\ Boot \notin Users
    BY DEF Actors
  <1>1. ASSUME NEW a \in Actors, CallStep(a)  PROVE RecoveryInv'
    BY <1>1, CallLocal, BootCall, RecoveryLocal
  <1>2. ASSUME NEW w \in Workers, WorkerStep(w)  PROVE RecoveryInv'
    BY <1>0, <1>2, WorkerLocal, RecoveryReceive, RecoveryLocal
  <1>3. ASSUME NEW u \in Users, UserStep(u)  PROVE RecoveryInv'
    BY <1>0, <1>3, UserLocal, RecoveryLocal
  <1>4. ASSUME NEW u \in Users, NewRequest(u)  PROVE RecoveryInv'
    BY <1>4, RecoveryRequest
  <1>5. CASE BootStep
    <2>1. CASE RecoverSnapshot
      BY <2>1, RecoverySnapshot
    <2>2. ASSUME NEW t \in Tasks, NEW s \in Status, RecoverVisit(t, s)  PROVE RecoveryInv'
      BY <2>2, RecoveryVisit
    <2>3. CASE RecoverCloseRuns \/ RecoverReset \/ RecoverFail
      <3>1. pc[Boot] \in {"closeRuns", "reset"} /\ \E p \in {"reset", "enq", "recover"} : Goto(Boot, p)
        BY <2>3, <1>0 DEF RecoverCloseRuns, RecoverReset, RecoverFail, Return, Returned
      <3>2. pc[Boot] \notin {"idle", "snapshot"} /\ pc'[Boot] \notin {"idle", "snapshot"}
        BY <1>0, <3>1 DEF Goto, TypeOK, ControlOK
      <3> QED BY <1>0, <2>3, <3>2, BootLocal, RecoveryLocal
    <2>4. CASE RecoverDone
      <3>1. toVisit' = {} /\ UNCHANGED <<status, task, queue>>
        BY <2>4 DEF RecoverDone, store, shared, env
      <3>2. pc'[Boot] = "idle"
        BY <1>0, <2>4 DEF RecoverDone, Goto, TypeOK, ControlOK
      <3> QED BY <3>1, <3>2 DEF RecoveryInv, RecoveryIsolated
    <2> QED BY <1>5, <2>1, <2>2, <2>3, <2>4 DEF BootStep
  <1>6. CASE Crash
    <2>1. /\ toVisit' = {} /\ queue' = <<>> /\ task' = [a \in Actors |-> None]
          /\ pc' = [a \in Actors |-> IF a = Boot THEN "snapshot" ELSE "idle"]
      BY <1>6 DEF Crash
    <2> QED BY <1>0, <2>1 DEF RecoveryInv, RecoveryIsolated
  <1>7. CASE UNCHANGED vars
    BY <1>7 DEF vars, store, shared, env, RecoveryInv, RecoveryIsolated, Queued
  <1> QED BY <1>1, <1>2, <1>3, <1>4, <1>5, <1>6, <1>7 DEF Next, Rest

LEMMA RecoveryInvHolds == Spec => []RecoveryInv
  <1>1. Init => RecoveryInv
    BY DEF Init, RecoveryInv, RecoveryIsolated, Actors
  <1>2. TypeOK /\ RecoveryInv /\ [Next]_vars => RecoveryInv'
    BY RecoveryNext
  <1> QED BY <1>1, <1>2, TypeCorrect, PTL DEF Spec

\* recoverTasks can act on the statuses of its snapshot although the workers
\* already run: they only get tasks it has enqueued, and no handler is served.
THEOREM RecoveryIsIsolated == Spec => []RecoveryIsolated
  BY RecoveryInvHolds, PTL DEF RecoveryInv

-----------------------------------------------------------------------------
(* Ownership of the cancellation functions *)

\* A step after which the entry of the goroutine's task is gone, or is the
\* one it was and the goroutine goes on executing if it was.
KeepsOwner(a) ==
  \/ cancelTasks'[task[a]] = None
  \/ /\ cancelTasks'[task[a]] = a /\ a \in Workers
     /\ Executing(a)' /\ task'[a] = task[a]
  \/ /\ UNCHANGED cancelTasks
     /\ a \in Workers /\ Executing(a) => Executing(a)' /\ task'[a] = task[a]

LEMMA OwnedLocal ==
  ASSUME TypeOK, CancelMapOwned, NEW a \in Actors, LocalStep(a), KeepsOwner(a)
  PROVE  CancelMapOwned'
  <1> SUFFICES ASSUME NEW t \in Tasks, cancelTasks'[t] # None
               PROVE  Executing(cancelTasks[t])' /\ task'[cancelTasks'[t]] = t
    BY DEF CancelMapOwned
  <1> DEFINE w == cancelTasks[t]
  <1>1. Workers \subseteq Actors /\ task[a] \in Tasks
    BY DEF Actors, LocalStep
  <1>2. \A b \in Actors : b # a => (Executing(b)' <=> Executing(b)) /\ task'[b] = task[b]
    BY DEF LocalStep, LocalControl, Executing
  <1>3. CASE t # task[a]
    <2>1. cancelTasks'[t] = w /\ w \in Workers /\ Executing(w) /\ task[w] = t
      BY <1>3 DEF LocalStep, LocalData, CancelMapOwned, TypeOK, SharedOK
    <2>2. w # a
      BY <1>3, <2>1
    <2> QED BY <1>1, <1>2, <2>1, <2>2 DEF Executing
  <1>4. CASE t = task[a] /\ cancelTasks'[t] = a /\ Executing(a)' /\ task'[a] = task[a]
    BY <1>4 DEF Executing
  <1>5. CASE t = task[a] /\ UNCHANGED cancelTasks
             /\ (a \in Workers /\ Executing(a) => Executing(a)' /\ task'[a] = task[a])
    <2>1. cancelTasks'[t] = w /\ w \in Workers /\ Executing(w) /\ task[w] = t
      BY <1>5 DEF CancelMapOwned, TypeOK, SharedOK
    <2>2. CASE w = a
      BY <1>5, <2>1, <2>2 DEF Executing
    <2>3. CASE w # a
      BY <1>1, <1>2, <2>1, <2>3 DEF Executing
    <2> QED BY <2>2, <2>3
  <1> QED BY <1>3, <1>4, <1>5 DEF KeepsOwner

\* A call moves inside itself or returns; a worker that makes it goes on executing
\* its task.
LEMMA CallInside ==
  ASSUME TypeOK, NEW a \in Actors, a \in Workers, CallStep(a)
  PROVE  /\ pc'[a] = "cleanup" \/ pc'[a] \in ReviewPC
         /\ Executing(a)'
         /\ task'[a] = task[a]
  <1>1. ASSUME Return(a)  PROVE pc'[a] = "cleanup" /\ task' = task
    BY <1>1 DEF Return, Returned, Goto, TypeOK, ControlOK
  <1>2. ASSUME NEW p \in ReviewPC, Goto(a, p), UNCHANGED task
        PROVE  pc'[a] \in ReviewPC /\ task' = task
    BY <1>2 DEF Goto, TypeOK, ControlOK
  <1>3. Return(a) \/ (UNCHANGED task /\ \E p \in ReviewPC : Goto(a, p))
    <2>1. CASE EnqueueMark(a)
      BY <2>1 DEF EnqueueMark, ReviewPC
    <2>2. CASE EnqueueSend(a)
      BY <2>2 DEF EnqueueSend, ReviewPC
    <2>3. CASE EnqueueTimeout(a)
      BY <2>3 DEF EnqueueTimeout, ReviewPC
    <2>4. CASE EnqueueUnmark(a)
      BY <2>4 DEF EnqueueUnmark, ReviewPC
    <2>5. CASE Approve(a)
      BY <2>5 DEF Approve, ReviewPC
    <2>6. CASE Reject(a)
      BY <2>6 DEF Reject, ReviewPC
    <2>7. CASE RecordContinue(a)
      BY <2>7 DEF RecordContinue, ReviewPC
    <2>8. CASE FeedbackWrite(a)
      BY <2>8 DEF FeedbackWrite, ReviewPC
    <2>9. CASE Reopen(a)
      BY <2>9 DEF Reopen, ReviewPC
    <2>10. CASE CallFail(a)
      BY <2>10 DEF CallFail, ReviewPC
    <2> QED BY <2>1, <2>2, <2>3, <2>4, <2>5, <2>6, <2>7, <2>8, <2>9, <2>10 DEF CallStep
  <1>4. (pc'[a] = "cleanup" \/ pc'[a] \in ReviewPC) /\ task' = task
    BY <1>1, <1>2, <1>3
  <1> QED BY <1>4 DEF Executing, WorkerPC

\* A worker inside a call stays inside or returns to the end of executeTask.
LEMMA CallOwner ==
  ASSUME TypeOK, NEW a \in Actors, CallStep(a)
  PROVE  KeepsOwner(a)
  <1>1. UNCHANGED cancelTasks
    BY DEF CallStep, EnqueueMark, EnqueueSend, EnqueueTimeout, EnqueueUnmark, Approve, Reject,
           RecordContinue, FeedbackWrite, Reopen, CallFail, shared
  <1>2. ASSUME a \in Workers
        PROVE  Executing(a)' /\ task'[a] = task[a]
    BY <1>2, CallInside
  <1> QED BY <1>1, <1>2 DEF KeepsOwner

LEMMA WorkerOwner ==
  ASSUME TypeOK, NEW w \in Workers, WorkerStep(w)
  PROVE  Receive(w) \/ KeepsOwner(w)
  <1> USE DEF shared, Actors
  <1>0. ASSUME NEW p, Goto(w, p)  PROVE pc'[w] = p
    BY <1>0 DEF Goto, TypeOK, ControlOK
  <1>1. CASE RegisterCancel(w)
    <2>1. cancelTasks'[task[w]] = w
      BY <1>1, BusyTask DEF RegisterCancel, TypeOK, SharedOK
    <2>2. Executing(w)' /\ task' = task
      BY <1>0, <1>1 DEF RegisterCancel, Executing, WorkerPC
    <2> QED BY <2>1, <2>2 DEF KeepsOwner
  <1>2. CASE Cleanup(w)
    BY <1>2, BusyTask DEF Cleanup, KeepsOwner, TypeOK, SharedOK
  <1>3. CASE MarkDequeued(w) \/ LoadTask(w)
    BY <1>3 DEF MarkDequeued, LoadTask, Executing, KeepsOwner, WorkerPC, ReviewPC
  <1>4. ASSUME UNCHANGED <<task, cancelTasks>>,
               \E p \in (WorkerPC \ {"idle", "received", "load", "register"}) \cup ReviewPC : Goto(w, p)
        PROVE  KeepsOwner(w)
    BY <1>0, <1>4 DEF Executing, KeepsOwner
  <1>5. CASE AddRun(w)
    BY <1>4, <1>5 DEF AddRun, WorkerPC
  <1>6. ASSUME NEW s \in Active, StepBegin(w, s)  PROVE KeepsOwner(w)
    BY <1>4, <1>6 DEF StepBegin, WorkerPC
  <1>7. CASE StepEnd(w)
    BY <1>4, <1>7 DEF StepEnd, WorkerPC
  <1>8. CASE StepFail(w)
    BY <1>4, <1>8 DEF StepFail, WorkerPC
  <1>9. CASE PlannerSkip(w)
    BY <1>4, <1>9 DEF PlannerSkip, WorkerPC
  <1>10. ASSUME NEW s \in Settled, FinishTask(w, s)  PROVE KeepsOwner(w)
    BY <1>4, <1>10 DEF FinishTask, WorkerPC
  <1>11. CASE CloseRun(w)
    BY <1>4, <1>11 DEF CloseRun, WorkerPC
  <1>12. CASE PersistMemories(w)
    BY <1>4, <1>12 DEF PersistMemories, WorkerPC
  <1>13. CASE AutoReview(w)
    BY <1>4, <1>13 DEF AutoReview, WorkerPC, AutoDecision, ReviewPC
  <1>14. CASE FailCheck(w)
    BY <1>4, <1>14 DEF FailCheck, WorkerPC
  <1>15. CASE FailWrite(w)
    BY <1>4, <1>15 DEF FailWrite, WorkerPC
  <1>16. CASE FailClose(w)
    BY <1>4, <1>16 DEF FailClose, WorkerPC
  <1> QED BY <1>1, <1>2, <1>3, <1>5, <1>6, <1>7, <1>8, <1>9, <1>10, <1>11, <1>12, <1>13, <1>14, <1>15, <1>16 DEF WorkerStep

LEMMA OwnedNext == TypeOK /\ CancelMapOwned /\ [Next]_vars => CancelMapOwned'
  <1> SUFFICES ASSUME TypeOK, CancelMapOwned, [Next]_vars  PROVE CancelMapOwned'
    OBVIOUS
  <1>0. Workers \subseteq Actors /\ Users \subseteq Actors /\ Boot \in Actors
        /\ Boot \notin Workers /\ \A u \in Users : u \notin Workers
    BY DEF Actors
  <1>1. ASSUME NEW a \in Actors, CallStep(a)  PROVE CancelMapOwned'
    BY <1>1, CallLocal, CallOwner, OwnedLocal
  <1>2. ASSUME UNCHANGED cancelTasks,
               \A w \in Workers : Executing(w) => pc'[w] = pc[w] /\ task'[w] = task[w]
        PROVE  CancelMapOwned'
    BY <1>2 DEF CancelMapOwned, Executing, TypeOK, SharedOK
  <1>3. ASSUME NEW w \in Workers, WorkerStep(w)  PROVE CancelMapOwned'
    <2>1. CASE Receive(w)
      <3>1. ~Executing(w)
        BY <2>1 DEF Receive, Executing, ReviewPC
      <3>2. UNCHANGED cancelTasks /\ \A b \in Workers : b # w => pc'[b] = pc[b] /\ task'[b] = task[b]
        BY <1>0, <2>1 DEF Receive, Goto, TypeOK, ControlOK
      <3> QED BY <1>2, <3>1, <3>2
    <2> QED BY <1>0, <1>3, <2>1, WorkerOwner, WorkerLocal, OwnedLocal
  <1>4. ASSUME NEW a \in Actors, a \notin Workers, UNCHANGED cancelTasks,
               \E p : Goto(a, p), UNCHANGED task \/ \E t : task' = [task EXCEPT ![a] = t]
        PROVE  CancelMapOwned'
    BY <1>0, <1>2, <1>4 DEF Goto, TypeOK, ControlOK
  <1>5. ASSUME NEW u \in Users, UserStep(u) \/ NewRequest(u)  PROVE CancelMapOwned'
    <2>1. UNCHANGED cancelTasks /\ (\E p : Goto(u, p))
      BY <1>5 DEF UserStep, AddEvaluationRun, CancelWrite, CancelContext, NewRequest, RerunTask,
                  CreateTask, CancelCheck, ReviewCheck, Return, shared
    <2>2. UNCHANGED task \/ \E t : task' = [task EXCEPT ![u] = t]
      BY <1>0, <1>5 DEF UserStep, AddEvaluationRun, CancelWrite, CancelContext, NewRequest,
                  RerunTask, CreateTask, CancelCheck, ReviewCheck, Request, Return
    <2> QED BY <1>0, <1>4, <2>1, <2>2
  <1>6. CASE BootStep
    <2>1. UNCHANGED cancelTasks /\ (\E p : Goto(Boot, p))
      BY <1>6 DEF BootStep, RecoverSnapshot, RecoverVisit, RecoverCloseRuns, RecoverReset,
                  RecoverFail, RecoverDone, Return, shared
    <2>2. UNCHANGED task \/ \E t : task' = [task EXCEPT ![Boot] = t]
      BY <1>0, <1>6 DEF BootStep, RecoverSnapshot, RecoverVisit, RecoverCloseRuns, RecoverReset,
                  RecoverFail, RecoverDone, Return
    <2> QED BY <1>0, <1>4, <2>1, <2>2
  <1>7. CASE Crash
    BY <1>7 DEF Crash, CancelMapOwned
  <1>8. CASE UNCHANGED vars
    BY <1>2, <1>8 DEF vars, shared
  <1> QED BY <1>1, <1>3, <1>5, <1>6, <1>7, <1>8 DEF Next, Rest

\* CancelTask can only reach the context of an execution of the task it was
\* asked to cancel, with any number of workers executing any tasks.
THEOREM CancelMapIsOwned == Spec => []CancelMapOwned
  <1>1. Init => CancelMapOwned
    BY DEF Init, CancelMapOwned
  <1>2. TypeOK /\ CancelMapOwned /\ [Next]_vars => CancelMapOwned'
    BY OwnedNext
  <1> QED BY <1>1, <1>2, TypeCorrect, PTL DEF Spec

-----------------------------------------------------------------------------
(* Active tasks are being executed *)

WorkPoints == {"ready", "agent", "skip", "failing", "failWrite"}
RecoverPoints == {"closeRuns", "reset"}

\* A step after which the goroutine's task is executed, recovered, given up or
\* settled, or that leaves its status to whoever else is responsible for it.
KeepsActive(a) ==
  \/ status'[task[a]] \notin Active
  \/ task[a] \in stranded'
  \/ a \in Workers /\ pc'[a] \in WorkPoints /\ task'[a] = task[a]
  \/ a = Boot /\ pc'[a] \in RecoverPoints /\ task'[a] = task[a]
  \/ /\ UNCHANGED status
     /\ pc[a] \notin WorkPoints \cup RecoverPoints

LEMMA ActiveLocal ==
  ASSUME TypeOK, RecoveryInv, ActiveIsExecuted, NEW a \in Actors, LocalStep(a), KeepsActive(a)
  PROVE  ActiveIsExecuted'
  <1> SUFFICES ASSUME NEW t \in Tasks, status'[t] \in Active, t \notin stranded'
               PROVE  \/ \E w \in Workers : task'[w] = t /\ pc'[w] \in WorkPoints
                      \/ InRecovery(t)'
    BY DEF ActiveIsExecuted, WorkPoints
  <1>1. /\ task[a] \in Tasks /\ task[a] # None /\ UNCHANGED toVisit
        /\ \A b \in Actors : b # a => pc'[b] = pc[b] /\ task'[b] = task[b]
        /\ Workers \subseteq Actors /\ Boot \in Actors
        /\ t \notin stranded
    BY DEF Actors, LocalStep, LocalControl, LocalData
  <1>2. pc[Boot] # "snapshot"
    BY <1>1 DEF RecoveryInv
  <1>3. ASSUME status[t] \in Active, a \notin Workers \/ task[a] # t \/ pc[a] \notin WorkPoints,
               a # Boot \/ task[a] # t \/ pc[a] \notin RecoverPoints
        PROVE  \/ \E w \in Workers : task'[w] = t /\ pc'[w] \in WorkPoints
               \/ InRecovery(t)'
    <2>1. \/ \E w \in Workers : task[w] = t /\ pc[w] \in WorkPoints
          \/ \E s \in Status : <<t, s>> \in toVisit
          \/ pc[Boot] \in RecoverPoints /\ task[Boot] = t
      BY <1>1, <1>2, <1>3 DEF ActiveIsExecuted, InRecovery, WorkPoints, RecoverPoints
    <2>2. CASE \E w \in Workers : task[w] = t /\ pc[w] \in WorkPoints
      BY <1>1, <1>3, <2>2
    <2>3. CASE \E s \in Status : <<t, s>> \in toVisit
      BY <1>1, <2>3 DEF InRecovery
    <2>4. CASE pc[Boot] \in RecoverPoints /\ task[Boot] = t
      BY <1>1, <1>3, <2>4 DEF InRecovery, RecoverPoints
    <2> QED BY <2>1, <2>2, <2>3, <2>4
  <1>4. CASE t # task[a]
    BY <1>3, <1>4 DEF LocalStep, LocalData
  <1>5. CASE t = task[a]
    <2>1. CASE a \in Workers /\ pc'[a] \in WorkPoints /\ task'[a] = task[a]
      BY <1>5, <2>1
    <2>2. CASE a = Boot /\ pc'[a] \in RecoverPoints /\ task'[a] = task[a]
      BY <1>5, <2>2 DEF InRecovery, RecoverPoints
    <2>3. CASE UNCHANGED status /\ pc[a] \notin WorkPoints \cup RecoverPoints
      BY <1>3, <2>3
    <2> QED BY <1>5, <2>1, <2>2, <2>3 DEF KeepsActive
  <1> QED BY <1>4, <1>5

LEMMA CallActive ==
  ASSUME TypeOK, NEW a \in Actors, CallStep(a)
  PROVE  KeepsActive(a)
  <1>0. pc[a] \notin WorkPoints \cup RecoverPoints
    <2>1. CASE EnqueueMark(a)
      BY <2>1 DEF EnqueueMark, WorkPoints, RecoverPoints
    <2>2. CASE EnqueueSend(a)
      BY <2>2 DEF EnqueueSend, WorkPoints, RecoverPoints
    <2>3. CASE EnqueueTimeout(a)
      BY <2>3 DEF EnqueueTimeout, WorkPoints, RecoverPoints
    <2>4. CASE EnqueueUnmark(a)
      BY <2>4 DEF EnqueueUnmark, WorkPoints, RecoverPoints
    <2>5. CASE Approve(a)
      BY <2>5 DEF Approve, WorkPoints, RecoverPoints
    <2>6. CASE Reject(a)
      BY <2>6 DEF Reject, WorkPoints, RecoverPoints
    <2>7. CASE RecordContinue(a)
      BY <2>7 DEF RecordContinue, WorkPoints, RecoverPoints
    <2>8. CASE FeedbackWrite(a)
      BY <2>8 DEF FeedbackWrite, WorkPoints, RecoverPoints
    <2>9. CASE Reopen(a)
      BY <2>9 DEF Reopen, WorkPoints, RecoverPoints
    <2>10. CASE CallFail(a)
      BY <2>10 DEF CallFail, WorkPoints, RecoverPoints
    <2> QED BY <2>1, <2>2, <2>3, <2>4, <2>5, <2>6, <2>7, <2>8, <2>9, <2>10 DEF CallStep
  <1>2. CASE UNCHANGED status
    BY <1>0, <1>2 DEF KeepsActive
  <1>3. CASE Approve(a) \/ Reject(a) \/ Reopen(a)
    <2>1. \E x \in {"COMPLETED", "FAILED", "CREATED"} : SetStatus(task[a], x)
      BY <1>3 DEF Approve, Reject, Reopen
    <2>2. task[a] \in Tasks
      BY <1>3, BusyTask DEF Approve, Reject, Reopen
    <2>3. PICK x \in {"COMPLETED", "FAILED", "CREATED"} : status' = [status EXCEPT ![task[a]] = x]
      BY <2>1 DEF SetStatus
    <2>4. status'[task[a]] = x
      BY <2>2, <2>3 DEF TypeOK, StoreOK
    <2> QED BY <2>4 DEF KeepsActive, Active
  <1> QED BY <1>2, <1>3 DEF CallStep, EnqueueMark, EnqueueSend, EnqueueTimeout, EnqueueUnmark,
                            RecordContinue, FeedbackWrite, CallFail, store

LEMMA WorkerActive ==
  ASSUME TypeOK, NEW w \in Workers, WorkerStep(w)
  PROVE  Receive(w) \/ KeepsActive(w)
  <1> USE DEF store, WorkPoints, RecoverPoints
  <1>0. w \in Actors /\ \A p : Goto(w, p) => pc'[w] = p
    BY DEF Goto, TypeOK, ControlOK, Actors
  <1>1. CASE MarkDequeued(w) \/ LoadTask(w) \/ RegisterCancel(w) \/ AddRun(w)
    BY <1>1 DEF MarkDequeued, LoadTask, RegisterCancel, AddRun, KeepsActive
  <1>2. ASSUME NEW s \in Active, StepBegin(w, s)  PROVE KeepsActive(w)
    BY <1>0, <1>2 DEF StepBegin, KeepsActive
  <1>3. CASE StepEnd(w) \/ PlannerSkip(w)
    BY <1>0, <1>3 DEF StepEnd, PlannerSkip, KeepsActive
  <1>4. CASE StepFail(w)
    BY <1>0, <1>4 DEF StepFail, KeepsActive
  <1>5. ASSUME NEW s \in Settled, FinishTask(w, s)  PROVE KeepsActive(w)
    <2>1. task[w] \in Tasks
      BY <1>0, <1>5, BusyTask DEF FinishTask
    <2>2. status'[task[w]] = s
      BY <1>5, <2>1 DEF FinishTask, SetStatus, TypeOK, StoreOK
    <2>3. s \notin Active
      BY DEF Settled, Active
    <2> QED BY <2>2, <2>3 DEF KeepsActive
  <1>6. CASE CloseRun(w) \/ PersistMemories(w) \/ AutoReview(w) \/ FailClose(w) \/ Cleanup(w)
    BY <1>6 DEF CloseRun, PersistMemories, AutoReview, FailClose, Cleanup, KeepsActive
  <1>7. CASE FailCheck(w)
    BY <1>0, <1>7 DEF FailCheck, KeepsActive, Active
  <1>8. CASE FailWrite(w)
    <2>1. task[w] \in Tasks
      BY <1>0, <1>8, BusyTask DEF FailWrite
    <2> QED BY <1>8, <2>1 DEF FailWrite, SetStatus, KeepsActive, TypeOK, StoreOK, Active
  <1> QED BY <1>1, <1>2, <1>3, <1>4, <1>5, <1>6, <1>7, <1>8 DEF WorkerStep

LEMMA UserActive ==
  ASSUME TypeOK, NEW u \in Users, UserStep(u)
  PROVE  KeepsActive(u)
  <1> USE DEF store, WorkPoints, RecoverPoints
  <1>1. CASE AddEvaluationRun(u) \/ CancelContext(u)
    BY <1>1 DEF AddEvaluationRun, CancelContext, KeepsActive
  <1>2. CASE CancelWrite(u)
    <2>1. task[u] \in Tasks
      BY <1>2, BusyTask DEF CancelWrite, Actors
    <2> QED BY <1>2, <2>1 DEF CancelWrite, SetStatus, KeepsActive, TypeOK, StoreOK, Active
  <1> QED BY <1>1, <1>2 DEF UserStep

LEMMA RecoverActive ==
  ASSUME TypeOK, RecoverCloseRuns \/ RecoverReset \/ RecoverFail
  PROVE  KeepsActive(Boot)
  <1>0. Boot \in Actors /\ \A p : Goto(Boot, p) => pc'[Boot] = p
    BY DEF Goto, TypeOK, ControlOK, Actors
  <1>1. CASE RecoverCloseRuns
    BY <1>0, <1>1 DEF RecoverCloseRuns, KeepsActive, RecoverPoints
  <1>2. CASE RecoverReset
    <2>1. task[Boot] \in Tasks
      BY <1>0, <1>2, BusyTask DEF RecoverReset
    <2> QED BY <1>2, <2>1 DEF RecoverReset, SetStatus, KeepsActive, TypeOK, StoreOK, Active
  <1>3. CASE RecoverFail
    BY <1>3 DEF RecoverFail, KeepsActive
  <1> QED BY <1>1, <1>2, <1>3

\* A step of a goroutine that is not executing or recovering a task and does
\* not change the store's statuses.
LEMMA ActiveFrame ==
  ASSUME TypeOK, ActiveIsExecuted, NEW a \in Actors,
         pc[a] \notin WorkPoints \cup RecoverPoints \cup {"snapshot"},
         \A b \in Actors : b # a => pc'[b] = pc[b] /\ task'[b] = task[b],
         \A t \in Tasks : status'[t] \in Active => status[t] \in Active,
         UNCHANGED toVisit, stranded \subseteq stranded'
  PROVE  ActiveIsExecuted'
  <1> SUFFICES ASSUME NEW t \in Tasks, status'[t] \in Active, t \notin stranded'
               PROVE  \/ \E w \in Workers : task'[w] = t /\ pc'[w] \in WorkPoints
                      \/ InRecovery(t)'
    BY DEF ActiveIsExecuted, WorkPoints
  <1>1. \/ \E w \in Workers : task[w] = t /\ pc[w] \in WorkPoints
        \/ InRecovery(t)
    BY DEF ActiveIsExecuted, WorkPoints
  <1>2. Workers \subseteq Actors /\ Boot \in Actors
    BY DEF Actors
  <1>3. CASE \E w \in Workers : task[w] = t /\ pc[w] \in WorkPoints
    BY <1>2, <1>3
  <1>4. CASE InRecovery(t)
    BY <1>2, <1>4 DEF InRecovery, RecoverPoints
  <1> QED BY <1>1, <1>3, <1>4

LEMMA ActiveNext == TypeOK /\ RecoveryInv /\ ActiveIsExecuted /\ [Next]_vars => ActiveIsExecuted'
  <1> SUFFICES ASSUME TypeOK, RecoveryInv, ActiveIsExecuted, [Next]_vars
               PROVE  ActiveIsExecuted'
    OBVIOUS
  <1>0. Workers \subseteq Actors /\ Users \subseteq Actors /\ Boot \in Actors
        /\ Boot \notin Workers /\ \A u \in Users : u \notin Workers /\ u # Boot
    BY DEF Actors
  <1>1. ASSUME NEW a \in Actors, CallStep(a)  PROVE ActiveIsExecuted'
    BY <1>1, CallLocal, CallActive, ActiveLocal
  <1>2. ASSUME NEW w \in Workers, WorkerStep(w)  PROVE ActiveIsExecuted'
    <2>1. CASE Receive(w)
      <3>1. /\ pc[w] = "idle" /\ UNCHANGED <<status, toVisit, stranded>>
            /\ \A b \in Actors : b # w => pc'[b] = pc[b] /\ task'[b] = task[b]
        BY <1>0, <2>1 DEF Receive, Goto, TypeOK, ControlOK, store, env
      <3> QED BY <1>0, <3>1, ActiveFrame DEF WorkPoints, RecoverPoints
    <2> QED BY <1>0, <1>2, <2>1, WorkerLocal, WorkerActive, ActiveLocal
  <1>3. ASSUME NEW u \in Users, UserStep(u)  PROVE ActiveIsExecuted'
    BY <1>0, <1>3, UserLocal, UserActive, ActiveLocal
  <1>4. ASSUME NEW u \in Users, NewRequest(u)  PROVE ActiveIsExecuted'
    <2>1. PICK t \in Tasks : CreateTask(u, t) \/ CancelCheck(u, t) \/ ReviewCheck(u, t)
      BY <1>4 DEF NewRequest, RerunTask
    <2>2. pc[u] = "idle" /\ (\E p : Goto(u, p)) /\ task' = [task EXCEPT ![u] = t]
          /\ UNCHANGED <<toVisit, stranded>>
      BY <2>1 DEF CreateTask, CancelCheck, ReviewCheck, Request
    <2>3. UNCHANGED status \/ status' = [status EXCEPT ![t] = "CREATED"]
      BY <2>1 DEF CreateTask, CancelCheck, ReviewCheck, SetStatus, store
    <2>4. \A x \in Tasks : status'[x] \in Active => status[x] \in Active
      BY <2>3 DEF TypeOK, StoreOK, Active
    <2>5. \A b \in Actors : b # u => pc'[b] = pc[b] /\ task'[b] = task[b]
      BY <1>0, <2>2 DEF Goto, TypeOK, ControlOK
    <2> QED BY <1>0, <2>2, <2>4, <2>5, ActiveFrame DEF WorkPoints, RecoverPoints
  <1>5. CASE BootStep
    <2>1. CASE RecoverSnapshot
      <3>1. /\ UNCHANGED status
            /\ toVisit' = {<<t, status[t]>> : t \in Unfinished} \/ Unfinished \subseteq stranded'
        BY <2>1 DEF RecoverSnapshot, store
      <3>2. ASSUME NEW t \in Tasks, status'[t] \in Active, t \notin stranded'
            PROVE  InRecovery(t)'
        <4>1. t \in Unfinished /\ status[t] \in Status
          BY <3>1, <3>2 DEF Unfinished, Status
        <4> QED BY <3>1, <3>2, <4>1 DEF InRecovery
      <3> QED BY <3>2 DEF ActiveIsExecuted
    <2>2. ASSUME NEW t \in Tasks, NEW s \in Status, RecoverVisit(t, s)  PROVE ActiveIsExecuted'
      <3>1. /\ status[t] = s /\ UNCHANGED <<status, stranded>> /\ pc[Boot] = "recover"
            /\ toVisit' = toVisit \ {<<t, s>>}
            /\ task' = [task EXCEPT ![Boot] = t]
            /\ Goto(Boot, IF s = "CREATED" THEN "enq" ELSE "closeRuns")
        BY <2>2 DEF RecoverVisit, RecoveryInv, RecoveryIsolated, store
      <3>2. /\ \A b \in Actors : b # Boot => pc'[b] = pc[b] /\ task'[b] = task[b]
            /\ task'[Boot] = t /\ pc'[Boot] = IF s = "CREATED" THEN "enq" ELSE "closeRuns"
        BY <1>0, <3>1 DEF Goto, TypeOK, ControlOK
      <3>3. ASSUME NEW x \in Tasks, status'[x] \in Active, x \notin stranded'
            PROVE  \/ \E w \in Workers : task'[w] = x /\ pc'[w] \in WorkPoints
                   \/ InRecovery(x)'
        <4>1. CASE x = t
          BY <3>1, <3>2, <3>3, <4>1 DEF InRecovery, Active
        <4>2. CASE x # t
          <5>1. \/ \E w \in Workers : task[w] = x /\ pc[w] \in WorkPoints
                \/ \E y \in Status : <<x, y>> \in toVisit
            BY <3>1, <3>3 DEF ActiveIsExecuted, InRecovery, WorkPoints
          <5>2. CASE \E w \in Workers : task[w] = x /\ pc[w] \in WorkPoints
            BY <1>0, <3>2, <5>2
          <5>3. CASE \E y \in Status : <<x, y>> \in toVisit
            BY <3>1, <4>2, <5>3 DEF InRecovery
          <5> QED BY <5>1, <5>2, <5>3
        <4> QED BY <4>1, <4>2
      <3> QED BY <3>3 DEF ActiveIsExecuted, WorkPoints
    <2>3. CASE RecoverCloseRuns \/ RecoverReset \/ RecoverFail
      BY <1>0, <2>3, BootLocal, RecoverActive, ActiveLocal
    <2>4. CASE RecoverDone
      <3>1. /\ pc[Boot] = "recover" /\ UNCHANGED <<status, task, toVisit, stranded>>
            /\ \A b \in Actors : b # Boot => pc'[b] = pc[b]
        BY <1>0, <2>4 DEF RecoverDone, Goto, TypeOK, ControlOK, store, env
      <3> QED BY <1>0, <3>1, ActiveFrame DEF WorkPoints, RecoverPoints
    <2> QED BY <1>5, <2>1, <2>2, <2>3, <2>4 DEF BootStep
  <1>6. CASE Crash
    <2>1. pc'[Boot] = "snapshot"
      BY <1>0, <1>6 DEF Crash
    <2> QED BY <2>1 DEF ActiveIsExecuted, InRecovery
  <1>7. CASE UNCHANGED vars
    BY <1>7 DEF vars, store, env, ActiveIsExecuted, InRecovery
  <1> QED BY <1>1, <1>2, <1>3, <1>4, <1>5, <1>6, <1>7 DEF Next, Rest

\* No task is left in a working status with nobody executing it: not by a
\* cancellation, a failure, a second execution or a crash at any point.
THEOREM ActiveTasksExecuted == Spec => []ActiveIsExecuted
  <1>1. Init => ActiveIsExecuted
    BY DEF Init, ActiveIsExecuted, Active
  <1>2. TypeOK /\ RecoveryInv /\ ActiveIsExecuted /\ [Next]_vars => ActiveIsExecuted'
    BY ActiveNext
  <1> QED BY <1>1, <1>2, TypeCorrect, RecoveryInvHolds, PTL DEF Spec

-----------------------------------------------------------------------------
(* Created tasks are pending *)

FreshPoints == {"received", "load", "register", "addRun"}
SendPoints == {"evalRun", "record", "enq", "send"}

\* An enqueue that gives up has left its task stranded, and an execution that
\* has not added its run has written no status.
FreshInv ==
  /\ \A a \in Actors : pc[a] = "unmark" => task[a] \in stranded
  /\ \A w \in Workers : pc[w] \in FreshPoints \cup {"idle"} => last[w] = "none"

LEMMA FreshUnmark ==
  ASSUME TypeOK, FreshInv, NEW a \in Actors, NEW p, Goto(a, p), p # "unmark",
         \A b \in Actors : b # a => task'[b] = task[b],
         stranded \subseteq stranded'
  PROVE  \A b \in Actors : pc'[b] = "unmark" => task'[b] \in stranded'
  BY DEF FreshInv, Goto, TypeOK, ControlOK

LEMMA FreshKeep ==
  ASSUME TypeOK, FreshInv, NEW a \in Actors, NEW p, Goto(a, p), p # "unmark",
         \A b \in Actors : b # a => task'[b] = task[b],
         stranded \subseteq stranded', UNCHANGED last,
         a \in Workers /\ p \in FreshPoints \cup {"idle"} => pc[a] \in FreshPoints \cup {"idle"}
  PROVE  FreshInv'
  <1>1. \A b \in Actors : pc'[b] = IF b = a THEN p ELSE pc[b]
    BY DEF Goto, TypeOK, ControlOK
  <1>2. \A w \in Workers : pc'[w] \in FreshPoints \cup {"idle"} => last'[w] = "none"
    BY <1>1 DEF FreshInv, Actors
  <1> QED BY <1>2, FreshUnmark DEF FreshInv

LEMMA FreshCall ==
  ASSUME TypeOK, FreshInv, NEW a \in Actors, CallStep(a)
  PROVE  FreshInv'
  <1> USE DEF local, env, FreshPoints
  <1>0. LocalStep(a) /\ UNCHANGED last
    BY CallLocal DEF CallStep, EnqueueMark, EnqueueSend, EnqueueTimeout, EnqueueUnmark, Approve,
                     Reject, RecordContinue, FeedbackWrite, Reopen, CallFail
  <1>1. ASSUME NEW p, Goto(a, p), p # "unmark", a \in Workers => p \notin FreshPoints \cup {"idle"}
        PROVE  FreshInv'
    BY <1>0, <1>1, FreshKeep DEF LocalStep, LocalControl, LocalData
  <1>2. ASSUME Return(a)  PROVE FreshInv'
    BY <1>1, <1>2 DEF Return, Returned
  <1>3. CASE EnqueueTimeout(a)
    <2>1. stranded' = stranded \cup {task[a]} /\ UNCHANGED task /\ Goto(a, "unmark")
      BY <1>3 DEF EnqueueTimeout
    <2>2. \A b \in Actors : pc'[b] = IF b = a THEN "unmark" ELSE pc[b]
      BY <2>1 DEF Goto, TypeOK, ControlOK
    <2> QED BY <1>0, <2>1, <2>2 DEF FreshInv, Actors
  <1>4. CASE EnqueueMark(a)
    BY <1>1, <1>2, <1>4 DEF EnqueueMark
  <1>5. CASE EnqueueSend(a)
    BY <1>1, <1>2, <1>5 DEF EnqueueSend
  <1>6. CASE EnqueueUnmark(a)
    BY <1>1, <1>2, <1>6 DEF EnqueueUnmark
  <1>7. CASE Approve(a)
    BY <1>1, <1>2, <1>7 DEF Approve
  <1>8. CASE Reject(a)
    BY <1>1, <1>2, <1>8 DEF Reject
  <1>9. CASE RecordContinue(a)
    BY <1>1, <1>2, <1>9 DEF RecordContinue
  <1>10. CASE FeedbackWrite(a)
    BY <1>1, <1>2, <1>10 DEF FeedbackWrite
  <1>11. CASE Reopen(a)
    BY <1>1, <1>2, <1>11 DEF Reopen
  <1>12. CASE CallFail(a)
    BY <1>1, <1>2, <1>12 DEF CallFail
  <1> QED BY <1>3, <1>4, <1>5, <1>6, <1>7, <1>8, <1>9, <1>10, <1>11, <1>12 DEF CallStep

LEMMA FreshWorker ==
  ASSUME TypeOK, FreshInv, NEW w \in Workers, WorkerStep(w)
  PROVE  FreshInv'
  <1> USE DEF local, env, FreshPoints
  <1>0. w \in Actors
    BY DEF Actors
  <1>1. ASSUME NEW p, Goto(w, p), p # "unmark", UNCHANGED last, stranded \subseteq stranded',
               \A b \in Actors : b # w => task'[b] = task[b],
               p \in FreshPoints \cup {"idle"} => pc[w] \in FreshPoints \cup {"idle"}
        PROVE  FreshInv'
    BY <1>0, <1>1, FreshKeep
  <1>2. \A t : task' = task \/ task' = [task EXCEPT ![w] = t] =>
              \A b \in Actors : b # w => task'[b] = task[b]
    BY DEF TypeOK, ControlOK
  <1>3. ASSUME NEW s \in Active, StepBegin(w, s)  PROVE FreshInv'
    <2>1. /\ \A b \in Actors : pc'[b] = IF b = w THEN "agent" ELSE pc[b]
          /\ \A v \in Workers : v # w => last'[v] = last[v]
          /\ UNCHANGED <<task, stranded>>
      BY <1>0, <1>3 DEF StepBegin, Goto, TypeOK, ControlOK, LocalOK
    <2> QED BY <2>1 DEF FreshInv, Actors
  <1>4. CASE Cleanup(w)
    <2>1. /\ \A b \in Actors : pc'[b] = IF b = w THEN "idle" ELSE pc[b]
          /\ \A b \in Actors : b # w => task'[b] = task[b]
          /\ \A v \in Workers : last'[v] = IF v = w THEN "none" ELSE last[v]
          /\ UNCHANGED stranded
      BY <1>0, <1>4 DEF Cleanup, Goto, TypeOK, ControlOK, LocalOK
    <2> QED BY <2>1 DEF FreshInv, Actors
  <1>5. CASE Receive(w)
    BY <1>0, <1>1, <1>2, <1>5 DEF Receive
  <1>6. CASE MarkDequeued(w)
    BY <1>1, <1>2, <1>6 DEF MarkDequeued
  <1>7. CASE LoadTask(w)
    BY <1>1, <1>2, <1>7 DEF LoadTask
  <1>8. CASE RegisterCancel(w)
    BY <1>1, <1>2, <1>8 DEF RegisterCancel
  <1>9. CASE AddRun(w)
    BY <1>1, <1>2, <1>9 DEF AddRun
  <1>10. CASE StepEnd(w)
    BY <1>1, <1>2, <1>10 DEF StepEnd
  <1>11. CASE StepFail(w)
    BY <1>1, <1>2, <1>11 DEF StepFail
  <1>12. CASE PlannerSkip(w)
    BY <1>1, <1>2, <1>12 DEF PlannerSkip
  <1>13. ASSUME NEW s \in Settled, FinishTask(w, s)  PROVE FreshInv'
    BY <1>1, <1>2, <1>13 DEF FinishTask
  <1>14. CASE CloseRun(w)
    BY <1>1, <1>2, <1>14 DEF CloseRun
  <1>15. CASE PersistMemories(w)
    BY <1>1, <1>2, <1>15 DEF PersistMemories
  <1>16. CASE AutoReview(w)
    BY <1>1, <1>2, <1>16 DEF AutoReview, AutoDecision
  <1>17. CASE FailCheck(w)
    BY <1>1, <1>2, <1>17 DEF FailCheck
  <1>18. CASE FailWrite(w)
    BY <1>1, <1>2, <1>18 DEF FailWrite
  <1>19. CASE FailClose(w)
    BY <1>1, <1>2, <1>19 DEF FailClose
  <1> QED BY <1>3, <1>4, <1>5, <1>6, <1>7, <1>8, <1>9, <1>10, <1>11, <1>12, <1>13, <1>14, <1>15, <1>16, <1>17, <1>18, <1>19 DEF WorkerStep

LEMMA FreshNext == TypeOK /\ FreshInv /\ [Next]_vars => FreshInv'
  <1> SUFFICES ASSUME TypeOK, FreshInv, [Next]_vars  PROVE FreshInv'
    OBVIOUS
  <1>0. Workers \subseteq Actors /\ Users \subseteq Actors /\ Boot \in Actors
        /\ Boot \notin Workers /\ \A u \in Users : u \notin Workers
    BY DEF Actors
  <1>1. ASSUME NEW a \in Actors, a \notin Workers, NEW p, Goto(a, p), p # "unmark",
               \A b \in Actors : b # a => task'[b] = task[b],
               stranded \subseteq stranded', UNCHANGED last
        PROVE  FreshInv'
    BY <1>1, FreshKeep
  <1>2. \A a \in Actors : \A t : task' = task \/ task' = [task EXCEPT ![a] = t] =>
              \A b \in Actors : b # a => task'[b] = task[b]
    BY DEF TypeOK, ControlOK
  <1>3. ASSUME NEW u \in Users, UserStep(u) \/ NewRequest(u)  PROVE FreshInv'
    <2>1. UNCHANGED last /\ stranded \subseteq stranded'
      BY <1>3 DEF UserStep, AddEvaluationRun, CancelWrite, CancelContext, NewRequest,
                  RerunTask, CreateTask, CancelCheck, ReviewCheck, local, env
    <2>2. \E p \in HandlerPC \ {"unmark"} : Goto(u, p)
      BY <1>0, <1>3 DEF UserStep, AddEvaluationRun, CancelWrite, CancelContext, NewRequest, RerunTask,
                  CreateTask, CancelCheck, ReviewCheck, Return, Returned, HandlerPC, ReviewPC
    <2>3. UNCHANGED task \/ \E t : task' = [task EXCEPT ![u] = t]
      BY <1>0, <1>3 DEF UserStep, AddEvaluationRun, CancelWrite, CancelContext, NewRequest,
                  RerunTask, CreateTask, CancelCheck, ReviewCheck, Request, Return
    <2> QED BY <1>0, <1>1, <1>2, <2>1, <2>2, <2>3
  <1>4. CASE BootStep
    <2>1. UNCHANGED last
      BY <1>4 DEF BootStep, RecoverSnapshot, RecoverVisit, RecoverCloseRuns, RecoverReset,
                  RecoverFail, RecoverDone, local
    <2>2. UNCHANGED task \/ \E t : task' = [task EXCEPT ![Boot] = t]
      BY <1>0, <1>4 DEF BootStep, RecoverSnapshot, RecoverVisit, RecoverCloseRuns, RecoverReset,
                  RecoverFail, RecoverDone, Return
    <2>3. \E p \in BootPC \ {"unmark"} : Goto(Boot, p)
      BY <1>0, <1>4 DEF BootStep, RecoverSnapshot, RecoverVisit, RecoverCloseRuns, RecoverReset,
                  RecoverFail, RecoverDone, Return, Returned, BootPC
    <2>4. stranded \subseteq stranded'
      BY <1>4 DEF BootStep, RecoverSnapshot, RecoverVisit, RecoverCloseRuns, RecoverReset,
                  RecoverFail, RecoverDone, env
    <2> QED BY <1>0, <1>1, <1>2, <2>1, <2>2, <2>3, <2>4
  <1>5. CASE Crash
    BY <1>5 DEF Crash, FreshInv
  <1>6. CASE UNCHANGED vars
    BY <1>6 DEF vars, local, env, FreshInv
  <1> QED BY <1>0, <1>3, <1>4, <1>5, <1>6, FreshCall, FreshWorker DEF Next, Rest

\* The goroutines and the queue entries that keep a created task alive.
Pending(t) ==
  \/ t \in stranded
  \/ Queued(t)
  \/ \E a \in Actors : task[a] = t /\ pc[a] \in SendPoints
  \/ \E w \in Workers : task[w] = t /\ Starting(w)
  \/ InRecovery(t)

\* Goroutine a is not one of them for task t.
Idle(a, t) ==
  \/ task[a] # t
  \/ pc[a] \notin SendPoints \cup RecoverPoints /\ (a \in Workers => ~Starting(a))

Frame(a) ==
  /\ \A b \in Actors : b # a => pc'[b] = pc[b] /\ task'[b] = task[b]
  /\ \A w \in Workers : w # a => last'[w] = last[w]
  /\ stranded \subseteq stranded'

\* A step of a goroutine the task does not depend on.
LEMMA PendingFrame ==
  ASSUME TypeOK, NEW a \in Actors, NEW t \in Tasks, Pending(t), Idle(a, t), Frame(a),
         Queued(t) => Queued(t)',
         \A s \in Status : <<t, s>> \in toVisit => <<t, s>> \in toVisit',
         a = Boot => pc[Boot] # "snapshot"
  PROVE  Pending(t)'
  <1>0. Workers \subseteq Actors /\ Boot \in Actors
    BY DEF Actors
  <1>1. CASE t \in stranded
    BY <1>1 DEF Frame, Pending
  <1>2. CASE Queued(t)
    BY <1>2 DEF Pending
  <1>3. CASE \E b \in Actors : task[b] = t /\ pc[b] \in SendPoints
    BY <1>3 DEF Frame, Idle, Pending
  <1>4. CASE \E w \in Workers : task[w] = t /\ Starting(w)
    <2>1. PICK w \in Workers : task[w] = t /\ Starting(w)
      BY <1>4
    <2>2. w # a
      BY <2>1 DEF Idle
    <2>3. task'[w] = t /\ Starting(w)'
      BY <1>0, <2>1, <2>2 DEF Frame, Starting
    <2> QED BY <2>3 DEF Pending
  <1>5. CASE InRecovery(t)
    <2>1. CASE pc[Boot] = "snapshot"
      BY <1>0, <2>1 DEF Frame, InRecovery, Pending
    <2>2. CASE \E s \in Status : <<t, s>> \in toVisit
      BY <2>2 DEF InRecovery, Pending
    <2>3. CASE pc[Boot] \in {"closeRuns", "reset"} /\ task[Boot] = t
      <3>1. a # Boot
        BY <2>3 DEF Idle, RecoverPoints
      <3> QED BY <1>0, <2>3, <3>1 DEF Frame, InRecovery, Pending
    <2> QED BY <1>5, <2>1, <2>2, <2>3 DEF InRecovery
  <1> QED BY <1>1, <1>2, <1>3, <1>4, <1>5 DEF Pending

\* A step after which the goroutine's task is pending or no longer created,
\* or that changes no status and on which the task did not depend.
KeepsPending(a) ==
  \/ status'[task[a]] # "CREATED"
  \/ \E t : t = task[a] /\ Pending(t)'
  \/ UNCHANGED status /\ Idle(a, task[a])

LEMMA QueueGrows ==
  ASSUME TypeOK, NEW t \in Tasks, queue' = Append(queue, t)
  PROVE  Queued(t)' /\ \A x : Queued(x) => Queued(x)'
  <1>1. queue \in Seq(Tasks) /\ Len(queue) \in Nat
    BY DEF TypeOK, SharedOK
  <1>2. Len(queue') = Len(queue) + 1 /\ queue'[Len(queue) + 1] = t
        /\ \A i \in 1..Len(queue) : queue'[i] = queue[i]
    BY <1>1
  <1>3. Len(queue) + 1 \in 1..Len(queue')
    BY <1>1, <1>2
  <1>4. \A i \in 1..Len(queue) : i \in 1..Len(queue')
    BY <1>1, <1>2
  <1> QED BY <1>2, <1>3, <1>4 DEF Queued

LEMMA PendingLocal ==
  ASSUME TypeOK, RecoveryInv, CreatedIsPending, NEW a \in Actors, LocalStep(a), Frame(a),
         KeepsPending(a)
  PROVE  CreatedIsPending'
  <1> SUFFICES ASSUME NEW t \in Tasks, status'[t] = "CREATED"
               PROVE  Pending(t)'
    BY DEF CreatedIsPending, Pending, SendPoints
  <1>1. task[a] \in Tasks /\ task[a] # None /\ UNCHANGED toVisit /\ pc[Boot] # "snapshot"
    BY DEF LocalStep, LocalData, RecoveryInv
  <1>2. Queued(t) => Queued(t)'
    <2>1. CASE queue' = queue
      BY <2>1 DEF Queued
    <2>2. CASE queue' = Append(queue, task[a])
      BY <1>1, <2>2, QueueGrows
    <2> QED BY <2>1, <2>2 DEF LocalStep, LocalData
  <1>3. status[t] = "CREATED" => Pending(t)
    BY DEF CreatedIsPending, Pending, SendPoints
  <1>4. CASE t # task[a]
    <2>1. status[t] = "CREATED"
      BY <1>4 DEF LocalStep, LocalData
    <2>2. Idle(a, t)
      BY <1>4 DEF Idle
    <2> QED BY <1>1, <1>2, <1>3, <2>1, <2>2, PendingFrame
  <1>5. CASE t = task[a] /\ UNCHANGED status /\ Idle(a, task[a])
    BY <1>1, <1>2, <1>3, <1>5, PendingFrame
  <1> QED BY <1>4, <1>5 DEF KeepsPending

LEMMA CallFrame ==
  ASSUME TypeOK, NEW a \in Actors, CallStep(a)
  PROVE  Frame(a)
  <1>1. LocalStep(a)
    BY CallLocal
  <1>2. UNCHANGED last
    BY DEF CallStep, EnqueueMark, EnqueueSend, EnqueueTimeout, EnqueueUnmark, Approve, Reject,
           RecordContinue, FeedbackWrite, Reopen, CallFail, local
  <1> QED BY <1>1, <1>2 DEF Frame, LocalStep, LocalControl, LocalData

\* An enqueue is only dropped when another goroutine or the queue holds the
\* entry of the task.
LEMMA MarkPending ==
  ASSUME TypeOK, QueueDedup, FreshInv, NEW a \in Actors, EnqueueMark(a)
  PROVE  KeepsPending(a)
  <1>0. Workers \subseteq Actors /\ Users \subseteq Actors /\ task[a] \in Tasks
    BY BusyTask DEF EnqueueMark, Actors
  <1>1. Frame(a) /\ UNCHANGED queue
    BY CallFrame DEF CallStep, EnqueueMark, store
  <1>2. CASE task[a] \notin queued
    <2>1. pc'[a] = "send" /\ task'[a] = task[a]
      BY <1>2 DEF EnqueueMark, Goto, TypeOK, ControlOK
    <2> QED BY <2>1 DEF KeepsPending, Pending, SendPoints
  <1>3. CASE Queued(task[a])
    BY <1>1, <1>3 DEF KeepsPending, Pending, Queued, EnqueueMark
  <1>4. CASE \E b \in Actors : Holding(b) /\ task[b] = task[a]
    <2>1. PICK b \in Actors : Holding(b) /\ task[b] = task[a]
      BY <1>4
    <2>2. b # a
      BY <2>1 DEF EnqueueMark, Holding
    <2>3. pc'[b] = pc[b] /\ task'[b] = task[b]
      BY <1>1, <2>2 DEF Frame
    <2>4. CASE pc[b] = "send"
      <3>1. b \in Actors /\ task'[b] = task[a] /\ pc'[b] \in SendPoints
        BY <2>1, <2>3, <2>4 DEF SendPoints
      <3>2. \E c \in Actors : task'[c] = task[a] /\ pc'[c] \in SendPoints
        BY <3>1
      <3> QED BY <3>2 DEF KeepsPending, Pending
    <2>5. CASE pc[b] = "received"
      <3>1. b \in Workers
        BY <2>1, <2>5 DEF TypeOK, ControlOK, Actors, HandlerPC, ReviewPC, BootPC
      <3>2. task'[b] = task[a] /\ Starting(b)'
        BY <2>1, <2>3, <2>5 DEF Starting
      <3> QED BY <3>1, <3>2 DEF KeepsPending, Pending
    <2>6. CASE pc[b] = "unmark"
      <3>1. task[a] \in stranded
        BY <2>1, <2>6 DEF FreshInv
      <3> QED BY <1>1, <3>1 DEF KeepsPending, Pending, Frame
    <2> QED BY <2>1, <2>4, <2>5, <2>6 DEF Holding
  <1>5. task[a] \in queued => Queued(task[a]) \/ \E b \in Actors : Holding(b) /\ task[b] = task[a]
    BY DEF QueueDedup
  <1> QED BY <1>2, <1>3, <1>4, <1>5

LEMMA CallPending ==
  ASSUME TypeOK, QueueDedup, FreshInv, NEW a \in Actors, CallStep(a)
  PROVE  KeepsPending(a)
  <1> USE DEF store
  <1>0. \A p : Goto(a, p) => pc'[a] = p
    BY DEF Goto, TypeOK, ControlOK
  <1>1. \A x : task[a] \in Tasks /\ SetStatus(task[a], x) => status'[task[a]] = x
    BY DEF SetStatus, TypeOK, StoreOK
  <1>2. ASSUME UNCHANGED task, NEW p \in SendPoints, Goto(a, p)  PROVE KeepsPending(a)
    <2>1. task'[a] = task[a] /\ pc'[a] \in SendPoints
      BY <1>0, <1>2
    <2> QED BY <2>1 DEF KeepsPending, Pending
  <1>3. ASSUME UNCHANGED status, pc[a] \in {"unmark", "feedback", "cancelWrite", "approve", "reject", "reopen"}
        PROVE  KeepsPending(a)
    BY <1>3 DEF KeepsPending, Idle, SendPoints, RecoverPoints, Starting
  <1>4. CASE EnqueueMark(a)
    BY <1>4, MarkPending
  <1>5. CASE EnqueueSend(a)
    BY <1>5, BusyTask, QueueGrows DEF EnqueueSend, KeepsPending, Pending
  <1>6. CASE EnqueueTimeout(a)
    BY <1>6 DEF EnqueueTimeout, KeepsPending, Pending
  <1>7. CASE EnqueueUnmark(a)
    BY <1>3, <1>7 DEF EnqueueUnmark
  <1>8. CASE Approve(a)
    BY <1>1, <1>8, BusyTask DEF Approve, KeepsPending
  <1>9. CASE Reject(a)
    BY <1>1, <1>2, <1>9, BusyTask DEF Reject, KeepsPending, SendPoints
  <1>10. CASE RecordContinue(a)
    BY <1>2, <1>10 DEF RecordContinue, SendPoints
  <1>11. CASE FeedbackWrite(a)
    BY <1>3, <1>11 DEF FeedbackWrite
  <1>12. CASE Reopen(a)
    BY <1>2, <1>12 DEF Reopen, SendPoints
  <1>13. CASE CallFail(a)
    BY <1>3, <1>13 DEF CallFail
  <1> QED BY <1>4, <1>5, <1>6, <1>7, <1>8, <1>9, <1>10, <1>11, <1>12, <1>13 DEF CallStep

LEMMA WorkerFrame ==
  ASSUME TypeOK, NEW w \in Workers, WorkerStep(w)
  PROVE  Frame(w)
  <1> USE DEF local, env
  <1>0. Workers \subseteq Actors
    BY DEF Actors
  <1>1. CASE Receive(w)
    BY <1>0, <1>1 DEF Receive, Frame, Goto, TypeOK, ControlOK
  <1>2. \A v \in Workers : v # w => last'[v] = last[v]
    <2>1. ASSUME NEW s \in Active, StepBegin(w, s)  PROVE \A v \in Workers : v # w => last'[v] = last[v]
      BY <2>1 DEF StepBegin, TypeOK, LocalOK
    <2>2. CASE Cleanup(w)
      BY <2>2 DEF Cleanup, TypeOK, LocalOK
    <2>3. CASE MarkDequeued(w) \/ LoadTask(w) \/ RegisterCancel(w) \/ AddRun(w) \/ StepEnd(w)
               \/ StepFail(w) \/ PlannerSkip(w) \/ \E s \in Settled : FinishTask(w, s)
      BY <2>3 DEF MarkDequeued, LoadTask, RegisterCancel, AddRun, StepEnd, StepFail, PlannerSkip, FinishTask
    <2>4. CASE CloseRun(w) \/ PersistMemories(w) \/ AutoReview(w) \/ FailCheck(w) \/ FailWrite(w)
               \/ FailClose(w) \/ Receive(w)
      BY <2>4 DEF CloseRun, PersistMemories, AutoReview, FailCheck, FailWrite, FailClose, Receive
    <2> QED BY <2>1, <2>2, <2>3, <2>4 DEF WorkerStep
  <1>3. CASE LocalStep(w)
    BY <1>0, <1>2, <1>3 DEF Frame, LocalStep, LocalControl, LocalData
  <1> QED BY <1>1, <1>3, WorkerLocal

LEMMA WorkerPending ==
  ASSUME TypeOK, FreshInv, NEW w \in Workers, WorkerStep(w)
  PROVE  Receive(w) \/ KeepsPending(w)
  <1> USE DEF store, SendPoints, RecoverPoints
  <1>0. w \in Actors /\ \A p : Goto(w, p) => pc'[w] = p
    BY DEF Goto, TypeOK, ControlOK, Actors
  <1>1. ASSUME Starting(w)', task'[w] = task[w]  PROVE KeepsPending(w)
    BY <1>1 DEF KeepsPending, Pending
  <1>2. ASSUME UNCHANGED status, ~Starting(w), pc[w] \in WorkerPC  PROVE KeepsPending(w)
    BY <1>2 DEF KeepsPending, Idle, WorkerPC
  <1>3. \A x : task[w] \in Tasks /\ SetStatus(task[w], x) => status'[task[w]] = x
    BY DEF SetStatus, TypeOK, StoreOK
  <1>4. CASE MarkDequeued(w) \/ RegisterCancel(w)
    BY <1>0, <1>1, <1>4 DEF MarkDequeued, RegisterCancel, Starting
  <1>5. CASE LoadTask(w)
    <2>1. CASE UNCHANGED task /\ Goto(w, "register")
      BY <1>0, <1>1, <2>1 DEF Starting
    <2>2. CASE status[task[w]] = "CANCELLED" /\ UNCHANGED status
      BY <2>2 DEF KeepsPending
    <2>3. CASE task[w] \in stranded'
      BY <2>3 DEF KeepsPending, Pending
    <2> QED BY <1>5, <2>1, <2>2, <2>3 DEF LoadTask
  <1>6. CASE AddRun(w)
    <2>1. last[w] = "none" /\ UNCHANGED <<last, task>> /\ pc'[w] \in {"ready", "failing"}
      BY <1>0, <1>6 DEF AddRun, FreshInv, FreshPoints, local
    <2> QED BY <1>1, <2>1 DEF Starting
  <1>7. ASSUME NEW s \in Active, StepBegin(w, s)  PROVE KeepsPending(w)
    BY <1>0, <1>3, <1>7, BusyTask DEF StepBegin, KeepsPending, Active
  <1>8. CASE StepEnd(w) \/ PlannerSkip(w)
    BY <1>2, <1>8 DEF StepEnd, PlannerSkip, Starting, WorkerPC
  <1>9. CASE StepFail(w)
    <2>1. UNCHANGED <<status, last, task>> /\ pc'[w] = "failing"
      BY <1>0, <1>9 DEF StepFail, local
    <2>2. CASE pc[w] = "ready" /\ last[w] = "none"
      BY <1>1, <2>1, <2>2 DEF Starting
    <2>3. CASE ~(pc[w] = "ready" /\ last[w] = "none")
      BY <1>2, <1>9, <2>1, <2>3 DEF Starting, StepFail, WorkerPC
    <2> QED BY <2>2, <2>3
  <1>10. ASSUME NEW s \in Settled, FinishTask(w, s)  PROVE KeepsPending(w)
    BY <1>0, <1>3, <1>10, BusyTask DEF FinishTask, KeepsPending, Settled
  <1>11. CASE CloseRun(w) \/ PersistMemories(w) \/ AutoReview(w) \/ FailClose(w) \/ Cleanup(w)
    BY <1>2, <1>11 DEF CloseRun, PersistMemories, AutoReview, FailClose, Cleanup, Starting, WorkerPC
  <1>12. CASE FailCheck(w)
    <2>1. UNCHANGED <<status, last, task>> /\ pc[w] = "failing"
      BY <1>12 DEF FailCheck, local
    <2>2. CASE status[task[w]] = "CANCELLED"
      BY <2>1, <2>2 DEF KeepsPending
    <2>3. CASE status[task[w]] # "CANCELLED" /\ last[w] = "none"
      <3>1. pc'[w] = "failWrite"
        BY <1>0, <1>12, <2>3 DEF FailCheck
      <3> QED BY <1>1, <2>1, <2>3, <3>1 DEF Starting
    <2>4. CASE last[w] # "none"
      BY <1>2, <2>1, <2>4 DEF Starting, WorkerPC
    <2> QED BY <2>2, <2>3, <2>4
  <1>13. CASE FailWrite(w)
    BY <1>0, <1>3, <1>13, BusyTask DEF FailWrite, KeepsPending, Pending
  <1> QED BY <1>4, <1>5, <1>6, <1>7, <1>8, <1>9, <1>10, <1>11, <1>12, <1>13 DEF WorkerStep

LEMMA UserPending ==
  ASSUME TypeOK, NEW u \in Users, UserStep(u)
  PROVE  Frame(u) /\ KeepsPending(u)
  <1> USE DEF store
  <1>0. u \in Actors /\ u \notin Workers /\ \A p : Goto(u, p) => pc'[u] = p
    BY DEF Goto, TypeOK, ControlOK, Actors
  <1>1. Frame(u)
    <2>1. UNCHANGED last
      BY DEF UserStep, AddEvaluationRun, CancelWrite, CancelContext, local
    <2> QED BY <1>0, <2>1, UserLocal DEF Frame, LocalStep, LocalControl, LocalData
  <1>2. ASSUME AddEvaluationRun(u)  PROVE KeepsPending(u)
    <2>1. CASE UNCHANGED task /\ Goto(u, "enq")
      BY <1>0, <2>1 DEF KeepsPending, Pending, SendPoints
    <2>2. CASE task[u] \in stranded'
      BY <2>2 DEF KeepsPending, Pending
    <2> QED BY <1>2, <2>1, <2>2 DEF AddEvaluationRun
  <1>3. ASSUME CancelWrite(u)  PROVE KeepsPending(u)
    BY <1>0, <1>3, BusyTask DEF CancelWrite, SetStatus, KeepsPending, TypeOK, StoreOK
  <1>4. ASSUME CancelContext(u)  PROVE KeepsPending(u)
    BY <1>0, <1>4 DEF CancelContext, KeepsPending, Idle, SendPoints, RecoverPoints
  <1> QED BY <1>1, <1>2, <1>3, <1>4 DEF UserStep

LEMMA RecoverPending ==
  ASSUME TypeOK, RecoverCloseRuns \/ RecoverReset \/ RecoverFail
  PROVE  Frame(Boot) /\ KeepsPending(Boot)
  <1>0. Boot \in Actors /\ \A p : Goto(Boot, p) => pc'[Boot] = p
    BY DEF Goto, TypeOK, ControlOK, Actors
  <1>1. Frame(Boot)
    <2>1. UNCHANGED last
      BY DEF RecoverCloseRuns, RecoverReset, RecoverFail, local
    <2> QED BY <1>0, <2>1, BootLocal DEF Frame, LocalStep, LocalControl, LocalData
  <1>2. ASSUME RecoverCloseRuns  PROVE KeepsPending(Boot)
    BY <1>0, <1>2 DEF RecoverCloseRuns, KeepsPending, Pending, InRecovery
  <1>3. ASSUME RecoverReset  PROVE KeepsPending(Boot)
    BY <1>0, <1>3 DEF RecoverReset, KeepsPending, Pending, SendPoints
  <1>4. ASSUME RecoverFail  PROVE KeepsPending(Boot)
    BY <1>4 DEF RecoverFail, KeepsPending, Pending
  <1> QED BY <1>1, <1>2, <1>3, <1>4

\* The task taken from the queue is started, the others stay in it.
LEMMA ReceivePending ==
  ASSUME TypeOK, CreatedIsPending, NEW w \in Workers, Receive(w)
  PROVE  CreatedIsPending'
  <1> SUFFICES ASSUME NEW t \in Tasks, status'[t] = "CREATED"
               PROVE  Pending(t)'
    BY DEF CreatedIsPending, Pending, SendPoints
  <1>0. w \in Actors /\ w # Boot
    BY DEF Actors
  <1>1. Frame(w)
    BY WorkerFrame DEF WorkerStep
  <1>2. /\ pc[w] = "idle" /\ pc'[w] = "received" /\ queue # <<>> /\ queue' = Tail(queue)
        /\ task'[w] = Head(queue) /\ UNCHANGED <<status, toVisit>>
    BY <1>0 DEF Receive, Goto, TypeOK, ControlOK, store, env
  <1>3. queue \in Seq(Tasks) /\ Len(queue) \in Nat \ {0}
    BY <1>2 DEF TypeOK, SharedOK
  <1>4. \A i \in 2..Len(queue) : i - 1 \in 1..Len(queue') /\ queue'[i - 1] = queue[i]
    BY <1>2, <1>3
  <1>5. Queued(t) => Queued(t)' \/ t = Head(queue)
    BY <1>3, <1>4 DEF Queued
  <1>6. CASE t = Head(queue)
    <2>1. task'[w] = t /\ Starting(w)'
      BY <1>2, <1>6 DEF Starting
    <2> QED BY <2>1 DEF Pending
  <1>7. CASE t # Head(queue)
    <2>1. Pending(t)
      BY <1>2 DEF CreatedIsPending, Pending, SendPoints
    <2>2. Idle(w, t)
      BY <1>2 DEF Idle, SendPoints, RecoverPoints, Starting
    <2> QED BY <1>0, <1>1, <1>2, <1>5, <1>7, <2>1, <2>2, PendingFrame
  <1> QED BY <1>6, <1>7

LEMMA RequestPending ==
  ASSUME TypeOK, CreatedIsPending, NEW u \in Users, NewRequest(u)
  PROVE  CreatedIsPending'
  <1> SUFFICES ASSUME NEW t \in Tasks, status'[t] = "CREATED"
               PROVE  Pending(t)'
    BY DEF CreatedIsPending, Pending, SendPoints
  <1>0. u \in Actors /\ u # Boot /\ u \notin Workers
    BY DEF Actors
  <1>1. PICK x \in Tasks : CreateTask(u, x) \/ CancelCheck(u, x) \/ ReviewCheck(u, x)
    BY DEF NewRequest, RerunTask
  <1>2. /\ pc[u] = "idle" /\ \E p : Goto(u, p)
        /\ task' = [task EXCEPT ![u] = x] /\ UNCHANGED <<toVisit, stranded, queue, last>>
    BY <1>1 DEF CreateTask, CancelCheck, ReviewCheck, Request, shared, local
  <1>3. Frame(u) /\ task'[u] = x
    BY <1>0, <1>2 DEF Frame, Goto, TypeOK, ControlOK
  <1>4. CASE status[t] = "CREATED"
    <2>1. Pending(t) /\ Idle(u, t)
      BY <1>0, <1>2, <1>4 DEF CreatedIsPending, Pending, SendPoints, Idle, RecoverPoints
    <2>2. Queued(t) => Queued(t)'
      BY <1>2 DEF Queued
    <2> QED BY <1>0, <1>2, <1>3, <2>1, <2>2, PendingFrame
  <1>5. CASE status[t] # "CREATED"
    <2>1. CreateTask(u, x)
      BY <1>1, <1>5 DEF CancelCheck, ReviewCheck, store
    <2>2. x = t
      BY <1>5, <2>1 DEF CreateTask, SetStatus, TypeOK, StoreOK
    <2>3. pc'[u] \in SendPoints
      BY <1>0, <2>1 DEF CreateTask, Goto, SendPoints, TypeOK, ControlOK
    <2> QED BY <1>0, <1>3, <2>2, <2>3 DEF Pending
  <1> QED BY <1>4, <1>5

LEMMA BootPending ==
  ASSUME TypeOK, RecoveryInv, CreatedIsPending, BootStep
  PROVE  CreatedIsPending'
  <1> SUFFICES ASSUME NEW t \in Tasks, status'[t] = "CREATED"
               PROVE  Pending(t)'
    BY DEF CreatedIsPending, Pending, SendPoints
  <1>0. Boot \in Actors /\ Boot \notin Workers
    BY DEF Actors
  <1>1. status[t] = "CREATED" => Pending(t)
    BY DEF CreatedIsPending, Pending, SendPoints
  <1>2. CASE RecoverSnapshot
    <2>1. /\ status[t] = "CREATED"
          /\ toVisit' = {<<x, status[x]>> : x \in Unfinished} \/ Unfinished \subseteq stranded'
      BY <1>2 DEF RecoverSnapshot, store
    <2>2. t \in Unfinished /\ status[t] \in Status
      BY <2>1 DEF Unfinished, Status
    <2> QED BY <2>1, <2>2 DEF Pending, InRecovery
  <1>3. ASSUME NEW x \in Tasks, NEW s \in Status, RecoverVisit(x, s)  PROVE Pending(t)'
    <2>1. /\ status[x] = s /\ UNCHANGED <<status, stranded, last, queue>> /\ pc[Boot] = "recover"
          /\ toVisit' = toVisit \ {<<x, s>>}
          /\ task' = [task EXCEPT ![Boot] = x]
          /\ Goto(Boot, IF s = "CREATED" THEN "enq" ELSE "closeRuns")
      BY <1>3 DEF RecoverVisit, RecoveryInv, RecoveryIsolated, store, shared, local
    <2>2. /\ Frame(Boot) /\ task'[Boot] = x
          /\ pc'[Boot] = IF s = "CREATED" THEN "enq" ELSE "closeRuns"
      BY <1>0, <2>1 DEF Frame, Goto, TypeOK, ControlOK
    <2>3. CASE t = x
      <3>1. pc'[Boot] \in SendPoints
        BY <2>1, <2>2, <2>3 DEF SendPoints
      <3> QED BY <1>0, <2>2, <2>3, <3>1 DEF Pending
    <2>4. CASE t # x
      <3>1. Idle(Boot, t) /\ (Queued(t) => Queued(t)')
        BY <1>0, <2>1 DEF Idle, SendPoints, RecoverPoints, Queued
      <3>2. \A y \in Status : <<t, y>> \in toVisit => <<t, y>> \in toVisit'
        BY <2>1, <2>4
      <3> QED BY <1>0, <1>1, <2>1, <2>2, <3>1, <3>2, PendingFrame
    <2> QED BY <2>3, <2>4
  <1>4. CASE RecoverCloseRuns \/ RecoverReset \/ RecoverFail
    <2>1. CreatedIsPending'
      BY <1>0, <1>4, BootLocal, RecoverPending, PendingLocal
    <2> QED BY <2>1 DEF CreatedIsPending, Pending, SendPoints
  <1>5. CASE RecoverDone
    <2>1. /\ pc[Boot] = "recover" /\ Goto(Boot, "idle")
          /\ UNCHANGED <<status, task, toVisit, stranded, queue, last>>
      BY <1>5 DEF RecoverDone, store, shared, local, env
    <2>2. Frame(Boot) /\ Idle(Boot, t) /\ (Queued(t) => Queued(t)')
      BY <1>0, <2>1 DEF Frame, Goto, TypeOK, ControlOK, Idle, SendPoints, RecoverPoints, Queued
    <2> QED BY <1>0, <1>1, <2>1, <2>2, PendingFrame
  <1> QED BY <1>2, <1>3, <1>4, <1>5 DEF BootStep

PendingInv == TypeOK /\ QueueDedup /\ RecoveryInv /\ FreshInv

LEMMA PendingNext == PendingInv /\ CreatedIsPending /\ [Next]_vars => CreatedIsPending'
  <1> SUFFICES ASSUME PendingInv, CreatedIsPending, [Next]_vars
               PROVE  CreatedIsPending'
    OBVIOUS
  <1> USE DEF PendingInv
  <1>0. Workers \subseteq Actors /\ Users \subseteq Actors /\ Boot \in Actors
    BY DEF Actors
  <1>1. ASSUME NEW a \in Actors, CallStep(a)  PROVE CreatedIsPending'
    BY <1>1, CallLocal, CallFrame, CallPending, PendingLocal
  <1>2. ASSUME NEW w \in Workers, WorkerStep(w)  PROVE CreatedIsPending'
    BY <1>0, <1>2, WorkerLocal, WorkerFrame, WorkerPending, ReceivePending, PendingLocal
  <1>3. ASSUME NEW u \in Users, UserStep(u)  PROVE CreatedIsPending'
    BY <1>0, <1>3, UserLocal, UserPending, PendingLocal
  <1>4. ASSUME NEW u \in Users, NewRequest(u)  PROVE CreatedIsPending'
    BY <1>4, RequestPending
  <1>5. CASE BootStep
    BY <1>5, BootPending
  <1>6. CASE Crash
    <2>1. pc'[Boot] = "snapshot"
      BY <1>0, <1>6 DEF Crash
    <2> QED BY <2>1 DEF CreatedIsPending, InRecovery
  <1>7. CASE UNCHANGED vars
    BY <1>7 DEF vars, store, shared, local, env, CreatedIsPending, Queued, Starting, InRecovery
  <1> QED BY <1>1, <1>2, <1>3, <1>4, <1>5, <1>6, <1>7 DEF Next, Rest

LEMMA FreshInvHolds == Spec => []FreshInv
  <1>1. Init => FreshInv
    BY DEF Init, FreshInv, Actors
  <1>2. TypeOK /\ FreshInv /\ [Next]_vars => FreshInv'
    BY FreshNext
  <1> QED BY <1>1, <1>2, TypeCorrect, PTL DEF Spec

\* A created task is never forgotten: although enqueue drops a task that is
\* marked as queued, and markDequeued, the workers, the reviewers, the
\* recovery and a crash interleave with it, somebody still has the task in
\* hand or the loss was reported (an enqueue timeout or a store error).
THEOREM CreatedTasksPending == Spec => []CreatedIsPending
  <1>1. Init => CreatedIsPending
    BY DEF Init, CreatedIsPending
  <1>2. PendingInv /\ CreatedIsPending /\ [Next]_vars => CreatedIsPending'
    BY PendingNext
  <1> QED BY <1>1, <1>2, TypeCorrect, QueueDeduplicated, RecoveryInvHolds, FreshInvHolds,
             PTL DEF Spec, PendingInv
=============================================================================
