------------------------- MODULE CancellationProofs -------------------------
(* A task cancelled while it was queued stays cancelled: the proof of       *)
(* QueuedCancelHolds of TaskRuntime, for every instance.                    *)
EXTENDS TaskRuntimeProofs

\* The points from which a goroutine does not write its task any more.
HarmlessPoints == {"received", "load", "enq", "send", "unmark", "cancelCtx", "cleanup"}

\* A restarted process never has a cancelled task to visit.
SnapshotInv == \A t \in Tasks : <<t, "CANCELLED">> \notin toVisit

LEMMA SnapshotNext == TypeOK /\ SnapshotInv /\ [Next]_vars => SnapshotInv'
  <1> SUFFICES ASSUME TypeOK, SnapshotInv, [Next]_vars
               PROVE  SnapshotInv'
    OBVIOUS
  <1>1. toVisit' \subseteq toVisit \/ RecoverSnapshot
    <2>1. ASSUME NEW a \in Actors, CallStep(a)  PROVE toVisit' = toVisit
      BY <2>1, CallLocal DEF LocalStep, LocalData
    <2>2. ASSUME NEW w \in Workers, WorkerStep(w)  PROVE toVisit' = toVisit
      BY <2>2, WorkerLocal DEF LocalStep, LocalData, Receive, env
    <2>3. ASSUME NEW u \in Users, UserStep(u)  PROVE toVisit' = toVisit
      BY <2>3, UserLocal DEF LocalStep, LocalData
    <2>4. ASSUME NEW u \in Users, NewRequest(u)  PROVE toVisit' = toVisit
      BY <2>4 DEF NewRequest, RerunTask, CreateTask, CancelCheck, ReviewCheck
    <2>5. CASE BootStep
      <3>1. ASSUME RecoverCloseRuns \/ RecoverReset \/ RecoverFail  PROVE toVisit' = toVisit
        BY <3>1, BootLocal DEF LocalStep, LocalData
      <3> QED BY <2>5, <3>1 DEF BootStep, RecoverVisit, RecoverDone, env
    <2>6. CASE Crash \/ UNCHANGED vars
      BY <2>6 DEF Crash, vars, env
    <2> QED BY <2>1, <2>2, <2>3, <2>4, <2>5, <2>6 DEF Next, Rest
  <1>2. CASE RecoverSnapshot
    <2>1. \A t \in Tasks : status[t] = "CANCELLED" => t \notin Unfinished
      BY DEF Unfinished, Active
    <2>2. toVisit' = toVisit \/ toVisit' = {<<t, status[t]>> : t \in Unfinished}
      BY <1>2 DEF RecoverSnapshot
    <2>3. CASE toVisit' = toVisit
      BY <2>3 DEF SnapshotInv
    <2>4. CASE toVisit' = {<<t, status[t]>> : t \in Unfinished}
      <3> SUFFICES ASSUME NEW t \in Tasks, <<t, "CANCELLED">> \in toVisit'  PROVE FALSE
        BY DEF SnapshotInv
      <3>1. PICK x \in Unfinished : <<t, "CANCELLED">> = <<x, status[x]>>
        BY <2>4
      <3>2. x = t /\ status[t] = "CANCELLED"
        BY <3>1
      <3> QED BY <2>1, <3>1, <3>2
    <2> QED BY <2>2, <2>3, <2>4
  <1> QED BY <1>1, <1>2 DEF SnapshotInv

\* What the theorem says of one step and one task.
Holds(t) == status'[t] = "CANCELLED" /\ runs'[t] = runs[t] /\ Undisturbed(t)'

\* A goroutine in the middle of a task disturbs no other one.
LEMMA HoldsLocal ==
  ASSUME NEW t \in Tasks, status[t] = "CANCELLED", Undisturbed(t),
         NEW a \in Actors, LocalStep(a),
         task[a] = t => /\ pc[a] \in HarmlessPoints =>
                             /\ status'[t] = status[t] /\ runs'[t] = runs[t]
                             /\ task'[a] = t => pc'[a] \in HarmlessPoints
  PROVE  Holds(t)
  <1>1. task[a] = t => pc[a] \in HarmlessPoints
    BY DEF Undisturbed, HarmlessPoints
  <1>2. status'[t] = status[t] /\ runs'[t] = runs[t]
    BY <1>1 DEF LocalStep, LocalData
  <1>3. task'[a] = t => pc'[a] \in HarmlessPoints
    BY <1>1, ActorsAssumption DEF LocalStep, LocalControl
  <1>4. \A b \in Actors : task'[b] = t => pc'[b] \in HarmlessPoints
    BY <1>3 DEF Undisturbed, HarmlessPoints, LocalStep, LocalControl
  <1> QED BY <1>2, <1>4 DEF Holds, Undisturbed, HarmlessPoints

LEMMA HoldsCall ==
  ASSUME TypeOK, NEW t \in Tasks, status[t] = "CANCELLED", Undisturbed(t),
         NEW a \in Actors, CallStep(a)
  PROVE  Holds(t)
  <1>1. ASSUME task[a] = t, pc[a] \in HarmlessPoints
        PROVE  /\ status'[t] = status[t] /\ runs'[t] = runs[t]
               /\ task'[a] = t => pc'[a] \in HarmlessPoints
    <2>1. EnqueueMark(a) \/ EnqueueSend(a) \/ EnqueueTimeout(a) \/ EnqueueUnmark(a)
      BY <1>1 DEF CallStep, HarmlessPoints, Approve, Reject, RecordContinue, FeedbackWrite,
                  Reopen, CallFail
    <2>2. UNCHANGED <<status, runs>>
      BY <2>1 DEF EnqueueMark, EnqueueSend, EnqueueTimeout, EnqueueUnmark, store
    <2>3. Return(a) \/ Goto(a, "send") \/ Goto(a, "unmark")
      BY <2>1 DEF EnqueueMark, EnqueueSend, EnqueueTimeout, EnqueueUnmark
    <2>4. task'[a] = t => pc'[a] \in HarmlessPoints
      BY <2>3, ActorsAssumption
      DEF Return, Returned, Goto, HarmlessPoints, TypeOK, ControlOK, Actors
    <2> QED BY <2>2, <2>4
  <1> QED BY <1>1, CallLocal, HoldsLocal

\* The worker that received the task reads CANCELLED and drops it.
LEMMA HoldsWorker ==
  ASSUME TypeOK, NEW t \in Tasks, status[t] = "CANCELLED", Undisturbed(t),
         NEW w \in Workers, WorkerStep(w)
  PROVE  Holds(t)
  <1>0. w \in Actors
    BY DEF Actors
  <1>1. CASE Receive(w)
    <2>1. pc' = [pc EXCEPT ![w] = "received"] /\ task' = [task EXCEPT ![w] = Head(queue)]
          /\ UNCHANGED <<status, runs>>
      BY <1>1 DEF Receive, Goto, store
    <2>2. \A b \in Actors : task'[b] = t => pc'[b] \in HarmlessPoints
      BY <1>0, <2>1 DEF Undisturbed, HarmlessPoints, TypeOK, ControlOK
    <2> QED BY <2>1, <2>2 DEF Holds, Undisturbed, HarmlessPoints
  <1>2. CASE LocalStep(w)
    <2>1. ASSUME task[w] = t, pc[w] \in HarmlessPoints
          PROVE  /\ status'[t] = status[t] /\ runs'[t] = runs[t]
                 /\ task'[w] = t => pc'[w] \in HarmlessPoints
      <3>1. pc[w] # "idle"
        BY <2>1 DEF HarmlessPoints
      <3>2. MarkDequeued(w) \/ LoadTask(w) \/ Cleanup(w)
        BY <2>1 DEF WorkerStep, HarmlessPoints, Receive, RegisterCancel, AddRun, StepBegin,
                    StepEnd, StepFail, PlannerSkip, FinishTask, CloseRun, PersistMemories,
                    AutoReview, FailCheck, FailWrite, FailClose
      <3>3. UNCHANGED <<status, runs>>
        BY <3>2 DEF MarkDequeued, LoadTask, Cleanup, store
      <3>4. Goto(w, "load") \/ task' = [task EXCEPT ![w] = None]
        BY <2>1, <3>2 DEF MarkDequeued, LoadTask, Cleanup
      <3>5. task'[w] = t => pc'[w] \in HarmlessPoints
        BY <1>0, <3>4, ActorsAssumption DEF Goto, HarmlessPoints, TypeOK, ControlOK
      <3> QED BY <3>3, <3>5
    <2> QED BY <1>0, <1>2, <2>1, HoldsLocal
  <1> QED BY <1>1, <1>2, WorkerLocal

LEMMA HoldsUser ==
  ASSUME TypeOK, NEW t \in Tasks, status[t] = "CANCELLED", Undisturbed(t),
         NEW u \in Users, UserStep(u)
  PROVE  Holds(t)
  <1>0. u \in Actors /\ u \notin Workers /\ u # Boot
    BY ActorsAssumption DEF Actors
  <1>1. ASSUME task[u] = t, pc[u] \in HarmlessPoints
        PROVE  /\ status'[t] = status[t] /\ runs'[t] = runs[t]
               /\ task'[u] = t => pc'[u] \in HarmlessPoints
    <2>1. CancelContext(u)
      BY <1>1 DEF UserStep, HarmlessPoints, AddEvaluationRun, CancelWrite
    <2>2. UNCHANGED <<status, runs>> /\ task'[u] = None
      BY <1>0, <2>1 DEF CancelContext, store, Return, TypeOK, ControlOK
    <2> QED BY <2>2, ActorsAssumption
  <1> QED BY <1>0, <1>1, UserLocal, HoldsLocal

\* No handler starts to work on a cancelled task.
LEMMA HoldsRequest ==
  ASSUME TypeOK, NEW t \in Tasks, status[t] = "CANCELLED", Undisturbed(t),
         NEW u \in Users, NewRequest(u)
  PROVE  Holds(t)
  <1>0. u \in Actors
    BY DEF Actors
  <1>1. PICK x \in Tasks : /\ task' = [task EXCEPT ![u] = x]
                           /\ status[x] # "CANCELLED"
                           /\ status' = status \/ status' = [status EXCEPT ![x] = "CREATED"]
    BY DEF NewRequest, RerunTask, CreateTask, CancelCheck, ReviewCheck, Request, SetStatus,
           AwaitsReview, AcceptsFeedback, Settled, store
  <1>2. runs' = runs /\ \E p : Goto(u, p)
    BY DEF NewRequest, RerunTask, CreateTask, CancelCheck, ReviewCheck, store
  <1>3. x # t /\ status'[t] = status[t]
    BY <1>1 DEF TypeOK, StoreOK
  <1>4. \A b \in Actors : task'[b] = t => task[b] = t /\ pc'[b] = pc[b]
    BY <1>0, <1>1, <1>2, <1>3 DEF Goto, TypeOK, ControlOK
  <1> QED BY <1>2, <1>3, <1>4 DEF Holds, Undisturbed

LEMMA HoldsBoot ==
  ASSUME TypeOK, RecoveryInv, SnapshotInv, NEW t \in Tasks, status[t] = "CANCELLED", Undisturbed(t),
         BootStep
  PROVE  Holds(t)
  <1>0. Boot \in Actors
    BY DEF Actors
  <1>1. CASE RecoverCloseRuns \/ RecoverReset \/ RecoverFail
    <2>1. pc[Boot] \notin HarmlessPoints
      BY <1>1 DEF RecoverCloseRuns, RecoverReset, RecoverFail, HarmlessPoints
    <2> QED BY <1>0, <1>1, <2>1, BootLocal, HoldsLocal
  <1>2. ASSUME NEW x \in Tasks, NEW s \in Status, RecoverVisit(x, s)
        PROVE  Holds(t)
    <2>1. status[x] = s /\ s # "CANCELLED"
      BY <1>2 DEF RecoverVisit, RecoveryInv, RecoveryIsolated, SnapshotInv
    <2>2. task' = [task EXCEPT ![Boot] = x] /\ UNCHANGED <<status, runs>> /\ \E p : Goto(Boot, p)
      BY <1>2 DEF RecoverVisit, store
    <2>3. \A b \in Actors : task'[b] = t => task[b] = t /\ pc'[b] = pc[b]
      BY <1>0, <2>1, <2>2 DEF Goto, TypeOK, ControlOK
    <2> QED BY <2>2, <2>3 DEF Holds, Undisturbed
  <1>3. CASE RecoverSnapshot \/ RecoverDone
    <2>1. /\ UNCHANGED <<status, runs, task>> /\ \E p : Goto(Boot, p)
          /\ pc[Boot] \in {"snapshot", "recover"}
      BY <1>3 DEF RecoverSnapshot, RecoverDone, store
    <2>2. task[Boot] = None
      BY <1>0, <2>1 DEF TypeOK, ControlOK
    <2>3. \A b \in Actors : task'[b] = t => task[b] = t /\ pc'[b] = pc[b]
      BY <1>0, <2>1, <2>2, ActorsAssumption DEF Goto, TypeOK, ControlOK
    <2> QED BY <2>1, <2>3 DEF Holds, Undisturbed
  <1> QED BY <1>1, <1>2, <1>3 DEF BootStep

LEMMA HoldsNext ==
  ASSUME TypeOK, RecoveryInv, SnapshotInv, [Next]_vars,
         NEW t \in Tasks, status[t] = "CANCELLED", Undisturbed(t)
  PROVE  Holds(t)
  <1>1. CASE Crash
    <2>1. UNCHANGED <<status, runs>> /\ \A b \in Actors : task'[b] = None
      BY <1>1 DEF Crash, store
    <2> QED BY <2>1, ActorsAssumption DEF Holds, Undisturbed
  <1>2. CASE UNCHANGED vars
    BY <1>2 DEF vars, store, Holds, Undisturbed
  <1> QED
    BY <1>1, <1>2, HoldsCall, HoldsWorker, HoldsUser, HoldsRequest, HoldsBoot DEF Next, Rest

\* A task cancelled while it was queued is never written or run again, whatever
\* stale queue items, handlers and restarts come after it, for any number of
\* goroutines and crashes; other cancellations can be overwritten.
THEOREM QueuedCancellationsHold == Spec => QueuedCancelHolds
  <1>1. Init => SnapshotInv
    BY DEF Init, SnapshotInv
  <1>2. TypeOK /\ SnapshotInv /\ [Next]_vars => SnapshotInv'
    BY SnapshotNext
  <1>3. Spec => []SnapshotInv
    BY <1>1, <1>2, TypeCorrect, PTL DEF Spec
  <1>4. TypeOK /\ RecoveryInv /\ SnapshotInv /\ [Next]_vars =>
          [\A t \in Tasks : status[t] = "CANCELLED" /\ Undisturbed(t) =>
             status'[t] = "CANCELLED" /\ runs'[t] = runs[t] /\ Undisturbed(t)']_vars
    BY HoldsNext DEF Holds
  <1> QED BY <1>3, <1>4, TypeCorrect, RecoveryInvHolds, PTL DEF Spec, QueuedCancelHolds
=============================================================================
