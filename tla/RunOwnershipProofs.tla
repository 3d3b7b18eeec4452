------------------------- MODULE RunOwnershipProofs -------------------------
(* A run is open only while its execution is under way: the proof of        *)
(* OpenRunOwned of TaskRuntime, for every instance.                         *)
EXTENDS TaskRuntimeProofs

\* Where a worker has no run yet, and where it is done with the one it had.
NoRunPoints == {"idle", "received", "load", "register", "addRun"}
DonePoints == {"post", "auto", "cleanup"} \cup ReviewPC

\* OpenRunOwned with what makes it inductive: a worker gets its run in AddRun,
\* and has ended it, or failed to, when it goes on to the work after it.
RunInv ==
  /\ \A w \in Workers : pc[w] \in NoRunPoints => run[w] = 0
  /\ \A w \in Workers : run[w] # 0 => run[w] <= Len(runs[task[w]])
  /\ \A w \in Workers : pc[w] \in DonePoints /\ run[w] # 0 =>
       ~OpenRun(task[w], run[w]) \/ run[w] \in lost[task[w]]
  /\ OpenRunOwned

\* The runs a step leaves: as many of every task, and no ended one reopened.
RunsKept ==
  \A t \in Tasks : /\ Len(runs'[t]) = Len(runs[t])
                   /\ \A i \in 1..Len(runs[t]) : runs[t][i].ended => runs'[t][i].ended

\* A run recorded as left open is so until it is ended.
LostKept ==
  \A t \in Tasks : \A i \in lost[t] : i \in lost'[t] \/ i \notin OpenRuns(t)'

\* What the goroutine that takes the step may do with its own run: go on with
\* it, which includes finishing it; or drop it once it is done.
Continues(a) ==
  /\ task'[a] = task[a] /\ run'[a] = run[a]
  /\ pc'[a] \in NoRunPoints => pc[a] \in NoRunPoints
  /\ Executing(a) => Executing(a)'
  /\ pc'[a] \in DonePoints /\ run[a] # 0 =>
       \/ pc[a] \in DonePoints
       \/ ~OpenRun(task[a], run[a])'
       \/ run[a] \in lost'[task[a]]

Drops(a) ==
  /\ pc[a] \in DonePoints \cup NoRunPoints
  /\ run'[a] = 0
  /\ pc'[a] \in NoRunPoints

KeepsRun(a) ==
  /\ \A b \in Workers : b # a => pc'[b] = pc[b] /\ task'[b] = task[b] /\ run'[b] = run[b]
  /\ RunsKept /\ LostKept
  /\ a \in Workers => Continues(a) \/ Drops(a)

LEMMA RunOfTask ==
  ASSUME TypeOK, RunInv, NEW w \in Workers, run[w] # 0
  PROVE  task[w] \in Tasks /\ run[w] \in 1..Len(runs[task[w]])
  <1>1. w \in Actors /\ run[w] \in Nat
    BY DEF Actors, TypeOK, LocalOK
  <1>2. pc[w] # "idle"
    BY DEF RunInv, NoRunPoints
  <1>3. task[w] \in Tasks
    BY <1>2, WorkerPoints DEF TypeOK
  <1> QED BY <1>1, <1>3 DEF RunInv, TypeOK, StoreOK

\* The step lemma: RunInv holds after a step that keeps the runs.
LEMMA RunKeeps ==
  ASSUME TypeOK, RunInv, NEW a \in Actors, KeepsRun(a)
  PROVE  RunInv'
  <1>1. \A w \in Workers : w # a \/ Continues(w) => task'[w] = task[w] /\ run'[w] = run[w]
    BY DEF KeepsRun, Continues
  <1>2. ASSUME NEW w \in Workers  PROVE w # a \/ Continues(w) \/ Drops(w)
    BY DEF KeepsRun
  <1>3. ASSUME NEW w \in Workers, pc'[w] \in NoRunPoints  PROVE run'[w] = 0
    BY <1>1, <1>2, <1>3 DEF RunInv, KeepsRun, Continues, Drops
  <1>4. ASSUME NEW w \in Workers, run'[w] # 0  PROVE run'[w] <= Len(runs'[task'[w]])
    <2>1. run'[w] = run[w] /\ task'[w] = task[w]
      BY <1>1, <1>2, <1>4 DEF Drops
    <2>2. task[w] \in Tasks /\ run[w] <= Len(runs[task[w]])
      BY <1>4, <2>1, RunOfTask DEF RunInv
    <2> QED BY <2>1, <2>2 DEF KeepsRun, RunsKept
  <1>5. ASSUME NEW w \in Workers, pc'[w] \in DonePoints, run'[w] # 0
        PROVE  ~OpenRun(task[w], run[w])' \/ run'[w] \in lost'[task'[w]]
    <2>1. run'[w] = run[w] /\ task'[w] = task[w]
      BY <1>1, <1>2, <1>5 DEF Drops
    <2>2. task[w] \in Tasks /\ run[w] \in 1..Len(runs[task[w]])
      BY <1>5, <2>1, RunOfTask
    <2>3. CASE pc[w] \in DonePoints
      <3>1. ~OpenRun(task[w], run[w]) \/ run[w] \in lost[task[w]]
        BY <1>5, <2>1, <2>3 DEF RunInv
      <3>2. CASE ~OpenRun(task[w], run[w])
        BY <2>1, <2>2, <3>2 DEF KeepsRun, RunsKept, OpenRun
      <3>3. CASE run[w] \in lost[task[w]]
        BY <2>1, <2>2, <3>3 DEF KeepsRun, RunsKept, LostKept, OpenRuns
      <3> QED BY <3>1, <3>2, <3>3
    <2>4. CASE pc[w] \notin DonePoints
      <3>1. w = a /\ Continues(w)
        BY <1>2, <1>5, <2>1, <2>4 DEF KeepsRun, Drops
      <3> QED BY <1>5, <2>1, <2>4, <3>1 DEF Continues
    <2> QED BY <2>3, <2>4
  <1>6. ASSUME NEW t \in Tasks, NEW i \in OpenRuns(t)', i \notin lost'[t]
        PROVE  \E w \in Workers : Executing(w)' /\ task'[w] = t /\ run'[w] = i
    <2>1. i \in 1..Len(runs[t]) /\ OpenRun(t, i) /\ i \notin lost[t]
      BY <1>6 DEF KeepsRun, RunsKept, LostKept, OpenRuns, OpenRun
    <2>2. PICK w \in Workers : Executing(w) /\ task[w] = t /\ run[w] = i
      BY <2>1 DEF RunInv, OpenRunOwned, OpenRuns
    <2>3. ~Drops(w)
      <3>1. run[w] # 0
        BY <2>1, <2>2
      <3>2. pc[w] \notin DonePoints
        BY <2>1, <2>2, <3>1 DEF RunInv
      <3>3. pc[w] \notin NoRunPoints
        BY <3>1 DEF RunInv
      <3> QED BY <3>2, <3>3 DEF Drops
    <2>4. Executing(w)' /\ task'[w] = t /\ run'[w] = i
      BY <1>1, <1>2, <2>2, <2>3 DEF KeepsRun, Continues, Executing
    <2> QED BY <2>4
  <1> QED BY <1>3, <1>4, <1>5, <1>6 DEF RunInv, OpenRunOwned, OpenRun

-----------------------------------------------------------------------------
(* The steps that touch no run *)

LEMMA SameRuns ==
  ASSUME UNCHANGED runs
  PROVE  RunsKept
  BY DEF RunsKept

LEMMA SameLost ==
  ASSUME UNCHANGED lost
  PROVE  LostKept
  BY DEF LostKept

\* FinishRun ends the run it is given and keeps all others.
LEMMA FinishRunEnds ==
  ASSUME TypeOK, NEW t \in Tasks, NEW r \in Nat, NEW s \in Status, FinishRun(t, r, s)
  PROVE  RunsKept /\ (r \in 1..Len(runs[t]) => ~OpenRun(t, r)')
  <1> DEFINE closed == [i \in 1..Len(runs[t]) |->
                IF i = r THEN [status |-> s, ended |-> TRUE] ELSE runs[t][i]]
  <1>1. runs \in [Tasks -> Seq(RunRec)] /\ runs[t] \in Seq(RunRec) /\ Len(runs[t]) \in Nat
    BY DEF TypeOK, StoreOK
  <1>2. runs' = [runs EXCEPT ![t] = closed]
    BY DEF FinishRun
  <1>3. runs'[t] = closed /\ \A u \in Tasks : u # t => runs'[u] = runs[u]
    BY <1>1, <1>2
  <1>4. Len(closed) = Len(runs[t])
    BY <1>1
  <1>5. \A i \in 1..Len(runs[t]) :
           closed[i] = IF i = r THEN [status |-> s, ended |-> TRUE] ELSE runs[t][i]
    OBVIOUS
  <1> HIDE DEF closed
  <1>6. RunsKept
    BY <1>3, <1>4, <1>5 DEF RunsKept
  <1>7. r \in 1..Len(runs[t]) => runs'[t][r].ended
    BY <1>3, <1>5
  <1> QED BY <1>6, <1>7 DEF OpenRun

\* A call moves inside itself or returns; in a worker the run is done.
LEMMA CallRuns ==
  ASSUME TypeOK, NEW a \in Actors, CallStep(a)
  PROVE  KeepsRun(a)
  <1>1. LocalStep(a)
    BY CallLocal
  <1>2. UNCHANGED runs /\ UNCHANGED run /\ UNCHANGED lost
    BY DEF CallStep, EnqueueMark, EnqueueSend, EnqueueTimeout, EnqueueUnmark, Approve, Reject,
           RecordContinue, FeedbackWrite, Reopen, CallFail, store, local, env
  <1>3. ASSUME a \in Workers
        PROVE  Continues(a)
    <2>1. pc[a] \in ReviewPC \cup {"cancelWrite"}
      BY DEF CallStep, EnqueueMark, EnqueueSend, EnqueueTimeout, EnqueueUnmark, Approve, Reject,
             RecordContinue, FeedbackWrite, Reopen, CallFail, ReviewPC
    <2>2. pc[a] \in ReviewPC
      BY <1>3, <2>1 DEF TypeOK, ControlOK, WorkerPC
    <2>3. Executing(a)
      BY <2>2 DEF Executing
    <2>4. Executing(a)' /\ task'[a] = task[a]
      BY <1>3, CallInside
    <2>5. pc'[a] \notin NoRunPoints \/ pc'[a] = "addRun"
      BY <2>4 DEF Executing, NoRunPoints, WorkerPC, ReviewPC
    <2>6. pc'[a] # "addRun"
      BY <1>3, CallInside DEF ReviewPC
    <2> QED BY <1>2, <2>2, <2>4, <2>5, <2>6 DEF Continues, DonePoints
  <1>4. \A b \in Workers : b # a => pc'[b] = pc[b] /\ task'[b] = task[b] /\ run'[b] = run[b]
    BY <1>1, <1>2 DEF LocalStep, LocalControl, Actors
  <1> QED BY <1>2, <1>3, <1>4, SameRuns, SameLost DEF KeepsRun

\* EndRun on the worker's own run.
LEMMA OwnRunEnds ==
  ASSUME TypeOK, RunInv, NEW w \in Workers, NEW s \in Status, EndRun(w, s),
         pc[w] \notin NoRunPoints, UNCHANGED <<task, run>>
  PROVE  /\ RunsKept /\ LostKept
         /\ run[w] # 0 => ~OpenRun(task[w], run[w])' \/ run[w] \in lost'[task[w]]
  <1>1. w \in Actors /\ run[w] \in Nat
    BY DEF Actors, TypeOK, LocalOK
  <1>2. task[w] \in Tasks
    BY WorkerPoints, <1>1 DEF TypeOK, NoRunPoints
  <1>3. CASE FinishRun(task[w], run[w], s) /\ UNCHANGED lost
    <2>1. \A t \in Tasks, r \in Nat : FinishRun(t, r, s) =>
            RunsKept /\ (r \in 1..Len(runs[t]) => runs'[t][r].ended)
      BY FinishRunEnds DEF OpenRun
    <2> QED BY <1>1, <1>2, <1>3, <2>1, RunOfTask, SameLost DEF OpenRun
  <1>4. CASE /\ lost' = [lost EXCEPT ![task[w]] = @ \cup (OpenRuns(task[w]) \cap {run[w]})]
             /\ UNCHANGED runs
    <2>1. /\ lost'[task[w]] = lost[task[w]] \cup (OpenRuns(task[w]) \cap {run[w]})
          /\ \A t \in Tasks : t # task[w] => lost'[t] = lost[t]
      BY <1>2, <1>4 DEF TypeOK, EnvOK
    <2>2. RunsKept /\ LostKept
      BY <1>4, <2>1, SameRuns DEF LostKept
    <2>3. ASSUME run[w] # 0, OpenRun(task[w], run[w])'  PROVE run[w] \in lost'[task[w]]
      <3>1. run[w] \in 1..Len(runs[task[w]])
        BY <2>3, RunOfTask
      <3>2. run[w] \in OpenRuns(task[w])
        BY <1>4, <2>3, <3>1 DEF OpenRuns, OpenRun
      <3> QED BY <2>1, <3>2
    <2> QED BY <2>2, <2>3
  <1> QED BY <1>3, <1>4 DEF EndRun

-----------------------------------------------------------------------------
(* The steps of a worker *)

\* AddRun with the new run in the store.
RunAdded(w) ==
  /\ pc[w] = "addRun"
  /\ runs' = [runs EXCEPT ![task[w]] = Append(@, [status |-> "INDEX_CHECK", ended |-> FALSE])]
  /\ run' = [run EXCEPT ![w] = Len(runs[task[w]]) + 1]
  /\ Goto(w, "ready")
  /\ UNCHANGED <<task, lost>>

\* Every other step of a worker keeps the runs, and ends the worker's own one
\* before it is done with it.
LEMMA WorkerRuns ==
  ASSUME TypeOK, RunInv, NEW w \in Workers, WorkerStep(w)
  PROVE  KeepsRun(w) \/ RunAdded(w)
  <1> USE DEF store, local, env, Actors
  <1>0. w \in Actors /\ \A p : Goto(w, p) => pc'[w] = p
    BY DEF Goto, TypeOK, ControlOK
  <1>1. FailCheck(w) \/ FailClose(w) \/ UNCHANGED lost
    BY DEF WorkerStep, Receive, MarkDequeued, LoadTask, RegisterCancel, AddRun, StepBegin, StepEnd,
           StepFail, PlannerSkip, FinishTask, CloseRun, PersistMemories, AutoReview, FailWrite,
           Cleanup
  <1>2. \A b \in Workers : b # w => pc'[b] = pc[b] /\ task'[b] = task[b]
    <2>1. CASE Receive(w)
      BY <2>1 DEF Receive, Goto, TypeOK, ControlOK
    <2>2. CASE LocalStep(w)
      BY <2>2 DEF LocalStep, LocalControl
    <2> QED BY <2>1, <2>2, WorkerLocal
  <1>3. ASSUME UNCHANGED run, RunsKept, LostKept, Continues(w) \/ Drops(w)  PROVE KeepsRun(w)
    BY <1>2, <1>3 DEF KeepsRun
  <1>4. ASSUME UNCHANGED <<runs, run, lost>>, Continues(w) \/ Drops(w)  PROVE KeepsRun(w)
    BY <1>3, <1>4, SameRuns, SameLost
  <1> USE DEF Continues, Drops, NoRunPoints, DonePoints, ReviewPC, WorkerPC, Executing
  <1>5. CASE Receive(w)
    BY <1>0, <1>4, <1>5 DEF Receive, RunInv
  <1>6. CASE MarkDequeued(w)
    BY <1>0, <1>4, <1>6 DEF MarkDequeued
  <1>7. CASE LoadTask(w)
    <2>1. UNCHANGED <<runs, run, lost>> /\ run[w] = 0 /\ pc[w] = "load"
      BY <1>7 DEF LoadTask, RunInv
    <2>2. CASE pc'[w] = "register" /\ UNCHANGED task
      BY <1>4, <2>1, <2>2
    <2>3. CASE pc'[w] = "idle"
      BY <1>4, <2>1, <2>3
    <2> QED BY <1>0, <1>7, <2>2, <2>3 DEF LoadTask
  <1>8. CASE RegisterCancel(w)
    BY <1>0, <1>4, <1>8 DEF RegisterCancel
  <1>9. CASE AddRun(w)
    <2>1. RunAdded(w) \/ (UNCHANGED <<runs, run, task, lost>> /\ pc[w] = "addRun" /\ pc'[w] = "failing")
      BY <1>0, <1>9 DEF AddRun, RunAdded
    <2> QED BY <1>4, <2>1
  <1>10. ASSUME NEW s \in Active, StepBegin(w, s)  PROVE KeepsRun(w)
    BY <1>0, <1>4, <1>10 DEF StepBegin
  <1>11. CASE StepEnd(w)
    BY <1>0, <1>4, <1>11 DEF StepEnd
  <1>12. CASE StepFail(w)
    BY <1>0, <1>4, <1>12 DEF StepFail
  <1>13. CASE PlannerSkip(w)
    <2>1. UNCHANGED <<runs, run, task, lost>> /\ pc[w] = "agent" /\ pc'[w] \in {"skip", "ready"}
      BY <1>0, <1>13 DEF PlannerSkip
    <2> QED BY <1>4, <2>1
  <1>14. ASSUME NEW s \in Settled, FinishTask(w, s)  PROVE KeepsRun(w)
    <2>1. UNCHANGED <<runs, run, task, lost>> /\ pc[w] \in {"ready", "skip"} /\ pc'[w] = "close"
      BY <1>0, <1>14 DEF FinishTask
    <2> QED BY <1>4, <2>1
  <1>15. CASE CloseRun(w)
    <2>1. UNCHANGED <<run, task, lost>> /\ pc[w] = "close" /\ pc'[w] \in {"auto", "post"}
      BY <1>0, <1>15 DEF CloseRun
    <2>2. outcome[w] \in Status
      BY DEF TypeOK, LocalOK, Settled, Status
    <2>3. EndRun(w, outcome[w])
      BY <1>15, <2>1 DEF CloseRun, EndRun
    <2>4. /\ RunsKept /\ LostKept
          /\ run[w] # 0 => ~OpenRun(task[w], run[w])' \/ run[w] \in lost'[task[w]]
      BY <2>1, <2>2, <2>3, OwnRunEnds
    <2> QED BY <1>3, <2>1, <2>4
  <1>16. CASE PersistMemories(w)
    <2>1. UNCHANGED <<runs, run, task, lost>> /\ pc[w] = "post" /\ pc'[w] \in {"auto", "failing"}
      BY <1>0, <1>16 DEF PersistMemories
    <2> QED BY <1>4, <2>1
  <1>17. CASE AutoReview(w)
    <2>1. \E d \in {"cleanup", "approve", "reject", "feedback"} : Goto(w, d)
      BY <1>17 DEF AutoReview, AutoDecision
    <2>2. UNCHANGED <<runs, run, task, lost>> /\ pc[w] = "auto"
          /\ pc'[w] \in {"cleanup", "approve", "reject", "feedback"}
      BY <1>0, <1>17, <2>1 DEF AutoReview
    <2> QED BY <1>4, <2>2
  <1>18. CASE FailCheck(w)
    <2>1. UNCHANGED <<run, task>> /\ pc[w] = "failing"
      BY <1>18 DEF FailCheck
    <2>2. CASE EndRun(w, "CANCELLED") /\ Goto(w, "cleanup")
      <3>1. /\ RunsKept /\ LostKept
            /\ run[w] # 0 => ~OpenRun(task[w], run[w])' \/ run[w] \in lost'[task[w]]
        BY <2>1, <2>2, OwnRunEnds DEF Settled, Status
      <3> QED BY <1>0, <1>3, <2>1, <2>2, <3>1
    <2>3. CASE Goto(w, "failWrite") /\ UNCHANGED <<runs, lost>>
      BY <1>0, <1>4, <2>1, <2>3
    <2> QED BY <1>18, <2>2, <2>3 DEF FailCheck
  <1>19. CASE FailWrite(w)
    BY <1>0, <1>4, <1>19 DEF FailWrite
  <1>20. CASE FailClose(w)
    <2>1. UNCHANGED <<run, task>> /\ pc[w] = "failClose" /\ pc'[w] = "cleanup"
      BY <1>0, <1>20 DEF FailClose
    <2>2. /\ RunsKept /\ LostKept
          /\ run[w] # 0 => ~OpenRun(task[w], run[w])' \/ run[w] \in lost'[task[w]]
      BY <1>20, <2>1, OwnRunEnds DEF FailClose, Settled, Status
    <2> QED BY <1>3, <2>1, <2>2
  <1>21. CASE Cleanup(w)
    <2>1. run' = [run EXCEPT ![w] = 0] /\ UNCHANGED <<runs, lost>> /\ pc[w] = "cleanup" /\ pc'[w] = "idle"
      BY <1>0, <1>21 DEF Cleanup
    <2>2. run'[w] = 0 /\ \A b \in Workers : b # w => run'[b] = run[b]
      BY <2>1 DEF TypeOK, LocalOK
    <2> QED BY <1>2, <2>1, <2>2, SameRuns, SameLost DEF KeepsRun
  <1> QED BY <1>5, <1>6, <1>7, <1>8, <1>9, <1>10, <1>11, <1>12, <1>13, <1>14, <1>15, <1>16, <1>17,
             <1>18, <1>19, <1>20, <1>21 DEF WorkerStep

\* A new run belongs to the worker that added it.
LEMMA RunAddedInv ==
  ASSUME TypeOK, RunInv, NEW w \in Workers, RunAdded(w)
  PROVE  RunInv'
  <1> DEFINE t == task[w]
             n == Len(runs[t])
  <1>1. w \in Actors /\ t \in Tasks
    <2>1. w \in Actors
      BY DEF Actors
    <2> QED BY <2>1, BusyTask DEF RunAdded
  <1>2. runs \in [Tasks -> Seq(RunRec)] /\ runs[t] \in Seq(RunRec) /\ n \in Nat
    BY <1>1 DEF TypeOK, StoreOK
  <1>3. /\ runs'[t] = Append(runs[t], [status |-> "INDEX_CHECK", ended |-> FALSE])
        /\ \A u \in Tasks : u # t => runs'[u] = runs[u]
    BY <1>1, <1>2 DEF RunAdded
  <1>4. /\ Len(runs'[t]) = n + 1
        /\ \A i \in 1..n : runs'[t][i] = runs[t][i]
    BY <1>2, <1>3
  <1>5. /\ run'[w] = n + 1 /\ pc'[w] = "ready"
        /\ \A b \in Workers : b # w => run'[b] = run[b] /\ pc'[b] = pc[b]
        /\ UNCHANGED <<task, lost>>
    BY <1>1 DEF RunAdded, Goto, TypeOK, ControlOK, LocalOK
  <1> HIDE DEF t, n
  <1>6. ASSUME NEW b \in Workers, run[b] # 0
        PROVE  /\ task[b] \in Tasks /\ run[b] \in 1..Len(runs[task[b]])
               /\ run[b] <= Len(runs'[task[b]])
               /\ runs'[task[b]][run[b]] = runs[task[b]][run[b]]
    <2>1. task[b] \in Tasks /\ run[b] \in 1..Len(runs[task[b]])
      BY <1>6, RunOfTask
    <2>2. CASE task[b] = t
      BY <1>2, <1>4, <2>1, <2>2 DEF n
    <2>3. CASE task[b] # t
      BY <1>3, <2>1, <2>3
    <2> QED BY <2>1, <2>2, <2>3
  <1>7. \A b \in Workers : pc'[b] \in NoRunPoints => run'[b] = 0
    BY <1>5 DEF RunInv, NoRunPoints
  <1>8. \A b \in Workers : run'[b] # 0 => run'[b] <= Len(runs'[task'[b]])
    BY <1>2, <1>4, <1>5, <1>6 DEF t
  <1>9. \A b \in Workers : pc'[b] \in DonePoints /\ run'[b] # 0 =>
          ~OpenRun(task[b], run[b])' \/ run'[b] \in lost'[task'[b]]
    BY <1>5, <1>6 DEF RunInv, DonePoints, ReviewPC, OpenRun
  <1>10. ASSUME NEW u \in Tasks, NEW i \in OpenRuns(u)', i \notin lost'[u]
         PROVE  \E b \in Workers : Executing(b)' /\ task'[b] = u /\ run'[b] = i
    <2>1. CASE u = t /\ i = n + 1
      <3>1. Executing(w)'
        BY <1>5 DEF Executing, WorkerPC
      <3> QED BY <1>5, <2>1, <3>1 DEF t
    <2>2. CASE u # t \/ i # n + 1
      <3>1. i \in OpenRuns(u) /\ i \notin lost[u]
        BY <1>2, <1>3, <1>4, <1>5, <1>10, <2>2 DEF OpenRuns, OpenRun, n
      <3>2. PICK b \in Workers : Executing(b) /\ task[b] = u /\ run[b] = i
        BY <3>1 DEF RunInv, OpenRunOwned
      <3>3. b # w
        BY <3>1, <3>2 DEF RunAdded, RunInv, NoRunPoints, OpenRuns
      <3> QED BY <1>5, <3>2, <3>3 DEF Executing
    <2> QED BY <2>1, <2>2
  <1> QED BY <1>7, <1>8, <1>9, <1>10 DEF RunInv, OpenRunOwned

-----------------------------------------------------------------------------
(* The steps of the handlers and of the restarted process *)

LEMMA HandlerRuns ==
  ASSUME TypeOK, NEW u \in Users, UserStep(u) \/ NewRequest(u)
  PROVE  u \in Actors /\ KeepsRun(u)
  <1>1. u \in Actors /\ u \notin Workers /\ Workers \subseteq Actors
    BY HandlerActors, ActorsAssumption DEF Actors
  <1>2. UNCHANGED <<runs, run, lost>>
    BY DEF UserStep, AddEvaluationRun, CancelWrite, CancelContext, NewRequest, RerunTask,
           CreateTask, CancelCheck, ReviewCheck, Return, store, local, env
  <1>3. \A b \in Workers : pc'[b] = pc[b] /\ task'[b] = task[b]
    <2>1. \E p : Goto(u, p)
      BY DEF UserStep, AddEvaluationRun, CancelWrite, CancelContext, NewRequest, RerunTask,
             CreateTask, CancelCheck, ReviewCheck, Return
    <2>2. UNCHANGED task \/ \E t : task' = [task EXCEPT ![u] = t]
      BY <1>1 DEF UserStep, AddEvaluationRun, CancelWrite, CancelContext, NewRequest,
                  RerunTask, CreateTask, CancelCheck, ReviewCheck, Request, Return
    <2> QED BY <1>1, <2>1, <2>2 DEF Goto, TypeOK, ControlOK
  <1> QED BY <1>1, <1>2, <1>3, SameRuns, SameLost DEF KeepsRun

LEMMA BootRuns ==
  ASSUME TypeOK, BootStep
  PROVE  Boot \in Actors /\ KeepsRun(Boot)
  <1>1. Boot \in Actors /\ Boot \notin Workers /\ Workers \subseteq Actors
    BY ActorsAssumption DEF Actors
  <1>2. UNCHANGED run /\ (RecoverCloseRuns \/ UNCHANGED lost)
    BY DEF BootStep, RecoverSnapshot, RecoverVisit, RecoverCloseRuns, RecoverReset,
           RecoverFail, RecoverDone, local, env
  <1>3. \A b \in Workers : pc'[b] = pc[b] /\ task'[b] = task[b]
    <2>1. \E p : Goto(Boot, p)
      BY DEF BootStep, RecoverSnapshot, RecoverVisit, RecoverCloseRuns, RecoverReset,
             RecoverFail, RecoverDone, Return
    <2>2. UNCHANGED task \/ \E t : task' = [task EXCEPT ![Boot] = t]
      BY <1>1 DEF BootStep, RecoverSnapshot, RecoverVisit, RecoverCloseRuns, RecoverReset,
                  RecoverFail, RecoverDone, Return
    <2> QED BY <1>1, <2>1, <2>2 DEF Goto, TypeOK, ControlOK
  <1>4. RunsKept /\ LostKept
    <2>1. CASE RecoverCloseRuns
      <3>0. PICK kept \in SUBSET OpenRuns(task[Boot]) :
              /\ lost' = [lost EXCEPT ![task[Boot]] = kept]
              /\ runs' = [runs EXCEPT ![task[Boot]] = [i \in 1..Len(@) |->
                            IF @[i].ended \/ i \in kept THEN @[i]
                            ELSE [status |-> "FAILED", ended |-> TRUE]]]
        BY <2>1 DEF RecoverCloseRuns
      <3> DEFINE t == task[Boot]
                 closed == [i \in 1..Len(runs[t]) |->
                   IF runs[t][i].ended \/ i \in kept THEN runs[t][i]
                   ELSE [status |-> "FAILED", ended |-> TRUE]]
      <3>1. t \in Tasks
        BY <1>1, <2>1, BusyTask DEF RecoverCloseRuns
      <3>2. runs \in [Tasks -> Seq(RunRec)] /\ runs[t] \in Seq(RunRec) /\ Len(runs[t]) \in Nat
        BY <3>1 DEF TypeOK, StoreOK
      <3>3. runs' = [runs EXCEPT ![t] = closed]
        BY <3>0
      <3>4. runs'[t] = closed /\ \A u \in Tasks : u # t => runs'[u] = runs[u]
        BY <3>1, <3>2, <3>3
      <3>5. Len(closed) = Len(runs[t])
        BY <3>2
      <3>6. \A i \in 1..Len(runs[t]) : runs[t][i].ended => closed[i].ended
        OBVIOUS
      <3>7. \A i \in 1..Len(runs[t]) : i \in kept \/ closed[i].ended
        OBVIOUS
      <3>8. lost'[t] = kept /\ \A u \in Tasks : u # t => lost'[u] = lost[u]
        BY <3>0, <3>1 DEF TypeOK, EnvOK
      <3> HIDE DEF closed, t
      <3>9. RunsKept
        BY <3>1, <3>4, <3>5, <3>6 DEF RunsKept
      <3>10. LostKept
        BY <3>1, <3>4, <3>5, <3>7, <3>8 DEF LostKept, OpenRuns, OpenRun
      <3> QED BY <3>9, <3>10
    <2>2. CASE UNCHANGED <<runs, lost>>
      BY <2>2, SameRuns, SameLost
    <2> QED BY <1>2, <2>1, <2>2 DEF BootStep, RecoverSnapshot, RecoverVisit, RecoverReset,
             RecoverFail, RecoverDone, store, env
  <1> QED BY <1>1, <1>2, <1>3, <1>4 DEF KeepsRun

LEMMA RunNext == TypeOK /\ RunInv /\ [Next]_vars => RunInv'
  <1> SUFFICES ASSUME TypeOK, RunInv, [Next]_vars  PROVE RunInv'
    OBVIOUS
  <1>1. ASSUME NEW w \in Workers, WorkerStep(w)  PROVE RunInv'
    <2>1. w \in Actors
      BY DEF Actors
    <2> QED BY <1>1, <2>1, WorkerRuns, RunKeeps, RunAddedInv
  <1>2. ASSUME NEW a \in Actors, CallStep(a)  PROVE RunInv'
    BY <1>2, CallRuns, RunKeeps
  <1>3. ASSUME NEW u \in Users, UserStep(u) \/ NewRequest(u)  PROVE RunInv'
    BY <1>3, HandlerRuns, RunKeeps
  <1>4. CASE BootStep
    BY <1>4, BootRuns, RunKeeps
  <1>5. CASE Crash
    <2>1. \A w \in Workers : run'[w] = 0
      BY <1>5 DEF Crash
    <2>2. \A t \in Tasks : OpenRuns(t)' = OpenRuns(t) /\ lost'[t] = OpenRuns(t)
      BY <1>5 DEF Crash, store, OpenRuns, OpenRun
    <2> QED BY <2>1, <2>2 DEF RunInv, OpenRunOwned
  <1>6. CASE UNCHANGED vars
    BY <1>6 DEF vars, store, local, env, RunInv, OpenRunOwned, OpenRuns, OpenRun, Executing
  <1> QED BY <1>1, <1>2, <1>3, <1>4, <1>5, <1>6 DEF Next, Rest

\* Every open run in the store belongs to a worker that is executing the task,
\* or is one that a crash cut off or that a failed FinishRun could not end:
\* with any number of workers, tasks, store errors and crashes, no other exit
\* of executeTask, and no restart, leaves a run behind.
THEOREM OpenRunsOwned == Spec => []OpenRunOwned
  <1>1. Init => RunInv
    BY DEF Init, RunInv, OpenRunOwned, OpenRuns, NoRunPoints, DonePoints, ReviewPC
  <1>2. TypeOK /\ RunInv /\ [Next]_vars => RunInv'
    BY RunNext
  <1>3. RunInv => OpenRunOwned
    BY DEF RunInv
  <1> QED BY <1>1, <1>2, <1>3, TypeCorrect, PTL DEF Spec
=============================================================================
