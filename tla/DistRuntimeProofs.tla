-------------------------- MODULE DistRuntimeProofs --------------------------
(* Proofs about DistRuntime for every number of tasks, workers, processes   *)
(* and requests.                                                            *)
EXTENDS DistRuntime, TLAPS

USE DistAssumption

-----------------------------------------------------------------------------
(* Type correctness *)

LEMMA TypeInit == Init => TypeOK
  BY DEF Init, LeaseInit, TypeOK, LeaseTypeOK, StoreOK, ClaimOK, ExecutionOK, RecoveryOK,
         HandlersOK, BoundsOK, WorkerPC, Settled

\* Closing a run keeps the runs a sequence, and their tokens.
LEMMA FinishRunKeeps ==
  ASSUME StoreOK, NEW t \in Tasks, NEW i \in Nat, NEW s \in Status,
         FinishRun(t, i, s)
  PROVE  /\ runs' \in [Tasks -> Seq(RunRec)]
         /\ \A u \in Tasks : /\ Len(runs'[u]) = Len(runs[u])
                             /\ \A j \in 1..Len(runs[u]) : runs'[u][j].token = runs[u][j].token
  <1>1. runs \in [Tasks -> Seq(RunRec)] /\ runs[t] \in Seq(RunRec)
    BY DEF StoreOK
  <1> DEFINE row == [[runs[t][i] EXCEPT !.status = s] EXCEPT !.ended = TRUE]
             new == [runs[t] EXCEPT ![i] = row]
  <1>2. CASE i \in 1..Len(runs[t])
    <2>1. runs[t][i] \in RunRec
      BY <1>1, <1>2
    <2>2. row \in RunRec /\ row.token = runs[t][i].token
      BY <2>1 DEF RunRec
    <2>3. runs' = [runs EXCEPT ![t] = new]
      BY <1>1, <1>2, <2>1 DEF FinishRun, RunRec
    <2> HIDE DEF row
    <2>4. new \in Seq(RunRec) /\ Len(new) = Len(runs[t])
      BY <1>1, <1>2, <2>2
    <2>5. \A j \in 1..Len(runs[t]) : new[j].token = runs[t][j].token
      BY <1>1, <1>2, <2>2
    <2> HIDE DEF new
    <2> QED BY <1>1, <2>3, <2>4, <2>5
  <1>3. CASE i \notin 1..Len(runs[t])
    <2>1. \A e : [runs[t] EXCEPT ![i] = e] = runs[t]
      BY <1>1, <1>3
    <2>2. runs' = [runs EXCEPT ![t] = new]
      BY <1>1 DEF FinishRun
    <2>3. runs' = runs
      BY <1>1, <2>1, <2>2
    <2> QED BY <1>1, <2>3
  <1> QED BY <1>2, <1>3

\* What a worker does to itself: it moves on, and keeps its task unless it
\* takes one up from the snapshot or drops it.
LEMMA GotoKeepsClaim ==
  ASSUME ClaimOK, NEW w \in Workers, NEW p \in WorkerPC, Goto(w, p),
         UNCHANGED <<task, token>>, toTry' \in [Workers -> SUBSET Tasks],
         p \in {"idle", "scan"} <=> pc[w] \in {"idle", "scan"}
  PROVE  ClaimOK'
  BY DEF ClaimOK, Goto

LEMMA GotoNewClaim ==
  ASSUME ClaimOK, NEW w \in Workers, NEW p \in WorkerPC, Goto(w, p),
         NEW t \in Tasks \cup {None}, task' = [task EXCEPT ![w] = t],
         NEW k \in Nat, token' = [token EXCEPT ![w] = k],
         toTry' \in [Workers -> SUBSET Tasks],
         t = None <=> p \in {"idle", "scan"}
  PROVE  ClaimOK'
  BY DEF ClaimOK, Goto

\* A worker beyond the scan has a task.
LEMMA HasTask ==
  ASSUME ClaimOK, NEW w \in Workers, pc[w] \notin {"idle", "scan"}
  PROVE  task[w] \in Tasks
  BY DEF ClaimOK

\* The row of an execution is a row of its task.
LEMMA FinishOwnRunKeeps ==
  ASSUME StoreOK, ClaimOK, NEW w \in Workers, pc[w] \notin {"idle", "scan"},
         NEW s \in Status, FinishOwnRun(w, s)
  PROVE  /\ runs' \in [Tasks -> Seq(RunRec)]
         /\ \A t \in Tasks : /\ Len(runs'[t]) = Len(runs[t])
                             /\ \A j \in 1..Len(runs[t]) : runs'[t][j].token = runs[t][j].token
  BY HasTask, FinishRunKeeps DEF FinishOwnRun, OwnRow

\* Recovery closes runs that exist, or none.
LEMMA RecoverCloseKeeps ==
  ASSUME StoreOK, RecoveryOK, NEW p \in Procs, NEW i \in toClose[p], RecoverCloseRun(p, i)
  PROVE  /\ runs' \in [Tasks -> Seq(RunRec)]
         /\ \A t \in Tasks : /\ Len(runs'[t]) = Len(runs[t])
                             /\ \A j \in 1..Len(runs[t]) : runs'[t][j].token = runs[t][j].token
  <1>1. CASE UNCHANGED runs
    BY <1>1 DEF StoreOK
  <1>2. CASE FinishRun(visiting[p], i, "FAILED")
    <2>1. visiting[p] \in Tasks
      BY DEF RecoverCloseRun, RecoveryOK
    <2>2. i \in Nat
      BY DEF RecoveryOK
    <2> QED BY <1>2, <2>1, <2>2, FinishRunKeeps DEF Status, Settled
  <1> QED BY <1>1, <1>2 DEF RecoverCloseRun

\* The parts of TypeOK a worker's step does not touch keep what they say.
LEMMA TypeClaiming ==
  ASSUME TypeOK, NEW w \in Workers,
         Scan(w) \/ Set(w) \/ Check(w) \/ GiveUp(w) \/ ScanEnd(w)
           \/ \E t \in Tasks : Draw(w, t) \/ Skip(w, t)
  PROVE  TypeOK'
  <1> USE DEF TypeOK, stored, leaseVars, claim, execution, recovery, bounds
  <1>1. CASE Scan(w)
    <2>1. ClaimOK'
      BY <1>1, GotoKeepsClaim DEF Scan, ClaimOK, WorkerPC, claim
    <2>2. LeaseTypeOK' /\ StoreOK' /\ ExecutionOK' /\ RecoveryOK' /\ HandlersOK' /\ BoundsOK'
      BY <1>1, HasTask DEF Scan,
         LeaseTypeOK, StoreOK, ExecutionOK, RecoveryOK, HandlersOK, BoundsOK
    <2> QED BY <2>1, <2>2
  <1>2. CASE Check(w)
    <2>1. ClaimOK'
      BY <1>2, GotoKeepsClaim DEF Check, ClaimOK, WorkerPC, claim
    <2>2. LeaseTypeOK'
      BY <1>2 DEF Check, LeaseTypeOK
    <2>3. StoreOK'
      BY <1>2 DEF Check, StoreOK
    <2>4. ExecutionOK'
      BY <1>2 DEF Check, ExecutionOK
    <2>5. RecoveryOK'
      BY <1>2 DEF Check, RecoveryOK
    <2>6. HandlersOK'
      BY <1>2 DEF Check, HandlersOK
    <2>7. BoundsOK'
      BY <1>2 DEF Check, BoundsOK, Failure
    <2> QED BY <2>1, <2>2, <2>3, <2>4, <2>5, <2>6, <2>7
  <1>3. CASE GiveUp(w)
    <2>1. ClaimOK'
      BY <1>3, GotoNewClaim DEF GiveUp, ClaimOK, WorkerPC, claim, NextTry
    <2>2. LeaseTypeOK'
      BY <1>3, HasTask DEF GiveUp, LeaseTypeOK, Delete, DeleteIfEqual
    <2>3. StoreOK'
      BY <1>3 DEF GiveUp, StoreOK
    <2>4. ExecutionOK'
      BY <1>3 DEF GiveUp, ExecutionOK
    <2>5. RecoveryOK'
      BY <1>3 DEF GiveUp, RecoveryOK
    <2>6. HandlersOK'
      BY <1>3 DEF GiveUp, HandlersOK
    <2>7. BoundsOK'
      BY <1>3 DEF GiveUp, BoundsOK, Delete, Failure
    <2> QED BY <2>1, <2>2, <2>3, <2>4, <2>5, <2>6, <2>7
  <1>4. CASE ScanEnd(w)
    <2>1. ClaimOK'
      BY <1>4, GotoKeepsClaim DEF ScanEnd, ClaimOK, WorkerPC, claim
    <2>2. LeaseTypeOK' /\ StoreOK' /\ ExecutionOK' /\ RecoveryOK' /\ HandlersOK' /\ BoundsOK'
      BY <1>4, HasTask DEF ScanEnd,
         LeaseTypeOK, StoreOK, ExecutionOK, RecoveryOK, HandlersOK, BoundsOK
    <2> QED BY <2>1, <2>2
  <1>5. CASE Set(w)
    <2>1. ClaimOK'
      <3>1. CASE Goto(w, "check") /\ UNCHANGED <<task, token>>
        BY <1>5, <3>1, GotoKeepsClaim DEF Set, ClaimOK, WorkerPC
      <3>2. CASE NextTry(w)
        BY <1>5, <3>2, GotoNewClaim DEF Set, ClaimOK, WorkerPC, NextTry
      <3> QED BY <1>5, <3>1, <3>2 DEF Set
    <2>2. LeaseTypeOK'
      BY <1>5, HasTask DEF Set, LeaseTypeOK, SetIfAbsent, ClaimOK
    <2>3. StoreOK'
      BY <1>5 DEF Set, StoreOK
    <2>4. ExecutionOK'
      BY <1>5 DEF Set, ExecutionOK
    <2>5. RecoveryOK'
      BY <1>5 DEF Set, RecoveryOK
    <2>6. HandlersOK'
      BY <1>5 DEF Set, HandlersOK
    <2>7. BoundsOK'
      BY <1>5 DEF Set, BoundsOK, Failure
    <2> QED BY <2>1, <2>2, <2>3, <2>4, <2>5, <2>6, <2>7
  <1>6. CASE \E t \in Tasks : Draw(w, t)
    <2> PICK t \in Tasks : Draw(w, t)
      BY <1>6
    <2>0. fencing[t] + 1 \in Nat
      BY DEF LeaseTypeOK
    <2>1. ClaimOK'
      <3>1. CASE Goto(w, "set")
        BY <2>0, <3>1, GotoNewClaim DEF Draw, ClaimOK, WorkerPC
      <3>2. CASE UNCHANGED <<task, token, pc>>
        BY <3>2 DEF Draw, ClaimOK
      <3> QED BY <3>1, <3>2 DEF Draw
    <2>2. LeaseTypeOK'
      BY <2>0 DEF Draw, DrawToken, LeaseTypeOK
    <2>3. BoundsOK'
      BY DEF Draw, BoundsOK, Failure
    <2>4. StoreOK' /\ ExecutionOK' /\ RecoveryOK' /\ HandlersOK'
      BY DEF Draw, StoreOK, ExecutionOK, RecoveryOK, HandlersOK
    <2> QED BY <2>1, <2>2, <2>3, <2>4
  <1>7. CASE \E t \in Tasks : Skip(w, t)
    <2> PICK t \in Tasks : Skip(w, t)
      BY <1>7
    <2>1. ClaimOK'
      BY DEF Skip, ClaimOK
    <2> QED BY <2>1 DEF Skip, LeaseTypeOK, StoreOK, ExecutionOK, RecoveryOK, HandlersOK, BoundsOK
  <1> QED BY <1>1, <1>2, <1>3, <1>4, <1>5, <1>6, <1>7

LEMMA TypeExecuting ==
  ASSUME TypeOK, NEW w \in Workers,
         \/ Load(w) \/ AddRun(w)
         \/ \E s \in WorkStatus : StepBegin(w, s)
         \/ \E s \in {"COMPLETED", "HUMAN_REVIEW_REQUIRED"} : Finish(w, s)
         \/ StepFail(w) \/ CloseRun(w) \/ PersistMemories(w)
         \/ FailCheck(w) \/ FailWrite(w) \/ FailClose(w) \/ Release(w)
  PROVE  TypeOK'
  <1> USE DEF TypeOK, stored, leaseVars, claim, execution, recovery, bounds
  <1>1. CASE Load(w)
    <2>1. ClaimOK'
      BY <1>1, GotoKeepsClaim DEF Load, ClaimOK, WorkerPC, claim
    <2>2. LeaseTypeOK' /\ StoreOK' /\ ExecutionOK' /\ RecoveryOK' /\ HandlersOK' /\ BoundsOK'
      BY <1>1, HasTask DEF Load, Failure,
         LeaseTypeOK, StoreOK, ExecutionOK, RecoveryOK, HandlersOK, BoundsOK
    <2> QED BY <2>1, <2>2
  <1>2. CASE AddRun(w)
    <2>1. ClaimOK'
      BY <1>2, GotoKeepsClaim DEF AddRun, ClaimOK, WorkerPC, claim
    <2>2. LeaseTypeOK'
      BY <1>2 DEF AddRun, LeaseTypeOK
    <2>3. StoreOK'
      <3> DEFINE row == [token |-> token[w], status |-> "INDEX_CHECK", ended |-> FALSE]
      <3>0. token[w] \in Nat /\ "INDEX_CHECK" \in Status
        BY DEF ClaimOK, Status, Active
      <3>1. row \in RunRec
        BY <3>0 DEF RunRec
      <3>2. runs' = [runs EXCEPT ![task[w]] = Append(@, row)] \/ UNCHANGED runs
        BY <1>2 DEF AddRun
      <3> HIDE DEF row
      <3>3. task[w] \in Tasks /\ UNCHANGED status
        BY <1>2, HasTask DEF AddRun
      <3>4. Append(runs[task[w]], row) \in Seq(RunRec)
        BY <3>1, <3>3 DEF StoreOK
      <3> QED BY <3>2, <3>3, <3>4 DEF StoreOK
    <2>4. ExecutionOK'
      <3>1. pc[w] = "addRun" /\ task[w] \in Tasks
        BY <1>2, HasTask DEF AddRun
      <3>2. Len(runs[task[w]]) + 1 \in Nat
        BY <3>1 DEF StoreOK
      <3> QED BY <1>2, <3>2 DEF AddRun, ExecutionOK
    <2>5. RecoveryOK'
      BY <1>2 DEF AddRun, RecoveryOK
    <2>6. HandlersOK'
      BY <1>2 DEF AddRun, HandlersOK
    <2>7. BoundsOK'
      BY <1>2 DEF AddRun, BoundsOK, Failure
    <2> QED BY <2>1, <2>2, <2>3, <2>4, <2>5, <2>6, <2>7
  <1>3. CASE StepFail(w)
    <2>1. ClaimOK'
      BY <1>3, GotoKeepsClaim DEF StepFail, ClaimOK, WorkerPC, claim
    <2>2. LeaseTypeOK' /\ StoreOK' /\ ExecutionOK' /\ RecoveryOK' /\ HandlersOK' /\ BoundsOK'
      BY <1>3, HasTask DEF StepFail, Failure,
         LeaseTypeOK, StoreOK, ExecutionOK, RecoveryOK, HandlersOK, BoundsOK
    <2> QED BY <2>1, <2>2
  <1>4. CASE PersistMemories(w)
    <2>1. ClaimOK'
      BY <1>4, GotoKeepsClaim DEF PersistMemories, ClaimOK, WorkerPC, claim
    <2>2. LeaseTypeOK' /\ StoreOK' /\ ExecutionOK' /\ RecoveryOK' /\ HandlersOK' /\ BoundsOK'
      BY <1>4, HasTask DEF PersistMemories,
         LeaseTypeOK, StoreOK, ExecutionOK, RecoveryOK, HandlersOK, BoundsOK
    <2> QED BY <2>1, <2>2
  <1>5. CASE CloseRun(w)
    <2>1. ClaimOK'
      BY <1>5, GotoKeepsClaim DEF CloseRun, ClaimOK, WorkerPC, claim
    <2>2. LeaseTypeOK' /\ StoreOK' /\ ExecutionOK' /\ RecoveryOK' /\ HandlersOK' /\ BoundsOK'
      BY <1>5, HasTask, FinishOwnRunKeeps, outcome[w] \in Status DEF CloseRun, Status,
         LeaseTypeOK, StoreOK, ExecutionOK, RecoveryOK, HandlersOK, BoundsOK
    <2> QED BY <2>1, <2>2
  <1>6. CASE FailCheck(w)
    <2>1. ClaimOK'
      BY <1>6, GotoKeepsClaim DEF FailCheck, ClaimOK, WorkerPC, claim
    <2>2. LeaseTypeOK'
      BY <1>6 DEF FailCheck, LeaseTypeOK
    <2>3. StoreOK'
      BY <1>6, FinishOwnRunKeeps DEF FailCheck, StoreOK, Status, Settled
    <2>4. ExecutionOK'
      BY <1>6 DEF FailCheck, ExecutionOK
    <2>5. RecoveryOK'
      BY <1>6 DEF FailCheck, RecoveryOK
    <2>6. HandlersOK'
      BY <1>6 DEF FailCheck, HandlersOK
    <2>7. BoundsOK'
      BY <1>6 DEF FailCheck, BoundsOK, Failure
    <2> QED BY <2>1, <2>2, <2>3, <2>4, <2>5, <2>6, <2>7
  <1>7. CASE FailWrite(w)
    <2>1. ClaimOK'
      BY <1>7, GotoKeepsClaim DEF FailWrite, ClaimOK, WorkerPC, claim
    <2>2. LeaseTypeOK'
      BY <1>7 DEF FailWrite, LeaseTypeOK
    <2>3. StoreOK'
      BY <1>7, HasTask DEF FailWrite, StoreOK, Status, Settled, SetStatus, UpdateTaskForRun
    <2>4. ExecutionOK'
      BY <1>7 DEF FailWrite, ExecutionOK
    <2>5. RecoveryOK'
      BY <1>7 DEF FailWrite, RecoveryOK
    <2>6. HandlersOK'
      BY <1>7 DEF FailWrite, HandlersOK
    <2>7. BoundsOK'
      BY <1>7 DEF FailWrite, BoundsOK, Failure
    <2> QED BY <2>1, <2>2, <2>3, <2>4, <2>5, <2>6, <2>7
  <1>8. CASE FailClose(w)
    <2>1. ClaimOK'
      BY <1>8, GotoKeepsClaim DEF FailClose, ClaimOK, WorkerPC, claim
    <2>2. StoreOK'
      BY <1>8, FinishOwnRunKeeps DEF FailClose, StoreOK, Status, Settled
    <2>3. LeaseTypeOK' /\ ExecutionOK' /\ RecoveryOK' /\ HandlersOK'
      BY <1>8 DEF FailClose, LeaseTypeOK, ExecutionOK, RecoveryOK, HandlersOK
    <2>4. BoundsOK'
      BY <1>8 DEF FailClose, BoundsOK, Failure
    <2> QED BY <2>1, <2>2, <2>3, <2>4
  <1>9. CASE Release(w)
    <2>1. ClaimOK'
      BY <1>9, GotoNewClaim DEF Release, ClaimOK, WorkerPC, claim, NextTry
    <2>2. LeaseTypeOK'
      BY <1>9, HasTask DEF Release, LeaseTypeOK, Delete, DeleteIfEqual
    <2>3. StoreOK'
      BY <1>9 DEF Release, StoreOK
    <2>4. ExecutionOK'
      BY <1>9 DEF Release, ExecutionOK, Settled
    <2>5. RecoveryOK'
      BY <1>9 DEF Release, RecoveryOK
    <2>6. HandlersOK'
      BY <1>9 DEF Release, HandlersOK
    <2>7. BoundsOK'
      BY <1>9 DEF Release, BoundsOK, Delete, Failure
    <2> QED BY <2>1, <2>2, <2>3, <2>4, <2>5, <2>6, <2>7
  <1>10. CASE \E s \in WorkStatus : StepBegin(w, s)
    <2> PICK s \in WorkStatus : StepBegin(w, s)
      BY <1>10
    <2>1. ClaimOK'
      BY DEF StepBegin, ClaimOK
    <2>2. StoreOK'
      BY HasTask DEF StepBegin, UpdateTaskForRun, SetStatus, Status, StoreOK
    <2>3. LeaseTypeOK' /\ ExecutionOK' /\ RecoveryOK' /\ HandlersOK' /\ BoundsOK'
      BY DEF StepBegin, LeaseTypeOK, ExecutionOK, RecoveryOK, HandlersOK, BoundsOK
    <2> QED BY <2>1, <2>2, <2>3
  <1>11. CASE \E s \in {"COMPLETED", "HUMAN_REVIEW_REQUIRED"} : Finish(w, s)
    <2> PICK s \in {"COMPLETED", "HUMAN_REVIEW_REQUIRED"} : Finish(w, s)
      BY <1>11
    <2>1. ClaimOK'
      BY GotoKeepsClaim DEF Finish, ClaimOK, WorkerPC
    <2> QED BY <2>1, HasTask DEF Finish, UpdateTaskForRun, SetStatus, Status, Settled,
          LeaseTypeOK, StoreOK, ExecutionOK, RecoveryOK, HandlersOK, BoundsOK
  <1> QED BY <1>1, <1>2, <1>3, <1>4, <1>5, <1>6, <1>7, <1>8, <1>9, <1>10, <1>11

LEMMA TypeRecovery ==
  ASSUME TypeOK, NEW p \in Procs, RecoverStep(p)
  PROVE  TypeOK'
  <1> USE DEF TypeOK, stored, leaseVars, claim, execution, recovery, bounds
  <1>1. CASE RecoverSnapshot(p)
    <2>1. RecoveryOK'
      BY <1>1 DEF RecoverSnapshot, GotoBoot, RecoveryOK
    <2>2. BoundsOK'
      BY <1>1 DEF RecoverSnapshot, BoundsOK, Failure
    <2> QED
      BY <1>1, <2>1, <2>2
         DEF RecoverSnapshot, LeaseTypeOK, StoreOK, ClaimOK, ExecutionOK, HandlersOK
  <1>2. CASE \E t \in Tasks : RecoverVisit(p, t)
    <2> PICK t \in Tasks : RecoverVisit(p, t)
      BY <1>2
    <2>1. RecoveryOK'
      <3>1. OpenRuns(t) \in SUBSET Nat
        BY DEF OpenRuns, StoreOK
      <3> QED BY <3>1 DEF RecoverVisit, GotoBoot, RecoveryOK
    <2>2. BoundsOK'
      BY DEF RecoverVisit, BoundsOK, Failure
    <2> QED
      BY <2>1, <2>2 DEF RecoverVisit, LeaseTypeOK, StoreOK, ClaimOK, ExecutionOK, HandlersOK
  <1>3. CASE \E i \in toClose[p] : RecoverCloseRun(p, i)
    <2> PICK i \in toClose[p] : RecoverCloseRun(p, i)
      BY <1>3
    <2>1. RecoveryOK'
      BY DEF RecoverCloseRun, RecoveryOK
    <2>2. BoundsOK'
      BY DEF RecoverCloseRun, BoundsOK, Failure
    <2>3. StoreOK'
      BY RecoverCloseKeeps DEF RecoverCloseRun, StoreOK
    <2> QED
      BY <2>1, <2>2, <2>3 DEF RecoverCloseRun, LeaseTypeOK, ClaimOK, ExecutionOK, HandlersOK
  <1>4. CASE RecoverReset(p)
    <2>1. RecoveryOK'
      BY <1>4 DEF RecoverReset, GotoBoot, RecoveryOK
    <2>2. BoundsOK'
      BY <1>4 DEF RecoverReset, BoundsOK, Failure
    <2>3. StoreOK'
      BY <1>4 DEF RecoverReset, StoreOK, SetStatus, Status
    <2> QED
      BY <1>4, <2>1, <2>2, <2>3 DEF RecoverReset, LeaseTypeOK, ClaimOK, ExecutionOK, HandlersOK
  <1>5. CASE RecoverDone(p)
    <2>1. RecoveryOK'
      BY <1>5 DEF RecoverDone, GotoBoot, RecoveryOK
    <2> QED
      BY <1>5, <2>1
         DEF RecoverDone, LeaseTypeOK, StoreOK, ClaimOK, ExecutionOK, HandlersOK, BoundsOK
  <1> QED BY <1>1, <1>2, <1>3, <1>4, <1>5 DEF RecoverStep

LEMMA TypeRestart ==
  ASSUME TypeOK, NEW p \in Procs, Restart(p)
  PROVE  TypeOK'
  <1> USE DEF TypeOK, stored, leaseVars, claim, execution, recovery, bounds
  <1>1. ClaimOK'
    BY DEF Restart, ClaimOK, WorkerPC
  <1>2. ExecutionOK'
    BY DEF Restart, ExecutionOK, Settled
  <1>3. RecoveryOK'
    BY DEF Restart, RecoveryOK
  <1>4. HandlersOK'
    BY DEF Restart, HandlersOK
  <1> QED BY <1>1, <1>2, <1>3, <1>4 DEF Restart, LeaseTypeOK, StoreOK, BoundsOK

LEMMA TypeHandler ==
  ASSUME TypeOK, NEW u \in Users, NewRequest(u) \/ WriteDecision(u)
  PROVE  TypeOK'
  <1> USE DEF TypeOK, stored, leaseVars, claim, execution, recovery, bounds
  <1>1. CASE \E t \in Tasks : CreateTask(u, t)
    <2> PICK t \in Tasks : CreateTask(u, t)
      BY <1>1
    <2>1. StoreOK'
      BY DEF CreateTask, StoreOK, SetStatus, Status
    <2> QED
      BY <2>1 DEF CreateTask, Request, LeaseTypeOK, ClaimOK, ExecutionOK, RecoveryOK,
                  HandlersOK, BoundsOK
  <1>2. CASE \E t \in Tasks, s \in Status : Decide(u, t, s)
    <2> PICK t \in Tasks, s \in Status : Decide(u, t, s)
      BY <1>2
    <2>1. HandlersOK'
      BY DEF Decide, HandlersOK, Decisions
    <2> QED
      BY <2>1 DEF Decide, Request, LeaseTypeOK, StoreOK, ClaimOK, ExecutionOK, RecoveryOK, BoundsOK
  <1>3. CASE WriteDecision(u)
    <2>1. decision[u].task \in Tasks /\ decision[u].status \in Status
      BY <1>3 DEF WriteDecision, HandlersOK, Decisions
    <2>2. StoreOK'
      BY <1>3, <2>1 DEF WriteDecision, StoreOK, SetStatus
    <2>3. BoundsOK'
      BY <1>3 DEF WriteDecision, BoundsOK, Failure
    <2>4. HandlersOK'
      BY <1>3 DEF WriteDecision, HandlersOK
    <2> QED
      BY <1>3, <2>2, <2>3, <2>4 DEF WriteDecision, LeaseTypeOK, ClaimOK, ExecutionOK, RecoveryOK
  <1> QED BY <1>1, <1>2, <1>3 DEF NewRequest

LEMMA TypeClock ==
  ASSUME TypeOK,
         \/ \E w \in Workers : RenewStop(w)
         \/ \E t \in Tasks : Expire(t) \/ ExpireRenewed(t)
  PROVE  TypeOK'
  <1> USE DEF TypeOK, stored, leaseVars, claim, execution, recovery, bounds
  <1>1. CASE \E w \in Workers : RenewStop(w)
    <2> PICK w \in Workers : RenewStop(w)
      BY <1>1
    <2>1. ExecutionOK'
      BY DEF RenewStop, ExecutionOK
    <2>2. BoundsOK'
      BY DEF RenewStop, BoundsOK, Failure
    <2> QED BY <2>1, <2>2 DEF RenewStop, LeaseTypeOK, StoreOK, ClaimOK, RecoveryOK, HandlersOK
  <1>2. CASE \E t \in Tasks : Expire(t) \/ ExpireRenewed(t)
    <2> PICK t \in Tasks : Expire(t) \/ ExpireRenewed(t)
      BY <1>2
    <2>1. LeaseTypeOK'
      BY DEF Expire, ExpireRenewed, ExpireKey, LeaseTypeOK
    <2>2. BoundsOK'
      BY DEF Expire, ExpireRenewed, BoundsOK
    <2> QED
      BY <2>1, <2>2
         DEF Expire, ExpireRenewed, StoreOK, ClaimOK, ExecutionOK, RecoveryOK, HandlersOK
  <1> QED BY <1>1, <1>2

LEMMA TypeStutter ==
  ASSUME TypeOK, UNCHANGED vars
  PROVE  TypeOK'
  BY DEF vars, stored, leaseVars, claim, execution, recovery, bounds, TypeOK, LeaseTypeOK,
         StoreOK, ClaimOK, ExecutionOK, RecoveryOK, HandlersOK, BoundsOK

LEMMA TypeNext == TypeOK /\ [Next]_vars => TypeOK'
  <1> SUFFICES ASSUME TypeOK, [Next]_vars PROVE TypeOK'
    OBVIOUS
  <1>1. ASSUME NEW w \in Workers, WorkerStep(w) PROVE TypeOK'
    BY <1>1, TypeClaiming, TypeExecuting DEF WorkerStep
  <1> QED
    BY <1>1, TypeRecovery, TypeRestart, TypeHandler, TypeClock, TypeStutter DEF Next, Rest

\* Every variable of the distributed runtime keeps its type: a worker beyond
\* the scan of claimNextTask works for exactly one task, and recoverTasks
\* closes runs of exactly one.
THEOREM TypeCorrect == Spec => []TypeOK
  BY TypeInit, TypeNext, PTL DEF Spec

-----------------------------------------------------------------------------
(* The leases exclude: the inductive invariant *)

\* The worker holds a token, claimed or not.
Holding(w) == pc[w] \notin {"idle", "scan"}

\* It has not yet stored a run under that token.
BeforeRun(w) == pc[w] \in {"set", "check", "giveUp", "load", "addRun"}

\* Tokens are drawn from the counter of their task, each by one worker.
TokensDrawn ==
  /\ \A w \in Workers : Holding(w) => token[w] \in 1..fencing[task[w]]
  /\ \A w, v \in Workers :
       w # v /\ Holding(w) /\ Holding(v) /\ task[w] = task[v] => token[w] # token[v]

\* The history of the keys: tokens that were granted were drawn, a key holds a
\* granted token that has not expired, and a drawn token is granted at most once.
KeysGranted ==
  /\ \A g \in granted : g[2] \in 1..fencing[g[1]]
  /\ expired \subseteq granted
  /\ \A t \in Tasks :
       lease[t] # 0 => <<t, lease[t]>> \in granted /\ <<t, lease[t]>> \notin expired
  /\ \A w \in Workers : pc[w] = "set" => <<task[w], token[w]>> \notin granted

\* A worker that was told it has the lease has it, or lost it to the clock.
ClaimsKept ==
  \A w \in Workers : Claimed(w) =>
    /\ <<task[w], token[w]>> \in granted
    /\ lease[task[w]] = token[w] \/ <<task[w], token[w]>> \in expired

\* A token labels at most one run, and none before its worker stores it.
TokensLabel ==
  /\ \A t \in Tasks : \A i \in 1..Len(runs[t]) : runs[t][i].token \in 1..fencing[t]
  /\ \A w \in Workers : BeforeRun(w) =>
       \A i \in 1..Len(runs[task[w]]) : runs[task[w]][i].token # token[w]
  /\ RunTokensDiffer

LeaseInv == TypeOK /\ TokensDrawn /\ KeysGranted /\ ClaimsKept /\ TokensLabel

LeaseParts == TokensDrawn /\ KeysGranted /\ ClaimsKept /\ TokensLabel

LEMMA LeaseInit1 == Init => LeaseInv
  <1> SUFFICES ASSUME Init PROVE LeaseInv
    OBVIOUS
  <1>1. TokensDrawn /\ KeysGranted /\ ClaimsKept
    BY DEF Init, LeaseInit, TokensDrawn, KeysGranted, ClaimsKept, Holding, Claimed
  <1>2. TokensLabel
    BY DEF Init, TokensLabel, BeforeRun, RunTokensDiffer
  <1> QED BY <1>1, <1>2, TypeInit DEF LeaseInv

\* What a step may do to the runs without touching their tokens.
SameTokens ==
  \A t \in Tasks : /\ Len(runs'[t]) = Len(runs[t])
                   /\ \A j \in 1..Len(runs[t]) : runs'[t][j].token = runs[t][j].token

\* What a step may do to a worker without touching its claim: the worker stays
\* where it is, works on under its claim, or has none any more.
Keeps(w) ==
  /\ task'[w] = task[w] /\ token'[w] = token[w]
  /\ \/ pc'[w] = pc[w]
     \/ Claimed(w) /\ Claimed(w)' /\ (BeforeRun(w)' => BeforeRun(w))

Drops(w) == pc'[w] \in {"idle", "scan"}

\* Steps that leave the keys and the tokens of the runs alone.
LEMMA QuietStep ==
  ASSUME TypeOK, LeaseParts, UNCHANGED leaseVars, SameTokens,
         \A w \in Workers : Keeps(w) \/ Drops(w)
  PROVE  LeaseParts'
  <1> USE DEF LeaseParts
  <1>1. /\ \A w \in Workers : Holding(w)' => Holding(w) /\ UNCHANGED <<task[w], token[w]>>
        /\ \A w \in Workers : Claimed(w)' => Claimed(w) /\ UNCHANGED <<task[w], token[w]>>
        /\ \A w \in Workers : BeforeRun(w)' => BeforeRun(w) /\ UNCHANGED <<task[w], token[w]>>
        /\ \A w \in Workers : pc'[w] = "set" => pc[w] = "set" /\ UNCHANGED <<task[w], token[w]>>
    BY DEF Keeps, Drops, Holding, Claimed, BeforeRun
  <1>2. TokensDrawn'
    BY <1>1 DEF TokensDrawn, leaseVars
  <1>3. KeysGranted'
    BY <1>1 DEF KeysGranted, leaseVars
  <1>4. ClaimsKept'
    BY <1>1 DEF ClaimsKept, leaseVars
  <1>5. TokensLabel'
    <2>1. \A w \in Workers : BeforeRun(w) => task[w] \in Tasks
      BY DEF BeforeRun, TypeOK, ClaimOK
    <2>2. \A t \in Tasks : \A i \in 1..Len(runs'[t]) : runs'[t][i].token \in 1..fencing'[t]
      BY DEF TokensLabel, SameTokens, leaseVars
    <2>3. \A w \in Workers : BeforeRun(w)' =>
            \A i \in 1..Len(runs'[task'[w]]) : runs'[task'[w]][i].token # token'[w]
      BY <1>1, <2>1 DEF TokensLabel, SameTokens
    <2>4. RunTokensDiffer'
      BY DEF TokensLabel, SameTokens, RunTokensDiffer
    <2> QED BY <2>2, <2>3, <2>4 DEF TokensLabel
  <1> QED BY <1>2, <1>3, <1>4, <1>5

\* A key disappears, because it expired or its owner deleted it.
LEMMA KeyGone ==
  ASSUME TypeOK, LeaseParts, UNCHANGED <<fencing, granted>>, SameTokens,
         NEW t \in Tasks, lease[t] # 0, lease' = [lease EXCEPT ![t] = 0],
         \/ /\ expired' = expired \cup {<<t, lease[t]>>}
            /\ \A w \in Workers : Keeps(w) \/ Drops(w)
         \/ /\ UNCHANGED expired
            /\ \A w \in Workers :
                 \/ Keeps(w) /\ ~(Claimed(w) /\ task[w] = t /\ token[w] = lease[t])
                 \/ Drops(w)
  PROVE  LeaseParts'
  <1> USE DEF LeaseParts
  <1>1. /\ \A w \in Workers : Holding(w)' => Holding(w) /\ UNCHANGED <<task[w], token[w]>>
        /\ \A w \in Workers : Claimed(w)' => Claimed(w) /\ UNCHANGED <<task[w], token[w]>>
        /\ \A w \in Workers : BeforeRun(w)' => BeforeRun(w) /\ UNCHANGED <<task[w], token[w]>>
        /\ \A w \in Workers : pc'[w] = "set" => pc[w] = "set" /\ UNCHANGED <<task[w], token[w]>>
    BY DEF Keeps, Drops, Holding, Claimed, BeforeRun
  <1>2. TokensDrawn'
    BY <1>1 DEF TokensDrawn
  <1>3. KeysGranted'
    <2>1. expired' \subseteq granted
      BY DEF KeysGranted
    <2>2. \A u \in Tasks : lease'[u] # 0 =>
            lease'[u] = lease[u] /\ <<u, lease[u]>> \notin expired'
      BY DEF KeysGranted, TypeOK, LeaseTypeOK
    <2> QED BY <1>1, <2>1, <2>2 DEF KeysGranted
  <1>4. ClaimsKept'
    <2> SUFFICES ASSUME NEW w \in Workers, Claimed(w)'
                 PROVE  /\ <<task[w], token[w]>> \in granted
                        /\ lease'[task[w]] = token[w] \/ <<task[w], token[w]>> \in expired'
      BY <1>1 DEF ClaimsKept
    <2>1. Claimed(w) /\ <<task[w], token[w]>> \in granted
      BY <1>1 DEF ClaimsKept
    <2>2. CASE <<task[w], token[w]>> \in expired
      BY <2>1, <2>2
    <2>3. CASE lease[task[w]] = token[w] /\ task[w] # t
      BY <2>1, <2>3, task[w] \in Tasks DEF TypeOK, LeaseTypeOK, ClaimOK, Claimed
    <2>4. CASE lease[task[w]] = token[w] /\ task[w] = t
      BY <2>1, <2>4 DEF Drops, Claimed
    <2> QED BY <2>1, <2>2, <2>3, <2>4 DEF ClaimsKept
  <1>5. TokensLabel'
    <2>1. \A w \in Workers : BeforeRun(w) => task[w] \in Tasks
      BY DEF BeforeRun, TypeOK, ClaimOK
    <2>2. \A u \in Tasks : \A i \in 1..Len(runs'[u]) : runs'[u][i].token \in 1..fencing'[u]
      BY DEF TokensLabel, SameTokens
    <2>3. \A w \in Workers : BeforeRun(w)' =>
            \A i \in 1..Len(runs'[task'[w]]) : runs'[task'[w]][i].token # token'[w]
      BY <1>1, <2>1 DEF TokensLabel, SameTokens
    <2>4. RunTokensDiffer'
      BY DEF TokensLabel, SameTokens, RunTokensDiffer
    <2> QED BY <2>2, <2>3, <2>4 DEF TokensLabel
  <1> QED BY <1>2, <1>3, <1>4, <1>5

\* A token is drawn: it is newer than everything the history holds.
LEMMA DrawStep ==
  ASSUME TypeOK, LeaseParts, NEW w \in Workers, NEW t \in Tasks, Draw(w, t)
  PROVE  LeaseParts'
  <1>1. CASE UNCHANGED <<fencing, task, token, pc>>
    BY <1>1, QuietStep DEF Draw, SameTokens, Keeps, stored, leaseVars
  <1>2. CASE /\ DrawToken(t) /\ Goto(w, "set")
             /\ task' = [task EXCEPT ![w] = t]
             /\ token' = [token EXCEPT ![w] = fencing[t] + 1]
    <2>1. /\ \A v \in Workers \ {w} : UNCHANGED <<pc[v], task[v], token[v]>>
          /\ pc'[w] = "set" /\ task'[w] = t /\ token'[w] = fencing[t] + 1
      BY <1>2 DEF Goto, TypeOK, ClaimOK
    <2>2. /\ UNCHANGED <<runs, lease, granted, expired>>
          /\ fencing \in [Tasks -> Nat] /\ fencing' \in [Tasks -> Nat]
          /\ fencing'[t] = fencing[t] + 1
          /\ \A u \in Tasks : fencing[u] <= fencing'[u]
      BY <1>2 DEF Draw, DrawToken, TypeOK, LeaseTypeOK, stored
    <2>3. \A v \in Workers : Holding(v) => task[v] \in Tasks
      BY DEF Holding, TypeOK, ClaimOK
    <2>4. TokensDrawn'
      <3>1. \A v \in Workers : Holding(v)' => token'[v] \in 1..fencing'[task'[v]]
        BY <2>1, <2>2, <2>3 DEF LeaseParts, TokensDrawn, Holding
      <3>2. \A v \in Workers \ {w} : Holding(v) /\ task[v] = t => token[v] # fencing[t] + 1
        BY <2>2, <2>3 DEF LeaseParts, TokensDrawn
      <3>3. \A x, v \in Workers :
              x # v /\ Holding(x)' /\ Holding(v)' /\ task'[x] = task'[v] => token'[x] # token'[v]
        BY <2>1, <3>2 DEF LeaseParts, TokensDrawn, Holding
      <3> QED BY <3>1, <3>3 DEF TokensDrawn
    <2>5. KeysGranted'
      <3>1. \A g \in granted : g[1] \in Tasks /\ g[2] \in 1..fencing[g[1]]
        BY DEF LeaseParts, KeysGranted, TypeOK, LeaseTypeOK
      <3>2. \A g \in granted : g[2] \in 1..fencing'[g[1]]
        BY <3>1, <2>2
      <3>3. <<t, fencing[t] + 1>> \notin granted
        BY <3>1, <2>2
      <3>4. \A v \in Workers : pc'[v] = "set" => <<task'[v], token'[v]>> \notin granted
        BY <2>1, <3>3 DEF LeaseParts, KeysGranted
      <3> QED BY <2>2, <3>2, <3>4 DEF LeaseParts, KeysGranted
    <2>6. ClaimsKept'
      BY <2>1, <2>2 DEF LeaseParts, ClaimsKept, Claimed
    <2>7. TokensLabel'
      <3>1. \A u \in Tasks : \A i \in 1..Len(runs[u]) : runs[u][i].token \in 1..fencing'[u]
        BY <2>2 DEF LeaseParts, TokensLabel
      <3>2. \A i \in 1..Len(runs[t]) : runs[t][i].token # fencing[t] + 1
        BY <2>2 DEF LeaseParts, TokensLabel
      <3>3. \A v \in Workers : BeforeRun(v)' =>
              \A i \in 1..Len(runs[task'[v]]) : runs[task'[v]][i].token # token'[v]
        BY <2>1, <3>2 DEF LeaseParts, TokensLabel, BeforeRun
      <3> QED BY <2>2, <3>1, <3>3 DEF LeaseParts, TokensLabel, RunTokensDiffer
    <2> QED BY <2>4, <2>5, <2>6, <2>7 DEF LeaseParts
  <1> QED BY <1>1, <1>2 DEF Draw

\* A key is set: it was free and its token had never been granted.
LEMMA GrantStep ==
  ASSUME TypeOK, LeaseParts, NEW w \in Workers, pc[w] = "set", lease[task[w]] = 0,
         UNCHANGED <<fencing, expired>>, SameTokens,
         lease' = [lease EXCEPT ![task[w]] = token[w]],
         granted' = granted \cup {<<task[w], token[w]>>},
         \A v \in Workers \ {w} : Keeps(v),
         \/ Drops(w)
         \/ pc'[w] = "check" /\ task'[w] = task[w] /\ token'[w] = token[w]
  PROVE  LeaseParts'
  <1> DEFINE t == task[w]
             k == token[w]
  <1> USE DEF LeaseParts
  <1>0. t \in Tasks /\ k \in Nat \ {0} /\ k \in 1..fencing[t] /\ <<t, k>> \notin granted
    BY DEF TypeOK, ClaimOK, TokensDrawn, Holding, KeysGranted
  <1>1. /\ \A v \in Workers : Holding(v)' => Holding(v) /\ UNCHANGED <<task[v], token[v]>>
        /\ \A v \in Workers : Claimed(v)' => (v = w \/ Claimed(v)) /\ UNCHANGED <<task[v], token[v]>>
        /\ \A v \in Workers : BeforeRun(v)' => BeforeRun(v) /\ UNCHANGED <<task[v], token[v]>>
        /\ \A v \in Workers :
             pc'[v] = "set" => v # w /\ pc[v] = "set" /\ UNCHANGED <<task[v], token[v]>>
    BY DEF Keeps, Drops, Holding, Claimed, BeforeRun
  <1>2. TokensDrawn'
    BY <1>1 DEF TokensDrawn
  <1>3. KeysGranted'
    <2>1. \A g \in granted' : g[2] \in 1..fencing[g[1]]
      BY <1>0 DEF KeysGranted
    <2>2. \A u \in Tasks : lease'[u] # 0 =>
            <<u, lease'[u]>> \in granted' /\ <<u, lease'[u]>> \notin expired
      BY <1>0 DEF KeysGranted, TypeOK, LeaseTypeOK
    <2>3. \A v \in Workers : pc'[v] = "set" => <<task[v], token[v]>> \notin granted'
      <3> SUFFICES ASSUME NEW v \in Workers, pc'[v] = "set"
                   PROVE  <<task[v], token[v]>> \notin granted'
        OBVIOUS
      <3>1. v # w /\ pc[v] = "set"
        BY <1>1
      <3>2. <<task[v], token[v]>> # <<t, k>>
        BY <3>1 DEF TokensDrawn, Holding
      <3> QED BY <3>1, <3>2 DEF KeysGranted
    <2> QED BY <1>1, <2>1, <2>2, <2>3 DEF KeysGranted
  <1>4. ClaimsKept'
    <2> SUFFICES ASSUME NEW v \in Workers, Claimed(v)'
                 PROVE  /\ <<task[v], token[v]>> \in granted'
                        /\ lease'[task[v]] = token[v] \/ <<task[v], token[v]>> \in expired
      BY <1>1 DEF ClaimsKept
    <2>1. CASE v = w
      BY <1>0, <2>1 DEF TypeOK, LeaseTypeOK
    <2>2. CASE v # w
      <3>1. Claimed(v) /\ task[v] \in Tasks /\ token[v] # 0
        BY <1>1, <2>2 DEF Claimed, TypeOK, ClaimOK, TokensDrawn, Holding
      <3>2. CASE task[v] = t
        BY <3>1, <3>2 DEF ClaimsKept
      <3>3. CASE task[v] # t
        BY <3>1, <3>3, <1>0 DEF ClaimsKept, TypeOK, LeaseTypeOK
      <3> QED BY <3>2, <3>3
    <2> QED BY <2>1, <2>2
  <1>5. TokensLabel'
    <2>1. \A v \in Workers : BeforeRun(v) => task[v] \in Tasks
      BY DEF BeforeRun, TypeOK, ClaimOK
    <2>2. \A u \in Tasks : \A i \in 1..Len(runs'[u]) : runs'[u][i].token \in 1..fencing'[u]
      BY DEF TokensLabel, SameTokens
    <2>3. \A v \in Workers : BeforeRun(v)' =>
            \A i \in 1..Len(runs'[task'[v]]) : runs'[task'[v]][i].token # token'[v]
      BY <1>1, <2>1 DEF TokensLabel, SameTokens
    <2>4. RunTokensDiffer'
      BY DEF TokensLabel, SameTokens, RunTokensDiffer
    <2> QED BY <2>2, <2>3, <2>4 DEF TokensLabel
  <1> QED BY <1>2, <1>3, <1>4, <1>5

\* A run is stored under a token no other run carries.
LEMMA AddRunStep ==
  ASSUME TypeOK, LeaseParts, NEW w \in Workers, AddRun(w)
  PROVE  LeaseParts'
  <1>1. CASE UNCHANGED runs
    BY <1>1, QuietStep
       DEF AddRun, SameTokens, Keeps, Goto, Claimed, BeforeRun, TypeOK, ClaimOK, leaseVars, claim
  <1>2. CASE runs' = [runs EXCEPT ![task[w]] =
               Append(@, [token |-> token[w], status |-> "INDEX_CHECK", ended |-> FALSE])]
             /\ Goto(w, "work")
    <2> DEFINE t == task[w]
               row == [token |-> token[w], status |-> "INDEX_CHECK", ended |-> FALSE]
    <2>1. /\ UNCHANGED <<task, token, fencing, lease, granted, expired>>
          /\ pc[w] = "addRun" /\ pc'[w] = "work" /\ t \in Tasks
          /\ \A v \in Workers \ {w} : pc'[v] = pc[v]
      BY <1>2 DEF AddRun, Goto, TypeOK, ClaimOK, leaseVars, claim
    <2>2. /\ Len(runs'[t]) = Len(runs[t]) + 1
          /\ runs'[t][Len(runs[t]) + 1].token = token[w]
          /\ \A i \in 1..Len(runs[t]) : runs'[t][i] = runs[t][i]
          /\ \A u \in Tasks \ {t} : runs'[u] = runs[u]
          /\ \A u \in Tasks : Len(runs[u]) \in Nat
      <3>1. runs[t] \in Seq(RunRec) /\ runs'[t] = Append(runs[t], row)
        BY <1>2, <2>1 DEF TypeOK, StoreOK
      <3>2. \A u \in Tasks \ {t} : runs'[u] = runs[u]
        BY <1>2, <2>1 DEF TypeOK, StoreOK
      <3>3. row.token = token[w]
        OBVIOUS
      <3>4. \A u \in Tasks : Len(runs[u]) \in Nat
        BY DEF TypeOK, StoreOK
      <3> HIDE DEF row
      <3> QED BY <3>1, <3>2, <3>3, <3>4
    <2>3. TokensDrawn' /\ KeysGranted' /\ ClaimsKept'
      BY <2>1 DEF LeaseParts, TokensDrawn, KeysGranted, ClaimsKept, Holding, Claimed
    <2>4. token[w] \in 1..fencing[t] /\ \A i \in 1..Len(runs[t]) : runs[t][i].token # token[w]
      BY <2>1 DEF LeaseParts, TokensDrawn, TokensLabel, Holding, BeforeRun
    <2> HIDE DEF row
    <2>5. \A u \in Tasks : \A i \in 1..Len(runs'[u]) : runs'[u][i].token \in 1..fencing'[u]
      <3> SUFFICES ASSUME NEW u \in Tasks, NEW i \in 1..Len(runs'[u])
                   PROVE  runs'[u][i].token \in 1..fencing[u]
        BY <2>1
      <3>1. CASE u = t /\ i = Len(runs[t]) + 1
        BY <2>2, <2>4, <3>1
      <3>2. CASE ~(u = t /\ i = Len(runs[t]) + 1)
        <4>1. i \in 1..Len(runs[u]) /\ runs'[u][i] = runs[u][i]
          BY <2>1, <2>2, <3>2
        <4> QED BY <4>1 DEF LeaseParts, TokensLabel
      <3> QED BY <3>1, <3>2
    <2>6. \A v \in Workers : BeforeRun(v)' =>
            \A i \in 1..Len(runs'[task'[v]]) : runs'[task'[v]][i].token # token'[v]
      <3> SUFFICES ASSUME NEW v \in Workers, BeforeRun(v)', NEW i \in 1..Len(runs'[task[v]])
                   PROVE  runs'[task[v]][i].token # token[v]
        BY <2>1
      <3>1. v # w /\ BeforeRun(v) /\ task[v] \in Tasks /\ Holding(v) /\ Holding(w)
        BY <2>1 DEF BeforeRun, Holding, TypeOK, ClaimOK
      <3>2. CASE task[v] # t
        BY <2>2, <3>1, <3>2 DEF LeaseParts, TokensLabel
      <3>3. CASE task[v] = t
        <4>1. CASE i \in 1..Len(runs[t])
          BY <2>2, <3>1, <3>3, <4>1 DEF LeaseParts, TokensLabel
        <4>2. CASE i \notin 1..Len(runs[t])
          <5>1. token[v] # token[w]
            BY <3>1, <3>3 DEF LeaseParts, TokensDrawn
          <5>2. i = Len(runs[t]) + 1
            BY <2>1, <2>2, <3>3, <4>2
          <5> QED BY <2>2, <3>3, <5>1, <5>2
        <4> QED BY <4>1, <4>2
      <3> QED BY <3>2, <3>3
    <2>7. RunTokensDiffer'
      <3> SUFFICES ASSUME NEW u \in Tasks, NEW i \in 1..Len(runs'[u]), NEW j \in 1..Len(runs'[u]),
                          runs'[u][i].token = runs'[u][j].token
                   PROVE  i = j
        BY DEF RunTokensDiffer
      <3>1. CASE u = t
        <4> DEFINE n == Len(runs[t])
        <4>1. n \in Nat /\ Len(runs'[t]) = n + 1 /\ runs'[t][n + 1].token = token[w]
          BY <2>1, <2>2
        <4>2. \A x, y \in 1..n : runs'[t][x].token = runs'[t][y].token => x = y
          BY <2>1, <2>2 DEF LeaseParts, TokensLabel, RunTokensDiffer
        <4>3. \A x \in 1..n : runs'[t][x].token # token[w]
          BY <2>2, <2>4
        <4> HIDE DEF n
        <4>4. CASE i \in 1..n /\ j \in 1..n
          BY <3>1, <4>2, <4>4
        <4>5. CASE i = n + 1 \/ j = n + 1
          <5>1. i \in 1..(n + 1) /\ j \in 1..(n + 1)
            BY <3>1, <4>1
          <5> QED BY <3>1, <4>1, <4>3, <4>5, <5>1
        <4> QED BY <3>1, <4>1, <4>4, <4>5
      <3>2. CASE u # t
        <4>1. runs'[u] = runs[u]
          BY <2>2, <3>2
        <4>2. \A x, y \in 1..Len(runs[u]) : runs[u][x].token = runs[u][y].token => x = y
          BY DEF LeaseParts, TokensLabel, RunTokensDiffer
        <4> QED BY <4>1, <4>2
      <3> QED BY <3>1, <3>2
    <2> QED BY <2>3, <2>5, <2>6, <2>7 DEF LeaseParts, TokensLabel
  <1> QED BY <1>1, <1>2 DEF AddRun

\* Moves of one worker that touch neither keys, claims nor tokens of runs.
LEMMA WorkerQuiet ==
  ASSUME TypeOK, LeaseParts, NEW w \in Workers, NEW p, UNCHANGED <<leaseVars, task, token>>,
         SameTokens, pc' = [pc EXCEPT ![w] = p],
         \/ p \in {"idle", "scan"}
         \/ p = pc[w]
         \/ /\ Claimed(w) /\ p \notin {"idle", "scan", "set"}
            /\ BeforeRun(w) \/ p \notin {"check", "giveUp", "load", "addRun"}
  PROVE  LeaseParts' /\ UNCHANGED <<lease, granted>>
  <1>1. \A v \in Workers \ {w} : Keeps(v)
    BY DEF Keeps, TypeOK, ClaimOK
  <1>2. pc'[w] = p
    BY DEF TypeOK, ClaimOK
  <1>3. Keeps(w) \/ Drops(w)
    BY <1>2 DEF Keeps, Drops, Claimed, BeforeRun
  <1>4. \A v \in Workers : Keeps(v) \/ Drops(v)
    BY <1>1, <1>3
  <1> QED BY <1>4, QuietStep DEF leaseVars

\* The lease as the abstract lock sees it.
LockStep == Lock!Next \/ UNCHANGED <<lease, granted>>

LEMMA LeaseWorkerQuiet ==
  ASSUME TypeOK, LeaseParts, NEW w \in Workers,
         \/ Scan(w) \/ Check(w) \/ ScanEnd(w) \/ (\E t \in Tasks : Skip(w, t))
         \/ Load(w) \/ StepFail(w) \/ CloseRun(w) \/ PersistMemories(w)
         \/ (\E s \in WorkStatus : StepBegin(w, s))
         \/ (\E s \in {"COMPLETED", "HUMAN_REVIEW_REQUIRED"} : Finish(w, s))
         \/ FailCheck(w) \/ FailWrite(w) \/ FailClose(w)
  PROVE  LeaseParts' /\ LockStep
  <1> USE DEF Goto, claim, stored, LockStep, Claimed, BeforeRun
  <1>0. UNCHANGED runs => SameTokens
    BY DEF SameTokens
  <1>1. CASE Scan(w)
    BY <1>0, <1>1, WorkerQuiet DEF Scan
  <1>2. CASE Check(w)
    BY <1>0, <1>2, WorkerQuiet DEF Check
  <1>3. CASE ScanEnd(w)
    BY <1>0, <1>3, WorkerQuiet DEF ScanEnd
  <1>4. CASE \E t \in Tasks : Skip(w, t)
    <2>1. pc' = [pc EXCEPT ![w] = pc[w]]
      BY <1>4 DEF Skip, TypeOK, ClaimOK
    <2> QED BY <1>0, <1>4, <2>1, WorkerQuiet DEF Skip
  <1>5. CASE Load(w)
    BY <1>0, <1>5, WorkerQuiet DEF Load
  <1>6. CASE StepFail(w)
    BY <1>0, <1>6, WorkerQuiet DEF StepFail
  <1>7. CASE CloseRun(w)
    <2>1. SameTokens
      BY <1>7, FinishOwnRunKeeps DEF CloseRun, SameTokens, TypeOK, ExecutionOK, Status
    <2> QED BY <1>7, <2>1, WorkerQuiet DEF CloseRun
  <1>8. CASE PersistMemories(w)
    BY <1>0, <1>8, WorkerQuiet DEF PersistMemories
  <1>9. CASE \E s \in WorkStatus : StepBegin(w, s)
    <2>1. pc' = [pc EXCEPT ![w] = pc[w]]
      BY <1>9 DEF StepBegin, TypeOK, ClaimOK
    <2> QED BY <1>0, <1>9, <2>1, WorkerQuiet DEF StepBegin
  <1>10. CASE \E s \in {"COMPLETED", "HUMAN_REVIEW_REQUIRED"} : Finish(w, s)
    BY <1>0, <1>10, WorkerQuiet DEF Finish
  <1>11. CASE FailCheck(w)
    <2>1. SameTokens
      BY <1>0, <1>11, FinishOwnRunKeeps DEF FailCheck, SameTokens, TypeOK, Status, Settled
    <2> QED BY <1>11, <2>1, WorkerQuiet DEF FailCheck
  <1>12. CASE FailWrite(w)
    BY <1>0, <1>12, WorkerQuiet DEF FailWrite
  <1>13. CASE FailClose(w)
    <2>1. SameTokens
      BY <1>13, FinishOwnRunKeeps DEF FailClose, SameTokens, TypeOK, Status, Settled
    <2> QED BY <1>13, <2>1, WorkerQuiet DEF FailClose
  <1> QED
    BY <1>1, <1>2, <1>3, <1>4, <1>5, <1>6, <1>7, <1>8, <1>9, <1>10, <1>11, <1>12, <1>13

\* The second half of TryClaim.
LEMMA LeaseSet ==
  ASSUME TypeOK, LeaseParts, NEW w \in Workers, Set(w)
  PROVE  LeaseParts' /\ LockStep
  <1>0. /\ SameTokens /\ pc[w] = "set" /\ task[w] \in Tasks /\ token[w] \in Nat \ {0}
        /\ <<task[w], token[w]>> \notin granted
        /\ UNCHANGED <<fencing, expired>>
    BY DEF Set, SameTokens, stored, TypeOK, ClaimOK, LeaseParts, TokensDrawn, KeysGranted, Holding
  <1>1. /\ \A v \in Workers \ {w} : Keeps(v)
        /\ \/ Drops(w)
           \/ pc'[w] = "check" /\ task'[w] = task[w] /\ token'[w] = token[w]
    BY DEF Set, NextTry, Goto, Keeps, Drops, TypeOK, ClaimOK
  <1>2. CASE UNCHANGED <<lease, granted>>
    <2>1. lease[task[w]] # token[w]
      BY <1>0 DEF LeaseParts, KeysGranted
    <2>2. Drops(w)
      BY <1>2, <2>1 DEF Set, NextTry, Goto, Drops, TypeOK, ClaimOK
    <2> QED BY <1>0, <1>1, <1>2, <2>2, QuietStep DEF LockStep, leaseVars
  <1>3. CASE ~UNCHANGED <<lease, granted>>
    <2>1. /\ lease[task[w]] = 0
          /\ lease' = [lease EXCEPT ![task[w]] = token[w]]
          /\ granted' = granted \cup {<<task[w], token[w]>>}
      BY <1>3 DEF Set, SetIfAbsent
    <2>2. lease'[task[w]] = token[w]
      BY <1>0, <2>1 DEF TypeOK, LeaseTypeOK
    <2>3. Lock!Grant(task[w])
      BY <1>0, <2>1, <2>2 DEF Lock!Grant
    <2> QED BY <1>0, <1>1, <2>1, <2>3, GrantStep DEF LockStep, Lock!Next
  <1> QED BY <1>2, <1>3

\* The owner deletes its key, or finds that it is not the owner any more.
LEMMA LeaseDelete ==
  ASSUME TypeOK, LeaseParts, NEW w \in Workers, GiveUp(w) \/ Release(w)
  PROVE  LeaseParts' /\ LockStep
  <1>0. /\ SameTokens /\ UNCHANGED <<fencing, granted, expired>> /\ Drops(w)
        /\ Claimed(w) /\ task[w] \in Tasks
        /\ \A v \in Workers \ {w} : Keeps(v)
    BY DEF GiveUp, Release, NextTry, Goto, SameTokens, Drops, Keeps, Claimed, stored, TypeOK, ClaimOK
  <1>1. CASE UNCHANGED lease
    BY <1>0, <1>1, QuietStep DEF LockStep, leaseVars
  <1>2. CASE ~UNCHANGED lease
    <2>1. lease' = [lease EXCEPT ![task[w]] = IF @ = token[w] THEN 0 ELSE @]
      BY <1>2 DEF GiveUp, Release, Delete, DeleteIfEqual
    <2>2. lease[task[w]] = token[w] /\ token[w] # 0
      BY <1>0, <1>2, <2>1 DEF TypeOK, LeaseTypeOK, LeaseParts, TokensDrawn, Holding, Claimed
    <2>3. lease' = [lease EXCEPT ![task[w]] = 0]
      BY <2>1, <2>2
    <2>4. \A v \in Workers \ {w} :
            ~(Claimed(v) /\ task[v] = task[w] /\ token[v] = lease[task[w]])
      BY <1>0, <2>2 DEF LeaseParts, TokensDrawn, Holding, Claimed
    <2>5. Lock!Free(task[w])
      BY <1>0, <2>2, <2>3 DEF Lock!Free
    <2> QED BY <1>0, <2>2, <2>3, <2>4, <2>5, KeyGone DEF LockStep, Lock!Next
  <1> QED BY <1>1, <1>2

LEMMA LeaseWorker ==
  ASSUME TypeOK, LeaseParts, NEW w \in Workers, WorkerStep(w)
  PROVE  LeaseParts' /\ LockStep
  <1>1. ASSUME NEW t \in Tasks, Draw(w, t) PROVE LeaseParts' /\ LockStep
    BY <1>1, DrawStep DEF Draw, LockStep
  <1>2. ASSUME AddRun(w) PROVE LeaseParts' /\ LockStep
    BY <1>2, AddRunStep DEF AddRun, LockStep, leaseVars
  <1> QED BY <1>1, <1>2, LeaseWorkerQuiet, LeaseSet, LeaseDelete DEF WorkerStep

LEMMA LeaseOthers ==
  ASSUME TypeOK, LeaseParts,
         \/ \E w \in Workers : RenewStop(w)
         \/ \E p \in Procs : Restart(p) \/ RecoverStep(p)
         \/ \E u \in Users : NewRequest(u) \/ WriteDecision(u)
         \/ UNCHANGED vars
  PROVE  LeaseParts' /\ LockStep
  <1>0. UNCHANGED runs => SameTokens
    BY DEF SameTokens
  <1>1. UNCHANGED <<pc, task, token>> => \A w \in Workers : Keeps(w)
    BY DEF Keeps
  <1>2. CASE \E w \in Workers : RenewStop(w)
    BY <1>0, <1>1, <1>2, QuietStep DEF RenewStop, LockStep, leaseVars, stored, claim
  <1>3. CASE \E p \in Procs : Restart(p)
    <2>1. \A w \in Workers : Keeps(w) \/ Drops(w)
      BY <1>3 DEF Restart, Keeps, Drops, TypeOK, ClaimOK
    <2> QED BY <1>0, <1>3, <2>1, QuietStep DEF Restart, LockStep, leaseVars, stored
  <1>4. CASE \E p \in Procs : RecoverStep(p)
    <2> PICK p \in Procs : RecoverStep(p)
      BY <1>4
    <2>1. UNCHANGED <<leaseVars, pc, task, token>>
      BY DEF RecoverStep, RecoverSnapshot, RecoverVisit, RecoverCloseRun, RecoverReset,
             RecoverDone, claim
    <2>2. SameTokens
      <3>1. CASE \E i \in toClose[p] : RecoverCloseRun(p, i)
        BY <3>1, RecoverCloseKeeps DEF SameTokens, TypeOK
      <3>2. CASE ~\E i \in toClose[p] : RecoverCloseRun(p, i)
        BY <1>0, <3>2 DEF RecoverStep, RecoverSnapshot, RecoverVisit, RecoverReset, RecoverDone, stored
      <3> QED BY <3>1, <3>2
    <2> QED BY <1>1, <2>1, <2>2, QuietStep DEF LockStep, leaseVars
  <1>5. CASE \E u \in Users : NewRequest(u) \/ WriteDecision(u)
    <2>1. UNCHANGED <<leaseVars, pc, task, token, runs>>
      BY <1>5 DEF NewRequest, CreateTask, Decide, WriteDecision, stored, claim
    <2> QED BY <1>0, <1>1, <2>1, QuietStep DEF LockStep, leaseVars
  <1>6. CASE UNCHANGED vars
    BY <1>0, <1>1, <1>6, QuietStep DEF vars, stored, claim, LockStep, leaseVars
  <1> QED BY <1>2, <1>3, <1>4, <1>5, <1>6

LEMMA LeaseClock ==
  ASSUME TypeOK, LeaseParts, NEW t \in Tasks, Expire(t) \/ ExpireRenewed(t)
  PROVE  LeaseParts' /\ LockStep
  <1>1. /\ lease[t] # 0 /\ lease' = [lease EXCEPT ![t] = 0]
        /\ expired' = expired \cup {<<t, lease[t]>>}
        /\ UNCHANGED <<runs, fencing, granted, pc, task, token>>
    BY DEF Expire, ExpireRenewed, ExpireKey, stored, claim
  <1>2. SameTokens /\ \A w \in Workers : Keeps(w)
    BY <1>1 DEF SameTokens, Keeps
  <1>3. Lock!Free(t)
    BY <1>1 DEF Lock!Free
  <1> QED BY <1>1, <1>2, <1>3, KeyGone DEF LockStep, Lock!Next

LEMMA LeaseNext ==
  ASSUME TypeOK, LeaseParts, [Next]_vars
  PROVE  LeaseParts' /\ LockStep
  BY LeaseWorker, LeaseOthers, LeaseClock DEF Next, Rest

LEMMA LeaseInvariant == Spec => []LeaseInv
  <1>1. LeaseInv /\ [Next]_vars => LeaseInv'
    BY TypeNext, LeaseNext DEF LeaseInv, LeaseParts
  <1> QED BY LeaseInit1, <1>1, PTL DEF Spec

\* "Redis leases prevent duplicate execution" (docs/05), for any number of
\* processes, crashes, lost replies and late renewals: of two workers on one
\* task, one has lost its lease to the clock.
THEOREM LeasesExclude == Spec => []LeaseExclusive
  <1>1. LeaseInv => LeaseExclusive
    BY DEF LeaseInv, TokensDrawn, ClaimsKept, LeaseExclusive, Holding, Claimed
  <1> QED BY LeaseInvariant, <1>1, PTL

\* The fencing_token of a run names one execution: TryClaim never gives a token
\* to two executions that store a run.
THEOREM RunTokensUnique == Spec => []RunTokensDiffer
  <1>1. LeaseInv => RunTokensDiffer
    BY DEF LeaseInv, TokensLabel
  <1> QED BY LeaseInvariant, <1>1, PTL

\* The Redis commands of TryClaim and Release, interleaved with expiry and
\* crashes, implement a lock that is granted under fresh tokens only.
THEOREM LeasesImplementLock == Spec => ImplementsLock
  <1>1. Init => Lock!Init
    BY DEF Init, LeaseInit, Lock!Init
  <1>2. LeaseInv /\ [Next]_vars => [Lock!Next]_<<lease, granted>>
    BY LeaseNext DEF LeaseInv, LeaseParts, LockStep
  <1> QED BY <1>1, <1>2, LeaseInvariant, PTL DEF Spec, ImplementsLock, Lock!Spec

-----------------------------------------------------------------------------
(* Results *)

Result == {"COMPLETED", "FAILED", "CANCELLED"}
QuietPoints == {"set", "check", "giveUp", "release"}

\* What ResultsHold says of one step and one task.
ResultKept(t) == UNCHANGED <<status[t], runs[t]>> /\ Quiet(t)'

\* A worker that moves, and does not get beyond the check with the task.
LEMMA ResultWorker ==
  ASSUME NEW t \in Tasks, Quiet(t), NEW w \in Workers,
         UNCHANGED <<decision, toVisit, visiting, status[t], runs[t]>>,
         \A v \in Workers \ {w} : pc'[v] = pc[v] /\ task'[v] = task[v],
         task'[w] = t => pc'[w] \in QuietPoints
  PROVE  ResultKept(t)
  BY DEF ResultKept, Quiet, QuietPoints

\* A worker that leaves the store alone.
LEMMA ResultClaim ==
  ASSUME TypeOK, NEW t \in Tasks, status[t] \in Result, Quiet(t), NEW w \in Workers,
         \/ Scan(w) \/ Set(w) \/ Check(w) \/ GiveUp(w) \/ ScanEnd(w)
         \/ (\E u \in Tasks : Draw(w, u) \/ Skip(w, u)) \/ Release(w) \/ RenewStop(w)
  PROVE  ResultKept(t)
  <1> USE DEF TypeOK, ClaimOK, Goto, stored, claim, recovery
  <1>1. ~Claimable(status[t])
    BY DEF Claimable, Result, Active
  <1>2. UNCHANGED <<decision, toVisit, visiting, status[t], runs[t]>>
    BY DEF Scan, Set, Check, GiveUp, ScanEnd, Draw, Skip, Release, RenewStop
  <1>3. \A v \in Workers \ {w} : pc'[v] = pc[v] /\ task'[v] = task[v]
    BY DEF Scan, Set, NextTry, Check, GiveUp, ScanEnd, Draw, Skip, Release, RenewStop
  <1>4. pc[w] \in {"idle", "scan"} => task[w] # t
    BY DistAssumption
  <1>5. task[w] = t => pc[w] \in QuietPoints
    BY DEF Quiet, QuietPoints
  <1>6. task'[w] = t => pc'[w] \in QuietPoints
    <2>1. CASE Scan(w) \/ ScanEnd(w) \/ (\E u \in Tasks : Skip(w, u)) \/ RenewStop(w)
      BY <1>4, <1>5, <2>1 DEF Scan, ScanEnd, Skip, RenewStop, QuietPoints
    <2>2. CASE Set(w) \/ GiveUp(w) \/ Release(w)
      BY DistAssumption, <2>2 DEF Set, GiveUp, Release, NextTry, QuietPoints
    <2>3. CASE Check(w)
      BY <1>1, <2>3 DEF Check, QuietPoints
    <2>4. CASE \E u \in Tasks : Draw(w, u)
      BY <1>4, <2>4 DEF Draw, QuietPoints
    <2> QED BY <2>1, <2>2, <2>3, <2>4
  <1> QED BY <1>2, <1>3, <1>6, ResultWorker

\* A worker that executes a task: another one.
LEMMA ResultExecute ==
  ASSUME TypeOK, NEW t \in Tasks, Quiet(t), NEW w \in Workers,
         \/ Load(w) \/ AddRun(w) \/ StepFail(w) \/ CloseRun(w) \/ PersistMemories(w)
         \/ (\E s \in WorkStatus : StepBegin(w, s))
         \/ (\E s \in {"COMPLETED", "HUMAN_REVIEW_REQUIRED"} : Finish(w, s))
         \/ FailCheck(w) \/ FailWrite(w) \/ FailClose(w)
  PROVE  ResultKept(t)
  <1> USE DEF TypeOK, ClaimOK, StoreOK, Goto, stored, claim, recovery
  <1>1. pc[w] \in {"load", "addRun", "work", "close", "post", "failing", "failWrite", "failClose"}
    BY DEF Load, AddRun, StepFail, CloseRun, PersistMemories, StepBegin, Finish, FailCheck,
           FailWrite, FailClose
  <1>2. task[w] # t
    BY <1>1 DEF Quiet
  <1>3. UNCHANGED <<decision, toVisit, visiting, task>>
    BY DEF Load, AddRun, StepFail, CloseRun, PersistMemories, StepBegin, Finish, FailCheck,
           FailWrite, FailClose
  <1>4. \A v \in Workers \ {w} : pc'[v] = pc[v]
    BY DEF Load, AddRun, StepFail, CloseRun, PersistMemories, StepBegin, Finish, FailCheck,
           FailWrite, FailClose
  <1>5. status'[t] = status[t]
    BY <1>2 DEF Load, AddRun, StepFail, CloseRun, PersistMemories, StepBegin, Finish, FailCheck,
           FailWrite, FailClose, UpdateTaskForRun, SetStatus
  <1>6. runs'[t] = runs[t]
    BY <1>2 DEF Load, AddRun, StepFail, CloseRun, PersistMemories, StepBegin, Finish, FailCheck,
           FailWrite, FailClose, FinishOwnRun, FinishRun
  <1> QED BY <1>2, <1>3, <1>4, <1>5, <1>6, ResultWorker

\* Recovery of a process: it does not take up a task that has its result.
LEMMA ResultRecovery ==
  ASSUME TypeOK, NEW t \in Tasks, status[t] \in Result, Quiet(t), NEW p \in Procs,
         Restart(p) \/ RecoverStep(p)
  PROVE  ResultKept(t)
  <1> USE DEF TypeOK, StoreOK, RecoveryOK, stored, claim, recovery, ResultKept
  <1>1. CASE Restart(p)
    <2>1. \A w \in Workers : task'[w] = t => task[w] = t /\ pc'[w] = pc[w]
      BY <1>1, DistAssumption DEF Restart
    <2>2. \A u \in Users : decision'[u] = decision[u] \/ decision'[u] = <<>>
      BY <1>1 DEF Restart, HandlersOK
    <2>3. \A q \in Procs : t \notin toVisit'[q] /\ visiting'[q] # t
      BY <1>1, DistAssumption DEF Restart, Quiet
    <2>4. UNCHANGED <<status, runs>>
      BY <1>1 DEF Restart
    <2> QED BY <2>1, <2>2, <2>3, <2>4 DEF Quiet
  <1>2. CASE RecoverStep(p)
    <2>1. UNCHANGED <<pc, task, decision>>
      BY <1>2 DEF RecoverStep, RecoverSnapshot, RecoverVisit, RecoverCloseRun, RecoverReset,
             RecoverDone
    <2>2. \A q \in Procs : t \notin toVisit'[q]
      <3>1. CASE RecoverSnapshot(p)
        <4>1. \A q \in Procs : \/ toVisit'[q] = toVisit[q]
                               \/ toVisit'[q] = {u \in Tasks : status[u] \in Active}
          BY <3>1 DEF RecoverSnapshot
        <4>2. status[t] \notin Active
          BY DEF Result, Active
        <4> QED BY <4>1, <4>2 DEF Quiet
      <3>2. CASE ~RecoverSnapshot(p)
        BY <1>2, <3>2 DEF RecoverStep, RecoverVisit, RecoverCloseRun, RecoverReset, RecoverDone, Quiet
      <3> QED BY <3>1, <3>2
    <2>3. \A q \in Procs : visiting'[q] # t
      BY <1>2, DistAssumption DEF RecoverStep, RecoverSnapshot, RecoverVisit, RecoverCloseRun,
             RecoverReset, RecoverDone, Quiet
    <2>4. visiting[p] # t
      BY DEF Quiet
    <2>5. status'[t] = status[t]
      BY <1>2, <2>4 DEF RecoverStep, RecoverSnapshot, RecoverVisit, RecoverCloseRun,
             RecoverReset, RecoverDone, SetStatus
    <2>6. runs'[t] = runs[t]
      BY <1>2, <2>4 DEF RecoverStep, RecoverSnapshot, RecoverVisit, RecoverCloseRun,
             RecoverReset, RecoverDone, FinishRun
    <2> QED BY <2>1, <2>2, <2>3, <2>5, <2>6 DEF Quiet
  <1> QED BY <1>1, <1>2

\* A handler: it decides on nothing for a task that has its result.
LEMMA ResultHandler ==
  ASSUME TypeOK, NEW t \in Tasks, status[t] \in Result, Quiet(t), NEW u \in Users,
         NewRequest(u) \/ WriteDecision(u)
  PROVE  ResultKept(t)
  <1> USE DEF TypeOK, StoreOK, HandlersOK, stored, claim, recovery, ResultKept
  <1>1. UNCHANGED <<pc, task, toVisit, visiting, runs>>
    BY DEF NewRequest, CreateTask, Decide, WriteDecision
  <1>2. CASE NewRequest(u)
    <2>1. status'[t] = status[t]
      BY <1>2 DEF NewRequest, CreateTask, Decide, SetStatus, Result
    <2>2. \A v \in Users : decision'[v] = <<>> \/ decision'[v].task # t
      BY <1>2 DEF NewRequest, CreateTask, Decide, CanDecide, Quiet, Result, Active
    <2> QED BY <1>1, <2>1, <2>2 DEF Quiet
  <1>3. CASE WriteDecision(u)
    <2>1. status'[t] = status[t]
      BY <1>3 DEF WriteDecision, SetStatus, Quiet
    <2>2. \A v \in Users : decision'[v] = <<>> \/ decision'[v].task # t
      BY <1>3 DEF WriteDecision, Quiet
    <2> QED BY <1>1, <2>1, <2>2 DEF Quiet
  <1> QED BY <1>2, <1>3

LEMMA ResultNext ==
  ASSUME TypeOK, [Next]_vars, NEW t \in Tasks, status[t] \in Result, Quiet(t)
  PROVE  ResultKept(t)
  <1>1. ASSUME NEW w \in Workers, WorkerStep(w) \/ RenewStop(w)  PROVE ResultKept(t)
    BY <1>1, ResultClaim, ResultExecute DEF WorkerStep
  <1>2. CASE (\E u \in Tasks : Expire(u) \/ ExpireRenewed(u)) \/ UNCHANGED vars
    BY <1>2 DEF Expire, ExpireRenewed, vars, stored, claim, recovery, ResultKept, Quiet
  <1> QED BY <1>1, <1>2, ResultRecovery, ResultHandler DEF Next, Rest

\* Once a task has its result and nobody is past the check that leads to a write
\* on it, it keeps result and runs: the snapshots of any number of polling
\* workers, restarts and late handlers lead to no second execution.
THEOREM ResultsAreKept == Spec => ResultsHold
  <1>1. TypeOK /\ [Next]_vars =>
          [\A t \in Tasks :
             status[t] \in {"COMPLETED", "FAILED", "CANCELLED"} /\ Quiet(t) =>
               UNCHANGED <<status[t], runs[t]>> /\ Quiet(t)']_vars
    BY ResultNext DEF Result, ResultKept
  <1> QED BY <1>1, TypeCorrect, PTL DEF Spec, ResultsHold
=============================================================================
