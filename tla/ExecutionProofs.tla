--------------------------- MODULE ExecutionProofs ---------------------------
(* What an execution promises, for every instance of Execution: any sets of  *)
(* edits, any limits, any number of docker faults.  TypeOK comes first; the  *)
(* three safety properties need what holds at each place of the run          *)
(* (PlaceInv) and what the volume holds there (TreeInv); the last section    *)
(* shows step by step that a run implements PatchLoop.                       *)
EXTENDS Execution, TLAPS

RunType == [workflow : Workflows \cup {"standard"}, at : Places, step : 0..MaxSteps,
            attempt : 1..MaxAttempts, target : {"patch_loop", "explainer"}, outcome : Outcomes]
LoopType == [calls : 0..MaxCalls, reads : 0..MaxReads, empties : 0..MaxEmpty,
             finals : 0..MaxFinals, tries : 0..MaxRetries, edited : BOOLEAN,
             seen : [Calls -> 0..MaxRepeats], queue : Seq(Calls)]
ReportType == [applied : BOOLEAN, passed : BOOLEAN, saw : SUBSET Edits]
WorkType == [proposal : SUBSET (Edits \ Ignored), report : ReportType,
             decision : Decisions \cup {"none"}, by : 0..MaxAttempts]

\* TypeOK with the variables as records, and what keeps the counters in their
\* ranges: a repair is planned while an attempt is left, the tool loop starts
\* from zero and leaves the patch agent with its last tolerated failure, and
\* no ignored path is ever staged.
TypeInv ==
  /\ setup \in [client : Clients, doc : BOOLEAN]
  /\ run \in RunType
  /\ loop \in LoopType
  /\ work \in WorkType
  /\ ws \in Workspaces /\ ws.index \cap Ignored = {}
  /\ faults \in 0..MaxFaults
  /\ run.at = "replan" => run.attempt < MaxAttempts
  /\ run.at \in {"create", "codebase", "reset"} => loop = NoLoop
  /\ run.at = "patch" => loop.empties < MaxEmpty /\ loop.finals < MaxFinals

LEMMA TypeInvOK == TypeInv => TypeOK
  BY DEF TypeInv, TypeOK, RunType, LoopType, WorkType, ReportType

-----------------------------------------------------------------------------
(* The operators on a workspace *)

LEMMA WorkspaceTypes ==
  /\ NoWorkspace \in Workspaces /\ NoWorkspace.index = {}
  /\ Imported \in Workspaces /\ Imported.index = {}
  /\ Baseline \in Workspaces /\ Baseline.index = {}
  BY DEF NoWorkspace, Imported, Baseline, Workspaces

\* An orphan container changes nothing of the volume yet.
LEMMA OrphanKeeps ==
  ASSUME NEW w \in Workspaces, NEW c \in Edits \cup {Command}
  PROVE  /\ Orphan(w, c) \in Workspaces
         /\ Orphan(w, c).volume = w.volume /\ Orphan(w, c).files = w.files
         /\ Orphan(w, c).index = w.index /\ Orphan(w, c).stray = w.stray
  BY DEF Orphan, Workspaces

LEMMA CloseKeeps ==
  ASSUME NEW w \in Workspaces
  PROVE  /\ Close(w) \in Workspaces
         /\ Close(w) = w \/ Close(w) = NoWorkspace
         /\ w.late = {} => Close(w) = NoWorkspace
  BY WorkspaceTypes DEF Close

\* A late write is in the files and marked as a stray one.
LEMMA LandAdds ==
  ASSUME NEW w \in Workspaces, NEW c \in w.late
  PROVE  /\ Land(w, c) \in Workspaces
         /\ Land(w, c).volume = w.volume /\ Land(w, c).index = w.index
         /\ Land(w, c).late \subseteq w.late
         /\ w.files \subseteq Land(w, c).files /\ w.stray \subseteq Land(w, c).stray
         /\ Land(w, c).files \ w.files \subseteq Land(w, c).stray
  BY DEF Land, Workspaces

\* An edit adds itself to the files, or nothing.
LEMMA ApplyAdds ==
  ASSUME NEW w \in Workspaces, NEW e \in Edits, NEW r \in Apply(w, e)
  PROVE  /\ r.ws \in Workspaces
         /\ r.ws.index = w.index /\ r.ws.late = w.late
         /\ w.files \subseteq r.ws.files
  <1> DEFINE edited == [w EXCEPT !.files = @ \cup {e}]
  <1>1. /\ edited \in Workspaces /\ edited.index = w.index /\ edited.late = w.late
        /\ w.files \subseteq edited.files
    BY DEF Workspaces
  <1>2. r.ws = edited \/ r.ws = w
    BY DEF Apply, EditFile, WriteFile
  <1> QED BY <1>1, <1>2

\* Staging leaves the files alone and stages all that git does not ignore.
LEMMA StageAdds ==
  ASSUME NEW w \in Workspaces
  PROVE  /\ Stage(w) \in Workspaces
         /\ Stage(w).volume = w.volume /\ Stage(w).files = w.files
         /\ Stage(w).late = w.late /\ Stage(w).stray = w.stray
         /\ Stage(w).index = w.index \cup (w.files \ Ignored)
  BY DEF Stage, Workspaces

LEMMA ResetTreeKeeps ==
  ASSUME NEW w \in Workspaces
  PROVE  /\ ResetTree(w) \in Workspaces
         /\ ResetTree(w).late = w.late /\ ResetTree(w).index = {}
  BY DEF ResetTree, Workspaces

-----------------------------------------------------------------------------
(* The invariant *)

\* What holds at each place of the run: the outcome is open until the run is
\* closed, nothing is proposed before the patch loop, an attempt starts without
\* the last one's patch and report, and only a report that passed is reviewed
\* while another attempt is left.
PlaceInv ==
  /\ run.at \notin {"close", "done"} => run.outcome = "running"
  /\ run.at \in {"create", "orchestrator", "codebase", "explainer", "finish"} => work = NoWork
  /\ run.at \in {"patch", "reset"} => work.report = NoReport /\ work.proposal = {}
  /\ run.at = "review" => (work.report.applied /\ work.report.passed) \/ LastAttempt

\* What the volume holds: containers outlive their clients by a fault only,
\* what is staged is in the files, and the files to be tested are the
\* proposal's, but for ignored ones and late writes.
TreeInv ==
  /\ faults = 0 => ws.late = {}
  /\ ws.index \subseteq ws.files
  /\ run.at = "test" /\ work.proposal # {} =>
       /\ work.proposal \subseteq ws.files
       /\ ws.files \ work.proposal \subseteq Ignored \cup ws.stray

SafeInv == PatchIsTested /\ CompletedIsEarned /\ VolumeReleased
Inv == TypeInv /\ PlaceInv /\ TreeInv /\ SafeInv

\* A step that leaves the volume as it is, orphan containers apart.
KeepsTree ==
  /\ ws' \in Workspaces
  /\ ws'.volume = ws.volume /\ ws'.files = ws.files
  /\ ws'.index = ws.index /\ ws'.stray = ws.stray
  /\ faults' \in 0..MaxFaults
  /\ faults' # 0 \/ (faults = 0 /\ ws'.late = ws.late)

LEMMA Limits ==
  /\ MaxSteps \in Nat \ {0} /\ MaxAttempts \in Nat \ {0} /\ MaxCalls \in Nat \ {0}
  /\ MaxReads \in Nat \ {0} /\ MaxRepeats \in Nat \ {0} /\ MaxEmpty \in Nat \ {0}
  /\ MaxFinals \in Nat \ {0} /\ MaxRetries \in Nat /\ MaxRound \in Nat /\ MaxFaults \in Nat
  BY ExecutionAssumption

LEMMA SteadyKeeps ==
  ASSUME TypeInv, TreeInv, UNCHANGED <<ws, faults>>
  PROVE  KeepsTree
  BY Limits DEF KeepsTree, TypeInv, TreeInv

LEMMA InterruptedKeeps ==
  ASSUME TypeInv, NEW c \in Edits \cup {Command}, Interrupted(c)
  PROVE  KeepsTree
  <1>1. faults' \in 1..MaxFaults
    BY Limits DEF Interrupted, TypeInv
  <1>2. ws \in Workspaces /\ (ws' = ws \/ ws' = Orphan(ws, c))
    BY DEF Interrupted, TypeInv
  <1> QED BY <1>1, <1>2, OrphanKeeps, Limits DEF KeepsTree

\* A loop that may be the one of the place the run is at.
GoodLoop(place, l) ==
  /\ l \in LoopType
  /\ place \in {"create", "codebase", "reset"} => l = NoLoop
  /\ place = "patch" => l.empties < MaxEmpty /\ l.finals < MaxFinals

LEMMA NoLoopGood == \A place : GoodLoop(place, NoLoop)
  <1>1. <<>> \in Seq(Calls)
    OBVIOUS
  <1>2. NoLoop.seen \in [Calls -> 0..MaxRepeats]
    BY Limits DEF NoLoop
  <1> QED BY <1>1, <1>2, Limits DEF GoodLoop, NoLoop, LoopType

LEMMA FailedType ==
  ASSUME TypeInv, NEW o \in Outcomes
  PROVE  /\ Ended(o) \in RunType
         /\ Ended(o).at = "close" /\ Ended(o).outcome = o
         /\ Ended(o).attempt = run.attempt
  BY DEF TypeInv, Ended, RunType, Places, Nodes

-----------------------------------------------------------------------------
(* The kinds of steps *)

\* The run stays where it is.
LEMMA StayStep ==
  ASSUME Inv, UNCHANGED <<setup, run, work>>, KeepsTree, GoodLoop(run.at, loop')
  PROVE  Inv'
  <1>1. TypeInv'
    BY DEF Inv, TypeInv, KeepsTree, GoodLoop
  <1>2. PlaceInv' /\ CompletedIsEarned'
    BY DEF Inv, SafeInv, PlaceInv, CompletedIsEarned, LastAttempt
  <1>3. TreeInv'
    BY DEF Inv, TreeInv, KeepsTree
  <1>4. PatchIsTested'
    BY DEF Inv, SafeInv, PatchIsTested, KeepsTree
  <1>5. VolumeReleased'
    BY DEF Inv, SafeInv, VolumeReleased, KeepsTree, At
  <1> QED BY <1>1, <1>2, <1>3, <1>4, <1>5 DEF Inv, SafeInv

\* What a step leaves in the volume, wherever the run goes.
TreeStep ==
  /\ ws' \in Workspaces /\ ws'.index \cap Ignored = {} /\ ws'.index \subseteq ws'.files
  /\ faults' \in 0..MaxFaults
  /\ faults' = 0 => ws'.late = {}

LEMMA KeptTree ==
  ASSUME Inv, KeepsTree
  PROVE  TreeStep /\ (UNCHANGED work => PatchIsTested')
  BY DEF Inv, TypeInv, TreeInv, SafeInv, KeepsTree, TreeStep, PatchIsTested

\* The run moves on, its outcome still open and its attempt's work unchanged.
LEMMA MoveStep ==
  ASSUME Inv, UNCHANGED <<setup, work>>, TreeStep, PatchIsTested', PlaceInv',
         run' \in RunType, run'.outcome = "running", GoodLoop(run'.at, loop'),
         run'.at \notin {"close", "done", "replan"}, run'.at = "test" => work.proposal = {}
  PROVE  Inv'
  <1>1. TypeInv'
    BY DEF Inv, TypeInv, TreeStep, GoodLoop
  <1>2. CompletedIsEarned' /\ VolumeReleased'
    BY DEF CompletedIsEarned, VolumeReleased, At
  <1>3. TreeInv'
    BY DEF TreeInv, TreeStep
  <1> QED BY <1>1, <1>2, <1>3 DEF Inv, SafeInv

\* The run ends without having been completed.
LEMMA EndStep ==
  ASSUME Inv, UNCHANGED <<setup, work>>, TreeStep, PatchIsTested',
         run' \in RunType, run'.at = "close", run'.outcome # "COMPLETED", loop' \in LoopType
  PROVE  Inv'
  <1>1. TypeInv'
    BY DEF Inv, TypeInv, TreeStep
  <1>2. PlaceInv' /\ CompletedIsEarned' /\ VolumeReleased'
    BY DEF PlaceInv, CompletedIsEarned, VolumeReleased, At
  <1>3. TreeInv'
    BY DEF TreeInv, TreeStep
  <1> QED BY <1>1, <1>2, <1>3 DEF Inv, SafeInv

LEMMA FailedRun ==
  ASSUME TypeInv
  PROVE  Failed \in RunType /\ Failed.at = "close" /\ Failed.outcome = "FAILED"
  <1>1. "FAILED" \in Outcomes
    BY DEF Outcomes
  <1> QED BY <1>1, FailedType DEF Failed

\* The run fails at any place before its end.
LEMMA FailStep ==
  ASSUME Inv, UNCHANGED <<setup, work>>, KeepsTree, loop' \in LoopType, run' = Failed
  PROVE  Inv'
  BY FailedRun, KeptTree, EndStep DEF Inv

\* A node of the workflow is visited before the patch loop, or one too many.
LEMMA VisitRun ==
  ASSUME TypeInv, NEW node \in Nodes, run.step \in Nat
  PROVE  /\ Visit(node) \in RunType
         /\ \/ Visit(node).at = "close" /\ Visit(node).outcome = "FAILED"
            \/ Visit(node).at = node /\ Visit(node).outcome = run.outcome
  <1>1. CASE run.step = MaxSteps
    BY <1>1, FailedRun DEF Visit
  <1>2. CASE run.step # MaxSteps /\ node = "patch"
    <2>1. Visit(node) = [run EXCEPT !.at = node, !.step = 0, !.target = "patch_loop", !.workflow = "standard"]
      BY <1>2 DEF Visit
    <2>2. 0 \in 0..MaxSteps
      BY Limits
    <2> QED BY <1>2, <2>1, <2>2 DEF TypeInv, RunType, Places, Nodes
  <1>3. CASE run.step # MaxSteps /\ node # "patch"
    <2>1. Visit(node) = [run EXCEPT !.at = node, !.step = @ + 1]
      BY <1>3 DEF Visit
    <2>2. run.step + 1 \in 0..MaxSteps
      BY <1>3, Limits DEF TypeInv, RunType
    <2> QED BY <1>3, <2>1, <2>2 DEF TypeInv, RunType, Places
  <1> QED BY <1>1, <1>2, <1>3

LEMMA VisitStep ==
  ASSUME Inv, run.at \in {"create", "orchestrator", "codebase", "explainer"},
         UNCHANGED <<setup, work>>, TreeStep, NEW node \in Nodes, GoodLoop(node, loop'),
         \/ run' = Visit(node)
         \/ \E t \in {"patch_loop", "explainer"} : run' = [Visit(node) EXCEPT !.target = t]
  PROVE  Inv'
  <1>1. work = NoWork /\ run.outcome = "running"
    BY DEF Inv, PlaceInv
  <1>2. run.step \in Nat
    BY Limits DEF Inv, TypeInv, RunType
  <1>3. /\ Visit(node) \in RunType
        /\ \/ Visit(node).at = "close" /\ Visit(node).outcome = "FAILED"
           \/ Visit(node).at = node /\ Visit(node).outcome = "running"
    BY <1>1, <1>2, VisitRun DEF Inv
  <1>4. /\ run' \in RunType
        /\ \/ run'.at = "close" /\ run'.outcome = "FAILED"
           \/ run'.at = node /\ run'.outcome = "running"
    BY <1>3 DEF RunType
  <1>5. PatchIsTested'
    BY <1>1 DEF PatchIsTested, NoWork, NoReport
  <1>6. CASE run'.at = "close" /\ run'.outcome = "FAILED"
    BY <1>4, <1>5, <1>6, EndStep DEF GoodLoop
  <1>7. CASE run'.at = node /\ run'.outcome = "running"
    <2>1. PlaceInv'
      BY <1>1, <1>7 DEF PlaceInv, NoWork, Nodes
    <2>2. node \notin {"close", "done", "replan", "test"}
      BY DEF Nodes
    <2> QED BY <1>4, <1>5, <1>7, <2>1, <2>2, MoveStep
  <1> QED BY <1>4, <1>6, <1>7

\* The files change while the patch agent edits them.
LEMMA EditStep ==
  ASSUME Inv, UNCHANGED <<setup, work, faults>>, At("patch"),
         ws' \in Workspaces, ws'.index \cap Ignored = {}, ws'.index \subseteq ws'.files,
         ws'.late = ws.late,
         \/ UNCHANGED run /\ GoodLoop("patch", loop')
         \/ run' = Failed /\ loop' \in LoopType
  PROVE  Inv'
  <1>0. Failed \in RunType /\ Failed.at = "close" /\ Failed.outcome = "FAILED"
    BY FailedRun DEF Inv
  <1>1. /\ run' \in RunType
        /\ \/ run'.at = "patch" /\ run'.outcome = "running"
           \/ run'.at = "close" /\ run'.outcome = "FAILED"
    <2>1. run \in RunType /\ run.at = "patch" /\ run.outcome = "running"
      BY DEF Inv, TypeInv, PlaceInv, At
    <2> QED BY <1>0, <2>1
  <1>2. loop' \in LoopType /\ (run'.at = "patch" => GoodLoop("patch", loop'))
    BY <1>0 DEF GoodLoop
  <1>3. work.report = NoReport /\ work.proposal = {}
    BY DEF Inv, PlaceInv, At
  <1>4. TypeInv'
    BY <1>1, <1>2 DEF Inv, TypeInv, GoodLoop
  <1>5. PlaceInv' /\ CompletedIsEarned' /\ VolumeReleased'
    BY <1>1, <1>3 DEF PlaceInv, CompletedIsEarned, VolumeReleased, At
  <1>6. TreeInv'
    BY <1>1 DEF Inv, TreeInv
  <1>7. PatchIsTested'
    BY <1>3 DEF PatchIsTested, NoReport
  <1> QED BY <1>4, <1>5, <1>6, <1>7 DEF Inv, SafeInv

-----------------------------------------------------------------------------
(* The steps before the patch loop *)

LEMMA CreateStep == ASSUME Inv, Create  PROVE Inv'
  <1>1. run.at = "create" /\ UNCHANGED <<setup, work, loop>>
    BY DEF Create, At
  <1>2. work = NoWork /\ loop = NoLoop
    BY <1>1 DEF Inv, PlaceInv, TypeInv
  <1>3. \A node : GoodLoop(node, loop')
    BY <1>1, <1>2, NoLoopGood
  <1>4. PatchIsTested'
    BY <1>1, <1>2 DEF PatchIsTested, NoWork, NoReport
  <1>5. CASE ws' = Baseline /\ UNCHANGED faults
             /\ run' = Visit(IF run.workflow = "dynamic" THEN "orchestrator" ELSE "codebase")
    <2>1. Baseline.late = {} /\ Baseline.index = {}
      BY DEF Baseline, Imported, NoWorkspace
    <2>2. TreeStep
      BY <1>5, <2>1, WorkspaceTypes DEF TreeStep, Inv, TypeInv
    <2>3. \E node \in Nodes : run' = Visit(node)
      BY <1>5 DEF Nodes
    <2> QED BY <1>1, <1>3, <2>2, <2>3, VisitStep
  <1>6. ASSUME NEW w \in Workspaces, w.index = {}, ws' = Close(w), run' = Failed,
               faults' \in 0..MaxFaults, faults' # 0 \/ w.late = {}
        PROVE  Inv'
    <2>1. /\ ws' \in Workspaces /\ ws'.index = {}
          /\ faults' = 0 => ws'.late = {}
      BY <1>6, CloseKeeps, WorkspaceTypes DEF NoWorkspace
    <2>2. TreeStep
      BY <1>6, <2>1 DEF TreeStep
    <2> QED BY <1>1, <1>3, <1>4, <1>6, <2>2, EndStep, FailedRun DEF GoodLoop, Inv
  <1>7. CASE ws' = Close(Imported) /\ run' = Failed /\ UNCHANGED faults
    <2>1. Imported.late = {}
      BY DEF Imported, NoWorkspace
    <2> QED BY <1>6, <1>7, <2>1, WorkspaceTypes DEF Inv, TypeInv
  <1>8. CASE faults < MaxFaults /\ faults' = faults + 1
             /\ ws' = Close(Orphan(Imported, Command)) /\ run' = Failed
    <2>1. faults' \in 0..MaxFaults /\ faults' # 0
      BY <1>8, Limits DEF Inv, TypeInv
    <2> QED BY <1>6, <1>8, <2>1, OrphanKeeps, WorkspaceTypes
  <1> QED BY <1>5, <1>7, <1>8 DEF Create

LEMMA DecideStep == ASSUME Inv, Decide  PROVE Inv'
  <1>1. /\ run.at = "orchestrator" /\ UNCHANGED <<setup, work, ws, faults>>
        /\ loop' = NoLoop
    BY DEF Decide, At
  <1>2. PICK choice \in Choices :
          run' = CASE choice.next = "unknown" -> Failed
                   [] choice.next = "finish" -> Ended("HUMAN_REVIEW")
                   [] choice.next = "patch" -> Visit("patch")
                   [] OTHER -> [Visit(choice.next) EXCEPT !.target = choice.target]
    BY DEF Decide
  <1>3. choice.next \in Nodes \cup {"unknown"} /\ choice.target \in {"patch_loop", "explainer"}
    BY DEF Choices, Default, Nodes
  <1>4. KeepsTree /\ TreeStep /\ PatchIsTested'
    BY <1>1, SteadyKeeps, KeptTree DEF Inv
  <1>5. loop' \in LoopType /\ \A node : GoodLoop(node, loop')
    BY <1>1, NoLoopGood DEF GoodLoop
  <1>6. CASE run' = Failed
    BY <1>1, <1>4, <1>5, <1>6, FailStep
  <1>7. CASE run' = Ended("HUMAN_REVIEW")
    <2>1. "HUMAN_REVIEW" \in Outcomes
      BY DEF Outcomes
    <2> QED BY <1>1, <1>4, <1>5, <1>7, <2>1, FailedType, EndStep DEF Inv
  <1>8. CASE choice.next = "patch" /\ run' = Visit("patch")
    BY <1>1, <1>3, <1>4, <1>5, <1>8, VisitStep DEF Nodes
  <1>9. CASE choice.next \in Nodes /\ run' = [Visit(choice.next) EXCEPT !.target = choice.target]
    BY <1>1, <1>3, <1>4, <1>5, <1>9, VisitStep
  <1> QED BY <1>2, <1>3, <1>6, <1>7, <1>8, <1>9

LEMMA CodebaseStep == ASSUME Inv, Codebase  PROVE Inv'
  <1>1. /\ run.at = "codebase" /\ UNCHANGED <<setup, loop, work, ws, faults>>
        /\ run' = Visit(AfterCodebase)
    BY DEF Codebase, At
  <1>2. AfterCodebase \in Nodes /\ loop' = NoLoop
    BY <1>1 DEF AfterCodebase, Nodes, Inv, TypeInv
  <1>3. TreeStep
    BY <1>1, SteadyKeeps, KeptTree DEF Inv
  <1> QED BY <1>1, <1>2, <1>3, NoLoopGood, VisitStep

LEMMA ExplainStep == ASSUME Inv, Explain  PROVE Inv'
  <1>1. /\ run.at = "explainer" /\ UNCHANGED <<setup, work, ws, faults>>
        /\ run' = Visit("finish") /\ loop' = NoLoop
    BY DEF Explain, At
  <1>2. TreeStep
    BY <1>1, SteadyKeeps, KeptTree DEF Inv
  <1> QED BY <1>1, <1>2, NoLoopGood, VisitStep DEF Nodes

\* A run that ends at finish has proposed nothing.
LEMMA FinishStep == ASSUME Inv, Finish  PROVE Inv'
  <1>1. /\ run.at = "finish" /\ UNCHANGED <<setup, loop, work, ws, faults>>
        /\ run' = Ended("COMPLETED") /\ work = NoWork
    BY DEF Finish, At, Inv, PlaceInv
  <1>2. "COMPLETED" \in Outcomes
    BY DEF Outcomes
  <1>3. run' \in RunType /\ run'.at = "close" /\ run'.outcome = "COMPLETED"
    BY <1>1, <1>2, FailedType DEF Inv
  <1>4. TreeStep /\ PatchIsTested'
    BY <1>1, SteadyKeeps, KeptTree DEF Inv
  <1>5. TypeInv'
    BY <1>1, <1>3 DEF Inv, TypeInv
  <1>6. PlaceInv' /\ TreeInv' /\ VolumeReleased'
    BY <1>3, <1>4 DEF PlaceInv, TreeInv, TreeStep, VolumeReleased, At
  <1>7. CompletedIsEarned'
    BY <1>1 DEF CompletedIsEarned, NoWork, NoReport
  <1> QED BY <1>4, <1>5, <1>6, <1>7 DEF Inv, SafeInv

-----------------------------------------------------------------------------
(* The edit loop *)

LEMMA RoundsAreSequences == Rounds \subseteq Seq(Calls)
  <1> SUFFICES ASSUME NEW n \in Nat, NEW round \in [1..n -> Calls]
               PROVE  round \in Seq(Calls)
    <2>1. 0..MaxRound \subseteq Nat /\ 0..1 \subseteq Nat
      BY Limits
    <2> QED BY <2>1 DEF Rounds
  <1> QED OBVIOUS

\* The counters of a loop change one at a time.
LEMMA LoopSteps ==
  ASSUME NEW l \in LoopType
  PROVE  /\ \A c \in Calls : l.seen[c] < MaxRepeats =>
              LET k == [l EXCEPT !.seen[c] = @ + 1]
              IN  k \in LoopType /\ k.empties = l.empties /\ k.finals = l.finals /\ k.reads = l.reads
         /\ \A q \in Seq(Calls) : l.calls < MaxCalls =>
              LET k == [l EXCEPT !.calls = @ + 1, !.queue = q, !.tries = 0]
              IN  k \in LoopType /\ k.empties = l.empties /\ k.finals = l.finals
         /\ l.calls < MaxCalls =>
              LET k == [l EXCEPT !.calls = @ + 1, !.tries = 0]
              IN  k \in LoopType /\ k.empties = l.empties /\ k.finals = l.finals
         /\ l.tries < MaxRetries =>
              LET k == [l EXCEPT !.tries = @ + 1]
              IN  k \in LoopType /\ k.empties = l.empties /\ k.finals = l.finals
         /\ l.finals < MaxFinals =>
              LET k == [l EXCEPT !.finals = @ + 1]
              IN  k \in LoopType /\ k.empties = l.empties /\ k.finals = l.finals + 1
         /\ l.empties < MaxEmpty =>
              LET k == [l EXCEPT !.empties = @ + 1]
              IN  k \in LoopType /\ k.empties = l.empties + 1 /\ k.finals = l.finals
         /\ \A r \in 0..MaxReads :
              LET k == [l EXCEPT !.reads = r]
              IN  k \in LoopType /\ k.empties = l.empties /\ k.finals = l.finals
         /\ LET k == [l EXCEPT !.edited = TRUE]
            IN  k \in LoopType /\ k.empties = l.empties /\ k.finals = l.finals
  <1>1. ASSUME NEW c \in Calls, l.seen[c] < MaxRepeats
        PROVE  l.seen[c] + 1 \in 0..MaxRepeats
    BY <1>1, Limits DEF LoopType
  <1>2. l.calls < MaxCalls => l.calls + 1 \in 0..MaxCalls
    BY Limits DEF LoopType
  <1>3. l.tries < MaxRetries => l.tries + 1 \in 0..MaxRetries
    BY Limits DEF LoopType
  <1>4. l.finals < MaxFinals => l.finals + 1 \in 0..MaxFinals
    BY Limits DEF LoopType
  <1>5. l.empties < MaxEmpty => l.empties + 1 \in 0..MaxEmpty
    BY Limits DEF LoopType
  <1>6. 0 \in 0..MaxRetries
    BY Limits
  <1>7. ASSUME NEW c \in Calls, l.seen[c] < MaxRepeats, NEW k, k = [l EXCEPT !.seen[c] = @ + 1]
        PROVE  k \in LoopType /\ k.empties = l.empties /\ k.finals = l.finals /\ k.reads = l.reads
    BY <1>1, <1>7 DEF LoopType
  <1>8. ASSUME NEW q \in Seq(Calls), l.calls < MaxCalls, NEW k,
               \/ k = [l EXCEPT !.calls = @ + 1, !.queue = q, !.tries = 0]
               \/ k = [l EXCEPT !.calls = @ + 1, !.tries = 0]
        PROVE  k \in LoopType /\ k.empties = l.empties /\ k.finals = l.finals
    BY <1>2, <1>6, <1>8 DEF LoopType
  <1>9. ASSUME l.tries < MaxRetries, NEW k, k = [l EXCEPT !.tries = @ + 1]
        PROVE  k \in LoopType /\ k.empties = l.empties /\ k.finals = l.finals
    BY <1>3, <1>9 DEF LoopType
  <1>10. ASSUME l.finals < MaxFinals, NEW k, k = [l EXCEPT !.finals = @ + 1]
         PROVE  k \in LoopType /\ k.empties = l.empties /\ k.finals = l.finals + 1
    BY <1>4, <1>10 DEF LoopType
  <1>11. ASSUME l.empties < MaxEmpty, NEW k, k = [l EXCEPT !.empties = @ + 1]
         PROVE  k \in LoopType /\ k.empties = l.empties + 1 /\ k.finals = l.finals
    BY <1>5, <1>11 DEF LoopType
  <1>12. ASSUME NEW r \in 0..MaxReads, NEW k, k = [l EXCEPT !.reads = r]
         PROVE  k \in LoopType /\ k.empties = l.empties /\ k.finals = l.finals
    BY <1>12 DEF LoopType
  <1>13. ASSUME NEW k, k = [l EXCEPT !.edited = TRUE]
         PROVE  k \in LoopType /\ k.empties = l.empties /\ k.finals = l.finals
    BY <1>13 DEF LoopType
  <1>14. <<>> \in Seq(Calls)
    OBVIOUS
  <1> QED BY <1>7, <1>8, <1>9, <1>10, <1>11, <1>12, <1>13, <1>14

\* What the loop becomes when the call at the head of its queue is taken.
LEMMA TakenLoop ==
  ASSUME Inv, At("patch"), Calling
  PROVE  /\ Call \in Calls
         /\ GoodLoop("patch", Taken)
         /\ loop.seen[Call] < MaxRepeats => GoodLoop("patch", Counted) /\ Counted.reads = loop.reads
  <1>1. loop \in LoopType /\ loop.empties < MaxEmpty /\ loop.finals < MaxFinals
    BY DEF Inv, TypeInv, At
  <1>2. loop.queue \in Seq(Calls) /\ loop.queue # <<>>
    BY <1>1 DEF Calling, LoopType
  <1>3. Call \in Calls /\ Tail(loop.queue) \in Seq(Calls)
    BY <1>2 DEF Call
  <1>4. Taken \in LoopType /\ Taken.empties = loop.empties /\ Taken.finals = loop.finals
        /\ Taken.seen = loop.seen /\ Taken.reads = loop.reads
    BY <1>1, <1>3 DEF Taken, LoopType
  <1>5. GoodLoop("patch", Taken)
    BY <1>1, <1>4 DEF GoodLoop
  <1>6. ASSUME loop.seen[Call] < MaxRepeats
        PROVE  GoodLoop("patch", Counted) /\ Counted.reads = loop.reads
    <2>1. /\ Counted \in LoopType /\ Counted.empties = Taken.empties
          /\ Counted.finals = Taken.finals /\ Counted.reads = Taken.reads
      BY <1>3, <1>4, <1>6, LoopSteps DEF Counted
    <2> QED BY <1>1, <1>4, <2>1 DEF GoodLoop
  <1> QED BY <1>3, <1>5, <1>6

LEMMA DescribePatchStep == ASSUME Inv, DescribePatch  PROVE Inv'
  <1>1. /\ run.at = "patch" /\ UNCHANGED <<setup, loop, work, ws, faults>>
        /\ run' = [run EXCEPT !.at = "test"]
    BY DEF DescribePatch, At
  <1>2. run' \in RunType /\ run'.at = "test" /\ run'.outcome = "running"
    BY <1>1 DEF Inv, TypeInv, PlaceInv, RunType, Places
  <1>3. TreeStep /\ PatchIsTested'
    BY <1>1, SteadyKeeps, KeptTree DEF Inv
  <1>4. PlaceInv' /\ work.proposal = {}
    BY <1>1, <1>2 DEF Inv, PlaceInv
  <1>5. GoodLoop(run'.at, loop')
    BY <1>1, <1>2 DEF GoodLoop, Inv, TypeInv
  <1> QED BY <1>1, <1>2, <1>3, <1>4, <1>5, MoveStep

LEMMA AnswerStep == ASSUME Inv, Answer  PROVE Inv'
  <1>1. run.at = "patch" /\ UNCHANGED <<setup, run, work, ws, faults>> /\ loop.calls < MaxCalls
    BY DEF Answer, Asking, Editing, At
  <1>2. PICK round \in Rounds : loop' = [loop EXCEPT !.calls = @ + 1, !.queue = round, !.tries = 0]
    BY DEF Answer
  <1>3. round \in Seq(Calls)
    BY RoundsAreSequences
  <1>4. GoodLoop("patch", loop')
    BY <1>1, <1>2, <1>3, LoopSteps DEF GoodLoop, Inv, TypeInv
  <1> QED BY <1>1, <1>4, SteadyKeeps, StayStep DEF Inv

\* Another failure to generate a patch: the loop goes on, or the run fails.
LEMMA EmptyStep ==
  ASSUME Inv, At("patch"), NEW l, GoodLoop("patch", l), Empty(l), UNCHANGED setup,
         \/ KeepsTree
         \/ ws' = Stage(ws) /\ UNCHANGED faults
  PROVE  Inv'
  <1>1. loop' \in LoopType /\ loop'.empties = l.empties + 1 /\ loop'.finals = l.finals
    <2>1. l \in LoopType /\ l.empties < MaxEmpty
      BY DEF GoodLoop
    <2> QED BY <2>1, LoopSteps DEF Empty
  <1>2. UNCHANGED work /\ (run' = Failed \/ (UNCHANGED run /\ GoodLoop("patch", loop')))
    <2>1. l.empties \in Nat /\ l.finals < MaxFinals
      BY Limits DEF GoodLoop, LoopType
    <2> QED BY <1>1, <2>1, Limits DEF Empty, GoodLoop
  <1>3. CASE KeepsTree
    <2>1. CASE run' = Failed
      BY <1>1, <1>2, <1>3, <2>1, FailStep
    <2>2. CASE UNCHANGED run /\ GoodLoop("patch", loop')
      BY <1>2, <1>3, <2>2, StayStep DEF At
    <2> QED BY <1>2, <2>1, <2>2
  <1>4. CASE ws' = Stage(ws) /\ UNCHANGED faults
    <2>1. /\ ws' \in Workspaces /\ ws'.index \cap Ignored = {} /\ ws'.index \subseteq ws'.files
          /\ ws'.late = ws.late
      BY <1>4, StageAdds DEF Inv, TypeInv, TreeInv
    <2> QED BY <1>1, <1>2, <1>4, <2>1, EditStep
  <1> QED BY <1>3, <1>4

\* A patch that is generated is what the tests will find in the volume.
LEMMA GeneratePatchStep ==
  ASSUME Inv, At("patch"), NEW l, GoodLoop("patch", l), GeneratePatch(l), UNCHANGED setup
  PROVE  Inv'
  <1>1. CASE Interrupted(Command) /\ Empty(l)
    BY <1>1, InterruptedKeeps, EmptyStep DEF Inv
  <1>2. CASE ws' = Stage(ws) /\ UNCHANGED faults /\ Empty(l)
    BY <1>2, EmptyStep
  <1>3. CASE /\ ws' = Stage(ws) /\ UNCHANGED faults /\ loop' = NoLoop
             /\ work' = [work EXCEPT !.proposal = ws'.index]
             /\ run' = [run EXCEPT !.at = "test"]
    <2>1. /\ ws \in Workspaces /\ ws.index \cap Ignored = {} /\ ws.index \subseteq ws.files
          /\ work.report = NoReport /\ run.outcome = "running"
      BY DEF Inv, TypeInv, TreeInv, PlaceInv, At
    <2>2. /\ ws' \in Workspaces /\ ws'.files = ws.files /\ ws'.late = ws.late
          /\ ws'.index = ws.index \cup (ws.files \ Ignored)
      BY <1>3, <2>1, StageAdds
    <2>3. ws'.index \subseteq Edits \ Ignored /\ ws'.index \subseteq ws'.files
          /\ ws'.files \ ws'.index \subseteq Ignored
      BY <2>1, <2>2 DEF Workspaces
    <2>4. work' \in WorkType /\ work'.proposal = ws'.index /\ work'.report = NoReport
      BY <1>3, <2>1, <2>3 DEF Inv, TypeInv, WorkType
    <2>5. run' \in RunType /\ run'.at = "test" /\ run'.outcome = "running"
      BY <1>3, <2>1 DEF Inv, TypeInv, RunType, Places
    <2>6. loop' \in LoopType
      BY <1>3, NoLoopGood DEF GoodLoop
    <2>7. TypeInv'
      BY <1>3, <2>2, <2>3, <2>4, <2>5, <2>6 DEF Inv, TypeInv
    <2>8. PlaceInv' /\ CompletedIsEarned' /\ VolumeReleased'
      BY <2>5 DEF PlaceInv, CompletedIsEarned, VolumeReleased, At
    <2>9. TreeInv'
      BY <1>3, <2>2, <2>3, <2>4 DEF TreeInv, Inv
    <2>10. PatchIsTested'
      BY <2>4 DEF PatchIsTested, NoReport
    <2> QED BY <2>7, <2>8, <2>9, <2>10 DEF Inv, SafeInv
  <1> QED BY <1>1, <1>2, <1>3 DEF GeneratePatch

LEMMA FinalAnswerStep == ASSUME Inv, FinalAnswer  PROVE Inv'
  <1> DEFINE l == [loop EXCEPT !.calls = @ + 1, !.tries = 0]
  <1>1. run.at = "patch" /\ UNCHANGED setup /\ loop.calls < MaxCalls
    BY DEF FinalAnswer, Asking, Editing, At
  <1>2. GoodLoop("patch", l)
    BY <1>1, LoopSteps DEF GoodLoop, Inv, TypeInv
  <1>3. CASE loop.edited
    <2>1. GeneratePatch(l)
      BY <1>3 DEF FinalAnswer
    <2> QED BY <1>1, <1>2, <2>1, GeneratePatchStep DEF At
  <1>4. CASE ~loop.edited
    <2> HIDE DEF l
    <2>1. /\ loop' = [l EXCEPT !.finals = @ + 1] /\ UNCHANGED <<work, ws, faults>>
          /\ run' = IF l.finals + 1 >= MaxFinals THEN Failed ELSE run
      BY <1>4 DEF FinalAnswer, l
    <2>2. l \in LoopType /\ l.finals \in Nat /\ l.finals < MaxFinals /\ l.empties < MaxEmpty
      BY <1>2, Limits DEF GoodLoop, LoopType
    <2>3. loop' \in LoopType /\ loop'.finals = l.finals + 1 /\ loop'.empties = l.empties
      BY <2>1, <2>2, LoopSteps
    <2>4. KeepsTree
      BY <2>1, SteadyKeeps DEF Inv
    <2>5. CASE l.finals + 1 >= MaxFinals
      BY <1>1, <2>1, <2>3, <2>4, <2>5, FailStep
    <2>6. CASE ~(l.finals + 1 >= MaxFinals)
      <3>1. GoodLoop("patch", loop')
        BY <2>2, <2>3, <2>6, Limits DEF GoodLoop
      <3> QED BY <1>1, <2>1, <2>4, <2>6, <3>1, StayStep
    <2> QED BY <2>5, <2>6
  <1> QED BY <1>3, <1>4

LEMMA GiveUpStep == ASSUME Inv, GiveUp  PROVE Inv'
  <1>1. UNCHANGED <<setup, work, ws, faults>> /\ run' = Failed /\ loop' = NoLoop
    BY DEF GiveUp
  <1>2. loop' \in LoopType
    BY <1>1, NoLoopGood DEF GoodLoop
  <1> QED BY <1>1, <1>2, SteadyKeeps, FailStep DEF Inv

LEMMA SeenBelow ==
  ASSUME Inv, At("patch"), Calling, ~Exhausted
  PROVE  /\ Premature \/ loop.seen[Call] < MaxRepeats
         /\ Call = "read" => loop.reads < MaxReads
  <1>1. loop \in LoopType /\ Call \in Calls
    BY TakenLoop DEF Inv, TypeInv
  <1>2. loop.seen[Call] \in Nat /\ loop.reads \in Nat
    BY <1>1, Limits DEF LoopType
  <1> QED BY <1>2, Limits DEF Exhausted

LEMMA RefuseStep == ASSUME Inv, Refuse  PROVE Inv'
  <1>1. run.at = "patch" /\ Calling /\ UNCHANGED <<setup, run, work, ws, faults>>
    BY DEF Refuse, Calling, Editing, At
  <1>2. GoodLoop("patch", loop')
    <2>1. CASE Premature
      BY <1>1, <2>1, TakenLoop DEF Refuse, At
    <2>2. CASE ~Premature
      <3>1. GoodLoop("patch", Counted)
        BY <1>1, <2>2, SeenBelow, TakenLoop DEF Refuse, At
      <3>2. loop' = [Counted EXCEPT !.reads = IF Call \in Edits THEN 0 ELSE @]
        BY <2>2 DEF Refuse
      <3>3. loop' = Counted \/ loop' = [Counted EXCEPT !.reads = 0]
        <4>1. Counted = [Counted EXCEPT !.reads = @]
          BY <3>1 DEF GoodLoop, LoopType
        <4> QED BY <3>2, <4>1
      <3>4. 0 \in 0..MaxReads /\ Counted \in LoopType
        BY <3>1, Limits DEF GoodLoop
      <3>5. /\ loop' \in LoopType /\ loop'.empties = Counted.empties
            /\ loop'.finals = Counted.finals
        BY <3>3, <3>4 DEF LoopType
      <3> QED BY <3>1, <3>5 DEF GoodLoop
    <2> QED BY <2>1, <2>2
  <1> QED BY <1>1, <1>2, SteadyKeeps, StayStep DEF Inv

LEMMA ReadStep == ASSUME Inv, Read  PROVE Inv'
  <1>1. run.at = "patch" /\ Calling /\ UNCHANGED <<setup, run, work>> /\ Call = "read"
        /\ ~Exhausted
    BY DEF Read, Calling, Editing, At
  <1>2. ~Premature
    BY <1>1 DEF Premature
  <1>3. GoodLoop("patch", Counted) /\ Counted.reads = loop.reads /\ loop.reads < MaxReads
    BY <1>1, <1>2, SeenBelow, TakenLoop DEF At
  <1>4. GoodLoop("patch", loop')
    <2>1. loop' = [Counted EXCEPT !.reads = @ + 1]
      BY DEF Read
    <2>2. Counted \in LoopType /\ Counted.reads + 1 \in 0..MaxReads
      BY <1>3, Limits DEF GoodLoop, LoopType
    <2> QED BY <1>3, <2>1, <2>2, LoopSteps DEF GoodLoop
  <1>5. KeepsTree
    BY SteadyKeeps, InterruptedKeeps DEF Read, Inv
  <1> QED BY <1>1, <1>4, <1>5, StayStep

LEMMA EditCallStep == ASSUME Inv, Edit  PROVE Inv'
  <1>1. run.at = "patch" /\ Calling /\ UNCHANGED <<setup, run, work>> /\ Call \in Edits
        /\ ~Exhausted /\ ~Premature
    BY DEF Edit, Calling, Editing, At, Refused
  <1>2. GoodLoop("patch", Counted)
    BY <1>1, SeenBelow, TakenLoop DEF At
  <1>3. GoodLoop("patch", loop')
    <2>1. loop' = [Counted EXCEPT !.edited = TRUE, !.reads = 0]
      BY DEF Edit
    <2>2. 0 \in 0..MaxReads /\ Counted \in LoopType
      BY <1>2, Limits DEF GoodLoop
    <2>3. /\ loop' \in LoopType /\ loop'.empties = Counted.empties
          /\ loop'.finals = Counted.finals
      BY <2>1, <2>2 DEF LoopType
    <2> QED BY <1>2, <2>3 DEF GoodLoop
  <1>4. CASE Interrupted(Call)
    BY <1>1, <1>3, <1>4, InterruptedKeeps, StayStep DEF Inv
  <1>5. CASE UNCHANGED faults /\ \E result \in Apply(ws, Call) : ws' = result.ws
    <2>1. /\ ws' \in Workspaces /\ ws'.index = ws.index /\ ws'.late = ws.late
          /\ ws.files \subseteq ws'.files
      BY <1>1, <1>5, ApplyAdds DEF Inv, TypeInv
    <2>2. ws'.index \cap Ignored = {} /\ ws'.index \subseteq ws'.files
      BY <2>1 DEF Inv, TypeInv, TreeInv
    <2> QED BY <1>1, <1>3, <1>5, <2>1, <2>2, EditStep DEF At
  <1> QED BY <1>4, <1>5 DEF Edit

LEMMA GenerateStep == ASSUME Inv, Generate  PROVE Inv'
  <1>1. run.at = "patch" /\ Calling /\ UNCHANGED setup /\ ~Exhausted /\ ~Premature
        /\ GeneratePatch(Counted)
    BY DEF Generate, Calling, Editing, At, Refused
  <1>2. GoodLoop("patch", Counted)
    BY <1>1, SeenBelow, TakenLoop DEF At
  <1> QED BY <1>1, <1>2, GeneratePatchStep DEF At

-----------------------------------------------------------------------------
(* Test, review and the next attempt *)

\* A report on what the volume holds, or on nothing.
LEMMA TestedStep ==
  ASSUME Inv, At("test"), UNCHANGED setup, KeepsTree, NEW report \in ReportType, Tested(report),
         report.passed => report.applied,
         report.applied => work.proposal # {} /\ report.saw = ws.files
  PROVE  Inv'
  <1> DEFINE final == [report EXCEPT !.passed = @ \/ (setup.doc /\ report.applied)]
  <1>1. /\ final \in ReportType /\ final.applied = report.applied /\ final.saw = report.saw
        /\ final.passed => report.applied
    <2>1. setup.doc \in BOOLEAN
      BY DEF Inv, TypeInv
    <2> QED BY <2>1 DEF ReportType
  <1>2. /\ work' = [work EXCEPT !.report = final]
        /\ run' = [run EXCEPT !.at = AfterTest(final)]
        /\ loop' = NoLoop
    BY DEF Tested
  <1> HIDE DEF final
  <1>3. /\ AfterTest(final) \in {"review", "replan"}
        /\ AfterTest(final) = "review" => (final.applied /\ final.passed) \/ LastAttempt
        /\ AfterTest(final) = "replan" => ~LastAttempt
    BY DEF AfterTest
  <1>4. work' \in WorkType /\ work'.report = final /\ work'.proposal = work.proposal
    BY <1>1, <1>2 DEF Inv, TypeInv, WorkType
  <1>5. /\ run' \in RunType /\ run'.at = AfterTest(final) /\ run'.attempt = run.attempt
        /\ run'.outcome = "running"
    BY <1>2, <1>3 DEF Inv, TypeInv, PlaceInv, At, RunType, Places
  <1>6. loop' \in LoopType
    BY <1>2, NoLoopGood DEF GoodLoop
  <1>7. run'.at = "replan" => run'.attempt < MaxAttempts
    BY <1>3, <1>5, Limits DEF LastAttempt, Inv, TypeInv, RunType
  <1>8. TreeStep
    BY KeptTree
  <1>9. TypeInv'
    BY <1>3, <1>4, <1>5, <1>6, <1>7, <1>8 DEF Inv, TypeInv, TreeStep
  <1>10. PlaceInv'
    BY <1>3, <1>4, <1>5 DEF PlaceInv, LastAttempt
  <1>11. TreeInv' /\ CompletedIsEarned' /\ VolumeReleased'
    BY <1>3, <1>5, <1>8 DEF TreeInv, TreeStep, CompletedIsEarned, VolumeReleased, At
  <1>12. PatchIsTested'
    BY <1>1, <1>4 DEF PatchIsTested, Inv, TreeInv, At, KeepsTree
  <1> QED BY <1>9, <1>10, <1>11, <1>12 DEF Inv, SafeInv

LEMMA TestStep == ASSUME Inv, Test  PROVE Inv'
  <1>1. At("test") /\ UNCHANGED setup /\ ws.files \subseteq Edits
    BY DEF Test, Inv, TypeInv, Workspaces
  <1>2. NoReport \in ReportType /\ ~NoReport.applied /\ ~NoReport.passed
    BY DEF NoReport, ReportType
  <1>3. ASSUME NEW report \in RunTest(ws)
        PROVE  /\ report \in ReportType /\ (report.passed => report.applied)
               /\ report.applied => report.saw = ws.files
    BY <1>1, <1>2 DEF RunTest, ReportType
  <1>4. CASE Tested(NoReport) /\ UNCHANGED <<ws, faults>>
    BY <1>1, <1>2, <1>4, SteadyKeeps, TestedStep DEF Inv
  <1>5. CASE work.proposal # {} /\ UNCHANGED <<ws, faults>> /\ \E report \in RunTest(ws) : Tested(report)
    <2>1. KeepsTree
      BY <1>5, SteadyKeeps DEF Inv
    <2>2. PICK report \in RunTest(ws) : Tested(report)
      BY <1>5
    <2>3. /\ report \in ReportType /\ (report.passed => report.applied)
          /\ report.applied => report.saw = ws.files
      BY <1>3
    <2> QED BY <1>1, <1>5, <2>1, <2>2, <2>3, TestedStep
  <1>6. CASE /\ work.proposal # {} /\ Interrupted(Command)
             /\ Tested([applied |-> TRUE, passed |-> FALSE, saw |-> ws.files])
    <2> DEFINE report == [applied |-> TRUE, passed |-> FALSE, saw |-> ws.files]
    <2>1. KeepsTree
      BY <1>6, InterruptedKeeps DEF Inv
    <2>2. report \in ReportType /\ report.applied /\ ~report.passed /\ report.saw = ws.files
      BY <1>1 DEF ReportType
    <2>3. Tested(report)
      BY <1>6
    <2> HIDE DEF report
    <2> QED BY <1>1, <1>6, <2>1, <2>2, <2>3, TestedStep
  <1> QED BY <1>4, <1>5, <1>6 DEF Test

LEMMA ReviewRoundStep == ASSUME Inv, ReviewRound  PROVE Inv'
  <1>1. run.at = "review" /\ UNCHANGED <<setup, work>> /\ loop \in LoopType
    BY DEF ReviewRound, At, Inv, TypeInv
  <1>2. KeepsTree
    BY SteadyKeeps, InterruptedKeeps DEF ReviewRound, Inv
  <1>3. CASE loop.calls < MaxCalls /\ loop' = [loop EXCEPT !.calls = @ + 1, !.tries = 0] /\ UNCHANGED run
    <2>1. GoodLoop("review", loop')
      BY <1>1, <1>3, LoopSteps DEF GoodLoop
    <2> QED BY <1>1, <1>2, <1>3, <2>1, StayStep
  <1>4. CASE loop' = NoLoop /\ run' = Failed
    <2>1. loop' \in LoopType
      BY <1>4, NoLoopGood DEF GoodLoop
    <2> QED BY <1>1, <1>2, <1>4, <2>1, FailStep
  <1> QED BY <1>3, <1>4 DEF ReviewRound

\* The decision ends the run or asks for another attempt; an approval is given
\* to the report the run is at review with.
LEMMA ReviewStep == ASSUME Inv, Review  PROVE Inv'
  <1>1. run.at = "review" /\ UNCHANGED <<setup, ws, faults>>
    BY DEF Review, At
  <1>2. PICK decision \in Decisions :
          /\ work' = [work EXCEPT !.decision = decision, !.by = run.attempt]
          /\ run' = AfterReview(decision) /\ loop' = NoLoop
    BY DEF Review, Reviewed
  <1>3. /\ run \in RunType /\ run.outcome = "running" /\ run.attempt \in 0..MaxAttempts
        /\ (work.report.applied /\ work.report.passed) \/ LastAttempt
    BY <1>1, Limits DEF Inv, TypeInv, PlaceInv, RunType
  <1>4. /\ work' \in WorkType /\ work'.report = work.report /\ work'.proposal = work.proposal
        /\ work'.decision = decision /\ work'.by = run.attempt
    BY <1>2, <1>3 DEF Inv, TypeInv, WorkType
  <1>5. /\ run' \in RunType /\ run'.attempt = run.attempt
        /\ \/ run'.at = "replan" /\ ~LastAttempt /\ run'.outcome = "running"
           \/ run'.at = "close" /\ run'.outcome = "COMPLETED" /\ decision = "APPROVE_PROPOSAL"
           \/ run'.at = "close" /\ run'.outcome = "HUMAN_REVIEW"
    <2>1. CASE decision = "REQUEST_CHANGES" /\ ~LastAttempt
      BY <1>2, <1>3, <2>1 DEF AfterReview, RunType, Places
    <2>2. CASE ~(decision = "REQUEST_CHANGES" /\ ~LastAttempt) /\ decision = "APPROVE_PROPOSAL"
      <3>1. run' = Ended("COMPLETED") /\ "COMPLETED" \in Outcomes
        BY <1>2, <2>2 DEF AfterReview, Outcomes
      <3> QED BY <2>2, <3>1, FailedType DEF Inv
    <2>3. CASE ~(decision = "REQUEST_CHANGES" /\ ~LastAttempt) /\ decision # "APPROVE_PROPOSAL"
      <3>1. run' = Ended("HUMAN_REVIEW") /\ "HUMAN_REVIEW" \in Outcomes
        BY <1>2, <2>3 DEF AfterReview, Outcomes
      <3> QED BY <3>1, FailedType DEF Inv
    <2> QED BY <2>1, <2>2, <2>3
  <1>6. loop' \in LoopType
    BY <1>2, NoLoopGood DEF GoodLoop
  <1>7. TreeStep
    BY <1>1, SteadyKeeps, KeptTree DEF Inv
  <1>8. run'.at = "replan" => run'.attempt < MaxAttempts
    BY <1>3, <1>5, Limits DEF LastAttempt
  <1>9. TypeInv'
    BY <1>1, <1>4, <1>5, <1>6, <1>7, <1>8 DEF Inv, TypeInv, TreeStep
  <1>10. PlaceInv' /\ TreeInv' /\ VolumeReleased'
    BY <1>5, <1>7 DEF PlaceInv, TreeInv, TreeStep, VolumeReleased, At
  <1>11. CompletedIsEarned'
    BY <1>3, <1>4, <1>5 DEF CompletedIsEarned, LastAttempt
  <1>12. PatchIsTested'
    BY <1>1, <1>4 DEF PatchIsTested, Inv, SafeInv
  <1> QED BY <1>9, <1>10, <1>11, <1>12 DEF Inv, SafeInv

\* Another attempt: the patch and the report of the last one are forgotten.
LEMMA ReplanStep == ASSUME Inv, Replan  PROVE Inv'
  <1>1. /\ run.at = "replan" /\ UNCHANGED <<setup, ws, faults>> /\ loop' = NoLoop
        /\ run' = [run EXCEPT !.at = "reset", !.attempt = @ + 1]
        /\ work' = [work EXCEPT !.proposal = {}, !.report = NoReport]
    BY DEF Replan, At
  <1>2. run \in RunType /\ run.outcome = "running" /\ run.attempt + 1 \in 1..MaxAttempts
    BY <1>1, Limits DEF Inv, TypeInv, PlaceInv, RunType
  <1>3. run' \in RunType /\ run'.at = "reset" /\ run'.outcome = "running"
    BY <1>1, <1>2 DEF RunType, Places
  <1>4. work' \in WorkType /\ work'.report = NoReport /\ work'.proposal = {}
    <2>1. NoReport \in ReportType
      BY DEF NoReport, ReportType
    <2> QED BY <1>1, <2>1 DEF Inv, TypeInv, WorkType
  <1>5. GoodLoop("reset", loop')
    BY <1>1, NoLoopGood
  <1>6. TreeStep
    BY <1>1, SteadyKeeps, KeptTree DEF Inv
  <1>7. TypeInv'
    BY <1>1, <1>3, <1>4, <1>5, <1>6 DEF Inv, TypeInv, TreeStep, GoodLoop
  <1>8. PlaceInv' /\ TreeInv' /\ CompletedIsEarned' /\ VolumeReleased'
    BY <1>3, <1>4, <1>6 DEF PlaceInv, TreeInv, TreeStep, CompletedIsEarned, VolumeReleased, At
  <1>9. PatchIsTested'
    BY <1>4 DEF PatchIsTested, NoReport
  <1> QED BY <1>7, <1>8, <1>9 DEF Inv, SafeInv

LEMMA ResetStep == ASSUME Inv, Reset  PROVE Inv'
  <1>1. run.at = "reset" /\ UNCHANGED <<setup, loop, work>>
    BY DEF Reset, At
  <1>2. /\ loop' = NoLoop /\ loop' \in LoopType
        /\ work.report = NoReport /\ work.proposal = {} /\ run.outcome = "running"
    BY <1>1, NoLoopGood DEF Inv, TypeInv, PlaceInv, GoodLoop
  <1>3. PatchIsTested'
    BY <1>1, <1>2 DEF PatchIsTested, NoReport
  <1>4. ws \in Workspaces /\ Command \in Edits \cup {Command}
    BY DEF Inv, TypeInv
  <1>5. CASE ws' = ResetTree(ws) /\ run' = [run EXCEPT !.at = "patch"] /\ UNCHANGED faults
    <2>1. TreeStep
      BY <1>4, <1>5, ResetTreeKeeps DEF TreeStep, Inv, TypeInv, TreeInv
    <2>2. run' \in RunType /\ run'.at = "patch" /\ run'.outcome = "running"
      BY <1>2, <1>5 DEF Inv, TypeInv, RunType, Places, Nodes
    <2>3. PlaceInv'
      BY <1>1, <1>2, <2>2 DEF PlaceInv
    <2> QED BY <1>1, <1>2, <1>3, <2>1, <2>2, <2>3, NoLoopGood, MoveStep
  <1>6. CASE /\ faults < MaxFaults /\ faults' = faults + 1 /\ run' = Failed
             /\ ws' \in {ws, ResetTree(ws), Orphan(ws, Command)}
    <2>1. faults' \in 0..MaxFaults /\ faults' # 0
      BY <1>6, Limits DEF Inv, TypeInv
    <2>2. ws' \in Workspaces /\ ws'.index \subseteq ws'.files /\ ws'.index \cap Ignored = {}
      BY <1>4, <1>6, ResetTreeKeeps, OrphanKeeps DEF Inv, TypeInv, TreeInv
    <2>3. TreeStep
      BY <2>1, <2>2 DEF TreeStep
    <2> QED BY <1>1, <1>2, <1>3, <1>6, <2>3, FailedRun, EndStep DEF Inv
  <1> QED BY <1>5, <1>6 DEF Reset

-----------------------------------------------------------------------------
(* Retries, failures and the end of the run *)

LEMMA RetryStep == ASSUME Inv, Retry  PROVE Inv'
  <1>1. /\ UNCHANGED <<setup, run, work, ws, faults>> /\ loop.tries < MaxRetries
        /\ loop' = [loop EXCEPT !.tries = @ + 1]
        /\ run.at \notin {"create", "codebase", "reset"}
    BY DEF Retry, Waiting, Asking, Editing, At
  <1>2. GoodLoop(run.at, loop')
    BY <1>1, LoopSteps DEF GoodLoop, Inv, TypeInv
  <1> QED BY <1>1, <1>2, SteadyKeeps, StayStep DEF Inv

LEMMA AgentFailsStep == ASSUME Inv, AgentFails  PROVE Inv'
  <1>1. UNCHANGED <<setup, work>> /\ run' = Failed /\ loop' = NoLoop
    BY DEF AgentFails
  <1>2. KeepsTree
    BY SteadyKeeps, InterruptedKeeps DEF AgentFails, Inv
  <1>3. loop' \in LoopType
    BY <1>1, NoLoopGood DEF GoodLoop
  <1> QED BY <1>1, <1>2, <1>3, FailStep

\* The end: the run keeps its outcome, its work and its attempt.
LEMMA DoneStep ==
  ASSUME Inv, UNCHANGED <<setup, work>>, run' \in RunType, run'.at = "done",
         run'.attempt = run.attempt, run'.outcome \in {run.outcome, "interrupted"},
         loop' \in LoopType, TreeStep, PatchIsTested', VolumeReleased'
  PROVE  Inv'
  <1>1. TypeInv'
    BY DEF Inv, TypeInv, TreeStep
  <1>2. PlaceInv' /\ TreeInv'
    BY DEF PlaceInv, TreeInv, TreeStep
  <1>3. CompletedIsEarned'
    BY DEF CompletedIsEarned, LastAttempt, Inv, SafeInv
  <1> QED BY <1>1, <1>2, <1>3 DEF Inv, SafeInv

LEMMA CloseWorkspaceStep == ASSUME Inv, CloseWorkspace  PROVE Inv'
  <1>1. UNCHANGED <<setup, loop, work>> /\ run' = [run EXCEPT !.at = "done"] /\ loop' \in LoopType
    BY DEF CloseWorkspace, Inv, TypeInv
  <1>2. /\ run' \in RunType /\ run'.at = "done"
        /\ run'.attempt = run.attempt /\ run'.outcome = run.outcome
    BY <1>1 DEF Inv, TypeInv, RunType, Places
  <1>3. CASE ws' = Close(ws) /\ UNCHANGED faults
    <2>1. ws \in Workspaces /\ (ws' = ws \/ ws' = NoWorkspace)
          /\ (faults = 0 => ws' = NoWorkspace)
      BY <1>3, CloseKeeps DEF Inv, TypeInv, TreeInv
    <2>2. NoWorkspace \in Workspaces /\ NoWorkspace.index = {} /\ NoWorkspace.late = {}
          /\ ~NoWorkspace.volume
      BY WorkspaceTypes DEF NoWorkspace
    <2>3. TreeStep /\ VolumeReleased'
      BY <1>3, <2>1, <2>2 DEF TreeStep, VolumeReleased, Inv, TypeInv, TreeInv
    <2>4. PatchIsTested'
      BY <1>1, <2>1, <2>2 DEF PatchIsTested, Inv, SafeInv
    <2> QED BY <1>1, <1>2, <2>3, <2>4, DoneStep
  <1>4. CASE faults < MaxFaults /\ faults' = faults + 1 /\ UNCHANGED ws
    <2>1. faults' \in 0..MaxFaults /\ faults' # 0
      BY <1>4, Limits DEF Inv, TypeInv
    <2>2. TreeStep /\ VolumeReleased'
      BY <1>4, <2>1 DEF TreeStep, VolumeReleased, Inv, TypeInv, TreeInv
    <2>3. PatchIsTested'
      BY <1>1, <1>4 DEF PatchIsTested, Inv, SafeInv
    <2> QED BY <1>1, <1>2, <2>2, <2>3, DoneStep
  <1> QED BY <1>3, <1>4 DEF CloseWorkspace

LEMMA CrashStep == ASSUME Inv, Crash  PROVE Inv'
  <1>1. /\ UNCHANGED <<setup, work, ws>> /\ loop' = NoLoop
        /\ faults < MaxFaults /\ faults' = faults + 1
        /\ run' = [run EXCEPT !.at = "done", !.outcome = IF @ = "running" THEN "interrupted" ELSE @]
    BY DEF Crash
  <1>2. /\ run' \in RunType /\ run'.at = "done" /\ run'.attempt = run.attempt
        /\ run'.outcome \in {run.outcome, "interrupted"}
    BY <1>1 DEF Inv, TypeInv, RunType, Places, Outcomes
  <1>3. faults' \in 0..MaxFaults /\ faults' # 0
    BY <1>1, Limits DEF Inv, TypeInv
  <1>4. TreeStep /\ VolumeReleased'
    BY <1>1, <1>3 DEF TreeStep, VolumeReleased, Inv, TypeInv, TreeInv
  <1>5. PatchIsTested'
    BY <1>1 DEF PatchIsTested, Inv, SafeInv
  <1>6. loop' \in LoopType
    BY <1>1, NoLoopGood DEF GoodLoop
  <1> QED BY <1>1, <1>2, <1>4, <1>5, <1>6, DoneStep

\* A late write may come at any place; what it adds is a stray file.
LEMMA LateWriteStep == ASSUME Inv, LateWrite  PROVE Inv'
  <1>1. UNCHANGED <<setup, run, loop, work, faults>>
    BY DEF LateWrite
  <1>2. PICK c \in ws.late : ws' = Land(ws, c)
    BY DEF LateWrite
  <1>3. /\ ws \in Workspaces /\ ws.index \cap Ignored = {} /\ ws.index \subseteq ws.files
        /\ faults # 0
    BY DEF Inv, TypeInv, TreeInv
  <1>4. /\ ws' \in Workspaces /\ ws'.volume = ws.volume /\ ws'.index = ws.index
        /\ ws.files \subseteq ws'.files /\ ws.stray \subseteq ws'.stray
        /\ ws'.files \ ws.files \subseteq ws'.stray
    BY <1>2, <1>3, LandAdds
  <1>5. TypeInv' /\ VolumeReleased'
    BY <1>1, <1>3, <1>4 DEF Inv, TypeInv, VolumeReleased
  <1>6. PlaceInv' /\ CompletedIsEarned'
    BY <1>1 DEF Inv, SafeInv, PlaceInv, CompletedIsEarned, LastAttempt
  <1>7. TreeInv'
    BY <1>1, <1>3, <1>4 DEF Inv, TreeInv
  <1>8. PatchIsTested'
    BY <1>1, <1>4 DEF Inv, SafeInv, PatchIsTested
  <1> QED BY <1>5, <1>6, <1>7, <1>8 DEF Inv, SafeInv

-----------------------------------------------------------------------------
(* The theorems *)

LEMMA InvInit == Init => Inv
  <1> SUFFICES ASSUME Init  PROVE Inv
    OBVIOUS
  <1>1. /\ run \in RunType /\ run.at = "create" /\ run.outcome = "running"
    BY Limits DEF Init, RunType, Places, Outcomes
  <1>2. NoReport \in ReportType /\ ~NoReport.passed
    BY DEF NoReport, ReportType
  <1>3. NoWork \in WorkType /\ NoWork.report = NoReport /\ NoWork.proposal = {}
    BY <1>2, Limits DEF NoWork, WorkType
  <1>4. NoWorkspace.late = {} /\ NoWorkspace.index = {}
    BY DEF NoWorkspace
  <1>5. TypeInv
    BY <1>1, <1>3, <1>4, NoLoopGood, WorkspaceTypes, Limits DEF Init, TypeInv, GoodLoop
  <1>6. PlaceInv /\ TreeInv
    BY <1>1, <1>3, <1>4 DEF Init, PlaceInv, TreeInv
  <1>7. SafeInv
    BY <1>1, <1>2, <1>3 DEF Init, SafeInv, PatchIsTested, CompletedIsEarned, VolumeReleased, At
  <1> QED BY <1>5, <1>6, <1>7 DEF Inv

LEMMA InvNext == Inv /\ [Next]_vars => Inv'
  <1> SUFFICES ASSUME Inv, [Next]_vars  PROVE Inv'
    OBVIOUS
  <1>1. CASE Worker
    BY <1>1, CreateStep, DecideStep, CodebaseStep, ExplainStep, DescribePatchStep, AnswerStep,
       FinalAnswerStep, GiveUpStep, RefuseStep, ReadStep, EditCallStep, GenerateStep, TestStep,
       ReviewRoundStep, ReviewStep, ReplanStep, RetryStep, AgentFailsStep, FinishStep, ResetStep,
       CloseWorkspaceStep DEF Worker, Agent
  <1>2. CASE UNCHANGED vars
    <2>1. UNCHANGED <<setup, run, loop, work, ws, faults>>
      BY <1>2 DEF vars
    <2>2. GoodLoop(run.at, loop')
      BY <2>1 DEF GoodLoop, Inv, TypeInv
    <2> QED BY <2>1, <2>2, SteadyKeeps, StayStep DEF Inv
  <1> QED BY <1>1, <1>2, CrashStep, LateWriteStep DEF Next

LEMMA InvHolds == Spec => []Inv
  BY InvInit, InvNext, PTL DEF Spec

\* Every variable keeps to its type: in particular no counter of an agent's
\* loop passes its limit and no run has more than maxPatchAttempts attempts.
THEOREM ExecutionTypes == Spec => []TypeOK
  <1>1. Inv => TypeOK
    BY TypeInvOK DEF Inv
  <1> QED BY <1>1, InvHolds, PTL

\* Passing tests ran on the proposed patch and nothing else that git tracks,
\* late writes of interrupted edits apart, for any edits and any limits.
THEOREM PatchesAreTested == Spec => []PatchIsTested
  <1>1. Inv => PatchIsTested
    BY DEF Inv, SafeInv
  <1> QED BY <1>1, InvHolds, PTL

\* A run is completed by an explanation, or by the approval of the patch of its
\* own last attempt, whose tests passed unless no attempt was left.
THEOREM CompletionsAreEarned == Spec => []CompletedIsEarned
  <1>1. Inv => CompletedIsEarned
    BY DEF Inv, SafeInv
  <1> QED BY <1>1, InvHolds, PTL

\* No run that ends without a fault of docker or a crash leaves its volume.
THEOREM VolumesAreReleased == Spec => []VolumeReleased
  <1>1. Inv => VolumeReleased
    BY DEF Inv, SafeInv
  <1> QED BY <1>1, InvHolds, PTL

-----------------------------------------------------------------------------
(* A run is a patch loop: ImplementsLoop *)

Before == {"create", "orchestrator", "codebase", "explainer", "finish"}

\* No attempt is counted before the patch loop, so a run that ends there has
\* made none.
FirstAttempt == run.at \in Before => run.attempt = 1
LoopInv == Inv /\ FirstAttempt

\* What every step keeps: it is a step of the abstract patch loop or no step.
LoopStep == [Loop!Next]_<<run.attempt, work.proposal, Phase>> /\ FirstAttempt'

LEMMA OpenPhase ==
  ASSUME run.outcome = "running"
  PROVE  /\ Phase \in {"working", "passed", "failed", "repair"}
         /\ run.at \notin {"replan", "review"} => Phase = "working"
         /\ run.at = "replan" => Phase = "repair"
         /\ run.at = "review" =>
              Phase = IF work.report.applied /\ work.report.passed THEN "passed" ELSE "failed"
  BY DEF Phase, At

\* The run stays where it is.
LEMMA SameLoop ==
  ASSUME LoopInv, UNCHANGED <<run, work>>
  PROVE  LoopStep
  BY DEF LoopStep, LoopInv, FirstAttempt, Phase, At

\* The run moves on within an attempt, before its tests.
LEMMA WorkingLoop ==
  ASSUME LoopInv, UNCHANGED work, run'.attempt = run.attempt,
         run.outcome = "running", run'.outcome = "running",
         run.at \notin {"replan", "review"}, run'.at \notin {"replan", "review"},
         run'.at \in Before => run.at \in Before
  PROVE  LoopStep
  <1>1. Phase = "working" /\ Phase' = "working"
    BY DEF Phase, At
  <1> QED BY <1>1 DEF LoopStep, LoopInv, FirstAttempt

\* The run ends without a result.
LEMMA FailedLoop ==
  ASSUME LoopInv, UNCHANGED work, run'.attempt = run.attempt, run.outcome = "running",
         run'.at \in {"close", "done"}, run'.outcome \in {"FAILED", "interrupted"}
  PROVE  LoopStep
  <1>1. Phase' = run'.outcome
    BY DEF Phase
  <1>2. Loop!Fail
    BY <1>1, OpenPhase DEF Loop!Fail
  <1> QED BY <1>2 DEF LoopStep, Loop!Next, FirstAttempt, Before

LEMMA FailsLoop ==
  ASSUME LoopInv, UNCHANGED work, run' = Failed, run.at \notin {"close", "done"}
  PROVE  LoopStep
  <1>1. run.outcome = "running"
    BY DEF LoopInv, Inv, PlaceInv
  <1>2. run'.at = "close" /\ run'.outcome = "FAILED" /\ run'.attempt = run.attempt
    BY FailedType DEF Failed, Outcomes, LoopInv, Inv
  <1> QED BY <1>1, <1>2, FailedLoop

\* The workflow visits its next node.
LEMMA VisitAttempt ==
  ASSUME TypeInv, NEW node \in Nodes
  PROVE  Visit(node).attempt = run.attempt
  <1>1. Failed.attempt = run.attempt
    BY FailedType DEF Failed, Outcomes
  <1> QED BY <1>1 DEF Visit, TypeInv, RunType

LEMMA VisitLoop ==
  ASSUME LoopInv, UNCHANGED work, run.at \in {"create", "orchestrator", "codebase", "explainer"},
         NEW node \in Nodes,
         \/ run' = Visit(node)
         \/ \E t \in {"patch_loop", "explainer"} : run' = [Visit(node) EXCEPT !.target = t]
  PROVE  LoopStep
  <1>1. run.outcome = "running" /\ run.step \in Nat /\ TypeInv
    BY Limits DEF LoopInv, Inv, PlaceInv, TypeInv, RunType
  <1>2. /\ Visit(node) \in RunType /\ Visit(node).attempt = run.attempt
        /\ \/ Visit(node).at = "close" /\ Visit(node).outcome = "FAILED"
           \/ Visit(node).at = node /\ Visit(node).outcome = "running"
    BY <1>1, VisitRun, VisitAttempt
  <1>3. /\ run'.attempt = run.attempt
        /\ \/ run'.at = "close" /\ run'.outcome = "FAILED"
           \/ run'.at = node /\ run'.outcome = "running"
    BY <1>2 DEF RunType
  <1>4. CASE run'.at = "close" /\ run'.outcome = "FAILED"
    BY <1>1, <1>3, <1>4, FailedLoop
  <1>5. CASE run'.at = node /\ run'.outcome = "running"
    BY <1>1, <1>3, <1>5, WorkingLoop DEF Nodes, Before
  <1> QED BY <1>3, <1>4, <1>5

\* The run ends with a result before it has made an attempt.
LEMMA SkipLoop ==
  ASSUME LoopInv, UNCHANGED work, run.at \in Before,
         NEW o \in {"COMPLETED", "HUMAN_REVIEW"}, run' = Ended(o)
  PROVE  LoopStep
  <1>1. run.outcome = "running" /\ work.proposal = {} /\ run.attempt = 1
    BY DEF LoopInv, Inv, PlaceInv, FirstAttempt, Before, NoWork
  <1>2. run'.at = "close" /\ run'.outcome = o /\ run'.attempt = run.attempt
    BY FailedType DEF Outcomes, LoopInv, Inv
  <1>3. Phase = "working" /\ Phase' = o
    BY <1>1, <1>2, OpenPhase DEF Phase, Before
  <1>4. Loop!Skip
    BY <1>1, <1>2, <1>3 DEF Loop!Skip
  <1> QED BY <1>2, <1>4 DEF LoopStep, Loop!Next, FirstAttempt, Before

LEMMA EarlyLoop ==
  ASSUME LoopInv, Create \/ Decide \/ Codebase \/ Explain \/ Finish
  PROVE  LoopStep
  <1>1. CASE Create
    <2>1. UNCHANGED work /\ run.at = "create"
      BY <1>1 DEF Create, At
    <2>2. run' = Failed \/ \E node \in Nodes : run' = Visit(node)
      BY <1>1 DEF Create, Nodes
    <2> QED BY <2>1, <2>2, FailsLoop, VisitLoop
  <1>2. CASE Decide
    <2>1. UNCHANGED work /\ run.at = "orchestrator"
      BY <1>2 DEF Decide, At
    <2>2. PICK choice \in Choices :
            run' = CASE choice.next = "unknown" -> Failed
                     [] choice.next = "finish" -> Ended("HUMAN_REVIEW")
                     [] choice.next = "patch" -> Visit("patch")
                     [] OTHER -> [Visit(choice.next) EXCEPT !.target = choice.target]
      BY <1>2 DEF Decide
    <2>3. choice.next \in Nodes \cup {"unknown"} /\ choice.target \in {"patch_loop", "explainer"}
      BY DEF Choices, Default, Nodes
    <2>4. CASE run' = Failed
      BY <2>1, <2>4, FailsLoop
    <2>5. CASE run' = Ended("HUMAN_REVIEW")
      BY <2>1, <2>5, SkipLoop DEF Before
    <2>6. CASE choice.next = "patch" /\ run' = Visit("patch")
      BY <2>1, <2>3, <2>6, VisitLoop
    <2>7. CASE choice.next \in Nodes /\ run' = [Visit(choice.next) EXCEPT !.target = choice.target]
      BY <2>1, <2>3, <2>7, VisitLoop
    <2> QED BY <2>2, <2>3, <2>4, <2>5, <2>6, <2>7
  <1>3. CASE Codebase
    BY <1>3, VisitLoop DEF Codebase, At, AfterCodebase, Nodes
  <1>4. CASE Explain
    BY <1>4, VisitLoop DEF Explain, At, Nodes
  <1>5. CASE Finish
    BY <1>5, SkipLoop DEF Finish, At, Before
  <1> QED BY <1>1, <1>2, <1>3, <1>4, <1>5

\* The patch agent proposes at most once, and never an empty patch.
LEMMA GenerateLoop ==
  ASSUME LoopInv, At("patch"), NEW l, GeneratePatch(l)
  PROVE  LoopStep
  <1>1. /\ ws \in Workspaces /\ ws.index \cap Ignored = {} /\ run \in RunType /\ work \in WorkType
        /\ work.proposal = {} /\ run.outcome = "running"
    BY DEF LoopInv, Inv, TypeInv, PlaceInv, At
  <1>2. CASE Empty(l)
    <2>1. UNCHANGED work /\ (run' = Failed \/ UNCHANGED run)
      BY <1>2 DEF Empty
    <2> QED BY <2>1, FailsLoop, SameLoop DEF At
  <1>3. CASE /\ ws' = Stage(ws) /\ ws'.index # {}
             /\ work' = [work EXCEPT !.proposal = ws'.index]
             /\ run' = [run EXCEPT !.at = "test"]
    <2>1. ws'.index \in SUBSET (Edits \ Ignored) /\ ws'.index # {}
      BY <1>1, <1>3, StageAdds DEF Workspaces
    <2>2. work'.proposal = ws'.index
      BY <1>1, <1>3 DEF WorkType
    <2>3. run'.at = "test" /\ run'.outcome = "running" /\ run'.attempt = run.attempt
      BY <1>1, <1>3 DEF RunType
    <2>4. Phase = "working" /\ Phase' = "working"
      BY <1>1, <2>3 DEF Phase, At
    <2>5. Loop!Propose
      BY <1>1, <2>1, <2>2, <2>3, <2>4 DEF Loop!Propose
    <2> QED BY <2>3, <2>5 DEF LoopStep, Loop!Next, FirstAttempt, Before
  <1> QED BY <1>2, <1>3 DEF GeneratePatch

LEMMA EditLoop ==
  ASSUME LoopInv,
         \/ DescribePatch \/ Answer \/ FinalAnswer \/ GiveUp
         \/ Refuse \/ Read \/ Edit \/ Generate
  PROVE  LoopStep
  <1>1. run.at = "patch" /\ run.outcome = "running" /\ run \in RunType
    BY DEF DescribePatch, Answer, FinalAnswer, GiveUp, Refuse, Read, Edit, Generate,
           Asking, Calling, Editing, At, LoopInv, Inv, PlaceInv, TypeInv
  <1>2. CASE DescribePatch
    <2>1. run'.at = "test" /\ run'.outcome = "running" /\ run'.attempt = run.attempt
      BY <1>1, <1>2 DEF DescribePatch, RunType
    <2> QED BY <1>1, <1>2, <2>1, WorkingLoop DEF DescribePatch, Before
  <1>3. CASE Answer \/ Refuse \/ Read \/ Edit
    BY <1>3, SameLoop DEF Answer, Refuse, Read, Edit
  <1>4. CASE GiveUp
    BY <1>1, <1>4, FailsLoop DEF GiveUp
  <1>5. CASE Generate
    BY <1>1, <1>5, GenerateLoop DEF Generate, At
  <1>6. CASE FinalAnswer
    <2>1. CASE \E l : GeneratePatch(l)
      BY <1>1, <2>1, GenerateLoop DEF At
    <2>2. CASE UNCHANGED work /\ (run' = Failed \/ UNCHANGED run)
      BY <1>1, <2>2, FailsLoop, SameLoop
    <2> QED BY <1>6, <2>1, <2>2 DEF FinalAnswer
  <1> QED BY <1>2, <1>3, <1>4, <1>5, <1>6

\* The tests give a verdict on the patch of the attempt.
LEMMA TestLoop == ASSUME LoopInv, Test  PROVE LoopStep
  <1>1. /\ run.at = "test" /\ run \in RunType /\ work \in WorkType /\ run.outcome = "running"
        /\ setup.doc \in BOOLEAN
    BY DEF Test, At, LoopInv, Inv, TypeInv, PlaceInv
  <1>2. NoReport \in ReportType /\ ~NoReport.applied /\ ~NoReport.passed
    BY DEF NoReport, ReportType
  <1>3. PICK report \in ReportType : Tested(report) /\ (report.applied => work.proposal # {})
    <2>1. ws.files \in SUBSET Edits
      BY DEF LoopInv, Inv, TypeInv, Workspaces
    <2>2. RunTest(ws) \subseteq ReportType
      BY <1>2, <2>1 DEF RunTest, ReportType
    <2>3. [applied |-> TRUE, passed |-> FALSE, saw |-> ws.files] \in ReportType
      BY <2>1 DEF ReportType
    <2> QED BY <1>2, <2>2, <2>3 DEF Test
  <1> DEFINE final == [report EXCEPT !.passed = @ \/ (setup.doc /\ report.applied)]
  <1>4. final \in ReportType /\ (final.applied => work.proposal # {})
    BY <1>1, <1>3 DEF ReportType
  <1>5. work' = [work EXCEPT !.report = final] /\ run' = [run EXCEPT !.at = AfterTest(final)]
    BY <1>3 DEF Tested
  <1> HIDE DEF final
  <1>6. /\ work'.proposal = work.proposal /\ work'.report = final
        /\ run'.at = AfterTest(final) /\ run'.outcome = "running" /\ run'.attempt = run.attempt
    BY <1>1, <1>5 DEF WorkType, RunType
  <1>7. Phase = "working"
    BY <1>1, OpenPhase
  <1>8. CASE final.applied /\ final.passed
    <2>1. Phase' = "passed" /\ run'.at = "review"
      BY <1>6, <1>8 DEF Phase, At, AfterTest
    <2>2. Loop!Test
      BY <1>4, <1>6, <1>7, <1>8, <2>1 DEF Loop!Test
    <2> QED BY <2>1, <2>2 DEF LoopStep, Loop!Next, FirstAttempt, Before
  <1>9. CASE ~(final.applied /\ final.passed)
    <2>1. /\ LastAttempt => Phase' = "failed" /\ run'.at = "review"
          /\ ~LastAttempt => Phase' = "repair" /\ run'.at = "replan"
      BY <1>6, <1>9 DEF Phase, At, AfterTest
    <2>2. LastAttempt <=> ~(run.attempt < MaxAttempts)
      BY <1>1, Limits DEF LastAttempt, RunType
    <2>3. Loop!Test
      BY <1>6, <1>7, <2>1, <2>2 DEF Loop!Test
    <2> QED BY <2>1, <2>3 DEF LoopStep, Loop!Next, FirstAttempt, Before
  <1> QED BY <1>8, <1>9

\* The review changes neither the patch nor the verdict it is about.
LEMMA ReviewLoop == ASSUME LoopInv, Review  PROVE LoopStep
  <1>1. run.at = "review" /\ run \in RunType /\ work \in WorkType /\ run.outcome = "running"
    BY DEF Review, At, LoopInv, Inv, TypeInv, PlaceInv
  <1>2. PICK decision \in Decisions :
          /\ work' = [work EXCEPT !.decision = decision, !.by = run.attempt]
          /\ run' = AfterReview(decision)
    BY DEF Review, Reviewed
  <1>3. work'.proposal = work.proposal /\ Phase \in {"passed", "failed"}
    BY <1>1, <1>2, OpenPhase DEF WorkType
  <1>4. CASE decision = "REQUEST_CHANGES" /\ ~LastAttempt
    <2>1. run' = [run EXCEPT !.at = "replan"] /\ run.attempt < MaxAttempts
      BY <1>1, <1>2, <1>4, Limits DEF AfterReview, LastAttempt, RunType
    <2>2. run'.at = "replan" /\ run'.outcome = "running" /\ run'.attempt = run.attempt
      BY <1>1, <2>1 DEF RunType
    <2>3. Phase' = "repair"
      BY <2>2 DEF Phase, At
    <2>4. Loop!Review
      BY <1>3, <2>1, <2>2, <2>3 DEF Loop!Review
    <2> QED BY <2>2, <2>4 DEF LoopStep, Loop!Next, FirstAttempt, Before
  <1>5. CASE ~(decision = "REQUEST_CHANGES" /\ ~LastAttempt)
    <2>1. PICK o \in {"COMPLETED", "HUMAN_REVIEW"} : run' = Ended(o)
      BY <1>2, <1>5 DEF AfterReview
    <2>2. run'.at = "close" /\ run'.outcome = o /\ run'.attempt = run.attempt
      BY <2>1, FailedType DEF Outcomes, LoopInv, Inv
    <2>3. Phase' = o
      BY <2>2 DEF Phase
    <2>4. Loop!Review
      BY <1>3, <2>2, <2>3 DEF Loop!Review
    <2> QED BY <2>2, <2>4 DEF LoopStep, Loop!Next, FirstAttempt, Before
  <1> QED BY <1>4, <1>5

\* A repair is a new attempt without a patch.
LEMMA ReplanLoop == ASSUME LoopInv, Replan  PROVE LoopStep
  <1>1. run.at = "replan" /\ run \in RunType /\ work \in WorkType /\ run.outcome = "running"
    BY DEF Replan, At, LoopInv, Inv, TypeInv, PlaceInv
  <1>2. /\ run' = [run EXCEPT !.at = "reset", !.attempt = @ + 1]
        /\ work' = [work EXCEPT !.proposal = {}, !.report = NoReport]
    BY DEF Replan
  <1>3. /\ run'.at = "reset" /\ run'.outcome = "running" /\ run'.attempt = run.attempt + 1
        /\ work'.proposal = {}
    BY <1>1, <1>2 DEF RunType, WorkType
  <1>4. Phase = "repair" /\ Phase' = "working"
    BY <1>1, <1>3 DEF Phase, At
  <1>5. Loop!Repair
    BY <1>3, <1>4 DEF Loop!Repair
  <1> QED BY <1>3, <1>5 DEF LoopStep, Loop!Next, FirstAttempt, Before

LEMMA EndLoop ==
  ASSUME LoopInv, Reset \/ ReviewRound \/ Retry \/ AgentFails \/ CloseWorkspace \/ Crash \/ LateWrite
  PROVE  LoopStep
  <1>1. run \in RunType /\ (run.at \notin {"close", "done"} => run.outcome = "running")
    BY DEF LoopInv, Inv, TypeInv, PlaceInv
  <1>2. CASE Reset
    <2>1. run.at = "reset" /\ UNCHANGED work
      BY <1>2 DEF Reset, At
    <2>2. CASE run' = [run EXCEPT !.at = "patch"]
      <3>1. run'.at = "patch" /\ run'.outcome = "running" /\ run'.attempt = run.attempt
        BY <1>1, <2>1, <2>2 DEF RunType
      <3> QED BY <1>1, <2>1, <3>1, WorkingLoop DEF Before
    <2>3. CASE run' = Failed
      BY <2>1, <2>3, FailsLoop
    <2> QED BY <1>2, <2>2, <2>3 DEF Reset
  <1>3. CASE ReviewRound
    BY <1>3, FailsLoop, SameLoop DEF ReviewRound, At
  <1>4. CASE Retry \/ LateWrite
    BY <1>4, SameLoop DEF Retry, LateWrite
  <1>5. CASE AgentFails
    BY <1>5, FailsLoop DEF AgentFails
  <1>6. CASE CloseWorkspace
    <2>1. /\ run.at = "close" /\ UNCHANGED work
          /\ run'.at = "done" /\ run'.outcome = run.outcome /\ run'.attempt = run.attempt
      BY <1>1, <1>6 DEF CloseWorkspace, At, RunType
    <2>2. UNCHANGED Phase
      BY <2>1 DEF Phase, At
    <2> QED BY <2>1, <2>2 DEF LoopStep, FirstAttempt, Before
  <1>7. CASE Crash
    <2>1. /\ UNCHANGED work /\ run'.at = "done" /\ run'.attempt = run.attempt
          /\ run'.outcome = IF run.outcome = "running" THEN "interrupted" ELSE run.outcome
      BY <1>1, <1>7 DEF Crash, RunType
    <2>2. CASE run.outcome = "running"
      BY <2>1, <2>2, FailedLoop
    <2>3. CASE run.outcome # "running"
      <3>1. UNCHANGED Phase
        BY <2>1, <2>3 DEF Phase
      <3> QED BY <2>1, <3>1 DEF LoopStep, FirstAttempt, Before
    <2> QED BY <2>2, <2>3
  <1> QED BY <1>2, <1>3, <1>4, <1>5, <1>6, <1>7

LEMMA LoopInit == Init => Loop!Init /\ FirstAttempt
  <1> SUFFICES ASSUME Init  PROVE Loop!Init /\ FirstAttempt
    OBVIOUS
  <1>1. run.at = "create" /\ run.attempt = 1 /\ run.outcome = "running" /\ work.proposal = {}
    BY DEF Init, NoWork
  <1>2. Phase = "working"
    BY <1>1, OpenPhase
  <1> QED BY <1>1, <1>2 DEF Loop!Init, FirstAttempt

LEMMA LoopNext == LoopInv /\ [Next]_vars => LoopStep
  <1> SUFFICES ASSUME LoopInv, [Next]_vars  PROVE LoopStep
    OBVIOUS
  <1>1. CASE UNCHANGED vars
    BY <1>1, SameLoop DEF vars
  <1> QED BY <1>1, EarlyLoop, EditLoop, TestLoop, ReviewLoop, ReplanLoop, EndLoop
          DEF Next, Worker, Agent

\* The workflow with its patch loop, tool loops, retries, late writes and
\* crashes implements the patch loop a task relies on, for any limits: each
\* attempt's one patch is tested as proposed, and reviewed only if it passed or
\* nothing is left to repair it, and the run ends once.
THEOREM RunsImplementLoop == Spec => ImplementsLoop
  <1>1. LoopInv /\ [Next]_vars => LoopInv' /\ [Loop!Next]_<<run.attempt, work.proposal, Phase>>
    BY InvNext, LoopNext DEF LoopInv, LoopStep
  <1>2. Init => LoopInv /\ Loop!Init
    BY InvInit, LoopInit DEF LoopInv
  <1> QED BY <1>1, <1>2, PTL DEF Spec, ImplementsLoop, Loop!Spec
=============================================================================
